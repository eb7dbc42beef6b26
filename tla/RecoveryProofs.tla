--------------------------- MODULE RecoveryProofs ---------------------------
(***************************************************************************)
(* What a controller leaves when it ends in the middle is on record for the*)
(* next one.  LazyPages, for every number of launches, killed controllers and*)
(* faults: a daemon that lives and whatever its launch leaves are named by a*)
(* durable record, and no launch runs beside another.  ReadinessProbe, for *)
(* every number of runs and profiles: a basis that a probe restored is named*)
(* by the report, and a report with an unsettled profile is not replaced.  *)
(***************************************************************************)
EXTENDS LazyPages, ReadinessProbe, FiniteSetTheorems, TLAPS

-----------------------------------------------------------------------------
(* The lazy-pages launch.                                                  *)

\* The intent and the owner record name the last launch.  An intent that names no
\* daemon excludes an owner; one that does, and an owner, come after the parent exited.
RecordsAt ==
  /\ pending.no \in {0, launches} /\ owner \in {0, launches}
  /\ pending.state = "none" <=> pending.no = 0
  /\ pending.state = "authorized" => owner = 0
  /\ pending.state = "bound" \/ owner # 0 => launcher[launches] = "exited"

\* Only the last launch is at work, and while its parent may fork, under an intent
\* that names no daemon yet.
ProcessesAt ==
  \A n \in Launches :
    /\ DaemonLives(n) => n = launches
    /\ launcher[n] = "running" => pending = [no |-> n, state |-> "authorized"]

\* What a controller in the middle of a launch has written so far.
LaunchAt ==
  /\ lazyPc \in {"spawn", "pend"} => pending.no = 0 /\ owner = 0
  /\ lazyPc \in {"pend", "release", "status", "reap", "bind"} => launches # 0 /\ ~bound
  /\ lazyPc \in {"release", "status", "reap", "bind", "handoff"} =>
       pending.no # 0 /\ pending.state = "authorized"
  /\ lazyPc \in {"bind", "handoff"} => launcher[launches] = "exited"
  /\ lazyPc = "publish" => pending.state = "bound" /\ owner = 0
  /\ lazyPc \in {"clear_pending", "restore", "settle"} => owner # 0
  /\ lazyPc = "cleanup" /\ bound =>
       pending.no # 0 /\ launcher[launches] = "exited"

\* Artifacts go one after the other, of a launch whose processes are all gone.
RetireAt ==
  /\ lazyPc \in {"retire_socket", "retire_pidfile", "retire_owner"} => owner # 0
  /\ lazyPc \in {"retire_socket", "retire_pidfile", "retire_owner", "retire_pending",
                 "clear_socket", "clear_owner", "clear_pidfile", "clear_intent"} =>
       launches # 0 /\ launcher[launches] = "exited" /\ ~DaemonLives(launches)
  /\ lazyPc \in {"retire_pidfile", "retire_owner", "retire_pending",
                 "clear_owner", "clear_pidfile", "clear_intent"} => ~socket
  /\ lazyPc \in {"retire_owner", "retire_pending", "clear_intent"} => pidfiles = {}
  /\ lazyPc \in {"clear_socket", "clear_owner", "clear_pidfile", "clear_intent"} =>
       pending.no # 0
  /\ lazyPc \in {"retire_pending", "clear_pidfile", "clear_intent"} => owner = 0

\* The inductive invariant.
AnchorInv == RecordsAt /\ ProcessesAt /\ LaunchAt /\ RetireAt /\ LaunchAnchored

\* Every action keeps the variables in their types.
LEMMA LazyTypeOKStep ==
  ASSUME LazyTypeOK, [LazyNext]_lazyVars
  PROVE  LazyTypeOK'
  <1> USE LazyAssumption
      DEF Launches, LazyTypeOK, LazyPcs, NoPending, At, GoTo, lazyFiles, lazyProcs
  <1>1. CASE StartRestore \/ RestoreEnds \/ Settle \/ Crash
    <2>1. CASE StartRestore
      BY <2>1 DEF StartRestore
    <2>2. CASE RestoreEnds
      BY <2>2 DEF RestoreEnds
    <2>3. CASE Settle
      BY <2>3 DEF Settle, EndDaemon, Faults
    <2>4. CASE Crash
      <3>1. pending' \in [no : 0..MaxLaunches,
                       state : {"none", "authorized", "bound"}]
            /\ owner' \in 0..MaxLaunches
        BY <2>4 DEF Crash
      <3>2. pidfiles' \subseteq 1..MaxLaunches
            /\ socket' \in BOOLEAN
        BY <2>4 DEF Crash
      <3>3. launcher' \in
              [1..MaxLaunches -> {"none", "gated", "running", "exited", "failed"}]
        BY <2>4 DEF Crash
      <3>4. daemon' \in [1..MaxLaunches -> {"none", "starting", "ready", "gone"}]
        BY <2>4 DEF Crash
      <3>5. launches' \in 0..MaxLaunches
        BY <2>4 DEF Crash
      <3>6. lazyPc' \in LazyPcs
        BY <2>4 DEF Crash
      <3>7. bound' \in BOOLEAN
        BY <2>4 DEF Crash
      <3>8. kills' \in 0..MaxKills /\ faults' \in 0..MaxFaults
        BY <2>4 DEF Crash
      <3> QED BY <3>1, <3>2, <3>3, <3>4, <3>5, <3>6, <3>7, <3>8
    <2> QED BY <1>1, <2>1, <2>2, <2>3, <2>4
  <1>2. CASE Recovery
    <2>1. CASE RecoveryClear
      BY <2>1 DEF RecoveryClear
    <2>2. CASE OwnerReady
      BY <2>2 DEF OwnerReady
    <2>3. CASE StaleOwner
      BY <2>3 DEF StaleOwner
    <2>4. CASE RecoverBound
      BY <2>4 DEF RecoverBound, EndDaemon, LauncherLives
    <2>5. CASE RecoveryBlocked
      BY <2>5 DEF RecoveryBlocked, Faults
    <2> QED BY <1>2, <2>1, <2>2, <2>3, <2>4, <2>5 DEF Recovery
  <1>3. CASE Prepare
    <2>1. CASE PrepareClear
      BY <2>1 DEF PrepareClear
    <2>2. CASE RetirePrior
      BY <2>2 DEF RetirePrior, EndDaemon, Faults
    <2>3. CASE RetireSocket
      BY <2>3 DEF RetireSocket
    <2>4. CASE RetirePidfile
      BY <2>4 DEF RetirePidfile
    <2>5. CASE RetireOwner
      <3>1. pending' \in [no : 0..MaxLaunches,
                       state : {"none", "authorized", "bound"}]
            /\ owner' \in 0..MaxLaunches
        BY <2>5 DEF RetireOwner
      <3>2. pidfiles' \subseteq 1..MaxLaunches
            /\ socket' \in BOOLEAN
        BY <2>5 DEF RetireOwner
      <3>3. launcher' \in
              [1..MaxLaunches -> {"none", "gated", "running", "exited", "failed"}]
        BY <2>5 DEF RetireOwner
      <3>4. daemon' \in [1..MaxLaunches -> {"none", "starting", "ready", "gone"}]
        BY <2>5 DEF RetireOwner
      <3>5. launches' \in 0..MaxLaunches
        BY <2>5 DEF RetireOwner
      <3>6. lazyPc' \in LazyPcs
        BY <2>5 DEF RetireOwner
      <3>7. bound' \in BOOLEAN
        BY <2>5 DEF RetireOwner
      <3>8. kills' \in 0..MaxKills /\ faults' \in 0..MaxFaults
        BY <2>5 DEF RetireOwner
      <3> QED BY <3>1, <3>2, <3>3, <3>4, <3>5, <3>6, <3>7, <3>8
    <2>6. CASE RetirePending
      BY <2>6 DEF RetirePending
    <2> QED BY <1>3, <2>1, <2>2, <2>3, <2>4, <2>5, <2>6 DEF Prepare
  <1>4. CASE Launch
    <2>1. CASE SpawnLauncher
      <3>1. pending' \in [no : 0..MaxLaunches,
                       state : {"none", "authorized", "bound"}]
            /\ owner' \in 0..MaxLaunches
        BY <2>1 DEF SpawnLauncher
      <3>2. pidfiles' \subseteq 1..MaxLaunches
            /\ socket' \in BOOLEAN
        BY <2>1 DEF SpawnLauncher
      <3>3. launcher' \in
              [1..MaxLaunches -> {"none", "gated", "running", "exited", "failed"}]
        BY <2>1 DEF SpawnLauncher
      <3>4. daemon' \in [1..MaxLaunches -> {"none", "starting", "ready", "gone"}]
        BY <2>1 DEF SpawnLauncher
      <3>5. launches' \in 0..MaxLaunches
        BY <2>1 DEF SpawnLauncher
      <3>6. lazyPc' \in LazyPcs
        BY <2>1 DEF SpawnLauncher
      <3>7. bound' \in BOOLEAN
        BY <2>1 DEF SpawnLauncher
      <3>8. kills' \in 0..MaxKills /\ faults' \in 0..MaxFaults
        BY <2>1 DEF SpawnLauncher
      <3> QED BY <3>1, <3>2, <3>3, <3>4, <3>5, <3>6, <3>7, <3>8
    <2>2. CASE WritePending
      BY <2>2 DEF WritePending
    <2>3. CASE Release
      BY <2>3 DEF Release
    <2>4. CASE ObserveStatus
      BY <2>4 DEF ObserveStatus
    <2>5. CASE ReapParent
      BY <2>5 DEF ReapParent
    <2>6. CASE BindDaemon
      BY <2>6 DEF BindDaemon
    <2>7. CASE HandOff
      BY <2>7 DEF HandOff
    <2>8. CASE PublishOwner
      BY <2>8 DEF PublishOwner
    <2>9. CASE ClearPending
      BY <2>9 DEF ClearPending, Faults
    <2>10. CASE LaunchFails
      BY <2>10 DEF LaunchFails
    <2> QED BY <1>4, <2>1, <2>2, <2>3, <2>4, <2>5, <2>6, <2>7, <2>8, <2>9, <2>10 DEF
    Launch
  <1>5. CASE Cleanup
    <2>1. CASE CleanupLaunch
      <3>1. pending' \in [no : 0..MaxLaunches,
                       state : {"none", "authorized", "bound"}]
            /\ owner' \in 0..MaxLaunches
        BY <2>1 DEF CleanupLaunch, EndDaemon, Faults, LauncherLives
      <3>2. pidfiles' \subseteq 1..MaxLaunches
            /\ socket' \in BOOLEAN
        BY <2>1 DEF CleanupLaunch, EndDaemon, Faults, LauncherLives
      <3>3. launcher' \in
              [1..MaxLaunches -> {"none", "gated", "running", "exited", "failed"}]
        BY <2>1 DEF CleanupLaunch, EndDaemon, Faults, LauncherLives
      <3>4. daemon' \in [1..MaxLaunches -> {"none", "starting", "ready", "gone"}]
        BY <2>1 DEF CleanupLaunch, EndDaemon, Faults, LauncherLives
      <3>5. launches' \in 0..MaxLaunches
        BY <2>1 DEF CleanupLaunch, EndDaemon, Faults, LauncherLives
      <3>6. lazyPc' \in LazyPcs
        BY <2>1 DEF CleanupLaunch, EndDaemon, Faults, LauncherLives
      <3>7. bound' \in BOOLEAN
        BY <2>1 DEF CleanupLaunch, EndDaemon, Faults, LauncherLives
      <3>8. kills' \in 0..MaxKills /\ faults' \in 0..MaxFaults
        BY <2>1 DEF CleanupLaunch, EndDaemon, Faults, LauncherLives
      <3> QED BY <3>1, <3>2, <3>3, <3>4, <3>5, <3>6, <3>7, <3>8
    <2>2. CASE ClearSocket
      BY <2>2 DEF ClearSocket
    <2>3. CASE ClearOwner
      BY <2>3 DEF ClearOwner
    <2>4. CASE ClearPidfile
      BY <2>4 DEF ClearPidfile
    <2>5. CASE ClearIntent
      <3>1. pending' \in [no : 0..MaxLaunches,
                       state : {"none", "authorized", "bound"}]
            /\ owner' \in 0..MaxLaunches
        BY <2>5 DEF ClearIntent
      <3>2. pidfiles' \subseteq 1..MaxLaunches
            /\ socket' \in BOOLEAN
        BY <2>5 DEF ClearIntent
      <3>3. launcher' \in
              [1..MaxLaunches -> {"none", "gated", "running", "exited", "failed"}]
        BY <2>5 DEF ClearIntent
      <3>4. daemon' \in [1..MaxLaunches -> {"none", "starting", "ready", "gone"}]
        BY <2>5 DEF ClearIntent
      <3>5. launches' \in 0..MaxLaunches
        BY <2>5 DEF ClearIntent
      <3>6. lazyPc' \in LazyPcs
        BY <2>5 DEF ClearIntent
      <3>7. bound' \in BOOLEAN
        BY <2>5 DEF ClearIntent
      <3>8. kills' \in 0..MaxKills /\ faults' \in 0..MaxFaults
        BY <2>5 DEF ClearIntent
      <3> QED BY <3>1, <3>2, <3>3, <3>4, <3>5, <3>6, <3>7, <3>8
    <2>6. CASE UnlinkFails
      BY <2>6 DEF UnlinkFails, Faults
    <2> QED BY <1>5, <2>1, <2>2, <2>3, <2>4, <2>5, <2>6 DEF Cleanup
  <1>6. ASSUME NEW n \in Launches, Processes(n) PROVE LazyTypeOK'
    <2>1. CASE GateCloses(n)
      BY <2>1 DEF GateCloses
    <2>2. CASE CriuForks(n)
      BY <2>2 DEF CriuForks
    <2>3. CASE DaemonListens(n)
      BY <2>3 DEF DaemonListens
    <2>4. CASE ParentExits(n)
      BY <2>4 DEF ParentExits
    <2>5. CASE DaemonDies(n)
      BY <2>5 DEF DaemonDies
    <2> QED BY <1>6, <2>1, <2>2, <2>3, <2>4, <2>5 DEF Processes
  <1>7. CASE UNCHANGED lazyVars
    BY <1>7 DEF lazyVars
  <1> QED BY <1>1, <1>2, <1>3, <1>4, <1>5, <1>6, <1>7 DEF LazyNext, Controller

\* Every action keeps what the two records may say of each other.
LEMMA RecordsAtStep ==
  ASSUME LazyTypeOK, AnchorInv, [LazyNext]_lazyVars
  PROVE  RecordsAt'
  <1> USE LazyAssumption
      DEF Launches, LazyTypeOK, LazyPcs, NoPending, At, GoTo, lazyFiles, lazyProcs,
          DaemonLives, AnchorInv, RecordsAt, ProcessesAt, LaunchAt, RetireAt,
          LaunchAnchored
  <1>1. CASE StartRestore \/ RestoreEnds \/ Settle \/ Crash
    BY <1>1 DEF StartRestore, RestoreEnds, Settle, Crash, EndDaemon, Faults
  <1>2. CASE Recovery
    BY <1>2 DEF Recovery, RecoveryClear, OwnerReady, StaleOwner, RecoverBound,
    RecoveryBlocked, EndDaemon, Faults, LauncherLives
  <1>3. CASE Prepare
    <2>1. CASE PrepareClear
      BY <2>1 DEF PrepareClear
    <2>2. CASE RetirePrior
      BY <2>2 DEF RetirePrior, EndDaemon, Faults
    <2>3. CASE RetireSocket
      BY <2>3 DEF RetireSocket
    <2>4. CASE RetirePidfile
      BY <2>4 DEF RetirePidfile
    <2>5. CASE RetireOwner
      BY <2>5 DEF RetireOwner
    <2>6. CASE RetirePending
      BY <2>6 DEF RetirePending
    <2> QED BY <1>3, <2>1, <2>2, <2>3, <2>4, <2>5, <2>6 DEF Prepare
  <1>4. CASE Launch
    BY <1>4 DEF Launch, SpawnLauncher, WritePending, Release, ObserveStatus,
    ReapParent, BindDaemon, HandOff, PublishOwner, ClearPending, LaunchFails, Faults
  <1>5. CASE Cleanup
    BY <1>5 DEF Cleanup, CleanupLaunch, ClearSocket, ClearOwner, ClearPidfile,
    ClearIntent, UnlinkFails, EndDaemon, Faults, LauncherLives
  <1>6. ASSUME NEW n \in Launches, Processes(n) PROVE RecordsAt'
    BY <1>6 DEF Processes, GateCloses, CriuForks, DaemonListens, ParentExits,
    DaemonDies
  <1>7. CASE UNCHANGED lazyVars
    BY <1>7 DEF lazyVars
  <1> QED BY <1>1, <1>2, <1>3, <1>4, <1>5, <1>6, <1>7 DEF LazyNext, Controller

\* Every action keeps at most the last launch at work.
LEMMA ProcessesAtStep ==
  ASSUME LazyTypeOK, AnchorInv, [LazyNext]_lazyVars
  PROVE  ProcessesAt'
  <1> USE LazyAssumption
      DEF Launches, LazyTypeOK, LazyPcs, NoPending, At, GoTo, lazyFiles, lazyProcs,
          DaemonLives, AnchorInv, RecordsAt, ProcessesAt, LaunchAt, RetireAt,
          LaunchAnchored
  <1>1. CASE StartRestore \/ RestoreEnds \/ Settle \/ Crash
    BY <1>1 DEF StartRestore, RestoreEnds, Settle, Crash, EndDaemon, Faults
  <1>2. CASE Recovery
    BY <1>2 DEF Recovery, RecoveryClear, OwnerReady, StaleOwner, RecoverBound,
    RecoveryBlocked, EndDaemon, Faults, LauncherLives
  <1>3. CASE Prepare
    <2>1. CASE PrepareClear
      BY <2>1 DEF PrepareClear
    <2>2. CASE RetirePrior
      <3>1. UNCHANGED <<launcher, pending, launches>>
        BY <2>2 DEF RetirePrior
      <3>2. \A n \in Launches : DaemonLives(n)' => DaemonLives(n)
        BY <2>2 DEF RetirePrior, EndDaemon
      <3> QED BY <3>1, <3>2
    <2>3. CASE RetireSocket
      BY <2>3 DEF RetireSocket
    <2>4. CASE RetirePidfile
      BY <2>4 DEF RetirePidfile
    <2>5. CASE RetireOwner
      BY <2>5 DEF RetireOwner
    <2>6. CASE RetirePending
      BY <2>6 DEF RetirePending
    <2> QED BY <1>3, <2>1, <2>2, <2>3, <2>4, <2>5, <2>6 DEF Prepare
  <1>4. CASE Launch
    BY <1>4 DEF Launch, SpawnLauncher, WritePending, Release, ObserveStatus,
    ReapParent, BindDaemon, HandOff, PublishOwner, ClearPending, LaunchFails, Faults
  <1>5. CASE Cleanup
    BY <1>5 DEF Cleanup, CleanupLaunch, ClearSocket, ClearOwner, ClearPidfile,
    ClearIntent, UnlinkFails, EndDaemon, Faults, LauncherLives
  <1>6. ASSUME NEW n \in Launches, Processes(n) PROVE ProcessesAt'
    BY <1>6 DEF Processes, GateCloses, CriuForks, DaemonListens, ParentExits,
    DaemonDies
  <1>7. CASE UNCHANGED lazyVars
    BY <1>7 DEF lazyVars
  <1> QED BY <1>1, <1>2, <1>3, <1>4, <1>5, <1>6, <1>7 DEF LazyNext, Controller

\* Every action keeps what the control points of a launch know.
LEMMA LaunchAtStep ==
  ASSUME LazyTypeOK, AnchorInv, [LazyNext]_lazyVars
  PROVE  LaunchAt'
  <1> USE LazyAssumption
      DEF Launches, LazyTypeOK, LazyPcs, NoPending, At, GoTo, lazyFiles, lazyProcs,
          DaemonLives, AnchorInv, RecordsAt, ProcessesAt, LaunchAt, RetireAt,
          LaunchAnchored
  <1>1. CASE StartRestore \/ RestoreEnds \/ Settle \/ Crash
    BY <1>1 DEF StartRestore, RestoreEnds, Settle, Crash, EndDaemon, Faults
  <1>2. CASE Recovery
    BY <1>2 DEF Recovery, RecoveryClear, OwnerReady, StaleOwner, RecoverBound,
    RecoveryBlocked, EndDaemon, Faults, LauncherLives
  <1>3. CASE Prepare
    <2>1. CASE PrepareClear
      BY <2>1 DEF PrepareClear
    <2>2. CASE RetirePrior
      BY <2>2 DEF RetirePrior, EndDaemon, Faults
    <2>3. CASE RetireSocket
      BY <2>3 DEF RetireSocket
    <2>4. CASE RetirePidfile
      BY <2>4 DEF RetirePidfile
    <2>5. CASE RetireOwner
      BY <2>5 DEF RetireOwner
    <2>6. CASE RetirePending
      BY <2>6 DEF RetirePending
    <2> QED BY <1>3, <2>1, <2>2, <2>3, <2>4, <2>5, <2>6 DEF Prepare
  <1>4. CASE Launch
    BY <1>4 DEF Launch, SpawnLauncher, WritePending, Release, ObserveStatus,
    ReapParent, BindDaemon, HandOff, PublishOwner, ClearPending, LaunchFails, Faults
  <1>5. CASE Cleanup
    BY <1>5 DEF Cleanup, CleanupLaunch, ClearSocket, ClearOwner, ClearPidfile,
    ClearIntent, UnlinkFails, EndDaemon, Faults, LauncherLives
  <1>6. ASSUME NEW n \in Launches, Processes(n) PROVE LaunchAt'
    BY <1>6 DEF Processes, GateCloses, CriuForks, DaemonListens, ParentExits,
    DaemonDies
  <1>7. CASE UNCHANGED lazyVars
    BY <1>7 DEF lazyVars
  <1> QED BY <1>1, <1>2, <1>3, <1>4, <1>5, <1>6, <1>7 DEF LazyNext, Controller

\* Every action keeps the order in which a dead daemon's artifacts go.
LEMMA RetireAtStep ==
  ASSUME LazyTypeOK, AnchorInv, [LazyNext]_lazyVars
  PROVE  RetireAt'
  <1> USE LazyAssumption
      DEF Launches, LazyTypeOK, LazyPcs, NoPending, At, GoTo, lazyFiles, lazyProcs,
          DaemonLives, AnchorInv, RecordsAt, ProcessesAt, LaunchAt, RetireAt,
          LaunchAnchored
  <1>1. CASE StartRestore \/ RestoreEnds \/ Settle \/ Crash
    BY <1>1 DEF StartRestore, RestoreEnds, Settle, Crash, EndDaemon, Faults
  <1>2. CASE Recovery
    BY <1>2 DEF Recovery, RecoveryClear, OwnerReady, StaleOwner, RecoverBound,
    RecoveryBlocked, EndDaemon, Faults, LauncherLives
  <1>3. CASE Prepare
    <2>1. CASE PrepareClear
      BY <2>1 DEF PrepareClear
    <2>2. CASE RetirePrior
      BY <2>2 DEF RetirePrior, EndDaemon, Faults
    <2>3. CASE RetireSocket
      BY <2>3 DEF RetireSocket
    <2>4. CASE RetirePidfile
      BY <2>4 DEF RetirePidfile
    <2>5. CASE RetireOwner
      BY <2>5 DEF RetireOwner
    <2>6. CASE RetirePending
      BY <2>6 DEF RetirePending
    <2> QED BY <1>3, <2>1, <2>2, <2>3, <2>4, <2>5, <2>6 DEF Prepare
  <1>4. CASE Launch
    BY <1>4 DEF Launch, SpawnLauncher, WritePending, Release, ObserveStatus,
    ReapParent, BindDaemon, HandOff, PublishOwner, ClearPending, LaunchFails, Faults
  <1>5. CASE Cleanup
    <2>1. CASE CleanupLaunch
      BY <2>1 DEF CleanupLaunch, EndDaemon, Faults, LauncherLives
    <2>2. CASE ClearSocket
      BY <2>2 DEF ClearSocket
    <2>3. CASE ClearOwner
      BY <2>3 DEF ClearOwner
    <2>4. CASE ClearPidfile
      <3>1. pidfiles' = pidfiles \ {pending.no} /\ owner = 0
        BY <2>4 DEF ClearPidfile
      <3>2. pidfiles \subseteq {pending.no, owner}
        OBVIOUS
      <3>3. 0 \notin pidfiles
        OBVIOUS
      <3>4. pidfiles' = {}
        BY <3>1, <3>2, <3>3
      <3> QED BY <2>4, <3>1, <3>4 DEF ClearPidfile
    <2>5. CASE ClearIntent
      BY <2>5 DEF ClearIntent
    <2>6. CASE UnlinkFails
      BY <2>6 DEF UnlinkFails, Faults
    <2> QED BY <1>5, <2>1, <2>2, <2>3, <2>4, <2>5, <2>6 DEF Cleanup
  <1>6. ASSUME NEW n \in Launches, Processes(n) PROVE RetireAt'
    <2>1. CASE GateCloses(n)
      BY <2>1 DEF GateCloses
    <2>2. CASE CriuForks(n)
      BY <2>2 DEF CriuForks
    <2>3. CASE DaemonListens(n)
      BY <2>3 DEF DaemonListens
    <2>4. CASE ParentExits(n)
      BY <2>4 DEF ParentExits
    <2>5. CASE DaemonDies(n)
      BY <2>5 DEF DaemonDies
    <2> QED BY <1>6, <2>1, <2>2, <2>3, <2>4, <2>5 DEF Processes
  <1>7. CASE UNCHANGED lazyVars
    BY <1>7 DEF lazyVars
  <1> QED BY <1>1, <1>2, <1>3, <1>4, <1>5, <1>6, <1>7 DEF LazyNext, Controller

\* Every action keeps what a launch leaves under a record.
LEMMA LaunchAnchoredStep ==
  ASSUME LazyTypeOK, AnchorInv, [LazyNext]_lazyVars
  PROVE  LaunchAnchored'
  <1> USE LazyAssumption
      DEF Launches, LazyTypeOK, LazyPcs, NoPending, At, GoTo, lazyFiles, lazyProcs,
          DaemonLives, AnchorInv, RecordsAt, ProcessesAt, LaunchAt, RetireAt,
          LaunchAnchored
  <1>1. CASE StartRestore \/ RestoreEnds \/ Settle \/ Crash
    <2>1. CASE StartRestore
      BY <2>1 DEF StartRestore
    <2>2. CASE RestoreEnds
      BY <2>2 DEF RestoreEnds
    <2>3. CASE Settle
      BY <2>3 DEF Settle, EndDaemon, Faults
    <2>4. CASE Crash
      BY <2>4 DEF Crash
    <2> QED BY <1>1, <2>1, <2>2, <2>3, <2>4
  <1>2. CASE Recovery
    <2>1. CASE RecoveryClear
      BY <2>1 DEF RecoveryClear
    <2>2. CASE OwnerReady
      BY <2>2 DEF OwnerReady
    <2>3. CASE StaleOwner
      BY <2>3 DEF StaleOwner
    <2>4. CASE RecoverBound
      BY <2>4 DEF RecoverBound, EndDaemon, LauncherLives
    <2>5. CASE RecoveryBlocked
      BY <2>5 DEF RecoveryBlocked, Faults
    <2> QED BY <1>2, <2>1, <2>2, <2>3, <2>4, <2>5 DEF Recovery
  <1>3. CASE Prepare
    <2>1. CASE PrepareClear
      BY <2>1 DEF PrepareClear
    <2>2. CASE RetirePrior
      BY <2>2 DEF RetirePrior, EndDaemon, Faults
    <2>3. CASE RetireSocket
      BY <2>3 DEF RetireSocket
    <2>4. CASE RetirePidfile
      BY <2>4 DEF RetirePidfile
    <2>5. CASE RetireOwner
      BY <2>5 DEF RetireOwner
    <2>6. CASE RetirePending
      BY <2>6 DEF RetirePending
    <2> QED BY <1>3, <2>1, <2>2, <2>3, <2>4, <2>5, <2>6 DEF Prepare
  <1>4. CASE Launch
    BY <1>4 DEF Launch, SpawnLauncher, WritePending, Release, ObserveStatus,
    ReapParent, BindDaemon, HandOff, PublishOwner, ClearPending, LaunchFails, Faults
  <1>5. CASE Cleanup
    <2>1. CASE CleanupLaunch
      BY <2>1 DEF CleanupLaunch, EndDaemon, Faults, LauncherLives
    <2>2. CASE ClearSocket
      BY <2>2 DEF ClearSocket
    <2>3. CASE ClearOwner
      BY <2>3 DEF ClearOwner
    <2>4. CASE ClearPidfile
      BY <2>4 DEF ClearPidfile
    <2>5. CASE ClearIntent
      BY <2>5 DEF ClearIntent
    <2>6. CASE UnlinkFails
      BY <2>6 DEF UnlinkFails, Faults
    <2> QED BY <1>5, <2>1, <2>2, <2>3, <2>4, <2>5, <2>6 DEF Cleanup
  <1>6. ASSUME NEW n \in Launches, Processes(n) PROVE LaunchAnchored'
    <2>1. CASE GateCloses(n)
      BY <2>1 DEF GateCloses
    <2>2. CASE CriuForks(n)
      BY <2>2 DEF CriuForks
    <2>3. CASE DaemonListens(n)
      BY <2>3 DEF DaemonListens
    <2>4. CASE ParentExits(n)
      BY <2>4 DEF ParentExits
    <2>5. CASE DaemonDies(n)
      BY <2>5 DEF DaemonDies
    <2> QED BY <1>6, <2>1, <2>2, <2>3, <2>4, <2>5 DEF Processes
  <1>7. CASE UNCHANGED lazyVars
    BY <1>7 DEF lazyVars
  <1> QED BY <1>1, <1>2, <1>3, <1>4, <1>5, <1>6, <1>7 DEF LazyNext, Controller

\* The invariant holds in every reachable state.
LEMMA AnchorInvariance == LazySpec => [](LazyTypeOK /\ AnchorInv)
  <1>1. LazyInit => LazyTypeOK /\ AnchorInv
    <2> SUFFICES ASSUME LazyInit PROVE LazyTypeOK /\ AnchorInv
      OBVIOUS
    <2>1. LazyTypeOK
      <3>1. pending \in [no : 0..MaxLaunches, state : {"none", "authorized", "bound"}]
            /\ owner \in 0..MaxLaunches /\ launches \in 0..MaxLaunches
            /\ kills \in 0..MaxKills /\ faults \in 0..MaxFaults
        BY LazyAssumption DEF LazyInit, NoPending
      <3>2. socket \in BOOLEAN /\ bound \in BOOLEAN /\ lazyPc \in LazyPcs
            /\ pidfiles \subseteq Launches
        BY DEF LazyInit, LazyPcs
      <3>3. /\ launcher \in
                 [Launches -> {"none", "gated", "running", "exited", "failed"}]
            /\ daemon \in [Launches -> {"none", "starting", "ready", "gone"}]
        BY DEF LazyInit
      <3> QED BY <3>1, <3>2, <3>3 DEF LazyTypeOK
    <2>2. pending.no = 0 /\ pending.state = "none" /\ owner = 0 /\ launches = 0
          /\ lazyPc = "idle"
      BY DEF LazyInit, NoPending
    <2>3. RecordsAt /\ LaunchAt /\ RetireAt
      BY <2>2 DEF RecordsAt, LaunchAt, RetireAt
    <2>4. ProcessesAt /\ LaunchAnchored
      BY DEF LazyInit, ProcessesAt, LaunchAnchored, DaemonLives, NoPending
    <2> QED BY <2>1, <2>3, <2>4 DEF AnchorInv
  <1>2. ASSUME LazyTypeOK, AnchorInv, [LazyNext]_lazyVars
        PROVE  LazyTypeOK' /\ AnchorInv'
    <2>1. LazyTypeOK'
      BY <1>2, LazyTypeOKStep
    <2>2. RecordsAt' /\ ProcessesAt' /\ LaunchAt' /\ RetireAt' /\ LaunchAnchored'
      BY <1>2, RecordsAtStep, ProcessesAtStep, LaunchAtStep, RetireAtStep,
         LaunchAnchoredStep
    <2> QED BY <2>1, <2>2 DEF AnchorInv
  <1> QED BY <1>1, <1>2, PTL DEF LazySpec

\* A daemon that lives, and every socket and pidfile, are named by the intent or the
\* owner record, and at most one launch has a daemon or a parent that may fork one,
\* whichever controllers are killed at whatever step and whatever fails
\* (prepare_launch, recover_lazy_pages_launch, clear_verified_daemon_artifacts).
THEOREM DaemonsAnchoredHolds == LazySpec => []DaemonsAnchored
  <1>1. ASSUME LazyTypeOK, AnchorInv PROVE OneDaemon
    <2> DEFINE Working == {n \in Launches : DaemonLives(n) \/ launcher[n] = "running"}
    <2>1. Working \subseteq {launches}
      BY <1>1 DEF AnchorInv, ProcessesAt, RecordsAt, LazyTypeOK, Launches
    <2>2. IsFiniteSet({launches}) /\ Cardinality({launches}) = 1
      BY FS_Singleton
    <2>3. Cardinality(Working) <= Cardinality({launches})
      BY <2>1, <2>2, FS_Subset
    <2> QED BY <2>2, <2>3 DEF OneDaemon
  <1>2. LazyTypeOK /\ AnchorInv => DaemonsAnchored
    BY <1>1 DEF AnchorInv, DaemonsAnchored
  <1> QED BY AnchorInvariance, <1>2, PTL

-----------------------------------------------------------------------------
(* The readiness matrix.                                                   *)

\* The control points of a run that has the run-root lock.
Holding == {"begin", "group", "checkpoint", "probing", "collect"}

\* The lock is what keeps the runs apart.
LockAt == \A c \in Runs : lock = c <=> probePc[c] \in Holding

\* While a run probes, the report is its own, and names the profile of its worker.
ReportAt ==
  \A c \in Runs :
    /\ probePc[c] \in Holding \ {"begin"} =>
         /\ report.controller = c /\ report.status = "running" /\ at[c] # 0
         /\ report.active = IF probePc[c] \in {"probing", "collect"} THEN at[c] ELSE 0
    /\ \/ probePc[c] \in {"checkpoint", "probing", "collect"}
       \/ worker[c] \in {"primary", "cleanup", "reuse"}
       => at[c] \in Profiles

\* A worker acts only while its run waits for it, and where the basis ran before, nothing
\* that runs was restored.
WorkerAt ==
  \A c \in Runs :
    /\ worker[c] \in {"primary", "cleanup", "reuse"} => probePc[c] = "collect"
    /\ probePc[c] \in {"probing", "collect"} /\ before[c] => restored = {}

\* ProbeTypeOK in three parts.
ReceiptOK ==
  /\ lock \in Runs \cup {NoRun}
  /\ report \in [status : Statuses, active : 0..Groups, controller : Runs \cup {NoRun}]
BasesOK == live \subseteq Profiles /\ restored \subseteq live /\ leased \subseteq live
RunsOK ==
  /\ probePc \in [Runs -> {"new", "begin", "group", "checkpoint", "probing", "collect",
                          "unwinding", "done"}]
  /\ at \in [Runs -> 0..(Groups + 1)]
  /\ before \in [Runs -> BOOLEAN]
  /\ worker \in [Runs -> WorkerStates]

-----------------------------------------------------------------------------

\* Profiles that stop are no longer among the restored, and nobody had a lease on them.
LEMMA StoppedBases == ASSUME BasesOK, NEW p, Stops(p), UNCHANGED leased PROVE BasesOK'
BY DEF BasesOK, Stops, LeasedNow

\* What a run does keeps the types.
LEMMA RunTypes == ASSUME ProbeTypeOK, ReportAt, NEW c \in Runs, Run(c) PROVE ProbeTypeOK'
<1> USE DEF Goto, End, world
<1>0. ReceiptOK /\ BasesOK /\ RunsOK
  BY DEF ProbeTypeOK, ReceiptOK, BasesOK, RunsOK
<1>1. ReceiptOK'
  <2> USE <1>0 DEF ReceiptOK
  <2>1. lock' \in {lock, c, NoRun}
    BY DEF Run, TakeLock, RecoveryRefused, RecoverPrior, StartRun, ReadState, StateUnknown,
         Checkpoint, StartWorker, GroupFails, GroupRetains, GroupStops, Finish, Interrupt,
         Exit, RunKilled
  <2>2. \/ report' = report
        \/ report' = [status |-> "running", active |-> 0, controller |-> c]
        \/ \E st \in Statuses, p \in 0..Groups : Report(st, p)
    <3>1. CASE TakeLock(c) \/ RecoveryRefused(c) \/ ReadState(c) \/ StartWorker(c)
                 \/ Interrupt(c) \/ Exit(c) \/ RunKilled(c)
      BY <3>1 DEF TakeLock, RecoveryRefused, ReadState, StartWorker, Interrupt, Exit, RunKilled
    <3>2. CASE RecoverPrior(c) \/ StartRun(c) \/ StateUnknown(c) \/ Finish(c)
      BY <3>2, ProbeAssumption DEF RecoverPrior, StartRun, StateUnknown, Finish, Statuses
    <3>3. CASE Checkpoint(c) \/ GroupFails(c)
      BY <3>3, ProbeAssumption DEF Checkpoint, GroupFails, Collected, ReportAt, Profiles,
           Statuses
    <3>4. CASE GroupRetains(c) \/ GroupStops(c)
      BY <3>4, ProbeAssumption DEF GroupRetains, GroupStops, Statuses
    <3> QED BY <3>1, <3>2, <3>3, <3>4 DEF Run
  <2>3. ASSUME NEW st \in Statuses, NEW p \in 0..Groups, Report(st, p)
        PROVE report' \in [status : Statuses, active : 0..Groups, controller : Runs \cup {NoRun}]
    BY <2>3 DEF Report
  <2>4. report' \in [status : Statuses, active : 0..Groups, controller : Runs \cup {NoRun}]
    BY <2>2, <2>3, ProbeAssumption DEF Statuses
  <2> QED BY <2>1, <2>4
<1>2. BasesOK'
  <2>1. \/ UNCHANGED <<live, restored, leased>>
        \/ Stops(report.active) /\ UNCHANGED leased
        \/ Stops(at[c]) /\ UNCHANGED leased
    BY DEF Run, TakeLock, RecoveryRefused, RecoverPrior, StartRun, ReadState, StateUnknown,
         Checkpoint, StartWorker, GroupFails, GroupRetains, GroupStops, Finish, Interrupt,
         Exit, RunKilled, Retained
  <2> QED BY <1>0, <2>1, StoppedBases DEF BasesOK
<1>3. RunsOK'
  <2> USE ProbeAssumption, <1>0 DEF RunsOK, WorkerStates
  <2>1. CASE TakeLock(c) \/ RecoveryRefused(c) \/ RecoverPrior(c) \/ StartRun(c)
    BY <2>1 DEF TakeLock, RecoveryRefused, RecoverPrior, StartRun
  <2>2. CASE ReadState(c)
    <3>1. before' \in [Runs -> BOOLEAN]
      BY <2>2 DEF ReadState
    <3> QED BY <2>2, <3>1 DEF ReadState
  <2>3. CASE StateUnknown(c) \/ Checkpoint(c) \/ StartWorker(c) \/ Finish(c)
    BY <2>3 DEF StateUnknown, Checkpoint, StartWorker, Finish
  <2>4. CASE GroupFails(c) \/ GroupRetains(c) \/ GroupStops(c)
    BY <2>4 DEF GroupFails, GroupRetains, GroupStops, Collected, ReportAt, Profiles
  <2>5. CASE Interrupt(c) \/ Exit(c) \/ RunKilled(c)
    BY <2>5 DEF Interrupt, Exit, RunKilled
  <2> QED BY <2>1, <2>2, <2>3, <2>4, <2>5 DEF Run
<1> QED BY <1>1, <1>2, <1>3 DEF ProbeTypeOK, ReceiptOK, BasesOK, RunsOK

\* So does what its worker does.
LEMMA WorkerTypes ==
  ASSUME ProbeTypeOK, ReportAt, NEW c \in Runs, Worker(c) PROVE ProbeTypeOK'
<1> USE DEF world
<1>0. ReceiptOK /\ BasesOK /\ RunsOK
  BY DEF ProbeTypeOK, ReceiptOK, BasesOK, RunsOK
<1>1. ReceiptOK'
  BY <1>0 DEF ReceiptOK, Worker, Restore, Primary, CleanupState, Reuse, WorkerDies, Attempt
<1>2. CASE Restore(c)
  <2>1. BasesOK'
    <3>1. at[c] \in Profiles /\ live' = live \cup {at[c]} /\ UNCHANGED leased
      BY <1>2 DEF Restore, Evaluating, ReportAt
    <3>2. restored' \in {restored, restored \cup {at[c]}}
      BY <1>2 DEF Restore
    <3> QED BY <1>0, <3>1, <3>2 DEF BasesOK
  <2> QED BY <1>0, <1>1, <1>2, <2>1 DEF Restore, RunsOK, ProbeTypeOK, ReceiptOK, BasesOK
<1>3. CASE Primary(c) \/ CleanupState(c) \/ Reuse(c) \/ WorkerDies(c)
  <2>1. worker' \in [Runs -> WorkerStates] /\ UNCHANGED <<probePc, at, before>>
    BY <1>0, <1>3 DEF RunsOK, WorkerStates, Primary, CleanupState, Reuse, WorkerDies, Attempt
  <2>2. UNCHANGED <<live, restored, leased>>
    BY <1>3 DEF Primary, CleanupState, Reuse, WorkerDies, Attempt
  <2> QED BY <1>0, <1>1, <2>1, <2>2 DEF RunsOK, ProbeTypeOK, ReceiptOK, BasesOK
<1> QED BY <1>2, <1>3 DEF Worker

\* So does every other step.
LEMMA ProbeTypes == ASSUME ProbeTypeOK, ReportAt, [ProbeNext]_probeVars PROVE ProbeTypeOK'
<1>1. ASSUME NEW p \in Profiles, Shelf(p) PROVE ProbeTypeOK'
  BY <1>1 DEF ProbeTypeOK, Shelf, ClientLeases, ClientReleases, IdleRetires, LeasedNow
<1>2. CASE UNCHANGED probeVars
  BY <1>2 DEF ProbeTypeOK, probeVars
<1> QED BY <1>1, <1>2, RunTypes, WorkerTypes DEF ProbeNext

-----------------------------------------------------------------------------

\* Only the run that has the lock gives it back, and only a run without it may begin.
LEMMA LockAtStep ==
  ASSUME ProbeTypeOK, LockAt, [ProbeNext]_probeVars PROVE LockAt'
<1> USE ProbeAssumption DEF LockAt, ProbeTypeOK, Holding, world, Goto, End
<1>1. ASSUME NEW c \in Runs, Run(c) PROVE LockAt'
  <2>1. CASE TakeLock(c)
    BY <2>1 DEF TakeLock
  <2>2. CASE RecoveryRefused(c) \/ RecoverPrior(c) \/ StateUnknown(c) \/ GroupFails(c)
               \/ Finish(c)
    BY <2>2 DEF RecoveryRefused, RecoverPrior, StateUnknown, GroupFails, Finish, Collected
  <2>3. CASE StartRun(c) \/ ReadState(c) \/ Checkpoint(c) \/ StartWorker(c)
               \/ GroupRetains(c) \/ GroupStops(c)
    BY <2>3 DEF StartRun, ReadState, Checkpoint, StartWorker, GroupRetains, GroupStops,
         Collected
  <2>4. CASE Interrupt(c)
    BY <2>4 DEF Interrupt, RunAlive
  <2>5. CASE Exit(c)
    BY <2>5 DEF Exit
  <2>6. CASE RunKilled(c)
    BY <2>6 DEF RunKilled, RunAlive
  <2> QED BY <1>1, <2>1, <2>2, <2>3, <2>4, <2>5, <2>6 DEF Run
<1>2. CASE UNCHANGED <<lock, probePc>>
  BY <1>2
<1> QED
  BY <1>1, <1>2 DEF ProbeNext, Worker, Restore, Primary, CleanupState, Reuse, WorkerDies,
    Attempt, Shelf, ClientLeases, ClientReleases, IdleRetires, probeVars

\* The report is written by the run that has the lock, before its worker starts and when
\* its worker has ended.
LEMMA ReportAtStep ==
  ASSUME ProbeTypeOK, LockAt, ReportAt, [ProbeNext]_probeVars PROVE ReportAt'
<1> USE ProbeAssumption DEF ReportAt, LockAt, ProbeTypeOK, Holding, Profiles, world, Goto,
      End, Report
<1>1. ASSUME NEW c \in Runs, Run(c) PROVE ReportAt'
  <2>1. CASE TakeLock(c) \/ RecoveryRefused(c) \/ RecoverPrior(c)
    BY <2>1 DEF TakeLock, RecoveryRefused, RecoverPrior
  <2>2. CASE StartRun(c)
    BY <2>2 DEF StartRun
  <2>3. CASE ReadState(c)
    BY <2>3 DEF ReadState
  <2>4. CASE StateUnknown(c) \/ GroupFails(c) \/ Finish(c)
    BY <2>4 DEF StateUnknown, GroupFails, Finish, Collected
  <2>5. CASE Checkpoint(c)
    BY <2>5 DEF Checkpoint
  <2>6. CASE StartWorker(c)
    BY <2>6 DEF StartWorker
  <2>7. CASE GroupRetains(c) \/ GroupStops(c)
    <3>1. /\ lock = c /\ worker[c] = "ready" /\ UNCHANGED <<lock, worker>>
          /\ report.controller = c /\ at[c] \in Profiles
          /\ report' = [report EXCEPT !.status = "running", !.active = 0]
          /\ at' = [at EXCEPT ![c] = at[c] + 1] /\ probePc' = [probePc EXCEPT ![c] = "group"]
      BY <2>7 DEF GroupRetains, GroupStops, Collected
    <3>2. report'.controller = c /\ report'.status = "running" /\ report'.active = 0
      BY <3>1
    <3>3. at'[c] # 0 /\ probePc'[c] = "group" /\ worker'[c] = "ready"
      BY <3>1
    <3>4. ASSUME NEW d \in Runs \ {c}
          PROVE probePc'[d] \notin Holding /\ at'[d] = at[d] /\ worker'[d] = worker[d]
      BY <3>1
    <3> QED BY <3>2, <3>3, <3>4
  <2>8. CASE Interrupt(c) \/ Exit(c) \/ RunKilled(c)
    BY <2>8 DEF Interrupt, Exit, RunKilled
  <2> QED BY <1>1, <2>1, <2>2, <2>3, <2>4, <2>5, <2>6, <2>7, <2>8 DEF Run
<1>2. ASSUME NEW c \in Runs, Worker(c) PROVE ReportAt'
  BY <1>2 DEF Worker, Restore, Primary, CleanupState, Reuse, WorkerDies, Attempt, Evaluating
<1>3. CASE UNCHANGED <<lock, report, probePc, at, worker>>
  BY <1>3
<1> QED
  BY <1>1, <1>2, <1>3 DEF ProbeNext, Shelf, ClientLeases, ClientReleases, IdleRetires,
    probeVars

\* A worker is alone with its profile: it ends with its run where it does not outlive it.
LEMMA WorkerAtStep ==
  ASSUME WorkersOutlive = FALSE, ProbeTypeOK, LockAt, ReportAt, WorkerAt,
         RestoredBasisAnchored, [ProbeNext]_probeVars
  PROVE  WorkerAt'
<1> USE ProbeAssumption DEF WorkerAt, LockAt, Holding, WorkerStates, world, Goto, End
<1>0. /\ probePc \in [Runs -> {"new", "begin", "group", "checkpoint", "probing", "collect",
                             "unwinding", "done"}]
      /\ worker \in [Runs -> WorkerStates] /\ before \in [Runs -> BOOLEAN]
      /\ restored \subseteq Profiles
  BY DEF ProbeTypeOK
<1>1. ASSUME NEW c \in Runs, Run(c) PROVE WorkerAt'
  <2>1. restored' \subseteq restored
    BY <1>1 DEF Run, TakeLock, RecoveryRefused, RecoverPrior, StartRun, ReadState,
         StateUnknown, Checkpoint, StartWorker, GroupFails, GroupRetains, GroupStops, Finish,
         Interrupt, Exit, RunKilled, Stops, Retained
  <2>2. CASE TakeLock(c) \/ RecoveryRefused(c) \/ RecoverPrior(c) \/ StartRun(c)
               \/ StateUnknown(c) \/ Finish(c)
    BY <1>0, <2>1, <2>2 DEF TakeLock, RecoveryRefused, RecoverPrior, StartRun, StateUnknown,
         Finish
  <2>3. CASE ReadState(c)
    BY <1>0, <2>1, <2>3 DEF ReadState
  <2>4. CASE Checkpoint(c)
    <3>1. restored = {}
      BY <1>0, <2>4 DEF Checkpoint, ReportAt, RestoredBasisAnchored, Profiles
    <3> QED BY <1>0, <2>1, <2>4, <3>1 DEF Checkpoint
  <2>5. CASE StartWorker(c)
    BY <1>0, <2>1, <2>5 DEF StartWorker
  <2>6. CASE GroupFails(c) \/ GroupRetains(c) \/ GroupStops(c)
    BY <1>0, <2>1, <2>6 DEF GroupFails, GroupRetains, GroupStops, Collected
  <2>7. CASE Interrupt(c)
    BY <1>0, <2>1, <2>7 DEF Interrupt
  <2>8. CASE Exit(c)
    BY <1>0, <2>1, <2>8 DEF Exit
  <2>9. CASE RunKilled(c)
    BY <1>0, <2>1, <2>9 DEF RunKilled
  <2> QED BY <1>1, <2>2, <2>3, <2>4, <2>5, <2>6, <2>7, <2>8, <2>9 DEF Run
<1>2. ASSUME NEW c \in Runs, Worker(c) PROVE WorkerAt'
  <2>1. CASE Restore(c)
    BY <1>0, <2>1 DEF Restore, Evaluating
  <2>2. CASE Primary(c) \/ CleanupState(c) \/ Reuse(c) \/ WorkerDies(c)
    BY <1>0, <2>2 DEF Primary, CleanupState, Reuse, WorkerDies, Attempt
  <2> QED BY <1>2, <2>1, <2>2 DEF Worker
<1>3. ASSUME NEW p \in Profiles, Shelf(p) PROVE WorkerAt'
  BY <1>3 DEF Shelf, ClientLeases, ClientReleases, IdleRetires
<1>4. CASE UNCHANGED probeVars
  BY <1>4 DEF probeVars
<1> QED BY <1>1, <1>2, <1>3, <1>4 DEF ProbeNext

\* A profile that was restored is named until its stop is verified.
LEMMA AnchoredStep ==
  ASSUME ProbeTypeOK, LockAt, ReportAt, WorkerAt, RestoredBasisAnchored,
         [ProbeNext]_probeVars
  PROVE  RestoredBasisAnchored'
<1> USE DEF RestoredBasisAnchored, world, Report, Stops, Retained
<1>0. /\ report \in [status : Statuses, active : 0..Groups, controller : Runs \cup {NoRun}]
      /\ restored \subseteq Profiles /\ 0 \notin Profiles
  BY DEF ProbeTypeOK, Profiles
<1>1. ASSUME NEW c \in Runs, Run(c) PROVE RestoredBasisAnchored'
  <2>1. probePc[c] \in {"group", "checkpoint"} => restored = {}
    BY <1>0 DEF ReportAt, Holding
  <2>2. probePc[c] = "collect" => report.active = at[c] /\ (before[c] => restored = {})
    BY DEF ReportAt, WorkerAt, Holding
  <2>3. CASE UNCHANGED <<report, restored>>
    BY <2>3
  <2>4. CASE RecoverPrior(c)
    BY <1>0, <2>4 DEF RecoverPrior
  <2>5. CASE StartRun(c)
    BY <1>0, <2>5 DEF StartRun, Interrupted
  <2>6. CASE StateUnknown(c) \/ Checkpoint(c) \/ Finish(c)
    BY <2>1, <2>6 DEF StateUnknown, Checkpoint, Finish
  <2>7. CASE GroupFails(c)
    <3>1. report.active = at[c]
      BY <2>2, <2>7 DEF GroupFails, Collected
    <3> QED BY <1>0, <2>7, <3>1, ZenonT(30) DEF GroupFails
  <2>8. CASE GroupRetains(c)
    BY <2>2, <2>8 DEF GroupRetains, Collected
  <2>9. CASE GroupStops(c)
    BY <2>2, <2>9 DEF GroupStops, Collected
  <2> QED
    BY <1>1, <2>3, <2>4, <2>5, <2>6, <2>7, <2>8, <2>9 DEF Run, TakeLock, RecoveryRefused, ReadState,
      StartWorker, Interrupt, Exit, RunKilled
<1>2. ASSUME NEW c \in Runs, Worker(c) PROVE RestoredBasisAnchored'
  <2>1. CASE Restore(c)
    <3>1. report.active = at[c] /\ report.status = "running" /\ report' = report
      BY <2>1 DEF Restore, Evaluating, WorkerAt, ReportAt, Holding
    <3> QED BY <2>1, <3>1 DEF Restore
  <2>2. CASE UNCHANGED <<report, restored>>
    BY <2>2
  <2> QED
    BY <1>2, <2>1, <2>2 DEF Worker, Primary, CleanupState, Reuse, WorkerDies, Attempt
<1>3. ASSUME NEW p \in Profiles, Shelf(p) PROVE RestoredBasisAnchored'
  BY <1>3 DEF Shelf, ClientLeases, ClientReleases, IdleRetires
<1>4. CASE UNCHANGED probeVars
  BY <1>4 DEF probeVars
<1> QED BY <1>1, <1>2, <1>3, <1>4 DEF ProbeNext

\* An unsettled report is left by its own run, or settled by the next one.
LEMMA UnsettledKeptStep ==
  ASSUME ProbeTypeOK, LockAt, ReportAt, [ProbeNext]_probeVars,
         Interrupted, report' # report
  PROVE  report'.active = report.active \/ report.active \notin live'
           \/ lock = report.controller
<1>0. report \in [status : Statuses, active : 0..Groups, controller : Runs \cup {NoRun}]
  BY DEF ProbeTypeOK
<1>1. PICK c \in Runs : Run(c)
  BY DEF ProbeNext, Worker, Restore, Primary, CleanupState, Reuse, WorkerDies, Attempt,
    Shelf, ClientLeases, ClientReleases, IdleRetires, probeVars
<1>2. CASE RecoverPrior(c)
  BY <1>0, <1>2 DEF RecoverPrior, Stops, Retained, Report
<1>3. CASE probePc[c] \in Holding \ {"begin"}
  BY <1>3 DEF LockAt, ReportAt
<1> QED
  BY <1>1, <1>2, <1>3 DEF Run, TakeLock, RecoveryRefused, StartRun, ReadState, StateUnknown,
    Checkpoint, StartWorker, GroupFails, GroupRetains, GroupStops, Collected, Finish,
    Interrupt, Exit, RunKilled, Holding

-----------------------------------------------------------------------------

\* The start satisfies all of it.
LEMMA ProbeStart ==
  ProbeInit => ProbeTypeOK /\ LockAt /\ ReportAt /\ WorkerAt /\ RestoredBasisAnchored
BY ProbeAssumption DEF ProbeInit, ProbeTypeOK, LockAt, ReportAt, WorkerAt,
  RestoredBasisAnchored, Holding, Profiles, Statuses, WorkerStates

\* An unsettled report of the readiness matrix is not replaced by a run that has not
\* settled it (_interrupted_run_recovery), whether or not workers outlive their runs.
THEOREM UnsettledReportKeptHolds == ProbeSpec => UnsettledReportKept
<1>1. ProbeTypeOK /\ LockAt /\ ReportAt /\ [ProbeNext]_probeVars
        => (ProbeTypeOK /\ LockAt /\ ReportAt)'
  BY ProbeTypes, LockAtStep, ReportAtStep
<1>2. ProbeTypeOK /\ LockAt /\ ReportAt /\ [ProbeNext]_probeVars
        => [Interrupted /\ report' # report =>
             \/ report'.active = report.active
             \/ report.active \notin live'
             \/ lock = report.controller]_probeVars
  BY UnsettledKeptStep
<1> QED BY <1>1, <1>2, ProbeStart, PTL DEF ProbeSpec, UnsettledReportKept

\* Where a worker ends with its controller, a basis that a probe restored is named by the
\* report as long as it runs, whatever ended the probe, and the report is kept.
THEOREM RestoredBasesReportedHolds ==
  ASSUME WorkersOutlive = FALSE PROVE ProbeSpec => RestoredBasesReported
<1> DEFINE Inv == ProbeTypeOK /\ LockAt /\ ReportAt /\ WorkerAt /\ RestoredBasisAnchored
<1>1. Inv /\ [ProbeNext]_probeVars => Inv'
  BY ProbeTypes, LockAtStep, ReportAtStep, WorkerAtStep, AnchoredStep
<1>2. Inv => RestoredBasisAnchored
  OBVIOUS
<1> QED
  BY <1>1, <1>2, ProbeStart, UnsettledReportKeptHolds, PTL
  DEF ProbeSpec, RestoredBasesReported
=============================================================================
