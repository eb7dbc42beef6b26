---------------------- MODULE RestoreTransactionProofs ----------------------
(***************************************************************************)
(* Theorems about RestoreTransaction for every number of transactions,     *)
(* crashes, reused PIDs and survivors.  The invariant RInv says what a     *)
(* launcher, the tree and the records are at each control point of the     *)
(* controller; what makes it inductive is that at most the newest launcher *)
(* is in flight, that only the newest transaction can own the image's      *)
(* PIDs, and that no route reads "ready" or "stopped" beside a launcher.   *)
(***************************************************************************)
EXTENDS RestoreTransaction, TLAPS

Quiet == ~AnyInFlight

\* Control points from the begin transaction to the removal of the outputs.
Launching == {"launch", "own", "release"}
Staging == {"validate", "stage_session", "stage_pool", "resume"}
Publishing == {"publish", "cleanup", "finish"}
Cleaning == {"kill", "mark", "unlink"}

\* Launchers of later transactions do not exist, those of earlier ones are
\* settled; the anchored transaction is the newest; only its tree has the PIDs.
NewestOnly ==
  /\ \A n \in Transactions :
       /\ n > count => criu[n] = "none"
       /\ n < count => criu[n] \notin {"gated", "running"}
  /\ txn.state # "none" => txn.no = count /\ count \in Transactions
  /\ tree.of \in {0, count}
  /\ tree.of = 0 <=> tree \in {Vacant, ForeignTree}

\* The launcher of the newest transaction at each control point.
LauncherAt ==
  /\ ctl.pc \in Launching \cup {"wait"} \cup Staging \cup Publishing
       => count \in Transactions /\ txn.no = count
  /\ ctl.pc = "launch" => criu[count] = "none" /\ status = "restoring"
  /\ ctl.pc \in {"own", "release"} => criu[count] = "gated"
  /\ ctl.pc \in Launching => tree.of = 0
  /\ ctl.pc = "release" => txn.state # "prelaunch"
  /\ ctl.pc = "wait" => criu[count] \notin {"none", "gated"}
  /\ ctl.pc \in Staging \cup Publishing => criu[count] = "ok"
  /\ txn.state = "prelaunch" => criu[count] # "running"
  /\ ctl.pc \in Cleaning => \A n \in Transactions : criu[n] # "running"

\* The tree and the two records that name it.
StagedAt ==
  /\ ctl.pc \in {"wait"} \cup Staging => tree.state # "running"
  /\ ctl.pc \in {"stage_pool", "resume"} \cup Publishing => sids = count
  /\ ctl.pc \in {"resume"} \cup Publishing => ids = count
  /\ ctl.pc = "publish" /\ tree.of # 0 => tree.state = "running"

\* A readiness controller never launches.
ReadinessAt ==
  ctl.op = "readiness" =>
    ctl.pc \in Cleaning \cup {"displaced", "stop", "publish_stop"}

\* Admission and stop run beside no launcher.
QuietAt ==
  /\ status \in {"stopped", "ready"} => Quiet
  /\ ctl.pc = "begin" => status = "stopped"
  /\ ctl.op = "readiness" \/ ctl.pc \in {"displaced", "stop", "publish_stop"} => Quiet

\* What a cleanup or a stop has verified still holds when it says so.
VerifiedAt ==
  ctl.pc \in {"mark", "unlink", "publish_stop"} /\ ctl.verified => tree.of = 0

RInv ==
  /\ TypeOK
  /\ NewestOnly
  /\ LauncherAt
  /\ StagedAt
  /\ ReadinessAt
  /\ QuietAt
  /\ VerifiedAt
  /\ TreeAnchored
  /\ StatusTrue

\* A recovery runs with admission closed and no live lease owner.
SparedAt == ctl.op = "readiness" => status \in Unsettled /\ lease # "live"

USE DEF Transactions, Statuses, Phases, pool, world, bounds, NoTxn, Vacant,
        ForeignTree, Tree, Idle, Free, At, Goto, StartRestore, Terminate,
        NothingToKill, Launching, Staging, Publishing, Cleaning
USE BoundsAssumption

-----------------------------------------------------------------------------
(* Type correctness.                                                       *)

Controls == [op : {"none", "restore", "readiness", "stop"},
             pc : Phases \cup {"idle"}, retry : BOOLEAN,
             capture : {"none", "tree", "pid"}, verified : BOOLEAN]

Trees == [of : 0..MaxTransactions,
          state : {"vacant", "foreign", "partial", "stopped", "running"}]

\* The controller of a restore is well formed.
LEMMA RestoreStarts ==
  ASSUME NEW pc \in Phases, StartRestore(pc)
  PROVE  ctl' \in Controls
  BY DEF Controls

\* The controller stays well formed when it goes on.
LEMMA GotoTypes ==
  \A pc \in Phases : ctl \in Controls /\ Goto(pc) => ctl' \in Controls
  BY DEF Controls

\* The types, with the controller and the tree set apart.
Rest ==
  /\ status \in Statuses /\ receipt \in BOOLEAN
  /\ txn \in [state : {"none", "prelaunch", "launcher_owned", "validated", "ready"},
              no : 0..MaxTransactions]
  /\ ids \in 0..MaxTransactions /\ sids \in 0..MaxTransactions
  /\ lease \in {"none", "live", "dead"}
  /\ count \in 0..MaxTransactions /\ pidfile \subseteq Transactions
  /\ criu \in [Transactions ->
                {"none", "gated", "running", "ok", "failed", "collided"}]
  /\ late \in BOOLEAN
  /\ crashes \in 0..MaxCrashes /\ foreigners \in 0..MaxForeign
  /\ survivals \in 0..MaxSurvivals

LEMMA TypeParts == TypeOK <=> Rest /\ ctl \in Controls /\ tree \in Trees
  BY DEF TypeOK, Rest, Controls, Trees

\* Every step of a restore that goes well keeps the types.
LEMMA RestoreTypeStep ==
  ASSUME TypeOK,
         \/ Begin \/ StartLauncher \/ OwnLauncher \/ ReleaseLauncher
         \/ LauncherSettled \/ RetryAfterCollision \/ ValidateTree \/ StageSession
         \/ StagePool \/ Resume \/ PublishReady \/ RemovePidfile \/ RestoreDone
         \/ OutputsRefused
  PROVE  TypeOK'
  <1>1. Rest /\ ctl \in Controls /\ tree \in Trees
    BY TypeParts
  <1> USE <1>1 DEF Rest
  <1> HIDE DEF Goto
  <1> SUFFICES Rest' /\ ctl' \in Controls /\ tree' \in Trees
    BY DEF TypeOK, Controls, Trees
  <1>2. CASE Begin
    BY <1>2, GotoTypes DEF Begin
  <1>3. CASE StartLauncher
    BY <1>3, GotoTypes DEF StartLauncher
  <1>4. CASE OwnLauncher
    BY <1>4, GotoTypes DEF OwnLauncher
  <1>5. CASE ReleaseLauncher
    BY <1>5, GotoTypes DEF ReleaseLauncher
  <1>6. CASE LauncherSettled
    <2>1. Goto("validate") \/ Goto("kill")
      BY <1>6 DEF LauncherSettled
    <2> QED BY <1>6, <2>1, GotoTypes DEF LauncherSettled
  <1>7. CASE RetryAfterCollision
    <2>1. ctl' \in Controls
      BY <1>7 DEF RetryAfterCollision, Controls
    <2> QED BY <1>7, <2>1 DEF RetryAfterCollision
  <1>8. CASE ValidateTree
    <2>1. ctl' \in Controls
      BY <1>8 DEF ValidateTree, Controls
    <2> QED BY <1>8, <2>1 DEF ValidateTree
  <1>9. CASE StageSession
    BY <1>9, GotoTypes DEF StageSession
  <1>10. CASE StagePool
    <2>1. ctl' \in Controls
      BY <1>10 DEF StagePool, Controls
    <2> QED BY <1>10, <2>1 DEF StagePool
  <1>11. CASE Resume
    <2>1. tree' \in Trees
      BY <1>11 DEF Resume, Trees
    <2> QED BY <1>11, <2>1, GotoTypes DEF Resume
  <1>12. CASE PublishReady
    BY <1>12, GotoTypes DEF PublishReady
  <1>13. CASE RemovePidfile
    BY <1>13, GotoTypes DEF RemovePidfile
  <1>14. CASE RestoreDone
    <2>1. ctl' \in Controls
      BY <1>14 DEF RestoreDone, Controls
    <2> QED BY <1>14, <2>1 DEF RestoreDone
  <1>15. CASE OutputsRefused
    <2>1. ctl' \in Controls
      BY <1>15 DEF OutputsRefused, Controls
    <2> QED BY <1>15, <2>1 DEF OutputsRefused
  <1> QED
    BY <1>2, <1>3, <1>4, <1>5, <1>6, <1>7, <1>8, <1>9, <1>10, <1>11, <1>12, <1>13,
       <1>14, <1>15

\* Every step keeps the types.
LEMMA TypeStep ==
  ASSUME TypeOK, [Next]_vars
  PROVE  TypeOK'
  <1> USE DEF TypeOK
  <1>1. CASE ActivatePublished
    <2>1. /\ ctl' \in Controls
          /\ UNCHANGED <<receipt, ids, sids, lease, world, bounds, late>>
          /\ status' = "stopped" /\ txn' = NoTxn
      BY <1>1, RestoreStarts DEF ActivatePublished
    <2> QED BY <2>1 DEF Controls
  <1>2. CASE AdmitRestore
    <2>1. /\ ctl' \in Controls
          /\ UNCHANGED <<pool, world, bounds, late>>
      BY <1>2, RestoreStarts DEF AdmitRestore
    <2> QED BY <2>1 DEF Controls
  <1>3. CASE RestoreRecovers
    <2>1. /\ ctl' \in Controls
          /\ UNCHANGED <<pool, world, bounds, late>>
      BY <1>3, RestoreStarts DEF RestoreRecovers
    <2> QED BY <2>1 DEF Controls
  <1>4. CASE StartStop
    <2>1. ctl' \in Controls
      BY <1>4 DEF StartStop, Controls
    <2>2. status' = "stopping"
          /\ UNCHANGED <<receipt, txn, ids, sids, lease, world, bounds, late>>
      BY <1>4 DEF StartStop
    <2> QED BY <2>1, <2>2 DEF Controls
  <1>5. CASE ReadinessRaises
    BY <1>5 DEF ReadinessRaises
  <1>6. CASE StartReadiness
    BY <1>6 DEF StartReadiness
  <1>7. CASE OutputsRefused \/ Begin \/ StartLauncher \/ OwnLauncher \/ ReleaseLauncher
    BY <1>7, RestoreTypeStep
  <1>8. CASE LauncherSettled \/ RetryAfterCollision \/ ValidateTree \/ StageSession
    BY <1>8, RestoreTypeStep
  <1>9. CASE StagePool \/ Resume \/ PublishReady \/ RemovePidfile \/ RestoreDone
    BY <1>9, RestoreTypeStep
  <1>10. CASE PhaseFails
    <2>1. criu' = criu \/ criu' = [criu EXCEPT ![count] = "failed"]
      BY <1>10 DEF PhaseFails
    <2>2. criu' \in [Transactions ->
             {"none", "gated", "running", "ok", "failed", "collided"}]
      BY <2>1
    <2>3. UNCHANGED <<pool, pidfile, tree, bounds, late>>
      BY <1>10 DEF PhaseFails
    <2>4. ctl' \in Controls
      BY <1>10 DEF PhaseFails, Controls
    <2> QED BY <2>2, <2>3, <2>4 DEF Controls
  <1>11. CASE KillTree
    <2>1. PICK gone \in BOOLEAN :
            /\ IF Captured THEN Terminate(gone) ELSE NothingToKill /\ gone
            /\ ctl' = [ctl EXCEPT !.pc = "mark", !.verified = gone /\ CaptureComplete]
      BY <1>11 DEF KillTree
    <2> DEFINE b == gone /\ CaptureComplete
    <2>2. ctl' \in Controls
      <3>1. b \in BOOLEAN /\ ctl' = [ctl EXCEPT !.pc = "mark", !.verified = b]
        BY <2>1
      <3> HIDE DEF b
      <3> QED BY <3>1 DEF Controls
    <2> HIDE DEF b
    <2>3. tree' \in Trees /\ survivals' \in 0..MaxSurvivals
      <3>1. tree' \in {tree, Vacant} /\ survivals' \in 0..MaxSurvivals
        BY <2>1
      <3> QED BY <3>1 DEF Trees
    <2>4. UNCHANGED <<pool, pidfile, criu, count, crashes, foreigners, late>>
      BY <1>11 DEF KillTree
    <2> QED BY <2>2, <2>3, <2>4 DEF Controls, Trees
  <1>12. CASE MarkRestoreFailed
    BY <1>12 DEF MarkRestoreFailed
  <1>13. CASE Unlink
    <2>1. pidfile' \subseteq Transactions
      BY <1>13 DEF Unlink
    <2>2. ctl' \in Controls
      <3>1. CASE ctl' = Idle
        BY <3>1 DEF Controls
      <3>2. CASE Goto("displaced")
        BY <3>2 DEF Controls
      <3> QED BY <1>13, <3>1, <3>2 DEF Unlink
    <2>3. UNCHANGED <<pool, criu, tree, bounds, late>>
      BY <1>13 DEF Unlink
    <2> QED BY <2>1, <2>2, <2>3 DEF Controls
  <1>14. CASE StopProcesses
    <2> DEFINE own == tree.of = sids /\ tree.of # 0
    <2>1. PICK gone \in BOOLEAN :
            /\ IF own THEN Terminate(gone) ELSE NothingToKill /\ gone
            /\ ctl' = [ctl EXCEPT !.pc = "publish_stop",
                                 !.verified = (own /\ gone) \/ tree = Vacant]
      BY <1>14 DEF StopProcesses
    <2> DEFINE b == (own /\ gone) \/ tree = Vacant
    <2>2. ctl' \in Controls
      <3>1. b \in BOOLEAN /\ ctl' = [ctl EXCEPT !.pc = "publish_stop",
                                 !.verified = b]
        BY <2>1
      <3> HIDE DEF b
      <3> QED BY <3>1 DEF Controls
    <2> HIDE DEF b
    <2>3. tree' \in Trees /\ survivals' \in 0..MaxSurvivals
      <3>1. tree' \in {tree, Vacant} /\ survivals' \in 0..MaxSurvivals
        BY <2>1
      <3> QED BY <3>1 DEF Trees
    <2>4. UNCHANGED <<pool, pidfile, criu, count, crashes, foreigners, late>>
      BY <1>14 DEF StopProcesses
    <2> QED BY <2>2, <2>3, <2>4 DEF Controls, Trees
  <1>15. CASE PublishStop
    BY <1>15, SMTT(30) DEF PublishStop
  <1>16. CASE RetireDisplaced
    BY <1>16, SMTT(30) DEF RetireDisplaced
  <1>17. CASE RefuseDisplaced
    BY <1>17 DEF RefuseDisplaced
  <1>18. CASE MarkStopFailed
    <2>1. late' \in BOOLEAN /\ receipt' \in BOOLEAN
      BY <1>18 DEF MarkStopFailed
    <2>2. /\ status' = "stop_failed"
          /\ UNCHANGED <<txn, ids, sids, lease, ctl, world, bounds>>
      BY <1>18 DEF MarkStopFailed
    <2> QED BY <2>1, <2>2
  <1>19. CASE TreeDies
    BY <1>19 DEF TreeDies
  <1>20. CASE ForeignTakesPids
    BY <1>20 DEF ForeignTakesPids
  <1>21. CASE ForeignExits
    BY <1>21 DEF ForeignExits
  <1>22. CASE Crash
    <2>1. crashes' \in 0..MaxCrashes
      BY <1>22 DEF Crash
    <2>2. late' \in BOOLEAN
      BY <1>22 DEF Crash
    <2>3. ctl' = Idle /\ UNCHANGED <<pool, world, count, foreigners, survivals>>
      BY <1>22 DEF Crash
    <2> QED BY <2>1, <2>2, <2>3
  <1>23. CASE Checkout
    BY <1>23 DEF Checkout
  <1>24. CASE OwnerReleases
    BY <1>24 DEF OwnerReleases
  <1>25. CASE OwnerDies
    BY <1>25 DEF OwnerDies
  <1>26. ASSUME NEW n \in Transactions, GateCloses(n) PROVE TypeOK'
    BY <1>26 DEF GateCloses
  <1>27. ASSUME NEW n \in Transactions, CriuForks(n) PROVE TypeOK'
    BY <1>27 DEF CriuForks
  <1>28. ASSUME NEW n \in Transactions, CriuCollides(n) PROVE TypeOK'
    BY <1>28 DEF CriuCollides
  <1>29. ASSUME NEW n \in Transactions, CriuWritesPidfile(n) PROVE TypeOK'
    BY <1>29 DEF CriuWritesPidfile
  <1>30. ASSUME NEW n \in Transactions, CriuSucceeds(n) PROVE TypeOK'
    BY <1>30 DEF CriuSucceeds
  <1>31. ASSUME NEW n \in Transactions, CriuFails(n) PROVE TypeOK'
    BY <1>31 DEF CriuFails
  <1>32. CASE UNCHANGED vars
    BY <1>32 DEF vars
  <1> QED
    BY <1>1, <1>2, <1>3, <1>4, <1>5, <1>6, <1>7, <1>8, <1>9, <1>10, <1>11, <1>12,
      <1>13, <1>14, <1>15, <1>16, <1>17, <1>18, <1>19, <1>20, <1>21, <1>22, <1>23,
      <1>24, <1>25, <1>26, <1>27, <1>28, <1>29, <1>30, <1>31, <1>32
    DEF Next, Starts, Controller, RestoreStep, CleanupStep, StopStep, CriuSettles

-----------------------------------------------------------------------------
(* Launchers and the tree, at each control point.                          *)

\* Launchers start, and trees appear, only for the newest transaction.
LEMMA NewestOnlyStep ==
  ASSUME StopInFlight = FALSE, RInv, TypeOK', [Next]_vars
  PROVE  NewestOnly'
  <1> USE DEF RInv, TypeOK, NewestOnly, LauncherAt, StatusTrue, QuietAt, Quiet,
    AnyInFlight, Captured, RootKnown
  <1>1. ASSUME UNCHANGED <<criu, count, txn, tree>> PROVE NewestOnly'
    BY <1>1
  <1>2. CASE AdmitRestore \/ RestoreRecovers \/ StartStop \/ ReadinessRaises \/
          StartReadiness \/ OutputsRefused \/ LauncherSettled \/ ValidateTree \/
          StageSession \/ RemovePidfile \/ RestoreDone \/ MarkRestoreFailed \/
          Unlink \/ PublishStop \/ MarkStopFailed \/ Crash \/ Checkout \/
          OwnerReleases \/ OwnerDies
    BY <1>1, <1>2, SMTT(30)
    DEF AdmitRestore, RestoreRecovers, StartStop, ReadinessRaises,
      StartReadiness, OutputsRefused, LauncherSettled, ValidateTree,
      StageSession, RemovePidfile, RestoreDone, MarkRestoreFailed, Unlink,
      PublishStop, MarkStopFailed, Crash, Checkout, OwnerReleases, OwnerDies
  <1>3. ASSUME NEW n \in Transactions, CriuWritesPidfile(n) PROVE NewestOnly'
    BY <1>1, <1>3 DEF CriuWritesPidfile
  <1>4. CASE ActivatePublished
    BY <1>4 DEF ActivatePublished
  <1>5. CASE Begin
    BY <1>5 DEF Begin
  <1>6. CASE StartLauncher
    BY <1>6 DEF StartLauncher
  <1>7. CASE OwnLauncher
    BY <1>7 DEF OwnLauncher
  <1>8. CASE ReleaseLauncher
    BY <1>8 DEF ReleaseLauncher
  <1>9. CASE RetryAfterCollision
    BY <1>9 DEF RetryAfterCollision
  <1>10. CASE StagePool
    BY <1>10 DEF StagePool
  <1>11. CASE Resume
    BY <1>11 DEF Resume
  <1>12. CASE PublishReady
    BY <1>12 DEF PublishReady
  <1>13. CASE PhaseFails
    BY <1>13 DEF PhaseFails
  <1>14. CASE KillTree
    BY <1>14 DEF KillTree
  <1>15. CASE StopProcesses
    BY <1>15 DEF StopProcesses
  <1>16. CASE RetireDisplaced
    BY <1>16 DEF RetireDisplaced
  <1>17. CASE RefuseDisplaced
    BY <1>17 DEF RefuseDisplaced
  <1>18. CASE TreeDies
    BY <1>18 DEF TreeDies
  <1>19. CASE ForeignTakesPids
    BY <1>19 DEF ForeignTakesPids
  <1>20. CASE ForeignExits
    BY <1>20 DEF ForeignExits
  <1>21. ASSUME NEW n \in Transactions, GateCloses(n) PROVE NewestOnly'
    BY <1>21 DEF GateCloses
  <1>22. ASSUME NEW n \in Transactions, CriuForks(n) PROVE NewestOnly'
    BY <1>22 DEF CriuForks
  <1>23. ASSUME NEW n \in Transactions, CriuCollides(n) PROVE NewestOnly'
    BY <1>23 DEF CriuCollides
  <1>24. ASSUME NEW n \in Transactions, CriuSucceeds(n) PROVE NewestOnly'
    BY <1>24 DEF CriuSucceeds
  <1>25. ASSUME NEW n \in Transactions, CriuFails(n) PROVE NewestOnly'
    BY <1>25 DEF CriuFails
  <1>26. CASE UNCHANGED vars
    BY <1>1, <1>26 DEF vars
  <1> QED
    BY <1>2, <1>3, <1>4, <1>5, <1>6, <1>7, <1>8, <1>9, <1>10, <1>11, <1>12,
      <1>13, <1>14, <1>15, <1>16, <1>17, <1>18, <1>19, <1>20, <1>21, <1>22,
      <1>23, <1>24, <1>25, <1>26
    DEF Next, Starts, Controller, RestoreStep, CleanupStep, StopStep, CriuSettles

\* Each control point finds the newest launcher in the state it assumes.
LEMMA LauncherAtStep ==
  ASSUME StopInFlight = FALSE, RInv, TypeOK', [Next]_vars
  PROVE  LauncherAt'
  <1> USE DEF RInv, TypeOK, NewestOnly, LauncherAt, StatusTrue, QuietAt, Quiet,
    AnyInFlight, OperatorMayStop, RecoveryApplies, LauncherInFlight, Captured,
    RootKnown, Unsettled
  <1>1. ASSUME UNCHANGED <<ctl, count, criu, status, tree, txn>> PROVE LauncherAt'
    BY <1>1
  <1>2. CASE ReadinessRaises \/ Checkout \/ OwnerReleases \/ OwnerDies
    BY <1>1, <1>2 DEF ReadinessRaises, Checkout, OwnerReleases, OwnerDies
  <1>3. ASSUME NEW n \in Transactions, CriuWritesPidfile(n) PROVE LauncherAt'
    BY <1>1, <1>3 DEF CriuWritesPidfile
  <1>4. CASE ActivatePublished
    BY <1>4 DEF ActivatePublished
  <1>5. CASE AdmitRestore
    BY <1>5 DEF AdmitRestore
  <1>6. CASE RestoreRecovers
    BY <1>6 DEF RestoreRecovers
  <1>7. CASE StartStop
    BY <1>7 DEF StartStop
  <1>8. CASE StartReadiness
    BY <1>8 DEF StartReadiness
  <1>9. CASE OutputsRefused
    BY <1>9 DEF OutputsRefused
  <1>10. CASE Begin
    BY <1>10 DEF Begin
  <1>11. CASE StartLauncher
    BY <1>11 DEF StartLauncher
  <1>12. CASE OwnLauncher
    BY <1>12 DEF OwnLauncher
  <1>13. CASE ReleaseLauncher
    BY <1>13 DEF ReleaseLauncher
  <1>14. CASE LauncherSettled
    BY <1>14 DEF LauncherSettled
  <1>15. CASE RetryAfterCollision
    BY <1>15 DEF RetryAfterCollision
  <1>16. CASE ValidateTree
    BY <1>16 DEF ValidateTree
  <1>17. CASE StageSession
    BY <1>17 DEF StageSession
  <1>18. CASE StagePool
    BY <1>18 DEF StagePool
  <1>19. CASE Resume
    BY <1>19 DEF Resume
  <1>20. CASE PublishReady
    BY <1>20 DEF PublishReady
  <1>21. CASE RemovePidfile
    BY <1>21 DEF RemovePidfile
  <1>22. CASE RestoreDone
    BY <1>22 DEF RestoreDone
  <1>23. CASE PhaseFails
    BY <1>23 DEF PhaseFails
  <1>24. CASE KillTree
    BY <1>24 DEF KillTree
  <1>25. CASE MarkRestoreFailed
    BY <1>25 DEF MarkRestoreFailed
  <1>26. CASE Unlink
    BY <1>26 DEF Unlink
  <1>27. CASE StopProcesses
    BY <1>27 DEF StopProcesses
  <1>28. CASE PublishStop
    BY <1>28 DEF PublishStop
  <1>29. CASE RetireDisplaced
    BY <1>29 DEF RetireDisplaced
  <1>30. CASE RefuseDisplaced
    BY <1>30 DEF RefuseDisplaced
  <1>31. CASE MarkStopFailed
    BY <1>31 DEF MarkStopFailed
  <1>32. CASE TreeDies
    BY <1>32 DEF TreeDies
  <1>33. CASE ForeignTakesPids
    BY <1>33 DEF ForeignTakesPids
  <1>34. CASE ForeignExits
    BY <1>34 DEF ForeignExits
  <1>35. CASE Crash
    BY <1>35 DEF Crash
  <1>36. ASSUME NEW n \in Transactions, GateCloses(n) PROVE LauncherAt'
    BY <1>36 DEF GateCloses
  <1>37. ASSUME NEW n \in Transactions, CriuForks(n) PROVE LauncherAt'
    BY <1>37 DEF CriuForks
  <1>38. ASSUME NEW n \in Transactions, CriuCollides(n) PROVE LauncherAt'
    BY <1>38 DEF CriuCollides
  <1>39. ASSUME NEW n \in Transactions, CriuSucceeds(n) PROVE LauncherAt'
    BY <1>39 DEF CriuSucceeds
  <1>40. ASSUME NEW n \in Transactions, CriuFails(n) PROVE LauncherAt'
    BY <1>40 DEF CriuFails
  <1>41. CASE UNCHANGED vars
    BY <1>1, <1>41 DEF vars
  <1> QED
    BY <1>2, <1>3, <1>4, <1>5, <1>6, <1>7, <1>8, <1>9, <1>10, <1>11, <1>12,
      <1>13, <1>14, <1>15, <1>16, <1>17, <1>18, <1>19, <1>20, <1>21, <1>22,
      <1>23, <1>24, <1>25, <1>26, <1>27, <1>28, <1>29, <1>30, <1>31, <1>32,
      <1>33, <1>34, <1>35, <1>36, <1>37, <1>38, <1>39, <1>40, <1>41
    DEF Next, Starts, Controller, RestoreStep, CleanupStep, StopStep, CriuSettles

\* Staging stops short of a running tree, publication follows both records.
LEMMA StagedAtStep ==
  ASSUME StopInFlight = FALSE, RInv, TypeOK', [Next]_vars
  PROVE  StagedAt'
  <1> USE DEF RInv, TypeOK, NewestOnly, LauncherAt, StagedAt, TreeAnchored,
    StatusTrue, Captured, RootKnown
  <1>1. ASSUME UNCHANGED <<ctl, tree, ids, sids, count>> PROVE StagedAt'
    BY <1>1
  <1>2. CASE ReadinessRaises \/ MarkStopFailed \/ Checkout \/ OwnerReleases \/
          OwnerDies
    BY <1>1, <1>2 DEF ReadinessRaises, MarkStopFailed, Checkout, OwnerReleases,
      OwnerDies
  <1>3. ASSUME NEW n \in Transactions, GateCloses(n) \/ CriuCollides(n)
               \/ CriuWritesPidfile(n)
        PROVE StagedAt'
    BY <1>1, <1>3 DEF GateCloses, CriuCollides, CriuWritesPidfile
  <1>4. CASE ActivatePublished
    BY <1>4 DEF ActivatePublished
  <1>5. CASE AdmitRestore
    BY <1>5 DEF AdmitRestore
  <1>6. CASE RestoreRecovers
    BY <1>6 DEF RestoreRecovers
  <1>7. CASE StartStop
    BY <1>7 DEF StartStop
  <1>8. CASE StartReadiness
    BY <1>8 DEF StartReadiness
  <1>9. CASE OutputsRefused
    BY <1>9 DEF OutputsRefused
  <1>10. CASE Begin
    BY <1>10 DEF Begin
  <1>11. CASE StartLauncher
    BY <1>11 DEF StartLauncher
  <1>12. CASE OwnLauncher
    BY <1>12 DEF OwnLauncher
  <1>13. CASE ReleaseLauncher
    BY <1>13 DEF ReleaseLauncher
  <1>14. CASE LauncherSettled
    <2>1. UNCHANGED <<tree, ids, sids, count>> /\ count \in Transactions
      BY <1>14 DEF LauncherSettled
    <2>2. ctl'.pc = "validate" \/ ctl'.pc = "kill"
      BY <1>14 DEF LauncherSettled
    <2>3. tree.state # "running"
      BY <1>14 DEF LauncherSettled
    <2> QED BY <1>14, <2>1, <2>2, <2>3
  <1>15. CASE RetryAfterCollision
    BY <1>15 DEF RetryAfterCollision
  <1>16. CASE ValidateTree
    BY <1>16 DEF ValidateTree
  <1>17. CASE StageSession
    BY <1>17 DEF StageSession
  <1>18. CASE StagePool
    BY <1>18 DEF StagePool
  <1>19. CASE Resume
    BY <1>19 DEF Resume
  <1>20. CASE PublishReady
    BY <1>20 DEF PublishReady
  <1>21. CASE RemovePidfile
    BY <1>21 DEF RemovePidfile
  <1>22. CASE RestoreDone
    BY <1>22 DEF RestoreDone
  <1>23. CASE PhaseFails
    BY <1>23 DEF PhaseFails
  <1>24. CASE KillTree
    BY <1>24 DEF KillTree
  <1>25. CASE MarkRestoreFailed
    BY <1>25 DEF MarkRestoreFailed
  <1>26. CASE Unlink
    BY <1>26 DEF Unlink
  <1>27. CASE StopProcesses
    BY <1>27 DEF StopProcesses
  <1>28. CASE PublishStop
    BY <1>28 DEF PublishStop
  <1>29. CASE RetireDisplaced
    BY <1>29 DEF RetireDisplaced
  <1>30. CASE RefuseDisplaced
    BY <1>30 DEF RefuseDisplaced
  <1>31. CASE TreeDies
    BY <1>31 DEF TreeDies
  <1>32. CASE ForeignTakesPids
    BY <1>32 DEF ForeignTakesPids
  <1>33. CASE ForeignExits
    BY <1>33 DEF ForeignExits
  <1>34. CASE Crash
    BY <1>34 DEF Crash
  <1>35. ASSUME NEW n \in Transactions, CriuForks(n) PROVE StagedAt'
    BY <1>35 DEF CriuForks
  <1>36. ASSUME NEW n \in Transactions, CriuSucceeds(n) PROVE StagedAt'
    BY <1>36 DEF CriuSucceeds
  <1>37. ASSUME NEW n \in Transactions, CriuFails(n) PROVE StagedAt'
    BY <1>37 DEF CriuFails
  <1>38. CASE UNCHANGED vars
    BY <1>1, <1>38 DEF vars
  <1> QED
    BY <1>2, <1>3, <1>4, <1>5, <1>6, <1>7, <1>8, <1>9, <1>10, <1>11, <1>12,
      <1>13, <1>14, <1>15, <1>16, <1>17, <1>18, <1>19, <1>20, <1>21, <1>22,
      <1>23, <1>24, <1>25, <1>26, <1>27, <1>28, <1>29, <1>30, <1>31, <1>32,
      <1>33, <1>34, <1>35, <1>36, <1>37, <1>38
    DEF Next, Starts, Controller, RestoreStep, CleanupStep, StopStep, CriuSettles

\* Only restores launch.
LEMMA ReadinessAtStep ==
  ASSUME TypeOK, ReadinessAt, [Next]_vars
  PROVE  ReadinessAt'
  <1> USE DEF TypeOK, ReadinessAt
  <1>1. ASSUME UNCHANGED <<ctl>> PROVE ReadinessAt'
    BY <1>1
  <1>2. CASE ReadinessRaises \/ MarkStopFailed \/ TreeDies \/ ForeignTakesPids
          \/ ForeignExits \/ Checkout \/ OwnerReleases \/ OwnerDies
    BY <1>1, <1>2 DEF ReadinessRaises, MarkStopFailed, TreeDies,
      ForeignTakesPids, ForeignExits, Checkout, OwnerReleases, OwnerDies
  <1>3. ASSUME NEW n \in Transactions, GateCloses(n) \/ CriuForks(n)
               \/ CriuCollides(n) \/ CriuWritesPidfile(n) \/ CriuSucceeds(n)
               \/ CriuFails(n)
        PROVE ReadinessAt'
    BY <1>1, <1>3 DEF GateCloses, CriuForks, CriuCollides, CriuWritesPidfile,
      CriuSucceeds, CriuFails
  <1>4. CASE ActivatePublished
    BY <1>4 DEF ActivatePublished
  <1>5. CASE AdmitRestore
    BY <1>5 DEF AdmitRestore
  <1>6. CASE RestoreRecovers
    BY <1>6 DEF RestoreRecovers
  <1>7. CASE StartStop
    BY <1>7 DEF StartStop
  <1>8. CASE StartReadiness
    BY <1>8 DEF StartReadiness
  <1>9. CASE OutputsRefused
    BY <1>9 DEF OutputsRefused
  <1>10. CASE Begin
    BY <1>10 DEF Begin
  <1>11. CASE StartLauncher
    BY <1>11 DEF StartLauncher
  <1>12. CASE OwnLauncher
    BY <1>12 DEF OwnLauncher
  <1>13. CASE ReleaseLauncher
    BY <1>13 DEF ReleaseLauncher
  <1>14. CASE LauncherSettled
    BY <1>14 DEF LauncherSettled
  <1>15. CASE RetryAfterCollision
    BY <1>15 DEF RetryAfterCollision
  <1>16. CASE ValidateTree
    BY <1>16 DEF ValidateTree
  <1>17. CASE StageSession
    BY <1>17 DEF StageSession
  <1>18. CASE StagePool
    BY <1>18 DEF StagePool
  <1>19. CASE Resume
    BY <1>19 DEF Resume
  <1>20. CASE PublishReady
    BY <1>20 DEF PublishReady
  <1>21. CASE RemovePidfile
    BY <1>21 DEF RemovePidfile
  <1>22. CASE RestoreDone
    BY <1>22 DEF RestoreDone
  <1>23. CASE PhaseFails
    BY <1>23 DEF PhaseFails
  <1>24. CASE KillTree
    BY <1>24 DEF KillTree
  <1>25. CASE MarkRestoreFailed
    BY <1>25 DEF MarkRestoreFailed
  <1>26. CASE Unlink
    BY <1>26 DEF Unlink
  <1>27. CASE StopProcesses
    BY <1>27 DEF StopProcesses
  <1>28. CASE PublishStop
    BY <1>28 DEF PublishStop
  <1>29. CASE RetireDisplaced
    BY <1>29 DEF RetireDisplaced
  <1>30. CASE RefuseDisplaced
    BY <1>30 DEF RefuseDisplaced
  <1>31. CASE Crash
    BY <1>31 DEF Crash
  <1>32. CASE UNCHANGED vars
    BY <1>1, <1>32 DEF vars
  <1> QED
    BY <1>2, <1>3, <1>4, <1>5, <1>6, <1>7, <1>8, <1>9, <1>10, <1>11, <1>12,
      <1>13, <1>14, <1>15, <1>16, <1>17, <1>18, <1>19, <1>20, <1>21, <1>22,
      <1>23, <1>24, <1>25, <1>26, <1>27, <1>28, <1>29, <1>30, <1>31, <1>32
    DEF Next, Starts, Controller, RestoreStep, CleanupStep, StopStep, CriuSettles

\* No launcher is in flight where admission or a stop decides.
LEMMA QuietAtStep ==
  ASSUME StopInFlight = FALSE, RInv, TypeOK', [Next]_vars
  PROVE  QuietAt'
  <1> USE DEF RInv, TypeOK, NewestOnly, LauncherAt, ReadinessAt, QuietAt, Quiet,
    AnyInFlight, OperatorMayStop, MayBegin, StaleReady, Captured, Unsettled
  <1>1. ASSUME UNCHANGED <<ctl, status, criu>> PROVE QuietAt'
    BY <1>1
  <1>2. CASE ReadinessRaises \/ TreeDies \/ ForeignTakesPids \/ ForeignExits \/
          Checkout \/ OwnerReleases \/ OwnerDies
    BY <1>1, <1>2 DEF ReadinessRaises, TreeDies, ForeignTakesPids, ForeignExits,
      Checkout, OwnerReleases, OwnerDies
  <1>3. ASSUME NEW n \in Transactions, CriuForks(n) \/ CriuWritesPidfile(n)
        PROVE QuietAt'
    BY <1>1, <1>3 DEF CriuForks, CriuWritesPidfile
  <1>4. CASE ActivatePublished
    BY <1>4 DEF ActivatePublished
  <1>5. CASE AdmitRestore
    BY <1>5 DEF AdmitRestore
  <1>6. CASE RestoreRecovers
    BY <1>6 DEF RestoreRecovers
  <1>7. CASE StartStop
    BY <1>7 DEF StartStop
  <1>8. CASE StartReadiness
    BY <1>8 DEF StartReadiness
  <1>9. CASE OutputsRefused
    BY <1>9 DEF OutputsRefused
  <1>10. CASE Begin
    BY <1>10 DEF Begin
  <1>11. CASE StartLauncher
    BY <1>11 DEF StartLauncher
  <1>12. CASE OwnLauncher
    BY <1>12 DEF OwnLauncher
  <1>13. CASE ReleaseLauncher
    BY <1>13 DEF ReleaseLauncher
  <1>14. CASE LauncherSettled
    BY <1>14 DEF LauncherSettled
  <1>15. CASE RetryAfterCollision
    BY <1>15 DEF RetryAfterCollision
  <1>16. CASE ValidateTree
    BY <1>16 DEF ValidateTree
  <1>17. CASE StageSession
    BY <1>17 DEF StageSession
  <1>18. CASE StagePool
    BY <1>18 DEF StagePool
  <1>19. CASE Resume
    BY <1>19 DEF Resume
  <1>20. CASE PublishReady
    BY <1>20 DEF PublishReady
  <1>21. CASE RemovePidfile
    BY <1>21 DEF RemovePidfile
  <1>22. CASE RestoreDone
    BY <1>22 DEF RestoreDone
  <1>23. CASE PhaseFails
    BY <1>23 DEF PhaseFails
  <1>24. CASE KillTree
    BY <1>24 DEF KillTree
  <1>25. CASE MarkRestoreFailed
    BY <1>25 DEF MarkRestoreFailed
  <1>26. CASE Unlink
    BY <1>26 DEF Unlink
  <1>27. CASE StopProcesses
    BY <1>27 DEF StopProcesses
  <1>28. CASE PublishStop
    BY <1>28 DEF PublishStop
  <1>29. CASE RetireDisplaced
    BY <1>29 DEF RetireDisplaced
  <1>30. CASE RefuseDisplaced
    BY <1>30 DEF RefuseDisplaced
  <1>31. CASE MarkStopFailed
    BY <1>31 DEF MarkStopFailed
  <1>32. CASE Crash
    BY <1>32 DEF Crash
  <1>33. ASSUME NEW n \in Transactions, GateCloses(n) PROVE QuietAt'
    BY <1>33 DEF GateCloses
  <1>34. ASSUME NEW n \in Transactions, CriuCollides(n) PROVE QuietAt'
    BY <1>34 DEF CriuCollides
  <1>35. ASSUME NEW n \in Transactions, CriuSucceeds(n) PROVE QuietAt'
    BY <1>35 DEF CriuSucceeds
  <1>36. ASSUME NEW n \in Transactions, CriuFails(n) PROVE QuietAt'
    BY <1>36 DEF CriuFails
  <1>37. CASE UNCHANGED vars
    BY <1>1, <1>37 DEF vars
  <1> QED
    BY <1>2, <1>3, <1>4, <1>5, <1>6, <1>7, <1>8, <1>9, <1>10, <1>11, <1>12,
      <1>13, <1>14, <1>15, <1>16, <1>17, <1>18, <1>19, <1>20, <1>21, <1>22,
      <1>23, <1>24, <1>25, <1>26, <1>27, <1>28, <1>29, <1>30, <1>31, <1>32,
      <1>33, <1>34, <1>35, <1>36, <1>37
    DEF Next, Starts, Controller, RestoreStep, CleanupStep, StopStep, CriuSettles

\* Nothing restores the tree that a cleanup or a stop has verified gone.
LEMMA VerifiedAtStep ==
  ASSUME StopInFlight = FALSE, RInv, TypeOK', [Next]_vars
  PROVE  VerifiedAt'
  <1> USE DEF RInv, TypeOK, NewestOnly, LauncherAt, QuietAt, VerifiedAt, Quiet,
    AnyInFlight, Captured, RootKnown, CaptureComplete
  <1>1. ASSUME UNCHANGED <<ctl, tree>> PROVE VerifiedAt'
    BY <1>1
  <1>2. CASE ReadinessRaises \/ MarkStopFailed \/ Checkout \/ OwnerReleases \/
          OwnerDies
    BY <1>1, <1>2 DEF ReadinessRaises, MarkStopFailed, Checkout, OwnerReleases,
      OwnerDies
  <1>3. ASSUME NEW n \in Transactions, GateCloses(n) \/ CriuCollides(n)
               \/ CriuWritesPidfile(n)
        PROVE VerifiedAt'
    BY <1>1, <1>3 DEF GateCloses, CriuCollides, CriuWritesPidfile
  <1>4. CASE ActivatePublished
    BY <1>4 DEF ActivatePublished
  <1>5. CASE AdmitRestore
    BY <1>5 DEF AdmitRestore
  <1>6. CASE RestoreRecovers
    BY <1>6 DEF RestoreRecovers
  <1>7. CASE StartStop
    BY <1>7 DEF StartStop
  <1>8. CASE StartReadiness
    BY <1>8 DEF StartReadiness
  <1>9. CASE OutputsRefused
    BY <1>9 DEF OutputsRefused
  <1>10. CASE Begin
    BY <1>10 DEF Begin
  <1>11. CASE StartLauncher
    BY <1>11 DEF StartLauncher
  <1>12. CASE OwnLauncher
    BY <1>12 DEF OwnLauncher
  <1>13. CASE ReleaseLauncher
    BY <1>13 DEF ReleaseLauncher
  <1>14. CASE LauncherSettled
    BY <1>14 DEF LauncherSettled
  <1>15. CASE RetryAfterCollision
    BY <1>15 DEF RetryAfterCollision
  <1>16. CASE ValidateTree
    BY <1>16 DEF ValidateTree
  <1>17. CASE StageSession
    BY <1>17 DEF StageSession
  <1>18. CASE StagePool
    BY <1>18 DEF StagePool
  <1>19. CASE Resume
    BY <1>19 DEF Resume
  <1>20. CASE PublishReady
    BY <1>20 DEF PublishReady
  <1>21. CASE RemovePidfile
    BY <1>21 DEF RemovePidfile
  <1>22. CASE RestoreDone
    BY <1>22 DEF RestoreDone
  <1>23. CASE PhaseFails
    BY <1>23 DEF PhaseFails
  <1>24. CASE KillTree
    BY <1>24 DEF KillTree
  <1>25. CASE MarkRestoreFailed
    BY <1>25 DEF MarkRestoreFailed
  <1>26. CASE Unlink
    BY <1>26 DEF Unlink
  <1>27. CASE StopProcesses
    BY <1>27 DEF StopProcesses
  <1>28. CASE PublishStop
    BY <1>28 DEF PublishStop
  <1>29. CASE RetireDisplaced
    BY <1>29 DEF RetireDisplaced
  <1>30. CASE RefuseDisplaced
    BY <1>30 DEF RefuseDisplaced
  <1>31. CASE TreeDies
    BY <1>31 DEF TreeDies
  <1>32. CASE ForeignTakesPids
    BY <1>32 DEF ForeignTakesPids
  <1>33. CASE ForeignExits
    BY <1>33 DEF ForeignExits
  <1>34. CASE Crash
    BY <1>34 DEF Crash
  <1>35. ASSUME NEW n \in Transactions, CriuForks(n) PROVE VerifiedAt'
    BY <1>35 DEF CriuForks
  <1>36. ASSUME NEW n \in Transactions, CriuSucceeds(n) PROVE VerifiedAt'
    BY <1>36 DEF CriuSucceeds
  <1>37. ASSUME NEW n \in Transactions, CriuFails(n) PROVE VerifiedAt'
    BY <1>37 DEF CriuFails
  <1>38. CASE UNCHANGED vars
    BY <1>1, <1>38 DEF vars
  <1> QED
    BY <1>2, <1>3, <1>4, <1>5, <1>6, <1>7, <1>8, <1>9, <1>10, <1>11, <1>12,
      <1>13, <1>14, <1>15, <1>16, <1>17, <1>18, <1>19, <1>20, <1>21, <1>22,
      <1>23, <1>24, <1>25, <1>26, <1>27, <1>28, <1>29, <1>30, <1>31, <1>32,
      <1>33, <1>34, <1>35, <1>36, <1>37, <1>38
    DEF Next, Starts, Controller, RestoreStep, CleanupStep, StopStep, CriuSettles

-----------------------------------------------------------------------------
(* The properties.                                                         *)

\* A tree runs only under both records, and keeps its pidfile until then.
LEMMA TreeAnchoredStep ==
  ASSUME StopInFlight = FALSE, RInv, TypeOK', [Next]_vars
  PROVE  TreeAnchored'
  <1> USE DEF RInv, TypeOK, NewestOnly, LauncherAt, StagedAt, VerifiedAt,
    TreeAnchored
  <1>1. ASSUME UNCHANGED <<tree, ids, sids, criu, pidfile>> PROVE TreeAnchored'
    BY <1>1
  <1>2. CASE ActivatePublished \/ AdmitRestore \/ RestoreRecovers \/ StartStop
          \/ ReadinessRaises \/ StartReadiness \/ OutputsRefused \/ Begin \/
          OwnLauncher \/ LauncherSettled \/ RetryAfterCollision \/ ValidateTree
          \/ PublishReady \/ RestoreDone \/ MarkRestoreFailed \/ PublishStop \/
          MarkStopFailed \/ Crash \/ Checkout \/ OwnerReleases \/ OwnerDies
    BY <1>1, <1>2, SMTT(30)
    DEF ActivatePublished, AdmitRestore, RestoreRecovers,
      StartStop, ReadinessRaises, StartReadiness, OutputsRefused, Begin,
      OwnLauncher, LauncherSettled, RetryAfterCollision, ValidateTree,
      PublishReady, RestoreDone, MarkRestoreFailed, PublishStop, MarkStopFailed,
      Crash, Checkout, OwnerReleases, OwnerDies
  <1>3. CASE StartLauncher
    BY <1>3 DEF StartLauncher
  <1>4. CASE ReleaseLauncher
    BY <1>4 DEF ReleaseLauncher
  <1>5. CASE StageSession
    BY <1>5 DEF StageSession
  <1>6. CASE StagePool
    BY <1>6 DEF StagePool
  <1>7. CASE Resume
    BY <1>7 DEF Resume
  <1>8. CASE RemovePidfile
    BY <1>8 DEF RemovePidfile
  <1>9. CASE PhaseFails
    BY <1>9 DEF PhaseFails
  <1>10. CASE KillTree
    BY <1>10 DEF KillTree
  <1>11. CASE Unlink
    BY <1>11 DEF Unlink
  <1>12. CASE StopProcesses
    BY <1>12 DEF StopProcesses
  <1>13. CASE RetireDisplaced
    BY <1>13 DEF RetireDisplaced
  <1>14. CASE RefuseDisplaced
    BY <1>14 DEF RefuseDisplaced
  <1>15. CASE TreeDies
    BY <1>15 DEF TreeDies
  <1>16. CASE ForeignTakesPids
    BY <1>16 DEF ForeignTakesPids
  <1>17. CASE ForeignExits
    BY <1>17 DEF ForeignExits
  <1>18. ASSUME NEW n \in Transactions, GateCloses(n) PROVE TreeAnchored'
    BY <1>18 DEF GateCloses
  <1>19. ASSUME NEW n \in Transactions, CriuForks(n) PROVE TreeAnchored'
    BY <1>19 DEF CriuForks
  <1>20. ASSUME NEW n \in Transactions, CriuCollides(n) PROVE TreeAnchored'
    BY <1>20 DEF CriuCollides
  <1>21. ASSUME NEW n \in Transactions, CriuWritesPidfile(n) PROVE TreeAnchored'
    BY <1>21 DEF CriuWritesPidfile
  <1>22. ASSUME NEW n \in Transactions, CriuSucceeds(n) PROVE TreeAnchored'
    BY <1>22 DEF CriuSucceeds
  <1>23. ASSUME NEW n \in Transactions, CriuFails(n) PROVE TreeAnchored'
    BY <1>23 DEF CriuFails
  <1>24. CASE UNCHANGED vars
    BY <1>1, <1>24 DEF vars
  <1> QED
    BY <1>2, <1>3, <1>4, <1>5, <1>6, <1>7, <1>8, <1>9, <1>10, <1>11, <1>12,
      <1>13, <1>14, <1>15, <1>16, <1>17, <1>18, <1>19, <1>20, <1>21, <1>22,
      <1>23, <1>24
    DEF Next, Starts, Controller, RestoreStep, CleanupStep, StopStep, CriuSettles

\* "ready" and "stopped" stay true of the tree.
LEMMA StatusTrueStep ==
  ASSUME StopInFlight = FALSE, RInv, TypeOK', [Next]_vars
  PROVE  StatusTrue'
  <1> USE DEF RInv, TypeOK, NewestOnly, LauncherAt, StagedAt, QuietAt,
    VerifiedAt, StatusTrue, Quiet, AnyInFlight, StaleReady, MayBegin, Unsettled,
    Captured
  <1>1. ASSUME UNCHANGED <<status, tree, ids>> PROVE StatusTrue'
    BY <1>1
  <1>2. CASE AdmitRestore \/ RestoreRecovers \/ ReadinessRaises \/
          OutputsRefused \/ StartLauncher \/ OwnLauncher \/ ReleaseLauncher \/
          LauncherSettled \/ ValidateTree \/ StageSession \/ RemovePidfile \/
          RestoreDone \/ PhaseFails \/ Unlink \/ Crash \/ Checkout \/
          OwnerReleases \/ OwnerDies
    BY <1>1, <1>2, SMTT(30)
    DEF AdmitRestore, RestoreRecovers, ReadinessRaises,
      OutputsRefused, StartLauncher, OwnLauncher, ReleaseLauncher,
      LauncherSettled, ValidateTree, StageSession, RemovePidfile, RestoreDone,
      PhaseFails, Unlink, Crash, Checkout, OwnerReleases, OwnerDies
  <1>3. ASSUME NEW n \in Transactions, GateCloses(n) \/ CriuCollides(n)
               \/ CriuWritesPidfile(n)
        PROVE StatusTrue'
    BY <1>1, <1>3 DEF GateCloses, CriuCollides, CriuWritesPidfile
  <1>4. CASE ActivatePublished
    BY <1>4 DEF ActivatePublished
  <1>5. CASE StartStop
    BY <1>5 DEF StartStop
  <1>6. CASE StartReadiness
    BY <1>6 DEF StartReadiness
  <1>7. CASE Begin
    BY <1>7 DEF Begin
  <1>8. CASE RetryAfterCollision
    BY <1>8 DEF RetryAfterCollision
  <1>9. CASE StagePool
    BY <1>9 DEF StagePool
  <1>10. CASE Resume
    BY <1>10 DEF Resume
  <1>11. CASE PublishReady
    BY <1>11 DEF PublishReady
  <1>12. CASE KillTree
    BY <1>12 DEF KillTree
  <1>13. CASE MarkRestoreFailed
    BY <1>13 DEF MarkRestoreFailed
  <1>14. CASE StopProcesses
    BY <1>14 DEF StopProcesses
  <1>15. CASE PublishStop
    BY <1>15 DEF PublishStop
  <1>16. CASE RetireDisplaced
    BY <1>16 DEF RetireDisplaced
  <1>17. CASE RefuseDisplaced
    BY <1>17 DEF RefuseDisplaced
  <1>18. CASE MarkStopFailed
    BY <1>18 DEF MarkStopFailed
  <1>19. CASE TreeDies
    BY <1>19 DEF TreeDies
  <1>20. CASE ForeignTakesPids
    BY <1>20 DEF ForeignTakesPids
  <1>21. CASE ForeignExits
    BY <1>21 DEF ForeignExits
  <1>22. ASSUME NEW n \in Transactions, CriuForks(n) PROVE StatusTrue'
    BY <1>22 DEF CriuForks
  <1>23. ASSUME NEW n \in Transactions, CriuSucceeds(n) PROVE StatusTrue'
    BY <1>23 DEF CriuSucceeds
  <1>24. ASSUME NEW n \in Transactions, CriuFails(n) PROVE StatusTrue'
    BY <1>24 DEF CriuFails
  <1>25. CASE UNCHANGED vars
    BY <1>1, <1>25 DEF vars
  <1> QED
    BY <1>2, <1>3, <1>4, <1>5, <1>6, <1>7, <1>8, <1>9, <1>10, <1>11, <1>12,
      <1>13, <1>14, <1>15, <1>16, <1>17, <1>18, <1>19, <1>20, <1>21, <1>22,
      <1>23, <1>24, <1>25
    DEF Next, Starts, Controller, RestoreStep, CleanupStep, StopStep, CriuSettles

\* No client gets a lease while a recovery runs.
LEMMA SparedStep ==
  ASSUME TypeOK, ReadinessAt, SparedAt, [Next]_vars
  PROVE  SparedAt'
  <1> USE DEF TypeOK, ReadinessAt, SparedAt, Unsettled
  <1>1. ASSUME UNCHANGED <<ctl, status, lease>> PROVE SparedAt'
    BY <1>1
  <1>2. CASE ReadinessRaises \/ TreeDies \/ ForeignTakesPids \/ ForeignExits
    BY <1>1, <1>2 DEF ReadinessRaises, TreeDies, ForeignTakesPids, ForeignExits
  <1>3. ASSUME NEW n \in Transactions, GateCloses(n) \/ CriuForks(n)
               \/ CriuCollides(n) \/ CriuWritesPidfile(n) \/ CriuSucceeds(n)
               \/ CriuFails(n)
        PROVE SparedAt'
    BY <1>1, <1>3 DEF GateCloses, CriuForks, CriuCollides, CriuWritesPidfile,
      CriuSucceeds, CriuFails
  <1>4. CASE ActivatePublished
    BY <1>4 DEF ActivatePublished
  <1>5. CASE AdmitRestore
    BY <1>5 DEF AdmitRestore
  <1>6. CASE RestoreRecovers
    BY <1>6 DEF RestoreRecovers
  <1>7. CASE StartStop
    BY <1>7 DEF StartStop
  <1>8. CASE StartReadiness
    BY <1>8 DEF StartReadiness
  <1>9. CASE OutputsRefused
    BY <1>9 DEF OutputsRefused
  <1>10. CASE Begin
    BY <1>10 DEF Begin
  <1>11. CASE StartLauncher
    BY <1>11 DEF StartLauncher
  <1>12. CASE OwnLauncher
    BY <1>12 DEF OwnLauncher
  <1>13. CASE ReleaseLauncher
    BY <1>13 DEF ReleaseLauncher
  <1>14. CASE LauncherSettled
    BY <1>14 DEF LauncherSettled
  <1>15. CASE RetryAfterCollision
    BY <1>15 DEF RetryAfterCollision
  <1>16. CASE ValidateTree
    BY <1>16 DEF ValidateTree
  <1>17. CASE StageSession
    BY <1>17 DEF StageSession
  <1>18. CASE StagePool
    BY <1>18 DEF StagePool
  <1>19. CASE Resume
    BY <1>19 DEF Resume
  <1>20. CASE PublishReady
    BY <1>20 DEF PublishReady
  <1>21. CASE RemovePidfile
    BY <1>21 DEF RemovePidfile
  <1>22. CASE RestoreDone
    BY <1>22 DEF RestoreDone
  <1>23. CASE PhaseFails
    BY <1>23 DEF PhaseFails
  <1>24. CASE KillTree
    BY <1>24 DEF KillTree
  <1>25. CASE MarkRestoreFailed
    BY <1>25 DEF MarkRestoreFailed
  <1>26. CASE Unlink
    BY <1>26 DEF Unlink
  <1>27. CASE StopProcesses
    BY <1>27 DEF StopProcesses
  <1>28. CASE PublishStop
    BY <1>28 DEF PublishStop
  <1>29. CASE RetireDisplaced
    BY <1>29 DEF RetireDisplaced
  <1>30. CASE RefuseDisplaced
    BY <1>30 DEF RefuseDisplaced
  <1>31. CASE MarkStopFailed
    BY <1>31 DEF MarkStopFailed
  <1>32. CASE Crash
    BY <1>32 DEF Crash
  <1>33. CASE Checkout
    BY <1>33 DEF Checkout
  <1>34. CASE OwnerReleases
    BY <1>34 DEF OwnerReleases
  <1>35. CASE OwnerDies
    BY <1>35 DEF OwnerDies
  <1>36. CASE UNCHANGED vars
    BY <1>1, <1>36 DEF vars
  <1> QED
    BY <1>2, <1>3, <1>4, <1>5, <1>6, <1>7, <1>8, <1>9, <1>10, <1>11, <1>12,
      <1>13, <1>14, <1>15, <1>16, <1>17, <1>18, <1>19, <1>20, <1>21, <1>22,
      <1>23, <1>24, <1>25, <1>26, <1>27, <1>28, <1>29, <1>30, <1>31, <1>32,
      <1>33, <1>34, <1>35, <1>36
    DEF Next, Starts, Controller, RestoreStep, CleanupStep, StopStep, CriuSettles

-----------------------------------------------------------------------------
(* The theorems.                                                           *)

\* The published shelf before the first restore.
LEMMA InitInv == Init => RInv
  <1> SUFFICES ASSUME Init PROVE RInv
    OBVIOUS
  <1>1. TypeOK
    <2>1. ctl \in Controls /\ tree \in Trees
      BY DEF Init, Controls, Trees
    <2>2. receipt \in BOOLEAN /\ late \in BOOLEAN
      BY DEF Init
    <2>3. /\ status \in Statuses /\ lease \in {"none", "live", "dead"}
          /\ txn \in [state : {"none", "prelaunch", "launcher_owned", "validated",
                              "ready"}, no : 0..MaxTransactions]
          /\ criu \in [Transactions ->
                {"none", "gated", "running", "ok", "failed", "collided"}]
      BY DEF Init
    <2>4. /\ ids \in 0..MaxTransactions /\ sids \in 0..MaxTransactions
          /\ count \in 0..MaxTransactions /\ pidfile \subseteq Transactions
          /\ crashes \in 0..MaxCrashes /\ foreigners \in 0..MaxForeign
          /\ survivals \in 0..MaxSurvivals
      BY DEF Init
    <2> QED BY <2>1, <2>2, <2>3, <2>4 DEF TypeOK, Controls, Trees
  <1>2. NewestOnly /\ LauncherAt
    BY DEF Init, NewestOnly, LauncherAt
  <1>3. StagedAt /\ ReadinessAt /\ VerifiedAt
    BY DEF Init, StagedAt, ReadinessAt, VerifiedAt
  <1>4. QuietAt
    BY DEF Init, QuietAt, Quiet, AnyInFlight
  <1>5. TreeAnchored /\ StatusTrue
    BY DEF Init, TreeAnchored, StatusTrue
  <1> QED BY <1>1, <1>2, <1>3, <1>4, <1>5 DEF RInv

\* Where no stop runs beside a launcher in flight, RInv holds throughout.
THEOREM RestoreInvariance ==
  ASSUME StopInFlight = FALSE
  PROVE  Spec => []RInv
  <1>1. RInv /\ [Next]_vars => RInv'
    <2> SUFFICES ASSUME RInv, [Next]_vars PROVE RInv'
      OBVIOUS
    <2>1. TypeOK'
      BY TypeStep DEF RInv
    <2>2. NewestOnly' /\ LauncherAt' /\ StagedAt' /\ QuietAt' /\ VerifiedAt'
      BY <2>1, NewestOnlyStep, LauncherAtStep, StagedAtStep, QuietAtStep,
         VerifiedAtStep
    <2>3. ReadinessAt'
      BY ReadinessAtStep DEF RInv
    <2>4. TreeAnchored' /\ StatusTrue'
      BY <2>1, TreeAnchoredStep, StatusTrueStep
    <2> QED BY <2>1, <2>2, <2>3, <2>4 DEF RInv
  <1> QED BY InitInv, <1>1, PTL DEF Spec

\* A restored tree runs only under both records and keeps its pidfile until
\* pool.json names it, whatever crashes, collisions and survivors occur.
THEOREM TreeAnchoredHolds ==
  ASSUME StopInFlight = FALSE
  PROVE  Spec => []TreeAnchored
  <1>1. RInv => TreeAnchored
    BY DEF RInv
  <1> QED BY RestoreInvariance, <1>1, PTL

\* "ready" is said of a running tree and "stopped" of one that is gone.
THEOREM StatusTrueHolds ==
  ASSUME StopInFlight = FALSE
  PROVE  Spec => []StatusTrue
  <1>1. RInv => StatusTrue
    BY DEF RInv
  <1> QED BY RestoreInvariance, <1>1, PTL

\* A recovery never kills a tree under a live lease, launchers or not: admission
\* is closed from its check for live owners until it publishes its result.
THEOREM RecoverySparesLeaseHolds == Spec => RecoverySparesLease
  <1> DEFINE SInv == TypeOK /\ ReadinessAt /\ SparedAt
  <1>1. Init => SInv
    BY InitInv DEF Init, RInv, SparedAt
  <1>2. SInv /\ [Next]_vars => SInv'
    BY TypeStep, ReadinessAtStep, SparedStep
  <1>3. SInv /\ [Next]_vars =>
          [ctl.op = "readiness" /\ tree.of # 0 /\ tree' = Vacant /\ ~TreeDies
             => lease # "live"]_vars
    BY DEF SparedAt
  <1> QED BY <1>1, <1>2, <1>3, PTL DEF Spec, RecoverySparesLease
=============================================================================
