---------------------------- MODULE SignalProofs ----------------------------
(***************************************************************************)
(* What is said of the effect of a signal is so.  OwnedProcesses, for any  *)
(* number of processes, whenever the leader's number changes hands, where  *)
(* the group does not fork while it is listed and a process that was forked*)
(* has its identity and record (the module says what fails otherwise): what*)
(* the controllers of a group report is right.                             *)
(* ShelfCancel, for any number of processes and slots: what cancel tells of*)
(* an attempt is so.  ProjectBasis, for any number of controllers, keys and*)
(* generations: evictions keep the live bases below the limit, and none    *)
(* stops a basis on which a leaf is being evaluated.                       *)
(***************************************************************************)
EXTENDS OwnedProcesses, ShelfCancel, ProjectBasis, FiniteSetTheorems, TLAPS

-----------------------------------------------------------------------------
(* A process group.                                                        *)

\* When somebody else has the number, also while the starter ends the group, nothing of
\* the group is left that has it too.
ForeignInv == foreign => opc # "start" /\ member \subseteq {Leader}

\* What the starter has done by its control point, and that a stop comes after it.
StarterInv ==
  /\ opc = "start" => member = {} /\ top = 0
  /\ opc \notin {"start", "failed"} => known /\ record # "none"
  /\ pool = "verified" => opc = "failed"
  /\ pool = "stopped" => opc = "done"
  /\ spc # "off" => opc = "done"

\* A member that runs has been seen or is still to be read.
ListingInv == spc = "read" /\ ~foreign => member \cap Running \subseteq listed \cup seen

\* ReportedGroupGone in one sentence.
GoneInv ==
  (StarterOver /\ (pool \in {"verified", "stopped"} \/ record = "none")) => OwnRunning = {}

\* TypeOK in three parts.
ProcessesOK ==
  /\ state \in [Pids -> {"none", "run", "zombie"}] /\ member \subseteq Pids
  /\ doomed \subseteq Pids /\ top \in 0..MaxPid
StarterOK ==
  /\ foreign \in BOOLEAN
  /\ ready \in BOOLEAN /\ known \in BOOLEAN /\ hit \in BOOLEAN
  /\ opc \in {"start", "waiting", "publish", "commit", "first", "termed", "kill", "killed",
              "done", "failed"}
  /\ record \in {"none", "owned", "transferred"}
  /\ pool \in {"starting", "ready", "verified", "unverified", "stopped", "stop_failed"}
StopOK ==
  /\ spc \in {"off", "list", "read", "term", "kill"}
  /\ phase \in {"initial", "cooperative", "final"}
  /\ listed \subseteq Pids /\ lead \in {"absent", "mismatch", "zombie", "live"}
  /\ seen \subseteq Pids /\ verdict \in {"none", "verified", "unverified"}

ControlInv == ForeignInv /\ StarterInv /\ ListingInv /\ GoneInv

Assumed ==
  /\ ConstantsAssumption
  /\ ForkInListing = FALSE /\ SpawnMayFail = FALSE

-----------------------------------------------------------------------------

\* The start satisfies all of it.
LEMMA InitInv == ASSUME Assumed PROVE Init => TypeOK /\ ControlInv
<1> SUFFICES ASSUME Init PROVE TypeOK /\ ControlInv
  OBVIOUS
<1>1. TypeOK
  <2>1. ProcessesOK
    BY DEF Init, ProcessesOK, Pids, Assumed, ConstantsAssumption
  <2>2. StarterOK
    BY DEF Init, StarterOK
  <2>3. StopOK
    BY DEF Init, StopOK, Pids
  <2> QED BY <2>1, <2>2, <2>3 DEF TypeOK, ProcessesOK, StarterOK, StopOK
<1>2. ControlInv
  BY DEF Init, ControlInv, ForeignInv, StarterInv, ListingInv, GoneInv, StarterOver
<1> QED BY <1>1, <1>2

\* Every step keeps the types.
LEMMA TypeStep == ASSUME Assumed, TypeOK, [Next]_vars PROVE TypeOK'
<1> USE DEF TypeOK, Pids, Leader, Assumed, ConstantsAssumption
<1>1. ASSUME NEW p \in Pids, Fork(p) PROVE TypeOK'
  BY <1>1 DEF Fork, OwnRunning, Running, ownerVars, stopVars, lookVars
<1>2. ASSUME NEW p \in Pids, LeavesGroup(p) PROVE TypeOK'
  BY <1>2 DEF LeavesGroup, OwnRunning, Running, ownerVars, stopVars, lookVars
<1>3. ASSUME NEW p \in Pids, Exits(p) PROVE TypeOK'
  BY <1>3 DEF Exits, OwnRunning, Running, ownerVars, stopVars, lookVars
<1>4. ASSUME NEW p \in Pids, ReapedByParent(p) PROVE TypeOK'
  BY <1>4 DEF ReapedByParent, Reaped, OwnRunning, Running, ownerVars, stopVars, lookVars
<1>5. ASSUME NumberReused PROVE TypeOK'
  BY <1>5 DEF NumberReused, ownerVars, stopVars, lookVars
<1>6. ASSUME Spawn PROVE TypeOK'
  <2>1. ProcessesOK'
    BY <1>6 DEF Spawn, Running, kernelVars, stopVars, lookVars, ProcessesOK
  <2>2. StarterOK'
    BY <1>6 DEF Spawn, Running, kernelVars, stopVars, lookVars, StarterOK
  <2>3. StopOK'
    BY <1>6 DEF Spawn, Running, kernelVars, stopVars, lookVars, StopOK
  <2> QED BY <2>1, <2>2, <2>3 DEF ProcessesOK, StarterOK, StopOK
<1>7. ASSUME SpawnFails PROVE TypeOK'
  BY <1>7 DEF SpawnFails, Running, kernelVars, stopVars, lookVars
<1>8. ASSUME BecomesReady PROVE TypeOK'
  BY <1>8 DEF BecomesReady, Running, kernelVars, stopVars, lookVars
<1>9. ASSUME SeesReady PROVE TypeOK'
  BY <1>9 DEF SeesReady, Running, kernelVars, stopVars, lookVars
<1>10. ASSUME SeesExit PROVE TypeOK'
  <2>1. ProcessesOK'
    BY <1>10 DEF SeesExit, Poll, Reaped, LeaderRuns, LeaderExited, Running, kernelVars,
    stopVars, lookVars, ProcessesOK
  <2>2. StarterOK'
    BY <1>10 DEF SeesExit, Poll, Reaped, LeaderRuns, LeaderExited, Running, kernelVars,
    stopVars, lookVars, StarterOK
  <2>3. StopOK'
    BY <1>10 DEF SeesExit, Poll, Reaped, LeaderRuns, LeaderExited, Running, kernelVars,
    stopVars, lookVars, StopOK
  <2> QED BY <2>1, <2>2, <2>3 DEF ProcessesOK, StarterOK, StopOK
<1>11. ASSUME GivesUp PROVE TypeOK'
  BY <1>11 DEF GivesUp, Running, kernelVars, stopVars, lookVars
<1>12. ASSUME PublishReady PROVE TypeOK'
  BY <1>12 DEF PublishReady, Running, kernelVars, stopVars, lookVars
<1>13. ASSUME Commit PROVE TypeOK'
  <2>1. ProcessesOK'
    BY <1>13 DEF Commit, Poll, Reaped, LeaderRuns, LeaderExited, Running, kernelVars,
    stopVars, lookVars, ProcessesOK
  <2>2. StarterOK'
    BY <1>13 DEF Commit, Poll, Reaped, LeaderRuns, LeaderExited, Running, kernelVars,
    stopVars, lookVars, StarterOK
  <2>3. StopOK'
    BY <1>13 DEF Commit, Poll, Reaped, LeaderRuns, LeaderExited, Running, kernelVars,
    stopVars, lookVars, StopOK
  <2> QED BY <2>1, <2>2, <2>3 DEF ProcessesOK, StarterOK, StopOK
<1>14. ASSUME FirstSignal PROVE TypeOK'
  <2>1. ProcessesOK'
    BY <1>14 DEF FirstSignal, Terminate, Receipt, Quiescent, GroupAlive, Poll, Reaped,
    LeaderRuns, LeaderExited, Running, kernelVars, stopVars, lookVars, ProcessesOK
  <2>2. StarterOK'
    BY <1>14 DEF FirstSignal, Terminate, Receipt, Quiescent, GroupAlive, Poll, Reaped,
    LeaderRuns, LeaderExited, Running, kernelVars, stopVars, lookVars, StarterOK
  <2>3. StopOK'
    BY <1>14 DEF FirstSignal, Terminate, Receipt, Quiescent, GroupAlive, Poll, Reaped,
    LeaderRuns, LeaderExited, Running, kernelVars, stopVars, lookVars, StopOK
  <2> QED BY <2>1, <2>2, <2>3 DEF ProcessesOK, StarterOK, StopOK
<1>15. ASSUME AwaitTerm PROVE TypeOK'
  <2>1. ProcessesOK'
    BY <1>15 DEF AwaitTerm, Receipt, Quiescent, GroupAlive, Poll, Reaped, LeaderRuns,
    LeaderExited, Running, kernelVars, stopVars, lookVars, ProcessesOK
  <2>2. StarterOK'
    BY <1>15 DEF AwaitTerm, Receipt, Quiescent, GroupAlive, Poll, Reaped, LeaderRuns,
    LeaderExited, Running, kernelVars, stopVars, lookVars, StarterOK
  <2>3. StopOK'
    BY <1>15 DEF AwaitTerm, Receipt, Quiescent, GroupAlive, Poll, Reaped, LeaderRuns,
    LeaderExited, Running, kernelVars, stopVars, lookVars, StopOK
  <2> QED BY <2>1, <2>2, <2>3 DEF ProcessesOK, StarterOK, StopOK
<1>16. ASSUME SecondSignal PROVE TypeOK'
  <2>1. ProcessesOK'
    BY <1>16 DEF SecondSignal, Killed, Running, kernelVars, stopVars, lookVars,
    ProcessesOK
  <2>2. StarterOK'
    BY <1>16 DEF SecondSignal, Killed, Running, kernelVars, stopVars, lookVars,
    StarterOK
  <2>3. StopOK'
    BY <1>16 DEF SecondSignal, Killed, Running, kernelVars, stopVars, lookVars, StopOK
  <2> QED BY <2>1, <2>2, <2>3 DEF ProcessesOK, StarterOK, StopOK
<1>17. ASSUME EndTermination PROVE TypeOK'
  <2>1. ProcessesOK'
    BY <1>17 DEF EndTermination, Receipt, Quiescent, GroupAlive, Poll, Reaped,
    LeaderRuns, LeaderExited, Running, kernelVars, stopVars, lookVars, ProcessesOK
  <2>2. StarterOK'
    BY <1>17 DEF EndTermination, Receipt, Quiescent, GroupAlive, Poll, Reaped,
    LeaderRuns, LeaderExited, Running, kernelVars, stopVars, lookVars, StarterOK
  <2>3. StopOK'
    BY <1>17 DEF EndTermination, Receipt, Quiescent, GroupAlive, Poll, Reaped,
    LeaderRuns, LeaderExited, Running, kernelVars, stopVars, lookVars, StopOK
  <2> QED BY <2>1, <2>2, <2>3 DEF ProcessesOK, StarterOK, StopOK
<1>18. ASSUME InterruptCleanup PROVE TypeOK'
  BY <1>18 DEF InterruptCleanup, Running, kernelVars, stopVars, lookVars
<1>19. ASSUME BeginStop PROVE TypeOK'
  BY <1>19 DEF BeginStop, Look, Running, kernelVars, ownerVars, lookVars
<1>20. ASSUME ListProcesses PROVE TypeOK'
  BY <1>20 DEF ListProcesses, Running, kernelVars, ownerVars, lookVars
<1>21. ASSUME LookedFirst PROVE TypeOK'
  BY <1>21 DEF LookedFirst, Looked, Look, Running, kernelVars, ownerVars, lookVars
<1>22. ASSUME LookedCooperative PROVE TypeOK'
  BY <1>22 DEF LookedCooperative, Looked, Look, Running, kernelVars, ownerVars, lookVars
<1>23. ASSUME SignalGroup PROVE TypeOK'
  <2>1. ProcessesOK'
    BY <1>23 DEF SignalGroup, SameLeader, Terminate, Look, Running, kernelVars,
    ownerVars, lookVars, ProcessesOK
  <2>2. StarterOK'
    BY <1>23 DEF SignalGroup, SameLeader, Terminate, Look, Running, kernelVars,
    ownerVars, lookVars, StarterOK
  <2>3. StopOK'
    BY <1>23 DEF SignalGroup, SameLeader, Terminate, Look, Running, kernelVars,
    ownerVars, lookVars, StopOK
  <2> QED BY <2>1, <2>2, <2>3 DEF ProcessesOK, StarterOK, StopOK
<1>24. ASSUME SignalAgain PROVE TypeOK'
  <2>1. ProcessesOK'
    BY <1>24 DEF SignalAgain, SameLeader, Killed, Look, Running, kernelVars, ownerVars,
    lookVars, ProcessesOK
  <2>2. StarterOK'
    BY <1>24 DEF SignalAgain, SameLeader, Killed, Look, Running, kernelVars, ownerVars,
    lookVars, StarterOK
  <2>3. StopOK'
    BY <1>24 DEF SignalAgain, SameLeader, Killed, Look, Running, kernelVars, ownerVars,
    lookVars, StopOK
  <2> QED BY <2>1, <2>2, <2>3 DEF ProcessesOK, StarterOK, StopOK
<1>25. ASSUME LookedFinal PROVE TypeOK'
  BY <1>25 DEF LookedFinal, Looked, LooksQuiet, Look, Running, kernelVars, ownerVars,
    lookVars
<1>26. ASSUME NEW p \in Pids, ReadProcess(p) PROVE TypeOK'
  <2>1. LeaderAs(p) \in {lead, "mismatch", "live", "zombie"}
    BY DEF LeaderAs
  <2>2. StopOK'
    BY <1>26, <2>1 DEF ReadProcess, Running, kernelVars, ownerVars, StopOK
  <2>3. ProcessesOK' /\ StarterOK'
    BY <1>26 DEF ReadProcess, kernelVars, ownerVars, ProcessesOK, StarterOK
  <2> QED BY <2>2, <2>3 DEF ProcessesOK, StarterOK, StopOK
<1>27. ASSUME UNCHANGED vars PROVE TypeOK'
  BY <1>27 DEF vars, kernelVars, ownerVars, stopVars, lookVars
<1> QED BY <1>1, <1>2, <1>3, <1>4, <1>5, <1>6, <1>7, <1>8, <1>9, <1>10, <1>11, <1>12,
    <1>13, <1>14, <1>15, <1>16, <1>17, <1>18, <1>19, <1>20, <1>21, <1>22, <1>23, <1>24,
    <1>25, <1>26, <1>27 DEF Next, Kernel, Starter, Stop

\* Every step keeps what the control points say.
LEMMA ControlStep == ASSUME Assumed, TypeOK, ControlInv, [Next]_vars PROVE ControlInv'
<1> USE DEF ControlInv, ForeignInv, StarterInv, ListingInv, GoneInv, StarterOver, Assumed, TypeOK
<1>1. ASSUME NEW p \in Pids, Fork(p) PROVE ControlInv'
  BY <1>1 DEF Fork, OwnRunning, Running, ownerVars, stopVars, lookVars, Leader, Pids
<1>2. ASSUME NEW p \in Pids, LeavesGroup(p) PROVE ControlInv'
  BY <1>2 DEF LeavesGroup, OwnRunning, Running, ownerVars, stopVars, lookVars, Leader,
    Pids
<1>3. ASSUME NEW p \in Pids, Exits(p) PROVE ControlInv'
  BY <1>3 DEF Exits, OwnRunning, Running, ownerVars, stopVars, lookVars, Leader, Pids
<1>4. ASSUME NEW p \in Pids, ReapedByParent(p) PROVE ControlInv'
  BY <1>4 DEF ReapedByParent, Reaped, OwnRunning, Running, ownerVars, stopVars,
    lookVars, Leader, Pids
<1>5. ASSUME NumberReused PROVE ControlInv'
  BY <1>5 DEF NumberReused, OwnRunning, Running, ownerVars, stopVars, lookVars
<1>6. ASSUME Spawn PROVE ControlInv'
  BY <1>6 DEF Spawn, OwnRunning, Running, kernelVars, stopVars, lookVars, Leader, Pids
<1>7. ASSUME SpawnFails PROVE ControlInv'
  BY <1>7 DEF SpawnFails, OwnRunning, Running, kernelVars, stopVars, lookVars, Leader,
    Pids
<1>8. ASSUME BecomesReady PROVE ControlInv'
  BY <1>8 DEF BecomesReady, OwnRunning, Running, kernelVars, stopVars, lookVars, Leader,
    Pids
<1>9. ASSUME SeesReady PROVE ControlInv'
  BY <1>9 DEF SeesReady, OwnRunning, Running, kernelVars, stopVars, lookVars, Leader,
    Pids
<1>10. ASSUME SeesExit PROVE ControlInv'
  BY <1>10 DEF SeesExit, Poll, Reaped, LeaderRuns, LeaderExited, OwnRunning, Running,
    kernelVars, stopVars, lookVars, Leader, Pids
<1>11. ASSUME GivesUp PROVE ControlInv'
  BY <1>11 DEF GivesUp, OwnRunning, Running, kernelVars, stopVars, lookVars, Leader,
    Pids
<1>12. ASSUME PublishReady PROVE ControlInv'
  BY <1>12 DEF PublishReady, OwnRunning, Running, kernelVars, stopVars, lookVars,
    Leader, Pids
<1>13. ASSUME Commit PROVE ControlInv'
  BY <1>13 DEF Commit, Poll, Reaped, LeaderRuns, LeaderExited, OwnRunning, Running,
    kernelVars, stopVars, lookVars, Leader, Pids
<1>14. ASSUME FirstSignal PROVE ControlInv'
  BY <1>14 DEF FirstSignal, Terminate, Receipt, Quiescent, GroupAlive, Poll, Reaped,
    LeaderRuns, LeaderExited, OwnRunning, Running, kernelVars, stopVars, lookVars,
    Leader, Pids
<1>15. ASSUME AwaitTerm PROVE ControlInv'
  BY <1>15 DEF AwaitTerm, Receipt, Quiescent, GroupAlive, Poll, Reaped, LeaderRuns,
    LeaderExited, OwnRunning, Running, kernelVars, stopVars, lookVars, Leader, Pids
<1>16. ASSUME SecondSignal PROVE ControlInv'
  BY <1>16 DEF SecondSignal, Killed, OwnRunning, Running, kernelVars, stopVars,
    lookVars, Leader, Pids
<1>17. ASSUME EndTermination PROVE ControlInv'
  BY <1>17 DEF EndTermination, Receipt, Quiescent, GroupAlive, Poll, Reaped, LeaderRuns,
    LeaderExited, OwnRunning, Running, kernelVars, stopVars, lookVars, Leader, Pids
<1>18. ASSUME InterruptCleanup PROVE ControlInv'
  BY <1>18 DEF InterruptCleanup, OwnRunning, Running, kernelVars, stopVars, lookVars,
    Leader, Pids
<1>19. ASSUME BeginStop PROVE ControlInv'
  BY <1>19 DEF BeginStop, Look, OwnRunning, Running, kernelVars, ownerVars, lookVars
<1>20. ASSUME ListProcesses PROVE ControlInv'
  BY <1>20 DEF ListProcesses, OwnRunning, Running, kernelVars, ownerVars, lookVars
<1>21. ASSUME LookedFirst PROVE ControlInv'
  BY <1>21 DEF LookedFirst, Looked, Look, OwnRunning, Running, kernelVars, ownerVars,
    lookVars
<1>22. ASSUME LookedCooperative PROVE ControlInv'
  BY <1>22 DEF LookedCooperative, Looked, Look, OwnRunning, Running, kernelVars,
    ownerVars, lookVars
<1>23. ASSUME SignalGroup PROVE ControlInv'
  BY <1>23 DEF SignalGroup, SameLeader, Terminate, Look, OwnRunning, Running,
    kernelVars, ownerVars, lookVars
<1>24. ASSUME SignalAgain PROVE ControlInv'
  BY <1>24 DEF SignalAgain, SameLeader, Killed, Look, OwnRunning, Running, kernelVars,
    ownerVars, lookVars
<1>25. ASSUME LookedFinal PROVE ControlInv'
  BY <1>25 DEF LookedFinal, Looked, LooksQuiet, Look, OwnRunning, Running, kernelVars,
    ownerVars, lookVars
<1>26. ASSUME NEW p \in Pids, ReadProcess(p) PROVE ControlInv'
  BY <1>26 DEF ReadProcess, OwnRunning, Running, kernelVars, ownerVars
<1>27. ASSUME UNCHANGED vars PROVE ControlInv'
  BY <1>27 DEF vars, kernelVars, ownerVars, stopVars, lookVars, OwnRunning, Running
<1> QED BY <1>1, <1>2, <1>3, <1>4, <1>5, <1>6, <1>7, <1>8, <1>9, <1>10, <1>11, <1>12,
    <1>13, <1>14, <1>15, <1>16, <1>17, <1>18, <1>19, <1>20, <1>21, <1>22, <1>23, <1>24,
    <1>25, <1>26, <1>27 DEF Next, Kernel, Starter, Stop

\* What the theorem below follows from.
LEMMA Invariance == ASSUME Assumed PROVE Spec => [](TypeOK /\ ControlInv)
<1>1. Init => TypeOK /\ ControlInv
  BY InitInv
<1>2. (TypeOK /\ ControlInv) /\ [Next]_vars => (TypeOK /\ ControlInv)'
  BY TypeStep, ControlStep
<1> QED BY <1>1, <1>2, PTL DEF Spec

\* A report that says verified is right, and a group that runs after its start is named
\* by an ownership record: start_pool's cleanup, stop_warm_session and the ownership
\* records, for every number of processes, also when the leader's number is reused while
\* the starter still ends the group.
THEOREM ReportedGroupGoneHolds == ASSUME Assumed PROVE Spec => []ReportedGroupGone
<1>1. ControlInv => ReportedGroupGone
  BY DEF ControlInv, GoneInv, ReportedGroupGone
<1> QED BY <1>1, Invariance, PTL

-----------------------------------------------------------------------------
(* The cancel command.                                                     *)

\* How far an attempt of a process has come at least: its demand record is written, its
\* owner record is, it does nothing to its seat any more, it is over.
Begun(a) ==
  /\ a \in Attempts
  /\ \/ a[2] < turn[a[1]]
     \/ a = Current(a[1]) /\ clientPc[a[1]] # "idle"
Admitted(a) ==
  /\ a \in Attempts
  /\ \/ a[2] < turn[a[1]]
     \/ a = Current(a[1]) /\ clientPc[a[1]] \notin {"idle", "sizing", "queued", "admitted"}
Past(a) ==
  /\ a \in Attempts
  /\ \/ a[2] < turn[a[1]]
     \/ a = Current(a[1]) /\ clientPc[a[1]] \in {"clear", "unlock", "close", "gone"}
Over(a) == a \in Attempts /\ (a[2] < turn[a[1]] \/ ~ProcAlive(a[1]))

\* An attempt under way has its demand record, and only one that began has.
DemandAt ==
  /\ \A p \in Procs : clientPc[p] \notin {"idle", "gone"} => Current(p) \in demand
  /\ \A a \in demand : Begun(a)

\* A client at its seat has a slot whose owner record names its attempt, and no record
\* names an attempt that was not admitted.
SlotAt ==
  /\ \A p \in Procs : clientPc[p] = "admitted" => \E s \in Slots : held[s] = p
  /\ \A p \in Procs :
       clientPc[p] \in {"restoring", "checked", "evaluating", "cancelling", "release", "clear"}
         => \E s \in Slots : held[s] = p /\ named[s] = Current(p)
  /\ \A s \in Slots, a \in Attempts : named[s] = a => Admitted(a)

\* A seat that stays busy after its attempt is one that somebody reclaims.
LeaseAt == \A a \in lease : HasSeat(a) \/ a[1] \in quits \/ ~ProcAlive(a[1])

\* What the command has read of an attempt, and what it has answered, is still so.
TargetAt ==
  /\ cpc \in {"owners", "demands"} => through \subseteq wanted
  /\ told # "nothing" => cpc = "over"
  /\ \A a \in owners : Admitted(a)
  /\ cpc \in {"active", "await"} => Admitted(target)
  /\ cpc \in {"queued", "awaitDemand"} => Begun(target)
  /\ told \in {"interrupted", "not running"} => Past(target)
  /\ told = "dequeued" => Over(target)
  /\ told = "no match" => through = {}

\* Where the attempts of a process are in their order.
TurnAt == \A p \in Procs : turn[p] <= LastTurn(p)

\* CancelTypeOK in two parts.
ClientPcs ==
  {"idle", "sizing", "queued", "admitted", "restoring", "checked", "evaluating",
   "cancelling", "release", "clear", "unlock", "close", "gone"}
ClientsOK ==
  /\ clientPc \in [Procs -> ClientPcs] /\ turn \in [Procs -> {1, 2}]
  /\ held \in [Slots -> Procs \cup {NoOne}] /\ named \in [Slots -> Attempts \cup {NoOne}]
  /\ demand \subseteq Attempts /\ lease \subseteq Attempts /\ quits \subseteq Procs
CommandOK ==
  /\ sig \subseteq Procs /\ ctrlC \in 0..MaxCtrlC
  /\ wanted \subseteq Attempts /\ owners \subseteq Attempts /\ through \subseteq Attempts
  /\ cpc \in {"off", "owners", "demands", "active", "queued", "await", "awaitDemand", "over"}
  /\ target \in Attempts \cup {NoOne}
  /\ told \in {"nothing", "no match", "several", "not running", "interrupted", "dequeued",
               "cleanup timeout"}

-----------------------------------------------------------------------------

\* Two attempts are the same only if their process and their place in it are.
LEMMA AttemptParts ==
  /\ \A a \in Attempts : a[1] \in Procs /\ a[2] \in {1, 2} /\ a = <<a[1], a[2]>>
  /\ \A p \in Procs : Current(p)[1] = p /\ Current(p)[2] = turn[p]
  /\ ClientsOK /\ TurnAt => \A p \in Procs : Current(p) \in Attempts
BY DEF Attempts, Current, ClientsOK, TurnAt

\* What any step of a client does to its place: it goes on within its attempt, never back
\* before its admission nor out of its unwinding, or it goes on with its leaf.
LEMMA ClientMoves ==
  ASSUME ClientsOK, NEW p \in Procs, Client(p)
  PROVE  /\ clientPc' \in [Procs -> ClientPcs]
         /\ \A q \in Procs \ {p} : clientPc'[q] = clientPc[q]
         /\ clientPc[p] # "gone"
         /\ \/ /\ turn' = turn /\ clientPc'[p] # "idle"
               /\ clientPc[p] \in {"clear", "unlock", "close"} =>
                    clientPc'[p] \in {"clear", "unlock", "close", "gone"}
               /\ clientPc[p] \notin {"idle", "sizing", "queued", "admitted"} =>
                    clientPc'[p] \notin {"idle", "sizing", "queued", "admitted"}
            \/ /\ turn' = [turn EXCEPT ![p] = 2] /\ turn[p] < LastTurn(p)
               /\ clientPc[p] = "close" /\ clientPc'[p] = "idle"
<1> USE DEF ClientsOK, ClientPcs, Goes
<1>1. CASE WriteDemand(p) \/ Sized(p) \/ TakeSlot(p) \/ WriteOwner(p)
  BY <1>1 DEF WriteDemand, Sized, TakeSlot, WriteOwner
<1>2. CASE Checkout(p) \/ RefusesProfile(p) \/ Dispatch(p) \/ Answered(p)
  BY <1>2 DEF Checkout, RefusesProfile, Dispatch, Answered
<1>3. CASE AwaitCleanup(p) \/ GiveBack(p) \/ ClearRecord(p) \/ Unlock(p)
  BY <1>3 DEF AwaitCleanup, GiveBack, ClearRecord, Unlock
<1>4. CASE Close(p)
  BY <1>4 DEF Close
<1>5. CASE Unwind(p)
  <2>1. UnwindsTo(p) \in {"close", "clear", "cancelling", "gone"}
    BY DEF UnwindsTo
  <2>2. clientPc[p] \in {"clear", "unlock"} => UnwindsTo(p) = "close"
    BY DEF UnwindsTo
  <2>3. clientPc[p] = "close" => UnwindsTo(p) = "gone"
    BY DEF UnwindsTo
  <2> QED BY <1>5, <2>1, <2>2, <2>3 DEF Unwind, ProcAlive
<1>6. CASE ProcKilled(p)
  BY <1>6 DEF ProcKilled, ProcAlive
<1> QED BY <1>1, <1>2, <1>3, <1>4, <1>5, <1>6 DEF Client

\* What an attempt has reached stays so.
LEMMA Progress ==
  ASSUME ClientsOK, NEW p \in Procs, Client(p), NEW a \in Attempts
  PROVE  /\ Begun(a) => Begun(a)'
         /\ Admitted(a) => Admitted(a)'
         /\ Past(a) => Past(a)'
         /\ Over(a) => Over(a)'
BY ClientMoves, AttemptParts DEF ClientsOK, ClientPcs, Begun, Admitted, Past, Over, Current,
  ProcAlive, LastTurn

\* What a client does keeps the types, and its attempts in order.
LEMMA ClientTypes ==
  ASSUME ClientsOK, TurnAt, NEW p \in Procs, Client(p) PROVE ClientsOK' /\ TurnAt'
<1> USE DEF Unlocked, OwnerWritten
<1>1. Current(p) \in Attempts
  BY AttemptParts
<1>2. clientPc' \in [Procs -> ClientPcs]
  BY ClientMoves
<1>3. turn' \in [Procs -> {1, 2}] /\ TurnAt'
  BY ClientMoves DEF ClientsOK, TurnAt, LastTurn
<1>4. held' \in [Slots -> Procs \cup {NoOne}]
  BY DEF ClientsOK, Client, WriteDemand, Sized, TakeSlot, WriteOwner, Checkout,
    RefusesProfile, Dispatch, Answered, AwaitCleanup, GiveBack, ClearRecord, Unlock, Close,
    Unwind, ProcKilled
<1>5. named' \in [Slots -> Attempts \cup {NoOne}]
  BY <1>1 DEF ClientsOK, Client, WriteDemand, Sized, TakeSlot, WriteOwner, Checkout,
    RefusesProfile, Dispatch, Answered, AwaitCleanup, GiveBack, ClearRecord, Unlock, Close,
    Unwind, ProcKilled
<1>6. demand' \subseteq Attempts
  BY <1>1 DEF ClientsOK, Client, WriteDemand, Sized, TakeSlot, WriteOwner, Checkout,
    RefusesProfile, Dispatch, Answered, AwaitCleanup, GiveBack, ClearRecord, Unlock, Close,
    Unwind, ProcKilled
<1>7. lease' \subseteq Attempts
  BY <1>1 DEF ClientsOK, Client, WriteDemand, Sized, TakeSlot, WriteOwner, Checkout,
    RefusesProfile, Dispatch, Answered, AwaitCleanup, GiveBack, ClearRecord, Unlock, Close,
    Unwind, ProcKilled
<1>8. quits' \subseteq Procs
  BY DEF ClientsOK, Client, WriteDemand, Sized, TakeSlot, WriteOwner, Checkout,
    RefusesProfile, Dispatch, Answered, AwaitCleanup, GiveBack, ClearRecord, Unlock, Close,
    Unwind, ProcKilled
<1> QED BY <1>2, <1>3, <1>4, <1>5, <1>6, <1>7, <1>8 DEF ClientsOK

\* An attempt has its demand record as long as it is under way.
LEMMA DemandAtStep ==
  ASSUME ClientsOK, TurnAt, DemandAt, NEW p \in Procs, Client(p) PROVE DemandAt'
<1>1. \A q \in Procs \ {p} : Current(q)' = Current(q) /\ Current(q) # Current(p)
  BY ClientMoves DEF Current, ClientsOK
<1>2. CASE WriteDemand(p)
  <2>1. Begun(Current(p))'
    BY <1>2, AttemptParts DEF WriteDemand, Begun, Goes, ClientsOK, Current
  <2>2. \A a \in demand : Begun(a)'
    BY Progress DEF DemandAt, ClientsOK
  <2>3. demand' = demand \cup {Current(p)} /\ Current(p)' = Current(p)
    BY <1>2 DEF WriteDemand, Current
  <2> QED BY <1>1, <2>1, <2>2, <2>3, ClientMoves DEF DemandAt, Begun
<1>3. CASE demand' \subseteq demand
  <2>1. \A a \in demand' : Begun(a)'
    BY <1>3, Progress DEF DemandAt, ClientsOK
  <2>2. CASE Close(p)
    BY <1>1, <2>1, <2>2 DEF Close, DemandAt, Goes, ClientsOK, Current
  <2>3. CASE UNCHANGED <<demand, turn>> /\ clientPc[p] \notin {"idle", "gone"}
    BY <1>1, <2>1, <2>3, ClientMoves DEF DemandAt, ClientsOK, Current
  <2>4. CASE clientPc'[p] = "gone" /\ UNCHANGED demand
    BY <1>1, <2>1, <2>4, ClientMoves DEF DemandAt, ClientsOK
  <2> QED
    BY <1>3, <2>2, <2>3, <2>4 DEF Client, WriteDemand, Sized, TakeSlot, WriteOwner, Checkout,
      RefusesProfile, Dispatch, Answered, AwaitCleanup, GiveBack, ClearRecord, Unlock,
      Unwind, UnwindsTo, ProcKilled, Goes, ClientsOK
<1> QED
  BY <1>2, <1>3 DEF Client, Sized, TakeSlot, WriteOwner, Checkout,
    RefusesProfile, Dispatch, Answered, AwaitCleanup, GiveBack, ClearRecord, Unlock, Close,
    Unwind, ProcKilled

\* A client at its seat has a slot, and the slot's owner record names its attempt.
LEMMA SlotAtStep ==
  ASSUME ClientsOK, TurnAt, SlotAt, NEW p \in Procs, Client(p) PROVE SlotAt'
<1> USE DEF SlotAt
<1>0. NoOne \notin Procs /\ NoOne \notin Attempts
  BY CancelAssumption
<1>1. \A q \in Procs \ {p} : Current(q)' = Current(q) /\ Current(q) # Current(p)
  BY ClientMoves DEF Current, ClientsOK
<1>2. \A a \in Attempts : Admitted(a) => Admitted(a)'
  BY Progress
<1>3. Current(p) \in Attempts
  BY AttemptParts
<1>4. \A q \in Procs \ {p} : clientPc'[q] = clientPc[q]
  BY ClientMoves
<1>5. CASE TakeSlot(p)
  BY <1>0, <1>1, <1>2, <1>4, <1>5 DEF TakeSlot, Goes, ClientsOK
<1>6. CASE WriteOwner(p)
  <2>1. Admitted(Current(p))'
    BY <1>3, <1>6 DEF WriteOwner, Goes, Admitted, Current, ClientsOK
  <2>2. /\ held' = held /\ clientPc[p] = "admitted" /\ clientPc'[p] = "restoring"
        /\ \A s \in Slots : named'[s] = IF held[s] = p THEN Current(p) ELSE named[s]
        /\ Current(p)' = Current(p)
    BY <1>6 DEF WriteOwner, OwnerWritten, Goes, ClientsOK, Current
  <2>3. \E s \in Slots : held'[s] = p /\ named'[s] = Current(p)'
    BY <2>2
  <2>4. ASSUME NEW q \in Procs \ {p}, NEW s \in Slots, held[s] = q, named[s] = Current(q)
        PROVE  held'[s] = q /\ named'[s] = Current(q)'
    BY <1>1, <2>2, <2>4
  <2>5. ASSUME NEW s \in Slots, NEW a \in Attempts, named'[s] = a PROVE Admitted(a)'
    BY <1>2, <2>1, <2>2, <2>5
  <2> QED BY <1>4, <2>2, <2>3, <2>4, <2>5
<1>7. CASE ClearRecord(p)
  BY <1>0, <1>1, <1>2, <1>4, <1>7 DEF ClearRecord, Goes, ClientsOK
<1>8. CASE Unlock(p) \/ Close(p) \/ ProcKilled(p)
  BY <1>0, <1>1, <1>2, <1>4, <1>8 DEF Unlock, Close, ProcKilled, Unlocked, Goes, ClientsOK
<1>9. CASE Unwind(p)
  <2>1. \/ clientPc'[p] \in {"close", "gone"}
        \/ clientPc[p] \in {"restoring", "checked", "evaluating", "cancelling", "release"}
           /\ UNCHANGED held
    BY <1>9 DEF Unwind, UnwindsTo, Goes, ClientsOK
  <2>2. UNCHANGED <<turn, named>> /\ (held' = held \/ Unlocked(p))
    BY <1>9 DEF Unwind
  <2>3. clientPc'[p] # "admitted" /\ Current(p)' = Current(p)
    BY <1>9, <2>2 DEF Unwind, UnwindsTo, Goes, ClientsOK, Current
  <2>4. \A q \in Procs \ {p}, s \in Slots : held[s] = q => held'[s] = q
    BY <1>0, <2>2 DEF Unlocked
  <2> QED BY <1>1, <1>2, <1>4, <2>1, <2>2, <2>3, <2>4 DEF ClientsOK
<1>10. CASE /\ UNCHANGED <<held, named, turn>>
            /\ clientPc'[p] = "admitted" => clientPc[p] = "admitted"
            /\ clientPc'[p] \in {"restoring", "checked", "evaluating", "cancelling",
                                "release", "clear"} =>
                 clientPc[p] \in {"restoring", "checked", "evaluating", "cancelling",
                                 "release", "clear"}
  BY <1>1, <1>2, <1>4, <1>10 DEF ClientsOK, Current
<1> QED
  BY <1>5, <1>6, <1>7, <1>8, <1>9, <1>10 DEF Client, WriteDemand, Sized, Checkout,
    RefusesProfile, Dispatch, Answered, AwaitCleanup, GiveBack, Goes, ClientsOK

\* A seat is busy for an attempt that has not released it, unless the attempt was refused,
\* interrupted or killed.
LEMMA LeaseAtStep ==
  ASSUME ClientsOK, TurnAt, LeaseAt, NEW p \in Procs, Client(p) PROVE LeaseAt'
<1> USE DEF LeaseAt, HasSeat
<1>1. \A a \in Attempts : a[1] # p => (HasSeat(a) => HasSeat(a)')
  BY ClientMoves, AttemptParts DEF Current, ClientsOK
<1>2. quits \subseteq quits' /\ lease \subseteq Attempts /\ Current(p)[1] = p
  BY DEF ClientsOK, Current, Client, WriteDemand, Sized, TakeSlot, WriteOwner, Checkout,
    RefusesProfile, Dispatch, Answered, AwaitCleanup, GiveBack, ClearRecord, Unlock, Close,
    Unwind, ProcKilled
<1>3. \A q \in Procs : ~ProcAlive(q) => ~ProcAlive(q)'
  BY ClientMoves DEF ProcAlive
<1>4. CASE p \in quits' /\ (lease' \subseteq lease)
  BY <1>1, <1>2, <1>3, <1>4, AttemptParts
<1>5. CASE Checkout(p)
  BY <1>1, <1>2, <1>3, <1>4, <1>5, AttemptParts DEF Checkout, Goes, ClientsOK, Current
<1>6. CASE GiveBack(p)
  BY <1>1, <1>2, <1>3, <1>4, <1>6, AttemptParts DEF GiveBack, Goes, ClientsOK, Current
<1>7. CASE /\ lease' = lease /\ turn' = turn
           /\ \/ clientPc[p] \notin {"restoring", "checked", "evaluating", "cancelling",
                                    "release"}
              \/ clientPc'[p] \in {"restoring", "checked", "evaluating", "cancelling",
                                  "release"}
  BY <1>1, <1>2, <1>3, <1>7, AttemptParts DEF ClientsOK, Current
<1>8. CASE ProcKilled(p)
  BY <1>1, <1>2, <1>3, <1>8, AttemptParts DEF ProcKilled, Goes, ClientsOK, ProcAlive
<1>9. CASE Close(p)
  BY <1>1, <1>2, <1>3, <1>9, AttemptParts DEF Close, Goes, ClientsOK, Current
<1> QED
  BY <1>4, <1>5, <1>6, <1>7, <1>8, <1>9 DEF Client, WriteDemand, Sized, TakeSlot, WriteOwner,
    RefusesProfile, Dispatch, Answered, AwaitCleanup, ClearRecord, Unlock, Unwind, Goes,
    ClientsOK

\* Ctrl-Cs are counted up to their bound.
LEMMA CtrlCCounted ==
  ASSUME ctrlC \in 0..MaxCtrlC, NEW p, CtrlC(p) PROVE ctrlC' \in 0..MaxCtrlC
BY CancelAssumption DEF CtrlC

\* The command and the signals keep their types; what a client's step leaves of the
\* command is as it was.
LEMMA CommandTypes ==
  ASSUME ClientsOK, CommandOK, TargetAt, [CancelNext]_cancelVars PROVE CommandOK'
<1> USE DEF CommandOK
<1>1. CASE UNCHANGED cancelVars
  BY <1>1 DEF cancelVars, commandVars
<1>2. CASE CancelNext
  <2>1. through' \subseteq IF cpc = "off" THEN wanted' ELSE through
    BY <1>2 DEF CancelNext
  <2>2. ASSUME NEW p \in Procs, Client(p), UNCHANGED <<ctrlC, commandVars>> PROVE CommandOK'
    <3>1. sig' \subseteq sig
      BY <2>2 DEF Client, WriteDemand, Sized, TakeSlot, WriteOwner, Checkout, RefusesProfile,
        Dispatch, Answered, AwaitCleanup, GiveBack, ClearRecord, Unlock, Close, Unwind,
        ProcKilled
    <3> QED BY <2>1, <2>2, <3>1 DEF commandVars
  <2>3. ASSUME NEW p \in Procs, CtrlC(p), UNCHANGED commandVars PROVE CommandOK'
    <3>1. ctrlC' \in 0..MaxCtrlC
      BY <2>3, CtrlCCounted
    <3>2. sig' \subseteq Procs
      BY <2>3 DEF CtrlC
    <3> QED BY <2>1, <2>3, <3>1, <3>2 DEF commandVars
  <2>4. ASSUME Command, UNCHANGED <<clientVars, quits, ctrlC>> PROVE CommandOK'
    <3>1. CASE BeginCancel
      BY <2>1, <2>4, <3>1 DEF BeginCancel
    <3>2. CASE ListOwners
      <4>1. LiveOwners \subseteq Attempts
        BY DEF LiveOwners, ClientsOK
      <4> QED BY <2>1, <2>4, <3>2, <4>1 DEF ListOwners
    <3>3. CASE ListDemands
      <4>1. ASSUME NEW r \in Matches
            PROVE  r[1] \in Attempts /\ r[2] \in {"active", "queued"}
        BY <4>1 DEF Matches, LiveDemands, ClientsOK
      <4>2. /\ cpc' \in {"active", "queued", "over"} /\ target' \in Attempts \cup {NoOne}
            /\ told' \in {told, "no match", "several"} /\ owners' = {} /\ wanted' = {}
            /\ UNCHANGED sig
        BY <3>3, <4>1 DEF ListDemands, Told
      <4> QED BY <2>1, <2>4, <3>3, <4>2 DEF ListDemands
    <3>4. CASE CancelActive
      <4>1. target \in LiveOwners => target[1] \in Procs
        BY AttemptParts DEF LiveOwners, ClientsOK
      <4> QED BY <2>1, <2>4, <3>4, <4>1 DEF CancelActive, Signal, Told
    <3>5. CASE CancelQueued
      <4>1. target[1] \in Procs
        BY <3>5, AttemptParts DEF CancelQueued, TargetAt, Begun
      <4> QED BY <2>1, <2>4, <3>5, <4>1 DEF CancelQueued, Signal, Told
    <3>6. CASE SeesEnd \/ CancelExpires
      BY <2>1, <2>4, <3>6 DEF SeesEnd, CancelExpires, Told
    <3> QED BY <2>4, <3>1, <3>2, <3>3, <3>4, <3>5, <3>6 DEF Command
  <2> QED BY <1>2, <2>2, <2>3, <2>4 DEF CancelNext
<1> QED BY <1>1, <1>2

\* A step of the command finds and leaves the attempts where they are.
LEMMA SamePlaces ==
  ASSUME UNCHANGED clientVars, NEW a
  PROVE  /\ Begun(a)' <=> Begun(a)
         /\ Admitted(a)' <=> Admitted(a)
         /\ Past(a)' <=> Past(a)
         /\ Over(a)' <=> Over(a)
BY DEF clientVars, Begun, Admitted, Past, Over, Current, ProcAlive

\* What the absence of a record of a live process says of an attempt that had it.
LEMMA Unlisted ==
  ASSUME ClientsOK, DemandAt, SlotAt, NEW a
  PROVE  /\ Admitted(a) /\ a \notin LiveOwners => Past(a)
         /\ Begun(a) /\ a \notin LiveDemands => Over(a)
         /\ Begun(a) /\ ~ProcAlive(a[1]) => Past(a)
<1>1. Begun(a) \/ Admitted(a) => a \in Attempts /\ a[1] \in Procs
  BY AttemptParts DEF Begun, Admitted
<1>2. ASSUME Admitted(a), ~Past(a) PROVE a \in LiveOwners
  <2>1. /\ a = Current(a[1]) /\ ProcAlive(a[1])
        /\ clientPc[a[1]] \in {"restoring", "checked", "evaluating", "cancelling", "release"}
    BY <1>1, <1>2 DEF Admitted, Past, ClientsOK, ClientPcs, ProcAlive
  <2>2. \E s \in Slots : named[s] = a
    BY <1>1, <1>2, <2>1 DEF SlotAt
  <2> QED BY <1>1, <1>2, <2>1, <2>2, CancelAssumption DEF LiveOwners
<1>3. ASSUME Begun(a), ~Over(a) PROVE a \in LiveDemands
  BY <1>1, <1>3 DEF Begun, Over, DemandAt, LiveDemands, ProcAlive
<1>4. Begun(a) /\ ~ProcAlive(a[1]) => Past(a)
  BY DEF Begun, Past, ProcAlive
<1> QED BY <1>2, <1>3, <1>4

\* Whom the command has chosen has come at least as far as its record said, and an answer
\* is given only when nothing of the attempt is left that could make it untrue.
LEMMA TargetAtStep ==
  ASSUME ClientsOK, CommandOK, TurnAt, DemandAt, SlotAt, TargetAt, [CancelNext]_cancelVars
  PROVE  TargetAt'
<1>1. CASE UNCHANGED cancelVars
  <2>1. UNCHANGED clientVars /\ UNCHANGED commandVars /\ UNCHANGED through
    BY <1>1 DEF cancelVars
  <2> QED BY <2>1, SamePlaces DEF TargetAt, commandVars
<1>2. CASE CancelNext
  <2>1. through' \subseteq IF cpc = "off" THEN wanted' ELSE through
    BY <1>2 DEF CancelNext
  <2>2. ASSUME NEW p \in Procs, Client(p), UNCHANGED commandVars PROVE TargetAt'
    <3>1. \A a \in Attempts :
            /\ Begun(a) => Begun(a)'
            /\ Admitted(a) => Admitted(a)'
            /\ Past(a) => Past(a)'
            /\ Over(a) => Over(a)'
      BY <2>2, Progress
    <3>2. \A a : (Begun(a) \/ Admitted(a) \/ Past(a) \/ Over(a)) => a \in Attempts
      BY DEF Begun, Admitted, Past, Over
    <3> QED BY <2>1, <2>2, <3>1, <3>2 DEF TargetAt, commandVars
  <2>3. ASSUME UNCHANGED clientVars, UNCHANGED commandVars PROVE TargetAt'
    BY <2>1, <2>3, SamePlaces DEF TargetAt, commandVars
  <2>4. ASSUME Command, UNCHANGED clientVars PROVE TargetAt'
    <3>0. /\ \A a : Begun(a)' <=> Begun(a)
          /\ \A a : Admitted(a)' <=> Admitted(a)
          /\ \A a : Past(a)' <=> Past(a)
          /\ \A a : Over(a)' <=> Over(a)
      BY <2>4, SamePlaces
    <3>1. CASE BeginCancel
      BY <2>1, <3>0, <3>1 DEF BeginCancel, TargetAt
    <3>2. CASE ListOwners
      <4>1. \A a \in LiveOwners : Admitted(a)
        BY DEF LiveOwners, SlotAt, ClientsOK
      <4> QED BY <2>1, <3>0, <3>2, <4>1 DEF ListOwners, TargetAt
    <3>3. CASE ListDemands
      <4>1. ASSUME Matches = {} , told' = "no match" PROVE through' = {}
        <5> SUFFICES ASSUME NEW a \in through, UnderWay(a) PROVE FALSE
          BY <1>2, <3>3 DEF CancelNext, ListDemands
        <5>1. a \in wanted /\ a \in Attempts
          BY <3>3 DEF ListDemands, TargetAt, CommandOK
        <5>2. a \in LiveDemands
          BY <5>1, AttemptParts DEF UnderWay, DemandAt, LiveDemands, ProcAlive
        <5>3. <<a, "active">> \in Matches \/ <<a, "queued">> \in Matches
          BY <5>1, <5>2 DEF Matches
        <5> QED BY <4>1, <5>3
      <4>2. ASSUME NEW r \in Matches
            PROVE  \/ r[2] = "active" /\ Admitted(r[1])
                   \/ r[2] = "queued" /\ Begun(r[1])
        <5>1. ASSUME NEW a \in LiveDemands PROVE Begun(a)
          BY DEF LiveDemands, DemandAt
        <5> QED BY <5>1, <4>2 DEF Matches, TargetAt
      <4> QED BY <3>0, <3>3, <4>1, <4>2 DEF ListDemands, TargetAt, Told
    <3>4. CASE CancelActive
      BY <2>1, <3>0, <3>4, Unlisted DEF CancelActive, TargetAt, Told, Signal
    <3>5. CASE CancelQueued
      BY <2>1, <3>0, <3>5, Unlisted DEF CancelQueued, TargetAt, Told, Signal
    <3>6. CASE SeesEnd
      BY <2>1, <3>0, <3>6, Unlisted DEF SeesEnd, TargetAt, Told
    <3>7. CASE CancelExpires
      BY <2>1, <3>0, <3>7 DEF CancelExpires, TargetAt, Told
    <3> QED BY <2>4, <3>1, <3>2, <3>3, <3>4, <3>5, <3>6, <3>7 DEF Command
  <2> QED BY <1>2, <2>2, <2>3, <2>4 DEF CancelNext, CtrlC
<1> QED BY <1>1, <1>2

-----------------------------------------------------------------------------

\* The inductive invariant of the command beside its clients.
CancelInv ==
  ClientsOK /\ CommandOK /\ TurnAt /\ DemandAt /\ SlotAt /\ LeaseAt /\ TargetAt

\* Nothing runs and nothing is said at the start.
LEMMA CancelStart == CancelInit => CancelInv
BY CancelAssumption DEF CancelInit, CancelInv, ClientsOK, ClientPcs, CommandOK, TurnAt,
  DemandAt, SlotAt, LeaseAt, TargetAt, LastTurn

\* Every step keeps the invariant: a client's, a signal's and the command's.
LEMMA CancelInvStep == CancelInv /\ [CancelNext]_cancelVars => CancelInv'
<1> SUFFICES ASSUME CancelInv, [CancelNext]_cancelVars PROVE CancelInv'
  OBVIOUS
<1>1. CommandOK' /\ TargetAt'
  BY CommandTypes, TargetAtStep DEF CancelInv
<1>2. ASSUME NEW p \in Procs, Client(p)
      PROVE  ClientsOK' /\ TurnAt' /\ DemandAt' /\ SlotAt' /\ LeaseAt'
  BY <1>2, ClientTypes, DemandAtStep, SlotAtStep, LeaseAtStep DEF CancelInv
<1>3. ASSUME UNCHANGED <<clientVars, quits>>
      PROVE  ClientsOK' /\ TurnAt' /\ DemandAt' /\ SlotAt' /\ LeaseAt'
  BY <1>3, SamePlaces DEF CancelInv, ClientsOK, TurnAt, DemandAt, SlotAt, LeaseAt, Current,
    HasSeat, ProcAlive, clientVars
<1>4. (\E p \in Procs : Client(p)) \/ UNCHANGED <<clientVars, quits>>
  BY DEF CancelNext, CtrlC, cancelVars
<1> QED BY <1>1, <1>2, <1>3, <1>4 DEF CancelInv

\* What `cancel` tells of an attempt is so, for any number of processes, slots and
\* signals: a running attempt is always found, and one that was interrupted, was gone or was
\* dequeued does nothing more to its seat, and leaves it free or to be reclaimed
\* (list_attempts, cancel_shelf_owner, _cancel_queued).
THEOREM CancelToldHolds == CancelSpec => []CancelTold
<1>1. CancelInv => CancelTold
  <2> SUFFICES ASSUME CancelInv PROVE CancelTold
    OBVIOUS
  <2>1. Past(target) => ~HasSeat(target)
    BY AttemptParts DEF Past, HasSeat, CancelInv, ClientsOK
  <2>2. Over(target) => ~UnderWay(target) /\ ~HasSeat(target)
    BY AttemptParts DEF Over, UnderWay, HasSeat, ProcAlive, CancelInv, ClientsOK
  <2>3. ~HasSeat(target) => ComesBack(target)
    BY DEF ComesBack, CancelInv, LeaseAt
  <2> QED BY <2>1, <2>2, <2>3 DEF CancelTold, CancelInv, TargetAt
<1> QED BY <1>1, CancelStart, CancelInvStep, PTL DEF CancelSpec

-----------------------------------------------------------------------------
(* The project basis cache.  The lock says which controllers may change it,*)
(* and a live basis is reached from it: by the record of a key, or by the  *)
(* one controller that adopts it.  At MakeRoom the live bases are therefore*)
(* those of the ready records, and stopping Excess of them leaves one      *)
(* place, which the adoption takes.                                        *)

\* What CacheTypeOK says of the variables the proofs read.
StateOK ==
  /\ cacheLock \in Controllers \cup {None}
  /\ index \in [Keys -> [status : {"none", "ready", "retired"}, gen : 0..MaxGenerations]]
  /\ basis \in [Gens -> {"none", "waiting", "live", "gone"}]
  /\ broker \in [Gens -> {"none", "starting", "serving", "gone"}]
  /\ prepared \in 0..MaxGenerations
  /\ cachePc \in [Controllers -> CachePcs]
  /\ key \in [Controllers -> Keys]
  /\ gen \in [Controllers -> 0..MaxGenerations]

\* The flock is held from the lookup to the end of the attempt.
LockAt ==
  \A c \in Controllers :
    cachePc[c] \in {"lookup", "room", "preparing", "forked", "adopting", "leaf", "using"}
      <=> cacheLock = c

\* A basis is prepared for a key without a ready record.
KeyAt ==
  \A c \in Controllers :
    cachePc[c] \in {"room", "preparing", "forked", "adopting"} => ~Ready(key[c])

AdoptedAt(g) == \E c \in Controllers : cachePc[c] = "adopting" /\ gen[c] = g
IndexedAt(g) == \E k \in Keys : Ready(k) /\ index[k].gen = g

\* A generation starts as a waiting child; a broker that could attach to one
\* belongs to a controller that adopts it.
FreshAt ==
  \A g \in Gens :
    /\ g > prepared => basis[g] = "none" /\ broker[g] = "none"
    /\ broker[g] = "starting" /\ basis[g] = "waiting" => AdoptedAt(g)

\* No live basis is unreachable: the second half of LiveBasesBounded.
ReachAt == \A g \in Gens : Live(g) => IndexedAt(g) \/ AdoptedAt(g)

LiveGens == {g \in Gens : Live(g)}

\* From MakeRoom to the adoption there is a place for the basis prepared.
CountAt ==
  /\ Cardinality(LiveGens) <= MaxLive
  /\ \A c \in Controllers :
       /\ cachePc[c] \in {"preparing", "forked"} => Cardinality(LiveGens) < MaxLive
       /\ cachePc[c] = "adopting" => Cardinality(LiveGens \ {gen[c]}) < MaxLive

BInv == LockAt /\ KeyAt /\ FreshAt /\ ReachAt

\* Every step keeps the types.
LEMMA StateStep ==
  ASSUME StateOK, [CacheNext]_cacheVars
  PROVE  StateOK'
  <1> USE CacheAssumption
          DEF CachePcs, Moves, baseProcs, cacheLocal, StateOK, ReadyLive, Ready, Gens
  <1>1. ASSUME NEW c \in Controllers, NEW k \in Keys, Enter(c, k) PROVE StateOK'
    BY <1>1 DEF Enter
  <1>2. ASSUME NEW c \in Controllers, LookupHit(c) PROVE StateOK'
    BY <1>2 DEF LookupHit, Touch
  <1>3. ASSUME NEW c \in Controllers, LookupBusy(c) PROVE StateOK'
    BY <1>3 DEF LookupBusy, Leave
  <1>4. ASSUME NEW c \in Controllers, LookupMiss(c) PROVE StateOK'
    <2>1. index' \in [Keys -> [status : {"none", "ready", "retired"},
                              gen : 0..MaxGenerations]]
      BY <1>4 DEF LookupMiss, Retire
    <2>2. /\ basis' \in [Gens -> {"none", "waiting", "live", "gone"}]
          /\ broker' \in [Gens -> {"none", "starting", "serving", "gone"}]
      BY <1>4 DEF LookupMiss, StopBases
    <2> QED BY <1>4, <2>1, <2>2 DEF LookupMiss
  <1>5. ASSUME NEW c \in Controllers, MakeRoom(c) PROVE StateOK'
    BY <1>5 DEF MakeRoom, Evicts, StopBases, Retire, LeastRecent
  <1>6. ASSUME NEW c \in Controllers, NoRoom(c) PROVE StateOK'
    <2>1. index' \in [Keys -> [status : {"none", "ready", "retired"},
                              gen : 0..MaxGenerations]]
      BY <1>6 DEF NoRoom, Evicts, Retire
    <2>2. /\ basis' \in [Gens -> {"none", "waiting", "live", "gone"}]
          /\ broker' \in [Gens -> {"none", "starting", "serving", "gone"}]
      BY <1>6 DEF NoRoom, Evicts, StopBases
    <2> QED BY <1>6, <2>1, <2>2 DEF NoRoom, Leave
  <1>7. ASSUME NEW c \in Controllers, PrepareForks(c) PROVE StateOK'
    BY <1>7 DEF PrepareForks
  <1>8. ASSUME NEW c \in Controllers, PreparationFails(c) PROVE StateOK'
    BY <1>8 DEF PreparationFails, Leave, StopBases
  <1>9. ASSUME NEW c \in Controllers, StartBroker(c) PROVE StateOK'
    BY <1>9 DEF StartBroker
  <1>10. ASSUME NEW c \in Controllers, Publish(c) PROVE StateOK'
    BY <1>10 DEF Publish, Touch
  <1>11. ASSUME NEW c \in Controllers, AdoptionFails(c) PROVE StateOK'
    BY <1>11 DEF AdoptionFails, Leave, StopBases
  <1>12. ASSUME NEW c \in Controllers, StartLeaf(c) PROVE StateOK'
    BY <1>12 DEF StartLeaf
  <1>13. ASSUME NEW c \in Controllers, LeafRefused(c) PROVE StateOK'
    BY <1>13 DEF LeafRefused, Leave
  <1>14. ASSUME NEW c \in Controllers, LeafEnds(c) PROVE StateOK'
    BY <1>14 DEF LeafEnds, Leave
  <1>15. ASSUME NEW c \in Controllers, NEW k \in Keys, ListLive(c, k) PROVE StateOK'
    BY <1>15 DEF ListLive
  <1>16. ASSUME NEW c \in Controllers, RetireListed(c) PROVE StateOK'
    BY <1>16 DEF RetireListed, StopBases, Retire
  <1>17. ASSUME NEW c \in Controllers, ControllerKilled(c) PROVE StateOK'
    BY <1>17 DEF ControllerKilled
  <1>18. ASSUME NEW g \in Gens, BrokerCrashes(g) PROVE StateOK'
    BY <1>18 DEF BrokerCrashes
  <1>19. ASSUME NEW g \in Gens, BasisCrashes(g) PROVE StateOK'
    BY <1>19 DEF BasisCrashes
  <1>20. ASSUME NEW g \in Gens, AdoptionExpires(g) PROVE StateOK'
    BY <1>20 DEF AdoptionExpires
  <1>21. ASSUME NEW g \in Gens, BrokerAttaches(g) PROVE StateOK'
    BY <1>21 DEF BrokerAttaches
  <1>22. ASSUME NEW g \in Gens, BasisReadsEof(g) PROVE StateOK'
    BY <1>22 DEF BasisReadsEof
  <1>23. ASSUME NEW g \in Gens, BrokerSeesBasisGone(g) PROVE StateOK'
    BY <1>23 DEF BrokerSeesBasisGone
  <1>24. ASSUME NEW g \in Gens, ChildEnds(g) PROVE StateOK'
    BY <1>24 DEF ChildEnds
  <1>25. CASE UNCHANGED cacheVars
    BY <1>25 DEF cacheVars
  <1> QED BY <1>1, <1>2, <1>3, <1>4, <1>5, <1>6, <1>7, <1>8, <1>9, <1>10, <1>11,
  <1>12, <1>13, <1>14, <1>15, <1>16, <1>17, <1>18, <1>19, <1>20, <1>21, <1>22, <1>23,
  <1>24, <1>25 DEF CacheNext, Prove, Process

\* Every step keeps the lock with the controller that is inside.
LEMMA LockStep ==
  ASSUME StateOK, LockAt, [CacheNext]_cacheVars
  PROVE  LockAt'
  <1> USE CacheAssumption DEF CachePcs, Moves, baseProcs, cacheLocal, StateOK, LockAt
  <1>1. ASSUME NEW c \in Controllers, NEW k \in Keys, Enter(c, k) PROVE LockAt'
    BY <1>1 DEF Enter
  <1>2. ASSUME NEW c \in Controllers, LookupHit(c) PROVE LockAt'
    BY <1>2 DEF LookupHit, Touch
  <1>3. ASSUME NEW c \in Controllers, LookupBusy(c) PROVE LockAt'
    BY <1>3 DEF LookupBusy, Leave
  <1>4. ASSUME NEW c \in Controllers, LookupMiss(c) PROVE LockAt'
    BY <1>4 DEF LookupMiss, StopBases, Retire
  <1>5. ASSUME NEW c \in Controllers, MakeRoom(c) PROVE LockAt'
    BY <1>5 DEF MakeRoom, Evicts, StopBases, Retire, LeastRecent
  <1>6. ASSUME NEW c \in Controllers, NoRoom(c) PROVE LockAt'
    BY <1>6 DEF NoRoom, Evicts, Leave, StopBases, Retire
  <1>7. ASSUME NEW c \in Controllers, PrepareForks(c) PROVE LockAt'
    BY <1>7 DEF PrepareForks
  <1>8. ASSUME NEW c \in Controllers, PreparationFails(c) PROVE LockAt'
    BY <1>8 DEF PreparationFails, Leave, StopBases
  <1>9. ASSUME NEW c \in Controllers, StartBroker(c) PROVE LockAt'
    BY <1>9 DEF StartBroker
  <1>10. ASSUME NEW c \in Controllers, Publish(c) PROVE LockAt'
    BY <1>10 DEF Publish, Touch
  <1>11. ASSUME NEW c \in Controllers, AdoptionFails(c) PROVE LockAt'
    BY <1>11 DEF AdoptionFails, Leave, StopBases
  <1>12. ASSUME NEW c \in Controllers, StartLeaf(c) PROVE LockAt'
    BY <1>12 DEF StartLeaf
  <1>13. ASSUME NEW c \in Controllers, LeafRefused(c) PROVE LockAt'
    BY <1>13 DEF LeafRefused, Leave
  <1>14. ASSUME NEW c \in Controllers, LeafEnds(c) PROVE LockAt'
    BY <1>14 DEF LeafEnds, Leave
  <1>15. ASSUME NEW c \in Controllers, NEW k \in Keys, ListLive(c, k) PROVE LockAt'
    BY <1>15 DEF ListLive
  <1>16. ASSUME NEW c \in Controllers, RetireListed(c) PROVE LockAt'
    BY <1>16 DEF RetireListed, StopBases, Retire
  <1>17. ASSUME NEW c \in Controllers, ControllerKilled(c) PROVE LockAt'
    BY <1>17 DEF ControllerKilled
  <1>18. ASSUME NEW g \in Gens, BrokerCrashes(g) PROVE LockAt'
    BY <1>18 DEF BrokerCrashes
  <1>19. ASSUME NEW g \in Gens, BasisCrashes(g) PROVE LockAt'
    BY <1>19 DEF BasisCrashes
  <1>20. ASSUME NEW g \in Gens, AdoptionExpires(g) PROVE LockAt'
    BY <1>20 DEF AdoptionExpires
  <1>21. ASSUME NEW g \in Gens, BrokerAttaches(g) PROVE LockAt'
    BY <1>21 DEF BrokerAttaches
  <1>22. ASSUME NEW g \in Gens, BasisReadsEof(g) PROVE LockAt'
    BY <1>22 DEF BasisReadsEof
  <1>23. ASSUME NEW g \in Gens, BrokerSeesBasisGone(g) PROVE LockAt'
    BY <1>23 DEF BrokerSeesBasisGone
  <1>24. ASSUME NEW g \in Gens, ChildEnds(g) PROVE LockAt'
    BY <1>24 DEF ChildEnds
  <1>25. CASE UNCHANGED cacheVars
    BY <1>25 DEF cacheVars
  <1> QED BY <1>1, <1>2, <1>3, <1>4, <1>5, <1>6, <1>7, <1>8, <1>9, <1>10, <1>11,
  <1>12, <1>13, <1>14, <1>15, <1>16, <1>17, <1>18, <1>19, <1>20, <1>21, <1>22, <1>23,
  <1>24, <1>25 DEF CacheNext, Prove, Process

\* Every step keeps the key of a preparation without a ready record: records
\* become ready under the lock only.
LEMMA KeyStep ==
  ASSUME StateOK, LockAt, KeyAt, [CacheNext]_cacheVars
  PROVE  KeyAt'
  <1> USE CacheAssumption
          DEF CachePcs, Moves, baseProcs, cacheLocal, StateOK, LockAt, KeyAt, Ready,
              ReadyLive, Dead
  <1>1. ASSUME NEW c \in Controllers, NEW k \in Keys, Enter(c, k) PROVE KeyAt'
    BY <1>1 DEF Enter
  <1>2. ASSUME NEW c \in Controllers, LookupHit(c) PROVE KeyAt'
    BY <1>2 DEF LookupHit, Touch
  <1>3. ASSUME NEW c \in Controllers, LookupBusy(c) PROVE KeyAt'
    BY <1>3 DEF LookupBusy, Leave
  <1>4. ASSUME NEW c \in Controllers, LookupMiss(c) PROVE KeyAt'
    BY <1>4 DEF LookupMiss, StopBases, Retire
  <1>5. ASSUME NEW c \in Controllers, MakeRoom(c) PROVE KeyAt'
    BY <1>5 DEF MakeRoom, Evicts, StopBases, Retire, LeastRecent
  <1>6. ASSUME NEW c \in Controllers, NoRoom(c) PROVE KeyAt'
    BY <1>6 DEF NoRoom, Evicts, Leave, StopBases, Retire
  <1>7. ASSUME NEW c \in Controllers, PrepareForks(c) PROVE KeyAt'
    BY <1>7 DEF PrepareForks
  <1>8. ASSUME NEW c \in Controllers, PreparationFails(c) PROVE KeyAt'
    BY <1>8 DEF PreparationFails, Leave, StopBases
  <1>9. ASSUME NEW c \in Controllers, StartBroker(c) PROVE KeyAt'
    BY <1>9 DEF StartBroker
  <1>10. ASSUME NEW c \in Controllers, Publish(c) PROVE KeyAt'
    BY <1>10 DEF Publish, Touch
  <1>11. ASSUME NEW c \in Controllers, AdoptionFails(c) PROVE KeyAt'
    BY <1>11 DEF AdoptionFails, Leave, StopBases
  <1>12. ASSUME NEW c \in Controllers, StartLeaf(c) PROVE KeyAt'
    BY <1>12 DEF StartLeaf
  <1>13. ASSUME NEW c \in Controllers, LeafRefused(c) PROVE KeyAt'
    BY <1>13 DEF LeafRefused, Leave
  <1>14. ASSUME NEW c \in Controllers, LeafEnds(c) PROVE KeyAt'
    BY <1>14 DEF LeafEnds, Leave
  <1>15. ASSUME NEW c \in Controllers, NEW k \in Keys, ListLive(c, k) PROVE KeyAt'
    BY <1>15 DEF ListLive
  <1>16. ASSUME NEW c \in Controllers, RetireListed(c) PROVE KeyAt'
    BY <1>16 DEF RetireListed, StopBases, Retire
  <1>17. ASSUME NEW c \in Controllers, ControllerKilled(c) PROVE KeyAt'
    BY <1>17 DEF ControllerKilled
  <1>18. ASSUME NEW g \in Gens, BrokerCrashes(g) PROVE KeyAt'
    BY <1>18 DEF BrokerCrashes
  <1>19. ASSUME NEW g \in Gens, BasisCrashes(g) PROVE KeyAt'
    BY <1>19 DEF BasisCrashes
  <1>20. ASSUME NEW g \in Gens, AdoptionExpires(g) PROVE KeyAt'
    BY <1>20 DEF AdoptionExpires
  <1>21. ASSUME NEW g \in Gens, BrokerAttaches(g) PROVE KeyAt'
    BY <1>21 DEF BrokerAttaches
  <1>22. ASSUME NEW g \in Gens, BasisReadsEof(g) PROVE KeyAt'
    BY <1>22 DEF BasisReadsEof
  <1>23. ASSUME NEW g \in Gens, BrokerSeesBasisGone(g) PROVE KeyAt'
    BY <1>23 DEF BrokerSeesBasisGone
  <1>24. ASSUME NEW g \in Gens, ChildEnds(g) PROVE KeyAt'
    BY <1>24 DEF ChildEnds
  <1>25. CASE UNCHANGED cacheVars
    BY <1>25 DEF cacheVars
  <1> QED BY <1>1, <1>2, <1>3, <1>4, <1>5, <1>6, <1>7, <1>8, <1>9, <1>10, <1>11,
  <1>12, <1>13, <1>14, <1>15, <1>16, <1>17, <1>18, <1>19, <1>20, <1>21, <1>22, <1>23,
  <1>24, <1>25 DEF CacheNext, Prove, Process

\* Every step keeps starting brokers with their adoption, when no controller is
\* killed in it.
LEMMA FreshStep ==
  ASSUME KillInAdoption = FALSE, StateOK, LockAt, FreshAt, [CacheNext]_cacheVars
  PROVE  FreshAt'
  <1> USE CacheAssumption
          DEF CachePcs, Moves, baseProcs, cacheLocal, StateOK, LockAt, FreshAt,
              AdoptedAt, Gens
  <1>1. ASSUME NEW c \in Controllers, NEW k \in Keys, Enter(c, k) PROVE FreshAt'
    BY <1>1 DEF Enter
  <1>2. ASSUME NEW c \in Controllers, LookupHit(c) PROVE FreshAt'
    BY <1>2 DEF LookupHit, Touch
  <1>3. ASSUME NEW c \in Controllers, LookupBusy(c) PROVE FreshAt'
    BY <1>3 DEF LookupBusy, Leave
  <1>4. ASSUME NEW c \in Controllers, LookupMiss(c) PROVE FreshAt'
    BY <1>4 DEF LookupMiss, StopBases, Retire
  <1>5. ASSUME NEW c \in Controllers, MakeRoom(c) PROVE FreshAt'
    BY <1>5 DEF MakeRoom, Evicts, StopBases, Retire, LeastRecent
  <1>6. ASSUME NEW c \in Controllers, NoRoom(c) PROVE FreshAt'
    BY <1>6 DEF NoRoom, Evicts, Leave, StopBases, Retire
  <1>7. ASSUME NEW c \in Controllers, PrepareForks(c) PROVE FreshAt'
    BY <1>7 DEF PrepareForks
  <1>8. ASSUME NEW c \in Controllers, PreparationFails(c) PROVE FreshAt'
    BY <1>8 DEF PreparationFails, Leave, StopBases
  <1>9. ASSUME NEW c \in Controllers, StartBroker(c) PROVE FreshAt'
    <2> SUFFICES ASSUME NEW g \in Gens
                 PROVE  /\ g > prepared' => basis'[g] = "none" /\ broker'[g] = "none"
                        /\ broker'[g] = "starting" /\ basis'[g] = "waiting" => AdoptedAt(g)'
      OBVIOUS
    <2>1. ~AdoptedAt(g)
      BY <1>9 DEF StartBroker
    <2>2. cachePc'[c] = "adopting" /\ gen' = gen /\ basis' = basis /\ prepared' = prepared
          /\ broker' = [broker EXCEPT ![gen[c]] = "starting"] /\ basis[gen[c]] = "waiting"
      BY <1>9 DEF StartBroker
    <2>3. CASE g = gen[c]
      BY <2>2, <2>3
    <2>4. CASE g # gen[c]
      BY <2>1, <2>2, <2>4
    <2> QED BY <2>3, <2>4
  <1>10. ASSUME NEW c \in Controllers, Publish(c) PROVE FreshAt'
    <2> SUFFICES ASSUME NEW g \in Gens
                 PROVE  /\ g > prepared' => basis'[g] = "none" /\ broker'[g] = "none"
                        /\ broker'[g] = "starting" /\ basis'[g] = "waiting" => AdoptedAt(g)'
      OBVIOUS
    <2>1. AdoptedAt(g) => g = gen[c]
      BY <1>10 DEF Publish
    <2>2. Live(gen[c]) /\ broker' = broker /\ basis' = basis /\ prepared' = prepared
      BY <1>10 DEF Publish
    <2> QED BY <2>1, <2>2 DEF Live
  <1>11. ASSUME NEW c \in Controllers, AdoptionFails(c) PROVE FreshAt'
    BY <1>11 DEF AdoptionFails, Leave, StopBases
  <1>12. ASSUME NEW c \in Controllers, StartLeaf(c) PROVE FreshAt'
    BY <1>12 DEF StartLeaf
  <1>13. ASSUME NEW c \in Controllers, LeafRefused(c) PROVE FreshAt'
    BY <1>13 DEF LeafRefused, Leave
  <1>14. ASSUME NEW c \in Controllers, LeafEnds(c) PROVE FreshAt'
    BY <1>14 DEF LeafEnds, Leave
  <1>15. ASSUME NEW c \in Controllers, NEW k \in Keys, ListLive(c, k) PROVE FreshAt'
    BY <1>15 DEF ListLive
  <1>16. ASSUME NEW c \in Controllers, RetireListed(c) PROVE FreshAt'
    BY <1>16 DEF RetireListed, StopBases, Retire
  <1>17. ASSUME NEW c \in Controllers, ControllerKilled(c) PROVE FreshAt'
    BY <1>17 DEF ControllerKilled
  <1>18. ASSUME NEW g \in Gens, BrokerCrashes(g) PROVE FreshAt'
    BY <1>18 DEF BrokerCrashes
  <1>19. ASSUME NEW g \in Gens, BasisCrashes(g) PROVE FreshAt'
    BY <1>19 DEF BasisCrashes
  <1>20. ASSUME NEW g \in Gens, AdoptionExpires(g) PROVE FreshAt'
    BY <1>20 DEF AdoptionExpires
  <1>21. ASSUME NEW g \in Gens, BrokerAttaches(g) PROVE FreshAt'
    BY <1>21 DEF BrokerAttaches
  <1>22. ASSUME NEW g \in Gens, BasisReadsEof(g) PROVE FreshAt'
    BY <1>22 DEF BasisReadsEof
  <1>23. ASSUME NEW g \in Gens, BrokerSeesBasisGone(g) PROVE FreshAt'
    BY <1>23 DEF BrokerSeesBasisGone
  <1>24. ASSUME NEW g \in Gens, ChildEnds(g) PROVE FreshAt'
    BY <1>24 DEF ChildEnds
  <1>25. CASE UNCHANGED cacheVars
    BY <1>25 DEF cacheVars
  <1> QED BY <1>1, <1>2, <1>3, <1>4, <1>5, <1>6, <1>7, <1>8, <1>9, <1>10, <1>11,
  <1>12, <1>13, <1>14, <1>15, <1>16, <1>17, <1>18, <1>19, <1>20, <1>21, <1>22, <1>23,
  <1>24, <1>25 DEF CacheNext, Prove, Process

\* Every step keeps each live basis reachable.
LEMMA ReachStep ==
  ASSUME KillInAdoption = FALSE, StateOK, BInv, [CacheNext]_cacheVars
  PROVE  ReachAt'
  <1> USE CacheAssumption
          DEF CachePcs, Moves, baseProcs, cacheLocal, StateOK, BInv, LockAt, KeyAt,
              FreshAt, ReachAt, IndexedAt, AdoptedAt, Live, Ready, ReadyLive, Dead
  <1>1. ASSUME NEW c \in Controllers, NEW k \in Keys, Enter(c, k) PROVE ReachAt'
    BY <1>1 DEF Enter
  <1>2. ASSUME NEW c \in Controllers, LookupHit(c) PROVE ReachAt'
    BY <1>2 DEF LookupHit, Touch
  <1>3. ASSUME NEW c \in Controllers, LookupBusy(c) PROVE ReachAt'
    BY <1>3 DEF LookupBusy, Leave
  <1>4. ASSUME NEW c \in Controllers, LookupMiss(c) PROVE ReachAt'
    <2> SUFFICES ASSUME NEW g \in Gens, Live(g)'
                 PROVE  IndexedAt(g)'
      OBVIOUS
    <2>1. CASE Ready(key[c])
      <3>1. Live(g) /\ g # index[key[c]].gen /\ ~AdoptedAt(g)
        BY <1>4, <2>1 DEF LookupMiss, StopBases
      <3>2. PICK k \in Keys : Ready(k) /\ index[k].gen = g
        BY <3>1
      <3>3. index'[k] = index[k]
        BY <1>4, <2>1, <3>1, <3>2 DEF LookupMiss, Retire
      <3> QED BY <3>2, <3>3
    <2>2. CASE ~Ready(key[c])
      BY <1>4, <2>2 DEF LookupMiss
    <2> QED BY <2>1, <2>2
  <1>5. ASSUME NEW c \in Controllers, MakeRoom(c) PROVE ReachAt'
    BY <1>5 DEF MakeRoom, Evicts, StopBases, Retire, LeastRecent
  <1>6. ASSUME NEW c \in Controllers, NoRoom(c) PROVE ReachAt'
    BY <1>6 DEF NoRoom, Evicts, Leave, StopBases, Retire
  <1>7. ASSUME NEW c \in Controllers, PrepareForks(c) PROVE ReachAt'
    BY <1>7 DEF PrepareForks
  <1>8. ASSUME NEW c \in Controllers, PreparationFails(c) PROVE ReachAt'
    BY <1>8 DEF PreparationFails, Leave, StopBases
  <1>9. ASSUME NEW c \in Controllers, StartBroker(c) PROVE ReachAt'
    BY <1>9 DEF StartBroker
  <1>10. ASSUME NEW c \in Controllers, Publish(c) PROVE ReachAt'
    <2> SUFFICES ASSUME NEW g \in Gens, Live(g)'
                 PROVE  IndexedAt(g)' \/ AdoptedAt(g)'
      OBVIOUS
    <2>1. index' = [index EXCEPT ![key[c]] = [status |-> "ready", gen |-> gen[c]]]
          /\ basis' = basis /\ broker' = broker
      BY <1>10 DEF Publish
    <2>2. CASE g = gen[c]
      BY <2>1, <2>2
    <2>3. CASE g # gen[c]
      <3>1. ~AdoptedAt(g) /\ ~Ready(key[c])
        BY <1>10, <2>3 DEF Publish
      <3>2. PICK k \in Keys : Ready(k) /\ index[k].gen = g
        BY <2>1, <3>1
      <3>3. index'[k] = index[k]
        BY <2>1, <3>1, <3>2
      <3> QED BY <3>2, <3>3
    <2> QED BY <2>2, <2>3
  <1>11. ASSUME NEW c \in Controllers, AdoptionFails(c) PROVE ReachAt'
    BY <1>11 DEF AdoptionFails, Leave, StopBases
  <1>12. ASSUME NEW c \in Controllers, StartLeaf(c) PROVE ReachAt'
    BY <1>12 DEF StartLeaf
  <1>13. ASSUME NEW c \in Controllers, LeafRefused(c) PROVE ReachAt'
    BY <1>13 DEF LeafRefused, Leave
  <1>14. ASSUME NEW c \in Controllers, LeafEnds(c) PROVE ReachAt'
    BY <1>14 DEF LeafEnds, Leave
  <1>15. ASSUME NEW c \in Controllers, NEW k \in Keys, ListLive(c, k) PROVE ReachAt'
    BY <1>15 DEF ListLive
  <1>16. ASSUME NEW c \in Controllers, RetireListed(c) PROVE ReachAt'
    BY <1>16 DEF RetireListed, StopBases, Retire
  <1>17. ASSUME NEW c \in Controllers, ControllerKilled(c) PROVE ReachAt'
    BY <1>17 DEF ControllerKilled
  <1>18. ASSUME NEW g \in Gens, BrokerCrashes(g) PROVE ReachAt'
    BY <1>18 DEF BrokerCrashes
  <1>19. ASSUME NEW g \in Gens, BasisCrashes(g) PROVE ReachAt'
    BY <1>19 DEF BasisCrashes
  <1>20. ASSUME NEW g \in Gens, AdoptionExpires(g) PROVE ReachAt'
    BY <1>20 DEF AdoptionExpires
  <1>21. ASSUME NEW g \in Gens, BrokerAttaches(g) PROVE ReachAt'
    BY <1>21 DEF BrokerAttaches
  <1>22. ASSUME NEW g \in Gens, BasisReadsEof(g) PROVE ReachAt'
    BY <1>22 DEF BasisReadsEof
  <1>23. ASSUME NEW g \in Gens, BrokerSeesBasisGone(g) PROVE ReachAt'
    BY <1>23 DEF BrokerSeesBasisGone
  <1>24. ASSUME NEW g \in Gens, ChildEnds(g) PROVE ReachAt'
    BY <1>24 DEF ChildEnds
  <1>25. CASE UNCHANGED cacheVars
    BY <1>25 DEF cacheVars
  <1> QED BY <1>1, <1>2, <1>3, <1>4, <1>5, <1>6, <1>7, <1>8, <1>9, <1>10, <1>11,
  <1>12, <1>13, <1>14, <1>15, <1>16, <1>17, <1>18, <1>19, <1>20, <1>21, <1>22, <1>23,
  <1>24, <1>25 DEF CacheNext, Prove, Process

\* A step after which no more bases are live, and nobody new needs a place.
Shrinks ==
  /\ LiveGens' \subseteq LiveGens
  /\ \A c \in Controllers :
       /\ cachePc'[c] \in {"preparing", "forked"} => cachePc[c] \in {"preparing", "forked"}
       /\ cachePc'[c] = "adopting"
            => cachePc[c] = "forked" \/ (cachePc[c] = "adopting" /\ gen'[c] = gen[c])

\* Sets of generations can be counted.
LEMMA LiveGensFinite ==
  ASSUME NEW S \in SUBSET Gens
  PROVE  IsFiniteSet(S) /\ Cardinality(S) \in Nat
  <1>1. IsFiniteSet(Gens)
    BY CacheAssumption, FS_Interval DEF Gens, CacheAssumption
  <1>2. IsFiniteSet(S)
    BY <1>1, FS_Subset
  <1> QED BY <1>2, FS_CardinalityType

\* A set of generations is no smaller than its subsets.
LEMMA FewerLive ==
  ASSUME NEW T \in SUBSET Gens, NEW S \in SUBSET T
  PROVE  Cardinality(S) <= Cardinality(T)
  <1>1. IsFiniteSet(T)
    BY LiveGensFinite, CacheAssumption
  <1> QED BY <1>1, FS_Subset

\* One generation takes one place.
LEMMA OneMoreLive ==
  ASSUME NEW S \in SUBSET Gens, NEW g, Cardinality(S \ {g}) < MaxLive
  PROVE  Cardinality(S) <= MaxLive
  <1>1. IsFiniteSet(S) /\ Cardinality(S) \in Nat /\ Cardinality(S \ {g}) \in Nat
    BY LiveGensFinite, CacheAssumption
  <1>2. Cardinality(S \ {g}) = IF g \in S THEN Cardinality(S) - 1 ELSE Cardinality(S)
    BY <1>1, FS_RemoveElement
  <1> QED BY <1>1, <1>2, CacheAssumption DEF CacheAssumption

\* The records of R name no more generations than R has keys.
LEMMA FewerGensThanKeys ==
  ASSUME StateOK, NEW R \in SUBSET Keys
  PROVE  /\ IsFiniteSet({index[k].gen : k \in R})
         /\ Cardinality({index[k].gen : k \in R}) <= Cardinality(R)
  <1> DEFINE T == {index[k].gen : k \in R}
             f == [k \in R |-> index[k].gen]
  <1>1. IsFiniteSet(R)
    BY CacheAssumption, FS_Subset DEF CacheAssumption
  <1>2. f \in Surjection(R, T)
    BY DEF Surjection
  <1> HIDE DEF f, T
  <1>3. IsFiniteSet(T) /\ Cardinality(T) <= Cardinality(R)
    BY <1>1, <1>2, FS_Surjection
  <1> QED BY <1>3 DEF T

\* MakeRoom leaves a place: what stays live is named by the records that it
\* does not evict, and these are MaxLive - 1 at most.
LEMMA RoomIsMade ==
  ASSUME StateOK, LockAt, ReachAt, NEW c \in Controllers, MakeRoom(c)
  PROVE  LiveGens' \subseteq LiveGens /\ Cardinality(LiveGens') < MaxLive
  <1>1. PICK K \in SUBSET Keys : LeastRecent(K) /\ Evicts(K)
    BY DEF MakeRoom
  <1> DEFINE R == ReadyLive \ K
             T == {index[k].gen : k \in R}
  <1>2. ASSUME NEW g \in Gens, Live(g)'
        PROVE  Live(g) /\ g \notin {index[k].gen : k \in Dead \cup K}
    BY <1>1, <1>2 DEF Evicts, StopBases, Live, StateOK
  <1>3. ASSUME NEW g \in Gens, Live(g)' PROVE g \in T
    <2>1. ~AdoptedAt(g)
      BY DEF MakeRoom, LockAt, AdoptedAt
    <2>2. PICK k \in Keys : Ready(k) /\ index[k].gen = g
      BY <1>2, <1>3, <2>1 DEF ReachAt, IndexedAt
    <2>3. k \in ReadyLive /\ k \notin K
      BY <1>2, <1>3, <2>2 DEF ReadyLive
    <2> QED BY <2>2, <2>3
  <1>4. LiveGens' \subseteq LiveGens /\ LiveGens' \subseteq T
    BY <1>2, <1>3 DEF LiveGens, Gens
  <1>5. Cardinality(R) < MaxLive
    <2>1. /\ IsFiniteSet(ReadyLive) /\ Cardinality(ReadyLive) \in Nat
      BY CacheAssumption, FS_Subset, FS_CardinalityType DEF CacheAssumption, ReadyLive
    <2>2. ReadyLive \cap K = K /\ Cardinality(K) = Excess
      BY <1>1 DEF LeastRecent
    <2>3. Cardinality(R) = Cardinality(ReadyLive) - Excess
      BY <2>1, <2>2, FS_Difference, ZenonT(30)
    <2> QED BY <2>1, <2>3, CacheAssumption DEF Excess, CacheAssumption
  <1>6. IsFiniteSet(T) /\ Cardinality(T) <= Cardinality(R)
    BY FewerGensThanKeys DEF ReadyLive
  <1>7. Cardinality(LiveGens') <= Cardinality(T)
    BY <1>4, <1>6, FS_Subset
  <1>8. Cardinality(LiveGens') \in Nat /\ Cardinality(T) \in Nat /\ Cardinality(R) \in Nat
    <2>1. IsFiniteSet(R)
      BY CacheAssumption, FS_Subset DEF CacheAssumption, ReadyLive
    <2> QED BY <1>4, <1>6, <2>1, LiveGensFinite, FS_CardinalityType DEF LiveGens
  <1> QED BY <1>4, <1>5, <1>6, <1>7, <1>8, CacheAssumption DEF CacheAssumption

\* A step that shrinks keeps the places.
LEMMA FewerLiveCount ==
  ASSUME CountAt, Shrinks
  PROVE  CountAt'
  <1> USE DEF Shrinks
  <1>1. ASSUME NEW S \in SUBSET Gens PROVE Cardinality(S) \in Nat
    BY LiveGensFinite
  <1>2. /\ Cardinality(LiveGens') <= Cardinality(LiveGens)
        /\ Cardinality(LiveGens) \in Nat /\ Cardinality(LiveGens') \in Nat
    BY <1>1, FewerLive DEF LiveGens
  <1>3. Cardinality(LiveGens') <= MaxLive
    BY <1>2, CacheAssumption DEF CountAt, CacheAssumption
  <1>4. ASSUME NEW c \in Controllers, cachePc'[c] \in {"preparing", "forked"}
        PROVE  Cardinality(LiveGens') < MaxLive
    <2>1. Cardinality(LiveGens) < MaxLive
      BY <1>4 DEF CountAt
    <2> QED BY <1>2, <2>1, CacheAssumption DEF CacheAssumption
  <1>5. ASSUME NEW c \in Controllers, cachePc'[c] = "adopting"
        PROVE  Cardinality(LiveGens' \ {gen'[c]}) < MaxLive
    <2> DEFINE S == LiveGens' \ {gen'[c]}
    <2>1. Cardinality(S) \in Nat
      BY <1>1 DEF LiveGens
    <2>2. CASE cachePc[c] = "forked"
      <3>1. Cardinality(S) <= Cardinality(LiveGens)
        BY FewerLive DEF LiveGens
      <3>2. Cardinality(LiveGens) < MaxLive
        BY <2>2 DEF CountAt
      <3> QED BY <1>2, <2>1, <3>1, <3>2, CacheAssumption DEF CacheAssumption
    <2>3. CASE cachePc[c] = "adopting" /\ gen'[c] = gen[c]
      <3>1. Cardinality(S) <= Cardinality(LiveGens \ {gen[c]})
        BY <2>3, FewerLive DEF LiveGens
      <3>2. Cardinality(LiveGens \ {gen[c]}) < MaxLive
        BY <2>3 DEF CountAt
      <3>3. Cardinality(LiveGens \ {gen[c]}) \in Nat
        BY <1>1 DEF LiveGens
      <3> QED BY <2>1, <3>1, <3>2, <3>3, CacheAssumption DEF CacheAssumption
    <2> QED BY <1>5, <2>2, <2>3
  <1> QED BY <1>3, <1>4, <1>5 DEF CountAt

\* Every other step leaves the same live bases or fewer, and brings no
\* controller to a preparation or an adoption but one that came from there.
LEMMA OtherSteps ==
  ASSUME StateOK, FreshAt, [CacheNext]_cacheVars,
         ~\E c \in Controllers : MakeRoom(c), ~\E g \in Gens : BrokerAttaches(g)
  PROVE  Shrinks
  <1> USE CacheAssumption
          DEF CachePcs, Moves, baseProcs, cacheLocal, StateOK, FreshAt, Shrinks,
              LiveGens, Live, Gens
  <1>1. ASSUME NEW c \in Controllers, NEW k \in Keys, Enter(c, k) PROVE Shrinks
    BY <1>1 DEF Enter
  <1>2. ASSUME NEW c \in Controllers, LookupHit(c) PROVE Shrinks
    BY <1>2 DEF LookupHit, Touch
  <1>3. ASSUME NEW c \in Controllers, LookupBusy(c) PROVE Shrinks
    BY <1>3 DEF LookupBusy, Leave
  <1>4. ASSUME NEW c \in Controllers, LookupMiss(c) PROVE Shrinks
    BY <1>4 DEF LookupMiss, StopBases, Retire
  <1>5. ASSUME NEW c \in Controllers, NoRoom(c) PROVE Shrinks
    BY <1>5 DEF NoRoom, Evicts, Leave, StopBases, Retire
  <1>6. ASSUME NEW c \in Controllers, PrepareForks(c) PROVE Shrinks
    BY <1>6 DEF PrepareForks
  <1>7. ASSUME NEW c \in Controllers, PreparationFails(c) PROVE Shrinks
    BY <1>7 DEF PreparationFails, Leave, StopBases
  <1>8. ASSUME NEW c \in Controllers, StartBroker(c) PROVE Shrinks
    BY <1>8 DEF StartBroker
  <1>9. ASSUME NEW c \in Controllers, Publish(c) PROVE Shrinks
    BY <1>9 DEF Publish, Touch
  <1>10. ASSUME NEW c \in Controllers, AdoptionFails(c) PROVE Shrinks
    BY <1>10 DEF AdoptionFails, Leave, StopBases
  <1>11. ASSUME NEW c \in Controllers, StartLeaf(c) PROVE Shrinks
    BY <1>11 DEF StartLeaf
  <1>12. ASSUME NEW c \in Controllers, LeafRefused(c) PROVE Shrinks
    BY <1>12 DEF LeafRefused, Leave
  <1>13. ASSUME NEW c \in Controllers, LeafEnds(c) PROVE Shrinks
    BY <1>13 DEF LeafEnds, Leave
  <1>14. ASSUME NEW c \in Controllers, NEW k \in Keys, ListLive(c, k) PROVE Shrinks
    BY <1>14 DEF ListLive
  <1>15. ASSUME NEW c \in Controllers, RetireListed(c) PROVE Shrinks
    BY <1>15 DEF RetireListed, StopBases, Retire
  <1>16. ASSUME NEW c \in Controllers, ControllerKilled(c) PROVE Shrinks
    BY <1>16 DEF ControllerKilled
  <1>17. ASSUME NEW g \in Gens, BrokerCrashes(g) PROVE Shrinks
    BY <1>17 DEF BrokerCrashes
  <1>18. ASSUME NEW g \in Gens, BasisCrashes(g) PROVE Shrinks
    BY <1>18 DEF BasisCrashes
  <1>19. ASSUME NEW g \in Gens, AdoptionExpires(g) PROVE Shrinks
    BY <1>19 DEF AdoptionExpires
  <1>20. ASSUME NEW g \in Gens, BasisReadsEof(g) PROVE Shrinks
    BY <1>20 DEF BasisReadsEof
  <1>21. ASSUME NEW g \in Gens, BrokerSeesBasisGone(g) PROVE Shrinks
    BY <1>21 DEF BrokerSeesBasisGone
  <1>22. ASSUME NEW g \in Gens, ChildEnds(g) PROVE Shrinks
    BY <1>22 DEF ChildEnds
  <1>23. CASE UNCHANGED cacheVars
    BY <1>23 DEF cacheVars
  <1> QED BY <1>1, <1>2, <1>3, <1>4, <1>5, <1>6, <1>7, <1>8, <1>9, <1>10, <1>11,
  <1>12, <1>13, <1>14, <1>15, <1>16, <1>17, <1>18, <1>19, <1>20, <1>21, <1>22, <1>23
  DEF CacheNext, Prove, Process

\* Every step keeps the places: MakeRoom makes one, the broker that attaches
\* takes it, and the lock keeps everyone else from taking it.
LEMMA CountStep ==
  ASSUME KillInAdoption = FALSE, StateOK, LockAt, FreshAt, ReachAt, CountAt,
         [CacheNext]_cacheVars, StateOK', LockAt'
  PROVE  CountAt'
  <1>1. ASSUME NEW c \in Controllers, MakeRoom(c) PROVE CountAt'
    <2>1. LiveGens' \subseteq LiveGens /\ Cardinality(LiveGens') < MaxLive
      BY <1>1, RoomIsMade
    <2>2. Cardinality(LiveGens') \in Nat
      BY <2>1, LiveGensFinite DEF LiveGens
    <2>3. cachePc' = [cachePc EXCEPT ![c] = "preparing"] /\ cachePc[c] = "room"
      BY <1>1 DEF MakeRoom, Moves
    <2>4. ASSUME NEW d \in Controllers PROVE cachePc'[d] # "adopting"
      BY <2>3 DEF LockAt, StateOK
    <2> QED BY <2>1, <2>2, <2>4, CacheAssumption DEF CountAt, CacheAssumption
  <1>2. ASSUME NEW g \in Gens, BrokerAttaches(g) PROVE CountAt'
    <2>1. cachePc' = cachePc /\ gen' = gen
      BY <1>2 DEF BrokerAttaches, cacheLocal
    <2>2. CASE basis[g] = "waiting"
      <3>1. PICK c \in Controllers : cachePc[c] = "adopting" /\ gen[c] = g
        BY <1>2, <2>2 DEF BrokerAttaches, FreshAt, AdoptedAt
      <3>2. LiveGens' \subseteq Gens /\ LiveGens' \ {g} \subseteq LiveGens \ {g}
        BY <1>2, <2>2 DEF BrokerAttaches, LiveGens, Live, Gens, StateOK
      <3>3. Cardinality(LiveGens' \ {g}) <= Cardinality(LiveGens \ {g})
        BY <3>2, FewerLive DEF LiveGens
      <3>4. Cardinality(LiveGens' \ {g}) < MaxLive
        <4>1. /\ Cardinality(LiveGens' \ {g}) \in Nat
              /\ Cardinality(LiveGens \ {g}) \in Nat
          BY <3>2, LiveGensFinite DEF LiveGens
        <4>2. Cardinality(LiveGens \ {g}) < MaxLive
          BY <3>1 DEF CountAt
        <4> QED BY <3>3, <4>1, <4>2, CacheAssumption DEF CacheAssumption
      <3>5. Cardinality(LiveGens') <= MaxLive
        BY <3>2, <3>4, OneMoreLive
      <3>6. ASSUME NEW d \in Controllers, cachePc[d] \in {"preparing", "forked", "adopting"}
            PROVE  d = c
        BY <3>1, <3>6 DEF LockAt
      <3> QED BY <2>1, <3>1, <3>4, <3>5, <3>6 DEF CountAt
    <2>3. CASE basis[g] # "waiting"
      <3>1. LiveGens' \subseteq LiveGens
        BY <1>2, <2>3 DEF BrokerAttaches, LiveGens, Live, Gens, StateOK
      <3>2. Shrinks
        BY <2>1, <3>1 DEF Shrinks
      <3> QED BY <3>2, FewerLiveCount
    <2> QED BY <2>2, <2>3
  <1>3. ASSUME ~\E c \in Controllers : MakeRoom(c), ~\E g \in Gens : BrokerAttaches(g)
        PROVE  CountAt'
    BY <1>3, OtherSteps, FewerLiveCount
  <1> QED BY <1>1, <1>2, <1>3

\* The whole invariant holds in every state, when no controller is killed while
\* it adopts a basis.
LEMMA CacheInvariance ==
  ASSUME KillInAdoption = FALSE
  PROVE  CacheSpec => [](StateOK /\ BInv /\ CountAt)
  <1>1. CacheInit => StateOK /\ BInv
    <2>1. (CHOOSE k \in Keys : TRUE) \in Keys
      BY CacheAssumption DEF CacheAssumption
    <2> QED BY <2>1, CacheAssumption
       DEF CacheAssumption, CacheInit, StateOK, CachePcs, BInv, LockAt, KeyAt, FreshAt,
           ReachAt, Ready, Live, Gens
  <1>2. CacheInit => CountAt
    <2>1. ASSUME CacheInit PROVE LiveGens = {}
      BY <2>1 DEF CacheInit, LiveGens, Live
    <2>2. Cardinality({}) = 0 /\ MaxLive > 0
      BY FS_EmptySet, CacheAssumption DEF CacheAssumption
    <2>3. MaxLive \in Nat
      BY CacheAssumption DEF CacheAssumption
    <2>4. ASSUME CacheInit, NEW c \in Controllers PROVE cachePc[c] = "idle"
      BY <2>4 DEF CacheInit
    <2> QED BY <2>1, <2>2, <2>3, <2>4 DEF CountAt
  <1>3. StateOK /\ BInv /\ CountAt /\ [CacheNext]_cacheVars
        => (StateOK /\ BInv /\ CountAt)'
    BY StateStep, LockStep, KeyStep, FreshStep, ReachStep, CountStep DEF BInv
  <1> QED BY <1>1, <1>2, <1>3, PTL DEF CacheSpec

\* The types hold in every state, killed controllers or not.
LEMMA StateInvariance ==
  CacheSpec => []StateOK
  <1>1. CacheInit => StateOK
    <2>1. (CHOOSE k \in Keys : TRUE) \in Keys
      BY CacheAssumption DEF CacheAssumption
    <2> QED BY <2>1, CacheAssumption
       DEF CacheAssumption, CacheInit, StateOK, CachePcs
  <1> QED BY <1>1, StateStep, PTL DEF CacheSpec

\* At most MaxLive bases are retained in one cache and each is reachable from
\* it (_make_room, adopt_basis, lookup_basis), for every number of controllers,
\* identities, generations and crashes.
THEOREM LiveBasesBoundedHolds ==
  ASSUME KillInAdoption = FALSE
  PROVE  CacheSpec => []LiveBasesBounded
  <1>1. StateOK /\ BInv /\ CountAt => LiveBasesBounded
    BY DEF BInv, ReachAt, CountAt, LiveGens, IndexedAt, AdoptedAt, LiveBasesBounded
  <1> QED BY <1>1, CacheInvariance, PTL

LeafSpared ==
  \A c \in Controllers, g \in Gens :
    cachePc[c] \in {"lookup", "room"} /\ cachePc'[c] # cachePc[c]
      /\ g \in child /\ Live(g) => basis'[g] = "live" /\ broker'[g] = "serving"

\* No step that ends a lookup or makes room stops a basis in use.
LEMMA UseStep ==
  ASSUME StateOK, [CacheNext]_cacheVars
  PROVE  LeafSpared
  <1> USE CacheAssumption
          DEF CachePcs, Moves, baseProcs, cacheLocal, StateOK, LeafSpared, Live,
              Ready, ReadyLive, Dead
  <1>1. ASSUME NEW c \in Controllers, NEW k \in Keys, Enter(c, k) PROVE LeafSpared
    BY <1>1 DEF Enter
  <1>2. ASSUME NEW c \in Controllers, LookupHit(c) PROVE LeafSpared
    BY <1>2 DEF LookupHit, Touch
  <1>3. ASSUME NEW c \in Controllers, LookupBusy(c) PROVE LeafSpared
    BY <1>3 DEF LookupBusy, Leave
  <1>4. ASSUME NEW c \in Controllers, LookupMiss(c) PROVE LeafSpared
    BY <1>4 DEF LookupMiss, StopBases, Retire
  <1>5. ASSUME NEW c \in Controllers, MakeRoom(c) PROVE LeafSpared
    BY <1>5 DEF MakeRoom, Evicts, StopBases, Retire, LeastRecent
  <1>6. ASSUME NEW c \in Controllers, NoRoom(c) PROVE LeafSpared
    BY <1>6 DEF NoRoom, Evicts, Leave, StopBases, Retire
  <1>7. ASSUME NEW c \in Controllers, PrepareForks(c) PROVE LeafSpared
    BY <1>7 DEF PrepareForks
  <1>8. ASSUME NEW c \in Controllers, PreparationFails(c) PROVE LeafSpared
    BY <1>8 DEF PreparationFails, Leave, StopBases
  <1>9. ASSUME NEW c \in Controllers, StartBroker(c) PROVE LeafSpared
    BY <1>9 DEF StartBroker
  <1>10. ASSUME NEW c \in Controllers, Publish(c) PROVE LeafSpared
    BY <1>10 DEF Publish, Touch
  <1>11. ASSUME NEW c \in Controllers, AdoptionFails(c) PROVE LeafSpared
    BY <1>11 DEF AdoptionFails, Leave, StopBases
  <1>12. ASSUME NEW c \in Controllers, StartLeaf(c) PROVE LeafSpared
    BY <1>12 DEF StartLeaf
  <1>13. ASSUME NEW c \in Controllers, LeafRefused(c) PROVE LeafSpared
    BY <1>13 DEF LeafRefused, Leave
  <1>14. ASSUME NEW c \in Controllers, LeafEnds(c) PROVE LeafSpared
    BY <1>14 DEF LeafEnds, Leave
  <1>15. ASSUME NEW c \in Controllers, NEW k \in Keys, ListLive(c, k) PROVE LeafSpared
    BY <1>15 DEF ListLive
  <1>16. ASSUME NEW c \in Controllers, RetireListed(c) PROVE LeafSpared
    BY <1>16 DEF RetireListed, StopBases, Retire
  <1>17. ASSUME NEW c \in Controllers, ControllerKilled(c) PROVE LeafSpared
    BY <1>17 DEF ControllerKilled
  <1>18. ASSUME NEW g \in Gens, BrokerCrashes(g) PROVE LeafSpared
    BY <1>18 DEF BrokerCrashes
  <1>19. ASSUME NEW g \in Gens, BasisCrashes(g) PROVE LeafSpared
    BY <1>19 DEF BasisCrashes
  <1>20. ASSUME NEW g \in Gens, AdoptionExpires(g) PROVE LeafSpared
    BY <1>20 DEF AdoptionExpires
  <1>21. ASSUME NEW g \in Gens, BrokerAttaches(g) PROVE LeafSpared
    BY <1>21 DEF BrokerAttaches
  <1>22. ASSUME NEW g \in Gens, BasisReadsEof(g) PROVE LeafSpared
    BY <1>22 DEF BasisReadsEof
  <1>23. ASSUME NEW g \in Gens, BrokerSeesBasisGone(g) PROVE LeafSpared
    BY <1>23 DEF BrokerSeesBasisGone
  <1>24. ASSUME NEW g \in Gens, ChildEnds(g) PROVE LeafSpared
    BY <1>24 DEF ChildEnds
  <1>25. CASE UNCHANGED cacheVars
    BY <1>25 DEF cacheVars
  <1> QED BY <1>1, <1>2, <1>3, <1>4, <1>5, <1>6, <1>7, <1>8, <1>9, <1>10, <1>11,
  <1>12, <1>13, <1>14, <1>15, <1>16, <1>17, <1>18, <1>19, <1>20, <1>21, <1>22, <1>23,
  <1>24, <1>25 DEF CacheNext, Prove, Process


\* Preparing another basis never stops one on which a leaf is being evaluated
\* (_make_room, lookup_basis), killed controllers or not.
THEOREM UseNotEvictedHolds ==
  CacheSpec => UseNotEvicted
  <1>1. StateOK /\ [CacheNext]_cacheVars => [LeafSpared]_cacheVars
    BY UseStep
  <1> QED BY <1>1, StateInvariance, PTL DEF CacheSpec, UseNotEvicted, LeafSpared
=============================================================================
