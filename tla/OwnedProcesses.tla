--------------------------- MODULE OwnedProcesses ---------------------------
(***************************************************************************)
(* One process group from its start to its end, as its controllers see it. *)
(* `criu_build_pool start` owns the group (OwnedProcessSet) until it is    *)
(* ready and the ownership is transferred, or ends it.  A later stop knows *)
(* it only by recorded numbers and the birth identity of its leader, looks *)
(* at it through /proc, one process at a time, and signals it by number.   *)
(*                                                                         *)
(* Meanwhile processes fork, leave the group for a session of their own,   *)
(* exit, stay zombies until somebody reaps them, and free numbers that the *)
(* kernel hands out again.  A number stays taken while a process or a      *)
(* group has it.                                                           *)
(***************************************************************************)
EXTENDS Naturals, FiniteSets

CONSTANTS
  MaxPid,          \* the group's processes have the numbers 1..MaxPid
  ForkInListing,   \* a process of the group forks while the stop lists /proc
  ReuseWhileOwned, \* the leader's number is reused while its starter still ends the group
  SpawnMayFail     \* birth identity or context record of the new process is not to be had

Pids == 1..MaxPid
Leader == 1

\* What the constants must satisfy; the modules that instantiate this one assume it.
ConstantsAssumption ==
  /\ MaxPid \in Nat \ {0}
  /\ ForkInListing \in BOOLEAN /\ ReuseWhileOwned \in BOOLEAN /\ SpawnMayFail \in BOOLEAN

VARIABLES
  state,   \* of each process: none, run, zombie
  member,  \* processes, zombies included, in the group with the leader's number
  foreign, \* that number belongs to somebody else's group now
  doomed,  \* processes with a SIGKILL pending
  top,     \* the highest number given so far
  ready,   \* the leader has published its readiness record
  opc,     \* control point of the starter
  known,   \* the starter has the process object: spawn returned
  record,  \* the context-ownership record: none, owned, transferred
  pool,    \* pool.json: status, and what startup_cleanup says
  spc,     \* control point of the stop command
  phase,   \* its wait: initial, cooperative, final
  listed, lead, seen, \* its look at /proc: left to read, the leader, live members
  verdict, \* what the stop recorded last
  hit      \* history: a signal reached a foreign process

kernelVars == <<state, member, foreign, doomed, top>>
ownerVars == <<ready, opc, known, record, pool>>
lookVars == <<listed, lead, seen>>
stopVars == <<spc, phase, lookVars, verdict>>
vars == <<kernelVars, ownerVars, stopVars, hit>>

TypeOK ==
  /\ state \in [Pids -> {"none", "run", "zombie"}]
  /\ member \subseteq Pids /\ doomed \subseteq Pids /\ foreign \in BOOLEAN
  /\ top \in 0..MaxPid /\ ready \in BOOLEAN /\ known \in BOOLEAN /\ hit \in BOOLEAN
  /\ opc \in {"start", "waiting", "publish", "commit", "first", "termed", "kill", "killed",
              "done", "failed"}
  /\ record \in {"none", "owned", "transferred"}
  /\ pool \in {"starting", "ready", "verified", "unverified", "stopped", "stop_failed"}
  /\ spc \in {"off", "list", "read", "term", "kill"}
  /\ phase \in {"initial", "cooperative", "final"}
  /\ listed \subseteq Pids /\ lead \in {"absent", "mismatch", "zombie", "live"}
  /\ seen \subseteq Pids /\ verdict \in {"none", "verified", "unverified"}

Init ==
  /\ state = [p \in Pids |-> "none"] /\ member = {} /\ foreign = FALSE /\ doomed = {}
  /\ top = 0
  /\ ready = FALSE /\ opc = "start" /\ known = FALSE /\ record = "none" /\ pool = "starting"
  /\ spc = "off" /\ phase = "initial" /\ listed = {} /\ lead = "absent" /\ seen = {}
  /\ verdict = "none" /\ hit = FALSE

Running == {p \in Pids : state[p] = "run"}
OwnRunning == IF foreign THEN (member \cap Running) \ {Leader} ELSE member \cap Running
StarterOver == opc \in {"done", "failed"}

-----------------------------------------------------------------------------
(* The kernel and the processes themselves.                                *)

\* Numbers rise: a new process has a higher one than those before it.
Fork(p) ==
  /\ p \in OwnRunning \ doomed /\ top < MaxPid
  /\ ForkInListing \/ spc # "read"
  /\ top' = top + 1
  /\ state' = [state EXCEPT ![top + 1] = "run"] /\ member' = member \cup {top + 1}
  /\ UNCHANGED <<foreign, doomed, ownerVars, stopVars, hit>>

\* setsid: the basis and the proof children get groups of their own.
LeavesGroup(p) ==
  /\ p \in OwnRunning \ (doomed \cup {Leader})
  /\ member' = member \ {p}
  /\ UNCHANGED <<state, foreign, doomed, top, ownerVars, stopVars, hit>>

\* By itself, on a request to stop, or of a signal; nobody has to mind a SIGTERM.
Exits(p) ==
  /\ state[p] = "run"
  /\ state' = [state EXCEPT ![p] = "zombie"] /\ doomed' = doomed \ {p}
  /\ UNCHANGED <<member, foreign, top, ownerVars, stopVars, hit>>

Reaped(p) == state' = [state EXCEPT ![p] = "none"] /\ member' = member \ {p}

\* Only the starter, while it runs, reaps the leader.
ReapedByParent(p) ==
  /\ state[p] = "zombie" /\ (p = Leader => StarterOver \/ foreign)
  /\ Reaped(p) /\ foreign' = (foreign /\ p # Leader)
  /\ UNCHANGED <<doomed, top, ownerVars, stopVars, hit>>

\* Somebody else's process, leader of a new group, gets the free number.
NumberReused ==
  /\ top > 0 /\ state[Leader] = "none" /\ member = {}
  /\ ReuseWhileOwned \/ StarterOver
  /\ foreign' = TRUE
  /\ state' = [state EXCEPT ![Leader] = "run"] /\ member' = {Leader}
  /\ UNCHANGED <<doomed, top, ownerVars, stopVars, hit>>

\* killpg(number, 0) finds zombies too.
GroupAlive == member # {}

\* killpg: the whole group, whoever has that number now.
Terminate == hit' = (hit \/ foreign) /\ UNCHANGED doomed
Killed == hit' = (hit \/ foreign) /\ doomed' = doomed \cup (member \cap Running)

\* process.poll() reaps a leader that has exited.
LeaderRuns == ~foreign /\ state[Leader] = "run"
LeaderExited == ~foreign /\ state[Leader] = "zombie"
Poll == IF LeaderExited THEN Reaped(Leader) ELSE UNCHANGED <<state, member>>

-----------------------------------------------------------------------------
(* The starter: start_pool and its OwnedProcessSet.                        *)

\* spawn: a session of its own, its identity, its record; if one of the latter is
\* not to be had, spawn ends the process itself and raises.
Spawn ==
  /\ opc = "start"
  /\ state' = [state EXCEPT ![Leader] = "run"] /\ member' = {Leader} /\ top' = 1
  /\ \/ opc' = "waiting" /\ known' = TRUE /\ record' = "owned"
     \/ SpawnMayFail /\ opc' = "first" /\ UNCHANGED <<known, record>>
  /\ UNCHANGED <<foreign, doomed, ready, pool, stopVars, hit>>

SpawnFails ==
  /\ opc = "start" /\ opc' = "failed" /\ pool' = "verified"
  /\ UNCHANGED <<kernelVars, ready, known, record, stopVars, hit>>

BecomesReady ==
  /\ opc = "waiting" /\ LeaderRuns /\ ~ready /\ ready' = TRUE
  /\ UNCHANGED <<kernelVars, opc, known, record, pool, stopVars, hit>>

SeesReady ==
  /\ opc = "waiting" /\ ready /\ opc' = "publish"
  /\ UNCHANGED <<kernelVars, ready, known, record, pool, stopVars, hit>>

SeesExit ==
  /\ opc = "waiting" /\ ~ready /\ ~LeaderRuns
  /\ Poll /\ opc' = "first"
  /\ UNCHANGED <<foreign, doomed, top, ready, known, record, pool, stopVars, hit>>

\* The deadline, a Ctrl-C, or a readiness record that does not validate.
GivesUp ==
  /\ opc \in {"waiting", "publish", "commit"} /\ opc' = "first"
  /\ UNCHANGED <<kernelVars, ready, known, record, pool, stopVars, hit>>

PublishReady ==
  /\ opc = "publish" /\ pool' = "ready" /\ opc' = "commit"
  /\ UNCHANGED <<kernelVars, ready, known, record, stopVars, hit>>

\* commit: require_live, the validator, the record, and the set is empty.
Commit ==
  /\ opc = "commit"
  /\ \/ LeaderRuns /\ record' = "transferred" /\ opc' = "done" /\ UNCHANGED <<state, member>>
     \/ ~LeaderRuns /\ Poll /\ opc' = "first" /\ UNCHANGED record
  /\ UNCHANGED <<foreign, doomed, top, ready, known, pool, stopVars, hit>>

\* After its poll: neither leader nor group.
Quiescent == ~LeaderRuns /\ (LeaderExited => member = {Leader}) /\ (~LeaderExited => ~GroupAlive)

\* The receipt looks again; start_pool sums receipts up in pool.json, and takes a
\* spawn that raised for a process that never started.
Receipt ==
  /\ Poll /\ opc' = "failed"
  /\ pool' = IF Quiescent \/ ~known THEN "verified" ELSE "unverified"
  /\ record' = IF Quiescent THEN "none" ELSE record

\* terminate: nothing left, or a SIGTERM to the group.
FirstSignal ==
  /\ opc = "first"
  /\ \/ Quiescent /\ Receipt /\ UNCHANGED <<doomed, hit>>
     \/ ~Quiescent /\ Poll /\ Terminate /\ opc' = "termed" /\ UNCHANGED <<record, pool>>
  /\ UNCHANGED <<foreign, top, ready, known, stopVars>>

AwaitTerm ==
  /\ opc = "termed"
  /\ \/ Quiescent /\ Receipt
     \/ ~Quiescent /\ Poll /\ opc' = "kill" /\ UNCHANGED <<record, pool>>
  /\ UNCHANGED <<foreign, doomed, top, ready, known, stopVars, hit>>

\* The birth identity is read again only while the leader runs.
SecondSignal ==
  /\ opc = "kill" /\ Killed /\ opc' = "killed"
  /\ UNCHANGED <<state, member, foreign, top, ready, known, record, pool, stopVars>>

\* killpg refused, or the grace after SIGKILL is over, or the group.
EndTermination ==
  /\ opc \in {"first", "kill", "killed"} /\ (opc = "first" => ~Quiescent)
  /\ Receipt
  /\ UNCHANGED <<foreign, doomed, top, ready, known, stopVars, hit>>

\* A second Ctrl-C: the set is empty already, and there is no receipt.
InterruptCleanup ==
  /\ opc \in {"first", "termed", "kill", "killed"} /\ opc' = "failed"
  /\ pool' = IF known THEN "unverified" ELSE "verified"
  /\ UNCHANGED <<kernelVars, ready, known, record, stopVars, hit>>

-----------------------------------------------------------------------------
(* The stop command: stop_pool, stop_warm_session.                         *)

Look(ph) == spc' = "list" /\ phase' = ph

BeginStop ==
  /\ spc = "off" /\ opc = "done" /\ pool \in {"ready", "stop_failed"}
  /\ Look("initial")
  /\ UNCHANGED <<kernelVars, ownerVars, lookVars, verdict, hit>>

\* read_linux_process_snapshot: the names in /proc first, then one stat each.
ListProcesses ==
  /\ spc = "list" /\ spc' = "read"
  /\ listed' = {p \in Pids : state[p] # "none"} /\ lead' = "absent" /\ seen' = {}
  /\ UNCHANGED <<kernelVars, ownerVars, phase, verdict, hit>>

LeaderAs(p) ==
  IF p # Leader \/ state[p] = "none" THEN lead
  ELSE IF foreign THEN "mismatch"
  ELSE IF LeaderRuns THEN "live" ELSE "zombie"

ReadProcess(p) ==
  /\ spc = "read" /\ p \in listed /\ \A q \in listed : p <= q
  /\ listed' = listed \ {p} /\ lead' = LeaderAs(p)
  /\ seen' = seen \cup ({p} \cap member \cap Running)
  /\ UNCHANGED <<kernelVars, ownerVars, spc, phase, verdict, hit>>

\* Fault: the process that is recorded counts, not its group.
LooksQuiet_LeaderOnly == lead \in {"absent", "zombie"}

\* No target that lives or is somebody else's, no live member of its group.
LooksQuiet == lead \in {"absent", "zombie"} /\ seen = {}

Looked(ph) == spc = "read" /\ listed = {} /\ phase = ph

\* The request goes out unless all is quiet; it binds nobody.
LookedFirst ==
  /\ Looked("initial") /\ Look("cooperative")
  /\ UNCHANGED <<kernelVars, ownerVars, lookVars, verdict, hit>>

LookedCooperative ==
  /\ Looked("cooperative")
  /\ \/ LooksQuiet /\ Look("final")
     \/ ~LooksQuiet /\ Look("cooperative")
     \/ ~LooksQuiet /\ spc' = "term" /\ UNCHANGED phase
  /\ UNCHANGED <<kernelVars, ownerVars, lookVars, verdict, hit>>

\* The identity of the leader as recorded; a zombie has one, an absent process not.
SameLeader == ~foreign /\ state[Leader] # "none"

\* terminate_process_group: nobody to signal, somebody else, a signal refused, or a
\* SIGTERM.
SignalGroup ==
  /\ spc = "term"
  /\ \/ GroupAlive /\ SameLeader /\ Terminate /\ spc' = "kill" /\ UNCHANGED phase
     \/ Look("final") /\ UNCHANGED <<doomed, hit>>
  /\ UNCHANGED <<state, member, foreign, top, ownerVars, lookVars, verdict>>

\* Fault: the identity is taken for checked.
SignalAgain_Unchecked ==
  /\ spc = "kill" /\ Look("final")
  /\ \/ GroupAlive /\ Killed
     \/ ~GroupAlive /\ UNCHANGED <<doomed, hit>>
  /\ UNCHANGED <<state, member, foreign, top, ownerVars, lookVars, verdict>>

\* After the grace the identity is read again before SIGKILL.
SignalAgain ==
  /\ spc = "kill" /\ Look("final")
  /\ \/ GroupAlive /\ SameLeader /\ Killed
     \/ ~(GroupAlive /\ SameLeader) /\ UNCHANGED <<doomed, hit>>
  /\ UNCHANGED <<state, member, foreign, top, ownerVars, lookVars, verdict>>

LookedFinal ==
  /\ Looked("final")
  /\ \/ LooksQuiet /\ verdict' = "verified" /\ pool' = "stopped" /\ spc' = "off"
        /\ UNCHANGED phase
     \/ ~LooksQuiet /\ Look("final") /\ UNCHANGED <<verdict, pool>>
     \/ ~LooksQuiet /\ verdict' = "unverified" /\ pool' = "stop_failed" /\ spc' = "off"
        /\ UNCHANGED phase
  /\ UNCHANGED <<kernelVars, ready, opc, known, record, lookVars, hit>>

-----------------------------------------------------------------------------

Kernel == NumberReused \/ \E p \in Pids : Fork(p) \/ LeavesGroup(p) \/ Exits(p) \/ ReapedByParent(p)

Starter ==
  \/ Spawn \/ SpawnFails \/ BecomesReady \/ SeesReady \/ SeesExit \/ GivesUp \/ PublishReady
  \/ Commit \/ FirstSignal \/ AwaitTerm \/ SecondSignal \/ EndTermination \/ InterruptCleanup

Stop ==
  \/ BeginStop \/ ListProcesses \/ \E p \in Pids : ReadProcess(p)
  \/ LookedFirst \/ LookedCooperative \/ SignalGroup \/ SignalAgain \/ LookedFinal

Next == Kernel \/ Starter \/ Stop

Spec == Init /\ [][Next]_vars

-----------------------------------------------------------------------------
(* Properties.                                                             *)

\* A report that says verified, of the failed start (startup_cleanup) or of the stop
\* (stop_result), is right: no process of the group runs, also none that was forked
\* while the report was made or whose leader is long reaped.  And a group that runs
\* after its start is named by an ownership record, also when the cleanup was
\* interrupted.
ReportedGroupGone ==
  /\ pool \in {"verified", "stopped"} /\ StarterOver => OwnRunning = {}
  /\ record = "none" /\ StarterOver => OwnRunning = {}

\* "reused PID was signalled", "identity change did not suppress delayed SIGKILL"
\* (memory_first_lifecycle_selftest): no signal reaches a group that somebody else has
\* under the recorded number, whenever the number changes hands.
ForeignGroupSpared == ~hit
=============================================================================
