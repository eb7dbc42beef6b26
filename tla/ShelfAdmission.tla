--------------------------- MODULE ShelfAdmission ---------------------------
(***************************************************************************)
(* Admission to one physical profile shelf: `prove` attempts queue for a   *)
(* numbered slot, clients of the previous release still use the single     *)
(* file admission.lock, and the idle retirement monitor closes all slots   *)
(* before it stops the restored runtime.                                   *)
(*                                                                         *)
(*   lock[0]   admission.lock       lock[k]   admission-k.lock, k > 0      *)
(*                                                                         *)
(* Slot 1 is the group of both files 0 and 1; every other slot is one      *)
(* file.  Demand and owner records are files of their own; readers ignore  *)
(* those of processes that no longer run.  The pool is reduced to what     *)
(* admission protects: whether it is live, its leases and proof children   *)
(* (module WarmPool has the seat table).  The idle period is a flag that   *)
(* a leaving route clears and time sets.                                   *)
(***************************************************************************)
EXTENDS Naturals, FiniteSets

CONSTANTS
  Capacity,   \* slots of the shelf: what the v3 broker can serve
  Attempts,   \* prove attempts, each one process
  Expanders,  \* attempts that pass a capacity_expander (the vanilla route)
  OldClients, \* installed clients that know only admission.lock
  Killable,   \* attempts that may be killed outright
  Monitor,    \* the idle retirement monitor
  None        \* no process

Users == Attempts \cup OldClients
Procs == Users \cup {Monitor}
Slots == 1..Capacity
Files == 0..Capacity

ASSUME ShelfAssumption ==
  /\ Capacity \in Nat \ {0}
  /\ Attempts \cap OldClients = {}
  /\ Monitor \notin Users
  /\ None \notin Procs
  /\ Expanders \subseteq Attempts
  /\ Killable \subseteq Attempts

VARIABLES
  lock,      \* holder of each admission file
  demand,    \* attempts with a demand record on disk
  owner,     \* attempt named by each slot's owner record
  pc,        \* control point of each user
  slot,      \* the slot an attempt probes or holds
  live,      \* the restored runtime runs
  leased,    \* users with a pool lease, dead ones included
  children,  \* users whose proof child runs
  mpc,       \* control point of the monitor
  held,      \* files the monitor holds: those below this number
  idle       \* the last activity is idle_seconds old

recordVars == <<demand, owner>>
poolVars == <<live, leased, children>>
monitorVars == <<mpc, held, idle>>
vars == <<lock, recordVars, pc, slot, poolVars, monitorVars>>

UserPc == {"gone", "counting", "probing", "half", "admitted", "owner",
           "restored", "leased", "closing", "unlocking", "dropping", "leaving",
           "killed"}
MonitorPc == {"off", "watching", "locking", "exclusive", "decided", "stopping",
              "reopening", "retiring", "killed"}

TypeOK ==
  /\ lock \in [Files -> Procs \cup {None}]
  /\ demand \subseteq Attempts
  /\ owner \in [Slots -> Attempts \cup {None}]
  /\ pc \in [Users -> UserPc]
  /\ slot \in [Attempts -> Slots]
  /\ live \in BOOLEAN
  /\ leased \subseteq Users
  /\ children \subseteq Users
  /\ mpc \in MonitorPc
  /\ held \in 0..(Capacity + 1)
  /\ idle \in BOOLEAN

Running == {u \in Users : pc[u] # "gone"}
LiveDemands == demand \cap Running
LiveOwners == {owner[k] : k \in Slots} \cap Running

\* An attempt holds its slot from the successful flock to the unlock.
Admitted == {"admitted", "owner", "restored", "leased", "closing", "unlocking"}

Init ==
  /\ lock = [f \in Files |-> None]
  /\ demand = {}
  /\ owner = [k \in Slots |-> None]
  /\ pc = [u \in Users |-> "gone"]
  /\ slot = [a \in Attempts |-> 1]
  /\ live = FALSE
  /\ leased = {}
  /\ children = {}
  /\ mpc = "off"
  /\ held = 0
  /\ idle = TRUE

-----------------------------------------------------------------------------
(* Attempts.                                                               *)

Goto(u, st) == pc' = [pc EXCEPT ![u] = st]
Take(f, p) == lock' = [lock EXCEPT ![f] = p]
Drop(f) == lock' = [lock EXCEPT ![f] = None]

Held(p) == {f \in Files : lock[f] = p}

\* Closing open files, by Python or by the kernel at a process's end, goes in
\* the order they were opened; unlocking a group goes the other way.
Lowest(p) == {f \in Held(p) : \A g \in Held(p) : f <= g}
Highest(p) == {f \in Held(p) : \A g \in Held(p) : g <= f}

\* A new process has a new identity, which no record, lease or child names.
\* It publishes its demand first.
Begin(a) ==
  /\ pc[a] = "gone" /\ a \notin demand \cup leased \cup children
  /\ \A k \in Slots : owner[k] # a
  /\ demand' = demand \cup {a}
  /\ slot' = [slot EXCEPT ![a] = 1]
  /\ Goto(a, "counting")
  /\ UNCHANGED <<lock, owner, poolVars, monitorVars>>

\* capacity_expander: more live demands than slots take the pool's lifecycle
\* lock to expand it, which waits for a stop; a v3 pool is never expanded.
CountDemands(a) ==
  /\ pc[a] = "counting"
  /\ a \in Expanders /\ Cardinality(LiveDemands) > Capacity => mpc # "stopping"
  /\ Goto(a, "probing")
  /\ UNCHANGED <<lock, recordVars, slot, poolVars, monitorVars>>

\* The expander raises: the shelf does not validate, or the wait times out.
ExpanderFails(a) ==
  /\ pc[a] = "counting" /\ a \in Expanders
  /\ Goto(a, "leaving")
  /\ UNCHANGED <<lock, recordVars, slot, poolVars, monitorVars>>

FirstFile(k) == IF k = 1 THEN 0 ELSE k

NextSlot(a) == slot' = [slot EXCEPT ![a] = (@ % Capacity) + 1]

\* Fault: slot 1 without the file of the previous release.
TrySlot_NumberedFileOnly(a) ==
  /\ pc[a] = "probing"
  /\ \/ /\ lock[slot[a]] = None /\ Take(slot[a], a)
        /\ Goto(a, "admitted") /\ UNCHANGED slot
     \/ /\ lock[slot[a]] # None /\ NextSlot(a)
        /\ UNCHANGED <<lock, pc>>
  /\ UNCHANGED <<recordVars, poolVars, monitorVars>>

\* One non-blocking flock on the first file of the probed slot.
TrySlot(a) ==
  /\ pc[a] = "probing"
  /\ \/ /\ lock[FirstFile(slot[a])] = None
        /\ Take(FirstFile(slot[a]), a)
        /\ Goto(a, IF slot[a] = 1 THEN "half" ELSE "admitted")
        /\ UNCHANGED slot
     \/ /\ lock[FirstFile(slot[a])] # None
        /\ NextSlot(a)
        /\ UNCHANGED <<lock, pc>>
  /\ UNCHANGED <<recordVars, poolVars, monitorVars>>

\* Slot 1 needs admission-1.lock too; without it admission.lock is returned.
TrySecondFile(a) ==
  /\ pc[a] = "half"
  /\ \/ /\ lock[1] = None
        /\ Take(1, a)
        /\ Goto(a, "admitted")
        /\ UNCHANGED slot
     \/ /\ lock[1] # None
        /\ Drop(0)
        /\ NextSlot(a)
        /\ Goto(a, "probing")
  /\ UNCHANGED <<recordVars, poolVars, monitorVars>>

WriteOwner(a) ==
  /\ pc[a] = "admitted"
  /\ owner' = [owner EXCEPT ![slot[a]] = a]
  /\ Goto(a, "owner")
  /\ UNCHANGED <<lock, demand, slot, poolVars, monitorVars>>

\* The restore needs the lifecycle lock a stop holds.
Restore(a) ==
  /\ pc[a] = "owner" /\ mpc # "stopping"
  /\ live' = TRUE
  /\ Goto(a, "restored")
  /\ UNCHANGED <<lock, recordVars, slot, leased, children, monitorVars>>

\* The broker or the loaded basis crashes.
RuntimeDies ==
  /\ live /\ live' = FALSE
  /\ UNCHANGED <<lock, recordVars, pc, slot, leased, children, monitorVars>>

\* Checking out a seat reclaims the leases of processes that are gone.
Lease(a) ==
  /\ pc[a] = "restored" /\ live
  /\ leased' = (leased \cap Running) \cup {a}
  /\ children' = children \cup {a}
  /\ Goto(a, "leased")
  /\ UNCHANGED <<lock, recordVars, slot, live, monitorVars>>

LeaseRefused(a) ==
  /\ pc[a] = "restored" /\ ~live
  /\ Goto(a, "closing")
  /\ UNCHANGED <<lock, recordVars, slot, poolVars, monitorVars>>

\* The evaluation ended or was interrupted, and its child is gone.
Release(a) ==
  /\ pc[a] = "leased"
  /\ leased' = leased \ {a}
  /\ children' = children \ {a}
  /\ Goto(a, "closing")
  /\ UNCHANGED <<lock, recordVars, slot, live, monitorVars>>

\* A refused restore or checkout, or an interrupt before the lease.
GiveUp(a) ==
  /\ pc[a] \in {"admitted", "owner", "restored"}
  /\ Goto(a, "closing")
  /\ UNCHANGED <<lock, recordVars, slot, poolVars, monitorVars>>

\* Interrupted in the queue; closing the files drops a half-acquired group.
Dequeue(a) ==
  /\ pc[a] \in {"counting", "probing", "half"}
  /\ Goto(a, "dropping")
  /\ UNCHANGED <<lock, recordVars, slot, poolVars, monitorVars>>

\* Fault: the slot is given back before its record is cleared.
ClearOwner_AfterUnlock(a) ==
  /\ pc[a] = "closing"
  /\ \/ (\E f \in Highest(a) : Drop(f)) /\ UNCHANGED <<owner, pc>>
     \/ /\ Held(a) = {} /\ Goto(a, "leaving")
        /\ owner' = [k \in Slots |-> IF owner[k] = a THEN None ELSE owner[k]]
        /\ UNCHANGED lock
  /\ UNCHANGED <<demand, slot, poolVars, monitorVars>>

\* The context manager unwinds: owner record, then locks, then demand.
ClearOwner(a) ==
  /\ pc[a] = "closing"
  /\ owner' = [k \in Slots |-> IF owner[k] = a THEN None ELSE owner[k]]
  /\ Goto(a, "unlocking")
  /\ UNCHANGED <<lock, demand, slot, poolVars, monitorVars>>

\* A second Ctrl-C while the record is being cleared: closing the files still
\* drops the locks, but the record stays.
InterruptClosing(a) ==
  /\ pc[a] = "closing"
  /\ Goto(a, "dropping")
  /\ UNCHANGED <<lock, recordVars, slot, poolVars, monitorVars>>

Unlock(a) ==
  /\ pc[a] = "unlocking"
  /\ \E f \in Highest(a) : Drop(f)
  /\ Goto(a, IF Cardinality(Held(a)) = 1 THEN "leaving" ELSE "unlocking")
  /\ UNCHANGED <<recordVars, slot, poolVars, monitorVars>>

CloseFile(a) ==
  /\ pc[a] \in {"dropping", "killed"}
  /\ \/ /\ \E f \in Lowest(a) : Drop(f)
        /\ UNCHANGED pc
     \/ /\ Held(a) = {}
        /\ Goto(a, IF pc[a] = "killed" THEN "gone" ELSE "leaving")
        /\ UNCHANGED lock
  /\ UNCHANGED <<recordVars, slot, poolVars, monitorVars>>

\* The route renews the activity, schedules a monitor when none is live, and
\* exits.
Leave(a) ==
  /\ pc[a] = "leaving"
  /\ idle' = FALSE
  /\ demand' = demand \ {a}
  /\ mpc' = IF mpc = "off" THEN "watching" ELSE mpc
  /\ Goto(a, "gone")
  /\ UNCHANGED <<lock, owner, slot, poolVars, held>>

\* Killed outright: the kernel closes its files, the records and the lease
\* stay, and a running child runs on.
Kill(a) ==
  /\ a \in Killable /\ pc[a] \notin {"gone", "killed"}
  /\ Goto(a, "killed")
  /\ UNCHANGED <<lock, recordVars, slot, poolVars, monitorVars>>

ChildEnds(u) ==
  /\ u \in children /\ pc[u] \in {"gone", "killed"}
  /\ children' = children \ {u}
  /\ UNCHANGED <<lock, recordVars, pc, slot, live, leased, monitorVars>>

-----------------------------------------------------------------------------
(* Clients of the previous release, and the monitor.                       *)

OldEnters(u) ==
  /\ pc[u] = "gone" /\ lock[0] = None
  /\ Take(0, u)
  /\ Goto(u, "admitted")
  /\ UNCHANGED <<recordVars, slot, poolVars, monitorVars>>

OldWorks(u) ==
  /\ pc[u] = "admitted" /\ mpc # "stopping"
  /\ live' = TRUE
  /\ leased' = (leased \cap Running) \cup {u}
  /\ children' = children \cup {u}
  /\ Goto(u, "leased")
  /\ UNCHANGED <<lock, recordVars, slot, monitorVars>>

OldLeaves(u) ==
  /\ pc[u] = "leased"
  /\ leased' = leased \ {u}
  /\ children' = children \ {u}
  /\ Drop(0)
  /\ Goto(u, "gone")
  /\ UNCHANGED <<recordVars, slot, live, monitorVars>>

\* Fault: records of processes that are gone count.
Quiescent_AnyOwner ==
  /\ LiveDemands = {} /\ leased = {} /\ children = {}
  /\ \A k \in Slots : owner[k] = None

\* _quiescence_problem: no live demand or owner, no lease at all, no child.
Quiescent ==
  LiveDemands = {} /\ LiveOwners = {} /\ leased = {} /\ children = {}

\* The unlocked look that decides whether to try.
Look ==
  /\ mpc = "watching" /\ idle /\ Quiescent
  /\ mpc' = "locking" /\ held' = 0
  /\ UNCHANGED <<lock, recordVars, pc, slot, poolVars, idle>>

\* admission.lock, then every numbered slot in order, without waiting.
LockNext ==
  /\ mpc = "locking" /\ held <= Capacity /\ lock[held] = None
  /\ Take(held, Monitor)
  /\ held' = held + 1
  /\ mpc' = IF held = Capacity THEN "exclusive" ELSE "locking"
  /\ UNCHANGED <<recordVars, pc, slot, poolVars, idle>>

\* Give the files back and sleep, or give them back and exit.
Unwind(st) == mpc' = st /\ UNCHANGED <<lock, recordVars, pc, slot, held, idle>>

LockBusy ==
  /\ mpc = "locking" /\ lock[held] # None
  /\ Unwind("reopening") /\ UNCHANGED poolVars

\* Fault: the unlocked look is trusted.
Recheck_Skipped ==
  /\ mpc = "exclusive" /\ idle
  /\ mpc' = "decided"
  /\ UNCHANGED <<lock, recordVars, pc, slot, poolVars, held, idle>>

\* The look that counts, with every slot closed.
Recheck ==
  /\ mpc = "exclusive" /\ idle /\ Quiescent
  /\ mpc' = "decided"
  /\ UNCHANGED <<lock, recordVars, pc, slot, poolVars, held, idle>>

\* Fault: the monitor goes to sleep inside the context manager.
RecheckFails_KeepsLocks ==
  /\ mpc = "exclusive" /\ ~(idle /\ Quiescent)
  /\ mpc' = "watching"
  /\ UNCHANGED <<lock, recordVars, pc, slot, poolVars, held, idle>>

RecheckFails ==
  /\ mpc = "exclusive" /\ ~(idle /\ Quiescent)
  /\ Unwind("reopening") /\ UNCHANGED poolVars

BeginStop ==
  /\ mpc = "decided" /\ live
  /\ mpc' = "stopping"
  /\ UNCHANGED <<lock, recordVars, pc, slot, poolVars, held, idle>>

NothingToStop ==
  /\ mpc = "decided" /\ ~live
  /\ Unwind("retiring") /\ UNCHANGED poolVars

\* The stop verifies the runtime gone, or reports "retire-failed".
EndStop ==
  /\ mpc = "stopping" /\ live' \in BOOLEAN
  /\ Unwind("retiring") /\ UNCHANGED <<leased, children>>

\* The files are unlocked from the last one taken to admission.lock.
UnlockLast ==
  /\ mpc \in {"reopening", "retiring"}
  /\ \/ /\ held > 0 /\ Drop(held - 1)
        /\ held' = held - 1
        /\ UNCHANGED mpc
     \/ /\ held = 0
        /\ mpc' = IF mpc = "reopening" THEN "watching" ELSE "off"
        /\ UNCHANGED <<lock, held>>
  /\ UNCHANGED <<recordVars, pc, slot, poolVars, idle>>

MonitorKilled ==
  /\ mpc \notin {"off", "killed"}
  /\ mpc' = "killed" /\ held' = 0
  /\ UNCHANGED <<lock, recordVars, pc, slot, poolVars, idle>>

\* idle_seconds pass without a route that leaves.
IdleEnds ==
  /\ ~idle /\ idle' = TRUE
  /\ UNCHANGED <<lock, recordVars, pc, slot, poolVars, mpc, held>>

\* A killed monitor exists until the kernel has closed its files.
MonitorCloses ==
  /\ mpc = "killed"
  /\ \/ /\ \E f \in Lowest(Monitor) : Drop(f)
        /\ UNCHANGED mpc
     \/ /\ Held(Monitor) = {}
        /\ mpc' = "off"
        /\ UNCHANGED lock
  /\ UNCHANGED <<recordVars, pc, slot, poolVars, held, idle>>

-----------------------------------------------------------------------------

AttemptStep(a) ==
  \/ CountDemands(a) \/ TrySlot(a) \/ TrySecondFile(a)
  \/ WriteOwner(a) \/ Restore(a) \/ Lease(a) \/ LeaseRefused(a) \/ Release(a)
  \/ ClearOwner(a) \/ Unlock(a) \/ CloseFile(a) \/ Leave(a)

AttemptEvent(a) ==
  \/ ExpanderFails(a) \/ GiveUp(a) \/ Dequeue(a) \/ InterruptClosing(a)
  \/ Kill(a)

OldStep(u) == OldWorks(u) \/ OldLeaves(u)

MonitorStep ==
  \/ Look \/ LockNext \/ LockBusy \/ Recheck \/ RecheckFails
  \/ BeginStop \/ NothingToStop \/ EndStop \/ UnlockLast \/ MonitorCloses

Next ==
  \/ \E a \in Attempts : Begin(a) \/ AttemptStep(a) \/ AttemptEvent(a)
  \/ \E u \in OldClients : OldEnters(u) \/ OldStep(u)
  \/ \E u \in Users : ChildEnds(u)
  \/ MonitorStep \/ MonitorKilled \/ IdleEnds \/ RuntimeDies

Spec == Init /\ [][Next]_vars

\* Every process that runs keeps running; none is obliged to start.
FairSpec ==
  /\ Spec
  /\ \A a \in Attempts : WF_vars(AttemptStep(a))
  /\ \A u \in OldClients : WF_vars(OldStep(u))
  /\ \A u \in Users : WF_vars(ChildEnds(u))
  /\ WF_vars(MonitorStep) /\ WF_vars(IdleEnds)

-----------------------------------------------------------------------------
(* Properties.                                                             *)

InSlot(u, k) ==
  \/ u \in Attempts /\ pc[u] \in Admitted /\ slot[u] = k
  \/ u \in OldClients /\ pc[u] # "gone" /\ k = 1

\* "Old admission.lock clients and canonical admission-1.lock clients consume
\* the same logical slot" (criu_shelf_admission.py): a slot has one user, of
\* either release, and none while the monitor has closed the shelf.
SlotExclusion ==
  \A k \in Slots, u \in Users :
    InSlot(u, k) =>
      /\ \A v \in Users \ {u} : ~InSlot(v, k)
      /\ mpc \notin {"exclusive", "decided", "stopping"}

\* The monitor stops a runtime "with no owners, demands, or children"
\* (retire_reason in orbstack_idle_retirement.py): from its decision to the
\* end of the stop nobody is admitted, no seat is leased, also by a killed
\* attempt, and no proof child runs, also one whose lease was reclaimed.
RetirementQuiescent ==
  mpc \in {"decided", "stopping"} =>
    /\ leased = {} /\ children = {}
    /\ \A u \in Users, k \in Slots : ~InSlot(u, k)

\* What `status` lists and `cancel` signals (read_shelf_owners): the live
\* record of a slot names the attempt that holds the slot, and an attempt that
\* may evaluate is named by its slot's record, whatever killed or interrupted
\* attempts left behind.
OwnerRecordsTrue ==
  \A a \in Attempts :
    /\ pc[a] \in {"owner", "restored", "leased"} => owner[slot[a]] = a
    /\ \A k \in Slots :
         owner[k] = a /\ pc[a] \notin {"gone", "killed", "dropping", "leaving"}
           => lock[k] = a

\* Polling without a queue order still serves the shelf: while an attempt
\* waits, somebody is admitted, also when slot 1 is taken in two steps and the
\* monitor takes and returns all the files (criu_shelf_admission).
ShelfServes ==
  \A a \in Attempts :
    []<>(\/ pc[a] \notin {"counting", "probing", "half"}
         \/ \E u \in Users, k \in Slots : InSlot(u, k))

\* A runtime nobody uses any more is retired: the monitor a route schedules on
\* its way out gets past its two looks once demands, leases and children are
\* gone (monitor_profile).  The lease of a killed attempt keeps it waiting.
IdleRuntimeRetired ==
  live /\ mpc = "watching" /\ Running = {} /\ leased = {}
    ~> ~live \/ Running # {} \/ mpc = "off"
=============================================================================
