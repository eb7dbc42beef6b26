---------------------------- MODULE ShelfCancel -----------------------------
(***************************************************************************)
(* `cancel` beside the attempts of a shelf.  The command lists the owner   *)
(* and demand records of live processes, sends the one process it finds a  *)
(* SIGINT, and waits for the record to go.  A client that is interrupted   *)
(* unwinds its nested `finally` clauses, and another SIGINT in one of them *)
(* skips what is left of that clause.                                      *)
(*                                                                         *)
(* A process of a project-basis replay runs two attempts, the preparation  *)
(* and then the leaf; the SIGINT is for whichever runs when it comes.      *)
(* Locks, queue and monitor are in ShelfAdmission; here a slot is free or  *)
(* held.                                                                   *)
(***************************************************************************)
EXTENDS Naturals, FiniteSets

CONSTANTS
  Procs,         \* processes that run attempts
  Replays,       \* those that run a preparation and then a leaf
  KillableProcs, \* those that may be killed
  Capacity,      \* slots of the shelf
  MaxCtrlC,      \* bound on the SIGINTs that do not come from the command
  NoOne          \* no process has the slot; no attempt is named

Slots == 1..Capacity
LastTurn(p) == IF p \in Replays THEN 2 ELSE 1
Attempts == {a \in Procs \X {1, 2} : a[2] <= LastTurn(a[1])}

ASSUME CancelAssumption ==
  /\ Capacity \in Nat \ {0} /\ MaxCtrlC \in Nat
  /\ Replays \subseteq Procs /\ KillableProcs \subseteq Procs
  /\ NoOne \notin Procs \cup Attempts

VARIABLES
  clientPc, \* control point of each process
  turn,     \* which of its attempts it runs, or ran last
  held,     \* of each slot: the process that has the lock
  named,    \* of each slot: the attempt its owner record names
  demand,   \* attempts with a demand record
  lease,    \* attempts whose seat is busy with their lease
  sig,      \* processes with a SIGINT pending
  quits,    \* processes whose attempt was refused or interrupted: no leaf follows
  ctrlC,    \* SIGINTs that came from elsewhere
  cpc,      \* control point of the command
  wanted,   \* attempts that match what the command was given
  owners,   \* the live owners it listed
  target,   \* whom it cancels
  told,     \* its result
  through   \* history: wanted attempts that have run since the command began

clientVars == <<clientPc, turn, held, named, demand, lease>>
commandVars == <<cpc, wanted, owners, target, told>>
cancelVars == <<clientVars, sig, quits, ctrlC, commandVars, through>>

CancelTypeOK ==
  /\ clientPc \in [Procs -> {"idle", "sizing", "queued", "admitted", "restoring",
                             "checked", "evaluating", "cancelling", "release", "clear",
                             "unlock", "close", "gone"}]
  /\ turn \in [Procs -> {1, 2}] /\ held \in [Slots -> Procs \cup {NoOne}]
  /\ named \in [Slots -> Attempts \cup {NoOne}]
  /\ {demand, lease, wanted, owners, through} \subseteq SUBSET Attempts
  /\ sig \subseteq Procs /\ quits \subseteq Procs /\ ctrlC \in 0..MaxCtrlC
  /\ cpc \in {"off", "owners", "demands", "active", "queued", "await", "awaitDemand", "over"}
  /\ target \in Attempts \cup {NoOne}
  /\ told \in {"nothing", "no match", "several", "not running", "interrupted", "dequeued",
               "cleanup timeout"}

CancelInit ==
  /\ clientPc = [p \in Procs |-> "idle"] /\ turn = [p \in Procs |-> 1]
  /\ held = [s \in Slots |-> NoOne] /\ named = [s \in Slots |-> NoOne]
  /\ demand = {} /\ lease = {} /\ sig = {} /\ quits = {}
  /\ ctrlC = 0
  /\ cpc = "off" /\ wanted = {} /\ owners = {} /\ target = NoOne
  /\ told = "nothing" /\ through = {}

Current(p) == <<p, turn[p]>>
ProcAlive(p) == clientPc[p] # "gone"

\* From its demand record to the end of its admission.
UnderWay(a) == a = Current(a[1]) /\ clientPc[a[1]] \notin {"idle", "gone"}

\* Records count while their process has the birth identity they name.
LiveOwners == {a \in {named[s] : s \in Slots} \ {NoOne} : ProcAlive(a[1])}
LiveDemands == {a \in demand : ProcAlive(a[1])}

Goes(p, next) == clientPc' = [clientPc EXCEPT ![p] = next]

-----------------------------------------------------------------------------
(* The client: run inside criu_shelf_admission.                            *)

WriteDemand(p) ==
  /\ clientPc[p] = "idle" /\ Goes(p, "sizing") /\ demand' = demand \cup {Current(p)}
  /\ UNCHANGED <<turn, held, named, lease, sig, quits>>

Sized(p) ==
  /\ clientPc[p] = "sizing" /\ (Goes(p, "queued") \/ Goes(p, "close"))
  /\ UNCHANGED <<turn, held, named, demand, lease, sig, quits>>

TakeSlot(p) ==
  /\ clientPc[p] = "queued" /\ Goes(p, "admitted")
  /\ \E s \in Slots : held[s] = NoOne /\ held' = [held EXCEPT ![s] = p]
  /\ UNCHANGED <<turn, named, demand, lease, sig, quits>>

OwnerWritten(p) == named' = [s \in Slots |-> IF held[s] = p THEN Current(p) ELSE named[s]]

\* Fault: the demand ends where the ownership begins.
WriteOwner_EndsDemand(p) ==
  /\ clientPc[p] = "admitted" /\ Goes(p, "restoring") /\ OwnerWritten(p)
  /\ demand' = demand \ {Current(p)}
  /\ UNCHANGED <<turn, held, lease, sig, quits>>

WriteOwner(p) ==
  /\ clientPc[p] = "admitted" /\ Goes(p, "restoring") /\ OwnerWritten(p)
  /\ UNCHANGED <<turn, held, demand, lease, sig, quits>>

\* restore and checkout, or one of them fails.
Checkout(p) ==
  /\ clientPc[p] = "restoring"
  /\ \/ Goes(p, "checked") /\ lease' = lease \cup {Current(p)} /\ UNCHANGED quits
     \/ Goes(p, "clear") /\ quits' = quits \cup {p} /\ UNCHANGED lease
  /\ UNCHANGED <<turn, held, named, demand, sig>>

\* What the profile satisfies has changed: the seat goes back unused; other failures
\* keep it leased.
RefusesProfile(p) ==
  /\ clientPc[p] = "checked" /\ Goes(p, "clear")
  /\ lease' \in {lease, lease \ {Current(p)}} /\ quits' = quits \cup {p}
  /\ UNCHANGED <<turn, held, named, demand, sig>>

Dispatch(p) ==
  /\ clientPc[p] = "checked" /\ Goes(p, "evaluating")
  /\ UNCHANGED <<turn, held, named, demand, lease, sig, quits>>

\* An answer, or lost contact.
Answered(p) ==
  /\ clientPc[p] = "evaluating" /\ Goes(p, "release")
  /\ UNCHANGED <<turn, held, named, demand, lease, sig, quits>>

\* wait_for_fork_attempt_cleanup: quiescent, or its time is over.
AwaitCleanup(p) ==
  /\ clientPc[p] = "cancelling" /\ Goes(p, "release")
  /\ UNCHANGED <<turn, held, named, demand, lease, sig, quits>>

\* The seat goes back, unless the retirement of a project basis raises before.
GiveBack(p) ==
  /\ clientPc[p] = "release" /\ Goes(p, "clear")
  /\ \/ lease' = lease \ {Current(p)} /\ UNCHANGED quits
     \/ quits' = quits \cup {p} /\ UNCHANGED lease
  /\ UNCHANGED <<turn, held, named, demand, sig>>

ClearRecord(p) ==
  /\ clientPc[p] = "clear" /\ Goes(p, "unlock")
  /\ named' = [s \in Slots |-> IF named[s] = Current(p) THEN NoOne ELSE named[s]]
  /\ UNCHANGED <<turn, held, demand, lease, sig, quits>>

Unlocked(p) == held' = [s \in Slots |-> IF held[s] = p THEN NoOne ELSE held[s]]

Unlock(p) ==
  /\ clientPc[p] = "unlock" /\ Goes(p, "close") /\ Unlocked(p)
  /\ UNCHANGED <<turn, named, demand, lease, sig, quits>>

\* The files are closed and the demand goes; a preparation that passed is followed by
\* its leaf.
Close(p) ==
  /\ clientPc[p] = "close" /\ Unlocked(p) /\ demand' = demand \ {Current(p)}
  /\ \/ /\ turn[p] < LastTurn(p) /\ p \notin quits
        /\ Goes(p, "idle") /\ turn' = [turn EXCEPT ![p] = 2]
     \/ Goes(p, "gone") /\ UNCHANGED turn
  /\ UNCHANGED <<named, lease, sig, quits>>

\* Where an interrupted client goes on: the next finally clause outwards.
UnwindsTo(p) ==
  CASE clientPc[p] \in {"sizing", "queued", "admitted", "clear", "unlock"} -> "close"
    [] clientPc[p] \in {"restoring", "checked", "cancelling", "release"} -> "clear"
    [] clientPc[p] = "evaluating" -> "cancelling"
    [] OTHER -> "gone"

Unwind(p) ==
  /\ p \in sig /\ sig' = sig \ {p} /\ quits' = quits \cup {p}
  /\ ProcAlive(p) /\ Goes(p, UnwindsTo(p))
  /\ IF UnwindsTo(p) = "gone" THEN Unlocked(p) ELSE UNCHANGED held
  /\ UNCHANGED <<turn, named, demand, lease>>

ProcKilled(p) ==
  /\ p \in KillableProcs /\ ProcAlive(p)
  /\ Goes(p, "gone") /\ Unlocked(p) /\ sig' = sig \ {p}
  /\ UNCHANGED <<turn, named, demand, lease, quits>>

\* A Ctrl-C of the user, or another cancel.
CtrlC(p) ==
  /\ ctrlC < MaxCtrlC /\ ctrlC' = ctrlC + 1 /\ ProcAlive(p) /\ sig' = sig \cup {p}
  /\ UNCHANGED <<clientVars, quits>>

-----------------------------------------------------------------------------
(* The command: list_attempts, then cancel_shelf_owner or _cancel_queued.  *)

\* By attempt id, or by source, which two attempts may share.
BeginCancel ==
  /\ cpc = "off" /\ cpc' = "owners"
  /\ \E a, b \in Attempts : wanted' = {a, b}
  /\ UNCHANGED <<sig, owners, target, told>>

ListOwners ==
  /\ cpc = "owners" /\ cpc' = "demands" /\ owners' = LiveOwners
  /\ UNCHANGED <<sig, wanted, target, told>>

Matches ==
  {r \in (owners \X {"active"}) \cup ((LiveDemands \ owners) \X {"queued"}) : r[1] \in wanted}

Told(answer) == cpc' = "over" /\ told' = answer

ListDemands ==
  /\ cpc = "demands" /\ owners' = {} /\ wanted' = {}
  /\ \/ Matches = {} /\ Told("no match") /\ UNCHANGED target
     \/ Cardinality(Matches) > 1 /\ Told("several") /\ UNCHANGED target
     \/ \E r \in Matches : Matches = {r} /\ target' = r[1] /\ cpc' = r[2] /\ UNCHANGED told
  /\ UNCHANGED sig

\* The identity is checked and the signal sent in one go.
Signal(waits) == sig' = sig \cup {target[1]} /\ cpc' = waits /\ UNCHANGED told

CancelActive ==
  /\ cpc = "active"
  /\ \/ target \in LiveOwners /\ Signal("await")
     \/ target \notin LiveOwners /\ Told("not running") /\ UNCHANGED sig
  /\ UNCHANGED <<wanted, owners, target>>

CancelQueued ==
  /\ cpc = "queued"
  /\ \/ ProcAlive(target[1]) /\ Signal("awaitDemand")
     \/ ~ProcAlive(target[1]) /\ Told("not running") /\ UNCHANGED sig
  /\ UNCHANGED <<wanted, owners, target>>

SeesEnd ==
  /\ \/ cpc = "await" /\ target \notin LiveOwners /\ Told("interrupted")
     \/ cpc = "awaitDemand" /\ target \notin LiveDemands /\ Told("dequeued")
  /\ UNCHANGED <<sig, wanted, owners, target>>

CancelExpires ==
  /\ cpc \in {"await", "awaitDemand"} /\ Told("cleanup timeout")
  /\ UNCHANGED <<sig, wanted, owners, target>>

-----------------------------------------------------------------------------

Client(p) ==
  \/ WriteDemand(p) \/ Sized(p) \/ TakeSlot(p) \/ WriteOwner(p) \/ Checkout(p)
  \/ RefusesProfile(p) \/ Dispatch(p) \/ Answered(p) \/ AwaitCleanup(p) \/ GiveBack(p)
  \/ ClearRecord(p) \/ Unlock(p) \/ Close(p) \/ Unwind(p) \/ ProcKilled(p)

Command ==
  BeginCancel \/ ListOwners \/ ListDemands \/ CancelActive \/ CancelQueued \/ SeesEnd
    \/ CancelExpires

CancelNext ==
  /\ \/ (\E p \in Procs : Client(p)) /\ UNCHANGED <<ctrlC, commandVars>>
     \/ (\E p \in Procs : CtrlC(p)) /\ UNCHANGED commandVars
     \/ Command /\ UNCHANGED <<clientVars, quits, ctrlC>>
  /\ through' = {a \in IF cpc = "off" THEN wanted' ELSE through :
                   /\ UnderWay(a) /\ UnderWay(a)'
                   /\ cpc' \in {"owners", "demands"} \/ told' = "no match"}

CancelSpec == CancelInit /\ [][CancelNext]_cancelVars

-----------------------------------------------------------------------------
(* Properties.                                                             *)

\* Between its checkout and its release, the steps that read or write the seat.
HasSeat(a) ==
  /\ a = Current(a[1])
  /\ clientPc[a[1]] \in {"restoring", "checked", "evaluating", "cancelling", "release"}

\* A seat that is busy comes back when its client releases it, or when a checkout
\* finds the owner of its lease gone.
ComesBack(a) == a \in lease => a[1] \in quits \/ ~ProcAlive(a[1])

\* What `cancel` tells is so (list_attempts, cancel_shelf_owner, _cancel_queued).  "no match" is never said of an attempt that ran all the
\* while the records were listed, also when it was admitted in between.  An attempt
\* reported interrupted, or gone before it was signalled, does nothing to its seat any
\* more, and the seat is free or its client on the way out.  One reported dequeued
\* neither waits nor has a slot.
CancelTold ==
  /\ told = "no match" => through = {}
  /\ told \in {"interrupted", "not running"} => ~HasSeat(target) /\ ComesBack(target)
  /\ told = "dequeued" => ~UnderWay(target) /\ ComesBack(target)
=============================================================================
