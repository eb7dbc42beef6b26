------------------------------ MODULE WarmPool ------------------------------
(***************************************************************************)
(* The seat table of one restored warm pool (pool.json), the `prove`       *)
(* clients that lease its seats and the `stop-profile` operators that stop *)
(* it, running concurrently against two file locks:                        *)
(*                                                                         *)
(*   lifecycle.lock  held through a whole stop or restore;                 *)
(*   pool.lock       held for one read-modify-write of pool.json, and by a *)
(*                   restore for its whole transaction.                    *)
(*                                                                         *)
(* A client leases at most one seat in its life, so the lease (its random  *)
(* lease_id and its owner_pid) is represented by the client itself.  The   *)
(* pool has engine "fork_basis": one broker and one loaded basis (`live`)  *)
(* fork a child per evaluation.  The broker is described here only by what *)
(* it answers; module ForkBroker models it.                                *)
(***************************************************************************)
EXTENDS Naturals, FiniteSets

CONSTANTS
  SeatCount,     \* number of seat rows in pool.json
  Hot,           \* clients of hot_profile_session (release by lease id)
  Vanilla,       \* clients of orbstack_criu_vanilla (release by seat path)
  Operators,     \* processes running stop-profile
  MissingBasis,  \* seats whose loaded preloads lack a required one
  AttemptLimit,  \* reviewed broker attempt limit, 0 when there is none
  Mechanical,    \* TRUE for the mechanical broker v3 execution topology
  ControlOf,     \* control session (socket) behind each seat
  RuntimeMayDie, \* TRUE when the broker or the basis may crash
  Killable,      \* clients that may be killed outright
  None           \* no process

Seats == 1..SeatCount
Clients == Hot \cup Vanilla
Procs == Clients \cup Operators

ASSUME SeatsAssumption == SeatCount \in Nat \ {0}
ASSUME ClientsAssumption ==
  /\ Hot \cap Vanilla = {}
  /\ Clients \cap Operators = {}
  /\ None \notin Procs
ASSUME TopologyAssumption ==
  /\ MissingBasis \subseteq Seats
  /\ AttemptLimit \in Nat
  /\ Mechanical \in BOOLEAN
  /\ RuntimeMayDie \in BOOLEAN
  /\ DOMAIN ControlOf = Seats
  /\ Killable \subseteq Clients

VARIABLES
  pool,        \* pool.json: status, seat statuses, leases, stop receipt
  live,        \* broker and basis run under the identities pool.json records
  child,       \* per client: its proof child, "stale" in a later generation
  quarantined, \* history: the current generation was quarantined
  pc,          \* control point of each client
  mine,        \* the seat a client checked out
  clean,       \* a client's verdict: its child is verified gone
  fresh,       \* history: the client's lease is of the current generation
  pidAlive,    \* the pid recorded as owner_pid names a running process
  lifecycleLock, poolLock, \* holders of lifecycle.lock and pool.lock
  opc          \* control point of each operator

tableVars == <<pool, quarantined>>
runtimeVars == <<live, child>>
clientVars == <<pc, mine, clean, fresh, pidAlive>>
lockVars == <<lifecycleLock, poolLock>>
vars == <<tableVars, runtimeVars, clientVars, lockVars, opc>>

PoolStatus == {"ready", "stopping", "stopped", "stop_failed", "restoring",
               "restore_failed", "poisoned"}
SeatStatus == {"idle", "busy", "dead", "basis_missing", "poisoned", "stopping",
               "stopped", "stop_failed", "restoring", "restore_failed"}
ClientPc == {"gone", "start", "locking", "preflight", "launch", "checkout",
             "leased", "running", "finish"}
OperatorPc == {"idle", "marking", "stopping", "verified", "unverified"}

PoolRecord == [status : PoolStatus,
               seat : [Seats -> SeatStatus],
               lease : [Seats -> Clients \cup {None}],
               receipt : BOOLEAN]

ControlTypes ==
  /\ live \in BOOLEAN
  /\ child \in [Clients -> {"none", "current", "stale"}]
  /\ quarantined \in BOOLEAN
  /\ pc \in [Clients -> ClientPc]
  /\ mine \in [Clients -> Seats \cup {0}]
  /\ clean \in [Clients -> BOOLEAN]
  /\ fresh \in [Clients -> BOOLEAN]
  /\ pidAlive \in [Clients -> BOOLEAN]
  /\ lifecycleLock \in Procs \cup {None}
  /\ poolLock \in Clients \cup {None}
  /\ opc \in [Operators -> OperatorPc]

TypeOK == pool \in PoolRecord /\ ControlTypes

-----------------------------------------------------------------------------
(* Pool rows.  Every helper maps one value of pool.json to the next.       *)

\* Rows in S get status st and lose their lease.
Mark(p, S, st) ==
  [status  |-> p.status,
   seat    |-> [s \in Seats |-> IF s \in S THEN st ELSE p.seat[s]],
   lease   |-> [s \in Seats |-> IF s \in S THEN None ELSE p.lease[s]],
   receipt |-> p.receipt]

\* The pool gets status st, every row becomes row, and no row keeps a lease.
MarkPool(st, row, receipt) ==
  [status  |-> st,
   seat    |-> [s \in Seats |-> row],
   lease   |-> [s \in Seats |-> None],
   receipt |-> receipt]

\* Fault: reclaims every lease, whether its owner lives or not.
StaleLeases_AnyOwner(p) ==
  {s \in Seats : p.seat[s] = "busy" /\ p.lease[s] # None}

StaleLeases(p) ==
  {s \in Seats : /\ p.seat[s] = "busy"
                 /\ p.lease[s] # None
                 /\ ~pidAlive[p.lease[s]]}

\* Fault: checkout does not reclaim.
ReclaimStaleLeases_Skipped(p) == p

ReclaimStaleLeases(p) == Mark(p, StaleLeases(p), "idle")

AnnotateBasisState(p) ==
  Mark(p, {s \in MissingBasis : p.seat[s] = "idle"}, "basis_missing")

Occupied(p) == {s \in Seats : p.seat[s] = "busy" \/ p.lease[s] # None}

AtAttemptLimit(p) ==
  Mechanical /\ AttemptLimit # 0 /\ Cardinality(Occupied(p)) >= AttemptLimit

\* Fault: aliases of a control session are chosen independently.
Candidates_PerSeat(p) == {s \in Seats : p.seat[s] = "idle"}

\* Idle rows whose control session no occupied row shares.
Candidates(p) ==
  {s \in Seats : /\ p.seat[s] = "idle"
                 /\ Mechanical =>
                      \A t \in Occupied(p) : ControlOf[t] # ControlOf[s]}

Granted(p, s, c) ==
  [status  |-> p.status,
   seat    |-> [p.seat EXCEPT ![s] = "busy"],
   lease   |-> [p.lease EXCEPT ![s] = c],
   receipt |-> p.receipt]

\* Fault: the status "dirty" of an unclean release is stored.
Released_KeepsDirty(p, s) == Mark(p, {s}, "dirty")

\* Fault: the row is freed whatever happened to the pool meanwhile.
Released_AnyStatus(p, s) == Mark(p, {s}, "idle")

\* release_warm_pool_seat: a row is named by its path; a pool that is not
\* ready keeps its row, except that a poisoned generation poisons it.  A
\* "dirty" row of a fork basis becomes "idle", so the status is always "idle".
Released(p, s) ==
  IF p.status = "ready" THEN Mark(p, {s}, "idle")
  ELSE IF p.status = "poisoned" THEN Mark(p, {s}, "poisoned")
  ELSE p

\* quarantine_fork_basis_pool: busy sibling rows keep their lease.
Siblings(p, s) ==
  {t \in Seats \ {s} : p.seat[t] = "busy" /\ p.lease[t] # None}

\* Fault: only the client's own row is poisoned.
Quarantine_RowOnly(p, s) == Mark(p, {s}, "poisoned")

Quarantine(p, s) ==
  LET marked == Mark(p, Seats \ Siblings(p, s), "poisoned")
  IN  [status |-> "poisoned", seat |-> marked.seat, lease |-> marked.lease,
       receipt |-> p.receipt]

\* Fault: registered children do not stop the demotion.
Demotable_WithChildren(p) ==
  /\ p.status = "ready"
  /\ p.receipt
  /\ \A s \in Seats : p.seat[s] \in {"idle", "dead"} /\ p.lease[s] = None

\* demote_stale_ready_pool_for_restore accepts only a quiescent dead generation.
Demotable(p) ==
  /\ p.status = "ready"
  /\ p.receipt
  /\ \A s \in Seats : p.seat[s] \in {"idle", "dead"} /\ p.lease[s] = None
  /\ \A c \in Clients : child[c] = "none"

\* restore_preflight_failure: a stopped pool with retained stop receipts.
Activatable(p) ==
  /\ p.status = "stopped"
  /\ p.receipt
  /\ \A s \in Seats : p.seat[s] = "stopped"

-----------------------------------------------------------------------------
(* Clients: one `prove` process each.                                      *)

Holding(c) == pc[c] \in {"leased", "running", "finish"}

\* A row's stop receipt is the one of the published shelf until a stop fails.
Init ==
  /\ pool = [status |-> "stopped",
             seat |-> [s \in Seats |-> "stopped"],
             lease |-> [s \in Seats |-> None],
             receipt |-> TRUE]
  /\ live = FALSE
  /\ child = [c \in Clients |-> "none"]
  /\ quarantined = FALSE
  /\ pc = [c \in Clients |-> "gone"]
  /\ mine = [c \in Clients |-> 0]
  /\ clean = [c \in Clients |-> FALSE]
  /\ fresh = [c \in Clients |-> FALSE]
  /\ pidAlive = [c \in Clients |-> FALSE]
  /\ lifecycleLock = None
  /\ poolLock = None
  /\ opc = [o \in Operators |-> "idle"]

\* A new process has a new lease id, so no row and no child may name it.
Start(c) ==
  /\ pc[c] = "gone" /\ ~pidAlive[c] /\ child[c] = "none"
  /\ \A s \in Seats : pool.lease[s] # c
  /\ pc' = [pc EXCEPT ![c] = "start"]
  /\ pidAlive' = [pidAlive EXCEPT ![c] = TRUE]
  /\ UNCHANGED <<tableVars, runtimeVars, mine, clean, fresh, lockVars, opc>>

\* The process ends; the kernel drops its file locks.
Exit(c) ==
  /\ pc' = [pc EXCEPT ![c] = "gone"]
  /\ pidAlive' = [pidAlive EXCEPT ![c] = FALSE]
  /\ clean' = [clean EXCEPT ![c] = FALSE]
  /\ fresh' = [fresh EXCEPT ![c] = FALSE]
  /\ lifecycleLock' = IF lifecycleLock = c THEN None ELSE lifecycleLock
  /\ poolLock' = IF poolLock = c THEN None ELSE poolLock

\* restored_pool_lock: lifecycle lock first, then the pool lock.
TakeLifecycleLock(c) ==
  /\ pc[c] = "start" /\ lifecycleLock = None
  /\ lifecycleLock' = c
  /\ pc' = [pc EXCEPT ![c] = "locking"]
  /\ UNCHANGED <<tableVars, runtimeVars, mine, clean, fresh, pidAlive,
                 poolLock, opc>>

TakePoolLock(c) ==
  /\ pc[c] = "locking" /\ poolLock = None
  /\ poolLock' = c
  /\ pc' = [pc EXCEPT ![c] = "preflight"]
  /\ UNCHANGED <<tableVars, runtimeVars, mine, clean, fresh, pidAlive,
                 lifecycleLock, opc>>

RestoreReturns(c) ==
  /\ pc' = [pc EXCEPT ![c] = "checkout"]
  /\ lifecycleLock' = None
  /\ poolLock' = None

AlreadyLive(c) ==
  /\ pc[c] = "preflight" /\ pool.status = "ready" /\ live
  /\ RestoreReturns(c)
  /\ UNCHANGED <<tableVars, runtimeVars, mine, clean, fresh, pidAlive, opc>>

Demote(c) ==
  /\ pc[c] = "preflight" /\ ~live /\ Demotable(pool)
  /\ pool' = MarkPool("stopped", "stopped", pool.receipt)
  /\ UNCHANGED <<quarantined, runtimeVars, clientVars, lockVars, opc>>

\* The published shelf is unavailable: the client reports it and exits.
Unavailable(c) ==
  /\ pc[c] = "preflight"
  /\ ~(pool.status = "ready" /\ live)
  /\ ~(~live /\ (Demotable(pool) \/ Activatable(pool)))
  /\ Exit(c)
  /\ UNCHANGED <<tableVars, runtimeVars, mine, opc>>

BeginRestore(c) ==
  /\ pc[c] = "preflight" /\ ~live /\ Activatable(pool)
  /\ pool' = MarkPool("restoring", "restoring", pool.receipt)
  /\ pc' = [pc EXCEPT ![c] = "launch"]
  /\ UNCHANGED <<quarantined, runtimeVars, mine, clean, fresh, pidAlive,
                 lockVars, opc>>

\* CRIU restored, identities staged, processes resumed, readiness published.
PublishReady(c) ==
  /\ pc[c] = "launch"
  /\ pool' = MarkPool("ready", "idle", pool.receipt)
  /\ live' = TRUE
  /\ child' = [d \in Clients |-> IF child[d] = "none" THEN "none" ELSE "stale"]
  /\ quarantined' = FALSE
  /\ fresh' = [d \in Clients |-> FALSE]
  /\ RestoreReturns(c)
  /\ UNCHANGED <<mine, clean, pidAlive, opc>>

\* The transaction fails after launch; its cleanup may leave survivors.
RestoreFails(c) ==
  /\ pc[c] = "launch"
  /\ pool' = MarkPool("restore_failed", "restore_failed", pool.receipt)
  /\ live' \in BOOLEAN
  /\ Exit(c)
  /\ UNCHANGED <<quarantined, child, mine, opc>>

CheckoutTable == AnnotateBasisState(ReclaimStaleLeases(pool))

Checkout(c) ==
  /\ pc[c] = "checkout" /\ poolLock = None /\ pool.status = "ready"
  /\ ~AtAttemptLimit(CheckoutTable) /\ live
  /\ \E s \in Candidates(CheckoutTable) :
       /\ \A t \in Candidates(CheckoutTable) : s <= t
       /\ pool' = Granted(CheckoutTable, s, c)
       /\ mine' = [mine EXCEPT ![c] = s]
  /\ pc' = [pc EXCEPT ![c] = "leased"]
  /\ fresh' = [fresh EXCEPT ![c] = TRUE]
  /\ clean' = [clean EXCEPT ![c] = FALSE]
  /\ UNCHANGED <<quarantined, runtimeVars, pidAlive, lockVars, opc>>

\* A refused checkout persists what it found out about the rows.
CheckoutRefused(c) ==
  /\ pc[c] = "checkout" /\ poolLock = None
  /\ \/ pool.status # "ready" /\ pool' = pool
     \/ /\ pool.status = "ready"
        /\ \/ /\ AtAttemptLimit(CheckoutTable) \/ Candidates(CheckoutTable) = {}
              /\ pool' = CheckoutTable
           \/ /\ ~AtAttemptLimit(CheckoutTable) /\ ~live
              /\ Candidates(CheckoutTable) # {}
              /\ pool' = Mark(CheckoutTable, Candidates(CheckoutTable), "dead")
  /\ Exit(c)
  /\ UNCHANGED <<quarantined, runtimeVars, mine, opc>>

\* One broker child per control session in the mechanical topology.
ControlBusy(c) ==
  Mechanical /\ \E d \in Clients \ {c} :
    /\ child[d] = "current" /\ mine[d] # 0
    /\ ControlOf[mine[d]] = ControlOf[mine[c]]

Dispatch(c) ==
  /\ pc[c] = "leased" /\ live /\ ~ControlBusy(c)
  /\ child' = [child EXCEPT ![c] = "current"]
  /\ pc' = [pc EXCEPT ![c] = "running"]
  /\ UNCHANGED <<tableVars, live, mine, clean, fresh, pidAlive, lockVars, opc>>

Verdict(c, verified) ==
  /\ pc' = [pc EXCEPT ![c] = "finish"]
  /\ clean' = [clean EXCEPT ![c] = verified]
  /\ UNCHANGED <<tableVars, live, mine, fresh, pidAlive, lockVars, opc>>

\* No broker, or the control session already owns an active child.
DispatchRefused(c) ==
  /\ pc[c] = "leased" /\ (~live \/ ControlBusy(c))
  /\ Verdict(c, FALSE)
  /\ UNCHANGED child

\* Interrupted before the request was sent: only the hot client finalizes.
InterruptBeforeDispatch(c) ==
  /\ pc[c] = "leased" /\ c \in Hot
  /\ Verdict(c, TRUE)
  /\ UNCHANGED child

\* The broker answers ok, timeout or cancelled: the child is verified gone.
ChildFinishes(c) ==
  /\ pc[c] = "running" /\ live
  /\ child' = [child EXCEPT ![c] = "none"]
  /\ Verdict(c, TRUE)

\* cleanup_failed, a lost broker, or an interrupt whose wait for the child's
\* end timed out: the client knows nothing of its child.
ChildUnverified(c) ==
  /\ pc[c] = "running"
  /\ Verdict(c, FALSE)
  /\ UNCHANGED child

\* An interrupt whose wait saw the registered child leave.
InterruptVerified(c) ==
  /\ pc[c] = "running"
  /\ child' = [child EXCEPT ![c] = "none"]
  /\ Verdict(c, TRUE)

\* Vanilla _release: the row is found by its session path.
ReleaseByPath(c) ==
  /\ pc[c] = "finish" /\ poolLock = None /\ c \in Vanilla
  /\ pool' = Released(pool, mine[c])
  /\ Exit(c)
  /\ UNCHANGED <<quarantined, runtimeVars, mine, opc>>

\* Hot _finalize_lease: only while the exact lease still owns its row.
FinalizeLease(c) ==
  /\ pc[c] = "finish" /\ poolLock = None /\ c \in Hot
  /\ \/ /\ pool.lease[mine[c]] # c
        /\ UNCHANGED tableVars
     \/ /\ pool.lease[mine[c]] = c /\ clean[c]
        /\ pool' = Released(pool, mine[c])
        /\ UNCHANGED quarantined
     \/ /\ pool.lease[mine[c]] = c /\ ~clean[c]
        /\ pool' = Quarantine(pool, mine[c])
        /\ quarantined' = TRUE
  /\ Exit(c)
  /\ UNCHANGED <<runtimeVars, mine, opc>>

\* SIGKILL, an OOM kill, a lost terminal; also Ctrl-C of a vanilla client
\* between its checkout and its request.
Kill(c) ==
  /\ c \in Killable /\ pc[c] # "gone"
  /\ Exit(c)
  /\ UNCHANGED <<tableVars, runtimeVars, mine, opc>>

\* The pid of a gone lease owner names an unrelated process, for a while.
PidReused(c) ==
  /\ pc[c] = "gone" /\ ~pidAlive[c]
  /\ \E s \in Seats : pool.lease[s] = c
  /\ pidAlive' = [pidAlive EXCEPT ![c] = TRUE]
  /\ UNCHANGED <<tableVars, runtimeVars, pc, mine, clean, fresh, lockVars, opc>>

PidFreed(c) ==
  /\ pc[c] = "gone" /\ pidAlive[c]
  /\ pidAlive' = [pidAlive EXCEPT ![c] = FALSE]
  /\ UNCHANGED <<tableVars, runtimeVars, pc, mine, clean, fresh, lockVars, opc>>

-----------------------------------------------------------------------------
(* The runtime and the operators.                                          *)

\* A child nobody waits for ends: reaped by the broker or by itself.
ChildEnds(c) ==
  /\ child[c] # "none" /\ pc[c] # "running"
  /\ child' = [child EXCEPT ![c] = "none"]
  /\ UNCHANGED <<tableVars, live, clientVars, lockVars, opc>>

RuntimeDies ==
  /\ RuntimeMayDie /\ live
  /\ live' = FALSE
  /\ UNCHANGED <<tableVars, child, clientVars, lockVars, opc>>

StopTakesLock(o) ==
  /\ opc[o] = "idle" /\ lifecycleLock = None
  /\ lifecycleLock' = o
  /\ opc' = [opc EXCEPT ![o] = "marking"]
  /\ UNCHANGED <<tableVars, runtimeVars, clientVars, poolLock>>

\* The pool and its rows get status st; the rows keep their leases.
Relabel(st, receipt) ==
  [status  |-> st,
   seat    |-> [s \in Seats |-> st],
   lease   |-> pool.lease,
   receipt |-> receipt]

\* First critical section: every row is marked and keeps its lease.
StopMarks(o) ==
  /\ opc[o] = "marking" /\ poolLock = None
  /\ pool' = Relabel("stopping", pool.receipt)
  /\ opc' = [opc EXCEPT ![o] = "stopping"]
  /\ UNCHANGED <<quarantined, runtimeVars, clientVars, lockVars>>

\* run_warm_stop_command, outside the pool lock: everything is verified gone ...
StopVerified(o) ==
  /\ opc[o] = "stopping"
  /\ live' = FALSE
  /\ child' = [c \in Clients |-> "none"]
  /\ opc' = [opc EXCEPT ![o] = "verified"]
  /\ UNCHANGED <<tableVars, clientVars, lockVars>>

\* ... or some owned process survived, or the registry was unreadable.
StopUnverified(o) ==
  /\ opc[o] = "stopping"
  /\ live' \in {live, FALSE}
  /\ \E survivors \in SUBSET Clients :
       child' = [c \in Clients |-> IF c \in survivors THEN child[c] ELSE "none"]
  /\ opc' = [opc EXCEPT ![o] = "unverified"]
  /\ UNCHANGED <<tableVars, clientVars, lockVars>>

\* Second critical section: the table is read again and overwritten.
StopRecords(o) ==
  /\ opc[o] \in {"verified", "unverified"} /\ poolLock = None
  /\ pool' = IF opc[o] = "verified"
             THEN MarkPool("stopped", "stopped", TRUE)
             ELSE Relabel("stop_failed", FALSE)
  /\ lifecycleLock' = None
  /\ opc' = [opc EXCEPT ![o] = "idle"]
  /\ UNCHANGED <<quarantined, runtimeVars, clientVars, poolLock>>

OperatorKilled(o) ==
  /\ opc[o] # "idle"
  /\ lifecycleLock' = None
  /\ opc' = [opc EXCEPT ![o] = "idle"]
  /\ UNCHANGED <<tableVars, runtimeVars, clientVars, poolLock>>

-----------------------------------------------------------------------------

\* Fault: a restore takes the pool lock before the lifecycle lock.
RestoreStep_PoolLockFirst(c) ==
  \/ /\ pc[c] = "start" /\ poolLock = None
     /\ poolLock' = c /\ UNCHANGED lifecycleLock
     /\ pc' = [pc EXCEPT ![c] = "locking"]
     /\ UNCHANGED <<tableVars, runtimeVars, mine, clean, fresh, pidAlive, opc>>
  \/ /\ pc[c] = "locking" /\ lifecycleLock = None
     /\ lifecycleLock' = c /\ UNCHANGED poolLock
     /\ pc' = [pc EXCEPT ![c] = "preflight"]
     /\ UNCHANGED <<tableVars, runtimeVars, mine, clean, fresh, pidAlive, opc>>
  \/ AlreadyLive(c) \/ Demote(c) \/ Unavailable(c) \/ BeginRestore(c)
  \/ PublishReady(c) \/ RestoreFails(c)

RestoreStep(c) ==
  \/ TakeLifecycleLock(c) \/ TakePoolLock(c) \/ AlreadyLive(c) \/ Demote(c)
  \/ Unavailable(c) \/ BeginRestore(c) \/ PublishReady(c) \/ RestoreFails(c)

LeaseStep(c) ==
  \/ Checkout(c) \/ CheckoutRefused(c) \/ Dispatch(c) \/ DispatchRefused(c)
  \/ ChildFinishes(c) \/ ChildUnverified(c)
  \/ ReleaseByPath(c) \/ FinalizeLease(c)

ClientStep(c) == RestoreStep(c) \/ LeaseStep(c)

ClientEvent(c) ==
  \/ InterruptBeforeDispatch(c) \/ InterruptVerified(c) \/ Kill(c)
  \/ PidReused(c) \/ PidFreed(c) \/ ChildEnds(c)

StopStep(o) ==
  StopMarks(o) \/ StopVerified(o) \/ StopUnverified(o) \/ StopRecords(o)

Next ==
  \/ \E c \in Clients : Start(c) \/ ClientStep(c) \/ ClientEvent(c)
  \/ RuntimeDies
  \/ \E o \in Operators : StopTakesLock(o) \/ StopStep(o) \/ OperatorKilled(o)

Spec == Init /\ [][Next]_vars

\* Processes that run keep running; nobody is obliged to start one, except
\* that the users of a profile go on calling `prove`.
Fairness ==
  /\ \A c \in Clients : WF_vars(ClientStep(c)) /\ WF_vars(Start(c))
  /\ \A c \in Clients : WF_vars(ChildEnds(c))
  /\ \A o \in Operators : WF_vars(StopStep(o))

FairSpec == Spec /\ Fairness

-----------------------------------------------------------------------------
(* Properties.                                                             *)

\* pool.json is never half-way: a ready pool has exactly its busy rows leased
\* (leases.py), a poisoned one leases only the busy siblings its quarantine
\* kept, a stopped, restoring or failed one leases nothing (fork_pool_lifecycle,
\* criu_pool_restore), so no restore can drop a lease somebody still holds.
WellShaped(p) ==
  \A s \in Seats :
    /\ p.status = "ready" =>
         /\ p.seat[s] \in {"idle", "busy", "dead", "basis_missing"}
         /\ p.lease[s] # None <=> p.seat[s] = "busy"
    /\ p.status = "poisoned" =>
         /\ p.seat[s] \in {"busy", "poisoned"}
         /\ p.lease[s] # None => p.seat[s] = "busy"
    /\ p.status \notin {"ready", "poisoned"} => p.seat[s] = p.status
    /\ p.status \in {"stopped", "restoring", "restore_failed"} =>
         p.lease[s] = None

TableShape == WellShaped(pool)

\* No proof child of an earlier generation runs beside a restored one: a
\* restore starts only from a table whose stop was verified, or from a dead
\* generation without registered children (demote_stale_ready_pool_for_restore,
\* restore_preflight_failure), and its staging clears the child registry.
OneGeneration ==
  /\ \A c \in Clients : child[c] # "stale"
  /\ pool.status \in {"stopped", "restoring"} =>
       ~live /\ \A c \in Clients : child[c] = "none"

\* A generation quarantined by a client that could not verify its child is
\* never checkout-ready again, also when a concurrent stop overwrites the
\* "poisoned" status: only a restore makes the pool ready.
QuarantineSticks == quarantined => pool.status # "ready"

\* "A live or unknown owner keeps its seat" (docs/usage.md): a client still
\* working under a lease of the current generation finds it in the ready
\* table, whoever checked out, reclaimed, released or quarantined meanwhile.
OwnerKeepsSeat ==
  \A c \in Clients :
    Holding(c) /\ fresh[c] /\ pool.status = "ready" => pool.lease[mine[c]] = c

\* Clients working under leases of the current generation never share a
\* control session of a mechanical broker, which runs one child per session
\* (occupied_controls in checkout_warm_pool_seat).
OneHolderPerControl ==
  \A c, d \in Clients :
    /\ Mechanical /\ c # d
    /\ Holding(c) /\ fresh[c] /\ Holding(d) /\ fresh[d]
    => ControlOf[mine[c]] # ControlOf[mine[d]]

\* release_warm_pool_seat records "fork basis child exited; basis remains
\* clean" when a client returns its seat without a verified child: at that
\* moment no child of the client runs.
DirtyReleaseMeansExited ==
  [][\A c \in Vanilla :
       /\ pc[c] = "finish" /\ ~clean[c]
       /\ pool.status = "ready" /\ pool.lease[mine[c]] = c
       /\ pool'.lease[mine[c]] = None
       => child[c] = "none"]_vars

\* "The next prove reclaims a lease whose owner pid no longer exists before
\* checking out the seat" (docs/usage.md): a seat of a killed client does not
\* block a ready pool for good while `prove` goes on being called.
StaleLeaseReclaimed ==
  \A s \in Seats, c \in Clients :
    []<>~(/\ pool.status = "ready" /\ pool.lease[s] = c
          /\ pc[c] = "gone" /\ ~pidAlive[c])

\* lifecycle.lock before pool.lock, in stop and restore alike: whoever takes
\* the lifecycle lock gives it back, so stop and restore cannot block each
\* other (fork_pool_lifecycle.py, criu_pool_restore.py).
LifecycleLockReleased == \A p \in Procs : []<>(lifecycleLock # p)

\* The leases of the ready pool are those of the abstract lease service.
Leases == INSTANCE SeatLease
  WITH Seat <- Seats, Process <- Clients, Nobody <- None,
       owner <- pool.lease,
       running <- {c \in Clients : pidAlive[c]},
       open <- pool.status = "ready"
LeaseService == Leases!Spec
=============================================================================
