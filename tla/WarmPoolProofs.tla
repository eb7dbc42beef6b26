--------------------------- MODULE WarmPoolProofs ---------------------------
(***************************************************************************)
(* Theorems about WarmPool for every number of seats, clients, operators   *)
(* and every topology.  The invariant IInv joins the table properties with *)
(* the facts that make them inductive: who holds which lock at which       *)
(* control point, and what a stop or a restore in progress has already     *)
(* established.  The last part is about the holders of leases, and shows   *)
(* that the table implements SeatLease.                                    *)
(***************************************************************************)
EXTENDS WarmPool, TLAPS

\* Lock holders are exactly the processes at the control points in between.
LockInv ==
  /\ \A c \in Clients :
       /\ pc[c] \in {"locking", "preflight", "launch"} <=> lifecycleLock = c
       /\ pc[c] \in {"preflight", "launch"} <=> poolLock = c
  /\ \A o \in Operators : opc[o] # "idle" <=> lifecycleLock = o

\* A client past its begin transaction is alone with a "restoring" table.
LaunchInv == \A c \in Clients : pc[c] = "launch" => pool.status = "restoring"

\* What a verified stop saw still holds when it records it.
StopInv ==
  \A o \in Operators :
    opc[o] = "verified" => ~live /\ \A c \in Clients : child[c] = "none"

HoldInv == \A c \in Clients : Holding(c) => mine[c] \in Seats

IInv ==
  /\ TypeOK
  /\ TableShape
  /\ OneGeneration
  /\ QuarantineSticks
  /\ LockInv
  /\ LaunchInv
  /\ StopInv
  /\ HoldInv

USE DEF Seats, Clients, Procs, PoolStatus, SeatStatus, ClientPc, OperatorPc

-----------------------------------------------------------------------------
(* The table operators.                                                    *)

\* Marking rows keeps the record well formed and says what every row becomes.
LEMMA MarkLemma ==
  ASSUME NEW p \in PoolRecord, NEW S, NEW st \in SeatStatus
  PROVE  /\ Mark(p, S, st) \in PoolRecord
         /\ Mark(p, S, st).status = p.status
         /\ Mark(p, S, st).receipt = p.receipt
         /\ \A s \in Seats :
              Mark(p, S, st).seat[s] = IF s \in S THEN st ELSE p.seat[s]
         /\ \A s \in Seats :
              Mark(p, S, st).lease[s] = IF s \in S THEN None ELSE p.lease[s]
  BY DEF Mark, PoolRecord

\* Marking the whole pool leaves no lease.
LEMMA MarkPoolLemma ==
  ASSUME NEW st \in PoolStatus, NEW row \in SeatStatus, NEW b \in BOOLEAN
  PROVE  /\ MarkPool(st, row, b) \in PoolRecord
         /\ MarkPool(st, row, b).status = st
         /\ MarkPool(st, row, b).receipt = b
         /\ \A s \in Seats : /\ MarkPool(st, row, b).seat[s] = row
                             /\ MarkPool(st, row, b).lease[s] = None
  BY DEF MarkPool, PoolRecord

\* Shape of the rows of a ready table.
ReadyRows(p) ==
  \A s \in Seats :
    /\ p.seat[s] \in {"idle", "busy", "dead", "basis_missing"}
    /\ p.lease[s] # None <=> p.seat[s] = "busy"

\* Reclaiming and annotating a ready table keeps it ready-shaped, and a row
\* whose owner is alive keeps its lease.
LEMMA CheckoutTableLemma ==
  ASSUME TypeOK, pool.status = "ready", ReadyRows(pool)
  PROVE  /\ CheckoutTable \in PoolRecord
         /\ CheckoutTable.status = "ready"
         /\ ReadyRows(CheckoutTable)
         /\ \A s \in Seats :
              pool.lease[s] # None /\ pidAlive[pool.lease[s]]
                => CheckoutTable.lease[s] = pool.lease[s]
  <1> DEFINE r == ReclaimStaleLeases(pool)
  <1>0. pool \in PoolRecord
    BY DEF TypeOK
  <1>1. /\ r \in PoolRecord
        /\ r.status = "ready"
        /\ \A s \in Seats :
             r.seat[s] = IF s \in StaleLeases(pool) THEN "idle" ELSE pool.seat[s]
        /\ \A s \in Seats :
             r.lease[s] = IF s \in StaleLeases(pool) THEN None ELSE pool.lease[s]
    BY <1>0, MarkLemma DEF ReclaimStaleLeases
  <1>2. ReadyRows(r)
    BY <1>1 DEF ReadyRows, StaleLeases
  <1> HIDE DEF r
  <1> DEFINE M == {s \in MissingBasis : r.seat[s] = "idle"}
  <1>3. CheckoutTable = Mark(r, M, "basis_missing")
    BY DEF CheckoutTable, AnnotateBasisState, r
  <1>4. /\ CheckoutTable \in PoolRecord
        /\ CheckoutTable.status = "ready"
        /\ \A s \in Seats :
             CheckoutTable.seat[s] = IF s \in M THEN "basis_missing" ELSE r.seat[s]
        /\ \A s \in Seats :
             CheckoutTable.lease[s] = IF s \in M THEN None ELSE r.lease[s]
    BY <1>1, <1>3, MarkLemma
  <1>5. ReadyRows(CheckoutTable)
    BY <1>2, <1>4 DEF ReadyRows
  <1>6. ASSUME NEW s \in Seats, pool.lease[s] # None, pidAlive[pool.lease[s]]
        PROVE  CheckoutTable.lease[s] = pool.lease[s]
    <2>1. s \notin StaleLeases(pool)
      BY <1>6 DEF StaleLeases
    <2>2. pool.seat[s] = "busy"
      BY <1>6 DEF ReadyRows
    <2>3. r.seat[s] = "busy" /\ r.lease[s] = pool.lease[s]
      BY <1>1, <2>1, <2>2
    <2> QED BY <1>4, <2>3
  <1> QED BY <1>4, <1>5, <1>6

-----------------------------------------------------------------------------
(* Type correctness.                                                       *)

\* Every table operator maps a well-formed table to a well-formed table.
LEMMA TableTypes ==
  ASSUME TypeOK
  PROVE  /\ pool \in PoolRecord
         /\ pool.receipt \in BOOLEAN
         /\ Candidates(CheckoutTable) \in SUBSET Seats
         /\ ReclaimStaleLeases(pool) \in PoolRecord
         /\ CheckoutTable \in PoolRecord
         /\ \A S \in SUBSET Seats, st \in SeatStatus :
              Mark(CheckoutTable, S, st) \in PoolRecord
         /\ \A s \in Seats, c \in Clients : Granted(CheckoutTable, s, c) \in PoolRecord
         /\ \A s \in Seats : Released(pool, s) \in PoolRecord
         /\ \A s \in Seats : Quarantine(pool, s) \in PoolRecord
         /\ \A st \in SeatStatus \cap PoolStatus, b \in BOOLEAN :
              Relabel(st, b) \in PoolRecord
         /\ \A st \in PoolStatus, row \in SeatStatus, b \in BOOLEAN :
              MarkPool(st, row, b) \in PoolRecord
  <1>1. pool \in PoolRecord
    BY DEF TypeOK
  <1>2. ReclaimStaleLeases(pool) \in PoolRecord
    BY <1>1, MarkLemma DEF ReclaimStaleLeases
  <1>3. CheckoutTable \in PoolRecord
    BY <1>2, MarkLemma DEF CheckoutTable, AnnotateBasisState
  <1>4. \A S \in SUBSET Seats, st \in SeatStatus :
         Mark(CheckoutTable, S, st) \in PoolRecord
    BY <1>3, MarkLemma
  <1>5. ASSUME NEW s \in Seats, NEW c \in Clients
        PROVE  Granted(CheckoutTable, s, c) \in PoolRecord
    BY <1>3 DEF Granted, PoolRecord
  <1>6. \A s \in Seats : Released(pool, s) \in PoolRecord
    BY <1>1, MarkLemma DEF Released
  <1>7. ASSUME NEW s \in Seats PROVE Quarantine(pool, s) \in PoolRecord
    <2>1. Mark(pool, Seats \ Siblings(pool, s), "poisoned") \in PoolRecord
      BY <1>1, MarkLemma
    <2> QED BY <1>1, <2>1 DEF Quarantine, PoolRecord
  <1>8. ASSUME NEW st \in SeatStatus \cap PoolStatus, NEW b \in BOOLEAN
        PROVE  Relabel(st, b) \in PoolRecord
    BY <1>1 DEF Relabel, PoolRecord
  <1>9. \A st \in PoolStatus, row \in SeatStatus, b \in BOOLEAN :
          MarkPool(st, row, b) \in PoolRecord
    BY MarkPoolLemma
  <1>10. pool.receipt \in BOOLEAN
    BY <1>1 DEF PoolRecord
  <1>11. Candidates(CheckoutTable) \in SUBSET Seats
    BY DEF Candidates
  <1> QED
    BY <1>1, <1>2, <1>3, <1>4, <1>5, <1>6, <1>7, <1>8, <1>9, <1>10, <1>11

\* Every step keeps the types.
LEMMA TypeStep ==
  ASSUME TypeOK, HoldInv, [Next]_vars
  PROVE  TypeOK'
  <1> USE DEF TypeOK, tableVars, runtimeVars, clientVars, lockVars
  <1>1. ASSUME NEW c \in Clients, Start(c) PROVE TypeOK'
    BY <1>1 DEF Start, ControlTypes
  <1>2. ASSUME NEW c \in Clients, TakeLifecycleLock(c) PROVE TypeOK'
    BY <1>2 DEF TakeLifecycleLock, ControlTypes
  <1>3. ASSUME NEW c \in Clients, TakePoolLock(c) PROVE TypeOK'
    BY <1>3 DEF TakePoolLock, ControlTypes
  <1>4. ASSUME NEW c \in Clients, AlreadyLive(c) PROVE TypeOK'
    BY <1>4 DEF AlreadyLive, RestoreReturns, ControlTypes
  <1>5. ASSUME NEW c \in Clients, Demote(c) PROVE TypeOK'
    <2>1. pool' \in PoolRecord
      BY <1>5, TableTypes DEF Demote
    <2>2. ControlTypes'
      BY <1>5 DEF Demote, ControlTypes
    <2> QED BY <2>1, <2>2 DEF PoolRecord
  <1>6. ASSUME NEW c \in Clients, Unavailable(c) PROVE TypeOK'
    BY <1>6 DEF Unavailable, Exit, ControlTypes
  <1>7. ASSUME NEW c \in Clients, BeginRestore(c) PROVE TypeOK'
    <2>1. pool' \in PoolRecord
      BY <1>7, TableTypes DEF BeginRestore
    <2>2. ControlTypes'
      BY <1>7 DEF BeginRestore, ControlTypes
    <2> QED BY <2>1, <2>2 DEF PoolRecord
  <1>8. ASSUME NEW c \in Clients, PublishReady(c) PROVE TypeOK'
    <2>1. pool' \in PoolRecord
      BY <1>8, TableTypes DEF PublishReady
    <2>2. ControlTypes'
      BY <1>8 DEF PublishReady, RestoreReturns, ControlTypes
    <2> QED BY <2>1, <2>2 DEF PoolRecord
  <1>9. ASSUME NEW c \in Clients, RestoreFails(c) PROVE TypeOK'
    <2>1. pool' \in PoolRecord
      BY <1>9, TableTypes DEF RestoreFails
    <2>2. ControlTypes'
      BY <1>9 DEF RestoreFails, Exit, ControlTypes
    <2> QED BY <2>1, <2>2 DEF PoolRecord
  <1>10. ASSUME NEW c \in Clients, Checkout(c) PROVE TypeOK'
    <2>1. pool' \in PoolRecord
      BY <1>10, TableTypes DEF Checkout, Candidates
    <2>2. ControlTypes'
      BY <1>10 DEF Checkout, ControlTypes, Candidates
    <2> QED BY <2>1, <2>2 DEF PoolRecord
  <1>11. ASSUME NEW c \in Clients, CheckoutRefused(c) PROVE TypeOK'
    <2>1. pool' \in PoolRecord
      BY <1>11, TableTypes DEF CheckoutRefused
    <2>2. ControlTypes'
      BY <1>11 DEF CheckoutRefused, Exit, ControlTypes
    <2> QED BY <2>1, <2>2 DEF PoolRecord
  <1>12. ASSUME NEW c \in Clients, Dispatch(c) PROVE TypeOK'
    BY <1>12 DEF Dispatch, ControlTypes
  <1>13. ASSUME NEW c \in Clients, DispatchRefused(c) PROVE TypeOK'
    BY <1>13 DEF DispatchRefused, Verdict, ControlTypes
  <1>14. ASSUME NEW c \in Clients, ChildFinishes(c) PROVE TypeOK'
    BY <1>14 DEF ChildFinishes, Verdict, ControlTypes
  <1>15. ASSUME NEW c \in Clients, ChildUnverified(c) PROVE TypeOK'
    BY <1>15 DEF ChildUnverified, Verdict, ControlTypes
  <1>16. ASSUME NEW c \in Clients, ReleaseByPath(c) PROVE TypeOK'
    <2>1. pool' \in PoolRecord
      BY <1>16, TableTypes DEF ReleaseByPath, HoldInv, Holding
    <2>2. ControlTypes'
      BY <1>16 DEF ReleaseByPath, Exit, ControlTypes
    <2> QED BY <2>1, <2>2 DEF PoolRecord
  <1>17. ASSUME NEW c \in Clients, FinalizeLease(c) PROVE TypeOK'
    <2>1. pool' \in PoolRecord
      BY <1>17, TableTypes DEF FinalizeLease, HoldInv, Holding
    <2>2. ControlTypes'
      BY <1>17 DEF FinalizeLease, Exit, ControlTypes
    <2> QED BY <2>1, <2>2 DEF PoolRecord
  <1>18. ASSUME NEW c \in Clients, InterruptBeforeDispatch(c) PROVE TypeOK'
    BY <1>18 DEF InterruptBeforeDispatch, Verdict, ControlTypes
  <1>19. ASSUME NEW c \in Clients, InterruptVerified(c) PROVE TypeOK'
    BY <1>19 DEF InterruptVerified, Verdict, ControlTypes
  <1>20. ASSUME NEW c \in Clients, Kill(c) PROVE TypeOK'
    BY <1>20 DEF Kill, Exit, ControlTypes
  <1>21. ASSUME NEW c \in Clients, PidReused(c) PROVE TypeOK'
    BY <1>21 DEF PidReused, ControlTypes
  <1>22. ASSUME NEW c \in Clients, PidFreed(c) PROVE TypeOK'
    BY <1>22 DEF PidFreed, ControlTypes
  <1>23. ASSUME NEW c \in Clients, ChildEnds(c) PROVE TypeOK'
    BY <1>23 DEF ChildEnds, ControlTypes
  <1>24. ASSUME NEW o \in Operators, StopTakesLock(o) PROVE TypeOK'
    BY <1>24 DEF StopTakesLock, ControlTypes
  <1>25. ASSUME NEW o \in Operators, StopMarks(o) PROVE TypeOK'
    <2>1. pool' \in PoolRecord
      BY <1>25, TableTypes DEF StopMarks
    <2>2. ControlTypes'
      BY <1>25 DEF StopMarks, ControlTypes
    <2> QED BY <2>1, <2>2 DEF PoolRecord
  <1>26. ASSUME NEW o \in Operators, StopVerified(o) PROVE TypeOK'
    BY <1>26 DEF StopVerified, ControlTypes
  <1>27. ASSUME NEW o \in Operators, StopUnverified(o) PROVE TypeOK'
    BY <1>27 DEF StopUnverified, ControlTypes
  <1>28. ASSUME NEW o \in Operators, StopRecords(o) PROVE TypeOK'
    <2>1. pool' \in PoolRecord
      BY <1>28, TableTypes DEF StopRecords
    <2>2. ControlTypes'
      BY <1>28 DEF StopRecords, ControlTypes
    <2> QED BY <2>1, <2>2 DEF PoolRecord
  <1>29. ASSUME NEW o \in Operators, OperatorKilled(o) PROVE TypeOK'
    BY <1>29 DEF OperatorKilled, ControlTypes
  <1>30. CASE RuntimeDies
    BY <1>30 DEF RuntimeDies, ControlTypes
  <1>31. CASE UNCHANGED vars
    BY <1>31 DEF vars, ControlTypes
  <1> QED
    BY <1>1, <1>2, <1>3, <1>4, <1>5, <1>6, <1>7, <1>8, <1>9, <1>10,
       <1>11, <1>12, <1>13, <1>14, <1>15, <1>16, <1>17, <1>18, <1>19,
       <1>20, <1>21, <1>22, <1>23, <1>24, <1>25, <1>26, <1>27, <1>28,
       <1>29, <1>30, <1>31 DEF Next, ClientStep, RestoreStep,
       LeaseStep, ClientEvent, StopStep

-----------------------------------------------------------------------------
(* Control invariants: locks, launch window, stop verdict, held seats.     *)

\* Nobody takes a held lock, and whoever leaves the locked region drops it.
LEMMA LockStep ==
  ASSUME ControlTypes, LockInv, [Next]_vars
  PROVE  LockInv'
  <1> USE DEF tableVars, runtimeVars, clientVars, lockVars
  <1>1. ASSUME UNCHANGED <<pc, lifecycleLock, poolLock, opc>> PROVE LockInv'
    BY <1>1 DEF LockInv
  <1>2. ASSUME NEW c \in Clients, Demote(c) \/ PidReused(c) \/ PidFreed(c)
               \/ ChildEnds(c)
        PROVE  LockInv'
    BY <1>1, <1>2 DEF Demote, PidReused, PidFreed, ChildEnds
  <1>3. ASSUME NEW c \in Clients, Start(c)
        PROVE  LockInv'
    BY <1>3, ClientsAssumption DEF Start, LockInv, ControlTypes
  <1>4. ASSUME NEW c \in Clients, TakeLifecycleLock(c)
        PROVE  LockInv'
    BY <1>4, ClientsAssumption DEF TakeLifecycleLock, LockInv, ControlTypes
  <1>5. ASSUME NEW c \in Clients, TakePoolLock(c)
        PROVE  LockInv'
    BY <1>5, ClientsAssumption DEF TakePoolLock, LockInv, ControlTypes
  <1>6. ASSUME NEW c \in Clients, AlreadyLive(c) \/ PublishReady(c)
        PROVE  LockInv'
    BY <1>6, ClientsAssumption DEF AlreadyLive, PublishReady,
        RestoreReturns, LockInv, ControlTypes
  <1>7. ASSUME NEW c \in Clients, BeginRestore(c)
        PROVE  LockInv'
    BY <1>7, ClientsAssumption DEF BeginRestore, LockInv, ControlTypes
  <1>8. ASSUME NEW c \in Clients, Unavailable(c) \/ RestoreFails(c) \/
               CheckoutRefused(c) \/ ReleaseByPath(c) \/ FinalizeLease(c) \/
               Kill(c)
        PROVE  LockInv'
    BY <1>8, ClientsAssumption DEF Unavailable, RestoreFails,
        CheckoutRefused, ReleaseByPath, FinalizeLease, Kill, Exit, LockInv,
        ControlTypes
  <1>9. ASSUME NEW c \in Clients, Checkout(c)
        PROVE  LockInv'
    BY <1>9, ClientsAssumption DEF Checkout, LockInv, ControlTypes
  <1>10. ASSUME NEW c \in Clients, Dispatch(c)
        PROVE  LockInv'
    BY <1>10, ClientsAssumption DEF Dispatch, LockInv, ControlTypes
  <1>11. ASSUME NEW c \in Clients, DispatchRefused(c) \/ ChildFinishes(c) \/
               ChildUnverified(c) \/ InterruptBeforeDispatch(c) \/
               InterruptVerified(c)
        PROVE  LockInv'
    BY <1>11, ClientsAssumption DEF DispatchRefused, ChildFinishes,
        ChildUnverified, InterruptBeforeDispatch, InterruptVerified,
        Verdict, LockInv, ControlTypes
  <1>12. ASSUME NEW o \in Operators, StopTakesLock(o)
        PROVE  LockInv'
    BY <1>12, ClientsAssumption DEF StopTakesLock, LockInv, ControlTypes
  <1>13. ASSUME NEW o \in Operators, StopMarks(o) \/ StopVerified(o) \/
               StopUnverified(o)
        PROVE  LockInv'
    <2>1. /\ opc[o] # "idle"
          /\ \E st \in {"stopping", "verified", "unverified"} :
               opc' = [opc EXCEPT ![o] = st]
          /\ UNCHANGED <<pc, lifecycleLock, poolLock>>
      BY <1>13 DEF StopMarks, StopVerified, StopUnverified
    <2> QED BY <2>1 DEF LockInv, ControlTypes
  <1>14. ASSUME NEW o \in Operators, StopRecords(o) \/ OperatorKilled(o)
        PROVE  LockInv'
    <2>1. /\ opc[o] # "idle"
          /\ opc' = [opc EXCEPT ![o] = "idle"]
          /\ lifecycleLock' = None
          /\ UNCHANGED <<pc, poolLock>>
      BY <1>14 DEF StopRecords, OperatorKilled
    <2>2. lifecycleLock = o /\ o # None
      BY <2>1, ClientsAssumption DEF LockInv
    <2>3. \A c \in Clients :
            pc[c] \notin {"locking", "preflight", "launch"} /\ c # None
      BY <2>2, ClientsAssumption DEF LockInv
    <2>4. \A q \in Operators \ {o} : opc[q] = "idle" /\ q # None
      BY <2>2, ClientsAssumption DEF LockInv
    <2> QED BY <2>1, <2>2, <2>3, <2>4 DEF LockInv, ControlTypes
  <1>15. ASSUME RuntimeDies PROVE LockInv'
    BY <1>1, <1>15 DEF RuntimeDies, LockInv
  <1>16. ASSUME UNCHANGED vars PROVE LockInv'
    BY <1>1, <1>16 DEF vars
  <1> QED
    BY <1>2, <1>3, <1>4, <1>5, <1>6, <1>7, <1>8, <1>9, <1>10, <1>11, <1>12,
        <1>13, <1>14, <1>15, <1>16 DEF Next, ClientStep, RestoreStep,
        LeaseStep, ClientEvent, StopStep

\* A client under a lease knows its seat.
LEMMA HoldStep ==
  ASSUME ControlTypes, HoldInv, [Next]_vars
  PROVE  HoldInv'
  <1> USE DEF tableVars, runtimeVars, clientVars, lockVars
  <1>1. ASSUME UNCHANGED <<pc, mine>> PROVE HoldInv'
    BY <1>1 DEF HoldInv, Holding
  <1>2. ASSUME NEW c \in Clients, Demote(c) \/ PidReused(c) \/ PidFreed(c)
               \/ ChildEnds(c)
        PROVE  HoldInv'
    BY <1>1, <1>2 DEF Demote, PidReused, PidFreed, ChildEnds
  <1>3. ASSUME NEW c \in Clients, Start(c)
        PROVE  HoldInv'
    BY <1>3 DEF Start, HoldInv, Holding, ControlTypes
  <1>4. ASSUME NEW c \in Clients, TakeLifecycleLock(c)
        PROVE  HoldInv'
    BY <1>4 DEF TakeLifecycleLock, HoldInv, Holding, ControlTypes
  <1>5. ASSUME NEW c \in Clients, TakePoolLock(c)
        PROVE  HoldInv'
    BY <1>5 DEF TakePoolLock, HoldInv, Holding, ControlTypes
  <1>6. ASSUME NEW c \in Clients, AlreadyLive(c) \/ PublishReady(c)
        PROVE  HoldInv'
    BY <1>6 DEF AlreadyLive, PublishReady, RestoreReturns, HoldInv, Holding,
        ControlTypes
  <1>7. ASSUME NEW c \in Clients, BeginRestore(c)
        PROVE  HoldInv'
    BY <1>7 DEF BeginRestore, HoldInv, Holding, ControlTypes
  <1>8. ASSUME NEW c \in Clients, Unavailable(c) \/ RestoreFails(c) \/
               CheckoutRefused(c) \/ ReleaseByPath(c) \/ FinalizeLease(c) \/
               Kill(c)
        PROVE  HoldInv'
    BY <1>8 DEF Unavailable, RestoreFails, CheckoutRefused, ReleaseByPath,
        FinalizeLease, Kill, Exit, HoldInv, Holding, ControlTypes
  <1>9. ASSUME NEW c \in Clients, Checkout(c)
        PROVE  HoldInv'
    BY <1>9 DEF Checkout, HoldInv, Holding, ControlTypes, Candidates
  <1>10. ASSUME NEW c \in Clients, Dispatch(c)
        PROVE  HoldInv'
    BY <1>10 DEF Dispatch, HoldInv, Holding, ControlTypes
  <1>11. ASSUME NEW c \in Clients, DispatchRefused(c) \/ ChildFinishes(c) \/
               ChildUnverified(c) \/ InterruptBeforeDispatch(c) \/
               InterruptVerified(c)
        PROVE  HoldInv'
    BY <1>11 DEF DispatchRefused, ChildFinishes, ChildUnverified,
        InterruptBeforeDispatch, InterruptVerified, Verdict, HoldInv,
        Holding, ControlTypes
  <1>12. ASSUME NEW o \in Operators, StopTakesLock(o) \/ StopMarks(o) \/
               StopVerified(o) \/ StopUnverified(o) \/ StopRecords(o) \/
               OperatorKilled(o)
        PROVE  HoldInv'
    BY <1>1, <1>12 DEF StopTakesLock, StopMarks, StopVerified,
        StopUnverified, StopRecords, OperatorKilled
  <1>13. ASSUME RuntimeDies PROVE HoldInv'
    BY <1>1, <1>13 DEF RuntimeDies, HoldInv, Holding
  <1>14. ASSUME UNCHANGED vars PROVE HoldInv'
    BY <1>1, <1>14 DEF vars
  <1> QED
    BY <1>2, <1>3, <1>4, <1>5, <1>6, <1>7, <1>8, <1>9, <1>10, <1>11, <1>12,
        <1>13, <1>14 DEF Next, ClientStep, RestoreStep, LeaseStep,
        ClientEvent, StopStep

-----------------------------------------------------------------------------
(* The pool status: what each table operator makes of it, and the          *)
(* invariants that depend on it alone.                                     *)

\* Client operations on rows keep the pool status, except a quarantine.
LEMMA TableStatus ==
  /\ CheckoutTable.status = pool.status
  /\ \A S, st : Mark(CheckoutTable, S, st).status = pool.status
  /\ \A s, c : Granted(CheckoutTable, s, c).status = pool.status
  /\ \A s : Released(pool, s).status = pool.status
  /\ \A s : Quarantine(pool, s).status = "poisoned"
  <1>1. \A p, S, st : Mark(p, S, st).status = p.status
    BY DEF Mark
  <1>2. CheckoutTable.status = pool.status
    BY <1>1 DEF CheckoutTable, AnnotateBasisState, ReclaimStaleLeases
  <1> QED
    BY <1>1, <1>2 DEF Granted, Released, Quarantine

\* Both locks keep the others away from a table that is being restored.
LEMMA LaunchStep ==
  ASSUME TypeOK, LockInv, LaunchInv, [Next]_vars
  PROVE  LaunchInv'
  <1> USE DEF tableVars, runtimeVars, clientVars, lockVars
  <1>1. ASSUME UNCHANGED <<pool, pc>> PROVE LaunchInv'
    BY <1>1 DEF LaunchInv
  <1>2. ASSUME NEW c \in Clients, PidReused(c) \/ PidFreed(c) \/
               ChildEnds(c)
        PROVE  LaunchInv'
    BY <1>1, <1>2 DEF PidReused, PidFreed, ChildEnds
  <1>3. ASSUME NEW c \in Clients, Start(c) \/ TakeLifecycleLock(c) \/
               TakePoolLock(c) \/ AlreadyLive(c) \/ Unavailable(c) \/
               Dispatch(c) \/ DispatchRefused(c) \/ ChildFinishes(c) \/
               ChildUnverified(c) \/ InterruptBeforeDispatch(c) \/
               InterruptVerified(c) \/ Kill(c)
        PROVE  LaunchInv'
    BY <1>3 DEF Start, TakeLifecycleLock, TakePoolLock, AlreadyLive,
        Unavailable, Dispatch, DispatchRefused, ChildFinishes,
        ChildUnverified, InterruptBeforeDispatch, InterruptVerified, Kill,
        Exit, RestoreReturns, Verdict, LaunchInv, TypeOK, ControlTypes
  <1>4. ASSUME NEW c \in Clients, Demote(c)
        PROVE  LaunchInv'
    BY <1>4, TableStatus, ClientsAssumption DEF Demote, LaunchInv, LockInv,
        TypeOK, ControlTypes, MarkPool
  <1>5. ASSUME NEW c \in Clients, BeginRestore(c)
        PROVE  LaunchInv'
    BY <1>5, TableStatus, ClientsAssumption DEF BeginRestore, LaunchInv,
        LockInv, TypeOK, ControlTypes, MarkPool
  <1>6. ASSUME NEW c \in Clients, PublishReady(c)
        PROVE  LaunchInv'
    BY <1>6, TableStatus, ClientsAssumption DEF PublishReady,
        RestoreReturns, LaunchInv, LockInv, TypeOK, ControlTypes, MarkPool
  <1>7. ASSUME NEW c \in Clients, RestoreFails(c)
        PROVE  LaunchInv'
    BY <1>7, TableStatus, ClientsAssumption DEF RestoreFails, Exit,
        LaunchInv, LockInv, TypeOK, ControlTypes, MarkPool
  <1>8. ASSUME NEW c \in Clients, Checkout(c)
        PROVE  LaunchInv'
    BY <1>8, TableStatus, ClientsAssumption DEF Checkout, LaunchInv,
        LockInv, TypeOK, ControlTypes
  <1>9. ASSUME NEW c \in Clients, CheckoutRefused(c)
        PROVE  LaunchInv'
    BY <1>9, TableStatus, ClientsAssumption DEF CheckoutRefused, Exit,
        LaunchInv, LockInv, TypeOK, ControlTypes
  <1>10. ASSUME NEW c \in Clients, ReleaseByPath(c)
        PROVE  LaunchInv'
    BY <1>10, TableStatus, ClientsAssumption DEF ReleaseByPath, Exit,
        LaunchInv, LockInv, TypeOK, ControlTypes
  <1>11. ASSUME NEW c \in Clients, FinalizeLease(c)
        PROVE  LaunchInv'
    BY <1>11, TableStatus, ClientsAssumption DEF FinalizeLease, Exit,
        LaunchInv, LockInv, TypeOK, ControlTypes
  <1>12. ASSUME NEW o \in Operators, StopMarks(o)
        PROVE  LaunchInv'
    BY <1>12, TableStatus, ClientsAssumption DEF StopMarks, LaunchInv,
        LockInv, TypeOK, ControlTypes, MarkPool, Relabel
  <1>13. ASSUME NEW o \in Operators, StopRecords(o)
        PROVE  LaunchInv'
    BY <1>13, TableStatus, ClientsAssumption DEF StopRecords, LaunchInv,
        LockInv, TypeOK, ControlTypes, MarkPool, Relabel
  <1>14. ASSUME NEW o \in Operators, StopTakesLock(o) \/ StopVerified(o) \/
               StopUnverified(o) \/ OperatorKilled(o)
        PROVE  LaunchInv'
    BY <1>1, <1>14 DEF StopTakesLock, StopVerified, StopUnverified,
        OperatorKilled
  <1>15. ASSUME RuntimeDies PROVE LaunchInv'
    BY <1>1, <1>15 DEF RuntimeDies, LaunchInv
  <1>16. ASSUME UNCHANGED vars PROVE LaunchInv'
    BY <1>1, <1>16 DEF vars
  <1> QED
    BY <1>2, <1>3, <1>4, <1>5, <1>6, <1>7, <1>8, <1>9, <1>10, <1>11, <1>12,
        <1>13, <1>14, <1>15, <1>16 DEF Next, ClientStep, RestoreStep,
        LeaseStep, ClientEvent, StopStep

\* Only a restore makes a pool ready, and it forgets the quarantine.
LEMMA QuarantineStep ==
  ASSUME QuarantineSticks, [Next]_vars
  PROVE  QuarantineSticks'
  <1> USE DEF tableVars, runtimeVars, clientVars, lockVars
  <1>1. ASSUME UNCHANGED <<pool, quarantined>> PROVE QuarantineSticks'
    BY <1>1 DEF QuarantineSticks
  <1>2. ASSUME NEW c \in Clients, Start(c) \/ TakeLifecycleLock(c) \/
               TakePoolLock(c) \/ AlreadyLive(c) \/ Unavailable(c) \/
               Dispatch(c) \/ DispatchRefused(c) \/ ChildFinishes(c) \/
               ChildUnverified(c) \/ InterruptBeforeDispatch(c) \/
               InterruptVerified(c) \/ Kill(c) \/ PidReused(c) \/
               PidFreed(c) \/ ChildEnds(c)
        PROVE  QuarantineSticks'
    BY <1>1, <1>2 DEF Start, TakeLifecycleLock, TakePoolLock, AlreadyLive,
        Unavailable, Dispatch, DispatchRefused, ChildFinishes,
        ChildUnverified, InterruptBeforeDispatch, InterruptVerified, Kill,
        PidReused, PidFreed, ChildEnds, Exit, RestoreReturns, Verdict
  <1>3. ASSUME NEW c \in Clients, Demote(c)
        PROVE  QuarantineSticks'
    BY <1>3, TableStatus DEF Demote, QuarantineSticks, MarkPool
  <1>4. ASSUME NEW c \in Clients, BeginRestore(c)
        PROVE  QuarantineSticks'
    BY <1>4, TableStatus DEF BeginRestore, QuarantineSticks, MarkPool
  <1>5. ASSUME NEW c \in Clients, PublishReady(c)
        PROVE  QuarantineSticks'
    BY <1>5, TableStatus DEF PublishReady, RestoreReturns, QuarantineSticks,
        MarkPool
  <1>6. ASSUME NEW c \in Clients, RestoreFails(c)
        PROVE  QuarantineSticks'
    BY <1>6, TableStatus DEF RestoreFails, Exit, QuarantineSticks, MarkPool
  <1>7. ASSUME NEW c \in Clients, Checkout(c)
        PROVE  QuarantineSticks'
    BY <1>7, TableStatus DEF Checkout, QuarantineSticks
  <1>8. ASSUME NEW c \in Clients, CheckoutRefused(c)
        PROVE  QuarantineSticks'
    BY <1>8, TableStatus DEF CheckoutRefused, Exit, QuarantineSticks
  <1>9. ASSUME NEW c \in Clients, ReleaseByPath(c)
        PROVE  QuarantineSticks'
    BY <1>9, TableStatus DEF ReleaseByPath, Exit, QuarantineSticks
  <1>10. ASSUME NEW c \in Clients, FinalizeLease(c)
        PROVE  QuarantineSticks'
    <2>1. CASE UNCHANGED tableVars
      BY <1>1, <2>1 DEF QuarantineSticks
    <2>2. CASE pool' = Released(pool, mine[c]) /\ UNCHANGED quarantined
      BY <2>2, TableStatus DEF QuarantineSticks
    <2>3. CASE pool' = Quarantine(pool, mine[c])
      BY <2>3, TableStatus DEF QuarantineSticks
    <2> QED BY <1>10, <2>1, <2>2, <2>3 DEF FinalizeLease
  <1>11. ASSUME NEW o \in Operators, StopMarks(o)
        PROVE  QuarantineSticks'
    BY <1>11, TableStatus DEF StopMarks, QuarantineSticks, MarkPool, Relabel
  <1>12. ASSUME NEW o \in Operators, StopRecords(o)
        PROVE  QuarantineSticks'
    BY <1>12, TableStatus DEF StopRecords, QuarantineSticks, MarkPool,
        Relabel
  <1>13. ASSUME NEW o \in Operators, StopTakesLock(o) \/ StopVerified(o) \/
               StopUnverified(o) \/ OperatorKilled(o)
        PROVE  QuarantineSticks'
    BY <1>1, <1>13 DEF StopTakesLock, StopVerified, StopUnverified,
        OperatorKilled
  <1>14. ASSUME RuntimeDies PROVE QuarantineSticks'
    BY <1>1, <1>14 DEF RuntimeDies, QuarantineSticks
  <1>15. ASSUME UNCHANGED vars PROVE QuarantineSticks'
    BY <1>1, <1>15 DEF vars
  <1> QED
    BY <1>2, <1>3, <1>4, <1>5, <1>6, <1>7, <1>8, <1>9, <1>10, <1>11, <1>12,
        <1>13, <1>14, <1>15 DEF Next, ClientStep, RestoreStep, LeaseStep,
        ClientEvent, StopStep

-----------------------------------------------------------------------------
(* Table shape.                                                            *)

\* A checkout grants an idle row of the reclaimed table, or marks idle rows
\* dead: a ready table stays well shaped.
LEMMA CheckoutShape ==
  ASSUME TypeOK, TableShape, pool.status = "ready"
  PROVE  /\ WellShaped(CheckoutTable)
         /\ WellShaped(Mark(CheckoutTable, Candidates(CheckoutTable), "dead"))
         /\ \A s \in Candidates(CheckoutTable), c \in Clients :
              WellShaped(Granted(CheckoutTable, s, c))
  <1> DEFINE t == CheckoutTable
             dead == Mark(t, Candidates(t), "dead")
  <1>1. t \in PoolRecord /\ t.status = "ready" /\ ReadyRows(t)
    BY CheckoutTableLemma DEF TableShape, WellShaped, ReadyRows
  <1>2. Candidates(t) \subseteq Seats /\ \A s \in Candidates(t) : t.seat[s] = "idle"
    BY DEF Candidates
  <1> HIDE DEF t
  <1>3. WellShaped(t)
    BY <1>1 DEF WellShaped, ReadyRows
  <1>4. WellShaped(dead)
    BY <1>1, <1>2, MarkLemma DEF WellShaped, ReadyRows
  <1>5. ASSUME NEW s \in Candidates(t), NEW c \in Clients
        PROVE  WellShaped(Granted(t, s, c))
    BY <1>1, <1>2, ClientsAssumption
    DEF Granted, WellShaped, ReadyRows, PoolRecord
  <1> QED BY <1>3, <1>4, <1>5 DEF t

\* Giving a row back keeps a table well shaped, in every pool status.
LEMMA ReleasedShape ==
  ASSUME TypeOK, TableShape, NEW s \in Seats
  PROVE  WellShaped(Released(pool, s))
  BY TableTypes, MarkLemma DEF Released, TableShape, WellShaped

\* Quarantining a table leaves leases only on busy rows, also when a stop has
\* relabelled the rows before.
LEMMA QuarantineShape ==
  ASSUME TypeOK, NEW s \in Seats
  PROVE  WellShaped(Quarantine(pool, s))
  <1> DEFINE marked == Mark(pool, Seats \ Siblings(pool, s), "poisoned")
  <1>1. \A t \in Seats :
          /\ marked.seat[t] = IF t \in Seats \ Siblings(pool, s)
                              THEN "poisoned" ELSE pool.seat[t]
          /\ marked.lease[t] = IF t \in Seats \ Siblings(pool, s)
                               THEN None ELSE pool.lease[t]
    BY TableTypes, MarkLemma
  <1>2. \A t \in Siblings(pool, s) : pool.seat[t] = "busy"
    BY DEF Siblings
  <1> HIDE DEF marked
  <1>3. Quarantine(pool, s) = [status |-> "poisoned", seat |-> marked.seat,
                               lease |-> marked.lease, receipt |-> pool.receipt]
    BY DEF Quarantine, marked
  <1> QED BY <1>1, <1>2, <1>3 DEF WellShaped

\* Relabelling rows for a stop, and marking a whole pool, shape every row.
LEMMA MarkedShape ==
  ASSUME TypeOK
  PROVE  /\ \A st \in {"stopping", "stop_failed"}, b \in BOOLEAN :
              WellShaped(Relabel(st, b))
         /\ \A st \in {"stopped", "restoring", "restore_failed"}, b \in BOOLEAN :
              WellShaped(MarkPool(st, st, b))
         /\ \A b \in BOOLEAN : WellShaped(MarkPool("ready", "idle", b))
  BY DEF Relabel, MarkPool, WellShaped

\* Every operation on pool.json keeps the table well shaped.
LEMMA TableStep ==
  ASSUME TypeOK, HoldInv, TableShape, [Next]_vars
  PROVE  TableShape'
  <1> USE DEF tableVars, runtimeVars, clientVars, lockVars
  <1>1. ASSUME UNCHANGED <<pool>> PROVE TableShape'
    BY <1>1 DEF TableShape
  <1>2. ASSUME NEW c \in Clients, Start(c) \/ TakeLifecycleLock(c) \/
               TakePoolLock(c) \/ AlreadyLive(c) \/ Unavailable(c) \/
               Dispatch(c) \/ DispatchRefused(c) \/ ChildFinishes(c) \/
               ChildUnverified(c) \/ InterruptBeforeDispatch(c) \/
               InterruptVerified(c) \/ Kill(c) \/ PidReused(c) \/
               PidFreed(c) \/ ChildEnds(c)
        PROVE  TableShape'
    BY <1>1, <1>2 DEF Start, TakeLifecycleLock, TakePoolLock, AlreadyLive,
        Unavailable, Dispatch, DispatchRefused, ChildFinishes,
        ChildUnverified, InterruptBeforeDispatch, InterruptVerified, Kill,
        PidReused, PidFreed, ChildEnds, Exit, RestoreReturns, Verdict
  <1>3. ASSUME NEW c \in Clients, Demote(c)
        PROVE  TableShape'
    BY <1>3, TableTypes, MarkedShape DEF Demote, TableShape
  <1>4. ASSUME NEW c \in Clients, BeginRestore(c)
        PROVE  TableShape'
    BY <1>4, TableTypes, MarkedShape DEF BeginRestore, TableShape
  <1>5. ASSUME NEW c \in Clients, PublishReady(c)
        PROVE  TableShape'
    BY <1>5, TableTypes, MarkedShape DEF PublishReady, RestoreReturns,
        TableShape
  <1>6. ASSUME NEW c \in Clients, RestoreFails(c)
        PROVE  TableShape'
    BY <1>6, TableTypes, MarkedShape DEF RestoreFails, Exit, TableShape
  <1>7. ASSUME NEW c \in Clients, Checkout(c)
        PROVE  TableShape'
    BY <1>7, CheckoutShape DEF Checkout, TableShape
  <1>8. ASSUME NEW c \in Clients, CheckoutRefused(c)
        PROVE  TableShape'
    BY <1>8, CheckoutShape DEF CheckoutRefused, Exit, TableShape
  <1>9. ASSUME NEW c \in Clients, ReleaseByPath(c)
        PROVE  TableShape'
    BY <1>9, ReleasedShape DEF ReleaseByPath, Exit, TableShape, HoldInv,
        Holding
  <1>10. ASSUME NEW c \in Clients, FinalizeLease(c)
        PROVE  TableShape'
    <2>1. CASE UNCHANGED tableVars
      BY <2>1 DEF TableShape
    <2>2. CASE pool' = Released(pool, mine[c])
      BY <1>10, <2>2, ReleasedShape DEF FinalizeLease, TableShape, HoldInv, Holding
    <2>3. CASE pool' = Quarantine(pool, mine[c])
      BY <1>10, <2>3, QuarantineShape DEF FinalizeLease, TableShape, HoldInv, Holding
    <2> QED BY <1>10, <2>1, <2>2, <2>3 DEF FinalizeLease
  <1>11. ASSUME NEW o \in Operators, StopMarks(o)
        PROVE  TableShape'
    BY <1>11, TableTypes, MarkedShape DEF StopMarks, TableShape
  <1>12. ASSUME NEW o \in Operators, StopRecords(o)
        PROVE  TableShape'
    BY <1>12, TableTypes, MarkedShape DEF StopRecords, TableShape
  <1>13. ASSUME NEW o \in Operators, StopTakesLock(o) \/ StopVerified(o) \/
               StopUnverified(o) \/ OperatorKilled(o)
        PROVE  TableShape'
    BY <1>1, <1>13 DEF StopTakesLock, StopVerified, StopUnverified,
        OperatorKilled
  <1>14. ASSUME RuntimeDies PROVE TableShape'
    BY <1>1, <1>14 DEF RuntimeDies, TableShape
  <1>15. ASSUME UNCHANGED vars PROVE TableShape'
    BY <1>1, <1>15 DEF vars
  <1> QED
    BY <1>2, <1>3, <1>4, <1>5, <1>6, <1>7, <1>8, <1>9, <1>10, <1>11, <1>12,
        <1>13, <1>14, <1>15 DEF Next, ClientStep, RestoreStep, LeaseStep,
        ClientEvent, StopStep

\* No restore runs and no child starts between a verified stop and its record.
LEMMA StopVerdictStep ==
  ASSUME TypeOK, LockInv, StopInv, [Next]_vars
  PROVE  StopInv'
  <1> USE DEF tableVars, runtimeVars, clientVars, lockVars
  <1>1. ASSUME UNCHANGED <<live, child, opc>> PROVE StopInv'
    BY <1>1 DEF StopInv
  <1>2. ASSUME NEW c \in Clients, Start(c) \/ TakeLifecycleLock(c) \/
               TakePoolLock(c) \/ AlreadyLive(c) \/ Demote(c) \/
               Unavailable(c) \/ BeginRestore(c) \/ Checkout(c) \/
               CheckoutRefused(c) \/ DispatchRefused(c) \/
               ChildUnverified(c) \/ ReleaseByPath(c) \/ FinalizeLease(c) \/
               InterruptBeforeDispatch(c) \/ Kill(c) \/ PidReused(c) \/
               PidFreed(c)
        PROVE  StopInv'
    BY <1>1, <1>2 DEF Start, TakeLifecycleLock, TakePoolLock, AlreadyLive,
        Demote, Unavailable, BeginRestore, Checkout, CheckoutRefused,
        DispatchRefused, ChildUnverified, ReleaseByPath, FinalizeLease,
        InterruptBeforeDispatch, Kill, PidReused, PidFreed, Exit,
        RestoreReturns, Verdict
  <1>3. ASSUME NEW c \in Clients, PublishReady(c)
        PROVE  StopInv'
    BY <1>3, ClientsAssumption DEF PublishReady, RestoreReturns, StopInv,
        LockInv, ControlTypes, TypeOK
  <1>4. ASSUME NEW c \in Clients, RestoreFails(c)
        PROVE  StopInv'
    BY <1>4, ClientsAssumption DEF RestoreFails, Exit, StopInv, LockInv,
        ControlTypes, TypeOK
  <1>5. ASSUME NEW c \in Clients, Dispatch(c)
        PROVE  StopInv'
    BY <1>5 DEF Dispatch, StopInv
  <1>6. ASSUME NEW c \in Clients, ChildFinishes(c)
        PROVE  StopInv'
    BY <1>6 DEF ChildFinishes, Verdict, StopInv
  <1>7. ASSUME NEW c \in Clients, InterruptVerified(c)
        PROVE  StopInv'
    BY <1>7 DEF InterruptVerified, Verdict, StopInv, TypeOK, ControlTypes
  <1>8. ASSUME NEW c \in Clients, ChildEnds(c)
        PROVE  StopInv'
    BY <1>8 DEF ChildEnds, StopInv, TypeOK, ControlTypes
  <1>9. ASSUME NEW o \in Operators, StopTakesLock(o)
        PROVE  StopInv'
    BY <1>9, ClientsAssumption DEF StopTakesLock, StopInv, LockInv, TypeOK,
        ControlTypes
  <1>10. ASSUME NEW o \in Operators, StopMarks(o)
        PROVE  StopInv'
    BY <1>10, ClientsAssumption DEF StopMarks, StopInv, LockInv, TypeOK,
        ControlTypes
  <1>11. ASSUME NEW o \in Operators, StopVerified(o)
        PROVE  StopInv'
    BY <1>11, ClientsAssumption DEF StopVerified, StopInv, LockInv, TypeOK,
        ControlTypes
  <1>12. ASSUME NEW o \in Operators, StopUnverified(o)
        PROVE  StopInv'
    BY <1>12, ClientsAssumption DEF StopUnverified, StopInv, LockInv,
        TypeOK, ControlTypes
  <1>13. ASSUME NEW o \in Operators, StopRecords(o)
        PROVE  StopInv'
    BY <1>13, ClientsAssumption DEF StopRecords, StopInv, LockInv, TypeOK,
        ControlTypes
  <1>14. ASSUME NEW o \in Operators, OperatorKilled(o)
        PROVE  StopInv'
    BY <1>14, ClientsAssumption DEF OperatorKilled, StopInv, LockInv,
        TypeOK, ControlTypes
  <1>15. ASSUME RuntimeDies PROVE StopInv'
    BY <1>1, <1>15 DEF RuntimeDies, StopInv
  <1>16. ASSUME UNCHANGED vars PROVE StopInv'
    BY <1>1, <1>16 DEF vars
  <1> QED
    BY <1>2, <1>3, <1>4, <1>5, <1>6, <1>7, <1>8, <1>9, <1>10, <1>11, <1>12,
        <1>13, <1>14, <1>15, <1>16 DEF Next, ClientStep, RestoreStep,
        LeaseStep, ClientEvent, StopStep

\* A table is stopped or restoring only when nothing of a generation runs.
LEMMA GenerationStep ==
  ASSUME TypeOK, LaunchInv, StopInv, OneGeneration, [Next]_vars
  PROVE  OneGeneration'
  <1> USE DEF tableVars, runtimeVars, clientVars, lockVars
  <1>1. ASSUME UNCHANGED <<pool, live, child>> PROVE OneGeneration'
    BY <1>1 DEF OneGeneration
  <1>2. ASSUME NEW c \in Clients, Start(c) \/ TakeLifecycleLock(c) \/
               TakePoolLock(c) \/ AlreadyLive(c) \/ Unavailable(c) \/
               DispatchRefused(c) \/ ChildUnverified(c) \/
               InterruptBeforeDispatch(c) \/ Kill(c) \/ PidReused(c) \/
               PidFreed(c)
        PROVE  OneGeneration'
    BY <1>1, <1>2 DEF Start, TakeLifecycleLock, TakePoolLock, AlreadyLive,
        Unavailable, DispatchRefused, ChildUnverified,
        InterruptBeforeDispatch, Kill, PidReused, PidFreed, Exit,
        RestoreReturns, Verdict
  <1>3. ASSUME NEW c \in Clients, Demote(c)
        PROVE  OneGeneration'
    BY <1>3, TableStatus DEF Demote, Demotable, MarkPool, OneGeneration
  <1>4. ASSUME NEW c \in Clients, BeginRestore(c)
        PROVE  OneGeneration'
    BY <1>4 DEF BeginRestore, Activatable, MarkPool, OneGeneration
  <1>5. ASSUME NEW c \in Clients, PublishReady(c)
        PROVE  OneGeneration'
    BY <1>5 DEF PublishReady, RestoreReturns, LaunchInv, MarkPool,
        OneGeneration
  <1>6. ASSUME NEW c \in Clients, RestoreFails(c)
        PROVE  OneGeneration'
    BY <1>6 DEF RestoreFails, Exit, MarkPool, OneGeneration
  <1>7. ASSUME NEW c \in Clients, Checkout(c)
        PROVE  OneGeneration'
    BY <1>7, TableStatus DEF Checkout, OneGeneration
  <1>8. ASSUME NEW c \in Clients, CheckoutRefused(c)
        PROVE  OneGeneration'
    BY <1>8, TableStatus DEF CheckoutRefused, Exit, OneGeneration
  <1>9. ASSUME NEW c \in Clients, ReleaseByPath(c)
        PROVE  OneGeneration'
    BY <1>9, TableStatus DEF ReleaseByPath, Exit, OneGeneration
  <1>10. ASSUME NEW c \in Clients, FinalizeLease(c)
        PROVE  OneGeneration'
    BY <1>10, TableStatus DEF FinalizeLease, Exit, OneGeneration
  <1>11. ASSUME NEW c \in Clients, Dispatch(c)
        PROVE  OneGeneration'
    BY <1>11 DEF Dispatch, TypeOK, ControlTypes, OneGeneration
  <1>12. ASSUME NEW c \in Clients, ChildFinishes(c)
        PROVE  OneGeneration'
    BY <1>12 DEF ChildFinishes, Verdict, TypeOK, ControlTypes, OneGeneration
  <1>13. ASSUME NEW c \in Clients, InterruptVerified(c)
        PROVE  OneGeneration'
    BY <1>13 DEF InterruptVerified, Verdict, TypeOK, ControlTypes,
        OneGeneration
  <1>14. ASSUME NEW c \in Clients, ChildEnds(c)
        PROVE  OneGeneration'
    BY <1>14 DEF ChildEnds, TypeOK, ControlTypes, OneGeneration
  <1>15. ASSUME NEW o \in Operators, StopMarks(o)
        PROVE  OneGeneration'
    BY <1>15 DEF StopMarks, Relabel, OneGeneration
  <1>16. ASSUME NEW o \in Operators, StopVerified(o)
        PROVE  OneGeneration'
    BY <1>16 DEF StopVerified, OneGeneration
  <1>17. ASSUME NEW o \in Operators, StopUnverified(o)
        PROVE  OneGeneration'
    <2>1. \A d \in Clients : child'[d] = child[d] \/ child'[d] = "none"
      BY <1>17 DEF StopUnverified
    <2>2. pool' = pool /\ (live' = live \/ live' = FALSE)
      BY <1>17 DEF StopUnverified
    <2> QED BY <2>1, <2>2 DEF OneGeneration, TypeOK, ControlTypes
  <1>18. ASSUME NEW o \in Operators, StopRecords(o)
        PROVE  OneGeneration'
    BY <1>18 DEF StopRecords, MarkPool, Relabel, StopInv, OneGeneration
  <1>19. ASSUME NEW o \in Operators, StopTakesLock(o) \/ OperatorKilled(o)
        PROVE  OneGeneration'
    BY <1>1, <1>19 DEF StopTakesLock, OperatorKilled
  <1>20. ASSUME RuntimeDies PROVE OneGeneration'
    BY <1>1, <1>20 DEF RuntimeDies, OneGeneration
  <1>21. ASSUME UNCHANGED vars PROVE OneGeneration'
    BY <1>1, <1>21 DEF vars
  <1> QED
    BY <1>2, <1>3, <1>4, <1>5, <1>6, <1>7, <1>8, <1>9, <1>10, <1>11, <1>12,
        <1>13, <1>14, <1>15, <1>16, <1>17, <1>18, <1>19, <1>20, <1>21 DEF
        Next, ClientStep, RestoreStep, LeaseStep, ClientEvent, StopStep

-----------------------------------------------------------------------------
(* The theorems.                                                           *)

\* The initial table is a stopped shelf with no process around it.
LEMMA InitInv == Init => IInv
  <1> SUFFICES ASSUME Init PROVE IInv
    OBVIOUS
  <1>1. TypeOK
    BY DEF Init, TypeOK, ControlTypes, PoolRecord
  <1>2. TableShape /\ OneGeneration /\ QuarantineSticks
    BY DEF Init, TableShape, WellShaped, OneGeneration, QuarantineSticks
  <1>3. LockInv
    BY ClientsAssumption DEF Init, LockInv
  <1>4. LaunchInv /\ StopInv /\ HoldInv
    BY DEF Init, LaunchInv, StopInv, HoldInv, Holding
  <1> QED BY <1>1, <1>2, <1>3, <1>4 DEF IInv

\* IInv is inductive.
LEMMA StepInv == IInv /\ [Next]_vars => IInv'
  BY TypeStep, TableStep, GenerationStep, QuarantineStep, LockStep,
     LaunchStep, StopVerdictStep, HoldStep
  DEF IInv, TypeOK

\* The inductive invariant holds in every reachable state.
THEOREM Invariance == Spec => []IInv
  BY InitInv, StepInv, PTL DEF Spec

\* Every variable keeps its type, whatever seats, clients and operators exist.
THEOREM TypeCorrect == Spec => []TypeOK
  <1>1. IInv => TypeOK
    BY DEF IInv
  <1> QED BY Invariance, <1>1, PTL

\* pool.json is never half-way, for every number of clients, operators and
\* seats: a ready table has exactly its busy rows leased, a stopped or
\* restoring one leases nothing.
THEOREM TableShapeHolds == Spec => []TableShape
  <1>1. IInv => TableShape
    BY DEF IInv
  <1> QED BY Invariance, <1>1, PTL

\* No restored generation runs beside a child or a runtime of an earlier one.
THEOREM OneGenerationHolds == Spec => []OneGeneration
  <1>1. IInv => OneGeneration
    BY DEF IInv
  <1> QED BY Invariance, <1>1, PTL

\* A quarantined generation is never ready again, stop or no stop.
THEOREM QuarantineSticksHolds == Spec => []QuarantineSticks
  <1>1. IInv => QuarantineSticks
    BY DEF IInv
  <1> QED BY Invariance, <1>1, PTL

-----------------------------------------------------------------------------
(* A live owner keeps its seat, where no release can come late: without    *)
(* operators, or without clients that release by seat path.                *)

\* A running client's own pid exists.
PidInv == \A c \in Clients : pc[c] # "gone" => pidAlive[c]

\* Without operators a generation outlives the leases granted in it.
ServeInv ==
  \A c \in Clients :
    Holding(c) => fresh[c] /\ pool.status \in {"ready", "poisoned"}

OwnInv == IInv /\ PidInv /\ OwnerKeepsSeat /\ (Operators = {} => ServeInv)

\* Only the end of a process frees its pid.
LEMMA PidStep ==
  ASSUME ControlTypes, PidInv, [Next]_vars
  PROVE  PidInv'
  <1> USE DEF tableVars, runtimeVars, clientVars, lockVars
  <1>1. ASSUME UNCHANGED <<pc, pidAlive>> PROVE PidInv'
    BY <1>1 DEF PidInv
  <1>2. ASSUME NEW c \in Clients, Demote(c) \/ ChildEnds(c)
        PROVE  PidInv'
    BY <1>1, <1>2 DEF Demote, ChildEnds
  <1>3. ASSUME NEW c \in Clients, Start(c)
        PROVE  PidInv'
    BY <1>3 DEF Start, PidInv, ControlTypes
  <1>4. ASSUME NEW c \in Clients, TakeLifecycleLock(c)
        PROVE  PidInv'
    BY <1>4 DEF TakeLifecycleLock, PidInv, ControlTypes
  <1>5. ASSUME NEW c \in Clients, TakePoolLock(c)
        PROVE  PidInv'
    BY <1>5 DEF TakePoolLock, PidInv, ControlTypes
  <1>6. ASSUME NEW c \in Clients, AlreadyLive(c)
        PROVE  PidInv'
    BY <1>6 DEF AlreadyLive, RestoreReturns, PidInv, ControlTypes
  <1>7. ASSUME NEW c \in Clients, Unavailable(c)
        PROVE  PidInv'
    BY <1>7 DEF Unavailable, Exit, PidInv, ControlTypes
  <1>8. ASSUME NEW c \in Clients, BeginRestore(c)
        PROVE  PidInv'
    BY <1>8 DEF BeginRestore, PidInv, ControlTypes
  <1>9. ASSUME NEW c \in Clients, PublishReady(c)
        PROVE  PidInv'
    BY <1>9 DEF PublishReady, RestoreReturns, PidInv, ControlTypes
  <1>10. ASSUME NEW c \in Clients, RestoreFails(c)
        PROVE  PidInv'
    BY <1>10 DEF RestoreFails, Exit, PidInv, ControlTypes
  <1>11. ASSUME NEW c \in Clients, Checkout(c)
        PROVE  PidInv'
    BY <1>11 DEF Checkout, PidInv, ControlTypes
  <1>12. ASSUME NEW c \in Clients, CheckoutRefused(c)
        PROVE  PidInv'
    BY <1>12 DEF CheckoutRefused, Exit, PidInv, ControlTypes
  <1>13. ASSUME NEW c \in Clients, Dispatch(c)
        PROVE  PidInv'
    BY <1>13 DEF Dispatch, PidInv, ControlTypes
  <1>14. ASSUME NEW c \in Clients, DispatchRefused(c)
        PROVE  PidInv'
    BY <1>14 DEF DispatchRefused, Verdict, PidInv, ControlTypes
  <1>15. ASSUME NEW c \in Clients, ChildFinishes(c)
        PROVE  PidInv'
    BY <1>15 DEF ChildFinishes, Verdict, PidInv, ControlTypes
  <1>16. ASSUME NEW c \in Clients, ChildUnverified(c)
        PROVE  PidInv'
    BY <1>16 DEF ChildUnverified, Verdict, PidInv, ControlTypes
  <1>17. ASSUME NEW c \in Clients, ReleaseByPath(c)
        PROVE  PidInv'
    BY <1>17 DEF ReleaseByPath, Exit, PidInv, ControlTypes
  <1>18. ASSUME NEW c \in Clients, FinalizeLease(c)
        PROVE  PidInv'
    BY <1>18 DEF FinalizeLease, Exit, PidInv, ControlTypes
  <1>19. ASSUME NEW c \in Clients, InterruptBeforeDispatch(c)
        PROVE  PidInv'
    BY <1>19 DEF InterruptBeforeDispatch, Verdict, PidInv, ControlTypes
  <1>20. ASSUME NEW c \in Clients, InterruptVerified(c)
        PROVE  PidInv'
    BY <1>20 DEF InterruptVerified, Verdict, PidInv, ControlTypes
  <1>21. ASSUME NEW c \in Clients, Kill(c)
        PROVE  PidInv'
    BY <1>21 DEF Kill, Exit, PidInv, ControlTypes
  <1>22. ASSUME NEW c \in Clients, PidReused(c)
        PROVE  PidInv'
    BY <1>22 DEF PidReused, PidInv, ControlTypes
  <1>23. ASSUME NEW c \in Clients, PidFreed(c)
        PROVE  PidInv'
    BY <1>23 DEF PidFreed, PidInv, ControlTypes
  <1>24. ASSUME NEW o \in Operators, StopTakesLock(o) \/ StopMarks(o) \/
               StopVerified(o) \/ StopUnverified(o) \/ StopRecords(o) \/
               OperatorKilled(o)
        PROVE  PidInv'
    BY <1>1, <1>24 DEF StopTakesLock, StopMarks, StopVerified,
        StopUnverified, StopRecords, OperatorKilled
  <1>25. ASSUME RuntimeDies PROVE PidInv'
    BY <1>1, <1>25 DEF RuntimeDies, PidInv
  <1>26. ASSUME UNCHANGED vars PROVE PidInv'
    BY <1>1, <1>26 DEF vars
  <1> QED
    BY <1>2, <1>3, <1>4, <1>5, <1>6, <1>7, <1>8, <1>9, <1>10, <1>11, <1>12,
        <1>13, <1>14, <1>15, <1>16, <1>17, <1>18, <1>19, <1>20, <1>21,
        <1>22, <1>23, <1>24, <1>25, <1>26 DEF Next, ClientStep, RestoreStep,
        LeaseStep, ClientEvent, StopStep

\* A client that moves to a point without a lease, or ends, holds nothing.
LEMMA ServeAway ==
  ASSUME ControlTypes, ServeInv, NEW c \in Clients,
         pool'.status \in {pool.status, "poisoned"},
         NEW st \in {"gone", "start", "locking", "preflight", "checkout"},
         pc' = [pc EXCEPT ![c] = st],
         UNCHANGED fresh \/ fresh' = [fresh EXCEPT ![c] = FALSE]
  PROVE  ServeInv'
  <1> SUFFICES ASSUME NEW d \in Clients, Holding(d)'
               PROVE  fresh'[d] /\ pool'.status \in {"ready", "poisoned"}
    BY DEF ServeInv
  <1>1. d # c /\ pc'[d] = pc[d] /\ Holding(d)
    BY DEF Holding, ControlTypes
  <1>2. fresh'[d] = fresh[d]
    BY <1>1 DEF ControlTypes
  <1> QED BY <1>1, <1>2 DEF ServeInv

\* A restore finds no client under a lease: leased tables are not demoted.
LEMMA ServeStep ==
  ASSUME Operators = {}, ControlTypes, HoldInv, LaunchInv, OwnerKeepsSeat, ServeInv, [Next]_vars
  PROVE  ServeInv'
  <1> USE DEF tableVars, runtimeVars, clientVars, lockVars
  <1>1. ASSUME UNCHANGED <<pool, pc, fresh>> PROVE ServeInv'
    BY <1>1 DEF ServeInv, Holding
  <1>2. ASSUME NEW c \in Clients, PidReused(c) \/ PidFreed(c) \/
               ChildEnds(c)
        PROVE  ServeInv'
    BY <1>1, <1>2 DEF PidReused, PidFreed, ChildEnds
  <1>3. ASSUME NEW c \in Clients, Start(c)
        PROVE  ServeInv'
    BY <1>3, ServeAway DEF Start
  <1>4. ASSUME NEW c \in Clients, TakeLifecycleLock(c)
        PROVE  ServeInv'
    BY <1>4, ServeAway DEF TakeLifecycleLock
  <1>5. ASSUME NEW c \in Clients, TakePoolLock(c)
        PROVE  ServeInv'
    BY <1>5, ServeAway DEF TakePoolLock
  <1>6. ASSUME NEW c \in Clients, AlreadyLive(c)
        PROVE  ServeInv'
    BY <1>6, ServeAway DEF AlreadyLive, RestoreReturns
  <1>7. ASSUME NEW c \in Clients, Demote(c)
        PROVE  ServeInv'
    <2>1. ASSUME NEW d \in Clients, Holding(d) PROVE FALSE
      <3>1. pool.lease[mine[d]] = d /\ mine[d] \in Seats
        BY <1>7, <2>1 DEF Demote, Demotable, ServeInv, OwnerKeepsSeat, HoldInv
      <3> QED BY <1>7, <3>1, ClientsAssumption DEF Demote, Demotable
    <2> QED BY <1>7, <2>1 DEF Demote, ServeInv, Holding
  <1>8. ASSUME NEW c \in Clients, Unavailable(c)
        PROVE  ServeInv'
    BY <1>8, ServeAway DEF Unavailable, Exit
  <1>9. ASSUME NEW c \in Clients, BeginRestore(c)
        PROVE  ServeInv'
    BY <1>9 DEF BeginRestore, Activatable, ServeInv, Holding, ControlTypes
  <1>10. ASSUME NEW c \in Clients, PublishReady(c)
        PROVE  ServeInv'
    BY <1>10 DEF PublishReady, RestoreReturns, LaunchInv, ServeInv, Holding,
        ControlTypes
  <1>11. ASSUME NEW c \in Clients, RestoreFails(c)
        PROVE  ServeInv'
    BY <1>11 DEF RestoreFails, Exit, LaunchInv, ServeInv, Holding,
        ControlTypes
  <1>12. ASSUME NEW c \in Clients, Checkout(c)
        PROVE  ServeInv'
    <2>1. pool.status = "ready" /\ pool'.status = "ready"
      BY <1>12, TableStatus DEF Checkout
    <2>2. \A d \in Clients \ {c} : pc'[d] = pc[d] /\ fresh'[d] = fresh[d]
      BY <1>12 DEF Checkout, ControlTypes
    <2>3. fresh'[c]
      BY <1>12 DEF Checkout, ControlTypes
    <2> QED BY <2>1, <2>2, <2>3 DEF ServeInv, Holding
  <1>13. ASSUME NEW c \in Clients, CheckoutRefused(c)
        PROVE  ServeInv'
    BY <1>13, TableStatus, ServeAway DEF CheckoutRefused, Exit
  <1>14. ASSUME NEW c \in Clients, Dispatch(c)
        PROVE  ServeInv'
    BY <1>14 DEF Dispatch, ServeInv, Holding, ControlTypes
  <1>15. ASSUME NEW c \in Clients, DispatchRefused(c)
        PROVE  ServeInv'
    BY <1>15 DEF DispatchRefused, Verdict, ServeInv, Holding, ControlTypes
  <1>16. ASSUME NEW c \in Clients, ChildFinishes(c)
        PROVE  ServeInv'
    BY <1>16 DEF ChildFinishes, Verdict, ServeInv, Holding, ControlTypes
  <1>17. ASSUME NEW c \in Clients, ChildUnverified(c)
        PROVE  ServeInv'
    BY <1>17 DEF ChildUnverified, Verdict, ServeInv, Holding, ControlTypes
  <1>18. ASSUME NEW c \in Clients, InterruptBeforeDispatch(c)
        PROVE  ServeInv'
    BY <1>18 DEF InterruptBeforeDispatch, Verdict, ServeInv, Holding,
        ControlTypes
  <1>19. ASSUME NEW c \in Clients, InterruptVerified(c)
        PROVE  ServeInv'
    BY <1>19 DEF InterruptVerified, Verdict, ServeInv, Holding, ControlTypes
  <1>20. ASSUME NEW c \in Clients, ReleaseByPath(c)
        PROVE  ServeInv'
    BY <1>20, TableStatus, ServeAway DEF ReleaseByPath, Exit
  <1>21. ASSUME NEW c \in Clients, FinalizeLease(c)
        PROVE  ServeInv'
    <2>1. pool'.status \in {pool.status, "poisoned"}
      BY <1>21, TableStatus DEF FinalizeLease
    <2> QED BY <1>21, <2>1, ServeAway DEF FinalizeLease, Exit
  <1>22. ASSUME NEW c \in Clients, Kill(c)
        PROVE  ServeInv'
    BY <1>22, ServeAway DEF Kill, Exit
  <1>23. ASSUME NEW o \in Operators, StopTakesLock(o)
        PROVE  ServeInv'
    BY <1>23 DEF StopTakesLock
  <1>24. ASSUME NEW o \in Operators, StopMarks(o)
        PROVE  ServeInv'
    BY <1>24 DEF StopMarks
  <1>25. ASSUME NEW o \in Operators, StopVerified(o)
        PROVE  ServeInv'
    BY <1>25 DEF StopVerified
  <1>26. ASSUME NEW o \in Operators, StopUnverified(o)
        PROVE  ServeInv'
    BY <1>26 DEF StopUnverified
  <1>27. ASSUME NEW o \in Operators, StopRecords(o)
        PROVE  ServeInv'
    BY <1>27 DEF StopRecords
  <1>28. ASSUME NEW o \in Operators, OperatorKilled(o)
        PROVE  ServeInv'
    BY <1>28 DEF OperatorKilled
  <1>29. ASSUME RuntimeDies PROVE ServeInv'
    BY <1>1, <1>29 DEF RuntimeDies, ServeInv, Holding
  <1>30. ASSUME UNCHANGED vars PROVE ServeInv'
    BY <1>1, <1>30 DEF vars
  <1> QED
    BY <1>2, <1>3, <1>4, <1>5, <1>6, <1>7, <1>8, <1>9, <1>10, <1>11, <1>12,
        <1>13, <1>14, <1>15, <1>16, <1>17, <1>18, <1>19, <1>20, <1>21,
        <1>22, <1>23, <1>24, <1>25, <1>26, <1>27, <1>28, <1>29, <1>30 DEF
        Next, ClientStep, RestoreStep, LeaseStep, ClientEvent, StopStep

\* A client ends, or moves to a point without a lease, and no other client
\* loses its row of a ready table.
LEMMA OwnerAway ==
  ASSUME ControlTypes, OwnerKeepsSeat, NEW c \in Clients,
         NEW st \in {"gone", "start", "locking", "preflight", "checkout"},
         pc' = [pc EXCEPT ![c] = st],
         UNCHANGED fresh \/ fresh' = [fresh EXCEPT ![c] = FALSE],
         UNCHANGED mine,
         pool'.status = "ready" => pool.status = "ready",
         \A d \in Clients \ {c} :
           /\ pool.status = "ready" /\ Holding(d)
           /\ pool.lease[mine[d]] = d
           => pool'.lease[mine[d]] = d
  PROVE  OwnerKeepsSeat'
  <1> SUFFICES ASSUME NEW d \in Clients, Holding(d)', fresh'[d],
                      pool'.status = "ready"
               PROVE  pool'.lease[mine[d]] = d
    BY DEF OwnerKeepsSeat
  <1>1. d # c /\ Holding(d)
    BY DEF Holding, ControlTypes
  <1>2. fresh[d]
    BY <1>1 DEF ControlTypes
  <1> QED BY <1>1, <1>2 DEF OwnerKeepsSeat

\* Leased rows of live owners survive the sweep of a checkout.
LEMMA SweepKeeps ==
  ASSUME TypeOK, TableShape, PidInv, pool.status = "ready",
         NEW s \in Seats, NEW d \in Clients, pool.lease[s] = d, pc[d] # "gone"
  PROVE  /\ CheckoutTable.lease[s] = d
         /\ s \notin Candidates(CheckoutTable)
  <1>1. ReadyRows(pool) /\ d # None
    BY ClientsAssumption DEF TableShape, WellShaped, ReadyRows
  <1>2. CheckoutTable.lease[s] = d /\ ReadyRows(CheckoutTable)
    BY <1>1, CheckoutTableLemma DEF PidInv
  <1> QED BY <1>1, <1>2 DEF ReadyRows, Candidates

\* No step takes the row of a client that works under a lease.
LEMMA OwnerStep ==
  ASSUME OwnInv, Operators = {} \/ Vanilla = {}, [Next]_vars
  PROVE  OwnerKeepsSeat'
  <1> USE DEF OwnInv, IInv, TypeOK, tableVars, runtimeVars, clientVars, lockVars
  <1>1. ASSUME UNCHANGED <<pool, pc, mine, fresh>> PROVE OwnerKeepsSeat'
    BY <1>1 DEF OwnerKeepsSeat, Holding
  <1>2. ASSUME NEW c \in Clients, PidReused(c) \/ PidFreed(c) \/
               ChildEnds(c)
        PROVE  OwnerKeepsSeat'
    BY <1>1, <1>2 DEF PidReused, PidFreed, ChildEnds
  <1>3. ASSUME NEW c \in Clients, Start(c)
        PROVE  OwnerKeepsSeat'
    BY <1>3, OwnerAway DEF Start
  <1>4. ASSUME NEW c \in Clients, TakeLifecycleLock(c)
        PROVE  OwnerKeepsSeat'
    BY <1>4, OwnerAway DEF TakeLifecycleLock
  <1>5. ASSUME NEW c \in Clients, TakePoolLock(c)
        PROVE  OwnerKeepsSeat'
    BY <1>5, OwnerAway DEF TakePoolLock
  <1>6. ASSUME NEW c \in Clients, AlreadyLive(c)
        PROVE  OwnerKeepsSeat'
    BY <1>6, OwnerAway DEF AlreadyLive, RestoreReturns
  <1>7. ASSUME NEW c \in Clients, Unavailable(c)
        PROVE  OwnerKeepsSeat'
    BY <1>7, OwnerAway DEF Unavailable, Exit
  <1>8. ASSUME NEW c \in Clients, Demote(c) \/ BeginRestore(c) \/
               RestoreFails(c)
        PROVE  OwnerKeepsSeat'
    BY <1>8 DEF Demote, BeginRestore, RestoreFails, Exit, MarkPool,
        OwnerKeepsSeat
  <1>9. ASSUME NEW c \in Clients, PublishReady(c)
        PROVE  OwnerKeepsSeat'
    BY <1>9 DEF PublishReady, RestoreReturns, OwnerKeepsSeat, ControlTypes
  <1>10. ASSUME NEW c \in Clients, Checkout(c)
        PROVE  OwnerKeepsSeat'
    <2>1. PICK s \in Candidates(CheckoutTable) :
            /\ pool' = Granted(CheckoutTable, s, c)
            /\ mine' = [mine EXCEPT ![c] = s]
      BY <1>10 DEF Checkout
    <2>2. /\ pool.status = "ready"
          /\ s \in Seats
          /\ CheckoutTable \in PoolRecord
      BY <1>10, TableTypes DEF Checkout
    <2>3. pool'.lease = [CheckoutTable.lease EXCEPT ![s] = c]
      BY <2>1 DEF Granted
    <2>4. mine'[c] = s /\ pool'.lease[s] = c
      BY <2>1, <2>2, <2>3 DEF TypeOK, ControlTypes, PoolRecord
    <2>5. ASSUME NEW d \in Clients \ {c}, Holding(d)', fresh'[d]
          PROVE  pool'.lease[mine'[d]] = d
      <3>1. /\ pc[d] = pc'[d] /\ Holding(d) /\ fresh[d]
            /\ mine'[d] = mine[d] /\ mine[d] \in Seats
        BY <1>10, <2>1, <2>5 DEF Checkout, Holding, HoldInv, TypeOK, ControlTypes
      <3>2. pool.lease[mine[d]] = d /\ pc[d] # "gone"
        BY <2>2, <3>1 DEF OwnerKeepsSeat, Holding
      <3>3. CheckoutTable.lease[mine[d]] = d /\ mine[d] # s
        BY <2>1, <2>2, <3>1, <3>2, SweepKeeps
      <3> QED BY <2>2, <2>3, <3>1, <3>3 DEF PoolRecord
    <2> QED BY <2>4, <2>5 DEF OwnerKeepsSeat
  <1>11. ASSUME NEW c \in Clients, CheckoutRefused(c)
        PROVE  OwnerKeepsSeat'
    <2>1. CASE pool' = pool
      BY <1>11, <2>1, OwnerAway DEF CheckoutRefused, Exit, TypeOK
    <2>2. CASE /\ pool.status = "ready"
               /\ \/ pool' = CheckoutTable
                  \/ pool' = Mark(CheckoutTable, Candidates(CheckoutTable), "dead")
      <3>1. CheckoutTable \in PoolRecord /\ Candidates(CheckoutTable) \in SUBSET Seats
        BY TableTypes
      <3>2. \A s \in Seats \ Candidates(CheckoutTable) :
              pool'.lease[s] = CheckoutTable.lease[s]
        BY <2>2, <3>1, MarkLemma
      <3>3. ASSUME NEW d \in Clients \ {c}, Holding(d), pool.lease[mine[d]] = d
            PROVE  pool'.lease[mine[d]] = d
        <4>1. mine[d] \in Seats /\ pc[d] # "gone"
          BY <3>3 DEF HoldInv, Holding
        <4> QED BY <2>2, <3>2, <3>3, <4>1, SweepKeeps
      <3> QED BY <1>11, <2>2, <3>3, OwnerAway DEF CheckoutRefused, Exit, TypeOK
    <2> QED BY <1>11, <2>1, <2>2 DEF CheckoutRefused
  <1>12. ASSUME NEW c \in Clients, Dispatch(c)
        PROVE  OwnerKeepsSeat'
    BY <1>12 DEF Dispatch, OwnerKeepsSeat, Holding, ControlTypes
  <1>13. ASSUME NEW c \in Clients, DispatchRefused(c)
        PROVE  OwnerKeepsSeat'
    BY <1>13 DEF DispatchRefused, Verdict, OwnerKeepsSeat, Holding,
        ControlTypes
  <1>14. ASSUME NEW c \in Clients, ChildFinishes(c)
        PROVE  OwnerKeepsSeat'
    BY <1>14 DEF ChildFinishes, Verdict, OwnerKeepsSeat, Holding,
        ControlTypes
  <1>15. ASSUME NEW c \in Clients, ChildUnverified(c)
        PROVE  OwnerKeepsSeat'
    BY <1>15 DEF ChildUnverified, Verdict, OwnerKeepsSeat, Holding,
        ControlTypes
  <1>16. ASSUME NEW c \in Clients, InterruptBeforeDispatch(c)
        PROVE  OwnerKeepsSeat'
    BY <1>16 DEF InterruptBeforeDispatch, Verdict, OwnerKeepsSeat, Holding,
        ControlTypes
  <1>17. ASSUME NEW c \in Clients, InterruptVerified(c)
        PROVE  OwnerKeepsSeat'
    BY <1>17 DEF InterruptVerified, Verdict, OwnerKeepsSeat, Holding,
        ControlTypes
  <1>18. ASSUME NEW c \in Clients, ReleaseByPath(c)
        PROVE  OwnerKeepsSeat'
    <2>1. /\ Operators = {} /\ Holding(c) /\ mine[c] \in Seats
          /\ pool.status = "ready" => pool.lease[mine[c]] = c
      BY <1>18 DEF ReleaseByPath, Holding, HoldInv, ServeInv, OwnerKeepsSeat
    <2>2. pool'.status = pool.status
      BY <1>18, TableStatus DEF ReleaseByPath
    <2>3. \A s \in Seats : pool.status = "ready" /\ s # mine[c]
                            => pool'.lease[s] = pool.lease[s]
      BY <1>18, TableTypes, MarkLemma DEF ReleaseByPath, Released
    <2>4. \A d \in Clients : Holding(d) => mine[d] \in Seats
      BY DEF HoldInv
    <2> QED BY <1>18, <2>1, <2>2, <2>3, <2>4, OwnerAway DEF ReleaseByPath, Exit, TypeOK
  <1>19. ASSUME NEW c \in Clients, FinalizeLease(c)
        PROVE  OwnerKeepsSeat'
    <2>1. CASE UNCHANGED tableVars
      BY <1>19, <2>1, OwnerAway DEF FinalizeLease, Exit, TypeOK
    <2>2. CASE pool.lease[mine[c]] = c /\ pool' = Released(pool, mine[c])
      <3>1. pool'.status = pool.status
        BY <2>2, TableStatus
      <3>2. \A s \in Seats : pool.status = "ready" /\ s # mine[c]
                              => pool'.lease[s] = pool.lease[s]
        BY <2>2, TableTypes, MarkLemma DEF Released
      <3>3. \A d \in Clients : Holding(d) => mine[d] \in Seats
        BY DEF HoldInv
      <3> QED BY <1>19, <2>2, <3>1, <3>2, <3>3, OwnerAway DEF FinalizeLease, Exit, TypeOK
    <2>3. CASE pool' = Quarantine(pool, mine[c])
      BY <2>3, TableStatus DEF OwnerKeepsSeat
    <2> QED BY <1>19, <2>1, <2>2, <2>3 DEF FinalizeLease
  <1>20. ASSUME NEW c \in Clients, Kill(c)
        PROVE  OwnerKeepsSeat'
    BY <1>20, OwnerAway DEF Kill, Exit
  <1>21. ASSUME NEW o \in Operators, StopMarks(o)
        PROVE  OwnerKeepsSeat'
    BY <1>21 DEF StopMarks, Relabel, OwnerKeepsSeat
  <1>22. ASSUME NEW o \in Operators, StopRecords(o)
        PROVE  OwnerKeepsSeat'
    BY <1>22 DEF StopRecords, Relabel, MarkPool, OwnerKeepsSeat
  <1>23. ASSUME NEW o \in Operators, StopTakesLock(o) \/ StopVerified(o) \/
               StopUnverified(o) \/ OperatorKilled(o)
        PROVE  OwnerKeepsSeat'
    BY <1>1, <1>23 DEF StopTakesLock, StopVerified, StopUnverified,
        OperatorKilled
  <1>24. ASSUME RuntimeDies PROVE OwnerKeepsSeat'
    BY <1>1, <1>24 DEF RuntimeDies, OwnerKeepsSeat, Holding
  <1>25. ASSUME UNCHANGED vars PROVE OwnerKeepsSeat'
    BY <1>1, <1>25 DEF vars
  <1> QED
    BY <1>2, <1>3, <1>4, <1>5, <1>6, <1>7, <1>8, <1>9, <1>10, <1>11, <1>12,
        <1>13, <1>14, <1>15, <1>16, <1>17, <1>18, <1>19, <1>20, <1>21,
        <1>22, <1>23, <1>24, <1>25 DEF Next, ClientStep, RestoreStep,
        LeaseStep, ClientEvent, StopStep

\* A live owner keeps its seat of a ready pool, for every number of seats and
\* clients, as long as no stop-profile runs or every client releases by its
\* lease id.
THEOREM OwnerKeepsSeatHolds ==
  ASSUME Operators = {} \/ Vanilla = {}
  PROVE  Spec => []OwnerKeepsSeat
  <1>1. Init => OwnInv
    BY InitInv DEF Init, OwnInv, PidInv, ServeInv, OwnerKeepsSeat, Holding
  <1>2. OwnInv /\ [Next]_vars => OwnInv'
    BY StepInv, PidStep, ServeStep, OwnerStep DEF OwnInv, IInv, TypeOK
  <1>3. OwnInv => OwnerKeepsSeat
    BY DEF OwnInv
  <1> QED BY <1>1, <1>2, <1>3, PTL DEF Spec

-----------------------------------------------------------------------------
(* The leases: no two holders share a mechanical control session, and the  *)
(* table is one implementation of the lease service of module SeatLease.   *)
(* Both rest on OwnInv and hold where no release can come late: without    *)
(* operators, or without clients that release by seat path.                *)

\* A row names only a client past its checkout, or one that is gone.
NoEarlyLease ==
  \A c \in Clients, s \in Seats :
    pool.lease[s] = c => Holding(c) \/ pc[c] = "gone"

\* A stop that has marked the table keeps it from being ready.
StopClosed ==
  \A o \in Operators :
    opc[o] \in {"stopping", "verified", "unverified"} => pool.status # "ready"

LeaseInv == OwnInv /\ NoEarlyLease /\ StopClosed /\ OneHolderPerControl

-----------------------------------------------------------------------------
(* The table operators and the leases.                                     *)

\* No operation on the table except a grant gives a row to anybody.
LEMMA LeasesShrink ==
  ASSUME TypeOK, NEW s \in Seats
  PROVE  /\ CheckoutTable.lease[s] \in {None, pool.lease[s]}
         /\ \A S \in SUBSET Seats, st \in SeatStatus :
              Mark(CheckoutTable, S, st).lease[s] \in {None, pool.lease[s]}
         /\ \A t \in Seats : Released(pool, t).lease[s] \in {None, pool.lease[s]}
         /\ \A t \in Seats : Quarantine(pool, t).lease[s] \in {None, pool.lease[s]}
  <1>1. /\ pool \in PoolRecord
        /\ ReclaimStaleLeases(pool) \in PoolRecord
        /\ CheckoutTable \in PoolRecord
    BY TableTypes
  <1>2. ReclaimStaleLeases(pool).lease[s] \in {None, pool.lease[s]}
    BY <1>1, MarkLemma DEF ReclaimStaleLeases
  <1>3. CheckoutTable.lease[s] \in {None, pool.lease[s]}
    BY <1>1, <1>2, MarkLemma DEF CheckoutTable, AnnotateBasisState
  <1>4. \A S \in SUBSET Seats, st \in SeatStatus :
          Mark(CheckoutTable, S, st).lease[s] \in {None, pool.lease[s]}
    BY <1>3 DEF Mark
  <1>5. \A t \in Seats : Released(pool, t).lease[s] \in {None, pool.lease[s]}
    <2>1. ASSUME NEW t \in Seats, NEW st \in SeatStatus
          PROVE  Mark(pool, {t}, st).lease[s] \in {None, pool.lease[s]}
      BY DEF Mark
    <2>2. "idle" \in SeatStatus /\ "poisoned" \in SeatStatus
      OBVIOUS
    <2> QED BY <2>1, <2>2 DEF Released
  <1>6. \A t \in Seats : Quarantine(pool, t).lease[s] \in {None, pool.lease[s]}
    BY <1>1, MarkLemma DEF Quarantine
  <1> QED BY <1>3, <1>4, <1>5, <1>6

\* A marked pool has no lease, a relabelled one keeps every lease.
LEMMA WholePoolLeases ==
  /\ \A st, row, b : \A s \in Seats : MarkPool(st, row, b).lease[s] = None
  /\ \A st, b : Relabel(st, b).lease = pool.lease
  BY DEF MarkPool, Relabel

-----------------------------------------------------------------------------
(* The strengthening.                                                      *)

\* A client that ends, or takes a step without a row of its own, and a table
\* in which nobody gains a row.
LEMMA NoGain ==
  ASSUME ControlTypes, NoEarlyLease,
         \A s \in Seats : pool'.lease[s] \in {None, pool.lease[s]},
         \A c \in Clients :
           Holding(c) \/ pc[c] = "gone"
           => Holding(c)' \/ pc'[c] = "gone" \/ \A s \in Seats : pool.lease[s] # c
  PROVE  NoEarlyLease'
  BY ClientsAssumption DEF NoEarlyLease

\* Only a checkout gives a row to a client, and a new client has none.
LEMMA NoEarlyStep ==
  ASSUME TypeOK, HoldInv, NoEarlyLease, [Next]_vars
  PROVE  NoEarlyLease'
  <1> USE DEF TypeOK, ControlTypes, tableVars, runtimeVars, clientVars, lockVars
  <1>1. ASSUME UNCHANGED <<pool, pc>> PROVE NoEarlyLease'
    BY <1>1 DEF NoEarlyLease, Holding
  <1>2. ASSUME NEW c \in Clients, Start(c)
        PROVE  NoEarlyLease'
    BY <1>2, NoGain DEF Start, Holding
  <1>3. ASSUME NEW c \in Clients,
               \/ TakeLifecycleLock(c) \/ TakePoolLock(c) \/ AlreadyLive(c)
               \/ Unavailable(c) \/ Kill(c)
        PROVE  NoEarlyLease'
    BY <1>3, NoGain DEF TakeLifecycleLock, TakePoolLock, AlreadyLive,
       Unavailable, Kill, Exit, RestoreReturns, Holding
  <1>4. ASSUME NEW c \in Clients,
               \/ Demote(c) \/ BeginRestore(c) \/ PublishReady(c)
               \/ RestoreFails(c)
        PROVE  NoEarlyLease'
    <2>1. \A s \in Seats : pool'.lease[s] = None
      BY <1>4, WholePoolLeases DEF Demote, BeginRestore, PublishReady, RestoreFails
    <2> QED BY <2>1, ClientsAssumption DEF NoEarlyLease
  <1>5. ASSUME NEW c \in Clients, Checkout(c)
        PROVE  NoEarlyLease'
    <2>1. PICK s \in Candidates(CheckoutTable) :
            pool' = Granted(CheckoutTable, s, c)
      BY <1>5 DEF Checkout
    <2>2. s \in Seats /\ CheckoutTable \in PoolRecord
      BY TableTypes
    <2>3. \A t \in Seats : pool'.lease[t] \in {None, pool.lease[t], c}
      BY <2>1, <2>2, LeasesShrink DEF Granted, PoolRecord
    <2>4. Holding(c)' /\ \A d \in Clients \ {c} : pc'[d] = pc[d]
      BY <1>5 DEF Checkout, Holding
    <2> QED BY <2>3, <2>4, ClientsAssumption DEF NoEarlyLease, Holding
  <1>6. ASSUME NEW c \in Clients, CheckoutRefused(c)
        PROVE  NoEarlyLease'
    <2>1. Candidates(CheckoutTable) \in SUBSET Seats
      BY DEF Candidates
    <2>2. \A s \in Seats : pool'.lease[s] \in {None, pool.lease[s]}
      BY <1>6, <2>1, LeasesShrink DEF CheckoutRefused
    <2> QED BY <1>6, <2>2, NoGain DEF CheckoutRefused, Exit, Holding
  <1>7. ASSUME NEW c \in Clients,
               \/ Dispatch(c) \/ DispatchRefused(c) \/ ChildFinishes(c)
               \/ ChildUnverified(c) \/ InterruptBeforeDispatch(c)
               \/ InterruptVerified(c)
        PROVE  NoEarlyLease'
    BY <1>7, NoGain DEF Dispatch, DispatchRefused, ChildFinishes,
       ChildUnverified, InterruptBeforeDispatch, InterruptVerified, Verdict,
       Holding
  <1>8. ASSUME NEW c \in Clients, ReleaseByPath(c) \/ FinalizeLease(c)
        PROVE  NoEarlyLease'
    <2>1. mine[c] \in Seats
      BY <1>8 DEF ReleaseByPath, FinalizeLease, HoldInv, Holding
    <2>2. \A s \in Seats : pool'.lease[s] \in {None, pool.lease[s]}
      BY <1>8, <2>1, LeasesShrink DEF ReleaseByPath, FinalizeLease
    <2> QED BY <1>8, <2>2, NoGain DEF ReleaseByPath, FinalizeLease, Exit, Holding
  <1>9. ASSUME NEW c \in Clients, PidReused(c) \/ PidFreed(c) \/ ChildEnds(c)
        PROVE  NoEarlyLease'
    BY <1>1, <1>9 DEF PidReused, PidFreed, ChildEnds
  <1>10. ASSUME NEW o \in Operators, StopMarks(o) \/ StopRecords(o)
         PROVE  NoEarlyLease'
    <2>1. UNCHANGED pc
      BY <1>10 DEF StopMarks, StopRecords
    <2>2. \A s \in Seats : pool'.lease[s] \in {None, pool.lease[s]}
      <3>1. CASE StopMarks(o)
        BY <3>1, WholePoolLeases DEF StopMarks
      <3>2. CASE StopRecords(o) /\ opc[o] = "verified"
        <4>1. pool' = MarkPool("stopped", "stopped", TRUE)
          BY <3>2 DEF StopRecords
        <4> QED BY <4>1 DEF MarkPool
      <3>3. CASE StopRecords(o) /\ opc[o] # "verified"
        BY <3>3, WholePoolLeases DEF StopRecords
      <3> QED BY <1>10, <3>1, <3>2, <3>3
    <2> QED BY <2>1, <2>2, NoGain DEF Holding
  <1>11. ASSUME NEW o \in Operators, StopTakesLock(o) \/ StopVerified(o) \/
               StopUnverified(o) \/ OperatorKilled(o)
         PROVE  NoEarlyLease'
    BY <1>1, <1>11 DEF StopTakesLock, StopVerified, StopUnverified, OperatorKilled
  <1>12. ASSUME RuntimeDies \/ UNCHANGED vars PROVE NoEarlyLease'
    BY <1>1, <1>12 DEF RuntimeDies, vars
  <1> QED
    BY <1>2, <1>3, <1>4, <1>5, <1>6, <1>7, <1>8, <1>9, <1>10, <1>11, <1>12
    DEF Next, ClientStep, RestoreStep, LeaseStep, ClientEvent, StopStep

\* Only the holder of the lifecycle lock makes a table ready, and a stop holds it.
LEMMA StopClosedStep ==
  ASSUME TypeOK, LockInv, StopClosed, [Next]_vars
  PROVE  StopClosed'
  <1> USE DEF TypeOK, ControlTypes, tableVars, runtimeVars, clientVars, lockVars
  <1>1. ASSUME pool'.status \in {pool.status, "poisoned"}, UNCHANGED opc
        PROVE  StopClosed'
    BY <1>1 DEF StopClosed
  <1>2. ASSUME NEW c \in Clients, Start(c) \/ ClientEvent(c)
        PROVE  StopClosed'
    BY <1>1, <1>2 DEF Start, ClientEvent, InterruptBeforeDispatch,
       InterruptVerified, Verdict, Kill, PidReused, PidFreed, ChildEnds
  <1>3. ASSUME NEW c \in Clients,
               \/ TakeLifecycleLock(c) \/ TakePoolLock(c) \/ AlreadyLive(c)
               \/ Unavailable(c)
        PROVE  StopClosed'
    BY <1>1, <1>3 DEF TakeLifecycleLock, TakePoolLock, AlreadyLive, Unavailable
  <1>4. ASSUME NEW c \in Clients, Demote(c) \/ BeginRestore(c) \/ RestoreFails(c)
        PROVE  StopClosed'
    BY <1>4 DEF Demote, BeginRestore, RestoreFails, MarkPool, StopClosed
  <1>5. ASSUME NEW c \in Clients, PublishReady(c)
        PROVE  StopClosed'
    BY <1>5, ClientsAssumption DEF PublishReady, LockInv, StopClosed
  <1>6. ASSUME NEW c \in Clients, LeaseStep(c)
        PROVE  StopClosed'
    <2>1. pool'.status \in {pool.status, "poisoned"}
      BY <1>6, TableStatus DEF LeaseStep, Checkout, CheckoutRefused, Dispatch,
         DispatchRefused, ChildFinishes, ChildUnverified, Verdict,
         ReleaseByPath, FinalizeLease
    <2>2. UNCHANGED opc
      BY <1>6 DEF LeaseStep, Checkout, CheckoutRefused, Dispatch,
         DispatchRefused, ChildFinishes, ChildUnverified, Verdict,
         ReleaseByPath, FinalizeLease
    <2> QED BY <1>1, <2>1, <2>2
  <1>7. ASSUME NEW o \in Operators, StopMarks(o) \/ StopRecords(o)
        PROVE  StopClosed'
    BY <1>7 DEF StopMarks, StopRecords, Relabel, MarkPool, StopClosed
  <1>8. ASSUME NEW o \in Operators, StopTakesLock(o) \/ StopVerified(o) \/
               StopUnverified(o) \/ OperatorKilled(o)
        PROVE  StopClosed'
    BY <1>8 DEF StopTakesLock, StopVerified, StopUnverified, OperatorKilled,
       StopClosed
  <1>9. ASSUME RuntimeDies \/ UNCHANGED vars PROVE StopClosed'
    BY <1>1, <1>9 DEF RuntimeDies, vars
  <1> QED
    BY <1>2, <1>3, <1>4, <1>5, <1>6, <1>7, <1>8, <1>9
    DEF Next, ClientStep, RestoreStep, StopStep

-----------------------------------------------------------------------------
(* One holder of a control session.                                        *)

\* A checkout passes over every row that shares its control session with a
\* holder's row, so the holders it joins have other sessions.
LEMMA ControlStep ==
  ASSUME OwnInv, OneHolderPerControl, [Next]_vars
  PROVE  OneHolderPerControl'
  <1> USE DEF OwnInv, IInv, TypeOK, ControlTypes, tableVars, runtimeVars,
              clientVars, lockVars
  <1>1. ASSUME UNCHANGED mine,
               \A c \in Clients : Holding(c)' /\ fresh'[c] => Holding(c) /\ fresh[c]
        PROVE  OneHolderPerControl'
    BY <1>1 DEF OneHolderPerControl
  <1>2. ASSUME NEW c \in Clients, Start(c) \/ ClientEvent(c)
        PROVE  OneHolderPerControl'
    BY <1>1, <1>2 DEF Start, ClientEvent, InterruptBeforeDispatch,
       InterruptVerified, Verdict, Kill, Exit, PidReused, PidFreed, ChildEnds, Holding
  <1>3. ASSUME NEW c \in Clients, RestoreStep(c)
        PROVE  OneHolderPerControl'
    BY <1>1, <1>3 DEF RestoreStep, TakeLifecycleLock, TakePoolLock, AlreadyLive,
       Demote, Unavailable, BeginRestore, PublishReady, RestoreFails,
       RestoreReturns, Exit, Holding
  <1>4. ASSUME NEW c \in Clients, Checkout(c)
        PROVE  OneHolderPerControl'
    <2>1. PICK s \in Candidates(CheckoutTable) : mine' = [mine EXCEPT ![c] = s]
      BY <1>4 DEF Checkout
    <2>2. pool.status = "ready" /\ s \in Seats /\ mine'[c] = s
      BY <1>4, <2>1, TableTypes DEF Checkout
    <2>3. ASSUME NEW d \in Clients \ {c}, Holding(d)', fresh'[d]
          PROVE  /\ Holding(d) /\ fresh[d] /\ mine'[d] = mine[d]
                 /\ Mechanical => ControlOf[mine[d]] # ControlOf[s]
      <3>1. /\ pc'[d] = pc[d] /\ Holding(d) /\ fresh[d]
            /\ mine'[d] = mine[d] /\ mine[d] \in Seats
        BY <1>4, <2>1, <2>3 DEF Checkout, Holding, HoldInv
      <3>2. CheckoutTable.lease[mine[d]] = d
        BY <2>2, <3>1, SweepKeeps DEF OwnerKeepsSeat, Holding
      <3>3. mine[d] \in Occupied(CheckoutTable)
        BY <3>1, <3>2, ClientsAssumption DEF Occupied
      <3> QED BY <2>1, <3>1, <3>3 DEF Candidates
    <2> QED BY <2>2, <2>3 DEF OneHolderPerControl
  <1>5. ASSUME NEW c \in Clients,
               \/ CheckoutRefused(c) \/ Dispatch(c) \/ DispatchRefused(c)
               \/ ChildFinishes(c) \/ ChildUnverified(c)
               \/ ReleaseByPath(c) \/ FinalizeLease(c)
        PROVE  OneHolderPerControl'
    BY <1>1, <1>5 DEF CheckoutRefused, Dispatch, DispatchRefused, ChildFinishes,
       ChildUnverified, Verdict, ReleaseByPath, FinalizeLease, Exit, Holding
  <1>6. ASSUME NEW o \in Operators, StopTakesLock(o) \/ StopStep(o) \/ OperatorKilled(o)
        PROVE  OneHolderPerControl'
    BY <1>1, <1>6 DEF StopTakesLock, StopStep, StopMarks, StopVerified,
       StopUnverified, StopRecords, OperatorKilled, Holding
  <1>7. ASSUME RuntimeDies \/ UNCHANGED vars PROVE OneHolderPerControl'
    BY <1>1, <1>7 DEF RuntimeDies, vars, Holding
  <1> QED
    BY <1>2, <1>3, <1>4, <1>5, <1>6, <1>7 DEF Next, ClientStep, LeaseStep

-----------------------------------------------------------------------------
(* The lease service.  Each step of the pool is a step of SeatLease, or    *)
(* changes nothing that SeatLease sees.                                    *)

\* What the service sees is the leases, the pids and whether the pool is ready.
LEMMA Unseen ==
  ASSUME UNCHANGED <<pool, pidAlive>> \/
         /\ pool'.lease = pool.lease /\ UNCHANGED pidAlive
         /\ pool'.status # "ready" /\ pool.status # "ready"
  PROVE  UNCHANGED Leases!leaseVars
  BY DEF Leases!leaseVars

\* A pid that appears or disappears beside an unchanged table.
LEMMA TurnoverStep ==
  ASSUME ControlTypes, NEW c \in Clients, NEW b \in BOOLEAN,
         pidAlive' = [pidAlive EXCEPT ![c] = b],
         pool'.lease = pool.lease,
         pool'.status = "ready" <=> pool.status = "ready"
  PROVE  Leases!Turnover(c)
  BY DEF Leases!Turnover, ControlTypes

\* Emptied rows are what the service calls freed seats.
LEMMA FreedRows ==
  ASSUME pool \in PoolRecord, NEW p \in PoolRecord, NEW S \in SUBSET Seats,
         \A s \in Seats : p.lease[s] = IF s \in S THEN None ELSE pool.lease[s]
  PROVE  p.lease = Leases!Freed(S)
  BY DEF PoolRecord, Leases!Freed

\* The rows that a checkout sweeps belong to nobody who runs.
LEMMA SweptAbandoned ==
  ASSUME TypeOK, TableShape, pool.status = "ready"
  PROVE  /\ StaleLeases(pool) \subseteq Leases!Abandoned
         /\ CheckoutTable.lease = Leases!Freed(StaleLeases(pool))
         /\ \A s \in Candidates(CheckoutTable) :
              s \in Leases!Abandoned /\ CheckoutTable.lease[s] = None
  <1> DEFINE r == ReclaimStaleLeases(pool)
             M == {s \in MissingBasis : r.seat[s] = "idle"}
  <1>1. pool \in PoolRecord /\ r \in PoolRecord /\ CheckoutTable \in PoolRecord
    BY TableTypes
  <1>2. ReadyRows(pool)
    BY DEF TableShape, WellShaped, ReadyRows
  <1>3. \A s \in Seats :
          /\ r.seat[s] = IF s \in StaleLeases(pool) THEN "idle" ELSE pool.seat[s]
          /\ r.lease[s] = IF s \in StaleLeases(pool) THEN None ELSE pool.lease[s]
    BY <1>1, MarkLemma DEF ReclaimStaleLeases
  <1>4. \A s \in Seats :
          /\ CheckoutTable.seat[s] = IF s \in M THEN "basis_missing" ELSE r.seat[s]
          /\ CheckoutTable.lease[s] = IF s \in M THEN None ELSE r.lease[s]
    <2>1. CheckoutTable = Mark(r, M, "basis_missing")
      BY DEF CheckoutTable, AnnotateBasisState
    <2> HIDE DEF r, M
    <2> QED BY <1>1, <2>1, MarkLemma
  <1>5. \A s \in Seats : r.seat[s] = "idle" => r.lease[s] = None
    BY <1>2, <1>3 DEF ReadyRows
  <1>6. \A s \in Seats :
          CheckoutTable.lease[s] = IF s \in StaleLeases(pool) THEN None
                                   ELSE pool.lease[s]
    BY <1>3, <1>4, <1>5
  <1>7. StaleLeases(pool) \in SUBSET Seats
    BY DEF StaleLeases
  <1>8. StaleLeases(pool) \subseteq Leases!Abandoned
    BY DEF StaleLeases, Leases!Abandoned
  <1>9. CheckoutTable.lease = Leases!Freed(StaleLeases(pool))
    BY <1>1, <1>6, <1>7, FreedRows
  <1>10. ASSUME NEW s \in Candidates(CheckoutTable)
         PROVE  s \in Leases!Abandoned /\ CheckoutTable.lease[s] = None
    <2>1. s \in Seats /\ CheckoutTable.seat[s] = "idle"
      BY <1>10 DEF Candidates
    <2>2. r.seat[s] = "idle" /\ CheckoutTable.lease[s] = None
      BY <1>4, <1>5, <2>1
    <2>3. CASE s \in StaleLeases(pool)
      BY <1>8, <2>2, <2>3
    <2>4. CASE s \notin StaleLeases(pool)
      <3>1. pool.lease[s] = None
        BY <1>2, <1>3, <2>1, <2>2, <2>4 DEF ReadyRows
      <3> QED BY <2>1, <2>2, <3>1, ClientsAssumption DEF Leases!Abandoned
    <2> QED BY <2>3, <2>4
  <1> QED BY <1>8, <1>9, <1>10

\* A checkout takes a free or abandoned seat, or is refused, and sweeps
\* abandoned seats in both cases.
LEMMA CheckoutLeases ==
  ASSUME LeaseInv, TypeOK', NEW c \in Clients, Checkout(c) \/ CheckoutRefused(c)
  PROVE  Leases!Next
  <1> USE DEF LeaseInv, OwnInv, IInv
  <1>1. /\ pool \in PoolRecord /\ pool' \in PoolRecord
        /\ CheckoutTable \in PoolRecord /\ ControlTypes
        /\ StaleLeases(pool) \in SUBSET Seats
    BY TableTypes DEF TypeOK, StaleLeases
  <1>2. CASE Checkout(c)
    <2>1. PICK s \in Candidates(CheckoutTable) :
            pool' = Granted(CheckoutTable, s, c)
      BY <1>2 DEF Checkout
    <2>2. pool.status = "ready" /\ pc[c] = "checkout" /\ UNCHANGED pidAlive
      BY <1>2 DEF Checkout
    <2>3. pool'.status = "ready" /\ pool'.lease = [CheckoutTable.lease EXCEPT ![s] = c]
      BY <2>1, <2>2, TableStatus DEF Granted
    <2>4. c \in {d \in Clients : pidAlive[d]}
      BY <2>2 DEF PidInv
    <2>5. \A t \in Seats : pool.lease[t] # c
      BY <2>2 DEF NoEarlyLease, Holding
    <2>6. /\ StaleLeases(pool) \in SUBSET Leases!Abandoned
          /\ s \in Leases!Abandoned
          /\ pool'.lease = [Leases!Freed(StaleLeases(pool)) EXCEPT ![s] = c]
      BY <2>2, <2>3, SweptAbandoned
    <2>7. Leases!Grant(c, s)
      BY <2>2, <2>3, <2>4, <2>5, <2>6 DEF Leases!Grant
    <2>8. s \in Seats
      BY DEF Candidates
    <2> QED BY <2>7, <2>8 DEF Leases!Next
  <1>3. CASE CheckoutRefused(c)
    <2>1. pidAlive' = [pidAlive EXCEPT ![c] = FALSE]
      BY <1>3 DEF CheckoutRefused, Exit
    <2>2. CASE pool' = pool
      BY <1>1, <2>1, <2>2, TurnoverStep DEF Leases!Next
    <2>3. CASE /\ pool.status = "ready"
               /\ \/ pool' = CheckoutTable
                  \/ pool' = Mark(CheckoutTable, Candidates(CheckoutTable), "dead")
      <3>1. StaleLeases(pool) \in SUBSET Leases!Abandoned
        BY <2>3, SweptAbandoned
      <3>2. CheckoutTable.lease = Leases!Freed(StaleLeases(pool))
        BY <2>3, SweptAbandoned
      <3>3. pool'.lease = Leases!Freed(StaleLeases(pool))
        <4>1. CASE pool' = CheckoutTable
          BY <3>2, <4>1
        <4>2. CASE pool' = Mark(CheckoutTable, Candidates(CheckoutTable), "dead")
          <5>1. \A t \in Seats : pool'.lease[t] = CheckoutTable.lease[t]
            BY <1>1, <2>3, <4>2, MarkLemma, SweptAbandoned
          <5>2. \A t \in Seats : pool'.lease[t] = IF t \in StaleLeases(pool) THEN None
                                                  ELSE pool.lease[t]
            BY <3>2, <5>1 DEF Leases!Freed
          <5> QED BY <1>1, <5>2, FreedRows
        <4> QED BY <2>3, <4>1, <4>2
      <3>4. pool'.status = "ready"
        BY <2>3, TableStatus
      <3>5. {d \in Clients : pidAlive'[d]} = {d \in Clients : pidAlive[d]} \ {c}
        BY <1>1, <2>1 DEF ControlTypes
      <3>6. Leases!Refuse(c)
        BY <2>3, <3>1, <3>3, <3>4, <3>5 DEF Leases!Refuse
      <3> QED BY <3>6 DEF Leases!Next
    <2> QED BY <1>3, <2>2, <2>3 DEF CheckoutRefused
  <1> QED BY <1>2, <1>3

\* A release frees the client's own row of a ready table; in a poisoned table
\* and after a quarantine the rows are withdrawn.
LEMMA ReleaseLeases ==
  ASSUME LeaseInv, TypeOK', Operators = {} \/ Vanilla = {},
         NEW c \in Clients, ReleaseByPath(c) \/ FinalizeLease(c)
  PROVE  Leases!Next
  <1> USE DEF LeaseInv, OwnInv, IInv
  <1>1. /\ pool \in PoolRecord /\ pool' \in PoolRecord /\ ControlTypes
        /\ mine[c] \in Seats /\ Holding(c)
    BY DEF TypeOK, HoldInv, Holding, ReleaseByPath, FinalizeLease
  <1>2. pidAlive' = [pidAlive EXCEPT ![c] = FALSE]
    BY DEF ReleaseByPath, FinalizeLease, Exit
  <1>3. {d \in Clients : pidAlive'[d]} = {d \in Clients : pidAlive[d]} \ {c}
    BY <1>1, <1>2 DEF ControlTypes
  <1>4. CASE pool' = pool
    BY <1>1, <1>2, <1>4, TurnoverStep DEF Leases!Next
  <1>5. ASSUME pool.lease[mine[c]] = c, pool'.lease = Leases!Freed({mine[c]}),
               pool'.status = "ready" => pool.status = "ready"
        PROVE  Leases!Next
    <2>1. Leases!Return(c)
      BY <1>1, <1>3, <1>5 DEF Leases!Return
    <2> QED BY <2>1 DEF Leases!Next
  <1>6. ASSUME NEW S \in SUBSET Seats, pool'.lease = Leases!Freed(S),
               pool.status # "ready", pool'.status # "ready"
        PROVE  Leases!Next
    <2>1. Leases!Withdraw
      BY <1>3, <1>6 DEF Leases!Withdraw
    <2> QED BY <2>1 DEF Leases!Next
  <1>7. CASE pool' = Released(pool, mine[c])
    <2>1. pool'.status = pool.status
      BY <1>7, TableStatus
    <2>2. CASE pool.status \notin {"ready", "poisoned"}
      BY <1>4, <1>7, <2>2 DEF Released
    <2>3. CASE pool.status \in {"ready", "poisoned"}
      <3>1. \A s \in Seats : pool'.lease[s] = IF s \in {mine[c]} THEN None
                                              ELSE pool.lease[s]
        BY <1>1, <1>7, <2>3, MarkLemma DEF Released
      <3>2. pool'.lease = Leases!Freed({mine[c]})
        BY <1>1, <3>1, FreedRows
      <3>3. CASE pool.status = "ready"
        <4>1. CASE pool.lease[mine[c]] = c
          BY <1>5, <2>1, <3>2, <4>1
        <4>2. CASE ReleaseByPath(c) /\ pool.lease[mine[c]] # c
          <5>1. Operators = {} /\ fresh[c]
            BY <1>1, <4>2 DEF ReleaseByPath, ServeInv
          <5> QED BY <1>1, <3>3, <4>2, <5>1 DEF OwnerKeepsSeat
        <4>3. CASE FinalizeLease(c) /\ pool.lease[mine[c]] # c
          BY <1>4, <4>3 DEF FinalizeLease, tableVars
        <4> QED BY <4>1, <4>2, <4>3
      <3>4. CASE pool.status = "poisoned"
        BY <1>1, <1>6, <2>1, <3>2, <3>4
      <3> QED BY <2>3, <3>3, <3>4
    <2> QED BY <2>2, <2>3
  <1>8. CASE pool' = Quarantine(pool, mine[c]) /\ pool.lease[mine[c]] = c
    <2>1. pool'.status = "poisoned"
      BY <1>8, TableStatus
    <2>2. \A s \in Seats : pool'.lease[s] = IF s \in Seats \ Siblings(pool, mine[c])
                                            THEN None ELSE pool.lease[s]
      BY <1>1, <1>8, MarkLemma DEF Quarantine
    <2>3. CASE pool.status = "ready"
      <3>1. \A s \in Seats : pool.lease[s] # None => pool.seat[s] = "busy"
        BY <2>3 DEF TableShape, WellShaped
      <3>2. \A s \in Seats : pool'.lease[s] = IF s \in {mine[c]} THEN None
                                              ELSE pool.lease[s]
        BY <2>2, <3>1 DEF Siblings
      <3>3. pool'.lease = Leases!Freed({mine[c]})
        BY <1>1, <3>2, FreedRows
      <3> QED BY <1>5, <1>8, <2>3, <3>3
    <2>4. CASE pool.status # "ready"
      <3>1. pool'.lease = Leases!Freed(Seats \ Siblings(pool, mine[c]))
        BY <1>1, <2>2, FreedRows
      <3> QED BY <1>6, <2>1, <2>4, <3>1
    <2> QED BY <2>3, <2>4
  <1> QED BY <1>4, <1>7, <1>8 DEF ReleaseByPath, FinalizeLease, tableVars

\* A restore opens only a pool in which every seat is free; what it does to the
\* table before moves no lease.
LEMMA RestoreLeases ==
  ASSUME LeaseInv, TypeOK', NEW c \in Clients, RestoreStep(c)
  PROVE  Leases!Next \/ UNCHANGED Leases!leaseVars
  <1> USE DEF LeaseInv, OwnInv, IInv, tableVars, clientVars
  <1>1. pool \in PoolRecord /\ pool' \in PoolRecord /\ ControlTypes
    BY DEF TypeOK
  <1>2. ASSUME UNCHANGED <<pool, pidAlive>> PROVE UNCHANGED Leases!leaseVars
    BY <1>2, Unseen
  <1>3. CASE TakeLifecycleLock(c) \/ TakePoolLock(c) \/ AlreadyLive(c)
    BY <1>2, <1>3 DEF TakeLifecycleLock, TakePoolLock, AlreadyLive
  <1>4. ASSUME pidAlive' = [pidAlive EXCEPT ![c] = FALSE], pool'.lease = pool.lease,
               pool'.status = "ready" <=> pool.status = "ready"
        PROVE  Leases!Next
    <2>1. Leases!Turnover(c)
      BY <1>1, <1>4, TurnoverStep
    <2> QED BY <2>1 DEF Leases!Next
  <1>5. CASE Unavailable(c)
    BY <1>4, <1>5 DEF Unavailable, Exit
  <1>6. ASSUME \A s \in Seats : pool.lease[s] = None /\ pool'.lease[s] = None
        PROVE  pool'.lease = pool.lease
    <2>1. pool.lease = Leases!Freed({}) /\ pool'.lease = Leases!Freed({})
      BY <1>1, <1>6, FreedRows
    <2> QED BY <2>1
  <1>7. CASE Demote(c)
    <2>1. \A s \in Seats : pool.lease[s] = None /\ pool'.lease[s] = None
      BY <1>7 DEF Demote, Demotable, MarkPool
    <2>2. pool'.status # "ready" /\ UNCHANGED pidAlive
      BY <1>7 DEF Demote, MarkPool
    <2>3. Leases!Close
      BY <1>6, <2>1, <2>2 DEF Leases!Close
    <2> QED BY <2>3 DEF Leases!Next
  <1>8. CASE BeginRestore(c)
    <2>1. pool.status = "stopped" /\ pool'.status = "restoring" /\ UNCHANGED pidAlive
      BY <1>8 DEF BeginRestore, Activatable, MarkPool
    <2>2. \A s \in Seats : pool.lease[s] = None /\ pool'.lease[s] = None
      BY <1>8, <2>1 DEF BeginRestore, MarkPool, TableShape, WellShaped
    <2> QED BY <1>6, <2>1, <2>2, Unseen
  <1>9. CASE PublishReady(c)
    <2>1. pool.status = "restoring" /\ pool'.status = "ready" /\ UNCHANGED pidAlive
      BY <1>9 DEF PublishReady, LaunchInv, MarkPool
    <2>2. \A s \in Seats : pool.lease[s] = None /\ pool'.lease[s] = None
      BY <1>9, <2>1 DEF PublishReady, MarkPool, TableShape, WellShaped
    <2>3. Leases!Open
      BY <1>6, <2>1, <2>2 DEF Leases!Open
    <2> QED BY <2>3 DEF Leases!Next
  <1>10. CASE RestoreFails(c)
    <2>1. pool.status = "restoring" /\ pool'.status = "restore_failed"
      BY <1>10 DEF RestoreFails, LaunchInv, MarkPool
    <2>2. \A s \in Seats : pool.lease[s] = None /\ pool'.lease[s] = None
      BY <1>10, <2>1 DEF RestoreFails, MarkPool, TableShape, WellShaped
    <2> QED BY <1>4, <1>6, <1>10, <2>1, <2>2 DEF RestoreFails, Exit
  <1> QED BY <1>3, <1>5, <1>7, <1>8, <1>9, <1>10 DEF RestoreStep

\* A stop closes the pool, and takes every lease back once it is verified.
LEMMA StopLeases ==
  ASSUME LeaseInv, TypeOK', NEW o \in Operators,
         StopTakesLock(o) \/ StopStep(o) \/ OperatorKilled(o)
  PROVE  Leases!Next \/ UNCHANGED Leases!leaseVars
  <1> USE DEF LeaseInv, OwnInv, IInv, tableVars, clientVars
  <1>1. pool \in PoolRecord /\ pool' \in PoolRecord
    BY DEF TypeOK
  <1>2. CASE StopTakesLock(o) \/ StopVerified(o) \/ StopUnverified(o) \/
             OperatorKilled(o)
    BY <1>2, Unseen DEF StopTakesLock, StopVerified, StopUnverified, OperatorKilled
  <1>3. CASE StopMarks(o)
    <2>1. pool'.lease = pool.lease /\ pool'.status # "ready" /\ UNCHANGED pidAlive
      BY <1>3 DEF StopMarks, Relabel
    <2>2. Leases!Close
      BY <2>1 DEF Leases!Close
    <2> QED BY <2>2 DEF Leases!Next
  <1>4. CASE StopRecords(o)
    <2>1. pool.status # "ready" /\ UNCHANGED pidAlive
      BY <1>4 DEF StopRecords, StopClosed
    <2>2. CASE opc[o] = "verified"
      <3>1. pool' = MarkPool("stopped", "stopped", TRUE)
        BY <1>4, <2>2 DEF StopRecords
      <3>2. pool'.status # "ready" /\ \A s \in Seats : pool'.lease[s] = None
        BY <3>1 DEF MarkPool
      <3>3. Seats \in SUBSET Seats
        OBVIOUS
      <3>4. pool'.lease = Leases!Freed(Seats)
        BY <1>1, <3>2, <3>3, FreedRows
      <3>5. Leases!Withdraw
        BY <2>1, <3>2, <3>3, <3>4 DEF Leases!Withdraw
      <3> QED BY <3>5 DEF Leases!Next
    <2>3. CASE opc[o] # "verified"
      <3>1. pool'.lease = pool.lease /\ pool'.status # "ready"
        BY <1>4, <2>3 DEF StopRecords, Relabel
      <3> QED BY <2>1, <3>1, Unseen
    <2> QED BY <2>2, <2>3
  <1> QED BY <1>2, <1>3, <1>4 DEF StopStep

\* Every step of the pool is one of the lease service, or unseen by it.
LEMMA ServiceStep ==
  ASSUME LeaseInv, TypeOK', Operators = {} \/ Vanilla = {}, [Next]_vars
  PROVE  [Leases!Next]_(Leases!leaseVars)
  <1> USE DEF tableVars, clientVars
  <1>1. ControlTypes
    BY DEF LeaseInv, OwnInv, IInv, TypeOK
  <1>2. ASSUME UNCHANGED <<pool, pidAlive>> PROVE UNCHANGED Leases!leaseVars
    BY <1>2, Unseen
  <1>3. ASSUME NEW c \in Clients, NEW b \in BOOLEAN, UNCHANGED pool,
               pidAlive' = [pidAlive EXCEPT ![c] = b]
        PROVE  Leases!Next
    BY <1>1, <1>3, TurnoverStep DEF Leases!Next
  <1>4. ASSUME NEW c \in Clients,
               Start(c) \/ Kill(c) \/ PidReused(c) \/ PidFreed(c)
        PROVE  Leases!Next
    BY <1>3, <1>4 DEF Start, Kill, Exit, PidReused, PidFreed
  <1>5. ASSUME NEW c \in Clients, RestoreStep(c)
        PROVE  Leases!Next \/ UNCHANGED Leases!leaseVars
    BY <1>5, RestoreLeases
  <1>6. ASSUME NEW c \in Clients, Checkout(c) \/ CheckoutRefused(c)
        PROVE  Leases!Next
    BY <1>6, CheckoutLeases
  <1>7. ASSUME NEW c \in Clients, ReleaseByPath(c) \/ FinalizeLease(c)
        PROVE  Leases!Next
    BY <1>7, ReleaseLeases
  <1>8. ASSUME NEW c \in Clients,
               \/ Dispatch(c) \/ DispatchRefused(c) \/ ChildFinishes(c)
               \/ ChildUnverified(c) \/ InterruptBeforeDispatch(c)
               \/ InterruptVerified(c) \/ ChildEnds(c)
        PROVE  UNCHANGED Leases!leaseVars
    BY <1>2, <1>8 DEF Dispatch, DispatchRefused, ChildFinishes, ChildUnverified,
       InterruptBeforeDispatch, InterruptVerified, ChildEnds, Verdict
  <1>9. ASSUME NEW o \in Operators,
               StopTakesLock(o) \/ StopStep(o) \/ OperatorKilled(o)
        PROVE  Leases!Next \/ UNCHANGED Leases!leaseVars
    BY <1>9, StopLeases
  <1>10. ASSUME RuntimeDies \/ UNCHANGED vars
         PROVE  UNCHANGED Leases!leaseVars
    BY <1>2, <1>10 DEF RuntimeDies, vars
  <1> QED
    BY <1>4, <1>5, <1>6, <1>7, <1>8, <1>9, <1>10
    DEF Next, ClientStep, LeaseStep, ClientEvent

-----------------------------------------------------------------------------
(* The theorems.                                                           *)

\* Without late releases the leases keep all of LeaseInv.
LEMMA LeaseInvariance ==
  ASSUME Operators = {} \/ Vanilla = {}
  PROVE  Spec => []LeaseInv
  <1>1. Init => LeaseInv
    <2> SUFFICES ASSUME Init PROVE LeaseInv
      OBVIOUS
    <2>1. OwnInv
      BY InitInv DEF Init, OwnInv, PidInv, ServeInv, OwnerKeepsSeat, Holding
    <2>2. NoEarlyLease /\ StopClosed /\ OneHolderPerControl
      BY DEF Init, NoEarlyLease, StopClosed, OneHolderPerControl, Holding
    <2> QED BY <2>1, <2>2 DEF LeaseInv
  <1>2. LeaseInv /\ [Next]_vars => LeaseInv'
    <2> SUFFICES ASSUME LeaseInv, [Next]_vars PROVE LeaseInv'
      OBVIOUS
    <2>1. OwnInv'
      BY StepInv, PidStep, ServeStep, OwnerStep DEF LeaseInv, OwnInv, IInv, TypeOK
    <2>2. NoEarlyLease' /\ StopClosed' /\ OneHolderPerControl'
      BY NoEarlyStep, StopClosedStep, ControlStep DEF LeaseInv, OwnInv, IInv
    <2> QED BY <2>1, <2>2 DEF LeaseInv
  <1> QED BY <1>1, <1>2, PTL DEF Spec

\* Clients under leases of the current generation never share a control session
\* of a mechanical broker, for every number of seats and clients and every
\* aliasing of sessions, where no release comes late.
THEOREM OneHolderPerControlHolds ==
  ASSUME Operators = {} \/ Vanilla = {}
  PROVE  Spec => []OneHolderPerControl
  <1>1. LeaseInv => OneHolderPerControl
    BY DEF LeaseInv
  <1> QED BY LeaseInvariance, <1>1, PTL

\* The leases of pool.json implement the lease service: a seat of the ready pool
\* changes hands only through its holder or after the holder is gone, a restore
\* opens it with every seat free, and a closed pool grants nothing.
THEOREM LeaseServiceHolds ==
  ASSUME Operators = {} \/ Vanilla = {}
  PROVE  Spec => LeaseService
  <1>1. Init => Leases!Init
    <2> SUFFICES ASSUME Init PROVE Leases!Init
      OBVIOUS
    <2>1. pool.lease = [s \in Seats |-> None] /\ pool.status # "ready"
      BY DEF Init
    <2>2. {c \in Clients : pidAlive[c]} = {}
      BY DEF Init
    <2> QED BY <2>1, <2>2 DEF Leases!Init
  <1>2. LeaseInv /\ LeaseInv' /\ [Next]_vars => [Leases!Next]_(Leases!leaseVars)
    BY ServiceStep DEF LeaseInv, OwnInv, IInv
  <1> QED
    BY LeaseInvariance, <1>1, <1>2, PTL DEF Spec, LeaseService, Leases!Spec
=============================================================================
