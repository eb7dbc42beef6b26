------------------------------ MODULE SeatLease -----------------------------
(***************************************************************************)
(* What a warm pool promises the processes that lease its seats: while it  *)
(* is open, a seat changes hands only through the process that holds it or *)
(* after that process is gone; it opens with every seat free; once closed  *)
(* it takes seats back but grants none.                                    *)
(***************************************************************************)
CONSTANTS Seat, Process, Nobody

VARIABLES owner,   \* the process each seat is leased to
          running, \* processes whose pid exists
          open     \* the pool grants leases

leaseVars == <<owner, running, open>>

Init == owner = [s \in Seat |-> Nobody] /\ running = {} /\ open = FALSE

\* Seats of processes that no longer run.
Abandoned == {s \in Seat : owner[s] \notin running}

Freed(S) == [s \in Seat |-> IF s \in S THEN Nobody ELSE owner[s]]

\* A pid appears or disappears; no seat moves.
Turnover(p) ==
  /\ running' \in {running \cup {p}, running \ {p}}
  /\ UNCHANGED <<owner, open>>

\* p takes a free or abandoned seat, and abandoned seats are swept.
Grant(p, s) ==
  /\ open /\ p \in running /\ s \in Abandoned
  /\ \A t \in Seat : owner[t] # p
  /\ \E S \in SUBSET Abandoned : owner' = [Freed(S) EXCEPT ![s] = p]
  /\ UNCHANGED <<running, open>>

\* p is refused and leaves; abandoned seats may have been swept.
Refuse(p) ==
  /\ open
  /\ \E S \in SUBSET Abandoned : owner' = Freed(S)
  /\ running' = running \ {p}
  /\ UNCHANGED open

\* p gives up its own seats and leaves; a seat it cannot vouch for closes the
\* pool.
Return(p) ==
  /\ \E S \in SUBSET {s \in Seat : owner[s] = p} : owner' = Freed(S)
  /\ running' = running \ {p}
  /\ open' \in {open, FALSE}

Close ==
  /\ open' = FALSE
  /\ UNCHANGED <<owner, running>>

\* A closed pool takes seats back, whoever holds them.
Withdraw ==
  /\ ~open
  /\ \E S \in SUBSET Seat : owner' = Freed(S)
  /\ running' = running \/ \E p \in Process : running' = running \ {p}
  /\ UNCHANGED open

Open ==
  /\ ~open /\ open'
  /\ \A s \in Seat : owner[s] = Nobody
  /\ UNCHANGED <<owner, running>>

Next ==
  \/ \E p \in Process : Turnover(p) \/ Refuse(p) \/ Return(p)
  \/ \E p \in Process, s \in Seat : Grant(p, s)
  \/ Close \/ Withdraw \/ Open

Spec == Init /\ [][Next]_leaseVars
=============================================================================
