----------------------------- MODULE MCWarmPool -----------------------------
(* Instances of WarmPool for TLC. *)
EXTENDS WarmPool, TLC

\* Every seat has a control session of its own, as in a published v3 pool.
OwnControl == [s \in Seats |-> s]

\* The second seat is an alias of the first one's control session.
AliasControl == [s \in Seats |-> IF s = 2 THEN 1 ELSE s]

ClientSymmetry ==
  Permutations(Hot) \cup Permutations(Vanilla) \cup Permutations(Operators)
=============================================================================
