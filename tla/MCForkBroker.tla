---------------------------- MODULE MCForkBroker ----------------------------
(* Model values for ForkBroker: two attempts that share a session.          *)
EXTENDS ForkBroker, TLC
CONSTANTS a1, a2, s1
MCPair == a1 :> s1 @@ a2 :> s1
=============================================================================
