---------------------------- MODULE MCSeatsBroker ----------------------------
(***************************************************************************)
(* The seats and the broker behind them.  To a client of the warm pool the *)
(* broker is a child that runs and ends, and to the broker a client is one *)
(* that asks, waits and may be killed; pool.json and the broker's registry *)
(* have no reader in common.  Each is run on its own: `part` says which.   *)
(***************************************************************************)
EXTENDS MCWarmPool, ForkBroker

CONSTANTS a1, b1, s1, s2  \* two attempts, of a session each

VARIABLE part

SessionPair == (a1 :> s1) @@ (b1 :> s2)

SumInit == part \in {"seats", "broker"} /\ Init /\ BrokerInit

SumNext ==
  \/ part = "seats" /\ Next /\ UNCHANGED <<part, brokerVars>>
  \/ part = "broker" /\ BrokerNext /\ UNCHANGED <<part, vars>>

\* The fairness of the parts, each where it runs.
SumSpec ==
  /\ SumInit /\ [][SumNext]_<<part, vars, brokerVars>>
  /\ \A c \in Clients :
       /\ WF_vars(part = "seats" /\ ClientStep(c))
       /\ WF_vars(part = "seats" /\ Start(c))
       /\ WF_vars(part = "seats" /\ ChildEnds(c))
  /\ \A o \in Operators : WF_vars(part = "seats" /\ StopStep(o))
  /\ \A a \in Attempts :
       /\ WF_brokerVars(part = "broker" /\ HandlerStep(a))
       /\ WF_brokerVars(part = "broker" /\ ChildStep(a))
       /\ WF_brokerVars(part = "broker" /\ RecoveryExpires(a))
  /\ WF_brokerVars(part = "broker" /\ ClosingStep)
=============================================================================
