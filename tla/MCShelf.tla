------------------------------ MODULE MCShelf ------------------------------
(***************************************************************************)
(* The shelf, the retirement schedule, and the watch loop.  Admission      *)
(* knows the monitor that closes the shelf, the schedule knows a closed    *)
(* shelf; the record runtime-cache.json and the admission files have no    *)
(* reader in common, and the loop knows a replay by its receipt alone, so  *)
(* each is run on its own: `part` says which.                              *)
(***************************************************************************)
EXTENDS ShelfAdmission, IdleRetirement

CONSTANTS a1, a2, u1, r1, r2, r3  \* two attempts, an old client, three routes

VARIABLES
  part,
  \* the watch loop
  src, dep, edits, loop, replay, receipt, told

watchVars == <<src, dep, edits, loop, replay, receipt, told>>
sumVars == <<part, vars, retirementVars, watchVars>>

Watch == INSTANCE WatchLoop WITH
  MaxContent <- 2, MaxEdits <- 2, Based <- TRUE, EditInCapture <- FALSE

ASSUME WatchAssumption == Watch!ConstantsAssumption

SumInit ==
  /\ part \in {"shelf", "schedule", "watch"}
  /\ Init /\ RetirementInit /\ Watch!Init
  /\ part # "watch" => src = 0 /\ dep = 0

SumNext ==
  \/ part = "shelf" /\ Next /\ UNCHANGED <<part, retirementVars, watchVars>>
  \/ part = "schedule" /\ RetirementNext /\ UNCHANGED <<part, vars, watchVars>>
  \/ part = "watch" /\ Watch!Next /\ UNCHANGED <<part, vars, retirementVars>>

\* The fairness of the parts, each where it runs.
SumSpec ==
  /\ SumInit /\ [][SumNext]_sumVars
  /\ \A a \in Attempts : WF_vars(part = "shelf" /\ AttemptStep(a))
  /\ \A u \in OldClients : WF_vars(part = "shelf" /\ OldStep(u))
  /\ \A u \in Users : WF_vars(part = "shelf" /\ ChildEnds(u))
  /\ WF_vars(part = "shelf" /\ MonitorStep)
  /\ WF_vars(part = "shelf" /\ IdleEnds)
  /\ \A r \in Routes :
       /\ WF_retirementVars(part = "schedule" /\ RouteStep(r))
       /\ WF_retirementVars(part = "schedule" /\ WatchStep(r))
  /\ WF_retirementVars(part = "schedule" /\ TimePasses)
  /\ WF_watchVars(part = "watch" /\ Watch!Watcher)
  /\ WF_watchVars(part = "watch" /\ Watch!Replay)

-----------------------------------------------------------------------------

\* When the edits are over the watch loop rests at a replay of the inputs on disk,
\* and accepts what was evaluated (cli/prove_loop).
EditsChecked == <>[](part = "watch" => Watch!AtRest)
=============================================================================
