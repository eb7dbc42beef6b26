---------------------------- MODULE MCControllers ----------------------------
(***************************************************************************)
(* The controllers that work beside the warm pool: the lazy-pages launch,  *)
(* the readiness matrix, the project-basis cache, the starter and the stop *)
(* of a build pool, and the cancel command beside the attempts it may end. *)
(* They share no file and no lock, so every behaviour of the five side by  *)
(* side is a merge of one of each, and a safety property of one is checked *)
(* on its own steps: `part` says which of them runs.                       *)
(***************************************************************************)
EXTENDS OwnedProcesses, LazyPages, ProjectBasis, ReadinessProbe, ShelfCancel

VARIABLE part

sumVars == <<part, lazyVars, probeVars, cacheVars, vars, cancelVars>>

ControllersInit ==
  /\ part \in {"lazy", "probe", "cache", "group", "cancel"}
  /\ LazyInit /\ ProbeInit /\ CacheInit /\ Init /\ CancelInit
  /\ part # "probe" => live = {}

ControllersNext ==
  \/ /\ part = "lazy" /\ LazyNext
     /\ UNCHANGED <<part, probeVars, cacheVars, vars, cancelVars>>
  \/ /\ part = "probe" /\ ProbeNext
     /\ UNCHANGED <<part, lazyVars, cacheVars, vars, cancelVars>>
  \/ /\ part = "cache" /\ CacheNext
     /\ UNCHANGED <<part, lazyVars, probeVars, vars, cancelVars>>
  \/ /\ part = "group" /\ Next
     /\ UNCHANGED <<part, lazyVars, probeVars, cacheVars, cancelVars>>
  \/ /\ part = "cancel" /\ CancelNext
     /\ UNCHANGED <<part, lazyVars, probeVars, cacheVars, vars>>

ControllersSpec == ControllersInit /\ [][ControllersNext]_sumVars
=============================================================================
