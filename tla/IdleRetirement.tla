--------------------------- MODULE IdleRetirement ---------------------------
(***************************************************************************)
(* The retirement policy record runtime-cache.json: routes that finish     *)
(* schedule a monitor process, monitors read the record to learn whether   *)
(* they are still the one in charge, and the one in charge retires an idle *)
(* runtime.  The record is read and replaced without a lock.               *)
(*                                                                         *)
(* A route schedules once; the monitor it starts and that monitor's token  *)
(* are represented by the route itself.  How the monitor closes admission  *)
(* is module ShelfAdmission: here a closed shelf only keeps routes out.    *)
(* Names that ShelfAdmission has too carry this module's, as the two are   *)
(* run side by side.                                                       *)
(***************************************************************************)
EXTENDS Naturals

CONSTANTS
  Routes,         \* routes that use the runtime and then schedule its retirement
  KillableRoutes, \* routes that may be killed while they schedule
  NoRoute         \* no route

ASSUME RetirementAssumption ==
  NoRoute \notin Routes /\ KillableRoutes \subseteq Routes

VARIABLES
  policy,   \* runtime-cache.json: token, recorded monitor pid, runtime status
  route,    \* control point of each route
  monitor,  \* control point of the monitor each route starts
  copied,   \* pid field of the record a deciding monitor has read
  unused,   \* the last activity is idle_seconds old
  restored  \* the restored runtime runs

retirementVars == <<policy, route, monitor, copied, unused, restored>>

RoutePc == {"new", "using", "leaving", "absent", "pending", "spawned", "done",
            "killed"}
WatchPc == {"off", "watching", "closed", "stopping", "exited"}

RetirementTypeOK ==
  /\ policy \in [token : Routes \cup {NoRoute}, pid : Routes \cup {NoRoute},
                 status : {"none", "live-cache", "retired", "retire-failed"}]
  /\ route \in [Routes -> RoutePc]
  /\ monitor \in [Routes -> WatchPc]
  /\ copied \in [Routes -> Routes \cup {NoRoute}]
  /\ unused \in BOOLEAN
  /\ restored \in BOOLEAN

Alive(m) == monitor[m] \in {"watching", "closed", "stopping"}
Scheduling(r) == route[r] \in {"absent", "pending", "spawned"}
ShelfClosed == \E m \in Routes : monitor[m] \in {"closed", "stopping"}

RetirementInit ==
  /\ policy = [token |-> NoRoute, pid |-> NoRoute, status |-> "none"]
  /\ route = [r \in Routes |-> "new"]
  /\ monitor = [m \in Routes |-> "off"]
  /\ copied = [m \in Routes |-> NoRoute]
  /\ unused = TRUE
  /\ restored = FALSE

-----------------------------------------------------------------------------
(* Routes.                                                                 *)

\* A route is admitted, restores the runtime and works.
Use(r) ==
  /\ route[r] = "new" /\ ~ShelfClosed
  /\ route' = [route EXCEPT ![r] = "using"]
  /\ restored' = TRUE
  /\ UNCHANGED <<policy, monitor, copied, unused>>

\* Its slot is free before it schedules.
Finish(r) ==
  /\ route[r] = "using"
  /\ route' = [route EXCEPT ![r] = "leaving"]
  /\ UNCHANGED <<policy, monitor, copied, unused, restored>>

\* schedule_profile_retirement touches the activity file and reads the record:
\* a live monitor named in it is enough.
Renew(r) ==
  /\ route[r] = "leaving"
  /\ unused' = FALSE
  /\ route' = [route EXCEPT ![r] =
       IF policy.pid # NoRoute /\ Alive(policy.pid) THEN "done" ELSE "absent"]
  /\ UNCHANGED <<policy, monitor, copied, restored>>

WritePending(r) ==
  /\ route[r] = "absent"
  /\ policy' = [token |-> r, pid |-> NoRoute, status |-> "live-cache"]
  /\ route' = [route EXCEPT ![r] = "pending"]
  /\ UNCHANGED <<monitor, copied, unused, restored>>

Spawn(r) ==
  /\ route[r] = "pending"
  /\ monitor' = [monitor EXCEPT ![r] = "watching"]
  /\ route' = [route EXCEPT ![r] = "spawned"]
  /\ UNCHANGED <<policy, copied, unused, restored>>

\* The record is written again, now with the monitor's process identity.
WriteRecord(r) ==
  /\ route[r] = "spawned"
  /\ policy' = [token |-> r, pid |-> r, status |-> "live-cache"]
  /\ route' = [route EXCEPT ![r] = "done"]
  /\ UNCHANGED <<monitor, copied, unused, restored>>

RouteKilled(r) ==
  /\ r \in KillableRoutes /\ (route[r] = "leaving" \/ Scheduling(r))
  /\ route' = [route EXCEPT ![r] = "killed"]
  /\ UNCHANGED <<policy, monitor, copied, unused, restored>>

\* idle_seconds (600 by default) pass; scheduling takes far less.
TimePasses ==
  /\ ~unused /\ \A r \in Routes : ~Scheduling(r)
  /\ unused' = TRUE
  /\ UNCHANGED <<policy, route, monitor, copied, restored>>

-----------------------------------------------------------------------------
(* Monitors.                                                               *)

Exit(m) == monitor' = [monitor EXCEPT ![m] = "exited"]

\* Not the monitor in charge, at the top of the loop or with the shelf closed.
Superseded(m) ==
  /\ monitor[m] \in {"watching", "closed"} /\ policy.token # m
  /\ Exit(m)
  /\ UNCHANGED <<policy, route, copied, unused, restored>>

\* An idle period, no live demand and every admission file taken.
CloseShelf(m) ==
  /\ monitor[m] = "watching" /\ policy.token = m /\ unused /\ ~ShelfClosed
  /\ \A r \in Routes : route[r] # "using"
  /\ monitor' = [monitor EXCEPT ![m] = "closed"]
  /\ UNCHANGED <<policy, route, copied, unused, restored>>

\* Activity was renewed in between, a lease or child is left, or the pool does
\* not tell whether it is live: the shelf is opened again.
Reopen(m) ==
  /\ monitor[m] = "closed" /\ policy.token = m
  /\ monitor' = [monitor EXCEPT ![m] = "watching"]
  /\ UNCHANGED <<policy, route, copied, unused, restored>>

Decide(m) ==
  /\ monitor[m] = "closed" /\ policy.token = m /\ unused
  /\ copied' = [copied EXCEPT ![m] = policy.pid]
  /\ monitor' = [monitor EXCEPT ![m] = "stopping"]
  /\ UNCHANGED <<policy, route, unused, restored>>

Amended(m, status) == [token |-> m, pid |-> copied[m], status |-> status]

\* Fault: the exit code of the stop is ignored.
Retire_Unverified(m) ==
  /\ monitor[m] = "stopping"
  /\ restored' \in {restored, FALSE}
  /\ policy' = Amended(m, "retired")
  /\ Exit(m)
  /\ UNCHANGED <<route, copied, unused>>

\* The stop runs, and the record read before it is written back amended.
Retire(m) ==
  /\ monitor[m] = "stopping"
  /\ \/ restored' = FALSE /\ policy' = Amended(m, "retired")
     \/ restored /\ UNCHANGED restored /\ policy' = Amended(m, "retire-failed")
  /\ Exit(m)
  /\ UNCHANGED <<route, copied, unused>>

-----------------------------------------------------------------------------

RouteStep(r) ==
  Finish(r) \/ Renew(r) \/ WritePending(r) \/ Spawn(r) \/ WriteRecord(r)

WatchStep(m) ==
  Superseded(m) \/ CloseShelf(m) \/ Reopen(m) \/ Decide(m) \/ Retire(m)

RetirementNext ==
  \/ \E r \in Routes :
       Use(r) \/ RouteStep(r) \/ RouteKilled(r) \/ WatchStep(r)
  \/ TimePasses

RetirementSpec == RetirementInit /\ [][RetirementNext]_retirementVars

\* Routes and monitors that run keep running, and time passes.
RetirementFairSpec ==
  /\ RetirementSpec
  /\ \A r \in Routes :
       WF_retirementVars(RouteStep(r)) /\ WF_retirementVars(WatchStep(r))
  /\ WF_retirementVars(TimePasses)
-----------------------------------------------------------------------------
(* Properties.                                                             *)

\* schedule_profile_retirement "renews one monitor": once every route that
\* used the runtime has scheduled, a live runtime has a running monitor that
\* the record names, or the record says that retirement failed.
MonitorInCharge ==
  restored /\ policy.status # "retire-failed"
    /\ (\A r \in Routes : route[r] \in {"new", "done"})
  => \E m \in Routes : Alive(m) /\ policy.token = m

\* A record that says "retired" while no route is at work means the runtime is
\* stopped, also when routes schedule while a monitor amends the record it
\* read earlier (monitor_profile).
RetiredRecordTrue ==
  policy.status = "retired" /\ (\A r \in Routes : route[r] \in {"new", "done"})
  => ~restored
=============================================================================
