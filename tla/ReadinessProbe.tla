--------------------------- MODULE ReadinessProbe ---------------------------
(***************************************************************************)
(* The targeted readiness matrix (`vanilla-smoke`): under one run-root lock*)
(* a controller probes physical profiles one after the other, each in a    *)
(* worker process that runs a primary attempt and, on a clean basis, a     *)
(* reuse attempt.  A basis that was stopped before its probe is stopped    *)
(* again after it.  The receipt is the only memory between runs: it names  *)
(* the active profile, so that a run that follows an interrupted one       *)
(* recovers that profile before anything else.                             *)
(*                                                                         *)
(* Other clients of the shelves and their idle monitor act at any time.    *)
(***************************************************************************)
EXTENDS Naturals, FiniteSets

CONSTANTS
  Runs,            \* readiness processes of one run root, one run each
  Groups,          \* number of physical profiles, probed in order
  KillableRuns,    \* controllers that may be killed
  WorkersOutlive,  \* a worker goes on when its controller is killed
  NoRun            \* nobody

Profiles == 1..Groups

ASSUME ProbeAssumption ==
  /\ Groups \in Nat \ {0}
  /\ NoRun \notin Runs /\ KillableRuns \subseteq Runs
  /\ WorkersOutlive \in BOOLEAN

VARIABLES
  lock,     \* the run-root controller lock
  report,   \* warm-vanilla-readiness.json
  live,     \* profiles whose basis runs
  restored, \* profiles whose running basis a probe restored
  leased,   \* profiles with a lease of another live client
  probePc, at, \* control point and current group of each controller
  before,   \* initial_runtime: the basis ran before the probe
  worker    \* the worker of each controller

world == <<live, restored, leased>>
probeVars == <<lock, report, live, restored, leased, probePc, at, before, worker>>

Statuses == {"none", "running", "failed", "ready", "recovery_failed",
             "interrupted_recovered"}
WorkerStates == {"none", "primary", "cleanup", "reuse", "ready", "failed", "dead"}

ProbeTypeOK ==
  /\ lock \in Runs \cup {NoRun}
  /\ report \in [status : Statuses, active : 0..Groups, controller : Runs \cup {NoRun}]
  /\ live \subseteq Profiles /\ restored \subseteq live /\ leased \subseteq live
  /\ probePc \in [Runs -> {"new", "begin", "group", "checkpoint", "probing", "collect",
                          "unwinding", "done"}]
  /\ at \in [Runs -> 0..(Groups + 1)]
  /\ before \in [Runs -> BOOLEAN]
  /\ worker \in [Runs -> WorkerStates]

ProbeInit ==
  /\ lock = NoRun
  /\ report = [status |-> "none", active |-> 0, controller |-> NoRun]
  /\ live \in SUBSET Profiles
  /\ restored = {} /\ leased = {}
  /\ probePc = [c \in Runs |-> "new"] /\ at = [c \in Runs |-> 0]
  /\ before = [c \in Runs |-> FALSE]
  /\ worker = [c \in Runs |-> "none"]

Goto(c, p) == probePc' = [probePc EXCEPT ![c] = p]
Report(st, p) == report' = [report EXCEPT !.status = st, !.active = p]
RunAlive(c) == c # NoRun /\ probePc[c] \notin {"new", "done"}
End(c) == Goto(c, "done") /\ lock' = NoRun

\* An attempt holds a slot and a lease while it evaluates on a running basis.
Evaluating(c) == worker[c] \in {"primary", "reuse"}
LeasedNow(p) ==
  p \in leased \/ \E c \in Runs : Evaluating(c) /\ at[c] = p /\ p \in live

\* recover_and_stop_profile_root: a live lease owner refuses it; otherwise the
\* basis is stopped, or its stop cannot be verified.
Stops(p) == ~LeasedNow(p) /\ live' = live \ {p} /\ restored' = restored \ {p}
Retained(p) == UNCHANGED <<live, restored>>

-----------------------------------------------------------------------------
(* run and _run_locked.                                                    *)

TakeLock(c) ==
  /\ probePc[c] = "new" /\ lock = NoRun
  /\ lock' = c
  /\ Goto(c, "begin")
  /\ UNCHANGED <<report, world, at, before, worker>>

Interrupted == report.status \in {"running", "recovery_failed"} /\ report.active # 0

\* _interrupted_run_recovery: a receipt whose controller still lives is left
\* alone; any other is recovered, and the run ends with that.
RecoveryRefused(c) ==
  /\ probePc[c] = "begin" /\ Interrupted /\ RunAlive(report.controller)
  /\ End(c)
  /\ UNCHANGED <<report, world, at, before, worker>>

RecoverPrior(c) ==
  /\ probePc[c] = "begin" /\ Interrupted /\ ~RunAlive(report.controller)
  /\ \/ Stops(report.active) /\ Report("interrupted_recovered", 0)
     \/ Retained(report.active) /\ Report("recovery_failed", report.active)
  /\ End(c)
  /\ UNCHANGED <<leased, at, before, worker>>

\* Fault: only a failed recovery is taken up again.
StartRun_OverInterrupted(c) ==
  /\ probePc[c] = "begin" /\ report.status # "recovery_failed"
  /\ report' = [status |-> "running", active |-> 0, controller |-> c]
  /\ at' = [at EXCEPT ![c] = 1]
  /\ Goto(c, "group")
  /\ UNCHANGED <<lock, world, before, worker>>

StartRun(c) ==
  /\ probePc[c] = "begin" /\ ~Interrupted
  /\ report' = [status |-> "running", active |-> 0, controller |-> c]
  /\ at' = [at EXCEPT ![c] = 1]
  /\ Goto(c, "group")
  /\ UNCHANGED <<lock, world, before, worker>>

\* profile_runtime_state: unknown ends the run before the probe.
ReadState(c) ==
  /\ probePc[c] = "group" /\ at[c] <= Groups
  /\ before' = [before EXCEPT ![c] = at[c] \in live]
  /\ Goto(c, "checkpoint")
  /\ UNCHANGED <<lock, report, world, at, worker>>

StateUnknown(c) ==
  /\ probePc[c] = "group" /\ at[c] <= Groups
  /\ Report("failed", 0)
  /\ End(c)
  /\ UNCHANGED <<world, at, before, worker>>

\* The active profile is on disk before the worker starts.
Checkpoint(c) ==
  /\ probePc[c] = "checkpoint"
  /\ Report("running", at[c])
  /\ Goto(c, "probing")
  /\ UNCHANGED <<lock, world, at, before, worker>>

StartWorker(c) ==
  /\ probePc[c] = "probing"
  /\ worker' = [worker EXCEPT ![c] = "primary"]
  /\ Goto(c, "collect")
  /\ UNCHANGED <<lock, report, world, at, before>>

Collected(c) == probePc[c] = "collect" /\ worker[c] \in {"ready", "failed", "dead"}

\* Fault: a recovery that failed forgets the profile.
GroupFails_ForgetsProfile(c) ==
  /\ Collected(c)
  /\ \/ Stops(at[c]) /\ Report("failed", 0)
     \/ Retained(at[c]) /\ Report("recovery_failed", 0)
  /\ End(c)
  /\ UNCHANGED <<leased, at, before, worker>>

\* A failed row, or a worker that ended badly: the profile is recovered, and
\* nothing after it is probed.
GroupFails(c) ==
  /\ Collected(c)
  /\ \/ Stops(at[c]) /\ Report("failed", 0)
     \/ Retained(at[c]) /\ Report("recovery_failed", at[c])
  /\ End(c)
  /\ UNCHANGED <<leased, at, before, worker>>

\* A basis that was live before is retained.
GroupRetains(c) ==
  /\ Collected(c) /\ worker[c] = "ready" /\ before[c]
  /\ Report("running", 0)
  /\ at' = [at EXCEPT ![c] = @ + 1]
  /\ Goto(c, "group")
  /\ UNCHANGED <<lock, world, before, worker>>

\* A basis that was stopped before is stopped again.
GroupStops(c) ==
  /\ Collected(c) /\ worker[c] = "ready" /\ ~before[c]
  /\ Stops(at[c]) /\ Report("running", 0)
  /\ at' = [at EXCEPT ![c] = @ + 1]
  /\ Goto(c, "group")
  /\ UNCHANGED <<lock, leased, before, worker>>

Finish(c) ==
  /\ probePc[c] = "group" /\ at[c] > Groups
  /\ \E st \in {"ready", "failed"} : Report(st, 0)
  /\ End(c)
  /\ UNCHANGED <<world, at, before, worker>>

\* An interrupt leaves the receipt as it is: the lock goes, then the process.
\* A terminal interrupt reaches the worker too.
Interrupt(c) ==
  /\ RunAlive(c) /\ probePc[c] # "unwinding"
  /\ Goto(c, "unwinding")
  /\ lock' = NoRun
  /\ worker' = [worker EXCEPT ![c] = IF @ = "none" THEN @ ELSE "dead"]
  /\ UNCHANGED <<report, world, at, before>>

Exit(c) ==
  /\ probePc[c] = "unwinding"
  /\ Goto(c, "done")
  /\ UNCHANGED <<lock, report, world, at, before, worker>>

RunKilled(c) ==
  /\ c \in KillableRuns /\ RunAlive(c)
  /\ Goto(c, "done")
  /\ lock' = IF lock = c THEN NoRun ELSE lock
  /\ worker' = [worker EXCEPT ![c] =
                  IF WorkersOutlive \/ @ = "none" THEN @ ELSE "dead"]
  /\ UNCHANGED <<report, world, at, before>>

-----------------------------------------------------------------------------
(* The worker: run_worker, _run_group.                                     *)

\* The restore callback of an attempt on a basis that does not run.
Restore(c) ==
  /\ Evaluating(c) /\ at[c] \notin live
  /\ live' = live \cup {at[c]}
  /\ restored' = IF before[c] THEN restored ELSE restored \cup {at[c]}
  /\ UNCHANGED <<lock, report, leased, probePc, at, before, worker>>

\* The attempt passes on a running basis, or fails at any time.
Attempt(c, passed) ==
  /\ \E next \in (IF at[c] \in live THEN {passed, "failed"} ELSE {"failed"}) :
       worker' = [worker EXCEPT ![c] = next]
  /\ UNCHANGED <<lock, report, world, probePc, at, before>>

Primary(c) == worker[c] = "primary" /\ Attempt(c, "cleanup")
Reuse(c) == worker[c] = "reuse" /\ Attempt(c, "ready")

\* _cleanup_state: the reuse probe wants a ready pool with a seat to lease.
CleanupState(c) ==
  /\ worker[c] = "cleanup"
  /\ \E next \in (IF at[c] \in live THEN {"reuse", "failed"} ELSE {"failed"}) :
       worker' = [worker EXCEPT ![c] = next]
  /\ UNCHANGED <<lock, report, world, probePc, at, before>>

WorkerDies(c) ==
  /\ worker[c] \in {"primary", "cleanup", "reuse"}
  /\ worker' = [worker EXCEPT ![c] = "dead"]
  /\ UNCHANGED <<lock, report, world, probePc, at, before>>

-----------------------------------------------------------------------------
(* Other clients of a shelf, and its idle monitor.                         *)

ClientLeases(p) ==
  /\ p \notin leased
  /\ leased' = leased \cup {p} /\ live' = live \cup {p}
  /\ UNCHANGED <<lock, report, restored, probePc, at, before, worker>>

ClientReleases(p) ==
  /\ p \in leased
  /\ leased' = leased \ {p}
  /\ UNCHANGED <<lock, report, live, restored, probePc, at, before, worker>>

IdleRetires(p) ==
  /\ p \in live /\ ~LeasedNow(p)
  /\ live' = live \ {p} /\ restored' = restored \ {p}
  /\ UNCHANGED <<lock, report, leased, probePc, at, before, worker>>

-----------------------------------------------------------------------------
Run(c) ==
  TakeLock(c) \/ RecoveryRefused(c) \/ RecoverPrior(c) \/ StartRun(c) \/ ReadState(c)
    \/ StateUnknown(c) \/ Checkpoint(c) \/ StartWorker(c) \/ GroupFails(c)
    \/ GroupRetains(c) \/ GroupStops(c) \/ Finish(c) \/ Interrupt(c) \/ Exit(c)
    \/ RunKilled(c)
Worker(c) == Restore(c) \/ Primary(c) \/ CleanupState(c) \/ Reuse(c) \/ WorkerDies(c)
Shelf(p) == ClientLeases(p) \/ ClientReleases(p) \/ IdleRetires(p)

ProbeNext ==
  \/ \E c \in Runs : Run(c) \/ Worker(c)
  \/ \E p \in Profiles : Shelf(p)

ProbeSpec == ProbeInit /\ [][ProbeNext]_probeVars

-----------------------------------------------------------------------------
(* Properties.                                                             *)

\* A basis that a probe found stopped and restored is still named by the
\* receipt as long as it runs: whatever ends the run, a later one finds it and
\* stops it.
RestoredBasisAnchored ==
  \A p \in restored : report.active = p /\ report.status \in {"running", "recovery_failed"}

\* A receipt with an unsettled profile is not overwritten by a run that has
\* not settled it: the profile stays named until its stop is verified or its
\* own controller lets go of it.
UnsettledReportKept ==
  [][Interrupted /\ report' # report =>
       \/ report'.active = report.active
       \/ report.active \notin live'
       \/ lock = report.controller]_probeVars

\* A basis that the readiness matrix restored, and whose controller is gone, is
\* named by the report that the next run recovers from; and _interrupted_run_recovery
\* comes before a new report: one with unsettled profiles is never replaced.
RestoredBasesReported == []RestoredBasisAnchored /\ UnsettledReportKept
=============================================================================
