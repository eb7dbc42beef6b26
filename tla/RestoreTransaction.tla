------------------------- MODULE RestoreTransaction -------------------------
(***************************************************************************)
(* The transaction that brings one published CRIU image back as a live     *)
(* pool, and what later controllers do with a transaction that was cut     *)
(* short.  A controller holds lifecycle.lock for its whole operation, so   *)
(* controllers run one after the other; what runs beside them is the CRIU  *)
(* launcher, which outlives a killed controller, and the restored tree.    *)
(*                                                                         *)
(* CRIU gives the tree the PIDs it had when it was dumped.  Every          *)
(* transaction therefore aims at the same PIDs: `tree` says who has them,  *)
(* and which transaction restored it.  A birth identity (PID, start ticks, *)
(* boot) is represented by the number of the transaction that made the     *)
(* tree; 0 is the identity of the dumped processes.                        *)
(*                                                                         *)
(* CRIU itself is external: it may fail, collide with the holder of the    *)
(* PIDs, and it writes the pidfile before it reports success.              *)
(***************************************************************************)
EXTENDS Naturals

CONSTANTS
  MaxTransactions, \* bound on restore transactions
  MaxCrashes,      \* bound on controllers killed outright
  MaxForeign,      \* bound on unrelated processes that get the image's PIDs
  MaxSurvivals,    \* bound on terminations that leave the tree behind
  StopInFlight     \* TRUE when a stop may run while a launcher is in flight

ASSUME BoundsAssumption ==
  /\ MaxTransactions \in Nat
  /\ MaxCrashes \in Nat
  /\ MaxForeign \in Nat
  /\ MaxSurvivals \in Nat
  /\ StopInFlight \in BOOLEAN

Transactions == 1..MaxTransactions

VARIABLES
  status,   \* pool.json: lifecycle status
  receipt,  \* pool.json: every session has a verified-quiescent stop receipt
  txn,      \* pool.json: restore_transaction, its state and its number
  ids, sids, \* identities recorded in pool.json and in session.json
  lease,    \* the seat: free, or leased by a live or a dead owner
  count,    \* restore transactions begun
  pidfile,  \* transactions whose output directory holds a pidfile
  criu,     \* the launcher of each transaction
  tree,     \* who has the image's PIDs
  ctl,      \* the controller that holds lifecycle.lock
  late,     \* a failed recovery has yet to publish stop_failed
  crashes, foreigners, survivals

pool == <<status, receipt, txn, ids, sids, lease>>
world == <<pidfile, criu, tree>>
bounds == <<count, crashes, foreigners, survivals>>
vars == <<status, receipt, txn, ids, sids, lease, count, pidfile, criu, tree,
          ctl, late, crashes, foreigners, survivals>>

Statuses == {"stopped", "restoring", "ready", "restore_failed", "stopping",
             "stop_failed"}
Phases == {"begin", "launch", "own", "release", "wait", "validate",
           "stage_session", "stage_pool", "resume", "publish", "cleanup",
           "finish", "kill", "mark", "unlink", "displaced", "stop", "publish_stop"}

NoTxn == [state |-> "none", no |-> 0]
Vacant == [of |-> 0, state |-> "vacant"]
ForeignTree == [of |-> 0, state |-> "foreign"]
Tree(n, state) == [of |-> n, state |-> state]
Idle == [op |-> "none", pc |-> "idle", retry |-> FALSE, capture |-> "none",
         verified |-> FALSE]

TypeOK ==
  /\ status \in Statuses
  /\ receipt \in BOOLEAN
  /\ txn \in [state : {"none", "prelaunch", "launcher_owned", "validated", "ready"},
              no : 0..MaxTransactions]
  /\ ids \in 0..MaxTransactions
  /\ sids \in 0..MaxTransactions
  /\ lease \in {"none", "live", "dead"}
  /\ count \in 0..MaxTransactions
  /\ pidfile \subseteq Transactions
  /\ criu \in [Transactions ->
                {"none", "gated", "running", "ok", "failed", "collided"}]
  /\ tree \in [of : 0..MaxTransactions,
               state : {"vacant", "foreign", "partial", "stopped", "running"}]
  /\ ctl \in [op : {"none", "restore", "readiness", "stop"},
              pc : Phases \cup {"idle"}, retry : BOOLEAN,
              capture : {"none", "tree", "pid"}, verified : BOOLEAN]
  /\ late \in BOOLEAN
  /\ crashes \in 0..MaxCrashes
  /\ foreigners \in 0..MaxForeign
  /\ survivals \in 0..MaxSurvivals

Init ==
  /\ status = "stopped" /\ receipt = TRUE /\ txn = NoTxn
  /\ ids = 0 /\ sids = 0 /\ lease = "none"
  /\ count = 0
  /\ pidfile = {}
  /\ criu = [n \in Transactions |-> "none"]
  /\ tree = Vacant
  /\ ctl = Idle
  /\ late = FALSE
  /\ crashes = 0 /\ foreigners = 0 /\ survivals = 0

-----------------------------------------------------------------------------
(* What a controller can read.                                             *)

\* pool_is_live: the recorded worker and basis run under their identities.
PoolIsLive == tree.state \in {"partial", "stopped", "running"} /\ tree.of = ids

\* restore_preflight_failure: only a verified stopped pool is restored.
MayBegin == status = "stopped" /\ ~PoolIsLive /\ receipt

\* demote_stale_ready_pool_for_restore: every recorded process is dead.
StaleReady ==
  /\ status = "ready" /\ ~PoolIsLive
  /\ txn.state \in {"none", "ready"}
  /\ tree = Vacant
  /\ receipt /\ lease = "none" /\ sids = ids

\* An interrupted or failed transaction that recovery has to settle.
RecoveryApplies(s) ==
  /\ txn.state # "none"
  /\ s \in {"restoring", "restore_failed"}
  /\ ~(s = "restore_failed" /\ txn.no \notin pidfile)

LauncherInFlight ==
  txn.state \notin {"none", "prelaunch"} /\ criu[txn.no] \in {"gated", "running"}

AnyInFlight == \E n \in Transactions : criu[n] \in {"gated", "running"}

Free == ctl.pc = "idle"
At(pc) == ctl.pc = pc
Goto(pc) == ctl' = [ctl EXCEPT !.pc = pc]

-----------------------------------------------------------------------------
(* A restore, from its admission to the ready pool.                        *)

StartRestore(pc) ==
  ctl' = [Idle EXCEPT !.op = "restore", !.pc = pc, !.retry = TRUE]

\* restore_pool_locked with --published-shelf-only: prove's way in, which
\* never recovers an incomplete transaction.
ActivatePublished ==
  /\ Free /\ StaleReady /\ count < MaxTransactions
  /\ status' = "stopped" /\ txn' = NoTxn
  /\ StartRestore("begin")
  /\ UNCHANGED <<receipt, ids, sids, lease, world, bounds, late>>

\* restore_pool_locked past its preflight, on either way in.
AdmitRestore ==
  /\ Free /\ MayBegin /\ count < MaxTransactions
  /\ StartRestore("begin")
  /\ UNCHANGED <<pool, world, bounds, late>>

\* The private restore settles an incomplete transaction and does no more.
RestoreRecovers ==
  /\ Free /\ RecoveryApplies(status) /\ ~LauncherInFlight
  /\ StartRestore("kill")
  /\ UNCHANGED <<pool, world, bounds, late>>

\* prepared_restore_output_authority: the log, the pidfile's directory and
\* their identities are prepared first; a refusal leaves the pool as it was.
OutputsRefused ==
  /\ At("begin")
  /\ ctl' = Idle
  /\ UNCHANGED <<pool, world, bounds, late>>

\* begin_restored_pool_transaction: close admission, publish the anchors.
Begin ==
  /\ At("begin") /\ count < MaxTransactions
  /\ count' = count + 1
  /\ status' = "restoring"
  /\ txn' = [state |-> "prelaunch", no |-> count + 1]
  /\ lease' = "none"
  /\ Goto("launch")
  /\ UNCHANGED <<receipt, ids, sids, world, late, crashes, foreigners, survivals>>

\* start_restore_launcher: a child that waits for one byte on its gate.
StartLauncher ==
  /\ At("launch")
  /\ criu' = [criu EXCEPT ![count] = "gated"]
  /\ Goto("own")
  /\ UNCHANGED <<pool, pidfile, tree, bounds, late>>

\* record_restored_pool_launcher: own the launcher before it may exec.
OwnLauncher ==
  /\ At("own") /\ status = "restoring" /\ txn.state = "prelaunch"
  /\ txn' = [txn EXCEPT !.state = "launcher_owned"]
  /\ Goto("release")
  /\ UNCHANGED <<status, receipt, ids, sids, lease, world, bounds, late>>

\* release_restore_launcher.
ReleaseLauncher ==
  /\ At("release")
  /\ criu' = [criu EXCEPT ![count] = "running"]
  /\ Goto("wait")
  /\ UNCHANGED <<pool, pidfile, tree, bounds, late>>

\* wait_restore_launcher: a signal is latched, the launcher never signalled.
LauncherSettled ==
  /\ At("wait") /\ criu[count] \in {"ok", "failed", "collided"}
  /\ Goto(IF criu[count] = "ok" THEN "validate" ELSE "kill")
  /\ UNCHANGED <<pool, world, bounds, late>>

\* The image's root PID was taken and is vacant again: roll the transaction
\* back to the verified stop and try once more.
RetryAfterCollision ==
  /\ At("wait") /\ criu[count] = "collided" /\ ctl.retry
  /\ count \notin pidfile /\ tree = Vacant
  /\ status = "restoring" /\ txn = [state |-> "launcher_owned", no |-> count]
  /\ receipt /\ count < MaxTransactions
  /\ status' = "stopped" /\ txn' = NoTxn
  /\ ctl' = [ctl EXCEPT !.pc = "begin", !.retry = FALSE]
  /\ UNCHANGED <<receipt, ids, sids, lease, world, bounds, late>>

\* Fault: the tree is continued before its identities are recorded.
ValidateTree_SkipsStaging ==
  /\ At("validate") /\ tree = Tree(count, "stopped")
  /\ ctl' = [ctl EXCEPT !.pc = "resume", !.capture = "pid"]
  /\ UNCHANGED <<pool, world, bounds, late>>

\* read_restored_root_pid, capture_authoritative_tree, validate_restored_tree.
ValidateTree ==
  /\ At("validate") /\ tree = Tree(count, "stopped")
  /\ ctl' = [ctl EXCEPT !.pc = "stage_session", !.capture = "tree"]
  /\ UNCHANGED <<pool, world, bounds, late>>

\* stage_restored_pool_metadata writes session.json, then pool.json.
StageSession ==
  /\ At("stage_session")
  /\ sids' = count
  /\ Goto("stage_pool")
  /\ UNCHANGED <<status, receipt, txn, ids, lease, world, bounds, late>>

StagePool ==
  /\ At("stage_pool")
  /\ ids' = count /\ status' = "restoring"
  /\ txn' = [txn EXCEPT !.state = "validated"]
  /\ lease' = "none"
  /\ ctl' = [ctl EXCEPT !.pc = "resume", !.capture = "pid"]
  /\ UNCHANGED <<receipt, sids, world, bounds, late>>

\* Fault: SIGCONT is sent and its effect is not awaited.
Resume_NotAwaited ==
  /\ At("resume") /\ tree = Tree(count, "stopped")
  /\ tree' \in {tree, Tree(count, "running")}
  /\ Goto("publish")
  /\ UNCHANGED <<pool, pidfile, criu, bounds, late>>

\* resume_restored_processes: SIGCONT to the validated identities.  It fails
\* when a process is gone, or does not leave the stopped state in time.
Resume ==
  /\ At("resume") /\ tree = Tree(count, "stopped")
  /\ tree' = Tree(count, "running")
  /\ Goto("publish") \/ Goto("kill")
  /\ UNCHANGED <<pool, pidfile, criu, bounds, late>>

\* publish_restored_pool_ready.
PublishReady ==
  /\ At("publish") /\ status = "restoring"
  /\ status' = "ready" /\ txn' = [txn EXCEPT !.state = "ready"]
  /\ lease' = "none"
  /\ Goto("cleanup")
  /\ UNCHANGED <<receipt, ids, sids, world, bounds, late>>

\* The pidfile and the output directory go only after the ready commit.
RemovePidfile ==
  /\ At("cleanup")
  /\ pidfile' = pidfile \ {count}
  /\ Goto("finish")
  /\ UNCHANGED <<pool, criu, tree, bounds, late>>

RestoreDone ==
  /\ At("finish")
  /\ ctl' = Idle
  /\ UNCHANGED <<pool, world, bounds, late>>

\* An error or a latched signal at a phase boundary.  A launcher that was
\* not released finds its gate closed and exits without running CRIU.
PhaseFails ==
  /\ ctl.pc \in {"launch", "own", "release", "validate", "stage_session",
                 "stage_pool", "resume", "publish", "cleanup", "finish"}
  /\ criu' = IF ctl.pc \in {"own", "release"}
             THEN [criu EXCEPT ![count] = "failed"] ELSE criu
  /\ Goto("kill")
  /\ UNCHANGED <<pool, pidfile, tree, bounds, late>>

-----------------------------------------------------------------------------
(* Failure and recovery: _cleanup_restored_tree, the failed status, and    *)
(* the pidfile, which goes only when nothing it anchors is left.           *)

\* The tree the cleanup kills: the one this controller validated; or, from
\* the resume on and in recovery, whatever the root PID names now; or, with
\* no root PID, a tree at the recorded PIDs that is stopped throughout.
RootKnown == ctl.capture # "none" \/ txn.no \in pidfile
Captured ==
  /\ tree # Vacant
  /\ CASE ctl.capture = "tree" -> tree.of = txn.no
       [] ctl.capture # "tree" /\ RootKnown -> TRUE
       [] OTHER -> tree.state = "stopped"

\* TERM and KILL by process group; a process in an uninterruptible call is a
\* survivor, and is reported as one.
Terminate(gone) ==
  /\ tree' = IF gone THEN Vacant ELSE tree
  /\ survivals' = IF gone THEN survivals ELSE survivals + 1
  /\ survivals' <= MaxSurvivals
NothingToKill == UNCHANGED <<tree, survivals>>

\* Verified quiescence: the capture was complete and nothing survives it.
CaptureComplete ==
  \/ ctl.capture = "tree" /\ tree = Vacant
  \/ RootKnown /\ tree.of = txn.no /\ tree.state \in {"stopped", "running"}

KillTree ==
  /\ At("kill")
  /\ \E gone \in BOOLEAN :
       /\ IF Captured THEN Terminate(gone) ELSE NothingToKill /\ gone
       /\ ctl' = [ctl EXCEPT !.pc = "mark", !.verified = gone /\ CaptureComplete]
  /\ UNCHANGED <<pool, pidfile, criu, count, crashes, foreigners, late>>

\* _mark_pool_restore_failed.
MarkRestoreFailed ==
  /\ At("mark")
  /\ status' = "restore_failed" /\ lease' = "none"
  /\ Goto("unlink")
  /\ UNCHANGED <<receipt, txn, ids, sids, world, bounds, late>>

Unlink ==
  /\ At("unlink")
  /\ pidfile' = IF ctl.verified THEN pidfile \ {txn.no} ELSE pidfile
  /\ IF ctl.op = "readiness" THEN Goto("displaced") ELSE ctl' = Idle
  /\ UNCHANGED <<pool, criu, tree, bounds, late>>

-----------------------------------------------------------------------------
(* stop-profile, and the readiness controller's recover-and-stop.          *)

\* The stop commands take no account of a launcher in flight.
OperatorMayStop == StopInFlight \/ ~AnyInFlight

StartStop ==
  /\ Free /\ OperatorMayStop /\ status # "stopped"
  /\ status' = "stopping"
  /\ ctl' = [Idle EXCEPT !.op = "stop", !.pc = "stop"]
  /\ UNCHANGED <<receipt, txn, ids, sids, lease, world, bounds, late>>

\* Fault: a PID with another identity counts as gone.
StopProcesses_MismatchIsGone ==
  /\ At("stop")
  /\ LET own == tree.of = sids /\ tree.of # 0
     IN  /\ IF own THEN Terminate(TRUE) ELSE NothingToKill
         /\ ctl' = [ctl EXCEPT !.pc = "publish_stop", !.verified = TRUE]
  /\ UNCHANGED <<pool, pidfile, criu, count, crashes, foreigners, late>>

\* stop_warm_session: only a process with the identity recorded in
\* session.json is signalled; any other holder of the PIDs is a survivor.
StopProcesses ==
  /\ At("stop")
  /\ LET own == tree.of = sids /\ tree.of # 0
     IN  \E gone \in BOOLEAN :
           /\ IF own THEN Terminate(gone) ELSE NothingToKill /\ gone
           /\ ctl' = [ctl EXCEPT !.pc = "publish_stop",
                                 !.verified = (own /\ gone) \/ tree = Vacant]
  /\ UNCHANGED <<pool, pidfile, criu, count, crashes, foreigners, late>>

PublishStop ==
  /\ At("publish_stop")
  /\ status' = IF ctl.verified THEN "stopped" ELSE "stop_failed"
  /\ receipt' = ctl.verified
  /\ lease' = IF ctl.verified THEN "none" ELSE lease
  /\ ctl' = Idle
  /\ UNCHANGED <<txn, ids, sids, world, bounds, late>>

Unsettled == {"restoring", "restore_failed", "stopping", "stop_failed"}

\* Fault: admission stays open while the recovery runs.
StartReadiness_LeavesReady ==
  /\ Free /\ OperatorMayStop /\ lease # "live"
  /\ ~(RecoveryApplies(status) /\ LauncherInFlight)
  /\ ctl' = [Idle EXCEPT !.op = "readiness",
               !.pc = IF RecoveryApplies(status) THEN "kill" ELSE "stop"]
  /\ UNCHANGED <<pool, world, bounds, late>>

\* recover_and_stop_profile_root, first part: refuse live lease owners,
\* close admission, and recover the transaction once its launcher settled.
StartReadiness ==
  /\ Free /\ OperatorMayStop
  /\ lease # "live"
  /\ ~(RecoveryApplies(status) /\ LauncherInFlight)
  /\ status' = IF status \in Unsettled THEN status ELSE "stopping"
  /\ ctl' = [Idle EXCEPT !.op = "readiness",
               !.pc = IF RecoveryApplies(status) THEN "kill" ELSE "displaced"]
  /\ UNCHANGED <<receipt, txn, ids, sids, lease, world, bounds, late>>

\* The launcher has not settled in 30 s, or the recorded output directory is
\* no longer the one that was bound: the recovery raises, its locks are
\* released, and the failure is published under a new lifecycle lock.
ReadinessRaises ==
  /\ Free /\ lease # "live" /\ RecoveryApplies(status)
  /\ late' = TRUE
  /\ UNCHANGED <<pool, ctl, world, bounds>>

\* Fault: no broker is taken to be displaced.
RetireDisplaced_Never ==
  /\ At("displaced")
  /\ status' = "stopping"
  /\ Goto("stop")
  /\ UNCHANGED <<receipt, txn, ids, sids, lease, world, bounds, late>>

\* _retire_identity_displaced_broker: a holder of the recorded PIDs under
\* another identity goes if its command line names this pool.
RetireDisplaced ==
  /\ At("displaced")
  /\ tree.state # "foreign"
  /\ IF tree.of # ids THEN Terminate(TRUE) ELSE NothingToKill
  /\ status' = "stopping"
  /\ Goto("stop")
  /\ UNCHANGED <<receipt, txn, ids, sids, lease, pidfile, criu, count, crashes,
                 foreigners, late>>

RefuseDisplaced ==
  /\ At("displaced")
  /\ \/ tree.state \in {"foreign", "partial"} /\ NothingToKill
     \/ tree.of \notin {0, ids} /\ Terminate(FALSE)
  /\ late' = TRUE
  /\ ctl' = Idle
  /\ UNCHANGED <<pool, pidfile, criu, count, crashes, foreigners>>

\* _mark_stop_failed, after the exception released the lifecycle lock.
MarkStopFailed ==
  /\ Free /\ late
  /\ late' = FALSE
  /\ status' = "stop_failed" /\ receipt' = FALSE
  /\ UNCHANGED <<txn, ids, sids, lease, ctl, world, bounds>>

-----------------------------------------------------------------------------
(* The processes beside the controller.                                    *)

\* The gate of a launcher whose controller died closes.
GateCloses(n) ==
  /\ criu[n] = "gated" /\ ~(n = count /\ ctl.pc \in {"own", "release"})
  /\ criu' = [criu EXCEPT ![n] = "failed"]
  /\ UNCHANGED <<pool, pidfile, tree, bounds, ctl, late>>

CriuForks(n) ==
  /\ criu[n] = "running" /\ tree = Vacant
  /\ tree' = Tree(n, "partial")
  /\ UNCHANGED <<pool, pidfile, criu, bounds, ctl, late>>

CriuCollides(n) ==
  /\ criu[n] = "running" /\ tree # Vacant /\ tree.of # n
  /\ criu' = [criu EXCEPT ![n] = "collided"]
  /\ UNCHANGED <<pool, pidfile, tree, bounds, ctl, late>>

CriuWritesPidfile(n) ==
  /\ criu[n] = "running" /\ tree = Tree(n, "partial") /\ n \notin pidfile
  /\ pidfile' = pidfile \cup {n}
  /\ UNCHANGED <<pool, criu, tree, bounds, ctl, late>>

CriuSucceeds(n) ==
  /\ criu[n] = "running" /\ tree = Tree(n, "partial") /\ n \in pidfile
  /\ tree' = Tree(n, "stopped")
  /\ criu' = [criu EXCEPT ![n] = "ok"]
  /\ UNCHANGED <<pool, pidfile, bounds, ctl, late>>

CriuFails(n) ==
  /\ criu[n] = "running"
  /\ tree' = IF tree.of = n THEN Vacant ELSE tree
  /\ criu' = [criu EXCEPT ![n] = "failed"]
  /\ UNCHANGED <<pool, pidfile, bounds, ctl, late>>

CriuSettles(n) == CriuForks(n) \/ CriuCollides(n) \/ CriuWritesPidfile(n)
                    \/ CriuSucceeds(n) \/ CriuFails(n)

TreeDies ==
  /\ tree.state \in {"stopped", "running"}
  /\ tree' = Vacant
  /\ UNCHANGED <<pool, pidfile, criu, bounds, ctl, late>>

\* After a reboot, or once the PID counter has wrapped, an unrelated process
\* can get the PIDs; it ends some day.
ForeignTakesPids ==
  /\ tree = Vacant /\ foreigners < MaxForeign
  /\ tree' = ForeignTree /\ foreigners' = foreigners + 1
  /\ UNCHANGED <<pool, pidfile, criu, count, crashes, survivals, ctl, late>>

ForeignExits ==
  /\ tree = ForeignTree
  /\ tree' = Vacant
  /\ UNCHANGED <<pool, pidfile, criu, bounds, ctl, late>>

\* SIGKILL of a controller, or of a recovery that has yet to publish.
Crash ==
  /\ ctl # Idle \/ late
  /\ crashes < MaxCrashes
  /\ crashes' = crashes + 1
  /\ ctl' = Idle /\ late' = FALSE
  /\ UNCHANGED <<pool, world, count, foreigners, survivals>>

\* A client, under pool.lock, which a restore holds throughout.
Checkout ==
  /\ ctl.op # "restore" /\ status = "ready" /\ PoolIsLive /\ lease # "live"
  /\ lease' = "live"
  /\ UNCHANGED <<status, receipt, txn, ids, sids, world, bounds, ctl, late>>

OwnerReleases ==
  /\ ctl.op # "restore" /\ lease = "live"
  /\ lease' = "none"
  /\ UNCHANGED <<status, receipt, txn, ids, sids, world, bounds, ctl, late>>

OwnerDies ==
  /\ lease = "live"
  /\ lease' = "dead"
  /\ UNCHANGED <<status, receipt, txn, ids, sids, world, bounds, ctl, late>>

-----------------------------------------------------------------------------
Starts == ActivatePublished \/ AdmitRestore \/ RestoreRecovers \/ StartStop
            \/ ReadinessRaises

RestoreStep ==
  \/ OutputsRefused \/ Begin \/ StartLauncher \/ OwnLauncher \/ ReleaseLauncher \/ LauncherSettled
  \/ RetryAfterCollision \/ ValidateTree \/ StageSession \/ StagePool \/ Resume
  \/ PublishReady \/ RemovePidfile \/ RestoreDone \/ PhaseFails

CleanupStep == KillTree \/ MarkRestoreFailed \/ Unlink

StopStep == StopProcesses \/ PublishStop \/ RetireDisplaced \/ RefuseDisplaced

Controller == RestoreStep \/ CleanupStep \/ StopStep

Next ==
  \/ Starts \/ StartReadiness \/ Controller \/ MarkStopFailed
  \/ \E n \in Transactions : GateCloses(n) \/ CriuSettles(n)
  \/ TreeDies \/ ForeignTakesPids \/ ForeignExits \/ Crash
  \/ Checkout \/ OwnerReleases \/ OwnerDies

Spec == Init /\ [][Next]_vars

\* A controller that is not killed proceeds, CRIU settles, an unrelated
\* process ends, a lease owner ends, and somebody keeps running the readiness
\* controller (SF: other commands take the lifecycle lock in between).
FairSpec ==
  /\ Spec
  /\ WF_vars(Controller) /\ WF_vars(MarkStopFailed)
  /\ \A n \in Transactions : WF_vars(GateCloses(n)) /\ WF_vars(CriuSettles(n))
  /\ WF_vars(ForeignExits)
  /\ WF_vars(OwnerDies)
  /\ SF_vars(StartReadiness)

-----------------------------------------------------------------------------
(* Properties.                                                             *)

\* A restored tree is continued only when both records name it: the identity
\* staging of session.json and pool.json comes before SIGCONT, so a stop can
\* always recognise a tree that runs.  Until then the pidfile of its launcher is
\* the anchor that recovery works from, and stays as long as the tree does.
TreeAnchored ==
  /\ tree.state = "running" => ids = tree.of /\ sids = tree.of
  /\ \A n \in Transactions :
       criu[n] = "ok" /\ tree.of = n /\ n \notin pidfile => ids = n

\* The status is what every other route relies on.  "ready" is published after the
\* tree was resumed, so no tree with the recorded identities is half restored or
\* stopped; "stopped", which stop-profile publishes and the restore preflight
\* trusts, means that no restored tree has the image's PIDs.
StatusTrue ==
  /\ status = "ready" /\ tree.of # 0 => tree = Tree(ids, "running")
  /\ status = "stopped" => tree.of = 0

\* The recovery drops pool.lock between its check for live lease owners and
\* its stop; no live lease is under the tree it kills.
RecoverySparesLease ==
  [][ctl.op = "readiness" /\ tree.of # 0 /\ tree' = Vacant /\ ~TreeDies
       => lease # "live"]_vars

\* A recovery, a cleanup and a stop signal restored trees only: a process
\* that merely got a PID of the image is never killed (the rule stated at
\* _retire_identity_displaced_broker).
ForeignNeverKilled == [][tree = ForeignTree => tree' = tree \/ ForeignExits]_vars

\* Whatever was interrupted, a pool whose readiness controller is run again
\* ends up ready or verified stopped; no record wedges it for good.
PoolNotWedged == []<>(status \in {"ready", "stopped"})
=============================================================================
