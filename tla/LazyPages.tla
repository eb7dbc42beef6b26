----------------------------- MODULE LazyPages -----------------------------
(***************************************************************************)
(* The lazy-pages daemon of a CRIU restore: a detached process that serves *)
(* memory pages over a socket in the image directory.  A controller, which *)
(* holds the pool lock, launches one behind a gate, binds its birth        *)
(* identity, publishes an owner record, runs the restore and retires the   *)
(* daemon.  It can be killed between any two steps; the next controller    *)
(* has the files only: the pending launch intent, the owner record, the    *)
(* pidfile and the socket.  The public command keeps this route closed; it *)
(* is reachable behind an explicit acceptance flag.                        *)
(*                                                                         *)
(* Launch number n starts launcher n and daemon n, and a birth identity is *)
(* that number.  A PID that was reused reads as "replaced", which the code *)
(* treats as it treats "gone".                                             *)
(***************************************************************************)
EXTENDS Naturals, FiniteSets

CONSTANTS
  MaxLaunches,  \* bound on launches
  MaxKills,     \* bound on controllers killed outright
  MaxFaults     \* bound on unlink errors, unreadable identities, survivors

ASSUME LazyAssumption ==
  MaxLaunches \in Nat /\ MaxKills \in Nat /\ MaxFaults \in Nat

Launches == 1..MaxLaunches

VARIABLES
  pending,  \* lazy-pages-launch.json: its launch, and whether it names a daemon
  owner,    \* lazy-pages-owner.json: the daemon it names, 0 when absent
  socket,   \* lazy-pages.socket exists
  pidfiles, \* launches whose pidfile exists
  launcher, \* the gated parent of each launch
  daemon,   \* the daemon of each launch
  launches, \* launches begun
  lazyPc,   \* control point of the controller
  bound,    \* the controller knows the birth identity of daemon `launches`
  kills, faults

lazyFiles == <<pending, owner, socket, pidfiles>>
lazyProcs == <<launcher, daemon>>
lazyVars == <<pending, owner, socket, pidfiles, launcher, daemon, launches, lazyPc,
              bound, kills, faults>>

NoPending == [no |-> 0, state |-> "none"]
LazyPcs ==
  {"idle", "recover", "prepare", "retire_socket", "retire_pidfile", "retire_owner",
   "retire_pending", "spawn", "pend", "release", "status", "reap", "bind", "handoff",
   "publish", "clear_pending", "restore", "settle", "cleanup", "clear_socket",
   "clear_owner", "clear_pidfile", "clear_intent"}

LazyTypeOK ==
  /\ pending \in [no : 0..MaxLaunches, state : {"none", "authorized", "bound"}]
  /\ owner \in 0..MaxLaunches
  /\ socket \in BOOLEAN
  /\ pidfiles \subseteq Launches
  /\ launcher \in [Launches -> {"none", "gated", "running", "exited", "failed"}]
  /\ daemon \in [Launches -> {"none", "starting", "ready", "gone"}]
  /\ launches \in 0..MaxLaunches
  /\ lazyPc \in LazyPcs
  /\ bound \in BOOLEAN
  /\ kills \in 0..MaxKills
  /\ faults \in 0..MaxFaults

LazyInit ==
  /\ pending = NoPending /\ owner = 0 /\ socket = FALSE /\ pidfiles = {}
  /\ launcher = [n \in Launches |-> "none"]
  /\ daemon = [n \in Launches |-> "none"]
  /\ launches = 0 /\ lazyPc = "idle" /\ bound = FALSE
  /\ kills = 0 /\ faults = 0

DaemonLives(n) == daemon[n] \in {"starting", "ready"}
LauncherLives(n) == launcher[n] \in {"gated", "running"}

At(p) == lazyPc = p
GoTo(p) == lazyPc' = p

\* A fault is spent: an OSError, an unreadable identity, a process that
\* survives its KILL.
Faults == faults < MaxFaults /\ faults' = faults + 1

\* terminate_owned_daemon: exact identity, TERM then KILL through a pidfd;
\* a daemon that is gone, or whose PID was reused, is verified quiescent.
EndDaemon(n) == daemon' = [daemon EXCEPT ![n] = IF @ = "none" THEN @ ELSE "gone"]

-----------------------------------------------------------------------------
(* run_owned_lazy_pages_restore, first part: recover_lazy_pages_launch.    *)

StartRestore ==
  /\ At("idle") /\ launches < MaxLaunches
  /\ GoTo("recover") /\ bound' = FALSE
  /\ UNCHANGED <<lazyFiles, lazyProcs, launches, kills, faults>>

RecoveryClear ==
  /\ At("recover") /\ pending = NoPending
  /\ GoTo("prepare")
  /\ UNCHANGED <<lazyFiles, lazyProcs, launches, bound, kills, faults>>

\* The published owner is live: only the stale intent is removed.
OwnerReady ==
  /\ At("recover") /\ pending # NoPending
  /\ owner = pending.no /\ DaemonLives(owner)
  /\ pending' = NoPending
  /\ GoTo("prepare")
  /\ UNCHANGED <<owner, socket, pidfiles, lazyProcs, launches, bound, kills, faults>>

\* The published owner is dead: its artifacts go, then the intent.
StaleOwner ==
  /\ At("recover") /\ pending # NoPending
  /\ owner = pending.no /\ ~DaemonLives(owner)
  /\ GoTo("retire_socket")
  /\ UNCHANGED <<lazyFiles, lazyProcs, launches, bound, kills, faults>>

\* No owner, and the intent names the daemon: terminate it; the artifacts go
\* only when launcher and daemon are both verified gone.
RecoverBound ==
  /\ At("recover") /\ pending.state = "bound" /\ owner = 0
  /\ EndDaemon(pending.no)
  /\ GoTo(IF LauncherLives(pending.no) THEN "idle" ELSE "clear_socket")
  /\ UNCHANGED <<lazyFiles, launcher, launches, bound, kills, faults>>

\* The intent names no daemon, the owner is another launch's, or the daemon's
\* identity cannot be read: the recovery is blocked and removes nothing.
RecoveryBlocked ==
  /\ At("recover") /\ pending # NoPending
  /\ \/ pending.state = "authorized" /\ owner = 0 /\ UNCHANGED faults
     \/ owner \notin {0, pending.no} /\ UNCHANGED faults
     \/ Faults
  /\ GoTo("idle")
  /\ UNCHANGED <<lazyFiles, lazyProcs, launches, bound, kills>>

-----------------------------------------------------------------------------
(* prepare_launch and retire_prior_owner.                                  *)

\* A socket or a pidfile without a record would refuse the launch for good;
\* LaunchAnchored says there is none.
PrepareClear ==
  /\ At("prepare") /\ pending = NoPending
  /\ owner = 0 /\ ~socket /\ pidfiles = {}
  /\ GoTo("spawn")
  /\ UNCHANGED <<lazyFiles, lazyProcs, launches, bound, kills, faults>>

\* Fault: a prior daemon that did not stop is taken for stopped.
RetirePrior_Unverified ==
  /\ At("prepare") /\ pending = NoPending /\ owner # 0
  /\ \/ EndDaemon(owner) /\ UNCHANGED faults
     \/ Faults /\ DaemonLives(owner) /\ UNCHANGED daemon
  /\ GoTo("retire_socket")
  /\ UNCHANGED <<lazyFiles, launcher, launches, bound, kills>>

RetirePrior ==
  /\ At("prepare") /\ pending = NoPending /\ owner # 0
  /\ \/ EndDaemon(owner) /\ GoTo("retire_socket") /\ UNCHANGED faults
     \/ Faults /\ DaemonLives(owner) /\ GoTo("idle") /\ UNCHANGED daemon
  /\ UNCHANGED <<lazyFiles, launcher, launches, bound, kills>>

\* The artifacts go one by one, the owner record last.
RetireSocket ==
  /\ At("retire_socket")
  /\ socket' = FALSE
  /\ GoTo("retire_pidfile")
  /\ UNCHANGED <<pending, owner, pidfiles, lazyProcs, launches, bound, kills, faults>>

RetirePidfile ==
  /\ At("retire_pidfile")
  /\ pidfiles' = pidfiles \ {owner}
  /\ GoTo("retire_owner")
  /\ UNCHANGED <<pending, owner, socket, lazyProcs, launches, bound, kills, faults>>

\* The owner record goes; what follows depends on who asked: a recovery also
\* clears the intent, a launch goes on, and after a restore all is settled.
RetireOwner ==
  /\ At("retire_owner")
  /\ owner' = 0
  /\ GoTo(IF pending # NoPending THEN "retire_pending"
          ELSE IF owner = launches /\ bound THEN "idle" ELSE "prepare")
  /\ bound' = IF owner = launches THEN FALSE ELSE bound
  /\ UNCHANGED <<pending, socket, pidfiles, lazyProcs, launches, kills, faults>>

RetirePending ==
  /\ At("retire_pending")
  /\ pending' = NoPending
  /\ GoTo("prepare")
  /\ UNCHANGED <<owner, socket, pidfiles, lazyProcs, launches, bound, kills, faults>>

-----------------------------------------------------------------------------
(* launch_lazy_pages_internal.                                             *)

SpawnLauncher ==
  /\ At("spawn") /\ launches < MaxLaunches
  /\ launches' = launches + 1
  /\ launcher' = [launcher EXCEPT ![launches + 1] = "gated"]
  /\ bound' = FALSE
  /\ GoTo("pend")
  /\ UNCHANGED <<lazyFiles, daemon, kills, faults>>

\* Fault: the gate opens before the intent is durable.
WritePending_AfterRelease ==
  /\ At("pend")
  /\ launcher' = [launcher EXCEPT ![launches] = IF @ = "gated" THEN "running" ELSE @]
  /\ GoTo("release")
  /\ UNCHANGED <<lazyFiles, daemon, launches, bound, kills, faults>>

\* write_pending_launch: the intent is durable before the gate opens.
WritePending ==
  /\ At("pend")
  /\ pending' = [no |-> launches, state |-> "authorized"]
  /\ GoTo("release")
  /\ UNCHANGED <<owner, socket, pidfiles, lazyProcs, launches, bound, kills, faults>>

Release ==
  /\ At("release")
  /\ launcher' = [launcher EXCEPT ![launches] =
                    IF @ = "gated" THEN "running" ELSE @]
  /\ GoTo("status")
  /\ UNCHANGED <<lazyFiles, daemon, launches, bound, kills, faults>>

\* observe_status_nul: one NUL byte, once the daemon listens.
ObserveStatus ==
  /\ At("status") /\ (daemon[launches] = "ready" \/ (daemon[launches] = "gone" /\ socket))
  /\ GoTo("reap")
  /\ UNCHANGED <<lazyFiles, lazyProcs, launches, bound, kills, faults>>

ReapParent ==
  /\ At("reap") /\ launcher[launches] = "exited"
  /\ GoTo("bind")
  /\ UNCHANGED <<lazyFiles, lazyProcs, launches, bound, kills, faults>>

\* bind_daemon_identity: two equal readings of a live PID from the pidfile.
BindDaemon ==
  /\ At("bind") /\ launches \in pidfiles /\ DaemonLives(launches)
  /\ bound' = TRUE
  /\ GoTo("handoff")
  /\ UNCHANGED <<lazyFiles, lazyProcs, launches, kills, faults>>

\* write_bound_pending.
HandOff ==
  /\ At("handoff") /\ pending.state = "authorized"
  /\ pending' = [pending EXCEPT !.state = "bound"]
  /\ GoTo("publish")
  /\ UNCHANGED <<owner, socket, pidfiles, lazyProcs, launches, bound, kills, faults>>

\* owner_record, write_owner.
PublishOwner ==
  /\ At("publish")
  /\ owner' = launches
  /\ GoTo("clear_pending")
  /\ UNCHANGED <<pending, socket, pidfiles, lazyProcs, launches, bound, kills, faults>>

\* The intent goes; a failure to remove it does not fail the launch.
ClearPending ==
  /\ At("clear_pending")
  /\ \/ pending' = NoPending /\ UNCHANGED faults
     \/ Faults /\ UNCHANGED pending
  /\ GoTo("restore")
  /\ UNCHANGED <<owner, socket, pidfiles, lazyProcs, launches, bound, kills>>

\* An error or an interrupt in any phase of the launch: time-outs, a parent
\* that fails, a daemon that died, an unreadable identity.
LaunchFails ==
  /\ lazyPc \in {"pend", "release", "status", "reap", "bind", "handoff", "publish"}
  /\ GoTo("cleanup")
  /\ UNCHANGED <<lazyFiles, lazyProcs, launches, bound, kills, faults>>

\* cleanup_failed_launch, abort_launcher: the gate closes; a daemon whose
\* identity was bound is terminated, any other is left to its record.
CleanupLaunch ==
  /\ At("cleanup")
  /\ launcher' = [launcher EXCEPT ![launches] = IF @ = "gated" THEN "failed" ELSE @]
  /\ IF bound
     THEN \/ /\ EndDaemon(launches) /\ UNCHANGED faults
             /\ GoTo(IF LauncherLives(launches) THEN "idle" ELSE "clear_socket")
          \/ Faults /\ UNCHANGED daemon /\ GoTo("idle")
     ELSE GoTo("idle") /\ UNCHANGED <<daemon, faults>>
  /\ UNCHANGED <<lazyFiles, launches, bound, kills>>

\* clear_verified_daemon_artifacts: socket, owner, pidfile, intent.
ClearSocket ==
  /\ At("clear_socket")
  /\ socket' = FALSE
  /\ GoTo("clear_owner")
  /\ UNCHANGED <<pending, owner, pidfiles, lazyProcs, launches, bound, kills, faults>>

ClearOwner ==
  /\ At("clear_owner")
  /\ owner' = 0
  /\ GoTo("clear_pidfile")
  /\ UNCHANGED <<pending, socket, pidfiles, lazyProcs, launches, bound, kills, faults>>

ClearPidfile ==
  /\ At("clear_pidfile")
  /\ pidfiles' = pidfiles \ {pending.no}
  /\ GoTo("clear_intent")
  /\ UNCHANGED <<pending, owner, socket, lazyProcs, launches, bound, kills, faults>>

\* A failed launch ends here; a recovery goes on to the launch.
ClearIntent ==
  /\ At("clear_intent")
  /\ pending' = NoPending
  /\ GoTo(IF bound THEN "idle" ELSE "prepare")
  /\ bound' = FALSE
  /\ UNCHANGED <<owner, socket, pidfiles, lazyProcs, launches, kills, faults>>

-----------------------------------------------------------------------------
(* The restore runs, and its daemon is settled however it ends.            *)

RestoreEnds ==
  /\ At("restore")
  /\ GoTo("settle")
  /\ UNCHANGED <<lazyFiles, lazyProcs, launches, bound, kills, faults>>

\* _settle_owner: terminate, and only then retire the artifacts.
Settle ==
  /\ At("settle")
  /\ \/ EndDaemon(owner) /\ GoTo("retire_socket") /\ UNCHANGED faults
     \/ Faults /\ DaemonLives(owner) /\ GoTo("idle") /\ UNCHANGED daemon
  /\ UNCHANGED <<lazyFiles, launcher, launches, bound, kills>>

\* An unlink fails: the transaction ends with what it retained.
UnlinkFails ==
  /\ lazyPc \in {"retire_socket", "retire_pidfile", "retire_owner", "retire_pending",
             "clear_socket", "clear_owner", "clear_pidfile", "clear_intent"}
  /\ Faults
  /\ GoTo("idle")
  /\ UNCHANGED <<lazyFiles, lazyProcs, launches, bound, kills>>

Crash ==
  /\ ~At("idle") /\ kills < MaxKills
  /\ kills' = kills + 1
  /\ GoTo("idle") /\ bound' = FALSE
  /\ UNCHANGED <<lazyFiles, lazyProcs, launches, faults>>

-----------------------------------------------------------------------------
(* The processes.  CRIU is external: it forks its daemon, which writes the *)
(* pidfile and opens the socket, and the parent exits.                     *)

GateCloses(n) ==
  /\ launcher[n] = "gated" /\ ~(n = launches /\ lazyPc \in {"pend", "release", "cleanup"})
  /\ launcher' = [launcher EXCEPT ![n] = "failed"]
  /\ UNCHANGED <<lazyFiles, daemon, launches, lazyPc, bound, kills, faults>>

CriuForks(n) ==
  /\ launcher[n] = "running" /\ daemon[n] = "none"
  /\ daemon' = [daemon EXCEPT ![n] = "starting"]
  /\ UNCHANGED <<lazyFiles, launcher, launches, lazyPc, bound, kills, faults>>

DaemonListens(n) ==
  /\ daemon[n] = "starting"
  /\ daemon' = [daemon EXCEPT ![n] = "ready"]
  /\ socket' = TRUE /\ pidfiles' = pidfiles \cup {n}
  /\ UNCHANGED <<pending, owner, launcher, launches, lazyPc, bound, kills, faults>>

ParentExits(n) ==
  /\ launcher[n] = "running"
  /\ launcher' = [launcher EXCEPT ![n] = IF daemon[n] = "none" THEN "failed" ELSE "exited"]
  /\ UNCHANGED <<lazyFiles, daemon, launches, lazyPc, bound, kills, faults>>

DaemonDies(n) ==
  /\ DaemonLives(n)
  /\ daemon' = [daemon EXCEPT ![n] = "gone"]
  /\ UNCHANGED <<lazyFiles, launcher, launches, lazyPc, bound, kills, faults>>

-----------------------------------------------------------------------------
Recovery == RecoveryClear \/ OwnerReady \/ StaleOwner \/ RecoverBound \/ RecoveryBlocked
Prepare == PrepareClear \/ RetirePrior \/ RetireSocket
             \/ RetirePidfile \/ RetireOwner \/ RetirePending
Launch == SpawnLauncher \/ WritePending \/ Release \/ ObserveStatus \/ ReapParent
            \/ BindDaemon \/ HandOff \/ PublishOwner \/ ClearPending \/ LaunchFails
Cleanup == CleanupLaunch \/ ClearSocket \/ ClearOwner \/ ClearPidfile \/ ClearIntent
             \/ UnlinkFails
Controller == Recovery \/ Prepare \/ Launch \/ Cleanup \/ RestoreEnds \/ Settle

Processes(n) == GateCloses(n) \/ CriuForks(n) \/ DaemonListens(n)
                  \/ ParentExits(n) \/ DaemonDies(n)

LazyNext ==
  \/ StartRestore \/ Controller \/ Crash
  \/ \E n \in Launches : Processes(n)

LazySpec == LazyInit /\ [][LazyNext]_lazyVars

-----------------------------------------------------------------------------
(* Properties.                                                             *)

\* Whatever is killed when, a live daemon and the artifacts of its launch are
\* named by a durable record: no daemon runs that a later controller could not
\* know of, and no socket or pidfile outlives both records, which would block
\* every later launch for good.
LaunchAnchored ==
  /\ \A n \in Launches : DaemonLives(n) => pending.no = n \/ owner = n
  /\ pidfiles \subseteq {pending.no, owner}
  /\ socket => pending # NoPending \/ owner # 0

\* A launch never starts a daemon beside another one that lives, or beside a
\* released parent that may still fork one.
OneDaemon ==
  Cardinality({n \in Launches : DaemonLives(n) \/ launcher[n] = "running"}) <= 1

\* A lazy-pages daemon that runs, and every socket and pidfile of a launch, is named
\* by a durable record, so that the next controller finds it and verifies it gone
\* before it starts another (prepare_launch, recover_lazy_pages_launch).
DaemonsAnchored == LaunchAnchored /\ OneDaemon
=============================================================================
