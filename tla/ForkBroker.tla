----------------------------- MODULE ForkBroker -----------------------------
(***************************************************************************)
(* The mechanical basis broker of a restored pool: one process that owns   *)
(* the loaded HOL basis, serves one connection per thread and asks the     *)
(* basis to fork one child per attempt.                                    *)
(*                                                                         *)
(*   controller --spawn--> handler thread --phrase--> basis --fork--> child*)
(*                                                                         *)
(* The basis prints a token when it has forked; the handler registers the  *)
(* child and writes an ACK file; the child sees it, enters a process group *)
(* of its own and writes an ownership file; the handler removes that file  *)
(* and the child evaluates.  A phrase that takes too long is answered with *)
(* a timeout, after which its controller tries to find and end the child   *)
(* by a second spawn with a blank phrase and an ACK path that cannot exist.*)
(*                                                                         *)
(* An attempt is its random attempt_id; its controller, its handler thread *)
(* and its child are represented by it.  Names that WarmPool has too carry *)
(* the broker's name: the two are run side by side.                        *)
(***************************************************************************)
EXTENDS Naturals, Sequences, FiniteSets

CONSTANTS
  Attempts,        \* proof attempts
  Sessions,        \* control sessions (sockets) of the broker
  SessionOf,       \* the session an attempt's seat belongs to
  Stubborn,        \* attempts whose child may survive a termination
  MayBeKilled,     \* attempts whose controller may be killed
  SlowOwnership,   \* TRUE when an acknowledged child may miss the deadline
  BrokerMayCrash,  \* TRUE when the broker may be killed
  NoAttempt        \* no attempt

ASSUME BrokerAssumption ==
  /\ NoAttempt \notin Attempts
  /\ SessionOf \in [Attempts -> Sessions]
  /\ Stubborn \subseteq Attempts /\ MayBeKilled \subseteq Attempts
  /\ SlowOwnership \in BOOLEAN /\ BrokerMayCrash \in BOOLEAN

VARIABLES
  client,      \* control point of each controller
  handler,     \* control point of the handler thread serving it
  recovering,  \* attempts whose connection is a spawn recovery
  sessionLock, \* attempt that holds each session_lock
  active,      \* active_attempt_ids
  parentLock,  \* attempt that talks to the basis
  phrases,     \* phrases the basis has not evaluated yet
  printed,     \* attempts whose spawn or refusal token nobody has read
  forked,      \* state of each attempt's child
  acked,       \* attempts whose ACK file exists
  registry,    \* fork-active-children.json
  broker,      \* state of the broker process
  basisUp,     \* the basis runs
  doomed,      \* children the leaving broker still has to terminate
  stopper      \* state of a stop command

threadVars == <<handler, recovering, sessionLock, active>>
basisVars == <<parentLock, phrases, printed, basisUp>>
childVars == <<forked, acked, registry>>
stopVars == <<broker, doomed, stopper>>
brokerVars == <<client, threadVars, basisVars, childVars, stopVars>>

ControllerPc == {"idle", "waiting", "timed out", "recovering", "completed",
             "recovered", "failed", "gone"}
HandlerPc == {"none", "arrived", "locked", "sending", "reading", "registering",
              "acking", "owning", "unwinding", "serving", "finishing"}
ChildState == {"none", "waiting", "owned", "evaluating", "ended"}

BrokerTypeOK ==
  /\ client \in [Attempts -> ControllerPc]
  /\ handler \in [Attempts -> HandlerPc]
  /\ recovering \subseteq Attempts
  /\ sessionLock \in [Sessions -> Attempts \cup {NoAttempt}]
  /\ active \subseteq Attempts
  /\ parentLock \in Attempts \cup {NoAttempt}
  /\ phrases \in Seq(Attempts)
  /\ printed \subseteq Attempts
  /\ forked \in [Attempts -> ChildState]
  /\ acked \subseteq Attempts
  /\ registry \subseteq Attempts
  /\ broker \in {"up", "stopping", "closing", "down"}
  /\ basisUp \in BOOLEAN
  /\ doomed \subseteq Attempts
  /\ stopper \in {"none", "asked", "sweeping", "verified", "failed"}

\* A child leads a process group from setsid on; before, it is in the basis's.
GroupAlive(st) == st \in {"owned", "evaluating"}

BrokerInit ==
  /\ client = [a \in Attempts |-> "idle"]
  /\ handler = [a \in Attempts |-> "none"]
  /\ recovering = {}
  /\ sessionLock = [s \in Sessions |-> NoAttempt]
  /\ active = {}
  /\ parentLock = NoAttempt
  /\ phrases = <<>>
  /\ printed = {}
  /\ forked = [a \in Attempts |-> "none"]
  /\ acked = {}
  /\ registry = {}
  /\ broker = "up"
  /\ basisUp = TRUE
  /\ doomed = {}
  /\ stopper = "none"

-----------------------------------------------------------------------------
(* Controllers.                                                            *)

Accepting == broker \in {"up", "stopping"}

\* The seat lease keeps a session to one controller at a time; a vanilla client
\* gives its seat back whatever the outcome, and the next client connects.
Request(a) ==
  /\ client[a] = "idle" /\ Accepting
  /\ \A b \in Attempts : SessionOf[b] = SessionOf[a] =>
       client[b] \notin {"waiting", "timed out", "recovering"}
  /\ client' = [client EXCEPT ![a] = "waiting"]
  /\ handler' = [handler EXCEPT ![a] = "arrived"]
  /\ UNCHANGED <<recovering, sessionLock, active, basisVars, childVars, stopVars>>

\* _recover_timed_out_broker_spawn connects again, with a blank phrase.
Recover(a) ==
  /\ client[a] = "timed out" /\ Accepting
  /\ client' = [client EXCEPT ![a] = "recovering"]
  /\ handler' = [handler EXCEPT ![a] = "arrived"]
  /\ recovering' = recovering \cup {a}
  /\ UNCHANGED <<sessionLock, active, basisVars, childVars, stopVars>>

RecoveryExpires(a) ==
  /\ client[a] \in {"timed out", "recovering"}
  /\ client' = [client EXCEPT ![a] = "failed"]
  /\ UNCHANGED <<threadVars, basisVars, childVars, stopVars>>

ControllerKilled(a) ==
  /\ a \in MayBeKilled /\ client[a] \in {"waiting", "timed out", "recovering"}
  /\ client' = [client EXCEPT ![a] = "gone"]
  /\ UNCHANGED <<threadVars, basisVars, childVars, stopVars>>

-----------------------------------------------------------------------------
(* Handler threads.                                                        *)

Listening(a) == client[a] \in {"waiting", "recovering"}

Answer(a, st) ==
  client' = [client EXCEPT ![a] = IF Listening(a) THEN st ELSE @]

Step(a, from, to) ==
  /\ handler[a] = from
  /\ handler' = [handler EXCEPT ![a] = to]

\* The finally clauses release everything before the error event is sent.
LetGo(a) ==
  /\ handler' = [handler EXCEPT ![a] = "none"]
  /\ active' = active \ {a}
  /\ sessionLock' = [s \in Sessions |->
       IF sessionLock[s] = a THEN NoAttempt ELSE sessionLock[s]]
  /\ recovering' = recovering \ {a}

Refused(a) == LetGo(a) /\ Answer(a, "failed")

\* terminate_child signals the child's group: a child that has none survives.
AfterTerm(a) ==
  IF ~GroupAlive(forked[a]) THEN {forked[a]}
  ELSE {"ended"} \cup (IF a \in Stubborn THEN {forked[a]} ELSE {})

LockSession(a) ==
  /\ \/ /\ sessionLock[SessionOf[a]] = NoAttempt
        /\ Step(a, "arrived", "locked")
        /\ sessionLock' = [sessionLock EXCEPT ![SessionOf[a]] = a]
        /\ UNCHANGED <<client, recovering, active>>
     \/ /\ handler[a] = "arrived" /\ sessionLock[SessionOf[a]] # NoAttempt
        /\ Refused(a)
  /\ UNCHANGED <<basisVars, childVars, stopVars>>

\* reap_orphaned_children, whose survivors refuse the attempt: the children in
\* done ended before the first survivor, if any, was met.
Reaps(a, done, survivor) ==
  /\ forked' = [b \in Attempts |-> IF b \in done THEN "ended" ELSE forked[b]]
  /\ registry' = registry \ done
  /\ \A b \in done : "ended" \in AfterTerm(b)
  /\ \/ /\ done = registry /\ survivor = NoAttempt
        /\ Step(a, "locked", "sending")
        /\ active' = active \cup {a}
        /\ UNCHANGED <<client, sessionLock, recovering>>
     \/ /\ survivor \in registry \ done
        /\ \E st \in AfterTerm(survivor) : st # "ended"
        /\ handler[a] = "locked" /\ Refused(a)

\* Fault: survivors of earlier attempts are left alone.
Activate_WithoutReaping(a) ==
  /\ Step(a, "locked", "sending")
  /\ active' = active \cup {a}
  /\ UNCHANGED <<client, sessionLock, recovering, childVars, basisVars, stopVars>>

\* Only an attempt that finds no other active one reaps.
Activate(a) ==
  /\ handler[a] = "locked"
  /\ \/ /\ active = {}
        /\ \E done \in SUBSET registry, survivor \in registry \cup {NoAttempt} :
             Reaps(a, done, survivor)
     \/ /\ active # {}
        /\ Step(a, "locked", "sending")
        /\ active' = active \cup {a}
        /\ UNCHANGED <<client, sessionLock, recovering, forked, registry>>
  /\ UNCHANGED <<basisVars, acked, stopVars>>

\* Under parent_lock: write the phrase, then read for the token.
SendPhrase(a) ==
  /\ Step(a, "sending", "reading") /\ parentLock = NoAttempt /\ basisUp
  /\ parentLock' = a
  /\ phrases' = IF a \in recovering THEN phrases ELSE Append(phrases, a)
  /\ UNCHANGED <<client, recovering, sessionLock, active, printed, basisUp,
                 childVars, stopVars>>

\* What is read without being this attempt's token is dropped.
ReadTokens(a) ==
  /\ handler[a] = "reading" /\ printed # {}
  /\ printed' = {}
  /\ \/ /\ a \notin printed
        /\ UNCHANGED <<client, threadVars, parentLock>>
     \/ /\ a \in printed /\ forked[a] # "none"
        /\ Step(a, "reading", "registering") /\ parentLock' = NoAttempt
        /\ UNCHANGED <<client, recovering, sessionLock, active>>
     \/ /\ a \in printed /\ forked[a] = "none"
        /\ Refused(a) /\ parentLock' = NoAttempt
  /\ UNCHANGED <<phrases, basisUp, childVars, stopVars>>

\* Fault: parent_lock stays taken when the read times out.
SpawnTimesOut_KeepsLock(a) ==
  /\ handler[a] = "reading"
  /\ LetGo(a)
  /\ Answer(a, IF registry = {} THEN "timed out" ELSE "failed")
  /\ UNCHANGED <<basisVars, childVars, stopVars>>

\* The answer names the timeout; a registry that is not empty hides it.
SpawnTimesOut(a) ==
  /\ handler[a] = "reading"
  /\ parentLock' = NoAttempt
  /\ LetGo(a)
  /\ Answer(a, IF registry = {} THEN "timed out" ELSE "failed")
  /\ UNCHANGED <<phrases, printed, basisUp, childVars, stopVars>>

\* admit_single_threaded_basis or a read finds the basis gone.
BasisGone(a) ==
  /\ ~basisUp
  /\ \/ handler[a] = "sending" /\ parentLock = NoAttempt
     \/ handler[a] = "reading"
  /\ parentLock' = IF parentLock = a THEN NoAttempt ELSE parentLock
  /\ Refused(a)
  /\ UNCHANGED <<phrases, printed, basisUp, childVars, stopVars>>

Register(a) ==
  /\ \/ /\ forked[a] # "ended"
        /\ Step(a, "registering", "acking")
        /\ registry' = registry \cup {a}
        /\ UNCHANGED <<client, recovering, sessionLock, active>>
     \/ /\ forked[a] = "ended" /\ handler[a] = "registering"
        /\ Refused(a)
        /\ UNCHANGED registry
  /\ UNCHANGED <<basisVars, forked, acked, stopVars>>

WriteAck(a) ==
  /\ a \notin recovering
  /\ Step(a, "acking", "owning")
  /\ acked' = acked \cup {a}
  /\ UNCHANGED <<client, recovering, sessionLock, active, basisVars, forked,
                 registry, stopVars>>

\* wait_for_child_ownership; removing the ownership file lets the child go on.
SeesOwnership(a) ==
  /\ forked[a] = "owned"
  /\ Step(a, "owning", "serving")
  /\ forked' = [forked EXCEPT ![a] = "evaluating"]
  /\ UNCHANGED <<client, recovering, sessionLock, active, basisVars, acked,
                 registry, stopVars>>

\* The ACK cannot be written, or the child ended or is late: the child is
\* terminated, and leaves the registry when it leads no live group.
RegistrationFails(a) ==
  /\ \/ handler[a] = "acking" /\ a \in recovering
     \/ handler[a] = "owning" /\ (forked[a] = "ended" \/ SlowOwnership)
  /\ handler' = [handler EXCEPT ![a] = "unwinding"]
  /\ \E st \in AfterTerm(a) :
       /\ forked' = [forked EXCEPT ![a] = st]
       /\ registry' = IF GroupAlive(st) THEN registry ELSE registry \ {a}
  /\ UNCHANGED <<client, recovering, sessionLock, active, basisVars, acked,
                 stopVars>>

\* Both files are removed; a recovering controller reads the error as success
\* when the broker is ready and no child is registered.
RemoveFiles(a) ==
  /\ handler[a] = "unwinding"
  /\ acked' = acked \ {a}
  /\ forked' = [forked EXCEPT ![a] = IF @ = "owned" THEN "evaluating" ELSE @]
  /\ LetGo(a)
  /\ Answer(a, IF a \in recovering /\ registry = {} /\ broker = "up"
               THEN "recovered" ELSE "failed")
  /\ UNCHANGED <<basisVars, registry, stopVars>>

\* Fault: "completed" is said of survivors too.
Finish_Unverified(a, st) ==
  /\ handler' = [handler EXCEPT ![a] = "finishing"]
  /\ forked' = [forked EXCEPT ![a] = st]
  /\ registry' = IF GroupAlive(st) THEN registry ELSE registry \ {a}
  /\ Answer(a, "completed")
  /\ UNCHANGED <<recovering, sessionLock, active, basisVars, acked, stopVars>>

\* Fault: survivors leave the registry.
Finish_Unregisters(a, st) ==
  /\ handler' = [handler EXCEPT ![a] = "finishing"]
  /\ forked' = [forked EXCEPT ![a] = st]
  /\ registry' = registry \ {a}
  /\ Answer(a, IF GroupAlive(st) THEN "failed" ELSE "completed")
  /\ UNCHANGED <<recovering, sessionLock, active, basisVars, acked, stopVars>>

\* The final event of an attempt whose child was left in state st.
Finish(a, st) ==
  /\ handler' = [handler EXCEPT ![a] = "finishing"]
  /\ forked' = [forked EXCEPT ![a] = st]
  /\ registry' = IF GroupAlive(st) THEN registry ELSE registry \ {a}
  /\ Answer(a, IF GroupAlive(st) THEN "failed" ELSE "completed")
  /\ UNCHANGED <<recovering, sessionLock, active, basisVars, acked, stopVars>>

\* The child has ended, its controller cancels, or its controller is gone.
ChildDone(a) ==
  handler[a] = "serving" /\ forked[a] = "ended" /\ Finish(a, "ended")

CancelOrDisconnect(a) ==
  handler[a] = "serving" /\ \E st \in AfterTerm(a) : Finish(a, st)

\* The final event is out before the finally clauses run.
Finally(a) ==
  /\ handler[a] = "finishing"
  /\ LetGo(a)
  /\ UNCHANGED <<client, basisVars, childVars, stopVars>>

-----------------------------------------------------------------------------
(* The basis and its children.                                             *)

\* The basis evaluates its input in order; when it cannot fork it prints the
\* refusal token instead of the spawn token.
Fork ==
  /\ basisUp /\ phrases # <<>>
  /\ \E st \in {"waiting", "none"} :
       forked' = [forked EXCEPT ![Head(phrases)] = st]
  /\ printed' = printed \cup {Head(phrases)}
  /\ phrases' = Tail(phrases)
  /\ UNCHANGED <<client, threadVars, parentLock, basisUp, acked, registry,
                 stopVars>>

\* The child sees its ACK, removes it, calls setsid and publishes ownership.
TakeOwnership(a) ==
  /\ forked[a] = "waiting" /\ a \in acked
  /\ forked' = [forked EXCEPT ![a] = "owned"]
  /\ acked' = acked \ {a}
  /\ UNCHANGED <<client, threadVars, basisVars, registry, stopVars>>

\* Ten seconds without an ACK, ten seconds of unclaimed ownership, or the
\* evaluation is over.
ChildExits(a) ==
  /\ \/ forked[a] = "waiting" /\ a \notin acked
     \/ forked[a] = "owned" /\ handler[a] # "owning"
     \/ forked[a] = "evaluating"
  /\ forked' = [forked EXCEPT ![a] = "ended"]
  /\ UNCHANGED <<client, threadVars, basisVars, acked, registry, stopVars>>

-----------------------------------------------------------------------------
(* The end of the broker, and the stop command.                            *)

\* A "stop" operation, or the main loop finds the basis gone.
StopRequested ==
  /\ broker = "up" /\ (stopper = "asked" \/ ~basisUp)
  /\ broker' = "stopping"
  /\ UNCHANGED <<client, threadVars, basisVars, childVars, doomed, stopper>>

\* Handlers may still register children after the snapshot.
CloseListeners ==
  /\ broker = "stopping"
  /\ broker' = "closing" /\ doomed' = registry
  /\ UNCHANGED <<client, threadVars, basisVars, childVars, stopper>>

TerminateChild(a) ==
  /\ broker = "closing" /\ a \in doomed
  /\ doomed' = doomed \ {a}
  /\ \E st \in AfterTerm(a) :
       /\ forked' = [forked EXCEPT ![a] = st]
       /\ registry' = IF st = "ended" THEN registry \ {a} ELSE registry
  /\ UNCHANGED <<client, threadVars, basisVars, acked, broker, stopper>>

\* Everything the broker process held is gone, and its controllers see EOF.
BrokerEnds ==
  /\ broker' = "down" /\ doomed' = {}
  /\ handler' = [a \in Attempts |-> "none"]
  /\ sessionLock' = [s \in Sessions |-> NoAttempt]
  /\ active' = {} /\ recovering' = {} /\ parentLock' = NoAttempt
  /\ client' = [a \in Attempts |-> IF Listening(a) THEN "failed" ELSE client[a]]
  /\ UNCHANGED stopper

\* The group of the basis holds the children that have not called setsid.
BasisEnds ==
  /\ basisUp' = FALSE /\ phrases' = <<>>
  /\ forked' = [a \in Attempts |->
       IF basisUp /\ forked[a] = "waiting" THEN "ended" ELSE forked[a]]
  /\ UNCHANGED printed

BrokerExits ==
  /\ broker = "closing" /\ doomed = {}
  /\ BrokerEnds /\ BasisEnds
  /\ UNCHANGED <<acked, registry>>

\* The basis outlives a crashed broker until it reads the end of its input.
BrokerCrashes ==
  /\ BrokerMayCrash /\ broker # "down"
  /\ BrokerEnds
  /\ UNCHANGED <<phrases, printed, basisUp, childVars>>

BasisStops ==
  /\ broker = "down" /\ basisUp /\ phrases = <<>>
  /\ basisUp' = FALSE
  /\ UNCHANGED <<client, threadVars, parentLock, phrases, printed, childVars,
                 stopVars>>

BasisCrashes ==
  /\ BrokerMayCrash /\ basisUp /\ broker = "up"
  /\ basisUp' = FALSE /\ phrases' = <<>>
  /\ UNCHANGED <<client, threadVars, parentLock, printed, childVars, stopVars>>

AskStop ==
  /\ stopper = "none"
  /\ stopper' = "asked"
  /\ UNCHANGED <<client, threadVars, basisVars, childVars, broker, doomed>>

\* The cooperative grace is over: broker and basis groups are killed.
KillRuntime ==
  /\ stopper = "asked"
  /\ stopper' = "sweeping"
  /\ broker' = "down" /\ doomed' = {}
  /\ handler' = [a \in Attempts |-> "none"]
  /\ sessionLock' = [s \in Sessions |-> NoAttempt]
  /\ active' = {} /\ recovering' = {} /\ parentLock' = NoAttempt
  /\ client' = [a \in Attempts |-> IF Listening(a) THEN "failed" ELSE client[a]]
  /\ BasisEnds
  /\ UNCHANGED <<acked, registry>>

\* Fault: the children registered since the first look are not looked at.
Sweep_WithoutRegistry ==
  /\ stopper = "sweeping"
  /\ stopper' = "verified"
  /\ UNCHANGED <<client, threadVars, basisVars, childVars, broker, doomed>>

\* The registry is read a last time; its children are terminated.
Sweep ==
  /\ stopper = "sweeping"
  /\ forked' \in {f \in [Attempts -> ChildState] :
       \A a \in Attempts :
         f[a] \in IF a \in registry THEN AfterTerm(a) ELSE {forked[a]}}
  /\ stopper' = IF \A a \in registry : forked'[a] = "ended"
                THEN "verified" ELSE "failed"
  /\ UNCHANGED <<client, threadVars, basisVars, acked, registry, broker, doomed>>

-----------------------------------------------------------------------------

HandlerStep(a) ==
  \/ LockSession(a) \/ Activate(a) \/ SendPhrase(a) \/ ReadTokens(a)
  \/ SpawnTimesOut(a) \/ BasisGone(a) \/ Register(a) \/ WriteAck(a)
  \/ SeesOwnership(a) \/ RegistrationFails(a) \/ RemoveFiles(a)
  \/ ChildDone(a) \/ Finally(a)

ChildStep(a) == TakeOwnership(a) \/ ChildExits(a)

ClosingStep ==
  \/ StopRequested \/ CloseListeners \/ BrokerExits
  \/ \E a \in Attempts : TerminateChild(a)

BrokerNext ==
  \/ \E a \in Attempts :
       \/ Request(a) \/ Recover(a) \/ RecoveryExpires(a) \/ ControllerKilled(a)
       \/ HandlerStep(a) \/ CancelOrDisconnect(a) \/ ChildStep(a)
  \/ Fork \/ ClosingStep
  \/ BrokerCrashes \/ BasisStops \/ BasisCrashes
  \/ AskStop \/ KillRuntime \/ Sweep

BrokerSpec == BrokerInit /\ [][BrokerNext]_brokerVars

\* Threads, children and the closing broker keep running; a recovery ends at
\* its deadline, connected or not.
BrokerFairSpec ==
  /\ BrokerSpec
  /\ \A a \in Attempts :
       /\ WF_brokerVars(HandlerStep(a)) /\ WF_brokerVars(ChildStep(a))
       /\ WF_brokerVars(RecoveryExpires(a))
  /\ WF_brokerVars(ClosingStep)

-----------------------------------------------------------------------------
(* Properties.                                                             *)

\* A controller that was told its attempt completed has no child left: the
\* final event says "completed" only for a verified quiescent child.
CompletedMeansGone ==
  \A a \in Attempts : client[a] = "completed" => forked[a] = "ended"

\* A child that evaluates, or may be told to, is in the registry that reaping
\* and stopping work from, whichever handlers and recoveries gave up on it.
OwnersRegistered ==
  \A a \in Attempts : GroupAlive(forked[a]) => a \in registry

\* reap_orphaned_children "Quiesce children no longer owned by an active
\* broker handler": when a broker without active attempts admits one, no child
\* of an earlier attempt runs.
IdleBrokerReaps ==
  [][active = {} /\ active' # {} =>
       \A a \in Attempts : ~GroupAlive(forked'[a])]_brokerVars

\* stop_warm_session: "verified_quiescent" is said of a pool none of whose
\* children runs, and none starts afterwards.
StoppedMeansQuiet ==
  stopper = "verified" => \A a \in Attempts : ~GroupAlive(forked[a])

\* _recover_timed_out_broker_spawn: "the frozen broker then terminates and
\* verifies" the delayed child, and the answer is "registered_then_quiesced".
RecoveredChildGone ==
  \A a \in Attempts : client[a] = "recovered" => forked[a] = "ended"

\* run_broker_attempt returns: a controller never waits for good.
EveryRequestAnswered ==
  \A a \in Attempts : []<>(client[a] \notin {"waiting", "timed out", "recovering"})
=============================================================================
