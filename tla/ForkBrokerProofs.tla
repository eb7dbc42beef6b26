-------------------------- MODULE ForkBrokerProofs --------------------------
(***************************************************************************)
(* Theorems about ForkBroker for every number of attempts and sessions.    *)
(* An attempt's phrase is sent once and forks one child; from there the    *)
(* handler's control point says what the child, its ACK file and its       *)
(* registry entry may be, whichever of broker, basis, controller or stop   *)
(* command ends in between.                                                *)
(***************************************************************************)
EXTENDS ForkBroker, TLAPS

Queue == {phrases[i] : i \in DOMAIN phrases}
Distinct == \A i, j \in DOMAIN phrases : phrases[i] = phrases[j] => i = j

\* A handler serves a controller that has asked, is counted as active once it
\* passed the reaping, and dies with its broker.
ThreadInv ==
  /\ \A a \in Attempts : client[a] \in {"idle", "timed out"} => handler[a] = "none"
  /\ \A a \in Attempts :
       handler[a] \notin {"none", "arrived", "locked"} => a \in active
  /\ broker = "down" => \A a \in Attempts : handler[a] = "none"

\* An attempt's phrase is queued at most once, before there is a child.
SpawnInv ==
  /\ Distinct
  /\ \A a \in Attempts :
       /\ a \in Queue => forked[a] = "none"
       /\ client[a] = "idle"
            => a \notin Queue /\ forked[a] = "none" /\ a \notin recovering
       /\ handler[a] \in {"arrived", "locked", "sending"} /\ a \notin recovering
            => a \notin Queue /\ forked[a] = "none"
       /\ handler[a] \in {"registering", "acking", "owning", "unwinding", "serving",
                          "finishing"} => forked[a] # "none"
       /\ handler[a] = "serving" => forked[a] \in {"evaluating", "ended"}

\* The ACK file is written once, by a handler that is not recovering.
AckInv ==
  \A a \in Attempts :
    /\ a \in acked => forked[a] # "none"
    /\ client[a] \in {"idle", "timed out"} => a \notin acked
    /\ handler[a] \in {"arrived", "locked", "sending", "reading", "registering",
                       "acking"} => a \notin acked

\* A child that is about to take ownership is registered already.
RegistryInv ==
  \A a \in Attempts :
    /\ handler[a] = "acking" => a \in registry \/ forked[a] = "ended"
    /\ a \in acked /\ forked[a] = "waiting" => a \in registry

\* A stop that looks at the children has ended the broker and the basis.
StopInv ==
  /\ stopper \in {"sweeping", "verified", "failed"} => broker = "down" /\ ~basisUp
  /\ stopper = "verified" =>
       \A a \in Attempts : forked[a] = "waiting" => a \notin acked

LifeInv ==
  BrokerTypeOK /\ ThreadInv /\ SpawnInv /\ CompletedMeansGone

BInv ==
  LifeInv /\ AckInv /\ RegistryInv /\ StopInv /\ OwnersRegistered /\ StoppedMeansQuiet

-----------------------------------------------------------------------------
(* The basis's input.                                                      *)

\* The input stays a sequence of attempts.
LEMMA QueueType ==
  /\ \A queue \in Seq(Attempts), a \in Attempts : Append(queue, a) \in Seq(Attempts)
  /\ <<>> \in Seq(Attempts)
  /\ \A queue \in Seq(Attempts) :
       queue # <<>> => Tail(queue) \in Seq(Attempts) /\ Head(queue) \in Attempts
  OBVIOUS

\* Reading or printing leaves the queue of phrases alone.
LEMMA SameQueue == ASSUME phrases' = phrases PROVE UNCHANGED <<Queue, Distinct>>
  BY DEF Queue, Distinct

\* A phrase that is written joins the queue at its end.
LEMMA QueueGrows ==
  ASSUME phrases \in Seq(Attempts), NEW a \in Attempts,
         phrases' = Append(phrases, a), Distinct, a \notin Queue
  PROVE  phrases' \in Seq(Attempts) /\ Distinct' /\ Queue' = Queue \cup {a}
  <1>1. /\ phrases' \in Seq(Attempts) /\ Len(phrases') = Len(phrases) + 1
        /\ \A i \in 1..Len(phrases) : phrases'[i] = phrases[i]
        /\ phrases'[Len(phrases) + 1] = a
        /\ DOMAIN phrases = 1..Len(phrases) /\ DOMAIN phrases' = 1..Len(phrases')
        /\ Len(phrases) \in Nat
    OBVIOUS
  <1>2. Queue' = Queue \cup {a}
    BY <1>1 DEF Queue
  <1>3. Distinct'
    BY <1>1 DEF Distinct, Queue
  <1> QED BY <1>1, <1>2, <1>3

\* The basis takes the phrase at the head.
LEMMA QueueShrinks ==
  ASSUME phrases \in Seq(Attempts), phrases # <<>>,
         phrases' = Tail(phrases), Distinct
  PROVE  /\ phrases' \in Seq(Attempts) /\ Distinct'
         /\ Head(phrases) \in Attempts /\ Head(phrases) \in Queue
         /\ Queue' = Queue \ {Head(phrases)}
  <1>1. /\ phrases' \in Seq(Attempts) /\ Len(phrases') = Len(phrases) - 1
        /\ \A i \in 1..Len(phrases') : phrases'[i] = phrases[i + 1]
        /\ Head(phrases) = phrases[1] /\ Head(phrases) \in Attempts
        /\ DOMAIN phrases = 1..Len(phrases) /\ DOMAIN phrases' = 1..Len(phrases')
        /\ Len(phrases) \in Nat \ {0}
    OBVIOUS
  <1>2. Distinct'
    BY <1>1 DEF Distinct
  <1>3. Queue' \subseteq Queue \ {Head(phrases)}
    BY <1>1 DEF Queue, Distinct
  <1>4. Queue \ {Head(phrases)} \subseteq Queue'
    <2> SUFFICES ASSUME NEW i \in 1..Len(phrases), i # 1
                 PROVE  phrases[i] \in Queue'
      BY <1>1 DEF Queue
    <2>1. i - 1 \in 1..Len(phrases') /\ phrases[i] = phrases'[i - 1]
      BY <1>1
    <2> QED BY <1>1, <2>1 DEF Queue
  <1>5. Head(phrases) \in Queue
    BY <1>1 DEF Queue
  <1> QED BY <1>1, <1>2, <1>3, <1>4, <1>5

\* A basis that is gone has no input.
LEMMA QueueLost == ASSUME phrases' = <<>> PROVE Queue' = {} /\ Distinct'
  BY DEF Queue, Distinct

-----------------------------------------------------------------------------
(* What the composite steps do.                                            *)

\* A handler that gives up releases its session and leaves the active set.
LEMMA ReleasedThreads ==
  ASSUME BrokerTypeOK, NEW a \in Attempts, LetGo(a)
  PROVE  /\ handler' \in [Attempts -> HandlerPc] /\ active' \subseteq Attempts
         /\ recovering' \subseteq Attempts
         /\ sessionLock' \in [Sessions -> Attempts \cup {NoAttempt}]
  BY BrokerAssumption DEF BrokerTypeOK, LetGo, HandlerPc

\* An answer reaches a controller that still listens.
LEMMA AnswerType ==
  ASSUME BrokerTypeOK, NEW a \in Attempts, NEW st \in ControllerPc, Answer(a, st)
  PROVE  client' \in [Attempts -> ControllerPc]
  BY DEF BrokerTypeOK, Answer

\* A broker that ends takes its threads with it.
LEMMA EndedThreads ==
  ASSUME BrokerTypeOK, NEW pc \in ControllerPc,
         client' = [a \in Attempts |-> IF Listening(a) THEN pc ELSE client[a]],
         handler' = [a \in Attempts |-> "none"],
         sessionLock' = [s \in Sessions |-> NoAttempt]
  PROVE  /\ handler' \in [Attempts -> HandlerPc]
         /\ client' \in [Attempts -> ControllerPc]
         /\ sessionLock' \in [Sessions -> Attempts \cup {NoAttempt}]
  BY DEF BrokerTypeOK, HandlerPc

\* Reaping ends children or leaves them, and unregisters the ended ones only.
Reaped(a) ==
  /\ handler[a] = "locked"
  /\ forked' \in [Attempts -> ChildState] /\ registry' \subseteq registry
  /\ \A b \in Attempts :
       /\ forked'[b] # forked[b] => forked'[b] = "ended" /\ GroupAlive(forked[b])
       /\ b \in registry => b \in registry' \/ forked'[b] = "ended"
  /\ UNCHANGED <<basisVars, acked, stopVars>>

Admits(a) ==
  /\ handler' = [handler EXCEPT ![a] = "sending"]
  /\ active' = active \cup {a}
  /\ UNCHANGED <<client, sessionLock, recovering>>

\* After the reaping the attempt goes on or is refused.
LEMMA ActivateEffect ==
  ASSUME BrokerTypeOK, NEW a \in Attempts, Activate(a)
  PROVE  Reaped(a) /\ (Admits(a) \/ Refused(a))
  <1> USE DEF BrokerTypeOK, Reaped, Admits
  <1>1. CASE active # {}
    BY <1>1 DEF Activate, Step, threadVars
  <1>2. CASE active = {}
    <2>1. PICK done \in SUBSET registry, survivor \in registry \cup {NoAttempt} :
            Reaps(a, done, survivor)
      BY <1>2 DEF Activate
    <2>2. /\ forked' \in [Attempts -> ChildState] /\ registry' \subseteq registry
          /\ \A b \in Attempts :
               /\ forked'[b] # forked[b]
                    => forked'[b] = "ended" /\ GroupAlive(forked[b])
               /\ b \in registry => b \in registry' \/ forked'[b] = "ended"
      BY <2>1 DEF Reaps, AfterTerm, ChildState
    <2>3. handler[a] = "locked" /\ (Admits(a) \/ Refused(a))
      BY <2>1 DEF Reaps, Step
    <2> QED BY <1>2, <2>2, <2>3 DEF Activate
  <1> QED BY <1>1, <1>2

\* Every step keeps the variables in their types.
LEMMA TypeStep ==
  ASSUME BrokerTypeOK, [BrokerNext]_brokerVars
  PROVE  BrokerTypeOK'
  <1> USE BrokerAssumption DEF BrokerTypeOK, ControllerPc, HandlerPc, ChildState
  <1>1. ASSUME UNCHANGED <<client, handler, recovering, sessionLock, active,
          parentLock, phrases, printed, forked, acked, registry, broker, basisUp,
          doomed, stopper>> PROVE BrokerTypeOK'
    BY <1>1
  <1>2. ASSUME NEW a \in Attempts, Request(a) PROVE BrokerTypeOK'
    BY <1>2 DEF Request, Accepting, threadVars, basisVars, childVars, stopVars
  <1>3. ASSUME NEW a \in Attempts, Recover(a) PROVE BrokerTypeOK'
    BY <1>3 DEF Recover, Accepting, threadVars, basisVars, childVars, stopVars
  <1>4. ASSUME NEW a \in Attempts, RecoveryExpires(a) PROVE BrokerTypeOK'
    BY <1>4 DEF RecoveryExpires, threadVars, basisVars, childVars, stopVars
  <1>5. ASSUME NEW a \in Attempts, ControllerKilled(a) PROVE BrokerTypeOK'
    BY <1>5 DEF ControllerKilled, threadVars, basisVars, childVars, stopVars
  <1>6. ASSUME NEW a \in Attempts, LockSession(a) PROVE BrokerTypeOK'
    <2>1. CASE /\ handler' = [handler EXCEPT ![a] = "locked"]
               /\ sessionLock' = [sessionLock EXCEPT ![SessionOf[a]] = a]
               /\ UNCHANGED <<client, recovering, active>>
      <3>1. sessionLock' \in [Sessions -> Attempts \cup {NoAttempt}]
        BY <2>1
      <3> QED BY <1>6, <2>1, <3>1 DEF LockSession, basisVars, childVars, stopVars
    <2>2. CASE Refused(a)
      BY <1>6, <2>2, ReleasedThreads, AnswerType
      DEF LockSession, Refused, basisVars, childVars, stopVars
    <2> QED BY <1>6, <2>1, <2>2 DEF LockSession, Step
  <1>7. ASSUME NEW a \in Attempts, Activate(a) PROVE BrokerTypeOK'
    <2>1. Reaped(a)
      BY <1>7, ActivateEffect
    <2>2. CASE Refused(a)
      BY <2>1, <2>2, ReleasedThreads, AnswerType
      DEF Reaped, Refused, basisVars, stopVars
    <2>3. CASE Admits(a)
      BY <2>1, <2>3 DEF Admits, Reaped, GroupAlive, stopVars, basisVars
    <2> QED BY <1>7, <2>2, <2>3, ActivateEffect
  <1>8. ASSUME NEW a \in Attempts, SendPhrase(a) PROVE BrokerTypeOK'
    <2>1. phrases' \in Seq(Attempts)
      BY <1>8, QueueType DEF SendPhrase
    <2> QED BY <1>8, <2>1 DEF SendPhrase, Step, childVars, stopVars
  <1>9. ASSUME NEW a \in Attempts, ReadTokens(a) PROVE BrokerTypeOK'
    <2>1. CASE Refused(a)
      BY <1>9, <2>1, ReleasedThreads, AnswerType
      DEF ReadTokens, Refused, childVars, stopVars, threadVars
    <2>2. CASE ~Refused(a)
      <3>1. /\ UNCHANGED <<client, recovering, sessionLock, active>>
            /\ handler' = handler \/ handler' = [handler EXCEPT ![a] = "registering"]
        BY <1>9, <2>2 DEF ReadTokens, Step, threadVars
      <3>2. /\ printed' = {} /\ parentLock' \in {parentLock, NoAttempt}
            /\ UNCHANGED <<phrases, basisUp, childVars, stopVars>>
        BY <1>9, <2>2 DEF ReadTokens
      <3> QED BY <3>1, <3>2 DEF childVars, stopVars, HandlerPc
    <2> QED BY <2>1, <2>2
  <1>10. ASSUME NEW a \in Attempts, SpawnTimesOut(a) PROVE BrokerTypeOK'
    BY <1>10 DEF SpawnTimesOut, LetGo, Answer, Listening, threadVars, basisVars,
      childVars, stopVars
  <1>11. ASSUME NEW a \in Attempts, BasisGone(a) PROVE BrokerTypeOK'
    BY <1>11 DEF BasisGone, Refused, LetGo, Answer, Listening, threadVars,
      basisVars, childVars, stopVars
  <1>12. ASSUME NEW a \in Attempts, Register(a) PROVE BrokerTypeOK'
    <2>1. CASE Refused(a)
      BY <1>12, <2>1, ReleasedThreads, AnswerType
      DEF Register, Refused, basisVars, stopVars
    <2>2. CASE ~Refused(a)
      BY <1>12, <2>2 DEF Register, Step, basisVars, stopVars
    <2> QED BY <2>1, <2>2
  <1>13. ASSUME NEW a \in Attempts, WriteAck(a) PROVE BrokerTypeOK'
    BY <1>13 DEF WriteAck, Step, threadVars, basisVars, childVars, stopVars
  <1>14. ASSUME NEW a \in Attempts, SeesOwnership(a) PROVE BrokerTypeOK'
    BY <1>14 DEF SeesOwnership, Step, threadVars, basisVars, childVars, stopVars
  <1>15. ASSUME NEW a \in Attempts, RegistrationFails(a) PROVE BrokerTypeOK'
    BY <1>15 DEF RegistrationFails, AfterTerm, GroupAlive, threadVars, basisVars,
      childVars, stopVars
  <1>16. ASSUME NEW a \in Attempts, RemoveFiles(a) PROVE BrokerTypeOK'
    BY <1>16 DEF RemoveFiles, LetGo, Answer, Listening, threadVars, basisVars,
      childVars, stopVars
  <1>17. ASSUME NEW a \in Attempts, ChildDone(a) PROVE BrokerTypeOK'
    BY <1>17 DEF ChildDone, Finish, Answer, Listening, GroupAlive, threadVars,
      basisVars, childVars, stopVars
  <1>18. ASSUME NEW a \in Attempts, Finally(a) PROVE BrokerTypeOK'
    BY <1>18 DEF Finally, LetGo, threadVars, basisVars, childVars, stopVars
  <1>19. ASSUME NEW a \in Attempts, CancelOrDisconnect(a) PROVE BrokerTypeOK'
    <2>1. PICK st \in AfterTerm(a) : Finish(a, st)
      BY <1>19 DEF CancelOrDisconnect
    <2>2. /\ st \in ChildState /\ (st = forked[a] \/ st = "ended")
          /\ handler[a] = "serving"
      BY <1>19, <2>1 DEF AfterTerm, CancelOrDisconnect, ChildState
    <2> QED BY <2>1, <2>2
      DEF Finish, Answer, Listening, GroupAlive, basisVars, stopVars
  <1>20. ASSUME NEW a \in Attempts, TakeOwnership(a) PROVE BrokerTypeOK'
    BY <1>20 DEF TakeOwnership, threadVars, basisVars, childVars, stopVars
  <1>21. ASSUME NEW a \in Attempts, ChildExits(a) PROVE BrokerTypeOK'
    BY <1>21 DEF ChildExits, threadVars, basisVars, childVars, stopVars
  <1>22. CASE Fork
    <2>1. phrases' \in Seq(Attempts) /\ Head(phrases) \in Attempts
      BY <1>22, QueueType DEF Fork
    <2>2. forked' \in [Attempts -> ChildState] /\ printed' \subseteq Attempts
      <3>1. PICK st \in {"waiting", "none"} :
              forked' = [forked EXCEPT ![Head(phrases)] = st]
        BY <1>22 DEF Fork
      <3> QED BY <1>22, <2>1, <3>1 DEF Fork
    <2> QED BY <1>22, <2>2, <2>1 DEF Fork, threadVars, stopVars
  <1>23. CASE StopRequested
    BY <1>23 DEF StopRequested, threadVars, basisVars, childVars, stopVars
  <1>24. CASE CloseListeners
    BY <1>24 DEF CloseListeners, threadVars, basisVars, childVars, stopVars
  <1>25. CASE BrokerExits
    <2>1. phrases' \in Seq(Attempts)
      BY <1>25, QueueType DEF BrokerExits, BasisEnds
    <2>2. forked' \in [Attempts -> ChildState]
      BY <1>25 DEF BrokerExits, BasisEnds
    <2> QED BY <1>25, <2>1, <2>2, EndedThreads DEF BrokerExits, BrokerEnds, BasisEnds
  <1>26. ASSUME NEW a \in Attempts, TerminateChild(a) PROVE BrokerTypeOK'
    BY <1>26 DEF TerminateChild, AfterTerm, GroupAlive, threadVars, basisVars,
      childVars, stopVars
  <1>27. CASE BrokerCrashes
    BY <1>27 DEF BrokerCrashes, BrokerEnds, Listening, threadVars, basisVars,
      childVars, stopVars
  <1>28. CASE BasisStops
    BY <1>28 DEF BasisStops, threadVars, basisVars, childVars, stopVars
  <1>29. CASE BasisCrashes
    <2>1. phrases' \in Seq(Attempts)
      BY <1>29, QueueType DEF BasisCrashes
    <2> QED BY <1>29, <2>1 DEF BasisCrashes, threadVars, childVars, stopVars
  <1>30. CASE AskStop
    BY <1>30 DEF AskStop, threadVars, basisVars, childVars, stopVars
  <1>31. CASE KillRuntime
    <2>1. phrases' \in Seq(Attempts)
      BY <1>31, QueueType DEF KillRuntime, BasisEnds
    <2>2. forked' \in [Attempts -> ChildState]
      BY <1>31 DEF KillRuntime, BasisEnds
    <2> QED BY <1>31, <2>1, <2>2, EndedThreads DEF KillRuntime, BasisEnds
  <1>32. CASE Sweep
    BY <1>32 DEF Sweep, AfterTerm, GroupAlive, threadVars, basisVars, childVars,
      stopVars
  <1>33. CASE UNCHANGED brokerVars
    BY <1>1, <1>33 DEF brokerVars, threadVars, basisVars, childVars, stopVars
  <1> QED
    BY <1>2, <1>3, <1>4, <1>5, <1>6, <1>7, <1>8, <1>9, <1>10, <1>11, <1>12, <1>13,
      <1>14, <1>15, <1>16, <1>17, <1>18, <1>19, <1>20, <1>21, <1>22, <1>23, <1>24,
      <1>25, <1>26, <1>27, <1>28, <1>29, <1>30, <1>31, <1>32, <1>33
    DEF BrokerNext, HandlerStep, ChildStep, ClosingStep

\* Threads: no step starts one without a request, or leaves one in a broker that
\* is down.
LEMMA ThreadStep ==
  ASSUME BrokerTypeOK, ThreadInv, [BrokerNext]_brokerVars
  PROVE  ThreadInv'
  <1> USE DEF BrokerTypeOK, ThreadInv
  <1>1. ASSUME UNCHANGED <<client, handler, active, broker>> PROVE ThreadInv'
    BY <1>1
  <1>2. CASE Fork \/ BasisStops \/ BasisCrashes \/ AskStop \/ Sweep
    BY <1>1, <1>2 DEF Fork, BasisStops, BasisCrashes, AskStop, Sweep, AfterTerm,
      GroupAlive, threadVars, basisVars, childVars, stopVars
  <1>3. ASSUME NEW a \in Attempts, TakeOwnership(a) \/ ChildExits(a) \/
          TerminateChild(a) PROVE ThreadInv'
    BY <1>1, <1>3 DEF TakeOwnership, ChildExits, TerminateChild, AfterTerm,
      GroupAlive, threadVars, basisVars, childVars, stopVars
  <1>4. ASSUME NEW a \in Attempts, Request(a) PROVE ThreadInv'
    BY <1>4 DEF Request, Accepting, threadVars, basisVars, childVars, stopVars
  <1>5. ASSUME NEW a \in Attempts, Recover(a) PROVE ThreadInv'
    BY <1>5 DEF Recover, Accepting, threadVars, basisVars, childVars, stopVars
  <1>6. ASSUME NEW a \in Attempts, RecoveryExpires(a) PROVE ThreadInv'
    BY <1>6 DEF RecoveryExpires, threadVars, basisVars, childVars, stopVars
  <1>7. ASSUME NEW a \in Attempts, ControllerKilled(a) PROVE ThreadInv'
    BY <1>7 DEF ControllerKilled, threadVars, basisVars, childVars, stopVars
  <1>8. ASSUME NEW a \in Attempts, LockSession(a) PROVE ThreadInv'
    BY <1>8 DEF LockSession, Step, Refused, LetGo, Answer, Listening, threadVars,
      basisVars, childVars, stopVars
  <1>9. ASSUME NEW a \in Attempts, Activate(a) PROVE ThreadInv'
    BY <1>9 DEF Activate, Step, Reaps, Refused, LetGo, Answer, Listening,
      AfterTerm, GroupAlive, threadVars, basisVars, childVars, stopVars
  <1>10. ASSUME NEW a \in Attempts, SendPhrase(a) PROVE ThreadInv'
    BY <1>10 DEF SendPhrase, Step, threadVars, basisVars, childVars, stopVars
  <1>11. ASSUME NEW a \in Attempts, ReadTokens(a) PROVE ThreadInv'
    BY <1>11 DEF ReadTokens, Step, Refused, LetGo, Answer, Listening, threadVars,
      basisVars, childVars, stopVars
  <1>12. ASSUME NEW a \in Attempts, SpawnTimesOut(a) PROVE ThreadInv'
    BY <1>12 DEF SpawnTimesOut, LetGo, Answer, Listening, threadVars, basisVars,
      childVars, stopVars
  <1>13. ASSUME NEW a \in Attempts, BasisGone(a) PROVE ThreadInv'
    BY <1>13 DEF BasisGone, Refused, LetGo, Answer, Listening, threadVars,
      basisVars, childVars, stopVars
  <1>14. ASSUME NEW a \in Attempts, Register(a) PROVE ThreadInv'
    BY <1>14 DEF Register, Step, Refused, LetGo, Answer, Listening, threadVars,
      basisVars, childVars, stopVars
  <1>15. ASSUME NEW a \in Attempts, WriteAck(a) PROVE ThreadInv'
    BY <1>15 DEF WriteAck, Step, threadVars, basisVars, childVars, stopVars
  <1>16. ASSUME NEW a \in Attempts, SeesOwnership(a) PROVE ThreadInv'
    BY <1>16 DEF SeesOwnership, Step, threadVars, basisVars, childVars, stopVars
  <1>17. ASSUME NEW a \in Attempts, RegistrationFails(a) PROVE ThreadInv'
    BY <1>17 DEF RegistrationFails, AfterTerm, GroupAlive, threadVars, basisVars,
      childVars, stopVars
  <1>18. ASSUME NEW a \in Attempts, RemoveFiles(a) PROVE ThreadInv'
    BY <1>18 DEF RemoveFiles, LetGo, Answer, Listening, threadVars, basisVars,
      childVars, stopVars
  <1>19. ASSUME NEW a \in Attempts, ChildDone(a) PROVE ThreadInv'
    BY <1>19 DEF ChildDone, Finish, Answer, Listening, GroupAlive, threadVars,
      basisVars, childVars, stopVars
  <1>20. ASSUME NEW a \in Attempts, Finally(a) PROVE ThreadInv'
    BY <1>20 DEF Finally, LetGo, threadVars, basisVars, childVars, stopVars
  <1>21. ASSUME NEW a \in Attempts, CancelOrDisconnect(a) PROVE ThreadInv'
    <2>1. PICK st \in AfterTerm(a) : Finish(a, st)
      BY <1>21 DEF CancelOrDisconnect
    <2>2. /\ st \in ChildState /\ (st = forked[a] \/ st = "ended")
          /\ handler[a] = "serving"
      BY <1>21, <2>1 DEF AfterTerm, CancelOrDisconnect, ChildState
    <2> QED BY <2>1, <2>2
      DEF Finish, Answer, Listening, GroupAlive, basisVars, stopVars
  <1>22. CASE StopRequested
    BY <1>22 DEF StopRequested, threadVars, basisVars, childVars, stopVars
  <1>23. CASE CloseListeners
    BY <1>23 DEF CloseListeners, threadVars, basisVars, childVars, stopVars
  <1>24. CASE BrokerExits
    BY <1>24 DEF BrokerExits, BrokerEnds, BasisEnds, Listening, threadVars,
      basisVars, childVars, stopVars
  <1>25. CASE BrokerCrashes
    BY <1>25 DEF BrokerCrashes, BrokerEnds, Listening, threadVars, basisVars,
      childVars, stopVars
  <1>26. CASE KillRuntime
    BY <1>26 DEF KillRuntime, BasisEnds, Listening, threadVars, basisVars,
      childVars, stopVars
  <1>27. CASE UNCHANGED brokerVars
    BY <1>1, <1>27 DEF brokerVars, threadVars, basisVars, childVars, stopVars
  <1> QED
    BY <1>2, <1>3, <1>4, <1>5, <1>6, <1>7, <1>8, <1>9, <1>10, <1>11, <1>12, <1>13,
      <1>14, <1>15, <1>16, <1>17, <1>18, <1>19, <1>20, <1>21, <1>22, <1>23, <1>24,
      <1>25, <1>26, <1>27
    DEF BrokerNext, HandlerStep, ChildStep, ClosingStep

\* Spawning: the phrase is sent by the first connection only, before the child.
LEMMA SpawnStep ==
  ASSUME BrokerTypeOK, ThreadInv, SpawnInv, [BrokerNext]_brokerVars
  PROVE  SpawnInv'
  <1> USE DEF BrokerTypeOK, ThreadInv, SpawnInv
  <1>1. ASSUME UNCHANGED <<client, handler, recovering, phrases, forked>> PROVE
          SpawnInv'
    BY <1>1, ZenonT(30) DEF Queue, Distinct
  <1>2. CASE StopRequested \/ CloseListeners \/ BasisStops \/ AskStop
    BY <1>1, <1>2 DEF StopRequested, CloseListeners, BasisStops, AskStop,
      threadVars, basisVars, childVars, stopVars
  <1>3. ASSUME NEW a \in Attempts, Request(a) PROVE SpawnInv'
    <2> UNCHANGED <<Queue, Distinct>>
      BY <1>3, SameQueue DEF Request, Accepting, threadVars, basisVars, childVars,
        stopVars
    <2> QED
      BY <1>3 DEF Request, Accepting, threadVars, basisVars, childVars, stopVars
  <1>4. ASSUME NEW a \in Attempts, Recover(a) PROVE SpawnInv'
    <2> UNCHANGED <<Queue, Distinct>>
      BY <1>4, SameQueue DEF Recover, Accepting, threadVars, basisVars, childVars,
        stopVars
    <2> QED
      BY <1>4 DEF Recover, Accepting, threadVars, basisVars, childVars, stopVars
  <1>5. ASSUME NEW a \in Attempts, RecoveryExpires(a) PROVE SpawnInv'
    <2> UNCHANGED <<Queue, Distinct>>
      BY <1>5, SameQueue DEF RecoveryExpires, threadVars, basisVars, childVars,
        stopVars
    <2> QED
      BY <1>5 DEF RecoveryExpires, threadVars, basisVars, childVars, stopVars
  <1>6. ASSUME NEW a \in Attempts, ControllerKilled(a) PROVE SpawnInv'
    <2> UNCHANGED <<Queue, Distinct>>
      BY <1>6, SameQueue DEF ControllerKilled, threadVars, basisVars, childVars,
        stopVars
    <2> QED
      BY <1>6 DEF ControllerKilled, threadVars, basisVars, childVars, stopVars
  <1>7. ASSUME NEW a \in Attempts, LockSession(a) PROVE SpawnInv'
    <2> UNCHANGED <<Queue, Distinct>>
      BY <1>7, SameQueue DEF LockSession, Step, Refused, LetGo, Answer,
        Listening, threadVars, basisVars, childVars, stopVars
    <2> QED
      BY <1>7, ZenonT(30) DEF LockSession, Step, Refused, LetGo, Answer, Listening,
        threadVars, basisVars, childVars, stopVars
  <1>8. ASSUME NEW a \in Attempts, Activate(a) PROVE SpawnInv'
    <2>1. Reaped(a)
      BY <1>8, ActivateEffect
    <2> UNCHANGED <<Queue, Distinct>>
      BY <2>1, SameQueue DEF Reaped, basisVars
    <2>2. CASE Refused(a)
      BY <2>1, <2>2
      DEF Reaped, Refused, LetGo, Answer, Listening, GroupAlive, stopVars, basisVars
    <2>3. CASE Admits(a)
      BY <2>1, <2>3 DEF Admits, Reaped, GroupAlive, stopVars, basisVars
    <2> QED BY <1>8, <2>2, <2>3, ActivateEffect
  <1>9. ASSUME NEW a \in Attempts, SendPhrase(a) PROVE SpawnInv'
    <2>1. CASE a \in recovering
      <3> UNCHANGED <<Queue, Distinct>>
        BY <1>9, <2>1, SameQueue DEF SendPhrase
      <3> QED BY <1>9, <2>1 DEF SendPhrase, Step, childVars
    <2>2. CASE a \notin recovering
      <3> Distinct' /\ Queue' = Queue \cup {a}
        BY <1>9, <2>2, QueueGrows DEF SendPhrase, Step
      <3> QED BY <1>9, <2>2 DEF SendPhrase, Step, childVars
    <2> QED BY <2>1, <2>2
  <1>10. ASSUME NEW a \in Attempts, ReadTokens(a) PROVE SpawnInv'
    <2> UNCHANGED <<Queue, Distinct>>
      BY <1>10, SameQueue DEF ReadTokens, Step, Refused, LetGo, Answer,
        Listening, threadVars, basisVars, childVars, stopVars
    <2> QED
      BY <1>10 DEF ReadTokens, Step, Refused, LetGo, Answer, Listening,
        threadVars, basisVars, childVars, stopVars
  <1>11. ASSUME NEW a \in Attempts, SpawnTimesOut(a) PROVE SpawnInv'
    <2> UNCHANGED <<Queue, Distinct>>
      BY <1>11, SameQueue DEF SpawnTimesOut, LetGo, Answer, Listening,
        threadVars, basisVars, childVars, stopVars
    <2> QED
      BY <1>11 DEF SpawnTimesOut, LetGo, Answer, Listening, threadVars,
        basisVars, childVars, stopVars
  <1>12. ASSUME NEW a \in Attempts, BasisGone(a) PROVE SpawnInv'
    <2> UNCHANGED <<Queue, Distinct>>
      BY <1>12, SameQueue DEF BasisGone, Refused, LetGo, Answer, Listening,
        threadVars, basisVars, childVars, stopVars
    <2> QED
      BY <1>12 DEF BasisGone, Refused, LetGo, Answer, Listening, threadVars,
        basisVars, childVars, stopVars
  <1>13. ASSUME NEW a \in Attempts, Register(a) PROVE SpawnInv'
    <2> UNCHANGED <<Queue, Distinct>>
      BY <1>13, SameQueue DEF Register, Step, Refused, LetGo, Answer, Listening,
        threadVars, basisVars, childVars, stopVars
    <2> QED
      BY <1>13, ZenonT(30) DEF Register, Step, Refused, LetGo, Answer, Listening, threadVars,
        basisVars, childVars, stopVars
  <1>14. ASSUME NEW a \in Attempts, WriteAck(a) PROVE SpawnInv'
    <2> UNCHANGED <<Queue, Distinct>>
      BY <1>14, SameQueue DEF WriteAck, Step, threadVars, basisVars, childVars,
        stopVars
    <2> QED
      BY <1>14 DEF WriteAck, Step, threadVars, basisVars, childVars, stopVars
  <1>15. ASSUME NEW a \in Attempts, SeesOwnership(a) PROVE SpawnInv'
    <2> UNCHANGED <<Queue, Distinct>>
      BY <1>15, SameQueue DEF SeesOwnership, Step, threadVars, basisVars, childVars,
        stopVars
    <2> QED
      BY <1>15 DEF SeesOwnership, Step, threadVars, basisVars, childVars, stopVars
  <1>16. ASSUME NEW a \in Attempts, RegistrationFails(a) PROVE SpawnInv'
    <2> UNCHANGED <<Queue, Distinct>>
      BY <1>16, SameQueue DEF RegistrationFails, AfterTerm, GroupAlive, threadVars,
        basisVars, childVars, stopVars
    <2> QED
      BY <1>16 DEF RegistrationFails, AfterTerm, GroupAlive, threadVars, basisVars,
        childVars, stopVars
  <1>17. ASSUME NEW a \in Attempts, RemoveFiles(a) PROVE SpawnInv'
    <2> UNCHANGED <<Queue, Distinct>>
      BY <1>17, SameQueue DEF RemoveFiles, LetGo, Answer, Listening, threadVars,
        basisVars, childVars, stopVars
    <2> QED
      BY <1>17 DEF RemoveFiles, LetGo, Answer, Listening, threadVars, basisVars,
        childVars, stopVars
  <1>18. ASSUME NEW a \in Attempts, ChildDone(a) PROVE SpawnInv'
    <2> UNCHANGED <<Queue, Distinct>>
      BY <1>18, SameQueue DEF ChildDone, Finish, Answer, Listening, GroupAlive,
        threadVars, basisVars, childVars, stopVars
    <2> QED
      BY <1>18 DEF ChildDone, Finish, Answer, Listening, GroupAlive, threadVars,
        basisVars, childVars, stopVars
  <1>19. ASSUME NEW a \in Attempts, Finally(a) PROVE SpawnInv'
    <2> UNCHANGED <<Queue, Distinct>>
      BY <1>19, SameQueue DEF Finally, LetGo, threadVars, basisVars, childVars,
        stopVars
    <2> QED
      BY <1>19 DEF Finally, LetGo, threadVars, basisVars, childVars, stopVars
  <1>20. ASSUME NEW a \in Attempts, CancelOrDisconnect(a) PROVE SpawnInv'
    <2>1. PICK st \in AfterTerm(a) : Finish(a, st)
      BY <1>20 DEF CancelOrDisconnect
    <2> UNCHANGED <<Queue, Distinct>>
      BY <2>1, SameQueue DEF Finish, basisVars
    <2>2. /\ st \in ChildState /\ (st = forked[a] \/ st = "ended")
          /\ handler[a] = "serving"
      BY <1>20, <2>1 DEF AfterTerm, CancelOrDisconnect, ChildState
    <2> QED BY <2>1, <2>2
      DEF Finish, Answer, Listening, GroupAlive, basisVars, stopVars
  <1>21. ASSUME NEW a \in Attempts, TakeOwnership(a) PROVE SpawnInv'
    <2> UNCHANGED <<Queue, Distinct>>
      BY <1>21, SameQueue DEF TakeOwnership, threadVars, basisVars, childVars,
        stopVars
    <2> QED
      BY <1>21 DEF TakeOwnership, threadVars, basisVars, childVars, stopVars
  <1>22. ASSUME NEW a \in Attempts, ChildExits(a) PROVE SpawnInv'
    <2> UNCHANGED <<Queue, Distinct>>
      BY <1>22, SameQueue DEF ChildExits, threadVars, basisVars, childVars, stopVars
    <2> QED
      BY <1>22 DEF ChildExits, threadVars, basisVars, childVars, stopVars
  <1>23. CASE Fork
    <2>1. PICK st \in {"waiting", "none"} :
            forked' = [forked EXCEPT ![Head(phrases)] = st]
      BY <1>23 DEF Fork
    <2>2. /\ Distinct' /\ Head(phrases) \in Attempts /\ Head(phrases) \in Queue
          /\ Queue' = Queue \ {Head(phrases)}
      BY <1>23, QueueShrinks DEF Fork
    <2> QED BY <1>23, <2>1, <2>2 DEF Fork, threadVars, stopVars
  <1>24. CASE BrokerExits
    <2> Queue' = {} /\ Distinct'
      BY <1>24, QueueLost DEF BrokerExits, BasisEnds
    <2> QED BY <1>24 DEF BrokerExits, BrokerEnds, BasisEnds, Listening
  <1>25. ASSUME NEW a \in Attempts, TerminateChild(a) PROVE SpawnInv'
    <2> UNCHANGED <<Queue, Distinct>>
      BY <1>25, SameQueue DEF TerminateChild, AfterTerm, GroupAlive, threadVars,
        basisVars, childVars, stopVars
    <2> QED
      BY <1>25 DEF TerminateChild, AfterTerm, GroupAlive, threadVars, basisVars,
        childVars, stopVars
  <1>26. CASE BrokerCrashes
    <2> UNCHANGED <<Queue, Distinct>>
      BY <1>26, SameQueue DEF BrokerCrashes, BrokerEnds, Listening, threadVars,
        basisVars, childVars, stopVars
    <2> QED
      BY <1>26 DEF BrokerCrashes, BrokerEnds, Listening, threadVars, basisVars,
        childVars, stopVars
  <1>27. CASE BasisCrashes
    <2> Queue' = {} /\ Distinct'
      BY <1>27, QueueLost DEF BasisCrashes
    <2> QED BY <1>27 DEF BasisCrashes, threadVars, childVars
  <1>28. CASE KillRuntime
    <2> Queue' = {} /\ Distinct'
      BY <1>28, QueueLost DEF KillRuntime, BasisEnds
    <2> QED BY <1>28 DEF KillRuntime, BasisEnds, Listening
  <1>29. CASE Sweep
    <2> UNCHANGED <<Queue, Distinct>>
      BY <1>29, SameQueue DEF Sweep, AfterTerm, GroupAlive, threadVars, basisVars,
        childVars, stopVars
    <2> QED
      BY <1>29 DEF Sweep, AfterTerm, GroupAlive, threadVars, basisVars, childVars,
        stopVars
  <1>30. CASE UNCHANGED brokerVars
    BY <1>1, <1>30 DEF brokerVars, threadVars, basisVars, childVars, stopVars
  <1> QED
    BY <1>2, <1>3, <1>4, <1>5, <1>6, <1>7, <1>8, <1>9, <1>10, <1>11, <1>12, <1>13,
      <1>14, <1>15, <1>16, <1>17, <1>18, <1>19, <1>20, <1>21, <1>22, <1>23, <1>24,
      <1>25, <1>26, <1>27, <1>28, <1>29, <1>30
    DEF BrokerNext, HandlerStep, ChildStep, ClosingStep

\* Completion: an ended child stays ended, whatever signals it later.
LEMMA CompletedStep ==
  ASSUME BrokerTypeOK, ThreadInv, SpawnInv, CompletedMeansGone, [BrokerNext]_brokerVars
  PROVE  CompletedMeansGone'
  <1> USE DEF BrokerTypeOK, ThreadInv, SpawnInv, CompletedMeansGone
  <1>1. ASSUME UNCHANGED <<client, forked>> PROVE CompletedMeansGone'
    BY <1>1 DEF Queue, Distinct
  <1>2. CASE StopRequested \/ CloseListeners \/ BasisStops \/ BasisCrashes \/
          AskStop
    BY <1>1, <1>2 DEF StopRequested, CloseListeners, BasisStops, BasisCrashes,
      AskStop, threadVars, basisVars, childVars, stopVars
  <1>3. ASSUME NEW a \in Attempts, SendPhrase(a) \/ WriteAck(a) \/ Finally(a) PROVE
          CompletedMeansGone'
    BY <1>1, <1>3 DEF SendPhrase, WriteAck, Finally, Step, LetGo, threadVars,
      basisVars, childVars, stopVars
  <1>4. ASSUME NEW a \in Attempts, Request(a) PROVE CompletedMeansGone'
    <2> UNCHANGED <<Queue, Distinct>>
      BY <1>4, SameQueue DEF Request, Accepting, threadVars, basisVars, childVars,
        stopVars
    <2> QED
      BY <1>4 DEF Request, Accepting, threadVars, basisVars, childVars, stopVars
  <1>5. ASSUME NEW a \in Attempts, Recover(a) PROVE CompletedMeansGone'
    <2> UNCHANGED <<Queue, Distinct>>
      BY <1>5, SameQueue DEF Recover, Accepting, threadVars, basisVars, childVars,
        stopVars
    <2> QED
      BY <1>5 DEF Recover, Accepting, threadVars, basisVars, childVars, stopVars
  <1>6. ASSUME NEW a \in Attempts, RecoveryExpires(a) PROVE CompletedMeansGone'
    <2> UNCHANGED <<Queue, Distinct>>
      BY <1>6, SameQueue DEF RecoveryExpires, threadVars, basisVars, childVars,
        stopVars
    <2> QED
      BY <1>6 DEF RecoveryExpires, threadVars, basisVars, childVars, stopVars
  <1>7. ASSUME NEW a \in Attempts, ControllerKilled(a) PROVE CompletedMeansGone'
    <2> UNCHANGED <<Queue, Distinct>>
      BY <1>7, SameQueue DEF ControllerKilled, threadVars, basisVars, childVars,
        stopVars
    <2> QED
      BY <1>7 DEF ControllerKilled, threadVars, basisVars, childVars, stopVars
  <1>8. ASSUME NEW a \in Attempts, LockSession(a) PROVE CompletedMeansGone'
    <2> UNCHANGED <<Queue, Distinct>>
      BY <1>8, SameQueue DEF LockSession, Step, Refused, LetGo, Answer,
        Listening, threadVars, basisVars, childVars, stopVars
    <2> QED
      BY <1>8 DEF LockSession, Step, Refused, LetGo, Answer, Listening,
        threadVars, basisVars, childVars, stopVars
  <1>9. ASSUME NEW a \in Attempts, Activate(a) PROVE CompletedMeansGone'
    <2>1. Reaped(a)
      BY <1>9, ActivateEffect
    <2> UNCHANGED <<Queue, Distinct>>
      BY <2>1, SameQueue DEF Reaped, basisVars
    <2>2. CASE Refused(a)
      BY <2>1, <2>2
      DEF Reaped, Refused, LetGo, Answer, Listening, GroupAlive, stopVars, basisVars
    <2>3. CASE Admits(a)
      BY <2>1, <2>3 DEF Admits, Reaped, GroupAlive, stopVars, basisVars
    <2> QED BY <1>9, <2>2, <2>3, ActivateEffect
  <1>10. ASSUME NEW a \in Attempts, ReadTokens(a) PROVE CompletedMeansGone'
    <2> UNCHANGED <<Queue, Distinct>>
      BY <1>10, SameQueue DEF ReadTokens, Step, Refused, LetGo, Answer,
        Listening, threadVars, basisVars, childVars, stopVars
    <2> QED
      BY <1>10 DEF ReadTokens, Step, Refused, LetGo, Answer, Listening,
        threadVars, basisVars, childVars, stopVars
  <1>11. ASSUME NEW a \in Attempts, SpawnTimesOut(a) PROVE CompletedMeansGone'
    <2> UNCHANGED <<Queue, Distinct>>
      BY <1>11, SameQueue DEF SpawnTimesOut, LetGo, Answer, Listening,
        threadVars, basisVars, childVars, stopVars
    <2> QED
      BY <1>11 DEF SpawnTimesOut, LetGo, Answer, Listening, threadVars,
        basisVars, childVars, stopVars
  <1>12. ASSUME NEW a \in Attempts, BasisGone(a) PROVE CompletedMeansGone'
    <2> UNCHANGED <<Queue, Distinct>>
      BY <1>12, SameQueue DEF BasisGone, Refused, LetGo, Answer, Listening,
        threadVars, basisVars, childVars, stopVars
    <2> QED
      BY <1>12 DEF BasisGone, Refused, LetGo, Answer, Listening, threadVars,
        basisVars, childVars, stopVars
  <1>13. ASSUME NEW a \in Attempts, Register(a) PROVE CompletedMeansGone'
    <2> UNCHANGED <<Queue, Distinct>>
      BY <1>13, SameQueue DEF Register, Step, Refused, LetGo, Answer, Listening,
        threadVars, basisVars, childVars, stopVars
    <2> QED
      BY <1>13 DEF Register, Step, Refused, LetGo, Answer, Listening, threadVars,
        basisVars, childVars, stopVars
  <1>14. ASSUME NEW a \in Attempts, SeesOwnership(a) PROVE CompletedMeansGone'
    <2> UNCHANGED <<Queue, Distinct>>
      BY <1>14, SameQueue DEF SeesOwnership, Step, threadVars, basisVars, childVars,
        stopVars
    <2> QED
      BY <1>14 DEF SeesOwnership, Step, threadVars, basisVars, childVars, stopVars
  <1>15. ASSUME NEW a \in Attempts, RegistrationFails(a) PROVE CompletedMeansGone'
    <2> UNCHANGED <<Queue, Distinct>>
      BY <1>15, SameQueue DEF RegistrationFails, AfterTerm, GroupAlive, threadVars,
        basisVars, childVars, stopVars
    <2> QED
      BY <1>15 DEF RegistrationFails, AfterTerm, GroupAlive, threadVars, basisVars,
        childVars, stopVars
  <1>16. ASSUME NEW a \in Attempts, RemoveFiles(a) PROVE CompletedMeansGone'
    <2> UNCHANGED <<Queue, Distinct>>
      BY <1>16, SameQueue DEF RemoveFiles, LetGo, Answer, Listening, threadVars,
        basisVars, childVars, stopVars
    <2> QED
      BY <1>16 DEF RemoveFiles, LetGo, Answer, Listening, threadVars, basisVars,
        childVars, stopVars
  <1>17. ASSUME NEW a \in Attempts, ChildDone(a) PROVE CompletedMeansGone'
    <2> UNCHANGED <<Queue, Distinct>>
      BY <1>17, SameQueue DEF ChildDone, Finish, Answer, Listening, GroupAlive,
        threadVars, basisVars, childVars, stopVars
    <2> QED
      BY <1>17 DEF ChildDone, Finish, Answer, Listening, GroupAlive, threadVars,
        basisVars, childVars, stopVars
  <1>18. ASSUME NEW a \in Attempts, CancelOrDisconnect(a) PROVE CompletedMeansGone'
    <2>1. PICK st \in AfterTerm(a) : Finish(a, st)
      BY <1>18 DEF CancelOrDisconnect
    <2> UNCHANGED <<Queue, Distinct>>
      BY <2>1, SameQueue DEF Finish, basisVars
    <2>2. /\ st \in ChildState /\ (st = forked[a] \/ st = "ended")
          /\ handler[a] = "serving"
      BY <1>18, <2>1 DEF AfterTerm, CancelOrDisconnect, ChildState
    <2> QED BY <2>1, <2>2
      DEF Finish, Answer, Listening, GroupAlive, basisVars, stopVars
  <1>19. ASSUME NEW a \in Attempts, TakeOwnership(a) PROVE CompletedMeansGone'
    <2> UNCHANGED <<Queue, Distinct>>
      BY <1>19, SameQueue DEF TakeOwnership, threadVars, basisVars, childVars,
        stopVars
    <2> QED
      BY <1>19 DEF TakeOwnership, threadVars, basisVars, childVars, stopVars
  <1>20. ASSUME NEW a \in Attempts, ChildExits(a) PROVE CompletedMeansGone'
    <2> UNCHANGED <<Queue, Distinct>>
      BY <1>20, SameQueue DEF ChildExits, threadVars, basisVars, childVars, stopVars
    <2> QED
      BY <1>20 DEF ChildExits, threadVars, basisVars, childVars, stopVars
  <1>21. CASE Fork
    <2>1. PICK st \in {"waiting", "none"} :
            forked' = [forked EXCEPT ![Head(phrases)] = st]
      BY <1>21 DEF Fork
    <2>2. /\ Distinct' /\ Head(phrases) \in Attempts /\ Head(phrases) \in Queue
          /\ Queue' = Queue \ {Head(phrases)}
      BY <1>21, QueueShrinks DEF Fork
    <2> QED BY <1>21, <2>1, <2>2 DEF Fork, threadVars, stopVars
  <1>22. CASE BrokerExits
    BY <1>22 DEF BrokerExits, BrokerEnds, BasisEnds, Listening, threadVars,
      basisVars, childVars, stopVars
  <1>23. ASSUME NEW a \in Attempts, TerminateChild(a) PROVE CompletedMeansGone'
    <2> UNCHANGED <<Queue, Distinct>>
      BY <1>23, SameQueue DEF TerminateChild, AfterTerm, GroupAlive, threadVars,
        basisVars, childVars, stopVars
    <2> QED
      BY <1>23 DEF TerminateChild, AfterTerm, GroupAlive, threadVars, basisVars,
        childVars, stopVars
  <1>24. CASE BrokerCrashes
    <2> UNCHANGED <<Queue, Distinct>>
      BY <1>24, SameQueue DEF BrokerCrashes, BrokerEnds, Listening, threadVars,
        basisVars, childVars, stopVars
    <2> QED
      BY <1>24 DEF BrokerCrashes, BrokerEnds, Listening, threadVars, basisVars,
        childVars, stopVars
  <1>25. CASE KillRuntime
    BY <1>25 DEF KillRuntime, BasisEnds, Listening, threadVars, basisVars,
      childVars, stopVars
  <1>26. CASE Sweep
    <2> UNCHANGED <<Queue, Distinct>>
      BY <1>26, SameQueue DEF Sweep, AfterTerm, GroupAlive, threadVars, basisVars,
        childVars, stopVars
    <2> QED
      BY <1>26 DEF Sweep, AfterTerm, GroupAlive, threadVars, basisVars, childVars,
        stopVars
  <1>27. CASE UNCHANGED brokerVars
    BY <1>1, <1>27 DEF brokerVars, threadVars, basisVars, childVars, stopVars
  <1> QED
    BY <1>2, <1>3, <1>4, <1>5, <1>6, <1>7, <1>8, <1>9, <1>10, <1>11, <1>12, <1>13,
      <1>14, <1>15, <1>16, <1>17, <1>18, <1>19, <1>20, <1>21, <1>22, <1>23, <1>24,
      <1>25, <1>26, <1>27
    DEF BrokerNext, HandlerStep, ChildStep, ClosingStep

\* ACK files.
LEMMA AckStep ==
  ASSUME LifeInv, AckInv, [BrokerNext]_brokerVars
  PROVE  AckInv'
  <1> USE DEF LifeInv, BrokerTypeOK, ThreadInv, SpawnInv, AckInv
  <1>1. ASSUME UNCHANGED <<client, handler, acked, forked>> PROVE AckInv'
    BY <1>1 DEF Queue, Distinct
  <1>2. CASE StopRequested \/ CloseListeners \/ BasisStops \/ BasisCrashes \/
          AskStop
    BY <1>1, <1>2 DEF StopRequested, CloseListeners, BasisStops, BasisCrashes,
      AskStop, threadVars, basisVars, childVars, stopVars
  <1>3. ASSUME NEW a \in Attempts, Request(a) PROVE AckInv'
    <2> UNCHANGED <<Queue, Distinct>>
      BY <1>3, SameQueue DEF Request, Accepting, threadVars, basisVars, childVars,
        stopVars
    <2> QED
      BY <1>3 DEF Request, Accepting, threadVars, basisVars, childVars, stopVars
  <1>4. ASSUME NEW a \in Attempts, Recover(a) PROVE AckInv'
    <2> UNCHANGED <<Queue, Distinct>>
      BY <1>4, SameQueue DEF Recover, Accepting, threadVars, basisVars, childVars,
        stopVars
    <2> QED
      BY <1>4 DEF Recover, Accepting, threadVars, basisVars, childVars, stopVars
  <1>5. ASSUME NEW a \in Attempts, RecoveryExpires(a) PROVE AckInv'
    <2> UNCHANGED <<Queue, Distinct>>
      BY <1>5, SameQueue DEF RecoveryExpires, threadVars, basisVars, childVars,
        stopVars
    <2> QED
      BY <1>5 DEF RecoveryExpires, threadVars, basisVars, childVars, stopVars
  <1>6. ASSUME NEW a \in Attempts, ControllerKilled(a) PROVE AckInv'
    <2> UNCHANGED <<Queue, Distinct>>
      BY <1>6, SameQueue DEF ControllerKilled, threadVars, basisVars, childVars,
        stopVars
    <2> QED
      BY <1>6 DEF ControllerKilled, threadVars, basisVars, childVars, stopVars
  <1>7. ASSUME NEW a \in Attempts, LockSession(a) PROVE AckInv'
    <2> UNCHANGED <<Queue, Distinct>>
      BY <1>7, SameQueue DEF LockSession, Step, Refused, LetGo, Answer,
        Listening, threadVars, basisVars, childVars, stopVars
    <2> QED
      BY <1>7 DEF LockSession, Step, Refused, LetGo, Answer, Listening,
        threadVars, basisVars, childVars, stopVars
  <1>8. ASSUME NEW a \in Attempts, Activate(a) PROVE AckInv'
    <2>1. Reaped(a)
      BY <1>8, ActivateEffect
    <2> UNCHANGED <<Queue, Distinct>>
      BY <2>1, SameQueue DEF Reaped, basisVars
    <2>2. CASE Refused(a)
      BY <2>1, <2>2
      DEF Reaped, Refused, LetGo, Answer, Listening, GroupAlive, stopVars, basisVars
    <2>3. CASE Admits(a)
      BY <2>1, <2>3 DEF Admits, Reaped, GroupAlive, stopVars, basisVars
    <2> QED BY <1>8, <2>2, <2>3, ActivateEffect
  <1>9. ASSUME NEW a \in Attempts, SendPhrase(a) PROVE AckInv'
    BY <1>9 DEF SendPhrase, Step, threadVars, basisVars, childVars, stopVars
  <1>10. ASSUME NEW a \in Attempts, ReadTokens(a) PROVE AckInv'
    <2> UNCHANGED <<Queue, Distinct>>
      BY <1>10, SameQueue DEF ReadTokens, Step, Refused, LetGo, Answer,
        Listening, threadVars, basisVars, childVars, stopVars
    <2> QED
      BY <1>10 DEF ReadTokens, Step, Refused, LetGo, Answer, Listening,
        threadVars, basisVars, childVars, stopVars
  <1>11. ASSUME NEW a \in Attempts, SpawnTimesOut(a) PROVE AckInv'
    <2> UNCHANGED <<Queue, Distinct>>
      BY <1>11, SameQueue DEF SpawnTimesOut, LetGo, Answer, Listening,
        threadVars, basisVars, childVars, stopVars
    <2> QED
      BY <1>11 DEF SpawnTimesOut, LetGo, Answer, Listening, threadVars,
        basisVars, childVars, stopVars
  <1>12. ASSUME NEW a \in Attempts, BasisGone(a) PROVE AckInv'
    <2> UNCHANGED <<Queue, Distinct>>
      BY <1>12, SameQueue DEF BasisGone, Refused, LetGo, Answer, Listening,
        threadVars, basisVars, childVars, stopVars
    <2> QED
      BY <1>12 DEF BasisGone, Refused, LetGo, Answer, Listening, threadVars,
        basisVars, childVars, stopVars
  <1>13. ASSUME NEW a \in Attempts, Register(a) PROVE AckInv'
    <2> UNCHANGED <<Queue, Distinct>>
      BY <1>13, SameQueue DEF Register, Step, Refused, LetGo, Answer, Listening,
        threadVars, basisVars, childVars, stopVars
    <2> QED
      BY <1>13 DEF Register, Step, Refused, LetGo, Answer, Listening, threadVars,
        basisVars, childVars, stopVars
  <1>14. ASSUME NEW a \in Attempts, WriteAck(a) PROVE AckInv'
    <2> UNCHANGED <<Queue, Distinct>>
      BY <1>14, SameQueue DEF WriteAck, Step, threadVars, basisVars, childVars,
        stopVars
    <2> QED
      BY <1>14 DEF WriteAck, Step, threadVars, basisVars, childVars, stopVars
  <1>15. ASSUME NEW a \in Attempts, SeesOwnership(a) PROVE AckInv'
    <2> UNCHANGED <<Queue, Distinct>>
      BY <1>15, SameQueue DEF SeesOwnership, Step, threadVars, basisVars, childVars,
        stopVars
    <2> QED
      BY <1>15 DEF SeesOwnership, Step, threadVars, basisVars, childVars, stopVars
  <1>16. ASSUME NEW a \in Attempts, RegistrationFails(a) PROVE AckInv'
    <2> UNCHANGED <<Queue, Distinct>>
      BY <1>16, SameQueue DEF RegistrationFails, AfterTerm, GroupAlive, threadVars,
        basisVars, childVars, stopVars
    <2> QED
      BY <1>16 DEF RegistrationFails, AfterTerm, GroupAlive, threadVars, basisVars,
        childVars, stopVars
  <1>17. ASSUME NEW a \in Attempts, RemoveFiles(a) PROVE AckInv'
    <2> UNCHANGED <<Queue, Distinct>>
      BY <1>17, SameQueue DEF RemoveFiles, LetGo, Answer, Listening, threadVars,
        basisVars, childVars, stopVars
    <2> QED
      BY <1>17 DEF RemoveFiles, LetGo, Answer, Listening, threadVars, basisVars,
        childVars, stopVars
  <1>18. ASSUME NEW a \in Attempts, ChildDone(a) PROVE AckInv'
    <2> UNCHANGED <<Queue, Distinct>>
      BY <1>18, SameQueue DEF ChildDone, Finish, Answer, Listening, GroupAlive,
        threadVars, basisVars, childVars, stopVars
    <2> QED
      BY <1>18 DEF ChildDone, Finish, Answer, Listening, GroupAlive, threadVars,
        basisVars, childVars, stopVars
  <1>19. ASSUME NEW a \in Attempts, Finally(a) PROVE AckInv'
    <2> UNCHANGED <<Queue, Distinct>>
      BY <1>19, SameQueue DEF Finally, LetGo, threadVars, basisVars, childVars,
        stopVars
    <2> QED
      BY <1>19 DEF Finally, LetGo, threadVars, basisVars, childVars, stopVars
  <1>20. ASSUME NEW a \in Attempts, CancelOrDisconnect(a) PROVE AckInv'
    <2>1. PICK st \in AfterTerm(a) : Finish(a, st)
      BY <1>20 DEF CancelOrDisconnect
    <2> UNCHANGED <<Queue, Distinct>>
      BY <2>1, SameQueue DEF Finish, basisVars
    <2>2. /\ st \in ChildState /\ (st = forked[a] \/ st = "ended")
          /\ handler[a] = "serving"
      BY <1>20, <2>1 DEF AfterTerm, CancelOrDisconnect, ChildState
    <2> QED BY <2>1, <2>2
      DEF Finish, Answer, Listening, GroupAlive, basisVars, stopVars
  <1>21. ASSUME NEW a \in Attempts, TakeOwnership(a) PROVE AckInv'
    <2> UNCHANGED <<Queue, Distinct>>
      BY <1>21, SameQueue DEF TakeOwnership, threadVars, basisVars, childVars,
        stopVars
    <2> QED
      BY <1>21 DEF TakeOwnership, threadVars, basisVars, childVars, stopVars
  <1>22. ASSUME NEW a \in Attempts, ChildExits(a) PROVE AckInv'
    <2> UNCHANGED <<Queue, Distinct>>
      BY <1>22, SameQueue DEF ChildExits, threadVars, basisVars, childVars, stopVars
    <2> QED
      BY <1>22 DEF ChildExits, threadVars, basisVars, childVars, stopVars
  <1>23. CASE Fork
    <2>1. PICK st \in {"waiting", "none"} :
            forked' = [forked EXCEPT ![Head(phrases)] = st]
      BY <1>23 DEF Fork
    <2>2. /\ Distinct' /\ Head(phrases) \in Attempts /\ Head(phrases) \in Queue
          /\ Queue' = Queue \ {Head(phrases)}
      BY <1>23, QueueShrinks DEF Fork
    <2> QED BY <1>23, <2>1, <2>2 DEF Fork, threadVars, stopVars
  <1>24. CASE BrokerExits
    BY <1>24 DEF BrokerExits, BrokerEnds, BasisEnds, Listening, threadVars,
      basisVars, childVars, stopVars
  <1>25. ASSUME NEW a \in Attempts, TerminateChild(a) PROVE AckInv'
    <2> UNCHANGED <<Queue, Distinct>>
      BY <1>25, SameQueue DEF TerminateChild, AfterTerm, GroupAlive, threadVars,
        basisVars, childVars, stopVars
    <2> QED
      BY <1>25 DEF TerminateChild, AfterTerm, GroupAlive, threadVars, basisVars,
        childVars, stopVars
  <1>26. CASE BrokerCrashes
    <2> UNCHANGED <<Queue, Distinct>>
      BY <1>26, SameQueue DEF BrokerCrashes, BrokerEnds, Listening, threadVars,
        basisVars, childVars, stopVars
    <2> QED
      BY <1>26 DEF BrokerCrashes, BrokerEnds, Listening, threadVars, basisVars,
        childVars, stopVars
  <1>27. CASE KillRuntime
    BY <1>27 DEF KillRuntime, BasisEnds, Listening, threadVars, basisVars,
      childVars, stopVars
  <1>28. CASE Sweep
    <2> UNCHANGED <<Queue, Distinct>>
      BY <1>28, SameQueue DEF Sweep, AfterTerm, GroupAlive, threadVars, basisVars,
        childVars, stopVars
    <2> QED
      BY <1>28 DEF Sweep, AfterTerm, GroupAlive, threadVars, basisVars, childVars,
        stopVars
  <1>29. CASE UNCHANGED brokerVars
    BY <1>1, <1>29 DEF brokerVars, threadVars, basisVars, childVars, stopVars
  <1> QED
    BY <1>2, <1>3, <1>4, <1>5, <1>6, <1>7, <1>8, <1>9, <1>10, <1>11, <1>12, <1>13,
      <1>14, <1>15, <1>16, <1>17, <1>18, <1>19, <1>20, <1>21, <1>22, <1>23, <1>24,
      <1>25, <1>26, <1>27, <1>28, <1>29
    DEF BrokerNext, HandlerStep, ChildStep, ClosingStep

\* Registration.
LEMMA RegistryStep ==
  ASSUME SlowOwnership = FALSE, LifeInv, AckInv, RegistryInv, OwnersRegistered,
         [BrokerNext]_brokerVars
  PROVE  RegistryInv'
  <1> USE DEF LifeInv, BrokerTypeOK, ThreadInv, SpawnInv, AckInv, RegistryInv,
    OwnersRegistered
  <1>1. ASSUME UNCHANGED <<handler, registry, forked, acked>> PROVE RegistryInv'
    BY <1>1 DEF Queue, Distinct
  <1>2. CASE StopRequested \/ CloseListeners \/ BasisStops \/ BasisCrashes \/
          AskStop
    BY <1>1, <1>2 DEF StopRequested, CloseListeners, BasisStops, BasisCrashes,
      AskStop, threadVars, basisVars, childVars, stopVars
  <1>3. ASSUME NEW a \in Attempts, RecoveryExpires(a) \/ ControllerKilled(a) PROVE
          RegistryInv'
    BY <1>1, <1>3 DEF RecoveryExpires, ControllerKilled, threadVars, basisVars,
      childVars, stopVars
  <1>4. ASSUME NEW a \in Attempts, Request(a) PROVE RegistryInv'
    <2> UNCHANGED <<Queue, Distinct>>
      BY <1>4, SameQueue DEF Request, Accepting, threadVars, basisVars, childVars,
        stopVars
    <2> QED
      BY <1>4 DEF Request, Accepting, threadVars, basisVars, childVars, stopVars
  <1>5. ASSUME NEW a \in Attempts, Recover(a) PROVE RegistryInv'
    <2> UNCHANGED <<Queue, Distinct>>
      BY <1>5, SameQueue DEF Recover, Accepting, threadVars, basisVars, childVars,
        stopVars
    <2> QED
      BY <1>5 DEF Recover, Accepting, threadVars, basisVars, childVars, stopVars
  <1>6. ASSUME NEW a \in Attempts, LockSession(a) PROVE RegistryInv'
    <2> UNCHANGED <<Queue, Distinct>>
      BY <1>6, SameQueue DEF LockSession, Step, Refused, LetGo, Answer,
        Listening, threadVars, basisVars, childVars, stopVars
    <2> QED
      BY <1>6 DEF LockSession, Step, Refused, LetGo, Answer, Listening,
        threadVars, basisVars, childVars, stopVars
  <1>7. ASSUME NEW a \in Attempts, Activate(a) PROVE RegistryInv'
    <2>1. Reaped(a)
      BY <1>7, ActivateEffect
    <2> UNCHANGED <<Queue, Distinct>>
      BY <2>1, SameQueue DEF Reaped, basisVars
    <2>2. CASE Refused(a)
      BY <2>1, <2>2
      DEF Reaped, Refused, LetGo, Answer, Listening, GroupAlive, stopVars, basisVars
    <2>3. CASE Admits(a)
      BY <2>1, <2>3 DEF Admits, Reaped, GroupAlive, stopVars, basisVars
    <2> QED BY <1>7, <2>2, <2>3, ActivateEffect
  <1>8. ASSUME NEW a \in Attempts, SendPhrase(a) PROVE RegistryInv'
    BY <1>8 DEF SendPhrase, Step, threadVars, basisVars, childVars, stopVars
  <1>9. ASSUME NEW a \in Attempts, ReadTokens(a) PROVE RegistryInv'
    <2> UNCHANGED <<Queue, Distinct>>
      BY <1>9, SameQueue DEF ReadTokens, Step, Refused, LetGo, Answer, Listening,
        threadVars, basisVars, childVars, stopVars
    <2> QED
      BY <1>9 DEF ReadTokens, Step, Refused, LetGo, Answer, Listening,
        threadVars, basisVars, childVars, stopVars
  <1>10. ASSUME NEW a \in Attempts, SpawnTimesOut(a) PROVE RegistryInv'
    <2> UNCHANGED <<Queue, Distinct>>
      BY <1>10, SameQueue DEF SpawnTimesOut, LetGo, Answer, Listening,
        threadVars, basisVars, childVars, stopVars
    <2> QED
      BY <1>10 DEF SpawnTimesOut, LetGo, Answer, Listening, threadVars,
        basisVars, childVars, stopVars
  <1>11. ASSUME NEW a \in Attempts, BasisGone(a) PROVE RegistryInv'
    <2> UNCHANGED <<Queue, Distinct>>
      BY <1>11, SameQueue DEF BasisGone, Refused, LetGo, Answer, Listening,
        threadVars, basisVars, childVars, stopVars
    <2> QED
      BY <1>11 DEF BasisGone, Refused, LetGo, Answer, Listening, threadVars,
        basisVars, childVars, stopVars
  <1>12. ASSUME NEW a \in Attempts, Register(a) PROVE RegistryInv'
    <2> UNCHANGED <<Queue, Distinct>>
      BY <1>12, SameQueue DEF Register, Step, Refused, LetGo, Answer, Listening,
        threadVars, basisVars, childVars, stopVars
    <2> QED
      BY <1>12 DEF Register, Step, Refused, LetGo, Answer, Listening, threadVars,
        basisVars, childVars, stopVars
  <1>13. ASSUME NEW a \in Attempts, WriteAck(a) PROVE RegistryInv'
    <2> UNCHANGED <<Queue, Distinct>>
      BY <1>13, SameQueue DEF WriteAck, Step, threadVars, basisVars, childVars,
        stopVars
    <2> QED
      BY <1>13 DEF WriteAck, Step, threadVars, basisVars, childVars, stopVars
  <1>14. ASSUME NEW a \in Attempts, SeesOwnership(a) PROVE RegistryInv'
    <2> UNCHANGED <<Queue, Distinct>>
      BY <1>14, SameQueue DEF SeesOwnership, Step, threadVars, basisVars, childVars,
        stopVars
    <2> QED
      BY <1>14 DEF SeesOwnership, Step, threadVars, basisVars, childVars, stopVars
  <1>15. ASSUME NEW a \in Attempts, RegistrationFails(a) PROVE RegistryInv'
    <2> UNCHANGED <<Queue, Distinct>>
      BY <1>15, SameQueue DEF RegistrationFails, AfterTerm, GroupAlive, threadVars,
        basisVars, childVars, stopVars
    <2> QED
      BY <1>15 DEF RegistrationFails, AfterTerm, GroupAlive, threadVars, basisVars,
        childVars, stopVars
  <1>16. ASSUME NEW a \in Attempts, RemoveFiles(a) PROVE RegistryInv'
    <2> UNCHANGED <<Queue, Distinct>>
      BY <1>16, SameQueue DEF RemoveFiles, LetGo, Answer, Listening, threadVars,
        basisVars, childVars, stopVars
    <2> QED
      BY <1>16 DEF RemoveFiles, LetGo, Answer, Listening, threadVars, basisVars,
        childVars, stopVars
  <1>17. ASSUME NEW a \in Attempts, ChildDone(a) PROVE RegistryInv'
    <2> UNCHANGED <<Queue, Distinct>>
      BY <1>17, SameQueue DEF ChildDone, Finish, Answer, Listening, GroupAlive,
        threadVars, basisVars, childVars, stopVars
    <2> QED
      BY <1>17 DEF ChildDone, Finish, Answer, Listening, GroupAlive, threadVars,
        basisVars, childVars, stopVars
  <1>18. ASSUME NEW a \in Attempts, Finally(a) PROVE RegistryInv'
    <2> UNCHANGED <<Queue, Distinct>>
      BY <1>18, SameQueue DEF Finally, LetGo, threadVars, basisVars, childVars,
        stopVars
    <2> QED
      BY <1>18 DEF Finally, LetGo, threadVars, basisVars, childVars, stopVars
  <1>19. ASSUME NEW a \in Attempts, CancelOrDisconnect(a) PROVE RegistryInv'
    <2>1. PICK st \in AfterTerm(a) : Finish(a, st)
      BY <1>19 DEF CancelOrDisconnect
    <2> UNCHANGED <<Queue, Distinct>>
      BY <2>1, SameQueue DEF Finish, basisVars
    <2>2. /\ st \in ChildState /\ (st = forked[a] \/ st = "ended")
          /\ handler[a] = "serving"
      BY <1>19, <2>1 DEF AfterTerm, CancelOrDisconnect, ChildState
    <2> QED BY <2>1, <2>2
      DEF Finish, Answer, Listening, GroupAlive, basisVars, stopVars
  <1>20. ASSUME NEW a \in Attempts, TakeOwnership(a) PROVE RegistryInv'
    <2> UNCHANGED <<Queue, Distinct>>
      BY <1>20, SameQueue DEF TakeOwnership, threadVars, basisVars, childVars,
        stopVars
    <2> QED
      BY <1>20 DEF TakeOwnership, threadVars, basisVars, childVars, stopVars
  <1>21. ASSUME NEW a \in Attempts, ChildExits(a) PROVE RegistryInv'
    <2> UNCHANGED <<Queue, Distinct>>
      BY <1>21, SameQueue DEF ChildExits, threadVars, basisVars, childVars, stopVars
    <2> QED
      BY <1>21 DEF ChildExits, threadVars, basisVars, childVars, stopVars
  <1>22. CASE Fork
    <2>1. PICK st \in {"waiting", "none"} :
            forked' = [forked EXCEPT ![Head(phrases)] = st]
      BY <1>22 DEF Fork
    <2>2. /\ Distinct' /\ Head(phrases) \in Attempts /\ Head(phrases) \in Queue
          /\ Queue' = Queue \ {Head(phrases)}
      BY <1>22, QueueShrinks DEF Fork
    <2> QED BY <1>22, <2>1, <2>2 DEF Fork, threadVars, stopVars
  <1>23. CASE BrokerExits
    BY <1>23 DEF BrokerExits, BrokerEnds, BasisEnds, Listening, threadVars,
      basisVars, childVars, stopVars
  <1>24. ASSUME NEW a \in Attempts, TerminateChild(a) PROVE RegistryInv'
    <2> UNCHANGED <<Queue, Distinct>>
      BY <1>24, SameQueue DEF TerminateChild, AfterTerm, GroupAlive, threadVars,
        basisVars, childVars, stopVars
    <2> QED
      BY <1>24 DEF TerminateChild, AfterTerm, GroupAlive, threadVars, basisVars,
        childVars, stopVars
  <1>25. CASE BrokerCrashes
    <2> UNCHANGED <<Queue, Distinct>>
      BY <1>25, SameQueue DEF BrokerCrashes, BrokerEnds, Listening, threadVars,
        basisVars, childVars, stopVars
    <2> QED
      BY <1>25 DEF BrokerCrashes, BrokerEnds, Listening, threadVars, basisVars,
        childVars, stopVars
  <1>26. CASE KillRuntime
    BY <1>26 DEF KillRuntime, BasisEnds, Listening, threadVars, basisVars,
      childVars, stopVars
  <1>27. CASE Sweep
    <2>1. \A b \in Attempts : forked'[b] = forked[b] \/ forked'[b] = "ended"
      BY <1>27 DEF Sweep, AfterTerm, GroupAlive
    <2>2. UNCHANGED <<handler, acked, registry>>
      BY <1>27 DEF Sweep, threadVars
    <2> QED BY <2>1, <2>2
  <1>28. CASE UNCHANGED brokerVars
    BY <1>1, <1>28 DEF brokerVars, threadVars, basisVars, childVars, stopVars
  <1> QED
    BY <1>2, <1>3, <1>4, <1>5, <1>6, <1>7, <1>8, <1>9, <1>10, <1>11, <1>12, <1>13,
      <1>14, <1>15, <1>16, <1>17, <1>18, <1>19, <1>20, <1>21, <1>22, <1>23, <1>24,
      <1>25, <1>26, <1>27, <1>28
    DEF BrokerNext, HandlerStep, ChildStep, ClosingStep

\* Owners.
LEMMA OwnersStep ==
  ASSUME SlowOwnership = FALSE, LifeInv, AckInv, RegistryInv, OwnersRegistered,
         [BrokerNext]_brokerVars
  PROVE  OwnersRegistered'
  <1> USE DEF LifeInv, BrokerTypeOK, ThreadInv, SpawnInv, AckInv, RegistryInv,
    OwnersRegistered, GroupAlive
  <1>1. ASSUME UNCHANGED <<registry, forked>> PROVE OwnersRegistered'
    BY <1>1 DEF Queue, Distinct
  <1>2. CASE StopRequested \/ CloseListeners \/ BrokerCrashes \/ BasisStops \/
          BasisCrashes \/ AskStop
    BY <1>1, <1>2 DEF StopRequested, CloseListeners, BrokerCrashes, BasisStops,
      BasisCrashes, AskStop, Listening, BrokerEnds, threadVars, basisVars,
      childVars, stopVars
  <1>3. ASSUME NEW a \in Attempts, Request(a) \/ Recover(a) \/ RecoveryExpires(a) \/
          ControllerKilled(a) \/ LockSession(a) \/ SendPhrase(a) \/ ReadTokens(a) \/
          SpawnTimesOut(a) \/ BasisGone(a) \/ WriteAck(a) \/ Finally(a) PROVE
          OwnersRegistered'
    BY <1>1, <1>3 DEF Request, Recover, RecoveryExpires, ControllerKilled,
      LockSession, SendPhrase, ReadTokens, SpawnTimesOut, BasisGone, WriteAck,
      Finally, Step, LetGo, Refused, Answer, Listening, Accepting, threadVars,
      basisVars, childVars, stopVars
  <1>4. ASSUME NEW a \in Attempts, Activate(a) PROVE OwnersRegistered'
    <2>1. Reaped(a)
      BY <1>4, ActivateEffect
    <2> UNCHANGED <<Queue, Distinct>>
      BY <2>1, SameQueue DEF Reaped, basisVars
    <2>2. CASE Refused(a)
      BY <2>1, <2>2
      DEF Reaped, Refused, LetGo, Answer, Listening, GroupAlive, stopVars, basisVars
    <2>3. CASE Admits(a)
      BY <2>1, <2>3 DEF Admits, Reaped, GroupAlive, stopVars, basisVars
    <2> QED BY <1>4, <2>2, <2>3, ActivateEffect
  <1>5. ASSUME NEW a \in Attempts, Register(a) PROVE OwnersRegistered'
    <2> UNCHANGED <<Queue, Distinct>>
      BY <1>5, SameQueue DEF Register, Step, Refused, LetGo, Answer, Listening,
        threadVars, basisVars, childVars, stopVars
    <2> QED
      BY <1>5 DEF Register, Step, Refused, LetGo, Answer, Listening, threadVars,
        basisVars, childVars, stopVars
  <1>6. ASSUME NEW a \in Attempts, SeesOwnership(a) PROVE OwnersRegistered'
    <2> UNCHANGED <<Queue, Distinct>>
      BY <1>6, SameQueue DEF SeesOwnership, Step, threadVars, basisVars, childVars,
        stopVars
    <2> QED
      BY <1>6 DEF SeesOwnership, Step, threadVars, basisVars, childVars, stopVars
  <1>7. ASSUME NEW a \in Attempts, RegistrationFails(a) PROVE OwnersRegistered'
    <2> UNCHANGED <<Queue, Distinct>>
      BY <1>7, SameQueue DEF RegistrationFails, AfterTerm, GroupAlive, threadVars,
        basisVars, childVars, stopVars
    <2> QED
      BY <1>7 DEF RegistrationFails, AfterTerm, GroupAlive, threadVars, basisVars,
        childVars, stopVars
  <1>8. ASSUME NEW a \in Attempts, RemoveFiles(a) PROVE OwnersRegistered'
    <2> UNCHANGED <<Queue, Distinct>>
      BY <1>8, SameQueue DEF RemoveFiles, LetGo, Answer, Listening, threadVars,
        basisVars, childVars, stopVars
    <2> QED
      BY <1>8 DEF RemoveFiles, LetGo, Answer, Listening, threadVars, basisVars,
        childVars, stopVars
  <1>9. ASSUME NEW a \in Attempts, ChildDone(a) PROVE OwnersRegistered'
    <2> UNCHANGED <<Queue, Distinct>>
      BY <1>9, SameQueue DEF ChildDone, Finish, Answer, Listening, GroupAlive,
        threadVars, basisVars, childVars, stopVars
    <2> QED
      BY <1>9 DEF ChildDone, Finish, Answer, Listening, GroupAlive, threadVars,
        basisVars, childVars, stopVars
  <1>10. ASSUME NEW a \in Attempts, CancelOrDisconnect(a) PROVE OwnersRegistered'
    <2>1. PICK st \in AfterTerm(a) : Finish(a, st)
      BY <1>10 DEF CancelOrDisconnect
    <2> UNCHANGED <<Queue, Distinct>>
      BY <2>1, SameQueue DEF Finish, basisVars
    <2>2. /\ st \in ChildState /\ (st = forked[a] \/ st = "ended")
          /\ handler[a] = "serving"
      BY <1>10, <2>1 DEF AfterTerm, CancelOrDisconnect, ChildState
    <2> QED BY <2>1, <2>2
      DEF Finish, Answer, Listening, GroupAlive, basisVars, stopVars
  <1>11. ASSUME NEW a \in Attempts, TakeOwnership(a) PROVE OwnersRegistered'
    <2> UNCHANGED <<Queue, Distinct>>
      BY <1>11, SameQueue DEF TakeOwnership, threadVars, basisVars, childVars,
        stopVars
    <2> QED
      BY <1>11 DEF TakeOwnership, threadVars, basisVars, childVars, stopVars
  <1>12. ASSUME NEW a \in Attempts, ChildExits(a) PROVE OwnersRegistered'
    <2> UNCHANGED <<Queue, Distinct>>
      BY <1>12, SameQueue DEF ChildExits, threadVars, basisVars, childVars, stopVars
    <2> QED
      BY <1>12 DEF ChildExits, threadVars, basisVars, childVars, stopVars
  <1>13. CASE Fork
    <2>1. PICK st \in {"waiting", "none"} :
            forked' = [forked EXCEPT ![Head(phrases)] = st]
      BY <1>13 DEF Fork
    <2>2. /\ Distinct' /\ Head(phrases) \in Attempts /\ Head(phrases) \in Queue
          /\ Queue' = Queue \ {Head(phrases)}
      BY <1>13, QueueShrinks DEF Fork
    <2> QED BY <1>13, <2>1, <2>2 DEF Fork, threadVars, stopVars
  <1>14. CASE BrokerExits
    BY <1>14 DEF BrokerExits, BrokerEnds, BasisEnds, Listening, threadVars,
      basisVars, childVars, stopVars
  <1>15. ASSUME NEW a \in Attempts, TerminateChild(a) PROVE OwnersRegistered'
    <2> UNCHANGED <<Queue, Distinct>>
      BY <1>15, SameQueue DEF TerminateChild, AfterTerm, GroupAlive, threadVars,
        basisVars, childVars, stopVars
    <2> QED
      BY <1>15 DEF TerminateChild, AfterTerm, GroupAlive, threadVars, basisVars,
        childVars, stopVars
  <1>16. CASE KillRuntime
    BY <1>16 DEF KillRuntime, BasisEnds, Listening, threadVars, basisVars,
      childVars, stopVars
  <1>17. CASE Sweep
    <2> UNCHANGED <<Queue, Distinct>>
      BY <1>17, SameQueue DEF Sweep, AfterTerm, GroupAlive, threadVars, basisVars,
        childVars, stopVars
    <2> QED
      BY <1>17 DEF Sweep, AfterTerm, GroupAlive, threadVars, basisVars, childVars,
        stopVars
  <1>18. CASE UNCHANGED brokerVars
    BY <1>1, <1>18 DEF brokerVars, threadVars, basisVars, childVars, stopVars
  <1> QED
    BY <1>2, <1>3, <1>4, <1>5, <1>6, <1>7, <1>8, <1>9, <1>10, <1>11, <1>12, <1>13,
      <1>14, <1>15, <1>16, <1>17, <1>18
    DEF BrokerNext, HandlerStep, ChildStep, ClosingStep

\* Stop.
LEMMA StopStep ==
  ASSUME LifeInv, AckInv, RegistryInv, OwnersRegistered, StopInv, StoppedMeansQuiet,
         [BrokerNext]_brokerVars
  PROVE  StopInv' /\ StoppedMeansQuiet'
  <1> USE DEF LifeInv, BrokerTypeOK, ThreadInv, SpawnInv, AckInv, RegistryInv,
    OwnersRegistered, StopInv, StoppedMeansQuiet, GroupAlive
  <1>1. ASSUME UNCHANGED <<stopper, broker, basisUp, forked, acked>> PROVE StopInv'
          /\ StoppedMeansQuiet'
    BY <1>1 DEF Queue, Distinct
  <1>2. ASSUME NEW a \in Attempts, Request(a) \/ Recover(a) \/ RecoveryExpires(a) \/
          ControllerKilled(a) \/ LockSession(a) \/ SendPhrase(a) \/ ReadTokens(a) \/
          SpawnTimesOut(a) \/ BasisGone(a) \/ Register(a) \/ Finally(a) PROVE
          StopInv' /\ StoppedMeansQuiet'
    BY <1>1, <1>2 DEF Request, Recover, RecoveryExpires, ControllerKilled,
      LockSession, SendPhrase, ReadTokens, SpawnTimesOut, BasisGone, Register,
      Finally, Step, LetGo, Refused, Answer, Listening, Accepting, threadVars,
      basisVars, childVars, stopVars
  <1>3. ASSUME NEW a \in Attempts, Activate(a) PROVE StopInv' /\ StoppedMeansQuiet'
    <2> UNCHANGED <<Queue, Distinct>>
      BY <1>3, SameQueue DEF Activate, Step, Reaps, Refused, LetGo, Answer,
        Listening, AfterTerm, GroupAlive, threadVars, basisVars, childVars, stopVars
    <2> QED
      BY <1>3 DEF Activate, Step, Reaps, Refused, LetGo, Answer, Listening,
        AfterTerm, GroupAlive, threadVars, basisVars, childVars, stopVars
  <1>4. ASSUME NEW a \in Attempts, WriteAck(a) PROVE StopInv' /\ StoppedMeansQuiet'
    <2> UNCHANGED <<Queue, Distinct>>
      BY <1>4, SameQueue DEF WriteAck, Step, threadVars, basisVars, childVars,
        stopVars
    <2> QED
      BY <1>4 DEF WriteAck, Step, threadVars, basisVars, childVars, stopVars
  <1>5. ASSUME NEW a \in Attempts, SeesOwnership(a) PROVE StopInv' /\ StoppedMeansQuiet'
    <2> UNCHANGED <<Queue, Distinct>>
      BY <1>5, SameQueue DEF SeesOwnership, Step, threadVars, basisVars, childVars,
        stopVars
    <2> QED
      BY <1>5 DEF SeesOwnership, Step, threadVars, basisVars, childVars, stopVars
  <1>6. ASSUME NEW a \in Attempts, RegistrationFails(a)
        PROVE StopInv' /\ StoppedMeansQuiet'
    <2> UNCHANGED <<Queue, Distinct>>
      BY <1>6, SameQueue DEF RegistrationFails, AfterTerm, GroupAlive, threadVars,
        basisVars, childVars, stopVars
    <2> QED
      BY <1>6 DEF RegistrationFails, AfterTerm, GroupAlive, threadVars, basisVars,
        childVars, stopVars
  <1>7. ASSUME NEW a \in Attempts, RemoveFiles(a) PROVE StopInv' /\ StoppedMeansQuiet'
    <2> UNCHANGED <<Queue, Distinct>>
      BY <1>7, SameQueue DEF RemoveFiles, LetGo, Answer, Listening, threadVars,
        basisVars, childVars, stopVars
    <2> QED
      BY <1>7 DEF RemoveFiles, LetGo, Answer, Listening, threadVars, basisVars,
        childVars, stopVars
  <1>8. ASSUME NEW a \in Attempts, ChildDone(a) PROVE StopInv' /\ StoppedMeansQuiet'
    <2> UNCHANGED <<Queue, Distinct>>
      BY <1>8, SameQueue DEF ChildDone, Finish, Answer, Listening, GroupAlive,
        threadVars, basisVars, childVars, stopVars
    <2> QED
      BY <1>8 DEF ChildDone, Finish, Answer, Listening, GroupAlive, threadVars,
        basisVars, childVars, stopVars
  <1>9. ASSUME NEW a \in Attempts, CancelOrDisconnect(a)
        PROVE StopInv' /\ StoppedMeansQuiet'
    <2> UNCHANGED <<Queue, Distinct>>
      BY <1>9, SameQueue DEF CancelOrDisconnect, Finish, Answer, Listening,
        GroupAlive, AfterTerm, threadVars, basisVars, childVars, stopVars
    <2> QED
      BY <1>9 DEF CancelOrDisconnect, Finish, Answer, Listening, GroupAlive,
        AfterTerm, threadVars, basisVars, childVars, stopVars
  <1>10. ASSUME NEW a \in Attempts, TakeOwnership(a)
         PROVE StopInv' /\ StoppedMeansQuiet'
    <2> UNCHANGED <<Queue, Distinct>>
      BY <1>10, SameQueue DEF TakeOwnership, threadVars, basisVars, childVars,
        stopVars
    <2> QED
      BY <1>10 DEF TakeOwnership, threadVars, basisVars, childVars, stopVars
  <1>11. ASSUME NEW a \in Attempts, ChildExits(a) PROVE StopInv' /\ StoppedMeansQuiet'
    <2> UNCHANGED <<Queue, Distinct>>
      BY <1>11, SameQueue DEF ChildExits, threadVars, basisVars, childVars, stopVars
    <2> QED
      BY <1>11 DEF ChildExits, threadVars, basisVars, childVars, stopVars
  <1>12. CASE Fork
    BY <1>12 DEF Fork, threadVars, basisVars, childVars, stopVars
  <1>13. CASE StopRequested
    <2> UNCHANGED <<Queue, Distinct>>
      BY <1>13, SameQueue DEF StopRequested, threadVars, basisVars, childVars,
        stopVars
    <2> QED
      BY <1>13 DEF StopRequested, threadVars, basisVars, childVars, stopVars
  <1>14. CASE CloseListeners
    <2> UNCHANGED <<Queue, Distinct>>
      BY <1>14, SameQueue DEF CloseListeners, threadVars, basisVars, childVars,
        stopVars
    <2> QED
      BY <1>14 DEF CloseListeners, threadVars, basisVars, childVars, stopVars
  <1>15. CASE BrokerExits
    BY <1>15 DEF BrokerExits, BrokerEnds, BasisEnds, Listening, threadVars,
      basisVars, childVars, stopVars
  <1>16. ASSUME NEW a \in Attempts, TerminateChild(a)
         PROVE StopInv' /\ StoppedMeansQuiet'
    <2> UNCHANGED <<Queue, Distinct>>
      BY <1>16, SameQueue DEF TerminateChild, AfterTerm, GroupAlive, threadVars,
        basisVars, childVars, stopVars
    <2> QED
      BY <1>16 DEF TerminateChild, AfterTerm, GroupAlive, threadVars, basisVars,
        childVars, stopVars
  <1>17. CASE BrokerCrashes
    <2> UNCHANGED <<Queue, Distinct>>
      BY <1>17, SameQueue DEF BrokerCrashes, BrokerEnds, Listening, threadVars,
        basisVars, childVars, stopVars
    <2> QED
      BY <1>17 DEF BrokerCrashes, BrokerEnds, Listening, threadVars, basisVars,
        childVars, stopVars
  <1>18. CASE BasisStops
    <2> UNCHANGED <<Queue, Distinct>>
      BY <1>18, SameQueue DEF BasisStops, threadVars, basisVars, childVars, stopVars
    <2> QED
      BY <1>18 DEF BasisStops, threadVars, basisVars, childVars, stopVars
  <1>19. CASE BasisCrashes
    BY <1>19 DEF BasisCrashes, threadVars, basisVars, childVars, stopVars
  <1>20. CASE AskStop
    <2> UNCHANGED <<Queue, Distinct>>
      BY <1>20, SameQueue DEF AskStop, threadVars, basisVars, childVars, stopVars
    <2> QED
      BY <1>20 DEF AskStop, threadVars, basisVars, childVars, stopVars
  <1>21. CASE KillRuntime
    BY <1>21 DEF KillRuntime, BasisEnds, Listening, threadVars, basisVars,
      childVars, stopVars
  <1>22. CASE Sweep
    <2> UNCHANGED <<Queue, Distinct>>
      BY <1>22, SameQueue DEF Sweep, AfterTerm, GroupAlive, threadVars, basisVars,
        childVars, stopVars
    <2> QED
      BY <1>22 DEF Sweep, AfterTerm, GroupAlive, threadVars, basisVars, childVars,
        stopVars
  <1>23. CASE UNCHANGED brokerVars
    BY <1>1, <1>23 DEF brokerVars, threadVars, basisVars, childVars, stopVars
  <1> QED
    BY <1>2, <1>3, <1>4, <1>5, <1>6, <1>7, <1>8, <1>9, <1>10, <1>11, <1>12, <1>13,
      <1>14, <1>15, <1>16, <1>17, <1>18, <1>19, <1>20, <1>21, <1>22, <1>23
    DEF BrokerNext, HandlerStep, ChildStep, ClosingStep

-----------------------------------------------------------------------------
(* Theorems.                                                               *)

\* What holds of a broker however slow ownership is: its threads, its spawns
\* and the answer "completed".
LEMMA LifeInvariance == BrokerSpec => []LifeInv
  <1>1. BrokerInit => LifeInv
    BY BrokerAssumption DEF BrokerInit, LifeInv, BrokerTypeOK, ThreadInv,
           SpawnInv, CompletedMeansGone, ControllerPc, HandlerPc, ChildState, Queue,
           Distinct
  <1>2. ASSUME LifeInv, [BrokerNext]_brokerVars PROVE LifeInv'
    BY <1>2, TypeStep, ThreadStep, SpawnStep, CompletedStep DEF LifeInv
  <1> QED BY <1>1, <1>2, PTL DEF BrokerSpec

\* A controller that read "completed" has no child, for all attempts and
\* sessions and with any crash of broker and basis (finish_attempt,
\* terminate_child).
THEOREM CompletedMeansGoneHolds ==
  BrokerSpec => []CompletedMeansGone
  BY LifeInvariance, PTL DEF LifeInv

\* When no acknowledged child misses the ownership deadline, the whole
\* invariant is kept.
LEMMA BrokerInvariance ==
  ASSUME SlowOwnership = FALSE PROVE BrokerSpec => []BInv
  <1>1. BrokerInit => BInv
    BY BrokerAssumption DEF BrokerInit, BInv, LifeInv, BrokerTypeOK, ThreadInv,
           SpawnInv, CompletedMeansGone, ControllerPc, HandlerPc, ChildState, Queue,
           Distinct,
           AckInv, RegistryInv, StopInv, OwnersRegistered, StoppedMeansQuiet, GroupAlive
  <1>2. ASSUME BInv, [BrokerNext]_brokerVars PROVE BInv'
    BY <1>2, TypeStep, ThreadStep, SpawnStep, CompletedStep, AckStep, RegistryStep,
       OwnersStep, StopStep DEF BInv, LifeInv
  <1> QED BY <1>1, <1>2, PTL DEF BrokerSpec

\* A child that leads a group is in the registry reaping and stopping work
\* from, for all attempts and sessions: no order of handlers, recoveries,
\* crashes and stops drops one.
THEOREM OwnersRegisteredHolds ==
  ASSUME SlowOwnership = FALSE PROVE BrokerSpec => []OwnersRegistered
  BY BrokerInvariance, PTL DEF BInv

\* A stop that says "verified_quiescent" has left no child, and none starts.
THEOREM StoppedMeansQuietHolds ==
  ASSUME SlowOwnership = FALSE PROVE BrokerSpec => []StoppedMeansQuiet
  BY BrokerInvariance, PTL DEF BInv

\* An idle broker that becomes active has ended every child that led a group:
\* those children were all registered, and it reaps the whole registry.
THEOREM IdleBrokerReapsHolds ==
  ASSUME SlowOwnership = FALSE PROVE BrokerSpec => IdleBrokerReaps
  <1>1. ASSUME BInv, [BrokerNext]_brokerVars, active = {}, active' # {},
               NEW b \in Attempts
        PROVE  ~GroupAlive(forked'[b])
    <2>1. PICK a \in Attempts : Activate(a) /\ ~Refused(a)
      <3>1. \A a \in Attempts : LetGo(a) => active' = {}
        BY <1>1 DEF LetGo
      <3> QED BY <1>1, <3>1
         DEF brokerVars, threadVars, BrokerNext, HandlerStep, ChildStep, ClosingStep,
             Request, Recover, RecoveryExpires, ControllerKilled, LockSession, SendPhrase,
             ReadTokens,
             SpawnTimesOut, BasisGone, Register, WriteAck, SeesOwnership,
             RegistrationFails, RemoveFiles, ChildDone, CancelOrDisconnect, Finish,
             Finally, TakeOwnership, ChildExits, Fork, StopRequested, CloseListeners,
             BrokerExits, BrokerEnds, TerminateChild, BrokerCrashes, BasisStops,
             BasisCrashes, AskStop, KillRuntime, Sweep, Refused, Activate
    <2>2. PICK done \in SUBSET registry, survivor \in registry \cup {NoAttempt} :
            Reaps(a, done, survivor)
      BY <1>1, <2>1 DEF Activate
    <2>3. done = registry
      BY <2>1, <2>2 DEF Reaps
    <2>4. forked'[b] = IF b \in registry THEN "ended" ELSE forked[b]
      BY <2>2, <2>3 DEF Reaps
    <2>5. GroupAlive(forked[b]) => b \in registry
      BY <1>1 DEF BInv, OwnersRegistered
    <2> QED BY <2>4, <2>5 DEF GroupAlive
  <1>2. ASSUME BInv, [BrokerNext]_brokerVars
        PROVE  [active = {} /\ active' # {} =>
                  \A a \in Attempts : ~GroupAlive(forked'[a])]_brokerVars
    BY <1>1, <1>2
  <1> QED BY <1>2, BrokerInvariance, PTL DEF BrokerSpec, IdleBrokerReaps

=============================================================================
