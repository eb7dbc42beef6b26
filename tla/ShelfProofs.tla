---------------------------- MODULE ShelfProofs ----------------------------
(***************************************************************************)
(* Theorems about ShelfAdmission for every number of slots, attempts and   *)
(* clients of the previous release, and about IdleRetirement for every     *)
(* number of routes.                                                       *)
(*                                                                         *)
(* On the shelf everything rests on who holds the admission files: a       *)
(* control point says which files its process must hold and which it may   *)
(* hold, and flock gives a file to one process.  In the schedule a record  *)
(* that says "retired" is never believed by a route that finishes, because *)
(* the monitor it names has exited.                                        *)
(***************************************************************************)
EXTENDS ShelfAdmission, IdleRetirement, FiniteSetTheorems, TLAPS

\* The files of a slot.
Group(k) == IF k = 1 THEN {0, 1} ELSE {k}

\* The files an attempt may hold, and those it holds for certain.
May(a) ==
  IF pc[a] \in {"gone", "counting", "probing", "leaving"} THEN {}
  ELSE IF pc[a] = "half" THEN {0}
  ELSE Group(slot[a])

Must(a) ==
  IF pc[a] = "half" THEN {0}
  ELSE IF pc[a] \in {"admitted", "owner", "restored", "leased", "closing"}
         THEN Group(slot[a])
  ELSE IF pc[a] = "unlocking" THEN {FirstFile(slot[a])}
  ELSE {}

AttemptLocks ==
  \A a \in Attempts :
    /\ \A f \in Files : lock[f] = a => f \in May(a)
    /\ \A f \in Must(a) : lock[f] = a
    /\ pc[a] = "half" => slot[a] = 1

OldLocks ==
  \A u \in OldClients :
    /\ pc[u] \in {"gone", "admitted", "leased"}
    /\ \A f \in Files : lock[f] = u <=> f = 0 /\ pc[u] # "gone"

MonitorLocks ==
  /\ mpc \in {"exclusive", "decided", "stopping"} => held = Capacity + 1
  /\ mpc \in {"off", "watching", "killed"} => held = 0
  /\ mpc # "killed" => \A f \in Files : lock[f] = Monitor <=> f < held

\* What the monitor saw when it decided stays so while it holds every file.
DecisionHolds ==
  mpc \in {"decided", "stopping"} => leased = {} /\ children = {}

\* A slot's record names an attempt from its writing to its clearing; a record
\* left behind names one that is on its way out.
RecordInv ==
  \A a \in Attempts :
    /\ pc[a] \in {"owner", "restored", "leased"} => owner[slot[a]] = a
    /\ \A k \in Slots :
         owner[k] = a /\ pc[a] \notin {"gone", "killed", "dropping", "leaving"}
           => k = slot[a] /\ pc[a] \in {"owner", "restored", "leased", "closing"}

SInv ==
  TypeOK /\ AttemptLocks /\ OldLocks /\ MonitorLocks /\ DecisionHolds /\ RecordInv

-----------------------------------------------------------------------------
(* What unlocking a group does.                                            *)

\* The files of a group are unlocked from the last one taken; the attempt goes on
\* when it holds none (_flock_group).
LEMMA UnlockEffect ==
  ASSUME TypeOK, AttemptLocks, NEW a \in Attempts, Unlock(a)
  PROVE  \E f \in Files :
           /\ lock[f] = a /\ lock' = [lock EXCEPT ![f] = None]
           /\ \/ /\ pc' = [pc EXCEPT ![a] = "leaving"]
                 /\ \A g \in Files : lock[g] = a => g = f
              \/ pc' = [pc EXCEPT ![a] = "unlocking"] /\ f # FirstFile(slot[a])
  <1> USE ShelfAssumption DEF TypeOK, AttemptLocks, May, Must, Group, FirstFile, Files,
            Slots
  <1>1. PICK f \in Highest(a) : Drop(f)
    BY DEF Unlock
  <1>2. f \in Files /\ f \in Held(a) /\ \A g \in Held(a) : g <= f
    BY <1>1 DEF Highest, Held
  <1>3. FirstFile(slot[a]) \in Held(a) /\ Held(a) \subseteq Group(slot[a])
    BY DEF Unlock, Held
  <1>4. CASE Cardinality(Held(a)) = 1
    <2>1. PICK x : Held(a) = {x}
      <3>1. IsFiniteSet(Held(a))
        <4>1. IsFiniteSet({0}) /\ IsFiniteSet({slot[a]})
          BY FS_Singleton
        <4>2. IsFiniteSet({0} \cup {1})
          BY <4>1, FS_AddElement
        <4>3. Held(a) \subseteq {0} \cup {1} \/ Held(a) \subseteq {slot[a]}
          BY <1>3
        <4> QED BY <4>1, <4>2, <4>3, FS_Subset
      <3> QED BY <3>1, <1>4, FS_Singleton
    <2>2. \A g \in Files : lock[g] = a => g = f
      BY <1>2, <2>1 DEF Held
    <2>3. lock[f] = a /\ lock' = [lock EXCEPT ![f] = None]
      BY <1>1, <1>2 DEF Drop, Held
    <2>4. pc' = [pc EXCEPT ![a] = "leaving"]
      BY <1>4 DEF Unlock, Goto
    <2> QED BY <1>2, <2>2, <2>3, <2>4
  <1>5. CASE Cardinality(Held(a)) # 1
    <2>1. Held(a) # {f}
      BY <1>5, FS_Singleton
    <2>2. f # FirstFile(slot[a])
      BY <1>2, <1>3, <2>1
    <2> QED BY <1>1, <1>2, <1>5, <2>2 DEF Unlock, Goto, Drop, Held
  <1> QED BY <1>4, <1>5

\* The next slot of the round (criu_shelf_admission).
LEMMA NextSlotType ==
  ASSUME TypeOK, NEW a \in Attempts, NextSlot(a)
  PROVE  slot' \in [Attempts -> Slots]
  <1>1. \A k \in Slots : (k % Capacity) + 1 \in Slots
    BY ShelfAssumption DEF Slots
  <1> QED BY <1>1 DEF TypeOK, NextSlot

\* Slot 1's second file is taken, or its first one is given back.
SecondTaken(a) ==
  /\ lock[1] = None /\ lock' = [lock EXCEPT ![1] = a]
  /\ pc' = [pc EXCEPT ![a] = "admitted"] /\ slot' = slot

FirstReturned(a) ==
  /\ lock' = [lock EXCEPT ![0] = None]
  /\ pc' = [pc EXCEPT ![a] = "probing"]
  /\ slot' \in [Attempts -> Slots] /\ \A b \in Attempts \ {a} : slot'[b] = slot[b]

LEMMA SecondFile ==
  ASSUME TypeOK, AttemptLocks, NEW a \in Attempts, TrySecondFile(a)
  PROVE  /\ SecondTaken(a) \/ FirstReturned(a)
         /\ pc[a] = "half" /\ slot[a] = 1 /\ lock[0] = a /\ {0, 1} \subseteq Files
         /\ UNCHANGED <<recordVars, poolVars, monitorVars>>
  <1>1. /\ pc[a] = "half" /\ slot[a] = 1 /\ lock[0] = a /\ {0, 1} \subseteq Files
        /\ UNCHANGED <<recordVars, poolVars, monitorVars>>
    BY ShelfAssumption DEF TrySecondFile, AttemptLocks, Must, Files
  <1>2. CASE lock[1] = None
    <2>1. lock[1] = None /\ Take(1, a) /\ Goto(a, "admitted") /\ slot' = slot
      BY <1>2 DEF TrySecondFile
    <2> QED BY <2>1, <1>1 DEF SecondTaken, Take, Goto
  <1>3. CASE lock[1] # None
    <2>1. NextSlot(a) /\ Drop(0) /\ Goto(a, "probing")
      BY <1>3 DEF TrySecondFile
    <2> QED BY <2>1, <1>1, NextSlotType DEF FirstReturned, NextSlot, Drop, Goto, TypeOK
  <1> QED BY <1>1, <1>2, <1>3

-----------------------------------------------------------------------------
(* Every step keeps every part.                                            *)

\* Every step keeps the variables in their types.
LEMMA TypeStep ==
  ASSUME TypeOK, AttemptLocks, [Next]_vars
  PROVE  TypeOK'
  <1> USE ShelfAssumption DEF TypeOK, Procs, Users, Slots, Files, UserPc, MonitorPc
  <1>1. ASSUME UNCHANGED <<lock, demand, owner, pc, slot, live, leased, children,
          mpc, held, idle>> PROVE TypeOK'
    BY <1>1
  <1>2. ASSUME NEW a \in Attempts, Begin(a) PROVE TypeOK'
    BY <1>2 DEF Begin, Goto, recordVars, poolVars, monitorVars
  <1>3. ASSUME NEW a \in Attempts, CountDemands(a) PROVE TypeOK'
    BY <1>3 DEF CountDemands, Goto, recordVars, poolVars, monitorVars
  <1>4. ASSUME NEW a \in Attempts, ExpanderFails(a) PROVE TypeOK'
    BY <1>4 DEF ExpanderFails, Goto, recordVars, poolVars, monitorVars
  <1>5. ASSUME NEW a \in Attempts, TrySlot(a) PROVE TypeOK'
    <2>1. slot' \in [Attempts -> Slots]
      BY <1>5, NextSlotType DEF TrySlot
    <2>2. FirstFile(slot[a]) \in Files
      BY DEF FirstFile
    <2>3. pc' \in [Users -> UserPc] /\ lock' \in [Files -> Procs \cup {None}]
      <3>1. CASE lock[FirstFile(slot[a])] = None
        <4>1. PICK st \in {"half", "admitted"} : Goto(a, st)
          BY <1>5, <3>1 DEF TrySlot
        <4>2. Take(FirstFile(slot[a]), a)
          BY <1>5, <3>1 DEF TrySlot
        <4> QED BY <2>2, <4>1, <4>2 DEF Take, Goto
      <3>2. CASE lock[FirstFile(slot[a])] # None
        BY <1>5, <3>2 DEF TrySlot
      <3> QED BY <3>1, <3>2
    <2> QED BY <1>5, <2>1, <2>3 DEF TrySlot, recordVars, poolVars, monitorVars
  <1>6. ASSUME NEW a \in Attempts, TrySecondFile(a) PROVE TypeOK'
    <2>1. /\ SecondTaken(a) \/ FirstReturned(a)
          /\ pc[a] = "half" /\ slot[a] = 1 /\ lock[0] = a /\ {0, 1} \subseteq Files
          /\ UNCHANGED <<recordVars, poolVars, monitorVars>>
      BY <1>6, SecondFile
    <2>2. CASE SecondTaken(a)
      BY <2>1, <2>2 DEF SecondTaken, recordVars, poolVars, monitorVars
    <2>3. CASE FirstReturned(a)
      BY <2>1, <2>3 DEF FirstReturned, recordVars, poolVars, monitorVars
    <2> QED BY <2>1, <2>2, <2>3
  <1>7. ASSUME NEW a \in Attempts, WriteOwner(a) PROVE TypeOK'
    BY <1>7 DEF WriteOwner, Goto, recordVars, poolVars, monitorVars
  <1>8. ASSUME NEW a \in Attempts, Restore(a) PROVE TypeOK'
    BY <1>8 DEF Restore, Goto, recordVars, poolVars, monitorVars
  <1>9. ASSUME NEW a \in Attempts, Lease(a) PROVE TypeOK'
    BY <1>9 DEF Lease, Goto, recordVars, poolVars, monitorVars
  <1>10. ASSUME NEW a \in Attempts, LeaseRefused(a) PROVE TypeOK'
    BY <1>10 DEF LeaseRefused, Goto, recordVars, poolVars, monitorVars
  <1>11. ASSUME NEW a \in Attempts, Release(a) PROVE TypeOK'
    BY <1>11 DEF Release, Goto, recordVars, poolVars, monitorVars
  <1>12. ASSUME NEW a \in Attempts, GiveUp(a) PROVE TypeOK'
    BY <1>12 DEF GiveUp, Goto, recordVars, poolVars, monitorVars
  <1>13. ASSUME NEW a \in Attempts, Dequeue(a) PROVE TypeOK'
    BY <1>13 DEF Dequeue, Goto, recordVars, poolVars, monitorVars
  <1>14. ASSUME NEW a \in Attempts, ClearOwner(a) PROVE TypeOK'
    BY <1>14 DEF ClearOwner, Goto, recordVars, poolVars, monitorVars
  <1>15. ASSUME NEW a \in Attempts, InterruptClosing(a) PROVE TypeOK'
    BY <1>15 DEF InterruptClosing, Goto, recordVars, poolVars, monitorVars
  <1>16. ASSUME NEW a \in Attempts, Unlock(a) PROVE TypeOK'
    BY <1>16 DEF Unlock, Drop, Goto, Highest, Held, recordVars, poolVars,
      monitorVars
  <1>17. ASSUME NEW a \in Attempts, CloseFile(a) PROVE TypeOK'
    BY <1>17 DEF CloseFile, Drop, Goto, Lowest, Held, recordVars, poolVars,
      monitorVars
  <1>18. ASSUME NEW a \in Attempts, Leave(a) PROVE TypeOK'
    BY <1>18 DEF Leave, Goto, recordVars, poolVars, monitorVars
  <1>19. ASSUME NEW a \in Attempts, Kill(a) PROVE TypeOK'
    BY <1>19 DEF Kill, Goto, recordVars, poolVars, monitorVars
  <1>20. ASSUME NEW u \in Users, ChildEnds(u) PROVE TypeOK'
    BY <1>20 DEF ChildEnds, recordVars, poolVars, monitorVars
  <1>21. ASSUME NEW u \in OldClients, OldEnters(u) PROVE TypeOK'
    BY <1>21 DEF OldEnters, Take, Goto, recordVars, poolVars, monitorVars
  <1>22. ASSUME NEW u \in OldClients, OldWorks(u) PROVE TypeOK'
    BY <1>22 DEF OldWorks, Goto, recordVars, poolVars, monitorVars
  <1>23. ASSUME NEW u \in OldClients, OldLeaves(u) PROVE TypeOK'
    BY <1>23 DEF OldLeaves, Drop, Goto, recordVars, poolVars, monitorVars
  <1>24. CASE Look
    BY <1>24 DEF Look, recordVars, poolVars, monitorVars
  <1>25. CASE LockNext
    BY <1>25 DEF LockNext, Take, recordVars, poolVars, monitorVars
  <1>26. CASE LockBusy
    BY <1>26 DEF LockBusy, Unwind, recordVars, poolVars, monitorVars
  <1>27. CASE Recheck
    BY <1>27 DEF Recheck, Quiescent, recordVars, poolVars, monitorVars
  <1>28. CASE RecheckFails
    BY <1>28 DEF RecheckFails, Unwind, recordVars, poolVars, monitorVars
  <1>29. CASE BeginStop
    BY <1>29 DEF BeginStop, recordVars, poolVars, monitorVars
  <1>30. CASE NothingToStop
    BY <1>30 DEF NothingToStop, Unwind, recordVars, poolVars, monitorVars
  <1>31. CASE EndStop
    BY <1>31 DEF EndStop, Unwind, recordVars, poolVars, monitorVars
  <1>32. CASE UnlockLast
    BY <1>32 DEF UnlockLast, Drop, recordVars, poolVars, monitorVars
  <1>33. CASE MonitorKilled
    BY <1>33 DEF MonitorKilled, recordVars, poolVars, monitorVars
  <1>34. CASE IdleEnds
    BY <1>34 DEF IdleEnds, recordVars, poolVars, monitorVars
  <1>35. CASE RuntimeDies
    BY <1>35 DEF RuntimeDies, recordVars, poolVars, monitorVars
  <1>36. CASE MonitorCloses
    BY <1>36 DEF MonitorCloses, Drop, Lowest, Held, recordVars, poolVars,
      monitorVars
  <1>37. CASE UNCHANGED vars
    BY <1>1, <1>37 DEF vars, recordVars, poolVars, monitorVars
  <1> QED
    BY <1>2, <1>3, <1>4, <1>5, <1>6, <1>7, <1>8, <1>9, <1>10, <1>11, <1>12, <1>13,
      <1>14, <1>15, <1>16, <1>17, <1>18, <1>19, <1>20, <1>21, <1>22, <1>23, <1>24,
      <1>25, <1>26, <1>27, <1>28, <1>29, <1>30, <1>31, <1>32, <1>33, <1>34, <1>35,
      <1>36, <1>37
    DEF Next, AttemptStep, AttemptEvent, OldStep, MonitorStep

\* An attempt takes a slot's files in order, and whoever else takes or drops a file
\* takes a free one or drops its own.
LEMMA AttemptLocksStep ==
  ASSUME TypeOK, AttemptLocks, OldLocks, MonitorLocks, [Next]_vars
  PROVE  AttemptLocks'
  <1> USE ShelfAssumption DEF TypeOK, Procs, Users, Slots, Files, UserPc, MonitorPc,
    AttemptLocks, OldLocks, MonitorLocks, May, Must, Group, FirstFile
  <1>1. ASSUME UNCHANGED <<lock, pc, slot>> PROVE AttemptLocks'
    BY <1>1
  <1>2. CASE Look \/ LockBusy \/ Recheck \/ RecheckFails \/ BeginStop \/
            NothingToStop \/ EndStop \/ MonitorKilled \/ IdleEnds \/ RuntimeDies
    BY <1>1, <1>2 DEF Look, LockBusy, Recheck, RecheckFails, BeginStop,
      NothingToStop, EndStop, MonitorKilled, IdleEnds, RuntimeDies, Unwind,
      recordVars, poolVars, monitorVars
  <1>3. ASSUME NEW u \in Users,
               ChildEnds(u)
        PROVE AttemptLocks'
    BY <1>1, <1>3 DEF ChildEnds, recordVars, poolVars, monitorVars
  <1>4. ASSUME NEW a \in Attempts, Begin(a) PROVE AttemptLocks'
    BY <1>4 DEF Begin, Goto, recordVars, poolVars, monitorVars
  <1>5. ASSUME NEW a \in Attempts, CountDemands(a) PROVE AttemptLocks'
    BY <1>5 DEF CountDemands, Goto, recordVars, poolVars, monitorVars
  <1>6. ASSUME NEW a \in Attempts, ExpanderFails(a) PROVE AttemptLocks'
    BY <1>6 DEF ExpanderFails, Goto, recordVars, poolVars, monitorVars
  <1>7. ASSUME NEW a \in Attempts, TrySlot(a) PROVE AttemptLocks'
    BY <1>7 DEF TrySlot, Take, NextSlot, Goto, recordVars, poolVars, monitorVars
  <1>8. ASSUME NEW a \in Attempts, TrySecondFile(a) PROVE AttemptLocks'
    <2>1. /\ SecondTaken(a) \/ FirstReturned(a)
          /\ pc[a] = "half" /\ slot[a] = 1 /\ lock[0] = a /\ {0, 1} \subseteq Files
          /\ UNCHANGED <<recordVars, poolVars, monitorVars>>
      BY <1>8, SecondFile
    <2>2. CASE SecondTaken(a)
      BY <2>1, <2>2 DEF SecondTaken, recordVars, poolVars, monitorVars
    <2>3. CASE FirstReturned(a)
      BY <2>1, <2>3 DEF FirstReturned, recordVars, poolVars, monitorVars
    <2> QED BY <2>1, <2>2, <2>3
  <1>9. ASSUME NEW a \in Attempts, WriteOwner(a) PROVE AttemptLocks'
    BY <1>9 DEF WriteOwner, Goto, recordVars, poolVars, monitorVars
  <1>10. ASSUME NEW a \in Attempts, Restore(a) PROVE AttemptLocks'
    BY <1>10 DEF Restore, Goto, recordVars, poolVars, monitorVars
  <1>11. ASSUME NEW a \in Attempts, Lease(a) PROVE AttemptLocks'
    BY <1>11 DEF Lease, Goto, recordVars, poolVars, monitorVars
  <1>12. ASSUME NEW a \in Attempts, LeaseRefused(a) PROVE AttemptLocks'
    BY <1>12 DEF LeaseRefused, Goto, recordVars, poolVars, monitorVars
  <1>13. ASSUME NEW a \in Attempts, Release(a) PROVE AttemptLocks'
    BY <1>13 DEF Release, Goto, recordVars, poolVars, monitorVars
  <1>14. ASSUME NEW a \in Attempts, GiveUp(a) PROVE AttemptLocks'
    BY <1>14 DEF GiveUp, Goto, recordVars, poolVars, monitorVars
  <1>15. ASSUME NEW a \in Attempts, Dequeue(a) PROVE AttemptLocks'
    BY <1>15 DEF Dequeue, Goto, recordVars, poolVars, monitorVars
  <1>16. ASSUME NEW a \in Attempts, ClearOwner(a) PROVE AttemptLocks'
    BY <1>16 DEF ClearOwner, Goto, recordVars, poolVars, monitorVars
  <1>17. ASSUME NEW a \in Attempts, InterruptClosing(a) PROVE AttemptLocks'
    BY <1>17 DEF InterruptClosing, Goto, recordVars, poolVars, monitorVars
  <1>18. ASSUME NEW a \in Attempts, Unlock(a) PROVE AttemptLocks'
    <2>1. PICK f \in Files :
            /\ lock[f] = a /\ lock' = [lock EXCEPT ![f] = None]
            /\ \/ /\ pc' = [pc EXCEPT ![a] = "leaving"]
                  /\ \A g \in Files : lock[g] = a => g = f
               \/ pc' = [pc EXCEPT ![a] = "unlocking"] /\ f # FirstFile(slot[a])
      BY <1>18, UnlockEffect
    <2>2. UNCHANGED slot /\ pc[a] = "unlocking"
      BY <1>18 DEF Unlock
    <2> QED BY <2>1, <2>2
  <1>19. ASSUME NEW a \in Attempts, CloseFile(a) PROVE AttemptLocks'
    BY <1>19 DEF CloseFile, Drop, Goto, Lowest, Held, recordVars, poolVars,
      monitorVars
  <1>20. ASSUME NEW a \in Attempts, Leave(a) PROVE AttemptLocks'
    BY <1>20 DEF Leave, Goto, recordVars, poolVars, monitorVars
  <1>21. ASSUME NEW a \in Attempts, Kill(a) PROVE AttemptLocks'
    BY <1>21 DEF Kill, Goto, recordVars, poolVars, monitorVars
  <1>22. ASSUME NEW u \in OldClients, OldEnters(u) PROVE AttemptLocks'
    BY <1>22 DEF OldEnters, Take, Goto, recordVars, poolVars, monitorVars
  <1>23. ASSUME NEW u \in OldClients, OldWorks(u) PROVE AttemptLocks'
    BY <1>23 DEF OldWorks, Goto, recordVars, poolVars, monitorVars
  <1>24. ASSUME NEW u \in OldClients, OldLeaves(u) PROVE AttemptLocks'
    BY <1>24 DEF OldLeaves, Drop, Goto, recordVars, poolVars, monitorVars
  <1>25. CASE LockNext
    BY <1>25 DEF LockNext, Take, recordVars, poolVars, monitorVars
  <1>26. CASE UnlockLast
    BY <1>26 DEF UnlockLast, Drop, recordVars, poolVars, monitorVars
  <1>27. CASE MonitorCloses
    BY <1>27 DEF MonitorCloses, Drop, Lowest, Held, recordVars, poolVars,
      monitorVars
  <1>28. CASE UNCHANGED vars
    BY <1>1, <1>28 DEF vars, recordVars, poolVars, monitorVars
  <1> QED
    BY <1>2, <1>3, <1>4, <1>5, <1>6, <1>7, <1>8, <1>9, <1>10, <1>11, <1>12, <1>13,
      <1>14, <1>15, <1>16, <1>17, <1>18, <1>19, <1>20, <1>21, <1>22, <1>23, <1>24,
      <1>25, <1>26, <1>27, <1>28
    DEF Next, AttemptStep, AttemptEvent, OldStep, MonitorStep

\* A client of the previous release holds admission.lock while it works.
LEMMA OldLocksStep ==
  ASSUME TypeOK, AttemptLocks, OldLocks, MonitorLocks, [Next]_vars
  PROVE  OldLocks'
  <1> USE ShelfAssumption DEF TypeOK, Procs, Users, Slots, Files, UserPc, MonitorPc,
    OldLocks, MonitorLocks, FirstFile
  <1>1. ASSUME UNCHANGED <<lock, pc>> PROVE OldLocks'
    BY <1>1
  <1>2. CASE Look \/ LockBusy \/ Recheck \/ RecheckFails \/ BeginStop \/
            NothingToStop \/ EndStop \/ MonitorKilled \/ IdleEnds \/ RuntimeDies
    BY <1>1, <1>2 DEF Look, LockBusy, Recheck, RecheckFails, BeginStop,
      NothingToStop, EndStop, MonitorKilled, IdleEnds, RuntimeDies, Unwind,
      recordVars, poolVars, monitorVars
  <1>3. ASSUME NEW u \in Users,
               ChildEnds(u)
        PROVE OldLocks'
    BY <1>1, <1>3 DEF ChildEnds, recordVars, poolVars, monitorVars
  <1>4. ASSUME NEW a \in Attempts, Begin(a) PROVE OldLocks'
    BY <1>4 DEF Begin, Goto, recordVars, poolVars, monitorVars
  <1>5. ASSUME NEW a \in Attempts, CountDemands(a) PROVE OldLocks'
    BY <1>5 DEF CountDemands, Goto, recordVars, poolVars, monitorVars
  <1>6. ASSUME NEW a \in Attempts, ExpanderFails(a) PROVE OldLocks'
    BY <1>6 DEF ExpanderFails, Goto, recordVars, poolVars, monitorVars
  <1>7. ASSUME NEW a \in Attempts, TrySlot(a) PROVE OldLocks'
    BY <1>7 DEF TrySlot, Take, NextSlot, Goto, recordVars, poolVars, monitorVars
  <1>8. ASSUME NEW a \in Attempts, TrySecondFile(a) PROVE OldLocks'
    <2>1. /\ SecondTaken(a) \/ FirstReturned(a)
          /\ pc[a] = "half" /\ slot[a] = 1 /\ lock[0] = a /\ {0, 1} \subseteq Files
          /\ UNCHANGED <<recordVars, poolVars, monitorVars>>
      BY <1>8, SecondFile
    <2>2. CASE SecondTaken(a)
      BY <2>1, <2>2 DEF SecondTaken, recordVars, poolVars, monitorVars
    <2>3. CASE FirstReturned(a)
      BY <2>1, <2>3 DEF FirstReturned, recordVars, poolVars, monitorVars
    <2> QED BY <2>1, <2>2, <2>3
  <1>9. ASSUME NEW a \in Attempts, WriteOwner(a) PROVE OldLocks'
    BY <1>9 DEF WriteOwner, Goto, recordVars, poolVars, monitorVars
  <1>10. ASSUME NEW a \in Attempts, Restore(a) PROVE OldLocks'
    BY <1>10 DEF Restore, Goto, recordVars, poolVars, monitorVars
  <1>11. ASSUME NEW a \in Attempts, Lease(a) PROVE OldLocks'
    BY <1>11 DEF Lease, Goto, recordVars, poolVars, monitorVars
  <1>12. ASSUME NEW a \in Attempts, LeaseRefused(a) PROVE OldLocks'
    BY <1>12 DEF LeaseRefused, Goto, recordVars, poolVars, monitorVars
  <1>13. ASSUME NEW a \in Attempts, Release(a) PROVE OldLocks'
    BY <1>13 DEF Release, Goto, recordVars, poolVars, monitorVars
  <1>14. ASSUME NEW a \in Attempts, GiveUp(a) PROVE OldLocks'
    BY <1>14 DEF GiveUp, Goto, recordVars, poolVars, monitorVars
  <1>15. ASSUME NEW a \in Attempts, Dequeue(a) PROVE OldLocks'
    BY <1>15 DEF Dequeue, Goto, recordVars, poolVars, monitorVars
  <1>16. ASSUME NEW a \in Attempts, ClearOwner(a) PROVE OldLocks'
    BY <1>16 DEF ClearOwner, Goto, recordVars, poolVars, monitorVars
  <1>17. ASSUME NEW a \in Attempts, InterruptClosing(a) PROVE OldLocks'
    BY <1>17 DEF InterruptClosing, Goto, recordVars, poolVars, monitorVars
  <1>18. ASSUME NEW a \in Attempts, Unlock(a) PROVE OldLocks'
    BY <1>18 DEF Unlock, Drop, Goto, Highest, Held, recordVars, poolVars,
      monitorVars
  <1>19. ASSUME NEW a \in Attempts, CloseFile(a) PROVE OldLocks'
    BY <1>19 DEF CloseFile, Drop, Goto, Lowest, Held, recordVars, poolVars,
      monitorVars
  <1>20. ASSUME NEW a \in Attempts, Leave(a) PROVE OldLocks'
    BY <1>20 DEF Leave, Goto, recordVars, poolVars, monitorVars
  <1>21. ASSUME NEW a \in Attempts, Kill(a) PROVE OldLocks'
    BY <1>21 DEF Kill, Goto, recordVars, poolVars, monitorVars
  <1>22. ASSUME NEW u \in OldClients, OldEnters(u) PROVE OldLocks'
    BY <1>22 DEF OldEnters, Take, Goto, recordVars, poolVars, monitorVars
  <1>23. ASSUME NEW u \in OldClients, OldWorks(u) PROVE OldLocks'
    BY <1>23 DEF OldWorks, Goto, recordVars, poolVars, monitorVars
  <1>24. ASSUME NEW u \in OldClients, OldLeaves(u) PROVE OldLocks'
    BY <1>24 DEF OldLeaves, Drop, Goto, recordVars, poolVars, monitorVars
  <1>25. CASE LockNext
    BY <1>25 DEF LockNext, Take, recordVars, poolVars, monitorVars
  <1>26. CASE UnlockLast
    BY <1>26 DEF UnlockLast, Drop, recordVars, poolVars, monitorVars
  <1>27. CASE MonitorCloses
    BY <1>27 DEF MonitorCloses, Drop, Lowest, Held, recordVars, poolVars,
      monitorVars
  <1>28. CASE UNCHANGED vars
    BY <1>1, <1>28 DEF vars, recordVars, poolVars, monitorVars
  <1> QED
    BY <1>2, <1>3, <1>4, <1>5, <1>6, <1>7, <1>8, <1>9, <1>10, <1>11, <1>12, <1>13,
      <1>14, <1>15, <1>16, <1>17, <1>18, <1>19, <1>20, <1>21, <1>22, <1>23, <1>24,
      <1>25, <1>26, <1>27, <1>28
    DEF Next, AttemptStep, AttemptEvent, OldStep, MonitorStep

\* The monitor holds the files below the number it has reached.
LEMMA MonitorLocksStep ==
  ASSUME TypeOK, AttemptLocks, OldLocks, MonitorLocks, [Next]_vars
  PROVE  MonitorLocks'
  <1> USE ShelfAssumption DEF TypeOK, Procs, Users, Slots, Files, UserPc, MonitorPc,
    OldLocks, MonitorLocks, FirstFile
  <1>1. ASSUME UNCHANGED <<lock, mpc, held>> PROVE MonitorLocks'
    BY <1>1
  <1>2. CASE IdleEnds \/ RuntimeDies
    BY <1>1, <1>2 DEF IdleEnds, RuntimeDies, recordVars, poolVars, monitorVars
  <1>3. ASSUME NEW a \in Attempts,
               Begin(a) \/ CountDemands(a) \/ ExpanderFails(a) \/ WriteOwner(a) \/
                 Restore(a) \/ Lease(a) \/ LeaseRefused(a) \/ Release(a) \/
                 GiveUp(a) \/ Dequeue(a) \/ ClearOwner(a) \/ InterruptClosing(a) \/
                 Kill(a)
        PROVE MonitorLocks'
    BY <1>1, <1>3 DEF Begin, CountDemands, ExpanderFails, WriteOwner, Restore,
      Lease, LeaseRefused, Release, GiveUp, Dequeue, ClearOwner, InterruptClosing,
      Kill, Goto, recordVars, poolVars, monitorVars
  <1>4. ASSUME NEW u \in OldClients,
               OldWorks(u)
        PROVE MonitorLocks'
    BY <1>1, <1>4 DEF OldWorks, Goto, recordVars, poolVars, monitorVars
  <1>5. ASSUME NEW u \in Users,
               ChildEnds(u)
        PROVE MonitorLocks'
    BY <1>1, <1>5 DEF ChildEnds, recordVars, poolVars, monitorVars
  <1>6. ASSUME NEW a \in Attempts, TrySlot(a) PROVE MonitorLocks'
    BY <1>6 DEF TrySlot, Take, NextSlot, Goto, recordVars, poolVars, monitorVars
  <1>7. ASSUME NEW a \in Attempts, TrySecondFile(a) PROVE MonitorLocks'
    <2>1. /\ SecondTaken(a) \/ FirstReturned(a)
          /\ pc[a] = "half" /\ slot[a] = 1 /\ lock[0] = a /\ {0, 1} \subseteq Files
          /\ UNCHANGED <<recordVars, poolVars, monitorVars>>
      BY <1>7, SecondFile
    <2>2. CASE SecondTaken(a)
      BY <2>1, <2>2 DEF SecondTaken, recordVars, poolVars, monitorVars
    <2>3. CASE FirstReturned(a)
      BY <2>1, <2>3 DEF FirstReturned, recordVars, poolVars, monitorVars
    <2> QED BY <2>1, <2>2, <2>3
  <1>8. ASSUME NEW a \in Attempts, Unlock(a) PROVE MonitorLocks'
    BY <1>8 DEF Unlock, Drop, Goto, Highest, Held, recordVars, poolVars, monitorVars
  <1>9. ASSUME NEW a \in Attempts, CloseFile(a) PROVE MonitorLocks'
    BY <1>9 DEF CloseFile, Drop, Goto, Lowest, Held, recordVars, poolVars,
      monitorVars
  <1>10. ASSUME NEW a \in Attempts, Leave(a) PROVE MonitorLocks'
    BY <1>10 DEF Leave, Goto, recordVars, poolVars, monitorVars
  <1>11. ASSUME NEW u \in OldClients, OldEnters(u) PROVE MonitorLocks'
    BY <1>11 DEF OldEnters, Take, Goto, recordVars, poolVars, monitorVars
  <1>12. ASSUME NEW u \in OldClients, OldLeaves(u) PROVE MonitorLocks'
    BY <1>12 DEF OldLeaves, Drop, Goto, recordVars, poolVars, monitorVars
  <1>13. CASE Look
    BY <1>13 DEF Look, recordVars, poolVars, monitorVars
  <1>14. CASE LockNext
    BY <1>14 DEF LockNext, Take, recordVars, poolVars, monitorVars
  <1>15. CASE LockBusy
    BY <1>15 DEF LockBusy, Unwind, recordVars, poolVars, monitorVars
  <1>16. CASE Recheck
    BY <1>16 DEF Recheck, Quiescent, recordVars, poolVars, monitorVars
  <1>17. CASE RecheckFails
    BY <1>17 DEF RecheckFails, Unwind, recordVars, poolVars, monitorVars
  <1>18. CASE BeginStop
    BY <1>18 DEF BeginStop, recordVars, poolVars, monitorVars
  <1>19. CASE NothingToStop
    BY <1>19 DEF NothingToStop, Unwind, recordVars, poolVars, monitorVars
  <1>20. CASE EndStop
    BY <1>20 DEF EndStop, Unwind, recordVars, poolVars, monitorVars
  <1>21. CASE UnlockLast
    BY <1>21 DEF UnlockLast, Drop, recordVars, poolVars, monitorVars
  <1>22. CASE MonitorKilled
    BY <1>22 DEF MonitorKilled, recordVars, poolVars, monitorVars
  <1>23. CASE MonitorCloses
    BY <1>23 DEF MonitorCloses, Drop, Lowest, Held, recordVars, poolVars,
      monitorVars
  <1>24. CASE UNCHANGED vars
    BY <1>1, <1>24 DEF vars, recordVars, poolVars, monitorVars
  <1> QED
    BY <1>2, <1>3, <1>4, <1>5, <1>6, <1>7, <1>8, <1>9, <1>10, <1>11, <1>12, <1>13,
      <1>14, <1>15, <1>16, <1>17, <1>18, <1>19, <1>20, <1>21, <1>22, <1>23, <1>24
    DEF Next, AttemptStep, AttemptEvent, OldStep, MonitorStep

\* No seat is leased and no child starts while the monitor holds every file.
LEMMA DecisionStep ==
  ASSUME TypeOK, AttemptLocks, OldLocks, MonitorLocks, DecisionHolds, [Next]_vars
  PROVE  DecisionHolds'
  <1> USE ShelfAssumption DEF TypeOK, Procs, Users, Slots, Files, UserPc, MonitorPc,
    AttemptLocks, OldLocks, MonitorLocks, DecisionHolds, Must, Group
  <1>1. ASSUME UNCHANGED <<mpc, leased, children>> PROVE DecisionHolds'
    BY <1>1
  <1>2. CASE IdleEnds \/ RuntimeDies
    BY <1>1, <1>2 DEF IdleEnds, RuntimeDies, recordVars, poolVars, monitorVars
  <1>3. ASSUME NEW a \in Attempts,
               Begin(a) \/ CountDemands(a) \/ ExpanderFails(a) \/ TrySlot(a) \/
                 TrySecondFile(a) \/ WriteOwner(a) \/ Restore(a) \/ LeaseRefused(a)
                 \/ GiveUp(a) \/ Dequeue(a) \/ ClearOwner(a) \/ InterruptClosing(a)
                 \/ Unlock(a) \/ CloseFile(a) \/ Kill(a)
        PROVE DecisionHolds'
    BY <1>1, <1>3 DEF Begin, CountDemands, ExpanderFails, TrySlot, TrySecondFile,
      WriteOwner, Restore, LeaseRefused, GiveUp, Dequeue, ClearOwner,
      InterruptClosing, Unlock, CloseFile, Kill, Goto, Take, Drop, NextSlot,
      Highest, Lowest, Held, recordVars, poolVars, monitorVars
  <1>4. ASSUME NEW u \in OldClients,
               OldEnters(u)
        PROVE DecisionHolds'
    BY <1>1, <1>4 DEF OldEnters, Goto, Take, recordVars, poolVars, monitorVars
  <1>5. ASSUME NEW a \in Attempts, Lease(a) PROVE DecisionHolds'
    BY <1>5 DEF Lease, Goto, recordVars, poolVars, monitorVars
  <1>6. ASSUME NEW a \in Attempts, Release(a) PROVE DecisionHolds'
    BY <1>6 DEF Release, Goto, recordVars, poolVars, monitorVars
  <1>7. ASSUME NEW a \in Attempts, Leave(a) PROVE DecisionHolds'
    BY <1>7 DEF Leave, Goto, recordVars, poolVars, monitorVars
  <1>8. ASSUME NEW u \in Users, ChildEnds(u) PROVE DecisionHolds'
    BY <1>8 DEF ChildEnds, recordVars, poolVars, monitorVars
  <1>9. ASSUME NEW u \in OldClients, OldWorks(u) PROVE DecisionHolds'
    BY <1>9 DEF OldWorks, Goto, recordVars, poolVars, monitorVars
  <1>10. ASSUME NEW u \in OldClients, OldLeaves(u) PROVE DecisionHolds'
    BY <1>10 DEF OldLeaves, Drop, Goto, recordVars, poolVars, monitorVars
  <1>11. CASE Look
    BY <1>11 DEF Look, recordVars, poolVars, monitorVars
  <1>12. CASE LockNext
    BY <1>12 DEF LockNext, Take, recordVars, poolVars, monitorVars
  <1>13. CASE LockBusy
    BY <1>13 DEF LockBusy, Unwind, recordVars, poolVars, monitorVars
  <1>14. CASE Recheck
    BY <1>14 DEF Recheck, Quiescent, recordVars, poolVars, monitorVars
  <1>15. CASE RecheckFails
    BY <1>15 DEF RecheckFails, Unwind, recordVars, poolVars, monitorVars
  <1>16. CASE BeginStop
    BY <1>16 DEF BeginStop, recordVars, poolVars, monitorVars
  <1>17. CASE NothingToStop
    BY <1>17 DEF NothingToStop, Unwind, recordVars, poolVars, monitorVars
  <1>18. CASE EndStop
    BY <1>18 DEF EndStop, Unwind, recordVars, poolVars, monitorVars
  <1>19. CASE UnlockLast
    BY <1>19 DEF UnlockLast, Drop, recordVars, poolVars, monitorVars
  <1>20. CASE MonitorKilled
    BY <1>20 DEF MonitorKilled, recordVars, poolVars, monitorVars
  <1>21. CASE MonitorCloses
    BY <1>21 DEF MonitorCloses, Drop, Lowest, Held, recordVars, poolVars,
      monitorVars
  <1>22. CASE UNCHANGED vars
    BY <1>1, <1>22 DEF vars, recordVars, poolVars, monitorVars
  <1> QED
    BY <1>2, <1>3, <1>4, <1>5, <1>6, <1>7, <1>8, <1>9, <1>10, <1>11, <1>12, <1>13,
      <1>14, <1>15, <1>16, <1>17, <1>18, <1>19, <1>20, <1>21, <1>22
    DEF Next, AttemptStep, AttemptEvent, OldStep, MonitorStep

\* A record is written and cleared by the attempt that holds its slot.
LEMMA RecordStep ==
  ASSUME TypeOK, AttemptLocks, RecordInv, [Next]_vars
  PROVE  RecordInv'
  <1> USE ShelfAssumption DEF TypeOK, Procs, Users, Slots, Files, UserPc, MonitorPc,
    AttemptLocks, RecordInv, Must, Group
  <1>1. ASSUME UNCHANGED <<owner, pc, slot>> PROVE RecordInv'
    BY <1>1
  <1>2. CASE Look \/ LockNext \/ LockBusy \/ Recheck \/ RecheckFails \/ BeginStop \/
            NothingToStop \/ EndStop \/ UnlockLast \/ MonitorKilled \/ IdleEnds \/
            RuntimeDies \/ MonitorCloses
    BY <1>1, <1>2 DEF Look, LockNext, LockBusy, Recheck, RecheckFails, BeginStop,
      NothingToStop, EndStop, UnlockLast, MonitorKilled, IdleEnds, RuntimeDies,
      MonitorCloses, Take, Drop, Unwind, Lowest, Held, recordVars, poolVars,
      monitorVars
  <1>3. ASSUME NEW u \in Users,
               ChildEnds(u)
        PROVE RecordInv'
    BY <1>1, <1>3 DEF ChildEnds, recordVars, poolVars, monitorVars
  <1>4. ASSUME NEW a \in Attempts, Begin(a) PROVE RecordInv'
    BY <1>4 DEF Begin, Goto, recordVars, poolVars, monitorVars
  <1>5. ASSUME NEW a \in Attempts, CountDemands(a) PROVE RecordInv'
    BY <1>5 DEF CountDemands, Goto, recordVars, poolVars, monitorVars
  <1>6. ASSUME NEW a \in Attempts, ExpanderFails(a) PROVE RecordInv'
    BY <1>6 DEF ExpanderFails, Goto, recordVars, poolVars, monitorVars
  <1>7. ASSUME NEW a \in Attempts, TrySlot(a) PROVE RecordInv'
    BY <1>7 DEF TrySlot, Take, NextSlot, Goto, recordVars, poolVars, monitorVars
  <1>8. ASSUME NEW a \in Attempts, TrySecondFile(a) PROVE RecordInv'
    BY <1>8 DEF TrySecondFile, Take, Drop, NextSlot, Goto, recordVars, poolVars,
      monitorVars
  <1>9. ASSUME NEW a \in Attempts, WriteOwner(a) PROVE RecordInv'
    BY <1>9 DEF WriteOwner, Goto, recordVars, poolVars, monitorVars
  <1>10. ASSUME NEW a \in Attempts, Restore(a) PROVE RecordInv'
    BY <1>10 DEF Restore, Goto, recordVars, poolVars, monitorVars
  <1>11. ASSUME NEW a \in Attempts, Lease(a) PROVE RecordInv'
    BY <1>11 DEF Lease, Goto, recordVars, poolVars, monitorVars
  <1>12. ASSUME NEW a \in Attempts, LeaseRefused(a) PROVE RecordInv'
    BY <1>12 DEF LeaseRefused, Goto, recordVars, poolVars, monitorVars
  <1>13. ASSUME NEW a \in Attempts, Release(a) PROVE RecordInv'
    BY <1>13 DEF Release, Goto, recordVars, poolVars, monitorVars
  <1>14. ASSUME NEW a \in Attempts, GiveUp(a) PROVE RecordInv'
    BY <1>14 DEF GiveUp, Goto, recordVars, poolVars, monitorVars
  <1>15. ASSUME NEW a \in Attempts, Dequeue(a) PROVE RecordInv'
    BY <1>15 DEF Dequeue, Goto, recordVars, poolVars, monitorVars
  <1>16. ASSUME NEW a \in Attempts, ClearOwner(a) PROVE RecordInv'
    BY <1>16 DEF ClearOwner, Goto, recordVars, poolVars, monitorVars
  <1>17. ASSUME NEW a \in Attempts, InterruptClosing(a) PROVE RecordInv'
    BY <1>17 DEF InterruptClosing, Goto, recordVars, poolVars, monitorVars
  <1>18. ASSUME NEW a \in Attempts, Unlock(a) PROVE RecordInv'
    BY <1>18 DEF Unlock, Drop, Goto, Highest, Held, recordVars, poolVars,
      monitorVars
  <1>19. ASSUME NEW a \in Attempts, CloseFile(a) PROVE RecordInv'
    BY <1>19 DEF CloseFile, Drop, Goto, Lowest, Held, recordVars, poolVars,
      monitorVars
  <1>20. ASSUME NEW a \in Attempts, Leave(a) PROVE RecordInv'
    BY <1>20 DEF Leave, Goto, recordVars, poolVars, monitorVars
  <1>21. ASSUME NEW a \in Attempts, Kill(a) PROVE RecordInv'
    BY <1>21 DEF Kill, Goto, recordVars, poolVars, monitorVars
  <1>22. ASSUME NEW u \in OldClients, OldEnters(u) PROVE RecordInv'
    BY <1>22 DEF OldEnters, Take, Goto, recordVars, poolVars, monitorVars
  <1>23. ASSUME NEW u \in OldClients, OldWorks(u) PROVE RecordInv'
    BY <1>23 DEF OldWorks, Goto, recordVars, poolVars, monitorVars
  <1>24. ASSUME NEW u \in OldClients, OldLeaves(u) PROVE RecordInv'
    BY <1>24 DEF OldLeaves, Drop, Goto, recordVars, poolVars, monitorVars
  <1>25. CASE UNCHANGED vars
    BY <1>1, <1>25 DEF vars, recordVars, poolVars, monitorVars
  <1> QED
    BY <1>2, <1>3, <1>4, <1>5, <1>6, <1>7, <1>8, <1>9, <1>10, <1>11, <1>12, <1>13,
      <1>14, <1>15, <1>16, <1>17, <1>18, <1>19, <1>20, <1>21, <1>22, <1>23, <1>24,
      <1>25
    DEF Next, AttemptStep, AttemptEvent, OldStep, MonitorStep

-----------------------------------------------------------------------------
(* Theorems.                                                               *)

\* The files are held as the control points say, in every reachable state.
LEMMA ShelfInvariance == Spec => []SInv
  <1>1. Init => SInv
    <2> USE ShelfAssumption DEF Init, Procs, Users, Slots, Files
    <2>1. Init => TypeOK
      <3>1. 1 \in 1..Capacity /\ 0 \in 0..(Capacity + 1)
        OBVIOUS
      <3> QED BY <3>1 DEF TypeOK, UserPc, MonitorPc
    <2>2. Init => AttemptLocks /\ OldLocks /\ MonitorLocks
      BY DEF AttemptLocks, OldLocks, MonitorLocks, May, Must
    <2>3. Init => DecisionHolds /\ RecordInv
      BY DEF DecisionHolds, RecordInv
    <2> QED BY <2>1, <2>2, <2>3 DEF SInv
  <1>2. ASSUME SInv, [Next]_vars PROVE SInv'
    BY <1>2, TypeStep, AttemptLocksStep, OldLocksStep, MonitorLocksStep, DecisionStep,
       RecordStep DEF SInv
  <1> QED BY <1>1, <1>2, PTL DEF Spec

\* Who is in a slot holds its first file.
LEMMA InSlotHolds ==
  ASSUME SInv, NEW u \in Users, NEW k \in Slots, InSlot(u, k)
  PROVE  FirstFile(k) \in Files /\ lock[FirstFile(k)] = u
  BY ShelfAssumption
  DEF SInv, TypeOK, AttemptLocks, OldLocks, InSlot, Admitted, Must, Group, FirstFile,
      Slots, Files, Users

\* Old and new clients of a slot exclude each other, and the monitor excludes both,
\* for every number of slots and clients (criu_shelf_admission, _flock_group).
THEOREM SlotExclusionHolds == Spec => []SlotExclusion
  <1>1. ASSUME SInv PROVE SlotExclusion
    <2> SUFFICES ASSUME NEW k \in Slots, NEW u \in Users, InSlot(u, k)
                 PROVE  /\ \A v \in Users \ {u} : ~InSlot(v, k)
                        /\ mpc \notin {"exclusive", "decided", "stopping"}
      BY DEF SlotExclusion
    <2>1. FirstFile(k) \in Files /\ lock[FirstFile(k)] = u
      BY <1>1, InSlotHolds
    <2>2. \A v \in Users \ {u} : ~InSlot(v, k)
      BY <1>1, <2>1, InSlotHolds
    <2>3. mpc \notin {"exclusive", "decided", "stopping"}
      BY <1>1, <2>1, ShelfAssumption DEF SInv, MonitorLocks, Files, Users
    <2> QED BY <2>2, <2>3
  <1> QED BY <1>1, ShelfInvariance, PTL

\* From the monitor's decision to the end of its stop nobody is admitted, no seat is
\* leased and no child runs (monitor_profile, _quiescence_problem).
THEOREM RetirementQuiescentHolds == Spec => []RetirementQuiescent
  <1>1. ASSUME SInv PROVE RetirementQuiescent
    <2>1. ASSUME mpc \in {"decided", "stopping"}, NEW u \in Users, NEW k \in Slots
          PROVE  ~InSlot(u, k)
      BY <1>1, <2>1, InSlotHolds, ShelfAssumption DEF SInv, MonitorLocks, Files, Users
    <2> QED BY <1>1, <2>1 DEF SInv, DecisionHolds, RetirementQuiescent
  <1> QED BY <1>1, ShelfInvariance, PTL

\* The live record of a slot names the attempt that holds the slot
\* (write_shelf_owner, clear_shelf_owner).
THEOREM OwnerRecordsTrueHolds == Spec => []OwnerRecordsTrue
  <1>1. ASSUME SInv PROVE OwnerRecordsTrue
    <2> SUFFICES ASSUME NEW a \in Attempts
                 PROVE  /\ pc[a] \in {"owner", "restored", "leased"}
                             => owner[slot[a]] = a
                        /\ \A k \in Slots :
                             owner[k] = a
                             /\ pc[a] \notin {"gone", "killed", "dropping", "leaving"}
                               => lock[k] = a
      BY DEF OwnerRecordsTrue
    <2>1. pc[a] \in {"owner", "restored", "leased"} => owner[slot[a]] = a
      BY <1>1 DEF SInv, RecordInv
    <2>2. ASSUME NEW k \in Slots, owner[k] = a,
                 pc[a] \notin {"gone", "killed", "dropping", "leaving"}
          PROVE  lock[k] = a
      <3>1. k = slot[a] /\ k \in Must(a)
        BY <1>1, <2>2 DEF SInv, RecordInv, Must, Group
      <3> QED BY <1>1, <3>1 DEF SInv, AttemptLocks
    <2> QED BY <2>1, <2>2
  <1> QED BY <1>1, ShelfInvariance, PTL

-----------------------------------------------------------------------------
(* The retirement schedule.                                                *)

\* A route starts one monitor, once, and it is the monitor its records name.
MonitorInv ==
  /\ \A r \in Routes :
       /\ route[r] \in {"new", "using", "leaving", "absent", "pending"}
            => monitor[r] = "off" /\ policy.pid # r
       /\ copied[r] \in {NoRoute, r}
  /\ policy.pid \in {NoRoute, policy.token}

\* The monitor that wrote "retired" has exited, and a runtime restored since is
\* some route's that has not scheduled yet.
RetiredInv ==
  policy.status = "retired" =>
    /\ policy.pid # NoRoute => monitor[policy.pid] = "exited"
    /\ restored => \E r \in Routes : route[r] \notin {"new", "done"}

IInv == RetirementTypeOK /\ MonitorInv /\ RetiredInv

\* Every action keeps the variables in their types.
LEMMA RetirementTypeStep ==
  ASSUME RetirementTypeOK, [RetirementNext]_retirementVars
  PROVE  RetirementTypeOK'
  <1> USE RetirementAssumption DEF RetirementTypeOK, RoutePc, WatchPc
  <1>1. ASSUME NEW r \in Routes,
               Use(r) \/ Finish(r) \/ Renew(r) \/ Spawn(r) \/ RouteKilled(r)
        PROVE  RetirementTypeOK'
    <2>1. \E p \in RoutePc : route' = [route EXCEPT ![r] = p]
      <3>1. CASE Renew(r)
        <4>1. CASE policy.pid # NoRoute /\ Alive(policy.pid)
          <5>1. route' = [route EXCEPT ![r] = "done"]
            BY <3>1, <4>1 DEF Renew
          <5> QED BY <5>1
        <4>2. CASE ~(policy.pid # NoRoute /\ Alive(policy.pid))
          <5>1. route' = [route EXCEPT ![r] = "absent"]
            BY <3>1, <4>2 DEF Renew
          <5> QED BY <5>1
        <4> QED BY <4>1, <4>2
      <3>2. CASE Use(r) \/ Finish(r) \/ Spawn(r) \/ RouteKilled(r)
        BY <3>2 DEF Use, Finish, Spawn, RouteKilled
      <3> QED BY <1>1, <3>1, <3>2
    <2>2. route' \in [Routes -> RoutePc]
      BY <2>1
    <2>3. monitor' \in [Routes -> WatchPc] /\ UNCHANGED <<policy, copied>>
      BY <1>1 DEF Use, Finish, Renew, Spawn, RouteKilled
    <2>4. unused' \in BOOLEAN /\ restored' \in BOOLEAN
      BY <1>1 DEF Use, Finish, Renew, Spawn, RouteKilled
    <2> QED BY <2>2, <2>3, <2>4
  <1>2. ASSUME NEW r \in Routes, WritePending(r) \/ WriteRecord(r)
        PROVE  RetirementTypeOK'
    BY <1>2 DEF WritePending, WriteRecord
  <1>3. ASSUME NEW m \in Routes, Superseded(m) \/ CloseShelf(m) \/ Reopen(m) \/ Decide(m)
        PROVE  RetirementTypeOK'
    BY <1>3 DEF Superseded, CloseShelf, Reopen, Decide, Exit
  <1>4. ASSUME NEW m \in Routes, Retire(m) PROVE RetirementTypeOK'
    <2>1. copied[m] \in Routes \cup {NoRoute}
      OBVIOUS
    <2>2. policy' = Amended(m, "retired") \/ policy' = Amended(m, "retire-failed")
      BY <1>4 DEF Retire
    <2>3. policy' \in [token : Routes \cup {NoRoute}, pid : Routes \cup {NoRoute},
                      status : {"none", "live-cache", "retired", "retire-failed"}]
      BY <2>1, <2>2 DEF Amended
    <2>4. monitor' \in [Routes -> WatchPc] /\ UNCHANGED <<route, copied, unused>>
      BY <1>4 DEF Retire, Exit
    <2>5. restored' \in BOOLEAN
      BY <1>4 DEF Retire
    <2> QED BY <2>3, <2>4, <2>5
  <1>5. CASE TimePasses \/ UNCHANGED retirementVars
    BY <1>5 DEF TimePasses, retirementVars
  <1> QED BY <1>1, <1>2, <1>3, <1>4, <1>5 DEF RetirementNext, RouteStep, WatchStep

\* Every action keeps the correspondence of routes, monitors and records.
LEMMA MonitorStepHolds ==
  ASSUME RetirementTypeOK, MonitorInv, [RetirementNext]_retirementVars
  PROVE  MonitorInv'
  <1> USE RetirementAssumption DEF RetirementTypeOK, RoutePc, WatchPc, MonitorInv
  <1>1. ASSUME NEW r \in Routes,
               Use(r) \/ Finish(r) \/ Renew(r) \/ Spawn(r) \/ RouteKilled(r)
        PROVE  MonitorInv'
    BY <1>1 DEF Use, Finish, Renew, Spawn, RouteKilled
  <1>2. ASSUME NEW r \in Routes, WritePending(r) \/ WriteRecord(r)
        PROVE  MonitorInv'
    BY <1>2 DEF WritePending, WriteRecord
  <1>3. ASSUME NEW m \in Routes, Superseded(m) \/ CloseShelf(m) \/ Reopen(m) \/ Decide(m)
        PROVE  MonitorInv'
    BY <1>3 DEF Superseded, CloseShelf, Reopen, Decide, Exit
  <1>4. ASSUME NEW m \in Routes, Retire(m) PROVE MonitorInv'
    <2>1. policy'.token = m /\ policy'.pid = copied[m] /\ route' = route
          /\ monitor' = [monitor EXCEPT ![m] = "exited"] /\ copied' = copied
          /\ monitor[m] = "stopping"
      BY <1>4 DEF Retire, Exit, Amended
    <2> QED BY <2>1
  <1>5. CASE TimePasses \/ UNCHANGED retirementVars
    BY <1>5 DEF TimePasses, retirementVars
  <1> QED BY <1>1, <1>2, <1>3, <1>4, <1>5 DEF RetirementNext, RouteStep, WatchStep

\* A record that says "retired" stays true until a route writes another one: no
\* route finishes without, as the monitor the record names has exited.
LEMMA RetiredStep ==
  ASSUME IInv, [RetirementNext]_retirementVars
  PROVE  RetiredInv'
  <1> USE RetirementAssumption
      DEF IInv, RetirementTypeOK, RoutePc, WatchPc, MonitorInv, RetiredInv
  <1>1. ASSUME NEW r \in Routes, Use(r) \/ Finish(r) \/ Spawn(r) \/ RouteKilled(r)
        PROVE  RetiredInv'
    BY <1>1 DEF Use, Finish, Spawn, RouteKilled, Scheduling
  <1>2. ASSUME NEW r \in Routes, Renew(r) PROVE RetiredInv'
    <2>1. policy.status = "retired" => route' = [route EXCEPT ![r] = "absent"]
      BY <1>2 DEF Renew, Alive
    <2> QED BY <1>2, <2>1 DEF Renew
  <1>3. ASSUME NEW r \in Routes, WritePending(r) \/ WriteRecord(r)
        PROVE  RetiredInv'
    BY <1>3 DEF WritePending, WriteRecord
  <1>4. ASSUME NEW m \in Routes, Superseded(m) \/ CloseShelf(m) \/ Reopen(m) \/ Decide(m)
        PROVE  RetiredInv'
    BY <1>4 DEF Superseded, CloseShelf, Reopen, Decide, Exit
  <1>5. ASSUME NEW m \in Routes, Retire(m) PROVE RetiredInv'
    <2>1. policy'.pid \in {NoRoute, m} /\ monitor'[m] = "exited"
      BY <1>5 DEF Retire, Exit, Amended
    <2>2. policy'.status = "retired" => restored' = FALSE
      BY <1>5 DEF Retire, Amended
    <2> QED BY <2>1, <2>2
  <1>6. CASE TimePasses \/ UNCHANGED retirementVars
    BY <1>6 DEF TimePasses, retirementVars
  <1> QED BY <1>1, <1>2, <1>3, <1>4, <1>5, <1>6
      DEF RetirementNext, RouteStep, WatchStep

\* A record that says "retired" while no route is at work means the runtime is
\* stopped, for any number of routes, monitors that amend a record they read
\* earlier, and routes killed while they schedule (schedule_profile_retirement
\* beside monitor_profile).
THEOREM RetiredRecordTrueHolds == RetirementSpec => []RetiredRecordTrue
  <1>1. ASSUME RetirementInit PROVE IInv
    <2>1. policy.token = NoRoute /\ policy.pid = NoRoute /\ policy.status = "none"
      BY <1>1 DEF RetirementInit
    <2>2. policy \in [token : Routes \cup {NoRoute}, pid : Routes \cup {NoRoute},
                     status : {"none", "live-cache", "retired", "retire-failed"}]
      BY <1>1 DEF RetirementInit
    <2>3. RetirementTypeOK
      <3>1. route \in [Routes -> RoutePc] /\ monitor \in [Routes -> WatchPc]
            /\ copied \in [Routes -> Routes \cup {NoRoute}]
        BY <1>1 DEF RetirementInit, RoutePc, WatchPc
      <3>2. unused \in BOOLEAN /\ restored \in BOOLEAN
        BY <1>1 DEF RetirementInit
      <3> QED BY <2>2, <3>1, <3>2 DEF RetirementTypeOK
    <2>4. MonitorInv
      <3>1. \A r \in Routes : monitor[r] = "off" /\ copied[r] = NoRoute
        BY <1>1 DEF RetirementInit
      <3> QED BY <2>1, <3>1, RetirementAssumption DEF MonitorInv
    <2>5. RetiredInv
      BY <2>1 DEF RetiredInv
    <2> QED BY <2>3, <2>4, <2>5 DEF IInv
  <1>2. ASSUME IInv, [RetirementNext]_retirementVars PROVE IInv'
    BY <1>2, RetirementTypeStep, MonitorStepHolds, RetiredStep DEF IInv
  <1>3. IInv => RetiredRecordTrue
    BY DEF IInv, RetiredInv, RetiredRecordTrue
  <1> QED BY <1>1, <1>2, <1>3, PTL DEF RetirementSpec
=============================================================================
