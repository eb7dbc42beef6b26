--------------------------- MODULE EvidenceProofs ---------------------------
(***************************************************************************)
(* What a passed attempt proves and whom a failed or cut one names, for    *)
(* every source, every depth of calls and every limit.                     *)
(***************************************************************************)
EXTENDS Evidence, ProfileSatisfaction, FiniteSetTheorems, WellFoundedInduction, TLAPS

-----------------------------------------------------------------------------
(* Sequences, and induction along them.                                    *)

IsASeq(s) == \E S : s \in Seq(S)

\* Induction over the natural numbers, for a set of them (the reader's pass over the
\* lines of a transcript, account_proof_activity).
LEMMA Induction ==
  ASSUME NEW S, 0 \in S, \A n \in Nat : n \in S => n + 1 \in S
  PROVE  Nat \subseteq S
  <1> DEFINE T == Nat \ S
             R == {p \in Nat \X Nat : p[1] < p[2]}
  <1> SUFFICES ASSUME T # {} PROVE FALSE
    OBVIOUS
  <1>1. IsWellFoundedOn(R, Nat)
    BY NatLessThanWellFounded DEF OpToRel
  <1>2. PICK x \in T : \A y \in T : ~ (<<y, x>> \in R)
    BY <1>1, WFMin
  <1>3. x # 0 /\ x - 1 \in Nat /\ x - 1 < x
    BY <1>2
  <1>4. x - 1 \in S
    BY <1>2, <1>3
  <1>5. (x - 1) + 1 = x
    BY <1>3
  <1> QED BY <1>2, <1>3, <1>4, <1>5

\* A line that is printed comes after those printed before (Prints).
LEMMA Appended ==
  ASSUME NEW s, IsASeq(s), NEW r
  PROVE  /\ IsASeq(Append(s, r)) /\ Append(s, r) # <<>>
         /\ Len(s) \in Nat /\ DOMAIN s = 1..Len(s)
         /\ Len(Append(s, r)) = Len(s) + 1
         /\ DOMAIN Append(s, r) = 1..(Len(s) + 1)
         /\ \A i \in 1..Len(s) : Append(s, r)[i] = s[i]
         /\ Append(s, r)[Len(s) + 1] = r
  <1>1. PICK S : s \in Seq(S)
    BY DEF IsASeq
  <1>2. s \in Seq(S \cup {r}) /\ r \in S \cup {r}
    BY <1>1
  <1>3. Append(s, r) \in Seq(S \cup {r})
    BY <1>2
  <1> QED BY <1>1, <1>2, <1>3 DEF IsASeq

\* A sequence without its last element (Whole, leave).
LEMMA FrontType ==
  ASSUME NEW S, NEW s \in Seq(S), s # <<>>
  PROVE  /\ Len(s) \in Nat \ {0} /\ DOMAIN s = 1..Len(s)
         /\ Last(s) = s[Len(s)] /\ Last(s) \in S
         /\ Front(s) \in Seq(S) /\ Len(Front(s)) = Len(s) - 1
         /\ \A i \in 1..(Len(s) - 1) : Front(s)[i] = s[i]
  <1>1. Len(s) \in Nat \ {0} /\ DOMAIN s = 1..Len(s) /\ Last(s) = s[Len(s)] /\ Last(s) \in S
    BY DEF Last
  <1> QED BY <1>1 DEF Front

\* The same of any sequence, and what the last element adds to it.
LEMMA Fronted ==
  ASSUME NEW s, IsASeq(s), s # <<>>
  PROVE  /\ IsASeq(Front(s)) /\ Len(Front(s)) = Len(s) - 1
         /\ Len(s) \in Nat \ {0} /\ DOMAIN s = 1..Len(s)
         /\ DOMAIN Front(s) = 1..(Len(s) - 1)
         /\ \A i \in 1..(Len(s) - 1) : Front(s)[i] = s[i]
         /\ Last(s) = s[Len(s)]
         /\ s = Append(Front(s), Last(s))
  <1>1. PICK S : s \in Seq(S)
    BY DEF IsASeq
  <1>2. Len(s) \in Nat \ {0} /\ DOMAIN s = 1..Len(s) /\ Last(s) = s[Len(s)] /\ Last(s) \in S
    BY <1>1, FrontType
  <1>3. /\ Front(s) \in Seq(S) /\ Len(Front(s)) = Len(s) - 1
        /\ \A i \in 1..(Len(s) - 1) : Front(s)[i] = s[i]
    BY <1>1, FrontType
  <1> DEFINE f == Front(s)
             e == Last(s)
  <1>4. f \in Seq(S) /\ Len(f) = Len(s) - 1 /\ e \in S /\ e = s[Len(s)]
        /\ DOMAIN f = 1..(Len(s) - 1) /\ \A i \in 1..(Len(s) - 1) : f[i] = s[i]
    BY <1>2, <1>3
  <1> HIDE DEF f, e
  <1>8. IsASeq(f)
    BY <1>4 DEF IsASeq
  <1>9. Append(f, e) \in Seq(S)
    BY <1>4
  <1>5. /\ Append(f, e) \in Seq(S) /\ Len(Append(f, e)) = Len(s)
        /\ \A i \in 1..(Len(s) - 1) : Append(f, e)[i] = s[i]
        /\ Append(f, e)[Len(s)] = s[Len(s)]
    <2>1. Len(f) + 1 = Len(s) /\ 1..Len(f) = 1..(Len(s) - 1)
      BY <1>2, <1>4
    <2>2. /\ Len(Append(f, e)) = Len(f) + 1 /\ Append(f, e)[Len(f) + 1] = e
          /\ \A i \in 1..Len(f) : Append(f, e)[i] = f[i]
      BY <1>8, Appended
    <2> QED BY <1>4, <1>9, <2>1, <2>2
  <1>6. \A i \in 1..Len(s) : Append(f, e)[i] = s[i]
    BY <1>2, <1>5
  <1>7. s = Append(f, e)
    BY <1>1, <1>5, <1>6
  <1> QED BY <1>2, <1>4, <1>7, <1>8 DEF f, e

-----------------------------------------------------------------------------
(* The reader's recursive passes.                                          *)

\* A pass over the lines is defined for every transcript (account_proof_activity).
LEMMA ActivitiesDefined ==
  ASSUME NEW t, IsASeq(t)
  PROVE  /\ DOMAIN Activities(t) = 0..Len(t)
         /\ Activities(t)[0] = Quiet
         /\ \A i \in 1..Len(t) : Activities(t)[i] = ActivityStep(Activities(t)[i - 1], t[i])
  <1>0. Len(t) \in Nat
    BY DEF IsASeq
  <1> DEFINE Is(f, n) == f = [i \in 0..n |-> IF i = 0 THEN Quiet ELSE ActivityStep(f[i - 1], t[i])]
             S == {n \in Nat : \E f : Is(f, n)}
  <1>1. 0 \in S
    <2>1. Is([i \in 0..0 |-> Quiet], 0)
      OBVIOUS
    <2> QED BY <2>1
  <1>2. ASSUME NEW n \in Nat, n \in S PROVE n + 1 \in S
    <2>1. PICK f : Is(f, n)
      BY <1>2
    <2> DEFINE g == [i \in 0..(n + 1) |-> IF i = n + 1 THEN ActivityStep(f[n], t[n + 1]) ELSE f[i]]
    <2>2. ASSUME NEW i \in 0..(n + 1)
          PROVE  g[i] = IF i = 0 THEN Quiet ELSE ActivityStep(g[i - 1], t[i])
      <3>1. CASE i = n + 1
        BY <3>1
      <3>2. CASE i # n + 1
        <4>1. i \in 0..n /\ (i # 0 => i - 1 \in 0..n /\ i - 1 # n + 1)
          BY <3>2
        <4>2. f[i] = IF i = 0 THEN Quiet ELSE ActivityStep(f[i - 1], t[i])
          BY <4>1, <2>1
        <4> QED BY <4>1, <4>2, <3>2
      <3> QED BY <3>1, <3>2
    <2>3. Is(g, n + 1)
      BY <2>2
    <2> HIDE DEF g
    <2> QED BY <2>3
  <1>3. Len(t) \in S
    <2> HIDE DEF S
    <2> QED BY <1>0, <1>1, <1>2, Induction
  <1>4. PICK f : Is(f, Len(t))
    BY <1>3
  <1>5. Activities(t) = CHOOSE g : Is(g, Len(t))
    BY DEF Activities
  <1>6. Is(Activities(t), Len(t))
    BY <1>4, <1>5
  <1> HIDE DEF S
  <1> QED BY <1>0, <1>6

\* A line more is one step more (account_proof_activity).
LEMMA ActivitiesAppend ==
  ASSUME NEW t, IsASeq(t), NEW r
  PROVE  Activities(Append(t, r))[Len(t) + 1] = ActivityStep(Activities(t)[Len(t)], r)
  <1> DEFINE u == Append(t, r)
             S == {n \in Nat : n <= Len(t) => Activities(u)[n] = Activities(t)[n]}
  <1>1. /\ IsASeq(u) /\ Len(t) \in Nat /\ Len(u) = Len(t) + 1
        /\ \A i \in 1..Len(t) : u[i] = t[i]
        /\ u[Len(t) + 1] = r
    BY Appended
  <1> HIDE DEF u
  <1>2. 0 \in S
    BY <1>1, ActivitiesDefined
  <1>3. ASSUME NEW n \in Nat, n \in S PROVE n + 1 \in S
    <2>1. SUFFICES ASSUME n + 1 <= Len(t)
                   PROVE  Activities(u)[n + 1] = Activities(t)[n + 1]
      OBVIOUS
    <2>2. n + 1 \in 1..Len(t) /\ n + 1 \in 1..Len(u) /\ (n + 1) - 1 = n
      BY <2>1, <1>1
    <2>3. Activities(u)[n] = Activities(t)[n]
      BY <1>3, <2>1, <1>1
    <2>4. Activities(u)[n + 1] = ActivityStep(Activities(u)[n], u[n + 1])
      BY <1>1, <2>2, ActivitiesDefined
    <2>5. Activities(t)[n + 1] = ActivityStep(Activities(t)[n], t[n + 1])
      BY <1>1, <2>2, ActivitiesDefined
    <2> QED BY <2>2, <2>3, <2>4, <2>5, <1>1
  <1>4. Len(t) \in S
    <2> HIDE DEF S
    <2> QED BY <1>1, <1>2, <1>3, Induction
  <1>5. Len(t) + 1 \in 1..Len(u) /\ (Len(t) + 1) - 1 = Len(t)
    BY <1>1
  <1>6. Activities(u)[Len(t) + 1] = ActivityStep(Activities(u)[Len(t)], u[Len(t) + 1])
    BY <1>1, <1>5, ActivitiesDefined
  <1> QED BY <1>1, <1>4, <1>6 DEF u

\* The same for the frames (account_proof_diagnostics).
LEMMA FramesDefined ==
  ASSUME NEW t, IsASeq(t)
  PROVE  /\ Frames(t)[0] = NoFrames
         /\ \A i \in 1..Len(t) : Frames(t)[i] = FrameStep(Frames(t)[i - 1], t[i].k, i)
  <1>0. Len(t) \in Nat
    BY DEF IsASeq
  <1> DEFINE Is(f, n) == f = [i \in 0..n |-> IF i = 0 THEN NoFrames
                                             ELSE FrameStep(f[i - 1], t[i].k, i)]
             S == {n \in Nat : \E f : Is(f, n)}
  <1>1. 0 \in S
    <2>1. Is([i \in 0..0 |-> NoFrames], 0)
      OBVIOUS
    <2> QED BY <2>1
  <1>2. ASSUME NEW n \in Nat, n \in S PROVE n + 1 \in S
    <2>1. PICK f : Is(f, n)
      BY <1>2
    <2> DEFINE g == [i \in 0..(n + 1) |-> IF i = n + 1 THEN FrameStep(f[n], t[n + 1].k, n + 1)
                                          ELSE f[i]]
    <2>2. ASSUME NEW i \in 0..(n + 1)
          PROVE  g[i] = IF i = 0 THEN NoFrames ELSE FrameStep(g[i - 1], t[i].k, i)
      <3>1. CASE i = n + 1
        BY <3>1
      <3>2. CASE i # n + 1
        <4>1. i \in 0..n /\ (i # 0 => i - 1 \in 0..n /\ i - 1 # n + 1)
          BY <3>2
        <4>2. f[i] = IF i = 0 THEN NoFrames ELSE FrameStep(f[i - 1], t[i].k, i)
          BY <4>1, <2>1
        <4> QED BY <4>1, <4>2, <3>2
      <3> QED BY <3>1, <3>2
    <2>3. Is(g, n + 1)
      BY <2>2
    <2> HIDE DEF g
    <2> QED BY <2>3
  <1>3. Len(t) \in S
    <2> HIDE DEF S
    <2> QED BY <1>0, <1>1, <1>2, Induction
  <1>4. PICK f : Is(f, Len(t))
    BY <1>3
  <1>5. Frames(t) = CHOOSE g : Is(g, Len(t))
    BY DEF Frames
  <1>6. Is(Frames(t), Len(t))
    BY <1>4, <1>5
  <1> HIDE DEF S
  <1> QED BY <1>0, <1>6

\* The static scan keeps the theorems of a source, in their order (scan_prove_bindings).
LEMMA ScannedTheorems ==
  ASSUME NEW P, NEW source \in Seq(P)
  PROVE  Scanned(source) \in Seq({p \in P : p.do \in {"bind", "derive"}})
  <1> DEFINE Q == {p \in P : p.do \in {"bind", "derive"}}
             Step(done, i) == IF source[i].do \in {"bind", "derive"}
                              THEN Append(done, source[i]) ELSE done
             Is(f, n) == f = [i \in 0..n |-> IF i = 0 THEN <<>> ELSE Step(f[i - 1], i)]
             S == {n \in Nat : \E f : Is(f, n)}
  <1>0. Len(source) \in Nat /\ \A i \in 1..Len(source) : source[i] \in P
    OBVIOUS
  <1>1. 0 \in S
    <2>1. Is([i \in 0..0 |-> <<>>], 0)
      OBVIOUS
    <2> QED BY <2>1
  <1>2. ASSUME NEW n \in Nat, n \in S PROVE n + 1 \in S
    <2>1. PICK f : Is(f, n)
      BY <1>2
    <2> DEFINE g == [i \in 0..(n + 1) |-> IF i = n + 1 THEN Step(f[n], n + 1) ELSE f[i]]
    <2> HIDE DEF Step
    <2>2. ASSUME NEW i \in 0..(n + 1)
          PROVE  g[i] = IF i = 0 THEN <<>> ELSE Step(g[i - 1], i)
      <3>1. CASE i = n + 1
        BY <3>1
      <3>2. CASE i # n + 1
        <4>1. i \in 0..n /\ (i # 0 => i - 1 \in 0..n /\ i - 1 # n + 1)
          BY <3>2
        <4>2. f[i] = IF i = 0 THEN <<>> ELSE Step(f[i - 1], i)
          BY <4>1, <2>1
        <4> QED BY <4>1, <4>2, <3>2
      <3> QED BY <3>1, <3>2
    <2>3. Is(g, n + 1)
      BY <2>2
    <2> HIDE DEF g
    <2> QED BY <2>3
  <1>3. Len(source) \in S
    <2> HIDE DEF S
    <2> QED BY <1>0, <1>1, <1>2, Induction
  <1>4. PICK f : Is(f, Len(source))
    BY <1>3
  <1> DEFINE h == CHOOSE g : Is(g, Len(source))
  <1>5. Scanned(source) = h[Len(source)]
    BY DEF Scanned
  <1>6. Is(h, Len(source))
    BY <1>4
  <1> HIDE DEF h
  <1>7. h[0] = <<>> /\ \A i \in 1..Len(source) : h[i] = Step(h[i - 1], i)
    <2> HIDE DEF Step
    <2> QED BY <1>0, <1>6
  <1> HIDE DEF S, Is, Q
  <1> DEFINE T == {n \in Nat : n <= Len(source) => h[n] \in Seq(Q)}
  <1>8. 0 \in T
    <2>1. h[0] = <<>>
      BY <1>7
    <2>2. <<>> \in Seq(Q)
      OBVIOUS
    <2> QED BY <2>1, <2>2
  <1>9. ASSUME NEW n \in Nat, n \in T PROVE n + 1 \in T
    <2>1. SUFFICES ASSUME n + 1 <= Len(source) PROVE h[n + 1] \in Seq(Q)
      OBVIOUS
    <2>2. n + 1 \in 1..Len(source) /\ (n + 1) - 1 = n /\ h[n] \in Seq(Q)
      BY <1>0, <1>9, <2>1
    <2>3. h[n + 1] = Step(h[n], n + 1) /\ source[n + 1] \in P
      BY <1>0, <1>7, <2>2
    <2>4. CASE source[n + 1].do \in {"bind", "derive"}
      <3>1. source[n + 1] \in Q
        BY <2>3, <2>4 DEF Q
      <3> QED BY <2>2, <2>3, <2>4, <3>1
    <2>5. CASE source[n + 1].do \notin {"bind", "derive"}
      BY <2>2, <2>3, <2>5
    <2> QED BY <2>4, <2>5
  <1>10. Len(source) \in T
    <2> HIDE DEF T
    <2> QED BY <1>0, <1>8, <1>9, Induction
  <1> QED BY <1>0, <1>5, <1>10 DEF Q

-----------------------------------------------------------------------------
(* A transcript's frames.                                                  *)

\* A frame's begin is followed by its end: nothing is printed between (emit).
Paired(t) == \A i \in 1..(Len(t) - 1) : t[i].k = "begin" => t[i + 1].k = "end"

FrameOf(t, i, e) ==
  /\ e.begin \in 1..i /\ e.end \in 1..i /\ e.end = e.begin + 1
  /\ t[e.begin].k = "begin" /\ t[e.end].k = "end"

FrameStates == [open : Nat, events : Seq([begin : Nat, end : Nat]),
                truncated : BOOLEAN, bad : BOOLEAN]

FramesHold(t, i, s) ==
  /\ s.open \in {0, i} /\ (s.open # 0 => t[i].k = "begin")
  /\ \A j \in DOMAIN s.events : FrameOf(t, i, s.events[j])

\* What one line does to the reader's state of the frames.
LEMMA FrameStepped ==
  ASSUME NEW t, IsASeq(t), Paired(t), NEW i \in Nat, i + 1 <= Len(t),
         NEW s \in FrameStates, s.bad \/ FramesHold(t, i, s)
  PROVE  LET n == FrameStep(s, t[i + 1].k, i + 1)
         IN  n \in FrameStates /\ (n.bad \/ FramesHold(t, i + 1, n))
  <1> DEFINE r == t[i + 1].k
             n == FrameStep(s, r, i + 1)
             E == [begin : Nat, end : Nat]
  <1>0. s.open \in Nat /\ s.events \in Seq(E) /\ s.bad \in BOOLEAN /\ s.truncated \in BOOLEAN
    BY DEF FrameStates
  <1>1. \A e : FrameOf(t, i, e) => FrameOf(t, i + 1, e)
    BY DEF FrameOf
  <1>2. CASE r = "begin"
    <2>1. /\ n.open = i + 1 /\ n.events = s.events /\ n.truncated = s.truncated
          /\ n.bad = (s.bad \/ s.open # 0 \/ s.truncated) /\ n \in FrameStates
      <3> DEFINE bad == s.bad \/ s.open # 0 \/ s.truncated
                 at == i + 1
      <3>1. n = [s EXCEPT !.open = at, !.bad = bad]
        BY <1>2 DEF FrameStep
      <3>2. bad \in BOOLEAN /\ at \in Nat
        OBVIOUS
      <3> HIDE DEF bad, n, at
      <3>3. /\ n.open = at /\ n.events = s.events /\ n.truncated = s.truncated
            /\ n.bad = bad /\ n \in FrameStates
        BY <3>1, <3>2 DEF FrameStates
      <3> QED BY <3>3 DEF bad, at
    <2>2. ~n.bad => ~s.bad
      BY <2>1, <1>0
    <2> QED BY <1>1, <1>2, <2>1, <2>2 DEF FramesHold
  <1>3. CASE r = "end"
    <2> DEFINE e == [begin |-> s.open, end |-> i + 1]
    <2>1. /\ n.open = 0 /\ n.events = Append(s.events, e) /\ n.truncated = s.truncated
          /\ n.bad = (s.bad \/ s.open = 0 \/ s.truncated) /\ n \in FrameStates
      <3> DEFINE bad == s.bad \/ s.open = 0 \/ s.truncated
                 more == Append(s.events, e)
      <3>1. n = [s EXCEPT !.open = 0, !.events = more, !.bad = bad]
        BY <1>3 DEF FrameStep
      <3>2. bad \in BOOLEAN /\ more \in Seq(E)
        <4>1. e \in E
          BY <1>0
        <4> QED BY <1>0, <4>1
      <3> HIDE DEF bad, more, n
      <3>3. /\ n.open = 0 /\ n.events = more /\ n.truncated = s.truncated
            /\ n.bad = bad /\ n \in FrameStates
        BY <3>1, <3>2 DEF FrameStates
      <3> QED BY <3>3 DEF bad, more
    <2>2. SUFFICES ASSUME ~n.bad PROVE FramesHold(t, i + 1, n)
      BY <2>1
    <2>3. ~s.bad /\ s.open # 0
      BY <2>1, <2>2, <1>0
    <2>4. FramesHold(t, i, s) /\ s.open = i /\ i # 0 /\ t[i].k = "begin"
      BY <2>3 DEF FramesHold
    <2>5. FrameOf(t, i + 1, e)
      BY <2>4, <1>3 DEF FrameOf
    <2>6. ASSUME NEW j \in DOMAIN Append(s.events, e) PROVE FrameOf(t, i + 1, Append(s.events, e)[j])
      <3>1. j \in 1..(Len(s.events) + 1) /\ Len(s.events) \in Nat
        BY <1>0, <2>6
      <3>2. CASE j = Len(s.events) + 1
        BY <1>0, <2>5, <3>2
      <3>3. CASE j # Len(s.events) + 1
        <4>1. j \in DOMAIN s.events /\ Append(s.events, e)[j] = s.events[j]
          BY <1>0, <3>1, <3>3
        <4> QED BY <1>1, <2>4, <4>1 DEF FramesHold
      <3> QED BY <3>2, <3>3
    <2> HIDE DEF e, n
    <2> QED BY <2>1, <2>6 DEF FramesHold
  <1>4. CASE r = "truncated"
    <2>1. /\ n.open = s.open /\ n.events = s.events /\ n.truncated = TRUE
          /\ n.bad = (s.bad \/ s.open # 0 \/ Len(s.events) # MaxEvents) /\ n \in FrameStates
      BY <1>4, <1>0 DEF FrameStep, FrameStates
    <2>2. ~n.bad => ~s.bad /\ s.open = 0
      BY <2>1, <1>0
    <2> QED BY <1>1, <2>1, <2>2 DEF FramesHold
  <1>5. CASE r \notin {"begin", "end", "truncated"}
    <2>1. n = s
      BY <1>5 DEF FrameStep
    <2>2. ~s.bad => s.open = 0
      <3>1. SUFFICES ASSUME ~s.bad, s.open # 0 PROVE FALSE
        OBVIOUS
      <3>2. s.open = i /\ i # 0 /\ t[i].k = "begin"
        BY <3>1 DEF FramesHold
      <3>3. i \in 1..(Len(t) - 1)
        BY <3>2 DEF IsASeq
      <3> QED BY <3>2, <3>3, <1>5 DEF Paired
    <2> QED BY <1>1, <2>1, <2>2 DEF FramesHold
  <1> QED BY <1>2, <1>3, <1>4, <1>5

\* After every line, the state of the frames is right or bad.
LEMMA FramesRight ==
  ASSUME NEW t, IsASeq(t), Paired(t)
  PROVE  LET s == Frames(t)[Len(t)]
         IN  s \in FrameStates /\ (s.bad \/ FramesHold(t, Len(t), s))
  <1> DEFINE Right(i) == /\ Frames(t)[i] \in FrameStates
                         /\ Frames(t)[i].bad \/ FramesHold(t, i, Frames(t)[i])
             S == {i \in Nat : i <= Len(t) => Right(i)}
  <1>0. Len(t) \in Nat
    BY DEF IsASeq
  <1>1. 0 \in S
    <2>1. Frames(t)[0] = NoFrames
      BY FramesDefined
    <2>2. NoFrames \in FrameStates /\ FramesHold(t, 0, NoFrames)
      BY DEF NoFrames, FrameStates, FramesHold
    <2> QED BY <2>1, <2>2
  <1>2. ASSUME NEW i \in Nat, i \in S PROVE i + 1 \in S
    <2>1. SUFFICES ASSUME i + 1 <= Len(t) PROVE Right(i + 1)
      OBVIOUS
    <2>2. Right(i)
      BY <1>0, <1>2, <2>1
    <2>3. i + 1 \in 1..Len(t) /\ (i + 1) - 1 = i
      BY <1>0, <2>1
    <2>4. Frames(t)[i + 1] = FrameStep(Frames(t)[i], t[i + 1].k, i + 1)
      BY <2>3, FramesDefined
    <2> QED BY <2>1, <2>2, <2>4, FrameStepped
  <1> HIDE DEF Right
  <1>3. Len(t) \in S
    <2> HIDE DEF S
    <2> QED BY <1>0, <1>1, <1>2, Induction
  <1> QED BY <1>0, <1>3 DEF Right

-----------------------------------------------------------------------------
(* Types.                                                                  *)

FileRecords == [of : {"entry", "dep"}, todo : Seq(Phrases)]
Places == {"entry", "dep"} \X PhraseNames
CallRecords == [no : Nat, loc : SUBSET Places]
FrameRecords == [at : {"begin", "end"}, loc : SUBSET Places]
EndedRecords == [of : {"entry", "dep"}, phrase : Phrases]

\* The types of the child's and the reader's state.
AttemptTypeOK ==
  /\ attempt \in Attempts /\ stage \in {"prepare", "leaf"} /\ axioms \in Nat
  /\ files \in Seq(FileRecords) /\ calls \in Seq(CallRecords)
  /\ count \in Nat /\ exc \in Errors \cup {"none", "unbound"}
  /\ frame = NoFrame \/ frame \in FrameRecords
  /\ value \in [Names -> {"none", "quoted", "other"}]
  /\ IsASeq(printed) /\ ended \in Seq(EndedRecords)
  /\ turn \in {"load", "delta", "exited", "read"}
  /\ torn \in {"no", "name", "nonce", "rest"} /\ (torn # "no" => printed # <<>>)

\* Last phrases, of which the probes name theorems of the scan (build_claim_probe).
LastPhrases(source) ==
  {p \in Phrases : p.do \in LastKinds
                     /\ (p.do = "probe" => \E c \in ToSet(Scanned(source)) : c.name = p.name)}

\* A source of phrases, and then its probes and its last phrases (build_claim_probe).
LEMMA PayloadShape ==
  ASSUME AttemptAssumption, NEW a \in Attempts, NEW source \in {a.entry, a.prep},
         NEW fork \in BOOLEAN
  PROVE  /\ Payload(source, fork) \in Seq(Phrases)
         /\ Len(source) \in Nat
         /\ \A i \in DOMAIN Payload(source, fork) :
              IF i <= Len(source) THEN Payload(source, fork)[i].do \in PhraseKinds
              ELSE Payload(source, fork)[i] \in LastPhrases(source)
  <1> DEFINE P == [do : PhraseKinds, name : PhraseNames]
             L == LastPhrases(source)
             probes == [i \in DOMAIN Scanned(source) |-> Do("probe", Scanned(source)[i].name)]
             f1 == Do("finish", "")
             f2 == Do("fork", "")
             finish == <<f1>>
             fork1 == <<f2>>
             last == IF fork THEN fork1 ELSE <<>>
  <1>1. source \in Seq(P)
    BY DEF AttemptAssumption
  <1>2. P \subseteq Phrases /\ \A p \in P : p.do \in PhraseKinds
    BY DEF Phrases
  <1>3. L \subseteq Phrases
    BY DEF LastPhrases
  <1>4. Scanned(source) \in Seq({p \in P : p.do \in {"bind", "derive"}})
    <2> HIDE DEF P
    <2> QED BY <1>1, ScannedTheorems
  <1>5. Len(Scanned(source)) \in Nat /\ DOMAIN Scanned(source) = 1..Len(Scanned(source))
    BY <1>4
  <1>6. ASSUME NEW i \in DOMAIN Scanned(source) PROVE probes[i] \in L
    <2>1. Scanned(source)[i] \in P /\ Scanned(source)[i] \in ToSet(Scanned(source))
      BY <1>4 DEF ToSet
    <2> QED BY <2>1 DEF Do, Phrases, LastKinds, LastPhrases
  <1>7. probes \in Seq(L)
    <2> HIDE DEF L
    <2> QED BY <1>5, <1>6
  <1>8. f1 \in L /\ f2 \in L
    BY DEF Do, Phrases, LastKinds, PhraseNames, LastPhrases
  <1>9. finish \in Seq(L) /\ fork1 \in Seq(L)
    <2> HIDE DEF L, f1, f2
    <2> QED BY <1>8
  <1>10. last \in Seq(L)
    <2>1. <<>> \in Seq(L)
      OBVIOUS
    <2>2. CASE fork
      <3> HIDE DEF fork1, L
      <3> QED BY <1>9, <2>2
    <2>3. CASE ~fork
      <3>1. last = <<>>
        BY <2>3
      <3> HIDE DEF last, L
      <3> QED BY <2>1, <3>1
    <2> QED BY <2>2, <2>3
  <1>11. Payload(source, fork) = source \o (probes \o finish \o last)
    BY DEF Payload
  <1> DEFINE ending == probes \o finish \o last
  <1> HIDE DEF probes, finish, fork1, f1, f2, last, L, P
  <1>12. probes \o finish \in Seq(L)
    BY <1>7, <1>9
  <1>13. ending \in Seq(L)
    BY <1>10, <1>12
  <1> HIDE DEF ending
  <1>14. source \in Seq(Phrases) /\ ending \in Seq(Phrases)
    BY <1>1, <1>2, <1>3, <1>13
  <1>15. Payload(source, fork) = source \o ending
    BY <1>11 DEF ending
  <1>16. ASSUME NEW i \in DOMAIN (source \o ending)
         PROVE  IF i <= Len(source) THEN (source \o ending)[i].do \in PhraseKinds
                ELSE (source \o ending)[i] \in L
    <2>1. /\ Len(source) \in Nat /\ Len(ending) \in Nat /\ i \in 1..(Len(source) + Len(ending))
          /\ (source \o ending)[i] = IF i <= Len(source) THEN source[i] ELSE ending[i - Len(source)]
      BY <1>14, <1>16
    <2>2. CASE i <= Len(source)
      <3>1. source[i] \in P
        BY <1>1, <2>1, <2>2
      <3> QED BY <1>2, <2>1, <2>2, <3>1
    <2>3. CASE ~ (i <= Len(source))
      <3>1. ending[i - Len(source)] \in L
        BY <1>13, <2>1, <2>3
      <3> QED BY <2>1, <2>3, <3>1
    <2> QED BY <2>2, <2>3
  <1> QED BY <1>14, <1>15, <1>16 DEF L

\* The phrase that is evaluated, and the files after it.
LEMMA PhraseType ==
  ASSUME files \in Seq(FileRecords), files # <<>>
  PROVE  /\ File \in FileRecords /\ File = files[Len(files)]
         /\ Len(files) \in Nat \ {0}
         /\ Front(files) \in Seq(FileRecords)
         /\ Len(Front(files)) = Len(files) - 1
         /\ \A i \in 1..(Len(files) - 1) : Front(files)[i] = files[i]
         /\ File.of \in {"entry", "dep"} /\ File.todo \in Seq(Phrases)
         /\ File.todo # <<>> => /\ Phrase \in Phrases /\ Phrase = File.todo[1]
                                /\ Tail(File.todo) \in Seq(Phrases)
  <1>1. File \in FileRecords /\ File = files[Len(files)] /\ Len(files) \in Nat \ {0}
    BY DEF File, Last
  <1>2. File.todo \in Seq(Phrases) /\ File.of \in {"entry", "dep"}
    BY <1>1 DEF FileRecords
  <1>3. File.todo # <<>> => /\ Phrase \in Phrases /\ Phrase = File.todo[1]
                           /\ Tail(File.todo) \in Seq(Phrases)
    BY <1>2 DEF Phrase
  <1>4. /\ Front(files) \in Seq(FileRecords) /\ Len(Front(files)) = Len(files) - 1
        /\ \A i \in 1..(Len(files) - 1) : Front(files)[i] = files[i]
    BY FrontType
  <1> QED BY <1>1, <1>2, <1>3, <1>4

\* A file without the phrase that was evaluated (the toplevel's loop).
LEMMA AfterPhraseType ==
  ASSUME files \in Seq(FileRecords), files # <<>>, File.todo # <<>>
  PROVE  /\ AfterPhrase \in Seq(FileRecords) /\ Len(AfterPhrase) = Len(files)
         /\ \A i \in 1..(Len(files) - 1) : AfterPhrase[i] = files[i]
         /\ AfterPhrase[Len(files)] = [of |-> File.of, todo |-> Tail(File.todo)]
  <1> DEFINE f == Front(files)
             r == [of |-> File.of, todo |-> Tail(File.todo)]
  <1>1. /\ r \in FileRecords /\ f \in Seq(FileRecords) /\ Len(f) = Len(files) - 1
        /\ Len(files) \in Nat \ {0}
        /\ \A i \in 1..(Len(files) - 1) : f[i] = files[i]
    BY PhraseType DEF FileRecords
  <1> HIDE DEF f, r
  <1>2. /\ Append(f, r) \in Seq(FileRecords) /\ Len(Append(f, r)) = Len(f) + 1
        /\ \A i \in 1..Len(f) : Append(f, r)[i] = f[i]
        /\ Append(f, r)[Len(f) + 1] = r
    <2>1. IsASeq(f)
      BY <1>1 DEF IsASeq
    <2> QED BY <1>1, <2>1, Appended
  <1>3. Len(f) + 1 = Len(files)
    BY <1>1
  <1> QED BY <1>1, <1>2, <1>3 DEF AfterPhrase, f, r

\* An exception on its way, a call and a frame belong to a phrase (the toplevel's loop).
Working == exc # "none" \/ calls # <<>> \/ frame # NoFrame => files # <<>> /\ File.todo # <<>>

\* Every source of an attempt is one of phrases (scan_prove_bindings).
LEMMA SourceType ==
  ASSUME AttemptAssumption, attempt \in Attempts
  PROVE  /\ attempt.dep \in Seq([do : PhraseKinds, name : PhraseNames])
         /\ attempt.dep \in Seq(Phrases)
         /\ attempt.prepare \in BOOLEAN
  <1> DEFINE P == [do : PhraseKinds, name : PhraseNames]
  <1>1. attempt.dep \in Seq(P)
    BY DEF AttemptAssumption
  <1>2. P \subseteq Phrases
    BY DEF Phrases
  <1>3. attempt.prepare \in BOOLEAN
    BY DEF AttemptAssumption
  <1> HIDE DEF P
  <1>4. attempt.dep \in Seq(Phrases)
    BY <1>1, <1>2
  <1> QED BY <1>1, <1>3, <1>4 DEF P

\* What the toplevel prints of an exception, one line after the other (Uncaught).
LEMMA AppendedTwo ==
  ASSUME NEW s, IsASeq(s), NEW a, NEW b
  PROVE  s \o <<a, b>> = Append(Append(s, a), b)
  <1>1. PICK S : s \in Seq(S)
    BY DEF IsASeq
  <1> DEFINE T == S \cup {a, b}
  <1>2. s \in Seq(T) /\ a \in T /\ b \in T
    BY <1>1
  <1> HIDE DEF T
  <1> QED BY <1>2

\* What a phrase, or its exception, leaves of the types (the toplevel's binding).
LEMMA BoundType ==
  ASSUME AttemptTypeOK, files # <<>>, File.todo # <<>>, NEW what \in {"quoted", "other"},
         Bound(Phrase.name, what)
  PROVE  /\ files' \in Seq(FileRecords) /\ IsASeq(printed') /\ printed' # <<>>
         /\ value' \in [Names -> {"none", "quoted", "other"}] /\ exc' = "none"
  <1>1. files' \in Seq(FileRecords)
    BY AfterPhraseType DEF AttemptTypeOK, Bound, Advance
  <1>2. IsASeq(printed') /\ printed' # <<>>
    BY Appended DEF AttemptTypeOK, Bound, Prints
  <1>3. value' \in [Names -> {"none", "quoted", "other"}]
    BY DEF AttemptTypeOK, Bound
  <1>4. exc' = "none"
    BY DEF Bound, Nothing
  <1> QED BY <1>1, <1>2, <1>3, <1>4

\* Every step keeps the types.
LEMMA AttemptTypeStep ==
  ASSUME AttemptAssumption, AttemptTypeOK, Working, [AttemptNext]_attemptVars
  PROVE  AttemptTypeOK'
  <1> USE DEF SameAttempt, readVars
  <1>0. \A r : IsASeq(Append(printed, r)) /\ Append(printed, r) # <<>>
    BY Appended DEF AttemptTypeOK
  <1>1. CASE Evaluates
    <2>1. files # <<>> /\ File.todo # <<>>
      BY <1>1 DEF Evaluates, AtPhrase, InLoad
    <2>2. Bound(Phrase.name, "quoted") \/ Bound(Phrase.name, "other")
      BY <1>1 DEF Evaluates
    <2>3. /\ files' \in Seq(FileRecords) /\ IsASeq(printed') /\ printed' # <<>>
          /\ value' \in [Names -> {"none", "quoted", "other"}] /\ exc' = "none"
      BY <2>1, <2>2, BoundType
    <2>4. axioms' \in Nat
      BY <1>1 DEF Evaluates, AttemptTypeOK
    <2> QED BY <1>1, <2>3, <2>4 DEF Evaluates, AttemptTypeOK, NoCall
  <1>2. CASE Include
    <2>1. files # <<>> /\ File.todo # <<>>
      BY <1>2 DEF Include, AtPhrase, InLoad
    <2> DEFINE r == [of |-> "dep", todo |-> attempt.dep]
    <2>2. r \in FileRecords
      <3>1. attempt.dep \in Seq(Phrases)
        BY SourceType DEF AttemptTypeOK
      <3> QED BY <3>1 DEF FileRecords
    <2>3. AfterPhrase \in Seq(FileRecords) /\ files' = Append(AfterPhrase, r)
      BY <1>2, <2>1, AfterPhraseType DEF Include, AttemptTypeOK
    <2> HIDE DEF r
    <2>4. files' \in Seq(FileRecords)
      BY <2>2, <2>3
    <2> QED BY <1>2, <2>4 DEF Include, AttemptTypeOK, NoCall
  <1>3. CASE FileEnds
    <2>1. files' \in Seq(FileRecords)
      BY <1>3, PhraseType DEF FileEnds, InLoad, AttemptTypeOK
    <2> QED BY <1>3, <2>1 DEF FileEnds, AttemptTypeOK, NoCall
  <1>4. CASE Probe \/ Finish
    <2>1. files' \in Seq(FileRecords)
      BY <1>4, AfterPhraseType DEF Probe, Finish, AtPhrase, InLoad, Advance, AttemptTypeOK
    <2>2. IsASeq(printed') /\ printed' # <<>>
      BY <1>0, <1>4 DEF Probe, Finish, Prints
    <2> QED BY <1>4, <2>1, <2>2 DEF Probe, Finish, AttemptTypeOK, NoCall
  <1>5. CASE ForkBasis
    <2>1. files' \in Seq(FileRecords)
      BY <1>5, AfterPhraseType DEF ForkBasis, AtPhrase, InLoad, Advance, AttemptTypeOK
    <2> QED BY <1>5, <2>1 DEF ForkBasis, AttemptTypeOK, NoCall
  <1>6. CASE PhraseRaises
    <2>1. exc' \in Errors \cup {"none", "unbound"}
      BY <1>6 DEF PhraseRaises
    <2> QED BY <1>6, <2>1 DEF PhraseRaises, AttemptTypeOK, NoCall
  <1>7. CASE Enter
    <2>1. PICK loc \in Locations : calls' = Append(calls, [no |-> count', loc |-> loc])
      BY <1>7 DEF Enter
    <2>2. count' \in Nat
      BY <1>7 DEF Enter, AttemptTypeOK
    <2>3. loc \in SUBSET Places
      <3>1. CASE calls = <<>>
        <4>1. files # <<>> /\ File.todo # <<>>
          BY <1>7, <3>1 DEF Enter, AtPhrase, InLoad
        <4>2. Phrase.name \in PhraseNames /\ File.of \in {"entry", "dep"}
          BY <4>1, PhraseType DEF AttemptTypeOK, Phrases
        <4> QED BY <2>1, <3>1, <4>2 DEF Locations, Places
      <3>2. CASE calls # <<>>
        <4>1. Last(calls) \in CallRecords
          BY <3>2, FrontType DEF AttemptTypeOK
        <4> QED BY <2>1, <3>2, <4>1 DEF Locations, CallRecords
      <3> QED BY <3>1, <3>2
    <2>4. calls' \in Seq(CallRecords)
      <3>1. [no |-> count', loc |-> loc] \in CallRecords
        BY <2>2, <2>3 DEF CallRecords
      <3> QED BY <2>1, <3>1 DEF AttemptTypeOK
    <2>5. IsASeq(printed') /\ (printed' # printed => printed' # <<>>)
      BY <1>0, <1>7 DEF Enter, AttemptTypeOK
    <2> QED BY <1>7, <2>2, <2>4, <2>5 DEF Enter, AttemptTypeOK
  <1>8. ASSUME Leave, calls # <<>>
        PROVE  /\ calls' \in Seq(CallRecords) /\ IsASeq(printed')
               /\ printed' # printed => printed' # <<>>
    BY <1>0, <1>8, FrontType DEF Leave, AttemptTypeOK
  <1>9. CASE Returns
    <2>1. Leave /\ calls # <<>>
      BY <1>9 DEF Returns
    <2> QED BY <1>8, <1>9, <2>1 DEF Returns, AttemptTypeOK
  <1>10. CASE ProveFails
    <2>1. Leave /\ calls # <<>> /\ exc' \in Errors
      BY <1>10 DEF ProveFails
    <2>2. frame' = NoFrame \/ frame' \in FrameRecords
      <3>1. Last(calls).loc \in SUBSET Places
        <4>1. Last(calls) \in CallRecords
          BY <2>1, FrontType DEF AttemptTypeOK
        <4> QED BY <4>1 DEF CallRecords
      <3> QED BY <1>10, <3>1 DEF ProveFails, FrameRecords
    <2> QED BY <1>8, <1>10, <2>1, <2>2 DEF ProveFails, AttemptTypeOK
  <1>11. CASE Emit
    <2>1. IsASeq(printed') /\ printed' # <<>>
      BY <1>0, <1>11 DEF Emit, Prints
    <2>2. frame' = NoFrame \/ frame' \in FrameRecords
      BY <1>11 DEF Emit, AttemptTypeOK, FrameRecords
    <2> QED BY <1>11, <2>1, <2>2 DEF Emit, AttemptTypeOK
  <1>12. CASE TacticCatches
    BY <1>12 DEF TacticCatches, AttemptTypeOK, NoCall, Nothing
  <1>13. CASE PhraseCatches
    <2>1. CASE Bound(Phrase.name, "other")
      <3>0. UNCHANGED <<calls, count, frame, ended, axioms, attempt, stage, turn, torn>>
        BY <1>13, <2>1 DEF PhraseCatches, NoCall
      <3>1. File.todo # <<>> /\ files # <<>>
        BY <1>13 DEF PhraseCatches, Raising, InLoad, Working, Nothing
      <3>2. /\ files' \in Seq(FileRecords) /\ IsASeq(printed') /\ printed' # <<>>
            /\ value' \in [Names -> {"none", "quoted", "other"}] /\ exc' = "none"
        BY <2>1, <3>1, BoundType
      <3> QED BY <3>0, <3>2 DEF AttemptTypeOK
    <2>2. CASE ~Bound(Phrase.name, "other")
      <3>1. PICK e \in Errors \ {exc} : exc' = e
        BY <1>13, <2>2 DEF PhraseCatches
      <3>2. UNCHANGED <<files, ready, value, ended, printed, calls, count, frame, axioms,
                        attempt, stage, turn, torn>>
        BY <1>13, <2>2 DEF PhraseCatches, NoCall
      <3> QED BY <3>1, <3>2 DEF AttemptTypeOK
    <2> QED BY <2>1, <2>2
  <1>14. CASE Times
    BY <1>0, <1>14 DEF Times, Prints, AttemptTypeOK, NoCall
  <1>15. CASE Uncaught
    <2>1. files' \in Seq(FileRecords)
      BY <1>15, PhraseType DEF Uncaught, Raising, InLoad, AttemptTypeOK
    <2>2. /\ printed' = printed \o <<[k |-> "exn", exc |-> exc], Rec("included")>>
          /\ ended' = Append(ended, [of |-> File.of, phrase |-> Phrase])
      BY <1>15 DEF Uncaught
    <2>3. IsASeq(printed') /\ printed' # <<>>
      <3> DEFINE a == [k |-> "exn", exc |-> exc]
                 b == Rec("included")
      <3>1. IsASeq(printed) /\ printed' = printed \o <<a, b>>
        BY <2>2 DEF AttemptTypeOK
      <3> HIDE DEF a, b
      <3>2. printed' = Append(Append(printed, a), b)
        BY <3>1, AppendedTwo
      <3>3. IsASeq(Append(printed, a))
        BY <3>1, Appended
      <3> QED BY <3>2, <3>3, Appended
    <2>4. ended' \in Seq(EndedRecords)
      <3> DEFINE r == [of |-> File.of, phrase |-> Phrase]
      <3>1. r \in EndedRecords
        <4>1. files # <<>> /\ File.todo # <<>>
          BY <1>15 DEF Uncaught, Raising, InLoad, Working, Nothing
        <4>2. File.of \in {"entry", "dep"} /\ Phrase \in Phrases
          BY <4>1, PhraseType DEF AttemptTypeOK
        <4> QED BY <4>2 DEF EndedRecords
      <3>2. ended' = Append(ended, r) /\ ended \in Seq(EndedRecords)
        BY <2>2 DEF AttemptTypeOK
      <3> HIDE DEF r
      <3> QED BY <3>1, <3>2
    <2>5. UNCHANGED <<value, calls, count, frame, axioms, attempt, stage, turn, torn>> /\ exc' = "none"
      BY <1>15 DEF Uncaught, NoCall, Nothing
    <2> QED BY <2>1, <2>3, <2>4, <2>5 DEF AttemptTypeOK
  <1>16. CASE Delta \/ Token
    BY <1>0, <1>16 DEF Delta, Token, Prints, AttemptTypeOK, loadVars
  <1>17. CASE Completes
    BY <1>17 DEF Completes, Read, AttemptTypeOK, loadVars
  <1>18. CASE Cut
    BY <1>18 DEF Cut, CutPoints, Read, AttemptTypeOK, loadVars
  <1>19. CASE Adopt
    <2>1. Payload(attempt.entry, FALSE) \in Seq(Phrases)
      BY PayloadShape DEF AttemptTypeOK
    <2>2. files' \in Seq(FileRecords)
      <3> DEFINE f == [of |-> "entry", todo |-> Payload(attempt.entry, FALSE)]
      <3>1. f \in FileRecords /\ files' = <<f>>
        BY <1>19, <2>1 DEF Adopt, FileRecords
      <3> HIDE DEF f
      <3> QED BY <3>1
    <2>3. IsASeq(<<>>) /\ <<>> \in Seq(EndedRecords)
      BY DEF IsASeq
    <2>4. value' \in [Names -> {"none", "quoted", "other"}] /\ calls' \in Seq(CallRecords)
      BY <1>19 DEF Adopt, Nothing
    <2> QED BY <1>19, <2>2, <2>3, <2>4 DEF Adopt, AttemptTypeOK, Nothing
  <1>20. CASE UNCHANGED attemptVars
    BY <1>20 DEF attemptVars, loadVars, AttemptTypeOK
  <1> QED BY <1>1, <1>2, <1>3, <1>4, <1>5, <1>6, <1>7, <1>9, <1>10, <1>11, <1>12, <1>13,
             <1>14, <1>15, <1>16, <1>17, <1>18, <1>19, <1>20 DEF AttemptNext

-----------------------------------------------------------------------------
(* The phrase at work.                                                     *)

Here == {<<File.of, Phrase.name>>}

\* Calls and frames are those of the binding whose phrase is evaluated.
Walking ==
  /\ Working
  /\ calls # <<>> \/ frame # NoFrame => Phrase.do = "bind"
  /\ \A i \in DOMAIN calls : calls[i].loc \subseteq Here
  /\ frame # NoFrame => exc # "none" /\ frame.loc \subseteq Here

\* Without calls, exception and frame, nothing is to be said of the phrase.
LEMMA Idle ==
  ASSUME calls' = <<>>, exc' = "none", frame' = NoFrame
  PROVE  Walking'
  BY DEF Walking, Working

\* The innermost call, and the calls around it (leave).
LEMMA CallsType ==
  ASSUME AttemptTypeOK, calls # <<>>
  PROVE  /\ Len(calls) \in Nat \ {0} /\ DOMAIN calls = 1..Len(calls)
         /\ Len(calls) \in DOMAIN calls /\ Last(calls) = calls[Len(calls)]
         /\ Last(calls) \in CallRecords
         /\ Front(calls) \in Seq(CallRecords) /\ Len(Front(calls)) = Len(calls) - 1
         /\ DOMAIN Front(calls) = 1..(Len(calls) - 1)
         /\ \A i \in 1..(Len(calls) - 1) : Front(calls)[i] = calls[i]
  <1>1. calls \in Seq(CallRecords)
    BY DEF AttemptTypeOK
  <1>2. /\ Len(calls) \in Nat \ {0} /\ DOMAIN calls = 1..Len(calls)
        /\ Last(calls) = calls[Len(calls)] /\ Last(calls) \in CallRecords
        /\ Front(calls) \in Seq(CallRecords) /\ Len(Front(calls)) = Len(calls) - 1
        /\ \A i \in 1..(Len(calls) - 1) : Front(calls)[i] = calls[i]
    BY <1>1, FrontType
  <1>3. DOMAIN Front(calls) = 1..(Len(calls) - 1) /\ Len(calls) \in 1..Len(calls)
    BY <1>2
  <1> QED BY <1>2, <1>3

\* Every step keeps calls and frames to their phrase.
LEMMA WalkingStep ==
  ASSUME AttemptAssumption, AttemptTypeOK, Walking, [AttemptNext]_attemptVars
  PROVE  Walking'
  <1>0. UNCHANGED files => File' = File /\ Phrase' = Phrase /\ Here' = Here
    BY DEF Here, File, Phrase
  <1>1. CASE Evaluates
    BY <1>1, Idle DEF Evaluates, AtPhrase, InLoad, Bound, NoCall, Nothing
  <1>2. CASE Include \/ FileEnds \/ Probe \/ Finish \/ ForkBasis
    BY <1>2, Idle DEF Include, FileEnds, Probe, Finish, ForkBasis, AtPhrase, InLoad, NoCall, Nothing
  <1>6. CASE PhraseRaises
    <2>1. files # <<>> /\ File.todo # <<>> /\ calls' = <<>> /\ frame' = NoFrame /\ files' = files
      BY <1>6 DEF PhraseRaises, AtPhrase, InLoad, NoCall
    <2> QED BY <1>0, <2>1 DEF Walking, Working
  <1>7. CASE Enter
    <2>1. PICK loc \in Locations : calls' = Append(calls, [no |-> count', loc |-> loc])
      BY <1>7 DEF Enter
    <2>2. files' = files /\ files # <<>> /\ exc' = "none" /\ frame' = NoFrame
      BY <1>7 DEF Enter, AtPhrase, InLoad, Nothing
    <2>3. File.todo # <<>> /\ Phrase.do = "bind"
      BY <1>7 DEF Enter, AtPhrase, InLoad, Walking, Working
    <2>4. loc \subseteq Here
      <3>1. CASE calls = <<>>
        BY <2>1, <3>1 DEF Locations, Here
      <3>2. CASE calls # <<>>
        <4>1. Len(calls) \in DOMAIN calls /\ Last(calls) = calls[Len(calls)]
          BY <3>2, CallsType
        <4> QED BY <2>1, <3>2, <4>1 DEF Locations, Walking
      <3> QED BY <3>1, <3>2
    <2>5. ASSUME NEW i \in DOMAIN calls' PROVE calls'[i].loc \subseteq Here
      <3> DEFINE r == [no |-> count', loc |-> loc]
      <3>1. /\ DOMAIN calls' = 1..(Len(calls) + 1) /\ DOMAIN calls = 1..Len(calls)
            /\ Len(calls) \in Nat
            /\ \A j \in 1..Len(calls) : calls'[j] = calls[j]
            /\ calls'[Len(calls) + 1] = r
        <4>1. IsASeq(calls) /\ calls' = Append(calls, r)
          BY <2>1 DEF AttemptTypeOK, IsASeq
        <4> HIDE DEF r
        <4> QED BY <4>1, Appended
      <3>2. CASE i = Len(calls) + 1
        BY <2>4, <3>1, <3>2
      <3>3. CASE i # Len(calls) + 1
        <4>1. i \in DOMAIN calls /\ calls'[i] = calls[i]
          BY <2>5, <3>1, <3>3
        <4> QED BY <4>1 DEF Walking
      <3> QED BY <3>2, <3>3
    <2> QED BY <1>0, <2>2, <2>3, <2>5 DEF Walking, Working
  <1>8. ASSUME Leave, calls # <<>>, files' = files
        PROVE  /\ \A i \in DOMAIN calls' : calls'[i].loc \subseteq Here
               /\ Last(calls).loc \subseteq Here
               /\ Phrase.do = "bind" /\ files # <<>> /\ File.todo # <<>>
    <2>1. /\ calls' = Front(calls) /\ calls' \in Seq(CallRecords)
          /\ Len(calls) \in DOMAIN calls /\ Last(calls) = calls[Len(calls)]
          /\ DOMAIN calls' = 1..(Len(calls) - 1) /\ DOMAIN calls = 1..Len(calls)
          /\ Len(calls) \in Nat
          /\ \A i \in 1..(Len(calls) - 1) : calls'[i] = calls[i]
      BY <1>8, CallsType DEF Leave
    <2>2. ASSUME NEW i \in DOMAIN calls' PROVE calls'[i].loc \subseteq Here
      <3>1. i \in DOMAIN calls /\ calls'[i] = calls[i]
        BY <2>1, <2>2
      <3> QED BY <3>1 DEF Walking
    <2> QED BY <1>8, <2>1, <2>2 DEF Walking, Working
  <1>9. CASE Returns
    <2>1. Leave /\ calls # <<>> /\ files' = files /\ exc' = exc /\ frame' = NoFrame
      BY <1>9 DEF Returns, InLoad
    <2> QED BY <1>0, <1>8, <2>1 DEF Walking, Working
  <1>10. CASE ProveFails
    <2>1. Leave /\ calls # <<>> /\ files' = files /\ exc' \in Errors
      BY <1>10 DEF ProveFails
    <2>2. frame' # NoFrame => frame'.loc = Last(calls).loc
      BY <1>10 DEF ProveFails
    <2>3. exc' # "none"
      BY <2>1 DEF AttemptAssumption
    <2> QED BY <1>0, <1>8, <2>1, <2>2, <2>3 DEF Walking, Working
  <1>11. CASE Emit
    <2>1. UNCHANGED <<files, calls, exc>> /\ frame # NoFrame
      BY <1>11 DEF Emit
    <2>2. frame' # NoFrame => frame'.loc = frame.loc
      BY <1>11 DEF Emit, AttemptTypeOK, FrameRecords, NoFrame
    <2> QED BY <1>0, <2>1, <2>2 DEF Walking, Working
  <1>12. CASE TacticCatches
    <2>1. UNCHANGED <<files, calls, frame>> /\ exc' = "none" /\ frame = NoFrame
      BY <1>12 DEF TacticCatches, Raising, InLoad, NoCall, Nothing
    <2> QED BY <1>0, <1>12, <2>1 DEF Walking, Working, TacticCatches
  <1>13. CASE PhraseCatches
    <2>1. calls' = <<>> /\ frame' = NoFrame /\ exc # "none"
      BY <1>13 DEF PhraseCatches, Raising, InLoad, NoCall, Nothing
    <2>2. exc' = "none" \/ files' = files
      BY <1>13 DEF PhraseCatches, Bound, Nothing
    <2> QED BY <1>0, <2>1, <2>2, Idle DEF Walking, Working
  <1>14. CASE Times
    <2>1. UNCHANGED <<files, calls, frame, exc>>
      BY <1>14 DEF Times, NoCall
    <2> QED BY <1>0, <2>1 DEF Walking, Working
  <1>15. CASE Uncaught \/ Adopt
    BY <1>15, Idle DEF Uncaught, Raising, InLoad, NoCall, Nothing, Adopt
  <1>16. CASE UNCHANGED <<files, calls, frame, exc>>
    BY <1>0, <1>16 DEF Walking, Working
  <1>17. CASE Delta \/ Token \/ Completes \/ Cut \/ UNCHANGED attemptVars
    BY <1>16, <1>17 DEF Delta, Token, Completes, Cut, Read, attemptVars, loadVars
  <1> QED BY <1>1, <1>2, <1>6, <1>7, <1>9, <1>10, <1>11, <1>12, <1>13, <1>14, <1>15, <1>17
          DEF AttemptNext

-----------------------------------------------------------------------------
(* What a passed attempt proves.                                           *)

\* From its probes on, a source has last phrases only.
LastOnes(todo, source) ==
  \A i, j \in DOMAIN todo : i <= j /\ todo[i].do \in LastKinds => todo[j] \in LastPhrases(source)

Shaped ==
  /\ files # <<>> => LastOnes(files[1].todo, Source)
  /\ \A f \in DOMAIN files : f # 1 =>
       \A i \in DOMAIN files[f].todo : files[f].todo[i].do \in PhraseKinds

\* No phrase but the last ones is to come.
AtLast ==
  files # <<>> => /\ Len(files) = 1
                  /\ \A i \in DOMAIN files[1].todo : files[1].todo[i].do \in LastKinds

ProbesTrue ==
  \A i \in DOMAIN printed : printed[i].k = "ok" =>
    /\ AtLast
    /\ \A c \in Claims : c.do = "bind" /\ c.name = printed[i].name => value[c.name] = "quoted"

FailuresTold == ended # <<>> => \E i \in DOMAIN printed : printed[i] = Rec("included")

DeltaTrue ==
  /\ baseline = 0
  /\ \A i \in DOMAIN printed : printed[i].k = "delta" => turn # "load" /\ printed[i].axioms = axioms

EndsWell ==
  /\ turn \in {"delta", "exited"} => files = <<>>
  /\ turn = "read" /\ transport = "completed" => files = <<>> /\ torn = "no"

PassedInv == Shaped /\ ProbesTrue /\ FailuresTold /\ DeltaTrue /\ EndsWell

\* The transcript q is p and lines whose kind is not among these.
Grows(p, q, kinds) ==
  /\ Len(p) \in Nat /\ Len(q) \in Nat /\ Len(p) <= Len(q)
  /\ DOMAIN p = 1..Len(p) /\ DOMAIN q = 1..Len(q)
  /\ \A i \in 1..Len(p) : q[i] = p[i]
  /\ \A i \in 1..Len(q) : i > Len(p) => q[i].k \notin kinds

\* A line more, of another kind (Prints).
LEMMA GrowsByOne ==
  ASSUME NEW p, IsASeq(p), NEW r, NEW kinds, r.k \notin kinds
  PROVE  Grows(p, p, kinds) /\ Grows(p, Append(p, r), kinds)
  <1> DEFINE q == Append(p, r)
  <1>1. /\ Len(p) \in Nat /\ DOMAIN p = 1..Len(p) /\ Len(q) = Len(p) + 1
        /\ DOMAIN q = 1..(Len(p) + 1) /\ \A i \in 1..Len(p) : q[i] = p[i]
        /\ q[Len(p) + 1] = r
    BY Appended
  <1> HIDE DEF q
  <1>2. Grows(p, q, kinds)
    <2>1. ASSUME NEW i \in 1..Len(q), i > Len(p) PROVE q[i].k \notin kinds
      <3>1. i = Len(p) + 1
        BY <1>1, <2>1
      <3> QED BY <1>1, <3>1
    <2> QED BY <1>1, <2>1 DEF Grows
  <1>3. Grows(p, p, kinds)
    BY <1>1 DEF Grows
  <1> QED BY <1>2, <1>3 DEF q

\* Only a probe says that a claim holds, and only the wrapper's end counts axioms.
LEMMA PrintedGrows ==
  ASSUME AttemptTypeOK, [AttemptNext]_attemptVars, ~Probe, ~Delta, ~Adopt
  PROVE  Grows(printed, printed', {"ok", "delta"})
  <1> DEFINE kinds == {"ok", "delta"}
  <1>0. IsASeq(printed)
    BY DEF AttemptTypeOK
  <1>1. ASSUME NEW r, r.k \notin kinds, printed' = Append(printed, r)
        PROVE  Grows(printed, printed', kinds)
    <2> HIDE DEF kinds
    <2> QED BY <1>0, <1>1, GrowsByOne
  <1>2. ASSUME printed' = printed PROVE Grows(printed, printed', kinds)
    <2>1. Rec("val").k \notin kinds
      BY DEF Rec
    <2> HIDE DEF kinds
    <2> QED BY <1>0, <1>2, <2>1, GrowsByOne
  <1>3. CASE Uncaught
    <2> DEFINE a == [k |-> "exn", exc |-> exc]
               b == Rec("included")
    <2>1. printed' = printed \o <<a, b>> /\ a.k \notin kinds /\ b.k \notin kinds
      BY <1>3 DEF Uncaught, Rec
    <2> HIDE DEF a, b, kinds
    <2>2. printed' = Append(Append(printed, a), b) /\ IsASeq(Append(printed, a))
      BY <1>0, <2>1, AppendedTwo, Appended
    <2>3. Grows(printed, Append(printed, a), kinds) /\ Grows(Append(printed, a), printed', kinds)
      BY <1>0, <2>1, <2>2, GrowsByOne
    <2> DEFINE m == Append(printed, a)
    <2> HIDE DEF m
    <2>4. Grows(printed, m, kinds) /\ Grows(m, printed', kinds)
      BY <2>3 DEF m
    <2>5. ASSUME NEW i \in 1..Len(printed'), i > Len(printed) PROVE printed'[i].k \notin kinds
      <3>1. CASE i \in 1..Len(m)
        <4>1. printed'[i] = m[i] /\ m[i].k \notin kinds
          BY <2>4, <2>5, <3>1 DEF Grows
        <4> QED BY <4>1
      <3>2. CASE i \notin 1..Len(m)
        BY <2>4, <2>5, <3>2 DEF Grows
      <3> QED BY <3>1, <3>2
    <2>6. ASSUME NEW i \in 1..Len(printed) PROVE printed'[i] = printed[i]
      <3>1. i \in 1..Len(m) /\ m[i] = printed[i]
        BY <2>4 DEF Grows
      <3> QED BY <2>4, <3>1 DEF Grows
    <2>7. Len(printed) <= Len(printed')
      BY <2>4 DEF Grows
    <2>8. Grows(printed, printed', kinds)
      BY <2>4, <2>5, <2>6, <2>7 DEF Grows
    <2> QED BY <2>8 DEF kinds
  <1>4. CASE Evaluates \/ PhraseCatches \/ Finish \/ Times \/ Token
    <2>1. \/ printed' = printed
          \/ \E r : printed' = Append(printed, r) /\ r.k \in {"val", "done", "timing", "token"}
      <3>1. CASE Evaluates \/ PhraseCatches
        <4>1. printed' = printed \/ printed' = Append(printed, [k |-> "val", name |-> Phrase.name])
          BY <3>1 DEF Evaluates, PhraseCatches, Bound, Prints
        <4> QED BY <4>1
      <3>2. CASE Finish \/ Times \/ Token
        <4>1. \/ printed' = Append(printed, [k |-> "done"])
              \/ printed' = Append(printed, [k |-> "timing", exc |-> exc])
              \/ printed' = Append(printed, [k |-> "token"])
          BY <3>2 DEF Finish, Times, Token, Prints, Rec
        <4> QED BY <4>1
      <3> QED BY <1>4, <3>1, <3>2
    <2> QED BY <1>1, <1>2, <2>1
  <1>5. CASE Enter
    <2>1. PICK loc \in Locations :
            printed' = IF Len(calls') <= MaxDepth
                       THEN Append(printed, [k |-> "enter", no |-> count', loc |-> loc])
                       ELSE IF Len(calls') = MaxDepth + 1
                       THEN Append(printed, [k |-> "overflow", no |-> count']) ELSE printed
      BY <1>5 DEF Enter
    <2> QED BY <1>1, <1>2, <2>1
  <1>6. CASE Returns \/ ProveFails
    <2>1. \/ printed' = Append(printed, [k |-> "leave", no |-> Last(calls).no])
          \/ printed' = Append(printed, [k |-> "resume", no |-> Last(calls).no, last |-> count])
          \/ printed' = printed
      BY <1>6 DEF Returns, ProveFails, Leave
    <2> QED BY <1>1, <1>2, <2>1
  <1>7. CASE Emit
    <2>1. \/ printed' = Append(printed, [k |-> "truncated"])
          \/ printed' = Append(printed, [k |-> "begin", exc |-> exc, loc |-> frame.loc])
          \/ printed' = Append(printed, [k |-> "end"])
      BY <1>7 DEF Emit, Prints, Rec
    <2> QED BY <1>1, <2>1
  <1>8. CASE \/ Include \/ FileEnds \/ ForkBasis \/ PhraseRaises \/ TacticCatches \/ Completes
             \/ Cut \/ UNCHANGED attemptVars
    BY <1>2, <1>8 DEF Include, FileEnds, ForkBasis, PhraseRaises, TacticCatches, Completes, Cut,
                      Read, attemptVars
  <1> QED BY <1>3, <1>4, <1>5, <1>6, <1>7, <1>8 DEF AttemptNext

Leaving == files # <<>> /\ files' = Front(files)
Goes == files # <<>> /\ File.todo # <<>> /\ files' = AfterPhrase
Loads == /\ files # <<>> /\ File.todo # <<>> /\ Phrase.do = "include"
         /\ files' = Append(AfterPhrase, [of |-> "dep", todo |-> attempt.dep])

\* What a step may do to the files that are being loaded, and what a phrase may bind.
LEMMA Moves ==
  ASSUME Working, [AttemptNext]_attemptVars, ~Adopt
  PROVE  /\ files' = files \/ Leaving \/ Goes \/ Loads
         /\ attempt' = attempt /\ stage' = stage /\ baseline' = baseline
         /\ value' = value \/ /\ files # <<>> /\ File.todo # <<>> /\ Phrase.do \in PhraseKinds
         /\ axioms' = axioms \/ turn = "load"
  <1> USE DEF SameAttempt, NoCall
  <1>1. CASE Evaluates
    <2>1. Goes /\ Phrase.do \in PhraseKinds /\ turn = "load"
      BY <1>1 DEF Evaluates, AtPhrase, InLoad, Bound, Advance, Goes, PhraseKinds
    <2> QED BY <1>1, <2>1 DEF Evaluates, Goes
  <1>2. CASE Include
    <2>1. Phrase.do = "include" /\ files # <<>> /\ File.todo # <<>>
      BY <1>2 DEF Include, AtPhrase, InLoad
    <2> QED BY <1>2, <2>1 DEF Include, Loads
  <1>3. CASE FileEnds
    BY <1>3 DEF FileEnds, InLoad, Leaving
  <1>4. CASE Probe \/ Finish \/ ForkBasis
    BY <1>4 DEF Probe, Finish, ForkBasis, AtPhrase, InLoad, Advance, Goes
  <1>5. CASE PhraseCatches
    <2>1. files # <<>> /\ File.todo # <<>> /\ Phrase.do \in PhraseKinds
      BY <1>5 DEF PhraseCatches, Raising, InLoad, Working, Nothing, PhraseKinds
    <2>2. files' = files \/ files' = AfterPhrase
      BY <1>5 DEF PhraseCatches, Bound, Advance
    <2> QED BY <1>5, <2>1, <2>2 DEF PhraseCatches, Goes
  <1>6. CASE Uncaught
    BY <1>6 DEF Uncaught, Raising, InLoad, Leaving
  <1>7. CASE \/ PhraseRaises \/ Enter \/ Returns \/ ProveFails \/ Emit \/ TacticCatches \/ Times
    BY <1>7 DEF PhraseRaises, Enter, Returns, ProveFails, Leave, Emit, TacticCatches, Times
  <1>8. CASE Delta \/ Token \/ Completes \/ Cut \/ UNCHANGED attemptVars
    BY <1>8 DEF Delta, Token, Completes, Cut, Read, attemptVars, loadVars
  <1> QED BY <1>1, <1>2, <1>3, <1>4, <1>5, <1>6, <1>7, <1>8 DEF AttemptNext

\* The phrases after the first (the toplevel's loop).
LEMMA TailOf ==
  ASSUME NEW S, NEW s \in Seq(S), s # <<>>
  PROVE  /\ Tail(s) \in Seq(S) /\ DOMAIN Tail(s) = 1..(Len(s) - 1)
         /\ Len(s) \in Nat \ {0} /\ DOMAIN s = 1..Len(s)
         /\ \A i \in 1..(Len(s) - 1) : Tail(s)[i] = s[i + 1]
  OBVIOUS

\* Every step keeps the probes and the markers at the end of the source.
LEMMA ShapedStep ==
  ASSUME AttemptAssumption, AttemptTypeOK, Working, Shaped, [AttemptNext]_attemptVars
  PROVE  Shaped'
  <1>1. CASE Adopt
    <2> DEFINE f == [of |-> "entry", todo |-> Payload(attempt.entry, FALSE)]
    <2>1. files' = <<f>> /\ Source' = attempt.entry
      BY <1>1 DEF Adopt, Source
    <2> DEFINE pay == Payload(attempt.entry, FALSE)
    <2>5. /\ Len(attempt.entry) \in Nat /\ pay \in Seq(Phrases)
          /\ \A k \in DOMAIN pay :
               IF k <= Len(attempt.entry) THEN pay[k].do \in PhraseKinds
               ELSE pay[k] \in LastPhrases(attempt.entry)
      BY PayloadShape DEF AttemptTypeOK
    <2>6. f.todo = pay
      OBVIOUS
    <2> HIDE DEF pay, f
    <2>2. ASSUME NEW i \in DOMAIN pay, NEW j \in DOMAIN pay, i <= j, pay[i].do \in LastKinds
          PROVE  pay[j] \in LastPhrases(attempt.entry)
      <3>2. i \in Nat /\ j \in Nat
        BY <2>2, <2>5
      <3>3. ~ (i <= Len(attempt.entry))
        BY <2>2, <2>5 DEF LastKinds, PhraseKinds
      <3> QED BY <2>2, <2>5, <3>2, <3>3
    <2>3. LastOnes(f.todo, attempt.entry)
      BY <2>2, <2>6 DEF LastOnes
    <2>4. DOMAIN files' = {1} /\ files'[1] = f
      BY <2>1
    <2> QED BY <2>1, <2>3, <2>4 DEF Shaped
  <1>2. CASE ~Adopt
    <2>0. /\ files' = files \/ Leaving \/ Goes \/ Loads
          /\ Source' = Source
      BY <1>2, Moves DEF Source
    <2>1. CASE files' = files
      BY <2>0, <2>1 DEF Shaped
    <2>2. CASE Leaving
      <3>1. /\ Len(files) \in Nat \ {0} /\ DOMAIN files = 1..Len(files)
            /\ DOMAIN files' = 1..(Len(files) - 1)
            /\ files' # <<>> => 1 \in DOMAIN files'
            /\ \A i \in 1..(Len(files) - 1) : files'[i] = files[i]
        <4>1. files \in Seq(FileRecords) /\ files # <<>> /\ files' = Front(files)
          BY <2>2 DEF Leaving, AttemptTypeOK
        <4>2. /\ Len(files) \in Nat \ {0} /\ DOMAIN files = 1..Len(files)
              /\ files' \in Seq(FileRecords) /\ Len(files') = Len(files) - 1
              /\ \A i \in 1..(Len(files) - 1) : files'[i] = files[i]
          BY <4>1, FrontType
        <4> QED BY <4>2
      <3> QED BY <2>0, <2>2, <3>1 DEF Shaped, Leaving
    <2>3. ASSUME files # <<>>, File.todo # <<>>
          PROVE  /\ Len(files) = 1 => LastOnes(AfterPhrase[1].todo, Source)
                 /\ \A f \in 1..(Len(files) - 1) : AfterPhrase[f] = files[f]
                 /\ Len(files) # 1 => \A i \in DOMAIN AfterPhrase[Len(files)].todo :
                                        AfterPhrase[Len(files)].todo[i].do \in PhraseKinds
                 /\ AfterPhrase \in Seq(FileRecords) /\ Len(AfterPhrase) = Len(files)
                 /\ Len(files) \in Nat \ {0} /\ DOMAIN files = 1..Len(files)
                 /\ DOMAIN AfterPhrase = 1..Len(files)
      <3>1. /\ File.todo \in Seq(Phrases) /\ File = files[Len(files)] /\ Len(files) \in Nat \ {0}
            /\ DOMAIN files = 1..Len(files)
        BY <2>3, PhraseType DEF AttemptTypeOK
      <3>7. files \in Seq(FileRecords)
        BY DEF AttemptTypeOK
      <3>2. /\ AfterPhrase \in Seq(FileRecords) /\ Len(AfterPhrase) = Len(files)
            /\ \A i \in 1..(Len(files) - 1) : AfterPhrase[i] = files[i]
            /\ AfterPhrase[Len(files)].todo = Tail(File.todo)
        <4>1. /\ AfterPhrase \in Seq(FileRecords) /\ Len(AfterPhrase) = Len(files)
              /\ \A i \in 1..(Len(files) - 1) : AfterPhrase[i] = files[i]
              /\ AfterPhrase[Len(files)] = [of |-> File.of, todo |-> Tail(File.todo)]
          BY <2>3, <3>7, AfterPhraseType
        <4> QED BY <4>1
      <3>3. /\ DOMAIN Tail(File.todo) = 1..(Len(File.todo) - 1) /\ DOMAIN File.todo = 1..Len(File.todo)
            /\ Len(File.todo) \in Nat \ {0}
            /\ \A i \in 1..(Len(File.todo) - 1) : Tail(File.todo)[i] = File.todo[i + 1]
        BY <2>3, <3>1, TailOf
      <3>4. Len(files) = 1 => LastOnes(AfterPhrase[1].todo, Source)
        <4>1. SUFFICES ASSUME Len(files) = 1 PROVE LastOnes(Tail(File.todo), Source)
          BY <3>2
        <4>2. LastOnes(File.todo, Source)
          BY <2>3, <3>1, <4>1 DEF Shaped
        <4>3. ASSUME NEW i \in 1..(Len(File.todo) - 1), NEW j \in 1..(Len(File.todo) - 1), i <= j,
                     Tail(File.todo)[i].do \in LastKinds
              PROVE  Tail(File.todo)[j] \in LastPhrases(Source)
          <5>1. i + 1 \in DOMAIN File.todo /\ j + 1 \in DOMAIN File.todo /\ i + 1 <= j + 1
            BY <3>3, <4>3
          <5> QED BY <3>3, <4>2, <4>3, <5>1 DEF LastOnes
        <4> QED BY <3>3, <4>3 DEF LastOnes
      <3>5. ASSUME Len(files) # 1, NEW i \in DOMAIN AfterPhrase[Len(files)].todo
            PROVE  AfterPhrase[Len(files)].todo[i].do \in PhraseKinds
        <4>1. i + 1 \in DOMAIN File.todo /\ Tail(File.todo)[i] = File.todo[i + 1]
          BY <3>2, <3>3, <3>5
        <4>2. File.todo[i + 1].do \in PhraseKinds
          BY <3>1, <3>5, <4>1 DEF Shaped
        <4> QED BY <3>2, <4>1, <4>2
      <3>6. DOMAIN AfterPhrase = 1..Len(files)
        BY <3>1, <3>2
      <3> QED BY <3>1, <3>2, <3>4, <3>5, <3>6
    <2>4. CASE Goes
      <3>1. files # <<>> /\ File.todo # <<>> /\ files' = AfterPhrase
        BY <2>4 DEF Goes
      <3>2. LastOnes(AfterPhrase[1].todo, Source)
        <4>1. CASE Len(files) = 1
          BY <2>3, <3>1, <4>1
        <4>2. CASE Len(files) # 1
          <5>0. Len(files) \in Nat \ {0}
            BY <2>3, <3>1
          <5>1. 1 \in 1..(Len(files) - 1)
            BY <5>0, <4>2
          <5>2. AfterPhrase[1] = files[1]
            BY <2>3, <3>1, <5>1
          <5> QED BY <3>1, <5>2 DEF Shaped
        <4> QED BY <4>1, <4>2
      <3>3. ASSUME NEW f \in DOMAIN AfterPhrase, f # 1, NEW i \in DOMAIN AfterPhrase[f].todo
            PROVE  AfterPhrase[f].todo[i].do \in PhraseKinds
        <4>1. CASE f = Len(files)
          BY <2>3, <3>1, <3>3, <4>1
        <4>2. CASE f # Len(files)
          <5>1. AfterPhrase[f] = files[f] /\ f \in DOMAIN files
            BY <2>3, <3>1, <3>3, <4>2
          <5> QED BY <3>3, <5>1 DEF Shaped
        <4> QED BY <4>1, <4>2
      <3> QED BY <2>0, <3>1, <3>2, <3>3 DEF Shaped
    <2>5. CASE Loads
      <3> DEFINE r == [of |-> "dep", todo |-> attempt.dep]
                 m == AfterPhrase
      <3>1. files # <<>> /\ File.todo # <<>> /\ files' = Append(m, r)
        BY <2>5 DEF Loads
      <3>2. LastOnes(m[1].todo, Source)
        <4>1. CASE Len(files) = 1
          BY <2>3, <3>1, <4>1
        <4>2. CASE Len(files) # 1
          <5>0. Len(files) \in Nat \ {0}
            BY <2>3, <3>1
          <5>1. 1 \in 1..(Len(files) - 1)
            BY <5>0, <4>2
          <5>2. AfterPhrase[1] = files[1]
            BY <2>3, <3>1, <5>1
          <5> QED BY <3>1, <5>2 DEF Shaped
        <4> QED BY <4>1, <4>2
      <3>3. ASSUME NEW f \in DOMAIN m, f # 1, NEW i \in DOMAIN m[f].todo
            PROVE  m[f].todo[i].do \in PhraseKinds
        <4>1. CASE f = Len(files)
          BY <2>3, <3>1, <3>3, <4>1
        <4>2. CASE f # Len(files)
          <5>1. AfterPhrase[f] = files[f] /\ f \in DOMAIN files
            BY <2>3, <3>1, <3>3, <4>2
          <5> QED BY <3>3, <5>1 DEF Shaped
        <4> QED BY <4>1, <4>2
      <3>4. \A i \in DOMAIN r.todo : r.todo[i].do \in PhraseKinds
        <4> DEFINE P == [do : PhraseKinds, name : PhraseNames]
        <4>1. attempt.dep \in Seq(P) /\ \A q \in P : q.do \in PhraseKinds
          BY SourceType DEF AttemptTypeOK
        <4> HIDE DEF P
        <4>2. r.todo = attempt.dep
          OBVIOUS
        <4>3. \A i \in DOMAIN attempt.dep : attempt.dep[i].do \in PhraseKinds
          BY <4>1
        <4> HIDE DEF r
        <4> QED BY <4>2, <4>3
      <3>5. IsASeq(m) /\ Len(m) \in Nat \ {0}
        BY <2>3, <3>1 DEF IsASeq
      <3> HIDE DEF m, r
      <3>6. /\ DOMAIN m = 1..Len(m) /\ DOMAIN files' = 1..(Len(m) + 1)
            /\ \A i \in 1..Len(m) : files'[i] = m[i]
            /\ files'[Len(m) + 1] = r
        BY <3>1, <3>5, Appended
      <3>7. files'[1] = m[1]
        BY <3>5, <3>6
      <3>8. ASSUME NEW f \in DOMAIN files', f # 1, NEW i \in DOMAIN files'[f].todo
            PROVE  files'[f].todo[i].do \in PhraseKinds
        <4>1. CASE f = Len(m) + 1
          BY <3>4, <3>6, <3>8, <4>1
        <4>2. CASE f # Len(m) + 1
          <5>1. f \in DOMAIN m /\ files'[f] = m[f]
            BY <3>5, <3>6, <3>8, <4>2
          <5> QED BY <3>3, <3>8, <5>1
        <4> QED BY <4>1, <4>2
      <3> QED BY <2>0, <3>2, <3>7, <3>8 DEF Shaped
    <2> QED BY <2>0, <2>1, <2>2, <2>4, <2>5
  <1> QED BY <1>1, <1>2

\* Once only last phrases are to come, no other comes and nothing is bound any more.
LEMMA AtLastStep ==
  ASSUME AttemptTypeOK, Working, AtLast, [AttemptNext]_attemptVars, ~Adopt
  PROVE  AtLast' /\ value' = value
  <1>0. ASSUME files # <<>>, File.todo # <<>>
        PROVE  /\ Len(files) = 1 /\ File = files[1] /\ File.todo \in Seq(Phrases)
               /\ Phrase.do \in LastKinds
    <2>1. /\ File = files[Len(files)] /\ File.todo \in Seq(Phrases) /\ Phrase = File.todo[1]
      BY <1>0, PhraseType DEF AttemptTypeOK
    <2>2. 1 \in DOMAIN File.todo
      BY <1>0, <2>1
    <2> QED BY <1>0, <2>1, <2>2 DEF AtLast
  <1>1. \A k \in LastKinds : k \notin PhraseKinds /\ k # "include"
    BY DEF LastKinds, PhraseKinds
  <1>2. value' = value
    BY <1>0, <1>1, Moves
  <1>3. files' = files \/ Leaving \/ Goes
    BY <1>0, <1>1, Moves DEF Loads
  <1>4. CASE files' = files
    BY <1>2, <1>4 DEF AtLast
  <1>5. CASE Leaving
    <2>1. Len(files) = 1 /\ files' \in Seq(FileRecords) /\ Len(files') = Len(files) - 1
      BY <1>5, FrontType DEF Leaving, AttemptTypeOK, AtLast
    <2>2. files' = <<>>
      BY <2>1
    <2> QED BY <1>2, <2>2 DEF AtLast
  <1>6. CASE Goes
    <2>1. files # <<>> /\ File.todo # <<>> /\ files' = AfterPhrase
      BY <1>6 DEF Goes
    <2>2. /\ Len(AfterPhrase) = Len(files)
          /\ AfterPhrase[Len(files)] = [of |-> File.of, todo |-> Tail(File.todo)]
      BY <2>1, AfterPhraseType DEF AttemptTypeOK
    <2>6. Len(files) = 1
      BY <1>0, <2>1
    <2>3. Len(files') = 1 /\ files'[1].todo = Tail(File.todo)
      <3> DEFINE r == [of |-> File.of, todo |-> Tail(File.todo)]
      <3>1. r.todo = Tail(File.todo)
        OBVIOUS
      <3>2. AfterPhrase[Len(files)] = r
        BY <2>2
      <3> HIDE DEF r
      <3>3. AfterPhrase[1] = r
        BY <2>6, <3>2
      <3>4. Len(AfterPhrase) = 1
        BY <2>2, <2>6
      <3> QED BY <2>1, <3>1, <3>3, <3>4
    <2>4. /\ DOMAIN Tail(File.todo) = 1..(Len(File.todo) - 1) /\ DOMAIN File.todo = 1..Len(File.todo)
          /\ Len(File.todo) \in Nat \ {0}
          /\ \A i \in 1..(Len(File.todo) - 1) : Tail(File.todo)[i] = File.todo[i + 1]
      BY <1>0, <2>1, TailOf
    <2>5. ASSUME NEW i \in DOMAIN Tail(File.todo) PROVE Tail(File.todo)[i].do \in LastKinds
      <3>1. i + 1 \in DOMAIN File.todo /\ Tail(File.todo)[i] = File.todo[i + 1]
        BY <2>4, <2>5
      <3>2. File = files[1]
        BY <1>0, <2>1
      <3>3. File.todo[i + 1].do \in LastKinds
        BY <2>1, <3>1, <3>2 DEF AtLast
      <3> QED BY <3>1, <3>3
    <2> QED BY <1>2, <2>3, <2>5 DEF AtLast
  <1> QED BY <1>2, <1>3, <1>4, <1>5, <1>6

\* The line that a probe prints is true of what it has looked at.
LEMMA ProbeTrue ==
  ASSUME AttemptAssumption, AttemptTypeOK, Shaped, Probe
  PROVE  /\ AtLast
         /\ \E r : /\ printed' = Append(printed, r) /\ r.k # "delta" /\ r # Rec("included")
                   /\ r.k = "ok" => \A c \in Claims :
                        c.do = "bind" /\ c.name = r.name => value[c.name] = "quoted"
  <1>1. files # <<>> /\ File.todo # <<>> /\ Phrase.do = "probe"
    BY DEF Probe, AtPhrase, InLoad
  <1>2. /\ File = files[Len(files)] /\ File.todo \in Seq(Phrases) /\ Phrase = File.todo[1]
        /\ Len(files) \in Nat \ {0} /\ DOMAIN files = 1..Len(files)
    BY <1>1, PhraseType DEF AttemptTypeOK
  <1>3. 1 \in DOMAIN File.todo /\ \A i \in DOMAIN File.todo : 1 <= i
    BY <1>1, <1>2
  <1>4. Len(files) = 1
    <2>1. SUFFICES ASSUME Len(files) # 1 PROVE FALSE
      OBVIOUS
    <2>2. Phrase.do \in PhraseKinds
      BY <1>2, <1>3, <2>1 DEF Shaped
    <2> QED BY <1>1, <2>2 DEF PhraseKinds
  <1>5. \A j \in DOMAIN File.todo : File.todo[j] \in LastPhrases(Source)
    BY <1>1, <1>2, <1>3, <1>4 DEF Shaped, LastOnes, LastKinds
  <1>6. AtLast
    BY <1>2, <1>4, <1>5 DEF AtLast, LastPhrases
  <1> DEFINE c0 == CHOOSE c \in Claims : c.name = Phrase.name
             r == [k |-> IF c0.do = "derive" \/ value[c0.name] = "quoted" THEN "ok" ELSE "mismatch",
                   name |-> c0.name]
  <1>7. c0 \in Claims /\ c0.name = Phrase.name
    <2>1. \E c \in Claims : c.name = Phrase.name
      BY <1>1, <1>2, <1>3, <1>5 DEF LastPhrases, Claims
    <2> QED BY <2>1
  <1>8. printed' = Append(printed, r)
    BY DEF Probe, Prints
  <1>9. r.k # "delta" /\ r # Rec("included") /\ r.name = c0.name
    <2>1. r.k # "included" /\ Rec("included").k = "included"
      BY DEF Rec
    <2> QED BY <2>1
  <1>10. ASSUME r.k = "ok", NEW c \in Claims, c.do = "bind", c.name = r.name
         PROVE  value[c.name] = "quoted"
    <2>1. PICK i \in DOMAIN Scanned(Source) : Scanned(Source)[i] = c
      BY DEF Claims, ToSet
    <2>2. PICK j \in DOMAIN Scanned(Source) : Scanned(Source)[j] = c0
      BY <1>7 DEF Claims, ToSet
    <2>3. i = j
      <3>1. Source \in {attempt.entry, attempt.prep} /\ attempt \in Attempts
        BY DEF Source, AttemptTypeOK
      <3>2. Scanned(Source)[i].name = Scanned(Source)[j].name
        BY <1>10, <2>1, <2>2
      <3> QED BY <3>1, <3>2 DEF AttemptAssumption
    <2>4. c = c0
      BY <2>1, <2>2, <2>3
    <2>5. c0.do = "derive" \/ value[c0.name] = "quoted"
      BY <1>10
    <2> QED BY <1>10, <2>4, <2>5
  <1> HIDE DEF r, c0
  <1> QED BY <1>6, <1>8, <1>9, <1>10

\* Every step keeps what the transcript says true.
LEMMA PassedStep ==
  ASSUME AttemptAssumption, AttemptTypeOK, Working, PassedInv, [AttemptNext]_attemptVars
  PROVE  PassedInv'
  <1>1. Shaped'
    BY ShapedStep DEF PassedInv
  <1>2. CASE Adopt
    <2>1. printed' = <<>> /\ ended' = <<>> /\ turn' = "load"
      BY <1>2 DEF Adopt
    <2>2. baseline' = 0
      <3>1. turn = "read" /\ Verdict = "passed" /\ FoundationObserved /\ NewAxioms = 0
            /\ baseline' = axioms
        BY <1>2 DEF Adopt
      <3>2. transport = "completed"
        BY <3>1 DEF Verdict, SemanticSuccess, SourceCompleted
      <3>3. Whole = printed
        BY <3>1, <3>2 DEF PassedInv, EndsWell, Whole
      <3>4. Deltas # {}
        <4>1. Cardinality(Deltas) = 1
          BY <3>1 DEF FoundationObserved
        <4> QED BY <4>1, FS_EmptySet
      <3>5. PICK i \in Deltas : NewAxioms = Whole[i].axioms
        BY <3>4 DEF NewAxioms
      <3> QED BY <3>1, <3>3, <3>5 DEF Deltas, PassedInv, DeltaTrue
    <2> QED BY <1>1, <2>1, <2>2 DEF PassedInv, ProbesTrue, FailuresTold, DeltaTrue, EndsWell
  <1>3. CASE ~Adopt
    <2>0. Source' = Source /\ Claims' = Claims /\ baseline' = baseline
          /\ (axioms' = axioms \/ turn = "load")
      BY <1>3, Moves DEF Source, Claims
    <2>1. turn # "load" => turn' # "load"
      BY <1>3 DEF AttemptNext, Evaluates, Include, FileEnds, Probe, Finish, ForkBasis, PhraseRaises,
                  Enter, Returns, ProveFails, Emit, TacticCatches, PhraseCatches, Times, Uncaught,
                  AtPhrase, Raising, InLoad, Delta, Token, Completes, Cut, Read, attemptVars
    <2>2. EndsWell'
      <3>1. CASE Delta \/ Token \/ Completes \/ Cut
        <4>1. \/ turn' \in {"delta", "exited"} /\ files' = <<>>
              \/ turn' = "read" /\ files' = <<>> /\ torn' = "no"
              \/ turn' = "read" /\ transport' # "completed"
          BY <3>1 DEF Delta, Token, Completes, Cut, Read, PassedInv, EndsWell, loadVars
        <4> QED BY <4>1 DEF EndsWell
      <3>2. CASE turn' = "load"
        BY <3>2 DEF EndsWell
      <3>3. CASE UNCHANGED attemptVars
        BY <3>3 DEF attemptVars, loadVars, readVars, PassedInv, EndsWell
      <3>4. Delta \/ Token \/ Completes \/ Cut \/ turn' = "load" \/ UNCHANGED attemptVars
        BY <1>3 DEF AttemptNext, Evaluates, Include, FileEnds, Probe, Finish, ForkBasis, PhraseRaises,
                    Enter, Returns, ProveFails, Emit, TacticCatches, PhraseCatches, Times, Uncaught,
                    AtPhrase, Raising, InLoad, SameAttempt
      <3> QED BY <3>1, <3>2, <3>3, <3>4
    <2>3. FailuresTold'
      <3>1. CASE Uncaught
        <4> DEFINE a == [k |-> "exn", exc |-> exc]
                   b == Rec("included")
        <4>1. printed' = printed \o <<a, b>> /\ IsASeq(printed)
          BY <3>1 DEF Uncaught, AttemptTypeOK
        <4> HIDE DEF a, b
        <4>2. printed' = Append(Append(printed, a), b) /\ IsASeq(Append(printed, a))
          BY <4>1, AppendedTwo, Appended
        <4> DEFINE m == Append(printed, a)
        <4> HIDE DEF m
        <4>3. printed' = Append(m, b) /\ IsASeq(m)
          BY <4>2 DEF m
        <4>4. Len(m) + 1 \in DOMAIN printed' /\ printed'[Len(m) + 1] = b
          <5>1. Len(m) \in Nat /\ DOMAIN printed' = 1..(Len(m) + 1) /\ printed'[Len(m) + 1] = b
            BY <4>3, Appended
          <5> QED BY <5>1
        <4> QED BY <4>4 DEF FailuresTold, b, Rec
      <3>2. CASE ~Uncaught
        <4>1. ended' = ended
          BY <1>3, <3>2 DEF AttemptNext, Evaluates, Include, FileEnds, Probe, Finish, ForkBasis,
                            PhraseRaises, Enter, Returns, ProveFails, Emit, TacticCatches,
                            PhraseCatches, Times, Delta, Token, Completes, Cut, Read, attemptVars,
                            loadVars
        <4>2. \A i \in DOMAIN printed : i \in DOMAIN printed' /\ printed'[i] = printed[i]
          <5>1. \E kinds : Grows(printed, printed', kinds)
            <6>1. CASE Probe
              <7>1. PICK r : printed' = Append(printed, r)
                BY <6>1 DEF Probe, Prints
              <7>2. r.k \notin {} /\ IsASeq(printed)
                BY DEF AttemptTypeOK
              <7> QED BY <7>1, <7>2, GrowsByOne
            <6>2. CASE Delta
              <7>1. PICK r : printed' = Append(printed, r)
                BY <6>2 DEF Delta, Prints
              <7>2. r.k \notin {} /\ IsASeq(printed)
                BY DEF AttemptTypeOK
              <7> QED BY <7>1, <7>2, GrowsByOne
            <6>3. CASE ~Probe /\ ~Delta
              BY <1>3, <6>3, PrintedGrows
            <6> QED BY <6>1, <6>2, <6>3
          <5> QED BY <5>1 DEF Grows
        <4> QED BY <4>1, <4>2 DEF PassedInv, FailuresTold, Rec
      <3> QED BY <3>1, <3>2
    <2>4. CASE Probe
      <3>1. PICK r : /\ printed' = Append(printed, r) /\ r.k # "delta"
                     /\ r.k = "ok" => \A c \in Claims :
                          c.do = "bind" /\ c.name = r.name => value[c.name] = "quoted"
        BY <2>4, ProbeTrue DEF PassedInv
      <3>2. AtLast' /\ value' = value
        BY <1>3, <2>4, ProbeTrue, AtLastStep DEF PassedInv
      <3>3. /\ Len(printed) \in Nat /\ DOMAIN printed = 1..Len(printed)
            /\ DOMAIN printed' = 1..(Len(printed) + 1)
            /\ \A i \in 1..Len(printed) : printed'[i] = printed[i]
            /\ printed'[Len(printed) + 1] = r
        BY <3>1, Appended DEF AttemptTypeOK
      <3>4. ASSUME NEW i \in DOMAIN printed'
            PROVE  \/ i = Len(printed) + 1 /\ printed'[i] = r
                   \/ i \in DOMAIN printed /\ printed'[i] = printed[i]
        <4>1. CASE i = Len(printed) + 1
          BY <3>3, <4>1
        <4>2. CASE i # Len(printed) + 1
          <5>1. i \in 1..Len(printed)
            BY <3>3, <3>4, <4>2
          <5> QED BY <3>3, <5>1
        <4> QED BY <4>1, <4>2
      <3>5. ProbesTrue'
        BY <2>0, <3>1, <3>2, <3>4 DEF PassedInv, ProbesTrue
      <3>6. turn' = turn /\ axioms' = axioms
        BY <2>4 DEF Probe, SameAttempt
      <3>7. DeltaTrue'
        BY <2>0, <3>1, <3>4, <3>6 DEF PassedInv, DeltaTrue
      <3> QED BY <1>1, <2>2, <2>3, <3>5, <3>7 DEF PassedInv
    <2>5. CASE Delta
      <3> DEFINE r == [k |-> "delta", axioms |-> axioms - baseline]
      <3>1. printed' = Append(printed, r) /\ r.k = "delta" /\ r.axioms = axioms
        BY <2>5 DEF Delta, Prints, PassedInv, DeltaTrue, AttemptTypeOK
      <3> HIDE DEF r
      <3>3. /\ Len(printed) \in Nat /\ DOMAIN printed = 1..Len(printed)
            /\ DOMAIN printed' = 1..(Len(printed) + 1)
            /\ \A i \in 1..Len(printed) : printed'[i] = printed[i]
            /\ printed'[Len(printed) + 1] = r
        BY <3>1, Appended DEF AttemptTypeOK
      <3>4. ASSUME NEW i \in DOMAIN printed'
            PROVE  \/ i = Len(printed) + 1 /\ printed'[i] = r
                   \/ i \in DOMAIN printed /\ printed'[i] = printed[i]
        <4>1. CASE i = Len(printed) + 1
          BY <3>3, <4>1
        <4>2. CASE i # Len(printed) + 1
          <5>1. i \in 1..Len(printed)
            BY <3>3, <3>4, <4>2
          <5> QED BY <3>3, <5>1
        <4> QED BY <4>1, <4>2
      <3>2. UNCHANGED <<files, value, axioms>> /\ turn' = "delta"
        BY <2>5 DEF Delta, loadVars
      <3>5. ProbesTrue'
        BY <2>0, <3>1, <3>2, <3>4 DEF PassedInv, ProbesTrue, AtLast
      <3>7. DeltaTrue'
        BY <2>0, <3>1, <3>2, <3>4 DEF PassedInv, DeltaTrue
      <3> QED BY <1>1, <2>2, <2>3, <3>5, <3>7 DEF PassedInv
    <2>6. CASE ~Probe /\ ~Delta
      <3>1. Grows(printed, printed', {"ok", "delta"})
        BY <1>3, <2>6, PrintedGrows
      <3>2. ASSUME NEW i \in DOMAIN printed', printed'[i].k \in {"ok", "delta"}
            PROVE  i \in DOMAIN printed /\ printed'[i] = printed[i]
        <4>1. Len(printed) \in Nat /\ i \in Nat /\ i \in 1..Len(printed')
          BY <3>1, <3>2 DEF Grows
        <4>2. ~ (i > Len(printed))
          BY <3>1, <3>2, <4>1 DEF Grows
        <4>3. i \in 1..Len(printed)
          BY <4>1, <4>2
        <4> QED BY <3>1, <4>3 DEF Grows
      <3>3. AtLast => AtLast' /\ value' = value
        BY <1>3, AtLastStep
      <3>4. ProbesTrue'
        BY <2>0, <3>2, <3>3 DEF PassedInv, ProbesTrue
      <3>5. DeltaTrue'
        BY <2>0, <2>1, <3>2 DEF PassedInv, DeltaTrue
      <3> QED BY <1>1, <2>2, <2>3, <3>4, <3>5 DEF PassedInv
    <2> QED BY <2>4, <2>5, <2>6
  <1> QED BY <1>2, <1>3

\* A record that the reader counts is there, and one that it does not is not
\* (account_claims, source_completed).
LEMMA Counted ==
  ASSUME IsASeq(printed), Whole = printed, NEW r
  PROVE  /\ Count(r) = 1 => \E i \in DOMAIN printed : printed[i] = r
         /\ Count(r) = 0 => \A i \in DOMAIN printed : printed[i] # r
  <1> DEFINE S == {i \in DOMAIN printed : printed[i] = r}
  <1>1. Count(r) = Cardinality(S)
    BY DEF Count
  <1>2. IsFiniteSet(S)
    <2>1. Len(printed) \in Nat /\ S \subseteq 1..Len(printed)
      BY Appended
    <2> HIDE DEF S
    <2>2. IsFiniteSet(1..Len(printed))
      BY <2>1, FS_Interval
    <2> QED BY <2>1, <2>2, FS_Subset
  <1> HIDE DEF S
  <1>3. Count(r) = 1 => S # {}
    <2>1. Cardinality({}) = 0
      BY FS_EmptySet
    <2>2. S = {} => Cardinality(S) = 0
      BY <2>1, Zenon
    <2> QED BY <1>1, <2>2
  <1>4. Count(r) = 0 => S = {}
    BY <1>1, <1>2, FS_EmptySet
  <1> QED BY <1>3, <1>4 DEF S

\* What a passed attempt says follows from what its transcript says.
LEMMA PassedRight ==
  ASSUME AttemptTypeOK, PassedInv
  PROVE  PassedMeansProved
  <1> SUFFICES ASSUME turn = "read", Verdict = "passed"
               PROVE  /\ files = <<>> /\ ended = <<>>
                      /\ \A c \in Claims : c.do = "bind" => value[c.name] = "quoted"
                      /\ Recommendation = "no_foundation_objection" => axioms = 0
    BY DEF PassedMeansProved
  <1>1. SourceCompleted /\ ClaimsComplete
    BY DEF Verdict, SemanticSuccess
  <1>2. files = <<>> /\ torn = "no"
    BY <1>1 DEF SourceCompleted, PassedInv, EndsWell
  <1>3. Whole = printed /\ IsASeq(printed)
    BY <1>2 DEF Whole, AttemptTypeOK
  <1>4. ended = <<>>
    <2>1. \A i \in DOMAIN printed : printed[i] # Rec("included")
      BY <1>1, <1>3, Counted DEF SourceCompleted
    <2> QED BY <2>1 DEF PassedInv, FailuresTold
  <1>5. ASSUME NEW c \in Claims, c.do = "bind" PROVE value[c.name] = "quoted"
    <2> DEFINE r == [k |-> "ok", name |-> c.name]
    <2>1. Status(c) = "proved"
      BY <1>1, <1>5 DEF ClaimsComplete
    <2>2. Count(r) = 1
      BY <2>1 DEF Status
    <2>3. r.k = "ok" /\ r.name = c.name
      OBVIOUS
    <2> HIDE DEF r
    <2>4. PICK i \in DOMAIN printed : printed[i] = r
      BY <1>3, <2>2, Counted
    <2> QED BY <1>5, <2>3, <2>4 DEF PassedInv, ProbesTrue
  <1>6. ASSUME Recommendation = "no_foundation_objection" PROVE axioms = 0
    <2>1. FoundationObserved /\ ~ (NewAxioms > 0)
      BY <1>6 DEF Recommendation
    <2>2. Deltas # {}
      BY <2>1, FS_EmptySet DEF FoundationObserved
    <2>3. PICK i \in Deltas : NewAxioms = Whole[i].axioms
      BY <2>2 DEF NewAxioms
    <2>4. NewAxioms = axioms
      BY <1>3, <2>3 DEF Deltas, PassedInv, DeltaTrue
    <2> QED BY <2>1, <2>4 DEF AttemptTypeOK
  <1> QED BY <1>2, <1>4, <1>5, <1>6

\* At the start there is the source and nothing else (run_attempt).
LEMMA PassedStart ==
  ASSUME AttemptAssumption, AttemptInit
  PROVE  AttemptTypeOK /\ Walking /\ PassedInv
  <1> DEFINE pay == Payload(Source, attempt.prepare)
             f == [of |-> "entry", todo |-> pay]
  <1>1. /\ attempt \in Attempts /\ attempt.prepare \in BOOLEAN /\ Source \in {attempt.entry, attempt.prep}
        /\ files = <<f>>
    BY SourceType DEF AttemptInit, Loading, Source
  <1>2. /\ pay \in Seq(Phrases) /\ Len(Source) \in Nat
        /\ \A i \in DOMAIN pay : IF i <= Len(Source) THEN pay[i].do \in PhraseKinds
                                 ELSE pay[i] \in LastPhrases(Source)
    BY <1>1, PayloadShape
  <1> HIDE DEF pay
  <1>3. f \in FileRecords /\ f.todo = pay
    BY <1>2 DEF FileRecords
  <1> HIDE DEF f
  <1>4. files \in Seq(FileRecords) /\ DOMAIN files = {1} /\ files[1] = f
    BY <1>1, <1>3
  <1>5. LastOnes(pay, Source)
    <2>1. ASSUME NEW i \in DOMAIN pay, NEW j \in DOMAIN pay, i <= j, pay[i].do \in LastKinds
          PROVE  pay[j] \in LastPhrases(Source)
      <3>1. i \in Nat /\ j \in Nat
        BY <1>2, <2>1
      <3>2. ~ (i <= Len(Source))
        BY <1>2, <2>1 DEF LastKinds, PhraseKinds
      <3> QED BY <1>2, <2>1, <3>1, <3>2
    <2> QED BY <2>1 DEF LastOnes
  <1>6. Shaped
    BY <1>3, <1>4, <1>5 DEF Shaped
  <1>7. /\ printed = <<>> /\ ended = <<>> /\ turn = "load" /\ calls = <<>> /\ exc = "none"
        /\ frame = NoFrame /\ axioms = 0 /\ baseline = 0 /\ count = 0 /\ torn = "no"
        /\ value \in [Names -> {"none", "quoted", "other"}] /\ stage \in {"prepare", "leaf"}
    BY DEF AttemptInit, Loading, Nothing
  <1>8. IsASeq(<<>>) /\ <<>> \in Seq(EndedRecords)
    BY DEF IsASeq
  <1>9. calls \in Seq(CallRecords)
    BY <1>7
  <1>10. AttemptTypeOK
    BY <1>1, <1>4, <1>7, <1>8, <1>9 DEF AttemptTypeOK
  <1>11. Walking
    BY <1>7 DEF Walking, Working
  <1>12. PassedInv
    BY <1>6, <1>7 DEF PassedInv, ProbesTrue, FailuresTold, DeltaTrue, EndsWell
  <1> QED BY <1>10, <1>11, <1>12

-----------------------------------------------------------------------------
(* Whom a failed or cut attempt names.                                     *)

\* A frame is open from the line of its begin to the line of its end (emit).
OpenFrame == frame # NoFrame /\ frame.at = "end"
Begun == printed # <<>> /\ printed[Len(printed)].k = "begin"

Near(i) ==
  \/ i = Len(printed) \/ i + 1 = Len(printed)
  \/ i + 2 = Len(printed) /\ printed[i + 2].k = "timing"

\* A frame at the end of the transcript is the phrase's that is evaluated.
Ending ==
  \A i \in DOMAIN printed : printed[i].k = "begin" /\ Near(i) =>
    /\ printed[i].loc \subseteq Here /\ Phrase.do = "bind"
    /\ exc # "none" \/ calls # <<>>

FailedFrame(i, j) == j = i + 2 \/ (j = i + 3 /\ printed[i + 2].k = "timing")
FirstExn(j) == printed[j].k = "exn" /\ \A h \in DOMAIN printed : h < j => printed[h].k # "exn"

\* A frame before the first uncaught exception is the phrase's that it ended.
Failing ==
  /\ (\A j \in DOMAIN printed : printed[j].k # "exn") => ended = <<>>
  /\ \A j \in DOMAIN printed : FirstExn(j) =>
       /\ ended # <<>>
       /\ \A i \in DOMAIN printed : printed[i].k = "begin" /\ FailedFrame(i, j) =>
            /\ printed[i].loc \subseteq {<<ended[1].of, ended[1].phrase.name>>}
            /\ ended[1].phrase.do = "bind"

Entered == [k : {"enter"}, no : Nat, loc : SUBSET Places]
ActivityStates == [active : Seq(Entered), entered : Nat, overflow : Nat, bad : BOOLEAN]

\* What the reader makes of the lines: the calls, down to the bound of their depth.
Reading(s) ==
  /\ s \in ActivityStates /\ ~s.bad
  /\ \A i \in DOMAIN s.active : s.active[i].no = calls[i].no /\ s.active[i].loc = calls[i].loc
  /\ IF Len(calls) <= MaxDepth
     THEN Len(s.active) = Len(calls) /\ s.overflow = 0 /\ s.entered = count
     ELSE Len(s.active) = MaxDepth /\ s.overflow = calls[MaxDepth + 1].no

Heard(t) == Activities(t)[Len(t)]

ActivityRight ==
  /\ \A i \in DOMAIN calls : calls[i].no # 0
  /\ Reading(Heard(printed))

AttributionInv ==
  /\ Paired(printed) /\ (OpenFrame <=> Begun) /\ Ending /\ Failing /\ ActivityRight
  /\ torn = "name" => CutsInName

NotOpened == frame = NoFrame /\ (frame' = NoFrame \/ frame'.at = "begin")

\* The lines of one step: none, a frame's, the report of time, an exception's two, or
\* another one while no frame is open.
LEMMA Lines ==
  ASSUME AttemptTypeOK, Walking, PassedInv, [AttemptNext]_attemptVars, ~Adopt, ~Uncaught
  PROVE  /\ ended' = ended
         /\ \/ printed' = printed /\ (frame' = frame \/ NotOpened)
            \/ Emit
            \/ Times
            \/ NotOpened /\ \E r : /\ printed' = Append(printed, r)
                                   /\ r.k \notin {"begin", "end", "timing", "exn"}
  <1>1. CASE Evaluates \/ PhraseCatches
    <2>1. printed' = printed \/ printed' = Append(printed, [k |-> "val", name |-> Phrase.name])
      BY <1>1 DEF Evaluates, PhraseCatches, Bound, Prints
    <2>2. NotOpened /\ ended' = ended
      BY <1>1 DEF Evaluates, PhraseCatches, AtPhrase, Raising, InLoad, NoCall, NotOpened
    <2> QED BY <2>1, <2>2
  <1>2. CASE Probe \/ Finish
    <2>1. \E r : printed' = Append(printed, r) /\ r.k \in {"ok", "mismatch", "done"}
      BY <1>2 DEF Probe, Finish, Prints, Rec
    <2>2. NotOpened /\ ended' = ended
      BY <1>2 DEF Probe, Finish, AtPhrase, InLoad, NoCall, NotOpened
    <2> QED BY <2>1, <2>2
  <1>3. CASE Include \/ FileEnds \/ ForkBasis \/ PhraseRaises \/ TacticCatches
    BY <1>3 DEF Include, FileEnds, ForkBasis, PhraseRaises, TacticCatches, NoCall
  <1>4. CASE Enter
    <2>1. PICK loc \in Locations :
            printed' = IF Len(calls') <= MaxDepth
                       THEN Append(printed, [k |-> "enter", no |-> count', loc |-> loc])
                       ELSE IF Len(calls') = MaxDepth + 1
                       THEN Append(printed, [k |-> "overflow", no |-> count']) ELSE printed
      BY <1>4 DEF Enter
    <2>2. NotOpened /\ ended' = ended
      BY <1>4 DEF Enter, AtPhrase, InLoad, NotOpened
    <2> QED BY <2>1, <2>2
  <1>5. CASE Returns \/ ProveFails
    <2>1. \/ printed' = Append(printed, [k |-> "leave", no |-> Last(calls).no])
          \/ printed' = Append(printed, [k |-> "resume", no |-> Last(calls).no, last |-> count])
          \/ printed' = printed
      BY <1>5 DEF Returns, ProveFails, Leave
    <2>2. NotOpened /\ ended' = ended
      BY <1>5 DEF Returns, ProveFails, InLoad, NotOpened
    <2> QED BY <2>1, <2>2
  <1>6. CASE Delta \/ Token
    <2>1. \E r : printed' = Append(printed, r) /\ r.k \in {"delta", "token"}
      BY <1>6 DEF Delta, Token, Prints, Rec
    <2>2. files = <<>>
      BY <1>6 DEF Delta, Token, PassedInv, EndsWell
    <2>3. NotOpened /\ ended' = ended
      BY <1>6, <2>2 DEF Delta, Token, loadVars, NotOpened, Walking, Working
    <2> QED BY <2>1, <2>3
  <1>7. CASE Completes \/ Cut \/ UNCHANGED attemptVars
    BY <1>7 DEF Completes, Cut, Read, attemptVars, loadVars
  <1>8. CASE Emit \/ Times
    BY <1>8 DEF Emit, Times, NoCall
  <1> QED BY <1>1, <1>2, <1>3, <1>4, <1>5, <1>6, <1>7, <1>8 DEF AttemptNext

\* What an uncaught exception prints (the toplevel).
LEMMA UncaughtLines ==
  ASSUME AttemptTypeOK, Uncaught
  PROVE  LET n == Len(printed)
         IN  /\ n \in Nat /\ DOMAIN printed = 1..n /\ Len(printed') = n + 2
             /\ DOMAIN printed' = 1..(n + 2) /\ printed' # <<>>
             /\ \A i \in 1..n : printed'[i] = printed[i]
             /\ printed'[n + 1].k = "exn" /\ printed'[n + 2].k = "included"
             /\ \E a, b : /\ printed' = Append(Append(printed, a), b)
                          /\ a.k = "exn" /\ b.k = "included"
  <1> DEFINE a == [k |-> "exn", exc |-> exc]
             b == Rec("included")
             m == Append(printed, a)
             n == Len(printed)
  <1>1. IsASeq(printed) /\ printed' = printed \o <<a, b>> /\ a.k = "exn" /\ b.k = "included"
    BY DEF Uncaught, AttemptTypeOK, Rec
  <1> HIDE DEF a, b
  <1>2. printed' = Append(m, b)
    BY <1>1, AppendedTwo
  <1>3. /\ n \in Nat /\ DOMAIN printed = 1..n /\ IsASeq(m) /\ Len(m) = n + 1
        /\ \A i \in 1..n : m[i] = printed[i]
        /\ m[n + 1] = a
    BY <1>1, Appended
  <1> HIDE DEF m
  <1>4. /\ DOMAIN printed' = 1..(n + 2) /\ Len(printed') = n + 2 /\ printed' # <<>>
        /\ \A i \in 1..(n + 1) : printed'[i] = m[i]
        /\ printed'[n + 2] = b
    <2>1. /\ Len(printed') = Len(m) + 1 /\ DOMAIN printed' = 1..(Len(m) + 1) /\ printed' # <<>>
          /\ \A i \in 1..Len(m) : printed'[i] = m[i]
          /\ printed'[Len(m) + 1] = b
      BY <1>2, <1>3, Appended
    <2>2. (n + 1) + 1 = n + 2
      BY <1>3
    <2> QED BY <1>3, <2>1, <2>2
  <1>5. \A i \in 1..n : printed'[i] = printed[i]
    <2>1. \A i \in 1..n : i \in 1..(n + 1)
      BY <1>3
    <2> QED BY <1>3, <1>4, <2>1
  <1>6. printed'[n + 1] = a
    <2>1. n + 1 \in 1..(n + 1)
      BY <1>3
    <2> QED BY <1>3, <1>4, <2>1
  <1> QED BY <1>1, <1>2, <1>3, <1>4, <1>5, <1>6 DEF m

\* A line printed at the end of another transcript (Prints).
LEMMA OneLine ==
  ASSUME AttemptTypeOK, NEW r, printed' = Append(printed, r)
  PROVE  LET n == Len(printed)
         IN  /\ n \in Nat /\ DOMAIN printed = 1..n /\ Len(printed') = n + 1
             /\ DOMAIN printed' = 1..(n + 1) /\ printed' # <<>>
             /\ \A i \in 1..n : printed'[i] = printed[i]
             /\ printed'[n + 1] = r
  <1>1. IsASeq(printed)
    BY DEF AttemptTypeOK
  <1> QED BY <1>1, Appended

\* What the emission of a frame prints, and what it leaves.
LEMMA EmitLines ==
  ASSUME AttemptTypeOK, Walking, OpenFrame <=> Begun, Emit
  PROVE  /\ UNCHANGED <<files, calls, exc, ended>> /\ exc # "none" /\ Phrase.do = "bind"
         /\ \E r : /\ printed' = Append(printed, r)
                   /\ r.k \in {"begin", "end", "truncated"}
                   /\ Begun <=> r.k = "end"
                   /\ OpenFrame' <=> r.k = "begin"
                   /\ r.k = "begin" => r.loc \subseteq Here
  <1>1. UNCHANGED <<files, calls, exc, ended>> /\ frame # NoFrame
    BY DEF Emit
  <1>2. exc # "none" /\ Phrase.do = "bind" /\ frame.loc \subseteq Here
    BY <1>1 DEF Walking
  <1>3. \/ frame.at = "begin" /\ printed' = Append(printed, [k |-> "truncated"]) /\ frame' = NoFrame
        \/ /\ frame.at = "begin" /\ frame' = [frame EXCEPT !.at = "end"]
           /\ printed' = Append(printed, [k |-> "begin", exc |-> exc, loc |-> frame.loc])
        \/ frame.at = "end" /\ printed' = Append(printed, [k |-> "end"]) /\ frame' = NoFrame
    BY DEF Emit, Prints, Rec
  <1>4. frame \in FrameRecords
    BY <1>1 DEF AttemptTypeOK
  <1>5. CASE /\ frame.at = "begin" /\ printed' = Append(printed, [k |-> "truncated"])
             /\ frame' = NoFrame
    BY <1>1, <1>2, <1>5 DEF OpenFrame
  <1>6. CASE /\ frame.at = "begin" /\ frame' = [frame EXCEPT !.at = "end"]
             /\ printed' = Append(printed, [k |-> "begin", exc |-> exc, loc |-> frame.loc])
    <2>1. frame' \in FrameRecords /\ frame'.at = "end"
      BY <1>4, <1>6 DEF FrameRecords
    <2>2. OpenFrame'
      BY <2>1 DEF OpenFrame, NoFrame, FrameRecords, Nothing
    <2> QED BY <1>1, <1>2, <1>6, <2>2 DEF OpenFrame
  <1>7. CASE frame.at = "end" /\ printed' = Append(printed, [k |-> "end"]) /\ frame' = NoFrame
    BY <1>1, <1>2, <1>7 DEF OpenFrame
  <1> QED BY <1>3, <1>5, <1>6, <1>7

\* Every step keeps a frame's begin and end together.
LEMMA PairedStep ==
  ASSUME AttemptTypeOK, Walking, PassedInv, [AttemptNext]_attemptVars,
         Paired(printed), OpenFrame <=> Begun
  PROVE  Paired(printed') /\ (OpenFrame' <=> Begun')
  <1>0. ASSUME NEW r, printed' = Append(printed, r), Begun => r.k = "end"
        PROVE  Paired(printed') /\ (Begun' <=> r.k = "begin")
    <2> DEFINE n == Len(printed)
    <2>1. /\ n \in Nat /\ DOMAIN printed = 1..n /\ Len(printed') = n + 1
          /\ DOMAIN printed' = 1..(n + 1) /\ printed' # <<>>
          /\ \A i \in 1..n : printed'[i] = printed[i]
          /\ printed'[n + 1] = r
      BY <1>0, OneLine
    <2>2. ASSUME NEW i \in 1..n, printed'[i].k = "begin" PROVE printed'[i + 1].k = "end"
      <3>1. CASE i = n
        <4>1. printed[n].k = "begin" /\ printed # <<>>
          BY <2>1, <2>2, <3>1
        <4> QED BY <1>0, <2>1, <3>1, <4>1 DEF Begun
      <3>2. CASE i # n
        <4>0. n \in Nat /\ i \in 1..n /\ i # n
          BY <2>1, <2>2, <3>2
        <4>1. i \in 1..(n - 1) /\ i + 1 \in 1..n
          <5> HIDE DEF n
          <5> QED BY <4>0
        <4> QED BY <2>1, <2>2, <4>1 DEF Paired
      <3> QED BY <3>1, <3>2
    <2>3. Paired(printed')
      BY <2>1, <2>2 DEF Paired
    <2> QED BY <2>1, <2>3 DEF Begun
  <1>1. CASE Adopt
    <2>1. printed' = <<>> /\ frame' = NoFrame
      BY <1>1 DEF Adopt
    <2> QED BY <2>1 DEF Paired, OpenFrame, Begun
  <1>2. CASE Uncaught
    <2> DEFINE n == Len(printed)
    <2>1. /\ n \in Nat /\ DOMAIN printed = 1..n /\ Len(printed') = n + 2 /\ printed' # <<>>
          /\ \A i \in 1..n : printed'[i] = printed[i]
          /\ printed'[n + 1].k = "exn" /\ printed'[n + 2].k = "included"
      BY <1>2, UncaughtLines
    <2>2. frame = NoFrame /\ frame' = NoFrame
      BY <1>2 DEF Uncaught, Raising, InLoad, NoCall
    <2>3. ~Begun
      BY <2>2 DEF OpenFrame
    <2>4. ASSUME NEW i \in 1..(n + 1), printed'[i].k = "begin" PROVE printed'[i + 1].k = "end"
      <3>1. i # n + 1
        BY <2>1, <2>4
      <3>2. i \in 1..n /\ printed[i].k = "begin"
        BY <2>1, <2>4, <3>1
      <3>3. i # n
        <4>1. printed # <<>>
          BY <2>1, <3>2
        <4> QED BY <2>3, <3>2, <4>1 DEF Begun
      <3>5. n \in Nat /\ i \in 1..n /\ i # n
        BY <2>1, <3>2, <3>3
      <3>4. i \in 1..(n - 1) /\ i + 1 \in 1..n
        <4> HIDE DEF n
        <4> QED BY <3>5
      <3> QED BY <2>1, <3>2, <3>4 DEF Paired
    <2>5. Paired(printed')
      BY <2>1, <2>4 DEF Paired
    <2> QED BY <2>1, <2>2, <2>5 DEF OpenFrame, Begun
  <1>3. CASE Emit
    <2>1. PICK r : /\ printed' = Append(printed, r) /\ (Begun <=> r.k = "end")
                   /\ (OpenFrame' <=> r.k = "begin")
      BY <1>3, EmitLines
    <2> QED BY <1>0, <2>1
  <1>4. CASE Times
    <2>1. printed' = Append(printed, [k |-> "timing", exc |-> exc])
      BY <1>4 DEF Times, Prints
    <2>2. frame = NoFrame /\ frame' = NoFrame
      BY <1>4 DEF Times, Raising, InLoad, NoCall
    <2>3. ~Begun /\ ~OpenFrame'
      BY <2>2 DEF OpenFrame
    <2> QED BY <1>0, <2>1, <2>3
  <1>5. CASE NotOpened /\ \E r : /\ printed' = Append(printed, r)
                                 /\ r.k \notin {"begin", "end", "timing", "exn"}
    <2>1. ~Begun /\ ~OpenFrame'
      BY <1>5 DEF NotOpened, OpenFrame
    <2> QED BY <1>0, <1>5, <2>1
  <1>6. CASE printed' = printed /\ (frame' = frame \/ NotOpened)
    BY <1>6 DEF NotOpened, OpenFrame, Begun
  <1> QED BY <1>1, <1>2, <1>3, <1>4, <1>5, <1>6, Lines

\* A phrase that raises or whose calls run stays, unless it prints how it ends.
LEMMA Stays ==
  ASSUME AttemptAssumption, AttemptTypeOK, Walking, [AttemptNext]_attemptVars, ~Adopt,
         printed' = printed \/ Emit \/ Times, exc # "none" \/ calls # <<>>
  PROVE  Here' = Here /\ Phrase' = Phrase /\ (exc' # "none" \/ calls' # <<>>)
  <1>0. SUFFICES files' = files /\ (exc' # "none" \/ calls' # <<>>)
    BY DEF Here, File, Phrase
  <1>1. \A r : Append(printed, r) # printed
    <2>1. \A r : Len(Append(printed, r)) = Len(printed) + 1 /\ Len(printed) \in Nat
      BY Appended DEF AttemptTypeOK
    <2> QED BY <2>1
  <1>2. CASE \/ Evaluates \/ Include \/ FileEnds \/ Probe \/ Finish \/ ForkBasis \/ PhraseRaises
    BY <1>1, <1>2 DEF Evaluates, Include, FileEnds, Probe, Finish, ForkBasis, PhraseRaises,
                      AtPhrase, Nothing
  <1>3. CASE Enter
    <2>1. PICK r : calls' = Append(calls, r)
      BY <1>3 DEF Enter
    <2>2. calls' # <<>> /\ files' = files
      BY <1>3, <2>1, Appended DEF Enter, AttemptTypeOK, IsASeq
    <2> QED BY <2>2
  <1>4. CASE Returns
    <2>1. Leave /\ calls # <<>> /\ files' = files
      BY <1>4 DEF Returns
    <2>2. printed' = printed
      BY <1>4, <1>1 DEF Returns, InLoad, Emit, Times, Raising, Nothing
    <2>3. Len(calls) > MaxDepth
      <3>1. Len(calls) \in Nat \ {0} /\ MaxDepth \in Nat
        BY <2>1, CallsType DEF AttemptAssumption
      <3>2. ~ (Len(calls) <= MaxDepth)
        BY <1>1, <2>1, <2>2 DEF Leave
      <3> QED BY <3>1, <3>2
    <2>4. Len(calls') = Len(calls) - 1 /\ Len(calls) \in Nat /\ Len(calls) > 1
      <3>1. Len(calls) \in Nat \ {0} /\ Len(Front(calls)) = Len(calls) - 1
        BY <2>1, CallsType
      <3>2. MaxDepth \in Nat \ {0}
        BY DEF AttemptAssumption
      <3> QED BY <2>1, <2>3, <3>1, <3>2 DEF Leave
    <2>5. calls' # <<>>
      <3>1. Len(calls') # 0
        BY <2>4
      <3> QED BY <3>1
    <2> QED BY <2>1, <2>5
  <1>5. CASE ProveFails
    <2>1. exc' \in Errors /\ files' = files
      BY <1>5 DEF ProveFails
    <2> QED BY <2>1 DEF AttemptAssumption
  <1>6. CASE Emit \/ Times
    BY <1>6 DEF Emit, Times, NoCall
  <1>7. CASE TacticCatches
    BY <1>7 DEF TacticCatches, NoCall
  <1>8. CASE PhraseCatches
    <2>1. ~Bound(Phrase.name, "other")
      BY <1>1, <1>8 DEF Bound, Prints, PhraseCatches, Emit, Times, Raising, InLoad, NoCall
    <2>2. (\E e \in Errors : exc' = e) /\ files' = files
      BY <1>8, <2>1 DEF PhraseCatches
    <2> QED BY <2>2 DEF AttemptAssumption
  <1>9. CASE Uncaught
    <2>1. Len(printed') = Len(printed) + 2 /\ Len(printed) \in Nat
      BY <1>9, UncaughtLines
    <2>2. printed' # printed
      BY <2>1
    <2>3. ~Emit
      BY <1>9 DEF Uncaught, Raising, InLoad, Emit
    <2>4. ~Times
      <3>1. Times => Len(printed') = Len(printed) + 1
        BY OneLine DEF Times, Prints
      <3> QED BY <2>1, <3>1
    <2> QED BY <2>2, <2>3, <2>4
  <1>10. CASE Delta \/ Token \/ Completes \/ Cut \/ UNCHANGED attemptVars
    BY <1>10 DEF Delta, Token, Completes, Cut, Read, attemptVars, loadVars
  <1> QED BY <1>2, <1>3, <1>4, <1>5, <1>6, <1>7, <1>8, <1>9, <1>10 DEF AttemptNext

\* Every step keeps a frame at the transcript's end to the phrase that is evaluated.
LEMMA EndingStep ==
  ASSUME AttemptAssumption, AttemptTypeOK, Walking, PassedInv, [AttemptNext]_attemptVars,
         Ending, OpenFrame <=> Begun
  PROVE  Ending'
  <1>0. ASSUME NEW r, printed' = Append(printed, r),
               \/ r.k \notin {"begin", "timing"} /\ ~Begun
               \/ Emit /\ (r.k = "begin" => r.loc \subseteq Here) /\ r.k # "timing"
               \/ Times /\ ~Begun /\ r.k # "begin",
               ~Adopt
        PROVE  Ending'
    <2> DEFINE n == Len(printed)
    <2>1. /\ n \in Nat /\ DOMAIN printed = 1..n /\ Len(printed') = n + 1
          /\ DOMAIN printed' = 1..(n + 1)
          /\ \A i \in 1..n : printed'[i] = printed[i]
          /\ printed'[n + 1] = r
      BY <1>0, OneLine
    <2>2. SUFFICES ASSUME NEW i \in DOMAIN printed', printed'[i].k = "begin", Near(i)'
                   PROVE  /\ printed'[i].loc \subseteq Here' /\ Phrase'.do = "bind"
                          /\ exc' # "none" \/ calls' # <<>>
      BY DEF Ending
    <2>3. CASE i = n + 1
      <3>1. r.k = "begin"
        BY <2>1, <2>2, <2>3
      <3>2. Emit /\ r.loc \subseteq Here
        BY <1>0, <3>1
      <3>3. UNCHANGED <<files, calls, exc>> /\ exc # "none" /\ Phrase.do = "bind"
        BY <3>2 DEF Emit, Walking
      <3>4. Here' = Here /\ Phrase' = Phrase
        BY <3>3 DEF Here, File, Phrase
      <3> QED BY <2>1, <2>3, <3>2, <3>3, <3>4
    <2>4. CASE i # n + 1
      <3>1. i \in 1..n /\ printed'[i] = printed[i] /\ printed[i].k = "begin" /\ printed # <<>>
        <4>1. i \in 1..n
          <5>1. n \in Nat /\ i \in 1..(n + 1)
            BY <2>1
          <5> HIDE DEF n
          <5> QED BY <5>1, <2>4
        <4>2. printed # <<>>
          BY <2>1, <4>1
        <4> QED BY <2>1, <2>2, <4>1, <4>2
      <3>2. i = n \/ (i + 1 = n /\ r.k = "timing")
        <4>1. i = n + 1 \/ i + 1 = n + 1 \/ (i + 2 = n + 1 /\ printed'[i + 2].k = "timing")
          BY <2>1, <2>2 DEF Near
        <4>2. n \in Nat /\ i \in Nat
          BY <2>1, <3>1
        <4>3. i + 1 = n + 1 => i = n
          <5> HIDE DEF n
          <5> QED BY <4>2
        <4>4. i + 2 = n + 1 => i + 1 = n
          <5> HIDE DEF n
          <5> QED BY <4>2
        <4> QED BY <2>1, <2>4, <4>1, <4>3, <4>4
      <3>3. i = n => Begun
        BY <3>1 DEF Begun
      <3>4. Emit \/ Times
        BY <1>0, <3>2, <3>3
      <3>5. Near(i)
        BY <3>2 DEF Near
      <3>6. printed[i].loc \subseteq Here /\ Phrase.do = "bind" /\ (exc # "none" \/ calls # <<>>)
        BY <2>1, <3>1, <3>5 DEF Ending
      <3>7. Here' = Here /\ Phrase' = Phrase /\ (exc' # "none" \/ calls' # <<>>)
        BY <1>0, <3>4, <3>6, Stays
      <3> QED BY <3>1, <3>6, <3>7
    <2> QED BY <2>3, <2>4
  <1>1. CASE Adopt
    BY <1>1 DEF Adopt, Ending
  <1>2. CASE Uncaught
    <2> DEFINE n == Len(printed)
    <2>1. /\ n \in Nat /\ DOMAIN printed = 1..n /\ Len(printed') = n + 2
          /\ DOMAIN printed' = 1..(n + 2)
          /\ printed'[n + 1].k = "exn" /\ printed'[n + 2].k = "included"
      BY <1>2, UncaughtLines
    <2>2. ASSUME NEW i \in DOMAIN printed', printed'[i].k = "begin", Near(i)' PROVE FALSE
      <3>1. i \in Nat /\ n \in Nat /\ i # n + 2 /\ i # n + 1
        BY <2>1, <2>2
      <3>2. i = n + 2 \/ i + 1 = n + 2 \/ (i + 2 = n + 2 /\ printed'[i + 2].k = "timing")
        BY <2>1, <2>2 DEF Near
      <3>3. ~ (i + 1 = n + 2)
        <4> HIDE DEF n
        <4> QED BY <3>1
      <3> QED BY <2>1, <3>1, <3>2, <3>3
    <2> QED BY <2>2 DEF Ending
  <1>3. CASE Emit
    <2>1. PICK r : /\ printed' = Append(printed, r) /\ r.k # "timing"
                   /\ r.k = "begin" => r.loc \subseteq Here
      BY <1>3, EmitLines
    <2>2. ~Adopt
      BY <1>3 DEF Emit, Adopt
    <2> QED BY <1>0, <1>3, <2>1, <2>2
  <1>4. CASE Times
    <2>1. printed' = Append(printed, [k |-> "timing", exc |-> exc])
      BY <1>4 DEF Times, Prints
    <2>2. frame = NoFrame /\ ~Adopt
      BY <1>4 DEF Times, Raising, InLoad, Adopt
    <2>3. ~Begun
      BY <2>2 DEF OpenFrame
    <2> QED BY <1>0, <1>4, <2>1, <2>2, <2>3
  <1>5. CASE ~Adopt /\ NotOpened /\ \E r : /\ printed' = Append(printed, r)
                                           /\ r.k \notin {"begin", "end", "timing", "exn"}
    <2>1. ~Begun
      BY <1>5 DEF NotOpened, OpenFrame
    <2> QED BY <1>0, <1>5, <2>1
  <1>6. CASE ~Adopt /\ printed' = printed
    <2>1. SUFFICES ASSUME NEW i \in DOMAIN printed', printed'[i].k = "begin", Near(i)'
                   PROVE  /\ printed'[i].loc \subseteq Here' /\ Phrase'.do = "bind"
                          /\ exc' # "none" \/ calls' # <<>>
      BY DEF Ending
    <2>2. Near(i)
      BY <1>6, <2>1 DEF Near
    <2>3. printed[i].loc \subseteq Here /\ Phrase.do = "bind" /\ (exc # "none" \/ calls # <<>>)
      BY <1>6, <2>1, <2>2 DEF Ending
    <2>4. Here' = Here /\ Phrase' = Phrase /\ (exc' # "none" \/ calls' # <<>>)
      BY <1>6, <2>3, Stays
    <2> QED BY <1>6, <2>3, <2>4
  <1> QED BY <1>1, <1>2, <1>3, <1>4, <1>5, <1>6, Lines

\* Every step keeps the first failure to the phrase that ended first.
LEMMA FailingStep ==
  ASSUME AttemptTypeOK, Walking, PassedInv, [AttemptNext]_attemptVars, Ending, Failing
  PROVE  Failing'
  <1>1. CASE Adopt
    BY <1>1 DEF Adopt, Failing
  <1>2. ASSUME ended' = ended, Grows(printed, printed', {"exn"}) PROVE Failing'
    <2>1. /\ Len(printed) \in Nat /\ DOMAIN printed = 1..Len(printed)
          /\ DOMAIN printed' = 1..Len(printed') /\ Len(printed') \in Nat
          /\ Len(printed) <= Len(printed')
          /\ \A i \in 1..Len(printed) : printed'[i] = printed[i]
          /\ \A i \in 1..Len(printed') : i > Len(printed) => printed'[i].k # "exn"
      BY <1>2 DEF Grows
    <2>2. ASSUME \A j \in DOMAIN printed' : printed'[j].k # "exn" PROVE ended' = <<>>
      <3>1. ASSUME NEW j \in DOMAIN printed PROVE printed[j].k # "exn"
        <4>1. j \in DOMAIN printed' /\ printed'[j] = printed[j]
          BY <2>1, <3>1
        <4> QED BY <2>2, <4>1
      <3> QED BY <1>2, <3>1 DEF Failing
    <2>3. ASSUME NEW j \in DOMAIN printed', FirstExn(j)'
          PROVE  /\ j \in DOMAIN printed /\ FirstExn(j)
      <3>1. j \in DOMAIN printed
        <4>1. ~ (j > Len(printed))
          BY <2>1, <2>3 DEF FirstExn
        <4> QED BY <2>1, <2>3, <4>1
      <3>2. \A h \in DOMAIN printed : h \in DOMAIN printed' /\ printed'[h] = printed[h]
        BY <2>1
      <3> QED BY <2>3, <3>1, <3>2 DEF FirstExn
    <2>4. ASSUME NEW j \in DOMAIN printed', FirstExn(j)', NEW i \in DOMAIN printed',
                 printed'[i].k = "begin", FailedFrame(i, j)'
          PROVE  /\ i \in DOMAIN printed /\ printed'[i] = printed[i] /\ printed[i].k = "begin"
                 /\ FailedFrame(i, j)
      <3>1. j \in DOMAIN printed
        BY <2>3, <2>4
      <3>2. i \in Nat /\ j \in Nat /\ (j = i + 2 \/ (j = i + 3 /\ printed'[i + 2].k = "timing"))
        BY <2>1, <2>4 DEF FailedFrame
      <3>3. i \in 1..Len(printed) /\ (j = i + 3 => i + 2 \in 1..Len(printed))
        BY <2>1, <2>4, <3>1, <3>2
      <3>4. printed'[i] = printed[i] /\ (j = i + 3 => printed'[i + 2] = printed[i + 2])
        BY <2>1, <3>3
      <3> QED BY <2>1, <2>4, <3>2, <3>3, <3>4 DEF FailedFrame
    <2> QED BY <1>2, <2>2, <2>3, <2>4 DEF Failing
  <1>3. CASE Uncaught
    <2> DEFINE n == Len(printed)
               e == [of |-> File.of, phrase |-> Phrase]
    <2>1. /\ n \in Nat /\ DOMAIN printed = 1..n /\ Len(printed') = n + 2
          /\ DOMAIN printed' = 1..(n + 2)
          /\ \A i \in 1..n : printed'[i] = printed[i]
          /\ printed'[n + 1].k = "exn" /\ printed'[n + 2].k = "included"
      BY <1>3, UncaughtLines
    <2>2. /\ ended' = Append(ended, e) /\ ended \in Seq(EndedRecords)
          /\ e.of = File.of /\ e.phrase = Phrase
      BY <1>3 DEF Uncaught, AttemptTypeOK
    <2> HIDE DEF e
    <2>3. ended' # <<>> /\ ended'[1] = IF ended = <<>> THEN e ELSE ended[1]
      <3>1. IsASeq(ended)
        BY <2>2 DEF IsASeq
      <3>2. /\ ended' # <<>> /\ Len(ended) \in Nat /\ ended'[Len(ended) + 1] = e
            /\ \A i \in 1..Len(ended) : ended'[i] = ended[i]
        BY <2>2, <3>1, Appended
      <3>3. CASE ended = <<>>
        <4>1. Len(ended) + 1 = 1
          BY <3>3
        <4> QED BY <3>2, <3>3, <4>1
      <3>4. CASE ended # <<>>
        <4>1. 1 \in 1..Len(ended)
          BY <2>2, <3>4
        <4> QED BY <3>2, <3>4, <4>1
      <3> QED BY <3>3, <3>4
    <2>4. (\A j \in DOMAIN printed' : printed'[j].k # "exn") => ended' = <<>>
      <3>1. n + 1 \in DOMAIN printed'
        BY <2>1
      <3> QED BY <2>1, <3>1
    <2>5. ASSUME NEW j \in DOMAIN printed', FirstExn(j)', NEW i \in DOMAIN printed',
                 printed'[i].k = "begin", FailedFrame(i, j)'
          PROVE  /\ printed'[i].loc \subseteq {<<ended'[1].of, ended'[1].phrase.name>>}
                 /\ ended'[1].phrase.do = "bind"
      <3>1. j # n + 2 /\ j \in 1..(n + 2) /\ i \in 1..(n + 2) /\ n \in Nat
        BY <2>1, <2>5 DEF FirstExn
      <3>2. j = i + 2 \/ (j = i + 3 /\ printed'[i + 2].k = "timing")
        BY <2>5 DEF FailedFrame
      <3>3. /\ i \in 1..n /\ (j = i + 3 => i + 2 \in 1..n)
            /\ j = n + 1 \/ j \in 1..n
            /\ (j = n + 1 /\ j = i + 2 => i + 1 = n) /\ (j = n + 1 /\ j = i + 3 => i + 2 = n)
        <4> HIDE DEF n
        <4>1. j \in 1..(n + 1)
          BY <3>1
        <4>2. j = i + 2 \/ j = i + 3
          BY <3>2
        <4> QED BY <3>1, <4>1, <4>2
      <3>4. printed'[i] = printed[i] /\ printed[i].k = "begin"
            /\ (j = i + 3 => printed[i + 2].k = "timing")
        BY <2>1, <2>5, <3>2, <3>3
      <3>5. CASE j = n + 1
        <4>1. \A h \in DOMAIN printed : printed[h].k # "exn"
          <5>1. ASSUME NEW h \in DOMAIN printed PROVE printed[h].k # "exn"
            <6>1. h \in 1..n /\ h < n + 1 /\ h \in DOMAIN printed'
              BY <2>1, <5>1
            <6> QED BY <2>1, <2>5, <3>5, <6>1 DEF FirstExn
          <5> QED BY <5>1
        <4>2. ended'[1] = e
          BY <2>3, <4>1 DEF Failing
        <4>3. Near(i)
          BY <3>2, <3>3, <3>4, <3>5 DEF Near
        <4>4. printed[i].loc \subseteq Here /\ Phrase.do = "bind"
          BY <2>1, <3>3, <3>4, <4>3 DEF Ending
        <4> QED BY <2>2, <3>4, <4>2, <4>4 DEF Here
      <3>6. CASE j \in 1..n
        <4>1. FirstExn(j)
          <5>1. \A h \in DOMAIN printed : h \in DOMAIN printed' /\ printed'[h] = printed[h]
            BY <2>1
          <5> QED BY <2>1, <2>5, <3>6, <5>1 DEF FirstExn
        <4>2. FailedFrame(i, j)
          BY <3>2, <3>4 DEF FailedFrame
        <4>3. /\ ended # <<>> /\ printed[i].loc \subseteq {<<ended[1].of, ended[1].phrase.name>>}
              /\ ended[1].phrase.do = "bind"
          BY <2>1, <3>3, <3>4, <3>6, <4>1, <4>2 DEF Failing
        <4> QED BY <2>3, <3>4, <4>3
      <3> QED BY <3>3, <3>5, <3>6
    <2> QED BY <2>3, <2>4, <2>5 DEF Failing
  <1>4. CASE ~Adopt /\ ~Uncaught
    <2>1. ended' = ended
      BY <1>4, Lines
    <2>2. printed' = printed \/ \E r : printed' = Append(printed, r) /\ r.k # "exn"
      <3>1. CASE Emit
        <4>1. \/ printed' = Append(printed, [k |-> "truncated"])
              \/ printed' = Append(printed, [k |-> "begin", exc |-> exc, loc |-> frame.loc])
              \/ printed' = Append(printed, [k |-> "end"])
          BY <3>1 DEF Emit, Prints, Rec
        <4> QED BY <4>1
      <3>2. CASE Times
        <4>1. printed' = Append(printed, [k |-> "timing", exc |-> exc])
          BY <3>2 DEF Times, Prints
        <4> QED BY <4>1
      <3> QED BY <1>4, <3>1, <3>2, Lines
    <2>3. IsASeq(printed)
      BY DEF AttemptTypeOK
    <2>4. Grows(printed, printed', {"exn"})
      <3>1. CASE printed' = printed
        <4>1. Rec("val").k \notin {"exn"}
          BY DEF Rec
        <4> QED BY <2>3, <3>1, <4>1, GrowsByOne
      <3>2. ASSUME NEW r, printed' = Append(printed, r), r.k # "exn"
            PROVE  Grows(printed, printed', {"exn"})
        BY <2>3, <3>2, GrowsByOne
      <3> QED BY <2>2, <3>1, <3>2
    <2> QED BY <1>2, <2>1, <2>4
  <1> QED BY <1>1, <1>3, <1>4

\* What the reader makes of one line of the activity, when it is in order
\* (account_proof_activity).
LEMMA ActivityStepped ==
  ASSUME MaxDepth \in Nat, NEW s \in ActivityStates, ~s.bad, NEW no \in Nat, NEW loc \in SUBSET Places,
         NEW last \in Nat
  PROVE  /\ s.overflow = 0 /\ no = s.entered + 1 /\ Len(s.active) < MaxDepth =>
              ActivityStep(s, [k |-> "enter", no |-> no, loc |-> loc])
                = [active |-> Append(s.active, [k |-> "enter", no |-> no, loc |-> loc]),
                   entered |-> no, overflow |-> 0, bad |-> FALSE]
         /\ s.active # <<>> /\ Last(s.active).no = no /\ s.overflow = 0 =>
              ActivityStep(s, [k |-> "leave", no |-> no])
                = [active |-> Front(s.active), entered |-> s.entered, overflow |-> 0, bad |-> FALSE]
         /\ s.overflow = 0 /\ no = s.entered + 1 /\ Len(s.active) = MaxDepth =>
              ActivityStep(s, [k |-> "overflow", no |-> no])
                = [active |-> s.active, entered |-> no, overflow |-> no, bad |-> FALSE]
         /\ s.overflow = no =>
              ActivityStep(s, [k |-> "resume", no |-> no, last |-> last])
                = [active |-> s.active, entered |-> last, overflow |-> 0, bad |-> FALSE]
  <1>0. /\ s.active \in Seq(Entered) /\ s.entered \in Nat /\ s.overflow \in Nat /\ s.bad = FALSE
        /\ s = [active |-> s.active, entered |-> s.entered, overflow |-> s.overflow, bad |-> s.bad]
        /\ Len(s.active) \in Nat
    BY DEF ActivityStates
  <1>1. ASSUME s.overflow = 0, no = s.entered + 1, Len(s.active) < MaxDepth
        PROVE  ActivityStep(s, [k |-> "enter", no |-> no, loc |-> loc])
                = [active |-> Append(s.active, [k |-> "enter", no |-> no, loc |-> loc]),
                   entered |-> no, overflow |-> 0, bad |-> FALSE]
    <2> DEFINE r == [k |-> "enter", no |-> no, loc |-> loc]
               more == Append(s.active, r)
               bad == s.bad \/ s.overflow # 0 \/ r.no # s.entered + 1 \/ Len(s.active) >= MaxDepth
    <2>1. bad = FALSE
      BY <1>0, <1>1
    <2>2. ActivityStep(s, r) = [s EXCEPT !.active = more, !.entered = r.no, !.bad = bad]
      BY DEF ActivityStep
    <2>3. r.no = no
      OBVIOUS
    <2> HIDE DEF more, bad, r
    <2>4. ActivityStep(s, r) = [active |-> more, entered |-> no, overflow |-> 0, bad |-> FALSE]
      BY <1>0, <1>1, <2>1, <2>2, <2>3
    <2> QED BY <2>4 DEF more, r
  <1>2. ASSUME s.active # <<>>, Last(s.active).no = no, s.overflow = 0
        PROVE  ActivityStep(s, [k |-> "leave", no |-> no])
                = [active |-> Front(s.active), entered |-> s.entered, overflow |-> 0, bad |-> FALSE]
    <2> DEFINE r == [k |-> "leave", no |-> no]
               less == Front(s.active)
    <2>1. ActivityStep(s, r) = [s EXCEPT !.active = less]
      BY <1>2 DEF ActivityStep
    <2> HIDE DEF less, r
    <2>2. ActivityStep(s, r) = [active |-> less, entered |-> s.entered, overflow |-> 0, bad |-> FALSE]
      BY <1>0, <1>2, <2>1
    <2> QED BY <2>2 DEF less, r
  <1>3. ASSUME s.overflow = 0, no = s.entered + 1, Len(s.active) = MaxDepth
        PROVE  ActivityStep(s, [k |-> "overflow", no |-> no])
                = [active |-> s.active, entered |-> no, overflow |-> no, bad |-> FALSE]
    <2> DEFINE r == [k |-> "overflow", no |-> no]
               bad == s.bad \/ s.overflow # 0 \/ Len(s.active) # MaxDepth \/ r.no # s.entered + 1
    <2>1. bad = FALSE
      BY <1>0, <1>3
    <2>2. ActivityStep(s, r) = [s EXCEPT !.overflow = r.no, !.entered = r.no, !.bad = bad]
      BY DEF ActivityStep
    <2>3. r.no = no
      OBVIOUS
    <2> HIDE DEF bad, r
    <2>4. ActivityStep(s, r) = [active |-> s.active, entered |-> no, overflow |-> no, bad |-> FALSE]
      BY <1>0, <2>1, <2>2, <2>3
    <2> QED BY <2>4 DEF r
  <1>4. ASSUME s.overflow = no
        PROVE  ActivityStep(s, [k |-> "resume", no |-> no, last |-> last])
                = [active |-> s.active, entered |-> last, overflow |-> 0, bad |-> FALSE]
    <2> DEFINE r == [k |-> "resume", no |-> no, last |-> last]
               bad == s.bad \/ s.overflow # r.no
    <2>1. bad = FALSE
      BY <1>0, <1>4
    <2>2. ActivityStep(s, r) = [s EXCEPT !.overflow = 0, !.entered = r.last, !.bad = bad]
      BY DEF ActivityStep
    <2>3. r.last = last
      OBVIOUS
    <2> HIDE DEF bad, r
    <2>4. ActivityStep(s, r) = [active |-> s.active, entered |-> last, overflow |-> 0, bad |-> FALSE]
      BY <1>0, <2>1, <2>2, <2>3
    <2> QED BY <2>4 DEF r
  <1> QED BY <1>1, <1>2, <1>3, <1>4

\* A line that is not of the activity changes nothing for its reader.
LEMMA Unheard ==
  ASSUME NEW t, IsASeq(t), NEW r, r.k \notin ActivityKinds
  PROVE  Heard(Append(t, r)) = Heard(t)
  <1>1. Len(Append(t, r)) = Len(t) + 1
    BY Appended
  <1>2. Activities(Append(t, r))[Len(t) + 1] = ActivityStep(Activities(t)[Len(t)], r)
    BY ActivitiesAppend
  <1> QED BY <1>1, <1>2 DEF ActivityStep, ActivityKinds, Heard

\* Only a call that is entered or left says something of the activity.
LEMMA UnheardStep ==
  ASSUME AttemptTypeOK, [AttemptNext]_attemptVars, ~Adopt, ~Enter, ~Returns, ~ProveFails
  PROVE  calls' = calls /\ count' = count /\ Heard(printed') = Heard(printed)
  <1>0. IsASeq(printed)
    BY DEF AttemptTypeOK
  <1>1. ASSUME NEW r, r.k \notin ActivityKinds, printed' = Append(printed, r)
        PROVE  Heard(printed') = Heard(printed)
    BY <1>0, <1>1, Unheard
  <1>2. CASE Uncaught
    <2>1. PICK a, b : /\ printed' = Append(Append(printed, a), b)
                      /\ a.k = "exn" /\ b.k = "included"
      BY <1>2, UncaughtLines
    <2>2. a.k \notin ActivityKinds /\ b.k \notin ActivityKinds
      BY <2>1 DEF ActivityKinds
    <2> DEFINE m == Append(printed, a)
    <2>3. IsASeq(m) /\ printed' = Append(m, b) /\ Heard(m) = Heard(printed)
      BY <1>0, <2>1, <2>2, Appended, Unheard
    <2> HIDE DEF m
    <2>4. Heard(printed') = Heard(m)
      BY <2>2, <2>3, Unheard
    <2> QED BY <1>2, <2>3, <2>4 DEF Uncaught, NoCall
  <1>3. CASE Evaluates \/ PhraseCatches
    <2>1. printed' = printed \/ printed' = Append(printed, [k |-> "val", name |-> Phrase.name])
      BY <1>3 DEF Evaluates, PhraseCatches, Bound, Prints
    <2>2. Heard(printed') = Heard(printed)
      BY <1>1, <2>1 DEF ActivityKinds
    <2> QED BY <1>3, <2>2 DEF Evaluates, PhraseCatches, NoCall
  <1>4. CASE Probe \/ Finish \/ Times
    <2>1. \E r : printed' = Append(printed, r) /\ r.k \in {"ok", "mismatch", "done", "timing"}
      BY <1>4 DEF Probe, Finish, Times, Prints, Rec
    <2>2. Heard(printed') = Heard(printed)
      BY <1>1, <2>1 DEF ActivityKinds
    <2> QED BY <1>4, <2>2 DEF Probe, Finish, Times, NoCall
  <1>5. CASE Include \/ FileEnds \/ ForkBasis \/ PhraseRaises \/ TacticCatches
    BY <1>5 DEF Include, FileEnds, ForkBasis, PhraseRaises, TacticCatches, NoCall
  <1>6. CASE Emit
    <2>1. \/ printed' = Append(printed, [k |-> "truncated"])
          \/ printed' = Append(printed, [k |-> "begin", exc |-> exc, loc |-> frame.loc])
          \/ printed' = Append(printed, [k |-> "end"])
      BY <1>6 DEF Emit, Prints, Rec
    <2>2. Heard(printed') = Heard(printed)
      BY <1>1, <2>1 DEF ActivityKinds
    <2> QED BY <1>6, <2>2 DEF Emit
  <1>7. CASE Delta \/ Token
    <2>1. \E r : printed' = Append(printed, r) /\ r.k \in {"delta", "token"}
      BY <1>7 DEF Delta, Token, Prints, Rec
    <2>2. Heard(printed') = Heard(printed)
      BY <1>1, <2>1 DEF ActivityKinds
    <2> QED BY <1>7, <2>2 DEF Delta, Token, loadVars
  <1>8. CASE Completes \/ Cut \/ UNCHANGED attemptVars
    BY <1>8 DEF Completes, Cut, Read, attemptVars, loadVars
  <1> QED BY <1>2, <1>3, <1>4, <1>5, <1>6, <1>7, <1>8 DEF AttemptNext

\* A call that is entered is numbered, and recorded down to the bound (enter).
LEMMA EnterHeard ==
  ASSUME AttemptAssumption, AttemptTypeOK, AttemptTypeOK', ActivityRight, Enter
  PROVE  ActivityRight'
  <1> DEFINE s == Heard(printed)
             d == Len(calls)
  <1>1. PICK loc \in Locations :
          /\ calls' = Append(calls, [no |-> count', loc |-> loc])
          /\ printed' = IF Len(calls') <= MaxDepth
                        THEN Append(printed, [k |-> "enter", no |-> count', loc |-> loc])
                        ELSE IF Len(calls') = MaxDepth + 1
                        THEN Append(printed, [k |-> "overflow", no |-> count']) ELSE printed
    BY DEF Enter
  <1>2. count' = count + 1 /\ count \in Nat /\ count' \in Nat /\ count' # 0 /\ MaxDepth \in Nat \ {0}
    BY DEF Enter, AttemptTypeOK, AttemptAssumption
  <1> DEFINE c == [no |-> count', loc |-> loc]
  <1>3. /\ d \in Nat /\ DOMAIN calls = 1..d /\ Len(calls') = d + 1 /\ DOMAIN calls' = 1..(d + 1)
        /\ \A i \in 1..d : calls'[i] = calls[i]
        /\ calls'[d + 1].no = count' /\ calls'[d + 1].loc = loc
    <2>1. c.no = count' /\ c.loc = loc
      OBVIOUS
    <2>2. IsASeq(calls) /\ calls' = Append(calls, c)
      BY <1>1 DEF AttemptTypeOK, IsASeq
    <2> HIDE DEF c
    <2> QED BY <2>1, <2>2, Appended
  <1>4. \A i \in DOMAIN calls' : calls'[i].no # 0
    <2>1. ASSUME NEW i \in 1..(d + 1) PROVE calls'[i].no # 0
      <3>1. CASE i = d + 1
        BY <1>2, <1>3, <3>1
      <3>2. CASE i # d + 1
        <4>1. i \in 1..d
          BY <1>3, <2>1, <3>2
        <4> QED BY <1>3, <4>1 DEF ActivityRight
      <3> QED BY <3>1, <3>2
    <2> QED BY <1>3, <2>1
  <1>5. loc \in SUBSET Places
    <2>1. calls'[d + 1] \in CallRecords
      <3>1. calls' \in Seq(CallRecords) /\ d + 1 \in DOMAIN calls'
        BY <1>3 DEF AttemptTypeOK
      <3> QED BY <3>1
    <2> QED BY <1>3, <2>1 DEF CallRecords
  <1>6. /\ s \in ActivityStates /\ ~s.bad /\ s.active \in Seq(Entered)
        /\ \A i \in DOMAIN s.active : s.active[i].no = calls[i].no /\ s.active[i].loc = calls[i].loc
        /\ IF d <= MaxDepth
           THEN Len(s.active) = d /\ s.overflow = 0 /\ s.entered = count
           ELSE Len(s.active) = MaxDepth /\ s.overflow = calls[MaxDepth + 1].no
    <2>1. s \in ActivityStates
      BY DEF ActivityRight, Reading
    <2>2. s.active \in Seq(Entered)
      BY <2>1 DEF ActivityStates
    <2> QED BY <2>1, <2>2 DEF ActivityRight, Reading
  <1>7. ASSUME NEW r PROVE Heard(Append(printed, r)) = ActivityStep(s, r)
    <2>1. IsASeq(printed)
      BY DEF AttemptTypeOK
    <2>2. Len(Append(printed, r)) = Len(printed) + 1
      BY <2>1, Appended
    <2> QED BY <2>1, <2>2, ActivitiesAppend DEF Heard
  <1>9. DOMAIN s.active = 1..Len(s.active) /\ Len(s.active) \in Nat
    BY <1>6
  <1>8. Reading(Heard(printed))'
    <2> HIDE DEF s, d, c
    <2>1. CASE d < MaxDepth
      <3> DEFINE r == [k |-> "enter", no |-> count', loc |-> loc]
                 more == Append(s.active, r)
                 n == [active |-> more, entered |-> count', overflow |-> 0, bad |-> FALSE]
      <3>1. printed' = Append(printed, r)
        BY <1>1, <1>2, <1>3, <2>1
      <3>2. Heard(printed') = n
        <4>0. s.overflow = 0 /\ count' = s.entered + 1 /\ Len(s.active) < MaxDepth
          BY <1>2, <1>3, <1>6, <2>1
        <4>2. MaxDepth \in Nat /\ count' \in Nat /\ s \in ActivityStates /\ ~s.bad
          BY <1>2, <1>6
        <4>1. ActivityStep(s, r) = n
          BY <1>5, <4>0, <4>2, ActivityStepped
        <4> HIDE DEF r, n
        <4> QED BY <1>7, <3>1, <4>1
      <3>3. n.active = more /\ n.entered = count' /\ n.overflow = 0 /\ ~n.bad
        OBVIOUS
      <3>4. r \in Entered /\ r.no = count' /\ r.loc = loc
        BY <1>2, <1>5 DEF Entered
      <3> HIDE DEF r
      <3>5. /\ more \in Seq(Entered) /\ Len(more) = d + 1 /\ DOMAIN more = 1..(d + 1)
            /\ \A i \in 1..d : more[i] = s.active[i]
            /\ more[d + 1] = r
        <4>1. IsASeq(s.active) /\ Len(s.active) = d
          BY <1>3, <1>6, <2>1, <1>2 DEF IsASeq
        <4>2. more \in Seq(Entered)
          BY <1>6, <3>4
        <4> QED BY <4>1, <4>2, Appended
      <3> HIDE DEF more
      <3>6. n \in ActivityStates
        BY <1>2, <3>5 DEF ActivityStates
      <3> HIDE DEF n
      <3>7. ASSUME NEW i \in 1..(d + 1)
            PROVE  more[i].no = calls'[i].no /\ more[i].loc = calls'[i].loc
        <4>1. CASE i = d + 1
          BY <1>3, <3>4, <3>5, <4>1
        <4>2. CASE i # d + 1
          <5>1. i \in 1..d
            BY <1>3, <3>7, <4>2
          <5>2. i \in DOMAIN s.active
            <6>1. Len(s.active) = d
              BY <1>2, <1>3, <1>6, <2>1
            <6> QED BY <1>9, <5>1, <6>1
          <5> QED BY <1>3, <1>6, <3>5, <5>1, <5>2
        <4> QED BY <4>1, <4>2
      <3>8. Len(calls') <= MaxDepth
        BY <1>2, <1>3, <2>1
      <3> QED BY <1>3, <3>2, <3>3, <3>5, <3>6, <3>7, <3>8 DEF Reading
    <2>2. CASE d = MaxDepth
      <3> DEFINE r == [k |-> "overflow", no |-> count']
                 n == [active |-> s.active, entered |-> count', overflow |-> count', bad |-> FALSE]
      <3>1. printed' = Append(printed, r)
        BY <1>1, <1>2, <1>3, <2>2
      <3>2. Heard(printed') = n
        <4>0. s.overflow = 0 /\ count' = s.entered + 1 /\ Len(s.active) = MaxDepth
          BY <1>2, <1>3, <1>6, <2>2
        <4>2. MaxDepth \in Nat /\ count' \in Nat /\ s \in ActivityStates /\ ~s.bad
          BY <1>2, <1>6
        <4>1. ActivityStep(s, r) = n
          BY <1>5, <4>0, <4>2, ActivityStepped
        <4> HIDE DEF r, n
        <4> QED BY <1>7, <3>1, <4>1
      <3>3. n.active = s.active /\ n.entered = count' /\ n.overflow = count' /\ ~n.bad
            /\ n \in ActivityStates
        BY <1>2, <1>6 DEF ActivityStates
      <3> HIDE DEF n
      <3>4. ASSUME NEW i \in DOMAIN s.active
            PROVE  s.active[i].no = calls'[i].no /\ s.active[i].loc = calls'[i].loc
        <4>0. Len(s.active) = d
          BY <1>2, <1>3, <1>6, <2>2
        <4>1. i \in 1..d
          BY <1>9, <3>4, <4>0
        <4> QED BY <1>3, <1>6, <4>1
      <3>5. ~ (Len(calls') <= MaxDepth) /\ Len(s.active) = MaxDepth
            /\ calls'[MaxDepth + 1].no = count'
        BY <1>2, <1>3, <1>6, <2>2
      <3> QED BY <3>2, <3>3, <3>4, <3>5 DEF Reading
    <2>3. CASE d > MaxDepth
      <3>1. printed' = printed
        BY <1>1, <1>2, <1>3, <2>3
      <3>2. ASSUME NEW i \in DOMAIN s.active
            PROVE  s.active[i].no = calls'[i].no /\ s.active[i].loc = calls'[i].loc
        <4>0. Len(s.active) = MaxDepth
          BY <1>2, <1>3, <1>6, <2>3
        <4>2. i \in 1..MaxDepth
          BY <1>9, <3>2, <4>0
        <4>1. i \in 1..d
          BY <1>2, <1>3, <2>3, <4>2
        <4> QED BY <1>3, <1>6, <4>1
      <3>3. ~ (Len(calls') <= MaxDepth) /\ calls'[MaxDepth + 1] = calls[MaxDepth + 1]
            /\ ~ (d <= MaxDepth)
        BY <1>2, <1>3, <2>3
      <3> QED BY <1>6, <3>1, <3>2, <3>3 DEF Reading, s
    <2> QED BY <1>2, <1>3, <2>1, <2>2, <2>3
  <1> QED BY <1>4, <1>8 DEF ActivityRight

\* A call that is left is the innermost one that the reader has, or the first below
\* the bound, whose number ends the overflow (leave).
LEMMA LeaveHeard ==
  ASSUME AttemptAssumption, AttemptTypeOK, ActivityRight, Leave, calls # <<>>, count' = count
  PROVE  ActivityRight'
  <1> DEFINE s == Heard(printed)
             d == Len(calls)
             c == Last(calls).no
  <1>1. MaxDepth \in Nat \ {0} /\ count \in Nat /\ IsASeq(printed)
    BY DEF AttemptAssumption, AttemptTypeOK
  <1>2. /\ d \in Nat \ {0} /\ DOMAIN calls = 1..d /\ Len(calls') = d - 1
        /\ DOMAIN calls' = 1..(d - 1)
        /\ \A i \in 1..(d - 1) : calls'[i] = calls[i]
        /\ c = calls[d].no /\ c \in Nat
    <2>1. calls' = Front(calls) /\ Last(calls) = calls[d] /\ Last(calls) \in CallRecords
      BY CallsType DEF Leave
    <2>2. c \in Nat
      BY <2>1 DEF CallRecords
    <2> QED BY <2>1, <2>2, CallsType
  <1>3. /\ s \in ActivityStates /\ ~s.bad /\ s.active \in Seq(Entered)
        /\ \A i \in DOMAIN s.active : s.active[i].no = calls[i].no /\ s.active[i].loc = calls[i].loc
        /\ IF d <= MaxDepth
           THEN Len(s.active) = d /\ s.overflow = 0 /\ s.entered = count
           ELSE Len(s.active) = MaxDepth /\ s.overflow = calls[MaxDepth + 1].no
    BY DEF ActivityRight, Reading, ActivityStates
  <1>4. DOMAIN s.active = 1..Len(s.active) /\ Len(s.active) \in Nat
    BY <1>3
  <1>5. ASSUME NEW r PROVE Heard(Append(printed, r)) = ActivityStep(s, r)
    <2>2. Len(Append(printed, r)) = Len(printed) + 1
      BY <1>1, Appended
    <2> QED BY <1>1, <2>2, ActivitiesAppend DEF Heard
  <1>6. \A i \in DOMAIN calls' : calls'[i].no # 0
    <2>1. ASSUME NEW i \in 1..(d - 1) PROVE calls'[i].no # 0
      <3>1. i \in 1..d
        BY <1>2, <2>1
      <3> QED BY <1>2, <3>1 DEF ActivityRight
    <2> QED BY <1>2, <2>1
  <1>7. printed' = IF d <= MaxDepth THEN Append(printed, [k |-> "leave", no |-> c])
                   ELSE IF d = MaxDepth + 1
                   THEN Append(printed, [k |-> "resume", no |-> c, last |-> count]) ELSE printed
    BY DEF Leave
  <1>8. Reading(Heard(printed))'
    <2> HIDE DEF s, d, c
    <2>1. CASE d <= MaxDepth
      <3> DEFINE r == [k |-> "leave", no |-> c]
                 less == Front(s.active)
                 n == [active |-> less, entered |-> s.entered, overflow |-> 0, bad |-> FALSE]
      <3>1. printed' = Append(printed, r)
        BY <1>7, <2>1
      <3>2. Len(s.active) = d /\ s.overflow = 0 /\ s.entered = count /\ s.active # <<>>
        <4>1. Len(s.active) = d /\ s.overflow = 0 /\ s.entered = count
          BY <1>3, <2>1
        <4>2. Len(s.active) # 0
          BY <1>2, <4>1
        <4> QED BY <4>1, <4>2
      <3>3. /\ Last(s.active) = s.active[d] /\ less \in Seq(Entered) /\ Len(less) = d - 1
            /\ \A i \in 1..(d - 1) : less[i] = s.active[i]
        <4> DEFINE a == s.active
        <4>1. a \in Seq(Entered) /\ a # <<>> /\ Len(a) = d
          BY <1>3, <3>2
        <4> HIDE DEF a
        <4>2. /\ Last(a) = a[Len(a)] /\ Front(a) \in Seq(Entered) /\ Len(Front(a)) = Len(a) - 1
              /\ \A i \in 1..(Len(a) - 1) : Front(a)[i] = a[i]
          BY <4>1, FrontType
        <4> QED BY <4>1, <4>2 DEF a
      <3>4. Last(s.active).no = c
        <4>1. d \in DOMAIN s.active
          BY <1>2, <1>4, <3>2
        <4> QED BY <1>2, <1>3, <3>3, <4>1
      <3>5. Heard(printed') = n
        <4>1. ActivityStep(s, r) = n
          <5>1. c \in Nat /\ {} \in SUBSET Places /\ MaxDepth \in Nat /\ 0 \in Nat
            BY <1>1, <1>2
          <5> QED BY <1>3, <3>2, <3>4, <5>1, ActivityStepped
        <4> HIDE DEF r, n
        <4> QED BY <1>5, <3>1, <4>1
      <3>6. n.active = less /\ n.entered = count /\ n.overflow = 0 /\ ~n.bad
        BY <3>2
      <3> HIDE DEF less
      <3>7. n \in ActivityStates
        BY <1>1, <3>2, <3>3 DEF ActivityStates
      <3> HIDE DEF n
      <3>8. DOMAIN less = 1..(d - 1)
        BY <1>2, <3>3
      <3>9. ASSUME NEW i \in DOMAIN less
            PROVE  less[i].no = calls'[i].no /\ less[i].loc = calls'[i].loc
        <4>1. i \in 1..(d - 1) /\ i \in 1..d
          BY <1>2, <3>8, <3>9
        <4>2. i \in DOMAIN s.active
          BY <1>4, <3>2, <4>1
        <4> QED BY <1>2, <1>3, <3>3, <4>1, <4>2
      <3>10. Len(calls') <= MaxDepth
        BY <1>1, <1>2, <2>1
      <3> QED BY <1>2, <3>3, <3>5, <3>6, <3>7, <3>9, <3>10 DEF Reading
    <2>2. CASE d = MaxDepth + 1
      <3> DEFINE r == [k |-> "resume", no |-> c, last |-> count]
                 n == [active |-> s.active, entered |-> count, overflow |-> 0, bad |-> FALSE]
      <3>0. ~ (d <= MaxDepth)
        BY <1>1, <2>2
      <3>1. printed' = Append(printed, r)
        BY <1>7, <2>2, <3>0
      <3>2. Len(s.active) = MaxDepth /\ s.overflow = c
        BY <1>2, <1>3, <2>2, <3>0
      <3>3. Heard(printed') = n
        <4>1. ActivityStep(s, r) = n
          <5>1. c \in Nat /\ {} \in SUBSET Places /\ MaxDepth \in Nat /\ count \in Nat
            BY <1>1, <1>2
          <5> QED BY <1>3, <3>2, <5>1, ActivityStepped
        <4> HIDE DEF r, n
        <4> QED BY <1>5, <3>1, <4>1
      <3>4. n.active = s.active /\ n.entered = count /\ n.overflow = 0 /\ ~n.bad
            /\ n \in ActivityStates
        BY <1>1, <1>3 DEF ActivityStates
      <3> HIDE DEF n
      <3>5. ASSUME NEW i \in DOMAIN s.active
            PROVE  s.active[i].no = calls'[i].no /\ s.active[i].loc = calls'[i].loc
        <4>1. i \in 1..(d - 1)
          BY <1>1, <1>4, <2>2, <3>2, <3>5
        <4> QED BY <1>2, <1>3, <4>1
      <3>6. Len(calls') = MaxDepth /\ Len(calls') <= MaxDepth
        BY <1>1, <1>2, <2>2
      <3> QED BY <3>2, <3>3, <3>4, <3>5, <3>6 DEF Reading
    <2>3. CASE d > MaxDepth + 1
      <3>0. ~ (d <= MaxDepth) /\ d # MaxDepth + 1
        BY <1>1, <1>2, <2>3
      <3>1. printed' = printed
        BY <1>7, <3>0
      <3>2. Len(s.active) = MaxDepth /\ s.overflow = calls[MaxDepth + 1].no
        BY <1>3, <3>0
      <3>3. MaxDepth + 1 \in 1..(d - 1) /\ ~ (Len(calls') <= MaxDepth)
        BY <1>1, <1>2, <2>3
      <3>4. ASSUME NEW i \in DOMAIN s.active
            PROVE  s.active[i].no = calls'[i].no /\ s.active[i].loc = calls'[i].loc
        <4>1. i \in 1..(d - 1)
          BY <1>1, <1>2, <1>4, <2>3, <3>2, <3>4
        <4> QED BY <1>2, <1>3, <4>1
      <3> QED BY <1>2, <1>3, <3>1, <3>2, <3>3, <3>4 DEF Reading, s
    <2> QED BY <1>1, <1>2, <2>1, <2>2, <2>3
  <1> QED BY <1>6, <1>8 DEF ActivityRight

\* Every step keeps the reader's calls to those that run, down to the bound.
LEMMA ActivityRightStep ==
  ASSUME AttemptAssumption, AttemptTypeOK, AttemptTypeOK', ActivityRight, [AttemptNext]_attemptVars
  PROVE  ActivityRight'
  <1>1. CASE Adopt
    <2>1. printed' = <<>> /\ calls' = <<>> /\ count' = 0
      BY <1>1 DEF Adopt
    <2>2. Heard(<<>>) = Quiet
      <3>1. IsASeq(<<>>)
        BY DEF IsASeq
      <3> QED BY <3>1, ActivitiesDefined DEF Heard
    <2>3. Quiet \in ActivityStates
      BY DEF Quiet, ActivityStates
    <2>4. MaxDepth \in Nat /\ Len(<<>>) = 0 /\ DOMAIN <<>> = {}
      BY DEF AttemptAssumption
    <2>5. Quiet.active = <<>> /\ Quiet.overflow = 0 /\ Quiet.entered = 0 /\ ~Quiet.bad
      BY DEF Quiet
    <2>6. 0 <= MaxDepth
      BY <2>4
    <2>7. Heard(printed') = Quiet
      BY <2>1, <2>2
    <2>8. Reading(Heard(printed))'
      BY <2>1, <2>3, <2>4, <2>5, <2>6, <2>7 DEF Reading
    <2> QED BY <2>1, <2>4, <2>8 DEF ActivityRight
  <1>2. CASE Enter
    BY <1>2, EnterHeard
  <1>3. CASE Returns \/ ProveFails
    <2>1. Leave /\ calls # <<>> /\ count' = count
      BY <1>3 DEF Returns, ProveFails
    <2> QED BY <2>1, LeaveHeard
  <1>4. CASE ~Adopt /\ ~Enter /\ ~Returns /\ ~ProveFails
    <2>1. calls' = calls /\ count' = count /\ Heard(printed') = Heard(printed)
      BY <1>4, UnheardStep
    <2> QED BY <2>1 DEF ActivityRight, Reading
  <1> QED BY <1>1, <1>2, <1>3, <1>4

\* Every step keeps what the transcript says of whom to name.
LEMMA AttributionStep ==
  ASSUME AttemptAssumption, AttemptTypeOK, AttemptTypeOK', Walking, PassedInv, AttributionInv,
         [AttemptNext]_attemptVars
  PROVE  AttributionInv'
  <1>1. Paired(printed') /\ (OpenFrame' <=> Begun')
    BY PairedStep DEF AttributionInv
  <1>2. Ending' /\ Failing'
    BY EndingStep, FailingStep DEF AttributionInv
  <1>3. ActivityRight'
    BY ActivityRightStep DEF AttributionInv
  <1>4. torn' = "name" => CutsInName
    <2>1. torn' = torn \/ torn' = "no" \/ Cut
      BY DEF AttemptNext, Evaluates, Include, FileEnds, Probe, Finish, ForkBasis, PhraseRaises,
             Enter, Returns, ProveFails, Emit, TacticCatches, PhraseCatches, Times, Uncaught,
             SameAttempt, readVars, Delta, Token, Completes, Read, Adopt, attemptVars
    <2>2. CASE Cut
      BY <2>2 DEF Cut, CutPoints, Read
    <2> QED BY <2>1, <2>2 DEF AttributionInv
  <1> QED BY <1>1, <1>2, <1>3, <1>4 DEF AttributionInv

\* Candidates are locations of the call (_binding_at_locations).
LEMMA BindingWithin ==
  ASSUME NEW loc, NEW dependencies \in BOOLEAN
  PROVE  /\ BindingAt(loc, dependencies) \subseteq loc
         /\ \A b \in BindingAt(loc, FALSE) : b[1] = "entry"
  BY DEF BindingAt

\* Whom a cut attempt names as running follows from the reader's calls.
LEMMA RunningRight ==
  ASSUME AttemptAssumption, AttemptTypeOK, Walking, AttributionInv, ~CutsInName,
         known \in BOOLEAN, RunningBinding # {}
  PROVE  /\ calls # <<>> /\ Last(calls).no = Last(RunningCall).no
         /\ RunningBinding = {<<File.of, Phrase.name>>}
  <1>1. RunningCall # <<>> /\ RunningBinding = BindingAt(Last(RunningCall).loc, known)
    BY DEF RunningBinding
  <1>2. ActivityRecorded /\ RunningCall = Activity.active
    BY <1>1 DEF RunningCall
  <1>3. Activity = Heard(printed)
    <2>1. CASE torn = "no"
      BY <2>1 DEF Activity, Heard, Whole
    <2>2. CASE torn # "no"
      <3>1. torn \in {"nonce", "rest"} /\ printed # <<>>
        BY <2>2 DEF AttemptTypeOK, AttributionInv
      <3>2. Last(printed).k \notin ActivityKinds
        BY <1>2, <3>1 DEF ActivityRecorded, CutIn
      <3>3. Whole = Front(printed) /\ IsASeq(Front(printed))
            /\ printed = Append(Front(printed), Last(printed))
        BY <2>2, <3>1, Fronted DEF Whole, AttemptTypeOK
      <3>4. Heard(Append(Front(printed), Last(printed))) = Heard(Front(printed))
        BY <3>2, <3>3, Unheard
      <3>5. Activity = Heard(Whole)
        BY DEF Activity, Heard
      <3> QED BY <3>3, <3>4, <3>5
    <2> QED BY <2>1, <2>2
  <1> DEFINE s == Heard(printed)
             a == s.active
             d == Len(calls)
  <1>4. /\ s.overflow = 0 /\ a # <<>> /\ a \in Seq(Entered) /\ RunningCall = a
        /\ \A i \in DOMAIN a : a[i].no = calls[i].no /\ a[i].loc = calls[i].loc
        /\ IF d <= MaxDepth THEN Len(a) = d ELSE s.overflow = calls[MaxDepth + 1].no
    BY <1>1, <1>2, <1>3 DEF ActivityRecorded, AttributionInv, ActivityRight, Reading, ActivityStates
  <1>5. MaxDepth \in Nat /\ d \in Nat /\ DOMAIN calls = 1..d
    BY DEF AttemptAssumption, AttemptTypeOK
  <1>6. d <= MaxDepth
    <2>1. SUFFICES ASSUME ~ (d <= MaxDepth) PROVE FALSE
      OBVIOUS
    <2>2. MaxDepth + 1 \in DOMAIN calls
      BY <1>5, <2>1
    <2>3. calls[MaxDepth + 1].no # 0
      BY <2>2 DEF AttributionInv, ActivityRight
    <2> QED BY <1>4, <2>1, <2>3
  <1> HIDE DEF s, a
  <1>7. /\ Len(a) = d /\ d \in DOMAIN a /\ Last(a) = a[d] /\ calls # <<>>
    <2>1. Len(a) = d
      BY <1>4, <1>6
    <2>2. Len(a) \in Nat \ {0} /\ DOMAIN a = 1..Len(a) /\ Last(a) = a[Len(a)]
      BY <1>4, FrontType
    <2>3. calls # <<>>
      BY <2>1, <2>2
    <2> QED BY <2>1, <2>2, <2>3
  <1>8. Last(calls) = calls[d] /\ d \in DOMAIN calls
    BY <1>7, CallsType
  <1>9. Last(RunningCall).no = Last(calls).no /\ Last(RunningCall).loc \subseteq Here
    BY <1>4, <1>7, <1>8 DEF Walking
  <1>10. RunningBinding \subseteq Here
    BY <1>1, <1>9, BindingWithin
  <1> QED BY <1>7, <1>9, <1>10 DEF Here

\* Whom a failed attempt names follows from the frame before the first failure.
LEMMA FailingRight ==
  ASSUME AttemptTypeOK, AttributionInv, NEW b \in FailingBinding
  PROVE  ended # <<>> /\ ended[1] = [of |-> "entry", phrase |-> Do("bind", b[2])]
  <1> DEFINE event == Last(Diagnostics.events)
             j == FirstFailure
             i == event.begin
  <1>1. /\ DiagnosticsRecorded /\ Diagnostics.events # <<>>
        /\ j # 0 /\ Following(event) = j
        /\ b \in BindingAt(Whole[i].loc, FALSE)
    BY DEF FailingBinding
  <1>2. /\ IsASeq(Whole) /\ Paired(Whole) /\ IsASeq(printed) /\ Len(printed) \in Nat
        /\ Len(Whole) \in Nat /\ DOMAIN Whole = 1..Len(Whole) /\ DOMAIN printed = 1..Len(printed)
        /\ Len(Whole) <= Len(printed)
        /\ \A k \in DOMAIN Whole : Whole[k] = printed[k]
    <2>1. IsASeq(printed) /\ Len(printed) \in Nat /\ DOMAIN printed = 1..Len(printed)
      BY Appended DEF AttemptTypeOK
    <2>2. CASE torn = "no"
      BY <2>1, <2>2 DEF Whole, AttributionInv
    <2>3. CASE torn # "no"
      <3>1. printed # <<>> /\ Whole = Front(printed)
        BY <2>3 DEF AttemptTypeOK, Whole
      <3>2. /\ IsASeq(Whole) /\ Len(Whole) = Len(printed) - 1 /\ Len(printed) \in Nat \ {0}
            /\ DOMAIN Whole = 1..(Len(printed) - 1)
            /\ \A k \in 1..(Len(printed) - 1) : Whole[k] = printed[k]
        BY <2>1, <3>1, Fronted
      <3>3. Paired(Whole)
        <4>1. ASSUME NEW k \in 1..(Len(Whole) - 1), Whole[k].k = "begin"
              PROVE  Whole[k + 1].k = "end"
          <5>1. k \in 1..(Len(printed) - 1) /\ k + 1 \in 1..(Len(printed) - 1)
            BY <3>2, <4>1
          <5> QED BY <3>2, <4>1, <5>1 DEF AttributionInv, Paired
        <4> QED BY <4>1 DEF Paired
      <3>4. Len(Whole) \in Nat /\ DOMAIN Whole = 1..Len(Whole) /\ Len(Whole) <= Len(printed)
        BY <3>2
      <3> QED BY <2>1, <3>2, <3>3, <3>4
    <2> QED BY <2>2, <2>3
  <1>3. /\ i \in DOMAIN Whole /\ Whole[i].k = "begin" /\ event.end = i + 1
    <2>1. Diagnostics \in FrameStates /\ FramesHold(Whole, Len(Whole), Diagnostics)
      BY <1>1, <1>2, FramesRight DEF Diagnostics, DiagnosticsRecorded
    <2> DEFINE es == Diagnostics.events
    <2>2. es \in Seq([begin : Nat, end : Nat]) /\ es # <<>>
      BY <1>1, <2>1 DEF FrameStates
    <2>3. Len(es) \in DOMAIN es /\ Last(es) = es[Len(es)]
      <3> HIDE DEF es
      <3>1. Len(es) \in Nat \ {0} /\ DOMAIN es = 1..Len(es) /\ Last(es) = es[Len(es)]
        BY <2>2, FrontType
      <3> QED BY <3>1
    <2>4. FrameOf(Whole, Len(Whole), event)
      BY <2>1, <2>3 DEF FramesHold
    <2> QED BY <1>2, <2>4 DEF FrameOf
  <1> HIDE DEF event
  <1>4. i \in Nat /\ i \in DOMAIN printed /\ printed[i].k = "begin" /\ Whole[i].loc = printed[i].loc
    <2>1. i \in DOMAIN printed /\ i \in Nat
      BY <1>2, <1>3
    <2> QED BY <1>2, <1>3, <2>1
  <1>5. /\ j \in DOMAIN Whole /\ Whole[j].k = "exn"
        /\ \A h \in DOMAIN Whole : Whole[h].k = "exn" => j <= h
    <2>1. Failures # {}
      BY <1>1 DEF FirstFailure
    <2>2. \E f \in Failures : \A h \in Failures : f <= h
      <3>1. Failures \subseteq Nat
        BY <1>2 DEF Failures
      <3>2. PICK f \in Failures : \A h \in Failures : ~ (h < f)
        <4> DEFINE R == {p \in Nat \X Nat : p[1] < p[2]}
        <4>1. IsWellFoundedOn(R, Nat)
          BY NatLessThanWellFounded DEF OpToRel
        <4>2. PICK f \in Failures : \A y \in Failures : ~ (<<y, f>> \in R)
          BY <2>1, <3>1, <4>1, WFMin
        <4> QED BY <3>1, <4>2
      <3>3. \A h \in Failures : f <= h
        BY <3>1, <3>2
      <3> QED BY <3>3
    <2>3. j \in Failures /\ \A h \in Failures : j <= h
      BY <2>1, <2>2 DEF FirstFailure
    <2> QED BY <2>3 DEF Failures
  <1>6. FailedFrame(i, j)
    <2>1. \/ j = i + 2
          \/ j = i + 3 /\ i + 2 \in DOMAIN Whole /\ Whole[i + 2].k = "timing"
      <3> DEFINE e == Whole[i].exc
                 at == event.end + 1
                 Is(k, kind) == k \in DOMAIN Whole /\ Whole[k] = [k |-> kind, exc |-> e]
      <3>1. j = IF Is(at, "exn") THEN at
                ELSE IF Is(at, "timing") /\ Is(at + 1, "exn") THEN at + 1 ELSE 0
        BY <1>1 DEF Following
      <3>2. at = i + 2 /\ at + 1 = i + 3
        BY <1>3, <1>4
      <3>3. Is(at, "timing") => at \in DOMAIN Whole /\ Whole[at].k = "timing"
        OBVIOUS
      <3> HIDE DEF Is, at
      <3> QED BY <1>1, <3>1, <3>2, <3>3
    <2> QED BY <1>2, <2>1 DEF FailedFrame
  <1>7. FirstExn(j) /\ j \in DOMAIN printed
    <2>1. j \in DOMAIN printed /\ printed[j].k = "exn" /\ j \in Nat
      BY <1>2, <1>5
    <2>2. ASSUME NEW h \in DOMAIN printed, h < j PROVE printed[h].k # "exn"
      <3>1. h \in DOMAIN Whole /\ ~ (j <= h)
        BY <1>2, <1>5, <2>1, <2>2
      <3> QED BY <1>2, <1>5, <3>1
    <2> QED BY <2>1, <2>2 DEF FirstExn
  <1>8. /\ ended # <<>> /\ ended[1].phrase.do = "bind"
        /\ printed[i].loc \subseteq {<<ended[1].of, ended[1].phrase.name>>}
    BY <1>4, <1>6, <1>7 DEF AttributionInv, Failing
  <1>9. b = <<ended[1].of, ended[1].phrase.name>> /\ b[1] = "entry"
    BY <1>1, <1>4, <1>8, BindingWithin
  <1>10. ended[1] \in EndedRecords /\ ended[1].phrase \in Phrases
    <2>1. ended \in Seq(EndedRecords)
      BY DEF AttemptTypeOK
    <2>2. ended[1] \in EndedRecords
      BY <1>8, <2>1
    <2> QED BY <2>2 DEF EndedRecords
  <1>11. ended[1].of = "entry" /\ ended[1].phrase = [do |-> "bind", name |-> b[2]]
    <2>1. ended[1].of = b[1] /\ ended[1].phrase.name = b[2]
      BY <1>9
    <2> QED BY <1>8, <1>9, <1>10, <2>1 DEF Phrases
  <1>12. ended[1] = [of |-> "entry", phrase |-> [do |-> "bind", name |-> b[2]]]
    BY <1>10, <1>11 DEF EndedRecords
  <1> QED BY <1>8, <1>12 DEF Do

-----------------------------------------------------------------------------
(* The theorems.                                                           *)

EvidenceInv == AttemptTypeOK /\ Walking /\ PassedInv /\ AttributionInv /\ known \in BOOLEAN

\* At the start nothing is printed, and no call runs.
LEMMA EvidenceStart ==
  ASSUME AttemptAssumption, AttemptInit
  PROVE  EvidenceInv
  <1>1. AttemptTypeOK /\ Walking /\ PassedInv
    BY PassedStart
  <1>2. /\ printed = <<>> /\ ended = <<>> /\ calls = <<>> /\ count = 0 /\ frame = NoFrame
        /\ torn = "no" /\ known = FALSE
    BY DEF AttemptInit, Loading
  <1>3. Paired(printed) /\ (OpenFrame <=> Begun) /\ Ending /\ Failing
    BY <1>2 DEF Paired, OpenFrame, Begun, Ending, Failing
  <1>4. ActivityRight
    <2>1. Heard(printed) = Quiet
      <3>1. IsASeq(<<>>)
        BY DEF IsASeq
      <3> QED BY <1>2, <3>1, ActivitiesDefined DEF Heard
    <2>2. Quiet \in ActivityStates
      BY DEF Quiet, ActivityStates
    <2>3. Quiet.active = <<>> /\ Quiet.overflow = 0 /\ Quiet.entered = 0 /\ ~Quiet.bad
      BY DEF Quiet
    <2>4. 0 <= MaxDepth /\ Len(<<>>) = 0 /\ DOMAIN <<>> = {}
      BY DEF AttemptAssumption
    <2>5. Reading(Heard(printed))
      BY <1>2, <2>1, <2>2, <2>3, <2>4 DEF Reading
    <2> QED BY <1>2, <2>4, <2>5 DEF ActivityRight
  <1> QED BY <1>1, <1>2, <1>3, <1>4 DEF EvidenceInv, AttributionInv

\* Every step of the child, of its wrapper and of the reader keeps the invariant.
LEMMA EvidenceStep ==
  ASSUME AttemptAssumption, EvidenceInv, [AttemptNext]_attemptVars
  PROVE  EvidenceInv'
  <1>1. AttemptTypeOK' /\ Walking'
    BY AttemptTypeStep, WalkingStep DEF EvidenceInv, Walking
  <1>2. PassedInv'
    BY PassedStep DEF EvidenceInv, Walking
  <1>3. AttributionInv'
    BY <1>1, AttributionStep DEF EvidenceInv
  <1>4. known' \in BOOLEAN
    BY DEF EvidenceInv, AttemptNext, Evaluates, Include, FileEnds, Probe, Finish, ForkBasis,
           PhraseRaises, Enter, Returns, ProveFails, Emit, TacticCatches, PhraseCatches, Times,
           Uncaught, SameAttempt, readVars, Delta, Token, Completes, Cut, Read, Adopt, attemptVars
  <1> QED BY <1>1, <1>2, <1>3, <1>4 DEF EvidenceInv

\* What is read of an attempt, whatever its source and wherever it is cut: a passed
\* source was evaluated to its end, files it includes too, with every quoted claim bound
\* to what it quotes, and without an objection no axiom is new (evidence_verdict,
\* account_claims, account_foundation_delta).
THEOREM AttemptPassedMeansProved ==
  ASSUME AttemptAssumption
  PROVE  AttemptSpec => []PassedMeansProved
  <1>1. AttemptInit => EvidenceInv
    BY EvidenceStart
  <1>2. EvidenceInv /\ [AttemptNext]_attemptVars => EvidenceInv'
    BY EvidenceStep
  <1>3. EvidenceInv => PassedMeansProved
    BY PassedRight DEF EvidenceInv
  <1> QED BY <1>1, <1>2, <1>3, PTL DEF AttemptSpec

\* Whom a failed or cut attempt names, where no cut falls within the literal name of a
\* record: the innermost call that runs, and the phrase whose exception ended the
\* entrypoint (account_proof_activity, account_proof_diagnostics).
THEOREM AttemptAttributionTrue ==
  ASSUME AttemptAssumption, ~CutsInName
  PROVE  AttemptSpec => []AttributionTrue
  <1>1. AttemptInit => EvidenceInv
    BY EvidenceStart
  <1>2. EvidenceInv /\ [AttemptNext]_attemptVars => EvidenceInv'
    BY EvidenceStep
  <1>3. EvidenceInv => AttributionTrue
    BY RunningRight, FailingRight DEF EvidenceInv, AttributionTrue
  <1> QED BY <1>1, <1>2, <1>3, PTL DEF AttemptSpec

-----------------------------------------------------------------------------
(* What a shelf answers.                                                   *)

\* What holds of the first file of a walk along imports, and of the files that a file
\* of the walk of which it holds imports, holds of all (_captured_warm_sources).
LEMMA Reached ==
  ASSUME NEW start, NEW next, NEW X, start \subseteq X,
         \A p \in X \cap Reach(start, next) : next[p] \subseteq X
  PROVE  Reach(start, next) \subseteq X
  <1> DEFINE N == Cardinality(AnswerPaths)
             Grown(before) == before \cup UNION {next[p] : p \in before}
             Is(f, n) == f = [i \in 0..n |-> IF i = 0 THEN start ELSE Grown(f[i - 1])]
             S == {n \in Nat : \E f : Is(f, n)}
  <1>0. N \in Nat
    BY AnswerAssumption, FS_CardinalityType
  <1>1. 0 \in S
    <2>1. Is([i \in 0..0 |-> start], 0)
      OBVIOUS
    <2> QED BY <2>1
  <1>2. ASSUME NEW n \in Nat, n \in S PROVE n + 1 \in S
    <2>1. PICK f : Is(f, n)
      BY <1>2
    <2> HIDE DEF Grown
    <2> DEFINE g == [i \in 0..(n + 1) |-> IF i = n + 1 THEN Grown(f[n]) ELSE f[i]]
    <2>2. ASSUME NEW i \in 0..(n + 1)
          PROVE  g[i] = IF i = 0 THEN start ELSE Grown(g[i - 1])
      <3>1. CASE i = n + 1
        BY <3>1
      <3>2. CASE i # n + 1
        <4>1. i \in 0..n /\ (i # 0 => i - 1 \in 0..n /\ i - 1 # n + 1)
          BY <3>2
        <4>2. f[i] = IF i = 0 THEN start ELSE Grown(f[i - 1])
          BY <4>1, <2>1
        <4> QED BY <4>1, <4>2, <3>2
      <3> QED BY <3>1, <3>2
    <2>3. Is(g, n + 1)
      BY <2>2
    <2> HIDE DEF g, Is
    <2> QED BY <2>3
  <1>3. N \in S
    <2> HIDE DEF S, N
    <2> QED BY <1>0, <1>1, <1>2, Induction
  <1>4. PICK e : Is(e, N)
    BY <1>3
  <1> DEFINE f == CHOOSE h : Is(h, N)
  <1>5. Reach(start, next) = f[N]
    BY DEF Reach
  <1>5a. f = CHOOSE h : Is(h, N)
    OBVIOUS
  <1> HIDE DEF N, f, S, Grown
  <1>6. Is(f, N)
    BY <1>4, <1>5a
  <1>7. f[0] = start /\ \A n \in Nat : n + 1 <= N => f[n + 1] = Grown(f[n])
    <2>1. f[0] = start
      BY <1>0, <1>6
    <2>2. ASSUME NEW n \in Nat, n + 1 <= N PROVE f[n + 1] = Grown(f[n])
      <3>1. n + 1 \in 0..N /\ n + 1 # 0 /\ (n + 1) - 1 = n
        BY <1>0, <2>2
      <3> HIDE DEF Grown
      <3> QED BY <1>6, <3>1
    <2> QED BY <2>1, <2>2
  <1> HIDE DEF Is
  <1> USE DEF Grown
  <1> DEFINE A == {n \in Nat : n <= N => \A m \in 0..n : f[m] \subseteq f[n]}
  <1>8. 0 \in A
    BY <1>0
  <1>9. ASSUME NEW n \in Nat, n \in A PROVE n + 1 \in A
    <2> SUFFICES ASSUME n + 1 <= N, NEW m \in 0..(n + 1) PROVE f[m] \subseteq f[n + 1]
      OBVIOUS
    <2>1. f[n] \subseteq f[n + 1]
      BY <1>7
    <2>2. m = n + 1 \/ m \in 0..n
      OBVIOUS
    <2> QED BY <2>1, <2>2, <1>9, <1>0
  <1>10. \A m \in 0..N : f[m] \subseteq f[N]
    <2>1. N \in A
      <3> HIDE DEF A
      <3> QED BY <1>0, <1>8, <1>9, Induction
    <2> QED BY <2>1, <1>0
  <1> HIDE DEF A
  <1> DEFINE B == {n \in Nat : n <= N => f[n] \subseteq X}
  <1>11. 0 \in B
    BY <1>7
  <1>12. ASSUME NEW n \in Nat, n \in B PROVE n + 1 \in B
    <2> SUFFICES ASSUME n + 1 <= N PROVE f[n + 1] \subseteq X
      OBVIOUS
    <2>1. n \in 0..N /\ f[n] \subseteq X
      BY <1>12, <1>0
    <2>2. \A p \in f[n] : next[p] \subseteq X
      BY <2>1, <1>10, <1>5
    <2> QED BY <2>1, <2>2, <1>7
  <1>13. N \in B
    <2> HIDE DEF B
    <2> QED BY <1>0, <1>11, <1>12, Induction
  <1> QED BY <1>13, <1>5, <1>0

\* Which file an import is, as far as its kind tells (_resolve_edge).
LEMMA ResolvedKind ==
  ASSUME NEW d, NEW hol, NEW decl, NEW lit, NEW t, t = ResolveIn(d, hol, decl, lit)
  PROVE  /\ t.kind \in CapturedKinds
              \cup {"external_resolved", "unresolved", "unresolved_source_root"}
         /\ t.kind \in CapturedKinds => There(d, t.path)
         /\ t.kind = "external_resolved" =>
              AbsoluteName(lit) /\ There(d, t.path) /\ t.path = Tail(lit)
         /\ t.kind \in {"unresolved", "unresolved_source_root"} => t.path = NoPath
         /\ t.kind = "unresolved" /\ hol = TRUE /\ ~AbsoluteName(lit) =>
              ~There(d, <<"h">> \o lit)
         /\ AbsoluteName(lit) => t.kind \in {"external_resolved", "unresolved"}
  <1>1. CASE AbsoluteName(lit)
    BY <1>1 DEF ResolveIn, CapturedKinds
  <1>2. CASE ~AbsoluteName(lit) /\ There(d, NextTo(decl, lit))
    BY <1>2 DEF ResolveIn, CapturedKinds
  <1>3. CASE ~AbsoluteName(lit) /\ ~There(d, NextTo(decl, lit))
    BY <1>3 DEF ResolveIn, CapturedKinds
  <1> QED BY <1>1, <1>2, <1>3

\* A recorded import is one of the file that declares it (visit).
LEMMA CapturedImport ==
  ASSUME NEW d, NEW hol, NEW r \in CapturedIn(d, hol)
  PROVE  /\ \E i \in DOMAIN Says[d[r.decl]] :
              r.lit = Says[d[r.decl]][i].lit /\ r.loader = Says[d[r.decl]][i].loader
         /\ r.kind = ResolveIn(d, hol, r.decl, r.lit).kind
         /\ r.path = ResolveIn(d, hol, r.decl, r.lit).path
         /\ r.bytes = IF r.path = NoPath THEN 0 ELSE d[r.path]
  <1>1. PICK p : r \in RecordsOf(d, hol, p)
    BY DEF CapturedIn
  <1>2. PICK i \in DOMAIN Says[d[p]] :
          LET t == ResolveIn(d, hol, p, Says[d[p]][i].lit)
          IN  r = [decl |-> p, loader |-> Says[d[p]][i].loader, lit |-> Says[d[p]][i].lit,
                   kind |-> t.kind, path |-> t.path,
                   bytes |-> IF t.path = NoPath THEN 0 ELSE d[t.path]]
    BY <1>1, Zenon DEF RecordsOf
  <1> HIDE DEF ResolveIn
  <1>3. r.decl = p /\ r.lit = Says[d[p]][i].lit /\ r.loader = Says[d[p]][i].loader
    BY <1>2
  <1> DEFINE t == ResolveIn(d, hol, p, r.lit)
  <1>4. t = ResolveIn(d, hol, p, Says[d[p]][i].lit) /\ t = ResolveIn(d, hol, r.decl, r.lit)
    BY <1>3
  <1> HIDE DEF t
  <1>5. r.kind = t.kind /\ r.path = t.path
        /\ r.bytes = IF t.path = NoPath THEN 0 ELSE d[t.path]
    BY <1>2, <1>4
  <1> QED BY <1>3, <1>4, <1>5

-----------------------------------------------------------------------------
(* The decision.                                                           *)

\* What the components keep from the start: the basis and the captured closure.
ShelfAt(w) ==
  /\ w \in AnswerWorlds
  /\ basis = [p \in w.loaded |-> w.disk[p]]
  /\ holdir = w.holdir
  /\ imports = CapturedIn(w.disk, w.holdir)
ShelfOK == \E w \in AnswerWorlds : ShelfAt(w)

\* An edge is of an import that the shelf's files or its directory answer, with the
\* bytes that the basis loaded if it is told to be satisfied.
EdgeTrue(e) ==
  LET r == e.record IN
  /\ r \in imports /\ r.loader = "needs" /\ e.lit = r.lit /\ e.path = Shelf(r)
  /\ r.kind \in {"external_resolved", "unresolved"}
  /\ e.satisfied = (e.path \in Loaded)
  /\ e.satisfied => e.bytes = basis[e.path]
  /\ Holds(r) => e.path \in Loaded /\ r.bytes = basis[e.path]
  /\ ~Holds(r) => r.kind = "unresolved" /\ ~AbsoluteName(r.lit)

\* A captured source has the inventory's bytes, or no bytes that HOL would take for
\* those of a loaded file.
SourceTrue(r) ==
  IF Inventoried(r) THEN basis[Coordinate(r)] = r.bytes
  ELSE r.loader = "needs" => ~InBasis(Name(r.path), r.bytes)

DecisionOf(edges) ==
  LET HasEdge(r) == \E e \in edges : e.record = r IN
  /\ \A e \in edges : EdgeTrue(e)
  /\ \A e, f \in edges : e.path = f.path => e.bytes = f.bytes
  /\ \A r \in imports : r.kind = "external_resolved" => HasEdge(r)
  /\ \A r \in Sources : r.loader = "needs" => SourceTrue(r)
  /\ \A r \in Roots : \A s \in Below(r) :
       IF s.kind \in CapturedKinds THEN SourceTrue(s) /\ Inventoried(s) ELSE HasEdge(s)
DecisionTrue == DecisionOf(document.edges)

Undecidedly == step \in {"decide", "refused"}
DecidedRight == ~Undecidedly => DecisionTrue
NothingSkipped ==
  step \in {"decide", "package", "restored", "refused"} => skipped = {}

AnswerInv == ShelfOK /\ DecidedRight /\ NothingSkipped /\ SkippedMeansSame

\* What a skipped import promises.
SkippedTrue(r) ==
  /\ Identity(r) \in mem
  /\ FromBasis(Identity(r)) =>
       \A s \in Below(r) : Identified(s) /\ FromBasis(Identity(s))

\* Nothing but the decision writes what the child is held to (Decide).
LEMMA DecisionStays ==
  ASSUME [AnswerNext]_answerVars
  PROVE  /\ UNCHANGED <<basis, holdir, imports>>
         /\ Decide \/ UNCHANGED document
         /\ mem \subseteq mem'
  <1> USE DEF answerVars, Given
  <1>1. CASE Decide
    BY <1>1 DEF Decide
  <1>2. CASE Revalidate
    BY <1>2 DEF Revalidate
  <1>3. CASE GuardedNeeds
    BY <1>3 DEF GuardedNeeds, Skip, Fail
  <1>4. CASE RuntimeNeeds
    BY <1>4 DEF RuntimeNeeds, Load, Skip, Fail
  <1>5. CASE PackagedImport
    BY <1>5 DEF PackagedImport, Load, Skip
  <1>6. CASE OtherImport
    BY <1>6 DEF OtherImport, Load, Skip, Fail
  <1>7. CASE LoadReturns
    BY <1>7 DEF LoadReturns
  <1>8. CASE \E p \in AnswerPaths \ {AnswerEntry}, bytes \in Leaves \cup {0} : EditTree(p, bytes)
    BY <1>8 DEF EditTree
  <1>9. CASE UNCHANGED answerVars
    BY <1>9
  <1> QED BY <1>1, <1>2, <1>3, <1>4, <1>5, <1>6, <1>7, <1>8, <1>9 DEF AnswerNext

\* Where that is unchanged, so is what a record stands for (Edge, matched_inventory).
LEMMA MeaningStays ==
  ASSUME UNCHANGED <<basis, holdir, imports>>, NEW r
  PROVE  /\ Below(r)' = Below(r) /\ Shelf(r)' = Shelf(r) /\ Inventoried(r)' = Inventoried(r)
         /\ Holds(r)' = Holds(r) /\ EdgeTrue(r)' = EdgeTrue(r)
         /\ SourceTrue(r)' = SourceTrue(r) /\ FromBasis(r)' = FromBasis(r)
         /\ Roots' = Roots /\ Sources' = Sources
  <1>1. basis' = basis /\ holdir' = holdir /\ imports' = imports
    OBVIOUS
  <1>2. Below(r)' = Below(r)
    BY <1>1, Zenon DEF Below
  <1>3. ASSUME NEW q PROVE Shelf(q)' = Shelf(q) /\ Holds(q)' = Holds(q)
    <2>1. Holds(q)' = Holds(q)
      BY <1>1 DEF Holds
    <2> QED BY <2>1, Zenon DEF Shelf
  <1>4. Sources' = Sources
    BY <1>1, Zenon DEF Sources
  <1>5. Loaded' = Loaded
    BY <1>1, Zenon DEF Loaded
  <1>6. FromBasis(r)' = FromBasis(r) /\ SourceTrue(r)' = SourceTrue(r)
        /\ Inventoried(r)' = Inventoried(r)
    BY <1>1, <1>5, Zenon DEF FromBasis, SourceTrue, Inventoried, Coordinate, InBasis
  <1>7. EdgeTrue(r)' = EdgeTrue(r)
    <2>1. Shelf(r.record)' = Shelf(r.record) /\ Holds(r.record)' = Holds(r.record)
      BY <1>3
    <2> QED BY <1>1, <1>5, <2>1 DEF EdgeTrue
  <1>8. Roots' = Roots
    BY <1>4, <1>5, Zenon DEF Roots, Inventoried, Coordinate
  <1> QED BY <1>2, <1>3, <1>4, <1>6, <1>7, <1>8

\* What was decided of edges holds as long as that is unchanged (Decide).
LEMMA DecisionKept ==
  ASSUME UNCHANGED <<basis, holdir, imports>>, NEW edges, DecisionOf(edges)
  PROVE  DecisionOf(edges)'
  <1>1. \A r : /\ Below(r)' = Below(r) /\ Inventoried(r)' = Inventoried(r)
               /\ EdgeTrue(r)' = EdgeTrue(r) /\ SourceTrue(r)' = SourceTrue(r)
    BY MeaningStays
  <1>2. Roots' = Roots /\ Sources' = Sources /\ imports' = imports
    BY MeaningStays
  <1> QED BY <1>1, <1>2, Zenon DEF DecisionOf

\* The decision looked at all that is to hold of it (build_profile_satisfaction,
\* dependency_transport_status).
LEMMA DecisionMade ==
  ASSUME ~Refuses, ~TransportRefuses
  PROVE  DecisionOf(Document.edges)
  <1> DEFINE E == Document.edges
             HasEdge(r) == \E e \in E : e.record = r
  <1>0. E = {Edge(r) : r \in Candidates}
    BY DEF Document
  <1>9. E = Document.edges
    OBVIOUS
  <1> HIDE DEF E
  <1>1. ASSUME NEW r \in Candidates PROVE HasEdge(r)
    <2>1. Edge(r).record = r
      BY DEF Edge
    <2> QED BY <1>0, <2>1
  <1>2. ASSUME NEW e \in E
        PROVE  EdgeTrue(e) /\ e.bytes = tree[e.path]
    <2>1. PICK r \in Candidates : e = Edge(r)
      BY <1>0
    <2>2. /\ e.record = r /\ e.lit = r.lit /\ e.path = Shelf(r) /\ e.bytes = tree[Shelf(r)]
          /\ e.satisfied = (Shelf(r) \in Loaded)
      BY <2>1 DEF Edge
    <2>3. e.path \in Loaded => e.bytes = basis[e.path]
      BY <2>2 DEF Refuses, ShelfValid, Changed
    <2>4. ~EdgeRefused(r) /\ r \in imports /\ r.loader = "needs"
          /\ r.kind \in {"external_resolved", "unresolved"} /\ (Holds(r) \/ Relative(r))
      BY DEF Refuses, Candidates
    <2>5. Holds(r) => e.path \in Loaded /\ r.bytes = basis[e.path]
      BY <2>2, <2>4 DEF EdgeRefused
    <2>6. ~Holds(r) => r.kind = "unresolved" /\ ~AbsoluteName(r.lit)
      BY <2>4 DEF Relative
    <2>7. e.satisfied <=> e.path \in Loaded
      BY <2>2
    <2> QED BY <2>2, <2>3, <2>4, <2>5, <2>6, <2>7 DEF EdgeTrue
  <1>3. ASSUME NEW r \in imports, r.kind = "external_resolved" PROVE HasEdge(r)
    <2>1. r \in Candidates
      BY <1>3 DEF TransportRefuses
    <2> QED BY <2>1, <1>1
  <1>4. \A r \in imports : ~SourceRefused(r) => SourceTrue(r)
    BY DEF SourceRefused, SourceTrue
  <1>5. \A r \in Sources : r.loader = "needs" => SourceTrue(r)
    BY <1>4 DEF Refuses, WarmRefused, Sources
  <1>6. ASSUME NEW r \in Roots, NEW s \in Below(r)
        PROVE  IF s.kind \in CapturedKinds THEN SourceTrue(s) /\ Inventoried(s)
               ELSE HasEdge(s)
    <2>1. s \in BelowSkipped /\ s \in imports
      BY DEF BelowSkipped, Below
    <2>2. IF s.kind \in CapturedKinds THEN ~SourceRefused(s) /\ Inventoried(s)
          ELSE s \in Candidates
      BY <2>1 DEF Refuses, WarmRefused
    <2> QED BY <2>1, <2>2, <1>1, <1>4
  <1>7. \A e, f \in E : e.path = f.path => e.bytes = f.bytes
    BY <1>2
  <1>8. \A e \in E : EdgeTrue(e)
    BY <1>2
  <1> QED BY <1>3, <1>5, <1>6, <1>7, <1>8, <1>9, Zenon DEF DecisionOf

\* A file that the capture found has a tree and a name (package_path).
LEMMA PathOf ==
  ASSUME NEW p \in AnswerPaths
  PROVE  /\ p # NoPath
         /\ Name(<<"p">> \o Tail(p)) = Name(p)
  <1>1. PICK S : p \in Seq(S) /\ Len(p) > 1
    BY AnswerAssumption
  <1> QED BY <1>1 DEF NoPath, Name, Last

\* Of a captured import: its file, and its bytes there (_resolve_edge, visit).
LEMMA CapturedBytes ==
  ASSUME NEW w \in AnswerWorlds, ShelfAt(w), NEW r \in imports
  PROVE  /\ r.kind \in CapturedKinds \cup {"external_resolved"} =>
              r.path \in AnswerPaths /\ r.path # NoPath /\ r.bytes = w.disk[r.path]
         /\ r.kind \notin CapturedKinds \cup {"external_resolved"} =>
              r.path = NoPath /\ r.bytes = 0
         /\ r.kind = "external_resolved" => AbsoluteName(r.lit) /\ r.path = Tail(r.lit)
         /\ AbsoluteName(r.lit) => r.kind \in {"external_resolved", "unresolved"}
  <1>1. r \in CapturedIn(w.disk, w.holdir)
    BY DEF ShelfAt
  <1>2. /\ r.kind = ResolveIn(w.disk, w.holdir, r.decl, r.lit).kind
        /\ r.path = ResolveIn(w.disk, w.holdir, r.decl, r.lit).path
        /\ r.bytes = IF r.path = NoPath THEN 0 ELSE w.disk[r.path]
    BY <1>1, CapturedImport
  <1>3. /\ r.kind \in CapturedKinds
              \cup {"external_resolved", "unresolved", "unresolved_source_root"}
        /\ r.kind \in CapturedKinds => There(w.disk, r.path)
        /\ r.kind = "external_resolved" =>
              AbsoluteName(r.lit) /\ There(w.disk, r.path) /\ r.path = Tail(r.lit)
        /\ r.kind \in {"unresolved", "unresolved_source_root"} => r.path = NoPath
        /\ AbsoluteName(r.lit) => r.kind \in {"external_resolved", "unresolved"}
    <2>1. PICK d, hol, decl, lit, t :
            /\ d = w.disk /\ hol = w.holdir /\ decl = r.decl /\ lit = r.lit
            /\ t = ResolveIn(d, hol, decl, lit)
      OBVIOUS
    <2>3. /\ t.kind \in CapturedKinds
                \cup {"external_resolved", "unresolved", "unresolved_source_root"}
          /\ t.kind \in CapturedKinds => There(d, t.path)
          /\ t.kind = "external_resolved" =>
                AbsoluteName(lit) /\ There(d, t.path) /\ t.path = Tail(lit)
          /\ t.kind \in {"unresolved", "unresolved_source_root"} => t.path = NoPath
          /\ AbsoluteName(lit) => t.kind \in {"external_resolved", "unresolved"}
      <3>1. t = ResolveIn(d, hol, decl, lit)
        BY <2>1
      <3>2. AbsoluteName(lit) => t.kind \in {"external_resolved", "unresolved"}
        BY <3>1, ResolvedKind
      <3>3. t.kind = "external_resolved" =>
                AbsoluteName(lit) /\ There(d, t.path) /\ t.path = Tail(lit)
        BY <3>1, ResolvedKind
      <3>4. /\ t.kind \in CapturedKinds
                \cup {"external_resolved", "unresolved", "unresolved_source_root"}
            /\ t.kind \in CapturedKinds => There(d, t.path)
            /\ t.kind \in {"unresolved", "unresolved_source_root"} => t.path = NoPath
        BY <3>1, ResolvedKind, Zenon
      <3> QED BY <3>2, <3>3, <3>4
    <2> QED BY <1>2, <2>1, <2>3
  <1>4. There(w.disk, r.path) => r.path \in AnswerPaths /\ r.path # NoPath
    BY PathOf DEF There
  <1> QED BY <1>2, <1>3, <1>4

\* Imports of one literal are imports of one file (profile_satisfied_needs_prelude).
LEMMA AlikeImports ==
  ASSUME ShelfOK, OneMeaning, NEW r \in imports, NEW s \in imports, r.lit = s.lit
  PROVE  /\ r.path = s.path /\ r.bytes = s.bytes
         /\ r.kind \in CapturedKinds <=> s.kind \in CapturedKinds
  <1>1. PICK w \in AnswerWorlds : ShelfAt(w)
    BY DEF ShelfOK
  <1>2. r.path = s.path
    BY <1>1 DEF ShelfAt, OneMeaning
  <1>3. /\ r.kind \in CapturedKinds => ~AbsoluteName(r.lit)
        /\ s.kind \in CapturedKinds => ~AbsoluteName(s.lit)
    BY <1>1, CapturedBytes DEF CapturedKinds
  <1> QED BY <1>1, <1>2, <1>3, CapturedBytes

\* What is not captured has nothing recorded below it (_captured_warm_sources).
LEMMA BelowNothing ==
  ASSUME NEW r, r.kind \notin CapturedKinds
  PROVE  Below(r) = {}
  BY Zenon DEF Below

\* An import that an edge answers has the name and the bytes of that edge, and nothing
\* below it (_validated_edge, _validated_profile_cwd_edge).
LEMMA EdgeIdentity ==
  ASSUME ShelfOK, OneMeaning, DecisionTrue, NEW e \in document.edges,
         NEW r \in imports, r.lit = e.lit, Identified(r)
  PROVE  Identity(r) = <<Name(e.path), e.bytes>> /\ Below(r) = {}
  <1>1. PICK w \in AnswerWorlds : ShelfAt(w)
    BY DEF ShelfOK
  <1>2. \A f \in document.edges : EdgeTrue(f) /\ (f.path = e.path => f.bytes = e.bytes)
    BY DEF DecisionTrue, DecisionOf
  <1>3. PICK s : s = e.record
    OBVIOUS
  <1>4. /\ s \in imports /\ s.lit = r.lit /\ e.path = Shelf(s)
        /\ s.kind \in {"external_resolved", "unresolved"}
    BY <1>2, <1>3 DEF EdgeTrue
  <1>5. s.path = r.path /\ s.bytes = r.bytes /\ r.kind \notin CapturedKinds
    BY <1>4, AlikeImports DEF CapturedKinds
  <1>6. Below(r) = {}
    BY <1>5, BelowNothing
  <1>7. Holds(r) <=> Holds(s)
    BY <1>4 DEF Holds
  <1>8. CASE Holds(s)
    <2>1. e.path \in Loaded /\ s.bytes = basis[e.path] /\ e.bytes = basis[e.path]
      BY <1>2, <1>3, <1>8 DEF EdgeTrue
    <2>2. s.bytes # 0
      BY <1>1, <2>1, AnswerAssumption DEF ShelfAt, Loaded
    <2>3. s.path = Tail(s.lit) /\ s.path # NoPath
      BY <1>1, <1>4, <2>2, CapturedBytes DEF CapturedKinds
    <2>4. e.path = Tail(s.lit)
      BY <1>4, <1>8 DEF Shelf
    <2> QED BY <1>5, <1>6, <2>1, <2>3, <2>4 DEF Identity
  <1>9. CASE ~Holds(s)
    <2>1. s.kind = "unresolved"
      BY <1>2, <1>3, <1>9 DEF EdgeTrue
    <2>2. r.path = NoPath
      BY <1>1, <1>4, <1>5, <2>1, CapturedBytes DEF CapturedKinds
    <2>3. PICK f : f = EdgeOf(r)
      OBVIOUS
    <2>4. f \in document.edges /\ f.record = r
      BY <2>2, <2>3, Zenon DEF Identified, EdgeOf
    <2>5. f.path = Shelf(r)
      BY <1>2, <2>4 DEF EdgeTrue
    <2>6. Shelf(r) = Shelf(s)
      BY <1>4, <1>7, <1>9 DEF Shelf
    <2>7. f.path = e.path /\ f.bytes = e.bytes
      BY <1>2, <1>4, <2>4, <2>5, <2>6
    <2>8. Identity(r) = <<Name(f.path), f.bytes>>
      BY <2>2, <2>3 DEF Identity
    <2> QED BY <1>6, <2>7, <2>8
  <1> QED BY <1>8, <1>9

\* A captured source that is the inventory's is of the basis (_captured_warm_sources).
LEMMA InventoryIdentity ==
  ASSUME ShelfOK, NEW s \in Sources, Inventoried(s), SourceTrue(s)
  PROVE  FromBasis(Identity(s)) /\ Identified(s)
  <1>1. PICK w \in AnswerWorlds : ShelfAt(w)
    BY DEF ShelfOK
  <1>2. s.path \in AnswerPaths /\ s.path # NoPath
    BY <1>1, CapturedBytes DEF Sources
  <1>3. Name(Coordinate(s)) = Name(s.path)
    BY <1>2, PathOf DEF Coordinate
  <1>4. Coordinate(s) \in Loaded /\ basis[Coordinate(s)] = s.bytes
    BY DEF Inventoried, SourceTrue
  <1> QED BY <1>2, <1>3, <1>4 DEF FromBasis, InBasis, Identity, Identified

\* All that is recorded below a source of the inventory the basis has, or an edge says
\* that it has: the walk of the decision follows the same imports as the basis did
\* when it loaded the same bytes (_captured_warm_sources).
LEMMA AnsweredBelow ==
  ASSUME ShelfOK, OneMeaning, FromProfile, DecisionTrue, NEW r \in Roots, NEW s \in Below(r)
  PROVE  Identified(s) /\ FromBasis(Identity(s))
  <1>1. PICK w \in AnswerWorlds : ShelfAt(w)
    BY DEF ShelfOK
  <1>2. r \in Sources /\ r.loader = "needs" /\ Inventoried(r) /\ r.kind \in CapturedKinds
    BY DEF Roots, Sources
  <1>3. SourceTrue(r)
    BY <1>2 DEF DecisionTrue, DecisionOf
  <1>4. \A q \in Below(r) : q.kind \in CapturedKinds => SourceTrue(q) /\ Inventoried(q)
    BY DEF DecisionTrue, DecisionOf
  <1> DEFINE next == [p \in AnswerPaths |-> Targets({q \in imports : q.decl = p})]
             X == {p \in AnswerPaths : \E q \in Sources :
                     q.path = p /\ Inventoried(q) /\ SourceTrue(q)}
  <1>5. Below(r) = {q \in imports : q.decl \in Reach({r.path}, next)}
    BY <1>2, Zenon DEF Below
  <1>6. s.decl \in X
    <2>1. {r.path} \subseteq X
      BY <1>1, <1>2, <1>3, CapturedBytes DEF Sources
    <2>2. ASSUME NEW p \in X \cap Reach({r.path}, next) PROVE next[p] \subseteq X
      <3> SUFFICES ASSUME NEW x \in next[p] PROVE x \in X
        OBVIOUS
      <3>1. next[p] = Targets({q \in imports : q.decl = p})
        OBVIOUS
      <3>2. PICK q \in imports : q.decl = p /\ q.kind \in CapturedKinds /\ x = q.path
        BY <3>1 DEF Targets
      <3>3. q \in Below(r) /\ q \in Sources
        BY <3>2, <1>5, <2>2 DEF Sources
      <3>4. SourceTrue(q) /\ Inventoried(q)
        BY <3>2, <3>3, <1>4
      <3>5. x \in AnswerPaths
        BY <3>2, <1>1, CapturedBytes
      <3> QED BY <3>2, <3>3, <3>4, <3>5
    <2> HIDE DEF next, X
    <2>3. Reach({r.path}, next) \subseteq X
      BY <2>1, <2>2, Reached
    <2> QED BY <2>3, <1>5
  <1>7. PICK q \in Sources : q.path = s.decl /\ Inventoried(q) /\ SourceTrue(q)
    BY <1>6
  <1> HIDE DEF next, X
  <1>8. s \in imports
    BY <1>5
  <1>9. CASE s.kind \in CapturedKinds
    <2>1. s \in Sources /\ SourceTrue(s) /\ Inventoried(s)
      BY <1>4, <1>8, <1>9 DEF Sources
    <2> QED BY <1>1, <2>1, InventoryIdentity
  <1>10. CASE s.kind \notin CapturedKinds
    <2>1. PICK e \in document.edges : e.record = s
      BY <1>10 DEF DecisionTrue, DecisionOf
    <2>2. EdgeTrue(e)
      BY DEF DecisionTrue, DecisionOf
    <2>3. e.lit = s.lit /\ Identified(s) /\ e.path = Shelf(s)
      BY <2>1, <2>2, Zenon DEF EdgeTrue, Identified
    <2>4. Identity(s) = <<Name(e.path), e.bytes>>
      BY <1>8, <2>1, <2>3, EdgeIdentity
    <2>5. e.path \in Loaded
      <3>1. CASE Holds(s)
        BY <3>1, <2>1, <2>2 DEF EdgeTrue
      <3>2. CASE ~Holds(s)
        <4>1. s.kind = "unresolved" /\ ~AbsoluteName(s.lit) /\ e.path = <<"p">> \o s.lit
          BY <3>2, <2>1, <2>2, <2>3 DEF EdgeTrue, Shelf
        <4>2. PICK b : b = w.disk[s.decl]
          OBVIOUS
        <4>3. \E i \in DOMAIN Says[b] : s.lit = Says[b][i].lit
          BY <1>1, <1>8, <4>2, CapturedImport DEF ShelfAt
        <4>4. PICK p : p \in w.loaded /\ w.disk[p] = b
          <5>1. Coordinate(q) \in Loaded /\ basis[Coordinate(q)] = q.bytes
            BY <1>7 DEF Inventoried, SourceTrue
          <5>2. q.bytes = w.disk[s.decl]
            BY <1>1, <1>7, CapturedBytes DEF Sources
          <5> QED BY <1>1, <4>2, <5>1, <5>2 DEF ShelfAt, Loaded
        <4>5. PICK i \in DOMAIN Says[b] : s.lit = Says[b][i].lit
          BY <4>3
        <4>6. LoadPath(s.lit)[1] = <<"p">> \o s.lit /\ LoadPath(s.lit)[2] = <<"h">> \o s.lit
          BY DEF LoadPath
        <4>7. CASE w.holdir = TRUE
          <5>1. ~There(w.disk, <<"h">> \o s.lit)
            <6>1. PICK d, hol, decl, lit, t :
                    /\ d = w.disk /\ hol = w.holdir /\ decl = s.decl /\ lit = s.lit
                    /\ t = ResolveIn(d, hol, decl, lit)
              OBVIOUS
            <6>2. t = ResolveIn(d, hol, decl, lit)
              BY <6>1
            <6>3. t.kind = "unresolved" /\ hol = TRUE /\ ~AbsoluteName(lit) =>
                    ~There(d, <<"h">> \o lit)
              BY <6>2, ResolvedKind
            <6>4. s.kind = ResolveIn(w.disk, w.holdir, s.decl, s.lit).kind
              BY <1>1, <1>8, CapturedImport DEF ShelfAt
            <6> QED BY <4>1, <4>7, <6>1, <6>3, <6>4
          <5>2. <<"h">> \o s.lit \notin w.loaded
            BY <5>1, AnswerAssumption DEF There
          <5>3. \E j \in {1, 2} : LoadPath(s.lit)[j] \in w.loaded
            BY <4>4, <4>5, AnswerAssumption
          <5> QED BY <1>1, <4>1, <4>6, <5>2, <5>3 DEF ShelfAt, Loaded
        <4>8. CASE ~w.holdir
          <5>1. LoadPath(s.lit)[1] \in w.loaded
            BY <4>4, <4>5, <4>8 DEF FromProfile
          <5> QED BY <1>1, <4>1, <4>6, <5>1 DEF ShelfAt, Loaded
        <4> QED BY <4>7, <4>8, AnswerAssumption
      <3> QED BY <3>1, <3>2
    <2>6. e.bytes = basis[e.path]
      BY <2>2, <2>5 DEF EdgeTrue
    <2> QED BY <2>3, <2>4, <2>5, <2>6 DEF FromBasis, InBasis
  <1> QED BY <1>9, <1>10

\* Imports of one file, literal and loader are one import (_profile_record_index_sets).
LEMMA OursAlike ==
  ASSUME ShelfOK, OneMeaning, NEW r \in Ours, NEW s \in Ours, s.kind \in CapturedKinds
  PROVE  r \in Sources /\ Identity(r) = <<Name(s.path), s.bytes>>
  <1>1. PICK w \in AnswerWorlds : ShelfAt(w)
    BY DEF ShelfOK
  <1>2. r \in imports /\ s \in imports /\ r.lit = s.lit
    BY DEF Ours
  <1>3. r.path = s.path /\ r.bytes = s.bytes /\ r.kind \in CapturedKinds
    BY <1>2, AlikeImports
  <1>4. r.path # NoPath
    BY <1>1, <1>2, <1>3, CapturedBytes
  <1> QED BY <1>2, <1>3, <1>4 DEF Sources, Identity

\* An import that HOL is told is loaded, by an edge, by its name in the profile's
\* directory, or as a file of the package that has been loaded, was loaded with the
\* bytes recorded for it (profile_satisfied_needs_prelude, HOL's needs).
LEMMA SkippedRight ==
  ASSUME ShelfOK, OneMeaning, FromProfile, DecisionTrue, AnswerNext, ~Decide,
         NEW r \in skipped' \ skipped, Identified(r)
  PROVE  SkippedTrue(r)
  <1> USE DEF Given
  <1>1. ASSUME NEW e \in document.edges, NEW q \in Ours, q.lit = e.lit, Identified(q),
               <<Name(e.path), e.bytes>> \in mem
        PROVE  SkippedTrue(q)
    <2>1. q \in imports
      BY DEF Ours
    <2> QED BY <1>1, <2>1, EdgeIdentity DEF SkippedTrue
  <1>2. CASE GuardedNeeds
    <2>1. PICK e : e = (CHOOSE f \in Guards(TRUE) : TRUE)
      OBVIOUS
    <2>2. e \in Guards(TRUE)
      BY <1>2, <2>1 DEF GuardedNeeds
    <2>3. r \in Ours /\ <<Name(e.path), e.bytes>> \in mem
      BY <1>2, <2>1 DEF GuardedNeeds, Skip, Fail
    <2>4. e \in document.edges /\ r.lit = e.lit
      BY <2>2, <2>3 DEF Guards, Ours
    <2> QED BY <1>1, <2>3, <2>4
  <1>3. CASE RuntimeNeeds
    <2>1. PICK e : e = (CHOOSE f \in Guards(FALSE) : TRUE)
      OBVIOUS
    <2>2. e \in Guards(FALSE)
      BY <1>3, <2>1 DEF RuntimeNeeds
    <2>3. r \in Ours /\ <<Name(e.path), e.bytes>> \in mem
      BY <1>3, <2>1 DEF RuntimeNeeds, Load, Skip, Fail
    <2>4. e \in document.edges /\ r.lit = e.lit
      BY <2>2, <2>3 DEF Guards, Ours
    <2> QED BY <1>1, <2>3, <2>4
  <1>4. CASE PackagedImport
    <2>1. PICK s \in Ours : s.kind \in CapturedKinds /\ Load(s.path, TRUE, s.bytes)
      BY <1>4 DEF PackagedImport
    <2>2. r \in Ours /\ Import.loader = "needs" /\ <<Name(s.path), s.bytes>> \in mem
      BY <2>1 DEF Load, Skip
    <2>3. r \in Sources /\ Identity(r) = <<Name(s.path), s.bytes>> /\ r.loader = "needs"
      BY <2>1, <2>2, OursAlike DEF Ours
    <2>4. Identity(r) \in mem
      BY <2>2, <2>3
    <2>5. ASSUME FromBasis(Identity(r)), NEW q \in Below(r)
          PROVE  Identified(q) /\ FromBasis(Identity(q))
      <3>1. SourceTrue(r)
        BY <2>3 DEF DecisionTrue, DecisionOf
      <3>2. r.path # NoPath
        <4>1. PICK w \in AnswerWorlds : ShelfAt(w)
          BY DEF ShelfOK
        <4> QED BY <4>1, <2>3, CapturedBytes DEF Sources
      <3>3. Identity(r) = <<Name(r.path), r.bytes>>
        BY <3>2 DEF Identity
      <3>4. InBasis(Name(r.path), r.bytes)
        BY <2>5, <3>3 DEF FromBasis
      <3>5. Inventoried(r)
        BY <2>3, <3>1, <3>4 DEF SourceTrue
      <3>6. r \in Roots
        BY <2>3, <3>5 DEF Roots
      <3> QED BY <2>5, <3>6, AnsweredBelow
    <2> QED BY <2>4, <2>5 DEF SkippedTrue
  <1>5. CASE OtherImport
    <2>1. r \in Ours /\ Import.loader = "needs"
      BY <1>5 DEF OtherImport, Load, Skip, Fail
    <2>2. r.kind \notin CapturedKinds /\ NoGuards
      BY <1>5, <2>1 DEF OtherImport
    <2>3. r \in imports /\ r.lit = Import.lit
      BY <2>1 DEF Ours
    <2>4. PICK e \in document.edges : e.record = r
      <3>1. CASE r.path = NoPath
        BY <3>1 DEF Identified
      <3>2. CASE r.path # NoPath
        <4>1. PICK w \in AnswerWorlds : ShelfAt(w)
          BY DEF ShelfOK
        <4>2. r.kind = "external_resolved"
          BY <4>1, <3>2, <2>2, <2>3, CapturedBytes
        <4> QED BY <4>2, <2>3, Zenon DEF DecisionTrue, DecisionOf
      <3> QED BY <3>1, <3>2
    <2>5. EdgeTrue(e)
      BY DEF DecisionTrue, DecisionOf
    <2>6. e.lit = Import.lit /\ e.satisfied \in BOOLEAN
      BY <2>3, <2>4, <2>5 DEF EdgeTrue
    <2>7. e \in Guards(TRUE) \cup Guards(FALSE)
      BY <2>1, <2>6 DEF Guards
    <2> QED BY <2>2, <2>7 DEF NoGuards
  <1>6. CASE Revalidate
    BY <1>6 DEF Revalidate
  <1>7. CASE LoadReturns
    BY <1>7 DEF LoadReturns
  <1>8. CASE \E p \in AnswerPaths \ {AnswerEntry}, bytes \in Leaves \cup {0} : EditTree(p, bytes)
    BY <1>8 DEF EditTree
  <1> QED BY <1>2, <1>3, <1>4, <1>5, <1>6, <1>7, <1>8 DEF AnswerNext

\* A shelf is asked with the basis and the closure of one world (AnswerInit).
LEMMA ShelfStart == AnswerInit => AnswerInv
  <1> SUFFICES ASSUME AnswerInit PROVE AnswerInv
    OBVIOUS
  <1>1. PICK w \in AnswerWorlds :
          /\ tree = w.disk /\ holdir = w.holdir /\ basis = [p \in w.loaded |-> w.disk[p]]
          /\ imports = CapturedIn(w.disk, w.holdir)
    BY DEF AnswerInit
  <1>2. ShelfOK
    BY <1>1 DEF ShelfOK, ShelfAt
  <1>3. step = "decide" /\ skipped = {}
    BY DEF AnswerInit
  <1> QED BY <1>2, <1>3 DEF AnswerInv, DecidedRight, NothingSkipped, Undecidedly, SkippedMeansSame

\* Nothing is skipped before the child evaluates, which only the decision leads to
\* (Decide, Running).
LEMMA SkippedLater ==
  ASSUME NothingSkipped, [AnswerNext]_answerVars
  PROVE  NothingSkipped' /\ (Undecidedly' \/ Decide \/ ~Undecidedly)
  <1> USE DEF answerVars, Given, NothingSkipped, Undecidedly
  <1>1. CASE Decide
    BY <1>1 DEF Decide
  <1>2. CASE Revalidate
    BY <1>2 DEF Revalidate
  <1>3. CASE GuardedNeeds
    BY <1>3 DEF GuardedNeeds, Running, Skip, Fail
  <1>4. CASE RuntimeNeeds
    BY <1>4 DEF RuntimeNeeds, Running, Load, Skip, Fail
  <1>5. CASE PackagedImport
    BY <1>5 DEF PackagedImport, Running, Load, Skip
  <1>6. CASE OtherImport
    BY <1>6 DEF OtherImport, Running, Load, Skip, Fail
  <1>7. CASE LoadReturns
    BY <1>7 DEF LoadReturns
  <1>8. CASE \E p \in AnswerPaths \ {AnswerEntry}, bytes \in Leaves \cup {0} : EditTree(p, bytes)
    BY <1>8 DEF EditTree
  <1>9. CASE UNCHANGED answerVars
    BY <1>9
  <1> QED BY <1>1, <1>2, <1>3, <1>4, <1>5, <1>6, <1>7, <1>8, <1>9 DEF AnswerNext

\* Every step of the decision and of the child keeps the invariant (AnswerNext).
LEMMA AnswerStep ==
  ASSUME OneMeaning, FromProfile, AnswerInv, [AnswerNext]_answerVars
  PROVE  AnswerInv'
  <1> USE DEF AnswerInv
  <1>1. UNCHANGED <<basis, holdir, imports>> /\ (Decide \/ UNCHANGED document)
        /\ mem \subseteq mem'
    BY DecisionStays
  <1>2. ShelfOK'
    BY <1>1 DEF ShelfOK, ShelfAt
  <1>3. NothingSkipped' /\ (Undecidedly' \/ Decide \/ ~Undecidedly)
    BY SkippedLater
  <1>4. CASE Decide
    <2>1. DecidedRight'
      <3> SUFFICES ASSUME ~Undecidedly' PROVE DecisionTrue'
        BY DEF DecidedRight
      <3>1. ~Refuses /\ ~TransportRefuses /\ document' = Document
        BY <1>4 DEF Decide, Undecidedly
      <3>2. PICK edges : edges = Document.edges
        OBVIOUS
      <3>3. DecisionOf(edges)'
        BY <3>1, <3>2, <1>1, DecisionMade, DecisionKept
      <3>4. document'.edges = edges
        BY <3>1, <3>2
      <3> QED BY <3>3, <3>4 DEF DecisionTrue
    <2>2. skipped' = {}
      BY <1>4 DEF Decide, NothingSkipped, Undecidedly
    <2> QED BY <1>2, <1>3, <2>1, <2>2 DEF SkippedMeansSame
  <1>5. CASE ~Decide
    <2>0. document' = document
      BY <1>1, <1>5
    <2>1. DecidedRight'
      <3> SUFFICES ASSUME ~Undecidedly' PROVE DecisionTrue'
        BY DEF DecidedRight
      <3>1. PICK edges : edges = document.edges
        OBVIOUS
      <3>2. DecisionOf(edges)
        BY <1>3, <1>5, <3>1 DEF DecidedRight, DecisionTrue
      <3>3. DecisionOf(edges)'
        BY <3>2, <1>1, DecisionKept
      <3> QED BY <3>1, <3>3, <2>0 DEF DecisionTrue
    <2>2. ASSUME NEW r, r \in skipped', Identified(r)' PROVE SkippedTrue(r)'
      <3>1. \A q : Identified(q)' = Identified(q) /\ Identity(q)' = Identity(q)
        <4> SUFFICES ASSUME NEW q PROVE Identified(q)' = Identified(q) /\ Identity(q)' = Identity(q)
          OBVIOUS
        <4>1. Identified(q)' = Identified(q)
          BY <2>0 DEF Identified
        <4>2. EdgeOf(q)' = EdgeOf(q)
          BY <2>0, Zenon DEF EdgeOf
        <4> QED BY <4>1, <4>2 DEF Identity
      <3>2. \A q : FromBasis(q)' = FromBasis(q) /\ Below(q)' = Below(q)
        BY <1>1, MeaningStays
      <3>3. SkippedTrue(r)
        <4>0. Identified(r)
          BY <2>2, <3>1
        <4>1. CASE r \in skipped
          BY <4>0, <4>1, Zenon DEF SkippedMeansSame, SkippedTrue
        <4>2. CASE r \notin skipped
          <5>1. AnswerNext /\ ~Undecidedly
            BY <4>2, <2>2, <1>3, <1>5 DEF answerVars, NothingSkipped, Undecidedly
          <5>2. DecisionTrue
            BY <5>1 DEF DecidedRight
          <5> QED BY <4>2, <5>1, <5>2, <1>5, <2>2, <4>0, SkippedRight
        <4> QED BY <4>1, <4>2
      <3>4. Identity(r)' \in mem'
        BY <3>1, <3>3, <1>1 DEF SkippedTrue
      <3>5. FromBasis(Identity(r))' = FromBasis(Identity(r))
        <4>1. PICK id : id = Identity(r)
          OBVIOUS
        <4>2. FromBasis(id)' = FromBasis(id)
          BY <3>2
        <4> QED BY <4>1, <4>2, <3>1, <1>1 DEF FromBasis, InBasis, Loaded
      <3>6. ASSUME NEW s \in Below(r)', FromBasis(Identity(r))'
            PROVE  Identified(s)' /\ FromBasis(Identity(s))'
        <4>1. Identified(s) /\ FromBasis(Identity(s))
          BY <3>2, <3>3, <3>5, <3>6 DEF SkippedTrue
        <4> QED BY <4>1, <3>1, <1>1 DEF FromBasis, InBasis, Loaded
      <3> QED BY <3>4, <3>6 DEF SkippedTrue
    <2> QED BY <1>2, <1>3, <2>1, <2>2 DEF SkippedMeansSame, SkippedTrue
  <1> QED BY <1>4, <1>5

\* An import that is not evaluated was evaluated before, from the bytes recorded for it;
\* if by the basis, so was all that is recorded below it (_captured_warm_sources,
\* profile_satisfied_needs_prelude).
THEOREM SkippedMeansSameHolds ==
  OneMeaning /\ FromProfile => (AnswerSpec => []SkippedMeansSame)
  <1> SUFFICES ASSUME OneMeaning, FromProfile PROVE AnswerSpec => []SkippedMeansSame
    OBVIOUS
  <1>1. AnswerInit => AnswerInv
    BY ShelfStart
  <1>2. AnswerInv /\ [AnswerNext]_answerVars => AnswerInv'
    BY AnswerStep
  <1>3. AnswerInv => SkippedMeansSame
    BY DEF AnswerInv
  <1> QED BY <1>1, <1>2, <1>3, PTL DEF AnswerSpec
=============================================================================
