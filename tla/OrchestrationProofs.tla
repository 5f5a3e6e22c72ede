------------------------ MODULE OrchestrationProofs ------------------------
(***************************************************************************)
(* Proofs about NodeAdmission, Workflow, Combinators and Evaluation, for   *)
(* every number of goroutines, nodes, members and cases.                   *)
(*                                                                         *)
(* That the semaphores count the slots in use needs to know where in its   *)
(* list of tags each goroutine is (Progress); that the global count is     *)
(* exact needs to know who is in the queue and who was sent a slot         *)
(* (Queue).  That a workflow commits its nodes layer by layer needs the    *)
(* counters of unfinished dependencies to be exact (WfCounted); that what  *)
(* a combined agent returns was built on responses needs to know where its *)
(* run is (CombProgress, Gathering); that a report is exact needs to know  *)
(* which cases were started and which slots were read (Started, Ordered).  *)
(***************************************************************************)
EXTENDS NodeAdmission, Workflow, Combinators, Evaluation, FiniteSetTheorems,
        WellFoundedInduction, TLAPS

\* A goroutine is queued once, while it waits or is leaving, and not after a
\* slot was sent to it.
Queue ==
  /\ \A i, j \in DOMAIN waiters : waiters[i] = waiters[j] => i = j
  /\ \A i \in DOMAIN waiters : pc[waiters[i]] \in {"waiting", "leaving"} /\ waiters[i] \notin signal
  /\ \A g \in signal : pc[g] \in {"waiting", "leaving", "failed"}

\* Only a done context makes a waiter leave.
Leavers == \A g \in Goroutine : pc[g] \in {"leaving", "failed"} => cancelled

\* The slots in use belong to those that hold one or were sent one.
Accounted == active = Cardinality(Holding \cup signal)

\* Tags are acquired from the first on, and only under a global slot.
Progress ==
  \A g \in Goroutine :
    /\ pc[g] \in {"idle", "waiting", "leaving"} => stage[g] = "slots" /\ at[g] = 1
    /\ stage[g] = "slots" => at[g] \in 1..(Len(Tags[g]) + 1)

\* Every semaphore counts the slots held.
Semaphores ==
  \A t \in DOMAIN SlotLimit :
    /\ IsFiniteSet(HeldSlots(t))
    /\ slots[t] = Cardinality(HeldSlots(t))
    /\ slots[t] <= SlotLimit[t]

AdmissionIInv ==
  /\ AdmissionTypeOK
  /\ Queue
  /\ Leavers
  /\ Accounted
  /\ Progress
  /\ Semaphores

-----------------------------------------------------------------------------
\* Sequences and configurations.

\* What RemoveAt leaves.
LEMMA Removed ==
  ASSUME NEW S, NEW s \in Seq(S), NEW i \in DOMAIN s
  PROVE  /\ RemoveAt(s, i) \in Seq(S)
         /\ Len(RemoveAt(s, i)) = Len(s) - 1
         /\ \A j \in DOMAIN RemoveAt(s, i) :
              /\ j \in Nat /\ j >= 1 /\ j <= Len(s) - 1
              /\ RemoveAt(s, i)[j] = s[IF j < i THEN j ELSE j + 1]
<1> DEFINE t == SubSeq(s, 1, i - 1)
<1> DEFINE u == SubSeq(s, i + 1, Len(s))
<1>0. i \in Nat /\ i >= 1 /\ i <= Len(s) /\ Len(s) \in Nat
  OBVIOUS
<1>1. t \in Seq(S) /\ Len(t) = i - 1 /\ \A j \in 1..(i - 1) : t[j] = s[j]
  BY <1>0
<1>2. u \in Seq(S) /\ Len(u) = Len(s) - i /\ \A j \in 1..(Len(s) - i) : u[j] = s[i + j]
  BY <1>0
<1>3. RemoveAt(s, i) = t \o u
  BY DEF RemoveAt
<1> HIDE DEF t, u
<1>4. t \o u \in Seq(S) /\ Len(t \o u) = Len(s) - 1 /\ DOMAIN (t \o u) = 1..(Len(s) - 1)
  BY <1>0, <1>1, <1>2
<1>5. ASSUME NEW j \in DOMAIN (t \o u)
      PROVE  /\ j \in Nat /\ j >= 1 /\ j <= Len(s) - 1
             /\ (t \o u)[j] = s[IF j < i THEN j ELSE j + 1]
  <2>1. j \in 1..(Len(s) - 1)
    BY <1>4
  <2>2. CASE j < i
    BY <1>0, <1>1, <1>2, <2>1, <2>2
  <2>3. CASE ~(j < i)
    <3>1. j - (i - 1) \in 1..(Len(s) - i) /\ i + (j - (i - 1)) = j + 1
      BY <1>0, <2>1, <2>3
    <3>2. (t \o u)[j] = u[j - (i - 1)]
      BY <1>0, <1>1, <1>2, <2>1, <2>3
    <3> QED BY SMTT(40), <1>2, <2>1, <2>3, <3>1, <3>2
  <2> QED BY <2>2, <2>3
<1> QED BY <1>3, <1>4, <1>5

\* Whatever the caller leaves unset, the limit starts positive and the range
\* it moves in is positive.
LEMMA Normalised ==
  ASSUME NEW raw \in RawConfig
  PROVE  /\ Normalise(raw).initial \in Nat \ {0}
         /\ Normalise(raw).min \in Nat \ {0}
         /\ Normalise(raw).max \in Nat \ {0}
<1>1. raw.initial \in Nat /\ raw.min \in Nat /\ raw.max \in Nat
  BY BackpressureAssumption DEF BackpressureAssumption
<1> QED BY <1>1 DEF Normalise, Default, Larger, Smaller

LEMMA AdjustedPositive ==
  ASSUME TypeOK
  PROVE  Adjusted \subseteq Nat \ {0}
<1>1. cfg.min \in Nat \ {0} /\ cfg.max \in Nat \ {0}
  BY Normalised DEF TypeOK
<1>2. concurrency \div 2 \in Nat /\ concurrency \in Nat \ {0}
  BY DEF TypeOK
<1> QED BY <1>1, <1>2 DEF Adjusted, Larger, Smaller

-----------------------------------------------------------------------------
\* The global slot.

\* The goroutines the global slots in use belong to.
Owed == Holding \cup signal

LEMMA OwedFinite ==
  ASSUME TypeOK
  PROVE  Owed \in SUBSET Goroutine /\ IsFiniteSet(Owed) /\ Cardinality(Owed) \in Nat
<1>1. Owed \in SUBSET Goroutine
  BY DEF TypeOK, Owed, Holding
<1> QED BY <1>1, FS_Subset, FS_CardinalityType, BackpressureAssumption DEF BackpressureAssumption

\* Held, on the way and lost are disjoint, and nothing else is in use.
LEMMA AccountedSplits ==
  ASSUME TypeOK, Queue, Leavers, Accounted
  PROVE  SlotsAccounted
<1>1. /\ IsFiniteSet(Holding) /\ IsFiniteSet(OnTheWay) /\ IsFiniteSet(Lost)
      /\ IsFiniteSet(OnTheWay \cup Lost)
  <2>1. /\ Holding \subseteq Goroutine /\ OnTheWay \subseteq Goroutine /\ Lost \subseteq Goroutine
        /\ OnTheWay \cup Lost \subseteq Goroutine
    BY DEF TypeOK, Holding, OnTheWay, Lost
  <2> QED BY <2>1, FS_Subset, BackpressureAssumption DEF BackpressureAssumption
<1>2. /\ Holding \cup signal = Holding \cup (OnTheWay \cup Lost)
      /\ Holding \cap (OnTheWay \cup Lost) = {} /\ OnTheWay \cap Lost = {}
  BY DEF Queue, Holding, OnTheWay, Lost
<1>3. /\ Cardinality(Holding) \in Nat /\ Cardinality(OnTheWay) \in Nat /\ Cardinality(Lost) \in Nat
      /\ Cardinality({}) = 0
  BY <1>1, FS_CardinalityType, FS_EmptySet
<1>4. Cardinality(OnTheWay \cup Lost) = Cardinality(OnTheWay) + Cardinality(Lost)
  <2>1. Cardinality(OnTheWay \cup Lost)
          = Cardinality(OnTheWay) + Cardinality(Lost) - Cardinality(OnTheWay \cap Lost)
    BY <1>1, FS_Union
  <2>2. Cardinality(OnTheWay \cap Lost) = 0
    <3>1. OnTheWay \cap Lost = {}
      BY <1>2
    <3> QED BY <1>3, <3>1, Zenon
  <2> QED BY <1>3, <2>1, <2>2
<1>5. Cardinality(Holding \cup signal) = Cardinality(Holding) + Cardinality(OnTheWay \cup Lost)
  <2> DEFINE sent == OnTheWay \cup Lost
  <2>1. IsFiniteSet(sent) /\ Holding \cap sent = {} /\ Holding \cup signal = Holding \cup sent
    BY <1>1, <1>2
  <2>2. Cardinality(sent) \in Nat
    BY <2>1, FS_CardinalityType
  <2> HIDE DEF sent
  <2>3. Cardinality(Holding \cup sent) = Cardinality(Holding) + Cardinality(sent) - Cardinality(Holding \cap sent)
    BY <1>1, <2>1, FS_Union
  <2>4. Cardinality(Holding \cap sent) = 0
    BY <1>3, <2>1, Zenon
  <2>5. Cardinality(Holding \cup sent) = Cardinality(Holding) + Cardinality(sent)
    BY <1>3, <2>2, <2>3, <2>4
  <2>6. Cardinality(Holding \cup signal) = Cardinality(Holding) + Cardinality(sent)
    BY <2>1, <2>5, Zenon
  <2> QED BY <2>6 DEF sent
<1>6. Lost # {} => cancelled
  BY Zenon DEF TypeOK, Leavers, Lost
<1> QED BY <1>3, <1>4, <1>5, <1>6 DEF SlotsAccounted, Accounted

LEMMA StepQueue ==
  ASSUME TypeOK, Queue, Accounted, NEW g \in Goroutine, Step(g)
  PROVE  TypeOK' /\ Queue' /\ Accounted'
<1> USE DEF TypeOK
<1>0. Accounted = (active = Cardinality(Owed)) /\ Accounted' = (active' = Cardinality(Owed'))
  BY DEF Accounted, Owed
<1>1. CASE AcquireNow(g)
  <2>1. TypeOK' /\ Queue'
    BY <1>1 DEF AcquireNow, Queue
  <2>2. Owed' = Owed \cup {g} /\ g \notin Owed
    BY <1>1 DEF AcquireNow, Owed, Holding, Queue
  <2>3. Cardinality(Owed') = Cardinality(Owed) + 1
    BY <2>2, OwedFinite, FS_AddElement
  <2> QED BY <1>0, <1>1, <2>1, <2>3 DEF AcquireNow
<1>2. CASE Enqueue(g)
  <2>1. Owed' = Owed
    BY <1>2 DEF Enqueue, Owed, Holding
  <2>2. TypeOK'
    BY <1>2 DEF Enqueue
  <2>3. \A i \in DOMAIN waiters : waiters[i] # g /\ waiters'[i] = waiters[i] /\ waiters[i] \in Goroutine
    BY <1>2 DEF Enqueue, Queue
  <2>4. DOMAIN waiters' = DOMAIN waiters \cup {Len(waiters) + 1} /\ waiters'[Len(waiters) + 1] = g
    BY <1>2 DEF Enqueue
  <2>5. g \notin signal
    BY <1>2 DEF Enqueue, Queue
  <2>6. Queue'
    BY <1>2, <2>3, <2>4, <2>5 DEF Enqueue, Queue
  <2> QED BY <1>0, <1>2, <2>1, <2>2, <2>6 DEF Enqueue
<1>3. CASE Wake(g)
  <2>1. Owed' = Owed
    BY <1>3 DEF Wake, Owed, Holding
  <2>2. TypeOK'
    BY <1>3 DEF Wake
  <2>3. \A i \in DOMAIN waiters : waiters[i] # g /\ waiters[i] \in Goroutine
    BY <1>3 DEF Wake, Queue
  <2>4. Queue'
    BY <1>3, <2>3 DEF Wake, Queue
  <2> QED BY <1>0, <1>3, <2>1, <2>2, <2>4 DEF Wake
<1>4. CASE GiveUp(g)
  <2>1. Owed' = Owed
    BY <1>4 DEF GiveUp, Owed, Holding
  <2>2. TypeOK'
    BY <1>4 DEF GiveUp
  <2>3. \A i \in DOMAIN waiters : waiters[i] \in Goroutine
    OBVIOUS
  <2>4. Queue'
    BY <1>4, <2>3 DEF GiveUp, Queue
  <2> QED BY <1>0, <1>4, <2>1, <2>2, <2>4 DEF GiveUp
<1>5. CASE Leave(g)
  <2>1. Owed' = Owed
    BY <1>5 DEF Leave, Owed, Holding
  <2>2. pc' = [pc EXCEPT ![g] = "failed"] /\ UNCHANGED <<cfg, concurrency, active, signal, cancelled>>
    BY <1>5 DEF Leave
  <2>3. CASE (\A i \in DOMAIN waiters : waiters[i] # g) /\ UNCHANGED waiters
    <3>1. TypeOK'
      BY <2>2, <2>3
    <3>2. \A i \in DOMAIN waiters : waiters[i] \in Goroutine
      OBVIOUS
    <3>3. Queue'
      BY <2>2, <2>3, <3>2 DEF Queue
    <3> QED BY <1>0, <2>1, <2>2, <3>1, <3>3
  <2>4. ASSUME NEW i \in DOMAIN waiters, waiters[i] = g, waiters' = RemoveAt(waiters, i)
        PROVE  TypeOK' /\ Queue'
    <3>1. waiters' \in Seq(Goroutine)
      BY <2>4, Removed
    <3>2. TypeOK'
      BY <2>2, <3>1
    <3>3. ASSUME NEW j \in DOMAIN waiters'
          PROVE  /\ j \in Nat
                 /\ (IF j < i THEN j ELSE j + 1) \in DOMAIN waiters
                 /\ waiters'[j] = waiters[IF j < i THEN j ELSE j + 1]
                 /\ waiters'[j] \in Goroutine /\ waiters'[j] # g
      <4>1. /\ j \in Nat /\ j >= 1 /\ j <= Len(waiters) - 1
            /\ waiters'[j] = waiters[IF j < i THEN j ELSE j + 1]
        BY <2>4, <3>3, Removed
      <4>2. (IF j < i THEN j ELSE j + 1) \in DOMAIN waiters /\ (IF j < i THEN j ELSE j + 1) # i
        BY <4>1
      <4> QED BY <2>4, <4>1, <4>2 DEF Queue
    <3>4. \A j, k \in DOMAIN waiters' : waiters'[j] = waiters'[k] => j = k
      <4> SUFFICES ASSUME NEW j \in DOMAIN waiters', NEW k \in DOMAIN waiters', waiters'[j] = waiters'[k]
                   PROVE  j = k
        OBVIOUS
      <4>1. (IF j < i THEN j ELSE j + 1) = (IF k < i THEN k ELSE k + 1)
        BY <3>3 DEF Queue
      <4> QED BY <3>3, <4>1
    <3>5. \A j \in DOMAIN waiters' : pc'[waiters'[j]] \in {"waiting", "leaving"} /\ waiters'[j] \notin signal'
      BY <2>2, <3>3 DEF Queue
    <3>6. \A h \in signal' : pc'[h] \in {"waiting", "leaving", "failed"}
      BY <2>2 DEF Queue
    <3> QED BY <3>2, <3>4, <3>5, <3>6 DEF Queue
  <2> QED BY <1>0, <1>5, <2>1, <2>2, <2>3, <2>4 DEF Leave
<1>6. CASE Release(g)
  <2>1. /\ pc[g] = "held" /\ pc' = [pc EXCEPT ![g] = "done"] /\ UNCHANGED <<cfg, cancelled>>
        /\ concurrency' \in Nat \ {0}
    BY <1>6, AdjustedPositive DEF Release
  <2>2. g \in Owed /\ g \notin signal /\ \A i \in DOMAIN waiters : waiters[i] # g /\ waiters[i] \in Goroutine
    BY <2>1 DEF Owed, Holding, Queue
  <2>3. Cardinality(Owed \ {g}) = Cardinality(Owed) - 1
    BY <2>2, OwedFinite, FS_RemoveElement
  <2>4. CASE waiters # <<>> /\ signal' = signal \cup {Head(waiters)} /\ waiters' = Tail(waiters) /\ active' = active
    <3>1. 1 \in DOMAIN waiters /\ Head(waiters) = waiters[1] /\ Head(waiters) \in Goroutine
      BY <2>4
    <3>2. /\ \A i \in DOMAIN waiters' : /\ i \in Nat \ {0} /\ i + 1 \in DOMAIN waiters
                                        /\ waiters'[i] = waiters[i + 1]
          /\ waiters' \in Seq(Goroutine)
      BY <2>4
    <3>3. TypeOK'
      BY <2>1, <2>4, <3>1, <3>2
    <3>4. Head(waiters) \notin Owed /\ pc[Head(waiters)] \in {"waiting", "leaving"} /\ Head(waiters) # g
      BY <2>2, <3>1 DEF Owed, Holding, Queue
    <3>5. Owed' = (Owed \ {g}) \cup {Head(waiters)}
      BY <2>1, <2>2, <2>4, <3>4 DEF Owed, Holding
    <3>6. Cardinality((Owed \ {g}) \cup {Head(waiters)}) = Cardinality(Owed \ {g}) + 1
      BY <3>4, OwedFinite, FS_RemoveElement, FS_AddElement
    <3>7. Accounted'
      BY <1>0, <2>3, <2>4, <3>5, <3>6, OwedFinite
    <3>8. ASSUME NEW i \in DOMAIN waiters'
          PROVE  waiters'[i] # Head(waiters) /\ pc'[waiters'[i]] \in {"waiting", "leaving"} /\ waiters'[i] \notin signal'
      <4>1. i + 1 \in DOMAIN waiters /\ waiters'[i] = waiters[i + 1] /\ i + 1 # 1
        BY <3>2
      <4> QED BY <2>1, <2>2, <2>4, <3>1, <4>1 DEF Queue
    <3>9. \A i, j \in DOMAIN waiters' : waiters'[i] = waiters'[j] => i = j
      <4> SUFFICES ASSUME NEW i \in DOMAIN waiters', NEW j \in DOMAIN waiters', waiters'[i] = waiters'[j]
                   PROVE  i = j
        OBVIOUS
      <4>1. i + 1 = j + 1
        BY <3>2 DEF Queue
      <4> QED BY <3>2, <4>1
    <3>10. \A h \in signal' : pc'[h] \in {"waiting", "leaving", "failed"}
      BY <2>1, <2>2, <2>4, <3>1, <3>4 DEF Queue
    <3> QED BY <3>3, <3>7, <3>8, <3>9, <3>10 DEF Queue
  <2>5. CASE active' = active - 1 /\ UNCHANGED <<signal, waiters>>
    <3>1. Owed' = Owed \ {g}
      BY <2>1, <2>2, <2>5 DEF Owed, Holding
    <3>2. Accounted' /\ active' \in Nat
      <4>1. Cardinality(Owed \ {g}) \in Nat
        BY OwedFinite, FS_RemoveElement, FS_CardinalityType
      <4> QED BY <1>0, <2>3, <2>5, <3>1, <4>1
    <3>3. TypeOK'
      BY <2>1, <2>5, <3>2
    <3>4. Queue'
      BY <2>1, <2>2, <2>5 DEF Queue
    <3> QED BY <3>2, <3>3, <3>4
  <2> QED BY <1>6, <2>4, <2>5 DEF Release
<1> QED BY <1>1, <1>2, <1>3, <1>4, <1>5, <1>6 DEF Step

-----------------------------------------------------------------------------
\* The tags' semaphores.

\* A goroutine holds a slot per position of the tag.
LEMMA PositionsFinite ==
  ASSUME NEW g \in Goroutine, NEW t, NEW n \in Nat
  PROVE  /\ IsFiniteSet({g} \X Positions(g, t, n))
         /\ Cardinality({g} \X Positions(g, t, n)) = Occurrences(g, t, n)
         /\ Occurrences(g, t, n) \in Nat
<1>0. IsFiniteSet(1..n)
  BY FS_Interval
<1>1. IsFiniteSet(1..n) /\ Positions(g, t, n) \subseteq 1..n
  BY <1>0 DEF Positions
<1>2. IsFiniteSet(Positions(g, t, n)) /\ Cardinality(Positions(g, t, n)) \in Nat
  BY <1>1, FS_Subset, FS_CardinalityType
<1>3. IsFiniteSet({g}) /\ Cardinality({g}) = 1
  BY FS_Singleton
<1>4. PICK P : P = Positions(g, t, n)
  OBVIOUS
<1>5. IsFiniteSet(P) /\ Cardinality(P) \in Nat
  BY <1>2, <1>4
<1>6. IsFiniteSet({g} \X P) /\ Cardinality({g} \X P) = Cardinality({g}) * Cardinality(P)
  BY <1>3, <1>5, FS_Product
<1>7. Cardinality({g} \X P) = Cardinality(P)
  BY <1>3, <1>5, <1>6
<1> QED BY <1>4, <1>5, <1>6, <1>7 DEF Occurrences

\* A step that leaves what every goroutine holds of every limited tag leaves
\* the semaphores exact.
LEMMA SameSlots ==
  ASSUME AdmissionTypeOK, Semaphores, UNCHANGED slots,
         \A g \in Goroutine, t \in DOMAIN SlotLimit :
           Positions(g, t, TagsHeld(g)') = Positions(g, t, TagsHeld(g))
  PROVE  Semaphores'
<1>1. \A t \in DOMAIN SlotLimit : HeldSlots(t)' = HeldSlots(t)
  BY DEF HeldSlots
<1> QED BY <1>1 DEF Semaphores

\* What a goroutine holds while it is at one of the stages.
LEMMA HeldNumber ==
  ASSUME AdmissionTypeOK, Progress, NEW g \in Goroutine
  PROVE  TagsHeld(g) \in 0..Len(Tags[g]) /\ Len(Tags[g]) \in Nat /\ TagsHeld(g) \in Nat
<1>1. Len(Tags[g]) \in Nat
  BY AdmissionAssumption DEF AdmissionAssumption
<1> QED BY <1>1 DEF AdmissionTypeOK, Progress, TagsHeld, In

\* Giving back what g holds, on any of the ways out.
LEMMA GiveBack ==
  ASSUME AdmissionTypeOK, Progress, Semaphores, NEW g \in Goroutine,
         slots' = SlotsAfterRelease(g, TagsHeld(g)),
         TagsHeld(g)' = 0,
         \A h \in Goroutine \ {g} : TagsHeld(h)' = TagsHeld(h)
  PROVE  Semaphores' /\ slots' \in [DOMAIN SlotLimit -> Nat]
<1> SUFFICES ASSUME NEW t \in DOMAIN SlotLimit
             PROVE  /\ IsFiniteSet(HeldSlots(t)') /\ slots'[t] = Cardinality(HeldSlots(t)')
                    /\ slots'[t] <= SlotLimit[t] /\ slots'[t] \in Nat
  BY DEF Semaphores, SlotsAfterRelease
<1> DEFINE mine == {g} \X Positions(g, t, TagsHeld(g))
<1>1. TagsHeld(g) \in Nat
  BY HeldNumber
<1>2. IsFiniteSet(mine) /\ Cardinality(mine) = Occurrences(g, t, TagsHeld(g)) /\ Occurrences(g, t, TagsHeld(g)) \in Nat
  BY <1>1, PositionsFinite
<1>3. Positions(g, t, 0) = {}
  BY DEF Positions
<1>4. mine \subseteq HeldSlots(t)
  BY DEF HeldSlots
<1>5. HeldSlots(t)' = HeldSlots(t) \ mine
  <2>1. HeldSlots(t)' = UNION {{h} \X Positions(h, t, TagsHeld(h)') : h \in Goroutine}
    BY DEF HeldSlots
  <2>2. {g} \X Positions(g, t, TagsHeld(g)') = {}
    BY <1>3
  <2>3. \A h \in Goroutine \ {g} : {h} \X Positions(h, t, TagsHeld(h)') = {h} \X Positions(h, t, TagsHeld(h))
    OBVIOUS
  <2>4. \A h \in Goroutine \ {g} : ({h} \X Positions(h, t, TagsHeld(h))) \cap mine = {}
    OBVIOUS
  <2>5. \A x : x \in HeldSlots(t)' <=> \E h \in Goroutine \ {g} : x \in {h} \X Positions(h, t, TagsHeld(h))
    BY <2>1, <2>2, <2>3
  <2>6. \A x : x \in HeldSlots(t) <=> (x \in mine \/ \E h \in Goroutine \ {g} : x \in {h} \X Positions(h, t, TagsHeld(h)))
    BY DEF HeldSlots
  <2> HIDE DEF mine
  <2>7. \A x : x \in HeldSlots(t)' <=> (x \in HeldSlots(t) /\ x \notin mine)
    BY <2>4, <2>5, <2>6
  <2> QED BY <2>7
<1> HIDE DEF mine
<1>6. /\ IsFiniteSet(HeldSlots(t)) /\ Cardinality(HeldSlots(t)) \in Nat
      /\ slots[t] = Cardinality(HeldSlots(t)) /\ slots[t] <= SlotLimit[t] /\ SlotLimit[t] \in Nat
  BY FS_CardinalityType, AdmissionAssumption DEF Semaphores, AdmissionAssumption
<1>7. HeldSlots(t) \cap mine = mine
  BY <1>4
<1>8. /\ IsFiniteSet(HeldSlots(t) \ mine)
      /\ Cardinality(HeldSlots(t) \ mine) = Cardinality(HeldSlots(t)) - Cardinality(HeldSlots(t) \cap mine)
  BY <1>6, FS_Difference
<1>9. Cardinality(HeldSlots(t) \ mine) \in Nat
  BY <1>8, FS_CardinalityType
<1>10. slots'[t] = IF slots[t] >= Occurrences(g, t, TagsHeld(g)) THEN slots[t] - Occurrences(g, t, TagsHeld(g)) ELSE 0
  BY DEF SlotsAfterRelease
<1>11. Cardinality(HeldSlots(t)') = slots[t] - Occurrences(g, t, TagsHeld(g)) /\ Cardinality(HeldSlots(t)') \in Nat
  BY <1>2, <1>5, <1>6, <1>7, <1>8, <1>9
<1> QED BY <1>2, <1>5, <1>6, <1>8, <1>10, <1>11

-----------------------------------------------------------------------------
\* The inductive invariant.

LEMMA InitAdmissionIInv == AdmissionInit => AdmissionIInv
<1> SUFFICES ASSUME AdmissionInit PROVE AdmissionIInv
  OBVIOUS
<1>1. TypeOK
  <2>1. cfg \in {Normalise(raw) : raw \in RawConfig} /\ concurrency \in Nat \ {0}
    BY Normalised DEF AdmissionInit, Init
  <2>2. cancelled \in BOOLEAN
    BY Zenon DEF AdmissionInit, Init
  <2>3. waiters \in Seq(Goroutine) /\ signal \in SUBSET Goroutine /\ active \in Nat
    BY DEF AdmissionInit, Init
  <2>4. pc \in [Goroutine -> {"idle", "waiting", "leaving", "held", "done", "failed"}]
    BY DEF AdmissionInit, Init
  <2> QED BY <2>1, <2>2, <2>3, <2>4 DEF TypeOK
<1>2. AdmissionTypeOK
  <2>1. Rate \in [DOMAIN Rate -> Nat]
    BY AdmissionAssumption DEF AdmissionAssumption
  <2> QED BY <1>1, <2>1 DEF AdmissionInit, AdmissionTypeOK
<1>3. Queue /\ Leavers /\ Progress
  <2>1. \A g \in Goroutine : Len(Tags[g]) \in Nat
    BY AdmissionAssumption DEF AdmissionAssumption
  <2> QED BY <2>1 DEF AdmissionInit, Init, Queue, Leavers, Progress
<1>4. Accounted
  <2>1. Holding \cup signal = {}
    BY DEF AdmissionInit, Init, Holding
  <2> QED BY <2>1, FS_EmptySet DEF AdmissionInit, Init, Accounted
<1>5. Semaphores
  <2>1. \A g \in Goroutine : TagsHeld(g) = 0
    BY DEF AdmissionInit, Init, TagsHeld, In
  <2>2. \A g \in Goroutine, t \in DOMAIN SlotLimit : Positions(g, t, TagsHeld(g)) = {}
    BY <2>1 DEF Positions
  <2>3. \A t \in DOMAIN SlotLimit : HeldSlots(t) = {}
    BY <2>2 DEF HeldSlots
  <2>4. \A t \in DOMAIN SlotLimit : SlotLimit[t] \in Nat
    BY AdmissionAssumption DEF AdmissionAssumption
  <2>5. \A t \in DOMAIN SlotLimit : slots[t] = 0
    BY DEF AdmissionInit
  <2> QED BY <2>3, <2>4, <2>5, FS_EmptySet DEF Semaphores
<1> QED BY <1>2, <1>3, <1>4, <1>5 DEF AdmissionIInv

\* Steps on the tags leave the global slot alone.
LEMMA TagStepQueue ==
  ASSUME TypeOK, Queue, Leavers, Accounted, UNCHANGED vars
  PROVE  TypeOK' /\ Queue' /\ Leavers' /\ Accounted'
<1>1. TypeOK' /\ Queue' /\ Accounted'
  BY DEF vars, TypeOK, Queue, Accounted, Holding
<1>2. Leavers'
  BY Zenon DEF vars, Leavers
<1> QED BY <1>1, <1>2

\* A goroutine leaves, and fails, under a done context.
LEMMA StepLeavers ==
  ASSUME TypeOK, Leavers, NEW g \in Goroutine, Step(g)
  PROVE  Leavers'
<1>1. cancelled' = cancelled
  BY DEF Step, AcquireNow, Enqueue, Wake, GiveUp, Leave, Release
<1>2. pc \in [Goroutine -> {"idle", "waiting", "leaving", "held", "done", "failed"}]
  BY DEF TypeOK
<1>3. \E p \in {"held", "waiting", "leaving", "failed", "done"} :
        /\ pc' = [pc EXCEPT ![g] = p]
        /\ p = "leaving" => GiveUp(g)
        /\ p = "failed" => pc[g] = "leaving"
  BY DEF Step, AcquireNow, Enqueue, Wake, GiveUp, Leave, Release
<1>4. GiveUp(g) => cancelled
  BY Zenon DEF GiveUp
<1>5. \A h \in Goroutine \ {g} : pc'[h] = pc[h]
  BY <1>2, <1>3
<1>6. pc'[g] \in {"leaving", "failed"} => GiveUp(g) \/ pc[g] \in {"leaving", "failed"}
  BY <1>2, <1>3
<1> QED BY Zenon, <1>1, <1>4, <1>5, <1>6 DEF Leavers

LEMMA GlobalStep ==
  ASSUME AdmissionIInv, NEW g \in Goroutine, Enter(g) \/ Exit(g)
  PROVE  AdmissionIInv'
<1> USE DEF AdmissionIInv
<1>1. Step(g) /\ UNCHANGED tagVars
  BY DEF Enter, Exit, Step
<1>2. TypeOK' /\ Queue' /\ Leavers' /\ Accounted'
  BY <1>1, StepQueue, StepLeavers DEF AdmissionTypeOK
<1>3. AdmissionTypeOK'
  BY <1>1, <1>2 DEF AdmissionTypeOK, tagVars
<1>4. \E p \in {"held", "waiting", "leaving", "failed", "done"} :
        /\ pc' = [pc EXCEPT ![g] = p]
        /\ p = "done" => stage[g] = "leave"
        /\ p # "done" => pc[g] \in {"idle", "waiting", "leaving"}
  BY DEF Enter, Exit, AcquireNow, Enqueue, Wake, GiveUp, Leave, Release
<1>5. Progress'
  BY <1>1, <1>4 DEF Progress, AdmissionTypeOK, TypeOK, tagVars
<1>6. \A h \in Goroutine : TagsHeld(h)' = TagsHeld(h)
  BY <1>1, <1>4 DEF Progress, AdmissionTypeOK, TypeOK, tagVars, TagsHeld, In
<1>7. Semaphores'
  BY <1>1, <1>6, SameSlots DEF tagVars
<1> QED BY <1>2, <1>3, <1>5, <1>7

\* The steps of resourceManager.acquire and release.
LEMMA TagStep ==
  ASSUME AdmissionIInv, NEW g \in Goroutine,
         TakeSlot(g) \/ SlotCancelled(g) \/ SlotsTaken(g) \/ TakeToken(g) \/ Sleep(g)
           \/ LookAgain(g) \/ TokenCancelled(g) \/ Admitted(g) \/ ReleaseTags(g)
  PROVE  AdmissionIInv'
<1> USE DEF AdmissionIInv
<1>1. UNCHANGED vars /\ pc[g] = "held" /\ UNCHANGED pc
  BY DEF TakeSlot, SlotCancelled, SlotsTaken, TakeToken, Sleep, LookAgain, TokenCancelled, Admitted,
         ReleaseTags, In, vars
<1>2. TypeOK' /\ Queue' /\ Leavers' /\ Accounted'
  BY <1>1, TagStepQueue DEF AdmissionTypeOK
<1>3. /\ Len(Tags[g]) \in Nat /\ TagsHeld(g) \in Nat
      /\ \A t \in DOMAIN SlotLimit : SlotLimit[t] \in Nat /\ t \in Tag
      /\ \A i \in 1..Len(Tags[g]) : i \in DOMAIN Tags[g]
      /\ Unit \in Nat \ {0}
  <2>1. Tags[g] \in Seq(Tag)
    BY AdmissionAssumption DEF AdmissionAssumption
  <2> QED BY <2>1, HeldNumber, AdmissionAssumption DEF AdmissionAssumption
<1>4. CASE TakeSlot(g)
  <2>1. /\ In(g, "slots") /\ ~AtEnd(g) /\ at' = [at EXCEPT ![g] = @ + 1] /\ UNCHANGED <<stage, tokens>>
        /\ at[g] \in 1..Len(Tags[g]) /\ TagsHeld(g) = at[g] - 1
    BY <1>3, <1>4 DEF TakeSlot, AtEnd, In, TagsHeld, Progress, AdmissionTypeOK
  <2>2. slots' \in [DOMAIN SlotLimit -> Nat]
    BY <1>4 DEF TakeSlot, AdmissionTypeOK
  <2>3. AdmissionTypeOK'
    BY <1>2, <2>1, <2>2 DEF AdmissionTypeOK
  <2>4. Progress'
    BY <1>1, <1>3, <2>1 DEF Progress, AdmissionTypeOK, In
  <2>5. TagsHeld(g)' = at[g] /\ \A h \in Goroutine \ {g} : TagsHeld(h)' = TagsHeld(h)
    BY <1>1, <2>1 DEF TagsHeld, In, AdmissionTypeOK
  <2>6. \A t : Positions(g, t, at[g]) = Positions(g, t, at[g] - 1) \cup (IF t = CurrentTag(g) THEN {at[g]} ELSE {})
    BY <1>3, <2>1 DEF Positions, CurrentTag
  <2>7. CASE CurrentTag(g) \notin DOMAIN SlotLimit /\ UNCHANGED slots
    <3>1. \A t \in DOMAIN SlotLimit : Positions(g, t, TagsHeld(g)') = Positions(g, t, TagsHeld(g))
      BY <2>1, <2>5, <2>6, <2>7
    <3>2. \A h \in Goroutine, t \in DOMAIN SlotLimit : Positions(h, t, TagsHeld(h)') = Positions(h, t, TagsHeld(h))
      BY <2>5, <3>1
    <3> QED BY <1>2, <2>3, <2>4, <2>7, <3>2, SameSlots
  <2>8. CASE /\ CurrentTag(g) \in DOMAIN SlotLimit
             /\ slots[CurrentTag(g)] < SlotLimit[CurrentTag(g)]
             /\ slots' = [slots EXCEPT ![CurrentTag(g)] = @ + 1]
    <3>1. ASSUME NEW t \in DOMAIN SlotLimit, t # CurrentTag(g)
          PROVE  HeldSlots(t)' = HeldSlots(t) /\ slots'[t] = slots[t]
      <4>1. \A h \in Goroutine : Positions(h, t, TagsHeld(h)') = Positions(h, t, TagsHeld(h))
        BY <2>1, <2>5, <2>6, <3>1
      <4> QED BY <2>8, <3>1, <4>1 DEF HeldSlots, AdmissionTypeOK
    <3>2. PICK t : t = CurrentTag(g)
      OBVIOUS
    <3>3. HeldSlots(t)' = HeldSlots(t) \cup {<<g, at[g]>>} /\ <<g, at[g]>> \notin HeldSlots(t)
      <4>1. Positions(g, t, TagsHeld(g)') = Positions(g, t, TagsHeld(g)) \cup {at[g]}
        BY <2>1, <2>5, <2>6, <3>2
      <4>2. at[g] \notin Positions(g, t, TagsHeld(g))
        BY <2>1 DEF Positions
      <4>3. \A h \in Goroutine \ {g} : Positions(h, t, TagsHeld(h)') = Positions(h, t, TagsHeld(h))
        BY <2>5
      <4>4. <<g, at[g]>> \notin HeldSlots(t)
        BY <4>2 DEF HeldSlots
      <4>5. HeldSlots(t)' = UNION {{h} \X Positions(h, t, TagsHeld(h)') : h \in Goroutine}
        BY DEF HeldSlots
      <4>6. \A x : x \in HeldSlots(t)' <=> \E h \in Goroutine : x \in {h} \X Positions(h, t, TagsHeld(h)')
        BY <4>5
      <4>7. \A x : x \in HeldSlots(t) <=> \E h \in Goroutine : x \in {h} \X Positions(h, t, TagsHeld(h))
        BY DEF HeldSlots
      <4>8. \A x : x \in {g} \X Positions(g, t, TagsHeld(g)') <=> x \in {g} \X Positions(g, t, TagsHeld(g)) \/ x = <<g, at[g]>>
        BY <4>1
      <4>9. \A h \in Goroutine \ {g} : {h} \X Positions(h, t, TagsHeld(h)') = {h} \X Positions(h, t, TagsHeld(h))
        BY <4>3
      <4>10. \A x : x \in HeldSlots(t)' <=> x \in HeldSlots(t) \/ x = <<g, at[g]>>
        BY <4>6, <4>7, <4>8, <4>9
      <4> QED BY <4>4, <4>10
    <3>4. IsFiniteSet(HeldSlots(t)) /\ slots[t] = Cardinality(HeldSlots(t)) /\ slots[t] \in Nat
      BY <2>8, <3>2 DEF Semaphores, AdmissionTypeOK
    <3>5. IsFiniteSet(HeldSlots(t)') /\ Cardinality(HeldSlots(t)') = slots[t] + 1
      <4>1. PICK x : x = <<g, at[g]>>
        OBVIOUS
      <4>2. x \notin HeldSlots(t) /\ HeldSlots(t)' = HeldSlots(t) \cup {x}
        BY <3>3, <4>1
      <4>3. /\ IsFiniteSet(HeldSlots(t) \cup {x})
            /\ Cardinality(HeldSlots(t) \cup {x}) = Cardinality(HeldSlots(t)) + 1
        BY <3>4, <4>2, FS_AddElement
      <4> QED BY <3>4, <4>2, <4>3
    <3>6. slots'[t] = slots[t] + 1 /\ slots'[t] <= SlotLimit[t]
      BY <1>3, <2>8, <3>2, <3>4 DEF AdmissionTypeOK
    <3>7. Semaphores'
      BY <3>1, <3>2, <3>5, <3>6 DEF Semaphores
    <3> QED BY <1>2, <2>3, <2>4, <3>7
  <2> QED BY <1>4, <2>7, <2>8 DEF TakeSlot
<1>5. CASE SlotCancelled(g) \/ TokenCancelled(g) \/ ReleaseTags(g)
  <2>1. /\ stage' = [stage EXCEPT ![g] = "leave"] /\ UNCHANGED <<at, tokens>>
        /\ slots' = SlotsAfterRelease(g, TagsHeld(g))
    BY <1>5 DEF SlotCancelled, TokenCancelled, ReleaseTags, Goto, TagsHeld, In
  <2>2. TagsHeld(g)' = 0 /\ \A h \in Goroutine \ {g} : TagsHeld(h)' = TagsHeld(h)
    BY <1>1, <2>1 DEF TagsHeld, In, AdmissionTypeOK
  <2>3. Semaphores' /\ slots' \in [DOMAIN SlotLimit -> Nat]
    BY <2>1, <2>2, GiveBack
  <2>4. AdmissionTypeOK'
    BY <1>2, <2>1, <2>3 DEF AdmissionTypeOK
  <2>5. Progress'
    BY <1>1, <2>1 DEF Progress, AdmissionTypeOK
  <2> QED BY <1>2, <2>3, <2>4, <2>5
<1>6. CASE SlotsTaken(g)
  <2>1. /\ stage[g] = "slots" /\ at[g] > Len(Tags[g]) /\ stage' = [stage EXCEPT ![g] = "tokens"]
        /\ at' = [at EXCEPT ![g] = 1] /\ UNCHANGED <<slots, tokens>>
    BY <1>6 DEF SlotsTaken, Goto, AtEnd, In
  <2>2. TagsHeld(g)' = TagsHeld(g)
    BY <1>1, <1>3, <2>1 DEF TagsHeld, In, AdmissionTypeOK, Progress
  <2>3. \A h \in Goroutine \ {g} : TagsHeld(h)' = TagsHeld(h)
    BY <1>1, <2>1 DEF TagsHeld, In, AdmissionTypeOK
  <2>4. Semaphores'
    BY <2>1, <2>2, <2>3, SameSlots
  <2>5. AdmissionTypeOK'
    BY <1>2, <2>1 DEF AdmissionTypeOK
  <2>6. Progress'
    BY <1>1, <2>1 DEF Progress, AdmissionTypeOK
  <2> QED BY <1>2, <2>4, <2>5, <2>6
<1>7. CASE TakeToken(g)
  <2>1. stage[g] = "tokens" /\ at' = [at EXCEPT ![g] = @ + 1] /\ UNCHANGED <<stage, slots>>
    BY <1>7 DEF TakeToken, In
  <2>2. tokens' \in [DOMAIN Rate -> Nat]
    <3>1. tokens \in [DOMAIN Rate -> Nat]
      BY <1>1 DEF AdmissionTypeOK
    <3>2. CASE UNCHANGED tokens
      BY <3>1, <3>2
    <3>3. CASE /\ CurrentTag(g) \in DOMAIN Rate /\ tokens[CurrentTag(g)] >= Unit
               /\ tokens' = [tokens EXCEPT ![CurrentTag(g)] = @ - Unit]
      <4>1. tokens[CurrentTag(g)] - Unit \in Nat
        BY <1>3, <3>1, <3>3
      <4> QED BY <3>1, <3>3, <4>1
    <3> QED BY <1>7, <3>2, <3>3 DEF TakeToken
  <2>3. AdmissionTypeOK'
    BY <1>2, <2>1, <2>2 DEF AdmissionTypeOK
  <2>4. Progress'
    BY <1>1, <2>1 DEF Progress, AdmissionTypeOK
  <2>5. \A h \in Goroutine : TagsHeld(h)' = TagsHeld(h)
    BY <1>1, <2>1 DEF TagsHeld, In, AdmissionTypeOK
  <2> QED BY <1>2, <2>1, <2>3, <2>4, <2>5, SameSlots
<1>8. CASE Sleep(g) \/ LookAgain(g) \/ Admitted(g)
  <2>1. /\ stage[g] \in {"tokens", "sleep"} /\ UNCHANGED <<at, slots, tokens>>
        /\ \E s \in {"tokens", "sleep", "run"} : stage' = [stage EXCEPT ![g] = s]
    BY <1>8 DEF Sleep, LookAgain, Admitted, Goto, In
  <2>2. AdmissionTypeOK'
    BY <1>2, <2>1 DEF AdmissionTypeOK
  <2>3. Progress'
    BY <1>1, <2>1 DEF Progress, AdmissionTypeOK
  <2>4. \A h \in Goroutine : TagsHeld(h)' = TagsHeld(h)
    BY <1>1, <2>1 DEF TagsHeld, In, AdmissionTypeOK
  <2> QED BY <1>2, <2>1, <2>2, <2>3, <2>4, SameSlots
<1> QED BY <1>4, <1>5, <1>6, <1>7, <1>8

LEMMA NextAdmissionIInv ==
  ASSUME AdmissionIInv, [AdmissionNext]_admissionVars
  PROVE  AdmissionIInv'
<1> USE DEF AdmissionIInv
<1>1. ASSUME NEW g \in Goroutine, AdmissionStep(g) PROVE AdmissionIInv'
  BY <1>1, GlobalStep, TagStep DEF AdmissionStep
<1>2. ASSUME NEW t \in DOMAIN Rate, Refill(t) PROVE AdmissionIInv'
  <2>1. TypeOK' /\ Queue' /\ Leavers' /\ Accounted'
    BY <1>2, TagStepQueue DEF AdmissionTypeOK, Refill
  <2>2. UNCHANGED <<pc, stage, at, slots>>
    BY <1>2 DEF Refill, vars
  <2>3. AdmissionTypeOK'
    BY <1>2, <2>1 DEF AdmissionTypeOK, Refill
  <2>4. Progress'
    BY <2>2 DEF Progress
  <2>5. \A h \in Goroutine : TagsHeld(h)' = TagsHeld(h)
    BY <2>2 DEF TagsHeld, In
  <2> QED BY <2>1, <2>2, <2>3, <2>4, <2>5, SameSlots
<1>3. CASE ContextDone
  <2>1. cancelled' \in BOOLEAN
    BY <1>3, Zenon DEF ContextDone, Cancel
  <2>2. UNCHANGED <<cfg, concurrency, active, waiters, signal, pc>> /\ UNCHANGED tagVars
    BY <1>3 DEF ContextDone, Cancel
  <2>3. AdmissionTypeOK'
    BY <2>1, <2>2 DEF AdmissionTypeOK, TypeOK, tagVars
  <2>4. Queue' /\ Accounted' /\ Progress'
    BY <2>2 DEF Queue, Accounted, Holding, Progress, tagVars
  <2>5. \A h \in Goroutine : TagsHeld(h)' = TagsHeld(h)
    BY <2>2 DEF TagsHeld, In, tagVars
  <2>6. Leavers'
    BY <1>3, Zenon DEF ContextDone, Cancel, Leavers
  <2> QED BY <2>2, <2>3, <2>4, <2>5, <2>6, SameSlots DEF tagVars
<1>4. CASE UNCHANGED admissionVars
  <2>1. UNCHANGED vars /\ UNCHANGED tagVars
    BY <1>4 DEF admissionVars
  <2>2. AdmissionTypeOK' /\ Queue' /\ Leavers' /\ Accounted' /\ Progress'
    BY <2>1, TagStepQueue DEF AdmissionTypeOK, tagVars, Progress, vars
  <2>3. \A h \in Goroutine : TagsHeld(h)' = TagsHeld(h)
    BY <2>1 DEF TagsHeld, In, tagVars, vars
  <2> QED BY <2>1, <2>2, <2>3, SameSlots DEF tagVars
<1> QED BY <1>1, <1>2, <1>3, <1>4 DEF AdmissionNext

-----------------------------------------------------------------------------
\* The theorems.

\* The inductive invariant, and with it the types, holds for every goroutine
\* and tag.
THEOREM AdmissionIInvHolds == AdmissionSpec => []AdmissionIInv
BY InitAdmissionIInv, NextAdmissionIInv, PTL DEF AdmissionSpec

\* SlotsExact: every semaphore counts exactly the slots in live hands and stays
\* within its limit, on every way out; the global count is made up of the slots
\* held, on the way to a waiter, and lost to a waiter that left a done context.
THEOREM SlotsAreExact == AdmissionSpec => []SlotsExact
<1>1. AdmissionIInv => SlotsExact
  BY AccountedSplits DEF AdmissionIInv, AdmissionTypeOK, Semaphores, SlotsExact
<1> QED BY <1>1, AdmissionIInvHolds, PTL

\* NoEntryOverLimit: above a lowered limit nobody is let in, neither by
\* acquire nor by the transfer in release.
THEOREM NobodyEntersOverLimit == AdmissionSpec => NoEntryOverLimit
<1> DEFINE Entry == (active > concurrency') => (Holding' \cup signal') \subseteq (Holding \cup signal)
<1>1. ASSUME TypeOK, NEW g \in Goroutine, Step(g) PROVE Entry
  <2>1. CASE AcquireNow(g)
    BY <1>1, <2>1 DEF AcquireNow, TypeOK
  <2>2. CASE Enqueue(g) \/ Wake(g) \/ GiveUp(g) \/ Leave(g)
    BY <1>1, <2>2 DEF Enqueue, Wake, GiveUp, Leave, TypeOK, Holding
  <2>3. CASE Release(g)
    <3>1. concurrency' \in Nat /\ active \in Nat
      BY <1>1, <2>3, AdjustedPositive DEF Release, TypeOK
    <3> QED BY <1>1, <2>3, <3>1 DEF Release, TypeOK, Holding
  <2> QED BY <1>1, <2>1, <2>2, <2>3 DEF Step
<1>2. ASSUME UNCHANGED <<signal, pc>> PROVE Entry
  BY <1>2 DEF Holding
<1>3. AdmissionIInv /\ [AdmissionNext]_admissionVars => [Entry]_vars
  <2> SUFFICES ASSUME AdmissionIInv, [AdmissionNext]_admissionVars PROVE [Entry]_vars
    OBVIOUS
  <2>1. ASSUME NEW g \in Goroutine, AdmissionStep(g) PROVE Step(g) \/ UNCHANGED <<signal, pc>>
    BY <2>1 DEF AdmissionStep, Enter, Exit, Step, TakeSlot, SlotCancelled, SlotsTaken, TakeToken, Sleep,
                LookAgain, TokenCancelled, Admitted, ReleaseTags, vars
  <2>2. ASSUME ContextDone \/ \E t \in DOMAIN Rate : Refill(t) PROVE UNCHANGED <<signal, pc>>
    BY <2>2 DEF ContextDone, Cancel, Refill, vars
  <2>3. TypeOK
    BY DEF AdmissionIInv, AdmissionTypeOK
  <2>4. ASSUME UNCHANGED admissionVars PROVE UNCHANGED vars
    BY <2>4 DEF admissionVars
  <2> QED BY <1>1, <1>2, <2>1, <2>2, <2>3, <2>4 DEF AdmissionNext
<1> QED BY <1>3, AdmissionIInvHolds, PTL DEF AdmissionSpec, NoEntryOverLimit

---------------------------------------------------------------------------
(* Numbers *)

\* A set of numbers has a least one.
LEMMA LeastNumber ==
  ASSUME NEW S, S \subseteq Nat, S # {}
  PROVE  Min(S) \in S /\ \A y \in S : Min(S) <= y
<1>1. PICK x \in S : \A y \in S : ~(<<y, x>> \in OpToRel(<, Nat))
  BY NatLessThanWellFounded, WFMin
<1>2. \A y \in S : x <= y
  <2> SUFFICES ASSUME NEW y \in S
               PROVE  x <= y
    OBVIOUS
  <2>1. x \in Nat /\ y \in Nat
    OBVIOUS
  <2>2. ~(y < x)
    BY <1>1, <2>1 DEF OpToRel
  <2> QED
    BY <2>1, <2>2
<1> QED
  BY <1>2 DEF Min

---------------------------------------------------------------------------
(* The workflow engine (Workflow) *)

WfTypeOK ==
  /\ wfDeps \in [WfNode -> SUBSET WfNode] /\ wfWrites \in [WfNode -> SUBSET Field]
  /\ wfPhase \in {"new", "rejected", "ready", "batch", "done", "failed", "conflict", "cancelled"}
  /\ version \in Nat /\ pending \in SUBSET WfNode /\ remaining \in [WfNode -> Int]
  /\ node \in [WfNode -> {"idle", "waiting", "running", "patch", "twice", "error", "cancelled"}]

\* A batch is all nodes that wait for nothing: the counters of execute are
\* exact, and nothing but the batch is at work.
WfCounted ==
  /\ \A n \in WfNode : remaining[n] = Cardinality(wfDeps[n] \cap pending)
  /\ \A n \in WfNode : node[n] # "idle" <=> wfPhase = "batch" /\ n \in ReadyBatch

\* New decides before anything runs.
WfNewPending == wfPhase = "new" => pending = WfNode

WfIInv == WfTypeOK /\ WfCounted /\ WfNewPending /\ WorkflowSound

LEMMA WfFinite == \A S \in SUBSET WfNode : IsFiniteSet(S) /\ Cardinality(S) \in Nat /\ (Cardinality(S) = 0 <=> S = {})
<1>1. \A a, b \in Int : IsFiniteSet(a..b)
  BY FS_Interval
<1>2. IsFiniteSet(WfNode)
  BY <1>1, WfAssumption DEF WfNode
<1> QED
  BY <1>2, FS_Subset, FS_CardinalityType, FS_EmptySet

\* What is ready waits for nothing that has not been committed.
LEMMA ReadyWaitsForNothing ==
  ASSUME WfTypeOK, WfCounted
  PROVE  \A n \in WfNode : n \in ReadyBatch <=> n \in pending /\ wfDeps[n] \subseteq Committed
<1> SUFFICES ASSUME NEW n \in WfNode
             PROVE  n \in ReadyBatch <=> n \in pending /\ wfDeps[n] \subseteq Committed
  OBVIOUS
<1>1. wfDeps[n] \cap pending \in SUBSET WfNode /\ wfDeps[n] \subseteq WfNode
  BY DEF WfTypeOK
<1>2. remaining[n] = 0 <=> wfDeps[n] \cap pending = {}
  BY <1>1, WfFinite DEF WfCounted
<1> QED
  BY <1>1, <1>2 DEF ReadyBatch, Committed

LEMMA WfInitIInv == WorkflowInit => WfIInv
<1> SUFFICES ASSUME WorkflowInit
             PROVE  WfIInv
  OBVIOUS
<1>1. WfTypeOK
  <2>1. \A n \in WfNode : wfDeps[n] \in SUBSET WfNode
    BY DEF WorkflowInit
  <2>2. \A n \in WfNode : Cardinality(wfDeps[n]) \in Int
    BY <2>1, WfFinite
  <2> QED
    BY <2>2 DEF WorkflowInit, WfTypeOK
<1>2. WfCounted
  <2>1. \A n \in WfNode : wfDeps[n] \cap pending = wfDeps[n]
    BY DEF WorkflowInit
  <2> QED
    BY <2>1 DEF WorkflowInit, WfCounted
<1>3. Committed = {} /\ version = 0 /\ wfPhase = "new"
  BY DEF WorkflowInit, Committed
<1>4. PICK layer : layer = [n \in Committed |-> 0]
  OBVIOUS
<1>5. layer \in [Committed -> 0..(version - 1)]
  BY <1>3, <1>4
<1>6. Layers(layer)
  BY <1>3 DEF Layers
<1>7. \A f \in Field : Writers(f) = {} /\ wfState[f] = Original
  BY <1>3 DEF Writers, WorkflowInit
<1>8. LayersWrote(layer)
  BY <1>7 DEF LayersWrote
<1> QED
  BY <1>1, <1>2, <1>3, <1>5, <1>6, <1>8 DEF WfIInv, WorkflowSound, WfNewPending, Committed, WorkflowInit

\* Before anything is committed, and in a step that commits nothing, what
\* the layers wrote stays.
LEMMA WfSoundKept ==
  ASSUME WorkflowSound, UNCHANGED <<wfDeps, pending, version, wfState>>,
         wfWrites' = wfWrites \/ pending = WfNode,
         wfPhase' = "done" => pending = {},
         wfPhase' = "failed" => blamed' \in pending /\ wfDeps[blamed'] \subseteq Committed
  PROVE  WorkflowSound'
<1>1. PICK layer \in [Committed -> 0..(version - 1)] : Layers(layer) /\ LayersWrote(layer)
  BY DEF WorkflowSound
<1>2. Committed' = Committed
  BY DEF Committed
<1>3. Layers(layer)'
  BY <1>1, <1>2 DEF Layers
<1>4. \A f \in Field : Writers(f)' = Writers(f)
  <2>1. CASE wfWrites' = wfWrites
    BY <1>2, <2>1 DEF Writers
  <2>2. CASE pending = WfNode
    BY <1>2, <2>2 DEF Writers, Committed
  <2> QED
    BY <2>1, <2>2
<1>5. LayersWrote(layer)'
  BY <1>1, <1>4 DEF LayersWrote
<1> QED
  BY <1>1, <1>2, <1>3, <1>5 DEF WorkflowSound

LEMMA NewKeepsWf ==
  ASSUME WfIInv, NewWorkflow
  PROVE  WfIInv'
<1>0. WfTypeOK /\ WfCounted /\ WorkflowSound /\ WfNewPending
  BY DEF WfIInv
<1>1. CASE wfPhase' = "rejected" /\ UNCHANGED wfWrites
  <2>1. WfTypeOK' /\ WfCounted'
    BY <1>0, <1>1 DEF WfTypeOK, WfCounted, NewWorkflow, ReadyBatch
  <2>2. WorkflowSound'
    BY <1>0, <1>1, WfSoundKept DEF NewWorkflow
  <2> QED
    BY <1>1, <2>1, <2>2 DEF WfIInv, WfNewPending
<1>2. CASE wfPhase' = "ready" /\ wfWrites' \in [WfNode -> SUBSET Field]
  <2>1. WfTypeOK' /\ WfCounted'
    BY <1>0, <1>2 DEF WfTypeOK, WfCounted, NewWorkflow, ReadyBatch
  <2>2. wfPhase = "new"
    BY DEF NewWorkflow
  <2>3. pending = WfNode
    BY <1>0, <2>2 DEF WfNewPending
  <2>4. WorkflowSound'
    BY <1>0, <1>2, <2>3, WfSoundKept DEF NewWorkflow
  <2> QED
    BY <1>2, <2>1, <2>4 DEF WfIInv, WfNewPending
<1> QED
  BY <1>1, <1>2 DEF NewWorkflow

LEMMA StartKeepsWf ==
  ASSUME WfIInv, StartBatch
  PROVE  WfIInv'
<1>0. WfTypeOK /\ WfCounted /\ WorkflowSound /\ wfPhase = "ready"
  BY DEF WfIInv, StartBatch
<1>1. UNCHANGED <<wfDeps, wfWrites, wfState, version, pending, remaining, blamed>>
  BY DEF StartBatch, wfConfig
<1>2. ReadyBatch' = ReadyBatch
  BY <1>1 DEF ReadyBatch
<1>3. CASE wfPhase' \in {"done", "cancelled"} /\ UNCHANGED node /\ (wfPhase' = "done" => pending = {})
  <2>1. WfTypeOK' /\ WfCounted'
    BY <1>0, <1>1, <1>2, <1>3 DEF WfTypeOK, WfCounted
  <2>2. WorkflowSound'
    BY <1>0, <1>1, <1>3, WfSoundKept
  <2> QED
    BY <1>0, <1>3, <2>1, <2>2 DEF WfIInv, WfNewPending
<1>4. CASE wfPhase' = "batch" /\ node' = [n \in WfNode |-> IF n \in ReadyBatch
                                                          THEN IF wfLimit > 0 THEN "waiting" ELSE "running"
                                                          ELSE "idle"]
  <2>1. node' \in [WfNode -> {"idle", "waiting", "running", "patch", "twice", "error", "cancelled"}]
    BY <1>4
  <2>2. \A n \in WfNode : node'[n] # "idle" <=> n \in ReadyBatch
    BY <1>4
  <2>3. WfTypeOK' /\ WfCounted'
    BY <1>0, <1>1, <1>2, <1>4, <2>1, <2>2 DEF WfTypeOK, WfCounted
  <2>4. WorkflowSound'
    BY <1>0, <1>1, <1>4, WfSoundKept
  <2> QED
    BY <1>0, <1>4, <2>3, <2>4 DEF WfIInv, WfNewPending
<1> QED
  BY <1>3, <1>4 DEF StartBatch, Return

LEMMA WfTypeStep ==
  ASSUME WfIInv, wfPhase' = wfPhase, UNCHANGED <<wfDeps, wfWrites, wfState, version, pending, remaining, blamed>>,
         node' \in [WfNode -> {"idle", "waiting", "running", "patch", "twice", "error", "cancelled"}],
         \A n \in WfNode : node'[n] # "idle" <=> node[n] # "idle"
  PROVE  WfIInv'
<1>0. WfTypeOK /\ WfCounted /\ WorkflowSound /\ WfNewPending
  BY DEF WfIInv
<1>1. ReadyBatch' = ReadyBatch /\ Committed' = Committed
  BY DEF ReadyBatch, Committed
<1>2. WfTypeOK' /\ WfCounted'
  BY <1>0, <1>1 DEF WfTypeOK, WfCounted
<1>3. WorkflowSound'
  <2>1. wfPhase' = "done" => pending = {}
    BY <1>0 DEF WorkflowSound
  <2>2. wfPhase' = "failed" => blamed' \in pending /\ wfDeps[blamed'] \subseteq Committed
    BY <1>0 DEF WorkflowSound
  <2> QED
    BY <1>0, <2>1, <2>2, WfSoundKept
<1>4. WfNewPending'
  BY <1>0 DEF WfNewPending
<1> QED
  BY <1>2, <1>3, <1>4 DEF WfIInv

LEMMA CancelKeepsWf ==
  ASSUME WfIInv, CancelWorkflow
  PROVE  WfIInv'
  BY WfTypeStep DEF CancelWorkflow, wfConfig, WfIInv, WfTypeOK

LEMMA NodeKeepsWf ==
  ASSUME WfIInv, NEW n \in WfNode, TakeBatchSlot(n) \/ RunNode(n)
  PROVE  WfIInv'
<1>1. PICK to \in {"running", "cancelled", "patch", "twice", "error"} :
        node' = [node EXCEPT ![n] = to] /\ node[n] \in {"waiting", "running"}
  BY DEF TakeBatchSlot, RunNode
<1>2. node \in [WfNode -> {"idle", "waiting", "running", "patch", "twice", "error", "cancelled"}]
  BY DEF WfIInv, WfTypeOK
<1>3. node' \in [WfNode -> {"idle", "waiting", "running", "patch", "twice", "error", "cancelled"}]
  BY <1>1, <1>2
<1>4. \A k \in WfNode : node'[k] # "idle" <=> node[k] # "idle"
  BY <1>1, <1>2
<1>5. wfPhase' = wfPhase /\ UNCHANGED <<wfDeps, wfWrites, wfState, version, pending, remaining, blamed>>
  BY DEF TakeBatchSlot, RunNode, wfConfig
<1> QED
  BY <1>3, <1>4, <1>5, WfTypeStep

\* A batch that is merged is the next layer.
LEMMA MergeKeepsWf ==
  ASSUME WfIInv, wfPhase = "batch", ~Conflict, UNCHANGED <<wfDeps, wfWrites>>, wfPhase' = "ready",
         wfState' = Merged, version' = version + 1, pending' = pending \ Batch,
         remaining' = [k \in WfNode |-> remaining[k] - Cardinality(wfDeps[k] \cap Batch)],
         node' = [n \in WfNode |-> "idle"]
  PROVE  WfIInv'
<1>0. WfTypeOK /\ WfCounted /\ WorkflowSound
  BY DEF WfIInv
<1>1. \A n \in WfNode : n \in Batch <=> n \in pending /\ wfDeps[n] \subseteq Committed
  BY <1>0, ReadyWaitsForNothing DEF Batch, WfCounted
<1>2. Batch \subseteq pending /\ Batch \subseteq WfNode /\ pending \subseteq WfNode
  BY <1>0, <1>1 DEF Batch, WfTypeOK
<1>3. Committed' = Committed \cup Batch /\ Committed \cap Batch = {} /\ Committed \subseteq WfNode
  BY <1>2 DEF Committed
<1>4. WfCounted'
  <2>1. \A n \in WfNode : remaining'[n] = Cardinality(wfDeps[n] \cap pending) - Cardinality(wfDeps[n] \cap Batch)
    BY <1>0 DEF WfCounted
  <2>2. \A n \in WfNode : Cardinality(wfDeps[n] \cap pending')
                          = Cardinality(wfDeps[n] \cap pending) - Cardinality(wfDeps[n] \cap Batch)
    <3> SUFFICES ASSUME NEW n \in WfNode
                 PROVE  Cardinality(wfDeps[n] \cap pending')
                          = Cardinality(wfDeps[n] \cap pending) - Cardinality(wfDeps[n] \cap Batch)
      OBVIOUS
    <3>1. PICK S : S = wfDeps[n] \cap pending
      OBVIOUS
    <3>2. IsFiniteSet(S)
      BY <1>2, <3>1, WfFinite
    <3>3. Cardinality(S \ Batch) = Cardinality(S) - Cardinality(S \cap Batch)
      BY <3>2, FS_Difference
    <3>4. S \ Batch = wfDeps[n] \cap pending' /\ S \cap Batch = wfDeps[n] \cap Batch
      BY <1>2, <3>1
    <3> QED
      BY <3>1, <3>3, <3>4
  <2> QED
    BY <2>1, <2>2 DEF WfCounted
<1>5. WfTypeOK'
  <2>1. \A k \in WfNode : remaining'[k] \in Int
    <3> SUFFICES ASSUME NEW k \in WfNode
                 PROVE  remaining'[k] \in Int
      OBVIOUS
    <3>1. wfDeps[k] \cap Batch \in SUBSET WfNode
      BY <1>2
    <3>2. Cardinality(wfDeps[k] \cap Batch) \in Nat
      BY <3>1, WfFinite
    <3> QED
      BY <1>0, <3>2 DEF WfTypeOK
  <2> QED
    BY <1>0, <1>2, <2>1 DEF WfTypeOK
<1>6. PICK layer \in [Committed -> 0..(version - 1)] : Layers(layer) /\ LayersWrote(layer)
  BY <1>0 DEF WorkflowSound
<1>7. PICK v \in Nat : v = version
  BY <1>0 DEF WfTypeOK
<1>8. PICK next : next = [n \in Committed' |-> IF n \in Batch THEN v ELSE layer[n]]
  OBVIOUS
<1>9. \A n \in Committed : next[n] = layer[n] /\ layer[n] \in 0..(v - 1) /\ layer[n] < v /\ layer[n] \in Nat
  BY <1>3, <1>6, <1>7, <1>8
<1>10. \A n \in Batch : next[n] = v
  BY <1>3, <1>8
<1>11. next \in [Committed' -> 0..(version' - 1)]
  <2>1. \A n \in Committed' : next[n] \in 0..v
    BY <1>3, <1>7, <1>9, <1>10
  <2>2. version' - 1 = v
    BY <1>7
  <2> QED
    BY <1>8, <2>1, <2>2
<1>12. Layers(next)'
  <2>1. ASSUME NEW n \in Committed', NEW k \in wfDeps[n]
        PROVE  k \in Committed' /\ next[k] < next[n]
    <3>1. CASE n \in Batch
      <4>1. k \in Committed
        BY <1>1, <1>2, <3>1
      <4> QED
        BY <1>3, <1>9, <1>10, <3>1, <4>1
    <3>2. CASE n \in Committed
      <4>1. k \in Committed /\ layer[k] < layer[n]
        BY <1>6, <3>2 DEF Layers
      <4> QED
        BY <1>3, <1>9, <3>2, <4>1
    <3> QED
      BY <1>3, <3>1, <3>2
  <2>2. ASSUME NEW n \in Committed', next[n] > 0
        PROVE  \E k \in wfDeps[n] : next[k] = next[n] - 1
    <3>1. CASE n \in Batch
      <4>1. n \in pending /\ wfDeps[n] \subseteq Committed /\ version > 0
        BY <1>1, <1>2, <1>7, <1>10, <2>2, <3>1
      <4>2. PICK k \in wfDeps[n] : layer[k] = version - 1
        BY <1>6, <4>1 DEF Layers
      <4> QED
        BY <1>7, <1>9, <1>10, <3>1, <4>1, <4>2
    <3>2. CASE n \in Committed
      <4>1. PICK k \in wfDeps[n] : layer[k] = layer[n] - 1
        BY <1>6, <1>9, <2>2, <3>2 DEF Layers
      <4>2. k \in Committed
        BY <1>6, <3>2 DEF Layers
      <4> QED
        BY <1>9, <3>2, <4>1, <4>2
    <3> QED
      BY <1>3, <2>2, <3>1, <3>2
  <2>3. ASSUME NEW n \in pending', wfDeps[n] \subseteq Committed'
        PROVE  \E k \in wfDeps[n] : next[k] = v
    <3>1. n \in pending /\ n \notin Batch /\ n \in WfNode
      BY <1>2, <2>3
    <3>2. PICK k \in wfDeps[n] : k \notin Committed
      BY <1>1, <3>1
    <3>3. k \in Batch
      BY <1>3, <2>3, <3>2
    <3> QED
      BY <1>10, <3>2, <3>3
  <2>4. version' - 1 = v
    BY <1>7
  <2> QED
    BY <2>1, <2>2, <2>3, <2>4 DEF Layers
<1>13. LayersWrote(next)'
  <2> SUFFICES ASSUME NEW f \in Field
               PROVE  /\ \A n, k \in Writers(f)' : next[n] = next[k] => n = k
                      /\ Writers(f)' = {} => wfState'[f] = Original
                      /\ \A n \in Writers(f)' : (\A k \in Writers(f)' : next[k] <= next[n])
                                                   => wfState'[f] = <<n, next[n]>>
    BY DEF LayersWrote
  <2> DEFINE writers == {n \in Batch : f \in wfWrites[n]}
  <2>1. Writers(f)' = Writers(f) \cup writers /\ Writers(f) \subseteq Committed /\ writers \subseteq Batch
    BY <1>3 DEF Writers
  <2>2. \A n, k \in writers : n = k
    BY DEF Conflict
  <2>3. /\ \A n, k \in Writers(f) : layer[n] = layer[k] => n = k
        /\ Writers(f) = {} => wfState[f] = Original
        /\ \A n \in Writers(f) : (\A k \in Writers(f) : layer[k] <= layer[n]) => wfState[f] = <<n, layer[n]>>
    BY <1>6 DEF LayersWrote
  <2>4. wfState'[f] = IF writers = {} THEN wfState[f] ELSE <<Max(writers), version>>
    BY DEF Merged
  <2> HIDE DEF writers
  <2>5. \A n \in Writers(f) : next[n] = layer[n] /\ layer[n] < v /\ layer[n] \in Nat
    BY <1>9, <2>1
  <2>6. \A n \in writers : next[n] = v
    BY <1>10, <2>1
  <2>7. \A n, k \in Writers(f)' : next[n] = next[k] => n = k
    BY <2>1, <2>2, <2>3, <2>5, <2>6
  <2>8. CASE writers = {}
    BY <2>1, <2>3, <2>4, <2>5, <2>7, <2>8
  <2>9. CASE writers # {}
    <3>1. PICK w \in writers : writers = {w}
      BY <2>2, <2>9
    <3>2. w \in Int
      BY <1>2, <2>1 DEF WfNode
    <3>3. Max(writers) = w
      BY <3>1, <3>2 DEF Max
    <3>4. wfState'[f] = <<w, v>> /\ next[w] = v /\ w \in Writers(f)'
      BY <1>7, <2>1, <2>4, <2>6, <2>9, <3>1, <3>3
    <3>5. ASSUME NEW n \in Writers(f)', \A k \in Writers(f)' : next[k] <= next[n]
          PROVE  n = w
      <4>1. n \notin Writers(f)
        BY <2>5, <3>4, <3>5
      <4> QED
        BY <2>1, <3>1, <4>1
    <3> QED
      BY <2>7, <3>4, <3>5
  <2> QED
    BY <2>8, <2>9
<1>14. WorkflowSound'
  BY <1>11, <1>12, <1>13 DEF WorkflowSound
<1> QED
  BY <1>4, <1>5, <1>14 DEF WfIInv, WfNewPending

LEMMA EndKeepsWf ==
  ASSUME WfIInv, EndBatch
  PROVE  WfIInv'
<1>0. WfTypeOK /\ WfCounted /\ WorkflowSound /\ wfPhase = "batch"
  BY DEF WfIInv, EndBatch
<1>1. node' = [n \in WfNode |-> "idle"] /\ UNCHANGED <<wfDeps, wfWrites>>
  BY DEF EndBatch, wfConfig
<1>2. \A n \in Batch : n \in pending /\ wfDeps[n] \subseteq Committed
  BY <1>0, ReadyWaitsForNothing DEF Batch, WfCounted
<1>3. CASE /\ wfPhase' \in {"cancelled", "failed", "conflict"} /\ UNCHANGED <<wfState, version, pending, remaining>>
           /\ wfPhase' = "failed" => blamed' \in Batch
  <2>1. WfTypeOK'
    BY <1>0, <1>1, <1>3 DEF WfTypeOK
  <2>2. WfCounted'
    BY <1>0, <1>1, <1>3 DEF WfCounted
  <2>3. WorkflowSound'
    BY <1>0, <1>1, <1>2, <1>3, WfSoundKept
  <2> QED
    BY <1>3, <2>1, <2>2, <2>3 DEF WfIInv, WfNewPending
<1>4. CASE /\ ~Conflict /\ Return("ready") /\ wfState' = Merged /\ version' = version + 1
           /\ pending' = pending \ Batch
           /\ remaining' = [k \in WfNode |-> remaining[k] - Cardinality(wfDeps[k] \cap Batch)]
  BY <1>0, <1>1, <1>4, MergeKeepsWf DEF Return
<1> DEFINE failed == {n \in Batch : node[n] = "error"}
           stopped == {n \in Batch : node[n] = "cancelled"}
<1>5. CASE /\ failed \cup stopped # {} /\ Return("failed")
           /\ blamed' = (IF failed # {} THEN Min(failed) ELSE Min(stopped))
           /\ UNCHANGED <<wfState, version, pending, remaining>>
  <2>1. failed \subseteq Batch /\ stopped \subseteq Batch /\ Batch \subseteq Nat
    BY DEF Batch, WfNode
  <2>2. blamed' \in Batch
    <3>1. CASE failed # {}
      BY <1>5, <2>1, <3>1, LeastNumber
    <3>2. CASE failed = {}
      BY <1>5, <2>1, <3>2, LeastNumber
    <3> QED
      BY <3>1, <3>2
  <2> QED
    BY <1>3, <1>5, <2>2 DEF Return
<1> QED
  BY <1>3, <1>4, <1>5 DEF EndBatch, Return

\* For every graph, every way its nodes' goroutines interleave, fail and are
\* cancelled, and every limit: a state that execute commits is the writes of
\* whole layers, no two of which were made by nodes of one batch.
THEOREM WorkflowCommitsLayers == WorkflowSpec => []WorkflowSound
<1>1. WfIInv /\ [WorkflowStep]_wfVars => WfIInv'
  <2> SUFFICES ASSUME WfIInv, [WorkflowStep]_wfVars
               PROVE  WfIInv'
    OBVIOUS
  <2>1. CASE NewWorkflow
    BY <2>1, NewKeepsWf
  <2>2. CASE CancelWorkflow
    BY <2>2, CancelKeepsWf
  <2>3. CASE StartBatch
    BY <2>3, StartKeepsWf
  <2>4. CASE EndBatch
    BY <2>4, EndKeepsWf
  <2>5. CASE \E n \in WfNode : TakeBatchSlot(n) \/ RunNode(n)
    BY <2>5, NodeKeepsWf
  <2>6. CASE UNCHANGED wfVars
    BY <2>6, WfTypeStep DEF wfVars, WfIInv, WfTypeOK
  <2> QED
    BY <2>1, <2>2, <2>3, <2>4, <2>5, <2>6 DEF WorkflowStep
<1>2. WfIInv => WorkflowSound
  BY DEF WfIInv
<1> QED
  BY <1>1, <1>2, WfInitIInv, PTL DEF WorkflowSpec

---------------------------------------------------------------------------
(* Agents made of agents (Combinators) *)

\* The k-th number of a set is the one with k - 1 below it.
Below(ids, x) == {j \in ids : j < x}

LEMMA RankExists ==
  ASSUME NEW ids, ids \subseteq Nat, IsFiniteSet(ids), NEW k \in Nat, k < Cardinality(ids)
  PROVE  \E x \in ids : Cardinality(Below(ids, x)) = k
<1> DEFINE missing == {r \in Nat : r < Cardinality(ids) /\ ~\E x \in ids : Cardinality(Below(ids, x)) = r}
<1> SUFFICES ASSUME missing # {}
             PROVE  FALSE
  OBVIOUS
<1>1. PICK r : r = Min(missing)
  OBVIOUS
<1>2. r \in missing /\ \A q \in missing : r <= q
  BY <1>1, LeastNumber
<1>3. r \in Nat /\ r < Cardinality(ids) /\ \A x \in ids : Cardinality(Below(ids, x)) # r
  BY <1>2
<1>4. \A q \in Nat : q < r => \E x \in ids : Cardinality(Below(ids, x)) = q
  <2> SUFFICES ASSUME NEW q \in Nat, q < r
               PROVE  \E x \in ids : Cardinality(Below(ids, x)) = q
    OBVIOUS
  <2>1. q \notin missing
    BY <1>2, <1>3
  <2>2. Cardinality(ids) \in Nat
    BY FS_CardinalityType
  <2>3. q < Cardinality(ids)
    BY <1>3, <2>2
  <2> QED
    BY <2>1, <2>3
<1> HIDE DEF missing
<1>5. CASE r = 0
  <2>1. ids # {}
    BY <1>3, <1>5, FS_EmptySet
  <2>2. PICK x : x = Min(ids)
    OBVIOUS
  <2>3. x \in ids /\ \A y \in ids : x <= y
    BY <2>1, <2>2, LeastNumber
  <2>4. Below(ids, x) = {}
    <3>1. \A y \in ids : x \in Nat /\ y \in Nat /\ ~(y < x)
      BY <2>3
    <3> QED
      BY <3>1 DEF Below
  <2> QED
    BY <1>3, <1>5, <2>3, <2>4, FS_EmptySet
<1>6. CASE r # 0
  <2>1. r - 1 \in Nat /\ r - 1 < r
    BY <1>3, <1>6
  <2>2. PICK e \in ids : Cardinality(Below(ids, e)) = r - 1
    BY <1>4, <2>1
  <2> DEFINE lower == Below(ids, e)
             above == {j \in ids : j > e}
  <2>3. IsFiniteSet(lower) /\ Cardinality(lower) = r - 1
    BY <2>2, FS_Subset DEF Below
  <2>4. e \notin lower /\ e \in Nat
    BY DEF Below
  <2>5. IsFiniteSet(lower \cup {e}) /\ Cardinality(lower \cup {e}) = r
    <3>1. IsFiniteSet(lower \cup {e}) /\ Cardinality(lower \cup {e}) = Cardinality(lower) + 1
      BY <2>3, <2>4, FS_AddElement
    <3> QED
      BY <1>3, <2>3, <3>1
  <2>6. above # {}
    <3> SUFFICES ASSUME above = {}
                 PROVE  FALSE
      OBVIOUS
    <3>1. ids = lower \cup {e}
      <4>1. \A j \in ids : j \in Nat /\ (j < e \/ j = e \/ j > e)
        BY <2>4
      <4> QED
        BY <4>1 DEF Below
    <3> QED
      BY <1>3, <2>5, <3>1
  <2>7. PICK m : m = Min(above)
    OBVIOUS
  <2>8. above \subseteq Nat
    OBVIOUS
  <2>9. m \in above /\ \A y \in above : m <= y
    BY <2>6, <2>7, <2>8, LeastNumber
  <2>10. m \in ids /\ m \in Nat /\ m > e
    BY <2>9
  <2>11. Below(ids, m) = lower \cup {e}
    <3>1. \A j \in ids : j < m <=> j < e \/ j = e
      BY <2>4, <2>9, <2>10
    <3> QED
      BY <3>1 DEF Below
  <2> QED
    BY <1>3, <2>5, <2>10, <2>11
<1> QED
  BY <1>5, <1>6

\* Sorted lists the whole set without repetition from the smallest number on.
LEMMA SortedInOrder ==
  ASSUME NEW ids, ids \subseteq Nat, IsFiniteSet(ids)
  PROVE  /\ DOMAIN Sorted(ids) = 1..Cardinality(ids) /\ Cardinality(ids) \in Nat
         /\ \A k \in 1..Cardinality(ids) : Sorted(ids)[k] \in ids
         /\ \A id \in ids : \E k \in 1..Cardinality(ids) : Sorted(ids)[k] = id
         /\ \A k, l \in 1..Cardinality(ids) : k < l => Sorted(ids)[k] < Sorted(ids)[l]
<1>1. PICK n \in Nat : n = Cardinality(ids)
  BY FS_CardinalityType
<1>2. PICK s : s = Sorted(ids)
  OBVIOUS
<1>3. DOMAIN s = 1..n /\ \A k \in 1..n : s[k] = CHOOSE id \in ids : Cardinality(Below(ids, id)) = k - 1
  BY <1>1, <1>2 DEF Sorted, Below
<1>4. \A k \in 1..n : s[k] \in ids /\ Cardinality(Below(ids, s[k])) = k - 1
  <2> SUFFICES ASSUME NEW k \in 1..n
               PROVE  s[k] \in ids /\ Cardinality(Below(ids, s[k])) = k - 1
    OBVIOUS
  <2>1. PICK r \in Nat : r = k - 1 /\ r < n
    BY <1>1
  <2>2. \E x \in ids : Cardinality(Below(ids, x)) = r
    BY <1>1, <2>1, RankExists
  <2> QED
    BY <1>3, <2>1, <2>2
<1>5. \A k, l \in 1..n : k < l => s[k] < s[l]
  <2> SUFFICES ASSUME NEW k \in 1..n, NEW l \in 1..n, k < l, ~(s[k] < s[l])
               PROVE  FALSE
    OBVIOUS
  <2>0. PICK a \in ids, b \in ids : a = s[k] /\ b = s[l]
    BY <1>4
  <2>1. a \in Nat /\ b \in Nat /\ b <= a
    BY <2>0
  <2>2. Below(ids, s[l]) \in SUBSET Below(ids, s[k])
    <3>1. \A j \in ids : j \in Nat /\ (j < b => j < a)
      BY <2>1
    <3> QED
      BY <2>0, <3>1 DEF Below
  <2>3. IsFiniteSet(Below(ids, s[k]))
    BY FS_Subset DEF Below
  <2>4. Cardinality(Below(ids, s[l])) <= Cardinality(Below(ids, s[k]))
    BY <2>2, <2>3, FS_Subset
  <2> QED
    BY <1>4, <2>4
<1>6. \A id \in ids : \E k \in 1..n : s[k] = id
  <2> SUFFICES ASSUME NEW id \in ids
               PROVE  \E k \in 1..n : s[k] = id
    OBVIOUS
  <2>1. Below(ids, id) \in SUBSET ids /\ id \notin Below(ids, id) /\ id \in Nat
    BY DEF Below
  <2>2. PICK c \in Nat : c = Cardinality(Below(ids, id)) /\ c < n
    <3>1. IsFiniteSet(Below(ids, id)) /\ Cardinality(Below(ids, id)) <= n /\ Cardinality(Below(ids, id)) # n
      BY <1>1, <2>1, FS_Subset
    <3> QED
      BY <3>1, FS_CardinalityType
  <2>3. PICK k \in 1..n : k = c + 1
    BY <2>2
  <2>4. PICK x \in ids : x = s[k] /\ Cardinality(Below(ids, x)) = c
    <3>1. k - 1 = c
      BY <2>2, <2>3
    <3>2. s[k] \in ids /\ Cardinality(Below(ids, s[k])) = k - 1
      BY <1>4
    <3> QED
      BY <3>1, <3>2
  <2>5. \A e, f \in ids : e < f => Cardinality(Below(ids, e)) # Cardinality(Below(ids, f))
    <3> SUFFICES ASSUME NEW e \in ids, NEW f \in ids, e < f,
                        Cardinality(Below(ids, e)) = Cardinality(Below(ids, f))
                 PROVE  FALSE
      OBVIOUS
    <3>1. e \in Nat /\ f \in Nat
      OBVIOUS
    <3>2. Below(ids, e) \in SUBSET Below(ids, f)
      <4>1. \A j \in ids : j \in Nat /\ (j < e => j < f)
        BY <3>1
      <4> QED
        BY <4>1 DEF Below
    <3>3. e \in Below(ids, f) /\ e \notin Below(ids, e)
      BY <3>1 DEF Below
    <3>4. IsFiniteSet(Below(ids, f))
      BY FS_Subset DEF Below
    <3> QED
      BY <3>2, <3>3, <3>4, FS_Subset
  <2>6. ~(x < id) /\ ~(id < x) /\ x \in Nat
    BY <2>2, <2>4, <2>5
  <2>7. x = id
    BY <2>1, <2>6
  <2> QED
    BY <2>3, <2>4, <2>7
<1> QED
  BY <1>1, <1>2, <1>3, <1>4, <1>5, <1>6

Run == [input : Nat, outcome : Outcome]
ChildState == Outcome \cup {"running", "collected", "empty"}

CombTypeOK ==
  /\ kind \in CombKind /\ limit \in Nat /\ depth \in Nat /\ usage \in Nat /\ target \in Int
  /\ combPhase \in {"start", "run", "route", "routed", "spawning", "children", "returned", "panicked"}
  /\ runs \in Seq(Run) /\ children \in Seq(ChildId)
  /\ childRun \in [DOMAIN children -> ChildState]

AllResponses == \A i \in DOMAIN runs : runs[i].outcome = "response"
MaySpawn == kind = "spawn" /\ (depth < DepthLimit \/ DepthLimit = 0)

\* What has run when a run is at a place.
CombProgress ==
  /\ combPhase \in {"start", "route", "routed"} => runs = <<>>
  /\ combPhase = "start" => usage = 0
  /\ combPhase = "run" /\ kind \notin {"sequence", "loop"} => runs = <<>>
  /\ combPhase = "run" => kind \in {"sequence", "loop", "conditional", "spawn"}
  /\ combPhase = "run" /\ kind \in {"sequence", "loop"} =>
       /\ AllResponses /\ usage = Len(runs)
       /\ limit > 0 => Len(runs) <= limit
       /\ kind = "sequence" => limit > 0
  /\ combPhase \in {"route", "routed"} => kind = "router"
  /\ combPhase = "routed" => target \in 1..limit
  /\ combPhase \in {"run", "spawning", "children"} /\ kind = "spawn" => MaySpawn
  /\ combPhase \in {"spawning", "children"} => kind = "spawn" /\ Len(runs) <= 1
  /\ combPhase = "spawning" => \A i \in DOMAIN runs : runs[i].outcome \in {"response", "nil"}
  /\ combPhase = "children" => AllResponses

IsRead(i) == childRun[i] \in {"collected", "empty"}

\* An answer is kept of every child that was read, by the child's ID.
Gathering ==
  /\ children # <<>> => combPhase \in {"children", "returned"} /\ MaySpawn /\ AllResponses
  /\ \A id \in DOMAIN gathered :
       gathered[id] \in DOMAIN children /\ children[gathered[id]] = id /\ IsRead(gathered[id])
  /\ \A i \in DOMAIN children : IsRead(i) => children[i] \in DOMAIN gathered

CombIInv == CombTypeOK /\ CombProgress /\ Gathering /\ BuiltOnResponses

\* BuiltOnResponses, part by part.
Linked == \A i \in DOMAIN runs : i > 1 => runs[i - 1].outcome = "response" /\ runs[i].input = i - 1

\* The messages of a spawn, given that all children were read.
Answered(ms) ==
  /\ \A k \in DOMAIN ms : ms[k] \in DOMAIN children /\ childRun[ms[k]] = "collected"
  /\ \A k, l \in DOMAIN ms : k < l => children[ms[k]] < children[ms[l]]
  /\ \A i \in DOMAIN children :
       \/ \E k \in DOMAIN ms : children[ms[k]] = children[i]
       \/ \E j \in DOMAIN children : children[j] = children[i] /\ childRun[j] = "empty"

Delivered ==
  combPhase = "returned" /\ result.ok =>
    /\ \A i \in DOMAIN runs : runs[i].outcome \in {"response", "nil"}
    /\ kind \in {"sequence", "loop"} =>
         result.usage = Cardinality({i \in DOMAIN runs : runs[i].outcome = "response"})
    /\ kind = "sequence" => Len(runs) = limit
    /\ kind = "router" => target \in 1..limit /\ Len(runs) = 1 /\ result.usage = usage + 1
    /\ kind = "loop" /\ limit > 0 => Len(runs) <= limit
    /\ kind = "spawn" /\ children # <<>> =>
         /\ \A i \in DOMAIN children : IsRead(i)
         /\ Answered(result.messages)

Spawnable == children # <<>> => (depth < DepthLimit \/ DepthLimit = 0) /\ AllResponses

LEMMA BuiltParts == BuiltOnResponses <=> Linked /\ Delivered /\ Spawnable
<1>1. AllResponses <=> {i \in DOMAIN runs : runs[i].outcome = "response"} = DOMAIN runs
  BY DEF AllResponses
<1>2. Linked <=> \A i \in DOMAIN runs : i > 1 => runs[i - 1].outcome = "response" /\ runs[i].input = i - 1
  BY DEF Linked
<1>3. Delivered <=>
        (combPhase = "returned" /\ result.ok =>
           /\ \A i \in DOMAIN runs : runs[i].outcome \in {"response", "nil"}
           /\ kind \in {"sequence", "loop"} =>
                result.usage = Cardinality({i \in DOMAIN runs : runs[i].outcome = "response"})
           /\ kind = "sequence" => Len(runs) = limit
           /\ kind = "router" => target \in 1..limit /\ Len(runs) = 1 /\ result.usage = usage + 1
           /\ kind = "loop" /\ limit > 0 => Len(runs) <= limit
           /\ kind = "spawn" /\ children # <<>> =>
                /\ \A i \in DOMAIN children : childRun[i] \in {"collected", "empty"}
                /\ Answered(result.messages))
  BY DEF Delivered, IsRead
<1> QED
  BY <1>1, <1>2, <1>3 DEF BuiltOnResponses, Spawnable, Answered

LEMMA CombParts ==
  ASSUME CombTypeOK, CombProgress, Gathering, Linked, Delivered
  PROVE  CombIInv
  BY BuiltParts DEF CombIInv, Gathering, MaySpawn, Spawnable

LEMMA CombInitIInv == CombInit => CombIInv
<1> SUFFICES ASSUME CombInit
             PROVE  CombIInv
  OBVIOUS
<1>1. limit \in Nat /\ depth \in Nat
  BY CombAssumption DEF CombInit
<1>2. runs = <<>> /\ children = <<>> /\ childRun = <<>> /\ gathered = <<>> /\ combPhase = "start"
      /\ usage = 0 /\ target = 0 /\ kind \in CombKind
  BY DEF CombInit
<1>3. runs \in Seq(Run) /\ children \in Seq(ChildId) /\ DOMAIN children = {} /\ DOMAIN gathered = {}
      /\ DOMAIN childRun = {} /\ DOMAIN runs = {}
  BY <1>2
<1>4. childRun \in [DOMAIN children -> ChildState]
  BY <1>2, <1>3
<1>5. CombTypeOK
  BY <1>1, <1>2, <1>3, <1>4 DEF CombTypeOK
<1> QED
  BY <1>2, <1>3, <1>5, CombParts DEF CombProgress, Gathering, Linked, Delivered

\* One more run.
LEMMA RunAppended ==
  ASSUME runs \in Seq(Run), NEW o \in Outcome, NEW input \in Nat,
         runs' = Append(runs, [input |-> input, outcome |-> o])
  PROVE  /\ runs' \in Seq(Run) /\ Len(runs') = Len(runs) + 1 /\ Len(runs) \in Nat
         /\ \A i \in DOMAIN runs' : i \in DOMAIN runs \/ i = Len(runs) + 1
         /\ \A i \in DOMAIN runs : runs'[i] = runs[i]
         /\ runs'[Len(runs) + 1].outcome = o /\ runs'[Len(runs) + 1].input = input
<1>1. PICK r \in Run : r = [input |-> input, outcome |-> o]
  BY DEF Run
<1>2. r.input = input /\ r.outcome = o
  BY <1>1
<1>3. PICK n \in Nat : n = Len(runs)
  OBVIOUS
<1>4. runs' = Append(runs, r)
  BY <1>1
<1>5. runs' \in Seq(Run) /\ Len(runs') = n + 1 /\ runs'[n + 1] = r /\ \A i \in 1..n : runs'[i] = runs[i]
  BY <1>3, <1>4
<1>6. DOMAIN runs = 1..n /\ DOMAIN runs' = 1..n + 1
  BY <1>3, <1>5
<1>7. \A i \in 1..n + 1 : i \in 1..n \/ i = n + 1
  OBVIOUS
<1> QED
  BY <1>2, <1>3, <1>5, <1>6, <1>7

\* A step that starts no run and touches no child.
LEMMA QuietCombStep ==
  ASSUME CombIInv, UNCHANGED <<kind, limit, depth, runs, children, childRun, gathered>>,
         usage' \in Nat, target' \in Int,
         combPhase' \in {"start", "run", "route", "routed", "spawning", "children", "returned", "panicked"},
         CombProgress', Delivered', children # <<>> => combPhase' \in {"children", "returned"}
  PROVE  CombIInv'
<1>1. CombTypeOK'
  BY DEF CombIInv, CombTypeOK
<1>2. Gathering'
  BY DEF CombIInv, Gathering, MaySpawn, AllResponses, IsRead
<1>3. Linked'
  BY BuiltParts DEF CombIInv, Linked
<1>4. Spawnable'
  BY BuiltParts DEF CombIInv, Spawnable, AllResponses
<1>5. BuiltOnResponses'
  BY <1>3, <1>4, BuiltParts, PTL
<1> QED
  BY <1>1, <1>2, <1>5 DEF CombIInv

\* An error, or a refusal, comes back.
LEMMA FailedComb ==
  ASSUME CombIInv, UNCHANGED <<kind, limit, depth, runs, children, childRun, gathered>>,
         usage' \in Nat, target' \in Int, Returns(Failed)
  PROVE  CombIInv'
<1>1. combPhase' = "returned" /\ result'.ok = FALSE
  BY DEF Returns, Failed
<1>2. CombProgress' /\ Delivered'
  BY <1>1 DEF CombProgress, Delivered
<1> QED
  BY <1>1, <1>2, QuietCombStep

\* A step of a sequence or a turn of a loop.
LEMMA TurnKeepsComb ==
  ASSUME CombIInv, RunTurn
  PROVE  CombIInv'
<1>0. CombTypeOK /\ CombProgress /\ Gathering /\ Linked /\ Delivered
  BY BuiltParts DEF CombIInv
<1>1. /\ combPhase = "run" /\ kind \in {"sequence", "loop"} /\ MoreTurns
      /\ UNCHANGED <<kind, limit, depth, target, children, childRun, gathered>>
  BY DEF RunTurn, Turn
<1>2. PICK o \in Outcome :
        /\ runs' = Append(runs, [input |-> LastOutput, outcome |-> o])
        /\ IF o = "response" THEN usage' = usage + 1 /\ UNCHANGED <<combPhase, result>>
           ELSE Returns(Failed) /\ UNCHANGED usage
  BY DEF RunTurn
<1>3. PICK n \in Nat : n = Len(runs) /\ DOMAIN runs = 1..n
  BY <1>0 DEF CombTypeOK
<1>4. AllResponses /\ usage = n /\ (limit > 0 => n <= limit) /\ (kind = "sequence" => limit > 0)
  BY <1>0, <1>1, <1>3 DEF CombProgress
<1>5. LastOutput = n
  BY <1>3 DEF LastOutput
<1>6. /\ runs' \in Seq(Run) /\ Len(runs') = n + 1
      /\ \A i \in DOMAIN runs' : i \in DOMAIN runs \/ i = n + 1
      /\ \A i \in DOMAIN runs : runs'[i] = runs[i]
      /\ runs'[n + 1].outcome = o /\ runs'[n + 1].input = n
  BY <1>0, <1>2, <1>3, <1>5, RunAppended DEF CombTypeOK
<1>7. Linked'
  <2> SUFFICES ASSUME NEW i \in DOMAIN runs', i > 1
               PROVE  runs'[i - 1].outcome = "response" /\ runs'[i].input = i - 1
    BY DEF Linked
  <2>1. CASE i \in DOMAIN runs
    <3>1. i - 1 \in DOMAIN runs
      BY <1>3, <2>1
    <3> QED
      BY <1>0, <1>6, <2>1, <3>1 DEF Linked
  <2>2. CASE i = n + 1
    <3>1. i - 1 \in DOMAIN runs /\ i - 1 = n
      BY <1>3, <2>2
    <3> QED
      BY <1>4, <1>6, <2>2, <3>1 DEF AllResponses
  <2> QED
    BY <1>6, <2>1, <2>2
<1>8. Gathering'
  BY <1>0, <1>1 DEF Gathering, CombTypeOK
<1>9. CASE o = "response"
  <2>1. usage' = n + 1 /\ combPhase' = "run"
    BY <1>1, <1>2, <1>4, <1>9
  <2>2. CombTypeOK'
    BY <1>0, <1>1, <1>6, <2>1 DEF CombTypeOK
  <2>3. AllResponses'
    BY <1>4, <1>6, <1>9 DEF AllResponses
  <2>4. limit \in Nat /\ (limit > 0 => n + 1 <= limit)
    BY <1>0, <1>1, <1>3 DEF MoreTurns, CombTypeOK
  <2>5. CombProgress'
    BY <1>1, <1>4, <1>6, <2>1, <2>3, <2>4 DEF CombProgress
  <2>6. Delivered'
    BY <2>1 DEF Delivered
  <2> QED
    BY <1>7, <1>8, <2>2, <2>5, <2>6, CombParts, PTL
<1>10. CASE o # "response"
  <2>1. combPhase' = "returned" /\ result'.ok = FALSE /\ usage' = usage
    BY <1>2, <1>10 DEF Returns, Failed
  <2>2. CombTypeOK'
    BY <1>0, <1>1, <1>6, <2>1 DEF CombTypeOK
  <2>3. CombProgress' /\ Delivered'
    BY <2>1 DEF CombProgress, Delivered
  <2> QED
    BY <1>7, <1>8, <2>2, <2>3, CombParts, PTL
<1> QED
  BY <1>9, <1>10

LEMMA EndTurnsKeepsComb ==
  ASSUME CombIInv, EndTurns
  PROVE  CombIInv'
<1>0. CombTypeOK /\ CombProgress
  BY DEF CombIInv
<1>1. /\ combPhase = "run" /\ kind \in {"sequence", "loop"} /\ runs # <<>> /\ (~MoreTurns \/ kind = "loop")
      /\ UNCHANGED <<kind, limit, depth, runs, usage, target, children, childRun, gathered>>
      /\ combPhase' = "returned" /\ result' = Reply(<<LastOutput>>, usage)
  BY DEF EndTurns, Turn, Returns
<1>2. PICK n \in Nat : n = Len(runs) /\ DOMAIN runs = 1..n
  BY <1>0 DEF CombTypeOK
<1>3. AllResponses /\ usage = n /\ (limit > 0 => n <= limit) /\ (kind = "sequence" => limit > 0)
  BY <1>0, <1>1, <1>2 DEF CombProgress
<1>4. {i \in DOMAIN runs : runs[i].outcome = "response"} = 1..n
  BY <1>2, <1>3 DEF AllResponses
<1>5. Cardinality(1..n) = n
  <2>1. \A a, b \in Int : Cardinality(a..b) = IF a > b THEN 0 ELSE b - a + 1
    BY FS_Interval
  <2>2. Cardinality(1..n) = IF 1 > n THEN 0 ELSE n - 1 + 1
    BY <2>1
  <2> QED
    BY <2>2
<1>6. result'.usage = n
  BY <1>1, <1>3 DEF Reply
<1>7. kind = "sequence" => n = limit
  BY <1>0, <1>1, <1>2, <1>3 DEF MoreTurns, CombTypeOK
<1>8. Delivered'
  BY <1>1, <1>2, <1>3, <1>4, <1>5, <1>6, <1>7 DEF Delivered, AllResponses
<1>9. CombProgress'
  BY <1>1 DEF CombProgress
<1> QED
  BY <1>0, <1>1, <1>8, <1>9, QuietCombStep DEF CombTypeOK

LEMMA StartKeepsComb ==
  ASSUME CombIInv, StartRuns
  PROVE  CombIInv'
<1>0. CombTypeOK /\ CombProgress /\ Gathering
  BY DEF CombIInv
<1>1. combPhase = "start" /\ UNCHANGED <<kind, limit, depth, runs, usage, target, children, childRun, gathered>>
  BY DEF StartRuns
<1>2. runs = <<>> /\ children = <<>> /\ DOMAIN runs = {} /\ Len(runs) = 0
  BY <1>0, <1>1 DEF CombProgress, Gathering
<1>3. CASE (kind = "loop" \/ (kind = "sequence" /\ limit = 0)) /\ Returns(Reply(<<0>>, 0))
  <2>1. combPhase' = "returned" /\ result'.usage = 0
    BY <1>3 DEF Returns, Reply
  <2>2. {i \in DOMAIN runs : runs[i].outcome = "response"} = {}
    BY <1>2
  <2>3. Cardinality({}) = 0
    BY FS_EmptySet
  <2>4. limit \in Nat
    BY <1>0 DEF CombTypeOK
  <2>5. Delivered'
    BY <1>1, <1>2, <1>3, <2>1, <2>2, <2>3, <2>4 DEF Delivered
  <2>6. CombProgress'
    BY <2>1 DEF CombProgress
  <2> QED
    BY <1>0, <1>1, <2>1, <2>5, <2>6, QuietCombStep DEF CombTypeOK
<1>4. CASE Returns(Failed)
  BY <1>0, <1>1, <1>4, FailedComb DEF CombTypeOK
<1>5. CASE /\ \/ combPhase' = "run" /\ kind = "sequence" /\ limit > 0
              \/ combPhase' = "run" /\ kind \in {"loop", "conditional"}
              \/ combPhase' = "route" /\ kind = "router"
              \/ combPhase' \in {"run", "spawning"} /\ kind = "spawn" /\ ~(DepthLimit > 0 /\ depth >= DepthLimit)
           /\ UNCHANGED result
  <2>1. Delivered'
    BY <1>5 DEF Delivered
  <2>2. kind = "spawn" => MaySpawn
    BY <1>0, <1>5, CombAssumption DEF MaySpawn, CombTypeOK
  <2>3. usage = 0 /\ AllResponses
    BY <1>0, <1>1, <1>2 DEF CombProgress, AllResponses
  <2>4. CombProgress'
    BY <1>0, <1>1, <1>2, <1>5, <2>2, <2>3 DEF CombProgress, AllResponses, MaySpawn, CombTypeOK
  <2> QED
    BY <1>0, <1>1, <1>2, <1>5, <2>1, <2>4, QuietCombStep DEF CombTypeOK
<1> QED
  BY <1>3, <1>4, <1>5 DEF StartRuns

\* One run that starts alone, by a conditional, a router or a spawn.
LEMMA SingleRun ==
  ASSUME CombIInv, runs = <<>>, children = <<>>, NEW o \in Outcome, runs' = Append(runs, [input |-> 0, outcome |-> o]),
         UNCHANGED <<kind, limit, depth, usage, children, childRun, gathered>>, target' \in Int,
         combPhase' = "returned" \/ (combPhase' = "spawning" /\ kind = "spawn" /\ o \in {"response", "nil"} /\ MaySpawn),
         combPhase' = "returned" /\ result'.ok =>
           /\ o \in {"response", "nil"} /\ kind \in {"conditional", "router"}
           /\ kind = "router" => target' \in 1..limit /\ result'.usage = usage + 1
  PROVE  CombIInv'
<1>0. CombTypeOK /\ CombProgress /\ Gathering
  BY DEF CombIInv
<1>1. /\ runs' \in Seq(Run) /\ Len(runs') = Len(runs) + 1
      /\ \A i \in DOMAIN runs' : i \in DOMAIN runs \/ i = Len(runs) + 1
      /\ runs'[Len(runs) + 1].outcome = o
  BY <1>0, RunAppended DEF CombTypeOK
<1>2. Len(runs) = 0 /\ DOMAIN runs = {}
  OBVIOUS
<1>3. runs' \in Seq(Run) /\ Len(runs') = 1 /\ (\A i \in DOMAIN runs' : i = 1) /\ runs'[1].outcome = o
  BY <1>1, <1>2
<1>4. CombTypeOK'
  BY <1>0, <1>3 DEF CombTypeOK
<1>5. Gathering'
  <2>1. children' = <<>> /\ DOMAIN children' = {}
    OBVIOUS
  <2> QED
    BY <1>0, <2>1 DEF Gathering
<1>6. Linked'
  BY <1>3 DEF Linked
<1>7. CombProgress'
  BY <1>3 DEF CombProgress, AllResponses, MaySpawn
<1>8. Delivered'
  BY <1>3 DEF Delivered
<1> QED
  BY <1>4, <1>5, <1>6, <1>7, <1>8, CombParts, PTL

LEMMA ConditionalKeepsComb ==
  ASSUME CombIInv, RunConditional
  PROVE  CombIInv'
<1>0. CombTypeOK /\ CombProgress /\ Gathering
  BY DEF CombIInv
<1>1. PICK o \in Outcome :
        /\ runs' = Append(runs, [input |-> 0, outcome |-> o])
        /\ IF o \in {"error", "suspended"} THEN Returns(Failed) /\ UNCHANGED target
           ELSE /\ \E b \in 0..2 : target' = b
                /\ Returns(IF o = "nil" THEN Reply(<<>>, 0) ELSE Reply(<<1>>, 1))
  BY DEF RunConditional
<1>2. runs = <<>> /\ children = <<>> /\ kind = "conditional" /\ UNCHANGED <<kind, limit, depth, usage, children, childRun, gathered>>
  BY <1>0 DEF RunConditional, CombProgress, Gathering
<1>3. combPhase' = "returned" /\ target' \in Int
  BY <1>0, <1>1 DEF Returns, CombTypeOK
<1>4. result'.ok => o \in {"response", "nil"}
  BY <1>1 DEF Returns, Failed, Outcome
<1> QED
  BY <1>1, <1>2, <1>3, <1>4, SingleRun

LEMMA RouteKeepsComb ==
  ASSUME CombIInv, Route
  PROVE  CombIInv'
<1>0. CombTypeOK /\ CombProgress /\ Gathering
  BY DEF CombIInv
<1>1. combPhase = "route" /\ UNCHANGED <<kind, limit, depth, runs, children, childRun, gathered>>
  BY DEF Route
<1>2. CASE Returns(Failed) /\ UNCHANGED <<target, usage>>
  BY <1>0, <1>1, <1>2, FailedComb DEF CombTypeOK
<1>3. CASE \E index, fallback \in -1..limit, cost \in 0..1 :
             LET c == Chosen(index, fallback) IN
             /\ c # {} /\ target' = 1 + (CHOOSE i \in c : TRUE) /\ usage' = cost
             /\ combPhase' = "routed" /\ UNCHANGED result
  <2>1. PICK index \in -1..limit, fallback \in -1..limit, cost \in 0..1 :
          LET c == Chosen(index, fallback) IN
          /\ c # {} /\ target' = 1 + (CHOOSE i \in c : TRUE) /\ usage' = cost
          /\ combPhase' = "routed" /\ UNCHANGED result
    BY <1>3
  <2>2. PICK c : c = Chosen(index, fallback)
    OBVIOUS
  <2>3. c \subseteq 0..(limit - 1)
    BY <2>2 DEF Chosen
  <2>4. PICK i : i = CHOOSE j \in c : TRUE
    OBVIOUS
  <2>5. i \in c /\ target' = 1 + i
    BY <2>1, <2>2, <2>4
  <2>6. limit \in Nat /\ i \in 0..(limit - 1)
    BY <1>0, <2>3, <2>5 DEF CombTypeOK
  <2>7. target' \in 1..limit /\ target' \in Int /\ usage' \in Nat /\ combPhase' = "routed"
    BY <2>1, <2>5, <2>6
  <2>8. CombProgress'
    BY <1>0, <1>1, <2>7 DEF CombProgress
  <2>9. Delivered'
    BY <2>7 DEF Delivered
  <2>10. children = <<>>
    BY <1>0, <1>1 DEF Gathering
  <2> QED
    BY <1>1, <2>7, <2>8, <2>9, <2>10, QuietCombStep
<1>4. CASE \E index, fallback \in -1..limit, cost \in 0..1 :
             Chosen(index, fallback) = {} /\ Returns(Failed) /\ UNCHANGED <<target, usage>>
  BY <1>2, <1>4
<1> QED
  BY <1>2, <1>3, <1>4 DEF Route

LEMMA RunRouteKeepsComb ==
  ASSUME CombIInv, RunRoute
  PROVE  CombIInv'
<1>0. CombTypeOK /\ CombProgress /\ Gathering
  BY DEF CombIInv
<1>1. PICK o \in Outcome :
        /\ runs' = Append(runs, [input |-> 0, outcome |-> o])
        /\ Returns(IF o = "response" THEN Reply(<<1>>, usage + 1) ELSE Failed)
  BY DEF RunRoute
<1>2. /\ combPhase = "routed" /\ UNCHANGED <<kind, limit, depth, usage, target, children, childRun, gathered>>
  BY DEF RunRoute
<1>3. runs = <<>> /\ children = <<>> /\ kind = "router" /\ target' \in 1..limit /\ target' \in Int
  BY <1>0, <1>2 DEF CombProgress, Gathering, CombTypeOK
<1>4. combPhase' = "returned" /\ (result'.ok => o = "response" /\ result'.usage = usage + 1)
  BY <1>1 DEF Returns, Failed, Reply
<1> QED
  BY <1>1, <1>2, <1>3, <1>4, SingleRun

LEMMA ParentKeepsComb ==
  ASSUME CombIInv, RunParent
  PROVE  CombIInv'
<1>0. CombTypeOK /\ CombProgress /\ Gathering
  BY DEF CombIInv
<1>1. PICK o \in Outcome :
        /\ runs' = Append(runs, [input |-> 0, outcome |-> o])
        /\ IF o \in {"response", "nil"} THEN combPhase' = "spawning" /\ UNCHANGED result ELSE Returns(Failed)
  BY DEF RunParent
<1>2. /\ combPhase = "run" /\ kind = "spawn"
      /\ UNCHANGED <<kind, limit, depth, usage, target, children, childRun, gathered>>
  BY DEF RunParent
<1>3. runs = <<>> /\ children = <<>> /\ MaySpawn /\ target' \in Int
  BY <1>0, <1>2 DEF CombProgress, Gathering, CombTypeOK
<1>4. \/ combPhase' = "returned" /\ ~result'.ok
      \/ combPhase' = "spawning" /\ o \in {"response", "nil"}
  BY <1>1 DEF Returns, Failed
<1> QED
  BY <1>1, <1>2, <1>3, <1>4, SingleRun

LEMMA SpawnKeepsComb ==
  ASSUME CombIInv, Spawn
  PROVE  CombIInv'
<1>0. CombTypeOK /\ CombProgress /\ Gathering /\ Linked /\ Delivered
  BY BuiltParts DEF CombIInv
<1>1. combPhase = "spawning" /\ UNCHANGED <<kind, limit, depth, runs, usage, target, gathered>>
  BY DEF Spawn
<1>2. /\ children = <<>> /\ kind = "spawn" /\ MaySpawn /\ Len(runs) <= 1
      /\ \A i \in DOMAIN runs : runs[i].outcome \in {"response", "nil"}
  BY <1>0, <1>1 DEF CombProgress, Gathering
<1>3. CASE Returns(Failed) /\ UNCHANGED <<children, childRun>>
  BY <1>0, <1>1, <1>3, FailedComb DEF CombTypeOK
<1>4. CASE Returns(Reply(IF NoOutput THEN <<>> ELSE <<LastOutput>>, 0)) /\ UNCHANGED <<children, childRun>>
  <2>1. combPhase' = "returned"
    BY <1>4 DEF Returns
  <2>2. CombProgress' /\ Delivered'
    BY <1>1, <1>2, <1>4, <2>1 DEF CombProgress, Delivered, AllResponses
  <2> QED
    BY <1>0, <1>1, <1>4, <2>1, <2>2, QuietCombStep DEF CombTypeOK
<1>6. CASE combPhase' = "panicked" /\ UNCHANGED <<result, children, childRun>>
  <2>1. CombProgress' /\ Delivered'
    BY <1>6 DEF CombProgress, Delivered
  <2> QED
    BY <1>0, <1>1, <1>2, <1>6, <2>1, QuietCombStep DEF CombTypeOK
<1>5. CASE /\ ~NoOutput
           /\ \E ids \in BoundedSeq(ChildId, MaxSpawn + 1) :
             /\ combPhase' = "children" /\ children' = ids /\ childRun' = [i \in DOMAIN ids |-> "running"]
  <2>1. PICK ids \in BoundedSeq(ChildId, MaxSpawn + 1) :
          combPhase' = "children" /\ children' = ids /\ childRun' = [i \in DOMAIN ids |-> "running"]
    BY <1>5
  <2>2. ids \in Seq(ChildId)
    <3>1. PICK m \in 0..(MaxSpawn + 1) : ids \in [1..m -> ChildId]
      BY DEF BoundedSeq, SeqOf
    <3>2. m \in Nat
      BY <3>1, CombAssumption
    <3> QED
      BY <3>1, <3>2
  <2>3. childRun' \in [DOMAIN children' -> ChildState] /\ \A i \in DOMAIN children' : childRun'[i] = "running"
    BY <2>1 DEF ChildState
  <2>0. AllResponses
    BY <1>2, <1>5 DEF NoOutput, AllResponses
  <2>4. CombTypeOK'
    BY <1>0, <1>1, <2>1, <2>2, <2>3 DEF CombTypeOK
  <2>5. DOMAIN gathered = {}
    <3>1. DOMAIN children = {}
      BY <1>2
    <3> QED
      BY <1>0, <3>1 DEF Gathering
  <2>6. Gathering'
    BY <1>1, <1>2, <2>0, <2>1, <2>3, <2>5 DEF Gathering, MaySpawn, AllResponses, IsRead
  <2>7. CombProgress'
    BY <1>1, <1>2, <2>0, <2>1 DEF CombProgress, MaySpawn, AllResponses
  <2>8. Linked' /\ Delivered'
    BY <1>0, <1>1, <2>1 DEF Linked, Delivered
  <2> QED
    BY <2>4, <2>6, <2>7, <2>8, CombParts, PTL
<1> QED
  BY <1>3, <1>4, <1>5, <1>6 DEF Spawn

LEMMA EndChildKeepsComb ==
  ASSUME CombIInv, NEW i \in DOMAIN childRun, EndChild(i)
  PROVE  CombIInv'
<1>0. CombTypeOK /\ CombProgress /\ Gathering /\ Linked /\ Delivered
  BY BuiltParts DEF CombIInv
<1>1. childRun[i] = "running"
      /\ UNCHANGED <<kind, limit, depth, combPhase, result, runs, usage, target, children, gathered>>
  BY DEF EndChild
<1>2. PICK o \in Outcome : childRun' = [childRun EXCEPT ![i] = o]
  BY DEF EndChild, Outcome
<1>3. o \notin {"collected", "empty"} /\ o \in ChildState
  BY DEF Outcome, ChildState
<1>4. /\ childRun' \in [DOMAIN children -> ChildState] /\ i \in DOMAIN children
      /\ \A k \in DOMAIN children : IsRead(k)' <=> IsRead(k)
      /\ \A k \in DOMAIN children : IsRead(k) => childRun'[k] = childRun[k]
  BY <1>0, <1>1, <1>2, <1>3 DEF CombTypeOK, IsRead
<1>5. CombTypeOK'
  BY <1>0, <1>1, <1>4 DEF CombTypeOK
<1>6. Gathering'
  <2>1. \A id \in DOMAIN gathered :
          gathered[id] \in DOMAIN children /\ children[gathered[id]] = id /\ IsRead(gathered[id])'
    BY <1>0, <1>1, <1>4 DEF Gathering, IsRead
  <2>2. \A k \in DOMAIN children : IsRead(k)' => children[k] \in DOMAIN gathered
    BY <1>0, <1>4 DEF Gathering
  <2> QED
    BY <1>0, <1>1, <2>1, <2>2 DEF Gathering, MaySpawn, AllResponses, IsRead
<1>7. CombProgress' /\ Linked'
  BY <1>0, <1>1 DEF CombProgress, Linked, AllResponses, MaySpawn
<1>8. Delivered'
  <2>1. ~IsRead(i) /\ kind' = kind /\ (combPhase = "returned" /\ result.ok /\ kind = "spawn" => FALSE)
    <3>1. ~IsRead(i)
      BY <1>1 DEF IsRead
    <3>2. children # <<>>
      BY <1>4
    <3> QED
      BY <1>0, <1>1, <1>4, <3>1, <3>2 DEF Delivered
  <2> QED
    BY <1>0, <1>1, <2>1 DEF Delivered
<1> QED
  BY <1>5, <1>6, <1>7, <1>8, CombParts, PTL

LEMMA CollectKeepsComb ==
  ASSUME CombIInv, NEW i \in DOMAIN childRun, Collect(i)
  PROVE  CombIInv'
<1>0. CombTypeOK /\ CombProgress /\ Gathering /\ Linked /\ Delivered
  BY BuiltParts DEF CombIInv
<1>1. combPhase = "children" /\ UNCHANGED <<kind, limit, depth, runs, usage, target, children>>
  BY DEF Collect
<1>2. CASE Returns(Failed) /\ UNCHANGED <<childRun, gathered>>
  BY <1>0, <1>1, <1>2, FailedComb DEF CombTypeOK
<1>3. CASE /\ gathered' = [id \in DOMAIN gathered \cup {children[i]} |->
                             IF id = children[i] THEN i ELSE gathered[id]]
           /\ childRun' = [childRun EXCEPT ![i] = IF @ = "nil" THEN "empty" ELSE "collected"]
           /\ UNCHANGED <<combPhase, result>>
  <2>1. i \in DOMAIN children /\ childRun \in [DOMAIN children -> ChildState]
    BY <1>0 DEF CombTypeOK
  <2>2. /\ childRun' \in [DOMAIN children -> ChildState]
        /\ \A k \in DOMAIN children : k # i => childRun'[k] = childRun[k]
        /\ childRun'[i] \in {"collected", "empty"}
    BY <1>3, <2>1 DEF ChildState
  <2>3. CombTypeOK'
    BY <1>0, <1>1, <1>3, <2>2 DEF CombTypeOK
  <2>4. DOMAIN gathered' = DOMAIN gathered \cup {children[i]}
    BY <1>3
  <2>5. \A id \in DOMAIN gathered' :
          gathered'[id] \in DOMAIN children /\ children[gathered'[id]] = id /\ IsRead(gathered[id])'
    <3>1. SUFFICES ASSUME NEW id \in DOMAIN gathered'
                   PROVE  gathered'[id] \in DOMAIN children /\ children[gathered'[id]] = id /\ IsRead(gathered[id])'
      OBVIOUS
    <3>2. CASE id = children[i]
      <4>1. gathered'[id] = i
        BY <1>3, <3>1, <3>2, <2>4
      <4>2. childRun'[gathered'[id]] \in {"collected", "empty"}
        BY <2>2, <4>1
      <4> QED
        BY <2>1, <3>2, <4>1, <4>2 DEF IsRead
    <3>3. CASE id # children[i]
      <4>1. gathered'[id] = gathered[id] /\ id \in DOMAIN gathered
        BY <1>3, <3>1, <3>3, <2>4
      <4>2. gathered[id] \in DOMAIN children /\ children[gathered[id]] = id /\ gathered[id] # i
            /\ childRun[gathered[id]] \in {"collected", "empty"}
        BY <1>0, <3>3, <4>1 DEF Gathering, IsRead
      <4> QED
        BY <2>2, <4>1, <4>2 DEF IsRead
    <3> QED
      BY <3>2, <3>3
  <2>6. \A k \in DOMAIN children : IsRead(k)' => children[k] \in DOMAIN gathered'
    BY <1>0, <2>2, <2>4 DEF Gathering, IsRead
  <2>7. Gathering'
    BY <1>0, <1>1, <1>3, <2>5, <2>6 DEF Gathering, MaySpawn, AllResponses
  <2>8. CombProgress' /\ Linked'
    BY <1>0, <1>1, <1>3 DEF CombProgress, Linked, AllResponses, MaySpawn
  <2>9. Delivered'
    BY <1>1, <1>3 DEF Delivered
  <2> QED
    BY <2>3, <2>7, <2>8, <2>9, CombParts, PTL
<1> QED
  BY <1>2, <1>3 DEF Collect

\* The answer of a spawn is put together when every child has answered.
LEMMA AggregateKeepsComb ==
  ASSUME CombIInv, Aggregate
  PROVE  CombIInv'
<1>0. CombTypeOK /\ CombProgress /\ Gathering
  BY DEF CombIInv
<1>1. /\ combPhase = "children" /\ \A i \in DOMAIN children : IsRead(i)
      /\ UNCHANGED <<kind, limit, depth, runs, usage, target, children, childRun, gathered>>
      /\ combPhase' = "returned" /\ result' = Reply(Concat, 0)
  BY DEF Aggregate, Returns, IsRead
<1>2. kind = "spawn" /\ AllResponses
  BY <1>0, <1>1 DEF CombProgress
<1>3. PICK ids : ids = {id \in DOMAIN gathered : childRun[gathered[id]] # "empty"}
  OBVIOUS
<1>4. ids \subseteq Range(children)
  BY ZenonT(60), <1>0, <1>1, <1>3 DEF Gathering, Range
<1>5. ids \subseteq Nat /\ IsFiniteSet(ids)
  <2>0. children \in Seq(ChildId) /\ ChildId \subseteq Nat
    BY <1>0, CombAssumption DEF CombTypeOK
  <2>1. PICK n \in Nat : DOMAIN children = 1..n /\ \A i \in 1..n : children[i] \in Nat
    <3>1. Len(children) \in Nat /\ DOMAIN children = 1..Len(children)
      BY <2>0
    <3>2. \A i \in 1..Len(children) : children[i] \in ChildId
      BY <2>0
    <3> QED
      BY <2>0, <3>1, <3>2
  <2>2. \A a, b \in Int : IsFiniteSet(a..b)
    BY FS_Interval
  <2>3. IsFiniteSet(1..n)
    BY <2>2
  <2>4. PICK f : f = [i \in 1..n |-> children[i]]
    OBVIOUS
  <2>5. f \in Surjection(1..n, Range(children))
    BY <2>1, <2>4 DEF Surjection, Range
  <2>6. IsFiniteSet(ids)
    BY <1>4, <2>3, <2>5, FS_Surjection, FS_Subset
  <2> QED
    BY <1>4, <2>1, <2>6 DEF Range
<1>6. PICK s : s = Sorted(ids)
  OBVIOUS
<1>7. PICK n \in Nat : n = Cardinality(ids)
  BY <1>5, FS_CardinalityType
<1>8. /\ DOMAIN s = 1..n /\ (\A k \in 1..n : s[k] \in ids) /\ \A k, l \in 1..n : k < l => s[k] < s[l]
      /\ \A id \in ids : \E k \in 1..n : s[k] = id
  BY <1>5, <1>6, <1>7, SortedInOrder
<1>9. Concat = [k \in 1..n |-> gathered[s[k]]]
  BY <1>3, <1>6, <1>8 DEF Concat
<1>10. PICK ms : ms = Concat
  OBVIOUS
<1>11. /\ DOMAIN ms = 1..n
       /\ \A k \in 1..n : ms[k] \in DOMAIN children /\ children[ms[k]] = s[k] /\ childRun[ms[k]] = "collected"
  BY <1>0, <1>3, <1>8, <1>9, <1>10 DEF Gathering, IsRead
<1>12. \A i \in DOMAIN children :
         \/ \E k \in DOMAIN ms : children[ms[k]] = children[i]
         \/ \E j \in DOMAIN children : children[j] = children[i] /\ childRun[j] = "empty"
  <2>1. SUFFICES ASSUME NEW i \in DOMAIN children,
                        \A j \in DOMAIN children : children[j] = children[i] => childRun[j] # "empty"
                 PROVE  \E k \in DOMAIN ms : children[ms[k]] = children[i]
    BY <2>1
  <2>2. children[i] \in DOMAIN gathered
    BY <1>0, <1>1, <2>1 DEF Gathering
  <2>3. children[i] \in ids
    BY <1>0, <1>3, <2>1, <2>2 DEF Gathering
  <2>4. \E k \in 1..n : s[k] = children[i]
    BY <1>8, <2>3
  <2> QED
    BY <1>11, <2>4
<1>13. result'.messages = ms
  BY <1>1, <1>10 DEF Reply
<1>14. \A k, l \in DOMAIN ms : k < l => children[ms[k]] < children[ms[l]]
  BY <1>8, <1>11
<1>15. Delivered'
  <2>1. Answered(ms)
    BY <1>11, <1>12, <1>14 DEF Answered
  <2>2. Answered(result.messages)'
    BY <1>1, <1>13, <2>1 DEF Answered
  <2>3. \A i \in DOMAIN children' : IsRead(i)'
    BY <1>1 DEF IsRead
  <2> QED
    BY <1>1, <1>2, <2>2, <2>3 DEF Delivered, AllResponses
<1>16. CombProgress'
  BY <1>1 DEF CombProgress
<1> QED
  BY <1>0, <1>1, <1>15, <1>16, QuietCombStep DEF CombTypeOK

\* Whatever the number and the outcomes of the runs and however children end:
\* a sequence, a loop, a router, a conditional and a spawn return what
\* responses alone made, and nothing after a failure or a suspension.
THEOREM ResultsBuiltOnResponses == CombSpec => []BuiltOnResponses
<1>1. CombIInv /\ [CombStep]_combVars => CombIInv'
  <2> SUFFICES ASSUME CombIInv, [CombStep]_combVars
               PROVE  CombIInv'
    OBVIOUS
  <2>1. CASE StartRuns
    BY <2>1, StartKeepsComb
  <2>2. CASE RunTurn
    BY <2>2, TurnKeepsComb
  <2>3. CASE TurnCancelled
    BY <2>3, FailedComb DEF TurnCancelled, CombIInv, CombTypeOK
  <2>4. CASE EndTurns
    BY <2>4, EndTurnsKeepsComb
  <2>5. CASE RunConditional
    BY <2>5, ConditionalKeepsComb
  <2>6. CASE Route
    BY <2>6, RouteKeepsComb
  <2>7. CASE RunRoute
    BY <2>7, RunRouteKeepsComb
  <2>8. CASE RunParent
    BY <2>8, ParentKeepsComb
  <2>9. CASE Spawn
    BY <2>9, SpawnKeepsComb
  <2>10. CASE \E i \in DOMAIN childRun : EndChild(i) \/ Collect(i)
    BY <2>10, EndChildKeepsComb, CollectKeepsComb
  <2>11. CASE Aggregate
    BY <2>11, AggregateKeepsComb
  <2>12. CASE UNCHANGED combVars
    <3>1. CombTypeOK /\ CombProgress /\ Gathering /\ Linked /\ Delivered
      BY BuiltParts DEF CombIInv
    <3>2. CombTypeOK' /\ CombProgress'
      BY <2>12, <3>1 DEF combVars, CombTypeOK, CombProgress, AllResponses, MaySpawn
    <3>3. Gathering' /\ Linked' /\ Delivered'
      BY <2>12, <3>1 DEF combVars, Gathering, Linked, Delivered, MaySpawn, AllResponses, IsRead, Answered
    <3> QED
      BY <3>2, <3>3, CombParts, PTL
  <2> QED
    BY <2>1, <2>2, <2>3, <2>4, <2>5, <2>6, <2>7, <2>8, <2>9, <2>10, <2>11, <2>12 DEF CombStep
<1>2. CombIInv => BuiltOnResponses
  BY DEF CombIInv
<1> QED
  BY <1>1, <1>2, CombInitIInv, PTL DEF CombSpec

---------------------------------------------------------------------------
(* Evaluators and batches (Evaluation) *)

\* What holds at 0 and is kept from each k to k + 1 holds up to n.
LEMMA Steps ==
  ASSUME NEW n \in Nat, NEW S, 0 \in S, \A k \in Nat : k < n /\ k \in S => k + 1 \in S
  PROVE  0..n \subseteq S
<1> DEFINE missing == {k \in Nat : k <= n /\ k \notin S}
<1> SUFFICES ASSUME missing # {}
             PROVE  FALSE
  OBVIOUS
<1>1. PICK m : m = Min(missing)
  OBVIOUS
<1>2. m \in missing /\ \A k \in missing : m <= k
  BY <1>1, LeastNumber
<1>3. m \in Nat /\ m <= n /\ m \notin S /\ m # 0
  BY <1>2
<1>4. m - 1 \in Nat /\ m - 1 < n /\ (m - 1) + 1 = m
  BY <1>3
<1>5. m - 1 \notin missing
  BY <1>2, <1>3, <1>4
<1>6. m - 1 \in S
  BY <1>4, <1>5
<1> QED
  BY <1>3, <1>4, <1>6

\* A function over 0..n defined by its first value and its step.
LEMMA Recursion ==
  ASSUME NEW n \in Nat, NEW first \in Nat, NEW step \in [(1..n) \X Nat -> Nat]
  PROVE  \E f \in [0..n -> Nat] : f[0] = first /\ \A i \in 1..n : f[i] = step[i, f[i - 1]]
<1> DEFINE Upto(k, f) == f[0] = first /\ \A i \in 1..k : f[i] = step[i, f[i - 1]]
           S == {k \in Nat : \E f \in [0..k -> Nat] : Upto(k, f)}
<1>1. 0 \in S
  <2>1. [i \in 0..0 |-> first] \in [0..0 -> Nat] /\ Upto(0, [i \in 0..0 |-> first])
    OBVIOUS
  <2> QED
    BY <2>1
<1>2. ASSUME NEW k \in Nat, k < n, k \in S
      PROVE  k + 1 \in S
  <2>0. k < n
    BY <1>2, Zenon
  <2>1. PICK f \in [0..k -> Nat] : Upto(k, f)
    BY <1>2
  <2>2. PICK v : v = step[k + 1, f[k]]
    OBVIOUS
  <2>3. v \in Nat
    <3>1. k + 1 \in 1..n /\ k \in 0..k
      BY <2>0
    <3>2. f[k] \in Nat
      BY <3>1
    <3>3. <<k + 1, f[k]>> \in (1..n) \X Nat
      BY <3>1, <3>2
    <3> QED
      BY <2>2, <3>3
  <2>4. PICK g : g = [i \in 0..(k + 1) |-> IF i = k + 1 THEN v ELSE f[i]]
    OBVIOUS
  <2>5. g \in [0..(k + 1) -> Nat]
    BY <2>3, <2>4
  <2>6. \A i \in 0..k : g[i] = f[i]
    BY <2>4
  <2>7. g[k + 1] = v
    BY <2>4
  <2>8. g[0] = first
    <3>1. 0 \in 0..k
      OBVIOUS
    <3> QED
      BY <2>1, <2>6, <3>1
  <2>9. ASSUME NEW i \in 1..(k + 1)
        PROVE  g[i] = step[i, g[i - 1]]
    <3>1. CASE i = k + 1
      <4>1. i - 1 = k /\ k \in 0..k
        BY <3>1
      <4>2. g[i - 1] = f[k]
        BY <2>6, <4>1
      <4> QED
        BY <2>2, <2>7, <3>1, <4>2
    <3>2. CASE i # k + 1
      <4>1. i \in 1..k /\ i \in 0..k /\ i - 1 \in 0..k
        BY <3>2
      <4> QED
        BY <2>1, <2>6, <4>1
    <3> QED
      BY <3>1, <3>2
  <2>10. PICK m : m = k + 1
    OBVIOUS
  <2>11. m \in Nat /\ g \in [0..m -> Nat] /\ Upto(m, g)
    <3>1. m \in Nat /\ g \in [0..m -> Nat]
      BY <2>5, <2>10
    <3>2. \A i \in 1..m : g[i] = step[i, g[i - 1]]
      BY <2>9, <2>10
    <3> QED
      BY <2>8, <3>1, <3>2
  <2> HIDE DEF Upto
  <2>12. m \in S
    BY <2>11
  <2> QED
    BY <2>10, <2>12
<1> HIDE DEF S
<1>3. 0..n \subseteq S
  BY <1>1, <1>2, Steps
<1>4. n \in S
  BY <1>3
<1> QED
  BY <1>4 DEF S

\* The positions at which the expected calls are found.
LEMMA Found ==
  ASSUME NEW e \in ToolCalls, NEW a \in ToolCalls
  PROVE  /\ FoundAt(e, a) \in [0..Len(e) -> Nat]
         /\ FoundAt(e, a)[0] = 0
         /\ \A i \in 1..Len(e) :
              LET later == {j \in FoundAt(e, a)[i - 1] + 1 .. Len(a) : a[j].name = e[i].name}
              IN FoundAt(e, a)[i] = IF later = {} THEN Len(a) + 1 ELSE Min(later)
<1> DEFINE n == Len(e)
           Later(i, x) == {j \in x + 1 .. Len(a) : a[j].name = e[i].name}
           Place(i, x) == IF Later(i, x) = {} THEN Len(a) + 1 ELSE Min(Later(i, x))
<1>1. n \in Nat /\ Len(a) \in Nat
  BY DEF ToolCalls
<1>2. ASSUME NEW i \in 1..n, NEW x \in Nat
      PROVE  Place(i, x) \in Nat
  <2>1. Later(i, x) \subseteq Nat
    BY <1>1
  <2>2. Later(i, x) # {} => Min(Later(i, x)) \in Later(i, x)
    BY <2>1, LeastNumber
  <2> QED
    BY <1>1, <2>1, <2>2
<1> HIDE DEF n, Place
<1>3. PICK step : step = [p \in (1..n) \X Nat |-> Place(p[1], p[2])]
  OBVIOUS
<1>4. step \in [(1..n) \X Nat -> Nat]
  BY <1>2, <1>3
<1>5. PICK f \in [0..n -> Nat] : f[0] = 0 /\ \A i \in 1..n : f[i] = step[i, f[i - 1]]
  <2>1. 0 \in Nat
    OBVIOUS
  <2> QED
    BY <1>1, <1>4, <2>1, Recursion, Zenon
<1>6. ASSUME NEW i \in 1..n
      PROVE  f[i] = Place(i, f[i - 1])
  <2>1. f[i - 1] \in Nat
    BY <1>1
  <2>2. <<i, f[i - 1]>> \in (1..n) \X Nat
    BY <2>1
  <2>3. step[i, f[i - 1]] = Place(i, f[i - 1])
    BY <1>3, <2>2
  <2> QED
    BY <1>5, <2>3
<1>7. f = [i \in 0..n |-> IF i = 0 THEN 0 ELSE Place(i, f[i - 1])]
  <2>1. ASSUME NEW i \in 0..n
        PROVE  f[i] = IF i = 0 THEN 0 ELSE Place(i, f[i - 1])
    <3>1. i # 0 => i \in 1..n
      BY <1>1
    <3> QED
      BY <1>5, <1>6, <3>1
  <2>2. f = [i \in 0..n |-> f[i]]
    OBVIOUS
  <2> QED
    BY <2>1, <2>2, Zenon
<1> DEFINE Fits(g) == g = [i \in 0..n |-> IF i = 0 THEN 0 ELSE Place(i, g[i - 1])]
<1>8. PICK places : places = FoundAt(e, a)
  OBVIOUS
<1>9. places = CHOOSE g : Fits(g)
  BY <1>8 DEF FoundAt, n, Place
<1>10. Fits(places)
  BY <1>7, <1>9
<1>11. places[0] = 0 /\ DOMAIN places = 0..n /\ \A i \in 1..n : places[i] = Place(i, places[i - 1])
  BY <1>1, <1>10
<1>12. places \in [0..n -> Nat]
  <2> DEFINE S == {k \in Nat : k <= n => places[k] \in Nat}
  <2>1. 0 \in S
    BY <1>11
  <2>2. ASSUME NEW k \in Nat, k < n, k \in S
        PROVE  k + 1 \in S
    <3>1. k + 1 \in 1..n /\ places[k] \in Nat /\ (k + 1) - 1 = k
      BY <1>1, <2>2
    <3>2. places[k + 1] = Place(k + 1, places[k])
      BY <1>11, <3>1
    <3> QED
      BY <1>2, <3>1, <3>2
  <2> HIDE DEF S
  <2>3. 0..n \subseteq S
    BY <1>1, <2>1, <2>2, Steps
  <2>4. \A k \in 0..n : places[k] \in Nat
    BY <1>1, <2>3 DEF S
  <2>5. places = [k \in 0..n |-> places[k]]
    BY <1>10
  <2> QED
    BY <2>4, <2>5
<1> QED
  BY <1>8, <1>11, <1>12 DEF n, Place

\* The expected calls are found at rising positions, each at the first call of
\* its name after the one before, until one is not found.
LEMMA FoundInOrder ==
  ASSUME NEW e \in ToolCalls, NEW a \in ToolCalls, NEW i \in 1..Len(e)
  PROVE  LET places == FoundAt(e, a) IN
         /\ places[i] \in Nat /\ places[i - 1] \in Nat /\ places[i] <= Len(a) + 1
         /\ places[i] # Len(a) + 1 => places[i] \in 1..Len(a) /\ places[i - 1] < places[i] /\ a[places[i]].name = e[i].name
         /\ \A j \in 1..Len(a) : places[i - 1] < j /\ a[j].name = e[i].name => places[i] <= j
<1> DEFINE places == FoundAt(e, a)
<1>1. Len(e) \in Nat /\ Len(a) \in Nat
  BY DEF ToolCalls
<1>2. places \in [0..Len(e) -> Nat] /\ i \in 0..Len(e) /\ i - 1 \in 0..Len(e)
  BY <1>1, Found
<1>3. PICK later : later = {j \in places[i - 1] + 1 .. Len(a) : a[j].name = e[i].name}
  OBVIOUS
<1>4. places[i] = IF later = {} THEN Len(a) + 1 ELSE Min(later)
  BY <1>3, Found, Zenon
<1>5. places[i] \in Nat /\ places[i - 1] \in Nat
  BY <1>2
<1> HIDE DEF places
<1>6. later \subseteq Nat /\ \A j \in later : j \in 1..Len(a) /\ places[i - 1] < j /\ a[j].name = e[i].name
  BY <1>1, <1>3, <1>5
<1>7. CASE later = {}
  <2>1. ASSUME NEW j \in 1..Len(a), places[i - 1] < j, a[j].name = e[i].name
        PROVE  FALSE
    <3>1. j \in places[i - 1] + 1 .. Len(a)
      BY <1>1, <1>5, <2>1
    <3> QED
      BY <1>3, <1>7, <2>1, <3>1
  <2>2. places[i] = Len(a) + 1
    BY <1>4, <1>7
  <2> QED
    BY <1>1, <1>5, <2>1, <2>2 DEF places
<1>8. CASE later # {}
  <2>1. places[i] \in later /\ \A j \in later : places[i] <= j
    BY <1>4, <1>6, <1>8, LeastNumber
  <2>2. ASSUME NEW j \in 1..Len(a), places[i - 1] < j, a[j].name = e[i].name
        PROVE  places[i] <= j
    <3>1. j \in places[i - 1] + 1 .. Len(a)
      BY <1>1, <1>5, <2>2
    <3> QED
      BY <1>3, <2>1, <2>2, <3>1
  <2>3. places[i] \in 1..Len(a) /\ places[i - 1] < places[i] /\ a[places[i]].name = e[i].name
    BY <1>6, <2>1
  <2> QED
    BY <1>1, <1>5, <2>2, <2>3 DEF places
<1> QED
  BY <1>7, <1>8

\* The expected calls occur in the answer, in this order.
Occurs(e, a, strict) ==
  \E f \in [1..Len(e) -> 1..Len(a)] :
    /\ \A i, j \in 1..Len(e) : i < j => f[i] < f[j]
    /\ \A i \in 1..Len(e) : a[f[i]].name = e[i].name /\ (strict => a[f[i]].args = e[i].args)

\* Calls that are all found and match occur.
LEMMA FoundOccurs ==
  ASSUME NEW e \in ToolCalls, NEW a \in ToolCalls, NEW strict \in BOOLEAN,
         \A i \in 1..Len(e) : i \in Scan(e, a, strict)
  PROVE  Occurs(e, a, strict)
<1> DEFINE places == FoundAt(e, a)
           f == [i \in 1..Len(e) |-> places[i]]
<1>1. Len(e) \in Nat /\ Len(a) \in Nat
  BY DEF ToolCalls
<1>2. ASSUME NEW i \in 1..Len(e)
      PROVE  /\ places[i] \in 1..Len(a) /\ places[i - 1] \in Nat /\ places[i - 1] < places[i]
             /\ a[places[i]].name = e[i].name /\ (strict => a[places[i]].args = e[i].args)
  <2>1. places[i] # Len(a) + 1 /\ (strict => a[places[i]].args = e[i].args)
    BY DEF Scan
  <2> QED
    BY <2>1, FoundInOrder
<1> HIDE DEF places
<1>3. \A i, j \in 1..Len(e) : i < j => places[i] < places[j]
  <2> SUFFICES ASSUME NEW i \in 1..Len(e)
               PROVE  \A j \in 1..Len(e) : i < j => places[i] < places[j]
    OBVIOUS
  <2> DEFINE S == {k \in Nat : k \in 1..Len(e) /\ i < k => places[i] < places[k]}
  <2>1. 0 \in S
    BY <1>1
  <2>2. ASSUME NEW k \in Nat, k < Len(e), k \in S
        PROVE  k + 1 \in S
    <3> SUFFICES ASSUME i < k + 1
                 PROVE  places[i] < places[k + 1]
      OBVIOUS
    <3>1. k + 1 \in 1..Len(e) /\ (k + 1) - 1 = k
      BY <1>1, <2>2
    <3>2. places[k] \in Nat /\ places[k] < places[k + 1] /\ places[k + 1] \in Nat /\ places[i] \in Nat
      BY <1>2, <3>1
    <3>3. CASE i = k
      BY <3>2, <3>3
    <3>4. CASE i # k
      <4>1. k \in 1..Len(e) /\ i < k
        BY <1>1, <2>2, <3>4
      <4>2. places[i] < places[k]
        BY <2>2, <4>1
      <4> QED
        BY <3>2, <4>2
    <3> QED
      BY <3>3, <3>4
  <2> HIDE DEF S
  <2>3. 0..Len(e) \subseteq S
    BY <1>1, <2>1, <2>2, Steps
  <2>4. ASSUME NEW j \in 1..Len(e)
        PROVE  j \in S
    BY <1>1, <2>3
  <2> QED
    BY <2>4 DEF S
<1>4. f \in [1..Len(e) -> 1..Len(a)]
  BY <1>2
<1>5. \A i \in 1..Len(e) : f[i] = places[i]
  OBVIOUS
<1> HIDE DEF f
<1> QED
  <2>1. \A i, j \in 1..Len(e) : i < j => f[i] < f[j]
    BY <1>3, <1>5
  <2>2. \A i \in 1..Len(e) : a[f[i]].name = e[i].name /\ (strict => a[f[i]].args = e[i].args)
    BY <1>2, <1>5
  <2> QED
    BY <1>4, <2>1, <2>2, Zenon DEF Occurs

\* Calls that occur are all found: each no later than where it occurs.
LEMMA OccursFound ==
  ASSUME NEW e \in ToolCalls, NEW a \in ToolCalls, Occurs(e, a, FALSE)
  PROVE  \A i \in 1..Len(e) : i \in Scan(e, a, FALSE)
<1> DEFINE places == FoundAt(e, a)
<1>1. Len(e) \in Nat /\ Len(a) \in Nat
  BY DEF ToolCalls
<1>2. PICK f \in [1..Len(e) -> 1..Len(a)] :
        /\ \A i, j \in 1..Len(e) : i < j => f[i] < f[j]
        /\ \A i \in 1..Len(e) : a[f[i]].name = e[i].name
  BY DEF Occurs
<1> DEFINE S == {k \in Nat : k \in 1..Len(e) => places[k] <= f[k]}
<1>3. 0 \in S
  BY <1>1
<1>4. ASSUME NEW k \in Nat, k < Len(e), k \in S
      PROVE  k + 1 \in S
  <2>1. k + 1 \in 1..Len(e) /\ (k + 1) - 1 = k
    BY <1>1, <1>4
  <2>2. f[k + 1] \in 1..Len(a) /\ a[f[k + 1]].name = e[k + 1].name
    BY <1>2, <2>1
  <2>3. places[k] < f[k + 1]
    <3>1. CASE k = 0
      <4>1. places[k] = 0
        BY <3>1, Found
      <4> QED
        BY <1>1, <2>2, <4>1
    <3>2. CASE k # 0
      <4>1. k \in 1..Len(e)
        BY <1>1, <1>4, <3>2
      <4>2. f[k] < f[k + 1] /\ f[k] \in 1..Len(a)
        BY <1>2, <2>1, <4>1
      <4>3. places[k] <= f[k] /\ places[k] \in Nat
        BY <1>4, <4>1, FoundInOrder
      <4> QED
        BY <1>1, <2>2, <4>2, <4>3
    <3> QED
      BY <3>1, <3>2
  <2>4. places[k + 1] <= f[k + 1]
    BY <2>1, <2>2, <2>3, FoundInOrder
  <2> QED
    BY <2>4
<1> HIDE DEF S
<1>5. 0..Len(e) \subseteq S
  BY <1>1, <1>3, <1>4, Steps
<1>6. ASSUME NEW i \in 1..Len(e)
      PROVE  places[i] # Len(a) + 1
  <2>1. i \in S
    BY <1>1, <1>5
  <2>2. places[i] <= f[i] /\ f[i] \in 1..Len(a) /\ places[i] \in Nat
    BY <2>1, FoundInOrder DEF S
  <2> QED
    BY <1>1, <2>2
<1> QED
  BY <1>6 DEF Scan

LEMMA CallsSound ==
  ASSUME NEW e \in ToolCalls, NEW a \in ToolCalls, NEW strict \in BOOLEAN,
         NEW s, s = ToolCallEval(e, a, strict)
  PROVE  /\ s.num \in Nat /\ s.den \in Nat /\ s.num <= s.den /\ s.den > 0
         /\ s.passed \in BOOLEAN
         /\ s.passed => Occurs(e, a, strict)
         /\ ~strict => (s.passed <=> Occurs(e, a, FALSE))
         /\ s.passed <=> (s.num = s.den)
<1> DEFINE found == Scan(e, a, strict)
<1>1. Len(e) \in Nat /\ Len(a) \in Nat /\ (e # <<>> => Len(e) > 0)
  <2>1. PICK calls : calls = [name : {"a", "b"}, args : {1, 2}]
    OBVIOUS
  <2>2. PICK n \in 0..MaxToolCalls : e \in [1..n -> calls]
    BY <2>1 DEF ToolCalls
  <2>3. n \in Nat
    BY <2>2, EvalAssumption
  <2>4. e \in Seq(calls)
    BY <2>2, <2>3
  <2>5. Len(a) \in Nat
    BY DEF ToolCalls
  <2> QED
    BY <2>4, <2>5
<1>2. found \subseteq 1..Len(e)
  BY DEF Scan
<1>3. IsFiniteSet(1..Len(e)) /\ Cardinality(1..Len(e)) = Len(e)
  <2>1. \A x, y \in Int : IsFiniteSet(x..y) /\ Cardinality(x..y) = IF x > y THEN 0 ELSE y - x + 1
    BY FS_Interval
  <2>2. 1 \in Int /\ Len(e) \in Int
    BY <1>1
  <2>3. IsFiniteSet(1..Len(e)) /\ Cardinality(1..Len(e)) = IF 1 > Len(e) THEN 0 ELSE Len(e) - 1 + 1
    BY <2>1, <2>2
  <2> QED
    BY <1>1, <2>3
<1> HIDE DEF found
<1>4. /\ Cardinality(found) \in Nat /\ Cardinality(found) <= Len(e)
      /\ Cardinality(found) = Len(e) => found = 1..Len(e)
  BY <1>2, <1>3, FS_Subset, FS_CardinalityType
<1>5. Cardinality(found) = Len(e) <=> \A i \in 1..Len(e) : i \in found
  <2>1. (\A i \in 1..Len(e) : i \in found) => found = 1..Len(e)
    BY <1>2
  <2> QED
    BY <1>3, <1>4, <2>1
<1>6. (\A i \in 1..Len(e) : i \in found) => Occurs(e, a, strict)
  BY FoundOccurs DEF found
<1>7. ~strict /\ Occurs(e, a, FALSE) => \A i \in 1..Len(e) : i \in found
  BY OccursFound DEF found
<1>8. CASE e = <<>>
  <2>1. s = Score(1, 1, TRUE)
    BY <1>8 DEF ToolCallEval
  <2>2. \A i \in 1..Len(e) : i \in found
    BY <1>8
  <2>3. ~strict => Occurs(e, a, FALSE)
    BY <1>6, <2>2
  <2>4. s.num = 1 /\ s.den = 1 /\ s.passed = TRUE
    BY <2>1 DEF Score
  <2>5. Occurs(e, a, strict)
    BY <1>6, <2>2, Zenon
  <2>6. s.num \in Nat /\ s.den \in Nat /\ s.num <= s.den /\ s.den > 0
    BY <2>4
  <2>7. s.passed \in BOOLEAN /\ (s.passed <=> (s.num = s.den))
    BY <2>4
  <2> QED
    BY <2>3, <2>4, <2>5, <2>6, <2>7, Zenon
<1>9. CASE e # <<>>
  <2>1. s = Score(Cardinality(found), Len(e), Cardinality(found) = Len(e))
    BY <1>9 DEF ToolCallEval, found
  <2>2. s.num = Cardinality(found) /\ s.den = Len(e) /\ s.passed = (Cardinality(found) = Len(e))
    BY <2>1 DEF Score
  <2>3. Len(e) > 0
    BY <1>1, <1>9
  <2>4. ~strict => (Occurs(e, a, strict) <=> Occurs(e, a, FALSE))
    BY DEF Occurs
  <2>5. s.passed <=> \A i \in 1..Len(e) : i \in found
    BY <1>5, <2>2
  <2>6. s.num \in Nat /\ s.den \in Nat /\ s.num <= s.den /\ s.den > 0
    BY <1>1, <1>4, <2>2, <2>3
  <2>7. s.passed \in BOOLEAN /\ (s.passed <=> (s.num = s.den))
    BY <2>2, Zenon
  <2>8. s.passed => Occurs(e, a, strict)
    BY <1>6, <2>5, Zenon
  <2>9. ~strict => (s.passed <=> Occurs(e, a, FALSE))
    BY <1>7, <2>4, <2>5, <2>8, Zenon
  <2> QED
    BY <2>6, <2>7, <2>8, <2>9, Zenon
<1> QED
  BY <1>8, <1>9

\* The sum of a list of points, from its partial sums.
LEMMA Summed ==
  ASSUME NEW n \in Nat, NEW points \in [1..n -> Nat]
  PROVE  \E s \in [0..n -> Nat] : /\ s[0] = 0 /\ s[n] = Total(points)
                                  /\ \A i \in 1..n : s[i] = s[i - 1] + points[i]
<1>0. Len(points) = n
  OBVIOUS
<1>1. PICK step : step = [p \in (1..n) \X Nat |-> p[2] + points[p[1]]]
  OBVIOUS
<1>2. step \in [(1..n) \X Nat -> Nat]
  <2>1. \A p \in (1..n) \X Nat : p[2] + points[p[1]] \in Nat
    OBVIOUS
  <2> QED
    BY <1>1, <2>1
<1>3. PICK f \in [0..n -> Nat] : f[0] = 0 /\ \A i \in 1..n : f[i] = step[i, f[i - 1]]
  <2>1. 0 \in Nat
    OBVIOUS
  <2> QED
    BY <1>2, <2>1, Recursion, Zenon
<1>4. ASSUME NEW i \in 1..n
      PROVE  f[i] = f[i - 1] + points[i]
  <2>1. f[i - 1] \in Nat
    OBVIOUS
  <2>2. <<i, f[i - 1]>> \in (1..n) \X Nat
    BY <2>1
  <2>3. step[i, f[i - 1]] = f[i - 1] + points[i]
    BY <1>1, <2>2
  <2> QED
    BY <1>3, <2>3
<1> DEFINE Fits(g) == g = [i \in 0..n |-> IF i = 0 THEN 0 ELSE g[i - 1] + points[i]]
<1>5. Fits(f)
  <2>1. ASSUME NEW i \in 0..n
        PROVE  f[i] = IF i = 0 THEN 0 ELSE f[i - 1] + points[i]
    <3>1. i # 0 => i \in 1..n
      OBVIOUS
    <3> QED
      BY <1>3, <1>4, <3>1
  <2>2. f = [i \in 0..n |-> f[i]]
    OBVIOUS
  <2> QED
    BY <2>1, <2>2, Zenon
<1>6. PICK sum : sum = CHOOSE g : Fits(g)
  OBVIOUS
<1>7. sum[n] = Total(points)
  BY <1>0, <1>6 DEF Total
<1>8. Fits(sum)
  BY <1>5, <1>6
<1>9. sum[0] = 0 /\ DOMAIN sum = 0..n /\ \A i \in 1..n : sum[i] = sum[i - 1] + points[i]
  BY <1>8
<1>10. sum \in [0..n -> Nat]
  <2> DEFINE S == {k \in Nat : k <= n => sum[k] \in Nat}
  <2>1. 0 \in S
    BY <1>9
  <2>2. ASSUME NEW k \in Nat, k < n, k \in S
        PROVE  k + 1 \in S
    <3>1. k + 1 \in 1..n /\ sum[k] \in Nat /\ (k + 1) - 1 = k
      BY <2>2
    <3>2. sum[k + 1] = sum[k] + points[k + 1]
      BY <1>9, <3>1
    <3> QED
      BY <3>1, <3>2
  <2> HIDE DEF S
  <2>3. 0..n \subseteq S
    BY <2>1, <2>2, Steps
  <2>4. \A k \in 0..n : sum[k] \in Nat
    BY <2>3 DEF S
  <2>5. sum = [k \in 0..n |-> sum[k]]
    BY <1>8
  <2> QED
    BY <2>4, <2>5
<1> QED
  BY <1>7, <1>9, <1>10

LEMMA TotalGrows ==
  ASSUME NEW n \in Nat, NEW p \in [1..n -> Nat], NEW q \in [1..n -> Nat], \A i \in 1..n : p[i] <= q[i]
  PROVE  Total(p) \in Nat /\ Total(q) \in Nat /\ Total(p) <= Total(q)
<1>1. PICK s \in [0..n -> Nat] : s[0] = 0 /\ s[n] = Total(p) /\ \A i \in 1..n : s[i] = s[i - 1] + p[i]
  BY Summed
<1>2. PICK t \in [0..n -> Nat] : t[0] = 0 /\ t[n] = Total(q) /\ \A i \in 1..n : t[i] = t[i - 1] + q[i]
  BY Summed
<1> DEFINE S == {k \in Nat : k <= n => s[k] <= t[k]}
<1>3. 0 \in S
  BY <1>1, <1>2
<1>4. ASSUME NEW k \in Nat, k < n, k \in S
      PROVE  k + 1 \in S
  <2>1. k + 1 \in 1..n /\ k \in 0..n /\ s[k] <= t[k] /\ (k + 1) - 1 = k
    BY <1>4
  <2>2. s[k + 1] = s[k] + p[k + 1] /\ t[k + 1] = t[k] + q[k + 1] /\ p[k + 1] <= q[k + 1]
    BY <1>1, <1>2, <2>1
  <2>3. p[k + 1] \in Nat /\ q[k + 1] \in Nat /\ s[k] \in Nat /\ t[k] \in Nat
    BY <2>1
  <2> QED
    BY SMTT(40), <2>1, <2>2, <2>3
<1> HIDE DEF S
<1>5. n \in S
  <2>1. 0..n \subseteq S
    BY <1>3, <1>4, Steps
  <2> QED
    BY <2>1
<1>6. s[n] <= t[n] /\ s[n] \in Nat /\ t[n] \in Nat
  BY <1>5 DEF S
<1> QED
  BY <1>1, <1>2, <1>6

LEMMA TotalPositive ==
  ASSUME NEW n \in Nat, NEW p \in [1..n -> Nat], NEW i \in 1..n, p[i] > 0
  PROVE  Total(p) > 0
<1>1. PICK s \in [0..n -> Nat] : s[0] = 0 /\ s[n] = Total(p) /\ \A j \in 1..n : s[j] = s[j - 1] + p[j]
  BY Summed
<1> DEFINE S == {k \in Nat : k <= n /\ i <= k => s[k] > 0}
<1>2. 0 \in S
  OBVIOUS
<1>3. ASSUME NEW k \in Nat, k < n, k \in S
      PROVE  k + 1 \in S
  <2> SUFFICES ASSUME i <= k + 1
               PROVE  s[k + 1] > 0
    OBVIOUS
  <2>1. k + 1 \in 1..n /\ k \in 0..n /\ (k + 1) - 1 = k
    BY <1>3
  <2>2. s[k + 1] = s[k] + p[k + 1] /\ s[k] \in Nat /\ p[k + 1] \in Nat
    BY <1>1, <2>1
  <2>3. CASE i = k + 1
    BY <2>2, <2>3
  <2>4. CASE i # k + 1
    <3>1. i <= k /\ k <= n
      BY <1>3, <2>4
    <3>2. s[k] > 0
      BY <1>3, <3>1
    <3> QED
      BY <2>2, <3>2
  <2> QED
    BY <2>3, <2>4
<1> HIDE DEF S
<1>4. n \in S
  <2>1. 0..n \subseteq S
    BY <1>2, <1>3, Steps
  <2> QED
    BY <2>1
<1> QED
  BY <1>1, <1>4 DEF S

LEMMA TotalStrict ==
  ASSUME NEW n \in Nat, NEW p \in [1..n -> Nat], NEW q \in [1..n -> Nat], \A j \in 1..n : p[j] <= q[j],
         NEW i \in 1..n, p[i] < q[i]
  PROVE  Total(p) < Total(q)
<1>1. PICK d : d = [j \in 1..n |-> q[j] - p[j]]
  OBVIOUS
<1>2. d \in [1..n -> Nat] /\ d[i] > 0 /\ \A j \in 1..n : q[j] = p[j] + d[j]
  BY <1>1
<1>3. Total(d) > 0
  BY <1>2, TotalPositive
<1>4. PICK s \in [0..n -> Nat] : s[0] = 0 /\ s[n] = Total(p) /\ \A j \in 1..n : s[j] = s[j - 1] + p[j]
  BY Summed
<1>5. PICK t \in [0..n -> Nat] : t[0] = 0 /\ t[n] = Total(d) /\ \A j \in 1..n : t[j] = t[j - 1] + d[j]
  BY <1>2, Summed
<1>6. PICK u \in [0..n -> Nat] : u[0] = 0 /\ u[n] = Total(q) /\ \A j \in 1..n : u[j] = u[j - 1] + q[j]
  BY Summed
<1> DEFINE S == {k \in Nat : k <= n => u[k] = s[k] + t[k]}
<1>7. 0 \in S
  BY <1>4, <1>5, <1>6
<1>8. ASSUME NEW k \in Nat, k < n, k \in S
      PROVE  k + 1 \in S
  <2>1. k + 1 \in 1..n /\ k \in 0..n /\ u[k] = s[k] + t[k] /\ (k + 1) - 1 = k
    BY <1>8
  <2>2. /\ s[k + 1] = s[k] + p[k + 1] /\ t[k + 1] = t[k] + d[k + 1] /\ u[k + 1] = u[k] + q[k + 1]
        /\ q[k + 1] = p[k + 1] + d[k + 1]
    BY <1>2, <1>4, <1>5, <1>6, <2>1
  <2>3. p[k + 1] \in Nat /\ d[k + 1] \in Nat /\ s[k] \in Nat /\ t[k] \in Nat
    BY <1>2, <2>1
  <2>4. u[k + 1] = s[k + 1] + t[k + 1]
    <3>1. PICK a \in Nat, b \in Nat, x \in Nat, y \in Nat :
            a = s[k] /\ b = t[k] /\ x = p[k + 1] /\ y = d[k + 1]
      BY <2>3, Zenon
    <3>2. s[k + 1] = a + x /\ t[k + 1] = b + y /\ u[k + 1] = (a + b) + (x + y)
      BY <2>1, <2>2, <3>1, Zenon
    <3>3. (a + b) + (x + y) = (a + x) + (b + y)
      OBVIOUS
    <3> QED
      BY <3>2, <3>3, Zenon
  <2> QED
    BY <2>1, <2>4
<1> HIDE DEF S
<1>9. n \in S
  <2>1. 0..n \subseteq S
    BY <1>7, <1>8, Steps
  <2> QED
    BY <2>1
<1>10. u[n] = s[n] + t[n] /\ s[n] \in Nat /\ t[n] \in Nat
  BY <1>9 DEF S
<1> QED
  BY <1>3, <1>4, <1>5, <1>6, <1>10

LEMMA TotalDoubled ==
  ASSUME NEW n \in Nat, NEW p \in [1..n -> Nat], NEW q \in [1..n -> Nat], \A j \in 1..n : q[j] = 2 * p[j]
  PROVE  Total(q) = 2 * Total(p)
<1>1. PICK s \in [0..n -> Nat] : s[0] = 0 /\ s[n] = Total(p) /\ \A j \in 1..n : s[j] = s[j - 1] + p[j]
  BY Summed
<1>2. PICK t \in [0..n -> Nat] : t[0] = 0 /\ t[n] = Total(q) /\ \A j \in 1..n : t[j] = t[j - 1] + q[j]
  BY Summed
<1> DEFINE S == {k \in Nat : k <= n => t[k] = 2 * s[k]}
<1>3. 0 \in S
  BY <1>1, <1>2
<1>4. ASSUME NEW k \in Nat, k < n, k \in S
      PROVE  k + 1 \in S
  <2>1. k + 1 \in 1..n /\ k \in 0..n /\ t[k] = 2 * s[k] /\ (k + 1) - 1 = k
    BY <1>4
  <2>2. s[k + 1] = s[k] + p[k + 1] /\ t[k + 1] = t[k] + q[k + 1] /\ q[k + 1] = 2 * p[k + 1]
    BY <1>1, <1>2, <2>1
  <2>3. p[k + 1] \in Nat /\ s[k] \in Nat
    BY <2>1
  <2> QED
    BY SMTT(40), <2>1, <2>2, <2>3
<1> HIDE DEF S
<1>5. n \in S
  <2>1. 0..n \subseteq S
    BY <1>3, <1>4, Steps
  <2> QED
    BY <2>1
<1> QED
  BY <1>1, <1>2, <1>5 DEF S

\* What the score of a composite says of the evaluators in it.
Weighed(subs, s) ==
  /\ s.passed => ~s.error /\ \A i \in DOMAIN subs : ~subs[i].error
  /\ s.num = s.den => \A i \in DOMAIN subs :
       subs[i].score = 2 \/ (subs[i].weight = 0 /\ \E j \in DOMAIN subs : subs[j].weight > 0)
  /\ (\A i \in DOMAIN subs : subs[i].score >= 1) => 2 * s.num >= s.den

LEMMA SubFields ==
  ASSUME NEW r \in SubResult
  PROVE  /\ r.score \in 0..2 /\ r.passed \in BOOLEAN /\ r.error \in BOOLEAN /\ r.weight \in 0..2
         /\ r.error => r.score = 0 /\ ~r.passed
  BY DEF SubResult

\* What the points p of scores in halves under the weights w are, next to those
\* of full scores, q.
Points(n, w, k, score, p, q) ==
  /\ n \in Nat /\ w \in [1..n -> Nat] /\ k \in 1..n /\ w[k] > 0
  /\ score \in [1..n -> 0..2] /\ p \in [1..n -> Nat] /\ q \in [1..n -> Nat]
  /\ \A i \in 1..n : q[i] = 2 * w[i]
  /\ \A i \in 1..n : p[i] <= q[i]
  /\ \A i \in 1..n : score[i] >= 1 => w[i] <= p[i]
  /\ \A i \in 1..n : w[i] > 0 /\ score[i] # 2 => p[i] < q[i]

LEMMA WeightedTotals ==
  ASSUME NEW n, NEW w, NEW k, NEW score, NEW p, NEW q, Points(n, w, k, score, p, q)
  PROVE  /\ Total(p) \in Nat /\ 2 * Total(w) \in Nat /\ Total(p) <= 2 * Total(w) /\ 2 * Total(w) > 0
         /\ Total(p) = 2 * Total(w) => \A i \in 1..n : score[i] = 2 \/ w[i] = 0
         /\ (\A i \in 1..n : score[i] >= 1) => 2 * Total(p) >= 2 * Total(w)
<1>0. /\ n \in Nat /\ w \in [1..n -> Nat] /\ k \in 1..n /\ w[k] > 0
      /\ score \in [1..n -> 0..2] /\ p \in [1..n -> Nat] /\ q \in [1..n -> Nat]
      /\ \A i \in 1..n : q[i] = 2 * w[i]
      /\ \A i \in 1..n : p[i] <= q[i]
      /\ \A i \in 1..n : score[i] >= 1 => w[i] <= p[i]
      /\ \A i \in 1..n : w[i] > 0 /\ score[i] # 2 => p[i] < q[i]
  BY DEF Points
<1>1. Total(q) = 2 * Total(w)
  BY <1>0, TotalDoubled
<1>2. Total(w) \in Nat /\ Total(w) > 0
  <2>1. \A i \in 1..n : w[i] <= w[i]
    BY <1>0
  <2>2. Total(w) \in Nat
    BY <1>0, <2>1, TotalGrows
  <2>3. Total(w) > 0
    BY <1>0, TotalPositive
  <2> QED
    BY <2>2, <2>3
<1>3. Total(p) \in Nat /\ Total(p) <= Total(q)
  BY <1>0, TotalGrows
<1>4. ASSUME Total(p) = Total(q), NEW i \in 1..n, score[i] # 2
      PROVE  w[i] = 0
  <2>1. ASSUME p[i] < q[i]
        PROVE  FALSE
    <3>1. Total(p) < Total(q)
      BY <1>0, <2>1, TotalStrict
    <3> QED
      BY <1>1, <1>2, <1>3, <1>4, <3>1
  <2>2. ~(w[i] > 0) /\ w[i] \in Nat
    BY <1>0, <1>4, <2>1
  <2> QED
    BY <2>2
<1>5. ASSUME \A i \in 1..n : score[i] >= 1
      PROVE  Total(w) <= Total(p)
  <2>1. \A i \in 1..n : w[i] <= p[i]
    BY <1>0, <1>5
  <2> QED
    BY <1>0, <2>1, TotalGrows
<1> QED
  BY <1>1, <1>2, <1>3, <1>4, <1>5

\* The weights w that count and the points p of an evaluation.
Composed(n, weight, score, w, p) ==
  /\ n \in Nat \ {0} /\ weight \in [1..n -> Nat] /\ score \in [1..n -> 0..2]
  /\ w = IF \A i \in 1..n : weight[i] = 0 THEN [i \in 1..n |-> 1] ELSE [i \in 1..n |-> weight[i]]
  /\ p = [i \in 1..n |-> w[i] * score[i]]

LEMMA CompositeTotals ==
  ASSUME NEW n, NEW weight, NEW score, NEW w, NEW p, Composed(n, weight, score, w, p)
  PROVE  /\ Total(p) \in Nat /\ 2 * Total(w) \in Nat /\ Total(p) <= 2 * Total(w) /\ 2 * Total(w) > 0
         /\ Total(p) = 2 * Total(w) => \A i \in 1..n :
              score[i] = 2 \/ (weight[i] = 0 /\ \E j \in 1..n : weight[j] > 0)
         /\ (\A i \in 1..n : score[i] >= 1) => 2 * Total(p) >= 2 * Total(w)
<1>0. n \in Nat /\ n # 0 /\ weight \in [1..n -> Nat] /\ score \in [1..n -> 0..2]
  BY DEF Composed
<1>1. /\ w \in [1..n -> Nat] /\ \E i \in 1..n : w[i] > 0
      /\ \A i \in 1..n : w[i] = 0 => weight[i] = 0 /\ \E j \in 1..n : weight[j] > 0
  <2>1. CASE \A i \in 1..n : weight[i] = 0
    <3>1. w = [i \in 1..n |-> 1]
      BY <2>1, Zenon DEF Composed
    <3>2. 1 \in 1..n /\ w[1] = 1 /\ 1 > 0
      BY <1>0, <3>1
    <3> QED
      BY <1>0, <3>1, <3>2
  <2>2. CASE ~\A i \in 1..n : weight[i] = 0
    <3>1. w = [i \in 1..n |-> weight[i]]
      BY <2>2, Zenon DEF Composed
    <3>2. PICK i \in 1..n : weight[i] # 0
      BY <2>2
    <3>3. weight[i] > 0
      BY <1>0, <3>2
    <3>4. w \in [1..n -> Nat] /\ \A j \in 1..n : w[j] = weight[j]
      BY <1>0, <3>1
    <3> QED
      BY <3>3, <3>4
  <2> QED
    BY <2>1, <2>2
<1>2. PICK q : q = [i \in 1..n |-> 2 * w[i]]
  OBVIOUS
<1>3. ASSUME NEW i \in 1..n
      PROVE  /\ w[i] * score[i] \in Nat /\ 2 * w[i] \in Nat /\ w[i] * score[i] <= 2 * w[i]
             /\ score[i] >= 1 => w[i] <= w[i] * score[i]
             /\ w[i] > 0 /\ score[i] # 2 => w[i] * score[i] < 2 * w[i]
  <2>1. PICK v \in Nat, c \in 0..2 : v = w[i] /\ c = score[i]
    BY <1>0, <1>1, Zenon
  <2>2. v * 0 = 0 /\ v * 1 = v /\ v * 2 = 2 * v
    BY <2>1
  <2>3. /\ v * c \in Nat /\ 2 * v \in Nat /\ v * c <= 2 * v
        /\ c >= 1 => v <= v * c
        /\ v > 0 /\ c # 2 => v * c < 2 * v
    <3>1. CASE c = 0
      BY <2>1, <2>2, <3>1
    <3>2. CASE c = 1
      BY <2>1, <2>2, <3>2
    <3>3. CASE c = 2
      BY <2>1, <2>2, <3>3
    <3> QED
      BY <2>1, <3>1, <3>2, <3>3
  <2> QED
    BY <2>1, <2>3, Zenon
<1>4. p \in [1..n -> Nat] /\ q \in [1..n -> Nat]
  BY <1>2, <1>3, Zenon DEF Composed
<1>5. /\ \A i \in 1..n : q[i] = 2 * w[i]
      /\ \A i \in 1..n : p[i] <= q[i]
      /\ \A i \in 1..n : score[i] >= 1 => w[i] <= p[i]
      /\ \A i \in 1..n : w[i] > 0 /\ score[i] # 2 => p[i] < q[i]
  <2>1. \A i \in 1..n : q[i] = 2 * w[i] /\ p[i] = w[i] * score[i]
    BY <1>2, Zenon DEF Composed
  <2> QED
    BY <1>3, <2>1, Zenon
<1>7. /\ Total(p) \in Nat /\ 2 * Total(w) \in Nat /\ Total(p) <= 2 * Total(w) /\ 2 * Total(w) > 0
      /\ Total(p) = 2 * Total(w) => \A i \in 1..n : score[i] = 2 \/ w[i] = 0
      /\ (\A i \in 1..n : score[i] >= 1) => 2 * Total(p) >= 2 * Total(w)
  <2>1. PICK k \in 1..n : w[k] > 0
    BY <1>1, Zenon
  <2>2. /\ Total(p) \in Nat /\ 2 * Total(w) \in Nat /\ Total(p) <= 2 * Total(w) /\ 2 * Total(w) > 0
        /\ Total(p) = 2 * Total(w) => \A i \in 1..n : score[i] = 2 \/ w[i] = 0
        /\ (\A i \in 1..n : score[i] >= 1) => 2 * Total(p) >= 2 * Total(w)
    <3>1. Points(n, w, k, score, p, q)
      BY <1>0, <1>1, <1>4, <1>5, <2>1, Zenon DEF Points
    <3> QED
      BY <3>1, WeightedTotals, Zenon
  <2> QED
    BY <2>2, Zenon
<1> QED
  BY <1>1, <1>7, Zenon

LEMMA CompositeSound ==
  ASSUME NEW n \in Nat, NEW subs \in [1..n -> SubResult],
         NEW failFast \in BOOLEAN, NEW s, s = CompositeEval(subs, failFast)
  PROVE  /\ s.num \in Nat /\ s.den \in Nat /\ s.num <= s.den /\ s.den > 0
         /\ Weighed(subs, s)
<1>1. Len(subs) = n /\ DOMAIN subs = 1..n
  OBVIOUS
<1>2. PICK w : w = IF \A i \in 1..n : subs[i].weight = 0 THEN [i \in 1..n |-> 1]
                   ELSE [i \in 1..n |-> subs[i].weight]
  OBVIOUS
<1>3. PICK p : p = [i \in 1..n |-> w[i] * subs[i].score]
  OBVIOUS
<1>4. PICK num, den : num = Total(p) /\ den = 2 * Total(w)
  OBVIOUS
<1>5. PICK erred, passed : /\ erred = \E i \in 1..n : subs[i].error
                           /\ passed = \A i \in 1..n : subs[i].passed
  OBVIOUS
<1>6. s = IF n = 0 THEN Score(1, 1, TRUE)
          ELSE IF failFast /\ erred THEN EvalError
          ELSE [num |-> num, den |-> den, passed |-> passed, error |-> erred]
  BY <1>1, <1>2, <1>3, <1>4, <1>5, Zenon DEF CompositeEval
<1>7. passed => ~erred /\ \A i \in 1..n : ~subs[i].error
  BY <1>5, SubFields, Zenon
<1>8. CASE n = 0
  <2>1. s.num = 1 /\ s.den = 1 /\ s.passed = TRUE /\ s.error = FALSE
    BY <1>6, <1>8 DEF Score
  <2>2. DOMAIN subs = {}
    BY <1>1, <1>8
  <2> QED
    BY <2>1, <2>2 DEF Weighed
<1>9. CASE n # 0 /\ failFast /\ erred
  <2>1. s.num = 0 /\ s.den = 1 /\ s.passed = FALSE
    BY <1>6, <1>9 DEF EvalError
  <2>2. PICK i \in 1..n : subs[i].error
    BY <1>5, <1>9, Zenon
  <2>3. subs[i].score = 0
    BY <2>2, SubFields, Zenon
  <2>4. ~(subs[i].score >= 1)
    BY <2>3
  <2>5. ~\A k \in DOMAIN subs : subs[k].score >= 1
    BY <1>1, <2>4, Zenon
  <2>6. s.num \in Nat /\ s.den \in Nat /\ s.num <= s.den /\ s.den > 0 /\ s.num # s.den
    BY <2>1
  <2> QED
    BY <2>1, <2>5, <2>6, Zenon DEF Weighed
<1>10. CASE n # 0 /\ ~(failFast /\ erred)
  <2>1. s = [num |-> num, den |-> den, passed |-> passed, error |-> erred]
    BY <1>6, <1>10, Zenon
  <2>2. s.num = num /\ s.den = den /\ s.error = erred /\ s.passed = passed
    BY <2>1
  <2>3. n \in Nat \ {0}
    BY <1>10
  <2>6. PICK weight \in [1..n -> Nat], score \in [1..n -> 0..2] :
          \A i \in 1..n : weight[i] = subs[i].weight /\ score[i] = subs[i].score
    <3>1. \A i \in 1..n : subs[i].weight \in Nat /\ subs[i].score \in 0..2
      <4>1. \A k \in 0..2 : k \in Nat
        OBVIOUS
      <4> QED
        BY <4>1, SubFields, Zenon
    <3>2. /\ [i \in 1..n |-> subs[i].weight] \in [1..n -> Nat]
          /\ [i \in 1..n |-> subs[i].score] \in [1..n -> 0..2]
      BY <3>1, Zenon
    <3> QED
      BY <3>2, Zenon
  <2>7. w = IF \A i \in 1..n : weight[i] = 0 THEN [i \in 1..n |-> 1] ELSE [i \in 1..n |-> weight[i]]
    <3>1. (\A i \in 1..n : weight[i] = 0) <=> \A i \in 1..n : subs[i].weight = 0
      BY <2>6, Zenon
    <3>2. [i \in 1..n |-> weight[i]] = [i \in 1..n |-> subs[i].weight]
      BY <2>6, Zenon
    <3> QED
      BY <1>2, <3>1, <3>2, Zenon
  <2>8. p = [i \in 1..n |-> w[i] * score[i]]
    BY <1>3, <2>6, Zenon
  <2>9. /\ num \in Nat /\ den \in Nat /\ num <= den /\ den > 0
        /\ num = den => \A i \in 1..n : score[i] = 2 \/ (weight[i] = 0 /\ \E j \in 1..n : weight[j] > 0)
        /\ (\A i \in 1..n : score[i] >= 1) => 2 * num >= den
    <3>1. Composed(n, weight, score, w, p)
      BY <2>3, <2>6, <2>7, <2>8, Zenon DEF Composed
    <3> QED
      <4>1. /\ Total(p) \in Nat /\ 2 * Total(w) \in Nat /\ Total(p) <= 2 * Total(w) /\ 2 * Total(w) > 0
            /\ Total(p) = 2 * Total(w) => \A i \in 1..n :
                 score[i] = 2 \/ (weight[i] = 0 /\ \E j \in 1..n : weight[j] > 0)
            /\ (\A i \in 1..n : score[i] >= 1) => 2 * Total(p) >= 2 * Total(w)
        BY <3>1, CompositeTotals, Zenon
      <4>2. Total(p) = num /\ 2 * Total(w) = den
        BY <1>4
      <4> QED
        BY <4>1, <4>2
  <2>4. /\ num \in Nat /\ den \in Nat /\ num <= den /\ den > 0
        /\ num = den => \A i \in 1..n :
             subs[i].score = 2 \/ (subs[i].weight = 0 /\ \E j \in 1..n : subs[j].weight > 0)
        /\ (\A i \in 1..n : subs[i].score >= 1) => 2 * num >= den
    BY <2>6, <2>9, Zenon
  <2>5. Weighed(subs, s)
    BY <1>1, <1>7, <2>2, <2>4, Zenon DEF Weighed
  <2> QED
    BY <2>2, <2>4, <2>5, Zenon
<1> QED
  BY <1>8, <1>9, <1>10, Zenon

\* A score is a fraction between 0 and 1.
Fraction(s) == s.num \in Int /\ s.den \in Int /\ 0 <= s.num /\ s.num <= s.den /\ s.den > 0

LEMMA ScoreFields ==
  ASSUME NEW num \in Int, NEW den \in Int, NEW passed, 0 <= num, num <= den, den > 0,
         NEW s, s = Score(num, den, passed)
  PROVE  Fraction(s) /\ s.num = num /\ s.den = den /\ s.passed = passed
<1>1. s.num = num /\ s.den = den /\ s.passed = passed
  BY DEF Score
<1> QED
  BY <1>1 DEF Fraction

LEMMA Marks ==
  /\ Fraction(Score(1, 1, TRUE)) /\ Fraction(Score(0, 1, FALSE))
  /\ Score(1, 1, TRUE).passed = (2 * Score(1, 1, TRUE).num >= Score(1, 1, TRUE).den)
  /\ Score(0, 1, FALSE).passed = (2 * Score(0, 1, FALSE).num >= Score(0, 1, FALSE).den)
<1>1. /\ Score(1, 1, TRUE).num = 1 /\ Score(1, 1, TRUE).den = 1 /\ Score(1, 1, TRUE).passed = TRUE
      /\ Score(0, 1, FALSE).num = 0 /\ Score(0, 1, FALSE).den = 1 /\ Score(0, 1, FALSE).passed = FALSE
  BY DEF Score
<1>2. TRUE = (2 * 1 >= 1) /\ FALSE = (2 * 0 >= 1)
  OBVIOUS
<1>3. Fraction(Score(1, 1, TRUE)) /\ Fraction(Score(0, 1, FALSE))
  <2>1. \A s : s.num = 1 /\ s.den = 1 => Fraction(s)
    BY DEF Fraction
  <2>2. \A s : s.num = 0 /\ s.den = 1 => Fraction(s)
    BY DEF Fraction
  <2> QED
    BY <1>1, <2>1, <2>2, Zenon
<1> QED
  BY <1>1, <1>2, <1>3, Zenon

LEMMA LinearSound ==
  ASSUME NEW used \in Nat, NEW s, s = LinearScore(used)
  PROVE  Fraction(s) /\ s.passed = (2 * s.num >= s.den)
<1>1. EvalBudget \in Nat /\ EvalBudget > 0
  BY EvalAssumption
<1>2. PICK num : num = Clamp(2 * EvalBudget - used, 0, 2 * EvalBudget)
  OBVIOUS
<1>3. num \in Int /\ 0 <= num /\ num <= 2 * EvalBudget /\ (used <= EvalBudget <=> num >= EvalBudget)
  BY <1>1, <1>2 DEF Clamp
<1>4. PICK passed : passed = (used <= EvalBudget)
  OBVIOUS
<1>5. PICK den : den = 2 * EvalBudget
  OBVIOUS
<1>6. den \in Int /\ den > 0 /\ num <= den /\ (used <= EvalBudget <=> 2 * num >= den)
  BY <1>1, <1>3, <1>5
<1>7. s = Score(num, den, passed)
  BY <1>2, <1>4, <1>5 DEF LinearScore
<1>8. Fraction(s) /\ s.num = num /\ s.den = den /\ s.passed = passed
  BY <1>3, <1>6, <1>7, ScoreFields
<1>9. (used <= EvalBudget) = (2 * num >= den)
  BY <1>6
<1>10. s.passed = (2 * num >= den)
  BY <1>4, <1>8, <1>9, Zenon
<1> QED
  BY <1>8, <1>10, Zenon

\* A verdict of a kind whose mark needs no further facts.
LEMMA PlainVerdict ==
  ASSUME NEW label \in {"contains", "exact", "judge"}, NEW s, Fraction(s), Verdict(label, s)
  PROVE  VerdictsSound'
<1>1. verdict' = [kind |-> label, expected |-> <<>>, actual |-> <<>>, strict |-> FALSE, subs |-> <<>>, score |-> s]
  BY DEF Verdict, NoVerdict
<1>2. verdict'.kind = label /\ verdict'.score = s
  BY <1>1
<1>3. label # "calls" /\ label # "cost" /\ label # "latency" /\ label # "composite"
  OBVIOUS
<1> QED
  BY <1>2, <1>3 DEF VerdictsSound, Fraction

LEMMA SpentVerdict ==
  ASSUME NEW label \in {"cost", "latency"}, NEW s, Fraction(s), s.passed = (2 * s.num >= s.den),
         Verdict(label, s)
  PROVE  VerdictsSound'
<1>1. verdict' = [kind |-> label, expected |-> <<>>, actual |-> <<>>, strict |-> FALSE, subs |-> <<>>, score |-> s]
  BY DEF Verdict, NoVerdict
<1>2. verdict'.kind = label /\ verdict'.score = s
  BY <1>1
<1>3. label # "calls" /\ label # "composite"
  OBVIOUS
<1> QED
  BY <1>2, <1>3 DEF VerdictsSound, Fraction

\* What VerdictsSound says of one verdict.
Meant(v) ==
  /\ 0 <= v.score.num /\ v.score.num <= v.score.den /\ v.score.den > 0
  /\ v.kind = "calls" =>
       /\ v.score.passed => Occurs(v.expected, v.actual, v.strict)
       /\ ~v.strict => v.score.passed = Occurs(v.expected, v.actual, FALSE)
       /\ v.score.passed = (v.score.num = v.score.den)
  /\ v.kind \in {"cost", "latency"} => v.score.passed = (2 * v.score.num >= v.score.den)
  /\ v.kind = "composite" => Weighed(v.subs, v.score)

LEMMA MeantSound == Meant(verdict)' => VerdictsSound'
<1>1. Meant(verdict) => VerdictsSound
  BY Zenon DEF Meant, Occurs, Weighed, VerdictsSound
<1> QED
  BY <1>1, PTL

LEMMA CompositeVerdict ==
  ASSUME NEW subs, NEW s, Fraction(s), Weighed(subs, s),
         verdict' = [NoVerdict EXCEPT !.kind = "composite", !.subs = subs, !.score = s]
  PROVE  VerdictsSound'
<1>1. verdict'.kind = "composite" /\ verdict'.score = s /\ verdict'.subs = subs
  BY DEF NoVerdict
<1>2. "composite" # "calls" /\ "composite" # "cost" /\ "composite" # "latency"
  OBVIOUS
<1> QED
  <2>1. Meant(verdict')
    BY <1>1, <1>2, Zenon DEF Meant, Fraction
  <2> QED
    BY <2>1, MeantSound

LEMMA CallsVerdict ==
  ASSUME NEW e \in ToolCalls, NEW a \in ToolCalls, NEW strict \in BOOLEAN,
         verdict' = [kind |-> "calls", expected |-> e, actual |-> a, strict |-> strict, subs |-> <<>>,
                     score |-> ToolCallEval(e, a, strict)]
  PROVE  VerdictsSound'
<1>1. PICK s : s = ToolCallEval(e, a, strict)
  OBVIOUS
<1>2. /\ verdict'.kind = "calls" /\ verdict'.expected = e /\ verdict'.actual = a
      /\ verdict'.strict = strict /\ verdict'.score = s
  BY <1>1
<1>3. /\ s.num \in Nat /\ s.den \in Nat /\ s.num <= s.den /\ s.den > 0
      /\ s.passed \in BOOLEAN
      /\ s.passed => Occurs(e, a, strict)
      /\ ~strict => (s.passed <=> Occurs(e, a, FALSE))
      /\ s.passed <=> (s.num = s.den)
  BY <1>1, CallsSound
<1>4. 0 <= s.num /\ s.num <= s.den /\ s.den > 0
  BY <1>3
<1>5. s.passed = (s.num = s.den)
  BY <1>3, Zenon
<1>6. ~strict => s.passed = Occurs(e, a, FALSE)
  BY <1>3, Zenon DEF Occurs
<1>7. "calls" # "composite" /\ "calls" # "cost" /\ "calls" # "latency"
  OBVIOUS
<1>8. s.passed => Occurs(e, a, strict)
  BY <1>3
<1> QED
  <2>1. Meant(verdict')
    BY <1>2, <1>4, <1>5, <1>6, <1>7, <1>8, Zenon DEF Meant
  <2> QED
    BY <2>1, MeantSound

LEMMA JudgeSound ==
  ASSUME NEW lines, NEW s, s = ParseJudge(lines)
  PROVE  Fraction(s)
<1>1. \E n \in {0, 1} : \E passed : s = Score(n, 1, passed)
  BY DEF ParseJudge
<1> QED
  BY <1>1, ScoreFields

LEMMA CaseKeepsVerdicts == EvaluateCase => VerdictsSound'
<1> SUFFICES ASSUME EvaluateCase
             PROVE  VerdictsSound'
  OBVIOUS
<1>1. ASSUME NEW e \in ToolCalls, NEW a \in ToolCalls, NEW strict \in BOOLEAN,
             verdict' = [kind |-> "calls", expected |-> e, actual |-> a, strict |-> strict, subs |-> <<>>,
                         score |-> ToolCallEval(e, a, strict)]
      PROVE  VerdictsSound'
  BY <1>1, CallsVerdict
<1>2. ASSUME NEW k \in 0..2, NEW threshold \in 1..2, NEW n \in 0..k,
             Verdict("contains", ContainsEval(n, k, threshold))
      PROVE  VerdictsSound'
  <2>1. PICK s : s = ContainsEval(n, k, threshold)
    OBVIOUS
  <2>2. CASE k = 0
    <3>1. s = Score(1, 1, TRUE)
      BY <2>1, <2>2 DEF ContainsEval
    <3>2. Fraction(s)
      BY <3>1, Marks
    <3> QED
      BY <1>2, <2>1, <3>2, PlainVerdict
  <2>3. CASE k # 0
    <3>1. PICK passed : passed = (2 * n >= threshold * k)
      OBVIOUS
    <3>2. s = Score(n, k, passed)
      BY <2>1, <2>3, <3>1 DEF ContainsEval
    <3>3. n \in Int /\ k \in Int /\ 0 <= n /\ n <= k /\ k > 0
      BY <2>3
    <3>4. Fraction(s)
      BY <3>2, <3>3, ScoreFields
    <3> QED
      BY <1>2, <2>1, <3>4, PlainVerdict
  <2> QED
    BY <2>2, <2>3
<1>3. ASSUME NEW same \in BOOLEAN, Verdict("exact", ExactMatchEval(same))
      PROVE  VerdictsSound'
  <2>1. PICK s : s = ExactMatchEval(same)
    OBVIOUS
  <2>2. s = Score(1, 1, TRUE) \/ s = Score(0, 1, FALSE)
    BY <2>1 DEF ExactMatchEval
  <2>3. Fraction(s)
    BY <2>2, Marks
  <2> QED
    BY <1>3, <2>1, <2>3, PlainVerdict
<1>4. ASSUME NEW known \in {{}} \cup {{n} : n \in 0..3*EvalBudget}, NEW fail \in BOOLEAN,
             Verdict("cost", CostEval(known, fail))
      PROVE  VerdictsSound'
  <2>1. PICK s : s = CostEval(known, fail)
    OBVIOUS
  <2>2. CASE known = {}
    <3>1. s = Score(0, 1, FALSE) \/ s = Score(1, 1, TRUE)
      BY <2>1, <2>2 DEF CostEval
    <3>2. Fraction(s) /\ s.passed = (2 * s.num >= s.den)
      BY <3>1, Marks, Zenon
    <3> QED
      BY <1>4, <2>1, <3>2, SpentVerdict
  <2>3. CASE known # {}
    <3>1. PICK n \in 0..3*EvalBudget : known = {n}
      BY <2>3
    <3>2. (CHOOSE m \in known : TRUE) = n
      BY <3>1
    <3>3. s = LinearScore(n)
      BY <2>1, <2>3, <3>2 DEF CostEval
    <3>4. n \in Nat
      BY EvalAssumption
    <3>5. Fraction(s) /\ s.passed = (2 * s.num >= s.den)
      BY <3>3, <3>4, LinearSound
    <3> QED
      BY <1>4, <2>1, <3>5, SpentVerdict
  <2> QED
    BY <2>2, <2>3
<1>5. ASSUME NEW duration \in 0..3*EvalBudget, Verdict("latency", LatencyEval(duration))
      PROVE  VerdictsSound'
  <2>1. PICK s : s = LatencyEval(duration)
    OBVIOUS
  <2>2. duration \in Nat /\ s = LinearScore(duration)
    BY <2>1, EvalAssumption DEF LatencyEval
  <2>3. Fraction(s) /\ s.passed = (2 * s.num >= s.den)
    BY <2>2, LinearSound
  <2> QED
    BY <1>5, <2>1, <2>3, SpentVerdict
<1>6. ASSUME NEW lines \in [1..3 -> JudgeLine], Verdict("judge", ParseJudge(lines))
      PROVE  VerdictsSound'
  <2>1. PICK s : s = ParseJudge(lines)
    OBVIOUS
  <2>2. Fraction(s)
    BY <2>1, JudgeSound
  <2> QED
    BY <1>6, <2>1, <2>2, PlainVerdict
<1>7. ASSUME NEW n \in 0..2, NEW failFast \in BOOLEAN, NEW subs \in [1..n -> SubResult],
             verdict' = [NoVerdict EXCEPT !.kind = "composite", !.subs = subs,
                                          !.score = CompositeEval(subs, failFast)]
      PROVE  VerdictsSound'
  <2>1. PICK s : s = CompositeEval(subs, failFast)
    OBVIOUS
  <2>2. n \in Nat
    OBVIOUS
  <2>3. s.num \in Nat /\ s.den \in Nat /\ s.num <= s.den /\ s.den > 0 /\ Weighed(subs, s)
    BY <2>1, <2>2, CompositeSound
  <2>4. Fraction(s)
    BY <2>3 DEF Fraction
  <2> QED
    BY <1>7, <2>1, <2>3, <2>4, CompositeVerdict
<1> QED
  BY <1>1, <1>2, <1>3, <1>4, <1>5, <1>6, <1>7, Zenon DEF EvaluateCase

---------------------------------------------------------------------------
(* The batch *)

BatchRecord ==
  [at : {"new", "failed", "loop", "wait", "collect", "average", "done"}, mode : {"one", "many"},
   answered : SUBSET (1..Cases), next : 1..(Cases + 1), waiting : SUBSET (1..Cases),
   evaluating : SUBSET (1..Cases), slots : [1..Cases -> CaseOutcome \cup {"nil"}],
   read : 1..(Cases + 1), results : Seq([case : 1..Cases, outcome : CaseOutcome]),
   cancelled : BOOLEAN, stopped : BOOLEAN, pass : Nat, fail : Nat, errors : Nat, scored : Nat]

BatchTypeOK == batch \in BatchRecord

\* The results of a list that have one of the outcomes.
Having(results, set) == Cardinality({i \in DOMAIN results : results[i].outcome \in set})

\* The counters agree with the results collected so far.
Tally ==
  LET b == batch IN
  /\ b.pass + b.fail + b.errors = Len(b.results)
  /\ b.mode = "many" => Having(b.results, {"pass", "fail"}) = b.pass + b.fail
  /\ b.mode = "one" => Having(b.results, {"pass", "fail"}) + Having(b.results, {"partial"}) = b.pass + b.fail

\* The cases in the results, in their order: in a sequential batch those
\* evaluated, in a concurrent one those whose slot was read and written.
Ordered ==
  LET b == batch IN
  /\ \A i, j \in 1..Len(b.results) : i < j => b.results[i].case < b.results[j].case
  /\ b.mode = "one" => {b.results[i].case : i \in 1..Len(b.results)} = 1 .. b.next - 1
  /\ b.mode = "many" =>
       {b.results[i].case : i \in 1..Len(b.results)} = {i \in 1..Cases : i < b.read /\ b.slots[i] # "nil"}

\* Every case started is waiting, evaluating or written; the loop over the
\* slots begins when no case is waiting or evaluating, and ends behind the last.
Started ==
  LET b == batch IN
  /\ b.at \in {"wait", "collect"} => b.mode = "many"
  /\ b.mode = "many" => {i \in 1..Cases : b.slots[i] # "nil"} \cup b.waiting \cup b.evaluating = 1 .. b.next - 1
  /\ b.mode = "one" => b.waiting = {} /\ b.evaluating = {}
  /\ b.at \in {"collect", "average", "done"} => b.waiting = {} /\ b.evaluating = {}
  /\ b.at \in {"new", "failed", "loop", "wait"} => b.read = 1
  /\ b.at \in {"average", "done"} /\ b.mode = "many" => b.read = Cases + 1

\* The loop over the cases ended behind the last or by the cancellation.
Ended ==
  LET b == batch IN
  /\ b.at \in {"wait", "collect", "average", "done"} => b.next = Cases + 1 \/ (b.cancelled /\ b.stopped)
  /\ b.at = "done" => b.scored = Having(b.results, {"pass", "fail"})

BatchIInv == BatchTypeOK /\ Tally /\ Ordered /\ Started /\ Ended

EvalIInv == VerdictsSound /\ BatchIInv

LEMMA HavingNumber ==
  ASSUME NEW S, NEW results \in Seq(S), NEW set
  PROVE  IsFiniteSet({i \in DOMAIN results : results[i].outcome \in set}) /\ Having(results, set) \in Nat
<1>1. Len(results) \in Nat /\ DOMAIN results = 1..Len(results)
  OBVIOUS
<1>2. IsFiniteSet(1..Len(results))
  <2>1. \A x, y \in Int : IsFiniteSet(x..y)
    BY FS_Interval
  <2> QED
    BY <1>1, <2>1
<1>3. {i \in DOMAIN results : results[i].outcome \in set} \subseteq 1..Len(results)
  BY <1>1
<1>4. IsFiniteSet({i \in DOMAIN results : results[i].outcome \in set})
  BY <1>2, <1>3, FS_Subset
<1> QED
  BY <1>4, FS_CardinalityType DEF Having

LEMMA HavingAppended ==
  ASSUME NEW S, NEW results \in Seq(S), NEW r \in S, NEW set
  PROVE  Having(Append(results, r), set) = Having(results, set) + IF r.outcome \in set THEN 1 ELSE 0
<1> DEFINE more == Append(results, r)
           n == Len(results) + 1
           old == {i \in DOMAIN results : results[i].outcome \in set}
           new == {i \in DOMAIN more : more[i].outcome \in set}
<1>1. n \in Nat /\ n >= 1 /\ DOMAIN results = 1..(n - 1) /\ DOMAIN more = 1..n /\ more[n] = r
  OBVIOUS
<1>2. \A i \in 1..(n - 1) : more[i] = results[i]
  OBVIOUS
<1>3. IsFiniteSet(old) /\ Cardinality(old) \in Nat
  BY HavingNumber DEF Having
<1> HIDE DEF more, n
<1>4. new = IF r.outcome \in set THEN old \cup {n} ELSE old
  <2>1. \A i \in 1..n : i \in new <=> (i = n /\ r.outcome \in set) \/ i \in old
    <3> SUFFICES ASSUME NEW i \in 1..n
                 PROVE  i \in new <=> (i = n /\ r.outcome \in set) \/ i \in old
      OBVIOUS
    <3>1. CASE i = n
      BY <1>1, <3>1
    <3>2. CASE i # n
      <4>1. i \in 1..(n - 1)
        BY <1>1, <3>2
      <4> QED
        BY <1>1, <1>2, <3>2, <4>1
    <3> QED
      BY <3>1, <3>2
  <2>2. new \subseteq 1..n /\ old \subseteq 1..n /\ n \in 1..n
    BY <1>1
  <2> HIDE DEF old, new
  <2> QED
    BY <2>1, <2>2
<1>5. n \notin old
  BY <1>1
<1>6. Having(more, set) = Cardinality(new) /\ Having(results, set) = Cardinality(old)
  BY DEF Having
<1> HIDE DEF old, new
<1>7. Cardinality(old \cup {n}) = Cardinality(old) + 1
  BY <1>3, <1>5, FS_AddElement
<1>8. Having(more, set) = Having(results, set) + IF r.outcome \in set THEN 1 ELSE 0
  BY <1>3, <1>4, <1>6, <1>7
<1> QED
  BY <1>8 DEF more

\* The fields of the batch, one by one.
LEMMA BatchFields ==
  ASSUME BatchTypeOK
  PROVE  /\ batch.at \in {"new", "failed", "loop", "wait", "collect", "average", "done"}
         /\ batch.mode \in {"one", "many"} /\ batch.answered \subseteq 1..Cases
         /\ batch.next \in 1..(Cases + 1) /\ batch.read \in 1..(Cases + 1)
         /\ batch.waiting \subseteq 1..Cases /\ batch.evaluating \subseteq 1..Cases
         /\ batch.slots \in [1..Cases -> CaseOutcome \cup {"nil"}]
         /\ batch.results \in Seq([case : 1..Cases, outcome : CaseOutcome])
         /\ batch.cancelled \in BOOLEAN /\ batch.stopped \in BOOLEAN
         /\ batch.pass \in Nat /\ batch.fail \in Nat /\ batch.errors \in Nat /\ batch.scored \in Nat
BY DEF BatchTypeOK, BatchRecord

LEMMA BatchInit == EvalInit => EvalIInv
<1> SUFFICES ASSUME EvalInit
             PROVE  EvalIInv
  OBVIOUS
<1>1. Cases \in Nat
  BY EvalAssumption
<1>2. PICK mode \in {"one", "many"}, answered \in SUBSET (1..Cases) :
        batch = [at |-> "new", mode |-> mode, answered |-> answered, next |-> 1, waiting |-> {},
                 evaluating |-> {}, slots |-> [i \in 1..Cases |-> "nil"], read |-> 1, results |-> <<>>,
                 cancelled |-> FALSE, stopped |-> FALSE, pass |-> 0, fail |-> 0, errors |-> 0, scored |-> 0]
  BY DEF EvalInit
<1>3. BatchTypeOK
  BY <1>1, <1>2 DEF BatchTypeOK, BatchRecord
<1>4. /\ batch.at = "new" /\ batch.next = 1 /\ batch.read = 1 /\ batch.waiting = {} /\ batch.evaluating = {}
      /\ batch.slots = [i \in 1..Cases |-> "nil"] /\ batch.results = <<>>
      /\ batch.pass = 0 /\ batch.fail = 0 /\ batch.errors = 0
  BY <1>2
<1>5. \A set : Having(<<>>, set) = 0
  <2>1. \A set : {i \in DOMAIN <<>> : <<>>[i].outcome \in set} = {}
    OBVIOUS
  <2>2. Cardinality({}) = 0
    BY FS_EmptySet
  <2> QED
    BY <2>1, <2>2, Zenon DEF Having
<1>6. Len(<<>>) = 0 /\ \A i \in 1..0 : FALSE
  OBVIOUS
<1>7. Tally
  BY <1>4, <1>5, <1>6 DEF Tally
<1>8. Ordered
  <2>1. {batch.results[i].case : i \in 1..Len(batch.results)} = {}
    BY <1>4, <1>6
  <2>2. {i \in 1..Cases : i < batch.read /\ batch.slots[i] # "nil"} = {}
    BY <1>4
  <2>3. 1 .. batch.next - 1 = {}
    BY <1>4
  <2>4. \A i, j \in 1..Len(batch.results) : i < j => batch.results[i].case < batch.results[j].case
    BY <1>4, <1>6
  <2> QED
    BY <2>1, <2>2, <2>3, <2>4 DEF Ordered
<1>9. Started
  <2>1. {i \in 1..Cases : batch.slots[i] # "nil"} = {}
    BY <1>4
  <2>2. 1 .. batch.next - 1 = {}
    BY <1>4
  <2> QED
    BY <1>4, <2>1, <2>2 DEF Started
<1>10. Ended
  BY <1>4 DEF Ended
<1>11. VerdictsSound
  <2>1. verdict = NoVerdict
    BY DEF EvalInit
  <2>2. verdict.kind = "none" /\ verdict.score = Score(1, 1, TRUE)
    BY <2>1 DEF NoVerdict
  <2>3. Fraction(verdict.score)
    BY <2>2, Marks
  <2>4. "none" # "calls" /\ "none" # "cost" /\ "none" # "latency" /\ "none" # "composite"
    OBVIOUS
  <2> QED
    BY <2>2, <2>3, <2>4 DEF VerdictsSound, Fraction
<1> QED
  BY <1>3, <1>7, <1>8, <1>9, <1>10, <1>11 DEF EvalIInv, BatchIInv

LEMMA CancelKeepsBatch == BatchIInv /\ CancelBatch => BatchIInv'
<1> SUFFICES ASSUME BatchIInv, CancelBatch
             PROVE  BatchIInv'
  OBVIOUS
<1>1. BatchTypeOK /\ batch' = [batch EXCEPT !.cancelled = TRUE]
  BY DEF BatchIInv, CancelBatch
<1>2. BatchTypeOK'
  BY <1>1 DEF BatchTypeOK, BatchRecord
<1>3. /\ batch'.at = batch.at /\ batch'.mode = batch.mode /\ batch'.next = batch.next
      /\ batch'.waiting = batch.waiting /\ batch'.evaluating = batch.evaluating
      /\ batch'.slots = batch.slots /\ batch'.read = batch.read /\ batch'.results = batch.results
      /\ batch'.stopped = batch.stopped /\ batch'.cancelled = TRUE /\ batch'.pass = batch.pass
      /\ batch'.fail = batch.fail /\ batch'.errors = batch.errors /\ batch'.scored = batch.scored
  BY <1>1 DEF BatchTypeOK, BatchRecord
<1>4. Tally'
  BY <1>3 DEF BatchIInv, Tally
<1>5. Ordered'
  BY <1>3 DEF BatchIInv, Ordered
<1>6. Started'
  BY <1>3 DEF BatchIInv, Started
<1>7. Ended'
  BY <1>3 DEF BatchIInv, Ended
<1> QED
  BY <1>2, <1>4, <1>5, <1>6, <1>7 DEF BatchIInv

LEMMA RunAgentKeepsBatch == BatchIInv /\ RunAgent => BatchIInv'
<1> SUFFICES ASSUME BatchIInv, RunAgent
             PROVE  BatchIInv'
  OBVIOUS
<1>1. BatchTypeOK /\ batch.at = "new"
  BY DEF BatchIInv, RunAgent
<1>2. \E answered \in SUBSET (1..Cases), phase \in {"new", "failed", "loop"} :
        batch' = [batch EXCEPT !.answered = answered, !.at = phase]
  <2>1. CASE batch.answered # 1..Cases /\ batch' = [batch EXCEPT !.answered = @ \cup {Min(1..Cases \ @)}]
    <3>1. batch.answered \subseteq 1..Cases /\ 1..Cases \ batch.answered # {}
      BY <1>1, <2>1, BatchFields
    <3>2. 1..Cases \ batch.answered \subseteq Nat
      BY EvalAssumption
    <3>3. PICK i : i = Min(1..Cases \ batch.answered)
      OBVIOUS
    <3>4. i \in 1..Cases
      BY <3>1, <3>2, <3>3, LeastNumber
    <3>5. batch.answered \cup {i} \in SUBSET (1..Cases)
      BY <3>1, <3>4
    <3>6. batch' = [batch EXCEPT !.answered = batch.answered \cup {i}, !.at = "new"]
      BY <1>1, <2>1, <3>3 DEF BatchTypeOK, BatchRecord
    <3> QED
      BY <3>5, <3>6
  <2>2. CASE batch' = [batch EXCEPT !.at = "failed"]
    BY <1>1, <2>2 DEF BatchTypeOK, BatchRecord
  <2>3. CASE batch' = [batch EXCEPT !.at = "loop"]
    BY <1>1, <2>3 DEF BatchTypeOK, BatchRecord
  <2> QED
    BY <2>1, <2>2, <2>3 DEF RunAgent
<1>3. PICK answered \in SUBSET (1..Cases), phase \in {"new", "failed", "loop"} :
        batch' = [batch EXCEPT !.answered = answered, !.at = phase]
  BY <1>2
<1>4. BatchTypeOK'
  BY <1>1, <1>3 DEF BatchTypeOK, BatchRecord
<1>5. /\ batch'.at = phase /\ batch'.mode = batch.mode /\ batch'.next = batch.next
      /\ batch'.waiting = batch.waiting /\ batch'.evaluating = batch.evaluating
      /\ batch'.slots = batch.slots /\ batch'.read = batch.read /\ batch'.results = batch.results
      /\ batch'.pass = batch.pass /\ batch'.fail = batch.fail /\ batch'.errors = batch.errors
  BY <1>1, <1>3 DEF BatchTypeOK, BatchRecord
<1>6. Tally'
  BY <1>5 DEF BatchIInv, Tally
<1>7. Ordered'
  BY <1>5 DEF BatchIInv, Ordered
<1>8. Started'
  BY <1>1, <1>5 DEF BatchIInv, Started
<1>9. Ended'
  BY <1>5 DEF BatchIInv, Ended
<1> QED
  BY <1>4, <1>6, <1>7, <1>8, <1>9 DEF BatchIInv

\* The batch b has one more result than the batch, not yet counted.
Appended(b, i, o) ==
  /\ b \in BatchRecord /\ b.mode = batch.mode /\ b.results = Append(batch.results, Result(i, o))
  /\ b.pass = batch.pass /\ b.fail = batch.fail /\ b.errors = batch.errors

\* What counting a result with outcome o does to the tally.
LEMMA CountedFields ==
  ASSUME BatchIInv, NEW o \in CaseOutcome, NEW i \in 1..Cases, NEW b,
         Appended(b, i, o), batch' = Counted(b, o)
  PROVE  /\ BatchTypeOK' /\ Tally'
         /\ batch'.at = b.at /\ batch'.mode = b.mode /\ batch'.next = b.next
         /\ batch'.waiting = b.waiting /\ batch'.evaluating = b.evaluating
         /\ batch'.slots = b.slots /\ batch'.read = b.read /\ batch'.results = b.results
         /\ batch'.stopped = b.stopped /\ batch'.cancelled = b.cancelled /\ batch'.scored = b.scored
<1>1. PICK err : err = (o = "error" \/ (b.mode = "many" /\ o = "partial"))
  OBVIOUS
<1>2. PICK e, p, f : /\ e = b.errors + (IF err THEN 1 ELSE 0)
                     /\ p = b.pass + (IF o = "pass" THEN 1 ELSE 0)
                     /\ f = b.fail + (IF ~err /\ o # "pass" THEN 1 ELSE 0)
  OBVIOUS
<1>3. b.errors \in Nat /\ b.pass \in Nat /\ b.fail \in Nat /\ b.mode \in {"one", "many"}
  BY DEF Appended, BatchRecord
<1>4. e \in Nat /\ p \in Nat /\ f \in Nat
  <2>1. \A x \in Nat : \A c : x + (IF c THEN 1 ELSE 0) \in Nat
    OBVIOUS
  <2> QED
    BY <1>2, <1>3, <2>1, Zenon
<1>5. batch' = [b EXCEPT !.errors = e, !.pass = p, !.fail = f]
  BY <1>1, <1>2, Zenon DEF Counted
<1>6. BatchTypeOK'
  BY ZenonT(60), <1>4, <1>5 DEF Appended, BatchTypeOK, BatchRecord
<1>7. /\ batch'.at = b.at /\ batch'.mode = b.mode /\ batch'.next = b.next
      /\ batch'.waiting = b.waiting /\ batch'.evaluating = b.evaluating
      /\ batch'.slots = b.slots /\ batch'.read = b.read /\ batch'.results = b.results
      /\ batch'.stopped = b.stopped /\ batch'.cancelled = b.cancelled /\ batch'.scored = b.scored
  BY <1>5 DEF Appended, BatchRecord
<1>8. batch'.errors = e /\ batch'.pass = p /\ batch'.fail = f
  BY <1>5 DEF Appended, BatchRecord
<1>9. Tally'
  <2>1. BatchTypeOK /\ Tally
    BY DEF BatchIInv
  <2>2. PICK r : r = Result(i, o)
    OBVIOUS
  <2>3. r \in [case : 1..Cases, outcome : CaseOutcome] /\ r.outcome = o
    BY <2>2 DEF Result
  <2>4. batch.results \in Seq([case : 1..Cases, outcome : CaseOutcome])
    BY <2>1, BatchFields
  <2>5. Len(b.results) = Len(batch.results) + 1 /\ Len(batch.results) \in Nat
    BY <2>2, <2>3, <2>4 DEF Appended
  <2>6. \A set : Having(b.results, set) = Having(batch.results, set) + IF o \in set THEN 1 ELSE 0
    <3> SUFFICES ASSUME NEW set
                 PROVE  Having(b.results, set) = Having(batch.results, set) + IF o \in set THEN 1 ELSE 0
      OBVIOUS
    <3>1. \A S : r \in S /\ batch.results \in Seq(S) =>
            Having(Append(batch.results, r), set) = Having(batch.results, set) + IF r.outcome \in set THEN 1 ELSE 0
      BY HavingAppended
    <3>2. b.results = Append(batch.results, r)
      BY <2>2 DEF Appended
    <3> QED
      BY <2>3, <2>4, <3>1, <3>2, Zenon
  <2>7. \A set : Having(batch.results, set) \in Nat
    BY <2>4, HavingNumber
  <2>8. PICK pf, q, pf1, q1 :
          /\ pf = Having(batch.results, {"pass", "fail"}) /\ q = Having(batch.results, {"partial"})
          /\ pf1 = Having(b.results, {"pass", "fail"}) /\ q1 = Having(b.results, {"partial"})
    OBVIOUS
  <2>9. /\ pf \in Nat /\ q \in Nat
        /\ pf1 = pf + (IF o \in {"pass", "fail"} THEN 1 ELSE 0) /\ q1 = q + (IF o \in {"partial"} THEN 1 ELSE 0)
    BY <2>6, <2>7, <2>8, Zenon
  <2>10. /\ batch.pass + batch.fail + batch.errors = Len(batch.results)
         /\ batch.mode = "many" => pf = batch.pass + batch.fail
         /\ batch.mode = "one" => pf + q = batch.pass + batch.fail
    BY <2>1, <2>8 DEF Tally
  <2>11. o \in {"pass", "fail", "partial", "error"}
    BY DEF CaseOutcome
  <2>12. /\ p + f + e = Len(b.results)
         /\ b.mode = "many" => pf1 = p + f
         /\ b.mode = "one" => pf1 + q1 = p + f
    <3> DEFINE err1 == o = "error" \/ (b.mode = "many" /\ o = "partial")
    <3>1. (err <=> err1) /\ b.mode = batch.mode /\ b.pass = batch.pass /\ b.fail = batch.fail /\ b.errors = batch.errors
      BY <1>1 DEF Appended
    <3>2. \A x \in Nat : x + 0 = x
      OBVIOUS
    <3>3. err1 => e = b.errors + 1 /\ f = b.fail
      BY <1>2, <1>3, <3>1, <3>2, Zenon
    <3>4. ~err1 => e = b.errors /\ (o = "pass" => f = b.fail) /\ (o # "pass" => f = b.fail + 1)
      BY <1>2, <1>3, <3>1, <3>2, Zenon
    <3>5. (o = "pass" => p = b.pass + 1) /\ (o # "pass" => p = b.pass)
      BY <1>2, <1>3, <3>2, Zenon
    <3>6. /\ o \in {"pass", "fail"} => pf1 = pf + 1
          /\ o \notin {"pass", "fail"} => pf1 = pf
          /\ o = "partial" => q1 = q + 1
          /\ o # "partial" => q1 = q
      BY <2>9, <3>2
    <3>7. PICK n : n = Len(batch.results)
      OBVIOUS
    <3>8. p + f + e = n + 1 /\ (b.mode = "many" => pf1 = p + f) /\ (b.mode = "one" => pf1 + q1 = p + f)
      <4>1. pf \in Nat /\ q \in Nat /\ n \in Nat
        BY <2>5, <2>9, <3>7
      <4>2. /\ b.pass + b.fail + b.errors = n
            /\ b.mode = "many" => pf = b.pass + b.fail
            /\ b.mode = "one" => pf + q = b.pass + b.fail
        BY <2>10, <3>1, <3>7
      <4>3. CASE o = "pass"
        <5>1. e = b.errors /\ p = b.pass + 1 /\ f = b.fail /\ pf1 = pf + 1 /\ q1 = q
          BY <3>4, <3>5, <3>6, <4>3
        <5> QED
          BY <1>3, <4>1, <4>2, <5>1
      <4>4. CASE o = "fail"
        BY <1>3, <3>4, <3>5, <3>6, <4>1, <4>2, <4>4
      <4>5. CASE o = "partial" /\ b.mode = "one"
        BY <1>3, <3>4, <3>5, <3>6, <4>1, <4>2, <4>5
      <4>6. CASE o = "partial" /\ b.mode = "many"
        BY <1>3, <3>3, <3>5, <3>6, <4>1, <4>2, <4>6
      <4>7. CASE o = "error"
        BY <1>3, <3>3, <3>5, <3>6, <4>1, <4>2, <4>7
      <4> QED
        BY <1>3, <2>11, <4>3, <4>4, <4>5, <4>6, <4>7
    <3> QED
      BY <2>5, <3>7, <3>8
  <2> QED
    BY <1>7, <1>8, <2>8, <2>12 DEF Tally
<1> QED
  BY <1>6, <1>7, <1>9

\* The cases of the results and the order among them, one result later.
CaseSet(results) == {results[j].case : j \in 1..Len(results)}
Rising(results) == \A j, k \in 1..Len(results) : j < k => results[j].case < results[k].case

LEMMA CasesAppended ==
  ASSUME NEW results \in Seq([case : 1..Cases, outcome : CaseOutcome]), NEW o \in CaseOutcome,
         NEW i \in 1..Cases, Rising(results), \A c \in CaseSet(results) : c < i
  PROVE  /\ CaseSet(Append(results, Result(i, o))) = CaseSet(results) \cup {i}
         /\ Rising(Append(results, Result(i, o)))
<1>0. PICK more : more = Append(results, Result(i, o))
  OBVIOUS
<1>1. PICK r : r = Result(i, o)
  OBVIOUS
<1>2. r \in [case : 1..Cases, outcome : CaseOutcome] /\ r.case = i
  BY <1>1 DEF Result
<1>3. PICK n : n = Len(results)
  OBVIOUS
<1>4. n \in Nat /\ Len(more) = n + 1 /\ more[n + 1].case = i /\ \A j \in 1..n : more[j] = results[j]
  BY <1>0, <1>1, <1>2, <1>3
<1>5. {more[j].case : j \in 1..(n + 1)} = {results[j].case : j \in 1..n} \cup {i}
  <2>1. 1..(n + 1) = 1..n \cup {n + 1}
    BY <1>4
  <2> QED
    BY <1>4, <2>1
<1>6. ASSUME NEW j \in 1..(n + 1), NEW k \in 1..(n + 1), j < k
      PROVE  more[j].case < more[k].case
  <2>1. j \in 1..n
    BY <1>4, <1>6
  <2>2. CASE k = n + 1
    <3>1. results[j].case < i
      BY <1>3, <2>1 DEF CaseSet
    <3> QED
      BY <1>4, <2>1, <2>2, <3>1
  <2>3. CASE k # n + 1
    <3>1. k \in 1..n
      BY <1>4, <2>3
    <3> QED
      BY <1>3, <1>4, <1>6, <2>1, <3>1 DEF Rising
  <2> QED
    BY <2>2, <2>3
<1>7. Len(more) = n + 1
  BY <1>4
<1> QED
  BY <1>0, <1>3, <1>5, <1>6, <1>7, Zenon DEF CaseSet, Rising

LEMMA EvaluateNextKeepsBatch == BatchIInv /\ EvaluateNext => BatchIInv'
<1> SUFFICES ASSUME BatchIInv, EvaluateNext
             PROVE  BatchIInv'
  OBVIOUS
<1>0. Cases \in Nat
  BY EvalAssumption
<1>1. BatchTypeOK /\ batch.at = "loop" /\ batch.mode = "one" /\ batch.next \in 1..(Cases + 1)
  BY BatchFields DEF BatchIInv, EvaluateNext
<1>2. /\ Tally /\ Started /\ Ended
      /\ \A i, j \in 1..Len(batch.results) : i < j => batch.results[i].case < batch.results[j].case
      /\ {batch.results[i].case : i \in 1..Len(batch.results)} = 1 .. batch.next - 1
  BY <1>1 DEF BatchIInv, Ordered
<1>3. CASE batch.next > Cases \/ batch.cancelled
  <2>0. (batch.next <= Cases) \in BOOLEAN
    BY <1>0, <1>1
  <2>1. PICK stopped \in BOOLEAN : stopped = (batch.next <= Cases)
    BY <2>0, Zenon
  <2>2. batch' = [batch EXCEPT !.at = "average", !.stopped = stopped]
    BY <1>3, <2>1, Zenon DEF EvaluateNext
  <2>3. BatchTypeOK'
    BY <1>1, <2>2 DEF BatchTypeOK, BatchRecord
  <2>4. /\ batch'.at = "average" /\ batch'.mode = batch.mode /\ batch'.next = batch.next
        /\ batch'.waiting = batch.waiting /\ batch'.evaluating = batch.evaluating
        /\ batch'.slots = batch.slots /\ batch'.read = batch.read /\ batch'.results = batch.results
        /\ batch'.stopped = stopped /\ batch'.cancelled = batch.cancelled /\ batch'.pass = batch.pass
        /\ batch'.fail = batch.fail /\ batch'.errors = batch.errors
    BY <1>1, <2>2 DEF BatchTypeOK, BatchRecord
  <2>5. Tally'
    BY <2>4 DEF BatchIInv, Tally
  <2>6. Ordered'
    BY <2>4 DEF BatchIInv, Ordered
  <2>7. Started'
    BY <1>1, <1>2, <2>4 DEF Started
  <2>8. batch.next = Cases + 1 \/ (batch.cancelled /\ stopped)
    <3>1. batch.next <= Cases \/ batch.next = Cases + 1
      BY <1>0, <1>1
    <3>2. CASE batch.next <= Cases
      <4>1. stopped
        BY <2>1, <3>2, Zenon
      <4>2. ~(batch.next > Cases)
        BY <1>0, <1>1, <3>2
      <4> QED
        BY <1>3, <4>1, <4>2
    <3> QED
      BY <3>1, <3>2
  <2>9. Ended'
    BY <2>4, <2>8 DEF Ended
  <2> QED
    BY <2>3, <2>5, <2>6, <2>7, <2>9 DEF BatchIInv
<1>4. CASE ~(batch.next > Cases \/ batch.cancelled)
  <2>1. batch.next \in 1..Cases
    BY <1>0, <1>1, <1>4
  <2>2. PICK o \in CaseOutcome :
          batch' = Counted([batch EXCEPT !.next = @ + 1, !.results = Append(@, Result(batch.next, o))], o)
    BY <1>4 DEF EvaluateNext
  <2>3. PICK next, results : next = batch.next + 1 /\ results = Append(batch.results, Result(batch.next, o))
    OBVIOUS
  <2>4. PICK b : b = [batch EXCEPT !.next = next, !.results = results]
    OBVIOUS
  <2>5. batch' = Counted(b, o)
    BY <2>2, <2>3, <2>4
  <2>6. next \in 1..(Cases + 1) /\ results \in Seq([case : 1..Cases, outcome : CaseOutcome])
    <3>1. batch.results \in Seq([case : 1..Cases, outcome : CaseOutcome])
      BY <1>1, BatchFields
    <3>2. Result(batch.next, o) \in [case : 1..Cases, outcome : CaseOutcome]
      BY <2>1 DEF Result
    <3>3. results \in Seq([case : 1..Cases, outcome : CaseOutcome])
      BY <2>3, <3>1, <3>2
    <3> QED
      BY <1>0, <2>1, <2>3, <3>3
  <2>7. b \in BatchRecord
    BY <1>1, <2>4, <2>6 DEF BatchTypeOK, BatchRecord
  <2>8. /\ b.at = batch.at /\ b.mode = batch.mode /\ b.next = next
        /\ b.waiting = batch.waiting /\ b.evaluating = batch.evaluating
        /\ b.slots = batch.slots /\ b.read = batch.read /\ b.results = results
        /\ b.stopped = batch.stopped /\ b.cancelled = batch.cancelled /\ b.pass = batch.pass
        /\ b.fail = batch.fail /\ b.errors = batch.errors
    BY <1>1, <2>4 DEF BatchTypeOK, BatchRecord
  <2>9. Appended(b, batch.next, o)
    BY <2>3, <2>7, <2>8 DEF Appended
  <2>10. /\ BatchTypeOK' /\ Tally'
         /\ batch'.at = batch.at /\ batch'.mode = batch.mode /\ batch'.next = next
         /\ batch'.waiting = batch.waiting /\ batch'.evaluating = batch.evaluating
         /\ batch'.slots = batch.slots /\ batch'.read = batch.read /\ batch'.results = results
    BY <2>1, <2>5, <2>8, <2>9, CountedFields
  <2>11. Started'
    BY <1>1, <1>2, <2>10 DEF Started
  <2>12. Ended'
    BY <1>1, <2>10 DEF Ended
  <2>13. \A j \in 1..Len(batch.results) : batch.results[j].case < batch.next
    <3> SUFFICES ASSUME NEW j \in 1..Len(batch.results)
                 PROVE  batch.results[j].case < batch.next
      OBVIOUS
    <3>1. batch.results[j].case \in 1 .. batch.next - 1
      BY <1>2
    <3> QED
      BY <2>1, <3>1
  <2>14. /\ {results[j].case : j \in 1..Len(results)} = (1 .. batch.next - 1) \cup {batch.next}
         /\ \A j, k \in 1..Len(results) : j < k => results[j].case < results[k].case
    <3>1. batch.results \in Seq([case : 1..Cases, outcome : CaseOutcome])
      BY <1>1, BatchFields
    <3>2. Rising(batch.results) /\ \A c \in CaseSet(batch.results) : c < batch.next
      BY <1>2, <2>13, Zenon DEF Rising, CaseSet
    <3>3. CaseSet(results) = CaseSet(batch.results) \cup {batch.next} /\ Rising(results)
      BY <2>1, <2>3, <3>1, <3>2, CasesAppended
    <3> QED
      BY <1>2, <3>3, Zenon DEF CaseSet, Rising
  <2>15. (1 .. batch.next - 1) \cup {batch.next} = 1 .. next - 1
    BY <2>1, <2>3
  <2>16. Ordered'
    BY <1>1, <2>10, <2>14, <2>15 DEF Ordered
  <2> QED
    BY <2>10, <2>11, <2>12, <2>16 DEF BatchIInv
<1> QED
  BY <1>3, <1>4

LEMMA StartCaseKeepsBatch == BatchIInv /\ StartCase => BatchIInv'
<1> SUFFICES ASSUME BatchIInv, StartCase
             PROVE  BatchIInv'
  OBVIOUS
<1>0. Cases \in Nat
  BY EvalAssumption
<1>1. BatchTypeOK /\ batch.at = "loop" /\ batch.mode = "many" /\ batch.next \in 1..(Cases + 1)
  BY BatchFields DEF BatchIInv, StartCase
<1>2. /\ {i \in 1..Cases : batch.slots[i] # "nil"} \cup batch.waiting \cup batch.evaluating = 1 .. batch.next - 1
      /\ batch.read = 1
  BY <1>1 DEF BatchIInv, Started
<1>3. CASE batch.next > Cases \/ batch.cancelled
  <2>0. (batch.next <= Cases) \in BOOLEAN
    BY <1>0, <1>1
  <2>1. PICK stopped \in BOOLEAN : stopped = (batch.next <= Cases)
    BY <2>0, Zenon
  <2>2. batch' = [batch EXCEPT !.at = "wait", !.stopped = stopped]
    BY <1>3, <2>1, Zenon DEF StartCase
  <2>3. BatchTypeOK'
    BY <1>1, <2>2 DEF BatchTypeOK, BatchRecord
  <2>4. /\ batch'.at = "wait" /\ batch'.mode = batch.mode /\ batch'.next = batch.next
        /\ batch'.waiting = batch.waiting /\ batch'.evaluating = batch.evaluating
        /\ batch'.slots = batch.slots /\ batch'.read = batch.read /\ batch'.results = batch.results
        /\ batch'.stopped = stopped /\ batch'.cancelled = batch.cancelled /\ batch'.pass = batch.pass
        /\ batch'.fail = batch.fail /\ batch'.errors = batch.errors
    BY <1>1, <2>2 DEF BatchTypeOK, BatchRecord
  <2>5. Tally'
    BY <2>4 DEF BatchIInv, Tally
  <2>6. Ordered'
    BY <2>4 DEF BatchIInv, Ordered
  <2>7. Started'
    BY <1>1, <1>2, <2>4 DEF Started
  <2>8. batch.next = Cases + 1 \/ (batch.cancelled /\ stopped)
    <3>1. batch.next <= Cases \/ batch.next = Cases + 1
      BY <1>0, <1>1
    <3>2. CASE batch.next <= Cases
      <4>1. stopped
        BY <2>1, <3>2, Zenon
      <4>2. ~(batch.next > Cases)
        BY <1>0, <1>1, <3>2
      <4> QED
        BY <1>3, <4>1, <4>2
    <3> QED
      BY <3>1, <3>2
  <2>9. Ended'
    BY <2>4, <2>8 DEF Ended
  <2> QED
    BY <2>3, <2>5, <2>6, <2>7, <2>9 DEF BatchIInv
<1>4. CASE ~(batch.next > Cases \/ batch.cancelled)
  <2>1. batch.next \in 1..Cases
    BY <1>0, <1>1, <1>4
  <2>2. PICK next, waiting : next = batch.next + 1 /\ waiting = batch.waiting \cup {batch.next}
    OBVIOUS
  <2>3. batch' = [batch EXCEPT !.waiting = waiting, !.next = next]
    BY <1>4, <2>2 DEF StartCase
  <2>4. next \in 1..(Cases + 1) /\ waiting \in SUBSET (1..Cases)
    BY <1>0, <1>1, <2>1, <2>2, BatchFields
  <2>5. BatchTypeOK'
    BY <1>1, <2>3, <2>4 DEF BatchTypeOK, BatchRecord
  <2>6. /\ batch'.at = batch.at /\ batch'.mode = batch.mode /\ batch'.next = next
        /\ batch'.waiting = waiting /\ batch'.evaluating = batch.evaluating
        /\ batch'.slots = batch.slots /\ batch'.read = batch.read /\ batch'.results = batch.results
        /\ batch'.pass = batch.pass /\ batch'.fail = batch.fail /\ batch'.errors = batch.errors
    BY <1>1, <2>3 DEF BatchTypeOK, BatchRecord
  <2>7. Tally'
    BY <2>6 DEF BatchIInv, Tally
  <2>8. Ordered'
    BY <1>1, <2>6 DEF BatchIInv, Ordered
  <2>9. (1 .. batch.next - 1) \cup {batch.next} = 1 .. next - 1
    BY <2>1, <2>2
  <2>10. {i \in 1..Cases : batch.slots[i] # "nil"} \cup waiting \cup batch.evaluating = 1 .. next - 1
    BY <1>2, <2>2, <2>9
  <2>11. Started'
    BY <1>1, <1>2, <2>6, <2>10 DEF Started
  <2>12. Ended'
    BY <1>1, <2>6 DEF Ended
  <2> QED
    BY <2>5, <2>7, <2>8, <2>11, <2>12 DEF BatchIInv
<1> QED
  BY <1>3, <1>4

LEMMA TakeSemKeepsBatch == ASSUME BatchIInv, NEW i \in 1..Cases, TakeSem(i) PROVE BatchIInv'
<1>1. BatchTypeOK /\ i \in batch.waiting
  BY DEF BatchIInv, TakeSem
<1>2. PICK waiting, evaluating : waiting = batch.waiting \ {i} /\ evaluating = batch.evaluating \cup {i}
  OBVIOUS
<1>3. batch' = [batch EXCEPT !.waiting = waiting, !.evaluating = evaluating]
  BY <1>2 DEF TakeSem
<1>4. waiting \in SUBSET (1..Cases) /\ evaluating \in SUBSET (1..Cases)
  BY <1>1, <1>2, BatchFields
<1>5. BatchTypeOK'
  BY <1>1, <1>3, <1>4 DEF BatchTypeOK, BatchRecord
<1>6. /\ batch'.at = batch.at /\ batch'.mode = batch.mode /\ batch'.next = batch.next
      /\ batch'.waiting = waiting /\ batch'.evaluating = evaluating
      /\ batch'.slots = batch.slots /\ batch'.read = batch.read /\ batch'.results = batch.results
      /\ batch'.stopped = batch.stopped /\ batch'.cancelled = batch.cancelled /\ batch'.pass = batch.pass
      /\ batch'.fail = batch.fail /\ batch'.errors = batch.errors /\ batch'.scored = batch.scored
  BY <1>1, <1>3 DEF BatchTypeOK, BatchRecord
<1>7. Tally'
  BY <1>6 DEF BatchIInv, Tally
<1>8. Ordered'
  BY <1>6 DEF BatchIInv, Ordered
<1>9. waiting \cup evaluating = batch.waiting \cup batch.evaluating
  BY <1>1, <1>2
<1>10. Started /\ batch.mode \in {"one", "many"} /\ batch.mode # "one" /\ batch.at \notin {"collect", "average", "done"}
  BY <1>1, BatchFields DEF BatchIInv, Started
<1>11. {j \in 1..Cases : batch.slots[j] # "nil"} \cup waiting \cup evaluating = 1 .. batch.next - 1
  BY <1>9, <1>10 DEF Started
<1>12. Started'
  BY <1>6, <1>10, <1>11 DEF Started
<1>13. Ended'
  BY <1>6 DEF BatchIInv, Ended
<1> QED
  BY <1>5, <1>7, <1>8, <1>12, <1>13 DEF BatchIInv

LEMMA FinishCaseKeepsBatch == ASSUME BatchIInv, NEW i \in 1..Cases, FinishCase(i) PROVE BatchIInv'
<1>1. BatchTypeOK /\ i \in batch.evaluating
  BY DEF BatchIInv, FinishCase
<1>2. PICK o \in CaseOutcome : batch' = [batch EXCEPT !.evaluating = @ \ {i}, !.slots[i] = o]
  BY DEF FinishCase
<1>3. PICK evaluating, filling : evaluating = batch.evaluating \ {i} /\ filling = [batch.slots EXCEPT ![i] = o]
  OBVIOUS
<1>4. batch' = [batch EXCEPT !.evaluating = evaluating, !.slots = filling]
  BY <1>2, <1>3
<1>5. evaluating \in SUBSET (1..Cases) /\ filling \in [1..Cases -> CaseOutcome \cup {"nil"}]
  BY <1>1, <1>3, BatchFields
<1>6. BatchTypeOK'
  BY <1>1, <1>4, <1>5 DEF BatchTypeOK, BatchRecord
<1>7. /\ batch'.at = batch.at /\ batch'.mode = batch.mode /\ batch'.next = batch.next
      /\ batch'.waiting = batch.waiting /\ batch'.evaluating = evaluating
      /\ batch'.slots = filling /\ batch'.read = batch.read /\ batch'.results = batch.results
      /\ batch'.stopped = batch.stopped /\ batch'.cancelled = batch.cancelled /\ batch'.pass = batch.pass
      /\ batch'.fail = batch.fail /\ batch'.errors = batch.errors /\ batch'.scored = batch.scored
  BY <1>1, <1>4 DEF BatchTypeOK, BatchRecord
<1>8. Tally'
  BY <1>7 DEF BatchIInv, Tally
<1>9. /\ Started /\ batch.mode = "many" /\ batch.at \in {"new", "failed", "loop", "wait"} /\ batch.read = 1
  BY <1>1, BatchFields DEF BatchIInv, Started
<1>10. o # "nil"
  BY DEF CaseOutcome
<1>11. {j \in 1..Cases : filling[j] # "nil"} = {j \in 1..Cases : batch.slots[j] # "nil"} \cup {i}
  BY <1>1, <1>3, <1>10, BatchFields
<1>12. {j \in 1..Cases : filling[j] # "nil"} \cup batch.waiting \cup evaluating = 1 .. batch.next - 1
  <2>1. {j \in 1..Cases : batch.slots[j] # "nil"} \cup batch.waiting \cup batch.evaluating = 1 .. batch.next - 1
    BY <1>9 DEF Started
  <2>2. PICK filled, filled1 : /\ filled = {j \in 1..Cases : batch.slots[j] # "nil"}
                               /\ filled1 = {j \in 1..Cases : filling[j] # "nil"}
    OBVIOUS
  <2>3. filled1 = filled \cup {i} /\ filled \cup batch.waiting \cup batch.evaluating = 1 .. batch.next - 1
    BY <1>11, <2>1, <2>2
  <2>4. filled1 \cup batch.waiting \cup evaluating = 1 .. batch.next - 1
    BY <1>1, <1>3, <2>3
  <2> QED
    BY <2>2, <2>4
<1>13. Started'
  BY <1>7, <1>9, <1>12 DEF Started
<1>14. \A j \in 1..Cases : ~(j < 1)
  OBVIOUS
<1>15. Ordered'
  BY <1>7, <1>9, <1>14 DEF BatchIInv, Ordered
<1>16. Ended'
  BY <1>7 DEF BatchIInv, Ended
<1> QED
  BY <1>6, <1>8, <1>13, <1>15, <1>16 DEF BatchIInv

LEMMA WaitAllKeepsBatch == BatchIInv /\ WaitAll => BatchIInv'
<1> SUFFICES ASSUME BatchIInv, WaitAll
             PROVE  BatchIInv'
  OBVIOUS
<1>1. /\ BatchTypeOK /\ batch.at = "wait" /\ batch.waiting = {} /\ batch.evaluating = {}
      /\ batch' = [batch EXCEPT !.at = "collect"]
  BY DEF BatchIInv, WaitAll
<1>2. BatchTypeOK'
  BY <1>1 DEF BatchTypeOK, BatchRecord
<1>3. /\ batch'.at = "collect" /\ batch'.mode = batch.mode /\ batch'.next = batch.next
      /\ batch'.waiting = batch.waiting /\ batch'.evaluating = batch.evaluating
      /\ batch'.slots = batch.slots /\ batch'.read = batch.read /\ batch'.results = batch.results
      /\ batch'.stopped = batch.stopped /\ batch'.cancelled = batch.cancelled /\ batch'.pass = batch.pass
      /\ batch'.fail = batch.fail /\ batch'.errors = batch.errors /\ batch'.scored = batch.scored
  BY <1>1 DEF BatchTypeOK, BatchRecord
<1>4. Tally'
  BY <1>3 DEF BatchIInv, Tally
<1>5. Ordered'
  BY <1>3 DEF BatchIInv, Ordered
<1>6. Started'
  BY <1>1, <1>3 DEF BatchIInv, Started
<1>7. Ended'
  BY <1>1, <1>3 DEF BatchIInv, Ended
<1> QED
  BY <1>2, <1>4, <1>5, <1>6, <1>7 DEF BatchIInv

LEMMA CollectNextKeepsBatch == BatchIInv /\ CollectNext => BatchIInv'
<1> SUFFICES ASSUME BatchIInv, CollectNext
             PROVE  BatchIInv'
  OBVIOUS
<1>0. Cases \in Nat
  BY EvalAssumption
<1>1. BatchTypeOK /\ batch.at = "collect" /\ batch.read \in 1..(Cases + 1)
  BY BatchFields DEF BatchIInv, CollectNext
<1>2. /\ Tally /\ Ordered /\ Started /\ Ended /\ batch.mode = "many"
      /\ \A i, j \in 1..Len(batch.results) : i < j => batch.results[i].case < batch.results[j].case
      /\ {batch.results[i].case : i \in 1..Len(batch.results)}
           = {i \in 1..Cases : i < batch.read /\ batch.slots[i] # "nil"}
  BY <1>1 DEF BatchIInv, Ordered, Started
<1>3. CASE batch.read > Cases
  <2>1. batch' = [batch EXCEPT !.at = "average"] /\ batch.read = Cases + 1
    BY <1>0, <1>1, <1>3 DEF CollectNext
  <2>2. BatchTypeOK'
    BY <1>1, <2>1 DEF BatchTypeOK, BatchRecord
  <2>3. /\ batch'.at = "average" /\ batch'.mode = batch.mode /\ batch'.next = batch.next
        /\ batch'.waiting = batch.waiting /\ batch'.evaluating = batch.evaluating
        /\ batch'.slots = batch.slots /\ batch'.read = batch.read /\ batch'.results = batch.results
        /\ batch'.stopped = batch.stopped /\ batch'.cancelled = batch.cancelled /\ batch'.pass = batch.pass
        /\ batch'.fail = batch.fail /\ batch'.errors = batch.errors
    BY <1>1, <2>1 DEF BatchTypeOK, BatchRecord
  <2>4. Tally'
    BY <2>3 DEF BatchIInv, Tally
  <2>5. Ordered'
    BY <2>3 DEF BatchIInv, Ordered
  <2>6. Started'
    BY <1>1, <1>2, <2>1, <2>3 DEF Started
  <2>7. Ended'
    BY <1>1, <1>2, <2>3 DEF Ended
  <2> QED
    BY <2>2, <2>4, <2>5, <2>6, <2>7 DEF BatchIInv
<1>4. CASE ~(batch.read > Cases) /\ batch.slots[batch.read] = "nil"
  <2>1. batch.read \in 1..Cases
    BY <1>0, <1>1, <1>4
  <2>2. PICK read : read = batch.read + 1
    OBVIOUS
  <2>3. batch' = [batch EXCEPT !.read = read]
    BY <1>4, <2>2 DEF CollectNext
  <2>4. read \in 1..(Cases + 1)
    BY <1>0, <2>1, <2>2
  <2>5. BatchTypeOK'
    BY <1>1, <2>3, <2>4 DEF BatchTypeOK, BatchRecord
  <2>6. /\ batch'.at = "collect" /\ batch'.mode = batch.mode /\ batch'.next = batch.next
        /\ batch'.waiting = batch.waiting /\ batch'.evaluating = batch.evaluating
        /\ batch'.slots = batch.slots /\ batch'.read = read /\ batch'.results = batch.results
        /\ batch'.stopped = batch.stopped /\ batch'.cancelled = batch.cancelled /\ batch'.pass = batch.pass
        /\ batch'.fail = batch.fail /\ batch'.errors = batch.errors
    BY <1>1, <2>3 DEF BatchTypeOK, BatchRecord
  <2>7. Tally'
    BY <2>6 DEF BatchIInv, Tally
  <2>8. \A i \in 1..Cases : i < read /\ batch.slots[i] # "nil" <=> i < batch.read /\ batch.slots[i] # "nil"
    BY <1>4, <2>1, <2>2
  <2>9. Ordered'
    BY <1>2, <2>6, <2>8 DEF Ordered
  <2>10. Started'
    BY <1>1, <1>2, <2>6 DEF Started
  <2>11. Ended'
    BY <1>1, <1>2, <2>6 DEF Ended
  <2> QED
    BY <2>5, <2>7, <2>9, <2>10, <2>11 DEF BatchIInv
<1>5. CASE ~(batch.read > Cases) /\ batch.slots[batch.read] # "nil"
  <2>1. PICK i : i = batch.read
    OBVIOUS
  <2>2. i \in 1..Cases
    BY <1>0, <1>1, <1>5, <2>1
  <2>3. PICK o : o = batch.slots[i]
    OBVIOUS
  <2>4. o \in CaseOutcome
    BY <1>1, <1>5, <2>1, <2>2, <2>3, BatchFields
  <2>5. PICK read, results : read = i + 1 /\ results = Append(batch.results, Result(i, o))
    OBVIOUS
  <2>6. PICK b : b = [batch EXCEPT !.read = read, !.results = results]
    OBVIOUS
  <2>7. batch' = Counted(b, o)
    <3>1. batch' = Counted([[batch EXCEPT !.read = @ + 1] EXCEPT !.results = Append(@, Result(i, o))], o)
      BY <1>5, <2>1, <2>3, Zenon DEF CollectNext
    <3>2. [batch EXCEPT !.read = @ + 1].results = batch.results
      BY <1>1 DEF BatchTypeOK, BatchRecord
    <3> QED
      BY <2>1, <2>5, <2>6, <3>1, <3>2, Zenon
  <2>8. read \in 1..(Cases + 1) /\ results \in Seq([case : 1..Cases, outcome : CaseOutcome])
    <3>1. batch.results \in Seq([case : 1..Cases, outcome : CaseOutcome])
      BY <1>1, BatchFields
    <3>2. Result(i, o) \in [case : 1..Cases, outcome : CaseOutcome]
      BY <2>2, <2>4 DEF Result
    <3>3. results \in Seq([case : 1..Cases, outcome : CaseOutcome])
      BY <2>5, <3>1, <3>2
    <3> QED
      BY <1>0, <2>2, <2>5, <3>3
  <2>9. b \in BatchRecord
    BY <1>1, <2>6, <2>8 DEF BatchTypeOK, BatchRecord
  <2>10. /\ b.at = batch.at /\ b.mode = batch.mode /\ b.next = batch.next
         /\ b.waiting = batch.waiting /\ b.evaluating = batch.evaluating
         /\ b.slots = batch.slots /\ b.read = read /\ b.results = results
         /\ b.stopped = batch.stopped /\ b.cancelled = batch.cancelled /\ b.pass = batch.pass
         /\ b.fail = batch.fail /\ b.errors = batch.errors
    BY <1>1, <2>6 DEF BatchTypeOK, BatchRecord
  <2>11. Appended(b, i, o)
    BY <2>5, <2>9, <2>10 DEF Appended
  <2>12. /\ BatchTypeOK' /\ Tally'
         /\ batch'.at = batch.at /\ batch'.mode = batch.mode /\ batch'.next = batch.next
         /\ batch'.waiting = batch.waiting /\ batch'.evaluating = batch.evaluating
         /\ batch'.slots = batch.slots /\ batch'.read = read /\ batch'.results = results
         /\ batch'.stopped = batch.stopped /\ batch'.cancelled = batch.cancelled
    BY <2>2, <2>4, <2>7, <2>10, <2>11, CountedFields
  <2>13. Started'
    BY <1>1, <1>2, <2>12 DEF Started
  <2>14. Ended'
    BY <1>1, <1>2, <2>12 DEF Ended
  <2>15. \A j \in 1..Len(batch.results) : batch.results[j].case < i
    BY <1>2, <2>1
  <2>16. batch.results \in Seq([case : 1..Cases, outcome : CaseOutcome])
    BY <1>1, BatchFields
  <2>17. /\ {results[j].case : j \in 1..Len(results)}
              = {batch.results[j].case : j \in 1..Len(batch.results)} \cup {i}
         /\ \A j, k \in 1..Len(results) : j < k => results[j].case < results[k].case
    <3>1. Rising(batch.results) /\ \A c \in CaseSet(batch.results) : c < i
      BY <1>2, <2>15, Zenon DEF Rising, CaseSet
    <3>2. CaseSet(results) = CaseSet(batch.results) \cup {i} /\ Rising(results)
      BY <2>2, <2>4, <2>5, <2>16, <3>1, CasesAppended
    <3> QED
      BY <3>2, Zenon DEF CaseSet, Rising
  <2>18. {j \in 1..Cases : j < i /\ batch.slots[j] # "nil"} \cup {i} = {j \in 1..Cases : j < read /\ batch.slots[j] # "nil"}
    BY <1>5, <2>1, <2>2, <2>5
  <2>19. Ordered'
    <3>1. {results[j].case : j \in 1..Len(results)} = {j \in 1..Cases : j < read /\ batch.slots[j] # "nil"}
      BY <1>2, <2>1, <2>17, <2>18, Zenon
    <3> QED
      BY <1>2, <2>12, <2>17, <3>1 DEF Ordered
  <2> QED
    BY <2>12, <2>13, <2>14, <2>19 DEF BatchIInv
<1> QED
  BY <1>3, <1>4, <1>5

LEMMA AverageKeepsBatch == BatchIInv /\ ComputeAvgScore => BatchIInv'
<1> SUFFICES ASSUME BatchIInv, ComputeAvgScore
             PROVE  BatchIInv'
  OBVIOUS
<1>1. BatchTypeOK /\ batch.at = "average"
  BY DEF BatchIInv, ComputeAvgScore
<1>2. PICK scored : scored = Having(batch.results, {"pass", "fail"})
  OBVIOUS
<1>3. batch' = [batch EXCEPT !.at = "done", !.scored = scored]
  BY <1>2, Zenon DEF ComputeAvgScore, WithOutcome, Having
<1>4. scored \in Nat
  <2>1. batch.results \in Seq([case : 1..Cases, outcome : CaseOutcome])
    BY <1>1, BatchFields
  <2> QED
    BY <1>2, <2>1, HavingNumber
<1>5. BatchTypeOK'
  BY <1>1, <1>3, <1>4 DEF BatchTypeOK, BatchRecord
<1>6. /\ batch'.at = "done" /\ batch'.mode = batch.mode /\ batch'.next = batch.next
      /\ batch'.waiting = batch.waiting /\ batch'.evaluating = batch.evaluating
      /\ batch'.slots = batch.slots /\ batch'.read = batch.read /\ batch'.results = batch.results
      /\ batch'.stopped = batch.stopped /\ batch'.cancelled = batch.cancelled /\ batch'.pass = batch.pass
      /\ batch'.fail = batch.fail /\ batch'.errors = batch.errors /\ batch'.scored = scored
  BY <1>1, <1>3 DEF BatchTypeOK, BatchRecord
<1>7. Tally'
  BY <1>6 DEF BatchIInv, Tally
<1>8. Ordered'
  BY <1>6 DEF BatchIInv, Ordered
<1>9. Started'
  BY <1>1, <1>6 DEF BatchIInv, Started
<1>10. Ended'
  BY <1>1, <1>2, <1>6 DEF BatchIInv, Ended
<1> QED
  BY <1>5, <1>7, <1>8, <1>9, <1>10 DEF BatchIInv

\* What is true of a finished batch follows from the invariant.
LEMMA BatchExact == BatchIInv => ReportExact
<1> SUFFICES ASSUME BatchIInv, batch.at = "done"
             PROVE  ReportExact
  BY DEF ReportExact
<1>0. Cases \in Nat
  BY EvalAssumption
<1>1. BatchTypeOK /\ Tally /\ Ordered /\ Started /\ Ended /\ batch.mode \in {"one", "many"}
  BY BatchFields DEF BatchIInv
<1>2. \A set : WithOutcome(set) = Having(batch.results, set)
  BY DEF WithOutcome, Having
<1>3. batch.pass + batch.fail + batch.errors = Len(batch.results)
  BY <1>1 DEF Tally
<1>4. \A i, j \in 1..Len(batch.results) : i < j => batch.results[i].case < batch.results[j].case
  BY <1>1 DEF Ordered
<1>5. {batch.results[i].case : i \in 1..Len(batch.results)} = 1 .. batch.next - 1
  <2>1. CASE batch.mode = "one"
    BY <1>1, <2>1 DEF Ordered
  <2>2. CASE batch.mode = "many"
    <3>1. batch.waiting = {} /\ batch.evaluating = {} /\ batch.read = Cases + 1
      BY <1>1, <2>2 DEF Started
    <3>2. {i \in 1..Cases : batch.slots[i] # "nil"} \cup batch.waiting \cup batch.evaluating = 1 .. batch.next - 1
      BY <1>1, <2>2 DEF Started
    <3>3. {batch.results[i].case : i \in 1..Len(batch.results)} = {i \in 1..Cases : i < batch.read /\ batch.slots[i] # "nil"}
      BY <1>1, <2>2 DEF Ordered
    <3>4. {i \in 1..Cases : i < batch.read /\ batch.slots[i] # "nil"} = {i \in 1..Cases : batch.slots[i] # "nil"}
      BY <1>0, <3>1
    <3>5. {i \in 1..Cases : batch.slots[i] # "nil"} = 1 .. batch.next - 1
      BY <3>1, <3>2
    <3> QED
      BY <3>3, <3>4, <3>5, Zenon
  <2> QED
    BY <1>1, <2>1, <2>2
<1>6. batch.next = Cases + 1 \/ (batch.cancelled /\ batch.stopped)
  BY <1>1 DEF Ended
<1>7. batch.scored = Having(batch.results, {"pass", "fail"})
  BY <1>1 DEF Ended
<1>8. batch.mode = "many" => batch.scored = batch.pass + batch.fail
  BY <1>1, <1>7 DEF Tally
<1>9. batch.mode = "one" => batch.scored + WithOutcome({"partial"}) = batch.pass + batch.fail
  BY <1>1, <1>2, <1>7 DEF Tally
<1> QED
  BY <1>3, <1>4, <1>5, <1>6, <1>8, <1>9 DEF ReportExact

\* Every evaluator's verdict means what it says about the case, whatever the
\* lengths of the expected and the actual calls, the budget and the weights,
\* and the report of a batch of any size, evaluated one by one or concurrently
\* under any semaphore, accounts for each evaluated case once and in order.
THEOREM ReportsAreExact == EvalSpec => []EvaluationSound
<1>1. EvalInit => EvalIInv
  BY BatchInit
<1>2. EvalIInv /\ [EvalStep]_evalVars => EvalIInv'
  <2> SUFFICES ASSUME EvalIInv, [EvalStep]_evalVars
               PROVE  EvalIInv'
    OBVIOUS
  <2>1. VerdictsSound /\ BatchIInv
    BY DEF EvalIInv
  <2>2. CASE EvaluateCase
    <3>1. VerdictsSound'
      BY <2>2, CaseKeepsVerdicts
    <3>2. batch' = batch
      BY <2>2 DEF EvaluateCase
    <3>3. BatchIInv'
      BY <2>1, <3>2 DEF BatchIInv, BatchTypeOK, Tally, Ordered, Started, Ended
    <3> QED
      BY <3>1, <3>3 DEF EvalIInv
  <2>3. CASE BatchStep
    <3>1. verdict' = verdict
      BY <2>3 DEF BatchStep, CancelBatch, RunAgent, EvaluateNext, StartCase, TakeSem, FinishCase,
                  WaitAll, CollectNext, ComputeAvgScore
    <3>2. VerdictsSound'
      BY <2>1, <3>1 DEF VerdictsSound
    <3>3. BatchIInv'
      BY <2>1, <2>3, CancelKeepsBatch, RunAgentKeepsBatch, EvaluateNextKeepsBatch, StartCaseKeepsBatch,
         TakeSemKeepsBatch, FinishCaseKeepsBatch, WaitAllKeepsBatch, CollectNextKeepsBatch,
         AverageKeepsBatch DEF BatchStep
    <3> QED
      BY <3>2, <3>3 DEF EvalIInv
  <2>4. CASE UNCHANGED evalVars
    <3>1. verdict' = verdict /\ batch' = batch
      BY <2>4 DEF evalVars
    <3>2. VerdictsSound'
      BY <2>1, <3>1 DEF VerdictsSound
    <3>3. BatchIInv'
      BY <2>1, <3>1 DEF BatchIInv, BatchTypeOK, Tally, Ordered, Started, Ended
    <3> QED
      BY <3>2, <3>3 DEF EvalIInv
  <2> QED
    BY <2>2, <2>3, <2>4 DEF EvalStep
<1>3. EvalIInv => EvaluationSound
  BY BatchExact DEF EvalIInv, EvaluationSound
<1> QED
  BY <1>1, <1>2, <1>3, PTL DEF EvalSpec
=============================================================================
