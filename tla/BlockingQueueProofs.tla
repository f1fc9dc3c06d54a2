------------------------- MODULE BlockingQueueProofs -------------------------
(* Theorems about BlockingQueue, for every set of threads and every size.   *)
EXTENDS BlockingQueue, SequenceTheorems, TLAPS

LEMMA FollowingInSlots ==
    ASSUME NEW i \in Index
    PROVE  Following(i) \in Slots
BY MaxSizeAssumption DEF Following, Slots, Index

LEMMA InitTypeOK == Init => TypeOK
BY MaxSizeAssumption, NoThreadAssumption, ValuesAssumption
DEF Init, TypeOK, Index, Slots

LEMMA StepTypeOK == TypeOK /\ [Next]_vars => TypeOK'
<1> SUFFICES ASSUME TypeOK, [Next]_vars PROVE TypeOK'
  OBVIOUS
<1> USE DEF TypeOK
<1>1. CASE UNCHANGED vars
  BY <1>1 DEF vars
<1>2. ASSUME NEW t \in Threads, Call(t) PROVE TypeOK'
  BY <1>2 DEF Call, EnqCall, DeqCall, Move, memory, locks, EnqLabels,
              DeqLabels, EnqPending, DeqPending
<1>3. ASSUME NEW t \in Threads, EnqStep(t) PROVE TypeOK'
  <2> USE DEF Move, Load, Test, SetHead, SetTail, memory, locks,
              EnqLabels, EnqPending
  <2>1. CASE LockEnQ(t)    BY <2>1 DEF LockEnQ
  <2>2. CASE EnqFull(t)    BY <2>2, FollowingInSlots DEF EnqFull, Index
  <2>3. CASE EnqEmpty(t)   BY <2>3 DEF EnqEmpty
  <2>4. CASE EnqFirst(t)
    BY <2>4, MaxSizeAssumption DEF EnqFirst, Index, Slots
  <2>5. CASE EnqAdvance(t) BY <2>5, FollowingInSlots DEF EnqAdvance, Index
  <2>6. CASE EnqStore(t)   BY <2>6 DEF EnqStore
  <2>7. CASE UnlockEnQ(t)  BY <2>7 DEF UnlockEnQ, Index
  <2> QED BY <1>3, <2>1, <2>2, <2>3, <2>4, <2>5, <2>6, <2>7 DEF EnqStep
<1>4. ASSUME NEW t \in Threads, DeqStep(t) PROVE TypeOK'
  <2> USE DEF Move, Load, Test, SetHead, SetTail, memory, locks,
              DeqLabels, DeqPending, DeqReset
  <2>1. CASE LockDeQ(t)      BY <2>1 DEF LockDeQ
  <2>2. CASE DeqEmpty(t)     BY <2>2 DEF DeqEmpty
  <2>3. CASE DeqOne(t)       BY <2>3 DEF DeqOne
  <2>4. CASE DeqResetEnds(t) BY <2>4 DEF DeqResetEnds, Index
  <2>5. CASE DeqElement(t)   BY <2>5 DEF DeqElement
  <2>6. CASE DeqAdvance(t)   BY <2>6, FollowingInSlots DEF DeqAdvance, Index
  <2>7. CASE UnlockDeQ(t)    BY <2>7 DEF UnlockDeQ, Index
  <2> QED BY <1>4, <2>1, <2>2, <2>3, <2>4, <2>5, <2>6, <2>7 DEF DeqStep
<1> QED BY <1>1, <1>2, <1>3, <1>4 DEF Next, Step

(* Whatever the interleaving of enq and deq, even where their races corrupt *)
(* the queue, head, tail and every index the threads hold stay between -1   *)
(* and MAX_SIZE-1: enq can write before the array, never past its end.      *)
THEOREM TypeCorrect == Spec => []TypeOK
<1> QED BY InitTypeOK, StepTypeOK, PTL DEF Spec
-----------------------------------------------------------------------------
(***************************************************************************)
(* The refinement, as long as overlapping calls find the ends apart.       *)
(***************************************************************************)
EnqInside == EnqLabels \ {"LockEnQ"}
DeqInside == DeqLabels \ {"LockDeQ"}
LocksHeld == \A t \in Threads : /\ pc[t] \in EnqInside <=> Elock = t
                                /\ pc[t] \in DeqInside <=> Dlock = t

BothSet == head \in Slots /\ tail \in Slots
NoneSet == head = -1 /\ tail = -1

(* One end is set and the other not only in the middle of the chained       *)
(* assignments of enq and deq.                                              *)
HalfSet == \E t \in Threads : pc[t] \in {"first_read", "first_head"} \cup DeqReset
EndsAgree == BothSet \/ NoneSet \/ HalfSet

(* What enq has seen is still so, whatever a deq has done in the meantime.  *)
EnqKnows == \A t \in Threads :
  /\ At(t, "full_head") => r[t] = Following(tail)
  /\ pc[t] \in {"empty_head", "adv_read", "adv_tail"} => Following(tail) # head
  /\ pc[t] \in {"empty_tail", "first_tail"} => NoneSet
  /\ pc[t] \in {"first_read", "first_head"} => head = -1 /\ tail = 0
  /\ At(t, "first_head") => r[t] = 0
  /\ pc[t] \in {"adv_read", "adv_tail", "slot", "write"} => BothSet
  /\ At(t, "adv_tail") => r[t] = Following(tail)
  /\ At(t, "write") => r[t] = tail

(* The same for deq, whatever an enq has done. *)
DeqKnows == \A t \in Threads :
  /\ At(t, "none_tail") => NoneSet
  /\ pc[t] \in {"one_head", "one_tail", "reset_head", "elem_head", "elem",
                "adv_head_read", "adv_head"} => BothSet
  /\ At(t, "one_tail") => r[t] = head
  /\ At(t, "reset_head") => head = tail
  /\ pc[t] \in {"elem_head", "elem", "adv_head_read", "adv_head"} => head # tail
  /\ At(t, "adv_head") => r[t] = Following(head)
  /\ pc[t] \in DeqReset => head = -1 /\ tail \in Slots
  /\ At(t, "reset_tail") => r[t] = -1

Guard == Overlap => Apart
Inv == TypeOK /\ LocksHeld /\ Guard /\ EndsAgree /\ EnqKnows /\ DeqKnows

LEMMA FollowingIs ==
    /\ \A i \in Index : Following(i) = IF i = MAX_SIZE - 1 THEN 0 ELSE i + 1
    /\ \A i, j \in Slots : Following(i) = Following(j) => i = j
<1>1. ASSUME NEW i \in Index
      PROVE  Following(i) = IF i = MAX_SIZE - 1 THEN 0 ELSE i + 1
  <2>1. CASE i = MAX_SIZE - 1
    BY <2>1, MaxSizeAssumption DEF Following
  <2>2. CASE i # MAX_SIZE - 1
    <3>1. i + 1 \in 0 .. MAX_SIZE - 1
      BY <2>2, MaxSizeAssumption DEF Index, Slots
    <3>2. (i + 1) % MAX_SIZE = i + 1
      BY <3>1, MaxSizeAssumption
    <3> QED BY <2>2, <3>2 DEF Following
  <2> QED BY <2>1, <2>2
<1>2. \A i, j \in Slots : Following(i) = Following(j) => i = j
  BY <1>1, MaxSizeAssumption DEF Index, Slots
<1> QED BY <1>1, <1>2

LEMMA StepLocks == TypeOK /\ LocksHeld /\ [Next]_vars => LocksHeld'
<1> SUFFICES ASSUME TypeOK, LocksHeld, [Next]_vars PROVE LocksHeld'
  OBVIOUS
<1> USE NoThreadAssumption
    DEF TypeOK, LocksHeld, EnqInside, DeqInside, EnqLabels, DeqLabels, EnqPending,
        DeqPending, DeqReset, At, Move, Load, Test, SetHead, SetTail, memory, locks
<1>1. CASE UNCHANGED vars
  BY <1>1 DEF vars
<1>2. ASSUME NEW t \in Threads, Call(t) PROVE LocksHeld'
  BY <1>2 DEF Call, EnqCall, DeqCall
<1>3. ASSUME NEW t \in Threads, EnqStep(t) PROVE LocksHeld'
  <2>1. CASE LockEnQ(t) \/ UnlockEnQ(t)
    BY <2>1 DEF LockEnQ, UnlockEnQ
  <2>2. CASE EnqFull(t) \/ EnqEmpty(t)
    BY <2>2 DEF EnqFull, EnqEmpty
  <2>3. CASE EnqFirst(t) \/ EnqAdvance(t) \/ EnqStore(t)
    BY <2>3 DEF EnqFirst, EnqAdvance, EnqStore
  <2> QED BY <1>3, <2>1, <2>2, <2>3 DEF EnqStep
<1>4. ASSUME NEW t \in Threads, DeqStep(t) PROVE LocksHeld'
  <2>1. CASE LockDeQ(t) \/ UnlockDeQ(t)
    BY <2>1 DEF LockDeQ, UnlockDeQ
  <2>2. CASE DeqEmpty(t) \/ DeqOne(t)
    BY <2>2 DEF DeqEmpty, DeqOne
  <2>3. CASE DeqResetEnds(t) \/ DeqElement(t) \/ DeqAdvance(t)
    BY <2>3 DEF DeqResetEnds, DeqElement, DeqAdvance
  <2> QED BY <1>4, <2>1, <2>2, <2>3 DEF DeqStep
<1> QED BY <1>1, <1>2, <1>3, <1>4 DEF Next, Step

(* Who is inside excludes his own kind, and the other kind unless the ends  *)
(* are apart.                                                               *)
LEMMA Inside ==
    ASSUME LocksHeld, Guard
    PROVE  /\ \A t, u \in Threads : pc[t] \in EnqInside /\ pc[u] \in EnqInside => t = u
           /\ \A t, u \in Threads : pc[t] \in DeqInside /\ pc[u] \in DeqInside => t = u
           /\ \A t, u \in Threads : pc[t] \in EnqInside /\ pc[u] \in DeqInside => Apart
BY NoThreadAssumption DEF LocksHeld, Guard, Overlap

LEMMA InsideNext ==
    ASSUME LocksHeld', Guard'
    PROVE  /\ \A t, u \in Threads : pc'[t] \in EnqInside /\ pc'[u] \in EnqInside => t = u
           /\ \A t, u \in Threads : pc'[t] \in DeqInside /\ pc'[u] \in DeqInside => t = u
           /\ \A t, u \in Threads : pc'[t] \in EnqInside /\ pc'[u] \in DeqInside => Apart'
BY NoThreadAssumption DEF LocksHeld, Guard, Overlap

LEMMA EnqKeepsInv ==
    ASSUME Inv, TypeOK', LocksHeld', Guard', NEW t \in Threads, EnqStep(t)
    PROVE  EndsAgree' /\ EnqKnows' /\ DeqKnows'
<1> USE MaxSizeAssumption
    DEF Inv, TypeOK, EndsAgree, EnqKnows, DeqKnows, HalfSet, BothSet, NoneSet, Apart,
        EnqInside, DeqInside, EnqLabels, DeqLabels, EnqPending,
        DeqPending, DeqReset, At, Move, Load, Test, SetHead, SetTail, memory, locks, Slots, Index
<1>1. CASE LockEnQ(t) \/ UnlockEnQ(t)
  BY <1>1, Inside, InsideNext DEF LockEnQ, UnlockEnQ
<1>2. CASE EnqFull(t)
  BY <1>2, Inside, InsideNext DEF EnqFull
<1>3. CASE EnqEmpty(t)
  BY <1>3, Inside, InsideNext DEF EnqEmpty
<1>4. CASE EnqFirst(t)
  BY <1>4, Inside, InsideNext DEF EnqFirst
<1>5. CASE EnqAdvance(t)
  BY <1>5, Inside, InsideNext, FollowingInSlots DEF EnqAdvance
<1>6. CASE EnqStore(t)
  BY <1>6, Inside, InsideNext DEF EnqStore
<1> QED BY <1>1, <1>2, <1>3, <1>4, <1>5, <1>6 DEF EnqStep

LEMMA DeqKeepsInv ==
    ASSUME Inv, TypeOK', LocksHeld', Guard', NEW t \in Threads, DeqStep(t)
    PROVE  EndsAgree' /\ EnqKnows' /\ DeqKnows'
<1> USE MaxSizeAssumption
    DEF Inv, TypeOK, EndsAgree, EnqKnows, DeqKnows, HalfSet, BothSet, NoneSet, Apart,
        EnqInside, DeqInside, EnqLabels, DeqLabels, EnqPending,
        DeqPending, DeqReset, At, Move, Load, Test, SetHead, SetTail, memory, locks, Slots, Index
<1>1. CASE LockDeQ(t) \/ UnlockDeQ(t)
  BY <1>1, Inside, InsideNext DEF LockDeQ, UnlockDeQ
<1>2. CASE DeqEmpty(t)
  BY <1>2, Inside, InsideNext DEF DeqEmpty
<1>3. CASE DeqOne(t)
  BY <1>3, Inside, InsideNext DEF DeqOne
<1>4. CASE DeqResetEnds(t)
  BY <1>4, Inside, InsideNext DEF DeqResetEnds
<1>5. CASE DeqElement(t)
  BY <1>5, Inside, InsideNext DEF DeqElement
<1>6. CASE DeqAdvance(t)
  BY <1>6, Inside, InsideNext, FollowingInSlots, FollowingIs DEF DeqAdvance
<1> QED BY <1>1, <1>2, <1>3, <1>4, <1>5, <1>6 DEF DeqStep

LEMMA InitInv == Init => Inv
BY InitTypeOK, NoThreadAssumption
DEF Init, Inv, LocksHeld, Guard, Overlap, EndsAgree, NoneSet, EnqKnows, DeqKnows, At,
    EnqInside, DeqInside, EnqLabels, DeqLabels, EnqPending, DeqPending, DeqReset

LEMMA StepInv == Inv /\ [GuardedNext]_vars => Inv'
<1> SUFFICES ASSUME Inv, [GuardedNext]_vars PROVE Inv'
  OBVIOUS
<1>1. TypeOK' /\ LocksHeld'
  BY StepTypeOK, StepLocks DEF Inv, GuardedNext
<1>2. Guard'
  BY DEF Inv, GuardedNext, Guard, Overlap, Apart, vars
<1>3. CASE UNCHANGED vars
  BY <1>1, <1>2, <1>3
  DEF Inv, vars, EndsAgree, HalfSet, BothSet, NoneSet, EnqKnows, DeqKnows, At, Following
<1>4. ASSUME NEW t \in Threads, Call(t) PROVE EndsAgree' /\ EnqKnows' /\ DeqKnows'
  <2>1. /\ head' = head /\ tail' = tail /\ r' = r
        /\ pc[t] = "idle" /\ \E l \in {"LockEnQ", "LockDeQ"} : pc' = [pc EXCEPT ![t] = l]
    BY <1>4 DEF Call, EnqCall, DeqCall, Move, At, memory
  <2>2. \A u \in Threads : pc'[u] = pc[u] \/ (u = t /\ pc'[u] \in {"LockEnQ", "LockDeQ"})
    BY <2>1 DEF Inv, TypeOK
  <2>3. EndsAgree'
    BY <2>1, <2>2 DEF Inv, EndsAgree, HalfSet, BothSet, NoneSet, DeqReset
  <2>4. EnqKnows' /\ DeqKnows'
    BY <2>1, <2>2 DEF Inv, EnqKnows, DeqKnows, BothSet, NoneSet, At, Following, DeqReset
  <2> QED BY <2>3, <2>4
<1>5. ASSUME NEW t \in Threads, EnqStep(t) \/ DeqStep(t)
      PROVE  EndsAgree' /\ EnqKnows' /\ DeqKnows'
  BY <1>1, <1>2, <1>5, EnqKeepsInv, DeqKeepsInv
<1> QED BY <1>1, <1>2, <1>3, <1>4, <1>5 DEF Inv, GuardedNext, Next, Step
-----------------------------------------------------------------------------
(* The positions of the elements in the ring, without %.                    *)
Size(h, t)  == IF t >= h THEN t - h + 1 ELSE t + MAX_SIZE - h + 1
Place(h, k) == IF h + k - 1 < MAX_SIZE THEN h + k - 1 ELSE h + k - 1 - MAX_SIZE

LEMMA Wrapped ==
    ASSUME NEW a \in 0 .. 2 * MAX_SIZE - 1
    PROVE  a % MAX_SIZE = IF a < MAX_SIZE THEN a ELSE a - MAX_SIZE
<1>1. CASE a < MAX_SIZE
  BY <1>1, MaxSizeAssumption
<1>2. CASE a >= MAX_SIZE
  <2>1. a - MAX_SIZE \in 0 .. MAX_SIZE - 1 /\ a = MAX_SIZE * 1 + (a - MAX_SIZE)
    BY <1>2, MaxSizeAssumption
  <2> QED BY <1>2, <2>1, MaxSizeAssumption
<1> QED BY <1>1, <1>2, MaxSizeAssumption

LEMMA RingFacts ==
    ASSUME NEW h \in Slots, NEW t \in Slots
    PROVE  /\ Size(h, t) \in 1 .. MAX_SIZE
           /\ ((t + MAX_SIZE - h) % MAX_SIZE) + 1 = Size(h, t)
           /\ \A k \in 1 .. MAX_SIZE : /\ Place(h, k) \in Slots
                                       /\ (h + k - 1) % MAX_SIZE = Place(h, k)
           /\ Place(h, Size(h, t)) = t
           /\ \A k \in 1 .. Size(h, t) - 1 : Place(h, k) # t
           /\ Size(h, t) = MAX_SIZE <=> Following(t) = h
           /\ Following(t) # h => Size(h, Following(t)) = Size(h, t) + 1
           /\ h # t => /\ Size(Following(h), t) = Size(h, t) - 1
                       /\ \A k \in 1 .. Size(h, t) - 1 :
                            Place(Following(h), k) = Place(h, k + 1)
           /\ h = t => Size(h, t) = 1
<1> USE MaxSizeAssumption DEF Slots
<1>1. Size(h, t) \in 1 .. MAX_SIZE
  BY DEF Size
<1>2. ((t + MAX_SIZE - h) % MAX_SIZE) + 1 = Size(h, t)
  <2>1. t + MAX_SIZE - h \in 0 .. 2 * MAX_SIZE - 1
    OBVIOUS
  <2>2. (t + MAX_SIZE - h) % MAX_SIZE =
          IF t + MAX_SIZE - h < MAX_SIZE THEN t + MAX_SIZE - h
          ELSE t + MAX_SIZE - h - MAX_SIZE
    BY <2>1, Wrapped
  <2> QED BY <2>2 DEF Size
<1>3. ASSUME NEW k \in 1 .. MAX_SIZE
      PROVE  Place(h, k) \in Slots /\ (h + k - 1) % MAX_SIZE = Place(h, k)
  <2>1. h + k - 1 \in 0 .. 2 * MAX_SIZE - 1
    OBVIOUS
  <2>2. (h + k - 1) % MAX_SIZE =
          IF h + k - 1 < MAX_SIZE THEN h + k - 1 ELSE h + k - 1 - MAX_SIZE
    BY <2>1, Wrapped
  <2> QED BY <2>2 DEF Place
<1>4. /\ Following(t) = IF t = MAX_SIZE - 1 THEN 0 ELSE t + 1
      /\ Following(h) = IF h = MAX_SIZE - 1 THEN 0 ELSE h + 1
  BY FollowingIs DEF Index
<1>5. Place(h, Size(h, t)) = t /\ \A k \in 1 .. Size(h, t) - 1 : Place(h, k) # t
  BY DEF Size, Place
<1>6. /\ Size(h, t) = MAX_SIZE <=> Following(t) = h
      /\ Following(t) # h => Size(h, Following(t)) = Size(h, t) + 1
  BY <1>4 DEF Size
<1>7. h # t => Size(Following(h), t) = Size(h, t) - 1
  BY <1>4 DEF Size
<1>8. h # t => \A k \in 1 .. Size(h, t) - 1 : Place(Following(h), k) = Place(h, k + 1)
  BY <1>1, <1>4 DEF Place
<1>9. h = t => Size(h, t) = 1
  BY DEF Size
<1> QED BY <1>1, <1>2, <1>3, <1>5, <1>6, <1>7, <1>8, <1>9
-----------------------------------------------------------------------------
(* The abstract queue, without the CASE: nothing while an end is not set,   *)
(* and one element less than the ends say while enq owes one to the array.  *)
Storing(label) == label \in {"slot", "write"}
Writing == \E t \in Threads : Storing(pc[t])
QLen == IF ~BothSet THEN 0
        ELSE IF Writing THEN Size(head, tail) - 1 ELSE Size(head, tail)
QueueIs == /\ QLen \in 0 .. MAX_SIZE
           /\ Elements \in Seq(Values)
           /\ Len(Elements) = QLen
           /\ \A k \in 1 .. QLen : Elements[k] = A[Place(head, k)]

(* Who is in the middle of a chained assignment is nearly alone. *)
LEMMA Halves ==
    ASSUME Inv
    PROVE  /\ HalfSet => ~Writing /\ ~BothSet
           /\ BothSet => ~HalfSet
           /\ ~BothSet /\ ~HalfSet => NoneSet /\ ~Writing
<1>1. HalfSet => ~BothSet
  BY DEF Inv, HalfSet, EnqKnows, DeqKnows, At, BothSet, Slots
<1>2. Writing => BothSet
  BY DEF Inv, EnqKnows, Writing, Storing
<1> QED BY <1>1, <1>2 DEF Inv, EndsAgree

LEMMA OneHalf ==
    ASSUME Inv, NEW t \in Threads, At(t, "first_read") \/ At(t, "first_head"),
           NEW u \in Threads
    PROVE  pc[u] \notin DeqReset
<1>1. pc[t] \in EnqInside /\ head = -1
  BY DEF Inv, EnqKnows, EnqInside, EnqLabels, EnqPending, At
<1>2. pc[u] \in DeqReset => pc[u] \in DeqInside
  BY DEF DeqInside, DeqLabels, DeqReset
<1> QED BY <1>1, <1>2, Inside DEF Inv, Apart

LEMMA ElementsIs ==
    ASSUME Inv
    PROVE  Elements = IF ~BothSet THEN << >>
                      ELSE IF Writing THEN SubSeq(Contents, 1, Count - 1) ELSE Contents
<1> DEFINE SomeFirst == \E t \in Threads : At(t, "first_read") \/ At(t, "first_head")
           SomeSlot  == \E t \in Threads : At(t, "slot") \/ At(t, "write")
           SomeReset == \E t \in Threads : pc[t] \in DeqReset
<1>1. /\ SomeSlot <=> Writing
      /\ SomeFirst \/ SomeReset <=> HalfSet
  BY DEF Writing, Storing, HalfSet, At
<1>2. CASE SomeFirst
  <2>1. ~SomeSlot /\ ~SomeReset /\ ~BothSet
    <3>1. ~SomeSlot /\ ~BothSet
      BY <1>1, <1>2, Halves
    <3>2. ~SomeReset
      BY <1>2, OneHalf
    <3> QED BY <3>1, <3>2
  <2> QED BY <1>2, <2>1, Zenon DEF Elements
<1>3. CASE SomeReset
  <2>1. ~SomeSlot /\ ~SomeFirst /\ ~BothSet
    <3>1. ~SomeSlot /\ ~BothSet
      BY <1>1, <1>3, Halves
    <3>2. ~SomeFirst
      BY <1>3, OneHalf
    <3> QED BY <3>1, <3>2
  <2> QED BY <1>3, <2>1, Zenon DEF Elements
<1>4. CASE SomeSlot
  <2>1. ~SomeReset /\ ~SomeFirst /\ BothSet /\ Writing
    BY <1>1, <1>4, Halves
  <2> QED BY <1>4, <2>1, Zenon DEF Elements
<1>5. CASE ~SomeFirst /\ ~SomeSlot /\ ~SomeReset
  <2>1. Elements = Contents /\ ~Writing
    BY <1>1, <1>5, Zenon DEF Elements
  <2>2. ~BothSet => Contents = << >>
    BY <1>1, <1>5, Halves DEF Contents, NoneSet
  <2> QED BY <2>1, <2>2
<1> QED BY <1>2, <1>3, <1>4, <1>5

LEMMA ElementsAre == Inv => QueueIs
<1> SUFFICES ASSUME Inv PROVE QueueIs
  OBVIOUS
<1>1. CASE ~BothSet
  <2>1. Elements = << >> /\ QLen = 0
    BY <1>1, ElementsIs DEF QLen
  <2> QED BY <2>1, EmptySeq, MaxSizeAssumption DEF QueueIs
<1>2. CASE BothSet
  <2> DEFINE n == Size(head, tail)
  <2>1. /\ n \in 1 .. MAX_SIZE /\ Count = n
        /\ \A k \in 1 .. MAX_SIZE : /\ Place(head, k) \in Slots
                                    /\ (head + k - 1) % MAX_SIZE = Place(head, k)
    BY <1>2, RingFacts DEF BothSet, Count
  <2>2. \A k \in 1 .. n : (head + k - 1) % MAX_SIZE = Place(head, k)
                          /\ A[Place(head, k)] \in Values
    BY <2>1, MaxSizeAssumption DEF Inv, TypeOK, Index
  <2>3. Contents = [k \in 1 .. n |-> A[Place(head, k)]]
    <3>1. head # -1
      BY <1>2, MaxSizeAssumption DEF BothSet, Slots
    <3> HIDE DEF n
    <3>2. Contents = [k \in 1 .. n |-> A[(head + k - 1) % MAX_SIZE]]
      BY <2>1, <3>1, Zenon DEF Contents
    <3>3. [k \in 1 .. n |-> A[(head + k - 1) % MAX_SIZE]] = [k \in 1 .. n |-> A[Place(head, k)]]
      BY <2>2, Zenon
    <3> QED BY <3>2, <3>3
  <2> HIDE DEF n
  <2>4. Contents \in Seq(Values) /\ Len(Contents) = n
        /\ \A k \in 1 .. n : Contents[k] = A[Place(head, k)]
    BY <2>1, <2>2, <2>3, IsASeq
  <2>5. CASE ~Writing
    <3>1. Elements = Contents /\ QLen = n
      BY <1>2, <2>5, ElementsIs DEF QLen, n
    <3> QED BY <2>1, <2>4, <3>1, MaxSizeAssumption DEF QueueIs
  <2>6. CASE Writing
    <3>1. Elements = SubSeq(Contents, 1, n - 1) /\ QLen = n - 1
      BY <1>2, <2>1, <2>6, ElementsIs DEF QLen, n
    <3>2. n - 1 \in 0 .. MAX_SIZE
      BY <2>1, MaxSizeAssumption
    <3>3. /\ SubSeq(Contents, 1, n - 1) \in Seq(Values)
          /\ Len(SubSeq(Contents, 1, n - 1)) = n - 1
          /\ \A k \in 1 .. n - 1 : SubSeq(Contents, 1, n - 1)[k] = Contents[k]
      BY <2>1, <2>4, SMT
    <3> QED BY <2>1, <2>4, <3>1, <3>2, <3>3 DEF QueueIs
  <2> QED BY <2>5, <2>6
<1> QED BY <1>1, <1>2

LEMMA ElementsAreNext == Inv' => QueueIs'
BY ElementsAre, PTL

LEMMA ElementsSame ==
    ASSUME Inv, Inv', QLen' = QLen,
           \A k \in 1 .. QLen : A'[Place(head', k)] = A[Place(head, k)]
    PROVE  Elements' = Elements
<1>1. Len(Elements') = QLen /\ Len(Elements) = QLen /\ QLen \in Nat
      /\ Elements \in Seq(Values) /\ Elements' \in Seq(Values)
  BY ElementsAre, ElementsAreNext DEF QueueIs
<1>2. \A k \in 1 .. QLen : Elements'[k] = A'[Place(head', k)]
  BY ElementsAreNext DEF QueueIs, Place
<1>3. \A k \in 1 .. QLen : Elements[k] = A[Place(head, k)]
  BY ElementsAre DEF QueueIs
<1> QED BY <1>1, <1>2, <1>3, SeqEqual

LEMMA MemorySame ==
    ASSUME Inv, Inv', UNCHANGED memory, Writing' = Writing
    PROVE  Elements' = Elements
<1>1. QLen' = QLen /\ head' = head /\ A' = A
  BY DEF memory, QLen, BothSet, Size
<1> QED BY <1>1, ElementsSame
-----------------------------------------------------------------------------
(* The steps at which the abstract queue changes. *)
LEMMA QueueAppended ==
    ASSUME Inv, Inv', NEW t \in Threads, EnqStore(t), At(t, "write")
    PROVE  Len(Elements) < MAX_SIZE /\ Elements' = Append(Elements, x[t])
<1>1. /\ BothSet /\ Writing /\ ~Writing' /\ r[t] = tail
      /\ head' = head /\ tail' = tail /\ A' = [A EXCEPT ![tail] = x[t]]
      /\ x[t] \in Values /\ A \in [Index -> Values] /\ tail \in Index
  <2>1. At(t, "write") /\ r[t] = tail /\ BothSet
    BY DEF Inv, EnqKnows, At
  <2>2. /\ pc' = [pc EXCEPT ![t] = "UnlockEnQ"] /\ A' = [A EXCEPT ![r[t]] = x[t]]
        /\ head' = head /\ tail' = tail
    BY DEF EnqStore, Load, Move, At
  <2>3. \A u \in Threads : pc[u] \in {"slot", "write"} => u = t
    BY <2>1, Inside DEF Inv, EnqInside, EnqLabels, EnqPending, At
  <2> QED BY <2>1, <2>2, <2>3 DEF Writing, Storing, At, Inv, TypeOK
<1> DEFINE n == Size(head, tail)
<1>2. /\ n \in 1 .. MAX_SIZE /\ Place(head, n) = tail
      /\ \A k \in 1 .. n - 1 : Place(head, k) # tail
      /\ \A k \in 1 .. MAX_SIZE : Place(head, k) \in Slots
  <2>1. head \in Slots /\ tail \in Slots
    BY <1>1 DEF BothSet
  <2> QED BY <2>1, RingFacts
<1>3. QLen = n - 1 /\ QLen' = n
  BY <1>1 DEF QLen, BothSet, Size
<1> HIDE DEF n
<1>4. /\ Len(Elements) = n - 1 /\ Len(Elements') = n
      /\ Elements \in Seq(Values) /\ Elements' \in Seq(Values)
      /\ \A k \in 1 .. n - 1 : Elements[k] = A[Place(head, k)]
      /\ \A k \in 1 .. n : Elements'[k] = A'[Place(head, k)]
  BY <1>1, <1>3, ElementsAre, ElementsAreNext DEF QueueIs, Place
<1>5. \A k \in 1 .. n - 1 : A'[Place(head, k)] = A[Place(head, k)]
  BY <1>1, <1>2, MaxSizeAssumption DEF Index
<1>6. A'[Place(head, n)] = x[t]
  BY <1>1, <1>2
<1>7. /\ Append(Elements, x[t]) \in Seq(Values)
      /\ Len(Append(Elements, x[t])) = n
      /\ \A k \in 1 .. n - 1 : Append(Elements, x[t])[k] = Elements[k]
      /\ Append(Elements, x[t])[n] = x[t]
  BY <1>1, <1>2, <1>4, AppendProperties
<1>8. \A k \in 1 .. n : Elements'[k] = Append(Elements, x[t])[k]
  BY <1>2, <1>4, <1>5, <1>6, <1>7
<1>9. Elements' = Append(Elements, x[t])
  BY <1>4, <1>7, <1>8, SeqEqual
<1> QED BY <1>2, <1>4, <1>9, MaxSizeAssumption

(* deq of the last element. *)
LEMMA QueueEmptied ==
    ASSUME Inv, Inv', NEW t \in Threads, SetHead(t, "reset_head", -1, "reset_read")
    PROVE  Elements # << >> /\ Elements' = Tail(Elements)
<1>1. BothSet /\ head = tail /\ head' = -1
  BY DEF Inv, DeqKnows, SetHead, Move, At
<1>2. ~Writing
  <2>1. ASSUME NEW u \in Threads, pc[u] \in {"slot", "write"} PROVE FALSE
    <3>1. pc[u] \in EnqInside /\ pc[t] \in DeqInside
      BY <2>1 DEF SetHead, Move, At, EnqInside, EnqLabels, EnqPending, DeqInside, DeqLabels, DeqPending
    <3> QED BY <1>1, <3>1, Inside DEF Inv, Apart
  <2> QED BY <2>1 DEF Writing, Storing
<1>3. QLen = 1 /\ QLen' = 0
  BY <1>1, <1>2, RingFacts DEF QLen, BothSet, Slots
<1>4. /\ Elements \in Seq(Values) /\ Len(Elements) = 1
      /\ Elements' \in Seq(Values) /\ Len(Elements') = 0
  BY <1>3, ElementsAre, ElementsAreNext DEF QueueIs
<1>5. Elements # << >> /\ Tail(Elements) = << >> /\ Elements' = << >>
  <2>1. \A seq \in Seq(Values) : seq = << >> <=> Len(seq) = 0
    BY EmptySeq
  <2>2. Elements # << >> /\ Elements' = << >>
    BY <1>4, <2>1
  <2>3. Tail(Elements) \in Seq(Values) /\ Len(Tail(Elements)) = 0
    BY <1>4, <2>2, HeadTailProperties
  <2> QED BY <2>1, <2>2, <2>3
<1> QED BY <1>5

(* deq of any other. *)
LEMMA QueueTail ==
    ASSUME Inv, Inv', NEW t \in Threads, SetHead(t, "adv_head", r[t], "UnlockDeQ")
    PROVE  Elements # << >> /\ Elements' = Tail(Elements)
<1>1. /\ BothSet /\ head # tail /\ head' = Following(head) /\ tail' = tail /\ A' = A
      /\ Following(head) \in Slots
  BY FollowingInSlots DEF Inv, DeqKnows, SetHead, Move, At, BothSet, Index
<1>2. Writing' = Writing
  BY DEF Writing, Storing, SetHead, Move, At, Inv, TypeOK
<1> DEFINE h == Following(head)
           n == Size(head, tail)
<1>3. /\ n \in 1 .. MAX_SIZE /\ Size(h, tail) = n - 1
      /\ \A k \in 1 .. n - 1 : Place(h, k) = Place(head, k + 1)
      /\ Size(h, tail) \in 1 .. MAX_SIZE
  <2>1. /\ n \in 1 .. MAX_SIZE /\ Size(h, tail) = n - 1
        /\ \A k \in 1 .. n - 1 : Place(h, k) = Place(head, k + 1)
    BY <1>1, RingFacts DEF BothSet
  <2>2. Size(h, tail) \in 1 .. MAX_SIZE
    BY <1>1, RingFacts DEF BothSet
  <2> QED BY <2>1, <2>2
<1>4. BothSet' /\ Size(head', tail') = Size(h, tail)
  BY <1>1 DEF BothSet
<1>5. QLen' = QLen - 1 /\ QLen \in 1 .. n
  BY <1>1, <1>2, <1>3, <1>4 DEF QLen
<1>6. \A k \in 1 .. n - 1 : A'[Place(head', k)] = A[Place(head, k + 1)]
  BY <1>1, <1>3
<1> HIDE DEF h, n
<1> DEFINE m == QLen
<1>7. /\ m \in 1 .. MAX_SIZE /\ m <= n
      /\ Elements \in Seq(Values) /\ Len(Elements) = m
      /\ Elements' \in Seq(Values) /\ Len(Elements') = m - 1
      /\ \A k \in 1 .. m : Elements[k] = A[Place(head, k)]
  BY <1>3, <1>5, ElementsAre, ElementsAreNext, MaxSizeAssumption DEF QueueIs
<1>8. \A k \in 1 .. m - 1 : Elements'[k] = A'[Place(head', k)]
  BY <1>5, ElementsAreNext DEF QueueIs, Place
<1> HIDE DEF m
<1>9. \A k \in 1 .. m - 1 : Elements'[k] = Elements[k + 1]
  <2> TAKE k \in 1 .. m - 1
  <2>1. k \in 1 .. n - 1 /\ k + 1 \in 1 .. m
    BY <1>3, <1>7
  <2> QED BY <1>6, <1>7, <1>8, <2>1
<1>10. Elements # << >>
  BY <1>7, EmptySeq
<1>11. /\ Tail(Elements) \in Seq(Values) /\ Len(Tail(Elements)) = m - 1
       /\ \A k \in 1 .. m - 1 : Tail(Elements)[k] = Elements[k + 1]
  BY <1>7, <1>10, HeadTailProperties
<1>12. Elements' = Tail(Elements)
  BY <1>7, <1>9, <1>11, SeqEqual
<1> QED BY <1>10, <1>12

(* enq sees the queue full only when it is, deq sees it empty only when it is. *)
LEMMA FullIsFull ==
    ASSUME Inv, NEW t \in Threads, At(t, "full_head"), r[t] = head
    PROVE  Len(Elements) = MAX_SIZE
<1>1. head = Following(tail) /\ head \in Slots
  BY FollowingInSlots DEF Inv, EnqKnows, TypeOK
<1>2. BothSet
  <2>1. ~HalfSet
    BY <1>1, MaxSizeAssumption DEF HalfSet, Inv, EnqKnows, DeqKnows, Slots
  <2>2. ~NoneSet
    BY <1>1, MaxSizeAssumption DEF NoneSet, Slots
  <2> QED BY <2>1, <2>2 DEF Inv, EndsAgree
<1>3. ~Writing
  <2>1. \A u \in Threads : pc[u] \in {"slot", "write"} => pc[u] \in EnqInside
    BY DEF EnqInside, EnqLabels, EnqPending
  <2>2. pc[t] \in EnqInside /\ pc[t] \notin {"slot", "write"}
    BY DEF EnqInside, EnqLabels, EnqPending, At
  <2> QED BY <2>1, <2>2, Inside DEF Inv, Writing, Storing
<1>4. QLen = MAX_SIZE
  BY <1>1, <1>2, <1>3, RingFacts DEF QLen, BothSet
<1> QED BY <1>4, ElementsAre DEF QueueIs

LEMMA NoneIsEmpty ==
    ASSUME Inv, NEW t \in Threads, At(t, "none_tail")
    PROVE  tail = -1 /\ Elements = << >>
<1>1. NoneSet
  BY DEF Inv, DeqKnows
<1> QED BY <1>1, ElementsIs DEF NoneSet, BothSet, Slots
-----------------------------------------------------------------------------
(* Status, without the CASE. *)
StatusIf(label) == IF label = "idle" THEN "idle"
                   ELSE IF label \in EnqPending THEN "enq"
                   ELSE IF label \in DeqPending THEN "deq" ELSE "done"
StatusIs == Status = [t \in Threads |-> StatusIf(pc[t])]

LEMMA StatusCases == StatusIs
<1>1. ASSUME NEW t \in Threads PROVE Status[t] = StatusIf(pc[t])
  <2>1. CASE At(t, "idle")
    BY <2>1, Zenon DEF StatusIf, Status, At, EnqPending, DeqPending
  <2>2. CASE pc[t] \in EnqPending
    BY <2>2, Zenon DEF StatusIf, Status, At, EnqPending, DeqPending
  <2>3. CASE pc[t] \in DeqPending
    BY <2>3, Zenon DEF StatusIf, Status, At, EnqPending, DeqPending
  <2>4. CASE pc[t] \notin EnqPending \cup DeqPending \cup {"idle"}
    BY <2>4, Zenon DEF StatusIf, Status, At
  <2> QED BY <2>1, <2>2, <2>3, <2>4 DEF At
<1>2. \A t \in Threads : Status[t] \in {"idle", "enq", "deq", "done"}
  BY <1>1 DEF StatusIf
<1>3. Status \in [Threads -> {"idle", "enq", "deq", "done"}]
  BY <1>2, Zenon DEF Status
<1> QED BY <1>1, <1>3 DEF StatusIs

LEMMA StatusCasesNext == StatusIs'
BY StatusCases, PTL

LEMMA StatusMoves ==
    ASSUME TypeOK, NEW t \in Threads, NEW from, NEW to, Move(t, from, to)
    PROVE  /\ Status[t] = StatusIf(from)
           /\ Status' = [Status EXCEPT ![t] = StatusIf(to)]
           /\ StatusIf(to) = StatusIf(from) => Status' = Status
<1>1. /\ pc[t] = from /\ pc' = [pc EXCEPT ![t] = to]
      /\ pc \in [Threads -> {"idle"} \cup EnqLabels \cup DeqLabels]
  BY DEF Move, At, TypeOK
<1>2. /\ Status = [u \in Threads |-> StatusIf(pc[u])]
      /\ Status' = [u \in Threads |-> StatusIf(pc'[u])]
  BY StatusCases, StatusCasesNext DEF StatusIs
<1>3. Status[t] = StatusIf(from) /\ Status'[t] = StatusIf(to)
  BY <1>1, <1>2
<1>4. \A u \in Threads \ {t} : Status'[u] = Status[u]
  BY <1>1, <1>2
<1>5. Status' = [Status EXCEPT ![t] = StatusIf(to)]
  BY <1>2, <1>3, <1>4
<1> QED BY <1>2, <1>3, <1>5

(* A step that changes neither the elements nor the state of the call.      *)
LEMMA Stutters ==
    ASSUME TypeOK, NEW t \in Threads, NEW from, NEW to, Move(t, from, to),
           StatusIf(to) = StatusIf(from), Elements' = Elements, x' = x
    PROVE  UNCHANGED Abstract!vars
BY StatusMoves DEF Abstract!vars

LEMMA WritingSame ==
    ASSUME TypeOK, NEW t \in Threads, NEW from, NEW to, Move(t, from, to),
           Storing(from) <=> Storing(to)
    PROVE  Writing' = Writing
BY DEF TypeOK, Writing, Storing, Move, At

LEMMA CallsRefine ==
    ASSUME Inv, Inv', NEW t \in Threads, Call(t)
    PROVE  Abstract!Next
<1>1. TypeOK
  BY DEF Inv
<1>2. /\ StatusIf("idle") = "idle"
      /\ StatusIf("LockEnQ") = "enq" /\ StatusIf("LockDeQ") = "deq"
      /\ ~Storing("idle") /\ ~Storing("LockEnQ") /\ ~Storing("LockDeQ")
  BY DEF StatusIf, Storing, EnqPending, DeqPending
<1>3. ASSUME NEW v \in Values, EnqCall(t, v) PROVE Abstract!EnqCall(t, v)
  <2>1. Move(t, "idle", "LockEnQ") /\ UNCHANGED memory /\ x' = [x EXCEPT ![t] = v]
    BY <1>3 DEF EnqCall
  <2>2. Elements' = Elements
    BY <1>1, <1>2, <2>1, WritingSame, MemorySame
  <2> QED BY <1>1, <1>2, <2>1, <2>2, StatusMoves DEF Abstract!EnqCall
<1>4. CASE DeqCall(t)
  <2>1. Move(t, "idle", "LockDeQ") /\ UNCHANGED memory /\ x' = x
    BY <1>4 DEF DeqCall
  <2>2. Elements' = Elements
    BY <1>1, <1>2, <2>1, WritingSame, MemorySame
  <2>3. Abstract!DeqCall(t)
    BY <1>1, <1>2, <2>1, <2>2, StatusMoves DEF Abstract!DeqCall
  <2> QED BY <2>3 DEF Abstract!Next
<1> QED BY <1>3, <1>4 DEF Call, Abstract!Next

(* A step that leaves head, tail and A alone, up to the return of the call. *)
LEMMA QuietRefines ==
    ASSUME Inv, Inv', NEW t \in Threads, NEW from, NEW to, Move(t, from, to),
           Storing(from) <=> Storing(to), UNCHANGED memory, x' = x
    PROVE  /\ StatusIf(to) = StatusIf(from) => UNCHANGED Abstract!vars
           /\ StatusIf(from) = "done" /\ StatusIf(to) = "idle" => Abstract!Next
<1>1. TypeOK /\ Elements' = Elements
  BY WritingSame, MemorySame DEF Inv
<1>2. StatusIf(to) = StatusIf(from) => UNCHANGED Abstract!vars
  BY <1>1, Stutters
<1>3. ASSUME StatusIf(from) = "done", StatusIf(to) = "idle" PROVE Abstract!Next
  <2>1. Abstract!Return(t)
    BY <1>1, <1>3, StatusMoves DEF Abstract!Return
  <2> QED BY <2>1 DEF Abstract!Next
<1> QED BY <1>2, <1>3

LEMMA EnqRefines ==
    ASSUME Inv, Inv', NEW t \in Threads, EnqStep(t)
    PROVE  [Abstract!Next]_(Abstract!vars)
<1>0. /\ TypeOK
      /\ \A l \in EnqPending : StatusIf(l) = "enq"
      /\ StatusIf("UnlockEnQ") = "done" /\ StatusIf("idle") = "idle"
      /\ \A l : Storing(l) <=> l \in {"slot", "write"}
  BY DEF Inv, StatusIf, Storing, EnqPending, DeqPending
<1> USE DEF EnqPending, Abstract!vars
<1>1. CASE LockEnQ(t)
  <2>1. /\ Move(t, "LockEnQ", "full_tail") /\ UNCHANGED memory /\ x' = x
    BY <1>1 DEF LockEnQ
  <2> QED BY <1>0, <2>1, QuietRefines
<1>2. CASE UnlockEnQ(t)
  BY <1>0, <1>2, QuietRefines DEF UnlockEnQ
<1>3. CASE Load(t, "full_tail", Following(tail), "full_head")
  BY <1>0, <1>3, QuietRefines DEF Load
<1>4. CASE Test(t, "full_head", r[t] = head, "UnlockEnQ", "empty_head")
  <2>1. CASE r[t] = head
    <3>1. Move(t, "full_head", "UnlockEnQ") /\ UNCHANGED memory /\ x' = x
      BY <1>4, <2>1 DEF Test
    <3>2. Len(Elements) = MAX_SIZE
      BY <2>1, <3>1, FullIsFull DEF Move
    <3>3. Elements' = Elements
      BY <1>0, <3>1, WritingSame, MemorySame
    <3>4. Abstract!EnqEffect(t)
      BY <1>0, <3>1, <3>2, <3>3, StatusMoves, MaxSizeAssumption DEF Abstract!EnqEffect
    <3> QED BY <3>4 DEF Abstract!Next
  <2>2. CASE r[t] # head
    <3>1. Move(t, "full_head", "empty_head") /\ UNCHANGED memory /\ x' = x
      BY <1>4, <2>2 DEF Test
    <3> QED BY <1>0, <3>1, QuietRefines
  <2> QED BY <2>1, <2>2
<1>5. CASE EnqEmpty(t)
  <2>1. \E from, to \in {"empty_head", "empty_tail", "first_tail", "adv_read"} :
           Move(t, from, to) /\ UNCHANGED memory /\ x' = x
    BY <1>5 DEF EnqEmpty, Test
  <2> QED BY <1>0, <2>1, QuietRefines
<1>6. CASE SetTail(t, "first_tail", 0, "first_read")
  <2>1. Move(t, "first_tail", "first_read") /\ head = -1 /\ head' = head /\ x' = x
    BY <1>6 DEF SetTail, Move, Inv, EnqKnows, NoneSet, At
  <2>2. QLen = 0 /\ QLen' = 0
    BY <2>1 DEF QLen, BothSet, Slots
  <2>3. Elements' = Elements
    BY <2>2, ElementsSame
  <2> QED BY <1>0, <2>1, <2>3, Stutters
<1>7. CASE Load(t, "first_read", tail, "first_head")
  BY <1>0, <1>7, QuietRefines DEF Load
<1>8. CASE SetHead(t, "first_head", r[t], "slot")
  <2>1. /\ Move(t, "first_head", "slot") /\ head = -1 /\ tail = 0
        /\ head' = 0 /\ tail' = 0 /\ x' = x
    BY <1>8 DEF SetHead, Move, Inv, EnqKnows, At
  <2>2. Writing' /\ BothSet'
    BY <1>0, <2>1, MaxSizeAssumption DEF Writing, Storing, BothSet, Slots, Move, At, TypeOK
  <2>3. QLen = 0 /\ QLen' = 0
    BY <2>1, <2>2, MaxSizeAssumption DEF QLen, Size, BothSet, Slots
  <2>4. Elements' = Elements
    BY <2>3, ElementsSame
  <2> QED BY <1>0, <2>1, <2>4, Stutters
<1>9. CASE Load(t, "adv_read", Following(tail), "adv_tail")
  BY <1>0, <1>9, QuietRefines DEF Load
<1>10. CASE SetTail(t, "adv_tail", r[t], "slot")
  <2>1. /\ Move(t, "adv_tail", "slot") /\ BothSet /\ Following(tail) # head
        /\ head' = head /\ tail' = Following(tail) /\ A' = A /\ x' = x
        /\ Following(tail) \in Slots
    BY <1>10, FollowingInSlots DEF SetTail, Move, Inv, EnqKnows, BothSet, Index, At
  <2>2. Writing' /\ BothSet'
    BY <1>0, <2>1 DEF Writing, Storing, BothSet, Move, At, TypeOK
  <2>3. ~Writing
    <3>1. \A u \in Threads : pc[u] \in {"slot", "write"} => pc[u] \in EnqInside
      BY DEF EnqInside, EnqLabels
    <3>2. pc[t] \in EnqInside /\ pc[t] \notin {"slot", "write"}
      BY <2>1 DEF EnqInside, EnqLabels, Move, At
    <3> QED BY <3>1, <3>2, Inside DEF Inv, Writing, Storing
  <2>4. /\ Size(head, Following(tail)) = Size(head, tail) + 1
        /\ Size(head, tail) \in 1 .. MAX_SIZE
    BY <2>1, RingFacts DEF BothSet
  <2>5. Size(head, tail)' = Size(head, Following(tail))
    BY <2>1 DEF Size
  <2>6. QLen = Size(head, tail) /\ QLen' = Size(head, tail)' - 1
    BY <2>1, <2>2, <2>3 DEF QLen
  <2>7. QLen' = QLen
    BY <2>4, <2>5, <2>6
  <2>8. Elements' = Elements
    BY <2>1, <2>7, ElementsSame
  <2> QED BY <1>0, <2>1, <2>8, Stutters
<1>11. CASE Load(t, "slot", tail, "write")
  BY <1>0, <1>11, QuietRefines DEF Load
<1>12. CASE EnqStore(t) /\ At(t, "write")
  <2>1. Len(Elements) < MAX_SIZE /\ Elements' = Append(Elements, x[t])
    BY <1>12, QueueAppended
  <2>2. Move(t, "write", "UnlockEnQ") /\ x' = x
    BY <1>12 DEF EnqStore, Load, Move, At
  <2>3. Abstract!EnqEffect(t)
    BY <1>0, <2>1, <2>2, StatusMoves DEF Abstract!EnqEffect
  <2> QED BY <2>3 DEF Abstract!Next
<1>13. EnqStore(t) => Load(t, "slot", tail, "write") \/ (EnqStore(t) /\ At(t, "write"))
  BY DEF EnqStore, Move, At
<1> QED BY <1>1, <1>2, <1>3, <1>4, <1>5, <1>6, <1>7, <1>8, <1>9, <1>10, <1>11, <1>12, <1>13
        DEF EnqStep, EnqFull, EnqFirst, EnqAdvance

LEMMA DeqRefines ==
    ASSUME Inv, Inv', NEW t \in Threads, DeqStep(t)
    PROVE  [Abstract!Next]_(Abstract!vars)
<1>0. /\ TypeOK
      /\ \A l \in DeqPending : StatusIf(l) = "deq"
      /\ \A l \in DeqReset \cup {"UnlockDeQ"} : StatusIf(l) = "done"
      /\ StatusIf("idle") = "idle"
      /\ \A l : Storing(l) <=> l \in {"slot", "write"}
  BY DEF Inv, StatusIf, Storing, EnqPending, DeqPending, DeqReset
<1> USE DEF DeqPending, DeqReset, Abstract!vars
<1>1. CASE LockDeQ(t)
  BY <1>0, <1>1, QuietRefines DEF LockDeQ
<1>2. CASE UnlockDeQ(t)
  BY <1>0, <1>2, QuietRefines DEF UnlockDeQ
<1>3. CASE Test(t, "none_head", head = -1, "none_tail", "one_head")
  <2>1. \E to \in {"none_tail", "one_head"} :
           Move(t, "none_head", to) /\ UNCHANGED memory /\ x' = x
    BY <1>3 DEF Test
  <2> QED BY <1>0, <2>1, QuietRefines
<1>4. CASE Test(t, "none_tail", tail = -1, "UnlockDeQ", "one_head")
  <2>1. tail = -1 /\ Elements = << >>
    BY <1>4, NoneIsEmpty DEF Test, Move
  <2>2. Move(t, "none_tail", "UnlockDeQ") /\ UNCHANGED memory /\ x' = x
    BY <1>4, <2>1 DEF Test
  <2>3. Elements' = Elements
    BY <1>0, <2>2, WritingSame, MemorySame
  <2>4. Abstract!DeqEffect(t)
    BY <1>0, <2>1, <2>2, <2>3, StatusMoves DEF Abstract!DeqEffect
  <2> QED BY <2>4 DEF Abstract!Next
<1>5. CASE DeqOne(t) \/ DeqElement(t) \/ Load(t, "adv_head_read", Following(head), "adv_head")
  <2>1. \E from, to \in DeqPending : Move(t, from, to) /\ UNCHANGED memory /\ x' = x
    BY <1>5 DEF DeqOne, DeqElement, Load, Test
  <2> QED BY <1>0, <2>1, QuietRefines
<1>6. CASE SetHead(t, "reset_head", -1, "reset_read")
  <2>1. Elements # << >> /\ Elements' = Tail(Elements)
    BY <1>6, QueueEmptied
  <2>2. Move(t, "reset_head", "reset_read") /\ x' = x
    BY <1>6 DEF SetHead
  <2>3. Abstract!DeqEffect(t)
    BY <1>0, <2>1, <2>2, StatusMoves DEF Abstract!DeqEffect
  <2> QED BY <2>3 DEF Abstract!Next
<1>7. CASE Load(t, "reset_read", head, "reset_tail")
  BY <1>0, <1>7, QuietRefines DEF Load
<1>8. CASE SetTail(t, "reset_tail", r[t], "UnlockDeQ")
  <2>1. Move(t, "reset_tail", "UnlockDeQ") /\ head = -1 /\ head' = head /\ x' = x
    BY <1>8 DEF SetTail, Move, Inv, DeqKnows, At
  <2>2. QLen = 0 /\ QLen' = 0
    BY <2>1 DEF QLen, BothSet, Slots
  <2>3. Elements' = Elements
    BY <2>2, ElementsSame
  <2> QED BY <1>0, <2>1, <2>3, Stutters
<1>9. CASE SetHead(t, "adv_head", r[t], "UnlockDeQ")
  <2>1. Elements # << >> /\ Elements' = Tail(Elements)
    BY <1>9, QueueTail
  <2>2. Move(t, "adv_head", "UnlockDeQ") /\ x' = x
    BY <1>9 DEF SetHead
  <2>3. Abstract!DeqEffect(t)
    BY <1>0, <2>1, <2>2, StatusMoves DEF Abstract!DeqEffect
  <2> QED BY <2>3 DEF Abstract!Next
<1> QED BY <1>1, <1>2, <1>3, <1>4, <1>5, <1>6, <1>7, <1>8, <1>9
        DEF DeqStep, DeqEmpty, DeqResetEnds, DeqAdvance

LEMMA InitRefines == Init => Abstract!Init
<1> SUFFICES ASSUME Init PROVE Abstract!Init
  OBVIOUS
<1>1. Inv /\ NoneSet
  BY InitInv DEF Init, NoneSet
<1>2. Elements = << >>
  BY <1>1, ElementsIs DEF NoneSet, BothSet, Slots
<1>3. Status = [t \in Threads |-> "idle"]
  BY StatusCases DEF Init, StatusIs, StatusIf
<1>4. x \in [Threads -> Values]
  BY <1>1 DEF Inv, TypeOK
<1> QED BY <1>2, <1>3, <1>4 DEF Abstract!Init

(* Two locks are enough as long as overlapping calls find the ends apart:   *)
(* then the class of blocking2.cpp does what BoundedQueue promises, for     *)
(* every capacity and every number of threads of each kind.                 *)
THEOREM ApartMakesItAQueue == GuardedSpec => ImplementsBoundedQueue
<1>1. Inv /\ [GuardedNext]_vars => [Abstract!Next]_(Abstract!vars)
  <2> SUFFICES ASSUME Inv, [GuardedNext]_vars PROVE [Abstract!Next]_(Abstract!vars)
    OBVIOUS
  <2>1. Inv'
    BY StepInv
  <2>2. CASE UNCHANGED vars
    <3>1. UNCHANGED memory /\ Writing' = Writing /\ pc' = pc /\ x' = x
      BY <2>2 DEF vars, memory, Writing
    <3>2. Elements' = Elements
      BY <2>1, <3>1, MemorySame
    <3>3. Status' = Status
      BY <3>1, StatusCases, StatusCasesNext DEF StatusIs
    <3> QED BY <3>1, <3>2, <3>3 DEF Abstract!vars
  <2>3. ASSUME NEW t \in Threads, Call(t) \/ Step(t) PROVE [Abstract!Next]_(Abstract!vars)
    BY <2>1, <2>3, CallsRefine, EnqRefines, DeqRefines DEF Step
  <2> QED BY <2>2, <2>3 DEF GuardedNext, Next
<1> QED BY <1>1, StepInv, InitInv, InitRefines, PTL
        DEF GuardedSpec, ImplementsBoundedQueue, Abstract!Spec
-----------------------------------------------------------------------------
(* A lone thread is never inside both locks, so it keeps the ends apart     *)
(* from nobody.                                                             *)
LEMMA LoneGuard ==
    ASSUME NEW u, Threads = {u}
    PROVE  TypeOK /\ LocksHeld => Guard
<1> SUFFICES ASSUME TypeOK, LocksHeld, Overlap PROVE FALSE
  BY DEF Guard
<1>1. pc[u] \in EnqInside /\ pc[u] \in DeqInside
  BY DEF LocksHeld, Overlap, TypeOK
<1> QED BY <1>1 DEF EnqInside, DeqInside, EnqLabels, DeqLabels, EnqPending, DeqPending, DeqReset

LEMMA LoneStep ==
    ASSUME NEW u, Threads = {u}
    PROVE  Inv /\ [Next]_vars => Inv' /\ [GuardedNext]_vars /\ A'[-1] = A[-1]
<1> SUFFICES ASSUME Inv, [Next]_vars PROVE Inv' /\ [GuardedNext]_vars /\ A'[-1] = A[-1]
  OBVIOUS
<1>1. TypeOK' /\ LocksHeld'
  BY StepTypeOK, StepLocks DEF Inv
<1>2. TypeOK' /\ LocksHeld' => Guard'
  BY LoneGuard, PTL
<1>3. [GuardedNext]_vars
  BY <1>1, <1>2 DEF GuardedNext, Guard
<1>4. A' = A \/ \E t \in Threads : At(t, "write") /\ A' = [A EXCEPT ![r[t]] = x[t]]
  BY DEF Next, Call, EnqCall, DeqCall, Step, EnqStep, LockEnQ, EnqFull, EnqEmpty, EnqFirst,
         EnqAdvance, EnqStore, UnlockEnQ, DeqStep, LockDeQ, DeqEmpty, DeqOne, DeqResetEnds,
         DeqElement, DeqAdvance, UnlockDeQ, Load, Test, SetHead, SetTail, Move, memory, vars
<1>5. \A t \in Threads : At(t, "write") => r[t] \in Slots
  BY DEF Inv, EnqKnows, BothSet, At
<1>6. A'[-1] = A[-1]
  BY <1>4, <1>5, MaxSizeAssumption DEF Slots, Inv, TypeOK, Index
<1> QED BY <1>3, <1>6, StepInv

(* A program with one thread, as a2/block_q.cpp, always has a bounded       *)
(* queue, whatever it calls.                                                *)
THEOREM OneThreadHasAQueue ==
    ASSUME NEW u, Threads = {u}
    PROVE  Spec => ImplementsBoundedQueue
<1>1. Inv /\ [Next]_vars => Inv' /\ [GuardedNext]_vars
  BY LoneStep
<1> QED BY <1>1, InitInv, ApartMakesItAQueue, PTL DEF Spec, GuardedSpec

(* What the comments of the source say, and what races refute, is true as   *)
(* long as the calls stay apart: between calls -1 is in both ends or in     *)
(* none, and no enq writes before the array.                                *)
THEOREM ApartKeepsTheComments == GuardedSpec => [](EmptyMeansBothEnds /\ WritesStayInArray)
<1>1. Inv => EmptyMeansBothEnds /\ WritesStayInArray
  <2> SUFFICES ASSUME Inv PROVE EmptyMeansBothEnds /\ WritesStayInArray
    OBVIOUS
  <2>1. \A t \in Threads : pc[t] \in {"first_read", "first_head"} => pc[t] \in EnqInside
    BY DEF EnqInside, EnqLabels, EnqPending
  <2>2. \A t \in Threads : pc[t] \in DeqReset => pc[t] \in DeqInside
    BY DEF DeqInside, DeqLabels, DeqReset
  <2>3. Elock = NoThread /\ Dlock = NoThread => ~HalfSet
    BY <2>1, <2>2, NoThreadAssumption DEF Inv, LocksHeld, HalfSet
  <2>4. EmptyMeansBothEnds
    BY <2>3, MaxSizeAssumption DEF Inv, EndsAgree, EmptyMeansBothEnds, BothSet, NoneSet, Slots
  <2>5. WritesStayInArray
    BY DEF Inv, EnqKnows, WritesStayInArray, BothSet, At
  <2> QED BY <2>4, <2>5
<1> QED BY <1>1, InitInv, StepInv, PTL DEF GuardedSpec
=============================================================================
