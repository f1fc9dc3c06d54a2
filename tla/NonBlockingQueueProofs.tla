----------------------- MODULE NonBlockingQueueProofs -----------------------
(***************************************************************************)
(* Theorems about NonBlockingQueue, for every finite set of threads, every *)
(* MAX_SIZE and every number of calls.                                     *)
(***************************************************************************)
EXTENDS NonBlockingQueue, FiniteSetTheorems, SequenceTheorems, TLAPS

LEMMA InitTypeOK == Init => TypeOK
BY ValuesAssumption, BoundsAssumption DEF Init, TypeOK

LEMMA StepTypeOK == TypeOK /\ [Next]_vars => TypeOK'
<1> SUFFICES ASSUME TypeOK, [Next]_vars PROVE TypeOK'
  OBVIOUS
<1> USE DEF TypeOK, At, Goto, Move, EnqLabels, DeqLabels, Slots
<1>1. CASE UNCHANGED vars
  BY <1>1 DEF vars
<1>2. ASSUME NEW t \in Threads, Call(t) PROVE TypeOK'
  BY <1>2, BoundsAssumption DEF Call, EnqCall, DeqCall
<1>3. ASSUME NEW t \in Threads, EnqStep(t) PROVE TypeOK'
  <2>1. CASE LoadTail(t)     BY <2>1 DEF LoadTail
  <2>2. CASE TestFull(t)     BY <2>2 DEF TestFull
  <2>3. CASE LoadSlot(t)     BY <2>3 DEF LoadSlot
  <2>4. CASE ClaimSlot(t)    BY <2>4 DEF ClaimSlot
  <2>5. CASE RetryEnq(t)     BY <2>5 DEF RetryEnq
  <2>6. CASE StoreElement(t) BY <2>6 DEF StoreElement
  <2>7. CASE StoreOutside(t) BY <2>7 DEF StoreOutside
  <2> QED BY <1>3, <2>1, <2>2, <2>3, <2>4, <2>5, <2>6, <2>7 DEF EnqStep
<1>4. ASSUME NEW t \in Threads, DeqStep(t) PROVE TypeOK'
  <2>1. CASE LoadEnd(t)   BY <2>1 DEF LoadEnd
  <2>2. CASE LoadStart(t) BY <2>2 DEF LoadStart
  <2>3. CASE TakeHead(t)  BY <2>3 DEF TakeHead
  <2>4. CASE RetryDeq(t)  BY <2>4 DEF RetryDeq
  <2> QED BY <1>4, <2>1, <2>2, <2>3, <2>4 DEF DeqStep
<1>5. ASSUME NEW t \in Threads, Return(t) PROVE TypeOK'
  BY <1>5 DEF Return
<1> QED BY <1>1, <1>2, <1>3, <1>4, <1>5 DEF Next, Step

(* head and tail are counts, and each thread's registers hold counts. *)
THEOREM TypeCorrect == Spec => []TypeOK
<1> QED BY InitTypeOK, StepTypeOK, PTL DEF Spec
-----------------------------------------------------------------------------
(* The actions that leave the ownership of the slots alone. *)
LEMMA SlotsUntouched ==
    ASSUME TypeOK, SlotsAccounted, A' = A, tail' = tail, Writers' = Writers,
           \A t \in Writers : pos'[t] = pos[t]
    PROVE  SlotsAccounted'
<1>1. {pos'[t] : t \in Writers'} = {pos[t] : t \in Writers}
  OBVIOUS
<1> QED BY <1>1 DEF SlotsAccounted

LEMMA StepSlots == TypeOK /\ SlotsAccounted /\ [Next]_vars => SlotsAccounted'
<1> SUFFICES ASSUME TypeOK, SlotsAccounted, [Next]_vars PROVE SlotsAccounted'
  OBVIOUS
<1>1. ASSUME NEW t \in Threads, ClaimSlot(t) PROVE SlotsAccounted'
  <2>1. /\ t \notin Writers
        /\ Writers' = Writers \cup {t}
        /\ pos' = pos /\ A' = A /\ tail' = tail + 1 /\ pos[t] = tail
    BY <1>1 DEF ClaimSlot, Writers, At, Goto, Move, TypeOK
  <2>2. DOMAIN A \subseteq 0 .. tail - 1 /\ \A u \in Writers : pos[u] \in 0 .. tail - 1
    BY DEF SlotsAccounted
  <2>3. {pos'[u] : u \in Writers'} = {pos[u] : u \in Writers} \cup {tail}
    BY <2>1
  <2>4. 0 .. tail' - 1 = (0 .. tail - 1) \cup {tail}
    BY <2>1 DEF TypeOK
  <2>5. tail \notin 0 .. tail - 1
    BY DEF TypeOK
  <2>6. (DOMAIN A)' \cup {pos'[u] : u \in Writers'} = 0 .. tail' - 1
    BY <2>1, <2>3, <2>4 DEF SlotsAccounted
  <2>7. \A u \in Writers' : pos'[u] \notin (DOMAIN A)'
    BY <2>1, <2>2, <2>5 DEF SlotsAccounted
  <2>8. \A u, v \in Writers' : pos'[u] = pos'[v] => u = v
    BY <2>1, <2>2, <2>5 DEF SlotsAccounted
  <2> QED BY <2>6, <2>7, <2>8 DEF SlotsAccounted
<1>2. ASSUME NEW t \in Threads, StoreElement(t) PROVE SlotsAccounted'
  <2>1. /\ t \in Writers
        /\ Writers' = Writers \ {t}
        /\ pos' = pos /\ tail' = tail
        /\ (DOMAIN A)' = DOMAIN A \cup {pos[t]}
    BY <1>2 DEF StoreElement, Writers, At, Goto, Move, TypeOK
  <2>2. {pos'[u] : u \in Writers'} \cup {pos[t]} = {pos[u] : u \in Writers}
    BY <2>1
  <2>3. (DOMAIN A)' \cup {pos'[u] : u \in Writers'} = 0 .. tail' - 1
    BY <2>1, <2>2 DEF SlotsAccounted
  <2> QED BY <2>1, <2>3 DEF SlotsAccounted
<1>3. ASSUME A' = A, tail' = tail, Writers' = Writers,
             \A t \in Writers : pos'[t] = pos[t]
      PROVE  SlotsAccounted'
  BY <1>3, SlotsUntouched
<1>4. CASE UNCHANGED vars
  BY <1>4, <1>3 DEF vars, Writers, At
<1>5. ASSUME NEW t \in Threads, Call(t) PROVE SlotsAccounted'
  BY <1>5, <1>3 DEF Call, EnqCall, DeqCall, Writers, At, Goto, Move, TypeOK
<1>6. ASSUME NEW t \in Threads,
             LoadTail(t) \/ TestFull(t) \/ LoadSlot(t) \/ RetryEnq(t) \/ StoreOutside(t)
      PROVE SlotsAccounted'
  BY <1>6, <1>3 DEF LoadTail, TestFull, LoadSlot, RetryEnq, StoreOutside, Writers, At, Goto, Move, TypeOK
<1>7. ASSUME NEW t \in Threads, DeqStep(t) \/ Return(t) PROVE SlotsAccounted'
  BY <1>7, <1>3 DEF DeqStep, LoadEnd, LoadStart, TakeHead, RetryDeq, Return,
                    Writers, At, Goto, Move, TypeOK
<1> QED BY <1>1, <1>2, <1>4, <1>5, <1>6, <1>7 DEF Next, Step, EnqStep

(* However many threads enqueue, every slot below tail was claimed by       *)
(* exactly one enq, so no element is ever overwritten or left out.          *)
THEOREM EverySlotHasOneOwner == Spec => []SlotsAccounted
<1>1. Init => SlotsAccounted
  BY DEF Init, SlotsAccounted, Writers, At
<1> QED BY <1>1, InitTypeOK, StepTypeOK, StepSlots, PTL DEF Spec
-----------------------------------------------------------------------------
(***************************************************************************)
(* The overfill.  Fix a past or future value h of head.  Passed(h) holds   *)
(* the threads that may still add an element although the queue looks full *)
(* from h: they are past the test, or the tail they are about to test is   *)
(* old enough to pass it.  While the queue looks full nobody joins them,   *)
(* and each element added takes one of them out; hence Credit.             *)
(***************************************************************************)
Passed(h) == {t \in Threads : \/ At(t, "slot") \/ At(t, "enq_cas")
                              \/ At(t, "full_head") /\ lim[t] - h < MAX_SIZE}
LooksFull(h) == h \in Nat /\ h >= head /\ tail - h >= MAX_SIZE
Credit == \A h \in Nat : LooksFull(h) =>
             tail - h + Cardinality(Passed(h)) <= MAX_SIZE + Cardinality(Threads) - 1

LEMMA PassedFinite ==
    ASSUME NEW h \in Nat
    PROVE  /\ IsFiniteSet(Passed(h)) /\ Cardinality(Passed(h)) \in Nat
           /\ Cardinality(Threads) \in Nat
           /\ Cardinality(Passed(h)) <= Cardinality(Threads)
BY ThreadsAssumption, FS_Subset, FS_CardinalityType DEF Passed

LEMMA PassedFiniteNext ==
    ASSUME NEW h \in Nat
    PROVE  /\ IsFiniteSet(Passed(h)') /\ Cardinality(Passed(h)') \in Nat
           /\ Cardinality(Passed(h)') <= Cardinality(Threads)
BY ThreadsAssumption, FS_Subset, FS_CardinalityType DEF Passed

(* A step that adds no element and lets nobody new pass keeps the credit. *)
LEMMA NobodyJoins ==
    ASSUME TypeOK, TypeOK', Credit, tail' = tail, head' >= head,
           \A h \in Nat : LooksFull(h) => Passed(h)' \subseteq Passed(h)
    PROVE  Credit'
<1> SUFFICES ASSUME NEW h \in Nat, LooksFull(h)'
             PROVE  (tail - h + Cardinality(Passed(h)) <=
                       MAX_SIZE + Cardinality(Threads) - 1)'
  BY DEF Credit
<1>1. LooksFull(h)
  BY DEF LooksFull, TypeOK
<1>2. Cardinality(Passed(h)') <= Cardinality(Passed(h))
  BY <1>1, PassedFinite, FS_Subset
<1> QED BY <1>1, <1>2, PassedFinite, PassedFiniteNext, MaxSizeAssumption DEF Credit, TypeOK

LEMMA StepCredit == TypeOK /\ Credit /\ [Next]_vars => Credit'
<1> SUFFICES ASSUME TypeOK, Credit, [Next]_vars PROVE Credit'
  OBVIOUS
<1>0. TypeOK'
  BY StepTypeOK
<1>1. ASSUME NEW t \in Threads, ClaimSlot(t) PROVE Credit'
  <2> SUFFICES ASSUME NEW h \in Nat, LooksFull(h)'
               PROVE  (tail - h + Cardinality(Passed(h)) <=
                         MAX_SIZE + Cardinality(Threads) - 1)'
    BY DEF Credit
  <2>1. /\ t \in Passed(h)
        /\ Passed(h)' = Passed(h) \ {t}
        /\ tail' = tail + 1 /\ head' = head
    BY <1>1 DEF ClaimSlot, Passed, At, Goto, Move, TypeOK
  <2>2. Cardinality(Passed(h)') = Cardinality(Passed(h)) - 1
    BY <2>1, PassedFinite, FS_RemoveElement
  <2>3. CASE LooksFull(h)
    BY <2>1, <2>2, <2>3, PassedFinite, MaxSizeAssumption DEF Credit, TypeOK
  <2>4. CASE ~LooksFull(h)
    <3>1. tail - h < MAX_SIZE
      BY <2>1, <2>4, MaxSizeAssumption DEF LooksFull, TypeOK
    <3> QED BY <2>1, <2>2, <3>1, PassedFinite, MaxSizeAssumption DEF TypeOK
  <2> QED BY <2>3, <2>4
<1>2. CASE UNCHANGED vars
  <2>1. \A h \in Nat : Passed(h)' = Passed(h)
    BY <1>2 DEF vars, Passed, At
  <2> QED BY <1>0, <1>2, <2>1, NobodyJoins DEF vars, TypeOK
<1>3. ASSUME NEW t \in Threads, Call(t) \/ Return(t) PROVE Credit'
  <2>1. /\ tail' = tail /\ head' = head
        /\ \A h \in Nat : Passed(h)' \subseteq Passed(h)
    BY <1>3 DEF Call, EnqCall, DeqCall, Return, Passed, At, Goto, Move, TypeOK
  <2> QED BY <1>0, <2>1, NobodyJoins DEF TypeOK
<1>4. ASSUME NEW t \in Threads, LoadTail(t) PROVE Credit'
  <2>1. /\ tail' = tail /\ head' = head
        /\ \A h \in Nat : LooksFull(h) => Passed(h)' \subseteq Passed(h)
    BY <1>4, MaxSizeAssumption DEF LoadTail, LooksFull, Passed, At, Goto, Move, TypeOK
  <2> QED BY <1>0, <2>1, NobodyJoins DEF TypeOK
<1>5. ASSUME NEW t \in Threads, TestFull(t) PROVE Credit'
  <2>1. /\ tail' = tail /\ head' = head
        /\ \A h \in Nat : LooksFull(h) => Passed(h)' \subseteq Passed(h)
    BY <1>5, MaxSizeAssumption DEF TestFull, LooksFull, Passed, At, Goto, Move, TypeOK
  <2> QED BY <1>0, <2>1, NobodyJoins DEF TypeOK
<1>6. ASSUME NEW t \in Threads, LoadSlot(t) \/ RetryEnq(t) \/ StoreElement(t) \/ StoreOutside(t)
      PROVE  Credit'
  <2>1. /\ tail' = tail /\ head' = head
        /\ \A h \in Nat : Passed(h)' \subseteq Passed(h)
    BY <1>6 DEF LoadSlot, RetryEnq, StoreElement, StoreOutside, Passed, At, Goto, Move, TypeOK
  <2> QED BY <1>0, <2>1, NobodyJoins DEF TypeOK
<1>7. ASSUME NEW t \in Threads, DeqStep(t) PROVE Credit'
  <2>1. /\ tail' = tail /\ head' >= head
        /\ \A h \in Nat : Passed(h)' \subseteq Passed(h)
    BY <1>7 DEF DeqStep, LoadEnd, LoadStart, TakeHead, RetryDeq,
                Passed, At, Goto, Move, TypeOK
  <2> QED BY <1>0, <2>1, NobodyJoins
<1> QED BY <1>1, <1>2, <1>3, <1>4, <1>5, <1>6, <1>7 DEF Next, Step, EnqStep

LEMMA CreditBoundsOverfill == TypeOK /\ Credit => OverfullBound
<1> SUFFICES ASSUME TypeOK, Credit PROVE OverfullBound
  OBVIOUS
<1>1. Cardinality(Threads) \in Nat \ {0}
  BY ThreadsAssumption, FS_CardinalityType, FS_EmptySet
<1>2. CASE tail - head >= MAX_SIZE
  <2>1. LooksFull(head)
    BY <1>2 DEF LooksFull, TypeOK
  <2>2. tail - head + Cardinality(Passed(head)) <= MAX_SIZE + Cardinality(Threads) - 1
    BY <2>1 DEF Credit, TypeOK
  <2>3. Cardinality(Passed(head)) \in Nat
    BY PassedFinite DEF TypeOK
  <2> QED BY <1>1, <2>2, <2>3, MaxSizeAssumption DEF OverfullBound, TypeOK
<1>3. CASE ~(tail - head >= MAX_SIZE)
  BY <1>1, <1>3, MaxSizeAssumption DEF OverfullBound, TypeOK
<1> QED BY <1>2, <1>3

(* nonblock_q.cpp tests "full" and claims the slot in separate steps: its    *)
(* queue holds at most NUM_THREADS - 1 elements more than MAX_SIZE.          *)
THEOREM OverfillIsBounded == Spec => []OverfullBound
<1>1. Init => Credit
  <2> SUFFICES ASSUME Init, NEW h \in Nat, LooksFull(h) PROVE FALSE
    BY DEF Credit
  <2> QED BY MaxSizeAssumption DEF Init, LooksFull
<1> QED BY <1>1, InitTypeOK, StepTypeOK, StepCredit, CreditBoundsOverfill, PTL DEF Spec
-----------------------------------------------------------------------------
(* The enqs that have still to claim their slot; each of them is a call.    *)
Claiming == {t \in Threads : pc[t] \in EnqLabels \ {"write"}}
CallsCover == tail + Cardinality(Claiming) <= calls

LEMMA ClaimingFinite ==
    /\ IsFiniteSet(Claiming) /\ Cardinality(Claiming) \in Nat
    /\ IsFiniteSet(Claiming') /\ Cardinality(Claiming') \in Nat
<1>1. Claiming \subseteq Threads /\ Claiming' \subseteq Threads
  BY DEF Claiming
<1> QED BY <1>1, ThreadsAssumption, FS_Subset, FS_CardinalityType

LEMMA StepCallsCover == TypeOK /\ CallsCover /\ [Next]_vars => CallsCover'
<1> SUFFICES ASSUME TypeOK, CallsCover, [Next]_vars PROVE CallsCover'
  OBVIOUS
<1>1. ASSUME Claiming' \subseteq Claiming, tail' = tail, calls' \in {calls, calls + 1} PROVE CallsCover'
  <2>1. Cardinality(Claiming') <= Cardinality(Claiming)
    BY <1>1, ClaimingFinite, FS_Subset
  <2> QED BY <1>1, <2>1, ClaimingFinite DEF CallsCover, TypeOK
<1>2. ASSUME NEW t \in Threads, NEW v \in Values, EnqCall(t, v) PROVE CallsCover'
  <2>1. /\ Claiming' = Claiming \cup {t} /\ t \notin Claiming
        /\ tail' = tail /\ calls' = calls + 1
    BY <1>2 DEF EnqCall, Claiming, EnqLabels, At, Goto, Move, TypeOK
  <2>2. Cardinality(Claiming') = Cardinality(Claiming) + 1
    BY <2>1, ClaimingFinite, FS_AddElement
  <2> QED BY <2>1, <2>2, ClaimingFinite DEF CallsCover, TypeOK
<1>3. ASSUME NEW t \in Threads, ClaimSlot(t) PROVE CallsCover'
  <2>1. /\ Claiming' = Claiming \ {t} /\ t \in Claiming
        /\ tail' = tail + 1 /\ calls' = calls
    BY <1>3 DEF ClaimSlot, Claiming, EnqLabels, At, Goto, Move, TypeOK
  <2>2. Cardinality(Claiming') = Cardinality(Claiming) - 1
    BY <2>1, ClaimingFinite, FS_RemoveElement
  <2> QED BY <2>1, <2>2, ClaimingFinite DEF CallsCover, TypeOK
<1>4. CASE UNCHANGED vars
  BY <1>4, <1>1 DEF vars, Claiming
<1>5. ASSUME NEW t \in Threads, DeqCall(t) \/ DeqStep(t) \/ Return(t) PROVE CallsCover'
  BY <1>5, <1>1 DEF DeqCall, DeqStep, LoadEnd, LoadStart, TakeHead, RetryDeq, Return,
                    Claiming, EnqLabels, At, Goto, Move, TypeOK
<1>6. ASSUME NEW t \in Threads,
             \/ LoadTail(t) \/ TestFull(t) \/ LoadSlot(t)
             \/ RetryEnq(t) \/ StoreElement(t) \/ StoreOutside(t)
      PROVE  CallsCover'
  BY <1>6, <1>1 DEF LoadTail, TestFull, LoadSlot, RetryEnq, StoreElement, StoreOutside,
                    Claiming, EnqLabels, At, Goto, Move, TypeOK
<1> QED BY <1>2, <1>3, <1>4, <1>5, <1>6 DEF Next, Call, Step, EnqStep

(* Who has stored behind the array had no slot of it. *)
Outsiders == \A t \in Threads : At(t, "outside") => pos[t] \notin Slots

LEMMA StepOutsiders == TypeOK /\ Outsiders /\ [Next]_vars => Outsiders'
<1> SUFFICES ASSUME TypeOK, Outsiders, [Next]_vars PROVE Outsiders'
  OBVIOUS
<1> USE DEF Outsiders, At, Goto, Move, TypeOK
<1>1. CASE UNCHANGED vars
  BY <1>1 DEF vars
<1>2. ASSUME NEW t \in Threads, Call(t) PROVE Outsiders'
  BY <1>2 DEF Call, EnqCall, DeqCall
<1>3. ASSUME NEW t \in Threads, EnqStep(t) PROVE Outsiders'
  BY <1>3 DEF EnqStep, LoadTail, TestFull, LoadSlot, ClaimSlot, RetryEnq, StoreElement, StoreOutside
<1>4. ASSUME NEW t \in Threads, DeqStep(t) \/ Return(t) PROVE Outsiders'
  BY <1>4 DEF DeqStep, LoadEnd, LoadStart, TakeHead, RetryDeq, Return
<1> QED BY <1>1, <1>2, <1>3, <1>4 DEF Next, Step

(* nonblock_q.cpp:8 for as many calls as the array has slots: no enq leaves *)
(* the array, whatever the other threads do and however often it retries.   *)
THEOREM FewCallsStayInside == Spec => []FewCallsFit
<1>1. Init => SlotsAccounted /\ CallsCover
  <2> SUFFICES ASSUME Init PROVE SlotsAccounted /\ CallsCover
    OBVIOUS
  <2>1. Claiming = {}
    BY DEF Init, Claiming, EnqLabels
  <2> QED BY <2>1, FS_EmptySet DEF Init, SlotsAccounted, CallsCover, Writers, At
<1>2. TypeOK /\ SlotsAccounted /\ CallsCover /\ Outsiders => FewCallsFit
  <2> SUFFICES ASSUME TypeOK, SlotsAccounted, CallsCover, Outsiders, calls <= MAX_SIZE
               PROVE  SlotsInArray /\ ~Overrun
    BY DEF FewCallsFit
  <2>1. tail <= MAX_SIZE
    BY ClaimingFinite, MaxSizeAssumption DEF CallsCover, TypeOK
  <2>2. ASSUME NEW t \in Writers PROVE pos[t] \in Slots
    <3>1. pos[t] \in 0 .. tail - 1
      BY <2>2 DEF SlotsAccounted
    <3> QED BY <2>1, <3>1, MaxSizeAssumption DEF Slots, TypeOK
  <2> QED BY <2>2 DEF SlotsInArray, Outsiders, Overrun, Writers, At
<1>3. Init => Outsiders
  BY DEF Init, Outsiders, At
<1> QED BY <1>1, <1>2, <1>3, StepOutsiders, InitTypeOK, StepTypeOK, StepSlots, StepCallsCover, PTL DEF Spec
-----------------------------------------------------------------------------
(* What a lone dequeuer knows: the tail it loaded is not below head. *)
EndAhead == \A t \in Threads :
              /\ At(t, "start")   => head <= lim[t] /\ lim[t] <= tail
              /\ At(t, "deq_cas") => pos[t] = head /\ head < lim[t] /\ lim[t] <= tail
LoneInv == OneDequeuer /\ HeadBehindTail /\ EndAhead

LEMMA StepLone ==
    TypeOK /\ LoneInv /\ [Next /\ OneDequeuer']_vars => LoneInv'
<1> SUFFICES ASSUME TypeOK, LoneInv, [Next /\ OneDequeuer']_vars PROVE LoneInv'
  OBVIOUS
<1> USE DEF LoneInv, HeadBehindTail, EndAhead, At, Goto, Move, TypeOK
<1>1. CASE UNCHANGED vars
  BY <1>1 DEF vars, OneDequeuer, Dequeuers
<1>2. ASSUME OneDequeuer', NEW t \in Threads, Call(t) \/ Return(t) PROVE LoneInv'
  BY <1>2 DEF Call, EnqCall, DeqCall, Return
<1>3. ASSUME OneDequeuer', NEW t \in Threads, EnqStep(t) PROVE LoneInv'
  BY <1>3 DEF EnqStep, LoadTail, TestFull, LoadSlot, ClaimSlot, RetryEnq, StoreElement, StoreOutside
<1>4. ASSUME OneDequeuer', NEW t \in Threads, LoadEnd(t) PROVE LoneInv'
  BY <1>4 DEF LoadEnd
<1>5. ASSUME OneDequeuer', NEW t \in Threads, LoadStart(t) PROVE LoneInv'
  BY <1>5 DEF LoadStart
<1>6. ASSUME OneDequeuer', NEW t \in Threads, TakeHead(t) PROVE LoneInv'
  <2>1. \A u \in Threads : At(u, "start") \/ At(u, "deq_cas") => u = t
    BY <1>6 DEF TakeHead, OneDequeuer, Dequeuers, DeqLabels
  <2>2. /\ head' = head + 1 /\ head < tail /\ tail' = tail
        /\ pc' = [pc EXCEPT ![t] = "return"]
    BY <1>6 DEF TakeHead
  <2> QED BY <1>6, <2>1, <2>2
<1>7. ASSUME OneDequeuer', NEW t \in Threads, RetryDeq(t) PROVE LoneInv'
  BY <1>7 DEF RetryDeq
<1> QED BY <1>1, <1>2, <1>3, <1>4, <1>5, <1>6, <1>7 DEF Next, Step, DeqStep

(* As long as the dequeuers take turns, deq removes only what enq put in,    *)
(* with any number of concurrent enqueuers.                                  *)
THEOREM TurnsKeepHeadBehind == OneDequeuerSpec => []HeadBehindTail
<1>1. Init => LoneInv
  BY DEF Init, LoneInv, OneDequeuer, Dequeuers, DeqLabels, HeadBehindTail, EndAhead, At
<1>2. [Next /\ OneDequeuer']_vars => [Next]_vars
  OBVIOUS
<1>3. LoneInv => HeadBehindTail
  BY DEF LoneInv
<1> QED BY <1>1, <1>2, <1>3, InitTypeOK, StepTypeOK, StepLone, PTL DEF OneDequeuerSpec
-----------------------------------------------------------------------------
(***************************************************************************)
(* The refinement: with one enqueuer and one dequeuer at a time every step *)
(* of the queue is a step of BoundedQueue or leaves it unchanged.          *)
(***************************************************************************)

(* What a lone enqueuer knows: nobody has moved tail since it looked, and a  *)
(* queue that was not full is not full now.                                  *)
TailKnown == \A t \in Threads :
               /\ At(t, "full_head") => lim[t] = tail
               /\ At(t, "slot")      => tail - head < MAX_SIZE
               /\ At(t, "enq_cas")   => tail - head < MAX_SIZE /\ pos[t] = tail
PairInv == OneEnqueuer /\ TailKnown

Turns == Next /\ OneDequeuer' /\ OneEnqueuer'

LEMMA StepPair == TypeOK /\ PairInv /\ [Turns]_vars => PairInv'
<1> SUFFICES ASSUME TypeOK, PairInv, [Turns]_vars PROVE PairInv'
  OBVIOUS
<1> USE MaxSizeAssumption DEF PairInv, TailKnown, At, Goto, Move, TypeOK, Turns
<1>1. CASE UNCHANGED vars
  BY <1>1 DEF vars, OneEnqueuer, Enqueuers
<1>2. ASSUME OneEnqueuer', NEW t \in Threads, Call(t) \/ Return(t) PROVE PairInv'
  BY <1>2 DEF Call, EnqCall, DeqCall, Return
<1>3. ASSUME OneEnqueuer', NEW t \in Threads, DeqStep(t) PROVE PairInv'
  BY <1>3 DEF DeqStep, LoadEnd, LoadStart, TakeHead, RetryDeq
<1>4. ASSUME OneEnqueuer', NEW t \in Threads, EnqStep(t) PROVE PairInv'
  <2>1. \A u \in Threads : u # t => u \notin Enqueuers
    BY <1>4 DEF OneEnqueuer, Enqueuers, EnqLabels, EnqStep, LoadTail, TestFull, LoadSlot,
                ClaimSlot, RetryEnq, StoreElement, StoreOutside
  <2>2. CASE LoadTail(t) \/ TestFull(t) \/ LoadSlot(t) \/ RetryEnq(t) \/ StoreElement(t) \/ StoreOutside(t)
    BY <1>4, <2>2 DEF LoadTail, TestFull, LoadSlot, RetryEnq, StoreElement, StoreOutside
  <2>3. CASE ClaimSlot(t)
    <3>1. pc' = [pc EXCEPT ![t] = "write"]
      BY <2>3 DEF ClaimSlot
    <3>2. \A u \in Threads : pc'[u] \notin {"full_head", "slot", "enq_cas"}
      BY <2>1, <3>1 DEF Enqueuers, EnqLabels
    <3> QED BY <1>4, <3>2
  <2> QED BY <1>4, <2>2, <2>3 DEF EnqStep
<1> QED BY <1>1, <1>2, <1>3, <1>4 DEF Next, Step

(* Each slot below tail has one element: stored, or in its writer's hands.  *)
SlotsHold == /\ \A t \in Writers : ElementAt(pos[t]) = x[t]
             /\ \A s \in DOMAIN A : ElementAt(s) = A[s]
             /\ \A s \in 0 .. tail - 1 : ElementAt(s) \in Values

(* Elements is the sequence of them from head to tail. *)
FromHeadToTail == /\ Elements \in Seq(Values)
                  /\ Len(Elements) = tail - head
                  /\ \A k \in 1 .. tail - head, s \in 0 .. tail - 1 :
                       s = head + k - 1 => Elements[k] = ElementAt(s)

LEMMA ElementOf == TypeOK /\ SlotsAccounted => SlotsHold
<1> SUFFICES ASSUME TypeOK, SlotsAccounted PROVE SlotsHold
  OBVIOUS
<1>1. ASSUME NEW t \in Writers PROVE ElementAt(pos[t]) = x[t]
  <2>1. (CHOOSE u \in Writers : pos[u] = pos[t]) = t
    BY DEF SlotsAccounted
  <2> QED BY <2>1 DEF ElementAt
<1>2. ASSUME NEW s \in DOMAIN A PROVE ElementAt(s) = A[s]
  BY DEF SlotsAccounted, ElementAt
<1> QED BY <1>1, <1>2 DEF SlotsAccounted, TypeOK, Writers, SlotsHold

LEMMA ElementsType == TypeOK /\ SlotsAccounted /\ HeadBehindTail => FromHeadToTail
<1> SUFFICES ASSUME TypeOK, SlotsAccounted, HeadBehindTail PROVE FromHeadToTail
  OBVIOUS
<1>1. tail - head \in Nat
  BY DEF TypeOK, HeadBehindTail
<1>2. \A k \in 1 .. tail - head : head + k - 1 \in 0 .. tail - 1
  BY DEF TypeOK
<1>3. \A k \in 1 .. tail - head : ElementAt(head + k - 1) \in Values
  BY <1>2, ElementOf DEF SlotsHold
<1> QED BY <1>1, <1>3 DEF Elements, FromHeadToTail

Known == TypeOK /\ SlotsAccounted /\ LoneInv /\ PairInv

LEMMA KnownElements == Known => SlotsHold /\ FromHeadToTail
BY ElementOf, ElementsType DEF Known, LoneInv

LEMMA KnownElementsNext == Known' => SlotsHold' /\ FromHeadToTail'
BY KnownElements, PTL

LEMMA StepKnown == Known /\ [Turns]_vars => Known'
BY StepTypeOK, StepSlots, StepLone, StepPair DEF Known, Turns

(* The abstract queue changes when tail or head does, and not otherwise.    *)
LEMMA QueueSame ==
    ASSUME Known, Known', A' = A, tail' = tail, head' = head, Writers' = Writers,
           \A t \in Writers : pos'[t] = pos[t] /\ x'[t] = x[t]
    PROVE  Elements' = Elements
<1>1. ASSUME NEW s \in 0 .. tail - 1 PROVE ElementAt(s)' = ElementAt(s)
  <2>1. s \in DOMAIN A \/ \E t \in Writers : s = pos[t]
    BY DEF Known, SlotsAccounted
  <2> QED BY <2>1, KnownElements, KnownElementsNext DEF SlotsHold
<1>2. \A k \in 1 .. tail - head : head + k - 1 \in 0 .. tail - 1
  BY DEF Known, TypeOK
<1>3. ASSUME NEW k \in 1 .. tail - head PROVE Elements'[k] = Elements[k]
  <2>1. PICK s \in 0 .. tail - 1 : s = head + k - 1
    BY <1>2
  <2> QED BY <1>1, <2>1, KnownElements, KnownElementsNext DEF FromHeadToTail
<1> QED BY <1>3, KnownElements, KnownElementsNext, SeqEqual DEF FromHeadToTail

LEMMA QueueAppended ==
    ASSUME Known, Known', NEW t \in Threads, ClaimSlot(t)
    PROVE  Len(Elements) < MAX_SIZE /\ Elements' = Append(Elements, x[t])
<1>1. /\ pos[t] = tail /\ tail - head < MAX_SIZE
      /\ tail' = tail + 1 /\ head' = head /\ A' = A /\ x' = x /\ pos' = pos
      /\ t \in Writers' /\ Writers \subseteq Writers'
      /\ head \in Nat /\ tail \in Nat /\ head <= tail /\ x[t] \in Values
  BY DEF ClaimSlot, Known, PairInv, TailKnown, LoneInv, HeadBehindTail, Writers, At,
         Goto, Move, TypeOK
<1>2. ASSUME NEW s \in 0 .. tail - 1 PROVE ElementAt(s)' = ElementAt(s)
  <2>1. s \in DOMAIN A \/ \E u \in Writers : s = pos[u]
    BY DEF Known, SlotsAccounted
  <2> QED BY <1>1, <2>1, KnownElements, KnownElementsNext DEF SlotsHold
<1>3. ASSUME NEW s \in Nat, s = tail PROVE ElementAt(s)' = x[t]
  <2>1. (CHOOSE u \in Writers' : pos'[u] = s) = t
    BY <1>1, <1>3 DEF Known, SlotsAccounted
  <2> QED BY <1>1, <1>3, <2>1 DEF ElementAt
<1> DEFINE n == tail - head
<1>4. n \in Nat /\ Len(Elements) = n /\ Len(Elements') = n + 1
  BY <1>1, KnownElements, KnownElementsNext DEF FromHeadToTail
<1>5. \A k \in 1 .. n : head + k - 1 \in 0 .. tail - 1
  BY <1>1
<1>6. \A k \in 1 .. n : Elements'[k] = Elements[k]
  <2> TAKE k \in 1 .. n
  <2>1. k \in 1 .. tail' - head'
    BY <1>1
  <2>2. PICK s \in 0 .. tail - 1 : s = head + k - 1
    BY <1>5
  <2>3. s \in 0 .. tail' - 1
    BY <1>1
  <2>4. Elements'[k] = ElementAt(s)'
    BY <1>1, <2>1, <2>2, <2>3, KnownElementsNext DEF FromHeadToTail
  <2>5. Elements[k] = ElementAt(s)
    BY <2>2, KnownElements DEF FromHeadToTail
  <2> QED BY <1>2, <2>4, <2>5
<1>7. Elements'[n + 1] = x[t]
  <2>1. /\ n + 1 \in 1 .. tail' - head' /\ tail \in 0 .. tail' - 1
        /\ tail = head' + (n + 1) - 1
    BY <1>1
  <2>2. PICK s \in 0 .. tail' - 1 : s = tail
    BY <2>1
  <2>3. Elements'[n + 1] = ElementAt(s)'
    BY <2>1, <2>2, KnownElementsNext DEF FromHeadToTail
  <2> QED BY <1>1, <1>3, <2>2, <2>3
<1> HIDE DEF n
<1>8. Elements \in Seq(Values) /\ Elements' \in Seq(Values)
  BY KnownElements, KnownElementsNext DEF FromHeadToTail
<1>9. /\ Append(Elements, x[t]) \in Seq(Values)
      /\ Len(Append(Elements, x[t])) = n + 1
      /\ \A k \in 1 .. n : Append(Elements, x[t])[k] = Elements[k]
      /\ Append(Elements, x[t])[n + 1] = x[t]
  BY <1>1, <1>4, <1>8, AppendProperties
<1>10. \A k \in 1 .. n + 1 : Elements'[k] = Append(Elements, x[t])[k]
  BY <1>4, <1>6, <1>7, <1>9
<1>11. Elements' = Append(Elements, x[t])
  BY <1>4, <1>8, <1>9, <1>10, SeqEqual
<1> QED BY <1>1, <1>4, <1>11 DEF n

LEMMA QueueTail ==
    ASSUME Known, Known', NEW t \in Threads, TakeHead(t)
    PROVE  Elements # <<>> /\ Elements' = Tail(Elements)
<1>1. /\ head < tail /\ tail' = tail /\ head' = head + 1 /\ A' = A /\ x' = x /\ pos' = pos
      /\ Writers' = Writers
      /\ head \in Nat /\ tail \in Nat
  BY DEF TakeHead, Known, LoneInv, EndAhead, Writers, At, Goto, Move, TypeOK
<1>2. ASSUME NEW s \in 0 .. tail - 1 PROVE ElementAt(s)' = ElementAt(s)
  <2>1. s \in DOMAIN A \/ \E u \in Writers : s = pos[u]
    BY DEF Known, SlotsAccounted
  <2> QED BY <1>1, <2>1, KnownElements, KnownElementsNext DEF SlotsHold
<1> DEFINE n == tail - head
<1>3. n \in Nat \ {0} /\ Len(Elements) = n /\ Len(Elements') = n - 1
  BY <1>1, KnownElements, KnownElementsNext DEF FromHeadToTail
<1>4. \A k \in 1 .. n - 1 : Elements'[k] = Elements[k + 1]
  <2> TAKE k \in 1 .. n - 1
  <2>1. /\ k \in 1 .. tail' - head' /\ k + 1 \in 1 .. tail - head
        /\ head + k \in 0 .. tail - 1
    BY <1>1
  <2>2. PICK s \in 0 .. tail - 1 : s = head + k
    BY <2>1
  <2>3. s \in 0 .. tail' - 1 /\ s = head' + k - 1 /\ s = head + (k + 1) - 1
    BY <1>1, <2>2
  <2>4. Elements'[k] = ElementAt(s)'
    BY <2>1, <2>3, KnownElementsNext DEF FromHeadToTail
  <2>5. Elements[k + 1] = ElementAt(s)
    BY <2>1, <2>3, KnownElements DEF FromHeadToTail
  <2> QED BY <1>2, <2>4, <2>5
<1> HIDE DEF n
<1>5. Elements \in Seq(Values) /\ Elements' \in Seq(Values)
  BY KnownElements, KnownElementsNext DEF FromHeadToTail
<1>6. Elements # <<>>
  BY <1>3, <1>5, EmptySeq
<1>7. /\ Tail(Elements) \in Seq(Values) /\ Len(Tail(Elements)) = n - 1
      /\ \A k \in 1 .. n - 1 : Tail(Elements)[k] = Elements[k + 1]
  BY <1>3, <1>5, <1>6, HeadTailProperties
<1>8. \A k \in 1 .. n - 1 : Elements'[k] = Tail(Elements)[k]
  BY <1>4, <1>7
<1>9. Elements' = Tail(Elements)
  BY <1>3, <1>5, <1>7, <1>8, SeqEqual
<1> QED BY <1>6, <1>9

(* Status, without the CASE. *)
StatusIf(t) ==
    IF At(t, "idle") THEN "idle"
    ELSE IF pc[t] \in {"write", "outside", "return"} \/ (At(t, "start") /\ lim[t] = head) THEN "done"
    ELSE IF pc[t] \in EnqLabels THEN "enq" ELSE "deq"
StatusIs == Status \in [Threads -> {"idle", "enq", "deq", "done"}]
            /\ \A t \in Threads : Status[t] = StatusIf(t)

LEMMA StatusCases == StatusIs
<1>1. ASSUME NEW t \in Threads PROVE Status[t] = StatusIf(t)
  <2>1. CASE At(t, "idle")
    BY <2>1, Zenon DEF StatusIf, Status, At, EnqLabels
  <2>2. CASE pc[t] \in {"write", "outside", "return"}
    BY <2>2, Zenon DEF StatusIf, Status, At, EnqLabels
  <2>3. CASE pc[t] \in EnqLabels \ {"write"}
    BY <2>3, Zenon DEF StatusIf, Status, At, EnqLabels
  <2>4. CASE At(t, "start") /\ lim[t] = head
    BY <2>4, Zenon DEF StatusIf, Status, At, EnqLabels
  <2>5. CASE /\ ~(At(t, "start") /\ lim[t] = head)
             /\ pc[t] \notin EnqLabels \cup {"outside", "return", "idle"}
    BY <2>5, Zenon DEF StatusIf, Status, At, EnqLabels
  <2> QED BY <2>1, <2>2, <2>3, <2>4, <2>5 DEF At
<1>2. \A t \in Threads : Status[t] \in {"idle", "enq", "deq", "done"}
  BY <1>1 DEF StatusIf
<1>3. Status \in [Threads -> {"idle", "enq", "deq", "done"}]
  BY <1>2, Zenon DEF Status
<1> QED BY <1>1, <1>3 DEF StatusIs

LEMMA StatusCasesNext == StatusIs'
BY StatusCases, PTL

(* A step of t changes t's status only; head is looked at by one thread.    *)
LEMMA StatusOf ==
    ASSUME NEW t \in Threads, NEW s,
           \A u \in Threads \ {t} : /\ pc'[u] = pc[u]
                                    /\ At(u, "start") => (lim'[u] = head' <=> lim[u] = head),
           Status'[t] = s
    PROVE  Status' = [Status EXCEPT ![t] = s]
<1>1. \A u \in Threads \ {t} : Status'[u] = Status[u]
  BY StatusCases, StatusCasesNext DEF StatusIs, StatusIf, At
<1> QED BY <1>1, StatusCases, StatusCasesNext DEF StatusIs

LEMMA EnqSteps ==
    ASSUME Known, Known', NEW t \in Threads,
           EnqStep(t) \/ \E v \in Values : EnqCall(t, v)
    PROVE  [Abstract!Next]_(Abstract!vars)
<1> USE DEF Abstract!vars
<1>1. TypeOK /\ TypeOK'
  BY DEF Known
<1>2. ASSUME NEW v \in Values, EnqCall(t, v) PROVE Abstract!EnqCall(t, v)
  <2>1. Elements' = Elements
    BY <1>1, <1>2, QueueSame DEF EnqCall, Writers, At, Goto, Move, TypeOK
  <2>2. Status[t] = "idle" /\ Status'[t] = "enq"
    BY <1>1, <1>2, StatusCases, StatusCasesNext DEF EnqCall, StatusIs, StatusIf, EnqLabels, At, Goto, Move, TypeOK
  <2>3. Status' = [Status EXCEPT ![t] = "enq"]
    BY <1>1, <1>2, <2>2, StatusOf DEF EnqCall, At, Goto, Move, TypeOK
  <2> QED BY <1>2, <2>1, <2>2, <2>3 DEF EnqCall, Abstract!EnqCall
<1>3. CASE LoadTail(t) \/ LoadSlot(t) \/ RetryEnq(t)
  <2>1. Elements' = Elements
    BY <1>1, <1>3, QueueSame DEF LoadTail, LoadSlot, RetryEnq, Writers, At, Goto, Move, TypeOK
  <2>2. Status[t] = "enq" /\ Status'[t] = "enq"
    BY <1>1, <1>3, StatusCases, StatusCasesNext
    DEF LoadTail, LoadSlot, RetryEnq, StatusIs, StatusIf, EnqLabels, At, Goto, Move, TypeOK
  <2>3. Status' = [Status EXCEPT ![t] = "enq"]
    BY <1>1, <1>3, <2>2, StatusOf DEF LoadTail, LoadSlot, RetryEnq, At, Goto, Move, TypeOK
  <2>4. Status' = Status
    BY <2>2, <2>3, StatusCases, StatusCasesNext DEF StatusIs
  <2> QED BY <1>3, <2>1, <2>4 DEF LoadTail, LoadSlot, RetryEnq
<1>4. CASE TestFull(t)
  <2>1. Elements' = Elements
    BY <1>1, <1>4, QueueSame DEF TestFull, Writers, At, Goto, Move, TypeOK
  <2>2. Status[t] = "enq"
    BY <1>1, <1>4, StatusCases, StatusCasesNext DEF TestFull, StatusIs, StatusIf, EnqLabels, At, Goto, Move, TypeOK
  <2>3. CASE lim[t] - head >= MAX_SIZE
    <3>1. ~(Len(Elements) < MAX_SIZE)
      <4>1. lim[t] = tail
        BY <1>4 DEF TestFull, Known, PairInv, TailKnown, At, Move
      <4>2. Len(Elements) = tail - head
        BY KnownElements DEF FromHeadToTail
      <4> QED BY <1>1, <2>3, <4>1, <4>2, MaxSizeAssumption DEF TypeOK
    <3>2. Status'[t] = "done"
      BY <1>1, <1>4, <2>3, StatusCases, StatusCasesNext DEF TestFull, StatusIs, StatusIf, EnqLabels, At, Goto, Move, TypeOK
    <3>3. Status' = [Status EXCEPT ![t] = "done"]
      BY <1>1, <1>4, <3>2, StatusOf DEF TestFull, At, Goto, Move, TypeOK
    <3>4. Abstract!EnqEffect(t)
      BY <1>4, <2>1, <2>2, <3>1, <3>3 DEF TestFull, Abstract!EnqEffect
    <3> QED BY <3>4 DEF Abstract!Next
  <2>4. CASE ~(lim[t] - head >= MAX_SIZE)
    <3>1. Status'[t] = "enq"
      BY <1>1, <1>4, <2>4, StatusCases, StatusCasesNext DEF TestFull, StatusIs, StatusIf, EnqLabels, At, Goto, Move, TypeOK
    <3>2. Status' = [Status EXCEPT ![t] = "enq"]
      BY <1>1, <1>4, <3>1, StatusOf DEF TestFull, At, Goto, Move, TypeOK
    <3>3. Status' = Status
      BY <2>2, <3>2, StatusCases, StatusCasesNext DEF StatusIs
    <3> QED BY <1>4, <2>1, <3>3 DEF TestFull
  <2> QED BY <2>3, <2>4
<1>5. CASE ClaimSlot(t)
  <2>1. Len(Elements) < MAX_SIZE /\ Elements' = Append(Elements, x[t])
    BY <1>5, QueueAppended
  <2>2. Status[t] = "enq" /\ Status'[t] = "done"
    BY <1>1, <1>5, StatusCases, StatusCasesNext DEF ClaimSlot, StatusIs, StatusIf, EnqLabels, At, Goto, Move, TypeOK
  <2>3. Status' = [Status EXCEPT ![t] = "done"]
    BY <1>1, <1>5, <2>2, StatusOf DEF ClaimSlot, At, Goto, Move, TypeOK
  <2>4. Abstract!EnqEffect(t)
    BY <1>5, <2>1, <2>2, <2>3 DEF ClaimSlot, Abstract!EnqEffect
  <2> QED BY <2>4 DEF Abstract!Next
<1>6. CASE StoreElement(t)
  <2>1. Elements' = Elements
    <3>1. ASSUME NEW s \in 0 .. tail - 1 PROVE ElementAt(s)' = ElementAt(s)
      <4>1. /\ tail' = tail /\ x' = x /\ pos' = pos /\ t \in Writers
            /\ Writers' = Writers \ {t}
            /\ A' = [r \in DOMAIN A \cup {pos[t]} |-> IF r = pos[t] THEN x[t] ELSE A[r]]
        BY <1>1, <1>6 DEF StoreElement, Writers, At, Goto, Move, TypeOK
      <4>2. s \in DOMAIN A \/ \E u \in Writers : s = pos[u]
        BY DEF Known, SlotsAccounted
      <4>3. CASE s = pos[t]
        BY <4>1, <4>3, KnownElements, KnownElementsNext DEF SlotsHold
      <4>4. CASE s # pos[t] /\ s \in DOMAIN A
        BY <4>1, <4>4, KnownElements, KnownElementsNext DEF SlotsHold
      <4>5. ASSUME s # pos[t], NEW u \in Writers, s = pos[u]
            PROVE  ElementAt(s)' = ElementAt(s)
        BY <4>1, <4>5, KnownElements, KnownElementsNext DEF SlotsHold
      <4> QED BY <4>2, <4>3, <4>4, <4>5
    <3>2. \A k \in 1 .. tail - head : head + k - 1 \in 0 .. tail - 1
      BY <1>1 DEF TypeOK
    <3>3. tail' = tail /\ head' = head
      BY <1>6 DEF StoreElement
    <3>4. ASSUME NEW k \in 1 .. tail - head PROVE Elements'[k] = Elements[k]
      <4>1. PICK s \in 0 .. tail - 1 : s = head + k - 1
        BY <3>2
      <4> QED BY <3>1, <3>3, <4>1, KnownElements, KnownElementsNext DEF FromHeadToTail
    <3> QED BY <3>3, <3>4, KnownElements, KnownElementsNext, SeqEqual DEF FromHeadToTail
  <2>2. Status[t] = "done" /\ Status'[t] = "done"
    BY <1>1, <1>6, StatusCases, StatusCasesNext DEF StoreElement, StatusIs, StatusIf, EnqLabels, At, Goto, Move, TypeOK
  <2>3. Status' = [Status EXCEPT ![t] = "done"]
    BY <1>1, <1>6, <2>2, StatusOf DEF StoreElement, At, Goto, Move, TypeOK
  <2>4. Status' = Status
    BY <2>2, <2>3, StatusCases, StatusCasesNext DEF StatusIs
  <2> QED BY <1>6, <2>1, <2>4 DEF StoreElement
<1>7. CASE StoreOutside(t)
  <2>1. Elements' = Elements
    BY <1>1, <1>7, QueueSame DEF StoreOutside, Writers, At, Goto, Move, TypeOK
  <2>2. Status[t] = "done" /\ Status'[t] = "done"
    BY <1>1, <1>7, StatusCases, StatusCasesNext DEF StoreOutside, StatusIs, StatusIf, EnqLabels, At, Goto, Move, TypeOK
  <2>3. Status' = [Status EXCEPT ![t] = "done"]
    BY <1>1, <1>7, <2>2, StatusOf DEF StoreOutside, At, Goto, Move, TypeOK
  <2>4. Status' = Status
    BY <2>2, <2>3, StatusCases, StatusCasesNext DEF StatusIs
  <2> QED BY <1>7, <2>1, <2>4 DEF StoreOutside
<1> QED BY <1>2, <1>3, <1>4, <1>5, <1>6, <1>7 DEF EnqStep, Abstract!Next

LEMMA DeqSteps ==
    ASSUME Known, Known', NEW t \in Threads, DeqStep(t) \/ DeqCall(t) \/ Return(t)
    PROVE  [Abstract!Next]_(Abstract!vars)
<1> USE DEF Abstract!vars
<1>1. TypeOK /\ TypeOK'
  BY DEF Known
<1>2. CASE DeqCall(t)
  <2>1. Elements' = Elements
    BY <1>1, <1>2, QueueSame DEF DeqCall, Writers, At, Goto, Move, TypeOK
  <2>2. Status[t] = "idle" /\ Status'[t] = "deq"
    BY <1>1, <1>2, StatusCases, StatusCasesNext
    DEF DeqCall, StatusIs, StatusIf, EnqLabels, At, Goto, Move, TypeOK
  <2>3. Status' = [Status EXCEPT ![t] = "deq"]
    BY <1>1, <1>2, <2>2, StatusOf DEF DeqCall, At, Goto, Move, TypeOK
  <2>4. Abstract!DeqCall(t)
    BY <1>2, <2>1, <2>2, <2>3 DEF DeqCall, Abstract!DeqCall
  <2> QED BY <2>4 DEF Abstract!Next
<1>3. CASE LoadEnd(t)
  <2>1. Elements' = Elements /\ Len(Elements) = tail - head /\ Elements \in Seq(Values)
    BY <1>1, <1>3, QueueSame, KnownElements
    DEF LoadEnd, Writers, At, Goto, Move, TypeOK, FromHeadToTail
  <2>2. Status[t] = "deq" /\ Status'[t] = IF head = tail THEN "done" ELSE "deq"
    BY <1>1, <1>3, StatusCases, StatusCasesNext
    DEF LoadEnd, StatusIs, StatusIf, EnqLabels, At, Goto, Move, TypeOK
  <2>3. Status' = [Status EXCEPT ![t] = IF head = tail THEN "done" ELSE "deq"]
    BY <1>1, <1>3, <2>2, StatusOf DEF LoadEnd, At, Goto, Move, TypeOK
  <2>4. CASE head = tail
    <3>1. Elements = <<>>
      BY <1>1, <2>1, <2>4, EmptySeq DEF TypeOK
    <3>2. Abstract!DeqEffect(t)
      BY <1>3, <2>1, <2>2, <2>3, <2>4, <3>1 DEF LoadEnd, Abstract!DeqEffect
    <3> QED BY <3>2 DEF Abstract!Next
  <2>5. CASE head # tail
    <3>1. Status' = Status
      BY <2>2, <2>3, <2>5, StatusCases, StatusCasesNext DEF StatusIs
    <3> QED BY <1>3, <2>1, <3>1 DEF LoadEnd
  <2> QED BY <2>4, <2>5
<1>4. CASE LoadStart(t) \/ RetryDeq(t)
  <2>1. Elements' = Elements
    BY <1>1, <1>4, QueueSame DEF LoadStart, RetryDeq, Writers, At, Goto, Move, TypeOK
  <2>2. At(t, "deq_cas") => head # lim[t]
    BY <1>1 DEF Known, LoneInv, EndAhead, TypeOK
  <2>3. Status'[t] = Status[t]
    BY <1>1, <1>4, <2>2, StatusCases, StatusCasesNext
    DEF LoadStart, RetryDeq, StatusIs, StatusIf, EnqLabels, At, Goto, Move, TypeOK
  <2>4. Status' = [Status EXCEPT ![t] = Status[t]]
    BY <1>1, <1>4, <2>3, StatusOf DEF LoadStart, RetryDeq, At, Goto, Move, TypeOK
  <2>5. Status' = Status
    BY <2>4, StatusCases DEF StatusIs
  <2> QED BY <1>4, <2>1, <2>5 DEF LoadStart, RetryDeq
<1>5. CASE TakeHead(t)
  <2>1. Elements # <<>> /\ Elements' = Tail(Elements)
    BY <1>5, QueueTail
  <2>2. Status[t] = "deq" /\ Status'[t] = "done"
    BY <1>1, <1>5, StatusCases, StatusCasesNext
    DEF TakeHead, StatusIs, StatusIf, EnqLabels, At, Goto, Move, TypeOK
  <2>3. \A u \in Threads \ {t} : ~At(u, "start")
    BY <1>5 DEF TakeHead, Known, LoneInv, OneDequeuer, Dequeuers, DeqLabels, At, Move
  <2>4. Status' = [Status EXCEPT ![t] = "done"]
    BY <1>1, <1>5, <2>2, <2>3, StatusOf DEF TakeHead, At, Goto, Move, TypeOK
  <2>5. Abstract!DeqEffect(t)
    BY <1>5, <2>1, <2>2, <2>4 DEF TakeHead, Abstract!DeqEffect
  <2> QED BY <2>5 DEF Abstract!Next
<1>6. CASE Return(t)
  <2>1. Elements' = Elements
    BY <1>1, <1>6, QueueSame DEF Return, Writers, At, Goto, Move, TypeOK
  <2>2. Status[t] = "done" /\ Status'[t] = "idle"
    BY <1>1, <1>6, StatusCases, StatusCasesNext
    DEF Return, StatusIs, StatusIf, EnqLabels, At, Goto, Move, TypeOK
  <2>3. Status' = [Status EXCEPT ![t] = "idle"]
    BY <1>1, <1>6, <2>2, StatusOf DEF Return, At, Goto, Move, TypeOK
  <2>4. Abstract!Return(t)
    BY <1>6, <2>1, <2>2, <2>3 DEF Return, Abstract!Return
  <2> QED BY <2>4 DEF Abstract!Next
<1> QED BY <1>2, <1>3, <1>4, <1>5, <1>6 DEF DeqStep

LEMMA InitRefines == Init => Known /\ Abstract!Init
<1> SUFFICES ASSUME Init PROVE Known /\ Abstract!Init
  OBVIOUS
<1>1. Known
  <2>1. SlotsAccounted
    BY DEF Init, SlotsAccounted, Writers, At
  <2>2. LoneInv /\ PairInv
    BY DEF Init, LoneInv, OneDequeuer, Dequeuers, DeqLabels, HeadBehindTail, EndAhead,
           PairInv, OneEnqueuer, Enqueuers, EnqLabels, TailKnown, At
  <2> QED BY <2>1, <2>2, InitTypeOK DEF Known
<1>2. Elements = <<>>
  BY <1>1, KnownElements, EmptySeq DEF Init, FromHeadToTail
<1>3. Status = [t \in Threads |-> "idle"]
  BY StatusCases DEF Init, StatusIs, StatusIf, At
<1>4. x \in [Threads -> Values]
  BY <1>1 DEF Known, TypeOK
<1> QED BY <1>1, <1>2, <1>3, <1>4 DEF Abstract!Init

(* One call of each kind at a time: until an enq stores behind the array    *)
(* the queue of nonblock_q.cpp does what BoundedQueue promises, for every   *)
(* capacity, every set of threads that take turns, and whether or not a     *)
(* weak compare-and-swap fails spuriously.                                  *)
THEOREM TurnsMakeItAQueue == PairSpec => ImplementsBoundedQueue
<1>1. Known /\ [Turns]_vars => [Abstract!Next]_(Abstract!vars)
  <2> SUFFICES ASSUME Known, [Turns]_vars PROVE [Abstract!Next]_(Abstract!vars)
    OBVIOUS
  <2>1. Known'
    BY StepKnown
  <2>2. CASE UNCHANGED vars
    <3>1. Elements' = Elements
      BY <2>1, <2>2, QueueSame DEF vars, Writers, At
    <3>2. Status' = Status
      BY <2>2, StatusCases, StatusCasesNext DEF vars, StatusIs, StatusIf, At
    <3> QED BY <2>2, <3>1, <3>2 DEF vars, Abstract!vars
  <2>3. ASSUME NEW t \in Threads, Call(t) \/ Step(t) PROVE [Abstract!Next]_(Abstract!vars)
    BY <2>1, <2>3, EnqSteps, DeqSteps DEF Call, Step
  <2> QED BY <2>2, <2>3 DEF Turns, Next
<1>2. PairSpec => Init /\ [][Turns]_vars
  BY PTL DEF PairSpec, Turns
<1> QED BY <1>1, <1>2, StepKnown, InitRefines, PTL DEF ImplementsBoundedQueue, Abstract!Spec
=============================================================================
