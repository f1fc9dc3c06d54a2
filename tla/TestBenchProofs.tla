-------------------------- MODULE TestBenchProofs --------------------------
(***************************************************************************)
(* For every number of threads, every MAX_SIZE and whatever is found       *)
(* behind the array: total_cals never counts a call twice, and no thread   *)
(* leaves the test bench before MAX_SIZE calls have returned.              *)
(***************************************************************************)
EXTENDS MCBench, FiniteSetTheorems, TLAPS

USE DEF At, Goto, Move

(* A thread between the load and the store of total_cals++ holds a value    *)
(* that leaves room for every call that is still to be counted.             *)
RoomToCount == \A t \in Tids : At(t, "total_write") =>
                   reg[t] + Cardinality(Counting) <= calls

Inv == TypeOK /\ NeverOvercounted /\ RoomToCount /\ BenchIsLongEnough

LEMMA TidsFinite == IsFiniteSet(Tids) /\ Tids # {}
  <1>1. NUM_THREADS \in Nat /\ NUM_THREADS >= 1
    BY ThreadsAssumption
  <1>2. IsFiniteSet(0 .. NUM_THREADS - 1)
    BY <1>1, FS_Interval
  <1> QED BY <1>1, <1>2 DEF Tids

(* What the branches make of a number is the name of a call. *)
LEMMA ChoiceType == \A n \in Numbers : Choice[n] \in {"enq", "deq"}
  BY DEF Choice

LEMMA NumbersType == Numbers \subseteq Nat /\ 0 \in Numbers
  BY DEF Numbers

(* What a thread of the bench does, whatever word it draws: what is proved  *)
(* of AnyNext needs nothing of the memory behind the array.                 *)
AnyStep(t) == \/ While(t) \/ StartCall(t) \/ CallReturns(t) \/ Count(t)
              \/ \E word : Test(t, word)
AnyNext == \E t \in Tids : AnyStep(t)

LEMMA NextIsAny == [Next]_vars => [AnyNext]_vars
  BY DEF Next, Joined, Step, AnyNext, AnyStep

LEMMA InitInv == Init => Inv
  <1> SUFFICES ASSUME Init PROVE Inv
    OBVIOUS
  <1>1. TypeOK
    BY NumbersType DEF Init, TypeOK, Labels
  <1>2. Counting = {}
    BY DEF Init, Counting
  <1>3. Cardinality(Counting) = 0
    BY <1>2, FS_EmptySet
  <1>4. NeverOvercounted /\ RoomToCount /\ BenchIsLongEnough
    BY <1>3 DEF Init, NeverOvercounted, RoomToCount, BenchIsLongEnough
  <1> QED BY <1>1, <1>4 DEF Inv

LEMMA StepTypeOK == TypeOK /\ [AnyNext]_vars => TypeOK'
  <1> SUFFICES ASSUME TypeOK, [AnyNext]_vars PROVE TypeOK'
    OBVIOUS
  <1> USE DEF TypeOK, Labels
  <1>1. ASSUME NEW t \in Tids, AnyStep(t) PROVE TypeOK'
    <2>1. CASE While(t)
      BY <2>1 DEF While
    <2>2. ASSUME NEW word, Test(t, word) PROVE TypeOK'
      <3>1. CASE word = k[t] /\ Goto(t, Choice[word]) /\ k' = [k EXCEPT ![t] = 0]
        BY <2>2, <3>1, ChoiceType, NumbersType DEF Test
      <3>2. CASE word # k[t] /\ k[t] + 1 \in Numbers /\ k' = [k EXCEPT ![t] = @ + 1]
                   /\ UNCHANGED bpc
        BY <2>2, <3>2 DEF Test
      <3>3. CASE Goto(t, "while") /\ k' = [k EXCEPT ![t] = 0]
        BY <2>2, <3>3, NumbersType DEF Test
      <3> QED BY <2>2, <3>1, <3>2, <3>3 DEF Test
    <2>3. CASE StartCall(t)
      BY <2>3 DEF StartCall
    <2>4. CASE CallReturns(t)
      BY <2>4 DEF CallReturns
    <2>5. CASE Count(t)
      BY <2>5 DEF Count, IndexRead, IndexWrite, TotalRead, TotalWrite
    <2> QED BY <1>1, <2>1, <2>2, <2>3, <2>4, <2>5 DEF AnyStep
  <1>2. CASE UNCHANGED vars
    BY <1>2 DEF vars
  <1> QED BY <1>1, <1>2 DEF AnyNext

(* Counting loses and gains one thread at a time. *)
LEMMA CountingSize == /\ IsFiniteSet(Counting)
                      /\ Cardinality(Counting) \in Nat
  <1>1. Counting \subseteq Tids
    BY DEF Counting
  <1>2. IsFiniteSet(Counting)
    BY <1>1, TidsFinite, FS_Subset
  <1> QED BY <1>2, FS_CardinalityType

LEMMA StepInv == Inv /\ [AnyNext]_vars => Inv'
  <1> SUFFICES ASSUME Inv, [AnyNext]_vars PROVE Inv'
    OBVIOUS
  <1> DEFINE C == Counting
  <1>0. TypeOK /\ TypeOK'
    BY StepTypeOK DEF Inv
  <1>c. IsFiniteSet(C) /\ Cardinality(C) \in Nat
    BY CountingSize
  <1>n. calls \in Nat /\ total_cals \in Nat /\ total_cals + Cardinality(C) <= calls
    BY <1>0 DEF Inv, TypeOK, NeverOvercounted
  <1>r. ASSUME NEW t \in Tids PROVE reg[t] \in Nat
    BY <1>0 DEF TypeOK
  <1>1. ASSUME UNCHANGED <<total_cals, calls, reg>>, C' = C,
               \A t \in Tids : At(t, "total_write")' => At(t, "total_write"),
               \A t \in Tids : At(t, "done")' => At(t, "done") \/ total_cals >= MAX_SIZE
        PROVE  Inv'
    BY <1>0, <1>1, <1>c, <1>n, MaxSizeAssumption
    DEF Inv, NeverOvercounted, RoomToCount, BenchIsLongEnough
  <1>2. ASSUME NEW t \in Tids, AnyStep(t) PROVE Inv'
    <2>1. CASE While(t)
      <3>1. C' = C
        BY <1>0, <2>1 DEF While, Counting, TypeOK
      <3> QED BY <1>0, <1>1, <2>1, <3>1, <1>n, MaxSizeAssumption DEF While, TypeOK
    <2>2. ASSUME NEW word, Test(t, word) PROVE Inv'
      <3>1. /\ UNCHANGED <<total_cals, calls, reg>>
            /\ \A u \in Tids \ {t} : bpc'[u] = bpc[u]
            /\ bpc[t] = "test" /\ bpc'[t] \in {"enq", "deq", "test", "while"}
        BY <1>0, <2>2, ChoiceType DEF Test, TypeOK
      <3>2. C' = C
        BY <3>1 DEF Counting
      <3> QED BY <1>1, <3>1, <3>2
    <2>3. CASE StartCall(t)
      <3>1. C' = C
        BY <1>0, <2>3 DEF StartCall, Counting, TypeOK
      <3> QED BY <1>0, <1>1, <2>3, <3>1 DEF StartCall, TypeOK
    <2>4. CASE CallReturns(t)
      <3>1. C' = C \cup {t} /\ t \notin C
        BY <1>0, <2>4 DEF CallReturns, Counting, TypeOK
      <3>2. Cardinality(C') = Cardinality(C) + 1
        BY <1>c, <3>1, FS_AddElement
      <3>3. calls' = calls + 1 /\ total_cals' = total_cals /\ reg' = reg
        BY <2>4 DEF CallReturns
      <3>4. NeverOvercounted'
        BY <1>n, <1>c, <3>2, <3>3 DEF NeverOvercounted
      <3>5. \A u \in Tids : u # t => bpc'[u] = bpc[u]
        BY <1>0, <2>4 DEF CallReturns, TypeOK
      <3>6. bpc'[t] = "index_read"
        BY <1>0, <2>4 DEF CallReturns, TypeOK
      <3>7. RoomToCount'
        BY <1>n, <1>c, <1>r, <3>2, <3>3, <3>5, <3>6 DEF Inv, RoomToCount
      <3>8. BenchIsLongEnough'
        BY <1>n, <3>3, <3>5, <3>6, MaxSizeAssumption DEF Inv, BenchIsLongEnough
      <3> QED BY <1>0, <3>4, <3>7, <3>8 DEF Inv
    <2>5. CASE IndexRead(t) \/ IndexWrite(t)
      <3>1. C' = C
        BY <1>0, <2>5 DEF IndexRead, IndexWrite, Counting, TypeOK
      <3>2. UNCHANGED <<total_cals, calls>>
        BY <2>5 DEF IndexRead, IndexWrite
      <3>3. /\ \A u \in Tids : u # t => bpc'[u] = bpc[u] /\ reg'[u] = reg[u]
            /\ bpc'[t] \in {"index_write", "total_read"}
        BY <1>0, <2>5 DEF IndexRead, IndexWrite, TypeOK
      <3>4. NeverOvercounted' /\ RoomToCount' /\ BenchIsLongEnough'
        BY <3>1, <3>2, <3>3 DEF Inv, NeverOvercounted, RoomToCount, BenchIsLongEnough
      <3> QED BY <1>0, <3>4 DEF Inv
    <2>6. CASE TotalRead(t)
      <3>1. C' = C
        BY <1>0, <2>6 DEF TotalRead, Counting, TypeOK
      <3>2. UNCHANGED <<total_cals, calls>>
        BY <2>6 DEF TotalRead
      <3>3. /\ \A u \in Tids : u # t => bpc'[u] = bpc[u] /\ reg'[u] = reg[u]
            /\ bpc'[t] = "total_write" /\ reg'[t] = total_cals
        BY <1>0, <2>6 DEF TotalRead, TypeOK
      <3>4. NeverOvercounted' /\ RoomToCount' /\ BenchIsLongEnough'
        BY <1>n, <3>1, <3>2, <3>3 DEF Inv, NeverOvercounted, RoomToCount, BenchIsLongEnough
      <3> QED BY <1>0, <3>4 DEF Inv
    <2>7. CASE TotalWrite(t)
      <3>1. C' = C \ {t} /\ t \in C
        BY <1>0, <2>7 DEF TotalWrite, Counting, TypeOK
      <3>2. Cardinality(C') = Cardinality(C) - 1
        BY <1>c, <3>1, FS_RemoveElement
      <3>3. /\ \A u \in Tids : u # t => bpc'[u] = bpc[u] /\ reg'[u] = reg[u]
            /\ bpc'[t] = "while"
            /\ total_cals' = reg[t] + 1 /\ calls' = calls
        BY <1>0, <2>7 DEF TotalWrite, TypeOK
      <3>4. reg[t] + Cardinality(C) <= calls
        BY <2>7 DEF Inv, RoomToCount, TotalWrite
      <3>5. NeverOvercounted'
        BY <1>n, <1>c, <1>r, <3>2, <3>3, <3>4 DEF NeverOvercounted
      <3>6. ASSUME NEW u \in Tids, At(u, "total_write")'
            PROVE  reg'[u] + Cardinality(C') <= calls'
        <4>1. u # t /\ bpc[u] = "total_write" /\ reg'[u] = reg[u]
          BY <3>3, <3>6
        <4>2. reg[u] + Cardinality(C) <= calls
          BY <4>1 DEF Inv, RoomToCount
        <4>3. reg[u] \in Nat
          BY <1>r
        <4> QED BY <1>n, <1>c, <3>2, <3>3, <4>1, <4>2, <4>3
      <3>7. RoomToCount'
        BY <3>6 DEF RoomToCount
      <3>8. BenchIsLongEnough'
        BY <3>3 DEF Inv, BenchIsLongEnough
      <3> QED BY <1>0, <3>5, <3>7, <3>8 DEF Inv
    <2> QED BY <1>2, <2>1, <2>2, <2>3, <2>4, <2>5, <2>6, <2>7 DEF AnyStep, Count
  <1>3. CASE UNCHANGED vars
    <2>1. C' = C
      BY <1>3 DEF vars, Counting
    <2> QED BY <1>1, <1>3, <2>1 DEF vars
  <1> QED BY <1>2, <1>3 DEF AnyNext

THEOREM InvHolds == Spec => []Inv
  BY InitInv, NextIsAny, StepInv, PTL DEF Spec

(* Whatever stale value a thread writes back, total_cals stays below the    *)
(* number of calls that have returned: no call is counted twice.            *)
THEOREM NothingCountedTwice == Spec => []NeverOvercounted
  BY InvHolds, PTL DEF Inv

(* total_cals < MAX_SIZE ends the bench late, if at all, but never early:   *)
(* a thread that has left has seen MAX_SIZE calls return.                   *)
THEOREM NobodyLeavesEarly == Spec => []BenchIsLongEnough
  BY InvHolds, PTL DEF Inv
-----------------------------------------------------------------------------
(***************************************************************************)
(* The program: the bench calling the blocking queue, over the memory that *)
(* the two share.                                                          *)
(***************************************************************************)
BQ == INSTANCE BlockingQueueProofs WITH Threads <- Tids, Values <- Int

(* With one thread, the word before A stays 0 as the bench expects of its   *)
(* last number: this is where the proof needs the queue.                    *)
Alone == which = "blocking" /\ NUM_THREADS = 1
ProgramInv == Inv /\ (Alone => BQ!Inv /\ A[-1] = 0)

(* The bench of the program is that of TestBench but for what is behind the *)
(* array.                                                                   *)
LEMMA SameBench ==
    ASSUME NEW t
    PROVE  /\ Program!Bench!While(t) <=> While(t)
           /\ \A word : Program!Bench!Test(t, word) <=> Test(t, word)
           /\ Program!Bench!StartCall(t) <=> StartCall(t)
           /\ Program!Bench!CallReturns(t) <=> CallReturns(t)
           /\ Program!Bench!Count(t) <=> Count(t)
           /\ Program!Tids = Tids /\ Program!Bench!Tids = Tids
           /\ Program!Bench!AllDone <=> AllDone
BY DEF Program!Bench!While, While, Program!Bench!StartCall, StartCall,
       Program!Bench!CallReturns, CallReturns, Program!Bench!Test, Test,
       Program!Bench!Numbers, Numbers, Program!Bench!Choice, Choice, Program!Bench!Enqs, Enqs,
       Program!Bench!Count, Count, Program!Bench!IndexRead, IndexRead,
       Program!Bench!IndexWrite, IndexWrite, Program!Bench!TotalRead, TotalRead,
       Program!Bench!TotalWrite, TotalWrite, Program!Bench!Move, Program!Bench!At,
       Program!Bench!Goto, Program!Bench!AllDone, AllDone, Program!Tids,
       Program!Bench!Tids, Tids

LEMMA ProgramSteps ==
    ASSUME NEW t \in Tids, Program!Step(t)
    PROVE  \/ UNCHANGED vars
           \/ UNCHANGED queue /\ (While(t) \/ CallReturns(t) \/ Count(t))
           \/ /\ UNCHANGED queue
              /\ \E word \in Program!Memory(index + t) : Test(t, Program!Class(word))
           \/ StartCall(t)
BY SameBench
DEF Program!Step, Program!Draw, Program!CallEnq, Program!CallDeq, Program!InCall,
    Program!Return, Program!Count, Program!queue, Program!bench, queue, vars

LEMMA SameQueue ==
    ASSUME NEW t
    PROVE  /\ Program!Queue!Step(t) <=> BQ!Step(t)
           /\ \A v : Program!Queue!EnqCall(t, v) <=> BQ!EnqCall(t, v)
           /\ Program!Queue!DeqCall(t) <=> BQ!DeqCall(t)
BY DEF Program!Queue!Step, BQ!Step, Program!Queue!EnqStep, BQ!EnqStep,
    Program!Queue!DeqStep, BQ!DeqStep, Program!Queue!EnqCall, BQ!EnqCall,
    Program!Queue!DeqCall, BQ!DeqCall, Program!Queue!LockEnQ, BQ!LockEnQ,
    Program!Queue!EnqFull, BQ!EnqFull, Program!Queue!EnqEmpty, BQ!EnqEmpty,
    Program!Queue!EnqFirst, BQ!EnqFirst, Program!Queue!EnqAdvance,
    BQ!EnqAdvance, Program!Queue!EnqStore, BQ!EnqStore, Program!Queue!UnlockEnQ,
    BQ!UnlockEnQ, Program!Queue!LockDeQ, BQ!LockDeQ, Program!Queue!DeqEmpty,
    BQ!DeqEmpty, Program!Queue!DeqOne, BQ!DeqOne, Program!Queue!DeqResetEnds,
    BQ!DeqResetEnds, Program!Queue!DeqElement, BQ!DeqElement,
    Program!Queue!DeqAdvance, BQ!DeqAdvance, Program!Queue!UnlockDeQ,
    BQ!UnlockDeQ, Program!Queue!Load, BQ!Load, Program!Queue!Test, BQ!Test,
    Program!Queue!SetHead, BQ!SetHead, Program!Queue!SetTail, BQ!SetTail,
    Program!Queue!Move, BQ!Move, Program!Queue!At, BQ!At,
    Program!Queue!Following, BQ!Following, Program!Queue!memory, BQ!memory,
    Program!Queue!locks, BQ!locks

LEMMA QueueSteps ==
    ASSUME NEW t \in Tids, Program!Step(t), index \in Nat
    PROVE  [BQ!Next]_(BQ!vars)
<1>1. \/ UNCHANGED queue
      \/ Program!Queue!EnqCall(t, index)
      \/ Program!Queue!DeqCall(t)
      \/ Program!Queue!Step(t)
  BY DEF Program!Step, Program!Draw, Program!CallEnq, Program!CallDeq, Program!InCall,
         Program!Return, Program!Count, Program!queue, queue
<1> QED BY <1>1, SameQueue DEF BQ!Next, BQ!Call, BQ!vars, queue

(* What the memory holds is what the bench of TestBench may draw. *)
LEMMA DrawnFromWords ==
    ASSUME ProgramInv, which = "blocking", NEW j \in Nat, NEW word \in Program!Memory(j)
    PROVE  Program!Class(word) \in Program!Bench!Words(j)
<1>1. Program!Class(word) \in 0 .. 3 /\ (word \in 0 .. 2 => Program!Class(word) = word)
  BY DEF Program!Class
<1>2. CASE j \in Generated
  <2>1. /\ j \in 0 .. MAX_SIZE - 2 /\ j \notin MAX_SIZE - 1 .. 2 * MAX_SIZE - 1
        /\ j # MAX_SIZE - 1 /\ j # 2 * MAX_SIZE /\ j # 2 * MAX_SIZE + 1
    BY <1>2, MaxSizeAssumption DEF Generated
  <2>2. Program!Memory(j) = {random[j]}
    BY <2>1, Zenon DEF Program!Memory, Program!Bench!Generated
  <2>3. Program!Bench!Words(j) = {random[j]}
    BY <2>1, Zenon DEF Program!Bench!Words, Program!Bench!Generated
  <2>4. random[j] \in 0 .. 2
    BY <1>2 DEF ProgramInv, Inv, TypeOK, Numbers
  <2> QED BY <1>1, <2>2, <2>3, <2>4
<1>3. CASE j = MAX_SIZE - 1 /\ NUM_THREADS = 1
  <2>1. /\ j \notin 0 .. MAX_SIZE - 2 /\ j \in MAX_SIZE - 1 .. 2 * MAX_SIZE - 1
        /\ j # 2 * MAX_SIZE /\ j # 2 * MAX_SIZE + 1 /\ j - MAX_SIZE = -1
    BY <1>3, MaxSizeAssumption
  <2>2. Program!Memory(j) = {A[j - MAX_SIZE]}
    BY <2>1, Zenon DEF Program!Memory, Program!Bench!Generated
  <2>3. Program!Memory(j) = {0}
    BY <1>3, <2>1, <2>2 DEF ProgramInv, Alone
  <2>4. Program!Bench!Words(j) = {0}
    BY <1>3, <2>1, Zenon DEF Program!Bench!Words, Program!Bench!Generated
  <2> QED BY <1>1, <2>3, <2>4
<1>4. CASE j \notin Generated /\ ~(j = MAX_SIZE - 1 /\ NUM_THREADS = 1)
  <2>1. Program!Bench!Words(j) = 0 .. 3
    BY <1>4, Zenon
    DEF Program!Bench!Words, Program!Bench!Generated, Generated, Program!Foreign
  <2> QED BY <1>1, <2>1
<1> QED BY <1>2, <1>3, <1>4

LEMMA InitProgramInv == ProgramInit => ProgramInv
<1> SUFFICES ASSUME ProgramInit PROVE ProgramInv
  OBVIOUS
<1>1. Init
  BY DEF ProgramInit, Program!Init, Program!Bench!Init, Init, Program!Bench!Generated,
         Generated, Program!Bench!Numbers, Numbers, Program!Bench!Tids, Tids
<1>2. BQ!Init
  BY DEF ProgramInit, Program!Init, Program!Queue!Init, BQ!Init, Program!Queue!Index,
         BQ!Index, Program!Queue!Slots, BQ!Slots, Program!Tids, Program!Bench!Tids, Tids
<1>3. BQ!Inv
  BY <1>2, BQ!InitInv, MaxSizeAssumption, NoThreadAssumption
<1>4. A[-1] = 0
  BY <1>2 DEF BQ!Init, BQ!Index
<1> QED BY <1>1, <1>3, <1>4, InitInv DEF ProgramInv

LEMMA StepProgramInv == ProgramInv /\ [ProgramNext]_allVars => ProgramInv'
<1> SUFFICES ASSUME ProgramInv, [ProgramNext]_allVars PROVE ProgramInv'
  OBVIOUS
<1>1. ASSUME UNCHANGED allVars PROVE [AnyNext]_vars /\ [BQ!Next]_(BQ!vars) /\ UNCHANGED which
  BY <1>1 DEF allVars, queue, BQ!vars
<1>2. ASSUME NEW t \in Tids, ProgramStep(t)
      PROVE  [AnyNext]_vars /\ [BQ!Next]_(BQ!vars) /\ UNCHANGED which
  <2>1. CASE which = "any" /\ Step(t) /\ UNCHANGED queue
    BY <1>2, <2>1 DEF Step, AnyNext, AnyStep, queue, BQ!vars, ProgramStep
  <2>2. CASE which = "blocking" /\ Program!Step(t)
    <3>1. [AnyNext]_vars
      BY <2>2, ProgramSteps DEF AnyNext, AnyStep
    <3>2. [BQ!Next]_(BQ!vars)
      BY <2>2, QueueSteps DEF ProgramInv, Inv, TypeOK
    <3> QED BY <1>2, <3>1, <3>2 DEF ProgramStep
  <2> QED BY <1>2, <2>1, <2>2 DEF ProgramStep
<1>3. [AnyNext]_vars /\ [BQ!Next]_(BQ!vars) /\ UNCHANGED which
  BY <1>1, <1>2 DEF ProgramNext
<1>4. Inv'
  BY <1>3, StepInv DEF ProgramInv
<1>5. ASSUME Alone PROVE BQ!Inv' /\ A'[-1] = A[-1]
  <2>1. Tids = {0}
    BY <1>5 DEF Alone, Tids
  <2> QED BY <1>3, <1>5, <2>1, BQ!LoneStep, MaxSizeAssumption, NoThreadAssumption
          DEF ProgramInv
<1> QED BY <1>3, <1>4, <1>5 DEF ProgramInv, Alone

(* Whatever the racing calls of the queue write behind the random numbers,  *)
(* the program of blocking2.cpp takes no step that the bench, with any call *)
(* that returns and any words behind its array, cannot take.                *)
RunsTheBench == [][which = "blocking" => Program!Bench!Next]_vars

LEMMA ProgramRunsTheBench == ProgramSpec => RunsTheBench
<1>1. ProgramInv /\ [ProgramNext]_allVars => [which = "blocking" => Program!Bench!Next]_vars
  <2> SUFFICES ASSUME ProgramInv, ProgramNext, which = "blocking"
               PROVE  Program!Bench!Next \/ UNCHANGED vars
    BY DEF allVars
  <2>1. ASSUME NEW t \in Tids, Program!Step(t) PROVE Program!Bench!Next \/ UNCHANGED vars
    <3>1. CASE While(t) \/ CallReturns(t) \/ Count(t) \/ StartCall(t)
      BY <3>1, SameBench DEF Program!Bench!Next, Program!Bench!Step
    <3>2. ASSUME NEW word \in Program!Memory(index + t), Test(t, Program!Class(word))
          PROVE  Program!Bench!Next
      <4>1. index + t \in Nat
        BY DEF ProgramInv, Inv, TypeOK, Tids
      <4>2. Program!Class(word) \in Program!Bench!Words(index + t)
        BY <4>1, DrawnFromWords
      <4> QED BY <3>2, <4>2, SameBench DEF Program!Bench!Next, Program!Bench!Step
    <3> QED BY <2>1, <3>1, <3>2, ProgramSteps
  <2> QED BY <2>1 DEF ProgramNext, ProgramStep, allVars
<1> QED BY <1>1, InitProgramInv, StepProgramInv, PTL DEF ProgramSpec, RunsTheBench

(* So what is proved of the bench holds of the program. *)
THEOREM ProgramCounts == ProgramSpec => [](NeverOvercounted /\ BenchIsLongEnough)
<1>1. ProgramInv => NeverOvercounted /\ BenchIsLongEnough
  BY DEF ProgramInv, Inv
<1> QED BY <1>1, InitProgramInv, StepProgramInv, PTL DEF ProgramSpec
=============================================================================
