---------------------------- MODULE CondVarProofs ----------------------------
(* Theorems about CondVar, for every number of counting threads and every   *)
(* limit, with and without spurious wakeups.                                *)
EXTENDS CondVar, FiniteSetTheorems, TLAPS

(* A counting thread that has not finished has iterations left.             *)
Iterating == \A t \in Incrementers : ~At(t, "done") => i[t] < TCOUNT

(* The thread that works on count, or is about to leave, holds the mutex.   *)
HasMutex == {t \in Threads : pc[t] \in {"increment", "check", "signal", "unlock",
                                        "test", "update"}}
MutexHeld == \A t \in Threads : t \in HasMutex <=> count_mutex = t

Inv == TypeOK /\ Iterating /\ MutexHeld /\ NoLostWakeup

LEMMA InitInv == Init => Inv
BY ThreadsAssumption, LimitsAssumption
DEF Init, Inv, TypeOK, Iterating, MutexHeld, HasMutex, NoLostWakeup, At, Threads,
    IncLabels, WatchLabels

LEMMA StepTypeOK == TypeOK /\ Iterating /\ [Next]_vars => TypeOK' /\ Iterating'
<1> SUFFICES ASSUME TypeOK, Iterating, [Next]_vars PROVE TypeOK' /\ Iterating'
  OBVIOUS
<1> USE LimitsAssumption
    DEF TypeOK, Iterating, At, Goto, Move, Threads, IncLabels, WatchLabels
<1>1. CASE UNCHANGED vars \/ Joined
  BY <1>1 DEF vars, Joined
<1>2. ASSUME NEW t \in Incrementers, IncStep(t) PROVE TypeOK' /\ Iterating'
  <2> t \in Threads /\ t # Watcher
    BY ThreadsAssumption
  <2>1. CASE Lock(t)      BY <2>1 DEF Lock, Acquire
  <2>2. CASE Increment(t) BY <2>2 DEF Increment
  <2>3. CASE Check(t)     BY <2>3 DEF Check
  <2>4. CASE Signal(t)
    BY <2>4, ThreadsAssumption DEF Signal
  <2>5. CASE IncUnlock(t)
    <3>1. i[t] \in 0 .. TCOUNT - 1 /\ i' = [i EXCEPT ![t] = i[t] + 1]
      BY <2>5 DEF IncUnlock
    <3>2. i' \in [Incrementers -> 0 .. TCOUNT]
      BY <3>1
    <3> QED BY <2>5, <3>1, <3>2 DEF IncUnlock
  <2> QED BY <1>2, <2>1, <2>2, <2>3, <2>4, <2>5 DEF IncStep
<1>3. CASE WatchStep \/ WakeSpuriously
  BY <1>3, ThreadsAssumption
  DEF WatchStep, WakeSpuriously, Lock, Acquire, Test, Reacquire, Update, WatchUnlock
<1> QED BY <1>1, <1>2, <1>3 DEF Next

LEMMA StepMutex == TypeOK /\ MutexHeld /\ [Next]_vars => MutexHeld'
<1> SUFFICES ASSUME TypeOK, MutexHeld, [Next]_vars PROVE MutexHeld'
  OBVIOUS
<1> USE ThreadsAssumption DEF TypeOK, MutexHeld, HasMutex, At, Goto, Move, Threads, Acquire
<1>1. CASE UNCHANGED vars \/ Joined
  BY <1>1 DEF vars, Joined
<1>2. ASSUME NEW t \in Incrementers, IncStep(t) PROVE MutexHeld'
  <2> t \in Threads /\ t # Watcher
    OBVIOUS
  <2>1. CASE Lock(t) \/ IncUnlock(t)
    BY <2>1 DEF Lock, IncUnlock
  <2>2. CASE Increment(t) \/ Check(t)
    BY <2>2 DEF Increment, Check
  <2>3. CASE Signal(t)
    BY <2>3 DEF Signal
  <2> QED BY <1>2, <2>1, <2>2, <2>3 DEF IncStep
<1>3. CASE WatchStep \/ WakeSpuriously
  BY <1>3
  DEF WatchStep, WakeSpuriously, Lock, Test, Reacquire, Update, WatchUnlock
<1> QED BY <1>1, <1>2, <1>3 DEF Next

LEMMA StepWakeup == TypeOK /\ MutexHeld /\ NoLostWakeup /\ [Next]_vars => NoLostWakeup'
<1> SUFFICES ASSUME TypeOK, MutexHeld, NoLostWakeup, [Next]_vars, At(Watcher, "waiting")'
             PROVE  (\/ count < COUNT_LIMIT
                     \/ /\ count = COUNT_LIMIT
                        /\ \E t \in Incrementers : At(t, "check") \/ At(t, "signal"))'
  BY DEF NoLostWakeup
<1> USE ThreadsAssumption, LimitsAssumption
    DEF TypeOK, MutexHeld, HasMutex, NoLostWakeup, At, Goto, Move, Threads, Acquire
<1>1. CASE UNCHANGED vars \/ Joined
  BY <1>1 DEF vars, Joined
<1>2. ASSUME NEW t \in Incrementers, IncStep(t), ~Signal(t)
      PROVE (\/ count < COUNT_LIMIT
             \/ /\ count = COUNT_LIMIT
                /\ \E u \in Incrementers : At(u, "check") \/ At(u, "signal"))'
  <2> t \in Threads /\ t # Watcher
    OBVIOUS
  <2>1. CASE Lock(t) \/ IncUnlock(t)
    BY <2>1 DEF Lock, IncUnlock
  <2>2. CASE Increment(t)
    <3>1. count < COUNT_LIMIT
      BY <2>2 DEF Increment
    <3>2. count' = count + 1 /\ At(t, "check")'
      BY <2>2 DEF Increment
    <3> QED BY <3>1, <3>2
  <2>3. CASE Check(t)
    BY <2>3 DEF Check
  <2> QED BY <1>2, <2>1, <2>2, <2>3 DEF IncStep
<1>3. CASE \E t \in Incrementers : Signal(t)
  BY <1>3 DEF Signal
<1>4. CASE WatchStep \/ WakeSpuriously
  BY <1>4
  DEF WatchStep, WakeSpuriously, Lock, Test, Reacquire, Update, WatchUnlock
<1> QED BY <1>1, <1>2, <1>3, <1>4 DEF Next

(* The watcher is never left waiting for a signal that has already been     *)
(* sent: count_mutex covers the test of count and the start of the wait on  *)
(* one side, the increment and the signal on the other.                     *)
THEOREM WakeupIsNeverLost == Spec => [](TypeOK /\ NoLostWakeup)
<1>1. Inv /\ [Next]_vars => Inv'
  BY StepTypeOK, StepMutex, StepWakeup DEF Inv
<1>2. Inv => TypeOK /\ NoLostWakeup
  BY DEF Inv
<1> QED BY <1>1, <1>2, InitInv, PTL DEF Spec
-----------------------------------------------------------------------------
(* The sum of the loop counters as the cardinality of a set: a pair         *)
(* <<t, k>> for the k-th increment of count by thread t.                    *)
Added(t) == i[t] + (IF pc[t] \in {"check", "signal", "unlock"} THEN 1 ELSE 0)
Counted  == {c \in Incrementers \X (1 .. TCOUNT) : c[2] <= Added(c[1])}

(* Every increment is in count, and the bonus if the watcher has added it,  *)
(* which it does once: with the bonus in it count has reached the limit,    *)
(* and the watcher leaves its loop.                                         *)
Ended      == \A t \in Incrementers : At(t, "done") => i[t] = TCOUNT
BonusOnce  == /\ updates \in {0, 1}
              /\ updates = 1 => pc[Watcher] \in {"test", "unlock", "done"}
CountIsSum == count = Cardinality(Counted) + (IF updates = 0 THEN 0 ELSE Bonus)

CountInv == Ended /\ BonusOnce /\ CountIsSum

LEMMA CountedFinite ==
    /\ IsFiniteSet(Incrementers \X (1 .. TCOUNT))
    /\ Cardinality(Incrementers \X (1 .. TCOUNT)) = Cardinality(Incrementers) * TCOUNT
    /\ IsFiniteSet(Counted)
    /\ Cardinality(Counted) \in Nat
<1>1. IsFiniteSet(1 .. TCOUNT) /\ Cardinality(1 .. TCOUNT) = TCOUNT
  BY LimitsAssumption, FS_Interval
<1>2. /\ IsFiniteSet(Incrementers \X (1 .. TCOUNT))
      /\ Cardinality(Incrementers \X (1 .. TCOUNT)) = Cardinality(Incrementers) * TCOUNT
  BY <1>1, ThreadsAssumption, FS_Product
<1>3. IsFiniteSet(Counted)
  BY <1>2, FS_Subset DEF Counted
<1> QED BY <1>2, <1>3, FS_CardinalityType

LEMMA CountInitially == Init => CountInv
<1> SUFFICES ASSUME Init PROVE CountInv
  OBVIOUS
<1>1. Counted = {}
  BY LimitsAssumption, ThreadsAssumption DEF Init, Counted, Added, Threads
<1>2. CountIsSum
  BY <1>1, FS_EmptySet DEF Init, CountIsSum
<1>3. Ended /\ BonusOnce
  BY ThreadsAssumption DEF Init, Ended, BonusOnce, At, Threads
<1> QED BY <1>2, <1>3 DEF CountInv

(* What leaves Added alone for every thread leaves the set alone.           *)
LEMMA CountedSame ==
    (\A t \in Incrementers : Added(t)' = Added(t)) => Counted' = Counted
BY DEF Counted

LEMMA StepCount == TypeOK /\ Iterating /\ CountInv /\ [Next]_vars => CountInv'
<1> SUFFICES ASSUME TypeOK, Iterating, CountInv, [Next]_vars PROVE CountInv'
  OBVIOUS
<1> USE ThreadsAssumption, LimitsAssumption
    DEF TypeOK, Iterating, At, Goto, Move, Acquire, Threads
<1>1. CASE UNCHANGED vars \/ Joined
  <2>1. Counted' = Counted
    BY <1>1, CountedSame DEF vars, Joined, Added
  <2> QED BY <1>1, <2>1 DEF vars, Joined, CountInv, Ended, BonusOnce, CountIsSum
<1>2. ASSUME NEW t \in Incrementers, IncStep(t) PROVE CountInv'
  <2> t \in Threads /\ t # Watcher /\ Watcher \in Threads
    OBVIOUS
  <2>1. Ended' /\ BonusOnce'
    <3>1. CASE IncUnlock(t)
      <4>1. i[t] \in 0 .. TCOUNT - 1 /\ i' = [i EXCEPT ![t] = i[t] + 1]
        BY <3>1 DEF IncUnlock
      <4>2. Ended'
        BY <3>1, <4>1 DEF IncUnlock, CountInv, Ended
      <4>3. BonusOnce'
        BY <3>1 DEF IncUnlock, CountInv, BonusOnce
      <4> QED BY <4>2, <4>3
    <3>2. CASE Lock(t) \/ Increment(t) \/ Check(t)
      BY <3>2 DEF Lock, Increment, Check, CountInv, Ended, BonusOnce
    <3>3. CASE Signal(t)
      BY <3>3 DEF Signal, CountInv, Ended, BonusOnce
    <3> QED BY <1>2, <3>1, <3>2, <3>3 DEF IncStep
  <2>2. CASE Increment(t)
    <3>1. Counted' = Counted \cup {<<t, i[t] + 1>>}
      <4>1. Added(t) = i[t] /\ Added(t)' = i[t] + 1 /\ i[t] + 1 \in 1 .. TCOUNT
        BY <2>2 DEF Increment, Added
      <4>2. \A u \in Incrementers \ {t} : Added(u)' = Added(u)
        BY <2>2 DEF Increment, Added
      <4> QED BY <4>1, <4>2 DEF Counted
    <3>2. <<t, i[t] + 1>> \notin Counted
      BY <2>2 DEF Increment, Added, Counted
    <3>3. Cardinality(Counted') = Cardinality(Counted) + 1
      BY <3>1, <3>2, CountedFinite, FS_AddElement
    <3> QED BY <2>1, <2>2, <3>3, CountedFinite DEF Increment, CountInv, CountIsSum
  <2>3. CASE Lock(t) \/ Check(t) \/ Signal(t) \/ IncUnlock(t)
    <3>1. \A u \in Incrementers : Added(u)' = Added(u)
      <4>1. CASE Lock(t) \/ Check(t)
        BY <4>1 DEF Lock, Check, Added
      <4>2. CASE Signal(t)
        BY <4>2 DEF Signal, Added
      <4>3. CASE IncUnlock(t)
        <5>1. i[t] \in 0 .. TCOUNT - 1 /\ i' = [i EXCEPT ![t] = i[t] + 1]
          BY <4>3 DEF IncUnlock
        <5> QED BY <4>3, <5>1 DEF IncUnlock, Added
      <4> QED BY <2>3, <4>1, <4>2, <4>3
    <3>2. Counted' = Counted
      BY <3>1, CountedSame
    <3> QED
      BY <2>1, <2>3, <3>2 DEF Lock, Check, Signal, IncUnlock, CountInv, CountIsSum
  <2> QED BY <1>2, <2>2, <2>3 DEF IncStep
<1>3. CASE WatchStep \/ WakeSpuriously
  <2>1. Counted' = Counted
    <3>1. \A u \in Incrementers : Added(u)' = Added(u)
      BY <1>3
      DEF WatchStep, WakeSpuriously, Lock, Test, Reacquire, Update, WatchUnlock, Added
    <3> QED BY <3>1, CountedSame
  <2>2. Ended'
    BY <1>3
    DEF WatchStep, WakeSpuriously, Lock, Test, Reacquire, Update, WatchUnlock, CountInv, Ended
  <2>3. CASE Update
    BY <2>1, <2>2, <2>3, CountedFinite DEF Update, CountInv, BonusOnce, CountIsSum
  <2>4. CASE Test
    <3>1. updates = 1 => count >= COUNT_LIMIT
      BY CountedFinite DEF CountInv, CountIsSum
    <3> QED BY <2>1, <2>2, <2>4, <3>1 DEF Test, CountInv, BonusOnce, CountIsSum
  <2>5. CASE Lock(Watcher) \/ WakeSpuriously \/ Reacquire \/ WatchUnlock
    BY <2>1, <2>2, <2>5
    DEF Lock, WakeSpuriously, Reacquire, WatchUnlock, CountInv, BonusOnce, CountIsSum
  <2> QED BY <1>3, <2>3, <2>4, <2>5 DEF WatchStep
<1> QED BY <1>1, <1>2, <1>3 DEF Next

LEMMA CountAtEnd == TypeOK /\ CountInv => FinalCount
<1> SUFFICES ASSUME TypeOK, CountInv, AllDone
             PROVE  \/ count = Cardinality(Incrementers) * TCOUNT
                    \/ count = Cardinality(Incrementers) * TCOUNT + Bonus
  BY DEF FinalCount
<1>1. \A t \in Incrementers : Added(t) = TCOUNT
  BY LimitsAssumption DEF TypeOK, CountInv, Ended, AllDone, At, Added, Threads
<1>2. Counted = Incrementers \X (1 .. TCOUNT)
  BY <1>1, LimitsAssumption DEF Counted
<1> QED BY <1>2, CountedFinite, LimitsAssumption DEF CountInv, CountIsSum

(* What main prints: no increment is lost and none counts twice, and the    *)
(* watcher's bonus is in the sum at most once, however often it wakes.      *)
THEOREM FinalCountCorrect == Spec => []FinalCount
<1>1. Inv /\ CountInv /\ [Next]_vars => Inv' /\ CountInv'
  BY StepTypeOK, StepMutex, StepWakeup, StepCount DEF Inv
<1>2. Inv /\ CountInv => FinalCount
  BY CountAtEnd DEF Inv
<1> QED BY <1>1, <1>2, InitInv, CountInitially, PTL DEF Spec
=============================================================================
