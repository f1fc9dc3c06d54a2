--------------------------- MODULE BlockingBench ---------------------------
(***************************************************************************)
(* The whole program of a2/blocking2.cpp: the test bench (TestBench), the  *)
(* queue its threads call (BlockingQueue), and the memory they share.  The *)
(* array _random ends where A begins and A where index begins (that is how *)
(* the committed binary lays the static variables out), so the last word   *)
(* of _random is the A[-1] of BlockingQueue, and a bench that draws behind *)
(* its numbers draws what the queue stores.                                *)
(*                                                                         *)
(* With NUM_THREADS = 1 this is also a2/block_q.cpp.                       *)
(***************************************************************************)
EXTENDS Integers, Sequences

CONSTANTS NUM_THREADS, MAX_SIZE, test_bench,
          NoThread, \* the owner of a free lock
          AnyInt    \* the integers of the model, for typing only

VARIABLES random, index, total_cals, bpc, k, reg, calls, \* see TestBench
          head, tail, A, Elock, Dlock, pc, x, r          \* see BlockingQueue

bench == <<random, index, total_cals, bpc, k, reg, calls>>
queue == <<head, tail, A, Elock, Dlock, pc, x, r>>
vars  == <<bench, queue>>

(* Behind A, index and total_cals lies memory that is not modelled. *)
Foreign == 0 .. 3

Bench == INSTANCE TestBench WITH Beyond <- Foreign
Tids  == Bench!Tids
Queue == INSTANCE BlockingQueue WITH Threads <- Tids, Values <- AnyInt

Init == Bench!Init /\ Queue!Init

(* The words the expression _random[j] may read. *)
Memory(j) == CASE j \in Bench!Generated       -> {random[j]}
               [] j \in MAX_SIZE - 1 .. 2 * MAX_SIZE - 1 -> {A[j - MAX_SIZE]}
               [] j = 2 * MAX_SIZE            -> {index}
               [] j = 2 * MAX_SIZE + 1        -> {total_cals}
               [] OTHER                       -> Foreign

(* Every number above 2 selects no branch. *)
Class(word) == IF word \in 0 .. 2 THEN word ELSE 3
-----------------------------------------------------------------------------
(* One comparison of the bench, on the word that is in memory. *)
Draw(t) == /\ \E word \in Memory(index + t) : Bench!Test(t, Class(word))
           /\ UNCHANGED queue

(* q.enq(index): index is read once more, after the draw. *)
CallEnq(t) == /\ Bench!At(t, "enq")
              /\ Queue!EnqCall(t, index)
              /\ Bench!StartCall(t)

CallDeq(t) == /\ Bench!At(t, "deq")
              /\ Queue!DeqCall(t)
              /\ Bench!StartCall(t)

InCall(t) == Queue!Step(t) /\ UNCHANGED bench

Return(t) == /\ Queue!At(t, "idle")
             /\ Bench!CallReturns(t)
             /\ UNCHANGED queue

Count(t) == (Bench!While(t) \/ Bench!Count(t)) /\ UNCHANGED queue

Step(t) == Draw(t) \/ CallEnq(t) \/ CallDeq(t) \/ InCall(t) \/ Return(t) \/ Count(t)

Joined == Bench!AllDone /\ UNCHANGED vars

Next == Joined \/ \E t \in Tids : Step(t)

Spec == Init /\ [][Next]_vars
FairSpec == Spec /\ \A t \in Tids : WF_vars(Step(t))
=============================================================================
