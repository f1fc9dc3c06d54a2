------------------------------ MODULE MCBench ------------------------------
(* One run over the test bench, with a queue of which only the calls are    *)
(* known (which = "any") and with the blocking queue, in the memory that    *)
(* the two share (which = "blocking").                                      *)
EXTENDS TestBench

CONSTANTS NoThread, AnyInt
ASSUME NoThreadAssumption == NoThread \notin Tids
VARIABLES head, tail, A, Elock, Dlock, pc, x, r, which

Program == INSTANCE BlockingBench
queue == <<head, tail, A, Elock, Dlock, pc, x, r>>
allVars == <<vars, queue, which>>

Integers50 == -1 .. 50 \* more than index ever reaches in the instances

ProgramInit == Program!Init /\ which \in {"any", "blocking"}

ProgramStep(t) == /\ UNCHANGED which
                  /\ \/ which = "any" /\ Step(t) /\ UNCHANGED queue
                     \/ which = "blocking" /\ Program!Step(t)
ProgramNext == \/ AllDone /\ UNCHANGED allVars
               \/ \E t \in Tids : ProgramStep(t)
ProgramSpec == /\ ProgramInit /\ [][ProgramNext]_allVars
               /\ \A t \in Tids : WF_allVars(ProgramStep(t))
-----------------------------------------------------------------------------
(* Whenever threads wait for a lock of the queue some enq (some deq) gets   *)
(* to its end, on every path, the early returns included: every way out     *)
(* gives the lock back.                                                     *)
LocksGivenBack == Program!Queue!EnqueuersProgress /\ Program!Queue!DequeuersProgress

(* Thread t goes round the loop and draws behind the random numbers. *)
DrawsBehind(t) == bpc[t] \in {"while", "test"} /\ index + t >= MAX_SIZE - 1

(* Lost updates cost time, not termination: a delayed thread may set        *)
(* total_cals back again and again, but not for ever, and every number that *)
(* was drawn selects a branch.  So the joins of main return, with one       *)
(* exception: from some moment on every thread that is still in the bench   *)
(* draws behind the numbers, where there may be no word that selects a      *)
(* branch (blocking2.cpp:121).                                              *)
EndsUnlessBehind == <>[](\A t \in Tids : At(t, "done") \/ DrawsBehind(t))
=============================================================================
