------------------------------ MODULE MCQueues ------------------------------
(* One run over the two queues: which says which one a behaviour is about.  *)
EXTENDS ThreadSteps
CONSTANTS Dummy, Dummy1
ASSUME NodeNamesAssumption == Dummy \notin Nat /\ Null \notin Nat /\ Dummy # Null
ASSUME Node1Assumption == Dummy1 \notin Nat /\ Dummy1 # Null /\ Dummy1 # Dummy

VARIABLE which
allVars == <<vars, which>>

CAS == INSTANCE CASLockFreeQueue
LLSC == INSTANCE LLSCLockFreeQueue

Init == \/ which = "cas" /\ CAS!Init
        \/ which = "llsc" /\ LLSC!Init

(* Every enq puts in a value of its own, the number of the call. *)
Call(t, op) == \/ which = "cas" /\ CAS!Call(t, op, made + 1)
               \/ which = "llsc" /\ LLSC!Call(t, op, made + 1)
Step(t) == \/ which = "cas" /\ CAS!Step(t)
           \/ which = "llsc" /\ LLSC!Step(t)

Done == ((Quiet /\ Used) \/ Crashed) /\ UNCHANGED vars
Next == /\ UNCHANGED which
        /\ \/ ~Crashed /\ \E t \in Threads : Step(t) \/ \E op \in {"enq", "deq"} : Call(t, op)
           \/ Done
Spec == Init /\ [][Next]_allVars
FairSpec == Spec /\ \A t \in Threads : WF_allVars(Step(t) /\ UNCHANGED which)

show_queue == IF which = "cas" THEN CAS!show_queue ELSE LLSC!show_queue

(* Callers get results that a FIFO queue, doing each call at one instant    *)
(* between its start and its return, would have given, though pointer and   *)
(* count are loaded one after the other and both ends are helped along.     *)
Linearizable == Explainable /\ ~Crashed

(* Between calls the queue holds what such a queue would, in its order. *)
ContentsExplained == Explains(show_queue)

(* At any moment the tail of the first queue is at or after its head: who   *)
(* follows next from the head comes to the tail, so that a node that deq    *)
(* has taken out can no longer be reached from the tail.                    *)
Closed(S) == \A n \in S : heap.node[n].next.ptr \in S \cup {Null}
TailAfterHead == which = "cas" =>
  \A S \in SUBSET DOMAIN heap.node : heap.head.ptr \in S /\ Closed(S) => heap.tail.ptr \in S

(* Again and again there is a moment without a pending call. *)
CallsReturn == which = "cas" => []<>Quiet

(* The same for the second queue, whose header calls it lock-free. *)
LockFree == which = "llsc" => []<>Quiet
=============================================================================
