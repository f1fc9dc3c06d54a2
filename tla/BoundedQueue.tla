---------------------------- MODULE BoundedQueue ----------------------------
(***************************************************************************)
(* What a bounded FIFO queue promises to the threads that share it: every  *)
(* call takes effect once, in one indivisible step, at some moment between *)
(* its invocation and its return.  An enq that finds the queue full and a  *)
(* deq that finds it empty have no effect: that is how every queue of the  *)
(* a2 assignment treats these two cases (none of them waits).              *)
(***************************************************************************)
EXTENDS Naturals, Sequences

CONSTANTS Threads, Values, Capacity

VARIABLES queue, \* the elements, oldest first
          op,    \* op[t]: what thread t has asked for and not been given yet
          arg    \* arg[t]: the value of t's latest enq

vars == <<queue, op, arg>>

Init == /\ queue = <<>>
        /\ op = [t \in Threads |-> "idle"]
        /\ arg \in [Threads -> Values]

EnqCall(t, v) == /\ op[t] = "idle"
                 /\ op' = [op EXCEPT ![t] = "enq"]
                 /\ arg' = [arg EXCEPT ![t] = v]
                 /\ UNCHANGED queue

DeqCall(t) == /\ op[t] = "idle"
              /\ op' = [op EXCEPT ![t] = "deq"]
              /\ UNCHANGED <<queue, arg>>

EnqEffect(t) == /\ op[t] = "enq"
                /\ op' = [op EXCEPT ![t] = "done"]
                /\ queue' = IF Len(queue) < Capacity
                            THEN Append(queue, arg[t]) ELSE queue
                /\ UNCHANGED arg

DeqEffect(t) == /\ op[t] = "deq"
                /\ op' = [op EXCEPT ![t] = "done"]
                /\ queue' = IF queue = <<>> THEN queue ELSE Tail(queue)
                /\ UNCHANGED arg

Return(t) == /\ op[t] = "done"
             /\ op' = [op EXCEPT ![t] = "idle"]
             /\ UNCHANGED <<queue, arg>>

Next == \E t \in Threads : \/ \E v \in Values : EnqCall(t, v)
                           \/ DeqCall(t)
                           \/ EnqEffect(t)
                           \/ DeqEffect(t)
                           \/ Return(t)

Spec == Init /\ [][Next]_vars
=============================================================================
