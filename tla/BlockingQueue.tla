---------------------------- MODULE BlockingQueue ----------------------------
(***************************************************************************)
(* The circular array queue of a2/blocking2.cpp (a2/block_q.cpp is the     *)
(* same class with tracing).  enq holds the lock Elock, deq holds the lock *)
(* Dlock: an enq and a deq exclude nobody but their own kind, although     *)
(* both read and write head and tail.                                      *)
(*                                                                         *)
(* The threads are compiled without optimisation (a2/Makefile), so each    *)
(* read and each write of head, tail and A in the source is one access to  *)
(* memory, and one step here.  In particular the chained assignments       *)
(* "head = tail = 0" and "tail = head = -1" store the right-hand variable, *)
(* READ IT BACK, and store the left-hand one.                              *)
(***************************************************************************)
EXTENDS Integers, Sequences

CONSTANTS Threads,   \* the threads that call enq and deq
          NoThread,  \* the owner of a free lock
          MAX_SIZE,  \* the length of the array A
          Values     \* the values passed to enq

ASSUME MaxSizeAssumption == MAX_SIZE \in Nat \ {0}
ASSUME NoThreadAssumption == NoThread \notin Threads
ASSUME ValuesAssumption == 0 \in Values

VARIABLES head, tail, \* the two ends of the queue, both -1 when it is empty
          A,          \* the array; A[-1] is the word that precedes it
          Elock, Dlock, \* the thread that holds each mutex
          pc,         \* pc[t]: the access thread t performs next
          x,          \* x[t]: the argument of t's latest enq
          r           \* r[t]: the register t loaded last

vars == <<head, tail, A, Elock, Dlock, pc, x, r>>

Slots == 0 .. MAX_SIZE - 1
Index == Slots \cup {-1}

(* The accesses of each method, in program order. *)
EnqPending == {"LockEnQ", "full_tail", "full_head", "empty_head", "empty_tail",
               "first_tail", "first_read", "first_head", "adv_read",
               "adv_tail", "slot", "write"}
DeqPending == {"LockDeQ", "none_head", "none_tail", "one_head", "one_tail",
               "reset_head", "elem_head", "elem", "adv_head_read", "adv_head"}
DeqReset   == {"reset_read", "reset_tail"}
EnqLabels  == EnqPending \cup {"UnlockEnQ"}
DeqLabels  == DeqPending \cup DeqReset \cup {"UnlockDeQ"}

TypeOK == /\ head \in Index
          /\ tail \in Index
          /\ A \in [Index -> Values]
          /\ Elock \in Threads \cup {NoThread}
          /\ Dlock \in Threads \cup {NoThread}
          /\ pc \in [Threads -> {"idle"} \cup EnqLabels \cup DeqLabels]
          /\ x \in [Threads -> Values]
          /\ r \in [Threads -> Index]

Init == /\ head = -1
        /\ tail = -1
        /\ A = [i \in Index |-> 0]
        /\ Elock = NoThread
        /\ Dlock = NoThread
        /\ pc = [t \in Threads |-> "idle"]
        /\ x = [t \in Threads |-> 0]
        /\ r = [t \in Threads |-> -1]

FollowingUnwrapped(i) == i + 1 \* mutant: the ends run past the array
Following(i) == (i + 1) % MAX_SIZE

At(t, label) == pc[t] = label
Move(t, from, to) == At(t, from) /\ pc' = [pc EXCEPT ![t] = to]

memory == <<head, tail, A>>
locks  == <<Elock, Dlock>>

(* One access: a load into the register, a test that loads one variable, a  *)
(* store to head or to tail.                                                *)
Load(t, from, value, to) == /\ Move(t, from, to)
                            /\ r' = [r EXCEPT ![t] = value]
                            /\ UNCHANGED <<memory, locks, x>>
Test(t, from, condition, yes, no) == /\ Move(t, from, IF condition THEN yes ELSE no)
                                     /\ UNCHANGED <<memory, locks, x, r>>
SetHead(t, from, value, to) == /\ Move(t, from, to)
                               /\ head' = value
                               /\ UNCHANGED <<tail, A, locks, x, r>>
SetTail(t, from, value, to) == /\ Move(t, from, to)
                               /\ tail' = value
                               /\ UNCHANGED <<head, A, locks, x, r>>
-----------------------------------------------------------------------------
(* enq(x).  pthread_mutex_lock on a valid mutex returns 0, so the while     *)
(* around LockEnQ ends the first time the lock is obtained.                 *)
EnqCall(t, v) == /\ Move(t, "idle", "LockEnQ")
                 /\ x' = [x EXCEPT ![t] = v]
                 /\ UNCHANGED <<memory, locks, r>>

LockEnQ(t) == /\ Move(t, "LockEnQ", "full_tail")
              /\ Elock = NoThread /\ Elock' = t
              /\ UNCHANGED <<memory, Dlock, x, r>>

(* mutant: the early return on a full queue forgets UnlockEnQ *)
EnqFullNoUnlock(t) == \/ Load(t, "full_tail", Following(tail), "full_head")
                      \/ Test(t, "full_head", r[t] = head, "idle", "empty_head")

(* if ((tail+1) % MAX_SIZE == head) return *)
EnqFull(t) == \/ Load(t, "full_tail", Following(tail), "full_head")
              \/ Test(t, "full_head", r[t] = head, "UnlockEnQ", "empty_head")

(* if (head == -1 && tail == -1) *)
EnqEmpty(t) == \/ Test(t, "empty_head", head = -1, "empty_tail", "adv_read")
               \/ Test(t, "empty_tail", tail = -1, "first_tail", "adv_read")

(* head = tail = 0 *)
EnqFirst(t) == \/ SetTail(t, "first_tail", 0, "first_read")
               \/ Load(t, "first_read", tail, "first_head")
               \/ SetHead(t, "first_head", r[t], "slot")

(* tail = (tail+1) % MAX_SIZE *)
EnqAdvance(t) == \/ Load(t, "adv_read", Following(tail), "adv_tail")
                 \/ SetTail(t, "adv_tail", r[t], "slot")

(* A[tail] = x *)
EnqStore(t) == \/ Load(t, "slot", tail, "write")
               \/ /\ Move(t, "write", "UnlockEnQ")
                  /\ A' = [A EXCEPT ![r[t]] = x[t]]
                  /\ UNCHANGED <<head, tail, locks, x, r>>

(* A register is dead when its call returns. *)
UnlockEnQ(t) == /\ Move(t, "UnlockEnQ", "idle")
                /\ Elock' = NoThread
                /\ r' = [r EXCEPT ![t] = -1]
                /\ UNCHANGED <<memory, Dlock, x>>

EnqStep(t) == \/ LockEnQ(t)  \/ EnqFull(t)    \/ EnqEmpty(t)
              \/ EnqFirst(t) \/ EnqAdvance(t) \/ EnqStore(t)
              \/ UnlockEnQ(t)
-----------------------------------------------------------------------------
(* deq() *)
DeqCall(t) == Move(t, "idle", "LockDeQ") /\ UNCHANGED <<memory, locks, x, r>>

LockDeQ(t) == /\ Move(t, "LockDeQ", "none_head")
              /\ Dlock = NoThread /\ Dlock' = t
              /\ UNCHANGED <<memory, Elock, x, r>>

(* mutant: the early return on an empty queue forgets UnlockDeQ *)
DeqEmptyNoUnlock(t) == \/ Test(t, "none_head", head = -1, "none_tail", "one_head")
                       \/ Test(t, "none_tail", tail = -1, "idle", "one_head")

(* if (head == -1 && tail == -1) return *)
DeqEmpty(t) == \/ Test(t, "none_head", head = -1, "none_tail", "one_head")
               \/ Test(t, "none_tail", tail = -1, "UnlockDeQ", "one_head")

(* else if (head == tail) *)
DeqOne(t) == \/ Load(t, "one_head", head, "one_tail")
             \/ Test(t, "one_tail", r[t] = tail, "reset_head", "elem_head")

(* mutant: the last element leaves tail where it was *)
DeqResetHeadOnly(t) == SetHead(t, "reset_head", -1, "UnlockDeQ")

(* tail = head = -1 *)
DeqResetEnds(t) == \/ SetHead(t, "reset_head", -1, "reset_read")
                   \/ Load(t, "reset_read", head, "reset_tail")
                   \/ SetTail(t, "reset_tail", r[t], "UnlockDeQ")

(* int a = A[head]: the element is read and never used *)
DeqElement(t) == \/ Load(t, "elem_head", head, "elem")
                 \/ Move(t, "elem", "adv_head_read") /\ UNCHANGED <<memory, locks, x, r>>

(* head = (head+1) % MAX_SIZE *)
DeqAdvance(t) == \/ Load(t, "adv_head_read", Following(head), "adv_head")
                 \/ SetHead(t, "adv_head", r[t], "UnlockDeQ")

UnlockDeQ(t) == /\ Move(t, "UnlockDeQ", "idle")
                /\ Dlock' = NoThread
                /\ r' = [r EXCEPT ![t] = -1]
                /\ UNCHANGED <<memory, Elock, x>>

DeqStep(t) == \/ LockDeQ(t)      \/ DeqEmpty(t)   \/ DeqOne(t)
              \/ DeqResetEnds(t) \/ DeqElement(t) \/ DeqAdvance(t)
              \/ UnlockDeQ(t)
-----------------------------------------------------------------------------
Step(t) == EnqStep(t) \/ DeqStep(t)
Call(t) == DeqCall(t) \/ \E v \in Values : EnqCall(t, v)

Next == \E t \in Threads : Call(t) \/ Step(t)

Spec == Init /\ [][Next]_vars

(* A thread inside a call keeps running.  The mutex may starve a thread:   *)
(* weak fairness does not say who is given a contended lock.               *)
Fairness == \A t \in Threads : WF_vars(Step(t))

FairSpec == Spec /\ Fairness
-----------------------------------------------------------------------------
(* What Print shows: the elements from head to tail. *)
Count == ((tail + MAX_SIZE - head) % MAX_SIZE) + 1
Contents == IF head = -1 /\ tail = -1 THEN << >>
            ELSE [i \in 1 .. Count |-> A[(head + i - 1) % MAX_SIZE]]

(* The condition under which two locks are enough: while an enq and a deq   *)
(* are both inside their critical sections the queue has two elements or    *)
(* more (both ends are set, and differ).  One thread alone satisfies it at all times.     *)
Overlap == Elock # NoThread /\ Dlock # NoThread
Apart   == head # tail /\ head # -1 /\ tail # -1
GuardedNext == Next /\ (Overlap => Apart)'
GuardedSpec == Init /\ [][GuardedNext]_vars

(* The abstract state: an enq takes effect when it stores its element, a    *)
(* deq when it stores head; until A[tail] is written the slot at the tail   *)
(* is not an element.                                                       *)
Elements ==
    CASE \E t \in Threads : At(t, "first_read") \/ At(t, "first_head") -> << >>
      [] \E t \in Threads : At(t, "slot") \/ At(t, "write") ->
           SubSeq(Contents, 1, Count - 1)
      [] \E t \in Threads : pc[t] \in DeqReset -> << >>
      [] OTHER -> Contents

Status == [t \in Threads |-> CASE At(t, "idle")          -> "idle"
                               [] pc[t] \in EnqPending -> "enq"
                               [] pc[t] \in DeqPending -> "deq"
                               [] OTHER               -> "done"]

Abstract == INSTANCE BoundedQueue WITH queue <- Elements, op <- Status,
                                       arg <- x, Capacity <- MAX_SIZE

(* As long as overlapping calls find the two ends apart, the class is a     *)
(* linearizable FIFO queue of capacity MAX_SIZE: an enq is dropped only     *)
(* when all MAX_SIZE slots are taken, a deq returns nothing only when there *)
(* is nothing, no element is lost, duplicated or overtaken.                 *)
ImplementsBoundedQueue == Abstract!Spec

(* No enqueuer is kept out for ever by the others: whenever a thread waits  *)
(* for Elock, some enq gets to its end.  (Every path of enq, the early      *)
(* return on a full queue included, has to unlock.)                         *)
EnqueuersProgress ==
    (\E t \in Threads : At(t, "LockEnQ")) ~> (\E t \in Threads : At(t, "UnlockEnQ"))

(* The same for the dequeuers, Dlock and the three ways out of deq.         *)
DequeuersProgress ==
    (\E t \in Threads : At(t, "LockDeQ")) ~> (\E t \in Threads : At(t, "UnlockDeQ"))

(* The comment of the constructor (blocking2.cpp:32): "We are assuming that *)
(* for an empty Queue, both head and tail will be -1".  Stated where it     *)
(* would have to hold: whenever nobody is inside enq or deq, head and tail  *)
(* are both -1 or neither is.                                               *)
EmptyMeansBothEnds ==
    (Elock = NoThread /\ Dlock = NoThread) => (head = -1 <=> tail = -1)

(* The comment on A (blocking2.cpp:10), "Queue object": enq writes its      *)
(* element into the array, never into the word before it.                   *)
WritesStayInArray == \A t \in Threads : At(t, "write") => r[t] \in Slots
=============================================================================
