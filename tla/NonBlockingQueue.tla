-------------------------- MODULE NonBlockingQueue --------------------------
(***************************************************************************)
(* The lock-free queue of a2/nonblock_q.cpp (a2/non_block2.cpp is the same *)
(* file with another number of threads).  head and tail are atomic         *)
(* counters that only grow; enq claims the slot at tail and deq the slot   *)
(* at head with a compare-and-swap, after loads that may be stale by then. *)
(*                                                                         *)
(* One step is one access to an atomic.  compare_exchange_weak may fail    *)
(* although the counter has the expected value where SpuriousFailure is    *)
(* TRUE (load-linked/store-conditional machines); on x86 it never does.    *)
(*                                                                         *)
(* The counters are not wrapped around the array, so an enq may store      *)
(* behind it, into whatever variables the build has put there.  That is    *)
(* the end of a behaviour: nothing is said of what happens after it.       *)
(***************************************************************************)
EXTENDS Integers, FiniteSets, Sequences

CONSTANTS Threads, MAX_SIZE, Values,
          MaxCalls,        \* bound: the calls of a run (the test bench stops)
          SpuriousFailure

ASSUME ThreadsAssumption == IsFiniteSet(Threads) /\ Threads # {}
ASSUME MaxSizeAssumption == MAX_SIZE \in Nat \ {0}
ASSUME ValuesAssumption  == 0 \in Values
ASSUME BoundsAssumption  == MaxCalls \in Nat /\ SpuriousFailure \in BOOLEAN

VARIABLES head, tail, \* the two counters
          A,          \* the words of the array stored so far: slot |-> element
          calls,      \* how many calls have started (bounded by MaxCalls)
          pc,         \* pc[t]: the access thread t performs next
          x,          \* x[t]: the argument of t's latest enq
          lim,        \* lim[t]: the tail enq tests for "full"; deq's "end"
          pos         \* pos[t]: enq's "slot"; deq's "start"

vars == <<head, tail, A, calls, pc, x, lim, pos>>

Slots == 0 .. MAX_SIZE - 1
EnqLabels == {"full_tail", "full_head", "slot", "enq_cas", "write"}
DeqLabels == {"end", "start", "deq_cas"}

TypeOK == /\ head \in Nat
          /\ tail \in Nat
          /\ DOMAIN A \subseteq Slots
          /\ \A s \in DOMAIN A : A[s] \in Values
          /\ calls \in 0 .. MaxCalls
          /\ pc \in [Threads -> {"idle", "return", "outside"} \cup EnqLabels \cup DeqLabels]
          /\ x \in [Threads -> Values]
          /\ lim \in [Threads -> Nat]
          /\ pos \in [Threads -> Nat]

(* mutant: the counters start at 1 *)
InitAtOne == /\ head = 1
             /\ tail = 1
             /\ A = [s \in {} |-> 0]
             /\ calls = 0
             /\ pc = [t \in Threads |-> "idle"]
             /\ x = [t \in Threads |-> 0]
             /\ lim = [t \in Threads |-> 0]
             /\ pos = [t \in Threads |-> 0]

Init == /\ head = 0
        /\ tail = 0
        /\ A = [s \in {} |-> 0]
        /\ calls = 0
        /\ pc = [t \in Threads |-> "idle"]
        /\ x = [t \in Threads |-> 0]
        /\ lim = [t \in Threads |-> 0]
        /\ pos = [t \in Threads |-> 0]

At(t, label)   == pc[t] = label
Goto(t, label) == pc' = [pc EXCEPT ![t] = label]
Move(t, from, to) == At(t, from) /\ Goto(t, to)
-----------------------------------------------------------------------------
(* enq(value) *)
EnqCall(t, v) == /\ Move(t, "idle", "full_tail")
                 /\ calls < MaxCalls
                 /\ calls' = calls + 1
                 /\ x' = [x EXCEPT ![t] = v]
                 /\ UNCHANGED <<head, tail, A, lim, pos>>

(* tail.load(), the left operand of the test for "full" *)
LoadTail(t) == /\ Move(t, "full_tail", "full_head")
               /\ lim' = [lim EXCEPT ![t] = tail]
               /\ UNCHANGED <<head, tail, A, calls, x, pos>>

(* mutant: "full" is tested with > *)
TestOverfull(t) == /\ Move(t, "full_head", IF lim[t] - head > MAX_SIZE
                                           THEN "return" ELSE "slot")
                   /\ UNCHANGED <<head, tail, A, calls, x, lim, pos>>

(* mutant: one slot is kept free *)
TestAlmostFull(t) == /\ Move(t, "full_head", IF lim[t] + 1 - head >= MAX_SIZE
                                             THEN "return" ELSE "slot")
                     /\ UNCHANGED <<head, tail, A, calls, x, lim, pos>>

(* head.load() and the test: a full queue drops the element *)
TestFull(t) == /\ Move(t, "full_head", IF lim[t] - head >= MAX_SIZE
                                       THEN "return" ELSE "slot")
               /\ UNCHANGED <<head, tail, A, calls, x, lim, pos>>

(* slot = tail.load(): a second load of tail, not the one that was tested *)
LoadSlot(t) == /\ Move(t, "slot", "enq_cas")
               /\ pos' = [pos EXCEPT ![t] = tail]
               /\ UNCHANGED <<head, tail, A, calls, x, lim>>

(* mutant: tail is stored, without comparing *)
ClaimBlindly(t) == /\ Move(t, "enq_cas", "write")
                   /\ tail' = pos[t] + 1
                   /\ UNCHANGED <<head, A, calls, x, lim, pos>>

(* atomic_compare_exchange_weak(&tail, &slot, slot+1) *)
ClaimSlot(t) == /\ Move(t, "enq_cas", "write")
                /\ pos[t] = tail
                /\ tail' = tail + 1
                /\ UNCHANGED <<head, A, calls, x, lim, pos>>

RetryEnq(t) == /\ Move(t, "enq_cas", "full_tail")
               /\ pos[t] # tail \/ SpuriousFailure
               /\ UNCHANGED <<head, tail, A, calls, x, lim, pos>>

(* A[slot] = value *)
StoreElement(t) == /\ Move(t, "write", "return")
                   /\ pos[t] \in Slots
                   /\ A' = [s \in DOMAIN A \cup {pos[t]} |->
                              IF s = pos[t] THEN x[t] ELSE A[s]]
                   /\ UNCHANGED <<head, tail, calls, x, lim, pos>>

(* The same store when the array has no such slot. *)
StoreOutside(t) == /\ Move(t, "write", "outside")
                   /\ pos[t] \notin Slots
                   /\ UNCHANGED <<head, tail, A, calls, x, lim, pos>>

EnqStep(t) == \/ LoadTail(t)  \/ TestFull(t) \/ LoadSlot(t)
              \/ ClaimSlot(t) \/ RetryEnq(t) \/ StoreElement(t) \/ StoreOutside(t)
-----------------------------------------------------------------------------
(* deq() *)
DeqCall(t) == /\ Move(t, "idle", "end")
              /\ calls < MaxCalls
              /\ calls' = calls + 1
              /\ UNCHANGED <<head, tail, A, x, lim, pos>>

(* end = tail.load(), once, before the loop *)
LoadEnd(t) == /\ Move(t, "end", "start")
              /\ lim' = [lim EXCEPT ![t] = tail]
              /\ UNCHANGED <<head, tail, A, calls, x, pos>>

(* mutant: "empty" is tested as start > end *)
LoadStartPast(t) == /\ Move(t, "start", IF head > lim[t] THEN "return" ELSE "deq_cas")
                    /\ pos' = [pos EXCEPT ![t] = head]
                    /\ UNCHANGED <<head, tail, A, calls, x, lim>>

(* start = head.load() and the test for "empty" *)
LoadStart(t) == /\ Move(t, "start", IF head = lim[t] THEN "return" ELSE "deq_cas")
                /\ pos' = [pos EXCEPT ![t] = head]
                /\ UNCHANGED <<head, tail, A, calls, x, lim>>

(* atomic_compare_exchange_weak(&head, &start, start+1) *)
TakeHead(t) == /\ Move(t, "deq_cas", "return")
               /\ pos[t] = head
               /\ head' = head + 1
               /\ UNCHANGED <<tail, A, calls, x, lim, pos>>

(* mutant: a failed compare-and-swap is repeated with the same start *)
RetryStale(t) == /\ At(t, "deq_cas")
                 /\ pos[t] # head \/ SpuriousFailure
                 /\ UNCHANGED <<head, tail, A, calls, pc, x, lim, pos>>

RetryDeq(t) == /\ Move(t, "deq_cas", "start")
               /\ pos[t] # head \/ SpuriousFailure
               /\ UNCHANGED <<head, tail, A, calls, x, lim, pos>>

DeqStep(t) == LoadEnd(t) \/ LoadStart(t) \/ TakeHead(t) \/ RetryDeq(t)
-----------------------------------------------------------------------------
Return(t) == /\ Move(t, "return", "idle")
             /\ UNCHANGED <<head, tail, A, calls, x, lim, pos>>

Overrun == \E t \in Threads : At(t, "outside")

Step(t) == ~Overrun /\ (EnqStep(t) \/ DeqStep(t) \/ Return(t))
Call(t) == ~Overrun /\ (DeqCall(t) \/ \E v \in Values : EnqCall(t, v))

Next == \E t \in Threads : Call(t) \/ Step(t)

Spec == Init /\ [][Next]_vars

(* A thread inside a call is never suspended for ever. *)
FairSpec == Spec /\ \A t \in Threads : WF_vars(Step(t))

(* The same queue when dequeuers (and enqueuers) take turns. *)
Enqueuers == {t \in Threads : pc[t] \in EnqLabels}
Dequeuers == {t \in Threads : pc[t] \in DeqLabels}
OneEnqueuer == \A t, u \in Enqueuers : t = u
OneDequeuer == \A t, u \in Dequeuers : t = u

OneDequeuerSpec == Init /\ [][Next /\ OneDequeuer']_vars
PairSpec == Init /\ [][Next /\ OneDequeuer' /\ OneEnqueuer']_vars
-----------------------------------------------------------------------------
Writers == {t \in Threads : At(t, "write") \/ At(t, "outside")}

(* Every number below tail belongs to exactly one enq: either it is a slot  *)
(* with its element stored, or one thread has claimed it and is about to    *)
(* store there (or would have, if the array had such a slot).  No element   *)
(* is ever overwritten and no slot is claimed and left out.                 *)
SlotsAccounted ==
    /\ \A t \in Writers : pos[t] \notin DOMAIN A
    /\ \A t, u \in Writers : pos[t] = pos[u] => t = u
    /\ DOMAIN A \cup {pos[t] : t \in Writers} = 0 .. tail - 1

(* The test for "full" and the claim are separate steps, so the queue can   *)
(* be overfilled: by one element for each other thread that passed the test *)
(* before, and by no more, however the threads interleave and however long  *)
(* the values they loaded have been stale.                                  *)
OverfullBound == tail - head <= MAX_SIZE + Cardinality(Threads) - 1

(* head never passes tail: deq takes only what enq has put in.  Its "end"   *)
(* is loaded once, before the loop, so this needs the dequeuers to take     *)
(* turns; with two of them in deq it fails (see OneDequeuerSpec).           *)
HeadBehindTail == head <= tail

(* Every call returns: the calls of a run are finite in number, a failed    *)
(* compare-and-swap means another one succeeded, and each retry reloads     *)
(* what it compares.  After a store behind the array nothing is promised.   *)
CallsReturn == \A t \in Threads : ~At(t, "idle") ~> At(t, "idle") \/ Overrun

(* nonblock_q.cpp:1 "Bounded Non-Blocking Queue": never more than MAX_SIZE  *)
(* elements.                                                                *)
Bounded == tail - head <= MAX_SIZE

(* nonblock_q.cpp:8: MAX_SIZE is the "maximum size of the array that will   *)
(* store Queue": the slot an enq has claimed is one of the array.  It need  *)
(* not be: elements taken out make room in the queue, not in the array.     *)
SlotsInArray == \A t \in Writers : pos[t] \in Slots

(* It is one as long as there have been no more calls than slots, those of  *)
(* threads that race, retry or are turned away included, as in a bench with *)
(* one thread, which counts its calls up to MAX_SIZE (nonblock_q.cpp:82):   *)
(* no slot is skipped, and none is used up by a call that fails.            *)
FewCallsFit == calls <= MAX_SIZE => SlotsInArray /\ ~Overrun

(* With one enq and one deq at a time the queue is linearizable up to the   *)
(* first store behind the array: enq takes effect when it claims its slot   *)
(* (the element is stored a step later, but deq does not read it), a deq    *)
(* that finds nothing when it loads "end".                                  *)
ElementAt(s) == IF \E t \in Writers : pos[t] = s
                THEN x[CHOOSE t \in Writers : pos[t] = s] ELSE A[s]
Elements == [i \in 1 .. tail - head |-> ElementAt(head + i - 1)]
Status == [t \in Threads |->
             CASE At(t, "idle")                            -> "idle"
               [] pc[t] \in {"write", "outside", "return"} -> "done"
               [] pc[t] \in EnqLabels \ {"write"}          -> "enq"
               [] At(t, "start") /\ lim[t] = head          -> "done"
               [] OTHER                                    -> "deq"]

Abstract == INSTANCE BoundedQueue WITH queue <- Elements, op <- Status,
                                       arg <- x, Capacity <- MAX_SIZE
ImplementsBoundedQueue == Abstract!Spec
=============================================================================
