------------------------------ MODULE MCLists ------------------------------
(* One run over all lists: which says which one a behaviour is about.       *)
EXTENDS ListMemory
VARIABLES which, apart   \* apart: the callers respect the conditions below

Coarse == INSTANCE CoarseGrainedSynchroList
Fine == INSTANCE FineGrainedSynchroList
Lazy == INSTANCE LazySynchroList
NonBlocking == INSTANCE NonBlockingList
LockFree == INSTANCE LockFreeList WITH PointerFirst <- TRUE
MarkFirst == INSTANCE LockFreeList WITH PointerFirst <- FALSE

Init == /\ apart \in BOOLEAN
        /\ \/ which = "coarse" /\ apart /\ Coarse!Init
           \/ which = "fine" /\ apart /\ Fine!Init
           \/ which = "lazy" /\ apart /\ Lazy!Init
           \/ which = "nonblocking" /\ NonBlocking!Init
           \/ which \in {"lockfree", "lockfree_mark"} /\ LockFree!Init

(* The calls that the two lists without locks are right for: see README. *)
DeletesAlone(op) == apart => IF op = "delete" THEN Quiet ELSE \A t \in Pending : call[t].op # "delete"
AddsAndDeletesApart(op, k) == apart =>
  /\ \A t \in Pending : (op = "delete") = (call[t].op = "delete")
  /\ op # "delete" => /\ \A c \in configs : k \notin c.state
                      /\ \A t \in Pending : call[t].key # k
SameDeletes(op, k) == apart /\ op = "delete" => \A t \in Pending : call[t].key = k

(* Without the conditions one call fewer is made, which bounds the run. *)
Limit == IF apart THEN MaxCalls ELSE MaxCalls - 1
Call(t, op, k) == made < Limit /\
  \/ which = "coarse" /\ Coarse!Call(t, op, k)
  \/ which = "fine" /\ Fine!Call(t, op, k)
  \/ which = "lazy" /\ Lazy!Call(t, op, k)
  \/ which = "nonblocking" /\ DeletesAlone(op) /\ NonBlocking!Call(t, op, k)
  \/ which = "lockfree" /\ AddsAndDeletesApart(op, k) /\ LockFree!Call(t, op, k)
  \/ which = "lockfree_mark" /\ AddsAndDeletesApart(op, k) /\ SameDeletes(op, k) /\ MarkFirst!Call(t, op, k)

Step(t) ==
  \/ which = "coarse" /\ Coarse!Step(t)
  \/ which = "fine" /\ Fine!Step(t)
  \/ which = "lazy" /\ Lazy!Step(t)
  \/ which = "nonblocking" /\ NonBlocking!Step(t)
  \/ which = "lockfree" /\ LockFree!Step(t)
  \/ which = "lockfree_mark" /\ MarkFirst!Step(t)

Done == ((Quiet /\ made = Limit) \/ Crashed) /\ UNCHANGED vars
Next == /\ UNCHANGED <<which, apart>>
        /\ \/ ~Crashed /\ \E t \in Threads : \/ \E op \in {"add", "delete", "find"}, k \in Keys : Call(t, op, k)
                                 \/ Step(t)
           \/ Done
Spec == Init /\ [][Next]_<<vars, which, apart>>
FairSpec == Spec /\ \A t \in Threads : WF_<<vars, which, apart>>(Step(t) /\ UNCHANGED <<which, apart>>)

Pointers == CASE which = "nonblocking" -> NonBlocking!Succ
              [] which \in {"lockfree", "lockfree_mark"} -> LockFree!Succ
              [] OTHER -> Coarse!Succ
List == Reachable(Pointers, HeadNode)

(* Callers get results that a set, doing each call at one instant between   *)
(* its start and its return, would have given.                              *)
Linearizable == apart => Explainable /\ ~Crashed
(* Between calls the list holds what such a set would: no node that was     *)
(* added is lost, and none that was deleted comes back.                     *)
ContentsExplained == apart => Explains(KeysOf(List))
(* Whatever the callers and the other threads are doing, a walk along the   *)
(* list gets to the tail, and meets no key after a greater one on its way,  *)
(* nor, under the conditions, the same key twice.                           *)
Before(k, l) == IF apart THEN k < l ELSE k <= l
Ordered == LET list == List IN
  /\ TailNode \in list
  /\ \A n \in list \ {HeadNode, TailNode} : Pointers[n] # TailNode => Before(heap[n].key, heap[Pointers[n]].key)
(* Again and again there is a moment without a pending call: no thread      *)
(* waits for ever for a mutex or starts its search again for ever.          *)
(* LockFreeList is left out: its delete may not return (see delete there).  *)
CallsReturn == []<>(Quiet \/ Crashed \/ which \in {"lockfree", "lockfree_mark"})
=============================================================================
