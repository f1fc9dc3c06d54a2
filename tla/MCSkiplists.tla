---------------------------- MODULE MCSkiplists ----------------------------
(* One run over the three skiplists: which says which one a behaviour is    *)
(* about, and apart whether the callers respect the conditions below.       *)
EXTENDS SkiplistMemory
VARIABLES which, apart

Locked == INSTANCE Skiplist
Lazy == INSTANCE LazySkiplist
LockFree == INSTANCE LockFreeSkiplist
allVars == <<vars, which, apart>>

Init == /\ apart \in BOOLEAN
        /\ \/ which = "locked" /\ Locked!Init
           \/ which = "lazy" /\ Lazy!Init
           \/ which = "lockfree" /\ LockFree!Init

(* The calls that each skiplist is right for. *)
DeletesPresent(op, k) == apart /\ op = "delete" =>
  /\ \A c \in configs : k \in c.state
  /\ \A t \in Pending : call[t].key # k
NotWith(op, other, mine) == apart => ~(op = mine /\ \E t \in Pending : call[t].op = other)
Apart(op, a, b) == NotWith(op, a, b) /\ NotWith(op, b, a)

(* One call fewer without the conditions, and without locks, bounds the run. *)
Limit == IF apart /\ which # "lockfree" THEN MaxCalls ELSE MaxCalls - 1
Call(t, op, k) == made < Limit /\
  \/ which = "locked" /\ DeletesPresent(op, k) /\ Locked!Call(t, op, k)
  \/ which = "lazy" /\ Apart(op, "find", "add") /\ Apart(op, "find", "delete") /\ Lazy!Call(t, op, k)
  \/ which = "lockfree" /\ Apart(op, "add", "delete") /\ (apart => op # "find") /\ LockFree!Call(t, op, k)

Step(t) ==
  \/ which = "locked" /\ Locked!Step(t)
  \/ which = "lazy" /\ Lazy!Step(t)
  \/ which = "lockfree" /\ LockFree!Step(t)

Done == ((Quiet /\ made = Limit) \/ Crashed) /\ UNCHANGED vars
Next == /\ UNCHANGED <<which, apart>>
        /\ \/ ~Crashed /\ \E t \in Threads :
                \/ \E op \in {"add", "delete", "find"}, k \in Keys : Call(t, op, k)
                \/ Step(t)
           \/ Done
Spec == Init /\ [][Next]_allVars

List(level) == IF which = "lockfree" THEN Chain(HeadNode, LockFree!Succ(level)) ELSE Chain(HeadNode, Locked!Succ(level))
After(n, level) == IF which = "lockfree" THEN LockFree!Succ(level)[n] ELSE Locked!Succ(level)[n]

(* Callers that respect the conditions get results that a set, doing each   *)
(* call at one instant between its start and its return, would have given.  *)
Linearizable == apart => Explainable /\ ~Crashed
(* Between calls the bottom level holds what such a set would. *)
ContentsExplained == apart =>
  Explains(IF which = "lockfree" THEN {heap[n].key : n \in LockFree!show_list(0)} ELSE KeysOf(ToSet(List(0))))
(* At any moment, whatever the callers do, a walk along a level meets the   *)
(* keys in order and ends at the tail.                                      *)
Ordered == \A level \in Levels : LET l == List(level) IN
  /\ \A i, j \in DOMAIN l : i < j => heap[l[i]].key <= heap[l[j]].key
  /\ After(Last(l), level) = TailNode
(* At any moment a node on one level is on the level below: a search that   *)
(* goes down from a node it has found on a level can go on from there.      *)
LevelsNested == which # "lockfree" =>
  \A level \in 1..MaxLevel - 1 : ToSet(List(level)) \subseteq ToSet(List(level - 1))
=============================================================================
