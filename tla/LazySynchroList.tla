-------------------------- MODULE LazySynchroList --------------------------
(* list/LazySynchroList.c: an ordered list that is traversed without locks. *)
(* add and delete lock two neighbours, validate that they still are         *)
(* neighbours and unmarked, and start again if not.  A node is marked       *)
(* before it is unlinked, and find takes no lock at all.                    *)
EXTENDS ListMemory

node_t(k, next) == [key |-> k, next |-> next, marked |-> FALSE, owner |-> Null]

Init == \E S \in SUBSET Keys :
  /\ heap = [n \in InitialNodes(S) |-> node_t(KeyOf(n, Lowest, Highest), Successor(S, n))]
  /\ Idle /\ NoCalls({S})

create_node(op, k) ==
  heap' = IF op = "add" THEN With(made + 1, node_t(k, Null)) ELSE heap

Call(t, op, k) == Enter(t, op, k, IF op = "find" THEN "find" ELSE "start") /\ create_node(op, k)

Before(t, n) == heap[n].key < key(t) /\ n # TailNode
Continue(t, p, c) == Set(t, [pred |-> p, curr |-> c]) /\ Goto(t, IF Before(t, c) THEN "walk" ELSE "lock_pred")

(* delete gives up at once when the list is empty. *)
Start(t) == LET c == heap[HeadNode].next IN
  /\ At(t, "start") /\ UNCHANGED heap
  /\ \/ call[t].op = "delete" /\ c = TailNode /\ Return(t, 0)
     \/ ~(call[t].op = "delete" /\ c = TailNode) /\ Continue(t, HeadNode, c) /\ Internal

Walk(t) ==
  /\ At(t, "walk")
  /\ Continue(t, my[t].curr, heap[my[t].curr].next) /\ UNCHANGED heap /\ Internal

LockPred(t) == At(t, "lock_pred") /\ Lock(t, my[t].pred) /\ Goto(t, "lock_curr") /\ UNCHANGED my /\ Internal
LockCurr(t) == At(t, "lock_curr") /\ Lock(t, my[t].curr) /\ Goto(t, "validate") /\ UNCHANGED my /\ Internal

validateLinkOnly(pred, curr) == heap[pred].next = curr   \* mutant: the marks are not tested
validate(pred, curr) == ~heap[pred].marked /\ ~heap[curr].marked /\ heap[pred].next = curr

Both(t) == {my[t].pred, my[t].curr}
Again(t) ==
  /\ At(t, "validate") /\ ~validate(my[t].pred, my[t].curr)
  /\ Unlock(heap, Both(t)) /\ Goto(t, "start") /\ UNCHANGED my /\ Internal

Found(t) == heap[my[t].curr].key = key(t)
Valid(t, op) == At(t, "validate") /\ call[t].op = op /\ validate(my[t].pred, my[t].curr)

add(t) ==
  /\ Valid(t, "add")
  /\ \/ Found(t) /\ Unlock(heap, Both(t)) /\ Return(t, 0)
     \/ /\ ~Found(t)
        /\ Unlock([heap EXCEPT ![new(t)].next = my[t].curr, ![my[t].pred].next = new(t)], Both(t))
        /\ Return(t, key(t))

(* The two writes of delete are seen one after the other by those who hold no lock. *)
delete(t) ==
  /\ Valid(t, "delete")
  /\ \/ ~Found(t) /\ Unlock(heap, Both(t)) /\ Return(t, 0)
     \/ /\ Found(t) /\ heap' = [heap EXCEPT ![my[t].curr].marked = TRUE]
        /\ Goto(t, "unlink") /\ UNCHANGED my /\ Internal

Unlink(t) ==
  /\ At(t, "unlink")
  /\ Unlock([heap EXCEPT ![my[t].pred].next = heap[my[t].curr].next], Both(t)) /\ Return(t, key(t))

find(t) == LET n == IF my[t].curr = Null THEN HeadNode ELSE my[t].curr IN
  /\ At(t, "find") /\ UNCHANGED heap
  /\ \/ heap[n].key < key(t) /\ Set(t, [curr |-> heap[n].next]) /\ UNCHANGED pc /\ Internal
     \/ heap[n].key >= key(t) /\ Return(t, IF heap[n].key = key(t) /\ ~heap[n].marked THEN key(t) ELSE 0)

Step(t) == \/ Start(t) \/ Walk(t) \/ LockPred(t) \/ LockCurr(t) \/ Again(t)
           \/ add(t) \/ delete(t) \/ Unlink(t) \/ find(t)

Succ == [n \in DOMAIN heap |-> heap[n].next]
show_list == KeysOf(Reachable(Succ, HeadNode))
=============================================================================
