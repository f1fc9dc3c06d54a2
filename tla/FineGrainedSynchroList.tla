----------------------- MODULE FineGrainedSynchroList -----------------------
(* list/FineGrainedSynchroList.c: an ordered list with a mutex per node,    *)
(* taken hand over hand.  Reads and writes of a node happen under its       *)
(* mutex, so they are part of the step that takes the next mutex or gives   *)
(* the two back.                                                            *)
EXTENDS ListMemory

node_t(k, next) == [key |-> k, next |-> next, owner |-> Null]

Init == \E S \in SUBSET Keys :
  /\ heap = [n \in InitialNodes(S) |-> node_t(KeyOf(n, 0, 0), Successor(S, n))]
  /\ Idle /\ NoCalls({S})

create_node(op, k) ==
  heap' = IF op = "add" THEN With(made + 1, node_t(k, Null)) ELSE heap

Call(t, op, k) == Enter(t, op, k, "lock_head") /\ create_node(op, k)

LockHead(t) ==
  /\ At(t, "lock_head") /\ Lock(t, HeadNode)
  /\ Set(t, [pred |-> HeadNode, curr |-> heap[HeadNode].next])
  /\ Goto(t, "lock_curr") /\ Internal

LockCurrAfter(t) ==   \* mutant: pred is given back before curr is taken
  /\ At(t, "lock_curr") /\ heap[my[t].curr].owner = Null
  /\ Unlock([heap EXCEPT ![my[t].curr].owner = t], {my[t].pred} \ {HeadNode})
  /\ Goto(t, "compare") /\ UNCHANGED my /\ Internal
LockCurr(t) ==
  /\ At(t, "lock_curr") /\ Lock(t, my[t].curr)
  /\ Goto(t, "compare") /\ UNCHANGED my /\ Internal

NeverBefore(t) == FALSE   \* mutant: a new node goes first
Before(t) == my[t].curr # TailNode /\ heap[my[t].curr].key < key(t)
Found(t) == my[t].curr # TailNode /\ heap[my[t].curr].key = key(t)

(* Give pred back and read the next node while curr is still held. *)
Advance(t) ==
  /\ At(t, "compare") /\ Before(t)
  /\ Unlock(heap, {my[t].pred})
  /\ Set(t, [pred |-> my[t].curr, curr |-> heap[my[t].curr].next])
  /\ Goto(t, "lock_curr") /\ Internal

Done(t, h, ret) == Unlock(h, {my[t].pred, my[t].curr}) /\ Return(t, ret)
Here(t, op) == At(t, "compare") /\ call[t].op = op /\ ~Before(t)

add(t) ==
  /\ Here(t, "add")
  /\ \/ Found(t) /\ Done(t, heap, 0)
     \/ /\ ~Found(t)
        /\ Done(t, [heap EXCEPT ![new(t)].next = my[t].curr, ![my[t].pred].next = new(t)], key(t))

delete(t) ==
  /\ Here(t, "delete")
  /\ \/ /\ Found(t)
        /\ Done(t, [heap EXCEPT ![my[t].pred].next = heap[my[t].curr].next], key(t))
     \/ ~Found(t) /\ Done(t, heap, 0)

find(t) == Here(t, "find") /\ Done(t, heap, IF Found(t) THEN key(t) ELSE 0)

Step(t) == LockHead(t) \/ LockCurr(t) \/ Advance(t) \/ add(t) \/ delete(t) \/ find(t)

Succ == [n \in DOMAIN heap |-> heap[n].next]
show_list == KeysOf(Reachable(Succ, HeadNode))
=============================================================================
