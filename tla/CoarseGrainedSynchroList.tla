---------------------- MODULE CoarseGrainedSynchroList ----------------------
(* list/CoarseGrainedSynchroList.c: an ordered list under one mutex.  What  *)
(* is done under the mutex is one step together with giving it back.  The   *)
(* owner of list->mtx is kept with the head node.                           *)
EXTENDS ListMemory

node_t(k, next) == [key |-> k, next |-> next, owner |-> Null]

(* calloc leaves the keys of both sentinels 0. *)
Init == \E S \in SUBSET Keys :
  /\ heap = [n \in InitialNodes(S) |-> node_t(KeyOf(n, 0, 0), Successor(S, n))]
  /\ Idle /\ NoCalls({S})

create_node(op, k) ==
  heap' = IF op = "add" THEN With(made + 1, node_t(k, Null)) ELSE heap

Call(t, op, k) == Enter(t, op, k, "lock") /\ create_node(op, k)

LockList(t) ==
  /\ At(t, "lock") /\ Lock(t, HeadNode)
  /\ Goto(t, call[t].op) /\ UNCHANGED my /\ Internal

Succ == [n \in DOMAIN heap |-> heap[n].next]

(* The loop `while (curr != list->tail && curr->key < key)`: the nodes it   *)
(* meets, the one it stops at, and the one before that.                     *)
Passed(n, k) == n = HeadNode \/ (n # TailNode /\ heap[n].key < k)
Met(k) == Reachable([n \in DOMAIN heap |-> IF Passed(n, k) THEN Succ[n] ELSE Null], HeadNode)
Position(k) ==
  LET met == Met(k)
      curr == CHOOSE n \in met : ~Passed(n, k)
  IN [curr |-> curr, pred |-> CHOOSE n \in met : Passed(n, k) /\ Succ[n] = curr]

add(t) == LET p == Position(key(t)) IN
  /\ At(t, "add")
  /\ \/ /\ p.curr # TailNode /\ heap[p.curr].key = key(t)
        /\ Unlock(heap, {HeadNode}) /\ Return(t, 0)
     \/ /\ p.curr = TailNode \/ heap[p.curr].key # key(t)
        /\ Unlock([heap EXCEPT ![new(t)].next = p.curr, ![p.pred].next = new(t)], {HeadNode})
        /\ Return(t, key(t))

(* The test for the key does not exclude the tail, whose key is 0. *)
delete(t) == LET p == Position(key(t)) IN
  /\ At(t, "delete")
  /\ \/ /\ Succ[HeadNode] # TailNode /\ heap[p.curr].key = key(t)
        /\ Unlock([heap EXCEPT ![p.pred].next = Succ[p.curr]], {HeadNode}) /\ Return(t, heap[p.curr].key)
     \/ /\ Succ[HeadNode] = TailNode \/ heap[p.curr].key # key(t)
        /\ Unlock(heap, {HeadNode}) /\ Return(t, 0)

FindKeepsLock(t) == LET p == Position(key(t)) IN   \* mutant: the mutex is not given back
  /\ At(t, "find") /\ UNCHANGED heap
  /\ Return(t, IF p.curr # TailNode /\ heap[p.curr].key = key(t) THEN key(t) ELSE 0)
find(t) == LET p == Position(key(t)) IN
  /\ At(t, "find")
  /\ Unlock(heap, {HeadNode})
  /\ Return(t, IF p.curr # TailNode /\ heap[p.curr].key = key(t) THEN key(t) ELSE 0)

Step(t) == LockList(t) \/ add(t) \/ delete(t) \/ find(t)

show_list == KeysOf(Reachable(Succ, HeadNode))
=============================================================================
