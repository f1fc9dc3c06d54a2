------------------------------ MODULE Skiplist ------------------------------
(* list/Skiplist.c: a skiplist under one mutex.  What is done under the     *)
(* mutex is one step together with giving it back.  The owner of sl->mtx is *)
(* kept with the head node; sl->preds and sl->succs are only used under it. *)
EXTENDS SkiplistMemory

create_node(k, next) == [key |-> k, next |-> next, owner |-> Null]
topLevel(n) == Max(DOMAIN heap[n].next)

Init == \E top \in Lists : LET S == DOMAIN top IN
  /\ heap = [n \in InitialNodes(S) |-> create_node(KeyOf(n, Lowest, Highest), Tower(S, top, n))]
  /\ Idle /\ NoCalls({S})

Call(t, op, k) == Enter(t, op, k, "lock") /\ UNCHANGED heap

LockList(t) ==
  /\ At(t, "lock") /\ Lock(t, HeadNode)
  /\ Goto(t, call[t].op) /\ UNCHANGED my /\ Internal

Succ(level) == [n \in {m \in DOMAIN heap : level \in DOMAIN heap[m].next} |-> heap[n].next[level]]
Nodes(level) == Chain(HeadNode, Succ(level))

predsFirst(k, level) == HeadNode   \* mutant: no walk along the level
preds(k, level) == Last(SelectSeq(Nodes(level), LAMBDA n : heap[n].key < k))
succs(k, level) == heap[preds(k, level)].next[level]
search(k) == {level \in Levels : heap[succs(k, level)].key = k}   \* empty: -1

(* On each level of `to` the predecessor of key k is made to point to to[level]. *)
Redirect(k, to) ==
  [p \in DOMAIN heap |-> [heap[p] EXCEPT !.next =
     [level \in DOMAIN @ |-> IF level \in DOMAIN to /\ p = preds(k, level) THEN to[level] ELSE @[level]]]]

add(t) == LET k == key(t) IN
  /\ At(t, "add")
  /\ \/ search(k) # {} /\ Unlock(heap, {HeadNode}) /\ Return(t, 0)
     \/ /\ search(k) = {}
        /\ \E top \in Levels :
             Unlock(Redirect(k, [level \in 0..top |-> new(t)])
                    @@ (new(t) :> create_node(k, [level \in 0..top |-> succs(k, level)])), {HeadNode})
        /\ Return(t, k)

deleteBottom(t) == LET k == key(t) IN   \* mutant: the upper levels keep the node
  /\ At(t, "delete")
  /\ Unlock(IF search(k) = {} THEN heap ELSE Redirect(k, 0 :> heap[succs(k, 0)].next[0]), {HeadNode})
  /\ Return(t, k)
(* The result is true in both cases. *)
delete(t) == LET k == key(t) IN
  /\ At(t, "delete")
  /\ Unlock(IF search(k) = {} THEN heap ELSE Redirect(k, heap[succs(k, 0)].next), {HeadNode})
  /\ Return(t, k)

find(t) ==
  /\ At(t, "find") /\ Unlock(heap, {HeadNode})
  /\ Return(t, IF search(key(t)) = {} THEN 0 ELSE heap[succs(key(t), 0)].key)

Step(t) == LockList(t) \/ add(t) \/ delete(t) \/ find(t)

show_list == Nodes(0)
=============================================================================
