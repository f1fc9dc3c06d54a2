---------------------------- MODULE LazySkiplist ----------------------------
(* list/LazySkiplist.c with concurrent_skiplist.h: a skiplist searched      *)
(* without locks.  add and delete lock the predecessors of a node level by  *)
(* level, validate them and start again if one has changed.  The mutexes    *)
(* are recursive, as one node may precede at several levels.                *)
EXTENDS SkiplistMemory

create_node(k, next, linked) ==
  [key |-> k, next |-> next, marked |-> FALSE, fullyLinked |-> linked, owner |-> Null]
topLevel(n) == Max(DOMAIN heap[n].next)

Init == \E top \in Lists : LET S == DOMAIN top IN
  /\ heap = [n \in InitialNodes(S) |-> create_node(KeyOf(n, Lowest, Highest), Tower(S, top, n), TRUE)]
  /\ Idle /\ NoCalls({S})

Call(t, op, k) == Enter(t, op, k, "start") /\ UNCHANGED heap

(* get_workspace: preds and succs belong to the thread.  The level of a     *)
(* node to add is drawn once, before the first search.                      *)
Begin(t) ==
  /\ At(t, "start")
  /\ \E top \in IF call[t].op = "add" THEN Levels ELSE {0} :
       Set(t, [top |-> top, victim |-> Null, lFound |-> -1] @@ Search)
  /\ Local(t, "search")
Restart(t) == Set(t, [lFound |-> -1] @@ Search)

search(t) == LET l == my[t].level  curr == heap[my[t].pred].next[l] IN
  /\ At(t, "search")
  /\ IF key(t) > heap[curr].key THEN Set(t, [pred |-> curr]) /\ Local(t, "search")
     ELSE /\ Set(t, [lFound |-> IF my[t].lFound = -1 /\ key(t) = heap[curr].key THEN l ELSE my[t].lFound]
                    @@ Down(t, curr))
          /\ Local(t, IF l > 0 THEN "search" ELSE call[t].op)

Found(t) == my[t].lFound # -1
nodeFound(t) == my[t].succs[my[t].lFound]
NotFound(t) == At(t, call[t].op) /\ call[t].op # "add" /\ ~Found(t) /\ Return(t, 0) /\ UNCHANGED heap

(* _add *)
AddFound(t) ==
  /\ At(t, "add") /\ Found(t)
  /\ IF heap[nodeFound(t)].marked THEN Restart(t) /\ Local(t, "search")
     ELSE Local(t, "linking") /\ UNCHANGED my
AwaitNothing(t) == At(t, "linking") /\ Return(t, 0) /\ UNCHANGED heap   \* mutant
AwaitLinked(t) ==
  At(t, "linking") /\ heap[nodeFound(t)].fullyLinked /\ Return(t, 0) /\ UNCHANGED heap

StartLocking(t) ==
  At(t, "add") /\ ~Found(t) /\ Set(t, [level |-> 0]) /\ Local(t, "lock")

Preds(t, top) == {my[t].preds[l] : l \in 0..top}
validLinkOnly(pred, succ, l, op) == heap[pred].next[l] = succ   \* mutant: no marks
valid(pred, succ, l, op) ==
  /\ ~heap[pred].marked
  /\ op = "add" => ~heap[succ].marked
  /\ heap[pred].next[l] = succ

(* One level: lock its predecessor and validate.  Give all back on failure. *)
LockLevel(t) ==
  LET l == my[t].level  pred == my[t].preds[l]  succ == IF call[t].op = "add" THEN my[t].succs[l] ELSE my[t].victim IN
  /\ At(t, "lock") /\ heap[pred].owner \in {Null, t} /\ Internal
  /\ IF valid(pred, succ, l, call[t].op)
     THEN /\ heap' = [heap EXCEPT ![pred].owner = t]
          /\ IF l < my[t].top THEN Set(t, [level |-> l + 1]) /\ Goto(t, "lock")
             ELSE Set(t, [level |-> IF call[t].op = "add" THEN 0 ELSE l]) /\ Goto(t, "link")
     ELSE Unlock(heap, Preds(t, l)) /\ Restart(t) /\ Goto(t, "search")

_add(t) == LET l == my[t].level IN
  /\ At(t, "link") /\ call[t].op = "add"
  /\ heap' = [heap @@ (new(t) :> create_node(key(t), [i \in 0..my[t].top |-> my[t].succs[i]], FALSE))
                EXCEPT ![my[t].preds[l]].next[l] = new(t)]
  /\ Set(t, [level |-> l + 1])
  /\ Goto(t, IF l < my[t].top THEN "link" ELSE "linked") /\ Internal

add(t) ==
  /\ At(t, "linked")
  /\ Unlock([heap EXCEPT ![new(t)].fullyLinked = TRUE], Preds(t, my[t].top)) /\ Return(t, key(t))

(* _delete: only a node that is linked on all levels and unmarked; the      *)
(* thread that marks it keeps its mutex until it has unlinked it.           *)
Retrying(t) == my[t].victim # Null
flag(t) == LET n == nodeFound(t) IN
  heap[n].fullyLinked /\ topLevel(n) = my[t].lFound /\ ~heap[n].marked

DeleteFound(t) == LET n == nodeFound(t) IN
  /\ At(t, "delete") /\ Found(t) /\ UNCHANGED heap
  /\ IF Retrying(t) \/ flag(t)
     THEN /\ IF Retrying(t) THEN Set(t, [level |-> 0, victim |-> n]) ELSE Set(t, [level |-> 0, top |-> topLevel(n)])
          /\ Goto(t, IF Retrying(t) THEN "lock" ELSE "mark") /\ Internal
     ELSE Return(t, 0)

MarkVictim(t) == LET n == nodeFound(t) IN
  /\ At(t, "mark") /\ heap[n].owner = Null
  /\ IF heap[n].marked THEN Return(t, 0) /\ UNCHANGED heap
     ELSE /\ heap' = [heap EXCEPT ![n].owner = t, ![n].marked = TRUE]
          /\ Set(t, [victim |-> n]) /\ Goto(t, "lock") /\ Internal

_delete(t) == LET l == my[t].level IN
  /\ At(t, "link") /\ call[t].op = "delete"
  /\ heap' = [heap EXCEPT ![my[t].preds[l]].next[l] = heap[my[t].victim].next[l]]
  /\ Set(t, [level |-> l - 1])
  /\ Goto(t, IF l > 0 THEN "link" ELSE "unlinked") /\ Internal

delete(t) ==
  /\ At(t, "unlinked")
  /\ Unlock(heap, {my[t].victim} \cup Preds(t, my[t].lFound)) /\ Return(t, key(t))

(* _find goes back to the predecessor for the value. *)
_find(t) == LET n == nodeFound(t) IN
  /\ At(t, "find") /\ Found(t) /\ UNCHANGED heap
  /\ IF heap[n].fullyLinked /\ ~heap[n].marked THEN Goto(t, "value") /\ UNCHANGED my /\ Internal
     ELSE Return(t, 0)
find(t) == At(t, "value") /\ Return(t, heap[heap[my[t].preds[0]].next[0]].key) /\ UNCHANGED heap

Step(t) ==
  \/ Begin(t) \/ search(t) \/ NotFound(t) \/ AddFound(t) \/ AwaitLinked(t) \/ StartLocking(t) \/ LockLevel(t)
  \/ _add(t) \/ add(t) \/ DeleteFound(t) \/ MarkVictim(t) \/ _delete(t) \/ delete(t) \/ _find(t) \/ find(t)

Succ(level) == [n \in {m \in DOMAIN heap : level \in DOMAIN heap[m].next} |-> heap[n].next[level]]
show_list == [level \in Levels |-> Chain(HeadNode, Succ(level))]
=============================================================================
