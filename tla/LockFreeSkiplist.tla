-------------------------- MODULE LockFreeSkiplist --------------------------
(* list/LockFreeSkiplist.c: a skiplist with a mark in each pointer of a     *)
(* tower and 16-byte compare-and-swaps on pointer and mark.  One step is    *)
(* one access to memory; pointer and mark are loaded one after the other.   *)
EXTENDS SkiplistMemory

make_ref(n, mark) == [next_node_ptr |-> n, mark |-> mark]
Unmarked(n) == make_ref(n, "UNMARKED")
create_node(k, next) == [key |-> k, tower |-> [l \in DOMAIN next |-> Unmarked(next[l])]]
topLevel(n) == Max(DOMAIN heap[n].tower)

(* The sentinels have one level more, which calloc has left NULL and MARKED. *)
Top(n) == IF n \in {HeadNode, TailNode} THEN MaxLevel :> make_ref(Null, "MARKED") ELSE <<>>
Init == \E top \in Lists : LET S == DOMAIN top IN
  /\ heap = [n \in InitialNodes(S) |->
               LET node == create_node(KeyOf(n, Lowest, Highest), Tower(S, top, n))
               IN [node EXCEPT !.tower = @ @@ Top(n)]]
  /\ Idle /\ NoCalls({S})

Call(t, op, k) == Enter(t, op, k, "start") /\ UNCHANGED heap

ref(n, l) == heap[n].tower[l]
cas(n, l, old, ref_new) == ref(n, l) = old /\ heap' = [heap EXCEPT ![n].tower[l] = ref_new]

Retry(t, after) == Set(t, [after |-> after] @@ Search) /\ Local(t, "load")
Begin(t) == At(t, "start") /\ call[t].op # "find" /\ Retry(t, call[t].op)

(* _find takes the level above the highest one, so that curr is NULL, and   *)
(* then reads curr's tower.                                                 *)
_find(t) ==
  /\ At(t, "start") /\ call[t].op = "find" /\ UNCHANGED my
  /\ ref(HeadNode, MaxLevel).next_node_ptr = Null
  /\ Local(t, "crashed")

(* search *)
LoadCurr(t) ==
  /\ At(t, "load")
  /\ Set(t, [curr |-> ref(my[t].pred, my[t].level).next_node_ptr]) /\ Local(t, "load_succ")
LoadSucc(t) ==
  /\ At(t, "load_succ")
  /\ Set(t, [next |-> ref(my[t].curr, my[t].level).next_node_ptr]) /\ Local(t, "load_mark")
LoadMark(t) == LET l == my[t].level  curr == my[t].curr IN
  /\ At(t, "load_mark")
  /\ IF ref(curr, l).mark = "MARKED" THEN Local(t, "snip") /\ UNCHANGED my
     ELSE IF key(t) > heap[curr].key
     THEN Set(t, [pred |-> curr, curr |-> my[t].next]) /\ Local(t, "load_succ")
     ELSE Set(t, Down(t, curr)) /\ Local(t, IF l > 0 THEN "load" ELSE my[t].after)
Snip(t) == LET l == my[t].level  old == Unmarked(my[t].curr) IN
  /\ At(t, "snip")
  /\ IF ref(my[t].pred, l) = old
     THEN /\ cas(my[t].pred, l, old, Unmarked(my[t].next))
          /\ Goto(t, "load") /\ UNCHANGED my /\ Internal
     ELSE Retry(t, my[t].after)
search(t) == LoadCurr(t) \/ LoadSucc(t) \/ LoadMark(t) \/ Snip(t)

pred(t, l) == my[t].preds[l]
succ(t, l) == my[t].succs[l]
Found(t) == heap[succ(t, 0)].key = key(t)
NotFound(t) == At(t, "delete") /\ ~Found(t) /\ Return(t, 0) /\ UNCHANGED heap

(* _add: the bottom level first, then up; the node is searched for again    *)
(* when a level fails, but keeps the pointers it has.                       *)
AddFound(t) == At(t, "add") /\ Found(t) /\ Return(t, 0) /\ UNCHANGED heap
AddBottom(t) ==
  /\ At(t, "add") /\ ~Found(t)
  /\ IF ref(pred(t, 0), 0) = Unmarked(succ(t, 0))
     THEN \E top \in Levels :
            /\ heap' = [heap @@ (new(t) :> create_node(key(t), [l \in 0..top |-> succ(t, l)]))
                          EXCEPT ![pred(t, 0)].tower[0] = Unmarked(new(t))]
            /\ IF top = 0 THEN Return(t, key(t))
               ELSE Set(t, [level |-> 1, link |-> 1]) /\ Goto(t, "link") /\ Internal
     ELSE Retry(t, "add")
_add(t) == LET l == my[t].link IN
  /\ At(t, "link")
  /\ IF ref(pred(t, l), l) = Unmarked(succ(t, l))
     THEN /\ cas(pred(t, l), l, Unmarked(succ(t, l)), Unmarked(new(t)))
          /\ IF l = topLevel(new(t)) THEN Return(t, key(t))
             ELSE Set(t, [link |-> l + 1]) /\ Goto(t, "link") /\ Internal
     ELSE Retry(t, "link")

(* _delete: the upper levels of the victim are marked by plain stores of    *)
(* the pointer and of the mark, the bottom level by a compare-and-swap.     *)
DeleteFound(t) == LET n == succ(t, 0) IN
  /\ At(t, "delete") /\ Found(t)
  /\ Set(t, [curr |-> n, level |-> topLevel(n)])
  /\ Local(t, IF topLevel(n) > 0 THEN "upper" ELSE "bottom")
Upper(t) ==
  /\ At(t, "upper")
  /\ Set(t, [next |-> ref(my[t].curr, my[t].level).next_node_ptr]) /\ Local(t, "upper_mark")
UpperMark(t) == LET l == my[t].level IN
  /\ At(t, "upper_mark")
  /\ IF ref(my[t].curr, l).mark = "UNMARKED" THEN Local(t, "store_ptr") /\ UNCHANGED my
     ELSE Set(t, [level |-> l - 1]) /\ Local(t, IF l > 1 THEN "upper" ELSE "bottom")
StorePtr(t) ==
  /\ At(t, "store_ptr")
  /\ heap' = [heap EXCEPT ![my[t].curr].tower[my[t].level].next_node_ptr = my[t].next]
  /\ Goto(t, "store_mark") /\ UNCHANGED my /\ Internal
StoreMark(t) ==
  /\ At(t, "store_mark")
  /\ heap' = [heap EXCEPT ![my[t].curr].tower[my[t].level].mark = "MARKED"]
  /\ Goto(t, "upper") /\ UNCHANGED my /\ Internal
Bottom(t) ==
  /\ At(t, "bottom") /\ Set(t, [next |-> ref(my[t].curr, 0).next_node_ptr]) /\ Local(t, "mark")
Mark(t) == LET old == Unmarked(my[t].next) IN
  /\ At(t, "mark")
  /\ IF ref(my[t].curr, 0) = old
     THEN /\ cas(my[t].curr, 0, old, make_ref(my[t].next, "MARKED"))
          /\ Set(t, [after |-> "deleted"] @@ Search) /\ Goto(t, "load") /\ Internal
     ELSE Local(t, "mark_failed") /\ UNCHANGED my
SuccAgain(t) ==
  /\ At(t, "mark_failed") /\ Set(t, [next |-> ref(succ(t, 0), 0).next_node_ptr]) /\ Local(t, "mark_again")
MarkAgain(t) ==
  /\ At(t, "mark_again")
  /\ IF ref(succ(t, 0), 0).mark = "MARKED" THEN Return(t, 0) /\ UNCHANGED heap
     ELSE Local(t, "mark") /\ UNCHANGED my
_delete(t) == DeleteFound(t) \/ Upper(t) \/ UpperMark(t) \/ StorePtr(t) \/ StoreMark(t)
              \/ Bottom(t) \/ Mark(t) \/ SuccAgain(t) \/ MarkAgain(t)
delete(t) == At(t, "deleted") /\ Return(t, key(t)) /\ UNCHANGED heap

Step(t) == \/ Begin(t) \/ _find(t) \/ search(t) \/ NotFound(t) \/ AddFound(t) \/ AddBottom(t) \/ _add(t)
           \/ _delete(t) \/ delete(t)

Succ(level) == [n \in {m \in DOMAIN heap : level \in DOMAIN heap[m].tower} |-> ref(n, level).next_node_ptr]
show_list(level) ==
  {n \in ToSet(Chain(HeadNode, Succ(0))) \ {HeadNode} : level <= topLevel(n) /\ ref(n, level).mark = "UNMARKED"}
=============================================================================
