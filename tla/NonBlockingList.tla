-------------------------- MODULE NonBlockingList --------------------------
(* list/NonBlockingList.c: an ordered list with a mark in each pointer to   *)
(* the next node and 16-byte compare-and-swaps on pointer and mark.  One    *)
(* step is one access to memory; keys never change.                         *)
EXTENDS ListMemory

make_ref(n, mark) == [node_ptr |-> n, mark |-> mark]
node_t(k, n) == [key |-> k, next |-> make_ref(n, "UNMARKED")]

Init == \E S \in SUBSET Keys :
  /\ heap = [n \in InitialNodes(S) |-> node_t(KeyOf(n, Lowest, Highest), Successor(S, n))]
  /\ Idle /\ NoCalls({S})

create_node(op, k) ==
  heap' = IF op = "add" THEN With(made + 1, node_t(k, Null)) ELSE heap

Call(t, op, k) == Enter(t, op, k, "search") /\ create_node(op, k)

Marked(n) == heap[n].next.mark = "MARKED"
Found(t) == my[t].curr # TailNode /\ heap[my[t].curr].key = key(t)

(* search: curr walks and last is the node before it; pred and next are the *)
(* two ends of the last unmarked link seen.  A search that starts again     *)
(* keeps both; a new one by the same caller keeps pred, which is his.       *)
SearchAgain(t) ==
  /\ At(t, "search")
  /\ Set(t, [last |-> HeadNode, curr |-> heap[HeadNode].next.node_ptr])
  /\ Local(t, "test_mark")
NewSearch(t) == Set(t, [next |-> Null]) /\ Local(t, "search")

TestMark(t) ==
  /\ At(t, "test_mark")
  /\ IF Marked(my[t].curr) THEN UNCHANGED my ELSE Set(t, [pred |-> my[t].last, next |-> my[t].curr])
  /\ Local(t, "unmark")

(* A plain store: the walk takes the mark off every node it passes. *)
Unmark(t) ==
  /\ At(t, "unmark")
  /\ heap' = [heap EXCEPT ![my[t].curr].next.mark = "UNMARKED"]
  /\ Goto(t, IF my[t].curr = TailNode THEN "adjacent" ELSE "advance") /\ UNCHANGED my /\ Internal

Advance(t) == LET n == my[t].curr IN
  /\ At(t, "advance")
  /\ Set(t, [last |-> n, curr |-> heap[n].next.node_ptr])
  /\ Local(t, IF heap[n].key < key(t) THEN "test_mark" ELSE "test_next")

(* The walk stops at last, unless the node after it is marked. *)
TestNext(t) ==
  /\ At(t, "test_next")
  /\ IF Marked(my[t].curr) THEN Local(t, "test_mark") /\ UNCHANGED my
     ELSE Local(t, "adjacent") /\ Set(t, [curr |-> my[t].last])

(* Where the caller goes on; add and delete assert what they got. *)
Around(t) == heap[my[t].pred].key < key(t) /\ key(t) <= heap[my[t].curr].key
Caller(t) ==
  CASE my[t].deleted -> "deleted"
    [] ~my[t].deleted /\ (call[t].op = "find" \/ Around(t)) -> call[t].op
    [] OTHER -> "crashed"
IsDeleted(t) == my[t].curr # TailNode /\ Marked(my[t].curr)

Adjacent(t) ==
  /\ At(t, "adjacent") /\ my[t].next = my[t].curr
  /\ Local(t, IF IsDeleted(t) THEN "search" ELSE Caller(t)) /\ UNCHANGED my

cas(n, old, ref) == heap[n].next = old /\ heap' = [heap EXCEPT ![n].next = ref]
Fails(n, old) == heap[n].next # old

(* Several nodes lie between pred and curr: one compare-and-swap is to      *)
(* unlink them.  It expects the link out of pred to be marked.              *)
RemoveMarked(t) == LET old == make_ref(my[t].next, "MARKED") IN
  /\ At(t, "adjacent") /\ my[t].next # my[t].curr /\ UNCHANGED my
  /\ \/ my[t].pred = Null /\ Local(t, "crashed")
     \/ my[t].pred # Null /\ Fails(my[t].pred, old) /\ Local(t, "search")
     \/ /\ my[t].pred # Null /\ cas(my[t].pred, old, make_ref(my[t].curr, "UNMARKED"))
        /\ Goto(t, "removed") /\ Internal
TestRemoved(t) ==
  /\ At(t, "removed") /\ Local(t, IF IsDeleted(t) THEN "search" ELSE "assert_link") /\ UNCHANGED my
AssertLink(t) ==
  /\ At(t, "assert_link") /\ UNCHANGED my
  /\ Local(t, IF heap[my[t].pred].next.node_ptr = my[t].curr THEN Caller(t) ELSE "crashed")

add(t) == LET old == make_ref(my[t].curr, "UNMARKED") IN
  /\ At(t, "add")
  /\ \/ Found(t) /\ Return(t, 0) /\ UNCHANGED heap
     \/ /\ ~Found(t) /\ Fails(my[t].pred, old)
        /\ NewSearch(t)
     \/ /\ ~Found(t) /\ heap[my[t].pred].next = old
        /\ heap' = [heap EXCEPT ![new(t)].next = old, ![my[t].pred].next = make_ref(new(t), "UNMARKED")]
        /\ Return(t, key(t))

delete(t) ==
  /\ At(t, "delete") /\ UNCHANGED heap
  /\ \/ ~Found(t) /\ Return(t, 0)
     \/ /\ Found(t) /\ Set(t, [next |-> heap[my[t].curr].next.node_ptr])
        /\ Goto(t, "test_successor") /\ Internal

(* The test is of the mark of the node after the one to delete. *)
TestSuccessor(t) ==
  /\ At(t, "test_successor")
  /\ IF Marked(my[t].next) THEN NewSearch(t) ELSE Local(t, "load_ref") /\ UNCHANGED my

(* The reference to compare with, pointer and mark. *)
LoadRef(t) ==
  /\ At(t, "load_ref")
  /\ Set(t, [old |-> make_ref(heap[my[t].curr].next.node_ptr, "UNMARKED")]) /\ Local(t, "load_mark")
LoadMark(t) ==
  /\ At(t, "load_mark")
  /\ Set(t, [old |-> make_ref(my[t].old.node_ptr, heap[my[t].curr].next.mark)]) /\ Local(t, "mark")

Mark(t) == LET old == my[t].old IN
  /\ At(t, "mark")
  /\ \/ cas(my[t].curr, old, make_ref(old.node_ptr, "MARKED")) /\ Goto(t, "unlink") /\ UNCHANGED my /\ Internal
     \/ Fails(my[t].curr, old) /\ NewSearch(t)

Unlink(t) == LET old == make_ref(my[t].curr, "UNMARKED") IN
  /\ At(t, "unlink")
  /\ \/ cas(my[t].pred, old, make_ref(my[t].next, "UNMARKED")) /\ Return(t, heap[my[t].curr].key)
     \/ Fails(my[t].pred, old) /\ Set(t, [deleted |-> TRUE, next |-> Null]) /\ Local(t, "search")

Deleted(t) == At(t, "deleted") /\ Return(t, heap[my[t].curr].key) /\ UNCHANGED heap
find(t) == At(t, "find") /\ Return(t, IF Found(t) THEN key(t) ELSE 0) /\ UNCHANGED heap

Step(t) ==
  \/ SearchAgain(t) \/ TestMark(t) \/ Unmark(t) \/ Advance(t) \/ TestNext(t)
  \/ Adjacent(t) \/ RemoveMarked(t) \/ TestRemoved(t) \/ AssertLink(t) \/ add(t) \/ find(t)
  \/ delete(t) \/ TestSuccessor(t) \/ LoadRef(t) \/ LoadMark(t) \/ Mark(t) \/ Unlink(t) \/ Deleted(t)

Succ == [n \in DOMAIN heap |-> heap[n].next.node_ptr]
show_list == KeysOf(Reachable(Succ, HeadNode))
=============================================================================
