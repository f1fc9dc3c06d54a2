-------------------------- MODULE CASLockFreeQueue --------------------------
(* queue/CASLockFreeQueue.c: the queue of Michael and Scott, a linked list  *)
(* with a dummy node and 16-byte compare-and-swaps on pointer and count.    *)
(* One step is one access to memory; the two words of a pointer_t are       *)
(* loaded one after the other, the count first.  Nodes are not freed.       *)
EXTENDS ThreadSteps

CONSTANT Dummy
q == heap
pointer(n, c) == [ptr |-> n, count |-> c]
create_node(val) == [val |-> val, next |-> pointer(Null, 0)]

init_queue ==
  [head |-> pointer(Dummy, 0), tail |-> pointer(Dummy, 0), node |-> [n \in {Dummy} |-> create_node(Null)]]
Init == heap = init_queue /\ Idle /\ NoCalls({<<>>})

WithNode(n, node) == [m \in DOMAIN q.node \cup {n} |-> IF m = n THEN node ELSE q.node[m]]
Call(t, op, val) ==
  /\ Enter(t, op, val, IF op = "enq" THEN "tail" ELSE "head")
  /\ heap' = IF op = "enq" THEN [q EXCEPT !.node = WithNode(made + 1, create_node(val))] ELSE q

(* The local variable var = from, in two steps. *)
Load(t, var, half, from, then) ==
  \/ At(t, var) /\ Set(t, [x \in {var} |-> pointer(Null, from.count)]) /\ Local(t, half)
  \/ At(t, half) /\ Set(t, [x \in {var} |-> pointer(from.ptr, my[t][var].count)]) /\ Local(t, then)
LoadedNode(t) == IF call[t].op = "enq" THEN my[t].tail.ptr ELSE my[t].head.ptr
AgainStale(t) == Local(t, "same_count")   \* mutant: compares the old values again
Again(t) == Local(t, IF call[t].op = "enq" THEN "tail" ELSE "head")

LoadHead(t) == Load(t, "head", "head.ptr", q.head, "tail")
LoadTail(t) == Load(t, "tail", "tail.ptr", q.tail, "next")
LoadNext(t) == Load(t, "next", "next.ptr", q.node[LoadedNode(t)].next, "same_count")

(* Is the end that was loaded first still the same? *)
Loaded(t) == IF call[t].op = "enq" THEN my[t].tail ELSE my[t].head
End(t) == IF call[t].op = "enq" THEN q.tail ELSE q.head
SameCount(t) ==
  /\ At(t, "same_count") /\ UNCHANGED my
  /\ IF Loaded(t).count = End(t).count THEN Local(t, "same_ptr") ELSE Again(t)
SamePtr(t) ==
  /\ At(t, "same_ptr") /\ UNCHANGED my
  /\ IF Loaded(t).ptr = End(t).ptr THEN Local(t, call[t].op) ELSE Again(t)

(* tail has fallen behind.  A deq counts on from the head it has loaded. *)
casTail(t, n) ==
  heap' = IF q.tail = my[t].tail THEN [q EXCEPT !.tail = pointer(n, Loaded(t).count + 1)] ELSE q
Help(t) ==
  /\ casTail(t, my[t].next.ptr) /\ UNCHANGED my /\ Internal
  /\ Goto(t, IF call[t].op = "enq" THEN "tail" ELSE "head")

enq(t) == LET n == my[t].tail.ptr IN
  /\ At(t, "enq")
  /\ IF my[t].next.ptr # Null THEN Help(t)
     ELSE IF q.node[n].next = my[t].next
     THEN /\ heap' = [q EXCEPT !.node[n].next = pointer(new(t), my[t].next.count + 1)]
          /\ Goto(t, "swing") /\ UNCHANGED my /\ Internal
     ELSE Again(t) /\ UNCHANGED my
Swing(t) == At(t, "swing") /\ casTail(t, new(t)) /\ Return(t, key(t))

deqEagerly(t) ==   \* mutant: does not look whether the tail has fallen behind
  /\ At(t, "deq")
  /\ IF my[t].next.ptr = Null THEN Return(t, 0) /\ UNCHANGED heap
     ELSE Set(t, [val |-> q.node[my[t].next.ptr].val]) /\ Local(t, "advance")
deq(t) ==
  /\ At(t, "deq")
  /\ IF my[t].head.ptr = my[t].tail.ptr
     THEN IF my[t].next.ptr = Null THEN Return(t, 0) /\ UNCHANGED heap ELSE Help(t)
     ELSE IF my[t].next.ptr = Null THEN Local(t, "crashed") /\ UNCHANGED my
     ELSE Set(t, [val |-> q.node[my[t].next.ptr].val]) /\ Local(t, "advance")
AdvanceBlindly(t) ==   \* mutant: a store instead of the compare-and-swap
  /\ At(t, "advance")
  /\ heap' = [q EXCEPT !.head = pointer(my[t].next.ptr, my[t].head.count + 1)]
  /\ Return(t, my[t].val)
Advance(t) ==
  /\ At(t, "advance")
  /\ IF q.head = my[t].head
     THEN /\ heap' = [q EXCEPT !.head = pointer(my[t].next.ptr, my[t].head.count + 1)]
          /\ Return(t, my[t].val)
     ELSE Again(t) /\ UNCHANGED my

Step(t) == \/ LoadHead(t) \/ LoadTail(t) \/ LoadNext(t) \/ SameCount(t) \/ SamePtr(t)
           \/ enq(t) \/ Swing(t) \/ deq(t) \/ Advance(t)

(* The values after the dummy node. *)
After[n \in DOMAIN q.node \cup {Null}] ==
  IF n = Null THEN <<>> ELSE <<q.node[n].val>> \o After[q.node[n].next.ptr]
show_queue == Tail(After[q.head.ptr])
=============================================================================
