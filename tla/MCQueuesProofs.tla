--------------------------- MODULE MCQueuesProofs ---------------------------
(* Theorems about the two queues, for every number of threads and calls.   *)
(* QueueInv: the tail of the first, CASLockFreeQueue.c, never falls behind  *)
(* its head, whatever other threads do between the two loads of a pointer   *)
(* and its count, and no thread follows NULL.  Explaining, further down:    *)
(* every call takes effect at one step between its start and its return.    *)
(* Queue2 and Explaining2: the same for LLSCLockFreeQueue.c.                *)
EXTENDS MCQueues, FiniteSetTheorems, SequenceTheorems, WellFoundedInduction, TLAPS

(* Linked lists, as functions from nodes to their successors. *)
ClosedIn(f, S) == \A n \in S : f[n] \in S \cup {Null}
Loopless(f) == \A n \in DOMAIN f : f[n] # Null =>
  \E S \in SUBSET DOMAIN f : ClosedIn(f, S) /\ f[n] \in S /\ n \notin S
Reaches(f, a, b) == \A S \in SUBSET DOMAIN f : a \in S /\ ClosedIn(f, S) => b \in S

next == [n \in DOMAIN heap.node |-> heap.node[n].next.ptr]

(* The nodes that an enq has created and not yet linked, and the others. *)
Linking(t) == call[t].op = "enq" /\ pc[t] # "swing"
Unlinked == {new(t) : t \in {u \in Threads : Linking(u)}}
Linked == DOMAIN heap.node \ Unlinked

(* Where a thread can be in its call, and where it has loaded what. *)
AfterNext == {"same_count", "same_ptr", "enq", "swing", "deq", "advance"}
AfterTail == {"next", "next.ptr"} \cup AfterNext
AfterHead == {"tail", "tail.ptr"} \cup AfterTail
EnqLabels == AfterHead \ {"deq", "advance"}
DeqLabels == ({"head", "head.ptr"} \cup AfterHead) \ {"enq", "swing"}

(* Calls in progress; every enq has a node of its own. *)
Call1(t) ==
  \/ call[t] = Nothing /\ pc[t] = "idle"
  \/ call[t].op = "enq" /\ pc[t] \in EnqLabels /\ new(t) \in DOMAIN heap.node \cap (1 .. made)
  \/ call[t].op = "deq" /\ pc[t] \in DeqLabels
OwnNodes == \A t, u \in Threads : call[t].op = "enq" /\ call[u].op = "enq" /\ new(t) = new(u) => t = u
CallsOK ==
  /\ made \in Nat
  /\ call = [t \in Threads |-> call[t]] /\ pc = [t \in Threads |-> pc[t]] /\ my = [t \in Threads |-> my[t]]
  /\ \A t \in Threads : Call1(t)
  /\ OwnNodes

(* The nodes; what is linked leads only to what is linked, never back, and  *)
(* from the head to the tail.                                               *)
NodesOK ==
  /\ heap = [head |-> heap.head, tail |-> heap.tail, node |-> heap.node]
  /\ DOMAIN heap.node \subseteq {Dummy} \cup (1 .. made)
  /\ \A n \in DOMAIN heap.node :
       /\ heap.node[n] = [val |-> heap.node[n].val, next |-> heap.node[n].next]
       /\ next[n] \in Linked \cup {Null}
  /\ \A n \in Unlinked : n \in DOMAIN heap.node /\ next[n] = Null
  /\ heap.head.ptr \in Linked /\ heap.head.count \in Nat
  /\ heap.tail.ptr \in Linked
List == NodesOK /\ Loopless(next) /\ Reaches(next, heap.head.ptr, heap.tail.ptr)

(* What the local variables of a call say about the queue. *)
SameHead(t) == my[t].head.count = heap.head.count
Apart(t) == my[t].head.ptr # my[t].tail.ptr
HeadSeen(t) == call[t].op = "deq" =>
  /\ pc[t] # "head" => my[t].head.count \in Nat /\ my[t].head.count <= heap.head.count
  /\ pc[t] \in AfterHead =>
       /\ "head" \in DOMAIN my[t] /\ my[t].head.ptr \in Linked
       /\ SameHead(t) => my[t].head.ptr = heap.head.ptr
TailSeen(t) == pc[t] \in AfterTail =>
  /\ "tail" \in DOMAIN my[t] /\ my[t].tail.ptr \in Linked
  /\ call[t].op = "deq" /\ SameHead(t) /\ Apart(t) => heap.tail.ptr # heap.head.ptr
NextSeen(t) == pc[t] \in AfterNext =>
  /\ "next" \in DOMAIN my[t]
  /\ my[t].next.ptr # Null => my[t].next.ptr = next[CAS!LoadedNode(t)]
  /\ call[t].op = "deq" /\ Apart(t) /\ (pc[t] = "same_count" => SameHead(t)) => my[t].next.ptr # Null
  /\ pc[t] = "swing" => next[my[t].tail.ptr] = new(t)
  /\ pc[t] = "advance" => Apart(t)
Seen(t) == HeadSeen(t) /\ TailSeen(t) /\ NextSeen(t)

QueueInv == CallsOK /\ List /\ \A t \in Threads : Seen(t)
Inv == which = "cas" => QueueInv

(* What no step of any thread undoes: a linked node stays linked and keeps  *)
(* its successor, head's count tells whether head has moved, and while it   *)
(* has not, the tail does not come back to it.                              *)
Grows ==
  /\ Linked \subseteq Linked'
  /\ \A n \in Linked : next[n] # Null => next'[n] = next[n]
  /\ heap'.head.count \in Nat
  /\ heap.head.count <= heap'.head.count
  /\ heap'.head.count = heap.head.count =>
       /\ heap'.head.ptr = heap.head.ptr
       /\ heap.tail.ptr # heap.head.ptr => heap'.tail.ptr # heap'.head.ptr
-----------------------------------------------------------------------------
(* Lemmas about lists.  A node that leads nowhere is added. *)
LEMMA AddedNode ==
  ASSUME NEW f, NEW m, m \notin DOMAIN f, m # Null, Null \notin DOMAIN f,
         \A n \in DOMAIN f : f[n] \in DOMAIN f \cup {Null},
         NEW g, g = [n \in DOMAIN f \cup {m} |-> IF n = m THEN Null ELSE f[n]]
  PROVE  /\ Loopless(f) => Loopless(g)
         /\ \A a, b \in DOMAIN f : Reaches(f, a, b) => Reaches(g, a, b)
<1>1. \A S \in SUBSET DOMAIN f : ClosedIn(g, S) <=> ClosedIn(f, S)
  BY DEF ClosedIn
<1>2. ASSUME Loopless(f) PROVE Loopless(g)
  <2>1. SUFFICES ASSUME NEW n \in DOMAIN g, g[n] # Null
                 PROVE  \E S \in SUBSET DOMAIN g : ClosedIn(g, S) /\ g[n] \in S /\ n \notin S
    BY DEF Loopless
  <2>2. n \in DOMAIN f /\ g[n] = f[n]
    BY <2>1
  <2>3. PICK S \in SUBSET DOMAIN f : ClosedIn(f, S) /\ f[n] \in S /\ n \notin S
    BY <1>2, <2>1, <2>2 DEF Loopless
  <2>. QED  BY <1>1, <2>2, <2>3
<1>3. ASSUME NEW a \in DOMAIN f, NEW b \in DOMAIN f, Reaches(f, a, b) PROVE Reaches(g, a, b)
  <2>1. SUFFICES ASSUME NEW S \in SUBSET DOMAIN g, a \in S, ClosedIn(g, S) PROVE b \in S
    BY DEF Reaches
  <2>2. ClosedIn(f, S \cap DOMAIN f) /\ a \in S \cap DOMAIN f
    BY <2>1 DEF ClosedIn
  <2>. QED  BY <1>3, <2>2 DEF Reaches
<1>. QED  BY <1>2, <1>3

(* A node that leads nowhere becomes the successor of another such node. *)
LEMMA LinkedNode ==
  ASSUME NEW f, NEW x \in DOMAIN f, NEW m \in DOMAIN f, x # m, f[x] = Null, f[m] = Null, m # Null,
         Null \notin DOMAIN f,
         NEW g, g = [n \in DOMAIN f |-> IF n = x THEN m ELSE f[n]]
  PROVE  /\ Loopless(f) => Loopless(g)
         /\ \A a, b \in DOMAIN f : Reaches(f, a, b) => Reaches(g, a, b)
<1>1. ASSUME Loopless(f) PROVE Loopless(g)
  <2>1. SUFFICES ASSUME NEW n \in DOMAIN g, g[n] # Null
                 PROVE  \E S \in SUBSET DOMAIN g : ClosedIn(g, S) /\ g[n] \in S /\ n \notin S
    BY DEF Loopless
  <2>2. CASE n = x
    <3>1. {m} \in SUBSET DOMAIN g /\ ClosedIn(g, {m}) /\ g[n] \in {m} /\ n \notin {m}
      BY <2>2 DEF ClosedIn
    <3>. QED  BY <3>1
  <2>3. CASE n # x
    <3>1. PICK S \in SUBSET DOMAIN f : ClosedIn(f, S) /\ f[n] \in S /\ n \notin S
      BY <1>1, <2>1, <2>3 DEF Loopless
    <3>2. /\ S \cup {m} \in SUBSET DOMAIN g /\ ClosedIn(g, S \cup {m})
          /\ g[n] \in S \cup {m} /\ n \notin S \cup {m}
      BY <2>1, <2>3, <3>1 DEF ClosedIn
    <3>. QED  BY <3>2
  <2>. QED  BY <2>2, <2>3
<1>2. ASSUME NEW a \in DOMAIN f, NEW b \in DOMAIN f, Reaches(f, a, b) PROVE Reaches(g, a, b)
  <2>1. \A S \in SUBSET DOMAIN f : ClosedIn(g, S) => ClosedIn(f, S)
    BY DEF ClosedIn
  <2>. QED  BY <1>2, <2>1 DEF Reaches
<1>. QED  BY <1>1, <1>2

(* What is reached leads to what is reached, and not back to where it began. *)
LEMMA OneFurther ==
  ASSUME NEW f, NEW a \in DOMAIN f, NEW b \in DOMAIN f, Reaches(f, a, b), f[b] # Null
  PROVE  Reaches(f, a, f[b]) /\ (Loopless(f) => f[b] # a)
<1>1. Reaches(f, a, f[b])
  BY DEF Reaches, ClosedIn
<1>2. ASSUME Loopless(f), f[b] = a PROVE FALSE
  <2>1. PICK S \in SUBSET DOMAIN f : ClosedIn(f, S) /\ f[b] \in S /\ b \notin S
    BY <1>2 DEF Loopless
  <2>. QED  BY <1>2, <2>1 DEF Reaches
<1>. QED  BY <1>1, <1>2

(* What is reached from a, other than a, is reached from its successor. *)
LEMMA OneLess ==
  ASSUME NEW f, NEW a \in DOMAIN f, NEW b \in DOMAIN f, Reaches(f, a, b), a # b
  PROVE  f[a] # Null /\ Reaches(f, f[a], b)
<1>1. ASSUME f[a] = Null PROVE FALSE
  <2>1. {a} \in SUBSET DOMAIN f /\ ClosedIn(f, {a})
    BY <1>1 DEF ClosedIn
  <2>. QED  BY <2>1 DEF Reaches
<1>2. Reaches(f, f[a], b)
  <2>1. SUFFICES ASSUME NEW S \in SUBSET DOMAIN f, f[a] \in S, ClosedIn(f, S) PROVE b \in S
    BY DEF Reaches
  <2>2. S \cup {a} \in SUBSET DOMAIN f /\ ClosedIn(f, S \cup {a})
    BY <2>1 DEF ClosedIn
  <2>3. b \in S \cup {a}
    BY <2>2 DEF Reaches
  <2>. QED  BY <2>3
<1>. QED  BY <1>1, <1>2
-----------------------------------------------------------------------------
(* What the steps do to the list.  Most of them leave it alone. *)
LEMMA SameList ==
  ASSUME List, heap' = heap, Unlinked' = Unlinked, 1 .. made \subseteq 1 .. made'
  PROVE  List' /\ Grows
<1>1. Linked' = Linked /\ next' = next
  BY DEF Linked, next
<1>2. NodesOK'
  BY <1>1 DEF List, NodesOK
<1>. QED  BY <1>1, <1>2 DEF List, Grows, NodesOK

(* An enq creates its node. *)
LEMMA NodeCreated ==
  ASSUME List, NEW m, m \notin DOMAIN heap.node, m # Null, NEW val,
         {m} \cup DOMAIN heap.node \subseteq {Dummy} \cup (1 .. made'),
         Unlinked' = Unlinked \cup {m},
         heap' = [heap EXCEPT !.node = CAS!WithNode(m, CAS!create_node(val))]
  PROVE  /\ List' /\ Grows
         /\ heap'.head = heap.head /\ Linked' = Linked /\ \A n \in DOMAIN next : next'[n] = next[n]
         /\ \A n \in DOMAIN heap.node : n \in DOMAIN heap'.node /\ heap'.node[n] = heap.node[n]
         /\ heap'.node[m].val = val
<1>1. /\ heap' = [head |-> heap'.head, tail |-> heap'.tail, node |-> heap'.node]
      /\ heap'.head = heap.head /\ heap'.tail = heap.tail
      /\ heap'.node = [n \in DOMAIN heap.node \cup {m} |->
                        IF n = m THEN [val |-> val, next |-> CAS!pointer(Null, 0)] ELSE heap.node[n]]
  BY DEF List, NodesOK, CAS!WithNode, CAS!create_node, CAS!q
<1>2. m \notin DOMAIN heap.node /\ Null \notin DOMAIN heap.node /\ m # Null
  BY NodeNamesAssumption DEF List, NodesOK
<1>3. /\ DOMAIN next = DOMAIN heap.node
      /\ next' = [n \in DOMAIN next \cup {m} |-> IF n = m THEN Null ELSE next[n]]
  <2>1. /\ DOMAIN heap'.node = DOMAIN heap.node \cup {m}
        /\ \A n \in DOMAIN heap.node : n # m => heap'.node[n] = heap.node[n]
        /\ heap'.node[m] = [val |-> val, next |-> CAS!pointer(Null, 0)]
    BY <1>1, <1>2
  <2>2. heap'.node[m].next.ptr = Null
    BY <2>1 DEF CAS!pointer
  <2>. QED  BY <2>1, <2>2, <1>2 DEF next
<1>4. Linked' = Linked
  BY <1>1, <1>2 DEF Linked
<1>5. NodesOK'
  <2>1. \A n \in Unlinked' : n \in DOMAIN heap'.node /\ next'[n] = Null
    BY <1>1, <1>3 DEF List, NodesOK
  <2>2. \A n \in DOMAIN heap'.node : next'[n] \in Linked' \cup {Null}
    BY <1>1, <1>3, <1>4 DEF List, NodesOK
  <2>3. \A n \in DOMAIN heap'.node : heap'.node[n] = [val |-> heap'.node[n].val, next |-> heap'.node[n].next]
    BY <1>1 DEF List, NodesOK
  <2>4. DOMAIN heap'.node \subseteq {Dummy} \cup (1 .. made')
    BY <1>1 DEF List, NodesOK
  <2>. QED  BY <1>1, <1>4, <2>1, <2>2, <2>3, <2>4 DEF List, NodesOK
<1>6. Loopless(next') /\ Reaches(next', heap'.head.ptr, heap'.tail.ptr)
  <2>1. \A n \in DOMAIN next : next[n] \in DOMAIN next \cup {Null}
    BY <1>3 DEF List, NodesOK, Linked
  <2>2. heap.head.ptr \in DOMAIN next /\ heap.tail.ptr \in DOMAIN next
    BY <1>3 DEF List, NodesOK, Linked
  <2>3. Loopless(next) /\ Reaches(next, heap.head.ptr, heap.tail.ptr)
    BY DEF List
  <2>4. Loopless(next') /\ \A a, b \in DOMAIN next : Reaches(next, a, b) => Reaches(next', a, b)
    <3>1. m \notin DOMAIN next /\ Null \notin DOMAIN next /\ m # Null
      BY <1>2, <1>3
    <3>2. next' = [n \in DOMAIN next \cup {m} |-> IF n = m THEN Null ELSE next[n]]
      BY <1>3
    <3>3. Loopless(next) => Loopless(next')
      BY <2>1, <3>1, <3>2, AddedNode, SMTT(20)
    <3>. QED  BY <2>1, <2>3, <3>1, <3>2, <3>3, AddedNode, SMTT(20)
  <2>. QED  BY <1>1, <2>2, <2>3, <2>4
<1>. QED  BY <1>1, <1>2, <1>3, <1>4, <1>5, <1>6 DEF List, Grows, NodesOK, Linked

(* The compare-and-swap that links it. *)
LEMMA NodeLinked ==
  ASSUME List, made' = made, NEW x \in Linked, NEW m \in Unlinked, next[x] = Null, NEW c,
         Unlinked' = Unlinked \ {m},
         heap' = [heap EXCEPT !.node[x].next = CAS!pointer(m, c)]
  PROVE  /\ List' /\ Grows /\ next'[x] = m
         /\ heap'.head = heap.head /\ Linked' = Linked \cup {m}
         /\ next' = [n \in DOMAIN next |-> IF n = x THEN m ELSE next[n]]
         /\ \A n \in DOMAIN heap.node : n \in DOMAIN heap'.node /\ heap'.node[n].val = heap.node[n].val
<1>1. /\ heap' = [head |-> heap'.head, tail |-> heap'.tail, node |-> heap'.node]
      /\ heap'.head = heap.head /\ heap'.tail = heap.tail
      /\ heap'.node = [heap.node EXCEPT ![x].next = CAS!pointer(m, c)]
  BY DEF List, NodesOK
<1>2. /\ x \in DOMAIN heap.node /\ m \in DOMAIN heap.node /\ x # m
      /\ Null \notin DOMAIN heap.node /\ next[m] = Null
  BY NodeNamesAssumption DEF List, NodesOK, Linked
<1>3. /\ DOMAIN heap'.node = DOMAIN heap.node
      /\ \A n \in DOMAIN heap.node : n # x => heap'.node[n] = heap.node[n]
      /\ heap'.node[x] = [val |-> heap.node[x].val, next |-> CAS!pointer(m, c)]
  BY <1>1, <1>2 DEF List, NodesOK
<1>4. /\ DOMAIN next = DOMAIN heap.node
      /\ next' = [n \in DOMAIN next |-> IF n = x THEN m ELSE next[n]]
  BY <1>2, <1>3 DEF next, CAS!pointer
<1>5. Linked' = Linked \cup {m}
  BY <1>2, <1>3 DEF Linked
<1>6. NodesOK'
  <2>1. \A n \in Unlinked' : n \in DOMAIN heap'.node /\ next'[n] = Null
    BY <1>2, <1>3, <1>4 DEF List, NodesOK, Linked
  <2>2. \A n \in DOMAIN heap'.node : next'[n] \in Linked' \cup {Null}
    BY <1>3, <1>4, <1>5 DEF List, NodesOK
  <2>3. \A n \in DOMAIN heap'.node : heap'.node[n] = [val |-> heap'.node[n].val, next |-> heap'.node[n].next]
    BY <1>3 DEF List, NodesOK
  <2>. QED  BY <1>1, <1>3, <1>5, <2>1, <2>2, <2>3 DEF List, NodesOK
<1>7. Loopless(next') /\ Reaches(next', heap'.head.ptr, heap'.tail.ptr)
  <2>1. heap.head.ptr \in DOMAIN next /\ heap.tail.ptr \in DOMAIN next
    BY <1>4 DEF List, NodesOK, Linked
  <2>2. /\ x \in DOMAIN next /\ m \in DOMAIN next /\ m # Null /\ Null \notin DOMAIN next
        /\ Loopless(next) /\ Reaches(next, heap.head.ptr, heap.tail.ptr)
    BY <1>2, <1>4 DEF List
  <2>3. /\ Loopless(next) => Loopless(next')
        /\ \A a, b \in DOMAIN next : Reaches(next, a, b) => Reaches(next', a, b)
    BY <1>2, <1>4, <2>2, LinkedNode, SMTT(20)
  <2>. QED  BY <1>1, <2>1, <2>2, <2>3
<1>. QED  BY <1>1, <1>2, <1>4, <1>5, <1>6, <1>7 DEF List, Grows, NodesOK, Linked

(* The compare-and-swap that moves the tail, or finds that it has moved. *)
LEMMA TailMoved ==
  ASSUME List, made' = made, Unlinked' = Unlinked, NEW t \in Threads, NEW n, n # Null,
         my[t].tail.ptr = heap.tail.ptr => next[heap.tail.ptr] = n,
         CAS!casTail(t, n)
  PROVE  List' /\ Grows
<1>1. CASE heap.tail # my[t].tail
  BY <1>1, SameList DEF CAS!casTail, CAS!q
<1>2. CASE heap.tail = my[t].tail
  <2>1. heap' = [heap EXCEPT !.tail = CAS!pointer(n, CAS!Loaded(t).count + 1)] /\ next[heap.tail.ptr] = n
    BY <1>2 DEF CAS!casTail, CAS!q
  <2>2. /\ heap' = [head |-> heap.head, tail |-> heap'.tail, node |-> heap.node]
        /\ heap'.head = heap.head /\ heap'.node = heap.node /\ heap'.tail.ptr = n
    BY <2>1 DEF List, NodesOK, CAS!pointer
  <2>3. Linked' = Linked /\ next' = next /\ DOMAIN next = DOMAIN heap.node
    BY <2>2 DEF Linked, next
  <2>4. heap.head.ptr \in DOMAIN next /\ heap.tail.ptr \in DOMAIN next
    BY <2>3 DEF List, NodesOK, Linked
  <2>5. n \in Linked
    BY <2>1, <2>3, <2>4 DEF List, NodesOK
  <2>6. Reaches(next, heap.head.ptr, n) /\ n # heap.head.ptr
    BY <2>1, <2>4, OneFurther DEF List
  <2>7. NodesOK'
    BY <2>2, <2>3, <2>5 DEF List, NodesOK
  <2>. QED  BY <2>2, <2>3, <2>6, <2>7 DEF List, Grows, NodesOK
<1>. QED  BY <1>1, <1>2

(* The compare-and-swap that moves the head: the node taken out is not the  *)
(* tail.                                                                    *)
LEMMA HeadMoved ==
  ASSUME List, made' = made, Unlinked' = Unlinked, heap.tail.ptr # heap.head.ptr,
         heap' = [heap EXCEPT !.head = CAS!pointer(next[heap.head.ptr], heap.head.count + 1)]
  PROVE  List' /\ Grows
<1>1. /\ heap' = [head |-> heap'.head, tail |-> heap.tail, node |-> heap.node]
      /\ heap'.tail = heap.tail /\ heap'.node = heap.node
      /\ heap'.head.ptr = next[heap.head.ptr] /\ heap'.head.count = heap.head.count + 1
  BY DEF List, NodesOK, CAS!pointer
<1>2. Linked' = Linked /\ next' = next /\ DOMAIN next = DOMAIN heap.node
  BY <1>1 DEF Linked, next
<1>3. heap.head.ptr \in DOMAIN next /\ heap.tail.ptr \in DOMAIN next
  BY <1>2 DEF List, NodesOK, Linked
<1>4. next[heap.head.ptr] # Null /\ Reaches(next, next[heap.head.ptr], heap.tail.ptr)
  BY <1>3, OneLess DEF List
<1>5. next[heap.head.ptr] \in Linked
  BY <1>2, <1>3, <1>4 DEF List, NodesOK
<1>6. NodesOK'
  BY <1>1, <1>2, <1>5 DEF List, NodesOK
<1>. QED  BY <1>1, <1>2, <1>4, <1>6 DEF List, Grows, NodesOK
-----------------------------------------------------------------------------
(* What a step of t does to the other calls: nothing. *)
Alone(t) ==
  /\ call' = [u \in Threads |-> call'[u]] /\ pc' = [u \in Threads |-> pc'[u]] /\ my' = [u \in Threads |-> my'[u]]
  /\ \A u \in Threads \ {t} : call'[u] = call[u] /\ pc'[u] = pc[u] /\ my'[u] = my[u]

LEMMA OthersSee ==
  ASSUME List, Grows, NEW u \in Threads, Call1(u), Seen(u),
         call'[u] = call[u], pc'[u] = pc[u], my'[u] = my[u]
  PROVE  Seen(u)'
<1>1. HeadSeen(u)'
  <2>1. pc[u] \in AfterHead => pc[u] # "head"
    BY DEF AfterHead, AfterTail, AfterNext
  <2>2. heap.head.count \in Nat
    BY DEF List, NodesOK
  <2>. QED  BY <2>1, <2>2 DEF Seen, HeadSeen, SameHead, Grows
<1>2. TailSeen(u)'
  <2>1. ASSUME pc[u] \in AfterTail, call[u].op = "deq"
        PROVE  /\ my[u].head.count <= heap.head.count /\ my[u].head.count \in Nat
               /\ heap.head.count \in Nat
    BY <2>1 DEF Seen, HeadSeen, AfterTail, AfterNext, List, NodesOK
  <2>. QED  BY <2>1 DEF Seen, TailSeen, SameHead, Apart, Grows
<1>3. NextSeen(u)'
  <2>1. ASSUME pc[u] \in AfterNext
        PROVE  /\ call[u].op = "deq" => /\ my[u].head.count <= heap.head.count /\ my[u].head.count \in Nat
                                       /\ my[u].head.ptr \in Linked
               /\ my[u].tail.ptr \in Linked
               /\ call[u].op \in {"enq", "deq"}
               /\ pc[u] = "swing" => call[u].op = "enq" /\ new(u) # Null
    BY <2>1, NodeNamesAssumption
       DEF Call1, Nothing, Seen, HeadSeen, TailSeen, AfterTail, AfterNext, AfterHead, DeqLabels, EnqLabels
  <2>2. heap.head.count \in Nat
    BY DEF List, NodesOK
  <2>3. CAS!LoadedNode(u)' = CAS!LoadedNode(u)
    BY DEF CAS!LoadedNode
  <2>4. ASSUME pc[u] \in AfterNext PROVE CAS!LoadedNode(u) \in Linked
    BY <2>1, <2>4 DEF CAS!LoadedNode
  <2>. QED  BY <2>1, <2>2, <2>3, <2>4 DEF Seen, NextSeen, SameHead, Apart, Grows, new
<1>. QED  BY <1>1, <1>2, <1>3 DEF Seen

(* So a step keeps the invariant if it keeps what concerns the list and t. *)
LEMMA EnoughForOne ==
  ASSUME QueueInv, NEW t \in Threads, Alone(t), List', Grows, made' \in Nat, made <= made',
         DOMAIN heap.node \subseteq DOMAIN heap'.node,
         call'[t] = call[t] \/ call'[t].op # "enq" \/ new(t)' \notin 1 .. made,
         Call1(t)', Seen(t)'
  PROVE  QueueInv' /\ Grows
<1>1. \A u \in Threads \ {t} : Call1(u)'
  BY DEF QueueInv, CallsOK, Call1, Alone, new
<1>2. \A u \in Threads \ {t} : Seen(u)'
  BY OthersSee DEF QueueInv, CallsOK, Alone
<1>3. OwnNodes'
  <2>1. \A u \in Threads : call[u].op = "enq" => new(u) \in 1 .. made
    BY DEF QueueInv, CallsOK, Call1, Nothing
  <2>. QED  BY <2>1 DEF QueueInv, CallsOK, OwnNodes, Alone, new
<1>. QED  BY <1>1, <1>2, <1>3 DEF QueueInv, CallsOK, Alone

LEMMA SameUnlinked ==
  ASSUME NEW t \in Threads, Alone(t), Linking(t)' <=> Linking(t), Linking(t) => call'[t] = call[t]
  PROVE  Unlinked' = Unlinked
BY DEF Unlinked, Linking, Alone, new

(* A step that only changes t's label and local variables. *)
LEMMA LocalStep ==
  ASSUME QueueInv, NEW t \in Threads, Alone(t), UNCHANGED heap, UNCHANGED callVars,
         pc[t] # "swing", pc'[t] # "swing", Call1(t)', Seen(t)'
  PROVE  QueueInv' /\ Grows
<1>1. call' = call /\ made' = made
  BY DEF callVars
<1>2. Unlinked' = Unlinked
  BY <1>1, SameUnlinked DEF Linking
<1>3. List' /\ Grows
  BY <1>1, <1>2, SameList DEF QueueInv
<1>. QED  BY <1>1, <1>3, EnoughForOne DEF QueueInv, CallsOK

LEMMA SameQueue ==
  ASSUME NEW t \in Threads, Alone(t), UNCHANGED heap, UNCHANGED callVars, pc[t] # "swing", pc'[t] # "swing"
  PROVE  call' = call /\ made' = made /\ heap' = heap /\ Linked' = Linked /\ next' = next
BY SameUnlinked DEF callVars, Linking, Linked, next
-----------------------------------------------------------------------------
(* The actions, one by one. *)
LEMMA SetLocal ==
  ASSUME NEW t \in Threads, CallsOK, NEW v, CAS!Set(t, v), NEW l, CAS!Local(t, l)
  PROVE  /\ Alone(t) /\ pc'[t] = l /\ UNCHANGED heap /\ UNCHANGED callVars
         /\ DOMAIN my'[t] = DOMAIN my[t] \cup DOMAIN v
         /\ \A x \in DOMAIN v : my'[t][x] = v[x]
         /\ \A x \in DOMAIN my[t] \ DOMAIN v : my'[t][x] = my[t][x]
BY DEF CallsOK, CAS!Set, CAS!Local, CAS!Goto, CAS!Internal, CAS!callVars, callVars, Alone

LEMMA LoadHeadStep == ASSUME QueueInv, NEW t \in Threads, CAS!LoadHead(t) PROVE QueueInv' /\ Grows
<1>. USE DEF QueueInv
<1>1. pc[t] \in {"head", "head.ptr"} /\ call[t].op = "deq"
  BY DEF CAS!LoadHead, CAS!Load, CAS!At, CallsOK, Call1, EnqLabels, AfterHead, AfterTail, AfterNext
<1>2. heap.head.count \in Nat /\ heap.head.ptr \in Linked
  BY DEF List, NodesOK
<1>3. ASSUME pc[t] = "head", CAS!Set(t, [x \in {"head"} |-> CAS!pointer(Null, heap.head.count)]),
             CAS!Local(t, "head.ptr")
      PROVE  QueueInv' /\ Grows
  <2>1. Alone(t) /\ pc'[t] = "head.ptr" /\ UNCHANGED heap /\ UNCHANGED callVars /\ my'[t].head.count = heap.head.count
    BY <1>3, SetLocal DEF CAS!pointer
  <2>2. call' = call /\ heap' = heap
    BY <1>3, <2>1, SameQueue
  <2>3. Call1(t)'
    BY <1>1, <2>1, <2>2 DEF Call1, DeqLabels
  <2>4. Seen(t)'
    BY <1>1, <1>2, <2>1, <2>2 DEF Seen, HeadSeen, TailSeen, NextSeen, AfterHead, AfterTail, AfterNext
  <2>. QED  BY <1>3, <2>1, <2>3, <2>4, LocalStep
<1>4. ASSUME pc[t] = "head.ptr",
             CAS!Set(t, [x \in {"head"} |-> CAS!pointer(heap.head.ptr, my[t]["head"].count)]),
             CAS!Local(t, "tail")
      PROVE  QueueInv' /\ Grows
  <2>1. /\ Alone(t) /\ pc'[t] = "tail" /\ UNCHANGED heap /\ UNCHANGED callVars
        /\ "head" \in DOMAIN my'[t] /\ my'[t].head.count = my[t].head.count /\ my'[t].head.ptr = heap.head.ptr
    BY <1>4, SetLocal DEF CAS!pointer
  <2>2. call' = call /\ heap' = heap /\ Linked' = Linked
    BY <1>4, <2>1, SameQueue
  <2>3. Call1(t)'
    BY <1>1, <2>1, <2>2 DEF Call1, DeqLabels, AfterHead
  <2>4. Seen(t)'
    BY <1>1, <1>2, <1>4, <2>1, <2>2 DEF Seen, HeadSeen, TailSeen, NextSeen, SameHead, AfterHead, AfterTail, AfterNext
  <2>. QED  BY <1>4, <2>1, <2>3, <2>4, LocalStep
<1>. QED  BY <1>3, <1>4 DEF CAS!LoadHead, CAS!Load, CAS!At, CAS!q

LEMMA LoadTailStep == ASSUME QueueInv, NEW t \in Threads, CAS!LoadTail(t) PROVE QueueInv' /\ Grows
<1>. USE DEF QueueInv
<1>1. pc[t] \in {"tail", "tail.ptr"} /\ Call1(t) /\ call[t].op \in {"enq", "deq"}
  BY DEF CAS!LoadTail, CAS!Load, CAS!At, CallsOK, Call1
<1>2. heap.tail.ptr \in Linked /\ Seen(t)
  BY DEF List, NodesOK
<1>3. ASSUME pc[t] = "tail", CAS!Set(t, [x \in {"tail"} |-> CAS!pointer(Null, heap.tail.count)]),
             CAS!Local(t, "tail.ptr")
      PROVE  QueueInv' /\ Grows
  <2>1. /\ Alone(t) /\ pc'[t] = "tail.ptr" /\ UNCHANGED heap /\ UNCHANGED callVars
        /\ "head" \in DOMAIN my[t] => "head" \in DOMAIN my'[t] /\ my'[t].head = my[t].head
    BY <1>3, SetLocal
  <2>2. call' = call /\ heap' = heap /\ made' = made /\ Linked' = Linked
    BY <1>3, <2>1, SameQueue
  <2>3. Call1(t)'
    BY <1>1, <1>3, <2>1, <2>2 DEF Call1, DeqLabels, EnqLabels, AfterHead, Nothing, new
  <2>4. Seen(t)'
    BY <1>1, <1>2, <1>3, <2>1, <2>2 DEF Seen, HeadSeen, TailSeen, NextSeen, SameHead, AfterHead, AfterTail, AfterNext
  <2>. QED  BY <1>3, <2>1, <2>3, <2>4, LocalStep
<1>4. ASSUME pc[t] = "tail.ptr",
             CAS!Set(t, [x \in {"tail"} |-> CAS!pointer(heap.tail.ptr, my[t]["tail"].count)]),
             CAS!Local(t, "next")
      PROVE  QueueInv' /\ Grows
  <2>1. /\ Alone(t) /\ pc'[t] = "next" /\ UNCHANGED heap /\ UNCHANGED callVars
        /\ "tail" \in DOMAIN my'[t] /\ my'[t].tail.ptr = heap.tail.ptr
        /\ "head" \in DOMAIN my[t] => "head" \in DOMAIN my'[t] /\ my'[t].head = my[t].head
    BY <1>4, SetLocal DEF CAS!pointer
  <2>2. call' = call /\ heap' = heap /\ made' = made /\ Linked' = Linked
    BY <1>4, <2>1, SameQueue
  <2>3. Call1(t)'
    BY <1>1, <1>4, <2>1, <2>2 DEF Call1, DeqLabels, EnqLabels, AfterHead, AfterTail, Nothing, new
  <2>4. Seen(t)'
    BY <1>1, <1>2, <1>4, <2>1, <2>2
       DEF Seen, HeadSeen, TailSeen, NextSeen, SameHead, Apart, AfterHead, AfterTail, AfterNext
  <2>. QED  BY <1>4, <2>1, <2>3, <2>4, LocalStep
<1>. QED  BY <1>3, <1>4 DEF CAS!LoadTail, CAS!Load, CAS!At, CAS!q

LEMMA LoadNextStep == ASSUME QueueInv, NEW t \in Threads, CAS!LoadNext(t) PROVE QueueInv' /\ Grows
<1>. USE DEF QueueInv
<1>. DEFINE node == CAS!LoadedNode(t)
<1>1. pc[t] \in {"next", "next.ptr"} /\ Call1(t) /\ call[t].op \in {"enq", "deq"}
  BY DEF CAS!LoadNext, CAS!Load, CAS!At, CallsOK, Call1
<1>2. /\ Seen(t)
      /\ "tail" \in DOMAIN my[t] /\ my[t].tail.ptr \in Linked
      /\ call[t].op = "deq" => "head" \in DOMAIN my[t] /\ my[t].head.ptr \in Linked
  BY <1>1 DEF Seen, HeadSeen, TailSeen, AfterHead, AfterTail
<1>3. node \in DOMAIN heap.node /\ heap.node[node].next.ptr = next[node]
  BY <1>1, <1>2 DEF CAS!LoadedNode, next, Linked
<1>. HIDE DEF node
<1>4. ASSUME pc[t] = "next", CAS!Set(t, [x \in {"next"} |-> CAS!pointer(Null, heap.node[node].next.count)]),
             CAS!Local(t, "next.ptr")
      PROVE  QueueInv' /\ Grows
  <2>1. /\ Alone(t) /\ pc'[t] = "next.ptr" /\ UNCHANGED heap /\ UNCHANGED callVars
        /\ "tail" \in DOMAIN my'[t] /\ my'[t].tail = my[t].tail
        /\ "head" \in DOMAIN my[t] => "head" \in DOMAIN my'[t] /\ my'[t].head = my[t].head
    BY <1>2, <1>4, SetLocal
  <2>2. call' = call /\ heap' = heap /\ made' = made /\ Linked' = Linked
    BY <1>4, <2>1, SameQueue
  <2>3. Call1(t)'
    BY <1>1, <1>4, <2>1, <2>2 DEF Call1, DeqLabels, EnqLabels, AfterHead, AfterTail, Nothing, new
  <2>4. Seen(t)'
    BY <1>1, <1>2, <1>4, <2>1, <2>2
       DEF Seen, HeadSeen, TailSeen, NextSeen, SameHead, Apart, AfterHead, AfterTail, AfterNext
  <2>. QED  BY <1>4, <2>1, <2>3, <2>4, LocalStep
<1>5. ASSUME pc[t] = "next.ptr",
             CAS!Set(t, [x \in {"next"} |-> CAS!pointer(heap.node[node].next.ptr, my[t]["next"].count)]),
             CAS!Local(t, "same_count")
      PROVE  QueueInv' /\ Grows
  <2>1. /\ Alone(t) /\ pc'[t] = "same_count" /\ UNCHANGED heap /\ UNCHANGED callVars
        /\ "next" \in DOMAIN my'[t] /\ my'[t].next.ptr = next[node]
        /\ "tail" \in DOMAIN my'[t] /\ my'[t].tail = my[t].tail
        /\ "head" \in DOMAIN my[t] => "head" \in DOMAIN my'[t] /\ my'[t].head = my[t].head
    BY <1>2, <1>3, <1>5, SetLocal DEF CAS!pointer
  <2>2. call' = call /\ heap' = heap /\ made' = made /\ Linked' = Linked /\ next' = next
    BY <1>5, <2>1, SameQueue
  <2>3. Call1(t)'
    BY <1>1, <1>5, <2>1, <2>2 DEF Call1, DeqLabels, EnqLabels, AfterHead, AfterTail, AfterNext, Nothing, new
  <2>4. HeadSeen(t)' /\ TailSeen(t)'
    BY <1>1, <1>2, <1>5, <2>1, <2>2
       DEF Seen, HeadSeen, TailSeen, SameHead, Apart, AfterHead, AfterTail, AfterNext
  <2>5. CAS!LoadedNode(t)' = node
    BY <1>1, <1>2, <2>1, <2>2 DEF node, CAS!LoadedNode
  <2>6. ASSUME call[t].op = "deq", SameHead(t), Apart(t)
        PROVE  next[node] # Null
    <3>1. heap.tail.ptr # heap.head.ptr /\ node = heap.head.ptr
      BY <1>1, <1>2, <1>5, <2>6
         DEF node, CAS!LoadedNode, Seen, HeadSeen, TailSeen, AfterHead, AfterTail, AfterNext
    <3>2. heap.head.ptr \in DOMAIN next /\ heap.tail.ptr \in DOMAIN next
      BY DEF List, NodesOK, Linked, next
    <3>. QED  BY <3>1, <3>2, OneLess DEF List
  <2>7. NextSeen(t)'
    BY <1>1, <1>2, <2>1, <2>2, <2>5, <2>6 DEF NextSeen, SameHead, Apart
  <2>. QED  BY <1>5, <2>1, <2>3, <2>4, <2>7, LocalStep DEF Seen
<1>. QED  BY <1>4, <1>5 DEF CAS!LoadNext, CAS!Load, CAS!At, CAS!q, node

LEMMA SetNothing ==
  ASSUME NEW t \in Threads, CallsOK, my' = my, NEW l, CAS!Local(t, l)
  PROVE  /\ Alone(t) /\ pc'[t] = l /\ my'[t] = my[t] /\ UNCHANGED heap /\ UNCHANGED callVars
BY DEF CallsOK, CAS!Local, CAS!Goto, CAS!Internal, CAS!callVars, callVars, Alone

(* Where a call begins, it has seen nothing yet. *)
First(t) == IF call[t].op = "enq" THEN "tail" ELSE "head"
LEMMA Beginning ==
  ASSUME NEW t \in Threads, Call1(t), call[t].op \in {"enq", "deq"}, call' = call, made' = made,
         DOMAIN heap'.node = DOMAIN heap.node, pc'[t] = First(t)
  PROVE  Call1(t)' /\ Seen(t)' /\ pc'[t] # "swing"
<1>1. Call1(t)' /\ pc'[t] # "swing"
  BY DEF First, Call1, EnqLabels, DeqLabels, AfterHead, Nothing, new
<1>2. Seen(t)'
  BY DEF First, Seen, HeadSeen, TailSeen, NextSeen, AfterHead, AfterTail, AfterNext
<1>. QED  BY <1>1, <1>2

LEMMA AgainStep ==
  ASSUME QueueInv, NEW t \in Threads, CAS!Again(t), my' = my, pc[t] # "swing", call[t].op \in {"enq", "deq"}
  PROVE  QueueInv' /\ Grows
<1>1. Alone(t) /\ pc'[t] = First(t) /\ UNCHANGED heap /\ UNCHANGED callVars
  BY SetNothing DEF CAS!Again, QueueInv, First
<1>2. Call1(t)' /\ Seen(t)' /\ pc'[t] # "swing"
  BY <1>1, Beginning DEF callVars, QueueInv, CallsOK
<1>. QED  BY <1>1, <1>2, LocalStep

LEMMA SameCountStep == ASSUME QueueInv, NEW t \in Threads, CAS!SameCount(t) PROVE QueueInv' /\ Grows
<1>. USE DEF QueueInv
<1>1. pc[t] = "same_count" /\ my' = my /\ Call1(t) /\ call[t].op \in {"enq", "deq"} /\ Seen(t)
  BY DEF CAS!SameCount, CAS!At, CallsOK, Call1
<1>2. CASE CAS!Loaded(t).count = CAS!End(t).count
  <2>1. Alone(t) /\ pc'[t] = "same_ptr" /\ my'[t] = my[t] /\ UNCHANGED heap /\ UNCHANGED callVars
    BY <1>1, <1>2, SetNothing DEF CAS!SameCount
  <2>2. call' = call /\ heap' = heap /\ made' = made /\ Linked' = Linked /\ next' = next
    BY <1>1, <2>1, SameQueue
  <2>3. Call1(t)'
    BY <1>1, <2>1, <2>2 DEF Call1, DeqLabels, EnqLabels, AfterHead, AfterTail, AfterNext, Nothing, new
  <2>4. HeadSeen(t)' /\ TailSeen(t)'
    BY <1>1, <2>1, <2>2 DEF Seen, HeadSeen, TailSeen, SameHead, Apart, AfterHead, AfterTail, AfterNext
  <2>5. CAS!LoadedNode(t)' = CAS!LoadedNode(t)
    BY <2>1, <2>2 DEF CAS!LoadedNode
  <2>6. call[t].op = "deq" => SameHead(t)
    BY <1>2 DEF CAS!Loaded, CAS!End, CAS!q, SameHead
  <2>7. NextSeen(t)'
    BY <1>1, <2>1, <2>2, <2>5, <2>6 DEF Seen, NextSeen, SameHead, Apart, AfterNext
  <2>. QED  BY <1>1, <2>1, <2>3, <2>4, <2>7, LocalStep DEF Seen
<1>. QED  BY <1>1, <1>2, AgainStep DEF CAS!SameCount

LEMMA SamePtrStep == ASSUME QueueInv, NEW t \in Threads, CAS!SamePtr(t) PROVE QueueInv' /\ Grows
<1>. USE DEF QueueInv
<1>1. pc[t] = "same_ptr" /\ my' = my /\ Call1(t) /\ call[t].op \in {"enq", "deq"} /\ Seen(t)
  BY DEF CAS!SamePtr, CAS!At, CallsOK, Call1
<1>2. CASE CAS!Loaded(t).ptr = CAS!End(t).ptr
  <2>1. Alone(t) /\ pc'[t] = call[t].op /\ my'[t] = my[t] /\ UNCHANGED heap /\ UNCHANGED callVars
    BY <1>1, <1>2, SetNothing DEF CAS!SamePtr
  <2>2. call' = call /\ heap' = heap /\ made' = made /\ Linked' = Linked /\ next' = next
    BY <1>1, <2>1, SameQueue
  <2>3. Call1(t)'
    BY <1>1, <2>1, <2>2 DEF Call1, DeqLabels, EnqLabels, AfterHead, AfterTail, AfterNext, Nothing, new
  <2>4. HeadSeen(t)' /\ TailSeen(t)'
    BY <1>1, <2>1, <2>2 DEF Seen, HeadSeen, TailSeen, SameHead, Apart, AfterHead, AfterTail, AfterNext
  <2>5. CAS!LoadedNode(t)' = CAS!LoadedNode(t)
    BY <2>1, <2>2 DEF CAS!LoadedNode
  <2>6. NextSeen(t)'
    BY <1>1, <2>1, <2>2, <2>5 DEF Seen, NextSeen, SameHead, Apart, AfterNext
  <2>. QED  BY <1>1, <2>1, <2>3, <2>4, <2>6, LocalStep DEF Seen
<1>. QED  BY <1>1, <1>2, AgainStep DEF CAS!SamePtr

(* The tail is helped along: my.next is, or was, the successor of the node  *)
(* loaded as the tail.                                                      *)
LEMMA HelpStep ==
  ASSUME QueueInv, NEW t \in Threads, CAS!Help(t), call[t].op \in {"enq", "deq"}, pc[t] # "swing",
         my[t].next.ptr # Null, next[my[t].tail.ptr] = my[t].next.ptr
  PROVE  QueueInv' /\ Grows
<1>. USE DEF QueueInv
<1>1. Alone(t) /\ pc'[t] = First(t) /\ call' = call /\ made' = made
  BY DEF CAS!Help, CAS!Goto, CAS!Internal, CAS!callVars, CallsOK, Alone, First
<1>2. Unlinked' = Unlinked
  BY <1>1, SameUnlinked DEF Linking, First
<1>3. List' /\ Grows /\ DOMAIN heap'.node = DOMAIN heap.node
  <2>1. List' /\ Grows
    BY <1>1, <1>2, TailMoved DEF CAS!Help
  <2>2. heap'.node = heap.node
    BY DEF CAS!Help, CAS!casTail, CAS!q, List, NodesOK
  <2>. QED  BY <2>1, <2>2
<1>4. Call1(t)' /\ Seen(t)'
  BY <1>1, <1>3, Beginning DEF CallsOK
<1>. QED  BY <1>1, <1>3, <1>4, EnoughForOne DEF CallsOK

LEMMA Returned ==
  ASSUME NEW t \in Threads, CallsOK, NEW ret, CAS!Return(t, ret)
  PROVE  /\ Alone(t) /\ made' = made /\ call'[t] = Nothing /\ Call1(t)' /\ Seen(t)'
         /\ ~Linking(t) => Unlinked' = Unlinked
<1>1. Alone(t) /\ made' = made /\ call'[t] = Nothing /\ pc'[t] = "idle"
  BY DEF CAS!Return, CAS!Answer, CAS!Goto, CAS!Nothing, Nothing, CallsOK, Alone
<1>2. Call1(t)' /\ Seen(t)'
  BY <1>1 DEF Call1, Nothing, Seen, HeadSeen, TailSeen, NextSeen, AfterHead, AfterTail, AfterNext
<1>. QED  BY <1>1, <1>2, SameUnlinked DEF Linking, Nothing

LEMMA ReturnStep ==
  ASSUME QueueInv, NEW t \in Threads, NEW ret, CAS!Return(t, ret), List', Grows,
         DOMAIN heap'.node = DOMAIN heap.node
  PROVE  QueueInv' /\ Grows
BY Returned, EnoughForOne DEF QueueInv, CallsOK, Nothing

LEMMA EnqStep == ASSUME QueueInv, NEW t \in Threads, CAS!enq(t) PROVE QueueInv' /\ Grows
<1>. USE DEF QueueInv
<1>. DEFINE n == my[t].tail.ptr
<1>1. /\ pc[t] = "enq" /\ Call1(t) /\ call[t].op = "enq" /\ Seen(t) /\ my' = my
      /\ n \in Linked /\ n \in DOMAIN heap.node /\ CAS!LoadedNode(t) = n
  BY DEF CAS!enq, CAS!At, CAS!Help, CallsOK, Call1, DeqLabels, AfterHead, AfterTail, AfterNext, Nothing, Seen, TailSeen,
         CAS!LoadedNode, Linked
<1>2. CASE my[t].next.ptr # Null
  <2>1. next[n] = my[t].next.ptr
    BY <1>1, <1>2 DEF Seen, NextSeen, AfterNext
  <2>. QED  BY <1>1, <1>2, <2>1, HelpStep DEF CAS!enq
<1>3. CASE my[t].next.ptr = Null /\ heap.node[n].next = my[t].next
  <2>1. /\ heap' = [heap EXCEPT !.node[n].next = CAS!pointer(new(t), my[t].next.count + 1)]
        /\ Alone(t) /\ pc'[t] = "swing" /\ my'[t] = my[t] /\ call' = call /\ made' = made
    BY <1>1, <1>3 DEF CAS!enq, CAS!Goto, CAS!Internal, CAS!callVars, CAS!q, CAS!new, new, CallsOK, Alone
  <2>2. next[n] = Null
    BY <1>1, <1>3 DEF next
  <2>3. new(t) \in Unlinked /\ Unlinked' = Unlinked \ {new(t)}
    BY <1>1, <2>1 DEF Unlinked, Linking, new, Alone, CallsOK, OwnNodes
  <2>4. List' /\ Grows /\ next'[n] = new(t)
    BY <1>1, <2>1, <2>2, <2>3, NodeLinked
  <2>5. DOMAIN heap'.node = DOMAIN heap.node
    BY <2>1 DEF List, NodesOK
  <2>6. Call1(t)'
    BY <1>1, <2>1, <2>5 DEF Call1, EnqLabels, AfterHead, AfterTail, AfterNext, Nothing, new
  <2>7. Linked \subseteq Linked'
    BY <2>4 DEF Grows
  <2>8. Seen(t)'
    BY <1>1, <1>3, <2>1, <2>4, <2>7 DEF Seen, HeadSeen, TailSeen, NextSeen, AfterTail, AfterNext, new
  <2>. QED  BY <2>1, <2>4, <2>5, <2>6, <2>8, EnoughForOne DEF CallsOK
<1>4. CASE my[t].next.ptr = Null /\ heap.node[n].next # my[t].next
  BY <1>1, <1>4, AgainStep DEF CAS!enq, CAS!q
<1>. QED  BY <1>2, <1>3, <1>4

LEMMA SwingStep == ASSUME QueueInv, NEW t \in Threads, CAS!Swing(t) PROVE QueueInv' /\ Grows
<1>. USE DEF QueueInv
<1>1. /\ pc[t] = "swing" /\ Call1(t) /\ call[t].op = "enq" /\ Seen(t) /\ ~Linking(t)
      /\ CAS!casTail(t, new(t)) /\ CAS!Return(t, CAS!key(t))
  BY DEF CAS!Swing, CAS!At, CallsOK, Call1, DeqLabels, AfterHead, AfterTail, AfterNext, Nothing, Linking, CAS!new, new
<1>2. new(t) # Null /\ next[my[t].tail.ptr] = new(t)
  BY <1>1, NodeNamesAssumption DEF Call1, Nothing, Seen, NextSeen, AfterNext, CallsOK
<1>3. made' = made /\ Unlinked' = Unlinked
  BY <1>1, Returned
<1>4. List' /\ Grows
  BY <1>1, <1>2, <1>3, TailMoved
<1>5. heap'.node = heap.node
  BY <1>1 DEF CAS!casTail, CAS!q, List, NodesOK
<1>. QED  BY <1>1, <1>4, <1>5, ReturnStep

LEMMA DeqStep == ASSUME QueueInv, NEW t \in Threads, CAS!deq(t) PROVE QueueInv' /\ Grows
<1>. USE DEF QueueInv
<1>1. /\ pc[t] = "deq" /\ Call1(t) /\ call[t].op = "deq" /\ Seen(t) /\ ~Linking(t)
      /\ CAS!LoadedNode(t) = my[t].head.ptr /\ "head" \in DOMAIN my[t]
      /\ "tail" \in DOMAIN my[t] /\ "next" \in DOMAIN my[t]
  BY DEF CAS!deq, CAS!At, CallsOK, Call1, EnqLabels, AfterHead, AfterTail, AfterNext, Nothing,
         Seen, HeadSeen, TailSeen, NextSeen, CAS!LoadedNode, Linking
<1>2. CASE my[t].head.ptr = my[t].tail.ptr /\ my[t].next.ptr = Null
  <2>1. CAS!Return(t, 0) /\ heap' = heap
    BY <1>2 DEF CAS!deq
  <2>2. List' /\ Grows
    BY <1>1, <2>1, Returned, SameList
  <2>. QED  BY <2>1, <2>2, ReturnStep
<1>3. CASE my[t].head.ptr = my[t].tail.ptr /\ my[t].next.ptr # Null
  <2>1. next[my[t].tail.ptr] = my[t].next.ptr
    BY <1>1, <1>3 DEF Seen, NextSeen, AfterNext
  <2>. QED  BY <1>1, <1>3, <2>1, HelpStep DEF CAS!deq
<1>4. CASE my[t].head.ptr # my[t].tail.ptr
  <2>1. my[t].next.ptr # Null
    BY <1>1, <1>4 DEF Seen, NextSeen, AfterNext, Apart
  <2>2. CAS!Set(t, [val |-> heap.node[my[t].next.ptr].val]) /\ CAS!Local(t, "advance")
    BY <1>4, <2>1 DEF CAS!deq, CAS!q
  <2>3. /\ Alone(t) /\ pc'[t] = "advance" /\ UNCHANGED heap /\ UNCHANGED callVars
        /\ "head" \in DOMAIN my'[t] /\ "tail" \in DOMAIN my'[t] /\ "next" \in DOMAIN my'[t]
        /\ my'[t].head = my[t].head /\ my'[t].tail = my[t].tail /\ my'[t].next = my[t].next
    BY <1>1, <2>2, SetLocal
  <2>4. call' = call /\ heap' = heap /\ made' = made /\ Linked' = Linked /\ next' = next
    BY <1>1, <2>3, SameQueue
  <2>5. Call1(t)'
    BY <1>1, <2>3, <2>4 DEF Call1, DeqLabels, AfterHead, AfterTail, AfterNext
  <2>6. HeadSeen(t)' /\ TailSeen(t)'
    BY <1>1, <2>3, <2>4 DEF Seen, HeadSeen, TailSeen, SameHead, Apart, AfterHead, AfterTail, AfterNext
  <2>7. CAS!LoadedNode(t)' = CAS!LoadedNode(t)
    BY <2>3, <2>4 DEF CAS!LoadedNode
  <2>8. NextSeen(t)'
    BY <1>1, <1>4, <2>1, <2>3, <2>4, <2>7 DEF Seen, NextSeen, Apart, AfterNext
  <2>. QED  BY <1>1, <2>3, <2>5, <2>6, <2>8, LocalStep DEF Seen
<1>. QED  BY <1>2, <1>3, <1>4

LEMMA AdvanceStep == ASSUME QueueInv, NEW t \in Threads, CAS!Advance(t) PROVE QueueInv' /\ Grows
<1>. USE DEF QueueInv
<1>1. /\ pc[t] = "advance" /\ Call1(t) /\ call[t].op = "deq" /\ Seen(t) /\ ~Linking(t)
      /\ CAS!LoadedNode(t) = my[t].head.ptr
  BY DEF CAS!Advance, CAS!At, CallsOK, Call1, EnqLabels, AfterHead, AfterTail, AfterNext, Nothing,
         CAS!LoadedNode, Linking
<1>2. CASE heap.head = my[t].head
  <2>1. /\ heap' = [heap EXCEPT !.head = CAS!pointer(my[t].next.ptr, my[t].head.count + 1)]
        /\ CAS!Return(t, my[t].val)
    BY <1>2 DEF CAS!Advance, CAS!q
  <2>2. Apart(t) /\ my[t].next.ptr # Null /\ my[t].next.ptr = next[heap.head.ptr]
    BY <1>1, <1>2 DEF Seen, NextSeen, AfterNext
  <2>3. heap.tail.ptr # heap.head.ptr
    BY <1>1, <1>2, <2>2 DEF Seen, TailSeen, SameHead, AfterTail, AfterNext
  <2>4. made' = made /\ Unlinked' = Unlinked
    BY <1>1, <2>1, Returned
  <2>5. List' /\ Grows
    BY <1>2, <2>1, <2>2, <2>3, <2>4, HeadMoved
  <2>6. heap'.node = heap.node
    BY <2>1 DEF List, NodesOK
  <2>. QED  BY <2>1, <2>5, <2>6, ReturnStep
<1>3. CASE heap.head # my[t].head
  BY <1>1, <1>3, AgainStep DEF CAS!Advance, CAS!q
<1>. QED  BY <1>2, <1>3

LEMMA CallStep ==
  ASSUME QueueInv, NEW t \in Threads, NEW op \in {"enq", "deq"}, CAS!Call(t, op, made + 1)
  PROVE  QueueInv' /\ Grows
<1>. USE DEF QueueInv
<1>1. PICK m : m = made + 1
  OBVIOUS
<1>2. /\ made \in Nat /\ made' = m /\ made' \in Nat /\ made <= made'
      /\ m \in 1 .. made' /\ m \notin 1 .. made /\ 1 .. made \subseteq 1 .. made'
  BY <1>1 DEF CAS!Call, CAS!Enter, CAS!Invoke, CallsOK
<1>3. /\ Alone(t) /\ my'[t] = my[t] /\ call[t] = Nothing
      /\ pc'[t] = (IF op = "enq" THEN "tail" ELSE "head")
      /\ call'[t] = [op |-> op, key |-> m, no |-> m]
  BY <1>1 DEF CAS!Call, CAS!Enter, CAS!Invoke, CAS!Goto, CAS!Nothing, Nothing, CallsOK, Alone
<1>4. heap' = IF op = "enq" THEN [heap EXCEPT !.node = CAS!WithNode(m, CAS!create_node(m))] ELSE heap
  BY <1>1 DEF CAS!Call, CAS!q
<1>5. Seen(t)'
  BY <1>3 DEF Seen, HeadSeen, TailSeen, NextSeen, AfterHead, AfterTail, AfterNext
<1>6. CASE op = "enq"
  <2>1. Unlinked' = Unlinked \cup {m}
    BY <1>3, <1>6 DEF Unlinked, Linking, new, Nothing, Alone
  <2>2. m \notin DOMAIN heap.node /\ m # Null /\ {m} \cup DOMAIN heap.node \subseteq {Dummy} \cup (1 .. made')
    BY <1>2, NodeNamesAssumption DEF List, NodesOK
  <2>3. List' /\ Grows
    BY <1>4, <1>6, <2>1, <2>2, NodeCreated
  <2>4. DOMAIN heap'.node = DOMAIN heap.node \cup {m}
    BY <1>4, <1>6 DEF List, NodesOK, CAS!WithNode, CAS!q
  <2>5. Call1(t)'
    BY <1>2, <1>3, <1>6, <2>4 DEF Call1, EnqLabels, AfterHead, new
  <2>. QED  BY <1>2, <1>3, <1>5, <2>3, <2>4, <2>5, EnoughForOne DEF new
<1>7. CASE op = "deq"
  <2>1. heap' = heap
    BY <1>4, <1>7
  <2>2. Unlinked' = Unlinked
    BY <1>3, <1>7, SameUnlinked DEF Linking, Nothing
  <2>3. List' /\ Grows
    BY <1>2, <2>1, <2>2, SameList
  <2>4. Call1(t)'
    BY <1>3, <1>7 DEF Call1, DeqLabels
  <2>. QED  BY <1>2, <1>3, <1>5, <1>7, <2>1, <2>3, <2>4, EnoughForOne
<1>. QED  BY <1>6, <1>7

LEMMA InitInv == Init => Inv
<1>1. SUFFICES ASSUME which = "cas", CAS!Init PROVE QueueInv
  BY DEF Init, Inv
<1>2. /\ call = [t \in Threads |-> Nothing] /\ made = 0 /\ pc = [t \in Threads |-> "idle"]
      /\ my = [t \in Threads |-> CAS!Locals]
      /\ heap = [head |-> CAS!pointer(Dummy, 0), tail |-> CAS!pointer(Dummy, 0),
                 node |-> [n \in {Dummy} |-> CAS!create_node(Null)]]
  BY <1>1 DEF CAS!Init, CAS!init_queue, CAS!Idle, CAS!NoCalls, CAS!Nothing, Nothing
<1>3. CallsOK
  BY <1>2 DEF CallsOK, Call1, OwnNodes, Nothing
<1>4. Unlinked = {}
  BY <1>2 DEF Unlinked, Linking, Nothing
<1>5. Linked = {Dummy} /\ next = [n \in {Dummy} |-> Null]
  BY <1>2, <1>4 DEF Linked, next, CAS!create_node, CAS!pointer
<1>6. NodesOK
  BY <1>2, <1>4, <1>5 DEF NodesOK, CAS!create_node, CAS!pointer
<1>7. Loopless(next) /\ Reaches(next, heap.head.ptr, heap.tail.ptr)
  BY <1>2, <1>5 DEF Loopless, Reaches, CAS!pointer
<1>8. \A t \in Threads : Seen(t)
  BY <1>2 DEF Seen, HeadSeen, TailSeen, NextSeen, Nothing, AfterHead, AfterTail, AfterNext
<1>. QED  BY <1>3, <1>6, <1>7, <1>8 DEF QueueInv, List

LEMMA StepInv == Inv /\ [Next]_allVars => Inv' /\ (which = "cas" => Grows)
<1>1. SUFFICES ASSUME QueueInv, which' = which, which = "cas", [Next]_allVars PROVE QueueInv' /\ Grows
  BY DEF Inv, Next, allVars
<1>2. CASE UNCHANGED vars
  <2>1. call' = call /\ made' = made /\ pc' = pc /\ my' = my /\ heap' = heap
    BY <1>2 DEF vars, callVars
  <2>2. Unlinked' = Unlinked
    BY <2>1 DEF Unlinked, Linking, new
  <2>3. List' /\ Grows
    BY <1>1, <2>1, <2>2, SameList DEF QueueInv
  <2>4. CallsOK'
    BY <1>1, <2>1 DEF QueueInv, CallsOK, Call1, OwnNodes, new
  <2>5. \A t \in Threads : Seen(t)'
    BY <1>1, <2>1, <2>3, OthersSee DEF QueueInv, CallsOK
  <2>. QED  BY <2>3, <2>4, <2>5 DEF QueueInv
<1>3. ASSUME NEW t \in Threads, Step(t) PROVE QueueInv' /\ Grows
  <2>1. CAS!Step(t)
    BY <1>1, <1>3 DEF Step
  <2>. QED  BY <1>1, <2>1, LoadHeadStep, LoadTailStep, LoadNextStep, SameCountStep, SamePtrStep,
               EnqStep, SwingStep, DeqStep, AdvanceStep DEF CAS!Step
<1>4. ASSUME NEW t \in Threads, NEW op \in {"enq", "deq"}, Call(t, op) PROVE QueueInv' /\ Grows
  BY <1>1, <1>4, CallStep DEF Call
<1>. QED  BY <1>1, <1>2, <1>3, <1>4 DEF Next, Done, allVars
-----------------------------------------------------------------------------
(* The tail of CASLockFreeQueue.c is after its head, and what a call has    *)
(* loaded still means what the call takes it for.                           *)
THEOREM QueueInvariant == Spec => []Inv
BY InitInv, StepInv, PTL DEF Spec

(* The tail of CASLockFreeQueue.c stays at or after its head: deq helps the *)
(* tail along before it takes a node out, and no thread that is late, or    *)
(* has loaded count and pointer of different times, can move an end back.   *)
THEOREM TailStaysAfterHead == Spec => []TailAfterHead
<1>1. Inv => TailAfterHead
  <2>1. SUFFICES ASSUME QueueInv, NEW S \in SUBSET DOMAIN heap.node, heap.head.ptr \in S, Closed(S)
                 PROVE  heap.tail.ptr \in S
    BY DEF Inv, TailAfterHead
  <2>2. DOMAIN next = DOMAIN heap.node /\ ClosedIn(next, S)
    BY <2>1 DEF next, Closed, ClosedIn
  <2>. QED  BY <2>1, <2>2 DEF QueueInv, List, Reaches
<1>. QED  BY <1>1, QueueInvariant, PTL

(* No enq and no deq of CASLockFreeQueue.c ever follows a NULL pointer.     *)
THEOREM NobodyFollowsNull == Spec => [](which = "cas" => ~Crashed)
<1>1. Inv => (which = "cas" => ~Crashed)
  BY DEF Inv, QueueInv, CallsOK, Call1, Crashed, EnqLabels, DeqLabels, AfterHead, AfterTail, AfterNext
<1>. QED  BY <1>1, QueueInvariant, PTL

(* No step ever unlinks a node or gives a linked one another successor, and *)
(* the count of head tells every move of head: a compare-and-swap with the  *)
(* pointer and the count that were loaded cannot hit a head that has been   *)
(* elsewhere in between.                                                    *)
THEOREM LinksAreFinal == Spec => [][which = "cas" => Grows]_allVars
BY QueueInvariant, StepInv, PTL DEF Spec
-----------------------------------------------------------------------------
(* Lemmas about numbers. *)
LEMMA LeastElement ==
  ASSUME NEW T, T \subseteq Nat, T # {}
  PROVE  \E n \in T : \A m \in T : n <= m
<1> DEFINE R == OpToRel(<, Nat)
<1>1. PICK n \in T : \A m \in T : ~(<<m, n>> \in R)
  <2>1. IsWellFoundedOn(R, Nat)
    BY NatLessThanWellFounded
  <2> HIDE DEF R
  <2>. QED  BY <2>1, WFMin
<1>2. \A m \in T : ~(m < n)
  BY <1>1 DEF OpToRel
<1>. QED  BY <1>2

LEMMA UpTo ==
  ASSUME NEW n \in Nat, NEW G, 0 \in G, \A i \in 0 .. n - 1 : i \in G => i + 1 \in G
  PROVE  \A i \in 0 .. n : i \in G
<1> DEFINE Bad == {i \in 0 .. n : i \notin G}
<1>1. SUFFICES ASSUME Bad # {} PROVE FALSE
  OBVIOUS
<1>2. PICK i \in Bad : \A j \in Bad : i <= j
  <2>1. Bad \subseteq Nat
    OBVIOUS
  <2> HIDE DEF Bad
  <2>. QED  BY <1>1, <2>1, LeastElement
<1>3. i \in 1 .. n /\ i - 1 \in 0 .. n - 1
  BY <1>2
<1>4. i - 1 \in G
  BY <1>2, <1>3
<1>. QED  BY <1>2, <1>3, <1>4

LEMMA MaxIsIn ==
  ASSUME NEW n \in Nat, NEW S \in SUBSET (1 .. n), S # {}
  PROVE  Max(S) \in S
<1> DEFINE T == {n - y : y \in S}
<1>1. PICK x \in T : \A z \in T : x <= z
  <2>1. \A y \in S : n - y \in Nat
    OBVIOUS
  <2>2. T \subseteq Nat
    BY <2>1
  <2>3. T # {}
    OBVIOUS
  <2> HIDE DEF T
  <2>. QED  BY <2>2, <2>3, LeastElement
<1>2. PICK y \in S : x = n - y
  BY <1>1
<1>3. \A z \in S : y >= z
  <2>1. \A z \in S : n - y <= n - z
    BY <1>1, <1>2
  <2>. QED  BY <2>1
<1>. QED  BY <1>2, <1>3 DEF Max

LEMMA MaxOfAll ==
  ASSUME NEW n \in Nat \ {0}, NEW S \in SUBSET (1 .. n), n \in S
  PROVE  Max(S) = n
<1>1. \A y \in S : n >= y
  OBVIOUS
<1>2. \A x \in S : (\A y \in S : x >= y) => x = n
  OBVIOUS
<1>. QED  BY <1>1, <1>2 DEF Max
-----------------------------------------------------------------------------
(* What configs may become: calls in progress take effect, one after the    *)
(* other.  First the fold of ThreadSteps is what its recursion says.        *)
Takes(g, n, s, c) ==
  /\ g = [S \in SUBSET (1 .. n) |-> g[S]] /\ g[{}] = c
  /\ \A S \in SUBSET (1 .. n) : S # {} => g[S] = TakeEffect(g[S \ {Max(S)}], s[Max(S)])

LEMMA FoldExists ==
  ASSUME NEW n \in Nat, NEW s, NEW c
  PROVE  \E g : Takes(g, n, s, c)
<1> DEFINE G == {m \in Nat : \E g : Takes(g, m, s, c)}
<1>1. 0 \in G
  <2> DEFINE g == [S \in SUBSET (1 .. 0) |-> c]
  <2>1. \A S \in SUBSET (1 .. 0) : S = {}
    OBVIOUS
  <2>2. Takes(g, 0, s, c)
    BY <2>1 DEF Takes
  <2>. QED  BY <2>2
<1>2. ASSUME NEW i \in 0 .. n - 1, i \in G PROVE i + 1 \in G
  <2>1. PICK g : Takes(g, i, s, c)
    BY <1>2
  <2>2. PICK m \in Nat \ {0} : m = i + 1 /\ i = m - 1
    OBVIOUS
  <2> DEFINE k == [S \in SUBSET (1 .. m) |-> IF m \in S THEN TakeEffect(g[S \ {m}], s[m]) ELSE g[S]]
  <2>3. ASSUME NEW S \in SUBSET (1 .. m), m \notin S PROVE S \in SUBSET (1 .. i)
    BY <2>2, <2>3
  <2>4. k = [S \in SUBSET (1 .. m) |-> k[S]] /\ k[{}] = c
    BY <2>1 DEF Takes
  <2>5. ASSUME NEW S \in SUBSET (1 .. m), S # {} PROVE k[S] = TakeEffect(k[S \ {Max(S)}], s[Max(S)])
    <3>1. CASE m \in S
      <4>1. Max(S) = m
        BY <3>1, MaxOfAll
      <4>2. k[S] = TakeEffect(g[S \ {m}], s[m]) /\ k[S \ {m}] = g[S \ {m}]
        BY <3>1
      <4>. QED  BY <4>1, <4>2
    <3>2. CASE m \notin S
      <4>1. S \in SUBSET (1 .. i) /\ i \in Nat
        BY <2>3, <3>2
      <4>2. g[S] = TakeEffect(g[S \ {Max(S)}], s[Max(S)])
        BY <2>1, <2>5, <4>1 DEF Takes
      <4>3. k[S] = g[S] /\ k[S \ {Max(S)}] = g[S \ {Max(S)}]
        BY <3>2
      <4>. QED  BY <4>2, <4>3
    <3>. QED  BY <3>1, <3>2
  <2> HIDE DEF k
  <2>6. Takes(k, m, s, c)
    BY <2>4, <2>5 DEF Takes
  <2>. QED  BY <2>2, <2>6
<1> HIDE DEF G
<1>3. n \in G
  BY <1>1, <1>2, UpTo
<1>. QED  BY <1>3 DEF G

LEMMA FoldIs ==
  ASSUME NEW n \in Nat, NEW s, DOMAIN s = 1 .. n, NEW c
  PROVE  \E g : Takes(g, n, s, c) /\ TakeEffects(c, s) = g[1 .. n]
<1> DEFINE P == SUBSET (1 .. n)
           Later(it, S) == LET x == Max(S) IN TakeEffect(it[S \ {x}], s[x])
           Step1(it) == [S \in P |-> IF S = {} THEN c ELSE Later(it, S)]
           iter == CHOOSE it : it = Step1(it)
<1>1. TakeEffects(c, s) = iter[1 .. n]
  BY DEF TakeEffects, MapThenFoldSet
<1>2. \E g : g = Step1(g)
  <2>1. PICK g : Takes(g, n, s, c)
    BY FoldExists
  <2>2. \A S \in P : S # {} => g[S] = Later(g, S)
    BY <2>1 DEF Takes
  <2>3. g = [S \in P |-> g[S]] /\ g[{}] = c
    BY <2>1 DEF Takes
  <2> HIDE DEF Later
  <2>. QED  BY <2>2, <2>3
<1>3. iter = Step1(iter)
  <2> HIDE DEF Step1
  <2>. QED  BY <1>2
<1>4. Takes(iter, n, s, c)
  <2> HIDE DEF iter
  <2>1. iter = [S \in P |-> iter[S]] /\ iter[{}] = c
    BY <1>3
  <2>2. \A S \in P : S # {} => iter[S] = TakeEffect(iter[S \ {Max(S)}], s[Max(S)])
    BY <1>3
  <2>. QED  BY <2>1, <2>2 DEF Takes
<1> HIDE DEF iter
<1>. QED  BY <1>1, <1>4

(* n calls s, of S, take effect on c; h are the configurations on the way.  *)
InLine(s, n, S) == /\ s = [i \in 1 .. n |-> s[i]] /\ \A i \in 1 .. n : s[i] \in S
                   /\ \A i, j \in 1 .. n : s[i] = s[j] => i = j
Chained(h, n, s, c) == h[0] = c /\ \A i \in 1 .. n : h[i] = TakeEffect(h[i - 1], s[i])
Possible(p) == \E c \in configs : \E n \in Nat : \E s, h :
  InLine(s, n, Pending \ DOMAIN c.ret) /\ Chained(h, n, s, c) /\ p = h[n]

LEMMA LineIsOrder ==
  ASSUME NEW n \in Nat, NEW S, NEW s, InLine(s, n, S)
  PROVE  s \in Orders(S) /\ DOMAIN s = 1 .. n
<1> DEFINE D == {s[i] : i \in 1 .. n}
<1>1. s \in Bijection(1 .. n, D) /\ D \in SUBSET S /\ DOMAIN s = 1 .. n
  BY DEF InLine, Bijection, Injection, Surjection, IsInjective
<1> HIDE DEF D
<1>2. Cardinality(D) = n
  BY <1>1, FS_CountingElements DEF ExistsBijection
<1>. QED  BY <1>1, <1>2 DEF Orders

LEMMA ChainIsFold ==
  ASSUME NEW n \in Nat, NEW s, DOMAIN s = 1 .. n, NEW c, NEW h, Chained(h, n, s, c)
  PROVE  TakeEffects(c, s) = h[n]
<1>1. PICK g : Takes(g, n, s, c) /\ TakeEffects(c, s) = g[1 .. n]
  BY FoldIs
<1> DEFINE G == {i \in Nat : g[1 .. i] = h[i]}
<1>2. 0 \in G
  <2>1. 1 .. 0 = {}
    OBVIOUS
  <2>. QED  BY <1>1, <2>1 DEF Takes, Chained
<1>3. ASSUME NEW i \in 0 .. n - 1, i \in G PROVE i + 1 \in G
  <2>1. PICK m \in Nat \ {0} : m = i + 1 /\ i = m - 1 /\ m \in 1 .. n
    OBVIOUS
  <2>2. (1 .. m) \in SUBSET (1 .. n) /\ m \in 1 .. m /\ 1 .. m # {} /\ (1 .. m) \ {m} = 1 .. i
    BY <2>1
  <2>3. Max(1 .. m) = m
    BY <2>2, MaxOfAll
  <2>4. g[1 .. m] = TakeEffect(g[1 .. i], s[m])
    <3>1. g[1 .. m] = TakeEffect(g[(1 .. m) \ {Max(1 .. m)}], s[Max(1 .. m)])
      BY <1>1, <2>2 DEF Takes
    <3>. QED  BY <2>2, <2>3, <3>1
  <2>5. h[m] = TakeEffect(h[i], s[m])
    BY <2>1 DEF Chained
  <2>6. g[1 .. m] = h[m]
    BY <1>3, <2>4, <2>5
  <2>. QED  BY <2>1, <2>6
<1> HIDE DEF G
<1>4. \A i \in 0 .. n : i \in G
  BY <1>2, <1>3, UpTo
<1>5. n \in G
  BY <1>4
<1>. QED  BY <1>1, <1>5 DEF G

(* On the way, calls are added to those that have results, which they keep. *)
LEMMA ChainKeeps ==
  ASSUME NEW n \in Nat, NEW s, NEW c, NEW h, Chained(h, n, s, c)
  PROVE  /\ \A i \in 0 .. n : DOMAIN h[i].ret = DOMAIN c.ret \cup {s[j] : j \in 1 .. i}
         /\ \A k \in 0 .. n : \A t \in DOMAIN h[k].ret :
              (\A j \in k + 1 .. n : s[j] # t) => h[n].ret[t] = h[k].ret[t]
<1>0. ASSUME NEW i \in 0 .. n - 1
      PROVE  /\ i + 1 \in 1 .. n /\ h[i + 1] = TakeEffect(h[i], s[i + 1])
             /\ DOMAIN h[i + 1].ret = DOMAIN h[i].ret \cup {s[i + 1]}
             /\ \A t \in DOMAIN h[i].ret : t # s[i + 1] => h[i + 1].ret[t] = h[i].ret[t]
  <2>1. i + 1 \in 1 .. n /\ (i + 1) - 1 = i
    OBVIOUS
  <2>2. h[i + 1] = TakeEffect(h[i], s[i + 1])
    BY <2>1 DEF Chained
  <2>. QED  BY <2>1, <2>2 DEF TakeEffect
<1>1. \A i \in 0 .. n : DOMAIN h[i].ret = DOMAIN c.ret \cup {s[j] : j \in 1 .. i}
  <2> DEFINE G == {i \in Nat : DOMAIN h[i].ret = DOMAIN c.ret \cup {s[j] : j \in 1 .. i}}
  <2>1. 0 \in G
    <3>1. h[0] = c /\ \A j : j \notin 1 .. 0
      BY DEF Chained
    <3>. QED  BY <3>1
  <2>2. ASSUME NEW i \in 0 .. n - 1, i \in G PROVE i + 1 \in G
    <3>1. 1 .. i + 1 = (1 .. i) \cup {i + 1}
      OBVIOUS
    <3>2. {s[j] : j \in 1 .. i + 1} = {s[j] : j \in 1 .. i} \cup {s[i + 1]}
      BY <3>1
    <3>3. DOMAIN h[i].ret = DOMAIN c.ret \cup {s[j] : j \in 1 .. i} /\ i + 1 \in Nat
      BY <2>2
    <3>4. DOMAIN h[i + 1].ret = DOMAIN h[i].ret \cup {s[i + 1]}
      BY <1>0
    <3>. QED  BY <3>2, <3>3, <3>4
  <2> HIDE DEF G
  <2>3. \A i \in 0 .. n : i \in G
    BY <2>1, <2>2, UpTo
  <2>. QED  BY <2>3 DEF G
<1>2. ASSUME NEW k \in 0 .. n, NEW t \in DOMAIN h[k].ret, \A j \in k + 1 .. n : s[j] # t
      PROVE  h[n].ret[t] = h[k].ret[t]
  <2> DEFINE G == {i \in Nat : i >= k => t \in DOMAIN h[i].ret /\ h[i].ret[t] = h[k].ret[t]}
  <2>1. 0 \in G
    BY <1>2
  <2>2. ASSUME NEW i \in 0 .. n - 1, i \in G PROVE i + 1 \in G
    <3>1. CASE i >= k
      <4>1. i + 1 \in k + 1 .. n
        BY <3>1
      <4>. QED  BY <1>0, <1>2, <2>2, <3>1, <4>1
    <3>2. CASE i + 1 = k
      BY <1>2, <3>2
    <3>3. CASE i + 1 < k
      BY <3>3
    <3>. QED  BY <3>1, <3>2, <3>3
  <2> HIDE DEF G
  <2>3. \A i \in 0 .. n : i \in G
    BY <2>1, <2>2, UpTo
  <2>. QED  BY <2>3 DEF G
<1>. QED  BY <1>1, <1>2

LEMMA PossibleNow == ASSUME NEW c \in configs PROVE Possible(c)
<1> DEFINE s == [i \in 1 .. 0 |-> c]
           h == [i \in 0 .. 0 |-> c]
<1>1. InLine(s, 0, Pending \ DOMAIN c.ret) /\ Chained(h, 0, s, c) /\ c = h[0]
  BY DEF InLine, Chained
<1>2. 0 \in Nat
  OBVIOUS
<1> HIDE DEF s, h
<1>. QED  BY <1>1, <1>2 DEF Possible

LEMMA PossibleNext ==
  ASSUME NEW p, Possible(p), NEW u \in Pending, u \notin DOMAIN p.ret
  PROVE  Possible(TakeEffect(p, u))
<1>1. PICK c \in configs, n \in Nat : \E s, h :
        InLine(s, n, Pending \ DOMAIN c.ret) /\ Chained(h, n, s, c) /\ p = h[n]
  BY DEF Possible
<1>2. PICK s, h : InLine(s, n, Pending \ DOMAIN c.ret) /\ Chained(h, n, s, c) /\ p = h[n]
  BY <1>1
<1>3. DOMAIN p.ret = DOMAIN c.ret \cup {s[j] : j \in 1 .. n}
  BY <1>2, ChainKeeps
<1>4. PICK m \in Nat \ {0} : m = n + 1 /\ n = m - 1 /\ 1 .. m = (1 .. n) \cup {m} /\ m \notin 1 .. n
  OBVIOUS
<1> DEFINE z == [i \in 1 .. m |-> IF i = m THEN u ELSE s[i]]
           k == [i \in 0 .. m |-> IF i = m THEN TakeEffect(p, u) ELSE h[i]]
<1>5. InLine(z, m, Pending \ DOMAIN c.ret)
  <2>1. \A i \in 1 .. m : z[i] = IF i = m THEN u ELSE s[i]
    OBVIOUS
  <2>2. z = [i \in 1 .. m |-> z[i]]
    OBVIOUS
  <2> HIDE DEF z
  <2>3. \A i \in 1 .. n : z[i] = s[i] /\ s[i] \in Pending \ DOMAIN c.ret /\ s[i] # u
    BY <1>2, <1>3, <1>4, <2>1 DEF InLine
  <2>4. z[m] = u /\ u \in Pending \ DOMAIN c.ret
    BY <1>3, <2>1
  <2>5. \A i \in 1 .. m : z[i] \in Pending \ DOMAIN c.ret
    BY <1>4, <2>3, <2>4
  <2>6. ASSUME NEW i \in 1 .. m, NEW j \in 1 .. m, z[i] = z[j] PROVE i = j
    <3>1. \A x \in 1 .. n, y \in 1 .. n : s[x] = s[y] => x = y
      BY <1>2 DEF InLine
    <3>. QED  BY <1>4, <2>3, <2>4, <2>6, <3>1
  <2>. QED  BY <2>2, <2>5, <2>6 DEF InLine
<1>6. Chained(k, m, z, c)
  <2>1. k[0] = c /\ k[m] = TakeEffect(p, u) /\ k[m - 1] = p /\ z[m] = u
    BY <1>2, <1>4 DEF Chained
  <2>2. ASSUME NEW i \in 1 .. n PROVE k[i] = h[i] /\ k[i - 1] = h[i - 1] /\ z[i] = s[i]
    BY <1>4
  <2> HIDE DEF k, z
  <2>. QED  BY <1>2, <1>4, <2>1, <2>2 DEF Chained
<1>7. k[m] = TakeEffect(p, u)
  OBVIOUS
<1> HIDE DEF z, k
<1>. QED  BY <1>5, <1>6, <1>7 DEF Possible

(* Other calls may start. *)
LEMMA PossibleStays ==
  ASSUME NEW p, Possible(p), configs' = configs, \A u \in Pending : call'[u] = call[u]
  PROVE  Possible(p)'
<1>1. PICK c \in configs, n \in Nat : \E s, h :
        InLine(s, n, Pending \ DOMAIN c.ret) /\ Chained(h, n, s, c) /\ p = h[n]
  BY DEF Possible
<1>2. PICK s, h : InLine(s, n, Pending \ DOMAIN c.ret) /\ Chained(h, n, s, c) /\ p = h[n]
  BY <1>1
<1>3. Pending \subseteq Pending'
  BY DEF Pending
<1>4. InLine(s, n, Pending' \ DOMAIN c.ret)
  BY <1>2, <1>3 DEF InLine
<1>5. Chained(h, n, s, c)'
  <2>1. ASSUME NEW i \in 1 .. n PROVE h[i] = TakeEffect(h[i - 1], s[i])'
    <3>1. s[i] \in Pending /\ h[i] = TakeEffect(h[i - 1], s[i])
      BY <1>2 DEF InLine, Chained
    <3>2. call'[s[i]] = call[s[i]]
      BY <3>1
    <3>. QED  BY <3>1, <3>2 DEF TakeEffect
  <2>. QED  BY <1>2, <2>1 DEF Chained
<1>. QED  BY <1>2, <1>4, <1>5 DEF Possible

(* A call returns with the result that it has had when it took effect. *)
Dropped(p, t) == [state |-> p.state, ret |-> [u \in DOMAIN p.ret \ {t} |-> p.ret[u]]]
LEMMA PossibleAnswer ==
  ASSUME NEW p, Possible(p), NEW t \in Pending, t \in DOMAIN p.ret, Answer(t, p.ret[t]),
         call = [u \in Threads |-> call[u]]
  PROVE  Possible(Dropped(p, t))'
<1>1. PICK c \in configs, n \in Nat : \E s, h :
        InLine(s, n, Pending \ DOMAIN c.ret) /\ Chained(h, n, s, c) /\ p = h[n]
  BY DEF Possible
<1>2. PICK s, h : InLine(s, n, Pending \ DOMAIN c.ret) /\ Chained(h, n, s, c) /\ p = h[n]
  BY <1>1
<1>3. /\ \A i \in 0 .. n : DOMAIN h[i].ret = DOMAIN c.ret \cup {s[j] : j \in 1 .. i}
      /\ \A k \in 0 .. n : \A u \in DOMAIN h[k].ret :
           (\A j \in k + 1 .. n : s[j] # u) => h[n].ret[u] = h[k].ret[u]
  BY <1>2, ChainKeeps
<1>4. PICK k \in 0 .. n : h[k] \in Explained(c, t) /\ t \in DOMAIN h[k].ret /\ \A j \in k + 1 .. n : s[j] # t
  <2>1. CASE t \in DOMAIN c.ret
    <3>1. h[0] = c
      BY <1>2 DEF Chained
    <3>2. h[0] \in Explained(c, t)
      BY <2>1, <3>1 DEF Explained
    <3>3. \A j \in 1 .. n : s[j] # t
      BY <1>2, <2>1 DEF InLine
    <3>4. 0 \in 0 .. n /\ 0 + 1 .. n = 1 .. n
      OBVIOUS
    <3>. QED  BY <2>1, <3>1, <3>2, <3>3, <3>4
  <2>2. CASE t \notin DOMAIN c.ret
    <3>1. PICK k \in 1 .. n : t = s[k]
      <4>1. DOMAIN p.ret = DOMAIN c.ret \cup {s[j] : j \in 1 .. n}
        BY <1>2, <1>3
      <4>. QED  BY <2>2, <4>1
    <3>2. PICK m \in Nat : m = k - 1 /\ m + 1 = k /\ m <= n
      OBVIOUS
    <3> DEFINE z == [i \in 1 .. m |-> s[i]]
    <3>3. \A i \in 1 .. m : z[i] = s[i] /\ i \in 1 .. n /\ i # k
      BY <3>2
    <3>4. DOMAIN z = 1 .. m /\ z = [i \in 1 .. m |-> z[i]]
      OBVIOUS
    <3> HIDE DEF z
    <3>5. InLine(z, m, Pending \ (DOMAIN c.ret \cup {t}))
      BY <1>2, <3>1, <3>3, <3>4 DEF InLine
    <3>6. Chained(h, m, z, c)
      BY <1>2, <3>3 DEF Chained
    <3>7. TakeEffects(c, z) = h[m]
      BY <3>4, <3>6, ChainIsFold
    <3>8. z \in Orders(Pending \ (DOMAIN c.ret \cup {t}))
      BY <3>5, LineIsOrder
    <3>9. h[k] = TakeEffect(h[m], t)
      BY <1>2, <3>1, <3>2 DEF Chained
    <3>10. h[k] \in Explained(c, t)
      BY <2>2, <3>7, <3>8, <3>9 DEF Explained
    <3>11. \A j \in k + 1 .. n : s[j] # t
      <4>1. \A j \in k + 1 .. n : j \in 1 .. n /\ j # k
        OBVIOUS
      <4>. QED  BY <1>2, <3>1, <4>1 DEF InLine
    <3>12. t \in DOMAIN h[k].ret
      BY <3>9 DEF TakeEffect
    <3>13. k \in 0 .. n
      OBVIOUS
    <3>. QED  BY <3>10, <3>11, <3>12, <3>13
  <2>. QED  BY <2>1, <2>2
<1>5. h[k].ret[t] = p.ret[t]
  BY <1>2, <1>3, <1>4
<1>6. Dropped(h[k], t) \in configs'
  BY <1>4, <1>5 DEF Answer, Dropped
<1>7. PICK m \in Nat : m = n - k /\ k + m = n
  OBVIOUS
<1> DEFINE z == [i \in 1 .. m |-> s[k + i]]
           g == [i \in 0 .. m |-> Dropped(h[k + i], t)]
<1>8. \A i \in 1 .. m : /\ z[i] = s[k + i] /\ k + i \in k + 1 .. n /\ k + i \in 1 .. n
                        /\ g[i] = Dropped(h[k + i], t) /\ g[i - 1] = Dropped(h[(k + i) - 1], t)
  <2>1. SUFFICES ASSUME NEW i \in 1 .. m
                 PROVE  /\ z[i] = s[k + i] /\ k + i \in k + 1 .. n /\ k + i \in 1 .. n
                        /\ g[i] = Dropped(h[k + i], t) /\ g[i - 1] = Dropped(h[(k + i) - 1], t)
    OBVIOUS
  <2>2. k + i \in k + 1 .. n /\ k + i \in 1 .. n
    BY <1>7
  <2>3. i \in 0 .. m /\ i - 1 \in 0 .. m /\ k + (i - 1) = (k + i) - 1
    OBVIOUS
  <2>4. g[i - 1] = Dropped(h[k + (i - 1)], t)
    BY <2>3
  <2>5. g[i] = Dropped(h[k + i], t) /\ z[i] = s[k + i]
    BY <2>3
  <2>. QED  BY <2>2, <2>3, <2>4, <2>5
<1>9. z = [i \in 1 .. m |-> z[i]] /\ g[0] = Dropped(h[k], t) /\ g[m] = Dropped(p, t)
  BY <1>2, <1>7
<1> HIDE DEF z, g
<1>10. Pending' = Pending \ {t} /\ \A u \in Threads \ {t} : call'[u] = call[u]
  <2>1. \A u \in Threads : call'[u] = IF u = t THEN Nothing ELSE call[u]
    BY DEF Answer
  <2>. QED  BY <2>1 DEF Pending
<1>11. InLine(z, m, Pending' \ DOMAIN Dropped(h[k], t).ret)
  <2>1. DOMAIN Dropped(h[k], t).ret = DOMAIN h[k].ret \ {t}
    BY DEF Dropped
  <2>2. \A i \in 1 .. m : z[i] \in Pending \ DOMAIN h[k].ret /\ z[i] # t
    <3>1. SUFFICES ASSUME NEW i \in 1 .. m PROVE s[k + i] \in Pending \ DOMAIN h[k].ret /\ s[k + i] # t
      BY <1>8
    <3>2. \A j \in 1 .. k : j \in 1 .. n /\ j # k + i
      BY <1>8
    <3>3. s[k + i] \in Pending \ DOMAIN c.ret /\ \A j \in 1 .. k : s[j] # s[k + i]
      BY <1>2, <1>8, <3>2 DEF InLine
    <3>. QED  BY <1>3, <1>4, <1>8, <3>3
  <2>3. ASSUME NEW i \in 1 .. m, NEW j \in 1 .. m, z[i] = z[j] PROVE i = j
    <3>1. \A x \in 1 .. n, y \in 1 .. n : s[x] = s[y] => x = y
      BY <1>2 DEF InLine
    <3>2. k + i = k + j
      BY <1>8, <2>3, <3>1
    <3>. QED  BY <3>2
  <2>4. \A i \in 1 .. m : z[i] \in Pending' \ DOMAIN Dropped(h[k], t).ret
    BY <1>10, <2>1, <2>2
  <2>5. \A i, j \in 1 .. m : z[i] = z[j] => i = j
    BY <2>3
  <2>. QED  BY ONLY <1>9, <2>4, <2>5 DEF InLine
<1>12. Chained(g, m, z, Dropped(h[k], t))'
  <2>1. ASSUME NEW i \in 1 .. m PROVE g[i] = TakeEffect(g[i - 1], z[i])'
    <3> DEFINE j == k + i
    <3>1. /\ h[j] = TakeEffect(h[j - 1], s[j]) /\ s[j] # t /\ s[j] \in Threads
          /\ z[i] = s[j] /\ g[i] = Dropped(h[j], t) /\ g[i - 1] = Dropped(h[j - 1], t)
      BY <1>2, <1>4, <1>8 DEF Chained, InLine, Pending
    <3>2. call'[s[j]] = call[s[j]]
      BY <1>10, <3>1
    <3> HIDE DEF j
    <3>3. PICK a, b, u : a = h[j - 1] /\ b = h[j] /\ u = s[j]
      OBVIOUS
    <3>4. Dropped(TakeEffect(a, u), t) = [state |-> Effect(a.state, call[u]).state,
             ret |-> [v \in (DOMAIN a.ret \cup {u}) \ {t} |-> IF v = u THEN Effect(a.state, call[u]).ret ELSE a.ret[v]]]
      BY DEF TakeEffect, Dropped
    <3>5. TakeEffect(Dropped(a, t), u)' = [state |-> Effect(a.state, call[u]).state,
             ret |-> [v \in (DOMAIN a.ret \ {t}) \cup {u} |-> IF v = u THEN Effect(a.state, call[u]).ret ELSE a.ret[v]]]
      BY <3>2, <3>3 DEF TakeEffect, Dropped
    <3>6. (DOMAIN a.ret \cup {u}) \ {t} = (DOMAIN a.ret \ {t}) \cup {u}
      BY <3>1, <3>3
    <3>. QED  BY <3>1, <3>3, <3>4, <3>5, <3>6
  <2>. QED  BY <1>9, <2>1 DEF Chained
<1>. QED  BY <1>6, <1>9, <1>11, <1>12 DEF Possible
-----------------------------------------------------------------------------
(* Lemmas about sequences. *)
LEMMA SeqLonger ==
  ASSUME NEW m \in Nat, NEW f, f = [i \in 1 .. m |-> f[i]], NEW x
  PROVE  Append(f, x) = [i \in 1 .. m + 1 |-> IF i = m + 1 THEN x ELSE f[i]]
<1> DEFINE S == {f[i] : i \in 1 .. m} \cup {x}
<1>1. f \in Seq(S) /\ Len(f) = m /\ x \in S
  <2>1. f \in [1 .. m -> S]
    OBVIOUS
  <2>2. f \in Seq(S)
    BY <2>1, SeqDef
  <2> HIDE DEF S
  <2>. QED  BY <2>1, <2>2, LenProperties DEF S
<1> DEFINE g == Append(f, x)
<1> HIDE DEF S
<1>2. /\ g \in Seq(S) /\ Len(g) = m + 1 /\ g[m + 1] = x
      /\ \A i \in 1 .. m : g[i] = f[i]
  BY <1>1, AppendProperties
<1>3. g = [i \in 1 .. m + 1 |-> g[i]]
  BY <1>2, LenProperties
<1> HIDE DEF g
<1>4. g = [i \in 1 .. m + 1 |-> IF i = m + 1 THEN x ELSE f[i]]
  <2>1. ASSUME NEW i \in 1 .. m + 1 PROVE g[i] = IF i = m + 1 THEN x ELSE f[i]
    <3>1. i # m + 1 => i \in 1 .. m
      OBVIOUS
    <3>. QED  BY <1>2, <3>1
  <2>. QED  BY ONLY <1>3, <2>1
<1>. QED  BY <1>4 DEF g

LEMMA SeqShorter ==
  ASSUME NEW m \in Nat, NEW f, f = [i \in 1 .. m + 1 |-> f[i]]
  PROVE  f # <<>> /\ Head(f) = f[1] /\ Tail(f) = [i \in 1 .. m |-> f[i + 1]]
<1> DEFINE S == {f[i] : i \in 1 .. m + 1}
           g == Tail(f)
<1>1. f \in Seq(S) /\ Len(f) = m + 1 /\ f # <<>>
  <2>1. f \in [1 .. m + 1 -> S] /\ m + 1 \in Nat
    OBVIOUS
  <2>2. f \in Seq(S)
    BY <2>1, SeqDef
  <2> HIDE DEF S
  <2>3. Len(f) = m + 1
    BY <2>1, <2>2, LenProperties
  <2>. QED  BY <2>2, <2>3, EmptySeq
<1> HIDE DEF S
<1>2. g \in Seq(S) /\ Len(g) = m /\ \A i \in 1 .. m : g[i] = f[i + 1]
  BY <1>1, HeadTailProperties
<1>3. g = [i \in 1 .. m |-> g[i]]
  BY <1>2, LenProperties
<1>4. Head(f) = f[1]
  BY <1>1
<1> HIDE DEF g
<1>5. g = [i \in 1 .. m |-> f[i + 1]]
  BY <1>2, <1>3
<1>. QED  BY <1>1, <1>4, <1>5 DEF g

LEMMA SeqNone == ASSUME NEW f, f = [i \in 1 .. 0 |-> f[i]] PROVE f = <<>>
<1>1. <<>> \in Seq({}) /\ Len(<<>>) = 0
  BY EmptySeq
<1>2. <<>> = [i \in 1 .. 0 |-> <<>>[i]]
  BY <1>1, LenProperties
<1>3. 1 .. 0 = {}
  OBVIOUS
<1>. QED  BY <1>2, <1>3
-----------------------------------------------------------------------------
(* The linked nodes in their order, of which the one numbered h is head.    *)
Row(n, o, h) ==
  /\ h \in 1 .. n /\ \A i, j \in 1 .. n : o[i] = o[j] => i = j
  /\ \A x : x \in Linked <=> \E i \in 1 .. n : x = o[i]
  /\ \A i \in 1 .. n : next[o[i]] = IF i = n THEN Null ELSE o[i + 1]
  /\ o[h] = heap.head.ptr
Values(n, o, h) == [i \in 1 .. n - h |-> heap.node[o[h + i]].val]

(* An enq has taken effect when its node is linked.  A deq that has found   *)
(* the queue empty may have: it will return 0, unless it sees in time that  *)
(* head has moved.                                                          *)
Swinging == {t \in Threads : pc[t] = "swing"}
FoundEmpty(t) ==
  /\ call[t].op = "deq" /\ pc[t] \in {"same_count", "same_ptr", "deq"}
  /\ pc[t] = "same_count" => SameHead(t)
  /\ my[t].next.ptr = Null
Empties == {t \in Threads : FoundEmpty(t)}
Fits(p, values, F) ==
  /\ p.state = values /\ DOMAIN p.ret = Swinging \cup F
  /\ (\A u \in Swinging : p.ret[u] = key(u)) /\ (\A u \in F : p.ret[u] = 0)
QueueExplained == \E n \in Nat : \E o, h : Row(n, o, h) /\
  \A F \in SUBSET Empties : \E p : Possible(p) /\ Fits(p, Values(n, o, h), F)

(* A node holds what its enq puts in, a deq has read it from there. *)
ValuesOK == \A t \in Threads :
  /\ Linking(t) => heap.node[new(t)].val = key(t)
  /\ pc[t] = "advance" => my[t].val = heap.node[my[t].next.ptr].val
Explaining == QueueExplained /\ ValuesOK

LEMMA NextNode ==
  ASSUME QueueInv, NEW t \in Threads, pc[t] = "advance"
  PROVE  /\ call[t].op = "deq" /\ my[t].next.ptr \in Linked /\ my[t].next.ptr = next[my[t].head.ptr]
         /\ my[t].next.ptr \in DOMAIN heap.node
<1>1. call[t].op = "deq" /\ Seen(t)
  BY DEF QueueInv, CallsOK, Call1, EnqLabels, AfterHead, AfterTail, AfterNext
<1>2. my[t].next.ptr # Null /\ my[t].head.ptr \in Linked /\ my[t].next.ptr = next[my[t].head.ptr]
  BY <1>1 DEF Seen, NextSeen, HeadSeen, AfterHead, AfterTail, AfterNext, CAS!LoadedNode
<1>3. my[t].next.ptr \in Linked
  BY <1>2 DEF QueueInv, List, NodesOK, Linked
<1>. QED  BY <1>1, <1>2, <1>3 DEF Linked

LEMMA ValuesKept ==
  ASSUME QueueInv, ValuesOK, NEW t \in Threads, Alone(t),
         \A n \in DOMAIN heap.node : n \in DOMAIN heap'.node /\ heap'.node[n].val = heap.node[n].val,
         Linking(t)' => heap'.node[new(t)'].val = key(t)',
         pc'[t] = "advance" => my'[t].val = heap'.node[my'[t].next.ptr].val
  PROVE  ValuesOK'
<1>1. ASSUME NEW u \in Threads \ {t}
      PROVE  /\ Linking(u)' => heap'.node[new(u)'].val = key(u)'
             /\ pc'[u] = "advance" => my'[u].val = heap'.node[my'[u].next.ptr].val
  <2>1. call'[u] = call[u] /\ pc'[u] = pc[u] /\ my'[u] = my[u] /\ new(u)' = new(u) /\ key(u)' = key(u)
    BY DEF Alone, new, key
  <2>2. Linking(u)' => Linking(u) /\ new(u) \in DOMAIN heap.node
    BY <2>1 DEF Linking, QueueInv, CallsOK, Call1, Nothing
  <2>3. Linking(u)' => heap'.node[new(u)'].val = key(u)'
    BY <2>1, <2>2 DEF ValuesOK
  <2>4. ASSUME pc'[u] = "advance" PROVE my'[u].val = heap'.node[my'[u].next.ptr].val
    <3>1. pc[u] = "advance"
      BY <2>1, <2>4
    <3>2. my[u].next.ptr \in DOMAIN heap.node
      BY <3>1, NextNode
    <3>. QED  BY <2>1, <3>1, <3>2 DEF ValuesOK
  <2>. QED  BY <2>3, <2>4
<1>. QED  BY <1>1 DEF ValuesOK

LEMMA OthersFound ==
  ASSUME NEW t \in Threads, Alone(t), NEW u \in Threads \ {t}
  PROVE  /\ u \in Swinging' <=> u \in Swinging
         /\ heap'.head = heap.head => (u \in Empties' <=> u \in Empties)
         /\ key(u)' = key(u)
<1>1. call'[u] = call[u] /\ pc'[u] = pc[u] /\ my'[u] = my[u]
  BY DEF Alone
<1>. QED  BY <1>1 DEF Swinging, Empties, FoundEmpty, SameHead, key

LEMMA RowStays ==
  ASSUME QueueInv, NEW n \in Nat, NEW o, NEW h, Row(n, o, h), Linked' = Linked,
         \A x \in Linked : next'[x] = next[x], heap'.head = heap.head,
         \A x \in DOMAIN heap.node : x \in DOMAIN heap'.node /\ heap'.node[x].val = heap.node[x].val
  PROVE  Row(n, o, h)' /\ Values(n, o, h)' = Values(n, o, h)
<1>1. \A i \in 1 .. n : o[i] \in Linked /\ o[i] \in DOMAIN heap.node
  BY DEF Row, Linked
<1>2. Row(n, o, h)'
  BY <1>1 DEF Row
<1>3. \A i \in 1 .. n - h : h + i \in 1 .. n
  BY DEF Row
<1>4. \A i \in 1 .. n - h : heap'.node[o[h + i]].val = heap.node[o[h + i]].val
  BY <1>1, <1>3
<1>. QED  BY <1>2, <1>4 DEF Values

(* A node is linked behind the last one. *)
LEMMA RowGrows ==
  ASSUME QueueInv, NEW n \in Nat, NEW o, NEW h, Row(n, o, h),
         NEW x \in Linked, next[x] = Null, NEW m, m \notin Linked, m \in DOMAIN heap.node, next[m] = Null,
         Linked' = Linked \cup {m}, next' = [y \in DOMAIN next |-> IF y = x THEN m ELSE next[y]],
         heap'.head = heap.head,
         \A y \in DOMAIN heap.node : y \in DOMAIN heap'.node /\ heap'.node[y].val = heap.node[y].val
  PROVE  \E z : Row(n + 1, z, h)' /\ Values(n + 1, z, h)' = Append(Values(n, o, h), heap.node[m].val)
<1>1. \A i \in 1 .. n : o[i] \in Linked /\ o[i] \in DOMAIN heap.node /\ o[i] # m /\ o[i] # Null
  BY NodeNamesAssumption DEF Row, Linked, QueueInv, List, NodesOK
<1>2. DOMAIN next = DOMAIN heap.node /\ n \in 1 .. n /\ h \in 1 .. n
  BY DEF next, Row
<1>3. o[n] = x /\ \A i \in 1 .. n - 1 : o[i] # x
  BY <1>1, <1>2 DEF Row
<1>4. PICK k \in Nat : k = n + 1 /\ k - 1 = n /\ 1 .. k = (1 .. n) \cup {k} /\ k \notin 1 .. n
  OBVIOUS
<1> DEFINE z == [i \in 1 .. k |-> IF i = k THEN m ELSE o[i]]
<1>5. z[k] = m /\ \A i \in 1 .. n : z[i] = o[i]
  BY <1>4
<1> HIDE DEF z
<1>6. \A i, j \in 1 .. k : z[i] = z[j] => i = j
  <2>1. \A i, j \in 1 .. n : o[i] = o[j] => i = j
    BY DEF Row
  <2>. QED  BY <1>1, <1>4, <1>5, <2>1
<1>7. \A y : y \in Linked' <=> \E i \in 1 .. k : y = z[i]
  BY <1>4, <1>5 DEF Row
<1>8. \A i \in 1 .. k : next'[z[i]] = IF i = k THEN Null ELSE z[i + 1]
  <2>1. next'[m] = Null
    BY <1>2
  <2>2. ASSUME NEW i \in 1 .. n - 1 PROVE next'[z[i]] = z[i + 1] /\ i # k
    <3>1. i \in 1 .. n /\ i + 1 \in 1 .. n /\ i # n
      BY <1>2
    <3>. QED  BY <1>1, <1>2, <1>3, <1>4, <1>5, <3>1 DEF Row
  <2>3. next'[z[n]] = z[n + 1]
    BY <1>1, <1>2, <1>3, <1>4, <1>5
  <2>. QED  BY <1>4, <1>5, <2>1, <2>2, <2>3
<1>9. Row(k, z, h)'
  <2>1. z[h] = heap'.head.ptr /\ h \in 1 .. k
    BY <1>2, <1>4, <1>5 DEF Row
  <2>. QED  BY <1>6, <1>7, <1>8, <2>1 DEF Row
<1>10. Values(k, z, h)' = Append(Values(n, o, h), heap.node[m].val)
  <2>1. PICK d \in Nat : d = n - h /\ d + 1 = k - h /\ h + (d + 1) = k
    BY <1>2, <1>4
  <2> DEFINE f == Values(n, o, h)
             e == d + 1
  <2>2. f = [i \in 1 .. d |-> f[i]] /\ \A i \in 1 .. d : f[i] = heap.node[o[h + i]].val
    BY <2>1 DEF Values
  <2>3. Append(f, heap.node[m].val) = [i \in 1 .. e |-> IF i = e THEN heap.node[m].val ELSE f[i]]
    <3> HIDE DEF f
    <3>. QED  BY <2>2, SeqLonger
  <2>4. ASSUME NEW i \in 1 .. e
        PROVE  heap'.node[z[h + i]].val = IF i = e THEN heap.node[m].val ELSE f[i]
    <3>1. CASE i = e
      BY <1>4, <1>5, <2>1, <3>1
    <3>2. CASE i # e
      <4>1. i \in 1 .. d /\ h + i \in 1 .. n
        BY <1>2, <2>1, <3>2
      <4>. QED  BY <1>1, <1>5, <2>2, <3>2, <4>1
    <3>. QED  BY <3>1, <3>2
  <2>5. Values(k, z, h)' = [i \in 1 .. e |-> heap'.node[z[h + i]].val]
    BY <2>1 DEF Values
  <2> HIDE DEF f, e
  <2>6. Values(k, z, h)' = Append(f, heap.node[m].val)
    BY <2>3, <2>4, <2>5
  <2>. QED  BY <2>6 DEF f
<1>. QED  BY <1>4, <1>9, <1>10

(* The head moves to the next node. *)
LEMMA RowAdvances ==
  ASSUME QueueInv, NEW n \in Nat, NEW o, NEW h, Row(n, o, h), next[heap.head.ptr] # Null,
         Linked' = Linked, next' = next, heap'.head.ptr = next[heap.head.ptr], heap'.node = heap.node
  PROVE  /\ h + 1 \in Nat /\ Row(n, o, h + 1)' /\ Values(n, o, h) # <<>>
         /\ Head(Values(n, o, h)) = heap.node[next[heap.head.ptr]].val
         /\ Tail(Values(n, o, h)) = Values(n, o, h + 1)'
<1>1. h \in 1 .. n /\ h # n /\ o[h + 1] = next[heap.head.ptr]
  BY DEF Row
<1>2. PICK k \in Nat, m \in Nat : k = h + 1 /\ k \in 1 .. n /\ m = n - k /\ n - h = m + 1
  BY <1>1
<1>3. Row(n, o, k)'
  BY <1>1, <1>2 DEF Row
<1> DEFINE f == Values(n, o, h)
<1>4. f = [i \in 1 .. m + 1 |-> f[i]] /\ \A i \in 1 .. m + 1 : f[i] = heap.node[o[h + i]].val
  BY <1>2 DEF Values
<1>5. Values(n, o, k)' = [i \in 1 .. m |-> heap.node[o[k + i]].val]
  BY <1>2 DEF Values
<1> HIDE DEF f
<1>6. f # <<>> /\ Head(f) = f[1] /\ Tail(f) = [i \in 1 .. m |-> f[i + 1]]
  BY <1>4, SeqShorter
<1>7. \A i \in 1 .. m : f[i + 1] = heap.node[o[k + i]].val
  <2>1. SUFFICES ASSUME NEW i \in 1 .. m PROVE f[i + 1] = heap.node[o[k + i]].val
    OBVIOUS
  <2>2. i + 1 \in 1 .. m + 1 /\ h + (i + 1) = k + i
    BY <1>1, <1>2
  <2>. QED  BY <1>4, <2>2
<1>8. f[1] = heap.node[next[heap.head.ptr]].val
  <2>1. 1 \in 1 .. m + 1
    OBVIOUS
  <2>. QED  BY <1>1, <1>4, <2>1
<1>. QED  BY <1>2, <1>3, <1>5, <1>6, <1>7, <1>8 DEF f

(* When the head has no successor the queue is empty. *)
LEMMA RowEmpty ==
  ASSUME QueueInv, NEW n \in Nat, NEW o, NEW h, Row(n, o, h), next[heap.head.ptr] = Null
  PROVE  Values(n, o, h) = <<>>
<1>1. \A i \in 1 .. n : o[i] # Null
  BY NodeNamesAssumption DEF Row, Linked, QueueInv, List, NodesOK
<1>2. h = n
  <2>1. SUFFICES ASSUME h # n PROVE FALSE
    OBVIOUS
  <2>2. h \in 1 .. n /\ h + 1 \in 1 .. n
    BY <2>1 DEF Row
  <2>. QED  BY <1>1, <2>1, <2>2 DEF Row
<1>3. n - h = 0
  BY <1>2
<1> DEFINE f == Values(n, o, h)
<1>4. f = [i \in 1 .. 0 |-> f[i]]
  BY <1>3 DEF Values
<1> HIDE DEF f
<1>5. f = <<>>
  BY <1>4, SeqNone
<1>. QED  BY <1>5 DEF f
-----------------------------------------------------------------------------
(* The operators of CASLockFreeQueue are those of ThreadSteps. *)
LEMMA CASAnswer == \A t, ret : CAS!Answer(t, ret) <=> Answer(t, ret)
<1>1. \A c, t : CAS!TakeEffect(c, t) = TakeEffect(c, t)
  BY DEF CAS!TakeEffect, TakeEffect, CAS!Effect, Effect, CAS!Outcome, Outcome
<1>2. \A c, s : CAS!TakeEffects(c, s) = TakeEffects(c, s)
  BY <1>1 DEF CAS!TakeEffects, TakeEffects, CAS!MapThenFoldSet, MapThenFoldSet, CAS!Max, Max
<1>3. \A S : CAS!Orders(S) = Orders(S)
  BY DEF CAS!Orders, Orders, CAS!Bijection, Bijection, CAS!Injection, Injection,
         CAS!Surjection, Surjection, CAS!IsInjective, IsInjective, CAS!Cardinality, Cardinality
<1>4. \A c, t : CAS!Explained(c, t) = Explained(c, t)
  BY <1>1, <1>2, <1>3 DEF CAS!Explained, Explained, CAS!Pending, Pending, CAS!Nothing, Nothing
<1>. QED  BY <1>4, ZenonT(60) DEF CAS!Answer, Answer, CAS!Nothing, Nothing

LEMMA CASReturn ==
  ASSUME NEW t, NEW ret, CAS!Return(t, ret)
  PROVE  Answer(t, ret) /\ pc' = [pc EXCEPT ![t] = "idle"]
BY CASAnswer DEF CAS!Return, CAS!Goto

(* What enq and deq promise. *)
LEMMA EnqEffect ==
  ASSUME NEW p, NEW t, call[t].op = "enq"
  PROVE  LET e == TakeEffect(p, t) IN
         /\ e.state = Append(p.state, key(t)) /\ DOMAIN e.ret = DOMAIN p.ret \cup {t} /\ e.ret[t] = key(t)
         /\ \A u \in DOMAIN p.ret \ {t} : e.ret[u] = p.ret[u]
<1>1. Effect(p.state, call[t]) = [state |-> Append(p.state, key(t)), ret |-> key(t)]
  BY DEF Effect, Outcome, key
<1>. QED  BY <1>1 DEF TakeEffect

LEMMA DeqEffect ==
  ASSUME NEW p, NEW t, call[t].op = "deq"
  PROVE  LET e == TakeEffect(p, t) IN
         /\ p.state = <<>> => e.state = p.state /\ e.ret[t] = 0
         /\ p.state # <<>> => e.state = Tail(p.state) /\ e.ret[t] = Head(p.state)
         /\ DOMAIN e.ret = DOMAIN p.ret \cup {t}
         /\ \A u \in DOMAIN p.ret \ {t} : e.ret[u] = p.ret[u]
<1>1. Effect(p.state, call[t]) = IF p.state = <<>> THEN [state |-> p.state, ret |-> 0]
                                 ELSE [state |-> Tail(p.state), ret |-> Head(p.state)]
  BY DEF Effect, Outcome
<1>. QED  BY <1>1 DEF TakeEffect

(* A step that no other call notices.  A deq may just have found the queue  *)
(* empty; then it may take effect now.                                      *)
LEMMA Unnoticed ==
  ASSUME QueueInv, Explaining, NEW t \in Threads, Alone(t), call' = call, configs' = configs,
         heap'.head = heap.head, heap'.node = heap.node, pc[t] # "swing", pc'[t] # "swing",
         t \in Empties' => t \in Empties \/ (call[t].op = "deq" /\ next[heap.head.ptr] = Null),
         pc'[t] = "advance" => my'[t].val = heap.node[my'[t].next.ptr].val
  PROVE  Explaining'
<1>1. ValuesOK'
  <2>1. Linking(t)' => heap'.node[new(t)'].val = key(t)'
    BY DEF Explaining, ValuesOK, Linking, new, key
  <2>. QED  BY <2>1, ValuesKept DEF Explaining
<1>2. PICK n \in Nat : \E o, h : Row(n, o, h) /\
        \A F \in SUBSET Empties : \E p : Possible(p) /\ Fits(p, Values(n, o, h), F)
  BY DEF Explaining, QueueExplained
<1>3. PICK o, h : Row(n, o, h) /\
        \A F \in SUBSET Empties : \E p : Possible(p) /\ Fits(p, Values(n, o, h), F)
  BY <1>2
<1>4. Linked' = Linked /\ next' = next
  <2>1. Unlinked' = Unlinked
    BY SameUnlinked DEF Linking
  <2>. QED  BY <2>1 DEF Linked, next
<1>5. Row(n, o, h)' /\ Values(n, o, h)' = Values(n, o, h)
  BY <1>3, <1>4, RowStays
<1>6. /\ Swinging' = Swinging /\ Empties' \ {t} = Empties \ {t} /\ \A u : key(u)' = key(u)
      /\ Empties \subseteq Threads /\ t \notin Swinging
  BY OthersFound DEF Swinging, Empties, key
<1>7. ASSUME NEW F \in SUBSET Empties' PROVE \E p : Possible(p)' /\ Fits(p, Values(n, o, h), F)
  <2>1. ASSUME NEW p, Possible(p) PROVE Possible(p)'
    BY <2>1, PossibleStays
  <2>2. CASE F \subseteq Empties
    BY <1>3, <2>1, <2>2
  <2>3. CASE ~(F \subseteq Empties)
    <3>1. /\ t \in F /\ t \notin Empties /\ F \ {t} \in SUBSET Empties
          /\ call[t].op = "deq" /\ next[heap.head.ptr] = Null
      BY <1>6, <2>3
    <3>2. PICK p : Possible(p) /\ Fits(p, Values(n, o, h), F \ {t})
      BY <1>3, <3>1
    <3>3. Values(n, o, h) = <<>>
      BY <1>3, <3>1, RowEmpty
    <3>4. PICK e : e = TakeEffect(p, t)
      OBVIOUS
    <3>5. /\ e.state = p.state /\ e.ret[t] = 0 /\ DOMAIN e.ret = DOMAIN p.ret \cup {t}
          /\ \A u \in DOMAIN p.ret \ {t} : e.ret[u] = p.ret[u]
      BY <3>1, <3>2, <3>3, <3>4, DeqEffect DEF Fits
    <3>6. t \in Pending /\ t \notin DOMAIN p.ret
      BY <1>6, <3>1, <3>2 DEF Pending, Nothing, Fits
    <3>7. Possible(e)'
      BY <2>1, <3>2, <3>6, <3>4, PossibleNext
    <3>8. Fits(e, Values(n, o, h), F)
      <4>1. e.state = Values(n, o, h) /\ DOMAIN e.ret = Swinging \cup F
        BY <3>1, <3>2, <3>5 DEF Fits
      <4>2. \A u \in Swinging : e.ret[u] = key(u)
        BY <1>6, <3>2, <3>5 DEF Fits
      <4>3. \A u \in F : e.ret[u] = 0
        BY <3>1, <3>2, <3>5 DEF Fits
      <4>. QED  BY <4>1, <4>2, <4>3 DEF Fits
    <3>. QED  BY <3>7, <3>8
  <2>. QED  BY <2>2, <2>3
<1>8. \A p, v, F : Fits(p, v, F)' <=> Fits(p, v, F)
  BY <1>6 DEF Fits
<1>9. QueueExplained'
  BY <1>5, <1>7, <1>8 DEF QueueExplained
<1>. QED  BY <1>1, <1>9 DEF Explaining

(* A call that has taken effect returns. *)
LEMMA FittingAnswer ==
  ASSUME QueueInv, NEW t \in Threads, Alone(t), pc'[t] = "idle", call[t] # Nothing,
         NEW p, Possible(p), t \in DOMAIN p.ret, NEW F \in SUBSET (Threads \ {t}),
         DOMAIN p.ret \ {t} = (Swinging \ {t}) \cup F, Answer(t, p.ret[t]),
         \A u \in Swinging \ {t} : p.ret[u] = key(u), \A u \in F : p.ret[u] = 0
  PROVE  \E d : Possible(d)' /\ Fits(d, p.state, F)'
<1> DEFINE d == Dropped(p, t)
<1>1. Possible(d)'
  BY PossibleAnswer DEF Pending, QueueInv, CallsOK
<1>2. /\ d.state = p.state /\ DOMAIN d.ret = DOMAIN p.ret \ {t}
      /\ \A u \in DOMAIN d.ret : d.ret[u] = p.ret[u]
  BY DEF Dropped
<1>3. Swinging' = Swinging \ {t} /\ \A u \in Threads \ {t} : key(u)' = key(u)
  <2>1. t \notin Swinging'
    BY DEF Swinging
  <2>. QED  BY <2>1, OthersFound DEF Swinging
<1> HIDE DEF d
<1>4. DOMAIN d.ret = Swinging' \cup F
  BY <1>2, <1>3
<1>5. \A u \in Swinging' : d.ret[u] = key(u)'
  BY <1>2, <1>3, <1>4 DEF Swinging
<1>6. \A u \in F : d.ret[u] = 0
  BY <1>2, <1>4
<1>7. Fits(d, p.state, F)'
  BY <1>2, <1>4, <1>5, <1>6 DEF Fits
<1>. QED  BY <1>1, <1>7

LEMMA LinkExplains ==
  ASSUME QueueInv, Explaining, NEW t \in Threads, pc[t] = "enq", CAS!enq(t),
         my[t].next.ptr = Null, heap.node[my[t].tail.ptr].next = my[t].next
  PROVE  Explaining'
<1>. DEFINE x == my[t].tail.ptr
<1>1. /\ call[t].op = "enq" /\ Seen(t) /\ my' = my /\ x \in Linked /\ x \in DOMAIN heap.node
      /\ new(t) \in DOMAIN heap.node
  BY DEF QueueInv, CAS!enq, CAS!At, CAS!Help, CallsOK, Call1, DeqLabels, AfterHead, AfterTail, AfterNext, Nothing,
         Seen, TailSeen, Linked
<1>2. /\ heap' = [heap EXCEPT !.node[x].next = CAS!pointer(new(t), my[t].next.count + 1)]
      /\ Alone(t) /\ pc'[t] = "swing" /\ my'[t] = my[t] /\ call' = call /\ made' = made /\ configs' = configs
  BY <1>1 DEF QueueInv, CAS!enq, CAS!Goto, CAS!Internal, CAS!callVars, CAS!q, CAS!new, new, CallsOK, Alone
<1>3. next[x] = Null
  BY <1>1 DEF next
<1>4. new(t) \in Unlinked /\ Unlinked' = Unlinked \ {new(t)}
  BY <1>1, <1>2 DEF QueueInv, Unlinked, Linking, new, Alone, CallsOK, OwnNodes
<1>5. /\ heap'.head = heap.head /\ Linked' = Linked \cup {new(t)}
      /\ next' = [n \in DOMAIN next |-> IF n = x THEN new(t) ELSE next[n]]
      /\ \A n \in DOMAIN heap.node : n \in DOMAIN heap'.node /\ heap'.node[n].val = heap.node[n].val
  <2>1. List
    BY DEF QueueInv
  <2> HIDE DEF x
  <2>. QED  BY <1>1, <1>2, <1>3, <1>4, <2>1, NodeLinked
<1>6. new(t) \notin Linked /\ next[new(t)] = Null
  BY <1>4 DEF Linked, QueueInv, List, NodesOK
<1>7. heap.node[new(t)].val = key(t)
  BY <1>1 DEF Explaining, ValuesOK, Linking
<1>8. PICK n \in Nat : \E o, h : Row(n, o, h) /\
        \A F \in SUBSET Empties : \E p : Possible(p) /\ Fits(p, Values(n, o, h), F)
  BY DEF Explaining, QueueExplained
<1>9. PICK o, h : Row(n, o, h) /\
        \A F \in SUBSET Empties : \E p : Possible(p) /\ Fits(p, Values(n, o, h), F)
  BY <1>8
<1>10. PICK v : v = Append(Values(n, o, h), key(t))
  OBVIOUS
<1>11. PICK z : Row(n + 1, z, h)' /\ Values(n + 1, z, h)' = v
  <2>1. PICK m, y : m = new(t) /\ y = x
    OBVIOUS
  <2>2. /\ y \in Linked /\ next[y] = Null /\ m \notin Linked /\ m \in DOMAIN heap.node /\ next[m] = Null
        /\ Linked' = Linked \cup {m} /\ next' = [i \in DOMAIN next |-> IF i = y THEN m ELSE next[i]]
        /\ heap'.head = heap.head /\ heap.node[m].val = key(t)
        /\ \A i \in DOMAIN heap.node : i \in DOMAIN heap'.node /\ heap'.node[i].val = heap.node[i].val
    BY <1>1, <1>3, <1>5, <1>6, <1>7, <2>1
  <2> HIDE DEF x
  <2>3. QueueInv /\ n \in Nat /\ Row(n, o, h)
    BY <1>9
  <2>4. \E z : Row(n + 1, z, h)' /\ Values(n + 1, z, h)' = Append(Values(n, o, h), heap.node[m].val)
    BY ONLY <2>2, <2>3, RowGrows
  <2>5. v = Append(Values(n, o, h), heap.node[m].val)
    BY <1>10, <2>2
  <2>. QED  BY <2>4, <2>5
<1>12. /\ Swinging' = Swinging \cup {t} /\ Empties' = Empties /\ \A u : key(u)' = key(u)
       /\ Empties \subseteq Threads /\ t \notin Swinging /\ t \notin Empties
  <2>1. t \in Swinging' /\ t \notin Empties' /\ t \notin Swinging /\ t \notin Empties
    BY <1>1, <1>2 DEF Swinging, Empties, FoundEmpty
  <2>2. \A u : key(u)' = key(u)
    BY <1>2 DEF key
  <2>. QED  BY <1>2, <1>5, <2>1, <2>2, OthersFound DEF Swinging, Empties
<1>13. ASSUME NEW F \in SUBSET Empties'
       PROVE  \E p : Possible(p)' /\ Fits(p, v, F)'
  <2>1. PICK p : Possible(p) /\ Fits(p, Values(n, o, h), F)
    BY <1>9, <1>12
  <2>2. PICK e : e = TakeEffect(p, t)
    OBVIOUS
  <2>3. /\ e.state = Append(p.state, key(t)) /\ DOMAIN e.ret = DOMAIN p.ret \cup {t} /\ e.ret[t] = key(t)
        /\ \A u \in DOMAIN p.ret \ {t} : e.ret[u] = p.ret[u]
    BY <1>1, <2>2, EnqEffect
  <2>4. t \in Pending /\ t \notin DOMAIN p.ret
    BY <1>1, <1>12, <2>1 DEF Pending, Nothing, Fits
  <2>5. Possible(e)'
    BY <1>2, <2>1, <2>2, <2>4, PossibleNext, PossibleStays
  <2>6. e.state = v /\ DOMAIN e.ret = Swinging' \cup F
    BY <1>10, <1>12, <2>1, <2>3 DEF Fits
  <2>7. (\A u \in Swinging' : e.ret[u] = key(u)') /\ \A u \in F : e.ret[u] = 0
    BY <1>12, <2>1, <2>3, <2>4 DEF Fits
  <2>8. Fits(e, v, F)'
    BY <2>6, <2>7 DEF Fits
  <2>. QED  BY <2>5, <2>8
<1>14. QueueExplained'
  <2>1. n + 1 \in Nat
    OBVIOUS
  <2>. QED  BY <1>11, <1>13, <2>1 DEF QueueExplained
<1>15. ValuesOK'
  <2>1. ~Linking(t)' /\ pc'[t] # "advance"
    BY <1>2 DEF Linking
  <2>. QED  BY <1>2, <1>5, <2>1, ValuesKept DEF Explaining
<1>. QED  BY <1>14, <1>15 DEF Explaining

(* The return of a call that has taken effect leaves the queue as it is. *)
LEMMA ReturnExplains ==
  ASSUME QueueInv, Explaining, NEW t \in Threads, t \in Swinging \cup Empties,
         NEW ret, ret = (IF t \in Swinging THEN key(t) ELSE 0), CAS!Return(t, ret),
         heap'.head = heap.head, heap'.node = heap.node
  PROVE  Explaining'
<1>1. /\ Alone(t) /\ ~Linking(t) /\ Unlinked' = Unlinked /\ call[t] # Nothing
      /\ Answer(t, ret) /\ pc'[t] = "idle" /\ call'[t] = Nothing
      /\ (t \in Swinging => t \notin Empties)
  <2>1. ~Linking(t) /\ call[t] # Nothing /\ (t \in Swinging => t \notin Empties)
    BY DEF Linking, Swinging, Empties, FoundEmpty, QueueInv, CallsOK, Call1, Nothing
  <2>2. CallsOK
    BY DEF QueueInv
  <2>. QED  BY <2>1, <2>2, Returned, CASReturn DEF CallsOK
<1>2. Linked' = Linked /\ next' = next
  BY <1>1 DEF Linked, next
<1>3. PICK n \in Nat : \E o, h : Row(n, o, h) /\
        \A F \in SUBSET Empties : \E p : Possible(p) /\ Fits(p, Values(n, o, h), F)
  BY DEF Explaining, QueueExplained
<1>4. PICK o, h : Row(n, o, h) /\
        \A F \in SUBSET Empties : \E p : Possible(p) /\ Fits(p, Values(n, o, h), F)
  BY <1>3
<1>5. PICK v : v = Values(n, o, h)
  OBVIOUS
<1>6. Row(n, o, h)' /\ Values(n, o, h)' = v
  BY <1>2, <1>4, <1>5, RowStays
<1>7. Empties' = Empties \ {t} /\ Empties \subseteq Threads /\ Swinging \subseteq Threads
  <2>1. t \notin Empties'
    BY <1>1 DEF Empties, FoundEmpty
  <2>. QED  BY <1>1, <2>1, OthersFound DEF Empties, Swinging
<1>8. ASSUME NEW F \in SUBSET Empties' PROVE \E p : Possible(p)' /\ Fits(p, v, F)'
  <2>1. PICK p : Possible(p) /\ Fits(p, v, F \cup (Empties \cap {t}))
    BY <1>4, <1>5, <1>7
  <2>2. /\ p.state = v /\ t \in DOMAIN p.ret /\ p.ret[t] = ret /\ F \in SUBSET (Threads \ {t})
        /\ DOMAIN p.ret \ {t} = (Swinging \ {t}) \cup F
        /\ (\A u \in Swinging \ {t} : p.ret[u] = key(u)) /\ \A u \in F : p.ret[u] = 0
    BY <1>1, <1>7, <2>1 DEF Fits
  <2>3. \E d : Possible(d)' /\ Fits(d, p.state, F)'
    BY <1>1, <2>1, <2>2, FittingAnswer
  <2>. QED  BY <2>2, <2>3
<1>9. QueueExplained'
  BY <1>6, <1>8 DEF QueueExplained
<1>10. ValuesOK'
  BY <1>1, ValuesKept DEF Explaining, Linking, Nothing
<1>. QED  BY <1>9, <1>10 DEF Explaining

LEMMA AdvanceExplains ==
  ASSUME QueueInv, Explaining, NEW t \in Threads, pc[t] = "advance", CAS!Advance(t), heap.head = my[t].head
  PROVE  Explaining'
<1>1. /\ call[t].op = "deq" /\ Seen(t) /\ ~Linking(t) /\ call[t] # Nothing
      /\ my[t].next.ptr = next[heap.head.ptr] /\ my[t].next.ptr # Null
      /\ my[t].val = heap.node[my[t].next.ptr].val
  <2>1. call[t].op = "deq" /\ my[t].next.ptr \in Linked /\ my[t].next.ptr = next[heap.head.ptr]
    BY NextNode
  <2>2. Null \notin Linked
    BY NodeNamesAssumption DEF QueueInv, List, NodesOK, Linked
  <2>. QED  BY <2>1, <2>2 DEF QueueInv, Linking, Nothing, Explaining, ValuesOK
<1>2. /\ heap' = [heap EXCEPT !.head = CAS!pointer(my[t].next.ptr, my[t].head.count + 1)]
      /\ CAS!Return(t, my[t].val)
  BY DEF CAS!Advance, CAS!q
<1>3. /\ Alone(t) /\ Unlinked' = Unlinked /\ pc'[t] = "idle" /\ call'[t] = Nothing /\ Answer(t, my[t].val)
  <2>1. CallsOK
    BY DEF QueueInv
  <2>. QED  BY <1>1, <1>2, <2>1, Returned, CASReturn DEF CallsOK
<1>4. heap'.node = heap.node /\ heap'.head.ptr = next[heap.head.ptr] /\ heap'.head.count = heap.head.count + 1
  BY <1>1, <1>2 DEF QueueInv, List, NodesOK, CAS!pointer
<1>5. Linked' = Linked /\ next' = next
  BY <1>3, <1>4 DEF Linked, next
<1>6. PICK n \in Nat : \E o, h : Row(n, o, h) /\
        \A F \in SUBSET Empties : \E p : Possible(p) /\ Fits(p, Values(n, o, h), F)
  BY DEF Explaining, QueueExplained
<1>7. PICK o, h : Row(n, o, h) /\
        \A F \in SUBSET Empties : \E p : Possible(p) /\ Fits(p, Values(n, o, h), F)
  BY <1>6
<1>8. PICK v : v = Values(n, o, h)
  OBVIOUS
<1>9. /\ Row(n, o, h + 1)' /\ v # <<>> /\ Head(v) = my[t].val
      /\ Tail(v) = Values(n, o, h + 1)'
  BY <1>1, <1>4, <1>5, <1>7, <1>8, RowAdvances
<1>10. Empties' \subseteq Empties \ {t} /\ t \notin Swinging /\ t \notin Empties /\ Empties \subseteq Threads
  <2>1. t \notin Empties' /\ t \notin Swinging /\ t \notin Empties
    BY <1>3 DEF Empties, FoundEmpty, Swinging
  <2>2. ASSUME NEW u \in Threads \ {t}, u \in Empties' PROVE u \in Empties
    <3>1. call'[u] = call[u] /\ pc'[u] = pc[u] /\ my'[u] = my[u]
      BY <1>3 DEF Alone
    <3>2. call[u].op = "deq" /\ pc[u] \in {"same_count", "same_ptr", "deq"} /\ my[u].next.ptr = Null
      BY <2>2, <3>1 DEF Empties, FoundEmpty
    <3>3. pc[u] # "same_count"
      <4>1. my[u].head.count \in Nat /\ my[u].head.count <= heap.head.count /\ heap.head.count \in Nat
        BY <3>2 DEF QueueInv, Seen, HeadSeen, List, NodesOK
      <4>2. pc[u] = "same_count" => my[u].head.count = heap.head.count + 1
        BY <1>4, <2>2, <3>1 DEF Empties, FoundEmpty, SameHead
      <4>. QED  BY <4>1, <4>2
    <3>. QED  BY <3>2, <3>3 DEF Empties, FoundEmpty
  <2>. QED  BY <2>1, <2>2 DEF Empties
<1>11. ASSUME NEW F \in SUBSET Empties' PROVE \E p : Possible(p)' /\ Fits(p, Tail(v), F)'
  <2>1. PICK p : Possible(p) /\ Fits(p, v, F)
    BY <1>7, <1>8, <1>10
  <2>2. PICK e : e = TakeEffect(p, t)
    OBVIOUS
  <2>3. /\ e.state = Tail(v) /\ e.ret[t] = my[t].val /\ DOMAIN e.ret = DOMAIN p.ret \cup {t}
        /\ \A u \in DOMAIN p.ret \ {t} : e.ret[u] = p.ret[u]
    <3>1. p.state = v /\ v # <<>> /\ Head(v) = my[t].val
      BY <1>9, <2>1 DEF Fits
    <3>2. /\ p.state # <<>> => e.state = Tail(p.state) /\ e.ret[t] = Head(p.state)
          /\ DOMAIN e.ret = DOMAIN p.ret \cup {t}
          /\ \A u \in DOMAIN p.ret \ {t} : e.ret[u] = p.ret[u]
      BY <1>1, <2>2, DeqEffect
    <3>. QED  BY <3>1, <3>2
  <2>4. t \in Pending /\ t \notin DOMAIN p.ret
    BY <1>1, <1>10, <2>1 DEF Pending, Fits
  <2>5. Possible(e)
    BY <2>1, <2>2, <2>4, PossibleNext
  <2>6. /\ F \in SUBSET (Threads \ {t}) /\ t \in DOMAIN e.ret /\ Answer(t, e.ret[t])
        /\ DOMAIN e.ret \ {t} = (Swinging \ {t}) \cup F
        /\ (\A u \in Swinging \ {t} : e.ret[u] = key(u)) /\ \A u \in F : e.ret[u] = 0
    BY <1>3, <1>10, <2>1, <2>3 DEF Fits
  <2>7. \E d : Possible(d)' /\ Fits(d, e.state, F)'
    BY <1>1, <1>3, <2>5, <2>6, FittingAnswer
  <2>. QED  BY <2>3, <2>7
<1>12. QueueExplained'
  BY <1>9, <1>11 DEF QueueExplained
<1>13. ValuesOK'
  BY <1>3, <1>4, ValuesKept DEF Explaining, Linking, Nothing
<1>. QED  BY <1>12, <1>13 DEF Explaining

(* The steps in which a call only looks, and the help that it gives.        *)
LEMMA LookExplains ==
  ASSUME QueueInv, Explaining, NEW t \in Threads, Alone(t), UNCHANGED heap, UNCHANGED callVars,
         pc[t] # "swing", pc'[t] \notin {"swing", "advance"}, pc'[t] \notin {"same_count", "same_ptr", "deq"}
  PROVE  Explaining'
<1>1. call' = call /\ configs' = configs /\ heap' = heap /\ t \notin Empties'
  BY DEF callVars, Empties, FoundEmpty
<1>. QED  BY <1>1, Unnoticed

LEMMA AgainExplains ==
  ASSUME QueueInv, Explaining, NEW t \in Threads, CAS!Again(t), my' = my, pc[t] # "swing"
  PROVE  Explaining'
<1>1. Alone(t) /\ pc'[t] \in {"tail", "head"} /\ UNCHANGED heap /\ UNCHANGED callVars
  BY SetNothing DEF CAS!Again, QueueInv
<1>. QED  BY <1>1, LookExplains

LEMMA HelpExplains ==
  ASSUME QueueInv, Explaining, NEW t \in Threads, CAS!Help(t), pc[t] # "swing"
  PROVE  Explaining'
<1>1. Alone(t) /\ pc'[t] \in {"tail", "head"} /\ call' = call /\ configs' = configs
  BY DEF CAS!Help, CAS!Goto, CAS!Internal, CAS!callVars, QueueInv, CallsOK, Alone
<1>2. heap'.node = heap.node /\ heap'.head = heap.head
  BY DEF CAS!Help, CAS!casTail, CAS!q, QueueInv, List, NodesOK
<1>3. t \notin Empties'
  BY <1>1 DEF Empties, FoundEmpty
<1>. QED  BY <1>1, <1>2, <1>3, Unnoticed

LEMMA LoadExplains ==
  ASSUME QueueInv, Explaining, NEW t \in Threads, CAS!LoadHead(t) \/ CAS!LoadTail(t) \/ CAS!LoadNext(t)
  PROVE  Explaining'
<1>1. CallsOK
  BY DEF QueueInv
<1>2. ASSUME NEW l \in {"head.ptr", "tail", "tail.ptr", "next", "next.ptr"}, NEW v, CAS!Set(t, v), CAS!Local(t, l),
             pc[t] # "swing"
      PROVE  Explaining'
  <2>1. Alone(t) /\ pc'[t] = l /\ UNCHANGED heap /\ UNCHANGED callVars
    BY <1>1, <1>2, SetLocal
  <2>. QED  BY <1>2, <2>1, LookExplains
<1>3. CASE CAS!LoadHead(t)
  BY <1>2, <1>3 DEF CAS!LoadHead, CAS!Load, CAS!At
<1>4. CASE CAS!LoadTail(t)
  BY <1>2, <1>4 DEF CAS!LoadTail, CAS!Load, CAS!At
<1>5. CASE CAS!LoadNext(t) /\ pc[t] = "next"
  BY <1>2, <1>5 DEF CAS!LoadNext, CAS!Load, CAS!At
<1>6. CASE CAS!LoadNext(t) /\ pc[t] = "next.ptr"
  <2> DEFINE node == CAS!LoadedNode(t)
  <2>1. /\ CAS!Set(t, [x \in {"next"} |-> CAS!pointer(heap.node[node].next.ptr, my[t]["next"].count)])
        /\ CAS!Local(t, "same_count")
    BY <1>6 DEF CAS!LoadNext, CAS!Load, CAS!At, CAS!q
  <2> HIDE DEF node
  <2>2. /\ Alone(t) /\ pc'[t] = "same_count" /\ UNCHANGED heap /\ UNCHANGED callVars
        /\ my'[t].next.ptr = heap.node[node].next.ptr
        /\ "head" \in DOMAIN my[t] => my'[t].head = my[t].head
    BY <1>1, <2>1, SetLocal DEF CAS!pointer
  <2>3. call' = call /\ configs' = configs /\ heap' = heap
    BY <2>2 DEF callVars
  <2>4. ASSUME t \in Empties' PROVE call[t].op = "deq" /\ next[heap.head.ptr] = Null
    <3>1. call[t].op = "deq" /\ my'[t].next.ptr = Null /\ my'[t].head.count = heap.head.count
      BY <2>2, <2>3, <2>4 DEF Empties, FoundEmpty, SameHead
    <3>2. /\ node = my[t].head.ptr /\ "head" \in DOMAIN my[t] /\ my[t].head.ptr \in Linked
          /\ SameHead(t) => my[t].head.ptr = heap.head.ptr
      BY <1>6, <3>1 DEF node, CAS!LoadedNode, QueueInv, Seen, HeadSeen, AfterHead, AfterTail
    <3>3. node = heap.head.ptr /\ node \in DOMAIN heap.node
      BY <2>2, <3>1, <3>2 DEF SameHead, Linked
    <3>. QED  BY <2>2, <3>1, <3>3 DEF next
  <2>. QED  BY <1>6, <2>2, <2>3, <2>4, Unnoticed
<1>. QED  BY <1>3, <1>4, <1>5, <1>6 DEF CAS!LoadNext, CAS!Load, CAS!At

LEMMA CompareExplains ==
  ASSUME QueueInv, Explaining, NEW t \in Threads, CAS!SameCount(t) \/ CAS!SamePtr(t)
  PROVE  Explaining'
<1>1. /\ pc[t] \in {"same_count", "same_ptr"} /\ my' = my /\ CallsOK /\ call[t].op \in {"enq", "deq"}
  BY DEF CAS!SameCount, CAS!SamePtr, CAS!At, QueueInv, CallsOK, Call1
<1>2. CASE CAS!Again(t)
  BY <1>1, <1>2, AgainExplains
<1>3. ASSUME NEW l \in {"same_ptr", "enq", "deq"}, CAS!Local(t, l), t \in Empties' => t \in Empties
      PROVE  Explaining'
  <2>1. Alone(t) /\ pc'[t] = l /\ my'[t] = my[t] /\ UNCHANGED heap /\ UNCHANGED callVars
    BY <1>1, <1>3, SetNothing
  <2>2. call' = call /\ configs' = configs /\ heap' = heap
    BY <2>1 DEF callVars
  <2>. QED  BY <1>1, <1>3, <2>1, <2>2, Unnoticed
<1>4. ASSUME NEW l, CAS!Local(t, l), t \in Empties', pc[t] = "same_count" => SameHead(t) \/ call[t].op = "enq"
      PROVE  t \in Empties
  <2>1. my'[t] = my[t] /\ call' = call
    BY <1>1, <1>4, SetNothing DEF callVars
  <2>. QED  BY <1>1, <1>4, <2>1 DEF Empties, FoundEmpty
<1>5. CASE CAS!SameCount(t) /\ CAS!Loaded(t).count = CAS!End(t).count
  <2>1. CAS!Local(t, "same_ptr") /\ (SameHead(t) \/ call[t].op = "enq")
    BY <1>1, <1>5 DEF CAS!SameCount, CAS!Loaded, CAS!End, CAS!q, SameHead
  <2>2. t \in Empties' => t \in Empties
    BY <1>4, <2>1
  <2>. QED  BY <1>3, <2>1, <2>2
<1>6. CASE CAS!SamePtr(t) /\ CAS!Loaded(t).ptr = CAS!End(t).ptr
  <2>1. CAS!Local(t, call[t].op) /\ pc[t] = "same_ptr"
    BY <1>6 DEF CAS!SamePtr, CAS!At
  <2>2. t \in Empties' => t \in Empties
    BY <1>4, <2>1
  <2>3. PICK l \in {"same_ptr", "enq", "deq"} : l = call[t].op
    BY <1>1
  <2>. QED  BY <1>3, <2>1, <2>2, <2>3
<1>. QED  BY <1>2, <1>5, <1>6 DEF CAS!SameCount, CAS!SamePtr

LEMMA EnqExplains == ASSUME QueueInv, Explaining, NEW t \in Threads, CAS!enq(t) PROVE Explaining'
<1>1. pc[t] = "enq"
  BY DEF CAS!enq, CAS!At
<1>2. CASE CAS!Help(t)
  BY <1>1, <1>2, HelpExplains
<1>3. CASE CAS!Again(t) /\ my' = my
  BY <1>1, <1>3, AgainExplains
<1>4. CASE my[t].next.ptr = Null /\ heap.node[my[t].tail.ptr].next = my[t].next
  BY <1>1, <1>4, LinkExplains
<1>. QED  BY <1>2, <1>3, <1>4 DEF CAS!enq, CAS!q

LEMMA SwingExplains == ASSUME QueueInv, Explaining, NEW t \in Threads, CAS!Swing(t) PROVE Explaining'
<1>1. t \in Swinging /\ CAS!Return(t, key(t))
  BY DEF CAS!Swing, CAS!At, Swinging, CAS!key, key
<1>2. heap'.node = heap.node /\ heap'.head = heap.head
  BY DEF CAS!Swing, CAS!casTail, CAS!q, QueueInv, List, NodesOK
<1>. QED  BY <1>1, <1>2, ReturnExplains

LEMMA DeqExplains == ASSUME QueueInv, Explaining, NEW t \in Threads, CAS!deq(t) PROVE Explaining'
<1>1. /\ pc[t] = "deq" /\ call[t].op = "deq" /\ CallsOK
      /\ "next" \in DOMAIN my[t]
  BY DEF CAS!deq, CAS!At, QueueInv, CallsOK, Call1, EnqLabels, AfterHead, AfterTail, AfterNext, Nothing, Seen, NextSeen
<1>2. CASE CAS!Help(t)
  BY <1>1, <1>2, HelpExplains
<1>3. CASE my[t].next.ptr = Null /\ CAS!Return(t, 0) /\ UNCHANGED heap
  <2>1. t \in Empties /\ t \notin Swinging
    BY <1>1, <1>3 DEF Empties, FoundEmpty, Swinging
  <2>. QED  BY <1>3, <2>1, ReturnExplains
<1>4. ASSUME CAS!Set(t, [val |-> heap.node[my[t].next.ptr].val]), CAS!Local(t, "advance")
      PROVE  Explaining'
  <2>1. /\ Alone(t) /\ pc'[t] = "advance" /\ UNCHANGED heap /\ UNCHANGED callVars
        /\ my'[t].next = my[t].next /\ my'[t].val = heap.node[my[t].next.ptr].val
    BY <1>1, <1>4, SetLocal
  <2>2. call' = call /\ configs' = configs /\ heap' = heap /\ t \notin Empties'
    BY <2>1 DEF callVars, Empties, FoundEmpty
  <2>. QED  BY <1>1, <2>1, <2>2, Unnoticed
<1>5. my[t].head.ptr # my[t].tail.ptr => my[t].next.ptr # Null
  BY <1>1 DEF QueueInv, Seen, NextSeen, AfterNext, Apart
<1>. QED  BY <1>2, <1>3, <1>4, <1>5 DEF CAS!deq, CAS!q

LEMMA CallExplains ==
  ASSUME QueueInv, Explaining, NEW t \in Threads, NEW op \in {"enq", "deq"}, CAS!Call(t, op, made + 1)
  PROVE  Explaining'
<1>1. PICK m : m = made + 1
  OBVIOUS
<1>2. /\ Alone(t) /\ my'[t] = my[t] /\ call[t] = Nothing /\ configs' = configs
      /\ pc'[t] = (IF op = "enq" THEN "tail" ELSE "head")
      /\ call'[t] = [op |-> op, key |-> m, no |-> m]
  BY <1>1 DEF CAS!Call, CAS!Enter, CAS!Invoke, CAS!Goto, CAS!Nothing, Nothing, QueueInv, CallsOK, Alone
<1>3. heap' = IF op = "enq" THEN [heap EXCEPT !.node = CAS!WithNode(m, CAS!create_node(m))] ELSE heap
  BY <1>1 DEF CAS!Call, CAS!q
<1>4. /\ heap'.head = heap.head /\ Linked' = Linked /\ \A n \in DOMAIN next : next'[n] = next[n]
      /\ \A n \in DOMAIN heap.node : n \in DOMAIN heap'.node /\ heap'.node[n].val = heap.node[n].val
      /\ Linking(t)' => heap'.node[new(t)'].val = key(t)'
  <2>1. CASE op = "enq"
    <3>1. Unlinked' = Unlinked \cup {m}
      BY <1>2, <2>1 DEF Unlinked, Linking, new, Nothing, Alone
    <3>2. made \in Nat /\ made' = m /\ m \in 1 .. made' /\ m \notin 1 .. made /\ 1 .. made \subseteq 1 .. made'
      BY <1>1 DEF CAS!Call, CAS!Enter, CAS!Invoke, QueueInv, CallsOK
    <3>3. m \notin DOMAIN heap.node /\ m # Null /\ {m} \cup DOMAIN heap.node \subseteq {Dummy} \cup (1 .. made')
      BY <3>2, NodeNamesAssumption DEF QueueInv, List, NodesOK
    <3>4. /\ heap'.head = heap.head /\ Linked' = Linked /\ \A n \in DOMAIN next : next'[n] = next[n]
          /\ \A n \in DOMAIN heap.node : n \in DOMAIN heap'.node /\ heap'.node[n] = heap.node[n]
          /\ heap'.node[m].val = m
      BY <1>3, <2>1, <3>1, <3>3, NodeCreated DEF QueueInv
    <3>. QED  BY <1>2, <3>4 DEF key, new
  <2>2. CASE op = "deq"
    <3>1. heap' = heap /\ ~Linking(t)' /\ ~Linking(t)
      BY <1>2, <1>3, <2>2 DEF Linking, Nothing
    <3>2. Unlinked' = Unlinked
      BY <1>2, <3>1, SameUnlinked
    <3>. QED  BY <3>1, <3>2 DEF Linked, next
  <2>. QED  BY <2>1, <2>2
<1>5. PICK n \in Nat : \E o, h : Row(n, o, h) /\
        \A F \in SUBSET Empties : \E p : Possible(p) /\ Fits(p, Values(n, o, h), F)
  BY DEF Explaining, QueueExplained
<1>6. PICK o, h : Row(n, o, h) /\
        \A F \in SUBSET Empties : \E p : Possible(p) /\ Fits(p, Values(n, o, h), F)
  BY <1>5
<1>7. PICK v : v = Values(n, o, h)
  OBVIOUS
<1>8. Row(n, o, h)' /\ Values(n, o, h)' = v
  <2>1. \A x \in Linked : next'[x] = next[x]
    BY <1>4 DEF Linked, next
  <2>. QED  BY <1>4, <1>6, <1>7, <2>1, RowStays
<1>9. Swinging' = Swinging /\ Empties' = Empties /\ \A u \in Threads \ {t} : key(u)' = key(u)
  <2>1. t \notin Swinging' /\ t \notin Empties' /\ t \notin Swinging /\ t \notin Empties
    BY <1>2 DEF Swinging, Empties, FoundEmpty, Nothing, QueueInv, CallsOK, Call1
  <2>. QED  BY <1>2, <1>4, <2>1, OthersFound DEF Swinging, Empties
<1>10. \A u \in Pending : call'[u] = call[u]
  BY <1>2 DEF Pending, Alone
<1>11. ASSUME NEW F \in SUBSET Empties' PROVE \E p : Possible(p)' /\ Fits(p, v, F)'
  <2>1. PICK p : Possible(p) /\ Fits(p, v, F)
    BY <1>6, <1>7, <1>9
  <2>2. Possible(p)'
    BY <1>2, <1>10, <2>1, PossibleStays
  <2>3. t \notin Swinging /\ Swinging \subseteq Threads
    BY <1>2 DEF Swinging, Nothing, QueueInv, CallsOK, Call1
  <2>4. Fits(p, v, F)'
    BY <1>9, <2>1, <2>3 DEF Fits
  <2>. QED  BY <2>2, <2>4
<1>12. QueueExplained'
  BY <1>8, <1>11 DEF QueueExplained
<1>13. ValuesOK'
  <2>1. pc'[t] # "advance"
    BY <1>2
  <2>. QED  BY <1>2, <1>4, <2>1, ValuesKept DEF Explaining
<1>. QED  BY <1>12, <1>13 DEF Explaining

LEMMA InitExplains == Init => (which = "cas" => Explaining)
<1>1. SUFFICES ASSUME which = "cas", CAS!Init PROVE Explaining
  BY DEF Init
<1>2. /\ call = [t \in Threads |-> Nothing] /\ pc = [t \in Threads |-> "idle"]
      /\ heap = [head |-> CAS!pointer(Dummy, 0), tail |-> CAS!pointer(Dummy, 0),
                 node |-> [n \in {Dummy} |-> CAS!create_node(Null)]]
      /\ configs = {[state |-> s, ret |-> <<>>] : s \in {<<>>}}
  BY <1>1 DEF CAS!Init, CAS!init_queue, CAS!Idle, CAS!NoCalls, CAS!Nothing, Nothing
<1>3. Swinging = {} /\ Empties = {} /\ Unlinked = {}
  BY <1>2 DEF Swinging, Empties, FoundEmpty, Unlinked, Linking, Nothing
<1>4. Linked = {Dummy} /\ next = [n \in {Dummy} |-> Null] /\ heap.head.ptr = Dummy
  BY <1>2, <1>3 DEF Linked, next, CAS!create_node, CAS!pointer
<1> DEFINE o == [i \in {1} |-> Dummy]
<1>5. o[1] = Dummy
  OBVIOUS
<1> HIDE DEF o
<1>6. 1 \in Nat /\ 1 .. 1 = {1} /\ 1 - 1 = 0
  OBVIOUS
<1>7. Row(1, o, 1)
  BY <1>4, <1>5, <1>6 DEF Row
<1> DEFINE v == Values(1, o, 1)
<1>8. v = <<>>
  <2>1. v = [i \in 1 .. 0 |-> v[i]]
    BY <1>6 DEF Values
  <2> HIDE DEF v
  <2>. QED  BY <2>1, SeqNone
<1>9. ASSUME NEW F \in SUBSET Empties PROVE \E p : Possible(p) /\ Fits(p, v, F)
  <2>1. PICK p \in configs : p.state = <<>> /\ DOMAIN p.ret = {}
    <3>1. PICK p \in configs : p = [state |-> <<>>, ret |-> <<>>]
      BY <1>2
    <3>2. DOMAIN <<>> = {}
      OBVIOUS
    <3>. QED  BY <3>1, <3>2
  <2>2. Fits(p, <<>>, F)
    BY <1>3, <1>9, <2>1 DEF Fits
  <2>. QED  BY <1>8, <2>1, <2>2, PossibleNow
<1>10. QueueExplained
  BY <1>6, <1>7, <1>9 DEF QueueExplained
<1>11. ValuesOK
  BY <1>2 DEF ValuesOK, Linking, Nothing
<1>. QED  BY <1>10, <1>11 DEF Explaining

LEMMA StepExplains ==
  ASSUME which = "cas", QueueInv, Explaining, [Next]_allVars
  PROVE  Explaining'
<1>1. CASE UNCHANGED vars
  <2>1. call' = call /\ made' = made /\ pc' = pc /\ my' = my /\ heap' = heap /\ configs' = configs
    BY <1>1 DEF vars, callVars
  <2>2. /\ Linked' = Linked /\ next' = next /\ Swinging' = Swinging /\ Empties' = Empties
        /\ \A u : key(u)' = key(u)
    BY <2>1 DEF Linked, Unlinked, Linking, new, next, Swinging, Empties, FoundEmpty, SameHead, key
  <2>3. \A n, o, h : Row(n, o, h)' <=> Row(n, o, h)
    BY <2>1, <2>2 DEF Row
  <2>4. \A n, o, h : Values(n, o, h)' = Values(n, o, h)
    BY <2>1 DEF Values
  <2>5. ASSUME NEW p, Possible(p) PROVE Possible(p)'
    BY <2>1, <2>5, PossibleStays
  <2>6. \A p, v, F : Fits(p, v, F)' <=> Fits(p, v, F)
    BY <2>2 DEF Fits
  <2>7. QueueExplained'
    <3>1. PICK n \in Nat : \E o, h : Row(n, o, h) /\
            \A F \in SUBSET Empties : \E p : Possible(p) /\ Fits(p, Values(n, o, h), F)
      BY DEF Explaining, QueueExplained
    <3>2. PICK o, h : Row(n, o, h) /\
            \A F \in SUBSET Empties : \E p : Possible(p) /\ Fits(p, Values(n, o, h), F)
      BY <3>1
    <3>3. PICK v : v = Values(n, o, h)
      OBVIOUS
    <3>4. Row(n, o, h)' /\ Values(n, o, h)' = v
      BY <2>3, <2>4, <3>2, <3>3
    <3>5. ASSUME NEW F \in SUBSET Empties' PROVE \E p : Possible(p)' /\ Fits(p, v, F)'
      BY <2>2, <2>5, <2>6, <3>2, <3>3
    <3>. QED  BY <3>4, <3>5 DEF QueueExplained
  <2>8. ValuesOK'
    BY <2>1 DEF Explaining, ValuesOK, Linking, new, key
  <2>. QED  BY <2>7, <2>8 DEF Explaining
<1>2. ASSUME NEW t \in Threads, Step(t) PROVE Explaining'
  <2>1. CAS!Step(t)
    BY <1>2 DEF Step
  <2>2. CASE CAS!Advance(t)
    <3>1. CASE heap.head = my[t].head
      BY <2>2, <3>1, AdvanceExplains DEF CAS!Advance, CAS!At
    <3>2. CASE heap.head # my[t].head
      BY <2>2, <3>2, AgainExplains DEF CAS!Advance, CAS!At, CAS!q
    <3>. QED  BY <3>1, <3>2
  <2>. QED  BY <2>1, <2>2, LoadExplains, CompareExplains, EnqExplains, SwingExplains, DeqExplains DEF CAS!Step
<1>3. ASSUME NEW t \in Threads, NEW op \in {"enq", "deq"}, Call(t, op) PROVE Explaining'
  BY <1>3, CallExplains DEF Call
<1>. QED  BY <1>1, <1>2, <1>3 DEF Next, Done, allVars
-----------------------------------------------------------------------------
(* What show_queue makes of the row: the values from node j on. *)
Rest(n, o, j) == [i \in 1 .. n - j + 1 |-> heap.node[o[j + i - 1]].val]

LEMMA SeqInFront ==
  ASSUME NEW m \in Nat, NEW f, f = [i \in 1 .. m |-> f[i]], NEW x
  PROVE  <<x>> \o f = [i \in 1 .. m + 1 |-> IF i = 1 THEN x ELSE f[i - 1]]
<1> DEFINE S == {f[i] : i \in 1 .. m} \cup {x}
           g == <<x>> \o f
<1>1. f \in Seq(S) /\ Len(f) = m /\ <<x>> \in Seq(S) /\ Len(<<x>>) = 1 /\ <<x>>[1] = x
  <2>1. f \in [1 .. m -> S] /\ x \in S
    OBVIOUS
  <2>2. f \in Seq(S)
    BY <2>1, SeqDef
  <2> HIDE DEF S
  <2>3. Len(f) = m
    BY <2>1, <2>2, LenProperties
  <2>. QED  BY <2>1, <2>2, <2>3
<1> HIDE DEF S
<1>2. g \in Seq(S) /\ Len(g) = 1 + m /\ \A i \in 1 .. 1 + m : g[i] = IF i <= 1 THEN <<x>>[i] ELSE f[i - 1]
  BY <1>1, ConcatProperties
<1> HIDE DEF g
<1>3. g = [i \in 1 .. m + 1 |-> g[i]]
  BY <1>2, LenProperties
<1>4. \A i \in 1 .. m + 1 : g[i] = IF i = 1 THEN x ELSE f[i - 1]
  <2>1. PICK e : e = <<x>> /\ e[1] = x
    BY <1>1
  <2>2. \A i \in 1 .. 1 + m : g[i] = IF i <= 1 THEN e[i] ELSE f[i - 1]
    BY <1>2, <2>1
  <2>. QED  BY <2>1, <2>2
<1>5. g = [i \in 1 .. m + 1 |-> IF i = 1 THEN x ELSE f[i - 1]]
  BY <1>3, <1>4
<1>. QED  BY <1>5 DEF g

LEMMA RestLonger ==
  ASSUME NEW n \in Nat, NEW o
  PROVE  /\ Rest(n, o, n + 1) = <<>>
         /\ \A j \in 1 .. n : Rest(n, o, j) = <<heap.node[o[j]].val>> \o Rest(n, o, j + 1)
<1>1. Rest(n, o, n + 1) = <<>>
  <2> DEFINE f == Rest(n, o, n + 1)
  <2>1. n - (n + 1) + 1 = 0
    OBVIOUS
  <2>2. f = [i \in 1 .. 0 |-> f[i]]
    BY <2>1 DEF Rest
  <2> HIDE DEF f
  <2>3. f = <<>>
    BY <2>2, SeqNone
  <2>. QED  BY <2>3 DEF f
<1>2. ASSUME NEW j \in 1 .. n PROVE Rest(n, o, j) = <<heap.node[o[j]].val>> \o Rest(n, o, j + 1)
  <2>1. PICK m \in Nat, k \in Nat : m = n - j /\ n - j + 1 = m + 1 /\ k = j + 1 /\ n - k + 1 = m
    OBVIOUS
  <2> DEFINE f == Rest(n, o, k)
             x == heap.node[o[j]].val
  <2>2. f = [i \in 1 .. m |-> heap.node[o[k + i - 1]].val]
    BY <2>1 DEF Rest
  <2>3. f = [i \in 1 .. m |-> f[i]]
    BY <2>2
  <2>4. Rest(n, o, j) = [i \in 1 .. m + 1 |-> heap.node[o[j + i - 1]].val]
    BY <2>1 DEF Rest
  <2>5. \A i \in 1 .. m + 1 : heap.node[o[j + i - 1]].val = IF i = 1 THEN x ELSE f[i - 1]
    <3>1. SUFFICES ASSUME NEW i \in 1 .. m + 1, i # 1 PROVE heap.node[o[j + i - 1]].val = f[i - 1]
      <4>1. j + 1 - 1 = j
        OBVIOUS
      <4>. QED  BY <4>1
    <3>2. i - 1 \in 1 .. m /\ k + (i - 1) - 1 = j + i - 1
      BY <2>1, <3>1
    <3>. QED  BY <2>2, <3>2
  <2> HIDE DEF f, x
  <2>6. <<x>> \o f = [i \in 1 .. m + 1 |-> IF i = 1 THEN x ELSE f[i - 1]]
    BY <2>3, SeqInFront
  <2>7. Rest(n, o, j) = <<x>> \o f
    BY <2>4, <2>5, <2>6
  <2>. QED  BY <2>1, <2>7 DEF f, x
<1>. QED  BY <1>1, <1>2

(* The recursion of After has a solution, and only this one. *)
LEMMA AfterIsRest ==
  ASSUME QueueInv, Unlinked = {}, NEW n \in Nat, NEW o, NEW h, Row(n, o, h)
  PROVE  CAS!After[heap.head.ptr] = Rest(n, o, h)
<1> DEFINE D == DOMAIN heap.node \cup {Null}
           Eq(a) == [x \in D |-> IF x = Null THEN <<>> ELSE <<heap.node[x].val>> \o a[heap.node[x].next.ptr]]
           A == CAS!After
<1>1. /\ \A i \in 1 .. n : o[i] \in DOMAIN heap.node /\ o[i] # Null
      /\ \A i \in 1 .. n : heap.node[o[i]].next.ptr = IF i = n THEN Null ELSE o[i + 1]
      /\ \A x \in DOMAIN heap.node : \E i \in 1 .. n : x = o[i]
      /\ \A i, j \in 1 .. n : o[i] = o[j] => i = j
      /\ h \in 1 .. n /\ o[h] = heap.head.ptr
  <2>1. Linked = DOMAIN heap.node /\ Null \notin DOMAIN heap.node
    BY NodeNamesAssumption DEF Linked, QueueInv, List, NodesOK
  <2>. QED  BY <2>1 DEF Row, next
<1>2. /\ Rest(n, o, n + 1) = <<>>
      /\ \A j \in 1 .. n : Rest(n, o, j) = <<heap.node[o[j]].val>> \o Rest(n, o, j + 1)
  BY RestLonger
<1>3. \E a : a = Eq(a)
  <2> DEFINE at(x) == CHOOSE j \in 1 .. n : o[j] = x
             g == [x \in D |-> IF x = Null THEN <<>> ELSE Rest(n, o, at(x))]
  <2>1. \A i \in 1 .. n : at(o[i]) = i
    BY <1>1
  <2>2. \A i \in 1 .. n : g[o[i]] = Rest(n, o, i)
    <3> HIDE DEF at
    <3>. QED  BY <1>1, <2>1
  <2>3. g[Null] = <<>> /\ DOMAIN g = D
    OBVIOUS
  <2>4. g = [x \in D |-> g[x]]
    OBVIOUS
  <2> HIDE DEF g
  <2>5. ASSUME NEW x \in D, x # Null PROVE g[x] = <<heap.node[x].val>> \o g[heap.node[x].next.ptr]
    <3>1. PICK i \in 1 .. n : x = o[i]
      BY <1>1, <2>5
    <3>2. g[heap.node[x].next.ptr] = Rest(n, o, i + 1)
      <4>1. CASE i = n
        BY <1>1, <1>2, <2>3, <3>1, <4>1
      <4>2. CASE i # n
        <5>1. i + 1 \in 1 .. n
          BY <4>2
        <5>. QED  BY <1>1, <2>2, <3>1, <4>2, <5>1
      <4>. QED  BY <4>1, <4>2
    <3>. QED  BY <1>2, <2>2, <3>1, <3>2
  <2>6. g = Eq(g)
    BY <2>3, <2>4, <2>5
  <2> HIDE DEF Eq
  <2>. QED  BY <2>6
<1>4. A = Eq(A)
  <2>1. A = CHOOSE a : a = Eq(a)
    BY DEF CAS!After, CAS!q
  <2> HIDE DEF A, Eq
  <2>. QED  BY <1>3, <2>1
<1> HIDE DEF A
<1>5. A[Null] = <<>> /\ \A i \in 1 .. n : A[o[i]] = <<heap.node[o[i]].val>> \o A[heap.node[o[i]].next.ptr]
  BY <1>1, <1>4
<1> DEFINE G == {k \in Nat : k < n => A[o[n - k]] = Rest(n, o, n - k)}
<1>6. 0 \in G
  <2>1. n - 0 = n /\ n \in 1 .. n
    BY <1>1
  <2>2. A[o[n]] = Rest(n, o, n)
    <3>1. heap.node[o[n]].next.ptr = Null
      BY <1>1, <2>1
    <3>2. A[o[n]] = <<heap.node[o[n]].val>> \o <<>>
      BY <1>5, <2>1, <3>1
    <3>. QED  BY <1>2, <2>1, <3>2
  <2>. QED  BY <2>1, <2>2
<1>7. ASSUME NEW k \in 0 .. n - 1, k \in G PROVE k + 1 \in G
  <2>1. SUFFICES ASSUME k + 1 < n PROVE A[o[n - (k + 1)]] = Rest(n, o, n - (k + 1))
    OBVIOUS
  <2>2. PICK j \in 1 .. n : j = n - (k + 1) /\ j + 1 = n - k /\ j # n
    BY <2>1
  <2>3. A[o[j + 1]] = Rest(n, o, j + 1)
    BY <1>7, <2>2
  <2>4. A[o[j]] = <<heap.node[o[j]].val>> \o A[o[j + 1]]
    BY <1>1, <1>5, <2>2
  <2>. QED  BY <1>2, <2>2, <2>3, <2>4
<1> HIDE DEF G
<1>8. \A k \in 0 .. n : k \in G
  BY <1>6, <1>7, UpTo
<1>9. PICK k \in 0 .. n : k = n - h /\ n - k = h /\ k < n
  BY <1>1
<1>10. A[o[h]] = Rest(n, o, h)
  <2>1. k \in G
    BY <1>8
  <2>. QED  BY <1>9, <2>1 DEF G
<1>. QED  BY <1>1, <1>10 DEF A

LEMMA TailOfRest ==
  ASSUME NEW n \in Nat, NEW o, NEW h \in 1 .. n
  PROVE  Tail(Rest(n, o, h)) = Values(n, o, h)
<1>1. PICK m \in Nat : m = n - h /\ n - h + 1 = m + 1 /\ h \in Nat
  OBVIOUS
<1> DEFINE f == Rest(n, o, h)
<1>2. f = [i \in 1 .. m + 1 |-> heap.node[o[h + i - 1]].val]
  BY <1>1 DEF Rest
<1>3. f = [i \in 1 .. m + 1 |-> f[i]]
  BY <1>2
<1>4. \A i \in 1 .. m : f[i + 1] = heap.node[o[h + i]].val
  <2>1. \A i \in 1 .. m : i + 1 \in 1 .. m + 1 /\ h + (i + 1) - 1 = h + i
    BY <1>1
  <2>. QED  BY <1>2, <2>1
<1> HIDE DEF f
<1>5. Tail(f) = [i \in 1 .. m |-> f[i + 1]]
  BY <1>3, SeqShorter
<1>6. Tail(f) = Values(n, o, h)
  BY <1>1, <1>4, <1>5 DEF Values
<1>. QED  BY <1>6 DEF f

LEMMA ShownIsValues ==
  ASSUME QueueInv, Unlinked = {}, NEW n \in Nat, NEW o, NEW h, Row(n, o, h)
  PROVE  CAS!show_queue = Values(n, o, h)
<1>1. CAS!show_queue = Tail(Rest(n, o, h))
  BY AfterIsRest DEF CAS!show_queue, CAS!q
<1>2. h \in 1 .. n
  BY DEF Row
<1>. QED  BY <1>1, <1>2, TailOfRest

(* With no call pending nothing has been put in line.                       *)
LEMMA NobodyInLine ==
  ASSUME NEW p, Possible(p), Pending = {}
  PROVE  p \in configs
<1>1. PICK c \in configs, m \in Nat : \E s, k :
        InLine(s, m, Pending \ DOMAIN c.ret) /\ Chained(k, m, s, c) /\ p = k[m]
  BY DEF Possible
<1>2. PICK s, k : InLine(s, m, Pending \ DOMAIN c.ret) /\ Chained(k, m, s, c) /\ p = k[m]
  BY <1>1
<1>3. m = 0
  <2>1. 1 \notin 1 .. m
    BY <1>2 DEF InLine
  <2>. QED  BY <2>1
<1>. QED  BY <1>2, <1>3 DEF Chained
-----------------------------------------------------------------------------
(* Some order of the calls of CASLockFreeQueue.c explains what has been     *)
(* returned and what is linked behind the head, for every choice of the     *)
(* pending deqs that have found the queue empty and take effect by it.      *)
THEOREM QueueIsExplained == Spec => [](which = "cas" => QueueInv /\ Explaining)
<1>1. Init => (which = "cas" => QueueInv /\ Explaining)
  BY InitInv, InitExplains DEF Inv
<1>2. (which = "cas" => QueueInv /\ Explaining) /\ [Next]_allVars => (which = "cas" => QueueInv /\ Explaining)'
  <2>1. SUFFICES ASSUME which = "cas" => QueueInv /\ Explaining, [Next]_allVars, which' = "cas"
                 PROVE  QueueInv' /\ Explaining'
    OBVIOUS
  <2>2. which = "cas"
    BY <2>1 DEF Next, allVars
  <2>. QED  BY <2>1, <2>2, StepInv, StepExplains DEF Inv
<1>. QED  BY <1>1, <1>2, PTL DEF Spec

(* What enq and deq of CASLockFreeQueue.c return is what a FIFO queue would *)
(* return that does each call at one instant between its start and its end: *)
(* an enq when its node is linked, a deq when it moves the head, and one    *)
(* that returns 0 when it loads a NULL successor of a head that has not     *)
(* moved.                                                                   *)
THEOREM CASQueueIsLinearizable == Spec => [](which = "cas" => Linearizable)
<1>1. QueueInv /\ Explaining => Linearizable
  <2>1. SUFFICES ASSUME QueueInv, Explaining PROVE Linearizable
    OBVIOUS
  <2>2. PICK n \in Nat : \E o, h : Row(n, o, h) /\
          \A F \in SUBSET Empties : \E p : Possible(p) /\ Fits(p, Values(n, o, h), F)
    BY <2>1 DEF Explaining, QueueExplained
  <2>3. \E p : Possible(p)
    BY <2>2
  <2>4. Explainable
    BY <2>3 DEF Possible, Explainable
  <2>5. ~Crashed
    BY <2>1 DEF QueueInv, CallsOK, Call1, Crashed, EnqLabels, DeqLabels, AfterHead, AfterTail, AfterNext
  <2>. QED  BY <2>4, <2>5 DEF Linearizable
<1>. QED  BY <1>1, QueueIsExplained, PTL

(* Between calls the list that show_queue of CASLockFreeQueue.c prints      *)
(* holds what such a FIFO queue holds, in its order.                        *)
THEOREM CASQueueHoldsItsElements == Spec => [](which = "cas" => ContentsExplained)
<1>1. ASSUME which = "cas", QueueInv, Explaining, Quiet PROVE \E c \in configs : c.state = show_queue
  <2>1. \A t \in Threads : call[t] = Nothing /\ pc[t] = "idle"
    BY <1>1 DEF Quiet, Pending, QueueInv, CallsOK, Call1, Nothing
  <2>2. Swinging = {} /\ Empties = {} /\ Unlinked = {} /\ Pending = {}
    BY <1>1, <2>1 DEF Swinging, Empties, FoundEmpty, Unlinked, Linking, Nothing, Quiet
  <2>3. PICK n \in Nat : \E o, h : Row(n, o, h) /\
          \A F \in SUBSET Empties : \E p : Possible(p) /\ Fits(p, Values(n, o, h), F)
    BY <1>1 DEF Explaining, QueueExplained
  <2>4. PICK o, h : Row(n, o, h) /\
          \A F \in SUBSET Empties : \E p : Possible(p) /\ Fits(p, Values(n, o, h), F)
    BY <2>3
  <2>5. PICK p : Possible(p) /\ Fits(p, Values(n, o, h), {})
    BY <2>4
  <2>6. p \in configs
    BY <2>2, <2>5, NobodyInLine
  <2>7. p.state = Values(n, o, h)
    BY <2>5 DEF Fits
  <2>8. show_queue = Values(n, o, h)
    BY <1>1, <2>2, <2>4, ShownIsValues DEF show_queue
  <2>. QED  BY <2>6, <2>7, <2>8
<1>2. (which = "cas" => QueueInv /\ Explaining) => (which = "cas" => ContentsExplained)
  BY <1>1 DEF ContentsExplained, Explains
<1>. QED  BY <1>2, QueueIsExplained, PTL
-----------------------------------------------------------------------------
(* The second queue, LLSCLockFreeQueue.c.  The version of an end is the     *)
(* number of the node that it is at, in the order in which the nodes were   *)
(* linked.                                                                  *)
Ends == {"head", "tail"}
ver(e) == heap[e].entry.ver
ptr(e) == heap[e].ptr
end(t) == IF call[t].op = "enq" THEN "tail" ELSE "head"
other(v) == (v + 1) % 2

(* Where a thread can be in its call. *)
Switching == {"entry", "entry.cas"}
Closing == {"release", "setNLPred", "released"}
AfterNd == {"SC", "transfer", "val", "unlink", "unlink.cas"} \cup Switching \cup Closing
AfterLL == {"enq", "next", "deq"} \cup AfterNd
Labels == {"LL", "current", "LL.cas"} \cup AfterLL

(* The calls that have taken effect and not returned: an enq once its node  *)
(* is linked, a deq once it has put the next node into the head or found    *)
(* that there is none.                                                      *)
Linked2(t) == call[t].op = "enq" /\ pc[t] \in AfterNd /\ my[t].nd = new(t)
TookNext(t) == /\ call[t].op = "deq" /\ pc[t] \in {"transfer", "val"} \cup Switching \cup Closing
               /\ my[t].nd # Null /\ my[t].success = TRUE
FoundNone(t) == call[t].op = "deq" /\ pc[t] \in {"unlink", "unlink.cas"} \cup Closing /\ my[t].nd = Null
Settled == {t \in Threads : Linked2(t) \/ TookNext(t) \/ FoundNone(t)}
Gets(t) == IF call[t].op = "enq" THEN key(t) ELSE IF my[t].nd = Null THEN 0 ELSE heap.node[my[t].nd].val
IsFresh(t) == call[t].op = "enq" /\ ~Linked2(t)
Fresh == {new(t) : t \in {u \in Threads : IsFresh(u)}}

Call2(t) ==
  \/ call[t] = Nothing /\ pc[t] = "idle"
  \/ /\ call[t].op = "enq" /\ pc[t] \in Labels \ {"deq", "val", "unlink", "unlink.cas"}
     /\ new(t) \in DOMAIN heap.node \cap (1 .. made)
  \/ call[t].op = "deq" /\ pc[t] \in Labels \ {"enq", "next"}
Calls2OK ==
  /\ made \in Nat
  /\ call = [t \in Threads |-> call[t]] /\ pc = [t \in Threads |-> pc[t]] /\ my = [t \in Threads |-> my[t]]
  /\ \A t \in Threads : Call2(t)
  /\ OwnNodes

Shape ==
  /\ heap = [head |-> heap.head, tail |-> heap.tail, freed |-> heap.freed, node |-> heap.node]
  /\ \A e \in Ends : /\ heap[e] = [ptr |-> ptr(e), entry |-> heap[e].entry]
                     /\ ptr(e) = [i \in {0, 1} |-> ptr(e)[i]]
                     /\ heap[e].entry = [ver |-> ver(e), count |-> heap[e].entry.count]
                     /\ ver(e) \in Nat
  /\ \A x \in DOMAIN heap.node : heap.node[x] =
       [val |-> heap.node[x].val, next |-> heap.node[x].next, pred |-> heap.node[x].pred, exit |-> heap.node[x].exit]
HeapOK ==
  /\ Shape /\ DOMAIN heap.node \subseteq {Dummy, Dummy1} \cup (1 .. made)
  /\ \A t \in Threads : IsFresh(t) => heap.node[new(t)].next = Null /\ heap.node[new(t)].val = key(t)

(* The nodes that are or have been in the list, in their order. *)
Row2(n, o) ==
  /\ \A i, j \in 0 .. n : o[i] = o[j] => i = j
  /\ o[0] = Dummy1 /\ heap.node[Dummy1].next = Null
  /\ \A x : x \in DOMAIN heap.node \ Fresh <=> \E i \in 0 .. n : x = o[i]
  /\ \A i \in 1 .. n : heap.node[o[i]].next = IF i = n THEN Null ELSE o[i + 1]
  /\ \A i \in 1 .. n : heap.node[o[i]].pred = o[i - 1]
AtNode(e, n, o) ==
  /\ ver(e) + 1 \in 1 .. n /\ ptr(e)[ver(e) % 2] = o[ver(e) + 1]
  /\ \/ ptr(e)[other(ver(e))] = o[ver(e)]
     \/ ver(e) + 2 \in 1 .. n /\ ptr(e)[other(ver(e))] = o[ver(e) + 2]

Has(t, names) == names \subseteq DOMAIN my[t]
EntrySeen(t, o) ==
  /\ pc[t] \in {"current", "LL.cas"} => Has(t, {"e"}) /\ my[t].e.ver \in Nat /\ my[t].e.ver <= ver(end(t))
  /\ pc[t] = "LL.cas" => /\ Has(t, {"ver", "node"}) /\ my[t].ver = my[t].e.ver
                         /\ ver(end(t)) = my[t].ver => my[t].node = o[my[t].ver + 1]
NodeSeen(t, n, o) == pc[t] \in AfterLL =>
  /\ Has(t, {"e", "ver", "node"}) /\ my[t].ver \in Nat /\ my[t].ver <= ver(end(t)) /\ my[t].node = o[my[t].ver + 1]
  /\ pc[t] = "next" => my[t].ver + 2 <= n
NdSeen(t, n, o) == pc[t] \in AfterNd =>
  /\ Has(t, {"nd"})
  /\ my[t].nd # Null => my[t].ver + 2 <= n /\ my[t].nd = o[my[t].ver + 2]
  /\ pc[t] \in {"SC", "transfer", "val"} \cup Switching \/ call[t].op = "enq" => my[t].nd # Null
  /\ pc[t] \in {"unlink", "unlink.cas"} => my[t].nd = Null
SwitchSeen(t, o) ==
  /\ pc[t] \in Switching /\ ver(end(t)) = my[t].ver => ptr(end(t))[other(my[t].ver)] = o[my[t].ver + 2]
  /\ pc[t] = "entry.cas" => my[t].e.ver = my[t].ver
  /\ pc[t] \in {"transfer", "val"} \cup Switching \cup Closing /\ my[t].nd # Null =>
       Has(t, {"success"}) /\ my[t].success \in BOOLEAN
  /\ pc[t] = "val" => my[t].success = TRUE
  /\ pc[t] = "transfer" => my[t].ver # ver(end(t))
Seen2(t, n, o) == EntrySeen(t, o) /\ NodeSeen(t, n, o) /\ NdSeen(t, n, o) /\ SwitchSeen(t, o)

(* Who has put the next node into the head stays until the version goes up. *)
Half(o) == ptr("head")[other(ver("head"))] # o[ver("head")]
Attends(t) == TookNext(t) /\ pc[t] \in Switching /\ my[t].ver = ver("head")
Attended(o) == Half(o) => \E t \in Threads : Attends(t)

Queue2(n, o) ==
  /\ Calls2OK /\ HeapOK /\ Row2(n, o) /\ \A e \in Ends : AtNode(e, n, o)
  /\ \A t \in Threads : Seen2(t, n, o)
  /\ Attended(o)

Taken(o) == IF Half(o) THEN ver("head") + 2 ELSE ver("head") + 1
Fits2(p, n, o) ==
  /\ p.state = Values(n, o, Taken(o)) /\ DOMAIN p.ret = Settled
  /\ \A t \in Settled : p.ret[t] = Gets(t)
Explaining2 == \E n \in Nat : \E o : Queue2(n, o) /\ \E p : Possible(p) /\ Fits2(p, n, o)
-----------------------------------------------------------------------------
LEMMA Parity ==
  ASSUME NEW v \in Nat
  PROVE  /\ v % 2 \in {0, 1} /\ other(v) \in {0, 1} /\ other(v) # v % 2
         /\ other(v + 1) = v % 2 /\ (v + 1) % 2 = other(v) /\ (v + 2) % 2 = v % 2
BY DEF other

LEMMA LLSCAnswer == \A t, ret : LLSC!Answer(t, ret) <=> Answer(t, ret)
<1>1. \A c, t : LLSC!TakeEffect(c, t) = TakeEffect(c, t)
  BY DEF LLSC!TakeEffect, TakeEffect, LLSC!Effect, Effect, LLSC!Outcome, Outcome
<1>2. \A c, s : LLSC!TakeEffects(c, s) = TakeEffects(c, s)
  BY <1>1 DEF LLSC!TakeEffects, TakeEffects, LLSC!MapThenFoldSet, MapThenFoldSet, LLSC!Max, Max
<1>3. \A S : LLSC!Orders(S) = Orders(S)
  BY DEF LLSC!Orders, Orders, LLSC!Bijection, Bijection, LLSC!Injection, Injection,
         LLSC!Surjection, Surjection, LLSC!IsInjective, IsInjective, LLSC!Cardinality, Cardinality
<1>4. \A c, t : LLSC!Explained(c, t) = Explained(c, t)
  BY <1>1, <1>2, <1>3 DEF LLSC!Explained, Explained, LLSC!Pending, Pending, LLSC!Nothing, Nothing
<1>. QED  BY <1>4, ZenonT(60) DEF LLSC!Answer, Answer, LLSC!Nothing, Nothing

(* What the steps do to the thread that takes them. *)
LEMMA Goes2 ==
  ASSUME NEW t \in Threads, Calls2OK, NEW l, LLSC!Goto(t, l), LLSC!Internal
  PROVE  /\ call' = call /\ made' = made /\ configs' = configs /\ pc'[t] = l
         /\ \A v : LLSC!Set(t, v) =>
              /\ Alone(t) /\ DOMAIN my'[t] = DOMAIN my[t] \cup DOMAIN v
              /\ \A x \in DOMAIN v : my'[t][x] = v[x]
              /\ \A x \in DOMAIN my[t] \ DOMAIN v : my'[t][x] = my[t][x]
         /\ my' = my => Alone(t) /\ my'[t] = my[t]
<1>1. call' = call /\ made' = made /\ configs' = configs
  BY DEF LLSC!Internal, LLSC!callVars
<1>2. pc'[t] = l /\ (my' = my => Alone(t) /\ my'[t] = my[t])
  BY <1>1 DEF Calls2OK, LLSC!Goto, Alone
<1>3. ASSUME NEW v, LLSC!Set(t, v)
      PROVE  /\ Alone(t) /\ DOMAIN my'[t] = DOMAIN my[t] \cup DOMAIN v
             /\ \A x \in DOMAIN v : my'[t][x] = v[x]
             /\ \A x \in DOMAIN my[t] \ DOMAIN v : my'[t][x] = my[t][x]
  BY <1>1, <1>3 DEF Calls2OK, LLSC!Goto, LLSC!Set, Alone
<1>. QED  BY <1>1, <1>2, <1>3

(* What the step of one thread may do to what the others have seen. *)
Ahead(n, o, m, z) ==
  /\ n <= m /\ \A i \in 0 .. n : z[i] = o[i]
  /\ \A e \in Ends :
       /\ ver(e) <= ver(e)' /\ ver(e)' \in Nat
       /\ ver(e)' = ver(e) /\ ver(e) + 2 <= n /\ ptr(e)[other(ver(e))] = o[ver(e) + 2] =>
            ptr(e)'[other(ver(e))] = o[ver(e) + 2]

LEMMA OthersSee2 ==
  ASSUME NEW n \in Nat, NEW o, Queue2(n, o), NEW m \in Nat, NEW z, Ahead(n, o, m, z),
         NEW u \in Threads, call'[u] = call[u], pc'[u] = pc[u], my'[u] = my[u]
  PROVE  Seen2(u, m, z)'
<1>1. /\ end(u)' = end(u) /\ end(u) \in Ends /\ new(u)' = new(u)
      /\ Seen2(u, n, o) /\ ver(end(u)) \in Nat /\ ver(end(u)) + 1 \in 1 .. n
  BY DEF Queue2, end, Ends, HeapOK, Shape, AtNode, new
<1> DEFINE e == end(u)
<1>2. /\ ver(end(u))' = ver(e)' /\ ptr(end(u))' = ptr(e)'
      /\ ver(e) <= ver(e)' /\ ver(e)' \in Nat
      /\ ver(e)' = ver(e) /\ ver(e) + 2 <= n /\ ptr(e)[other(ver(e))] = o[ver(e) + 2] =>
            ptr(e)'[other(ver(e))] = o[ver(e) + 2]
  BY <1>1 DEF Ahead, ver, ptr
<1>3. n <= m /\ \A i \in 0 .. n : z[i] = o[i]
  BY DEF Ahead
<1>4. EntrySeen(u, z)'
  BY <1>1, <1>2, <1>3 DEF Seen2, EntrySeen, Has
<1>5. NodeSeen(u, m, z)'
  BY <1>1, <1>2, <1>3 DEF Seen2, NodeSeen, Has
<1>6. NdSeen(u, m, z)'
  <2>1. pc[u] \in AfterNd => my[u].ver \in Nat
    BY <1>1 DEF Seen2, NodeSeen, AfterLL
  <2>. QED  BY <1>1, <1>2, <1>3, <2>1 DEF Seen2, NdSeen, Has
<1>7. SwitchSeen(u, z)'
  <2>1. ASSUME pc[u] \in Switching, ver(end(u))' = my[u].ver
        PROVE  ptr(end(u))'[other(my[u].ver)] = z[my[u].ver + 2]
    <3>1. /\ my[u].ver \in Nat /\ my[u].ver <= ver(e) /\ my[u].ver + 2 \in 0 .. n
      BY <1>1, <2>1 DEF Seen2, NodeSeen, NdSeen, AfterLL, AfterNd
    <3>2. ver(e)' = ver(e) /\ ver(e) = my[u].ver
      BY <1>1, <1>2, <2>1, <3>1
    <3>3. ptr(e)[other(ver(e))] = o[ver(e) + 2]
      BY <1>1, <2>1, <3>2 DEF Seen2, SwitchSeen
    <3>. QED  BY <1>2, <1>3, <3>1, <3>2, <3>3
  <2>2. pc[u] = "transfer" => my[u].ver # ver(end(u))'
    <3>1. pc[u] = "transfer" => my[u].ver \in Nat /\ my[u].ver <= ver(e) /\ my[u].ver # ver(e)
      BY <1>1 DEF Seen2, SwitchSeen, NodeSeen, AfterLL, AfterNd
    <3>. QED  BY <1>1, <1>2, <3>1
  <2>. QED  BY <1>1, <2>1, <2>2 DEF Seen2, SwitchSeen, Has
<1>. QED  BY <1>4, <1>5, <1>6, <1>7 DEF Seen2

LEMMA EnoughForOne2 ==
  ASSUME NEW n \in Nat, NEW o, Queue2(n, o), NEW m \in Nat, NEW z, Ahead(n, o, m, z),
         NEW t \in Threads, Alone(t), made' \in Nat, made <= made', DOMAIN heap.node \subseteq DOMAIN heap'.node,
         call'[t] = call[t] \/ call'[t].op # "enq" \/ new(t)' \notin 1 .. made,
         Call2(t)', Seen2(t, m, z)', HeapOK', Row2(m, z)', \A e \in Ends : AtNode(e, m, z)', Attended(z)'
  PROVE  Queue2(m, z)'
<1>1. \A u \in Threads \ {t} : Call2(u)'
  BY DEF Queue2, Calls2OK, Call2, Alone, new
<1>2. \A u \in Threads \ {t} : Seen2(u, m, z)'
  BY OthersSee2 DEF Alone
<1>3. OwnNodes'
  <2>1. \A u \in Threads : call[u].op = "enq" => new(u) \in 1 .. made
    BY DEF Queue2, Calls2OK, Call2, Nothing
  <2>. QED  BY <2>1 DEF Queue2, Calls2OK, OwnNodes, Alone, new
<1>4. Calls2OK'
  BY <1>1, <1>3 DEF Calls2OK, Alone
<1>. QED  BY <1>2, <1>4 DEF Queue2

LEMMA SameFresh ==
  ASSUME NEW t \in Threads, Alone(t), IsFresh(t)' <=> IsFresh(t), IsFresh(t) => call'[t] = call[t]
  PROVE  Fresh' = Fresh
BY DEF Fresh, IsFresh, Linked2, Alone, new

LEMMA OthersSettle ==
  ASSUME NEW n \in Nat, NEW o, Queue2(n, o), NEW t \in Threads, Alone(t),
         \A x \in DOMAIN heap.node : x \in DOMAIN heap'.node /\ heap'.node[x].val = heap.node[x].val
  PROVE  \A u \in Threads \ {t} : (u \in Settled' <=> u \in Settled) /\ (u \in Settled => Gets(u)' = Gets(u))
<1>1. SUFFICES ASSUME NEW u \in Threads \ {t}
               PROVE  (u \in Settled' <=> u \in Settled) /\ (u \in Settled => Gets(u)' = Gets(u))
  OBVIOUS
<1>2. call'[u] = call[u] /\ pc'[u] = pc[u] /\ my'[u] = my[u] /\ new(u)' = new(u) /\ key(u)' = key(u)
  BY DEF Alone, new, key
<1>3. u \in Settled' <=> u \in Settled
  BY <1>2 DEF Settled, Linked2, TookNext, FoundNone
<1>4. ASSUME u \in Settled, call[u].op # "enq", my[u].nd # Null PROVE my[u].nd \in DOMAIN heap.node
  <2>1. pc[u] \in AfterNd
    BY <1>4 DEF Settled, Linked2, TookNext, FoundNone, AfterNd, Closing, Switching
  <2>2. my[u].ver \in Nat /\ my[u].ver + 2 <= n /\ my[u].nd = o[my[u].ver + 2]
    BY <1>4, <2>1 DEF Queue2, Seen2, NodeSeen, NdSeen, AfterLL
  <2>3. my[u].ver + 2 \in 0 .. n
    BY <2>2
  <2>. QED  BY <2>2, <2>3 DEF Queue2, Row2
<1>5. u \in Settled => Gets(u)' = Gets(u)
  BY <1>2, <1>4 DEF Gets
<1>. QED  BY <1>3, <1>5
-----------------------------------------------------------------------------
(* Steps that leave the list and its ends alone. *)
Same2 ==
  /\ Shape' /\ DOMAIN heap'.node = DOMAIN heap.node
  /\ \A x \in DOMAIN heap.node : /\ heap'.node[x].next = heap.node[x].next
                                 /\ x \notin Fresh => heap'.node[x].pred = heap.node[x].pred
                                 /\ heap'.node[x].val = heap.node[x].val
  /\ \A e \in Ends : ver(e)' = ver(e) /\ ptr(e)' = ptr(e)

LEMMA QuietStep ==
  ASSUME NEW n \in Nat, NEW o, Queue2(n, o), NEW t \in Threads, Alone(t), Same2, made' = made,
         IsFresh(t)' <=> IsFresh(t), IsFresh(t) => call'[t] = call[t],
         call'[t] = call[t] \/ call'[t] = Nothing,
         Call2(t)', Seen2(t, n, o)', Attends(t) => Attends(t)'
  PROVE  Queue2(n, o)' /\ Half(o)' = Half(o)
<1>1. Fresh' = Fresh
  BY SameFresh
<1>2. Ahead(n, o, n, o)
  BY DEF Ahead, Same2, Queue2, HeapOK, Shape, Ends
<1>3. HeapOK'
  <2>1. ASSUME NEW u \in Threads, IsFresh(u)'
        PROVE  heap'.node[new(u)'].next = Null /\ heap'.node[new(u)'].val = key(u)'
    <3>1. IsFresh(u) /\ call'[u] = call[u]
      BY <2>1 DEF IsFresh, Linked2, Alone, new
    <3>2. new(u) \in DOMAIN heap.node
      BY <3>1 DEF Queue2, Calls2OK, Call2, IsFresh, Nothing
    <3>. QED  BY <3>1, <3>2 DEF Queue2, HeapOK, Same2, new, key
  <2>. QED  BY <2>1 DEF Queue2, HeapOK, Same2
<1>4. Row2(n, o)'
  <2>1. \A i \in 0 .. n : o[i] \in DOMAIN heap.node /\ o[i] \notin Fresh
    BY DEF Queue2, Row2
  <2>2. \A x : x \in DOMAIN heap'.node \ Fresh' <=> \E i \in 0 .. n : x = o[i]
    BY <1>1 DEF Queue2, Row2, Same2
  <2>3. heap'.node[Dummy1].next = Null
    <3>1. 0 \in 0 .. n
      OBVIOUS
    <3>. QED  BY <2>1, <3>1 DEF Queue2, Row2, Same2
  <2>4. \A i \in 1 .. n : heap'.node[o[i]].next = IF i = n THEN Null ELSE o[i + 1]
    BY <2>1 DEF Queue2, Row2, Same2
  <2>5. \A i \in 1 .. n : heap'.node[o[i]].pred = o[i - 1]
    BY <2>1 DEF Queue2, Row2, Same2
  <2>. QED  BY <2>2, <2>3, <2>4, <2>5 DEF Queue2, Row2
<1>5. \A e \in Ends : AtNode(e, n, o)'
  BY DEF Queue2, AtNode, Same2
<1>6. Half(o)' = Half(o) /\ ver("head")' = ver("head")
  BY DEF Half, Same2, Ends
<1>7. Attended(o)'
  <2>1. ASSUME NEW u \in Threads, Attends(u) PROVE Attends(u)'
    <3>1. CASE u = t
      BY <2>1, <3>1
    <3>2. CASE u # t
      BY <1>6, <2>1, <3>2 DEF Attends, TookNext, Alone
    <3>. QED  BY <3>1, <3>2
  <2>. QED  BY <1>6, <2>1 DEF Queue2, Attended
<1>8. \A e \in Ends : AtNode(e, n, o)'
  BY <1>5
<1>9. call'[t] = call[t] \/ call'[t].op # "enq"
  BY DEF Nothing
<1>10. made' \in Nat /\ made <= made' /\ DOMAIN heap.node \subseteq DOMAIN heap'.node
  BY DEF Queue2, Calls2OK, Same2
<1>11. Queue2(n, o)'
  BY <1>2, <1>3, <1>4, <1>5, <1>7, <1>9, <1>10, EnoughForOne2
<1>. QED  BY <1>6, <1>11

LEMMA SameValues2 ==
  ASSUME NEW n \in Nat, NEW o, Queue2(n, o), Same2
  PROVE  /\ Values(n, o, Taken(o))' = Values(n, o, Taken(o))
         /\ \A x \in DOMAIN heap.node : x \in DOMAIN heap'.node /\ heap'.node[x].val = heap.node[x].val
<1>1. Taken(o)' = Taken(o) /\ Taken(o) \in 1 .. n
  <2>1. Half(o)' = Half(o) /\ ver("head")' = ver("head") /\ ver("head") \in Nat
    BY DEF Half, Same2, Ends, Queue2, HeapOK, Shape
  <2>2. AtNode("head", n, o)
    BY DEF Queue2, Ends
  <2>3. Taken(o) \in 1 .. n
    BY <2>1, <2>2 DEF AtNode, Taken, Half
  <2>. QED  BY <2>1, <2>3 DEF Taken
<1>2. PICK h \in 1 .. n : h = Taken(o)
  BY <1>1
<1>3. \A i \in 1 .. n - h : o[h + i] \in DOMAIN heap.node
  <2>1. \A i \in 1 .. n - h : h + i \in 0 .. n
    BY <1>2
  <2>. QED  BY <2>1 DEF Queue2, Row2
<1>4. \A x \in DOMAIN heap.node : x \in DOMAIN heap'.node /\ heap'.node[x].val = heap.node[x].val
  BY DEF Same2
<1>5. [i \in 1 .. n - h |-> heap'.node[o[h + i]].val] = [i \in 1 .. n - h |-> heap.node[o[h + i]].val]
  BY <1>3, <1>4
<1>. QED  BY <1>1, <1>2, <1>4, <1>5 DEF Values

LEMMA StillFits ==
  ASSUME NEW n \in Nat, NEW o, Queue2(n, o), NEW t \in Threads, Alone(t), call' = call, configs' = configs,
         \A x \in DOMAIN heap.node : x \in DOMAIN heap'.node /\ heap'.node[x].val = heap.node[x].val,
         t \in Settled' <=> t \in Settled, t \in Settled => Gets(t)' = Gets(t),
         NEW p, Possible(p), Fits2(p, n, o),
         NEW m, NEW z, Values(m, z, Taken(z))' = Values(n, o, Taken(o))
  PROVE  Possible(p)' /\ Fits2(p, m, z)'
<1>1. Possible(p)'
  BY PossibleStays
<1>2. Settled' = Settled /\ \A u \in Settled : Gets(u)' = Gets(u)
  BY OthersSettle DEF Settled
<1>. QED  BY <1>1, <1>2 DEF Fits2

LEMMA NowFits ==
  ASSUME NEW n \in Nat, NEW o, Queue2(n, o), NEW t \in Threads, Alone(t), call' = call, configs' = configs,
         \A x \in DOMAIN heap.node : x \in DOMAIN heap'.node /\ heap'.node[x].val = heap.node[x].val,
         t \in Settled', t \notin Settled, call[t] # Nothing,
         NEW p, Possible(p), Fits2(p, n, o), NEW e, e = TakeEffect(p, t), e.ret[t] = Gets(t)',
         NEW m, NEW z, Values(m, z, Taken(z))' = e.state
  PROVE  Possible(e)' /\ Fits2(e, m, z)'
<1>1. t \in Pending /\ t \notin DOMAIN p.ret
  BY DEF Pending, Fits2
<1>2. Possible(e)'
  BY <1>1, PossibleNext, PossibleStays
<1>3. Settled' = Settled \cup {t} /\ \A u \in Settled : u # t /\ Gets(u)' = Gets(u)
  BY OthersSettle DEF Settled
<1>4. DOMAIN e.ret = DOMAIN p.ret \cup {t} /\ \A u \in DOMAIN p.ret : u # t => e.ret[u] = p.ret[u]
  BY DEF TakeEffect
<1>5. \A u \in Settled' : e.ret[u] = Gets(u)'
  BY <1>3, <1>4 DEF Fits2
<1>. QED  BY <1>2, <1>3, <1>4, <1>5 DEF Fits2

LEMMA ThenFits ==
  ASSUME NEW n \in Nat, NEW o, Queue2(n, o), NEW t \in Threads, Alone(t), call[t] # Nothing, pc'[t] = "idle",
         \A x \in DOMAIN heap.node : x \in DOMAIN heap'.node /\ heap'.node[x].val = heap.node[x].val,
         t \in Settled, Answer(t, Gets(t)),
         NEW p, Possible(p), Fits2(p, n, o),
         NEW m, NEW z, Values(m, z, Taken(z))' = Values(n, o, Taken(o))
  PROVE  \E d : Possible(d)' /\ Fits2(d, m, z)'
<1> DEFINE d == Dropped(p, t)
<1>1. t \in Pending /\ t \in DOMAIN p.ret /\ p.ret[t] = Gets(t)
  BY DEF Pending, Fits2
<1>2. Possible(d)'
  <2>1. call = [u \in Threads |-> call[u]] /\ Answer(t, p.ret[t])
    BY <1>1 DEF Queue2, Calls2OK
  <2>. QED  BY <1>1, <2>1, PossibleAnswer
<1>3. t \notin Settled' /\ Settled' = Settled \ {t} /\ \A u \in Settled' : Gets(u)' = Gets(u)
  <2>1. t \notin Settled'
    BY DEF Settled, Linked2, TookNext, FoundNone, AfterNd, Switching, Closing
  <2>. QED  BY <2>1, OthersSettle DEF Settled
<1>4. d.state = p.state /\ DOMAIN d.ret = DOMAIN p.ret \ {t} /\ \A u \in DOMAIN d.ret : d.ret[u] = p.ret[u]
  BY DEF Dropped
<1> HIDE DEF d
<1>5. \A u \in Settled' : d.ret[u] = Gets(u)'
  BY <1>3, <1>4 DEF Fits2
<1>6. Fits2(d, m, z)'
  BY <1>3, <1>4, <1>5 DEF Fits2
<1>. QED  BY <1>2, <1>6

LEMMA SameHeap == ASSUME Shape, heap' = heap PROVE Same2
BY DEF Same2, Shape, ver, ptr

LEMMA SameEntry ==
  ASSUME Shape, NEW t, LLSC!loc(t).entry = my[t].e, NEW c,
         heap' = LLSC!casEntry(t, [my[t].e EXCEPT !.count = c])
  PROVE  Same2
<1>1. PICK e \in Ends : e = LLSC!end(t)
  BY DEF Ends, LLSC!end
<1>2. /\ heap' = [heap EXCEPT ![e].entry = [heap[e].entry EXCEPT !.count = c]]
      /\ heap = [head |-> heap.head, tail |-> heap.tail, freed |-> heap.freed, node |-> heap.node]
  BY <1>1 DEF LLSC!casEntry, LLSC!loc, LLSC!q, Shape
<1>3. /\ heap' = [head |-> heap'.head, tail |-> heap'.tail, freed |-> heap'.freed, node |-> heap'.node]
      /\ heap'.node = heap.node
      /\ \A d \in Ends :
           heap'[d] = IF d = e THEN [heap[e] EXCEPT !.entry = [heap[e].entry EXCEPT !.count = c]] ELSE heap[d]
  BY <1>2 DEF Ends
<1>4. \A d \in Ends : /\ heap'[d] = [ptr |-> ptr(d), entry |-> heap'[d].entry]
                      /\ heap'[d].entry = [ver |-> ver(d), count |-> heap'[d].entry.count]
  <2>1. SUFFICES ASSUME NEW d \in Ends
                 PROVE  /\ heap'[d] = [ptr |-> ptr(d), entry |-> heap'[d].entry]
                        /\ heap'[d].entry = [ver |-> ver(d), count |-> heap'[d].entry.count]
    OBVIOUS
  <2>2. /\ heap[d] = [ptr |-> ptr(d), entry |-> heap[d].entry]
        /\ heap[d].entry = [ver |-> ver(d), count |-> heap[d].entry.count]
    BY DEF Shape
  <2>3. PICK g, v, x : g = heap[d] /\ v = ver(d) /\ x = ptr(d)
    OBVIOUS
  <2>4. CASE d = e
    <3>1. heap'[d] = [g EXCEPT !.entry = [g.entry EXCEPT !.count = c]]
      BY <1>3, <2>3, <2>4
    <3>2. g = [ptr |-> x, entry |-> g.entry] /\ g.entry = [ver |-> v, count |-> g.entry.count]
      BY <2>2, <2>3
    <3>3. heap'[d] = [ptr |-> x, entry |-> [ver |-> v, count |-> c]]
      BY ONLY <3>1, <3>2
    <3>. QED  BY <2>3, <3>3
  <2>5. CASE d # e
    BY <1>3, <2>2, <2>5
  <2>. QED  BY <2>4, <2>5
<1>5. \A d \in Ends : ver(d)' = ver(d) /\ ptr(d)' = ptr(d)
  <2>1. SUFFICES ASSUME NEW d \in Ends PROVE ver(d)' = ver(d) /\ ptr(d)' = ptr(d)
    OBVIOUS
  <2>2. PICK g, v, x : g = heap'[d] /\ v = ver(d) /\ x = ptr(d)
    OBVIOUS
  <2>3. g = [ptr |-> x, entry |-> g.entry] /\ g.entry = [ver |-> v, count |-> g.entry.count]
    BY <1>4, <2>2
  <2>4. g.ptr = x /\ g.entry.ver = v
    BY ONLY <2>3
  <2>5. heap'[d].ptr = ptr(d) /\ heap'[d].entry.ver = ver(d)
    BY <2>2, <2>4
  <2>6. ver(d)' = heap'[d].entry.ver /\ ptr(d)' = heap'[d].ptr
    BY DEF ver, ptr
  <2>. QED  BY <2>5, <2>6
<1>6. Shape'
  <2>1. \A d \in Ends : /\ heap'[d] = [ptr |-> ptr(d)', entry |-> heap'[d].entry]
                        /\ ptr(d)' = [i \in {0, 1} |-> ptr(d)'[i]]
                        /\ heap'[d].entry = [ver |-> ver(d)', count |-> heap'[d].entry.count]
                        /\ ver(d)' \in Nat
    BY <1>4, <1>5 DEF Shape
  <2>2. \A b \in DOMAIN heap'.node : heap'.node[b] =
          [val |-> heap'.node[b].val, next |-> heap'.node[b].next,
           pred |-> heap'.node[b].pred, exit |-> heap'.node[b].exit]
    BY <1>3 DEF Shape
  <2>3. heap' = [head |-> heap'.head, tail |-> heap'.tail, freed |-> heap'.freed, node |-> heap'.node]
    BY <1>3
  <2>. QED  BY <2>1, <2>2, <2>3 DEF Shape
<1>. QED  BY <1>3, <1>5, <1>6 DEF Same2

LEMMA SameExit ==
  ASSUME Shape, NEW x, x \in DOMAIN heap.node, NEW f, NEW r,
         heap' = [heap EXCEPT !.node = [heap.node EXCEPT ![x].exit = r], !.freed = f]
  PROVE  Same2
<1>1. /\ heap' = [head |-> heap.head, tail |-> heap.tail, freed |-> heap'.freed, node |-> heap'.node]
      /\ heap'.node = [heap.node EXCEPT ![x].exit = r]
  BY DEF Shape
<1>2. /\ DOMAIN heap'.node = DOMAIN heap.node
      /\ \A y \in DOMAIN heap.node : heap'.node[y] = [val |-> heap.node[y].val, next |-> heap.node[y].next,
              pred |-> heap.node[y].pred, exit |-> heap'.node[y].exit]
  BY <1>1 DEF Shape
<1>3. \A e \in Ends : heap'[e] = heap[e] /\ ver(e)' = ver(e) /\ ptr(e)' = ptr(e)
  BY <1>1 DEF Ends, ver, ptr
<1>4. Shape'
  BY <1>1, <1>2, <1>3 DEF Shape
<1>. QED  BY <1>2, <1>3, <1>4 DEF Same2

LEMMA QuietExplains ==
  ASSUME NEW n \in Nat, NEW o, Queue2(n, o), NEW p, Possible(p), Fits2(p, n, o),
         NEW t \in Threads, Alone(t), Same2, call' = call, made' = made, configs' = configs,
         Call2(t)', Seen2(t, n, o)',
         Linked2(t)' <=> Linked2(t), TookNext(t)' <=> TookNext(t), FoundNone(t)' <=> FoundNone(t),
         t \in Settled => my'[t].nd = my[t].nd, Attends(t) => Attends(t)'
  PROVE  Explaining2'
<1>1. IsFresh(t)' <=> IsFresh(t)
  BY DEF IsFresh
<1>2. Queue2(n, o)'
  BY <1>1, QuietStep
<1>3. t \in Settled' <=> t \in Settled
  BY DEF Settled
<1>4. /\ Values(n, o, Taken(o))' = Values(n, o, Taken(o))
      /\ \A x \in DOMAIN heap.node : x \in DOMAIN heap'.node /\ heap'.node[x].val = heap.node[x].val
  BY SameValues2
<1>5. t \in Settled => Gets(t)' = Gets(t)
  <2>1. ASSUME t \in Settled, call[t].op # "enq", my[t].nd # Null PROVE my[t].nd \in DOMAIN heap.node
    <3>1. pc[t] \in AfterNd
      BY <2>1 DEF Settled, Linked2, TookNext, FoundNone, AfterNd, Closing, Switching
    <3>2. my[t].ver \in Nat /\ my[t].ver + 2 <= n /\ my[t].nd = o[my[t].ver + 2]
      BY <2>1, <3>1 DEF Queue2, Seen2, NodeSeen, NdSeen, AfterLL
    <3>3. my[t].ver + 2 \in 0 .. n
      BY <3>2
    <3>. QED  BY <3>2, <3>3 DEF Queue2, Row2
  <2>. QED  BY <1>4, <2>1 DEF Gets, key
<1>6. Possible(p)' /\ Fits2(p, n, o)'
  BY <1>3, <1>4, <1>5, StillFits
<1>. QED  BY <1>2, <1>6 DEF Explaining2

LEMMA EndSeen ==
  ASSUME NEW n \in Nat, NEW o, Queue2(n, o), NEW t \in Threads
  PROVE  /\ end(t) \in Ends /\ LLSC!end(t) = end(t) /\ LLSC!loc(t) = heap[end(t)]
         /\ LLSC!loc(t).entry.ver = ver(end(t)) /\ LLSC!loc(t).ptr = ptr(end(t))
         /\ ver(end(t)) \in Nat /\ ver(end(t)) + 1 \in 1 .. n /\ AtNode(end(t), n, o)
         /\ Seen2(t, n, o) /\ Call2(t) /\ Shape
BY DEF Queue2, Calls2OK, HeapOK, Shape, AtNode, end, LLSC!end, LLSC!loc, LLSC!q, Ends, ver, ptr

LEMMA EndKept ==
  ASSUME NEW n \in Nat, NEW o, Queue2(n, o), NEW t \in Threads, Same2, call' = call
  PROVE  /\ end(t)' = end(t) /\ new(t)' = new(t) /\ key(t)' = key(t)
         /\ ver(end(t))' = ver(end(t)) /\ ptr(end(t))' = ptr(end(t))
<1>1. PICK e \in Ends : e = end(t) /\ end(t)' = e
  BY DEF end, Ends
<1>2. ver(e)' = ver(e) /\ ptr(e)' = ptr(e)
  BY DEF Same2
<1>. QED  BY <1>1, <1>2 DEF new, key, ver, ptr

SameEnd(t, l) == /\ end(t)' = end(t) /\ new(t)' = new(t) /\ call' = call /\ pc'[t] = l
                 /\ ver(end(t))' = ver(end(t)) /\ ptr(end(t))' = ptr(end(t))

(* A step of t to l that leaves it settled or not, as it was; w are its      *)
(* local variables after the step.                                          *)
InCall(t, l) == /\ call[t] # Nothing /\ l \in Labels
                /\ call[t].op = "enq" => l \notin {"deq", "val", "unlink", "unlink.cas"}
                /\ call[t].op = "deq" => l \notin {"enq", "next"}
OfTook == {"transfer", "val"} \cup Switching \cup Closing
OfNone == {"unlink", "unlink.cas"} \cup Closing
Stays(t, l, w) ==
  \/ pc[t] \notin AfterNd /\ l \notin AfterNd
  \/ pc[t] \notin AfterNd /\ l = "SC" /\ (call[t].op = "enq" => w.nd # new(t))
  \/ /\ pc[t] = "released" /\ l = "LL" /\ my[t].nd # Null
     /\ call[t].op = "enq" => my[t].nd # new(t)
     /\ call[t].op = "deq" => my[t].success # TRUE
  \/ /\ pc[t] = "SC" /\ l = "entry" /\ my[t].nd # Null /\ w.nd = my[t].nd
     /\ call[t].op = "deq" => w.success # TRUE
  \/ /\ pc[t] \in AfterNd /\ l \in AfterNd /\ w.nd = my[t].nd
     /\ my[t].nd # Null => /\ pc[t] \in OfTook <=> l \in OfTook
                           /\ pc[t] \in OfTook => w.success = my[t].success
     /\ my[t].nd = Null => (pc[t] \in OfNone <=> l \in OfNone)
     /\ pc[t] \in Switching /\ my[t].ver = ver(end(t)) => w.ver = my[t].ver /\ l \in Switching

(* A quiet step, in terms of what it does to the thread that takes it. *)
LEMMA QuietMove ==
  ASSUME NEW n \in Nat, NEW o, Queue2(n, o), NEW p, Possible(p), Fits2(p, n, o), NEW t \in Threads, Same2,
         NEW l, LLSC!Goto(t, l), LLSC!Internal, Alone(t),
         InCall(t, l),
         SameEnd(t, l) => Seen2(t, n, o)',
         Stays(t, l, my'[t])
  PROVE  Explaining2'
<1>1. call' = call /\ made' = made /\ configs' = configs /\ pc'[t] = l
  <2>1. Calls2OK
    BY DEF Queue2
  <2>. QED  BY <2>1, Goes2
<1>2. /\ end(t)' = end(t) /\ new(t)' = new(t) /\ key(t)' = key(t)
      /\ ver(end(t))' = ver(end(t)) /\ ptr(end(t))' = ptr(end(t))
  BY <1>1, EndKept
<1>3. Seen2(t, n, o)'
  BY <1>1, <1>2 DEF SameEnd
<1>4. Call2(t)'
  <2>1. Call2(t) /\ DOMAIN heap'.node = DOMAIN heap.node
    BY EndSeen DEF Same2
  <2>. QED  BY <1>1, <1>2, <2>1 DEF Call2, Nothing, Labels, InCall
<1>5. Linked2(t)' <=> Linked2(t)
  BY <1>1, <1>2 DEF Linked2, AfterNd, Switching, Closing, Stays, OfTook, OfNone
<1>6. TookNext(t)' <=> TookNext(t)
  BY <1>1, <1>2 DEF TookNext, AfterNd, Switching, Closing, Stays, OfTook, OfNone
<1>7. FoundNone(t)' <=> FoundNone(t)
  BY <1>1, <1>2 DEF FoundNone, AfterNd, Switching, Closing, Stays, OfTook, OfNone
<1>8. t \in Settled => my'[t].nd = my[t].nd
  BY DEF Settled, Linked2, TookNext, FoundNone, AfterNd, Switching, Closing, Stays, OfTook, OfNone
<1>9. Attends(t) => Attends(t)'
  <2>1. ver("head")' = ver("head")
    BY DEF Same2, Ends
  <2>2. ASSUME Attends(t) PROVE pc[t] \in Switching /\ my[t].ver = ver(end(t)) /\ pc[t] \in AfterNd
    BY <2>2 DEF Attends, TookNext, end, AfterNd, Switching, Closing
  <2>. QED  BY <1>1, <1>6, <2>1, <2>2 DEF Attends, TookNext, Stays, AfterNd, OfTook, OfNone, Switching, Closing
<1>. QED  BY <1>1, <1>3, <1>4, <1>5, <1>6, <1>7, <1>8, <1>9, QuietExplains

LEMMA LoadEntryQuiet ==
  ASSUME NEW n \in Nat, NEW o, Queue2(n, o), NEW p, Possible(p), Fits2(p, n, o), NEW t \in Threads,
         LLSC!LoadEntry(t)
  PROVE  Explaining2'
<1>1. /\ pc[t] = "LL" /\ heap' = heap /\ LLSC!Goto(t, "current") /\ LLSC!Internal
      /\ LLSC!Set(t, [e |-> heap[end(t)].entry])
  BY EndSeen DEF LLSC!LoadEntry, LLSC!At, LLSC!Local
<1>2. Same2
  BY <1>1, EndSeen, SameHeap
<1>3. Calls2OK
  BY DEF Queue2
<1>4. Alone(t) /\ Has(t, {"e"})' /\ my'[t].e.ver = ver(end(t))
  BY <1>1, <1>3, Goes2 DEF Has, ver
<1>5. ver(end(t)) \in Nat
  BY EndSeen
<1>6. SameEnd(t, "current") => Seen2(t, n, o)'
  BY <1>4, <1>5 DEF SameEnd, Seen2, EntrySeen, NodeSeen, NdSeen, SwitchSeen, AfterLL, AfterNd, Switching, Closing
<1>7. InCall(t, "current")
  BY <1>1 DEF Queue2, Calls2OK, Call2, Nothing, InCall, Labels
<1>8. Stays(t, "current", my'[t])
  BY <1>1 DEF Stays, AfterNd, Switching, Closing
<1>. QED  BY <1>1, <1>2, <1>4, <1>6, <1>7, <1>8, QuietMove

LEMMA CurrentQuiet ==
  ASSUME NEW n \in Nat, NEW o, Queue2(n, o), NEW p, Possible(p), Fits2(p, n, o), NEW t \in Threads,
         LLSC!Current(t)
  PROVE  Explaining2'
<1>1. /\ pc[t] = "current" /\ heap' = heap /\ LLSC!Goto(t, "LL.cas") /\ LLSC!Internal
      /\ LLSC!Set(t, [ver |-> my[t].e.ver, node |-> ptr(end(t))[my[t].e.ver % 2]])
  BY EndSeen DEF LLSC!Current, LLSC!At, LLSC!Local
<1>2. Same2
  BY <1>1, EndSeen, SameHeap
<1>3. Calls2OK
  BY DEF Queue2
<1>4. Has(t, {"e"}) /\ my[t].e.ver \in Nat /\ my[t].e.ver <= ver(end(t))
  BY <1>1, EndSeen DEF Seen2, EntrySeen
<1>5. /\ Alone(t) /\ Has(t, {"e", "ver", "node"})' /\ my'[t].e = my[t].e /\ my'[t].ver = my[t].e.ver
      /\ my'[t].node = ptr(end(t))[my[t].e.ver % 2]
  BY <1>1, <1>3, <1>4, Goes2 DEF Has
<1>6. ver(end(t)) \in Nat /\ ptr(end(t))[ver(end(t)) % 2] = o[ver(end(t)) + 1]
  BY EndSeen DEF AtNode
<1>7. SameEnd(t, "LL.cas") => Seen2(t, n, o)'
  BY <1>4, <1>5, <1>6 DEF SameEnd, Seen2, EntrySeen, NodeSeen, NdSeen, SwitchSeen,
                             AfterLL, AfterNd, Switching, Closing, Has
<1>8. InCall(t, "LL.cas")
  BY <1>1 DEF Queue2, Calls2OK, Call2, Nothing, InCall, Labels
<1>9. Stays(t, "LL.cas", my'[t])
  BY <1>1 DEF Stays, AfterNd, Switching, Closing
<1>. QED  BY <1>1, <1>2, <1>5, <1>7, <1>8, <1>9, QuietMove

LEMMA LLQuiet ==
  ASSUME NEW n \in Nat, NEW o, Queue2(n, o), NEW p, Possible(p), Fits2(p, n, o), NEW t \in Threads,
         LLSC!LL(t)
  PROVE  Explaining2'
<1>1. pc[t] = "LL.cas" /\ my' = my
  BY DEF LLSC!LL, LLSC!At
<1>2. Calls2OK
  BY DEF Queue2
<1>3. /\ Has(t, {"e", "ver", "node"}) /\ my[t].e.ver \in Nat /\ my[t].e.ver <= ver(end(t)) /\ my[t].ver = my[t].e.ver
      /\ ver(end(t)) = my[t].ver => my[t].node = o[my[t].ver + 1]
  BY <1>1, EndSeen DEF Seen2, EntrySeen, Has
<1>4. call[t] # Nothing /\ call[t].op \in {"enq", "deq"} /\ pc[t] \notin AfterNd
  BY <1>1 DEF Queue2, Calls2OK, Call2, Nothing, AfterNd, Switching, Closing
<1>5. CASE LLSC!loc(t).entry = my[t].e
  <2>1. /\ heap' = LLSC!casEntry(t, [my[t].e EXCEPT !.count = @ + 1])
        /\ LLSC!Goto(t, call[t].op) /\ LLSC!Internal
    BY <1>5 DEF LLSC!LL
  <2>2. PICK c : c = my[t].e.count + 1
    OBVIOUS
  <2>3. heap' = LLSC!casEntry(t, [my[t].e EXCEPT !.count = c])
    BY <2>1, <2>2
  <2>4. Same2
    BY <1>5, <2>3, EndSeen, SameEntry
  <2>5. Alone(t) /\ my'[t] = my[t] /\ Has(t, {"e", "ver", "node"})'
    BY <1>1, <1>2, <1>3, <2>1, Goes2 DEF Has
  <2>6. ver(end(t)) = my[t].ver
    BY <1>3, <1>5, EndSeen
  <2>7. SameEnd(t, call[t].op) => Seen2(t, n, o)'
    BY <1>3, <1>4, <2>5, <2>6 DEF SameEnd, Seen2, EntrySeen, NodeSeen, NdSeen, SwitchSeen,
                                       AfterNd, Switching, Closing, Has
  <2>8. InCall(t, call[t].op) /\ Stays(t, call[t].op, my'[t])
    BY <1>4 DEF InCall, Stays, Labels, AfterLL, AfterNd, Switching, Closing
  <2>. QED  BY <1>4, <2>1, <2>4, <2>5, <2>7, <2>8, QuietMove
<1>6. CASE LLSC!loc(t).entry # my[t].e
  <2>1. heap' = heap /\ LLSC!Goto(t, "LL") /\ LLSC!Internal
    BY <1>6 DEF LLSC!LL, LLSC!Local
  <2>2. Same2
    BY <2>1, EndSeen, SameHeap
  <2>3. Alone(t)
    BY <1>1, <1>2, <2>1, Goes2
  <2>4. SameEnd(t, "LL") => Seen2(t, n, o)'
    BY DEF SameEnd, Seen2, EntrySeen, NodeSeen, NdSeen, SwitchSeen, AfterLL, AfterNd, Switching, Closing
  <2>5. InCall(t, "LL") /\ Stays(t, "LL", my'[t])
    BY <1>4 DEF InCall, Stays, Labels, AfterLL, AfterNd, Switching, Closing
  <2>. QED  BY <1>4, <2>1, <2>2, <2>3, <2>4, <2>5, QuietMove
<1>. QED  BY <1>5, <1>6

LEMMA RowNode ==
  ASSUME NEW n \in Nat, NEW o, Queue2(n, o), NEW k, k \in 0 .. n
  PROVE  /\ o[k] \in DOMAIN heap.node /\ o[k] \notin Fresh
         /\ heap.node[o[k]].next = IF k = 0 \/ k = n THEN Null ELSE o[k + 1]
         /\ k # 0 => heap.node[o[k]].pred = o[k - 1]
         /\ \A t \in Threads : IsFresh(t) => o[k] # new(t)
<1>1. o[k] \in DOMAIN heap.node /\ o[k] \notin Fresh
  BY DEF Queue2, Row2
<1>2. heap.node[o[k]].next = IF k = 0 \/ k = n THEN Null ELSE o[k + 1]
  BY DEF Queue2, Row2
<1>3. k # 0 => heap.node[o[k]].pred = o[k - 1]
  BY DEF Queue2, Row2
<1>. QED  BY <1>1, <1>2, <1>3 DEF Fresh

LEMMA NotNull ==
  ASSUME NEW n \in Nat, NEW o, Queue2(n, o), NEW k, k \in 0 .. n
  PROVE  o[k] # Null
<1>1. o[k] \in {Dummy, Dummy1} \cup (1 .. made) /\ made \in Nat
  BY RowNode DEF Queue2, HeapOK, Calls2OK
<1>. QED  BY <1>1, NodeNamesAssumption, Node1Assumption

(* The node that a thread works on. *)
LEMMA NodeWorked ==
  ASSUME NEW n \in Nat, NEW o, Queue2(n, o), NEW t \in Threads, pc[t] \in AfterLL
  PROVE  /\ my[t].ver \in Nat /\ my[t].ver <= ver(end(t)) /\ my[t].ver + 1 \in 1 .. n
         /\ my[t].node = o[my[t].ver + 1] /\ Has(t, {"e", "ver", "node"})
         /\ my[t].node \in DOMAIN heap.node
         /\ heap.node[my[t].node].next = IF my[t].ver + 1 = n THEN Null ELSE o[my[t].ver + 2]
         /\ heap.node[my[t].node].pred = o[my[t].ver]
<1>1. /\ my[t].ver \in Nat /\ my[t].ver <= ver(end(t)) /\ my[t].node = o[my[t].ver + 1]
      /\ Has(t, {"e", "ver", "node"}) /\ ver(end(t)) \in Nat /\ ver(end(t)) + 1 \in 1 .. n
  BY EndSeen DEF Seen2, NodeSeen
<1>2. PICK k : k = my[t].ver + 1
  OBVIOUS
<1>3. k \in 1 .. n /\ k \in 0 .. n /\ k # 0 /\ k + 1 = my[t].ver + 2 /\ k - 1 = my[t].ver
  BY <1>1, <1>2
<1>4. /\ o[k] \in DOMAIN heap.node
      /\ heap.node[o[k]].next = IF k = n THEN Null ELSE o[k + 1]
      /\ heap.node[o[k]].pred = o[k - 1]
  BY <1>3, RowNode
<1>. QED  BY <1>1, <1>2, <1>3, <1>4

LEMMA TailNextQuiet ==
  ASSUME NEW n \in Nat, NEW o, Queue2(n, o), NEW p, Possible(p), Fits2(p, n, o), NEW t \in Threads,
         LLSC!TailNext(t)
  PROVE  Explaining2'
<1>1. /\ pc[t] = "next" /\ heap' = heap /\ LLSC!Goto(t, "SC") /\ LLSC!Internal
      /\ LLSC!Set(t, [nd |-> heap.node[my[t].node].next])
  BY DEF LLSC!TailNext, LLSC!At, LLSC!Local, LLSC!q
<1>2. Same2
  BY <1>1, EndSeen, SameHeap
<1>3. Calls2OK
  BY DEF Queue2
<1>4. pc[t] \in AfterLL /\ pc[t] \notin AfterNd
  BY <1>1 DEF AfterLL, AfterNd, Switching, Closing
<1>5. /\ my[t].ver \in Nat /\ my[t].ver <= ver(end(t)) /\ my[t].node = o[my[t].ver + 1]
      /\ Has(t, {"e", "ver", "node"}) /\ my[t].ver + 2 <= n /\ heap.node[my[t].node].next = o[my[t].ver + 2]
  BY <1>1, <1>4, NodeWorked, EndSeen DEF Seen2, NodeSeen
<1>6. /\ Alone(t) /\ my'[t].nd = o[my[t].ver + 2] /\ Has(t, {"e", "ver", "node", "nd"})'
      /\ my'[t].ver = my[t].ver /\ my'[t].node = my[t].node
  BY <1>1, <1>3, <1>5, Goes2 DEF Has
<1>7. my[t].ver + 2 \in 0 .. n
  BY <1>5
<1>8. o[my[t].ver + 2] # Null /\ (IsFresh(t) => o[my[t].ver + 2] # new(t))
  BY <1>7, NotNull, RowNode
<1>9. SameEnd(t, "SC") => Seen2(t, n, o)'
  BY <1>5, <1>6, <1>8 DEF SameEnd, Seen2, EntrySeen, NodeSeen, NdSeen, SwitchSeen,
                                       AfterNd, Switching, Closing, Has
<1>10. InCall(t, "SC")
  BY <1>1 DEF Queue2, Calls2OK, Call2, Nothing, InCall, Labels, AfterLL, AfterNd
<1>11. Stays(t, "SC", my'[t])
  BY <1>4, <1>6, <1>8 DEF Stays, IsFresh, Linked2
<1>. QED  BY <1>1, <1>2, <1>6, <1>9, <1>10, <1>11, QuietMove

LEMMA HeadNextQuiet ==
  ASSUME NEW n \in Nat, NEW o, Queue2(n, o), NEW p, Possible(p), Fits2(p, n, o), NEW t \in Threads,
         LLSC!deq(t), heap.node[my[t].node].next # Null
  PROVE  Explaining2'
<1>1. /\ pc[t] = "deq" /\ heap' = heap /\ LLSC!Goto(t, "SC") /\ LLSC!Internal
      /\ LLSC!Set(t, [nd |-> heap.node[my[t].node].next])
  BY DEF LLSC!deq, LLSC!At, LLSC!Local, LLSC!q
<1>2. Same2
  BY <1>1, EndSeen, SameHeap
<1>3. Calls2OK
  BY DEF Queue2
<1>4. pc[t] \in AfterLL /\ pc[t] \notin AfterNd
  BY <1>1 DEF AfterLL, AfterNd, Switching, Closing
<1>5. /\ my[t].ver \in Nat /\ my[t].ver <= ver(end(t)) /\ my[t].node = o[my[t].ver + 1]
      /\ Has(t, {"e", "ver", "node"}) /\ my[t].ver + 2 <= n /\ heap.node[my[t].node].next = o[my[t].ver + 2]
  BY <1>1, <1>4, NodeWorked
<1>6. /\ Alone(t) /\ my'[t].nd = o[my[t].ver + 2] /\ Has(t, {"e", "ver", "node", "nd"})'
      /\ my'[t].ver = my[t].ver /\ my'[t].node = my[t].node
  BY <1>1, <1>3, <1>5, Goes2 DEF Has
<1>7. my[t].ver + 2 \in 0 .. n
  BY <1>5
<1>8. o[my[t].ver + 2] # Null
  BY <1>7, NotNull
<1>9. SameEnd(t, "SC") => Seen2(t, n, o)'
  BY <1>5, <1>6, <1>8 DEF SameEnd, Seen2, EntrySeen, NodeSeen, NdSeen, SwitchSeen,
                                       AfterNd, Switching, Closing, Has
<1>10. call[t].op = "deq" /\ InCall(t, "SC")
  BY <1>1 DEF Queue2, Calls2OK, Call2, Nothing, InCall, Labels, AfterLL, AfterNd, Switching, Closing
<1>11. Stays(t, "SC", my'[t])
  BY <1>4, <1>10 DEF Stays
<1>. QED  BY <1>1, <1>2, <1>6, <1>9, <1>10, <1>11, QuietMove

LEMMA NdWorked ==
  ASSUME NEW n \in Nat, NEW o, Queue2(n, o), NEW t \in Threads, pc[t] \in AfterNd
  PROVE  /\ Has(t, {"nd"})
         /\ my[t].nd # Null => /\ my[t].ver + 2 \in 1 .. n /\ my[t].nd = o[my[t].ver + 2]
                               /\ my[t].nd \in DOMAIN heap.node /\ (IsFresh(t) => my[t].nd # new(t))
         /\ NdSeen(t, n, o) /\ SwitchSeen(t, o) /\ pc[t] \in AfterLL /\ Call2(t)
<1>1. Has(t, {"nd"}) /\ (my[t].nd # Null => my[t].ver + 2 <= n /\ my[t].nd = o[my[t].ver + 2])
  BY EndSeen DEF Seen2, NdSeen
<1>2. pc[t] \in AfterLL /\ NdSeen(t, n, o) /\ SwitchSeen(t, o) /\ Call2(t)
  BY EndSeen DEF Seen2, AfterLL
<1>3. my[t].nd # Null => my[t].ver + 2 \in 1 .. n /\ my[t].ver + 2 \in 0 .. n
  BY <1>1, <1>2, NodeWorked
<1>4. my[t].nd # Null => my[t].nd \in DOMAIN heap.node /\ (IsFresh(t) => my[t].nd # new(t))
  BY <1>1, <1>3, RowNode
<1>. QED  BY <1>1, <1>2, <1>3, <1>4

LEMMA SuccessSeen ==
  ASSUME NEW n \in Nat, NEW o, Queue2(n, o), NEW t \in Threads, pc[t] \in OfTook, my[t].nd # Null
  PROVE  Has(t, {"e", "ver", "node", "nd", "success"}) /\ my[t].success \in BOOLEAN
<1>1. pc[t] \in AfterNd
  BY DEF OfTook, AfterNd
<1>2. Has(t, {"e", "ver", "node"}) /\ Has(t, {"nd"})
  BY <1>1, NdWorked, NodeWorked
<1>3. Has(t, {"success"}) /\ my[t].success \in BOOLEAN
  BY <1>1, NdWorked DEF SwitchSeen, OfTook
<1>. QED  BY <1>2, <1>3 DEF Has

LEMMA SwitchWorked ==
  ASSUME NEW n \in Nat, NEW o, Queue2(n, o), NEW t \in Threads, pc[t] \in Switching \cup {"transfer"}
  PROVE  /\ pc[t] \in AfterNd /\ my[t].nd # Null /\ my[t].ver \in Nat
         /\ Has(t, {"e", "ver", "node", "nd", "success"}) /\ my[t].success \in BOOLEAN
         /\ SwitchSeen(t, o)
<1>1. pc[t] \in AfterNd /\ pc[t] \in OfTook
  BY DEF AfterNd, OfTook
<1>2. pc[t] \in AfterLL /\ SwitchSeen(t, o) /\ my[t].nd # Null
  BY <1>1, NdWorked DEF NdSeen
<1>3. my[t].ver \in Nat
  BY <1>2, NodeWorked
<1>4. Has(t, {"e", "ver", "node", "nd", "success"}) /\ my[t].success \in BOOLEAN
  BY <1>1, <1>2, SuccessSeen
<1>. QED  BY <1>1, <1>2, <1>3, <1>4

(* What t must have seen to go on to l, when w are its local variables. *)
Ready(t, l, w, o) ==
  /\ {"e", "ver", "node", "nd"} \subseteq DOMAIN w /\ w.ver = my[t].ver /\ w.node = my[t].node /\ w.nd = my[t].nd
  /\ l \in {"SC", "transfer", "val"} \cup Switching => my[t].nd # Null
  /\ l \in {"unlink", "unlink.cas"} => my[t].nd = Null
  /\ l \in Switching /\ ver(end(t)) = my[t].ver => ptr(end(t))[other(my[t].ver)] = o[my[t].ver + 2]
  /\ l = "entry.cas" => w.e.ver = my[t].ver
  /\ l \in OfTook /\ my[t].nd # Null => "success" \in DOMAIN w /\ w.success \in BOOLEAN
  /\ l = "val" => w.success = TRUE
  /\ l = "transfer" => my[t].ver # ver(end(t))

LEMMA ReadySees ==
  ASSUME NEW n \in Nat, NEW o, Queue2(n, o), NEW t \in Threads, pc[t] \in AfterNd,
         NEW l, l \in AfterNd, Ready(t, l, my'[t], o), SameEnd(t, l)
  PROVE  Seen2(t, n, o)'
<1>1. /\ my[t].ver \in Nat /\ my[t].ver <= ver(end(t)) /\ my[t].node = o[my[t].ver + 1]
      /\ my[t].nd # Null => my[t].ver + 2 \in 1 .. n /\ my[t].nd = o[my[t].ver + 2]
      /\ call[t].op = "enq" => my[t].nd # Null
  BY NdWorked, NodeWorked DEF NdSeen
<1>2. EntrySeen(t, o)'
  BY DEF EntrySeen, SameEnd, AfterNd, Switching, Closing
<1>3. NodeSeen(t, n, o)'
  BY <1>1 DEF NodeSeen, SameEnd, Ready, AfterNd, Switching, Closing, Has
<1>4. NdSeen(t, n, o)'
  BY <1>1 DEF NdSeen, SameEnd, Ready, AfterNd, Switching, Closing, Has
<1>5. SwitchSeen(t, o)'
  BY <1>1 DEF SwitchSeen, SameEnd, Ready, OfTook, Switching, Closing, Has
<1>. QED  BY <1>2, <1>3, <1>4, <1>5 DEF Seen2

LEMMA QuietAfterNd ==
  ASSUME NEW n \in Nat, NEW o, Queue2(n, o), NEW p, Possible(p), Fits2(p, n, o), NEW t \in Threads, Same2,
         NEW l, LLSC!Goto(t, l), LLSC!Internal, Alone(t), pc[t] \in AfterNd, l \in AfterNd,
         l \in {"val", "unlink", "unlink.cas"} => call[t].op # "enq",
         Ready(t, l, my'[t], o), Stays(t, l, my'[t])
  PROVE  Explaining2'
<1>1. SameEnd(t, l) => Seen2(t, n, o)'
  BY ReadySees
<1>2. InCall(t, l)
  <2>1. Call2(t) /\ l # "deq" /\ l # "enq" /\ l # "next" /\ pc[t] # "idle"
    BY EndSeen DEF AfterNd, Switching, Closing
  <2>. QED  BY <2>1 DEF InCall, Call2, Labels, AfterLL, Nothing
<1>. QED  BY <1>1, <1>2, QuietMove

LEMMA SCFailsQuiet ==
  ASSUME NEW n \in Nat, NEW o, Queue2(n, o), NEW p, Possible(p), Fits2(p, n, o), NEW t \in Threads,
         LLSC!SC(t), ptr(end(t))[other(my[t].ver)] # heap.node[my[t].node].pred
  PROVE  Explaining2'
<1>1. /\ pc[t] = "SC" /\ heap' = heap /\ LLSC!Goto(t, "entry") /\ LLSC!Internal
      /\ LLSC!Set(t, [success |-> FALSE])
  BY EndSeen DEF LLSC!SC, LLSC!At, LLSC!Local, LLSC!q, other
<1>2. Same2
  BY <1>1, EndSeen, SameHeap
<1>3. Calls2OK
  BY DEF Queue2
<1>4. pc[t] \in AfterNd
  BY <1>1 DEF AfterNd, Switching, Closing
<1>5. /\ my[t].ver \in Nat /\ Has(t, {"e", "ver", "node", "nd"}) /\ my[t].nd # Null
      /\ heap.node[my[t].node].pred = o[my[t].ver]
  BY <1>1, <1>4, NdWorked, NodeWorked DEF NdSeen, Has
<1>6. /\ Alone(t) /\ {"e", "ver", "node", "nd", "success"} \subseteq DOMAIN my'[t] /\ my'[t].success = FALSE
      /\ my'[t].ver = my[t].ver /\ my'[t].node = my[t].node /\ my'[t].nd = my[t].nd
  BY <1>1, <1>3, <1>5, Goes2 DEF Has
<1>7. ver(end(t)) = my[t].ver => ptr(end(t))[other(my[t].ver)] = o[my[t].ver + 2]
  BY <1>5, EndSeen DEF AtNode
<1>8. Ready(t, "entry", my'[t], o) /\ Stays(t, "entry", my'[t])
  BY <1>1, <1>5, <1>6, <1>7 DEF Ready, Stays, Switching, OfTook
<1>9. "entry" \in AfterNd /\ "entry" \notin {"val", "unlink", "unlink.cas"}
  BY DEF AfterNd, Switching
<1>. QED  BY <1>1, <1>2, <1>4, <1>6, <1>8, <1>9, QuietAfterNd

LEMMA SameFreed == ASSUME Shape, NEW f, heap' = [heap EXCEPT !.freed = f] PROVE Same2
<1>1. heap' = [head |-> heap.head, tail |-> heap.tail, freed |-> heap'.freed, node |-> heap.node]
  BY DEF Shape
<1>2. \A e \in Ends : heap'[e] = heap[e] /\ ver(e)' = ver(e) /\ ptr(e)' = ptr(e)
  BY <1>1 DEF Ends, ver, ptr
<1>3. Shape'
  BY <1>1, <1>2 DEF Shape
<1>. QED  BY <1>1, <1>2, <1>3 DEF Same2

(* A step that leaves the local variables as they are. *)
LEMMA NothingSeen ==
  ASSUME NEW n \in Nat, NEW o, Queue2(n, o), NEW p, Possible(p), Fits2(p, n, o), NEW t \in Threads, Same2,
         NEW l, LLSC!Goto(t, l), LLSC!Internal, my' = my, pc[t] \in AfterNd, l \in AfterNd,
         l \in {"val", "unlink", "unlink.cas"} => call[t].op # "enq",
         Ready(t, l, my[t], o), Stays(t, l, my[t])
  PROVE  Explaining2'
<1>1. Calls2OK
  BY DEF Queue2
<1>2. Alone(t) /\ my'[t] = my[t]
  BY <1>1, Goes2
<1>. QED  BY <1>2, QuietAfterNd

LEMMA EntryAgainQuiet ==
  ASSUME NEW n \in Nat, NEW o, Queue2(n, o), NEW p, Possible(p), Fits2(p, n, o), NEW t \in Threads,
         LLSC!EntryAgain(t)
  PROVE  Explaining2'
<1> DEFINE l == IF ver(end(t)) = my[t].ver THEN "entry.cas" ELSE "release"
<1>1. /\ pc[t] = "entry" /\ heap' = heap /\ LLSC!Goto(t, l) /\ LLSC!Internal
      /\ LLSC!Set(t, [e |-> heap[end(t)].entry])
  BY EndSeen DEF LLSC!EntryAgain, LLSC!At, LLSC!Local
<1>2. Same2
  BY <1>1, EndSeen, SameHeap
<1>3. Calls2OK
  BY DEF Queue2
<1>4. pc[t] \in AfterNd /\ l \in AfterNd /\ l \in {"entry.cas", "release"}
  BY <1>1 DEF AfterNd, Switching, Closing
<1>5. /\ my[t].ver \in Nat /\ Has(t, {"e", "ver", "node", "nd", "success"}) /\ my[t].nd # Null
      /\ my[t].success \in BOOLEAN
      /\ ver(end(t)) = my[t].ver => ptr(end(t))[other(my[t].ver)] = o[my[t].ver + 2]
  <2>1. SwitchSeen(t, o) /\ my[t].nd # Null /\ my[t].ver \in Nat /\ my[t].success \in BOOLEAN
        /\ Has(t, {"e", "ver", "node", "nd", "success"})
    BY <1>1, SwitchWorked DEF Switching
  <2>. QED  BY <1>1, <2>1 DEF SwitchSeen, Switching
<1>6. /\ Alone(t) /\ {"e", "ver", "node", "nd", "success"} \subseteq DOMAIN my'[t] /\ my'[t].e.ver = ver(end(t))
      /\ my'[t].ver = my[t].ver /\ my'[t].node = my[t].node /\ my'[t].nd = my[t].nd
      /\ my'[t].success = my[t].success
  BY <1>1, <1>3, <1>5, Goes2 DEF Has, ver
<1>7. Ready(t, l, my'[t], o)
  BY <1>4, <1>5, <1>6 DEF Ready, Switching, OfTook
<1>8. Stays(t, l, my'[t])
  BY <1>1, <1>4, <1>5, <1>6 DEF Stays, Switching, Closing, OfTook, OfNone
<1> HIDE DEF l
<1>. QED  BY <1>1, <1>2, <1>4, <1>6, <1>7, <1>8, QuietAfterNd

LEMMA SwitchFailsQuiet ==
  ASSUME NEW n \in Nat, NEW o, Queue2(n, o), NEW p, Possible(p), Fits2(p, n, o), NEW t \in Threads,
         LLSC!SwitchEntry(t), LLSC!loc(t).entry # my[t].e
  PROVE  Explaining2'
<1>1. pc[t] = "entry.cas" /\ heap' = heap /\ LLSC!Goto(t, "entry") /\ LLSC!Internal /\ my' = my
  BY DEF LLSC!SwitchEntry, LLSC!At, LLSC!Local
<1>2. Same2
  BY <1>1, EndSeen, SameHeap
<1>3. pc[t] \in AfterNd /\ "entry" \in AfterNd
  BY <1>1 DEF AfterNd, Switching, Closing
<1>4. /\ my[t].ver \in Nat /\ Has(t, {"e", "ver", "node", "nd", "success"}) /\ my[t].nd # Null
      /\ my[t].success \in BOOLEAN
      /\ ver(end(t)) = my[t].ver => ptr(end(t))[other(my[t].ver)] = o[my[t].ver + 2]
  <2>1. SwitchSeen(t, o) /\ my[t].nd # Null /\ my[t].ver \in Nat /\ my[t].success \in BOOLEAN
        /\ Has(t, {"e", "ver", "node", "nd", "success"})
    BY <1>1, SwitchWorked DEF Switching
  <2>. QED  BY <1>1, <2>1 DEF SwitchSeen, Switching
<1>5. Ready(t, "entry", my[t], o)
  BY <1>4 DEF Ready, Has
<1>6. Stays(t, "entry", my[t])
  BY <1>1, <1>3, <1>4 DEF Stays, Switching, Closing, OfTook, OfNone
<1>. QED  BY <1>1, <1>2, <1>3, <1>5, <1>6, NothingSeen

LEMMA transferQuiet ==
  ASSUME NEW n \in Nat, NEW o, Queue2(n, o), NEW p, Possible(p), Fits2(p, n, o), NEW t \in Threads,
         LLSC!transfer(t)
  PROVE  Explaining2'
<1>1. /\ pc[t] = "transfer" /\ LLSC!Goto(t, "entry") /\ LLSC!Internal /\ my' = my
      /\ heap' = [heap EXCEPT !.node[my[t].node].exit =
                    [heap.node[my[t].node].exit EXCEPT !.count = @ + my[t].e.count, !.transfersLeft = @ - 1]]
  BY DEF LLSC!transfer, LLSC!At, LLSC!q
<1>2. pc[t] \in AfterNd /\ "entry" \in AfterNd
  BY <1>1 DEF AfterNd, Switching, Closing
<1>3. /\ my[t].ver \in Nat /\ Has(t, {"e", "ver", "node", "nd", "success"}) /\ my[t].nd # Null
      /\ my[t].success \in BOOLEAN /\ ver(end(t)) # my[t].ver
  <2>1. SwitchSeen(t, o) /\ my[t].nd # Null /\ my[t].ver \in Nat /\ my[t].success \in BOOLEAN
        /\ Has(t, {"e", "ver", "node", "nd", "success"})
    BY <1>1, SwitchWorked DEF Switching
  <2>. QED  BY <1>1, <2>1 DEF SwitchSeen, Switching
<1>4. Same2
  <2>1. PICK x \in DOMAIN heap.node : x = my[t].node
    BY <1>2, NdWorked, NodeWorked
  <2>2. PICK r : r = [heap.node[x].exit EXCEPT !.count = @ + my[t].e.count, !.transfersLeft = @ - 1]
    OBVIOUS
  <2>3. heap = [head |-> heap.head, tail |-> heap.tail, freed |-> heap.freed, node |-> heap.node] /\ Shape
    BY EndSeen DEF Shape
  <2>4. heap' = [heap EXCEPT !.node[x].exit = r]
    BY <1>1, <2>1, <2>2
  <2>5. heap' = [heap EXCEPT !.node = [heap.node EXCEPT ![x].exit = r], !.freed = heap.freed]
    BY <2>3, <2>4
  <2>. QED  BY <2>3, <2>5, SameExit
<1>5. Ready(t, "entry", my[t], o)
  BY <1>3 DEF Ready, Has
<1>6. Stays(t, "entry", my[t])
  BY <1>1, <1>2, <1>3 DEF Stays, Switching, Closing, OfTook, OfNone
<1>. QED  BY <1>1, <1>2, <1>4, <1>5, <1>6, NothingSeen

LEMMA releaseQuiet ==
  ASSUME NEW n \in Nat, NEW o, Queue2(n, o), NEW p, Possible(p), Fits2(p, n, o), NEW t \in Threads,
         LLSC!release(t)
  PROVE  Explaining2'
<1>1. PICK l, r, f : /\ pc[t] = "release" /\ LLSC!Goto(t, l) /\ LLSC!Internal /\ my' = my
                     /\ l \in {"setNLPred", "released"}
                     /\ heap' = [heap EXCEPT !.node[my[t].node].exit = r, !.freed = f]
  <2>1. PICK r, f : /\ r = [heap.node[my[t].node].exit EXCEPT !.count = @ - 1]
                    /\ f = heap.freed \cup LLSC!Freed(my[t].node, r)
    OBVIOUS
  <2>2. PICK l : l = IF LLSC!CLEAN(r) THEN "setNLPred" ELSE "released"
    OBVIOUS
  <2>3. /\ pc[t] = "release" /\ LLSC!Goto(t, l) /\ LLSC!Internal /\ my' = my /\ l \in {"setNLPred", "released"}
        /\ heap' = [heap EXCEPT !.node[my[t].node].exit = r, !.freed = f]
    BY <2>1, <2>2 DEF LLSC!release, LLSC!At, LLSC!q
  <2>. QED  BY <2>3
<1>2. pc[t] \in AfterNd /\ l \in AfterNd
  BY <1>1 DEF AfterNd, Closing
<1>3. /\ my[t].ver \in Nat /\ Has(t, {"e", "ver", "node", "nd"})
      /\ my[t].nd # Null => Has(t, {"success"}) /\ my[t].success \in BOOLEAN
  <2>1. pc[t] \in OfTook
    BY <1>1 DEF OfTook, Closing
  <2>. QED  BY <1>2, <2>1, NdWorked, NodeWorked, SuccessSeen DEF Has
<1>4. Same2
  <2>1. PICK x \in DOMAIN heap.node : x = my[t].node
    BY <1>2, NdWorked, NodeWorked
  <2>2. heap = [head |-> heap.head, tail |-> heap.tail, freed |-> heap.freed, node |-> heap.node] /\ Shape
    BY EndSeen DEF Shape
  <2>3. heap' = [heap EXCEPT !.node = [heap.node EXCEPT ![x].exit = r], !.freed = f]
    BY <1>1, <2>1, <2>2
  <2>. QED  BY <2>2, <2>3, SameExit
<1>5. Ready(t, l, my[t], o)
  BY <1>1, <1>3 DEF Ready, Switching, Has
<1>6. Stays(t, l, my[t])
  BY <1>1, <1>2, <1>3 DEF Stays, Switching, Closing, OfTook, OfNone
<1>. QED  BY <1>1, <1>2, <1>4, <1>5, <1>6, NothingSeen

LEMMA setNLPredQuiet ==
  ASSUME NEW n \in Nat, NEW o, Queue2(n, o), NEW p, Possible(p), Fits2(p, n, o), NEW t \in Threads,
         LLSC!setNLPred(t)
  PROVE  Explaining2'
<1>1. PICK f : /\ pc[t] = "setNLPred" /\ LLSC!Goto(t, "released") /\ LLSC!Internal /\ my' = my
               /\ heap' = [heap EXCEPT !.freed = f]
  BY DEF LLSC!setNLPred, LLSC!At, LLSC!q
<1>2. pc[t] \in AfterNd /\ "released" \in AfterNd
  BY <1>1 DEF AfterNd, Closing
<1>3. /\ my[t].ver \in Nat /\ Has(t, {"e", "ver", "node", "nd"})
      /\ my[t].nd # Null => Has(t, {"success"}) /\ my[t].success \in BOOLEAN
  <2>1. pc[t] \in OfTook
    BY <1>1 DEF OfTook, Closing
  <2>. QED  BY <1>2, <2>1, NdWorked, NodeWorked, SuccessSeen DEF Has
<1>4. Same2
  BY <1>1, EndSeen, SameFreed
<1>5. Ready(t, "released", my[t], o)
  BY <1>1, <1>3 DEF Ready, Switching, Has
<1>6. Stays(t, "released", my[t])
  BY <1>1, <1>2, <1>3 DEF Stays, Switching, Closing, OfTook, OfNone
<1>. QED  BY <1>1, <1>2, <1>4, <1>5, <1>6, NothingSeen

LEMMA unlinkQuiet ==
  ASSUME NEW n \in Nat, NEW o, Queue2(n, o), NEW p, Possible(p), Fits2(p, n, o), NEW t \in Threads,
         LLSC!unlink(t)
  PROVE  Explaining2'
<1> DEFINE l == IF ver(end(t)) = my[t].ver THEN "unlink" ELSE "unlink.cas"
<1>1. /\ pc[t] = "unlink" /\ heap' = heap /\ LLSC!Goto(t, l) /\ LLSC!Internal
      /\ LLSC!Set(t, [e |-> heap[end(t)].entry])
  BY EndSeen DEF LLSC!unlink, LLSC!At, LLSC!Local
<1>2. Same2
  BY <1>1, EndSeen, SameHeap
<1>3. Calls2OK
  BY DEF Queue2
<1>4. pc[t] \in AfterNd /\ l \in AfterNd /\ l \in {"unlink", "unlink.cas"}
  BY <1>1 DEF AfterNd
<1>5. /\ my[t].ver \in Nat /\ Has(t, {"e", "ver", "node", "nd"}) /\ my[t].nd = Null /\ call[t].op # "enq"
  BY <1>1, <1>4, NdWorked, NodeWorked DEF NdSeen, Has
<1>6. /\ Alone(t) /\ {"e", "ver", "node", "nd"} \subseteq DOMAIN my'[t]
      /\ my'[t].ver = my[t].ver /\ my'[t].node = my[t].node /\ my'[t].nd = my[t].nd
  BY <1>1, <1>3, <1>5, Goes2 DEF Has
<1>7. Ready(t, l, my'[t], o)
  BY <1>4, <1>5, <1>6 DEF Ready, Switching, OfTook
<1>8. Stays(t, l, my'[t])
  BY <1>1, <1>4, <1>5, <1>6 DEF Stays, Switching, Closing, OfTook, OfNone
<1> HIDE DEF l
<1>. QED  BY <1>1, <1>2, <1>4, <1>5, <1>6, <1>7, <1>8, QuietAfterNd

LEMMA UnlinkFailsQuiet ==
  ASSUME NEW n \in Nat, NEW o, Queue2(n, o), NEW p, Possible(p), Fits2(p, n, o), NEW t \in Threads,
         LLSC!UnlinkCas(t), LLSC!loc(t).entry # my[t].e
  PROVE  Explaining2'
<1>1. pc[t] = "unlink.cas" /\ heap' = heap /\ LLSC!Goto(t, "release") /\ LLSC!Internal /\ my' = my
  BY DEF LLSC!UnlinkCas, LLSC!At, LLSC!Local
<1>2. Same2
  BY <1>1, EndSeen, SameHeap
<1>3. pc[t] \in AfterNd /\ "release" \in AfterNd
  BY <1>1 DEF AfterNd, Closing
<1>4. /\ my[t].ver \in Nat /\ Has(t, {"e", "ver", "node", "nd"}) /\ my[t].nd = Null
  BY <1>1, <1>3, NdWorked, NodeWorked DEF NdSeen, Has
<1>5. Ready(t, "release", my[t], o)
  BY <1>4 DEF Ready, Switching, Has
<1>6. pc[t] \in OfNone /\ "release" \in OfNone /\ "release" \notin Switching /\ pc[t] \notin Switching
  BY <1>1 DEF OfNone, Switching, Closing
<1>7. Stays(t, "release", my[t])
  BY <1>3, <1>4, <1>6 DEF Stays
<1>. QED  BY <1>1, <1>2, <1>3, <1>5, <1>7, NothingSeen

LEMMA ReleasedQuiet ==
  ASSUME NEW n \in Nat, NEW o, Queue2(n, o), NEW p, Possible(p), Fits2(p, n, o), NEW t \in Threads,
         LLSC!Released(t), my[t].nd # Null, ~(call[t].op = "enq" /\ my[t].nd = new(t))
  PROVE  Explaining2'
<1>1. pc[t] = "released" /\ heap' = heap
  BY DEF LLSC!Released, LLSC!At
<1>2. Same2
  BY <1>1, EndSeen, SameHeap
<1>3. pc[t] \in AfterNd /\ pc[t] \in OfTook
  BY <1>1 DEF AfterNd, Closing, OfTook
<1>4. /\ my[t].ver \in Nat /\ Has(t, {"e", "ver", "node", "nd", "success"}) /\ my[t].success \in BOOLEAN
  BY <1>3, NdWorked, NodeWorked, SuccessSeen
<1>5. Calls2OK
  BY DEF Queue2
<1>6. CASE call[t].op = "deq" /\ my[t].success
  <2>1. LLSC!Goto(t, "val") /\ my' = my /\ LLSC!Internal
    <3>1. call[t].op # "enq"
      BY <1>6
    <3>. QED  BY <1>6, <3>1 DEF LLSC!Released, LLSC!new
  <2>2. "val" \in AfterNd
    BY DEF AfterNd
  <2>3. Ready(t, "val", my[t], o)
    BY <1>4, <1>6 DEF Ready, Switching, Has
  <2>4. Stays(t, "val", my[t])
    BY <1>1, <1>3, <1>4, <2>2 DEF Stays, Switching, Closing, OfTook, OfNone
  <2>. QED  BY <1>1, <1>2, <1>3, <1>6, <2>1, <2>2, <2>3, <2>4, NothingSeen
<1>7. CASE ~(call[t].op = "deq" /\ my[t].success)
  <2>1. LLSC!Goto(t, "LL") /\ my' = my /\ LLSC!Internal
    <3>1. ~(call[t].op = "enq" /\ my[t].nd = LLSC!new(t))
      BY DEF LLSC!new, new
    <3>2. PICK s \in BOOLEAN : s = my[t].success
      BY <1>4
    <3>3. ~(call[t].op = "deq" /\ s)
      BY <1>7, <3>2
    <3>4. (CASE call[t].op = "enq" /\ my[t].nd = LLSC!new(t) -> LLSC!Return(t, LLSC!key(t))
             [] call[t].op = "deq" /\ s -> LLSC!Goto(t, "val") /\ UNCHANGED my /\ LLSC!Internal
             [] OTHER -> LLSC!Goto(t, "LL") /\ UNCHANGED my /\ LLSC!Internal)
      BY <3>2 DEF LLSC!Released
    <3>. QED  BY <3>1, <3>3, <3>4
  <2>2. Alone(t)
    BY <1>1, <1>5, <2>1, Goes2
  <2>3. SameEnd(t, "LL") => Seen2(t, n, o)'
    BY DEF SameEnd, Seen2, EntrySeen, NodeSeen, NdSeen, SwitchSeen, AfterLL, AfterNd, Switching, Closing
  <2>4. InCall(t, "LL")
    BY <1>1, <1>5 DEF Calls2OK, Call2, InCall, Nothing, Labels
  <2>5. Stays(t, "LL", my'[t])
    BY <1>1, <1>7 DEF Stays
  <2>. QED  BY <1>1, <1>2, <2>1, <2>2, <2>3, <2>4, <2>5, QuietMove
<1>. QED  BY <1>6, <1>7
-----------------------------------------------------------------------------
(* SC puts the next node into the pointer that is not current.              *)
LEMMA PtrSet ==
  ASSUME Shape, NEW e \in Ends, NEW k \in {0, 1}, NEW y, heap' = [heap EXCEPT ![e].ptr[k] = y]
  PROVE  /\ Shape' /\ heap'.node = heap.node
         /\ \A d \in Ends : ver(d)' = ver(d) /\ ptr(d)' = IF d = e THEN [ptr(d) EXCEPT ![k] = y] ELSE ptr(d)
<1>1. /\ heap' = [head |-> heap'.head, tail |-> heap'.tail, freed |-> heap'.freed, node |-> heap.node]
      /\ \A d \in Ends : heap'[d] = IF d = e THEN [heap[d] EXCEPT !.ptr = [heap[d].ptr EXCEPT ![k] = y]] ELSE heap[d]
  <2>1. heap = [head |-> heap.head, tail |-> heap.tail, freed |-> heap.freed, node |-> heap.node]
    BY DEF Shape
  <2>. QED  BY <2>1 DEF Ends
<1>2. \A d \in Ends : /\ heap'[d] = [ptr |-> heap'[d].ptr, entry |-> heap[d].entry]
                      /\ heap'[d].ptr = IF d = e THEN [heap[d].ptr EXCEPT ![k] = y] ELSE heap[d].ptr
  <2>1. SUFFICES ASSUME NEW d \in Ends
                 PROVE  /\ heap'[d] = [ptr |-> heap'[d].ptr, entry |-> heap[d].entry]
                        /\ heap'[d].ptr = IF d = e THEN [heap[d].ptr EXCEPT ![k] = y] ELSE heap[d].ptr
    OBVIOUS
  <2>2. PICK g, f : g = heap[d] /\ f = heap'[d]
    OBVIOUS
  <2>3. g = [ptr |-> g.ptr, entry |-> g.entry]
    BY <2>2 DEF Shape, ptr
  <2>4. f = IF d = e THEN [g EXCEPT !.ptr = [g.ptr EXCEPT ![k] = y]] ELSE g
    BY <1>1, <2>2
  <2>5. f = [ptr |-> f.ptr, entry |-> g.entry] /\ f.ptr = IF d = e THEN [g.ptr EXCEPT ![k] = y] ELSE g.ptr
    BY ONLY <2>3, <2>4
  <2>. QED  BY <2>2, <2>5
<1>3. \A d \in Ends : ver(d)' = ver(d) /\ ptr(d)' = IF d = e THEN [ptr(d) EXCEPT ![k] = y] ELSE ptr(d)
  <2>1. SUFFICES ASSUME NEW d \in Ends
                 PROVE  ver(d)' = ver(d) /\ ptr(d)' = IF d = e THEN [ptr(d) EXCEPT ![k] = y] ELSE ptr(d)
    OBVIOUS
  <2>2. heap'[d].entry = heap[d].entry
    BY <1>2
  <2>3. ver(d)' = heap'[d].entry.ver /\ ptr(d)' = heap'[d].ptr
    BY DEF ver, ptr
  <2>. QED  BY <1>2, <2>2, <2>3 DEF ver, ptr
<1>4. Shape'
  <2>1. \A d \in Ends : /\ heap'[d] = [ptr |-> ptr(d)', entry |-> heap'[d].entry]
                        /\ ptr(d)' = [i \in {0, 1} |-> ptr(d)'[i]]
                        /\ heap'[d].entry = [ver |-> ver(d)', count |-> heap'[d].entry.count]
                        /\ ver(d)' \in Nat
    <3>1. SUFFICES ASSUME NEW d \in Ends
                   PROVE  /\ heap'[d] = [ptr |-> ptr(d)', entry |-> heap'[d].entry]
                          /\ ptr(d)' = [i \in {0, 1} |-> ptr(d)'[i]]
                          /\ heap'[d].entry = [ver |-> ver(d)', count |-> heap'[d].entry.count]
                          /\ ver(d)' \in Nat
      OBVIOUS
    <3>2. PICK x, z : x = ptr(d) /\ z = ptr(d)'
      OBVIOUS
    <3>3. x = [i \in {0, 1} |-> x[i]] /\ z = IF d = e THEN [x EXCEPT ![k] = y] ELSE x
      BY <1>3, <3>2 DEF Shape
    <3>4. z = [i \in {0, 1} |-> z[i]]
      BY ONLY <3>3
    <3>5. heap'[d] = [ptr |-> z, entry |-> heap'[d].entry]
      <4>1. PICK f, r : f = heap'[d] /\ r = heap[d].entry
        OBVIOUS
      <4>2. f = [ptr |-> f.ptr, entry |-> r]
        BY <1>2, <4>1
      <4>3. f.ptr = z
        BY <3>2, <4>1 DEF ptr
      <4>4. f = [ptr |-> z, entry |-> f.entry]
        BY ONLY <4>2, <4>3
      <4>. QED  BY <4>1, <4>4
    <3>6. heap'[d].entry = heap[d].entry /\ ver(d)' = ver(d)
      BY <1>2, <1>3
    <3>7. heap[d].entry = [ver |-> ver(d), count |-> heap[d].entry.count] /\ ver(d) \in Nat
      BY DEF Shape
    <3>. QED  BY <3>2, <3>4, <3>5, <3>6, <3>7
  <2>2. \A x \in DOMAIN heap'.node : heap'.node[x] =
       [val |-> heap'.node[x].val, next |-> heap'.node[x].next,
        pred |-> heap'.node[x].pred, exit |-> heap'.node[x].exit]
    BY <1>1 DEF Shape
  <2>. QED  BY <1>1, <2>1, <2>2 DEF Shape
<1>. QED  BY <1>1, <1>3, <1>4

LEMMA SCSucceeds ==
  ASSUME NEW n \in Nat, NEW o, Queue2(n, o), NEW t \in Threads,
         LLSC!SC(t), ptr(end(t))[other(my[t].ver)] = heap.node[my[t].node].pred
  PROVE  /\ pc[t] = "SC" /\ pc'[t] = "entry" /\ Alone(t) /\ call' = call /\ made' = made /\ configs' = configs
         /\ my[t].ver = ver(end(t)) /\ my[t].nd = o[my[t].ver + 2] /\ my[t].ver + 2 \in 1 .. n /\ my[t].nd # Null
         /\ Shape' /\ heap'.node = heap.node
         /\ ptr(end(t))[other(ver(end(t)))] = o[ver(end(t))]
         /\ \A d \in Ends : /\ ver(d)' = ver(d)
                            /\ ptr(d)' = IF d = end(t) THEN [ptr(d) EXCEPT ![other(ver(d))] = my[t].nd] ELSE ptr(d)
         /\ {"e", "ver", "node", "nd", "success"} \subseteq DOMAIN my'[t] /\ my'[t].success = TRUE
         /\ my'[t].ver = my[t].ver /\ my'[t].node = my[t].node /\ my'[t].nd = my[t].nd
<1>1. /\ pc[t] = "SC" /\ heap' = [heap EXCEPT ![end(t)].ptr[other(my[t].ver)] = my[t].nd]
      /\ LLSC!Goto(t, "entry") /\ LLSC!Internal /\ LLSC!Set(t, [success |-> TRUE])
  BY EndSeen DEF LLSC!SC, LLSC!At, LLSC!q, other
<1>2. Calls2OK
  BY DEF Queue2
<1>3. pc[t] \in AfterNd
  BY <1>1 DEF AfterNd
<1>4. /\ my[t].ver \in Nat /\ Has(t, {"e", "ver", "node", "nd"}) /\ my[t].nd # Null
      /\ my[t].ver + 2 \in 1 .. n /\ my[t].nd = o[my[t].ver + 2]
      /\ my[t].ver <= ver(end(t)) /\ heap.node[my[t].node].pred = o[my[t].ver]
  BY <1>1, <1>3, NdWorked, NodeWorked DEF NdSeen, Has
<1>5. PICK e \in Ends, v \in Nat, w \in Nat : e = end(t) /\ v = ver(e) /\ w = my[t].ver
  BY <1>4, EndSeen
<1>6. w = v /\ ptr(e)[other(v)] = o[v]
  <2>1. /\ v + 1 \in 1 .. n /\ ptr(e)[v % 2] = o[v + 1]
        /\ \/ ptr(e)[other(v)] = o[v]
           \/ v + 2 \in 1 .. n /\ ptr(e)[other(v)] = o[v + 2]
    BY <1>5 DEF Queue2, AtNode
  <2>2. PICK k \in {0, 1} : k = other(w) /\ k \in {v % 2, other(v)}
    BY Parity DEF other
  <2>3. PICK j \in 0 .. n : j \in {v, v + 1, v + 2} /\ ptr(e)[k] = o[j] /\ (j = v + 1 => k = v % 2)
    BY <2>1, <2>2
  <2>4. o[j] = o[w] /\ w \in 0 .. n
    BY <1>4, <1>5, <2>2, <2>3
  <2>5. j = w
    BY <2>4 DEF Queue2, Row2
  <2>6. w <= v
    BY <1>4, <1>5
  <2>. QED  BY <2>2, <2>3, <2>5, <2>6
<1>7. heap' = [heap EXCEPT ![e].ptr[other(v)] = my[t].nd] /\ other(v) \in {0, 1} /\ Shape
  BY <1>1, <1>5, <1>6, Parity, EndSeen
<1>8. /\ Shape' /\ heap'.node = heap.node
      /\ \A d \in Ends : ver(d)' = ver(d) /\ ptr(d)' = IF d = e THEN [ptr(d) EXCEPT ![other(v)] = my[t].nd] ELSE ptr(d)
  BY <1>7, PtrSet, ZenonT(40)
<1>9. /\ Alone(t) /\ {"e", "ver", "node", "nd", "success"} \subseteq DOMAIN my'[t] /\ my'[t].success = TRUE
      /\ my'[t].ver = my[t].ver /\ my'[t].node = my[t].node /\ my'[t].nd = my[t].nd
      /\ pc'[t] = "entry" /\ call' = call /\ made' = made /\ configs' = configs
  BY <1>1, <1>2, <1>4, Goes2 DEF Has
<1>. QED  BY <1>1, <1>4, <1>5, <1>6, <1>8, <1>9

LEMMA SCKeeps ==
  ASSUME NEW n \in Nat, NEW o, Queue2(n, o), NEW t \in Threads,
         LLSC!SC(t), ptr(end(t))[other(my[t].ver)] = heap.node[my[t].node].pred
  PROVE  Queue2(n, o)'
<1>1. /\ pc[t] = "SC" /\ pc'[t] = "entry" /\ Alone(t) /\ call' = call /\ made' = made /\ configs' = configs
      /\ my[t].ver = ver(end(t)) /\ my[t].nd = o[my[t].ver + 2] /\ my[t].ver + 2 \in 1 .. n /\ my[t].nd # Null
      /\ Shape' /\ heap'.node = heap.node
      /\ ptr(end(t))[other(ver(end(t)))] = o[ver(end(t))]
      /\ \A d \in Ends : /\ ver(d)' = ver(d)
                         /\ ptr(d)' = IF d = end(t) THEN [ptr(d) EXCEPT ![other(ver(d))] = my[t].nd] ELSE ptr(d)
      /\ {"e", "ver", "node", "nd", "success"} \subseteq DOMAIN my'[t] /\ my'[t].success = TRUE
      /\ my'[t].ver = my[t].ver /\ my'[t].node = my[t].node /\ my'[t].nd = my[t].nd
  BY SCSucceeds
<1>2. /\ end(t) \in Ends /\ Shape /\ Call2(t) /\ ver(end(t)) \in Nat
      /\ call[t] # Nothing /\ NodeSeen(t, n, o) /\ NdSeen(t, n, o)
  BY <1>1, EndSeen DEF Call2, Seen2, Nothing
<1>3. \A u \in Threads : IsFresh(u)' <=> IsFresh(u)
  <2>1. IsFresh(t)' <=> IsFresh(t)
    BY <1>1 DEF IsFresh, Linked2, AfterNd, Switching, new
  <2>. QED  BY <1>1, <2>1 DEF IsFresh, Linked2, Alone, new
<1>4. Fresh' = Fresh
  BY <1>1, <1>3 DEF Fresh, new
<1>5. \A d \in Ends : /\ ver(d) \in Nat /\ ver(d)' = ver(d) /\ ptr(d)'[ver(d) % 2] = ptr(d)[ver(d) % 2]
                      /\ ptr(d)'[other(ver(d))] = IF d = end(t) THEN o[ver(d) + 2] ELSE ptr(d)[other(ver(d))]
  <2>1. SUFFICES ASSUME NEW d \in Ends
                 PROVE  /\ ver(d) \in Nat /\ ver(d)' = ver(d) /\ ptr(d)'[ver(d) % 2] = ptr(d)[ver(d) % 2]
                        /\ ptr(d)'[other(ver(d))] = IF d = end(t) THEN o[ver(d) + 2] ELSE ptr(d)[other(ver(d))]
    OBVIOUS
  <2>2. ver(d) \in Nat /\ ptr(d) = [i \in {0, 1} |-> ptr(d)[i]]
    BY <1>2 DEF Shape
  <2>3. PICK x, z, v : v \in Nat /\ x = ptr(d) /\ z = ptr(d)' /\ v = ver(d)
    BY <2>2
  <2>4. v % 2 \in {0, 1} /\ other(v) \in {0, 1} /\ other(v) # v % 2
    BY <2>3, Parity
  <2>5. z = IF d = end(t) THEN [x EXCEPT ![other(v)] = o[v + 2]] ELSE x
    BY <1>1, <2>3
  <2>6. x = [i \in {0, 1} |-> x[i]]
    BY <2>2, <2>3
  <2>7. z[v % 2] = x[v % 2] /\ z[other(v)] = IF d = end(t) THEN o[v + 2] ELSE x[other(v)]
    BY ONLY <2>4, <2>5, <2>6
  <2>8. ver(d)' = ver(d)
    BY <1>1
  <2>. QED  BY <2>2, <2>3, <2>7, <2>8
<1>6. Ahead(n, o, n, o)
  BY <1>5 DEF Ahead
<1>7. HeapOK'
  <2>1. \A u \in Threads : new(u)' = new(u) /\ key(u)' = key(u)
    BY <1>1 DEF new, key
  <2>. QED  BY <1>1, <1>3, <2>1 DEF Queue2, HeapOK
<1>8. Row2(n, o)'
  BY <1>1, <1>4 DEF Queue2, Row2
<1>9. \A d \in Ends : AtNode(d, n, o)'
  <2>1. SUFFICES ASSUME NEW d \in Ends PROVE AtNode(d, n, o)'
    OBVIOUS
  <2>2. PICK x, z, v : v \in Nat /\ x = ptr(d) /\ z = ptr(d)' /\ v = ver(d) /\ v = ver(d)'
    BY <1>5
  <2>3. /\ v + 1 \in 1 .. n /\ x[v % 2] = o[v + 1]
        /\ \/ x[other(v)] = o[v]
           \/ v + 2 \in 1 .. n /\ x[other(v)] = o[v + 2]
    BY <2>2 DEF Queue2, AtNode
  <2>4. z[v % 2] = x[v % 2] /\ z[other(v)] = IF d = end(t) THEN o[v + 2] ELSE x[other(v)]
    BY <1>5, <2>2
  <2>5. d = end(t) => v + 2 \in 1 .. n
    BY <1>1, <2>2
  <2>6. /\ v + 1 \in 1 .. n /\ z[v % 2] = o[v + 1]
        /\ \/ z[other(v)] = o[v]
           \/ v + 2 \in 1 .. n /\ z[other(v)] = o[v + 2]
    BY <2>3, <2>4, <2>5
  <2>. QED  BY <2>2, <2>6 DEF AtNode
<1>10. end(t)' = end(t) /\ new(t)' = new(t)
  BY <1>1 DEF end, new
<1>11. ver(end(t))' = ver(end(t)) /\ ptr(end(t))'[other(ver(end(t)))] = o[ver(end(t)) + 2]
  <2>1. PICK d \in Ends : d = end(t) /\ d = end(t)'
    BY <1>2, <1>10
  <2>2. ver(d)' = ver(d) /\ ptr(d)'[other(ver(d))] = o[ver(d) + 2]
    BY <1>5, <2>1
  <2>3. ver(end(t))' = ver(d)' /\ ptr(end(t))' = ptr(d)'
    BY <2>1 DEF ver, ptr
  <2>. QED  BY <2>1, <2>2, <2>3
<1>12. Seen2(t, n, o)'
  <2>1. my[t].ver \in Nat /\ my[t].ver <= ver(end(t)) /\ my[t].node = o[my[t].ver + 1]
    BY <1>1, <1>2 DEF NodeSeen, AfterLL, AfterNd
  <2>2. EntrySeen(t, o)' /\ NodeSeen(t, n, o)' /\ NdSeen(t, n, o)'
    BY <1>1, <1>10, <1>11, <2>1 DEF EntrySeen, NodeSeen, NdSeen, Has
  <2>3. SwitchSeen(t, o)'
    BY <1>1, <1>10, <1>11, <2>1 DEF SwitchSeen, Has
  <2>. QED  BY <2>2, <2>3 DEF Seen2
<1>13. Attended(o)'
  <2>1. CASE call[t].op = "enq"
    <3>1. end(t) = "tail" /\ "head" \in Ends
      BY <2>1 DEF end, Ends
    <3>2. ver("head")' = ver("head") /\ ptr("head")' = ptr("head")
      BY <1>1, <3>1
    <3>3. Half(o)' => Half(o)
      BY <3>2 DEF Half
    <3>4. \A u \in Threads : Attends(u) => Attends(u)'
      <4>1. ~Attends(t)
        BY <1>1 DEF Attends, Switching
      <4>. QED  BY <1>1, <3>2, <4>1 DEF Attends, TookNext, Alone
    <3>. QED  BY <3>3, <3>4 DEF Queue2, Attended
  <2>2. CASE call[t].op # "enq"
    <3>1. end(t) = "head" /\ call[t].op = "deq"
      BY <1>2, <2>2 DEF end, Call2
    <3>2. ver("head")' = ver("head")
      BY <1>1, <1>2, <3>1
    <3>3. Attends(t)'
      BY <1>1, <3>1, <3>2 DEF Attends, TookNext, Switching
    <3>. QED  BY <3>3 DEF Attended
  <2>. QED  BY <2>1, <2>2
<1>14. Call2(t)'
  BY <1>1, <1>2, <1>10 DEF Call2, Nothing, Labels, AfterLL, AfterNd, Switching
<1>15. /\ made' \in Nat /\ made <= made' /\ DOMAIN heap.node \subseteq DOMAIN heap'.node
       /\ call'[t] = call[t]
  BY <1>1 DEF Queue2, Calls2OK
<1>. QED  BY <1>1, <1>6, <1>7, <1>8, <1>9, <1>12, <1>13, <1>14, <1>15, EnoughForOne2

(* The values behind the first ones that have been taken. *)
LEMMA ValuesTaken ==
  ASSUME NEW n \in Nat, NEW o, NEW h \in 1 .. n
  PROVE  /\ h = n => Values(n, o, h) = <<>>
         /\ h # n => /\ Values(n, o, h) # <<>> /\ Head(Values(n, o, h)) = heap.node[o[h + 1]].val
                     /\ Tail(Values(n, o, h)) = Values(n, o, h + 1)
<1> DEFINE f == Values(n, o, h)
<1>1. CASE h = n
  <2>1. n - h = 0
    BY <1>1
  <2>2. f = [i \in 1 .. 0 |-> f[i]]
    BY <2>1 DEF Values
  <2> HIDE DEF f
  <2>3. f = <<>>
    BY <2>2, SeqNone
  <2>. QED  BY <1>1, <2>3 DEF f
<1>2. CASE h # n
  <2>1. PICK k \in Nat, m \in Nat : k = h + 1 /\ k \in 1 .. n /\ m = n - k /\ n - h = m + 1
    BY <1>2
  <2>2. f = [i \in 1 .. m + 1 |-> f[i]] /\ \A i \in 1 .. m + 1 : f[i] = heap.node[o[h + i]].val
    BY <2>1 DEF Values
  <2>3. Values(n, o, k) = [i \in 1 .. m |-> heap.node[o[k + i]].val]
    BY <2>1 DEF Values
  <2> HIDE DEF f
  <2>4. f # <<>> /\ Head(f) = f[1] /\ Tail(f) = [i \in 1 .. m |-> f[i + 1]]
    BY <2>1, <2>2, SeqShorter
  <2>5. \A i \in 1 .. m : f[i + 1] = heap.node[o[k + i]].val
    <3>1. SUFFICES ASSUME NEW i \in 1 .. m PROVE f[i + 1] = heap.node[o[k + i]].val
      OBVIOUS
    <3>2. i + 1 \in 1 .. m + 1 /\ h + (i + 1) = k + i
      BY <2>1
    <3>. QED  BY <2>2, <3>2
  <2>6. f[1] = heap.node[o[h + 1]].val
    <3>1. 1 \in 1 .. m + 1
      BY <2>1
    <3>. QED  BY <2>2, <3>1
  <2>7. Tail(f) = Values(n, o, k)
    BY <2>3, <2>4, <2>5
  <2>. QED  BY <1>2, <2>1, <2>4, <2>6, <2>7 DEF f
<1>. QED  BY <1>1, <1>2

LEMMA TakenIs ==
  ASSUME NEW n \in Nat, NEW o, Queue2(n, o)
  PROVE  /\ ver("head") \in Nat /\ Taken(o) \in 1 .. n
         /\ Taken(o) = IF Half(o) THEN ver("head") + 2 ELSE ver("head") + 1
<1>1. "head" \in Ends
  BY DEF Ends
<1>2. ver("head") \in Nat /\ AtNode("head", n, o)
  BY <1>1 DEF Queue2, HeapOK, Shape
<1>. QED  BY <1>2 DEF AtNode, Taken, Half

LEMMA EnqSCExplains ==
  ASSUME NEW n \in Nat, NEW o, Queue2(n, o), NEW p, Possible(p), Fits2(p, n, o), NEW t \in Threads,
         LLSC!SC(t), ptr(end(t))[other(my[t].ver)] = heap.node[my[t].node].pred, call[t].op = "enq"
  PROVE  Explaining2'
<1>1. /\ pc[t] = "SC" /\ pc'[t] = "entry" /\ Alone(t) /\ call' = call /\ made' = made /\ configs' = configs
      /\ heap'.node = heap.node /\ my'[t].nd = my[t].nd
      /\ \A d \in Ends : /\ ver(d)' = ver(d)
                         /\ ptr(d)' = IF d = end(t) THEN [ptr(d) EXCEPT ![other(ver(d))] = my[t].nd] ELSE ptr(d)
  BY SCSucceeds
<1>2. Queue2(n, o)'
  BY SCKeeps
<1>3. ver("head")' = ver("head") /\ ptr("head")' = ptr("head")
  BY <1>1 DEF end, Ends
<1>4. Values(n, o, Taken(o))' = Values(n, o, Taken(o))
  <2>1. Taken(o)' = Taken(o)
    BY <1>3 DEF Taken, Half
  <2>2. PICK h : h = Taken(o)
    OBVIOUS
  <2>3. Values(n, o, h)' = Values(n, o, h)
    BY <1>1 DEF Values
  <2>. QED  BY <2>1, <2>2, <2>3 DEF Values
<1>5. t \in Settled' <=> t \in Settled
  BY <1>1 DEF Settled, Linked2, TookNext, FoundNone, AfterNd, Switching, new
<1>6. Gets(t)' = Gets(t)
  BY <1>1 DEF Gets, key
<1>7. \A x \in DOMAIN heap.node : x \in DOMAIN heap'.node /\ heap'.node[x].val = heap.node[x].val
  BY <1>1
<1>8. Possible(p)' /\ Fits2(p, n, o)'
  BY <1>1, <1>4, <1>5, <1>6, <1>7, StillFits
<1>. QED  BY <1>2, <1>8 DEF Explaining2

(* deq takes the value of the next node when its SC succeeds. *)
LEMMA DeqSCExplains ==
  ASSUME NEW n \in Nat, NEW o, Queue2(n, o), NEW p, Possible(p), Fits2(p, n, o), NEW t \in Threads,
         LLSC!SC(t), ptr(end(t))[other(my[t].ver)] = heap.node[my[t].node].pred, call[t].op = "deq"
  PROVE  Explaining2'
<1>1. /\ pc[t] = "SC" /\ pc'[t] = "entry" /\ Alone(t) /\ call' = call /\ made' = made /\ configs' = configs
      /\ my[t].ver = ver(end(t)) /\ my[t].nd = o[my[t].ver + 2] /\ my[t].ver + 2 \in 1 .. n /\ my[t].nd # Null
      /\ Shape' /\ heap'.node = heap.node
      /\ ptr(end(t))[other(ver(end(t)))] = o[ver(end(t))]
      /\ \A d \in Ends : /\ ver(d)' = ver(d)
                         /\ ptr(d)' = IF d = end(t) THEN [ptr(d) EXCEPT ![other(ver(d))] = my[t].nd] ELSE ptr(d)
      /\ {"e", "ver", "node", "nd", "success"} \subseteq DOMAIN my'[t] /\ my'[t].success = TRUE
      /\ my'[t].ver = my[t].ver /\ my'[t].node = my[t].node /\ my'[t].nd = my[t].nd
  BY SCSucceeds
<1>2. Queue2(n, o)'
  BY SCKeeps
<1>3. end(t) = "head" /\ "head" \in Ends
  BY DEF end, Ends
<1>4. PICK v \in Nat : v = ver("head") /\ v + 2 \in 1 .. n /\ v + 1 \in 1 .. n /\ v + 1 # n /\ ver("head")' = v
  BY <1>1, <1>3, TakenIs
<1>5. o[v] # o[v + 2]
  <2>1. v \in 0 .. n /\ v + 2 \in 0 .. n /\ v # v + 2
    BY <1>4
  <2>. QED  BY <2>1 DEF Queue2, Row2
<1>6. Taken(o) = v + 1
  BY <1>1, <1>3, <1>4 DEF Taken, Half
<1>7. Taken(o)' = v + 2
  <2>1. PICK x, z : x = ptr("head") /\ z = ptr("head")'
    OBVIOUS
  <2>2. x = [i \in {0, 1} |-> x[i]]
    BY <1>3, <2>1 DEF Queue2, HeapOK, Shape
  <2>3. z = [x EXCEPT ![other(v)] = o[v + 2]]
    BY <1>1, <1>3, <1>4, <2>1
  <2>4. other(v) \in {0, 1}
    BY Parity
  <2>5. z[other(v)] = o[v + 2]
    BY ONLY <2>2, <2>3, <2>4
  <2>. QED  BY <1>4, <1>5, <2>1, <2>5 DEF Taken, Half
<1>8. PICK w : w = Values(n, o, v + 1)
  OBVIOUS
<1>9. w # <<>> /\ Head(w) = heap.node[my[t].nd].val /\ Tail(w) = Values(n, o, v + 2)
  <2>1. PICK h \in 1 .. n : h = v + 1 /\ h + 1 = v + 2 /\ h # n
    BY <1>4
  <2>2. /\ Values(n, o, h) # <<>> /\ Head(Values(n, o, h)) = heap.node[o[h + 1]].val
        /\ Tail(Values(n, o, h)) = Values(n, o, h + 1)
    BY <2>1, ValuesTaken
  <2>3. my[t].nd = o[h + 1]
    BY <1>1, <1>3, <1>4, <2>1
  <2>. QED  BY <1>8, <2>1, <2>2, <2>3
<1>10. PICK e : e = TakeEffect(p, t)
  OBVIOUS
<1>11. p.state = w
  BY <1>6, <1>8 DEF Fits2
<1>12. e.state = Tail(w) /\ e.ret[t] = Head(w)
  <2>1. p.state # <<>> => e.state = Tail(p.state) /\ e.ret[t] = Head(p.state)
    BY <1>10, DeqEffect
  <2>. QED  BY <1>9, <1>11, <2>1
<1>13. Values(n, o, Taken(o))' = e.state
  <2>1. PICK h : h = v + 2
    OBVIOUS
  <2>2. Values(n, o, h)' = Values(n, o, h)
    BY <1>1 DEF Values
  <2>3. Values(n, o, Taken(o))' = Values(n, o, h)'
    BY <1>7, <2>1 DEF Values
  <2>. QED  BY <1>9, <1>12, <2>1, <2>2, <2>3
<1>14. Gets(t)' = e.ret[t]
  BY <1>1, <1>9, <1>12 DEF Gets
<1>15. t \in Settled' /\ t \notin Settled
  BY <1>1 DEF Settled, Linked2, TookNext, FoundNone, Switching, Closing
<1>16. \A x \in DOMAIN heap.node : x \in DOMAIN heap'.node /\ heap'.node[x].val = heap.node[x].val
  BY <1>1
<1>17. call[t] # Nothing
  BY DEF Nothing
<1>18. Possible(e)' /\ Fits2(e, n, o)'
  BY <1>1, <1>10, <1>13, <1>14, <1>15, <1>16, <1>17, NowFits
<1>. QED  BY <1>2, <1>18 DEF Explaining2
-----------------------------------------------------------------------------
(* SwitchEntry makes the other pointer current. *)
LEMMA EntrySet ==
  ASSUME Shape, NEW e \in Ends, NEW w \in Nat, heap' = [heap EXCEPT ![e].entry = [ver |-> w, count |-> 0]]
  PROVE  /\ Shape' /\ heap'.node = heap.node
         /\ \A d \in Ends : ver(d)' = (IF d = e THEN w ELSE ver(d)) /\ ptr(d)' = ptr(d)
<1> DEFINE r == [ver |-> w, count |-> 0]
<1>1. /\ heap' = [head |-> heap'.head, tail |-> heap'.tail, freed |-> heap'.freed, node |-> heap.node]
      /\ \A d \in Ends : heap'[d] = IF d = e THEN [heap[d] EXCEPT !.entry = r] ELSE heap[d]
  <2>1. heap = [head |-> heap.head, tail |-> heap.tail, freed |-> heap.freed, node |-> heap.node]
    BY DEF Shape
  <2>. QED  BY <2>1 DEF Ends
<1>2. \A d \in Ends : /\ heap'[d] = [ptr |-> heap'[d].ptr, entry |-> heap'[d].entry]
                      /\ heap'[d].ptr = heap[d].ptr /\ heap'[d].entry = IF d = e THEN r ELSE heap[d].entry
  <2>1. SUFFICES ASSUME NEW d \in Ends
                 PROVE  /\ heap'[d] = [ptr |-> heap'[d].ptr, entry |-> heap'[d].entry]
                        /\ heap'[d].ptr = heap[d].ptr /\ heap'[d].entry = IF d = e THEN r ELSE heap[d].entry
    OBVIOUS
  <2>2. PICK g, f, s : g = heap[d] /\ f = heap'[d] /\ s = r
    OBVIOUS
  <2>3. g = [ptr |-> g.ptr, entry |-> g.entry]
    BY <2>2 DEF Shape, ptr
  <2> HIDE DEF r
  <2>4. f = IF d = e THEN [g EXCEPT !.entry = s] ELSE g
    BY <1>1, <2>2
  <2>5. f = [ptr |-> f.ptr, entry |-> f.entry] /\ f.ptr = g.ptr /\ f.entry = IF d = e THEN s ELSE g.entry
    BY ONLY <2>3, <2>4
  <2>. QED  BY <2>2, <2>5
<1>3. \A d \in Ends : /\ ver(d)' = (IF d = e THEN w ELSE ver(d)) /\ ptr(d)' = ptr(d)
                      /\ heap'[d].entry = [ver |-> ver(d)', count |-> heap'[d].entry.count]
  <2>1. SUFFICES ASSUME NEW d \in Ends
                 PROVE  /\ ver(d)' = (IF d = e THEN w ELSE ver(d)) /\ ptr(d)' = ptr(d)
                        /\ heap'[d].entry = [ver |-> ver(d)', count |-> heap'[d].entry.count]
    OBVIOUS
  <2>2. ver(d)' = heap'[d].entry.ver /\ ptr(d)' = heap'[d].ptr
    BY DEF ver, ptr
  <2>3. PICK s : s = heap'[d].entry
    OBVIOUS
  <2>4. s = IF d = e THEN [ver |-> w, count |-> 0] ELSE heap[d].entry
    BY <1>2, <2>3
  <2>5. heap[d].entry = [ver |-> ver(d), count |-> heap[d].entry.count]
    BY DEF Shape
  <2>6. s.ver = (IF d = e THEN w ELSE ver(d)) /\ s = [ver |-> s.ver, count |-> s.count]
    BY <2>4, <2>5
  <2>. QED  BY <1>2, <2>2, <2>3, <2>6 DEF ptr
<1>4. Shape'
  <2>1. \A d \in Ends : /\ heap'[d] = [ptr |-> ptr(d)', entry |-> heap'[d].entry]
                        /\ ptr(d)' = [i \in {0, 1} |-> ptr(d)'[i]]
                        /\ ver(d)' \in Nat
    <3>1. SUFFICES ASSUME NEW d \in Ends
                   PROVE  /\ heap'[d] = [ptr |-> ptr(d)', entry |-> heap'[d].entry]
                          /\ ptr(d)' = [i \in {0, 1} |-> ptr(d)'[i]]
                          /\ ver(d)' \in Nat
      OBVIOUS
    <3>2. ptr(d)' = ptr(d) /\ ptr(d) = [i \in {0, 1} |-> ptr(d)[i]] /\ ver(d) \in Nat /\ ver(d)' \in Nat
      BY <1>3 DEF Shape
    <3>3. ptr(d)' = heap'[d].ptr
      BY DEF ptr
    <3>4. PICK x : x = ptr(d)
      OBVIOUS
    <3>5. x = [i \in {0, 1} |-> x[i]] /\ ptr(d)' = x
      BY <3>2, <3>4
    <3>. QED  BY <1>2, <3>2, <3>3, <3>5
  <2>2. \A x \in DOMAIN heap'.node : heap'.node[x] =
       [val |-> heap'.node[x].val, next |-> heap'.node[x].next,
        pred |-> heap'.node[x].pred, exit |-> heap'.node[x].exit]
    BY <1>1 DEF Shape
  <2>. QED  BY <1>1, <1>3, <2>1, <2>2 DEF Shape
<1>. QED  BY <1>1, <1>3, <1>4

LEMMA SwitchExplains ==
  ASSUME NEW n \in Nat, NEW o, Queue2(n, o), NEW p, Possible(p), Fits2(p, n, o), NEW t \in Threads,
         LLSC!SwitchEntry(t), LLSC!loc(t).entry = my[t].e
  PROVE  Explaining2'
<1>1. /\ pc[t] = "entry.cas" /\ LLSC!Goto(t, "transfer") /\ LLSC!Internal /\ my' = my
      /\ heap' = [heap EXCEPT ![end(t)].entry = [ver |-> my[t].e.ver + 1, count |-> 0]]
  BY EndSeen DEF LLSC!SwitchEntry, LLSC!At, LLSC!casEntry, LLSC!q
<1>2. Calls2OK
  BY DEF Queue2
<1>3. /\ Alone(t) /\ pc'[t] = "transfer" /\ my'[t] = my[t]
      /\ call' = call /\ made' = made /\ configs' = configs
  BY <1>1, <1>2, Goes2
<1>4. /\ pc[t] \in AfterNd /\ my[t].nd # Null /\ my[t].ver \in Nat
      /\ Has(t, {"e", "ver", "node", "nd", "success"}) /\ my[t].success \in BOOLEAN
      /\ SwitchSeen(t, o)
  BY <1>1, SwitchWorked DEF Switching
<1>5. /\ end(t) \in Ends /\ Shape /\ Call2(t) /\ ver(end(t)) = my[t].e.ver
      /\ call[t] # Nothing /\ NodeSeen(t, n, o) /\ NdSeen(t, n, o)
  BY <1>1, EndSeen DEF Call2, Seen2, Nothing
<1>6. PICK v \in Nat : v = my[t].ver /\ v = ver(end(t)) /\ my[t].e.ver = v
  BY <1>1, <1>4, <1>5 DEF SwitchSeen
<1>7. v + 2 \in 1 .. n /\ my[t].nd = o[v + 2] /\ my[t].node = o[v + 1] /\ ptr(end(t))[other(v)] = o[v + 2]
  BY <1>1, <1>4, <1>5, <1>6 DEF SwitchSeen, Switching, NodeSeen, NdSeen, AfterLL
<1>8. /\ Shape' /\ heap'.node = heap.node
      /\ \A d \in Ends : ver(d)' = (IF d = end(t) THEN v + 1 ELSE ver(d)) /\ ptr(d)' = ptr(d)
  <2>1. PICK e \in Ends, w \in Nat : e = end(t) /\ w = v + 1
    BY <1>5
  <2>2. heap' = [heap EXCEPT ![e].entry = [ver |-> w, count |-> 0]]
    BY <1>1, <1>6, <2>1
  <2>. QED  BY <1>5, <2>1, <2>2, EntrySet
<1>9. /\ \A u \in Threads : IsFresh(u)' <=> IsFresh(u)
      /\ Linked2(t)' <=> Linked2(t)
      /\ TookNext(t)' <=> TookNext(t)
      /\ FoundNone(t)' <=> FoundNone(t)
  <2>1. Linked2(t)' <=> Linked2(t)
    BY <1>1, <1>3 DEF Linked2, AfterNd, Switching, new
  <2>2. TookNext(t)' <=> TookNext(t)
    BY <1>1, <1>3 DEF TookNext, Switching
  <2>3. FoundNone(t)' <=> FoundNone(t)
    BY <1>1, <1>3 DEF FoundNone, Closing
  <2>4. \A u \in Threads \ {t} : IsFresh(u)' <=> IsFresh(u)
    BY <1>3 DEF IsFresh, Linked2, Alone, new
  <2>. QED  BY <1>3, <2>1, <2>2, <2>3, <2>4 DEF IsFresh
<1>10. Fresh' = Fresh
  BY <1>3, <1>9 DEF Fresh, new
<1>11. Ahead(n, o, n, o)
  <2>1. \A d \in Ends : ver(d) \in Nat
    BY <1>5 DEF Shape
  <2>. QED  BY <1>6, <1>8, <2>1 DEF Ahead
<1>12. HeapOK'
  <2>1. \A u \in Threads : new(u)' = new(u) /\ key(u)' = key(u)
    BY <1>3 DEF new, key
  <2>. QED  BY <1>3, <1>8, <1>9, <2>1 DEF Queue2, HeapOK
<1>13. Row2(n, o)'
  BY <1>8, <1>10 DEF Queue2, Row2
<1>14. /\ v % 2 = other(v + 1) /\ (v + 1) % 2 = other(v)
  BY Parity
<1>15. \A d \in Ends : AtNode(d, n, o)'
  <2>1. SUFFICES ASSUME NEW d \in Ends PROVE AtNode(d, n, o)'
    OBVIOUS
  <2>2. CASE d = end(t)
    <3>1. ver(d)' = v + 1 /\ ptr(d)' = ptr(d) /\ ptr(d)[v % 2] = o[v + 1] /\ ptr(d)[other(v)] = o[v + 2]
      BY <1>6, <1>7, <1>8, <2>2 DEF Queue2, AtNode
    <3>. QED  BY <1>7, <1>14, <3>1 DEF AtNode
  <2>3. CASE d # end(t)
    BY <1>8, <2>3 DEF Queue2, AtNode
  <2>. QED  BY <2>2, <2>3
<1>16. end(t)' = end(t) /\ new(t)' = new(t) /\ ver(end(t))' = v + 1
  <2>1. PICK d \in Ends : d = end(t) /\ end(t)' = d
    BY <1>3, <1>5 DEF end
  <2>2. ver(end(t))' = ver(d)'
    BY <2>1 DEF ver
  <2>. QED  BY <1>3, <1>8, <2>1, <2>2 DEF new
<1>17. Seen2(t, n, o)'
  <2>1. EntrySeen(t, o)' /\ NodeSeen(t, n, o)' /\ NdSeen(t, n, o)'
    BY <1>3, <1>4, <1>6, <1>7, <1>16 DEF EntrySeen, NodeSeen, NdSeen, Has
  <2>2. SwitchSeen(t, o)'
    BY <1>3, <1>4, <1>6, <1>16 DEF SwitchSeen, Switching, Has
  <2>. QED  BY <2>1, <2>2 DEF Seen2
<1>18. Attended(o)' /\ Taken(o)' = Taken(o)
  <2>1. CASE call[t].op = "enq"
    <3>1. end(t) = "tail" /\ "head" \in Ends
      BY <2>1 DEF end, Ends
    <3>2. ver("head")' = ver("head") /\ ptr("head")' = ptr("head")
      BY <1>8, <3>1
    <3>3. (Half(o)' <=> Half(o)) /\ Taken(o)' = Taken(o)
      BY <3>2 DEF Half, Taken
    <3>4. \A u \in Threads : Attends(u) => Attends(u)'
      <4>1. ~Attends(t)
        BY <2>1 DEF Attends, TookNext
      <4>. QED  BY <1>3, <3>2, <4>1 DEF Attends, TookNext, Alone
    <3>. QED  BY <3>3, <3>4 DEF Queue2, Attended
  <2>2. CASE call[t].op # "enq"
    <3>1. end(t) = "head" /\ "head" \in Ends
      BY <2>2 DEF end, Ends
    <3>2. ver("head")' = v + 1 /\ ver("head") = v /\ ptr("head")' = ptr("head")
          /\ ptr("head")[other(v)] = o[v + 2] /\ ptr("head")[v % 2] = o[v + 1]
      BY <1>6, <1>7, <1>8, <3>1 DEF Queue2, AtNode
    <3>3. ~Half(o)'
      BY <1>14, <3>2 DEF Half
    <3>4. Half(o)
      <4>1. v \in 0 .. n /\ v + 2 \in 0 .. n /\ v # v + 2
        BY <1>7
      <4>2. o[v] # o[v + 2]
        BY <4>1 DEF Queue2, Row2
      <4>. QED  BY <3>2, <4>2 DEF Half
    <3>. QED  BY <3>2, <3>3, <3>4 DEF Attended, Taken
  <2>. QED  BY <2>1, <2>2
<1>19. Call2(t)'
  BY <1>1, <1>3, <1>5, <1>8, <1>16 DEF Call2, Nothing, Labels, AfterLL, AfterNd
<1>20. /\ made' \in Nat /\ made <= made' /\ DOMAIN heap.node \subseteq DOMAIN heap'.node
       /\ call'[t] = call[t]
  BY <1>2, <1>3, <1>8 DEF Calls2OK
<1>21. Queue2(n, o)'
  BY <1>3, <1>11, <1>12, <1>13, <1>15, <1>17, <1>18, <1>19, <1>20, EnoughForOne2
<1>22. Values(n, o, Taken(o))' = Values(n, o, Taken(o))
  <2>1. PICK h : h = Taken(o)
    OBVIOUS
  <2>2. Values(n, o, h)' = Values(n, o, h)
    BY <1>8 DEF Values
  <2>. QED  BY <1>18, <2>1, <2>2 DEF Values
<1>23. (t \in Settled' <=> t \in Settled) /\ Gets(t)' = Gets(t)
  BY <1>3, <1>8, <1>9 DEF Settled, Gets, key
<1>24. \A x \in DOMAIN heap.node : x \in DOMAIN heap'.node /\ heap'.node[x].val = heap.node[x].val
  BY <1>8
<1>25. Possible(p)' /\ Fits2(p, n, o)'
  BY <1>3, <1>22, <1>23, <1>24, StillFits
<1>. QED  BY <1>21, <1>25 DEF Explaining2
-----------------------------------------------------------------------------
(* What enq does to its own node, and to the node that it links it to. *)
LEMMA NextSet ==
  ASSUME Shape, NEW m \in DOMAIN heap.node, NEW x \in DOMAIN heap.node, x # m, NEW y,
         heap' = [heap EXCEPT !.node[m].pred = x, !.node[x].next = y]
  PROVE  /\ Shape' /\ DOMAIN heap'.node = DOMAIN heap.node
         /\ \A z \in DOMAIN heap.node :
              /\ heap'.node[z].val = heap.node[z].val
              /\ heap'.node[z].next = IF z = x THEN y ELSE heap.node[z].next
              /\ heap'.node[z].pred = IF z = m THEN x ELSE heap.node[z].pred
         /\ \A e \in Ends : ver(e)' = ver(e) /\ ptr(e)' = ptr(e)
<1>1. heap = [head |-> heap.head, tail |-> heap.tail, freed |-> heap.freed, node |-> heap.node]
  BY DEF Shape
<1>2. PICK g : g = [heap EXCEPT !.node[m].pred = x]
  OBVIOUS
<1>3. heap' = [g EXCEPT !.node[x].next = y]
  BY <1>2
<1>4. /\ g = [head |-> heap.head, tail |-> heap.tail, freed |-> heap.freed, node |-> g.node]
      /\ g.node = [heap.node EXCEPT ![m].pred = x]
  BY <1>1, <1>2
<1>5. /\ heap' = [head |-> heap.head, tail |-> heap.tail, freed |-> heap.freed, node |-> heap'.node]
      /\ heap'.node = [g.node EXCEPT ![x].next = y]
  BY <1>3, <1>4
<1>6. DOMAIN g.node = DOMAIN heap.node /\ DOMAIN heap'.node = DOMAIN heap.node
  BY <1>4, <1>5
<1>7. \A z \in DOMAIN heap.node : g.node[z] = [val |-> heap.node[z].val, next |-> heap.node[z].next,
         pred |-> IF z = m THEN x ELSE heap.node[z].pred, exit |-> heap.node[z].exit]
  BY <1>4 DEF Shape
<1>8. \A z \in DOMAIN heap.node :
        /\ heap'.node[z].val = heap.node[z].val
        /\ heap'.node[z].next = IF z = x THEN y ELSE heap.node[z].next
        /\ heap'.node[z].pred = IF z = m THEN x ELSE heap.node[z].pred
        /\ heap'.node[z] = [val |-> heap'.node[z].val, next |-> heap'.node[z].next,
                            pred |-> heap'.node[z].pred, exit |-> heap'.node[z].exit]
  <2>1. SUFFICES ASSUME NEW z \in DOMAIN heap.node
                 PROVE  /\ heap'.node[z].val = heap.node[z].val
                        /\ heap'.node[z].next = IF z = x THEN y ELSE heap.node[z].next
                        /\ heap'.node[z].pred = IF z = m THEN x ELSE heap.node[z].pred
                        /\ heap'.node[z] = [val |-> heap'.node[z].val, next |-> heap'.node[z].next,
                                            pred |-> heap'.node[z].pred, exit |-> heap'.node[z].exit]
    OBVIOUS
  <2>2. PICK f, r, h : f = heap.node[z] /\ r = g.node[z] /\ h = heap'.node[z]
    OBVIOUS
  <2>3. PICK q : q = IF z = m THEN x ELSE f.pred
    OBVIOUS
  <2>4. r = [val |-> f.val, next |-> f.next, pred |-> q, exit |-> f.exit]
    BY <1>7, <2>2, <2>3
  <2>5. h = IF z = x THEN [r EXCEPT !.next = y] ELSE r
    BY <1>5, <1>6, <2>2
  <2>6. /\ h.val = f.val /\ h.next = (IF z = x THEN y ELSE f.next) /\ h.pred = q
        /\ h = [val |-> h.val, next |-> h.next, pred |-> h.pred, exit |-> h.exit]
    BY ONLY <2>4, <2>5
  <2>. QED  BY <2>2, <2>3, <2>6
<1>9. \A e \in Ends : heap'[e] = heap[e] /\ ver(e)' = ver(e) /\ ptr(e)' = ptr(e)
  BY <1>1, <1>5 DEF Ends, ver, ptr
<1>10. Shape'
  <2>1. heap' = [head |-> heap'.head, tail |-> heap'.tail, freed |-> heap'.freed, node |-> heap'.node]
    BY <1>5
  <2>2. \A z \in DOMAIN heap'.node : heap'.node[z] = [val |-> heap'.node[z].val, next |-> heap'.node[z].next,
                                        pred |-> heap'.node[z].pred, exit |-> heap'.node[z].exit]
    BY <1>6, <1>8
  <2>3. \A e \in Ends : /\ heap'[e] = [ptr |-> ptr(e)', entry |-> heap'[e].entry]
                        /\ ptr(e)' = [i \in {0, 1} |-> ptr(e)'[i]]
                        /\ heap'[e].entry = [ver |-> ver(e)', count |-> heap'[e].entry.count]
                        /\ ver(e)' \in Nat
    BY <1>9 DEF Shape
  <2>. QED  BY <2>1, <2>2, <2>3 DEF Shape
<1>. QED  BY <1>6, <1>8, <1>9, <1>10

LEMMA PredSet ==
  ASSUME Shape, NEW m \in Fresh, m \in DOMAIN heap.node, NEW x, heap' = [heap EXCEPT !.node[m].pred = x]
  PROVE  Same2
<1>1. /\ heap' = [head |-> heap.head, tail |-> heap.tail, freed |-> heap.freed, node |-> heap'.node]
      /\ heap'.node = [heap.node EXCEPT ![m].pred = x]
  BY DEF Shape
<1>2. DOMAIN heap'.node = DOMAIN heap.node
  BY <1>1
<1>9. \A z \in DOMAIN heap.node :
        /\ heap'.node[z].val = heap.node[z].val /\ heap'.node[z].next = heap.node[z].next
        /\ z # m => heap'.node[z].pred = heap.node[z].pred
        /\ heap'.node[z] = [val |-> heap'.node[z].val, next |-> heap'.node[z].next,
                            pred |-> heap'.node[z].pred, exit |-> heap'.node[z].exit]
  <2>1. SUFFICES ASSUME NEW z \in DOMAIN heap.node
                 PROVE  /\ heap'.node[z].val = heap.node[z].val /\ heap'.node[z].next = heap.node[z].next
                        /\ z # m => heap'.node[z].pred = heap.node[z].pred
                        /\ heap'.node[z] = [val |-> heap'.node[z].val, next |-> heap'.node[z].next,
                                            pred |-> heap'.node[z].pred, exit |-> heap'.node[z].exit]
    OBVIOUS
  <2>2. PICK f, h : f = heap.node[z] /\ h = heap'.node[z]
    OBVIOUS
  <2>3. f = [val |-> f.val, next |-> f.next, pred |-> f.pred, exit |-> f.exit]
    BY <2>2 DEF Shape
  <2>4. h = IF z = m THEN [f EXCEPT !.pred = x] ELSE f
    BY <1>1, <2>2
  <2>5. /\ h.val = f.val /\ h.next = f.next /\ (z # m => h.pred = f.pred)
        /\ h = [val |-> h.val, next |-> h.next, pred |-> h.pred, exit |-> h.exit]
    BY ONLY <2>3, <2>4
  <2>. QED  BY <2>2, <2>5
<1>3. \A e \in Ends : heap'[e] = heap[e] /\ ver(e)' = ver(e) /\ ptr(e)' = ptr(e)
  BY <1>1 DEF Ends, ver, ptr
<1>4. Shape'
  BY <1>9, <1>1, <1>2, <1>3, SMTT(20) DEF Shape
<1>5. \A z \in DOMAIN heap.node : z \notin Fresh => heap'.node[z].pred = heap.node[z].pred
  BY <1>9
<1>. QED  BY <1>9, <1>2, <1>3, <1>4, <1>5 DEF Same2

(* What is known when enq is about to look at its tail node. *)
LEMMA EnqSees ==
  ASSUME NEW n \in Nat, NEW o, Queue2(n, o), NEW t \in Threads, pc[t] = "enq"
  PROVE  /\ call[t].op = "enq" /\ IsFresh(t) /\ new(t) \in Fresh /\ new(t) \in DOMAIN heap.node /\ Shape
         /\ new(t) # Null /\ heap.node[new(t)].val = key(t) /\ heap.node[new(t)].next = Null
         /\ my[t].ver \in Nat /\ my[t].ver <= ver(end(t)) /\ my[t].ver + 1 \in 1 .. n
         /\ my[t].node = o[my[t].ver + 1] /\ Has(t, {"e", "ver", "node"})
         /\ my[t].node \in DOMAIN heap.node /\ my[t].node # new(t)
         /\ heap.node[my[t].node].next = (IF my[t].ver + 1 = n THEN Null ELSE o[my[t].ver + 2])
         /\ my[t].ver + 1 # n => my[t].ver + 2 \in 1 .. n /\ o[my[t].ver + 2] # Null
         /\ call[t] # Nothing
<1>1. /\ call[t].op = "enq" /\ new(t) \in DOMAIN heap.node \cap (1 .. made) /\ call[t] # Nothing /\ made \in Nat
  BY EndSeen DEF Call2, Labels, AfterLL, AfterNd, Switching, Closing, Nothing, Queue2, Calls2OK
<1>2. IsFresh(t) /\ new(t) \in Fresh /\ new(t) # Null /\ Shape
  BY <1>1, NodeNamesAssumption, EndSeen DEF IsFresh, Linked2, Fresh, AfterNd, Switching, Closing
<1>3. heap.node[new(t)].val = key(t) /\ heap.node[new(t)].next = Null
  BY <1>2 DEF Queue2, HeapOK
<1>4. pc[t] \in AfterLL
  BY DEF AfterLL
<1>5. /\ my[t].ver \in Nat /\ my[t].ver <= ver(end(t)) /\ my[t].ver + 1 \in 1 .. n
      /\ my[t].node = o[my[t].ver + 1] /\ Has(t, {"e", "ver", "node"})
      /\ my[t].node \in DOMAIN heap.node
      /\ heap.node[my[t].node].next = IF my[t].ver + 1 = n THEN Null ELSE o[my[t].ver + 2]
  BY <1>4, NodeWorked
<1>6. my[t].node # new(t)
  <2>1. my[t].ver + 1 \in 0 .. n
    BY <1>5
  <2>. QED  BY <1>2, <1>5, <2>1, RowNode
<1>7. my[t].ver + 1 # n => my[t].ver + 2 \in 1 .. n /\ o[my[t].ver + 2] # Null
  <2>1. my[t].ver + 1 # n => my[t].ver + 2 \in 1 .. n /\ my[t].ver + 2 \in 0 .. n
    BY <1>5
  <2>. QED  BY <2>1, NotNull
<1>. QED  BY <1>1, <1>2, <1>3, <1>5, <1>6, <1>7

LEMMA EnqFailsQuiet ==
  ASSUME NEW n \in Nat, NEW o, Queue2(n, o), NEW p, Possible(p), Fits2(p, n, o), NEW t \in Threads,
         LLSC!enq(t), heap.node[my[t].node].next # Null
  PROVE  Explaining2'
<1>1. /\ pc[t] = "enq" /\ heap' = [heap EXCEPT !.node[new(t)].pred = my[t].node]
      /\ my' = my /\ LLSC!Goto(t, "next") /\ LLSC!Internal
  BY DEF LLSC!enq, LLSC!At, LLSC!q, LLSC!new, new
<1>2. /\ call[t].op = "enq" /\ IsFresh(t) /\ new(t) \in Fresh /\ new(t) \in DOMAIN heap.node /\ Shape
      /\ my[t].ver \in Nat /\ my[t].ver <= ver(end(t))
      /\ my[t].node = o[my[t].ver + 1] /\ Has(t, {"e", "ver", "node"})
      /\ heap.node[my[t].node].next = (IF my[t].ver + 1 = n THEN Null ELSE o[my[t].ver + 2])
      /\ my[t].ver + 1 # n => my[t].ver + 2 \in 1 .. n
      /\ call[t] # Nothing
  BY <1>1, EnqSees
<1>3. Same2
  BY <1>1, <1>2, PredSet
<1>4. Calls2OK
  BY DEF Queue2
<1>5. Alone(t) /\ my'[t] = my[t]
  BY <1>1, <1>4, Goes2
<1>6. SameEnd(t, "next") => Seen2(t, n, o)'
  BY <1>2, <1>5 DEF SameEnd, Seen2, EntrySeen, NodeSeen, NdSeen, SwitchSeen,
                                       AfterNd, Switching, Closing, Has
<1>7. InCall(t, "next")
  BY <1>2 DEF InCall, Labels, AfterLL
<1>8. Stays(t, "next", my'[t])
  BY <1>1 DEF Stays, AfterNd, Switching, Closing
<1>. QED  BY <1>1, <1>3, <1>5, <1>6, <1>7, <1>8, QuietMove

(* enq takes effect when its node is linked, behind the last one. *)
LEMMA LinkKeeps ==
  ASSUME NEW n \in Nat, NEW o, Queue2(n, o), NEW t \in Threads,
         LLSC!enq(t), heap.node[my[t].node].next = Null
  PROVE  \E z : /\ Queue2(n + 1, z)' /\ Taken(z)' = Taken(o)
                /\ z[n + 1] = new(t) /\ \A i \in 0 .. n : z[i] = o[i]
<1>1. /\ pc[t] = "enq" /\ heap' = [heap EXCEPT !.node[new(t)].pred = my[t].node, !.node[my[t].node].next = new(t)]
      /\ LLSC!Set(t, [nd |-> new(t)]) /\ LLSC!Goto(t, "SC") /\ LLSC!Internal
  BY DEF LLSC!enq, LLSC!At, LLSC!q, LLSC!new, new
<1>2. PICK m, v : m = new(t) /\ v = my[t].ver
  OBVIOUS
<1>3. /\ call[t].op = "enq" /\ IsFresh(t) /\ m \in Fresh /\ m \in DOMAIN heap.node /\ Shape
      /\ m # Null /\ heap.node[m].val = key(t) /\ heap.node[m].next = Null
      /\ v \in Nat /\ v <= ver(end(t)) /\ v + 1 \in 1 .. n
      /\ my[t].node = o[v + 1] /\ Has(t, {"e", "ver", "node"})
      /\ my[t].node \in DOMAIN heap.node /\ my[t].node # m
      /\ v + 1 = n
  <2>1. /\ call[t].op = "enq" /\ IsFresh(t) /\ new(t) \in Fresh /\ new(t) \in DOMAIN heap.node /\ Shape
        /\ new(t) # Null /\ heap.node[new(t)].val = key(t) /\ heap.node[new(t)].next = Null
        /\ my[t].ver \in Nat /\ my[t].ver <= ver(end(t)) /\ my[t].ver + 1 \in 1 .. n
        /\ my[t].node = o[my[t].ver + 1] /\ Has(t, {"e", "ver", "node"})
        /\ my[t].node \in DOMAIN heap.node /\ my[t].node # new(t)
        /\ heap.node[my[t].node].next = (IF my[t].ver + 1 = n THEN Null ELSE o[my[t].ver + 2])
        /\ my[t].ver + 1 # n => my[t].ver + 2 \in 1 .. n /\ o[my[t].ver + 2] # Null
    BY <1>1, EnqSees
  <2>. QED  BY <1>2, <2>1
<1>4. PICK x : x = o[n] /\ x = my[t].node /\ x \in DOMAIN heap.node /\ x # m /\ x \notin Fresh
  <2>1. n \in 0 .. n
    BY <1>3
  <2>. QED  BY <1>3, <2>1, RowNode
<1>5. /\ Shape' /\ DOMAIN heap'.node = DOMAIN heap.node
      /\ \A y \in DOMAIN heap.node :
           /\ heap'.node[y].val = heap.node[y].val
           /\ heap'.node[y].next = IF y = x THEN m ELSE heap.node[y].next
           /\ heap'.node[y].pred = IF y = m THEN x ELSE heap.node[y].pred
      /\ \A e \in Ends : ver(e)' = ver(e) /\ ptr(e)' = ptr(e)
  <2>1. heap' = [heap EXCEPT !.node[m].pred = x, !.node[x].next = m]
    BY <1>1, <1>2, <1>4
  <2>. QED  BY <1>3, <1>4, <2>1, NextSet
<1>6. Calls2OK
  BY DEF Queue2
<1>7. /\ Alone(t) /\ call' = call /\ made' = made /\ pc'[t] = "SC" /\ Has(t, {"e", "ver", "node", "nd"})'
      /\ my'[t].ver = v /\ my'[t].node = my[t].node /\ my'[t].nd = m
  BY <1>1, <1>2, <1>3, <1>6, Goes2 DEF Has
<1>8. \A u : new(u)' = new(u) /\ key(u)' = key(u) /\ end(u)' = end(u)
  BY <1>7 DEF new, key, end
<1>9. ~IsFresh(t)' /\ \A u \in Threads \ {t} : (IsFresh(u)' <=> IsFresh(u)) /\ (IsFresh(u) => new(u) # m)
  <2>1. ~IsFresh(t)'
    BY <1>2, <1>7, <1>8 DEF IsFresh, Linked2, AfterNd
  <2>2. \A u \in Threads \ {t} : IsFresh(u)' <=> IsFresh(u)
    BY <1>7 DEF IsFresh, Linked2, Alone, new
  <2>3. \A u \in Threads \ {t} : IsFresh(u) => new(u) # m
    BY <1>2, <1>3, <1>6 DEF Calls2OK, OwnNodes, IsFresh
  <2>. QED  BY <2>1, <2>2, <2>3
<1>10. Fresh' = Fresh \ {m}
  BY <1>2, <1>8, <1>9 DEF Fresh
<1>11. PICK k \in Nat : k = n + 1 /\ k \in 1 .. k /\ k \notin 0 .. n /\ 0 .. k = (0 .. n) \cup {k}
                          /\ 1 .. k = (1 .. n) \cup {k} /\ k - 1 = n
  OBVIOUS
<1> DEFINE z == [i \in 0 .. k |-> IF i = k THEN m ELSE o[i]]
<1>12. z[k] = m /\ \A i \in 0 .. n : z[i] = o[i]
  BY <1>11
<1> HIDE DEF z
<1>13. Ahead(n, o, k, z)
  <2>1. \A e \in Ends : ver(e) \in Nat
    BY <1>3 DEF Shape
  <2>. QED  BY <1>5, <1>11, <1>12, <2>1 DEF Ahead
<1>14. HeapOK'
  <2>1. ASSUME NEW u \in Threads, IsFresh(u)'
        PROVE  heap'.node[new(u)'].next = Null /\ heap'.node[new(u)'].val = key(u)'
    <3>1. u # t /\ IsFresh(u) /\ new(u)' = new(u) /\ key(u)' = key(u)
      BY <1>8, <1>9, <2>1
    <3>2. new(u) \in Fresh /\ new(u) \in DOMAIN heap.node
      BY <1>6, <3>1 DEF Fresh, Calls2OK, Call2, IsFresh, Nothing
    <3>3. heap.node[new(u)].next = Null /\ heap.node[new(u)].val = key(u)
      BY <3>1 DEF Queue2, HeapOK
    <3>. QED  BY <1>4, <1>5, <3>1, <3>2, <3>3
  <2>. QED  BY <1>5, <1>7, <2>1 DEF Queue2, HeapOK
<1>15. \A i \in 0 .. n : o[i] \in DOMAIN heap.node /\ o[i] \notin Fresh /\ o[i] # m
  BY <1>3 DEF Queue2, Row2
<1>16. Row2(k, z)'
  <2>1. \A i, j \in 0 .. k : z[i] = z[j] => i = j
    <3>1. \A i, j \in 0 .. n : o[i] = o[j] => i = j
      BY DEF Queue2, Row2
    <3>. QED  BY <1>11, <1>12, <1>15, <3>1
  <2>2. 0 \in 0 .. n /\ n \in 0 .. n /\ n # 0
    BY <1>3
  <2>3. o[0] # x
    BY <1>4, <2>2 DEF Queue2, Row2
  <2>4. z[0] = Dummy1 /\ heap'.node[Dummy1].next = Null
    <3>1. o[0] = Dummy1 /\ heap.node[Dummy1].next = Null
      BY DEF Queue2, Row2
    <3>. QED  BY <1>5, <1>12, <1>15, <2>2, <2>3, <3>1
  <2>5. \A y : y \in DOMAIN heap'.node \ Fresh' <=> \E i \in 0 .. k : y = z[i]
    <3>1. \A y : y \in DOMAIN heap.node \ Fresh <=> \E i \in 0 .. n : y = o[i]
      BY DEF Queue2, Row2
    <3>. QED  BY <1>3, <1>5, <1>10, <1>11, <1>12, <3>1
  <2>6. ASSUME NEW i \in 1 .. k
        PROVE  /\ heap'.node[z[i]].next = IF i = k THEN Null ELSE z[i + 1]
               /\ heap'.node[z[i]].pred = z[i - 1]
    <3>1. CASE i = k
      BY <1>3, <1>4, <1>5, <1>11, <1>12, <2>2, <3>1
    <3>2. CASE i = n
      <4>1. /\ i \in 1 .. n /\ i - 1 \in 0 .. n /\ i \in 0 .. n /\ i + 1 = k /\ i # k
            /\ z[i] = o[i] /\ z[i - 1] = o[i - 1] /\ z[i + 1] = m
        BY <1>3, <1>11, <1>12, <3>2
      <4>2. heap.node[o[i]].pred = o[i - 1]
        BY <4>1 DEF Queue2, Row2
      <4>. QED  BY <1>4, <1>5, <3>2, <4>1, <4>2, ZenonT(40)
    <3>3. CASE i # k /\ i # n
      <4>1. /\ i \in 1 .. n /\ i - 1 \in 0 .. n /\ i \in 0 .. n /\ i + 1 \in 0 .. n
            /\ z[i] = o[i] /\ z[i - 1] = o[i - 1] /\ z[i + 1] = o[i + 1]
        BY <1>11, <1>12, <3>3
      <4>2. heap.node[o[i]].pred = o[i - 1] /\ heap.node[o[i]].next = o[i + 1]
        BY <3>3, <4>1 DEF Queue2, Row2
      <4>3. o[i] # x /\ o[i] # m /\ o[i] \in DOMAIN heap.node
        BY <1>4, <1>15, <2>2, <3>3, <4>1 DEF Queue2, Row2
      <4>. QED  BY <1>5, <3>3, <4>1, <4>2, <4>3
    <3>. QED  BY <3>1, <3>2, <3>3
  <2>. QED  BY <2>1, <2>4, <2>5, <2>6 DEF Row2
<1>17. \A e \in Ends : AtNode(e, k, z)'
  <2>1. SUFFICES ASSUME NEW e \in Ends PROVE AtNode(e, k, z)'
    OBVIOUS
  <2>2. ver(e) \in Nat /\ ver(e) + 1 \in 1 .. n /\ ptr(e)[ver(e) % 2] = o[ver(e) + 1]
        /\ \/ ptr(e)[other(ver(e))] = o[ver(e)]
           \/ ver(e) + 2 \in 1 .. n /\ ptr(e)[other(ver(e))] = o[ver(e) + 2]
    BY <1>3 DEF Queue2, AtNode, Shape
  <2>3. /\ ver(e) \in 0 .. n /\ ver(e) + 1 \in 0 .. n /\ ver(e) + 1 \in 1 .. k
        /\ ver(e) + 2 \in 1 .. n => ver(e) + 2 \in 0 .. n /\ ver(e) + 2 \in 1 .. k
    BY <1>11, <2>2
  <2>4. ver(e)' = ver(e) /\ ptr(e)' = ptr(e)
    BY <1>5
  <2>. QED  BY <1>12, <2>2, <2>3, <2>4 DEF AtNode
<1>18. ver(end(t))' = ver(end(t)) /\ end(t) \in Ends
  <2>1. PICK e \in Ends : e = end(t) /\ e = end(t)'
    BY <1>8 DEF end, Ends
  <2>2. ver(end(t))' = ver(e)'
    BY <2>1 DEF ver
  <2>. QED  BY <1>5, <2>1, <2>2
<1>19. Seen2(t, k, z)'
  <2>1. v + 1 \in 0 .. n /\ v + 2 = k
    BY <1>3, <1>11
  <2>2. z[v + 1] = my[t].node /\ z[v + 2] = m
    BY <1>3, <1>12, <2>1
  <2>3. EntrySeen(t, z)' /\ SwitchSeen(t, z)'
    BY <1>7 DEF EntrySeen, SwitchSeen, Switching, Closing
  <2>4. NodeSeen(t, k, z)' /\ NdSeen(t, k, z)'
    BY <1>3, <1>7, <1>8, <1>18, <2>1, <2>2 DEF NodeSeen, NdSeen, Has
  <2>. QED  BY <2>3, <2>4 DEF Seen2
<1>20. (Half(z)' <=> Half(o)) /\ ver("head")' = ver("head")
  <2>1. "head" \in Ends /\ ver("head") \in 0 .. n
    <3>1. "head" \in Ends
      BY DEF Ends
    <3>2. ver("head") \in Nat /\ ver("head") + 1 \in 1 .. n
      BY <1>3, <3>1 DEF Shape, Queue2, AtNode
    <3>. QED  BY <3>1, <3>2
  <2>2. ver("head")' = ver("head") /\ ptr("head")' = ptr("head")
    BY <1>5, <2>1
  <2>. QED  BY <1>12, <2>1, <2>2 DEF Half
<1>21. Attended(z)'
  <2>1. \A u \in Threads : Attends(u) => Attends(u)'
    <3>1. ~Attends(t)
      BY <1>1 DEF Attends, Switching
    <3>. QED  BY <1>7, <1>20, <3>1 DEF Attends, TookNext, Alone
  <2>. QED  BY <1>20, <2>1 DEF Queue2, Attended
<1>22. Call2(t)'
  <2>1. Call2(t)
    BY EndSeen
  <2>. QED  BY <1>3, <1>5, <1>7, <1>8, <2>1 DEF Call2, Nothing, Labels, AfterLL, AfterNd
<1>23. /\ made' \in Nat /\ made <= made' /\ DOMAIN heap.node \subseteq DOMAIN heap'.node
       /\ call'[t] = call[t]
  BY <1>5, <1>6, <1>7 DEF Calls2OK
<1>24. Queue2(k, z)'
  BY <1>7, <1>13, <1>14, <1>16, <1>17, <1>19, <1>21, <1>22, <1>23, EnoughForOne2
<1>25. Taken(z)' = Taken(o)
  BY <1>20 DEF Taken
<1>. QED  BY <1>2, <1>11, <1>12, <1>24, <1>25

LEMMA ValuesGrow ==
  ASSUME NEW n \in Nat, NEW o, NEW h \in 1 .. n, NEW z, NEW x,
         \A i \in 0 .. n : z[i] = o[i] /\ heap'.node[o[i]].val = heap.node[o[i]].val,
         heap'.node[z[n + 1]].val = x
  PROVE  Values(n + 1, z, h)' = Append(Values(n, o, h), x)
<1>1. PICK d \in Nat, k \in Nat : k = n + 1 /\ d = n - h /\ d + 1 = k - h /\ h + (d + 1) = k
  OBVIOUS
<1> DEFINE f == Values(n, o, h)
           e == d + 1
<1>2. f = [i \in 1 .. d |-> f[i]] /\ \A i \in 1 .. d : f[i] = heap.node[o[h + i]].val
  BY <1>1 DEF Values
<1>3. Append(f, x) = [i \in 1 .. e |-> IF i = e THEN x ELSE f[i]]
  <2> HIDE DEF f
  <2>. QED  BY <1>2, SeqLonger
<1>4. ASSUME NEW i \in 1 .. e
      PROVE  heap'.node[z[h + i]].val = IF i = e THEN x ELSE f[i]
  <2>1. CASE i = e
    BY <1>1, <2>1
  <2>2. CASE i # e
    <3>1. i \in 1 .. d /\ h + i \in 0 .. n
      BY <1>1, <2>2
    <3>. QED  BY <1>2, <2>2, <3>1
  <2>. QED  BY <2>1, <2>2
<1>5. Values(k, z, h)' = [i \in 1 .. e |-> heap'.node[z[h + i]].val]
  BY <1>1 DEF Values
<1> HIDE DEF f, e
<1>6. Values(k, z, h)' = Append(f, x)
  BY <1>3, <1>4, <1>5
<1>. QED  BY <1>1, <1>6 DEF f

LEMMA LinkExplains2 ==
  ASSUME NEW n \in Nat, NEW o, Queue2(n, o), NEW p, Possible(p), Fits2(p, n, o), NEW t \in Threads,
         LLSC!enq(t), heap.node[my[t].node].next = Null
  PROVE  Explaining2'
<1>1. /\ pc[t] = "enq" /\ heap' = [heap EXCEPT !.node[new(t)].pred = my[t].node, !.node[my[t].node].next = new(t)]
      /\ LLSC!Set(t, [nd |-> new(t)]) /\ LLSC!Goto(t, "SC") /\ LLSC!Internal
  BY DEF LLSC!enq, LLSC!At, LLSC!q, LLSC!new, new
<1>2. PICK z : /\ Queue2(n + 1, z)' /\ Taken(z)' = Taken(o)
               /\ z[n + 1] = new(t) /\ \A i \in 0 .. n : z[i] = o[i]
  BY LinkKeeps
<1>3. /\ call[t].op = "enq" /\ IsFresh(t) /\ new(t) \in DOMAIN heap.node /\ Shape
      /\ heap.node[new(t)].val = key(t) /\ call[t] # Nothing
      /\ my[t].node \in DOMAIN heap.node /\ my[t].node # new(t)
  BY <1>1, EnqSees
<1>4. \A x \in DOMAIN heap.node : x \in DOMAIN heap'.node /\ heap'.node[x].val = heap.node[x].val
  <2>1. PICK m, x, y : m = new(t) /\ x = my[t].node /\ y = new(t)
    OBVIOUS
  <2>2. heap' = [heap EXCEPT !.node[m].pred = x, !.node[x].next = y]
    BY <1>1, <2>1
  <2>3. m \in DOMAIN heap.node /\ x \in DOMAIN heap.node /\ x # m
    BY <1>3, <2>1
  <2>. QED  BY <1>3, <2>2, <2>3, NextSet
<1>5. Calls2OK
  BY DEF Queue2
<1>6. Alone(t) /\ call' = call /\ configs' = configs /\ pc'[t] = "SC" /\ my'[t].nd = new(t)
  BY <1>1, <1>5, Goes2
<1>7. PICK h \in 1 .. n : h = Taken(o)
  BY TakenIs
<1>8. PICK w : w = Values(n, o, h)
  OBVIOUS
<1>9. Values(n + 1, z, h)' = Append(w, key(t))
  <2>1. \A i \in 0 .. n : o[i] \in DOMAIN heap.node
    BY RowNode
  <2>2. \A i \in 0 .. n : z[i] = o[i] /\ heap'.node[o[i]].val = heap.node[o[i]].val
    BY <1>2, <1>4, <2>1
  <2>3. PICK x : x = key(t)
    OBVIOUS
  <2>4. heap'.node[z[n + 1]].val = x
    BY <1>2, <1>3, <1>4, <2>3
  <2>5. Values(n + 1, z, h)' = Append(Values(n, o, h), x)
    BY ONLY <2>2, <2>4, h \in 1 .. n, n \in Nat, ValuesGrow
  <2>. QED  BY <1>8, <2>3, <2>5
<1>10. PICK e : e = TakeEffect(p, t)
  OBVIOUS
<1>11. e.state = Append(p.state, key(t)) /\ e.ret[t] = key(t)
  BY <1>3, <1>10, EnqEffect
<1>12. p.state = w
  BY <1>7, <1>8 DEF Fits2
<1>13. Values(n + 1, z, Taken(z))' = e.state
  <2>1. Values(n + 1, z, Taken(z))' = Values(n + 1, z, h)'
    BY <1>2, <1>7 DEF Values
  <2>. QED  BY <1>9, <1>11, <1>12, <2>1
<1>14. e.ret[t] = Gets(t)'
  BY <1>3, <1>6, <1>11 DEF Gets, key
<1>15. t \in Settled' /\ t \notin Settled
  BY <1>1, <1>3, <1>6 DEF Settled, Linked2, TookNext, FoundNone, AfterNd, Switching, Closing, new
<1>16. \E m : m = n + 1 /\ m \in Nat
  OBVIOUS
<1>17. Possible(e)' /\ Fits2(e, n + 1, z)'
  BY <1>3, <1>4, <1>6, <1>10, <1>13, <1>14, <1>15, NowFits
<1>. QED  BY <1>2, <1>16, <1>17 DEF Explaining2

(* deq takes effect, with 0, when it finds no node behind its head node.    *)
LEMMA EmptyExplains ==
  ASSUME NEW n \in Nat, NEW o, Queue2(n, o), NEW p, Possible(p), Fits2(p, n, o), NEW t \in Threads,
         LLSC!deq(t), heap.node[my[t].node].next = Null
  PROVE  Explaining2'
<1>1. /\ pc[t] = "deq" /\ heap' = heap /\ LLSC!Goto(t, "unlink") /\ LLSC!Internal
      /\ LLSC!Set(t, [nd |-> Null])
  BY DEF LLSC!deq, LLSC!At, LLSC!Local, LLSC!q
<1>2. Same2
  BY <1>1, EndSeen, SameHeap
<1>3. Calls2OK
  BY DEF Queue2
<1>4. pc[t] \in AfterLL /\ pc[t] \notin AfterNd
  BY <1>1 DEF AfterLL, AfterNd, Switching, Closing
<1>5. /\ my[t].ver \in Nat /\ my[t].ver <= ver(end(t)) /\ my[t].ver + 1 \in 1 .. n
      /\ my[t].node = o[my[t].ver + 1] /\ Has(t, {"e", "ver", "node"})
      /\ heap.node[my[t].node].next = IF my[t].ver + 1 = n THEN Null ELSE o[my[t].ver + 2]
  BY <1>4, NodeWorked
<1>6. my[t].ver + 1 = n
  <2>1. SUFFICES ASSUME my[t].ver + 1 # n PROVE FALSE
    OBVIOUS
  <2>2. my[t].ver + 2 \in 0 .. n
    BY <1>5, <2>1
  <2>3. o[my[t].ver + 2] # Null
    BY <2>2, NotNull
  <2>. QED  BY <1>5, <2>1, <2>3
<1>7. call[t].op = "deq" /\ call[t] # Nothing
  BY <1>1, EndSeen DEF Call2, Nothing, Labels, AfterLL, AfterNd, Switching, Closing
<1>8. end(t) = "head" /\ "head" \in Ends
  BY <1>7 DEF end, Ends
<1>9. /\ Alone(t) /\ my'[t].nd = Null /\ Has(t, {"e", "ver", "node", "nd"})'
      /\ my'[t].ver = my[t].ver /\ my'[t].node = my[t].node
      /\ call' = call /\ made' = made /\ configs' = configs /\ pc'[t] = "unlink"
  BY <1>1, <1>3, <1>5, Goes2 DEF Has
<1>10. end(t)' = end(t) /\ ver(end(t))' = ver(end(t)) /\ new(t)' = new(t)
  BY <1>2, <1>9, EndKept
<1>11. Seen2(t, n, o)'
  BY <1>5, <1>7, <1>9, <1>10
     DEF Seen2, EntrySeen, NodeSeen, NdSeen, SwitchSeen, AfterNd, Switching, Closing, Has
<1>12. Call2(t)'
  BY <1>7, <1>9 DEF Call2, Labels, AfterLL, AfterNd
<1>13. ~IsFresh(t) /\ ~IsFresh(t)' /\ ~Attends(t)
  BY <1>1, <1>7, <1>9 DEF IsFresh, Attends, Switching
<1>14. Queue2(n, o)'
  BY <1>2, <1>9, <1>11, <1>12, <1>13, QuietStep
<1>15. Taken(o) = n
  <2>1. PICK v \in Nat : v = ver("head") /\ v + 1 \in 1 .. n /\ v + 1 = n
    BY <1>5, <1>6, <1>8, EndSeen
  <2>2. ~Half(o)
    BY <1>8, <2>1 DEF Queue2, AtNode, Half
  <2>. QED  BY <2>1, <2>2 DEF Taken
<1>16. Values(n, o, Taken(o)) = <<>>
  <2>1. n \in 1 .. n
    BY <1>5
  <2>. QED  BY <1>15, <2>1, ValuesTaken
<1>17. PICK e : e = TakeEffect(p, t)
  OBVIOUS
<1>18. p.state = <<>>
  BY <1>16 DEF Fits2
<1>19. e.state = p.state /\ e.ret[t] = 0
  <2>1. p.state = <<>> => e.state = p.state /\ e.ret[t] = 0
    BY <1>7, <1>17, DeqEffect
  <2>. QED  BY <1>18, <2>1
<1>20. e.ret[t] = Gets(t)'
  BY <1>7, <1>9, <1>19 DEF Gets
<1>21. t \in Settled' /\ t \notin Settled
  BY <1>1, <1>7, <1>9 DEF Settled, Linked2, TookNext, FoundNone, AfterNd, Switching, Closing
<1>22. \A x \in DOMAIN heap.node : x \in DOMAIN heap'.node /\ heap'.node[x].val = heap.node[x].val
  BY <1>1
<1>23. Values(n, o, Taken(o))' = e.state
  <2>1. Values(n, o, Taken(o))' = Values(n, o, Taken(o))
    BY <1>2, SameValues2
  <2>. QED  BY <1>16, <1>18, <1>19, <2>1
<1>24. Possible(e)' /\ Fits2(e, n, o)'
  BY <1>7, <1>9, <1>17, <1>20, <1>21, <1>22, <1>23, NowFits
<1>. QED  BY <1>14, <1>24 DEF Explaining2
-----------------------------------------------------------------------------
(* A call that has taken effect returns. *)
LEMMA ReturnExplains2 ==
  ASSUME NEW n \in Nat, NEW o, Queue2(n, o), NEW p, Possible(p), Fits2(p, n, o), NEW t \in Threads,
         Same2, NEW r, LLSC!Return(t, r), t \in Settled, r = Gets(t), pc[t] \notin Switching
  PROVE  Explaining2'
<1>1. Calls2OK
  BY DEF Queue2
<1>2. /\ Answer(t, r) /\ LLSC!Goto(t, "idle") /\ my' = [my EXCEPT ![t] = LLSC!Locals]
  BY LLSCAnswer DEF LLSC!Return
<1>3. call' = [call EXCEPT ![t] = Nothing] /\ made' = made
  BY <1>2 DEF Answer
<1>4. Alone(t) /\ call'[t] = Nothing /\ pc'[t] = "idle"
  BY <1>1, <1>2, <1>3 DEF Calls2OK, LLSC!Goto, Alone
<1>5. call[t] # Nothing /\ ~IsFresh(t)
  BY DEF Settled, Linked2, TookNext, FoundNone, Nothing, IsFresh
<1>6. ~IsFresh(t)' /\ ~Attends(t)
  BY <1>4 DEF IsFresh, Nothing, Attends
<1>7. Call2(t)' /\ Seen2(t, n, o)'
  BY <1>4 DEF Call2, Seen2, EntrySeen, NodeSeen, NdSeen, SwitchSeen, AfterLL, AfterNd, Switching, Closing
<1>8. Queue2(n, o)'
  BY <1>3, <1>4, <1>5, <1>6, <1>7, QuietStep
<1>9. /\ Values(n, o, Taken(o))' = Values(n, o, Taken(o))
      /\ \A x \in DOMAIN heap.node : x \in DOMAIN heap'.node /\ heap'.node[x].val = heap.node[x].val
  BY SameValues2
<1>10. \E d : Possible(d)' /\ Fits2(d, n, o)'
  BY <1>2, <1>4, <1>5, <1>9, ThenFits
<1>. QED  BY <1>8, <1>10 DEF Explaining2

LEMMA setToBeFreedExplains ==
  ASSUME NEW n \in Nat, NEW o, Queue2(n, o), NEW p, Possible(p), Fits2(p, n, o), NEW t \in Threads,
         LLSC!setToBeFreed(t)
  PROVE  Explaining2'
<1>1. PICK f : /\ pc[t] = "val" /\ heap' = [heap EXCEPT !.freed = f]
               /\ LLSC!Return(t, heap.node[my[t].nd].val)
  BY DEF LLSC!setToBeFreed, LLSC!At, LLSC!q
<1>2. Same2
  BY <1>1, EndSeen, SameFreed
<1>3. pc[t] \in AfterNd /\ pc[t] \notin Switching
  BY <1>1 DEF AfterNd, Switching
<1>4. call[t].op = "deq" /\ my[t].nd # Null /\ my[t].success = TRUE
  BY <1>1, <1>3, NdWorked DEF NdSeen, SwitchSeen, Call2
<1>5. t \in Settled /\ Gets(t) = heap.node[my[t].nd].val
  BY <1>1, <1>4 DEF Settled, TookNext, Gets
<1>. QED  BY <1>1, <1>2, <1>3, <1>5, ReturnExplains2

LEMMA UnlinkExplains ==
  ASSUME NEW n \in Nat, NEW o, Queue2(n, o), NEW p, Possible(p), Fits2(p, n, o), NEW t \in Threads,
         LLSC!UnlinkCas(t), LLSC!loc(t).entry = my[t].e
  PROVE  Explaining2'
<1>1. /\ pc[t] = "unlink.cas" /\ heap' = LLSC!casEntry(t, [my[t].e EXCEPT !.count = @ - 1])
      /\ LLSC!Return(t, 0)
  BY DEF LLSC!UnlinkCas, LLSC!At
<1>2. Same2
  <2>1. PICK c : c = my[t].e.count - 1
    OBVIOUS
  <2>2. heap' = LLSC!casEntry(t, [my[t].e EXCEPT !.count = c])
    BY <1>1, <2>1
  <2>. QED  BY <2>2, EndSeen, SameEntry
<1>3. pc[t] \in AfterNd /\ pc[t] \notin Switching
  BY <1>1 DEF AfterNd, Switching
<1>4. call[t].op = "deq" /\ my[t].nd = Null
  BY <1>1, <1>3, NdWorked DEF NdSeen, Call2
<1>5. t \in Settled /\ Gets(t) = 0
  BY <1>1, <1>4 DEF Settled, FoundNone, Gets
<1>. QED  BY <1>1, <1>2, <1>3, <1>5, ReturnExplains2

LEMMA ReleasedExplains ==
  ASSUME NEW n \in Nat, NEW o, Queue2(n, o), NEW p, Possible(p), Fits2(p, n, o), NEW t \in Threads,
         LLSC!Released(t)
  PROVE  Explaining2'
<1>1. pc[t] = "released" /\ heap' = heap
  BY DEF LLSC!Released, LLSC!At
<1>2. Same2
  BY <1>1, EndSeen, SameHeap
<1>3. pc[t] \in AfterNd /\ pc[t] \notin Switching
  BY <1>1 DEF AfterNd, Switching, Closing
<1>4. Call2(t) /\ NdSeen(t, n, o)
  BY <1>3, NdWorked
<1>5. CASE my[t].nd = Null
  <2>1. LLSC!Return(t, 0)
    BY <1>5 DEF LLSC!Released
  <2>2. call[t].op = "deq"
    BY <1>1, <1>3, <1>4, <1>5 DEF NdSeen, Call2
  <2>3. t \in Settled /\ Gets(t) = 0
    BY <1>1, <1>5, <2>2 DEF Settled, FoundNone, Gets, Closing
  <2>. QED  BY <1>2, <1>3, <2>1, <2>3, ReturnExplains2
<1>6. CASE my[t].nd # Null /\ call[t].op = "enq" /\ my[t].nd = new(t)
  <2>1. LLSC!Return(t, key(t))
    BY <1>6 DEF LLSC!Released, LLSC!new, new, LLSC!key, key
  <2>2. t \in Settled /\ Gets(t) = key(t)
    BY <1>3, <1>6 DEF Settled, Linked2, Gets
  <2>. QED  BY <1>2, <1>3, <2>1, <2>2, ReturnExplains2
<1>7. CASE my[t].nd # Null /\ ~(call[t].op = "enq" /\ my[t].nd = new(t))
  BY <1>7, ReleasedQuiet
<1>. QED  BY <1>5, <1>6, <1>7
-----------------------------------------------------------------------------
LEMMA NodeMade ==
  ASSUME Shape, NEW m, m \notin DOMAIN heap.node,
         heap' = [heap EXCEPT !.node = LLSC!WithNode(m, LLSC!create_node(m, Null, 2))]
  PROVE  /\ Shape' /\ DOMAIN heap'.node = DOMAIN heap.node \cup {m}
         /\ \A x \in DOMAIN heap.node : heap'.node[x] = heap.node[x]
         /\ heap'.node[m].val = m /\ heap'.node[m].next = Null
         /\ \A e \in Ends : heap'[e] = heap[e] /\ ver(e)' = ver(e) /\ ptr(e)' = ptr(e)
<1>1. PICK w : w = LLSC!WithNode(m, LLSC!create_node(m, Null, 2))
  OBVIOUS
<1>2. heap' = [head |-> heap.head, tail |-> heap.tail, freed |-> heap.freed, node |-> w]
  <2>1. heap = [head |-> heap.head, tail |-> heap.tail, freed |-> heap.freed, node |-> heap.node]
    BY DEF Shape
  <2>. QED  BY <1>1, <2>1
<1>3. PICK r, x : r = LLSC!create_node(m, Null, 2) /\ x = LLSC!ExitTag(0, 2)
  OBVIOUS
<1>4. r = [val |-> m, next |-> Null, pred |-> Null, exit |-> x]
  BY <1>3 DEF LLSC!create_node
<1>5. w = [y \in DOMAIN heap.node \cup {m} |-> IF y = m THEN r ELSE heap.node[y]]
  BY <1>1, <1>3 DEF LLSC!WithNode, LLSC!q
<1>6. heap'.node = w /\ DOMAIN w = DOMAIN heap.node \cup {m}
  BY <1>2, <1>5
<1>7. w[m] = r /\ \A y \in DOMAIN heap.node : w[y] = heap.node[y]
  BY <1>5
<1>8. \A y \in DOMAIN w : w[y] = [val |-> w[y].val, next |-> w[y].next, pred |-> w[y].pred, exit |-> w[y].exit]
  BY <1>4, <1>6, <1>7 DEF Shape
<1>9. \A e \in Ends : heap'[e] = heap[e] /\ ver(e)' = ver(e) /\ ptr(e)' = ptr(e)
  BY <1>2 DEF Ends, ver, ptr
<1>10. Shape'
  <2>1. heap' = [head |-> heap'.head, tail |-> heap'.tail, freed |-> heap'.freed, node |-> heap'.node]
    BY <1>2
  <2>2. \A e \in Ends : /\ heap'[e] = [ptr |-> ptr(e)', entry |-> heap'[e].entry]
                        /\ ptr(e)' = [i \in {0, 1} |-> ptr(e)'[i]]
                        /\ heap'[e].entry = [ver |-> ver(e)', count |-> heap'[e].entry.count]
                        /\ ver(e)' \in Nat
    BY <1>9 DEF Shape
  <2>. QED  BY <1>6, <1>8, <2>1, <2>2 DEF Shape
<1>. QED  BY <1>4, <1>6, <1>7, <1>9, <1>10

LEMMA CallExplains2 ==
  ASSUME NEW n \in Nat, NEW o, Queue2(n, o), NEW p, Possible(p), Fits2(p, n, o), NEW t \in Threads,
         NEW op \in {"enq", "deq"}, LLSC!Call(t, op, made + 1)
  PROVE  Explaining2'
<1>1. Calls2OK
  BY DEF Queue2
<1>2. PICK m \in Nat : m = made + 1 /\ m \notin 1 .. made /\ m \in 1 .. m /\ 1 .. made \subseteq 1 .. m /\ made <= m
  BY <1>1 DEF Calls2OK
<1>3. /\ Alone(t) /\ my'[t] = my[t] /\ call[t] = Nothing /\ configs' = configs /\ made' = m
      /\ pc'[t] = "LL" /\ call'[t] = [op |-> op, key |-> m, no |-> m]
  BY <1>1, <1>2 DEF LLSC!Call, LLSC!Enter, LLSC!Invoke, LLSC!Goto, LLSC!Nothing, Nothing, Calls2OK, Alone
<1>4. heap' = IF op = "enq" THEN [heap EXCEPT !.node = LLSC!WithNode(m, LLSC!create_node(m, Null, 2))] ELSE heap
  BY <1>2 DEF LLSC!Call, LLSC!q
<1>5. Shape /\ m \notin DOMAIN heap.node /\ DOMAIN heap.node \subseteq {Dummy, Dummy1} \cup (1 .. made)
  BY <1>2, NodeNamesAssumption, Node1Assumption DEF Queue2, HeapOK
<1>6. /\ Shape' /\ DOMAIN heap'.node = DOMAIN heap.node \cup (IF op = "enq" THEN {m} ELSE {})
      /\ \A x \in DOMAIN heap.node : heap'.node[x] = heap.node[x]
      /\ op = "enq" => heap'.node[m].val = m /\ heap'.node[m].next = Null
      /\ \A e \in Ends : ver(e)' = ver(e) /\ ptr(e)' = ptr(e)
  <2>1. CASE op = "enq"
    BY <1>4, <1>5, <2>1, NodeMade
  <2>2. CASE op # "enq"
    BY <1>4, <1>5, <2>2 DEF Shape, ver, ptr
  <2>. QED  BY <2>1, <2>2
<1>7. new(t)' = m /\ key(t)' = m /\ (IsFresh(t)' <=> op = "enq") /\ ~IsFresh(t)
  BY <1>3 DEF new, key, IsFresh, Linked2, AfterNd, Switching, Closing, Nothing
<1>8. \A u \in Threads \ {t} : (IsFresh(u)' <=> IsFresh(u)) /\ new(u)' = new(u) /\ key(u)' = key(u)
  BY <1>3 DEF IsFresh, Linked2, Alone, new, key
<1>9. Fresh' = Fresh \cup (IF op = "enq" THEN {m} ELSE {})
  BY <1>7, <1>8 DEF Fresh
<1>10. HeapOK'
  <2>1. DOMAIN heap'.node \subseteq {Dummy, Dummy1} \cup (1 .. m)
    BY <1>2, <1>5, <1>6
  <2>2. ASSUME NEW u \in Threads, IsFresh(u)'
        PROVE  heap'.node[new(u)'].next = Null /\ heap'.node[new(u)'].val = key(u)'
    <3>1. CASE u = t
      BY <1>6, <1>7, <2>2, <3>1
    <3>2. CASE u # t
      <4>1. IsFresh(u) /\ new(u)' = new(u) /\ key(u)' = key(u)
        BY <1>8, <2>2, <3>2
      <4>2. new(u) \in DOMAIN heap.node
        BY <1>1, <4>1 DEF Calls2OK, Call2, IsFresh, Nothing
      <4>. QED  BY <1>6, <4>1, <4>2 DEF Queue2, HeapOK
    <3>. QED  BY <3>1, <3>2
  <2>. QED  BY <1>3, <1>6, <2>1, <2>2 DEF HeapOK
<1>11. \A i \in 0 .. n : o[i] \in DOMAIN heap.node /\ heap'.node[o[i]] = heap.node[o[i]]
  BY <1>6, RowNode
<1>12. Row2(n, o)'
  <2>1. \A y : y \in DOMAIN heap'.node \ Fresh' <=> \E i \in 0 .. n : y = o[i]
    <3>1. \A y : y \in DOMAIN heap.node \ Fresh <=> \E i \in 0 .. n : y = o[i]
      BY DEF Queue2, Row2
    <3>. QED  BY <1>5, <1>6, <1>9, <3>1
  <2>2. heap'.node[Dummy1].next = Null
    <3>1. 0 \in 0 .. n /\ o[0] = Dummy1 /\ heap.node[Dummy1].next = Null
      BY DEF Queue2, Row2
    <3>. QED  BY <1>11, <3>1
  <2>3. \A i \in 1 .. n : heap'.node[o[i]].next = IF i = n THEN Null ELSE o[i + 1]
    BY <1>11 DEF Queue2, Row2
  <2>4. \A i \in 1 .. n : heap'.node[o[i]].pred = o[i - 1]
    BY <1>11 DEF Queue2, Row2
  <2>. QED  BY <2>1, <2>2, <2>3, <2>4 DEF Queue2, Row2
<1>13. \A e \in Ends : AtNode(e, n, o)'
  BY <1>6 DEF Queue2, AtNode
<1>14. Ahead(n, o, n, o)
  <2>1. \A e \in Ends : ver(e) \in Nat /\ ver(e)' = ver(e) /\ ptr(e)' = ptr(e)
    BY <1>5, <1>6 DEF Shape
  <2>2. n <= n /\ \A e \in Ends : ver(e) <= ver(e)'
    BY <2>1
  <2>. QED  BY <2>1, <2>2 DEF Ahead
<1>15. Seen2(t, n, o)'
  BY <1>3 DEF Seen2, EntrySeen, NodeSeen, NdSeen, SwitchSeen, AfterLL, AfterNd, Switching, Closing
<1>16. Call2(t)'
  BY <1>2, <1>3, <1>6, <1>7 DEF Call2, Labels
<1>17. ver("head")' = ver("head") /\ ptr("head")' = ptr("head")
  BY <1>6 DEF Ends
<1>18. Attended(o)'
  <2>1. \A u \in Threads : Attends(u) => Attends(u)'
    <3>1. ~Attends(t)
      BY <1>3 DEF Attends, TookNext, Nothing
    <3>. QED  BY <1>3, <1>17, <3>1 DEF Attends, TookNext, Alone
  <2>. QED  BY <1>17, <2>1 DEF Queue2, Attended, Half
<1>19. made' \in Nat /\ made <= made' /\ DOMAIN heap.node \subseteq DOMAIN heap'.node /\ new(t)' \notin 1 .. made
  BY <1>2, <1>3, <1>6, <1>7
<1>20. Queue2(n, o)'
  BY <1>3, <1>10, <1>12, <1>13, <1>14, <1>15, <1>16, <1>18, <1>19, EnoughForOne2
<1>21. \A x \in DOMAIN heap.node : x \in DOMAIN heap'.node /\ heap'.node[x].val = heap.node[x].val
  BY <1>6
<1>22. Settled' = Settled /\ t \notin Settled /\ \A u \in Settled : Gets(u)' = Gets(u)
  <2>1. t \notin Settled /\ t \notin Settled'
    BY <1>3 DEF Settled, Linked2, TookNext, FoundNone, AfterNd, Switching, Closing, Nothing
  <2>. QED  BY <1>3, <1>21, <2>1, OthersSettle DEF Settled
<1>23. Values(n, o, Taken(o))' = Values(n, o, Taken(o))
  <2>1. PICK h \in 1 .. n : h = Taken(o)
    BY TakenIs
  <2>2. h = Taken(o)'
    BY <1>17, <2>1 DEF Taken, Half
  <2>3. \A i \in 1 .. n - h : heap'.node[o[h + i]].val = heap.node[o[h + i]].val
    <3>1. \A i \in 1 .. n - h : h + i \in 0 .. n
      BY <2>1
    <3>. QED  BY <1>11, <3>1
  <2>4. Values(n, o, h)' = Values(n, o, h)
    BY <2>3 DEF Values
  <2>. QED  BY <2>1, <2>2, <2>4 DEF Values
<1>24. Possible(p)'
  <2>1. \A u \in Pending : call'[u] = call[u]
    BY <1>3 DEF Pending, Alone
  <2>. QED  BY <1>3, <2>1, PossibleStays
<1>25. Fits2(p, n, o)'
  BY <1>22, <1>23 DEF Fits2
<1>. QED  BY <1>20, <1>24, <1>25 DEF Explaining2

LEMMA InitExplains2 == Init => (which = "llsc" => Explaining2)
<1>1. SUFFICES ASSUME which = "llsc", LLSC!Init PROVE Explaining2
  BY DEF Init
<1>2. /\ call = [t \in Threads |-> Nothing] /\ made = 0
      /\ pc = [t \in Threads |-> "idle"] /\ my = [t \in Threads |-> LLSC!Locals]
      /\ configs = {[state |-> s, ret |-> <<>>] : s \in {<<>>}}
      /\ heap = LLSC!init_queue
  BY <1>1 DEF LLSC!Init, LLSC!Idle, LLSC!NoCalls, LLSC!Nothing, Nothing
<1>3. PICK x, y : x = LLSC!create_node(Null, Dummy1, 2) /\ y = LLSC!create_node(Null, Null, 0)
  OBVIOUS
<1>4. /\ x = [val |-> x.val, next |-> Null, pred |-> Dummy1, exit |-> x.exit]
      /\ y = [val |-> y.val, next |-> Null, pred |-> y.pred, exit |-> y.exit]
  BY <1>3 DEF LLSC!create_node
<1>5. PICK g : g = [i \in {0, 1} |-> IF i = 0 THEN Dummy ELSE Dummy1]
  OBVIOUS
<1>6. PICK l : l = [ptr |-> g, entry |-> [ver |-> 0, count |-> 0]]
  OBVIOUS
<1>7. PICK w : w = [b \in {Dummy, Dummy1} |-> IF b = Dummy THEN x ELSE y]
  OBVIOUS
<1>8. heap = [head |-> l, tail |-> l, freed |-> {}, node |-> w]
  BY <1>2, <1>3, <1>5, <1>6, <1>7 DEF LLSC!init_queue, LLSC!LLSCvar
<1>9. w[Dummy] = x /\ w[Dummy1] = y /\ DOMAIN w = {Dummy, Dummy1}
  BY <1>7, Node1Assumption
<1>10. \A e \in Ends : heap[e] = l /\ ver(e) = 0 /\ ptr(e) = g
  BY <1>6, <1>8 DEF Ends, ver, ptr
<1>11. Fresh = {} /\ Settled = {} /\ \A t \in Threads : ~IsFresh(t) /\ ~Attends(t)
  BY <1>2 DEF Fresh, IsFresh, Settled, Linked2, TookNext, FoundNone, Attends, Nothing
<1>12. g = [i \in {0, 1} |-> g[i]] /\ g[0] = Dummy /\ g[1] = Dummy1
  BY <1>5
<1>13. Shape
  <2>1. heap = [head |-> heap.head, tail |-> heap.tail, freed |-> heap.freed, node |-> heap.node]
    BY <1>8
  <2>2. \A b \in DOMAIN heap.node : heap.node[b] =
          [val |-> heap.node[b].val, next |-> heap.node[b].next, pred |-> heap.node[b].pred, exit |-> heap.node[b].exit]
    BY <1>4, <1>8, <1>9
  <2>3. \A e \in Ends : /\ heap[e] = [ptr |-> ptr(e), entry |-> heap[e].entry]
                        /\ ptr(e) = [i \in {0, 1} |-> ptr(e)[i]]
                        /\ heap[e].entry = [ver |-> ver(e), count |-> heap[e].entry.count]
                        /\ ver(e) \in Nat
    BY <1>6, <1>10, <1>12
  <2>. QED  BY <2>1, <2>2, <2>3 DEF Shape
<1> DEFINE o == [i \in 0 .. 1 |-> IF i = 0 THEN Dummy1 ELSE Dummy]
<1>14. o[0] = Dummy1 /\ o[1] = Dummy
  OBVIOUS
<1> HIDE DEF o
<1>15. 1 \in Nat /\ 0 .. 1 = {0, 1} /\ 1 .. 1 = {1} /\ 1 - 1 = 0 /\ 0 + 1 = 1 /\ 0 % 2 = 0 /\ other(0) = 1
  BY DEF other
<1>16. HeapOK
  BY <1>8, <1>9, <1>11, <1>13 DEF HeapOK
<1>17. Row2(1, o)
  BY <1>4, <1>8, <1>9, <1>11, <1>14, <1>15, Node1Assumption DEF Row2
<1>18. \A e \in Ends : AtNode(e, 1, o)
  BY <1>10, <1>12, <1>14, <1>15 DEF AtNode
<1>19. Calls2OK
  <2>1. \A t \in Threads : Call2(t)
    BY <1>2 DEF Call2
  <2>2. OwnNodes
    BY <1>2 DEF OwnNodes, Nothing
  <2>. QED  BY <1>2, <2>1, <2>2 DEF Calls2OK
<1>20. \A t \in Threads : Seen2(t, 1, o)
  BY <1>2 DEF Seen2, EntrySeen, NodeSeen, NdSeen, SwitchSeen, AfterLL, AfterNd, Switching, Closing
<1>21. ~Half(o)
  BY <1>10, <1>12, <1>14, <1>15 DEF Half, Ends
<1>22. Queue2(1, o)
  BY <1>16, <1>17, <1>18, <1>19, <1>20, <1>21 DEF Queue2, Attended
<1>23. Values(1, o, Taken(o)) = <<>>
  <2>1. Taken(o) = 1
    BY <1>10, <1>15, <1>21 DEF Taken, Ends
  <2>2. 1 \in 1 .. 1
    OBVIOUS
  <2>. QED  BY <1>15, <2>1, <2>2, ValuesTaken
<1>24. PICK p \in configs : p.state = <<>> /\ DOMAIN p.ret = {}
  <2>1. PICK p \in configs : p = [state |-> <<>>, ret |-> <<>>]
    BY <1>2
  <2>2. DOMAIN <<>> = {}
    OBVIOUS
  <2>. QED  BY <2>1, <2>2
<1>25. Possible(p) /\ Fits2(p, 1, o)
  BY <1>11, <1>23, <1>24, PossibleNow DEF Fits2
<1>. QED  BY <1>15, <1>22, <1>25 DEF Explaining2

LEMMA SCExplains ==
  ASSUME NEW n \in Nat, NEW o, Queue2(n, o), NEW p, Possible(p), Fits2(p, n, o), NEW t \in Threads,
         LLSC!SC(t)
  PROVE  Explaining2'
<1>1. call[t].op \in {"enq", "deq"}
  <2>1. Call2(t) /\ pc[t] = "SC"
    BY DEF Queue2, Calls2OK, LLSC!SC, LLSC!At
  <2>. QED  BY <2>1 DEF Call2
<1>2. CASE ptr(end(t))[other(my[t].ver)] # heap.node[my[t].node].pred
  BY <1>2, SCFailsQuiet
<1>3. CASE ptr(end(t))[other(my[t].ver)] = heap.node[my[t].node].pred
  BY <1>1, <1>3, EnqSCExplains, DeqSCExplains
<1>. QED  BY <1>2, <1>3

LEMMA LLSCStepExplains ==
  ASSUME NEW n \in Nat, NEW o, Queue2(n, o), NEW p, Possible(p), Fits2(p, n, o), NEW t \in Threads,
         LLSC!Step(t)
  PROVE  Explaining2'
<1>1. CASE LLSC!enq(t)
  <2>1. CASE heap.node[my[t].node].next = Null
    BY <1>1, <2>1, LinkExplains2
  <2>2. CASE heap.node[my[t].node].next # Null
    BY <1>1, <2>2, EnqFailsQuiet
  <2>. QED  BY <2>1, <2>2
<1>2. CASE LLSC!deq(t)
  <2>1. CASE heap.node[my[t].node].next = Null
    BY <1>2, <2>1, EmptyExplains
  <2>2. CASE heap.node[my[t].node].next # Null
    BY <1>2, <2>2, HeadNextQuiet
  <2>. QED  BY <2>1, <2>2
<1>3. CASE LLSC!SwitchEntry(t)
  <2>1. CASE LLSC!loc(t).entry = my[t].e
    BY <1>3, <2>1, SwitchExplains
  <2>2. CASE LLSC!loc(t).entry # my[t].e
    BY <1>3, <2>2, SwitchFailsQuiet
  <2>. QED  BY <2>1, <2>2
<1>4. CASE LLSC!UnlinkCas(t)
  <2>1. CASE LLSC!loc(t).entry = my[t].e
    BY <1>4, <2>1, UnlinkExplains
  <2>2. CASE LLSC!loc(t).entry # my[t].e
    BY <1>4, <2>2, UnlinkFailsQuiet
  <2>. QED  BY <2>1, <2>2
<1>5. CASE LLSC!LoadEntry(t) \/ LLSC!Current(t) \/ LLSC!LL(t)
  BY <1>5, LoadEntryQuiet, CurrentQuiet, LLQuiet
<1>6. CASE LLSC!TailNext(t) \/ LLSC!SC(t) \/ LLSC!EntryAgain(t)
  BY <1>6, TailNextQuiet, SCExplains, EntryAgainQuiet
<1>7. CASE LLSC!transfer(t) \/ LLSC!release(t) \/ LLSC!setNLPred(t)
  BY <1>7, transferQuiet, releaseQuiet, setNLPredQuiet
<1>8. CASE LLSC!Released(t) \/ LLSC!setToBeFreed(t) \/ LLSC!unlink(t)
  BY <1>8, ReleasedExplains, setToBeFreedExplains, unlinkQuiet
<1>. QED  BY <1>1, <1>2, <1>3, <1>4, <1>5, <1>6, <1>7, <1>8 DEF LLSC!Step

LEMMA UnchangedExplains2 == Explaining2 /\ UNCHANGED vars => Explaining2'
<1>1. SUFFICES ASSUME Explaining2, UNCHANGED vars PROVE Explaining2'
  OBVIOUS
<1>2. PICK n \in Nat : \E o : Queue2(n, o) /\ \E p : Possible(p) /\ Fits2(p, n, o)
  BY <1>1 DEF Explaining2
<1>3. PICK o, p : Queue2(n, o) /\ Possible(p) /\ Fits2(p, n, o)
  BY <1>2
<1>4. /\ heap' = heap /\ call' = call /\ made' = made /\ configs' = configs /\ pc' = pc /\ my' = my
  BY <1>1 DEF vars, callVars
<1>5. Possible(p)'
  BY <1>3, <1>4, PossibleStays
<1>6. Settled' = Settled /\ Fresh' = Fresh /\ \A u : Gets(u)' = Gets(u)
  BY <1>4 DEF Settled, Fresh, IsFresh, Gets, Linked2, TookNext, FoundNone, new, key
<1>7. \A e : ver(e)' = ver(e) /\ ptr(e)' = ptr(e)
  BY <1>4 DEF ver, ptr
<1>8. Taken(o)' = Taken(o) /\ Values(n, o, Taken(o))' = Values(n, o, Taken(o))
  <2>1. Taken(o)' = Taken(o)
    BY <1>7 DEF Taken, Half
  <2>. QED  BY <1>4, <2>1 DEF Values
<1>9. Fits2(p, n, o)'
  BY <1>3, <1>6, <1>8 DEF Fits2
<1>10. Calls2OK'
  BY <1>3, <1>4 DEF Queue2, Calls2OK, Call2, OwnNodes, new
<1>11. HeapOK'
  <2>1. Shape'
    BY <1>3, <1>4, <1>7 DEF Queue2, HeapOK, Shape
  <2>. QED  BY <1>3, <1>4, <2>1 DEF Queue2, HeapOK, IsFresh, Linked2, new, key
<1>12. Row2(n, o)'
  BY <1>3, <1>4, <1>6 DEF Queue2, Row2
<1>13. \A e \in Ends : AtNode(e, n, o)'
  BY <1>3, <1>7 DEF Queue2, AtNode
<1>14. \A u \in Threads : Seen2(u, n, o)'
  <2>1. \A u : (end(u)' = end(u)) /\ \A b : Has(u, b)' <=> Has(u, b)
    BY <1>4 DEF end, Has
  <2>2. \A u : Seen2(u, n, o)' <=> Seen2(u, n, o)
    BY <1>4, <1>7, <2>1 DEF Seen2, EntrySeen, NodeSeen, NdSeen, SwitchSeen
  <2>. QED  BY <1>3, <2>2 DEF Queue2
<1>15. Attended(o)'
  BY <1>3, <1>4, <1>7 DEF Queue2, Attended, Attends, Half, TookNext
<1>. QED  BY <1>5, <1>9, <1>10, <1>11, <1>12, <1>13, <1>14, <1>15 DEF Explaining2, Queue2

LEMMA NotCrashed2 ==
  ASSUME NEW n \in Nat, NEW o, Queue2(n, o)
  PROVE  ~Crashed
BY DEF Queue2, Calls2OK, Call2, Crashed, Labels, AfterLL, AfterNd, Switching, Closing

LEMMA StepExplains2 == which = "llsc" /\ Explaining2 /\ [Next]_allVars => Explaining2'
<1>1. SUFFICES ASSUME which = "llsc", Explaining2, Next PROVE Explaining2'
  BY UnchangedExplains2 DEF allVars
<1>2. CASE UNCHANGED vars
  BY <1>1, <1>2, UnchangedExplains2
<1>3. PICK n \in Nat : \E o : Queue2(n, o) /\ \E p : Possible(p) /\ Fits2(p, n, o)
  BY <1>1 DEF Explaining2
<1>4. PICK o, p : Queue2(n, o) /\ Possible(p) /\ Fits2(p, n, o)
  BY <1>3
<1>5. ASSUME NEW t \in Threads, Step(t) PROVE Explaining2'
  <2>1. LLSC!Step(t)
    BY <1>1, <1>5 DEF Step
  <2>. QED  BY <1>4, <2>1, LLSCStepExplains
<1>6. ASSUME NEW t \in Threads, NEW op \in {"enq", "deq"}, Call(t, op) PROVE Explaining2'
  <2>1. LLSC!Call(t, op, made + 1)
    BY <1>1, <1>6 DEF Call
  <2>. QED  BY <1>4, <2>1, CallExplains2
<1>. QED  BY <1>1, <1>2, <1>5, <1>6 DEF Next, Done
-----------------------------------------------------------------------------
(* With no call pending show_queue of LLSCLockFreeQueue.c is the values of   *)
(* the row behind the head.                                                 *)
LEMMA AfterIsRest2 ==
  ASSUME NEW n \in Nat, NEW o, Queue2(n, o), Fresh = {}, NEW h \in 1 .. n
  PROVE  LLSC!After[o[h]] = Rest(n, o, h)
<1> DEFINE D == DOMAIN heap.node \cup {Null}
           Eq(a) == [x \in D |-> IF x = Null THEN <<>> ELSE <<heap.node[x].val>> \o a[heap.node[x].next]]
           A == LLSC!After
<1>1. /\ \A i \in 0 .. n : o[i] \in DOMAIN heap.node /\ o[i] # Null
      /\ heap.node[o[0]].next = Null
      /\ \A i \in 1 .. n : heap.node[o[i]].next = IF i = n THEN Null ELSE o[i + 1]
      /\ \A x \in DOMAIN heap.node : \E i \in 0 .. n : x = o[i]
      /\ \A i, j \in 0 .. n : o[i] = o[j] => i = j
  <2>1. DOMAIN heap.node \subseteq {Dummy, Dummy1} \cup (1 .. made) /\ Row2(n, o) /\ made \in Nat
    BY DEF Queue2, HeapOK, Calls2OK
  <2>2. Null \notin DOMAIN heap.node
    BY <2>1, NodeNamesAssumption, Node1Assumption
  <2>. QED  BY <2>1, <2>2 DEF Row2
<1>2. /\ Rest(n, o, n + 1) = <<>>
      /\ \A j \in 1 .. n : Rest(n, o, j) = <<heap.node[o[j]].val>> \o Rest(n, o, j + 1)
  BY RestLonger
<1>3. \E a : a = Eq(a)
  <2> DEFINE at(x) == CHOOSE j \in 0 .. n : o[j] = x
             sol(i) == IF i = 0 THEN <<heap.node[o[0]].val>> \o <<>> ELSE Rest(n, o, i)
             g == [x \in D |-> IF x = Null THEN <<>> ELSE sol(at(x))]
  <2>1. \A i \in 0 .. n : at(o[i]) = i
    BY <1>1
  <2>2. \A i \in 0 .. n : g[o[i]] = sol(i)
    <3> HIDE DEF at, sol
    <3>. QED  BY <1>1, <2>1
  <2>3. g[Null] = <<>> /\ DOMAIN g = D
    OBVIOUS
  <2>4. g = [x \in D |-> g[x]]
    OBVIOUS
  <2>5. sol(0) = <<heap.node[o[0]].val>> \o <<>> /\ \A i \in 1 .. n : sol(i) = Rest(n, o, i)
    OBVIOUS
  <2> HIDE DEF g, sol
  <2>6. ASSUME NEW x \in D, x # Null PROVE g[x] = <<heap.node[x].val>> \o g[heap.node[x].next]
    <3>1. PICK i \in 0 .. n : x = o[i]
      BY <1>1, <2>6
    <3>2. CASE i = 0
      BY <1>1, <2>2, <2>3, <2>5, <3>1, <3>2
    <3>3. CASE i # 0
      <4>1. i \in 1 .. n
        BY <3>3
      <4>2. g[heap.node[x].next] = Rest(n, o, i + 1)
        <5>1. CASE i = n
          BY <1>1, <1>2, <2>3, <3>1, <4>1, <5>1
        <5>2. CASE i # n
          <6>1. i + 1 \in 0 .. n /\ i + 1 \in 1 .. n
            BY <4>1, <5>2
          <6>. QED  BY <1>1, <2>2, <2>5, <3>1, <4>1, <5>2, <6>1
        <5>. QED  BY <5>1, <5>2
      <4>. QED  BY <1>2, <2>2, <2>5, <3>1, <4>1, <4>2
    <3>. QED  BY <3>2, <3>3
  <2>7. g = Eq(g)
    BY <2>3, <2>4, <2>6
  <2> HIDE DEF Eq
  <2>. QED  BY <2>7
<1>4. A = Eq(A)
  <2>1. A = CHOOSE a : a = Eq(a)
    BY DEF LLSC!After, LLSC!q
  <2> HIDE DEF A, Eq
  <2>. QED  BY <1>3, <2>1
<1> HIDE DEF A
<1>5. A[Null] = <<>> /\ \A i \in 1 .. n : A[o[i]] = <<heap.node[o[i]].val>> \o A[heap.node[o[i]].next]
  <2>1. \A i \in 1 .. n : o[i] \in DOMAIN heap.node /\ o[i] # Null
    BY <1>1
  <2>. QED  BY <1>4, <2>1
<1> DEFINE G == {k \in Nat : k < n => A[o[n - k]] = Rest(n, o, n - k)}
<1>6. 0 \in G
  <2>1. n - 0 = n /\ n \in 1 .. n
    OBVIOUS
  <2>2. A[o[n]] = Rest(n, o, n)
    <3>1. heap.node[o[n]].next = Null
      BY <1>1, <2>1
    <3>2. A[o[n]] = <<heap.node[o[n]].val>> \o <<>>
      BY <1>5, <2>1, <3>1
    <3>. QED  BY <1>2, <2>1, <3>2
  <2>. QED  BY <2>1, <2>2
<1>7. ASSUME NEW k \in 0 .. n - 1, k \in G PROVE k + 1 \in G
  <2>1. SUFFICES ASSUME k + 1 < n PROVE A[o[n - (k + 1)]] = Rest(n, o, n - (k + 1))
    OBVIOUS
  <2>2. PICK j \in 1 .. n : j = n - (k + 1) /\ j + 1 = n - k /\ j # n
    BY <2>1
  <2>3. A[o[j + 1]] = Rest(n, o, j + 1)
    BY <1>7, <2>2
  <2>4. A[o[j]] = <<heap.node[o[j]].val>> \o A[o[j + 1]]
    BY <1>1, <1>5, <2>2
  <2>. QED  BY <1>2, <2>2, <2>3, <2>4
<1> HIDE DEF G
<1>8. \A k \in 0 .. n : k \in G
  BY <1>6, <1>7, UpTo
<1>9. PICK k \in 0 .. n : k = n - h /\ n - k = h /\ k < n
  OBVIOUS
<1>10. A[o[h]] = Rest(n, o, h)
  <2>1. k \in G
    BY <1>8
  <2>. QED  BY <1>9, <2>1 DEF G
<1>. QED  BY <1>10 DEF A

LEMMA QuietShows ==
  ASSUME which = "llsc", Explaining2, Quiet
  PROVE  \E c \in configs : c.state = show_queue
<1>1. PICK n \in Nat : \E o : Queue2(n, o) /\ \E p : Possible(p) /\ Fits2(p, n, o)
  BY DEF Explaining2
<1>2. PICK o, p : Queue2(n, o) /\ Possible(p) /\ Fits2(p, n, o)
  BY <1>1
<1>3. \A t \in Threads : call[t] = Nothing
  BY DEF Quiet, Pending
<1>4. Fresh = {} /\ \A t \in Threads : ~Attends(t)
  BY <1>3 DEF Fresh, IsFresh, Attends, TookNext, Nothing
<1>5. ~Half(o)
  BY <1>2, <1>4 DEF Queue2, Attended
<1>6. AtNode("head", n, o) /\ ver("head") \in Nat
  BY <1>2 DEF Queue2, Ends, HeapOK, Shape
<1>7. PICK h \in 1 .. n : h = ver("head") + 1 /\ ptr("head")[ver("head") % 2] = o[h]
  BY <1>6 DEF AtNode
<1>8. Taken(o) = h
  BY <1>5, <1>7 DEF Taken
<1>9. show_queue = Tail(LLSC!After[o[h]])
  BY <1>7 DEF show_queue, LLSC!show_queue, LLSC!q, ver, ptr
<1>10. show_queue = Values(n, o, h)
  BY <1>2, <1>4, <1>9, AfterIsRest2, TailOfRest
<1>11. p \in configs
  BY <1>2, NobodyInLine DEF Quiet
<1>. QED  BY <1>2, <1>8, <1>10, <1>11 DEF Fits2
-----------------------------------------------------------------------------
LEMMA OneOfTwo == Spec => [](which \in {"cas", "llsc"})
<1>1. Init => which \in {"cas", "llsc"}
  BY DEF Init
<1>2. which \in {"cas", "llsc"} /\ [Next]_allVars => (which \in {"cas", "llsc"})'
  BY DEF Next, allVars
<1>. QED  BY <1>1, <1>2, PTL DEF Spec

(* Some order of the calls of LLSCLockFreeQueue.c explains what has been    *)
(* returned and what is linked behind the head.                             *)
THEOREM LLSCQueueIsExplained == Spec => [](which = "llsc" => Explaining2)
<1>1. Init => (which = "llsc" => Explaining2)
  BY InitExplains2
<1>2. (which = "llsc" => Explaining2) /\ [Next]_allVars => (which = "llsc" => Explaining2)'
  <2>1. SUFFICES ASSUME which = "llsc" => Explaining2, [Next]_allVars, which' = "llsc"
                 PROVE  Explaining2'
    OBVIOUS
  <2>2. which = "llsc"
    BY <2>1 DEF Next, allVars
  <2>. QED  BY <2>1, <2>2, StepExplains2
<1>. QED  BY <1>1, <1>2, PTL DEF Spec

(* What enq and deq of either queue return is what a FIFO queue would       *)
(* return that does each call at one instant between its start and its end, *)
(* and no call follows a pointer that is NULL.  In LLSCLockFreeQueue.c an   *)
(* enq takes effect when its node is linked, a deq when it puts the next    *)
(* node into the head, and one that returns 0 when it loads a NULL          *)
(* successor.                                                               *)
THEOREM QueuesAreLinearizable == Spec => []Linearizable
<1>1. Explaining2 => Linearizable
  <2>1. SUFFICES ASSUME Explaining2 PROVE Linearizable
    OBVIOUS
  <2>2. PICK n \in Nat : \E o : Queue2(n, o) /\ \E p : Possible(p) /\ Fits2(p, n, o)
    BY <2>1 DEF Explaining2
  <2>3. Explainable
    BY <2>2 DEF Possible, Explainable
  <2>4. ~Crashed
    BY <2>2, NotCrashed2
  <2>. QED  BY <2>3, <2>4 DEF Linearizable
<1>2. /\ which = "cas" => Linearizable
      /\ which = "llsc" => Explaining2
      /\ which \in {"cas", "llsc"}
      => Linearizable
  BY <1>1
<1>. QED  BY <1>2, CASQueueIsLinearizable, LLSCQueueIsExplained, OneOfTwo, PTL

(* Between calls show_queue of either queue prints what such a FIFO queue   *)
(* holds, in its order.                                                     *)
THEOREM QueuesHoldTheirElements == Spec => []ContentsExplained
<1>1. /\ which = "cas" => ContentsExplained
      /\ which = "llsc" => Explaining2
      /\ which \in {"cas", "llsc"}
      => ContentsExplained
  BY QuietShows DEF ContentsExplained, Explains
<1>. QED  BY <1>1, CASQueueHoldsItsElements, LLSCQueueIsExplained, OneOfTwo, PTL
=============================================================================
