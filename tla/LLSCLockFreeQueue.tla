------------------------- MODULE LLSCLockFreeQueue -------------------------
(* queue/LLSCLockFreeQueue.c: a linked queue whose ends are changed by      *)
(* load-linked and store-conditional, built from 8-byte compare-and-swaps.  *)
(* Each end has two pointers and an entry that says which one is current.   *)
(* One step is one access to memory.                                        *)
EXTENDS ThreadSteps

CONSTANTS Dummy, Dummy1   \* the nodes of init_queue
q == heap

(* The compare-and-swaps of an ExitTag write its first eight bytes, count   *)
(* and transfersLeft; nlP and toBeFreed only ever change in local copies.   *)
ExitTag(count, transfersLeft) ==
  [count |-> count, transfersLeft |-> transfersLeft, nlP |-> FALSE, toBeFreed |-> FALSE]
CLEAN(exit) == exit.count = 0 /\ exit.transfersLeft = 0
FREEABLE(exit) == CLEAN(exit) /\ exit.nlP /\ exit.toBeFreed
create_node(val, pred, left) == [val |-> val, next |-> Null, pred |-> pred, exit |-> ExitTag(0, left)]

LLSCvar == [ptr |-> [i \in {0, 1} |-> IF i = 0 THEN Dummy ELSE Dummy1], entry |-> [ver |-> 0, count |-> 0]]
init_queue ==
  [head |-> LLSCvar, tail |-> LLSCvar, freed |-> {},
   node |-> [n \in {Dummy, Dummy1} |-> IF n = Dummy THEN create_node(Null, Dummy1, 2)
                                      ELSE create_node(Null, Null, 0)]]
Init == heap = init_queue /\ Idle /\ NoCalls({<<>>})

WithNode(n, node) == [m \in DOMAIN q.node \cup {n} |-> IF m = n THEN node ELSE q.node[m]]
Call(t, op, val) ==
  /\ Enter(t, op, val, "LL")
  /\ heap' = IF op = "enq" THEN [q EXCEPT !.node = WithNode(made + 1, create_node(val, Null, 2))] ELSE q

(* The end that a call works on. *)
end(t) == IF call[t].op = "enq" THEN "tail" ELSE "head"
loc(t) == q[end(t)]
casEntry(t, new_entry) == [q EXCEPT ![end(t)].entry = new_entry]

(* LL counts the thread in; ver and node are the workspace of the thread. *)
LoadEntry(t) == At(t, "LL") /\ Set(t, [e |-> loc(t).entry]) /\ Local(t, "current")
Current(t) ==
  /\ At(t, "current")
  /\ Set(t, [ver |-> my[t].e.ver, node |-> loc(t).ptr[my[t].e.ver % 2]]) /\ Local(t, "LL.cas")
LL(t) ==
  /\ At(t, "LL.cas") /\ UNCHANGED my
  /\ IF loc(t).entry = my[t].e
     THEN heap' = casEntry(t, [my[t].e EXCEPT !.count = @ + 1]) /\ Goto(t, call[t].op) /\ Internal
     ELSE Local(t, "LL")

enq(t) == LET n == my[t].node IN
  /\ At(t, "enq")
  /\ IF q.node[n].next = Null
     THEN /\ heap' = [q EXCEPT !.node[new(t)].pred = n, !.node[n].next = new(t)]
          /\ Set(t, [nd |-> new(t)]) /\ Goto(t, "SC") /\ Internal
     ELSE /\ heap' = [q EXCEPT !.node[new(t)].pred = n]
          /\ UNCHANGED my /\ Goto(t, "next") /\ Internal
TailNext(t) == At(t, "next") /\ Set(t, [nd |-> q.node[my[t].node].next]) /\ Local(t, "SC")

deq(t) ==
  /\ At(t, "deq")
  /\ Set(t, [nd |-> q.node[my[t].node].next])
  /\ Local(t, IF q.node[my[t].node].next = Null THEN "unlink" ELSE "SC")

(* SC puts nd into the pointer that is not current, then makes it current.  *)
SCAnyway(t) ==   \* mutant: a store instead of the compare-and-swap
  /\ At(t, "SC") /\ Set(t, [success |-> TRUE])
  /\ heap' = [q EXCEPT ![end(t)].ptr[(my[t].ver + 1) % 2] = my[t].nd]
  /\ Goto(t, "entry") /\ Internal
SC(t) == LET other == (my[t].ver + 1) % 2  success == loc(t).ptr[other] = q.node[my[t].node].pred IN
  /\ At(t, "SC")
  /\ Set(t, [success |-> success])
  /\ heap' = IF success THEN [q EXCEPT ![end(t)].ptr[other] = my[t].nd] ELSE q
  /\ Goto(t, "entry") /\ Internal
EntryAgain(t) ==
  /\ At(t, "entry") /\ Set(t, [e |-> loc(t).entry])
  /\ Local(t, IF loc(t).entry.ver = my[t].ver THEN "entry.cas" ELSE "release")
SwitchEntry(t) ==
  /\ At(t, "entry.cas") /\ UNCHANGED my
  /\ IF loc(t).entry = my[t].e
     THEN heap' = casEntry(t, [ver |-> my[t].e.ver + 1, count |-> 0]) /\ Goto(t, "transfer") /\ Internal
     ELSE Local(t, "entry")

(* The loops that change an exit tag end with one successful change. *)
transfer(t) ==
  LET n == my[t].node
      post == [q.node[n].exit EXCEPT !.count = @ + my[t].e.count, !.transfersLeft = @ - 1] IN
  /\ At(t, "transfer") /\ UNCHANGED my
  /\ heap' = [q EXCEPT !.node[n].exit = post]
  /\ Goto(t, "entry") /\ Internal
Freed(n, post) == IF FREEABLE(post) THEN {n} ELSE {}
release(t) == LET n == my[t].node  post == [q.node[n].exit EXCEPT !.count = @ - 1] IN
  /\ At(t, "release") /\ UNCHANGED my
  /\ heap' = [q EXCEPT !.node[n].exit = post, !.freed = @ \cup Freed(n, post)]
  /\ Goto(t, IF CLEAN(post) THEN "setNLPred" ELSE "released") /\ Internal
setNLPred(t) == LET n == q.node[my[t].node].pred IN
  /\ At(t, "setNLPred") /\ UNCHANGED my
  /\ heap' = [q EXCEPT !.freed = @ \cup Freed(n, [q.node[n].exit EXCEPT !.nlP = TRUE])]
  /\ Goto(t, "released") /\ Internal
Released(t) ==
  /\ At(t, "released") /\ UNCHANGED heap
  /\ IF my[t].nd = Null THEN Return(t, 0)
     ELSE CASE call[t].op = "enq" /\ my[t].nd = new(t) -> Return(t, key(t))
            [] call[t].op = "deq" /\ my[t].success -> Goto(t, "val") /\ UNCHANGED my /\ Internal
            [] OTHER -> Goto(t, "LL") /\ UNCHANGED my /\ Internal
setToBeFreed(t) == LET n == my[t].nd IN
  /\ At(t, "val")
  /\ heap' = [q EXCEPT !.freed = @ \cup Freed(n, [q.node[n].exit EXCEPT !.toBeFreed = TRUE])]
  /\ Return(t, q.node[n].val)

(* deq of an empty queue waits until the head has changed, and then counts  *)
(* itself out of the new entry instead of the one it was counted into.      *)
unlink(t) ==
  /\ At(t, "unlink") /\ Set(t, [e |-> loc(t).entry])
  /\ Local(t, IF loc(t).entry.ver = my[t].ver THEN "unlink" ELSE "unlink.cas")
UnlinkCas(t) ==
  /\ At(t, "unlink.cas")
  /\ IF loc(t).entry = my[t].e
     THEN heap' = casEntry(t, [my[t].e EXCEPT !.count = @ - 1]) /\ Return(t, 0)
     ELSE Local(t, "release") /\ UNCHANGED my

Step(t) == \/ LoadEntry(t) \/ Current(t) \/ LL(t) \/ enq(t) \/ TailNext(t) \/ deq(t)
           \/ SC(t) \/ EntryAgain(t) \/ SwitchEntry(t) \/ transfer(t) \/ release(t) \/ setNLPred(t)
           \/ Released(t) \/ setToBeFreed(t) \/ unlink(t) \/ UnlinkCas(t)

After[n \in DOMAIN q.node \cup {Null}] ==
  IF n = Null THEN <<>> ELSE <<q.node[n].val>> \o After[q.node[n].next]
show_queue == Tail(After[q.head.ptr[q.head.entry.ver % 2]])
=============================================================================
