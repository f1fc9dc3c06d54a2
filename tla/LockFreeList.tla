---------------------------- MODULE LockFreeList ----------------------------
(* list/LockFreeList.c: an ordered list whose nodes are deleted in three    *)
(* compare-and-swaps: flag the predecessor, mark the node, unlink it.  A    *)
(* thread that meets a flag helps.  One step is one access to memory.       *)
(* my[t].frames is the stack of calls of helpFlagged and helpMarked.        *)
EXTENDS ListMemory, TLC

(* A copy of a successor field loads its two words one after the other; the *)
(* compiler chooses the order, the same for all copies.                     *)
CONSTANT PointerFirst

make_ref(n, marked, flagged) == [ptr |-> n, marked |-> marked, flagged |-> flagged]
Plain(n) == make_ref(n, FALSE, FALSE)
Flag(n) == make_ref(n, FALSE, TRUE)
Mark(n) == make_ref(n, TRUE, FALSE)
node_t(k, n) == [key |-> k, succ |-> Plain(n), backlink |-> Null]

Init == \E S \in SUBSET Keys :
  /\ heap = [n \in InitialNodes(S) |-> node_t(KeyOf(n, Lowest, Highest), Successor(S, n))]
  /\ Idle /\ NoCalls({S})

Call(t, op, k) == Enter(t, op, k, "search") /\ UNCHANGED heap

succ(n) == heap[n].succ
Test(t, l, condition, yes, no) ==
  At(t, l) /\ Local(t, IF condition THEN yes ELSE no) /\ UNCHANGED my
FirstWord(n) == IF PointerFirst THEN Plain(succ(n).ptr) ELSE [succ(n) EXCEPT !.ptr = Null]
Copied(t, n) == IF PointerFirst THEN [succ(n) EXCEPT !.ptr = my[t].word.ptr]
                                ELSE [my[t].word EXCEPT !.ptr = succ(n).ptr]
LoadWord(t, l, n, to) == At(t, l) /\ Set(t, [word |-> FirstWord(n)]) /\ Local(t, to)
NeedsHelp(ref) == ref.flagged /\ ~ref.marked
Write(t, n, ref, l) == heap' = [heap EXCEPT ![n].succ = ref] /\ Goto(t, l) /\ Internal

(* searchFrom2: marked nodes are unlinked on the way; at the end curr's key *)
(* is below key and next's is not.                                          *)
Search(t) ==
  /\ At(t, "search")
  /\ Set(t, [curr |-> HeadNode, next |-> succ(HeadNode).ptr, frames |-> <<>>]) /\ Local(t, "compare")
Compare(t) == Test(t, "compare", heap[my[t].next].key < key(t), "next_marked", call[t].op)
NextMarked(t) == Test(t, "next_marked", succ(my[t].next).marked, "curr_marked", "advance")
CurrMarked(t) == Test(t, "curr_marked", succ(my[t].curr).marked, "curr_points", "curr_next")
CurrPoints(t) == Test(t, "curr_points", succ(my[t].curr).ptr = my[t].next, "advance", "curr_next")
CurrNext(t) ==
  /\ At(t, "curr_next")
  /\ IF succ(my[t].curr).ptr = my[t].next
     THEN Set(t, [frames |-> <<<<my[t].curr, my[t].next>>>>, after |-> "reload"]) /\ Local(t, "load_succ")
     ELSE UNCHANGED my /\ Local(t, "reload")
Reload(t) ==
  /\ At(t, "reload") /\ Set(t, [next |-> succ(my[t].curr).ptr]) /\ Local(t, "next_marked")
Advance(t) ==
  /\ At(t, "advance") /\ Local(t, "compare")
  /\ IF heap[my[t].next].key < key(t)
     THEN Set(t, [curr |-> my[t].next, next |-> succ(my[t].next).ptr]) ELSE UNCHANGED my
searchFrom2(t) == \/ Search(t) \/ Compare(t) \/ NextMarked(t) \/ CurrMarked(t)
                  \/ CurrPoints(t) \/ CurrNext(t) \/ Reload(t) \/ Advance(t)

(* The frame on top: prev's pointer to del is flagged, del is to go. *)
prev(t) == Head(my[t].frames)[1]
del(t) == Head(my[t].frames)[2]
HelpFlagged(t, p, d, after) ==
  Set(t, [frames |-> <<<<p, d>>>>, after |-> after]) /\ Local(t, "backlink")

SetBacklink(t) ==
  /\ At(t, "backlink")
  /\ heap' = [heap EXCEPT ![del(t)].backlink = prev(t)]
  /\ Goto(t, "is_marked") /\ UNCHANGED my /\ Internal
IsMarked(t) == Test(t, "is_marked", succ(del(t)).marked, "load_succ", "try_mark")

(* tryMark loads the successor, tries to mark, and helps if del itself is   *)
(* flagged.  The frame it pushes is the recursive call.                     *)
LoadNext(t) ==
  /\ At(t, "try_mark") /\ Set(t, [found |-> succ(del(t)).ptr]) /\ Local(t, "mark")
tryMark(t) ==
  /\ At(t, "mark") /\ UNCHANGED my
  /\ IF succ(del(t)) = Plain(my[t].found) THEN Write(t, del(t), Mark(my[t].found), "result_word")
     ELSE Local(t, "result_word")
ResultWord(t) == LoadWord(t, "result_word", del(t), "result")
Result(t) == LET result == Copied(t, del(t)) IN
  /\ At(t, "result")
  /\ IF NeedsHelp(result)
     THEN Set(t, [frames |-> <<<<del(t), result.ptr>>>> \o my[t].frames]) /\ Local(t, "backlink")
     ELSE Local(t, "still_unmarked") /\ UNCHANGED my
StillUnmarked(t) == Test(t, "still_unmarked", succ(del(t)).marked, "load_succ", "try_mark")

(* helpMarked asserts that del is not the tail and unlinks it; then the     *)
(* frame is popped.                                                         *)
LoadSucc(t) ==
  /\ At(t, "load_succ") /\ Set(t, [found |-> succ(del(t)).ptr])
  /\ Local(t, IF succ(del(t)).ptr = Null THEN "crashed" ELSE "unlink")
helpMarked(t) == LET l == IF Len(my[t].frames) = 1 THEN my[t].after ELSE "still_unmarked" IN
  /\ At(t, "unlink")
  /\ Set(t, [frames |-> Tail(my[t].frames)])
  /\ IF succ(prev(t)) = Flag(del(t)) THEN Write(t, prev(t), Plain(my[t].found), l) ELSE Local(t, l)
helpFlagged(t) == \/ SetBacklink(t) \/ IsMarked(t) \/ LoadNext(t) \/ tryMark(t) \/ ResultWord(t)
                  \/ Result(t) \/ StillUnmarked(t) \/ LoadSucc(t) \/ helpMarked(t)

(* add: a flag on curr is helped first.  The test for the key is of curr,   *)
(* which is below the key.                                                  *)
add(t) ==
  /\ At(t, "add")
  /\ IF heap[my[t].curr].key = key(t) THEN Return(t, 0) /\ UNCHANGED heap
     ELSE Set(t, [word |-> FirstWord(my[t].curr)]) /\ Local(t, "add_prev_succ")
AddPrevSucc(t) == LET prev_succ == Copied(t, my[t].curr) IN
  /\ At(t, "add_prev_succ")
  /\ IF prev_succ.flagged THEN HelpFlagged(t, my[t].curr, prev_succ.ptr, "search")
     ELSE Local(t, "add_cas") /\ UNCHANGED my
AddCas(t) ==
  /\ At(t, "add_cas")
  /\ IF succ(my[t].curr) = Plain(my[t].next)
     THEN /\ heap' = [heap @@ (new(t) :> node_t(key(t), my[t].next)) EXCEPT
                        ![my[t].curr].succ = Plain(new(t))]
          /\ Return(t, key(t))
     ELSE Local(t, "add_word") /\ UNCHANGED my
AddWord(t) == LoadWord(t, "add_word", my[t].curr, "add_result")
(* Before it searches again add walks back along the backlinks, to a node   *)
(* that the search then overwrites.                                         *)
AddResult(t) == LET result == Copied(t, my[t].curr) IN
  /\ At(t, "add_result")
  /\ IF NeedsHelp(result) THEN HelpFlagged(t, my[t].curr, result.ptr, "search")
     ELSE Local(t, "search") /\ UNCHANGED my

(* tryFlag on the pointer from curr to next.  It never searches again, so   *)
(* it does not end when curr no longer points to next and is not marked.    *)
delete(t) ==
  /\ At(t, "delete")
  /\ IF heap[my[t].next].key # key(t) THEN Return(t, 0) /\ UNCHANGED heap
     ELSE Local(t, "flag_ptr") /\ UNCHANGED my
FlagPtr(t) == Test(t, "flag_ptr", succ(my[t].curr).ptr = my[t].next, "flag_mark", "flag")
Flagged(t) ==
  /\ At(t, "flag_mark")
  /\ IF NeedsHelp(succ(my[t].curr)) THEN HelpFlagged(t, my[t].curr, my[t].next, "too_late")
     ELSE Local(t, "flag") /\ UNCHANGED my
tryFlag(t) ==
  /\ At(t, "flag")
  /\ IF succ(my[t].curr) = Plain(my[t].next)
     THEN /\ Write(t, my[t].curr, Flag(my[t].next), "backlink")
          /\ Set(t, [frames |-> <<<<my[t].curr, my[t].next>>>>, after |-> "deleted"])
     ELSE Local(t, "flag_word") /\ UNCHANGED my
FlagWord(t) == LoadWord(t, "flag_word", my[t].curr, "flag_result")
FlagResult(t) == LET result == Copied(t, my[t].curr) IN
  /\ At(t, "flag_result")
  /\ IF result.ptr = my[t].next /\ NeedsHelp(result)
     THEN HelpFlagged(t, my[t].curr, my[t].next, "too_late")
     ELSE Local(t, "flag_back") /\ UNCHANGED my
FlagBack(t) ==
  /\ At(t, "flag_back")
  /\ IF succ(my[t].curr).marked
     THEN Set(t, [curr |-> heap[my[t].curr].backlink]) /\ UNCHANGED <<heap, pc>> /\ Internal
     ELSE Local(t, "flag_ptr") /\ UNCHANGED my
Deleted(t) == At(t, "deleted") /\ Return(t, key(t)) /\ UNCHANGED heap
TooLate(t) == At(t, "too_late") /\ Return(t, 0) /\ UNCHANGED heap

(* find looks at curr, not at next. *)
find(t) ==
  /\ At(t, "find") /\ UNCHANGED heap
  /\ Return(t, IF my[t].curr # TailNode /\ heap[my[t].curr].key = key(t) THEN key(t) ELSE 0)

Step(t) == \/ searchFrom2(t) \/ helpFlagged(t) \/ find(t)
           \/ add(t) \/ AddPrevSucc(t) \/ AddCas(t) \/ AddWord(t) \/ AddResult(t)
           \/ delete(t) \/ FlagPtr(t) \/ Flagged(t) \/ tryFlag(t) \/ FlagWord(t) \/ FlagResult(t) \/ FlagBack(t)
           \/ Deleted(t) \/ TooLate(t)

Succ == [n \in DOMAIN heap |-> heap[n].succ.ptr]
show_list == KeysOf(Reachable(Succ, HeadNode))
=============================================================================
