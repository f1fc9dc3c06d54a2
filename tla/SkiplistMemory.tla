--------------------------- MODULE SkiplistMemory ---------------------------
(* What the models of the three skiplists share: levels, the towers the     *)
(* list starts with, and the part of a search that is the same in all.      *)
EXTENDS ListMemory, SequencesExt

CONSTANTS MaxLevel,   \* sl->maxLevel
          Initial     \* the sets of keys a list may start with
Levels == 0..MaxLevel - 1

(* An initial list of the keys S, where top gives the level of each key. *)
TopOf(n, top) == IF n \in {HeadNode, TailNode} THEN MaxLevel - 1 ELSE top[n - MaxCalls]
Tower(S, top, n) == [l \in 0..TopOf(n, top) |-> Successor({k \in S : top[k] >= l}, n)]
Lists == UNION {[S -> Levels] : S \in Initial}

(* Where a thread is in its search: at level, coming from pred. *)
Search == [level |-> MaxLevel - 1, pred |-> HeadNode, preds |-> <<>>, succs |-> <<>>]

(* The nodes from n on along the pointers succ. *)
RECURSIVE Chain(_, _)
Chain(n, succ) == IF n \in {TailNode, Null} THEN <<>> ELSE <<n>> \o Chain(succ[n], succ)

(* The search leaves pred and curr behind for this level and goes one down. *)
Down(t, curr) == [level |-> my[t].level - 1, pred |-> my[t].pred,
                  preds |-> (my[t].level :> my[t].pred) @@ my[t].preds,
                  succs |-> (my[t].level :> curr) @@ my[t].succs]
=============================================================================
