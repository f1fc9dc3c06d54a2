----------------------------- MODULE ListMemory -----------------------------
(* What the models of the lists share: the nodes a list starts with, their  *)
(* mutexes, and the nodes that a walk along the list meets.                 *)
(* A node is named by the number of the call that creates it; the nodes the *)
(* list starts with come after those.                                       *)
EXTENDS ThreadSteps

CONSTANTS Keys, HeadNode, TailNode
ASSUME KeysAssumption == /\ Keys \subseteq Nat \ {0}
                         /\ \E low, high \in Keys : \A k \in Keys : low <= k /\ k <= high
ASSUME NamesAssumption == /\ {HeadNode, TailNode, Null} \cap Nat = {}
                          /\ HeadNode # TailNode /\ HeadNode # Null /\ TailNode # Null
                          /\ MaxCalls \in Nat /\ Null \notin Threads /\ IsFiniteSet(Threads)

Old(k) == MaxCalls + k
First(S) == IF S = {} THEN TailNode ELSE Old(Min(S))
Successor(S, n) == CASE n = HeadNode -> First(S)
                     [] n = TailNode -> Null
                     [] OTHER -> First({k \in S : k > n - MaxCalls})
InitialNodes(S) == {HeadNode, TailNode} \cup {Old(k) : k \in S}
KeyOf(n, low, high) == CASE n = HeadNode -> low [] n = TailNode -> high [] OTHER -> n - MaxCalls

(* Keys below and above all others, INT_MIN and INT_MAX in the code. *)
Lowest == Min(Keys) - 1
Highest == Max(Keys) + 1

(* pthread_mutex_lock and _unlock on the mutex of a node; h is the memory   *)
(* with what else the step writes.                                          *)
Lock(t, n) == heap[n].owner = Null /\ heap' = [heap EXCEPT ![n].owner = t]
Unlock(h, S) == heap' = [n \in DOMAIN h |-> IF n \in S THEN [h[n] EXCEPT !.owner = Null] ELSE h[n]]

(* A call of create_node: the memory with one more node. *)
With(n, node) == [m \in DOMAIN heap \cup {n} |-> IF m = n THEN node ELSE heap[m]]

(* What a walk from n along the pointers succ meets, the nodes that are in  *)
(* every set of nodes that has n and is not left by a pointer; their keys.  *)
Closed(succ, S) == \A m \in S : succ[m] = Null \/ succ[m] \in S
Reachable(succ, n) ==
  LET closed == {S \in SUBSET DOMAIN succ : n \in S /\ Closed(succ, S)}
  IN {m \in DOMAIN succ : \A S \in closed : m \in S}
KeysOf(S) == {heap[n].key : n \in S \ {HeadNode, TailNode}}
=============================================================================
