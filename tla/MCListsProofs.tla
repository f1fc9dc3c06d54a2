---------------------------- MODULE MCListsProofs ----------------------------
(* Theorems about the lists, for every number of threads, calls and keys.   *)
EXTENDS MCLists, FiniteSetTheorems, WellFoundedInduction, TLAPS

(* Sorted lists, as functions from nodes to their successors: a rank r goes *)
(* up along the walk from the head, which stays among the nodes.            *)
WalkOf(f) == Reachable(f, HeadNode)
InMemory(f) == /\ Null \notin DOMAIN f /\ {HeadNode, TailNode} \subseteq DOMAIN f
               /\ \A n \in DOMAIN f : f[n] = Null \/ f[n] \in DOMAIN f
Sorted(f, r) ==
  /\ InMemory(f) /\ f[TailNode] = Null
  /\ r \in [DOMAIN f -> 0 .. Highest]
  /\ \A n \in WalkOf(f) \ {TailNode} : f[n] # Null /\ r[n] < r[f[n]]
(* The list in memory.  Nodes that a call has created and not yet linked    *)
(* lead nowhere; a rank gives the two sentinels a place at the ends.        *)
succ == [n \in DOMAIN heap |-> heap[n].next]
rank == [n \in DOMAIN heap |-> IF n = HeadNode THEN 0 ELSE IF n = TailNode THEN Highest ELSE heap[n].key]
Contents == KeysOf(WalkOf(succ))
Fields(node) == {"key", "next", "owner"} \subseteq DOMAIN node
MemoryOK ==
  /\ DOMAIN heap \subseteq {HeadNode, TailNode} \cup (1 .. made) \cup {Old(k) : k \in Keys}
  /\ \A n \in DOMAIN heap : Fields(heap[n])
  /\ \A n \in DOMAIN heap \ {HeadNode, TailNode} : heap[n].key \in Keys
  /\ Sorted(succ, rank)

(* Calls in progress; every add has a node of its own, not linked yet. *)
Idling(t) == call[t] = Nothing /\ pc[t] = "idle"
Busy(t) == /\ call[t].op \in {"add", "delete", "find"} /\ key(t) \in Keys /\ pc[t] \notin {"idle", "crashed"}
           /\ call[t].op = "add" => /\ new(t) \in DOMAIN heap \cap (1 .. made)
                                    /\ succ[new(t)] = Null /\ heap[new(t)].key = key(t)
CallsOK ==
  /\ made \in 0 .. MaxCalls
  /\ call = [t \in Threads |-> call[t]] /\ pc = [t \in Threads |-> pc[t]] /\ my = [t \in Threads |-> my[t]]
  /\ \A t \in Threads : Idling(t) \/ Busy(t)
  /\ \A t, u \in Threads : call[t].op = "add" /\ call[u].op = "add" /\ new(t) = new(u) => t = u

(* Some order of the calls that have returned leaves what is in the list,   *)
(* none of the others having taken effect.                                  *)
Explained1 == \E c \in configs : c.state = Contents /\ DOMAIN c.ret = {}
ListInv == MemoryOK /\ CallsOK /\ Explained1

(* p and its successor are around the place of the key k. *)
Place(p, k) == /\ p \in WalkOf(succ) /\ p # TailNode
               /\ p = HeadNode \/ heap[p].key < k
               /\ succ[p] = TailNode \/ k <= heap[succ[p]].key
At1(p, k) == succ[p] # TailNode /\ heap[succ[p]].key = k
(* A step leaves the nodes and their keys alone, and links them like f. *)
Linked(f) == /\ DOMAIN heap' = DOMAIN heap
             /\ \A n \in DOMAIN heap : Fields(heap'[n]) /\ heap'[n].key = heap[n].key /\ heap'[n].next = f[n]
-----------------------------------------------------------------------------
(* Lemmas about numbers and keys. *)
LEMMA LeastElement ==
  ASSUME NEW T, T \subseteq Nat, T # {}
  PROVE  \E n \in T : \A m \in T : n <= m
<1> DEFINE R == OpToRel(<, Nat)
<1>1. PICK n \in T : \A m \in T : ~(<<m, n>> \in R)
  <2>1. IsWellFoundedOn(R, Nat)
    BY NatLessThanWellFounded
  <2> HIDE DEF R
  <2>. QED  BY <2>1, WFMin
<1>2. \A m \in T : ~(m < n)
  BY <1>1 DEF OpToRel
<1>. QED  BY <1>2

LEMMA GreatestKey == Highest \in Nat /\ \A k \in Keys : k \in 1 .. Highest - 1
<1>1. PICK high \in Keys : \A k \in Keys : k <= high
  BY KeysAssumption
<1>2. \E x \in Keys : \A y \in Keys : x >= y
  BY <1>1, KeysAssumption
<1>3. Max(Keys) \in Keys /\ \A y \in Keys : Max(Keys) >= y
  BY <1>2 DEF Max
<1>4. \A k \in Keys : k \in Nat /\ k >= 1
  BY KeysAssumption
<1>. QED  BY <1>3, <1>4 DEF Highest
-----------------------------------------------------------------------------
(* Lemmas about walks along pointers. *)
LEMMA WalkFacts ==
  ASSUME NEW f, NEW a \in DOMAIN f, \A n \in DOMAIN f : f[n] = Null \/ f[n] \in DOMAIN f
  PROVE  /\ a \in Reachable(f, a) /\ Reachable(f, a) \subseteq DOMAIN f
         /\ Closed(f, Reachable(f, a))
         /\ \A S \in SUBSET DOMAIN f : a \in S /\ Closed(f, S) => Reachable(f, a) \subseteq S
BY DEF Reachable, Closed

(* What is met after the first node is met from the second on. *)
LEMMA OneStep ==
  ASSUME NEW f, NEW a \in DOMAIN f, \A n \in DOMAIN f : f[n] = Null \/ f[n] \in DOMAIN f,
         NEW b \in Reachable(f, a), b # a
  PROVE  f[a] # Null /\ b \in Reachable(f, f[a])
<1>1. f[a] # Null
  <2>1. SUFFICES ASSUME f[a] = Null PROVE FALSE
    OBVIOUS
  <2>2. {a} \in SUBSET DOMAIN f /\ Closed(f, {a})
    BY <2>1 DEF Closed
  <2>. QED  BY <2>2, WalkFacts
<1>2. f[a] \in DOMAIN f
  BY <1>1
<1>3. ASSUME NEW S \in SUBSET DOMAIN f, f[a] \in S, Closed(f, S) PROVE b \in S
  <2>1. S \cup {a} \in SUBSET DOMAIN f /\ Closed(f, S \cup {a})
    BY <1>3 DEF Closed
  <2>. QED  BY <2>1, WalkFacts
<1>4. b \in DOMAIN f
  BY WalkFacts
<1>. QED  BY <1>1, <1>3, <1>4 DEF Reachable

(* A walk along a sorted list gets to the tail. *)
LEMMA TailIsMet ==
  ASSUME NEW f, NEW r, Sorted(f, r), NEW S, S \subseteq WalkOf(f), Closed(f, S), S # {}
  PROVE  TailNode \in S
<1>1. SUFFICES ASSUME TailNode \notin S PROVE FALSE
  OBVIOUS
<1>2. Highest \in Nat /\ S \subseteq DOMAIN f /\ \A n \in S : r[n] \in 0 .. Highest
  BY GreatestKey, WalkFacts DEF Sorted, InMemory, WalkOf
<1> DEFINE T == {Highest - r[n] : n \in S}
<1>3. T \subseteq Nat /\ T # {}
  BY <1>2
<1>4. PICK n \in S : \A m \in S : Highest - r[n] <= Highest - r[m]
  <2>1. PICK x \in T : \A y \in T : x <= y
    BY <1>3, LeastElement
  <2>. QED  BY <2>1
<1>5. f[n] \in S /\ r[n] < r[f[n]]
  BY <1>1 DEF Sorted, Closed
<1>. QED  BY <1>2, <1>4, <1>5

(* Ranks along the walk: the further, the higher. *)
LEMMA RanksGoUp ==
  ASSUME NEW f, NEW r, Sorted(f, r), NEW a \in WalkOf(f), NEW b \in Reachable(f, a)
  PROVE  b \in WalkOf(f) /\ r[a] <= r[b] /\ (b # a => r[a] < r[b])
<1>1. /\ \A n \in DOMAIN f : f[n] = Null \/ f[n] \in DOMAIN f
      /\ WalkOf(f) \subseteq DOMAIN f /\ Closed(f, WalkOf(f))
      /\ \A n \in WalkOf(f) : r[n] \in Int
  BY GreatestKey, WalkFacts DEF Sorted, InMemory, WalkOf
<1>2. ASSUME NEW c \in WalkOf(f) PROVE \A d \in Reachable(f, c) : d \in WalkOf(f) /\ r[c] <= r[d]
  <2> DEFINE S == {n \in WalkOf(f) : r[c] <= r[n]}
  <2>1. ASSUME NEW n \in S, f[n] # Null PROVE f[n] \in S
    <3>1. n # TailNode
      BY <2>1 DEF Sorted
    <3>2. f[n] \in WalkOf(f) /\ r[n] < r[f[n]]
      BY <1>1, <2>1, <3>1 DEF Sorted, Closed
    <3>. QED  BY <1>1, <3>2
  <2>2. Closed(f, S) /\ c \in S /\ S \in SUBSET DOMAIN f /\ c \in DOMAIN f
    BY <1>1, <2>1 DEF Closed
  <2>3. Reachable(f, c) \subseteq S
    BY <1>1, <2>2, WalkFacts
  <2>. QED  BY <2>3
<1>3. ASSUME b # a PROVE r[a] < r[b]
  <2>1. f[a] # Null /\ b \in Reachable(f, f[a])
    BY <1>1, <1>3, OneStep
  <2>2. f[a] \in WalkOf(f) /\ r[a] < r[f[a]]
    BY <1>1, <2>1 DEF Closed, Sorted
  <2>3. b \in WalkOf(f) /\ r[f[a]] <= r[b]
    BY <1>2, <2>1, <2>2
  <2>. QED  BY <1>1, <2>2, <2>3
<1>. QED  BY <1>2, <1>3

(* Every node of a sorted list is before p, p itself, or after p. *)
LEMMA Around ==
  ASSUME NEW f, NEW r, Sorted(f, r), NEW p \in WalkOf(f), NEW n \in WalkOf(f)
  PROVE  n = p \/ r[n] < r[p] \/ (p # TailNode /\ r[f[p]] <= r[n])
<1>1. /\ \A m \in DOMAIN f : f[m] = Null \/ f[m] \in DOMAIN f
      /\ WalkOf(f) \subseteq DOMAIN f /\ Closed(f, WalkOf(f)) /\ HeadNode \in WalkOf(f)
  BY WalkFacts DEF Sorted, InMemory, WalkOf
<1> DEFINE S == {m \in WalkOf(f) : p \in Reachable(f, m)} \cup Reachable(f, p)
<1>2. p \in Reachable(f, p) /\ Closed(f, Reachable(f, p)) /\ Reachable(f, p) \subseteq WalkOf(f)
  BY <1>1, WalkFacts, RanksGoUp
<1>3. ASSUME NEW m \in S, f[m] # Null PROVE f[m] \in S
  <2>1. CASE m \in Reachable(f, p)
    BY <1>2, <1>3, <2>1 DEF Closed
  <2>2. CASE m \notin Reachable(f, p)
    <3>1. m \in WalkOf(f) /\ p \in Reachable(f, m) /\ p # m
      BY <1>2, <2>2
    <3>2. p \in Reachable(f, f[m])
      BY <1>1, <3>1, OneStep
    <3>3. f[m] \in WalkOf(f)
      BY <1>1, <1>3, <3>1 DEF Closed
    <3>. QED  BY <3>2, <3>3
  <2>. QED  BY <2>1, <2>2
<1>4. Closed(f, S) /\ HeadNode \in S /\ S \in SUBSET DOMAIN f
  BY <1>1, <1>2, <1>3 DEF Closed, WalkOf
<1>5. n \in S
  BY <1>1, <1>4, WalkFacts DEF WalkOf
<1>6. CASE n \in Reachable(f, p)
  <2>1. SUFFICES ASSUME n # p PROVE p # TailNode /\ r[f[p]] <= r[n]
    OBVIOUS
  <2>2. f[p] # Null /\ n \in Reachable(f, f[p])
    BY <1>1, <1>6, <2>1, OneStep
  <2>3. p # TailNode /\ f[p] \in WalkOf(f)
    BY <1>1, <2>2 DEF Sorted, Closed
  <2>. QED  BY <2>2, <2>3, RanksGoUp
<1>7. CASE p \in Reachable(f, n)
  BY <1>7, RanksGoUp
<1>. QED  BY <1>5, <1>6, <1>7

LEMMA SameRank ==
  ASSUME NEW f, NEW r, Sorted(f, r), NEW p \in WalkOf(f), NEW n \in WalkOf(f), r[n] = r[p]
  PROVE  n = p
<1>1. WalkOf(f) \subseteq DOMAIN f
  BY WalkFacts DEF Sorted, InMemory, WalkOf
<1>2. r[p] \in Int
  BY <1>1, GreatestKey DEF Sorted
<1>3. p # TailNode => f[p] \in DOMAIN f /\ r[p] < r[f[p]]
  BY <1>1 DEF Sorted, InMemory
<1>4. p # TailNode => r[f[p]] \in Int
  BY <1>3, GreatestKey DEF Sorted
<1>. QED  BY <1>2, <1>3, <1>4, Around
-----------------------------------------------------------------------------
(* Lemmas about changes of a sorted list.  A node is created. *)
LEMMA NodeCreated ==
  ASSUME NEW f, NEW r, Sorted(f, r), NEW m, m \notin DOMAIN f, m # Null,
         NEW g, g = [n \in DOMAIN f \cup {m} |-> IF n = m THEN Null ELSE f[n]],
         NEW q \in [DOMAIN g -> 0 .. Highest], \A n \in DOMAIN f : q[n] = r[n]
  PROVE  Sorted(g, q) /\ WalkOf(g) = WalkOf(f)
<1>1. InMemory(f) /\ InMemory(g) /\ DOMAIN f \subseteq DOMAIN g /\ \A n \in DOMAIN f : g[n] = f[n]
  BY DEF Sorted, InMemory
<1>2. HeadNode \in DOMAIN f /\ HeadNode \in DOMAIN g
  BY <1>1 DEF InMemory
<1>3. WalkOf(f) \subseteq WalkOf(g)
  <2> DEFINE S == WalkOf(g) \cap DOMAIN f
  <2>1. HeadNode \in S /\ Closed(f, S) /\ S \in SUBSET DOMAIN f
    <3>1. HeadNode \in WalkOf(g) /\ Closed(g, WalkOf(g))
      BY <1>1, <1>2, WalkFacts DEF InMemory, WalkOf
    <3>. QED  BY <1>1, <1>2, <3>1 DEF Closed, InMemory
  <2>2. WalkOf(f) \subseteq S
    <3> HIDE DEF S
    <3>. QED  BY <1>1, <1>2, <2>1, WalkFacts DEF InMemory, WalkOf
  <2>. QED  BY <2>2
<1>4. WalkOf(g) \subseteq WalkOf(f)
  <2>1. WalkOf(f) \subseteq DOMAIN f /\ HeadNode \in WalkOf(f) /\ Closed(f, WalkOf(f))
    BY <1>1, <1>2, WalkFacts DEF InMemory, WalkOf
  <2>2. WalkOf(f) \in SUBSET DOMAIN g /\ Closed(g, WalkOf(f))
    BY <1>1, <2>1 DEF Closed
  <2>. QED  BY <1>1, <1>2, <2>1, <2>2, WalkFacts DEF InMemory, WalkOf
<1>5. ASSUME NEW n \in WalkOf(g) \ {TailNode} PROVE g[n] # Null /\ q[n] < q[g[n]]
  <2>1. n \in WalkOf(f) /\ n \in DOMAIN f /\ f[n] # Null /\ r[n] < r[f[n]]
    BY <1>1, <1>2, <1>4, WalkFacts DEF InMemory, WalkOf, Sorted
  <2>. QED  BY <1>1, <2>1 DEF InMemory
<1>6. g[TailNode] = Null
  BY <1>1 DEF Sorted, InMemory
<1>. QED  BY <1>1, <1>3, <1>4, <1>5, <1>6 DEF Sorted

(* A node m is put between p and its successor. *)
LEMMA NodeInserted ==
  ASSUME NEW f, NEW r, Sorted(f, r), NEW p \in WalkOf(f), p # TailNode,
         NEW m \in DOMAIN f, m \notin WalkOf(f), r[p] < r[m], r[m] < r[f[p]],
         NEW g, g = [n \in DOMAIN f |-> IF n = p THEN m ELSE IF n = m THEN f[p] ELSE f[n]]
  PROVE  Sorted(g, r) /\ WalkOf(g) = WalkOf(f) \cup {m}
<1>1. /\ InMemory(f) /\ HeadNode \in WalkOf(f) /\ WalkOf(f) \subseteq DOMAIN f
      /\ Closed(f, WalkOf(f)) /\ TailNode \in WalkOf(f)
  <2>1. /\ InMemory(f) /\ HeadNode \in WalkOf(f) /\ WalkOf(f) \subseteq DOMAIN f
        /\ Closed(f, WalkOf(f))
    BY WalkFacts DEF Sorted, InMemory, WalkOf
  <2>. QED  BY <2>1, TailIsMet
<1>2. f[p] \in WalkOf(f) /\ p # m /\ m # TailNode
  BY <1>1 DEF Closed, Sorted
<1>3. InMemory(g) /\ DOMAIN g = DOMAIN f
  BY <1>1, <1>2 DEF InMemory
<1>4. WalkOf(g) \subseteq WalkOf(f) \cup {m}
  <2>1. Closed(g, WalkOf(f) \cup {m}) /\ WalkOf(f) \cup {m} \in SUBSET DOMAIN g
    BY <1>1, <1>2, <1>3 DEF Closed
  <2>. QED  BY <1>1, <1>3, <2>1, WalkFacts DEF InMemory, WalkOf
<1>5. WalkOf(f) \cup {m} \subseteq WalkOf(g)
  <2>1. /\ HeadNode \in WalkOf(g) /\ Closed(g, WalkOf(g)) /\ WalkOf(g) \subseteq DOMAIN g
    BY <1>3, WalkFacts DEF InMemory, WalkOf
  <2> DEFINE S == WalkOf(g) \cap WalkOf(f)
  <2>2. ASSUME NEW n \in S, f[n] # Null PROVE f[n] \in S
    <3>1. f[n] \in WalkOf(f) /\ n # m /\ n \in DOMAIN f
      BY <1>1, <2>2 DEF Closed
    <3>2. CASE n # p
      BY <2>1, <2>2, <3>1, <3>2 DEF Closed
    <3>3. CASE n = p
      <4>1. m \in WalkOf(g)
        <5>1. g[p] = m /\ p \in WalkOf(g) /\ m # Null
          BY <1>1, <2>2, <3>1, <3>3 DEF InMemory
        <5>. QED  BY <2>1, <5>1 DEF Closed
      <4>2. g[m] = f[p]
        BY <1>2
      <4>. QED  BY <2>1, <2>2, <3>1, <3>3, <4>1, <4>2 DEF Closed
    <3>. QED  BY <3>2, <3>3
  <2>3. HeadNode \in S /\ Closed(f, S) /\ S \in SUBSET DOMAIN f
    BY <1>1, <2>1, <2>2 DEF Closed
  <2>4. WalkOf(f) \subseteq S
    BY <1>1, <2>3, WalkFacts DEF InMemory, WalkOf
  <2>5. g[p] = m /\ p \in WalkOf(g) /\ m # Null
    BY <1>1, <2>4 DEF InMemory
  <2>6. m \in WalkOf(g)
    BY <2>1, <2>5 DEF Closed
  <2>. QED  BY <2>4, <2>6
<1>6. ASSUME NEW n \in WalkOf(g) \ {TailNode} PROVE g[n] # Null /\ r[n] < r[g[n]]
  <2>1. n \in WalkOf(f) \cup {m} /\ n \in DOMAIN f /\ m # Null /\ f[p] # Null
    BY <1>1, <1>4 DEF InMemory, Sorted
  <2>2. CASE n = p
    BY <2>1, <2>2
  <2>3. CASE n = m
    BY <1>2, <2>1, <2>3
  <2>4. CASE n # p /\ n # m
    BY <2>1, <2>4 DEF Sorted
  <2>. QED  BY <2>2, <2>3, <2>4
<1>7. g[TailNode] = Null
  BY <1>1, <1>2 DEF Sorted
<1>. QED  BY <1>3, <1>4, <1>5, <1>6, <1>7 DEF Sorted

(* The successor of p is taken out. *)
LEMMA NodeRemoved ==
  ASSUME NEW f, NEW r, Sorted(f, r), NEW p \in WalkOf(f), p # TailNode, f[p] # TailNode,
         NEW g, g = [n \in DOMAIN f |-> IF n = p THEN f[f[p]] ELSE f[n]]
  PROVE  Sorted(g, r) /\ WalkOf(g) = WalkOf(f) \ {f[p]}
<1> DEFINE c == f[p]
<1>1. /\ InMemory(f) /\ HeadNode \in WalkOf(f) /\ WalkOf(f) \subseteq DOMAIN f
      /\ Closed(f, WalkOf(f)) /\ TailNode \in WalkOf(f)
  <2>1. /\ InMemory(f) /\ HeadNode \in WalkOf(f) /\ WalkOf(f) \subseteq DOMAIN f
        /\ Closed(f, WalkOf(f))
    BY WalkFacts DEF Sorted, InMemory, WalkOf
  <2>. QED  BY <2>1, TailIsMet
<1>2. /\ c # Null /\ c \in WalkOf(f) /\ c # TailNode /\ r[p] < r[c]
      /\ f[c] # Null /\ f[c] \in WalkOf(f) /\ r[c] < r[f[c]]
  BY <1>1 DEF Closed, Sorted
<1>3. \A n \in WalkOf(f) : r[n] \in Int
  BY <1>1, GreatestKey DEF Sorted
<1>4. InMemory(g) /\ DOMAIN g = DOMAIN f
  BY <1>1, <1>2 DEF InMemory
<1>5. c # HeadNode
  <2>1. SUFFICES ASSUME c = HeadNode PROVE FALSE
    OBVIOUS
  <2>2. p \in Reachable(f, c)
    BY <2>1 DEF WalkOf
  <2>. QED  BY <1>2, <1>3, <2>2, RanksGoUp
<1>6. ASSUME NEW n \in WalkOf(f), n # p PROVE f[n] # c
  <2>1. SUFFICES ASSUME f[n] = c PROVE FALSE
    OBVIOUS
  <2>2. n # TailNode /\ r[n] < r[c]
    BY <1>2, <2>1 DEF Sorted
  <2>3. r[n] < r[p]
    BY <1>2, <1>3, <1>6, <2>2, Around
  <2>4. r[p] < r[n]
    BY <1>2, <1>3, <1>6, <2>1, Around
  <2>. QED  BY <1>3, <2>3, <2>4
<1>7. WalkOf(g) \subseteq WalkOf(f) \ {c}
  <2>1. Closed(g, WalkOf(f) \ {c})
    <3>1. ASSUME NEW n \in WalkOf(f) \ {c}, g[n] # Null PROVE g[n] \in WalkOf(f) \ {c}
      <4>1. CASE n = p
        <5>1. g[n] = f[c] /\ f[c] # c
          BY <1>1, <1>2, <1>3, <4>1
        <5>. QED  BY <1>2, <5>1
      <4>2. CASE n # p
        <5>1. g[n] = f[n]
          BY <1>1, <4>2
        <5>. QED  BY <1>1, <1>6, <3>1, <4>2, <5>1 DEF Closed
      <4>. QED  BY <4>1, <4>2
    <3>. QED  BY <3>1 DEF Closed
  <2>2. HeadNode \in WalkOf(f) \ {c} /\ WalkOf(f) \ {c} \in SUBSET DOMAIN g
    BY <1>1, <1>4, <1>5
  <2> HIDE DEF c
  <2>. QED  BY <1>4, <2>1, <2>2, WalkFacts DEF InMemory, WalkOf
<1>8. WalkOf(f) \ {c} \subseteq WalkOf(g)
  <2>1. /\ HeadNode \in WalkOf(g) /\ Closed(g, WalkOf(g)) /\ WalkOf(g) \subseteq DOMAIN g
    BY <1>4, WalkFacts DEF InMemory, WalkOf
  <2> DEFINE S == (WalkOf(g) \cup {n \in {c} : p \in WalkOf(g)}) \cap WalkOf(f)
  <2>2. ASSUME NEW n \in S, f[n] # Null PROVE f[n] \in S
    <3>1. f[n] \in WalkOf(f) /\ n \in DOMAIN f
      BY <1>1, <2>2 DEF Closed
    <3>2. CASE n = p
      <4>1. p # c
        BY <1>2, <1>3
      <4>. QED  BY <1>2, <2>2, <3>2, <4>1
    <3>3. CASE n # p /\ n \in WalkOf(g)
      <4>1. g[n] = f[n]
        BY <3>1, <3>3
      <4>. QED  BY <2>1, <2>2, <3>1, <3>3, <4>1 DEF Closed
    <3>4. CASE n = c /\ p \in WalkOf(g)
      <4>1. g[p] = f[c] /\ f[c] # Null
        BY <1>1, <1>2
      <4>2. f[c] \in WalkOf(g)
        BY <2>1, <3>4, <4>1 DEF Closed
      <4>. QED  BY <3>1, <3>4, <4>2
    <3>. QED  BY <2>2, <3>2, <3>3, <3>4
  <2>3. HeadNode \in S /\ Closed(f, S) /\ S \in SUBSET DOMAIN f
    BY <1>1, <2>1, <2>2 DEF Closed
  <2>4. WalkOf(f) \subseteq S
    <3> HIDE DEF S
    <3>. QED  BY <1>1, <2>3, WalkFacts DEF InMemory, WalkOf
  <2>. QED  BY <2>4
<1>9. ASSUME NEW n \in WalkOf(g) \ {TailNode} PROVE g[n] # Null /\ r[n] < r[g[n]]
  <2>1. n \in WalkOf(f) /\ n \in DOMAIN f
    BY <1>1, <1>7
  <2>2. CASE n = p
    BY <1>2, <1>3, <2>1, <2>2
  <2>3. CASE n # p
    BY <2>1, <2>3 DEF Sorted
  <2>. QED  BY <2>2, <2>3
<1>10. g[TailNode] = Null
  BY <1>1 DEF Sorted
<1>. QED  BY <1>4, <1>7, <1>8, <1>9, <1>10 DEF Sorted
-----------------------------------------------------------------------------
(* Lemmas about the list in memory. *)
LEMMA SuccAndRank ==
  ASSUME MemoryOK
  PROVE  /\ DOMAIN succ = DOMAIN heap /\ \A n \in DOMAIN heap : succ[n] = heap[n].next
         /\ rank[HeadNode] = 0 /\ rank[TailNode] = Highest
         /\ \A n \in DOMAIN heap \ {HeadNode, TailNode} :
              rank[n] = heap[n].key /\ rank[n] \in 1 .. Highest - 1
         /\ {HeadNode, TailNode} \subseteq WalkOf(succ) /\ WalkOf(succ) \subseteq DOMAIN heap
         /\ \A n \in WalkOf(succ) \ {TailNode} : succ[n] \in WalkOf(succ) /\ succ[n] # Null
<1>1. DOMAIN succ = DOMAIN heap /\ \A n \in DOMAIN heap : succ[n] = heap[n].next
  BY DEF succ
<1>2. /\ InMemory(succ) /\ HeadNode \in WalkOf(succ) /\ WalkOf(succ) \subseteq DOMAIN succ
      /\ Closed(succ, WalkOf(succ))
  BY WalkFacts DEF MemoryOK, Sorted, InMemory, WalkOf
<1>3. TailNode \in WalkOf(succ)
  BY <1>2, TailIsMet DEF MemoryOK
<1>4. \A n \in WalkOf(succ) \ {TailNode} : succ[n] \in WalkOf(succ) /\ succ[n] # Null
  BY <1>2 DEF MemoryOK, Sorted, Closed
<1>5. rank[HeadNode] = 0 /\ rank[TailNode] = Highest
  BY <1>1, <1>2, NamesAssumption DEF rank, InMemory
<1>6. \A n \in DOMAIN heap \ {HeadNode, TailNode} :
              rank[n] = heap[n].key /\ rank[n] \in 1 .. Highest - 1
  BY GreatestKey DEF rank, MemoryOK
<1>. QED  BY <1>1, <1>2, <1>3, <1>4, <1>5, <1>6

(* The place of a key shows whether the list has it. *)
LEMMA PlaceShows ==
  ASSUME MemoryOK, NEW p, NEW k \in Keys, Place(p, k)
  PROVE  At1(p, k) <=> k \in Contents
<1>1. p \in DOMAIN heap /\ succ[p] \in WalkOf(succ) /\ succ[p] \in DOMAIN heap
  BY SuccAndRank DEF Place
<1>2. k \in 1 .. Highest - 1 /\ Highest \in Nat
  BY GreatestKey
<1>3. rank[p] < k /\ rank[p] \in Int /\ k <= rank[succ[p]] /\ rank[succ[p]] \in Int
  <2>1. p = HeadNode => rank[p] = 0
    BY SuccAndRank
  <2>2. p # HeadNode => rank[p] = heap[p].key /\ rank[p] \in Int
    BY <1>1, SuccAndRank, GreatestKey DEF Place
  <2>3. succ[p] = TailNode => rank[succ[p]] = Highest
    BY SuccAndRank
  <2>4. succ[p] # TailNode => succ[p] # HeadNode
    <3>1. rank[p] < rank[succ[p]]
      BY DEF MemoryOK, Sorted, Place
    <3>2. rank[p] \in Nat
      BY <1>1, GreatestKey, SuccAndRank DEF MemoryOK, Sorted
    <3>. QED  BY <3>1, <3>2, SuccAndRank
  <2>5. succ[p] # TailNode => rank[succ[p]] = heap[succ[p]].key /\ rank[succ[p]] \in Int
    BY <1>1, <2>4, SuccAndRank, GreatestKey
  <2>. QED  BY <1>2, <2>1, <2>2, <2>3, <2>5 DEF Place
<1>4. ASSUME At1(p, k) PROVE k \in Contents
  <2>1. succ[p] # HeadNode
    BY <1>2, <1>3, <1>4, SuccAndRank
  <2>. QED  BY <1>1, <1>4, <2>1 DEF At1, Contents, KeysOf
<1>5. ASSUME k \in Contents PROVE At1(p, k)
  <2>1. PICK n \in WalkOf(succ) \ {HeadNode, TailNode} : heap[n].key = k
    BY <1>5 DEF Contents, KeysOf
  <2>2. rank[n] = k /\ n \in DOMAIN heap
    BY <2>1, SuccAndRank
  <2>3. rank[succ[p]] <= rank[n]
    BY <1>2, <1>3, <2>1, <2>2, Around DEF MemoryOK, Place
  <2>4. rank[succ[p]] = rank[n]
    BY <1>2, <1>3, <2>2, <2>3
  <2>5. succ[p] = n
    BY <1>1, <2>1, <2>4, SameRank DEF MemoryOK
  <2>. QED  BY <2>1, <2>5 DEF At1
<1>. QED  BY <1>4, <1>5

LEMMA EmptyList ==
  ASSUME MemoryOK, succ[HeadNode] = TailNode
  PROVE  Contents = {}
<1>1. ASSUME NEW n \in WalkOf(succ) PROVE n \in {HeadNode, TailNode}
  <2>1. HeadNode \in WalkOf(succ) /\ n \in DOMAIN heap
    BY SuccAndRank
  <2>2. n = HeadNode \/ rank[n] < rank[HeadNode] \/ rank[TailNode] <= rank[n]
    BY <2>1, Around DEF MemoryOK
  <2>3. n \notin {HeadNode, TailNode} => rank[n] \in 1 .. Highest - 1
    BY <2>1, SuccAndRank
  <2>. QED  BY <2>2, <2>3, SuccAndRank, GreatestKey
<1>. QED  BY <1>1 DEF Contents, KeysOf

LEMMA StaysSorted ==
  ASSUME MemoryOK, made' = made, NEW f, f = [n \in DOMAIN heap |-> f[n]], Linked(f)
  PROVE  succ' = f /\ rank' = rank /\ (Sorted(f, rank) => MemoryOK')
<1>1. succ' = f
  BY DEF Linked, succ
<1>2. rank' = rank
  BY DEF Linked, rank
<1>. QED  BY <1>1, <1>2 DEF Linked, MemoryOK

LEMMA OnlyLocks ==
  ASSUME MemoryOK, made' = made, Linked(succ)
  PROVE  MemoryOK' /\ succ' = succ /\ Contents' = Contents
<1>1. succ' = succ /\ MemoryOK'
  BY StaysSorted DEF succ, MemoryOK
<1>2. WalkOf(succ') = WalkOf(succ) /\ WalkOf(succ) \subseteq DOMAIN heap
  BY <1>1, SuccAndRank
<1>. QED  BY <1>1, <1>2 DEF Linked, Contents, KeysOf

LEMMA Creation ==
  ASSUME MemoryOK, made \in 0 .. MaxCalls - 1, made' = made + 1, NEW k \in Keys, NEW node,
         Fields(node), node.key = k, node.next = Null, heap' = With(made + 1, node)
  PROVE  /\ MemoryOK' /\ Contents' = Contents /\ WalkOf(succ') = WalkOf(succ)
         /\ made + 1 \notin DOMAIN heap /\ made + 1 \in DOMAIN heap' /\ DOMAIN heap \subseteq DOMAIN heap'
         /\ \A n \in DOMAIN heap : heap'[n] = heap[n]
         /\ heap'[made + 1] = node
<1> DEFINE m == made + 1
<1>1. m \notin DOMAIN heap /\ m # Null /\ m \notin {HeadNode, TailNode} /\ m \in Nat
  <2>1. m \in Nat /\ MaxCalls \in Nat /\ m \notin 1 .. made /\ m <= MaxCalls
    BY NamesAssumption
  <2>2. \A j \in Keys : Old(j) # m
    BY <2>1, KeysAssumption DEF Old
  <2>3. m \notin {HeadNode, TailNode, Null}
    BY <2>1, NamesAssumption
  <2>. QED  BY <2>1, <2>2, <2>3 DEF MemoryOK
<1>2. /\ DOMAIN heap' = DOMAIN heap \cup {m} /\ \A n \in DOMAIN heap : heap'[n] = heap[n]
      /\ heap'[m] = node
  BY <1>1 DEF With
<1>3. succ' = [n \in DOMAIN succ \cup {m} |-> IF n = m THEN Null ELSE succ[n]]
  BY <1>1, <1>2 DEF succ
<1>4. rank' \in [DOMAIN succ' -> 0 .. Highest] /\ \A n \in DOMAIN succ : rank'[n] = rank[n]
  <2>1. \A n \in DOMAIN heap : rank'[n] = rank[n]
    BY <1>1, <1>2 DEF rank
  <2>2. rank'[m] = k
    BY <1>1, <1>2 DEF rank
  <2>3. \A n \in DOMAIN heap : rank[n] \in 0 .. Highest
    BY SuccAndRank DEF MemoryOK, Sorted
  <2>4. \A n \in DOMAIN heap' : rank'[n] \in 0 .. Highest
    BY <1>2, <2>1, <2>2, <2>3, GreatestKey
  <2>5. rank' = [n \in DOMAIN heap' |-> rank'[n]] /\ DOMAIN succ' = DOMAIN heap' /\ DOMAIN succ = DOMAIN heap
    BY DEF rank, succ
  <2>. QED  BY <2>1, <2>4, <2>5
<1>5. Sorted(succ', rank') /\ WalkOf(succ') = WalkOf(succ)
  <2>1. m \notin DOMAIN succ
    BY <1>1 DEF succ
  <2> HIDE DEF m
  <2>. QED  BY <1>1, <1>3, <1>4, <2>1, NodeCreated DEF MemoryOK
<1>6. MemoryOK'
  <2>1. DOMAIN heap' \subseteq {HeadNode, TailNode} \cup (1 .. made') \cup {Old(j) : j \in Keys}
    BY <1>2 DEF MemoryOK
  <2>. QED  BY <1>2, <1>5, <2>1 DEF MemoryOK
<1>7. Contents' = Contents
  BY <1>2, <1>5, SuccAndRank DEF Contents, KeysOf
<1>. QED  BY <1>1, <1>2, <1>5, <1>6, <1>7

LEMMA Insertion ==
  ASSUME MemoryOK, made' = made, NEW k \in Keys, NEW p, Place(p, k), ~At1(p, k),
         NEW m \in DOMAIN heap, m \in 1 .. made, heap[m].key = k, succ[m] = Null,
         Linked([n \in DOMAIN heap |-> IF n = p THEN m ELSE IF n = m THEN succ[p] ELSE succ[n]])
  PROVE  /\ MemoryOK' /\ Contents' = Contents \cup {k} /\ WalkOf(succ') = WalkOf(succ) \cup {m}
         /\ succ' = [n \in DOMAIN heap |-> IF n = p THEN m ELSE IF n = m THEN succ[p] ELSE succ[n]]
<1> DEFINE f == [n \in DOMAIN heap |-> IF n = p THEN m ELSE IF n = m THEN succ[p] ELSE succ[n]]
<1>1. succ' = f /\ rank' = rank /\ (Sorted(f, rank) => MemoryOK')
  BY StaysSorted
<1>2. m \notin {HeadNode, TailNode} /\ m \notin WalkOf(succ)
  <2>1. m \notin {HeadNode, TailNode}
    <3>1. m \in Nat
      BY DEF CallsOK
    <3>. QED  BY <3>1, NamesAssumption
  <2>. QED  BY <2>1, SuccAndRank
<1>3. p \in WalkOf(succ) /\ p # TailNode /\ p \in DOMAIN heap /\ succ[p] \in WalkOf(succ) /\ succ[p] \in DOMAIN heap
  BY SuccAndRank DEF Place
<1>4. rank[p] < rank[m] /\ rank[m] < rank[succ[p]]
  <2>1. rank[m] = k /\ k \in 1 .. Highest - 1 /\ Highest \in Nat
    BY <1>2, SuccAndRank, GreatestKey
  <2>2. rank[p] < k
    <3>1. p = HeadNode => rank[p] = 0
      BY SuccAndRank
    <3>2. p # HeadNode => rank[p] = heap[p].key
      BY <1>3, SuccAndRank
    <3>. QED  BY <2>1, <3>1, <3>2 DEF Place
  <2>3. k < rank[succ[p]]
    <3>1. succ[p] = TailNode => rank[succ[p]] = Highest
      BY SuccAndRank
    <3>2. succ[p] # HeadNode
      <4>1. rank[p] < rank[succ[p]] /\ rank[p] \in 0 .. Highest
        BY <1>3, SuccAndRank DEF MemoryOK, Sorted
      <4>. QED  BY <2>1, <4>1, SuccAndRank
    <3>3. succ[p] # TailNode => rank[succ[p]] = heap[succ[p]].key /\ rank[succ[p]] \in Int
      BY <1>3, <2>1, <3>2, SuccAndRank
    <3>. QED  BY <2>1, <3>1, <3>3 DEF Place, At1
  <2>. QED  BY <2>1, <2>2, <2>3
<1>5. Sorted(f, rank) /\ WalkOf(f) = WalkOf(succ) \cup {m}
  <2>1. f = [n \in DOMAIN succ |-> IF n = p THEN m ELSE IF n = m THEN succ[p] ELSE succ[n]] /\ m \in DOMAIN succ
    BY SuccAndRank
  <2> HIDE DEF f
  <2>. QED  BY <1>2, <1>3, <1>4, <2>1, NodeInserted DEF MemoryOK
<1>6. Contents' = Contents \cup {k}
  <2>1. \A n \in WalkOf(succ) \cup {m} : heap'[n].key = heap[n].key
    BY SuccAndRank DEF Linked
  <2>2. Contents' = {heap'[n].key : n \in (WalkOf(succ) \cup {m}) \ {HeadNode, TailNode}}
    BY <1>1, <1>5 DEF Contents, KeysOf
  <2>. QED  BY <1>2, <2>1, <2>2 DEF Contents, KeysOf
<1>. QED  BY <1>1, <1>5, <1>6

LEMMA Removal ==
  ASSUME MemoryOK, made' = made, NEW k \in Keys, NEW p, Place(p, k), At1(p, k),
         Linked([n \in DOMAIN heap |-> IF n = p THEN succ[succ[p]] ELSE succ[n]])
  PROVE  /\ MemoryOK' /\ Contents' = Contents \ {k} /\ WalkOf(succ') = WalkOf(succ) \ {succ[p]}
         /\ succ' = [n \in DOMAIN heap |-> IF n = p THEN succ[succ[p]] ELSE succ[n]]
<1> DEFINE f == [n \in DOMAIN heap |-> IF n = p THEN succ[succ[p]] ELSE succ[n]]
<1>1. succ' = f /\ rank' = rank /\ (Sorted(f, rank) => MemoryOK')
  BY StaysSorted
<1>2. p \in WalkOf(succ) /\ p # TailNode /\ p \in DOMAIN heap /\ succ[p] \in WalkOf(succ) /\ succ[p] \in DOMAIN heap
  BY SuccAndRank DEF Place
<1>3. Sorted(f, rank) /\ WalkOf(f) = WalkOf(succ) \ {succ[p]}
  <2>1. f = [n \in DOMAIN succ |-> IF n = p THEN succ[succ[p]] ELSE succ[n]]
    BY SuccAndRank
  <2> HIDE DEF f
  <2>. QED  BY <1>2, <2>1, NodeRemoved DEF MemoryOK, At1
<1>4. Contents' = Contents \ {k}
  <2>1. \A n \in WalkOf(succ) : heap'[n].key = heap[n].key
    BY SuccAndRank DEF Linked
  <2>2. Contents' = {heap'[n].key : n \in (WalkOf(succ) \ {succ[p]}) \ {HeadNode, TailNode}}
    BY <1>1, <1>3 DEF Contents, KeysOf
  <2>3. \A n \in WalkOf(succ) \ {HeadNode, TailNode} : heap[n].key = k => n = succ[p]
    <3>1. ASSUME NEW n \in WalkOf(succ) \ {HeadNode, TailNode}, heap[n].key = k PROVE n = succ[p]
      <4>1. succ[p] # HeadNode
        <5>1. rank[p] < rank[succ[p]] /\ rank[p] \in 0 .. Highest /\ Highest \in Nat
          BY <1>2, SuccAndRank, GreatestKey DEF MemoryOK, Sorted
        <5>. QED  BY <5>1, SuccAndRank
      <4>2. rank[n] = k /\ rank[succ[p]] = k
        BY <1>2, <3>1, <4>1, SuccAndRank DEF At1
      <4>. QED  BY <1>2, <4>2, SameRank DEF MemoryOK
    <3>. QED  BY <3>1
  <2>4. heap[succ[p]].key = k
    BY DEF At1
  <2> DEFINE W == WalkOf(succ) \ {HeadNode, TailNode}
  <2>5. Contents = {heap[n].key : n \in W} /\ Contents' = {heap[n].key : n \in W \ {succ[p]}}
    BY <2>1, <2>2 DEF Contents, KeysOf
  <2>6. \A n \in W : heap[n].key = k => n = succ[p]
    BY <2>3
  <2> HIDE DEF W
  <2>. QED  BY <2>4, <2>5, <2>6
<1>. QED  BY <1>1, <1>3, <1>4
-----------------------------------------------------------------------------
(* The lists that a behaviour starts with. *)
LEMMA FirstOf ==
  ASSUME NEW S, S \subseteq Keys
  PROVE  /\ S = {} => First(S) = TailNode
         /\ S # {} => \E k \in S : First(S) = Old(k) /\ \A j \in S : k <= j
<1>1. ASSUME S # {} PROVE \E k \in S : First(S) = Old(k) /\ \A j \in S : k <= j
  <2>1. \E k \in S : \A j \in S : k <= j
    BY <1>1, KeysAssumption, LeastElement
  <2>2. Min(S) \in S /\ \A j \in S : Min(S) <= j
    BY <2>1 DEF Min
  <2>. QED  BY <1>1, <2>2 DEF First
<1>. QED  BY <1>1 DEF First

LEMMA OldNodes ==
  \A k \in Keys : /\ Old(k) \in Nat /\ Old(k) - MaxCalls = k
                  /\ Old(k) \notin {HeadNode, TailNode, Null}
                  /\ \A j \in Keys : Old(j) = Old(k) => j = k
BY KeysAssumption, NamesAssumption DEF Old

LEMMA Initially ==
  ASSUME NEW S \in SUBSET Keys, NEW low, NEW high, DOMAIN heap = InitialNodes(S),
         \A n \in DOMAIN heap : /\ Fields(heap[n]) /\ heap[n].key = KeyOf(n, low, high)
                                /\ heap[n].next = Successor(S, n),
         Idle, NoCalls({S})
  PROVE  ListInv /\ DOMAIN heap \subseteq WalkOf(succ)
<1>1. /\ {HeadNode, TailNode} \subseteq DOMAIN heap /\ Null \notin DOMAIN heap
      /\ \A k \in S : Old(k) \in DOMAIN heap
      /\ \A n \in DOMAIN heap \ {HeadNode, TailNode} : \E k \in S : n = Old(k)
  BY OldNodes, NamesAssumption DEF InitialNodes
<1>2. /\ DOMAIN succ = DOMAIN heap /\ DOMAIN rank = DOMAIN heap
      /\ succ[HeadNode] = First(S) /\ succ[TailNode] = Null
      /\ \A k \in S : succ[Old(k)] = First({j \in S : j > k}) /\ heap[Old(k)].key = k
  <2>1. DOMAIN succ = DOMAIN heap /\ DOMAIN rank = DOMAIN heap /\ succ = [n \in DOMAIN heap |-> Successor(S, n)]
    BY DEF succ, rank
  <2>2. succ[HeadNode] = First(S) /\ succ[TailNode] = Null
    BY <1>1, <2>1, NamesAssumption DEF Successor
  <2>3. ASSUME NEW k \in S PROVE succ[Old(k)] = First({j \in S : j > k}) /\ heap[Old(k)].key = k
    BY <1>1, <2>1, OldNodes DEF Successor, KeyOf
  <2>. QED  BY <2>1, <2>2, <2>3
<1>3. /\ rank[HeadNode] = 0 /\ rank[TailNode] = Highest /\ Highest \in Nat
      /\ \A k \in S : rank[Old(k)] = k /\ k \in 1 .. Highest - 1
  BY <1>1, <1>2, OldNodes, NamesAssumption, GreatestKey DEF rank
<1>4. \A n \in DOMAIN heap : rank[n] \in 0 .. Highest
  BY <1>1, <1>3
<1>5. ASSUME NEW T, T \subseteq S, NEW a \in 0 .. Highest - 1, \A j \in T : j > a
      PROVE  First(T) \in DOMAIN heap /\ a < rank[First(T)]
  <2>1. CASE T = {}
    BY <1>1, <1>3, <1>5, <2>1, FirstOf
  <2>2. CASE T # {}
    BY <1>1, <1>3, <1>5, <2>2, FirstOf
  <2>. QED  BY <2>1, <2>2
<1>6. ASSUME NEW n \in DOMAIN heap \ {TailNode} PROVE succ[n] \in DOMAIN heap /\ rank[n] < rank[succ[n]]
  <2>1. CASE n = HeadNode
    <3>1. 0 \in 0 .. Highest - 1
      <4>1. PICK k \in Keys : TRUE
        BY KeysAssumption
      <4>. QED  BY <4>1, GreatestKey
    <3>2. \A j \in S : j > 0
      BY <1>3
    <3>. QED  BY <1>2, <1>3, <1>5, <2>1, <3>1, <3>2
  <2>2. CASE n # HeadNode
    <3>1. PICK k \in S : n = Old(k)
      BY <1>1, <2>2
    <3> DEFINE T == {j \in S : j > k}
    <3>2. k \in 0 .. Highest - 1 /\ T \subseteq S /\ \A j \in T : j > k
      BY <1>3
    <3>3. succ[n] = First(T) /\ rank[n] = k
      BY <1>2, <1>3, <3>1
    <3> HIDE DEF T
    <3>. QED  BY <1>5, <3>2, <3>3
  <2>. QED  BY <2>1, <2>2
<1>7. Sorted(succ, rank)
  <2>1. InMemory(succ)
    BY <1>1, <1>2, <1>6 DEF InMemory
  <2>2. rank \in [DOMAIN succ -> 0 .. Highest]
    <3>1. rank = [n \in DOMAIN heap |-> rank[n]]
      BY DEF rank
    <3>. QED  BY <1>2, <1>4, <3>1
  <2>3. WalkOf(succ) \subseteq DOMAIN heap
    BY <1>2, <2>1, WalkFacts DEF InMemory, WalkOf
  <2>. QED  BY <1>1, <1>2, <1>6, <2>1, <2>2, <2>3 DEF Sorted
<1>8. MemoryOK
  <2>1. ASSUME NEW n \in DOMAIN heap \ {HeadNode, TailNode} PROVE heap[n].key \in Keys
    <3>1. PICK k \in S : n = Old(k)
      BY <1>1
    <3>. QED  BY <1>2, <3>1
  <2>2. DOMAIN heap \subseteq {HeadNode, TailNode} \cup (1 .. made) \cup {Old(k) : k \in Keys}
    BY <1>1
  <2>. QED  BY <1>7, <2>1, <2>2 DEF MemoryOK
<1>9. \A k \in S : Old(k) \in WalkOf(succ)
  <2> DEFINE U == {k \in S : Old(k) \notin WalkOf(succ)}
  <2>1. SUFFICES ASSUME U # {} PROVE FALSE
    OBVIOUS
  <2>2. PICK k \in U : \A j \in U : k <= j
    BY <2>1, KeysAssumption, LeastElement
  <2> HIDE DEF U
  <2> DEFINE P == {j \in S \cup {0} : j < k}
  <2>3. k \in S /\ Old(k) \notin WalkOf(succ) /\ k \in Nat /\ k > 0 /\ \A i \in S : i \in Nat /\ i > 0
    BY KeysAssumption DEF U
  <2>4. PICK j \in P : \A l \in P : l <= j
    <3> DEFINE D == {k - l : l \in P}
    <3>1. 0 \in P /\ \A l \in P : l \in Nat /\ l < k
      BY <2>3
    <3>2. D # {} /\ D \subseteq Nat
      BY <2>3, <3>1
    <3> HIDE DEF P
    <3>3. PICK d \in D : \A e \in D : d <= e
      BY <3>2, LeastElement
    <3>4. PICK j \in P : d = k - j
      BY <3>3
    <3>5. \A l \in P : k - j <= k - l
      BY <3>3, <3>4
    <3>. QED  BY <2>3, <3>1, <3>5
  <2> DEFINE n == IF j = 0 THEN HeadNode ELSE Old(j)
  <2>5. n \in WalkOf(succ) \ {TailNode}
    <3>1. CASE j = 0
      BY <1>8, <3>1, SuccAndRank, NamesAssumption
    <3>2. CASE j # 0
      <4>1. j \in S /\ j < k /\ j \in Nat
        BY <2>3, <2>4, <3>2
      <4>2. j \notin U
        BY <2>2, <2>3, <4>1
      <4>. QED  BY <3>2, <4>1, <4>2, OldNodes DEF U
    <3>. QED  BY <3>1, <3>2
  <2>6. succ[n] = First({i \in S : i > j})
    <3>1. CASE j = 0
      <4>1. {i \in S : i > j} = S
        BY <2>3, <3>1
      <4>. QED  BY <1>2, <3>1, <4>1
    <3>2. CASE j # 0
      BY <1>2, <3>2
    <3>. QED  BY <3>1, <3>2
  <2>7. First({i \in S : i > j}) = Old(k)
    <3>1. k \in {i \in S : i > j}
      BY <2>3, <2>4
    <3>2. \A i \in {l \in S : l > j} : i >= k
      BY <2>3, <2>4
    <3>3. PICK i \in {l \in S : l > j} : First({l \in S : l > j}) = Old(i) /\ i <= k
      BY <3>1, FirstOf
    <3>. QED  BY <2>3, <3>2, <3>3
  <2>. QED  BY <1>8, <2>3, <2>5, <2>6, <2>7, SuccAndRank
<1>10. Contents = S
  <2>1. ASSUME NEW n \in WalkOf(succ) \ {HeadNode, TailNode} PROVE heap[n].key \in S
    <3>1. PICK k \in S : n = Old(k)
      BY <1>1, <1>8, SuccAndRank
    <3>. QED  BY <1>2, <3>1
  <2>2. \A k \in S : Old(k) \in WalkOf(succ) \ {HeadNode, TailNode} /\ heap[Old(k)].key = k
    BY <1>2, <1>9, OldNodes
  <2>. QED  BY <2>1, <2>2 DEF Contents, KeysOf
<1>11. CallsOK
  BY NamesAssumption DEF CallsOK, Idle, NoCalls, Idling, Nothing
<1>12. Explained1
  <2>1. [state |-> S, ret |-> <<>>] \in configs /\ DOMAIN <<>> = {}
    BY DEF NoCalls
  <2>. QED  BY <1>10, <2>1 DEF Explained1
<1>13. DOMAIN heap \subseteq WalkOf(succ)
  BY <1>1, <1>8, <1>9, SuccAndRank
<1>. QED  BY <1>8, <1>11, <1>12, <1>13 DEF ListInv
-----------------------------------------------------------------------------
(* Lemmas about calls: the effects of a sequence of them, one by one.       *)
LEMMA MaxIsIn ==
  ASSUME NEW n \in Nat, NEW S \in SUBSET (1 .. n), S # {}
  PROVE  Max(S) \in S
<1>1. PICK x \in {n - y : y \in S} : \A z \in {n - y : y \in S} : x <= z
  <2> DEFINE T == {n - y : y \in S}
  <2>1. \A y \in S : n - y \in Nat
    OBVIOUS
  <2>2. T \subseteq Nat /\ T # {}
    BY <2>1
  <2> HIDE DEF T
  <2>3. \E x \in T : \A z \in T : x <= z
    BY <2>2, LeastElement
  <2>. QED  BY <2>3 DEF T
<1>2. PICK y \in S : x = n - y
  BY <1>1
<1>3. \A z \in S : y >= z
  <2>1. \A z \in S : n - y <= n - z
    BY <1>1, <1>2
  <2>. QED  BY <2>1
<1>. QED  BY <1>2, <1>3 DEF Max

(* The fold over a sequence of calls is what its recursion says.            *)
Takes(g, n, s, c) ==
  /\ n \in Nat /\ DOMAIN s = 1 .. n /\ g = [S \in SUBSET (1 .. n) |-> g[S]] /\ g[{}] = c
  /\ \A S \in SUBSET (1 .. n) : S # {} => g[S] = TakeEffect(g[S \ {Max(S)}], s[Max(S)])
LEMMA FoldIs ==
  ASSUME NEW n, NEW s, NEW c, NEW g, Takes(g, n, s, c)
  PROVE  TakeEffects(c, s) = g[1 .. n]
<1> DEFINE P == SUBSET (1 .. n)
           Later(it, S) == LET x == Max(S) IN TakeEffect(it[S \ {x}], s[x])
           Step1(it) == [S \in P |-> IF S = {} THEN c ELSE Later(it, S)]
           iter == CHOOSE it : it = Step1(it)
<1>0. /\ n \in Nat /\ DOMAIN s = 1 .. n /\ g = [S \in P |-> g[S]] /\ g[{}] = c
      /\ \A S \in P : S # {} => g[S] = TakeEffect(g[S \ {Max(S)}], s[Max(S)])
  BY DEF Takes
<1>1. TakeEffects(c, s) = iter[1 .. n]
  BY <1>0 DEF TakeEffects, MapThenFoldSet
<1>2. g = Step1(g)
  <2>1. \A S \in P : S # {} => g[S] = Later(g, S)
    BY <1>0
  <2> HIDE DEF Later
  <2>. QED  BY <1>0, <2>1
<1>3. iter = Step1(iter)
  <2> HIDE DEF Step1
  <2>. QED  BY <1>2
<1>4. ASSUME NEW S \in P, S # {} PROVE iter[S] = TakeEffect(iter[S \ {Max(S)}], s[Max(S)])
  <2> HIDE DEF iter
  <2>. QED  BY <1>3, <1>4
<1>5. iter[{}] = c
  <2> HIDE DEF iter
  <2>. QED  BY <1>3
<1> HIDE DEF iter, Step1
<1>6. ASSUME NEW S \in P PROVE IsFiniteSet(S) /\ Cardinality(S) \in Nat
  <2>1. IsFiniteSet(1 .. n)
    <3>1. 1 \in Int /\ n \in Int
      BY <1>0
    <3>. QED  BY <3>1, FS_Interval
  <2>2. IsFiniteSet(S)
    BY <2>1, FS_Subset
  <2>. QED  BY <2>2, FS_CardinalityType
<1>7. ASSUME NEW S \in P, S # {} PROVE Max(S) \in S
  BY <1>0, <1>7, MaxIsIn
<1> DEFINE Bad == {S \in P : iter[S] # g[S]}
<1>8. SUFFICES ASSUME Bad # {} PROVE FALSE
  BY <1>1
<1>9. PICK S \in Bad : \A T \in Bad : Cardinality(S) <= Cardinality(T)
  <2> DEFINE Sizes == {Cardinality(T) : T \in Bad}
  <2>1. Sizes \subseteq Nat /\ Sizes # {}
    BY <1>6, <1>8
  <2>2. PICK x \in Sizes : \A y \in Sizes : x <= y
    <3> HIDE DEF Sizes
    <3>. QED  BY <2>1, LeastElement
  <2>. QED  BY <2>2
<1>10. S \in P /\ S # {} /\ Max(S) \in S /\ S \ {Max(S)} \in P
  BY <1>0, <1>5, <1>7, <1>9
<1>11. Cardinality(S \ {Max(S)}) < Cardinality(S)
  <2>1. Cardinality(S \ {Max(S)}) = Cardinality(S) - 1 /\ Cardinality(S) \in Nat
    BY <1>6, <1>10, FS_RemoveElement
  <2>. QED  BY <2>1
<1>12. iter[S \ {Max(S)}] = g[S \ {Max(S)}]
  <2> DEFINE T == S \ {Max(S)}
  <2>1. T \in P /\ Cardinality(T) < Cardinality(S)
    BY <1>10, <1>11
  <2>2. Cardinality(T) \in Nat /\ Cardinality(S) \in Nat
    BY <1>6, <1>10, <2>1
  <2> HIDE DEF T
  <2>3. T \notin Bad
    <3> HIDE DEF Bad
    <3>. QED  BY <1>9, <2>1, <2>2
  <2>4. iter[T] = g[T]
    BY <2>1, <2>3
  <2>. QED  BY <2>4 DEF T
<1>13. iter[S] = TakeEffect(iter[S \ {Max(S)}], s[Max(S)]) /\ g[S] = TakeEffect(g[S \ {Max(S)}], s[Max(S)])
  BY <1>0, <1>4, <1>10
<1>. QED  BY <1>9, <1>12, <1>13

LEMMA SomeOrder ==
  ASSUME NEW S, NEW D \in SUBSET S, IsFiniteSet(D)
  PROVE  \E n \in Nat : \E s \in Orders(S) : DOMAIN s = 1 .. n /\ D = {s[i] : i \in 1 .. n}
                                          /\ \A i, j \in 1 .. n : s[i] = s[j] => i = j
<1> DEFINE n == Cardinality(D)
<1>1. n \in Nat /\ ExistsBijection(1 .. n, D)
  BY FS_CardinalityType
<1>2. PICK s : s \in Bijection(1 .. n, D)
  BY <1>1 DEF ExistsBijection
<1>3. /\ s \in [1 .. n -> D] /\ \A i, j \in 1 .. n : s[i] = s[j] => i = j
      /\ \A d \in D : \E i \in 1 .. n : s[i] = d
  BY <1>2 DEF Bijection, Injection, Surjection, IsInjective
<1>4. s \in Orders(S)
  BY <1>2 DEF Orders
<1>. QED  BY <1>1, <1>3, <1>4

(* A call that returns now may take effect after finds which return 0.      *)
Absent(c, D) == [state |-> c.state,
                 ret |-> [u \in DOMAIN c.ret \cup D |-> IF u \in D THEN 0 ELSE c.ret[u]]]
LEMMA AfterFinds ==
  ASSUME NEW t, NEW c, t \notin DOMAIN c.ret, NEW D, IsFiniteSet(D), D \subseteq Pending \ (DOMAIN c.ret \cup {t}),
         \A u \in D : call[u].op = "find" /\ key(u) \notin c.state,
         NEW e, e = Effect(c.state, call[t])
  PROVE  \E b \in Explained(c, t) :
           /\ b.state = e.state /\ DOMAIN b.ret = DOMAIN c.ret \cup D \cup {t} /\ b.ret[t] = e.ret
           /\ \A u \in DOMAIN c.ret : b.ret[u] = c.ret[u]
           /\ \A u \in D : b.ret[u] = 0
<1>0. PICK Others : Others = Pending \ (DOMAIN c.ret \cup {t})
  OBVIOUS
<1>1. PICK n \in Nat, s \in Orders(Others) : /\ DOMAIN s = 1 .. n /\ D = {s[i] : i \in 1 .. n}
                                            /\ \A i, j \in 1 .. n : s[i] = s[j] => i = j
  <2>1. D \in SUBSET Others
    BY <1>0
  <2>2. IsFiniteSet(D)
    OBVIOUS
  <2>. QED  BY ONLY <2>1, <2>2, SomeOrder
<1> DEFINE Of(S) == {s[i] : i \in S}
           g == [S \in SUBSET (1 .. n) |-> IF S = {} THEN c ELSE Absent(c, Of(S))]
<1>2. ASSUME NEW S \in SUBSET (1 .. n)
      PROVE  /\ g[S].state = c.state /\ DOMAIN g[S].ret = DOMAIN c.ret \cup Of(S)
             /\ \A v \in DOMAIN g[S].ret : g[S].ret[v] = IF v \in Of(S) THEN 0 ELSE c.ret[v]
  BY DEF Absent
<1>3. ASSUME NEW S \in SUBSET (1 .. n), NEW x \in S
      PROVE  g[S] = TakeEffect(g[S \ {x}], s[x])
  <2> DEFINE u == s[x]
             E == Of(S \ {x})
             a == g[S \ {x}]
  <2>1. u \in D /\ Of(S) = E \cup {u} /\ call[u].op = "find" /\ key(u) \notin c.state
    BY <1>1, <1>3
  <2>2. a.state = c.state /\ DOMAIN a.ret = DOMAIN c.ret \cup E
        /\ \A v \in DOMAIN a.ret : a.ret[v] = IF v \in E THEN 0 ELSE c.ret[v]
    <3>1. S \ {x} \in SUBSET (1 .. n)
      OBVIOUS
    <3> HIDE DEF g
    <3>. QED  BY <1>2, <3>1
  <2>3. g[S] = Absent(c, E \cup {u})
    BY <1>3, <2>1
  <2> HIDE DEF a, u, E, g
  <2>4. Effect(a.state, call[u]) = [state |-> c.state, ret |-> 0]
    BY <2>1, <2>2 DEF Effect, Outcome, key
  <2>5. TakeEffect(a, u) = [state |-> c.state, ret |-> [v \in DOMAIN c.ret \cup E \cup {u} |->
                              IF v = u THEN 0 ELSE a.ret[v]]]
    BY <2>2, <2>4 DEF TakeEffect
  <2>6. [v \in DOMAIN c.ret \cup E \cup {u} |-> IF v = u THEN 0 ELSE a.ret[v]]
        = [v \in DOMAIN c.ret \cup (E \cup {u}) |-> IF v \in E \cup {u} THEN 0 ELSE c.ret[v]]
    BY <2>2
  <2>7. TakeEffect(a, u) = Absent(c, E \cup {u})
    BY <2>5, <2>6 DEF Absent
  <2>. QED  BY <2>3, <2>7 DEF a, u, g
<1>4. TakeEffects(c, s) = g[1 .. n]
  <2>1. g = [S \in SUBSET (1 .. n) |-> g[S]] /\ g[{}] = c
    OBVIOUS
  <2> HIDE DEF g
  <2>2. ASSUME NEW S \in SUBSET (1 .. n), S # {} PROVE g[S] = TakeEffect(g[S \ {Max(S)}], s[Max(S)])
    <3>1. Max(S) \in S
      BY <2>2, MaxIsIn
    <3>. QED  BY <1>3, <3>1
  <2>3. Takes(g, n, s, c)
    BY <1>1, <2>1, <2>2 DEF Takes
  <2>. QED  BY <2>3, FoldIs
<1> DEFINE a == g[1 .. n]
<1>5. a.state = c.state /\ DOMAIN a.ret = DOMAIN c.ret \cup D
      /\ \A v \in DOMAIN a.ret : a.ret[v] = IF v \in D THEN 0 ELSE c.ret[v]
  <2> HIDE DEF g
  <2>. QED  BY <1>1, <1>2
<1> HIDE DEF a
<1>7. TakeEffect(a, t) \in Explained(c, t)
  <2>1. TakeEffect(TakeEffects(c, s), t) \in Explained(c, t)
    BY <1>0 DEF Explained
  <2>. QED  BY <1>4, <2>1 DEF a
<1>8. e = Effect(a.state, call[t])
  BY <1>5
<1>. QED  BY <1>5, <1>7, <1>8 DEF TakeEffect

(* In particular right now. *)
LEMMA TakesEffectNow ==
  ASSUME NEW t, NEW c, t \notin DOMAIN c.ret, NEW e, e = Effect(c.state, call[t])
  PROVE  \E b \in Explained(c, t) :
           /\ b.state = e.state /\ DOMAIN b.ret = DOMAIN c.ret \cup {t} /\ b.ret[t] = e.ret
           /\ \A u \in DOMAIN c.ret : b.ret[u] = c.ret[u]
<1> DEFINE D == {}
<1>1. /\ IsFiniteSet(D) /\ D \subseteq Pending \ (DOMAIN c.ret \cup {t})
      /\ \A u \in D : call[u].op = "find" /\ key(u) \notin c.state
  BY FS_EmptySet
<1> HIDE DEF D
<1>2. \E b \in Explained(c, t) :
           /\ b.state = e.state /\ DOMAIN b.ret = DOMAIN c.ret \cup D \cup {t} /\ b.ret[t] = e.ret
           /\ \A u \in DOMAIN c.ret : b.ret[u] = c.ret[u]
           /\ \A u \in D : b.ret[u] = 0
  BY <1>1, AfterFinds
<1>3. DOMAIN c.ret \cup D \cup {t} = DOMAIN c.ret \cup {t}
  BY DEF D
<1>. QED  BY <1>2, <1>3

(* It may also take effect after one other call. *)
LEMMA AfterOne ==
  ASSUME NEW t, NEW c, t \notin DOMAIN c.ret, NEW u \in Pending, u \notin DOMAIN c.ret, u # t,
         NEW d, d = Effect(c.state, call[u]), NEW e, e = Effect(d.state, call[t])
  PROVE  \E b \in Explained(c, t) :
           /\ b.state = e.state /\ DOMAIN b.ret = DOMAIN c.ret \cup {u, t} /\ b.ret[t] = e.ret /\ b.ret[u] = d.ret
           /\ \A v \in DOMAIN c.ret : b.ret[v] = c.ret[v]
<1> DEFINE s == [i \in 1 .. 1 |-> u]
           g == [S \in SUBSET (1 .. 1) |-> IF S = {} THEN c ELSE TakeEffect(c, u)]
<1>1. g[{}] = c /\ g[1 .. 1] = TakeEffect(c, u)
  OBVIOUS
<1>2. ASSUME NEW S \in SUBSET (1 .. 1), S # {} PROVE g[S] = TakeEffect(g[S \ {Max(S)}], s[Max(S)])
  <2>1. Max(S) \in S
    <3>1. 1 \in Nat
      OBVIOUS
    <3>. QED  BY <1>2, <3>1, MaxIsIn
  <2>2. S = {1}
    <3>1. S \subseteq {1}
      OBVIOUS
    <3>. QED  BY <1>2, <3>1
  <2>3. Max(S) = 1 /\ S \ {Max(S)} = {}
    BY <2>1, <2>2
  <2>. QED  BY <1>1, <2>2, <2>3
<1>3. TakeEffects(c, s) = g[1 .. 1]
  <2>1. g = [S \in SUBSET (1 .. 1) |-> g[S]] /\ DOMAIN s = 1 .. 1
    OBVIOUS
  <2> HIDE DEF g, s
  <2>2. Takes(g, 1, s, c)
    BY <1>1, <1>2, <2>1 DEF Takes
  <2>. QED  BY <2>2, FoldIs
<1>4. s \in Bijection(1 .. 1, {u}) /\ Cardinality({u}) = 1
  BY FS_Singleton DEF Bijection, Injection, Surjection, IsInjective
<1>5. s \in Orders(Pending \ (DOMAIN c.ret \cup {t}))
  BY <1>4 DEF Orders
<1> HIDE DEF s, g
<1> DEFINE a == TakeEffect(c, u)
<1>6. TakeEffect(a, t) \in Explained(c, t)
  <2>1. TakeEffect(TakeEffects(c, s), t) \in Explained(c, t)
    BY <1>5 DEF Explained
  <2>. QED  BY <1>1, <1>3, <2>1
<1>7. /\ a.state = d.state /\ DOMAIN a.ret = DOMAIN c.ret \cup {u} /\ a.ret[u] = d.ret
      /\ \A v \in DOMAIN c.ret : a.ret[v] = c.ret[v]
  BY DEF TakeEffect
<1> HIDE DEF a
<1>. QED  BY <1>6, <1>7 DEF TakeEffect

(* It may have taken effect before.  What is left when it returns: *)
LEMMA Remains ==
  ASSUME NEW t, NEW c \in configs, NEW ret, Answer(t, ret), NEW b, b.ret[t] = ret,
         b \in Explained(c, t) \/ (b = c /\ t \in DOMAIN c.ret)
  PROVE  \E d \in configs' : /\ d.state = b.state /\ DOMAIN d.ret = DOMAIN b.ret \ {t}
                             /\ \A u \in DOMAIN d.ret : d.ret[u] = b.ret[u]
<1> DEFINE d == [state |-> b.state, ret |-> [u \in DOMAIN b.ret \ {t} |-> b.ret[u]]]
<1>1. b \in Explained(c, t)
  BY DEF Explained
<1>2. d \in configs'
  BY <1>1 DEF Answer
<1>. QED  BY <1>2

(* A call that returns what a set would return can have taken effect just   *)
(* now.                                                                     *)
LEMMA Answered ==
  ASSUME NEW t \in Threads, NEW c \in configs, DOMAIN c.ret = {},
         NEW ret, ret = Effect(c.state, call[t]).ret, Answer(t, ret)
  PROVE  \E d \in configs' : d.state = Effect(c.state, call[t]).state /\ DOMAIN d.ret = {}
<1>1. PICK e : e = Effect(c.state, call[t])
  OBVIOUS
<1>2. PICK b \in Explained(c, t) : b.state = e.state /\ DOMAIN b.ret = DOMAIN c.ret \cup {t} /\ b.ret[t] = ret
  <2>1. t \notin DOMAIN c.ret
    OBVIOUS
  <2>2. \E b \in Explained(c, t) : /\ b.state = e.state /\ DOMAIN b.ret = DOMAIN c.ret \cup {t} /\ b.ret[t] = e.ret
                                  /\ \A u \in DOMAIN c.ret : b.ret[u] = c.ret[u]
    BY ONLY <1>1, <2>1, TakesEffectNow
  <2>. QED  BY <1>1, <2>2
<1>3. PICK d \in configs' : d.state = b.state /\ DOMAIN d.ret = DOMAIN b.ret \ {t}
  BY <1>2, Remains
<1>4. DOMAIN b.ret \ {t} = {}
  BY <1>2
<1>. QED  BY <1>1, <1>2, <1>3, <1>4

(* What a step of t leaves alone: the calls of the other threads, and the   *)
(* nodes that they have not linked yet.                                     *)
OthersCalls(t) == \A u \in Threads \ {t} : call'[u] = call[u] /\ pc'[u] = pc[u] /\ my'[u] = my[u]
OthersNodes(t) == \A u \in Threads \ {t} : call[u].op = "add" =>
  new(u) \in DOMAIN heap' /\ succ'[new(u)] = Null /\ heap'[new(u)].key = key(u)
Maps == /\ call' = [t \in Threads |-> call'[t]] /\ pc' = [t \in Threads |-> pc'[t]]
        /\ my' = [t \in Threads |-> my'[t]]

LEMMA OthersStay ==
  ASSUME CallsOK, NEW t \in Threads, OthersCalls(t), OthersNodes(t), made <= made', made' \in 0 .. MaxCalls
  PROVE  \A u \in Threads \ {t} : (Idling(u) \/ Busy(u))' /\ call'[u] = call[u]
<1>1. SUFFICES ASSUME NEW u \in Threads \ {t} PROVE (Idling(u) \/ Busy(u))'
  BY DEF OthersCalls
<1>2. Idling(u) \/ Busy(u)
  BY DEF CallsOK
<1>3. call'[u] = call[u] /\ pc'[u] = pc[u]
  BY DEF OthersCalls
<1>4. made \in Nat /\ made' \in Nat /\ 1 .. made \subseteq 1 .. made'
  BY NamesAssumption DEF CallsOK
<1>5. CASE Idling(u)
  BY <1>3, <1>5 DEF Idling, Nothing
<1>6. CASE Busy(u)
  BY <1>3, <1>4, <1>6 DEF Busy, OthersNodes, new, key
<1>. QED  BY <1>2, <1>5, <1>6

LEMMA CallEnded ==
  ASSUME CallsOK, NEW t \in Threads, NEW ret, Return(t, ret), OthersNodes(t)
  PROVE  CallsOK' /\ Idling(t)' /\ OthersCalls(t) /\ made' = made
<1>1. made' = made /\ Maps /\ OthersCalls(t) /\ call'[t] = Nothing /\ pc'[t] = "idle"
  BY DEF Return, Answer, Goto, CallsOK, OthersCalls, Maps
<1>2. \A u \in Threads \ {t} : (Idling(u) \/ Busy(u))' /\ call'[u] = call[u]
  BY <1>1, OthersStay, NamesAssumption DEF CallsOK
<1>3. Idling(t)'
  BY <1>1 DEF Idling, Nothing
<1>4. call'[t].op # "add"
  BY <1>1 DEF Nothing
<1>5. CallsOK'
  BY <1>1, <1>2, <1>3, <1>4 DEF CallsOK, Maps, new
<1>. QED  BY <1>1, <1>3, <1>5

LEMMA CallReturned ==
  ASSUME ListInv, NEW t \in Threads, NEW ret, Return(t, ret), MemoryOK', OthersNodes(t),
         ret = Effect(Contents, call[t]).ret, Contents' = Effect(Contents, call[t]).state
  PROVE  ListInv' /\ Idling(t)' /\ OthersCalls(t)
<1>1. CallsOK' /\ Idling(t)' /\ OthersCalls(t)
  BY CallEnded DEF ListInv
<1>2. Explained1'
  <2>1. PICK c \in configs : c.state = Contents /\ DOMAIN c.ret = {}
    BY DEF ListInv, Explained1
  <2>2. PICK d \in configs' : d.state = Effect(c.state, call[t]).state /\ DOMAIN d.ret = {}
    BY <2>1, Answered DEF Return
  <2>. QED  BY <2>1, <2>2 DEF Explained1
<1>. QED  BY <1>1, <1>2 DEF ListInv

LEMMA CallContinues ==
  ASSUME MemoryOK, CallsOK, NEW t \in Threads, Busy(t), Internal, NEW l, Goto(t, l), l \notin {"idle", "crashed"},
         NEW v, my' = [my EXCEPT ![t] = v], Linked(succ)
  PROVE  /\ MemoryOK' /\ CallsOK' /\ Busy(t)' /\ OthersCalls(t) /\ succ' = succ /\ Contents' = Contents
         /\ call' = call /\ configs' = configs /\ pc'[t] = l /\ my'[t] = v
<1>1. /\ made' = made /\ configs' = configs /\ call' = call /\ Maps /\ OthersCalls(t)
      /\ pc'[t] = l /\ my'[t] = v
  BY DEF Internal, callVars, Goto, CallsOK, OthersCalls, Maps
<1>2. MemoryOK' /\ succ' = succ /\ Contents' = Contents
  BY <1>1, OnlyLocks
<1>3. OthersNodes(t)
  <2>1. SUFFICES ASSUME NEW u \in Threads \ {t}, call[u].op = "add"
                 PROVE  new(u) \in DOMAIN heap' /\ succ'[new(u)] = Null /\ heap'[new(u)].key = key(u)
    BY DEF OthersNodes
  <2>2. Busy(u)
    BY <2>1 DEF CallsOK, Idling, Nothing
  <2>. QED  BY <1>2, <2>1, <2>2 DEF Busy, Linked
<1>4. \A u \in Threads \ {t} : (Idling(u) \/ Busy(u))' /\ call'[u] = call[u]
  BY <1>1, <1>3, OthersStay, NamesAssumption DEF CallsOK
<1>5. Busy(t)'
  BY <1>1, <1>2 DEF Busy, new, key, Linked
<1>6. CallsOK'
  BY <1>1, <1>4, <1>5 DEF CallsOK, Maps, new
<1>. QED  BY <1>1, <1>2, <1>5, <1>6

LEMMA CallGoesOn ==
  ASSUME ListInv, NEW t \in Threads, Busy(t), Internal, NEW l, Goto(t, l), l \notin {"idle", "crashed"},
         NEW v, my' = [my EXCEPT ![t] = v], Linked(succ)
  PROVE  ListInv' /\ Busy(t)' /\ OthersCalls(t) /\ succ' = succ /\ call'[t] = call[t] /\ pc'[t] = l /\ my'[t] = v
<1>1. MemoryOK /\ CallsOK
  BY DEF ListInv
<1>2. /\ MemoryOK' /\ CallsOK' /\ Busy(t)' /\ OthersCalls(t) /\ succ' = succ /\ Contents' = Contents
      /\ call' = call /\ configs' = configs /\ pc'[t] = l /\ my'[t] = v
  BY <1>1, CallContinues
<1>. QED  BY <1>2 DEF ListInv, Explained1

Creates(op, node) == heap' = IF op = "add" THEN With(made + 1, node) ELSE heap
LEMMA CallStarts ==
  ASSUME MemoryOK, CallsOK, NEW t \in Threads, NEW op \in {"add", "delete", "find"}, NEW k \in Keys, NEW l,
         l \notin {"idle", "crashed"}, Enter(t, op, k, l), NEW node, Creates(op, node),
         Fields(node), node.key = k, node.next = Null
  PROVE  /\ MemoryOK' /\ CallsOK' /\ Busy(t)' /\ OthersCalls(t) /\ pc'[t] = l /\ Contents' = Contents
         /\ call[t] = Nothing /\ call'[t] = [op |-> op, key |-> k, no |-> made + 1] /\ configs' = configs /\ my' = my
         /\ WalkOf(succ') = WalkOf(succ) /\ DOMAIN heap \subseteq DOMAIN heap'
         /\ \A n \in DOMAIN heap : heap'[n] = heap[n]
         /\ \A n \in DOMAIN heap' \ DOMAIN heap : heap'[n] = node /\ n \notin {HeadNode, TailNode}
<1>1. /\ made' = made + 1 /\ configs' = configs /\ Maps /\ OthersCalls(t) /\ pc'[t] = l /\ my' = my
      /\ call'[t] = [op |-> op, key |-> k, no |-> made + 1] /\ made # MaxCalls /\ call[t] = Nothing
  BY DEF Enter, Invoke, Used, Goto, CallsOK, OthersCalls, Maps
<1>2. made \in 0 .. MaxCalls - 1 /\ MaxCalls \in Nat
  BY <1>1, NamesAssumption DEF CallsOK
<1>3. /\ MemoryOK' /\ Contents' = Contents /\ WalkOf(succ') = WalkOf(succ)
      /\ DOMAIN heap \subseteq DOMAIN heap' /\ \A n \in DOMAIN heap : heap'[n] = heap[n]
      /\ op = "add" => /\ made + 1 \in DOMAIN heap' /\ heap'[made + 1] = node
      /\ \A n \in DOMAIN heap' \ DOMAIN heap : heap'[n] = node
  <2>1. CASE op = "add"
    <3>1. DOMAIN heap' = DOMAIN heap \cup {made + 1}
      BY <2>1 DEF Creates, With
    <3>. QED  BY <1>1, <1>2, <2>1, <3>1, Creation DEF Creates
  <2>2. CASE op # "add"
    <3>1. heap' = heap
      BY <2>2 DEF Creates
    <3>2. succ' = succ /\ rank' = rank
      BY <3>1 DEF succ, rank
    <3>3. 1 .. made \subseteq 1 .. made'
      BY <1>1, <1>2
    <3>4. MemoryOK'
      BY <3>1, <3>2, <3>3 DEF MemoryOK
    <3>. QED  BY <2>2, <3>1, <3>2, <3>4 DEF Contents, KeysOf
  <2>. QED  BY <2>1, <2>2
<1>4. OthersNodes(t)
  <2>1. SUFFICES ASSUME NEW u \in Threads \ {t}, call[u].op = "add"
                 PROVE  new(u) \in DOMAIN heap' /\ succ'[new(u)] = Null /\ heap'[new(u)].key = key(u)
    BY DEF OthersNodes
  <2>2. Busy(u)
    BY <2>1 DEF CallsOK, Idling, Nothing
  <2>. QED  BY <1>3, <2>1, <2>2 DEF Busy, succ
<1>5. \A u \in Threads \ {t} : (Idling(u) \/ Busy(u))' /\ call'[u] = call[u]
  BY <1>1, <1>2, <1>4, OthersStay DEF CallsOK
<1>6. Busy(t)'
  <2>1. op = "add" => succ'[made + 1] = Null /\ heap'[made + 1].key = k
    BY <1>3 DEF succ
  <2>. QED  BY <1>1, <1>2, <1>3, <2>1 DEF Busy, new, key
<1>7. CallsOK'
  <2>1. \A u \in Threads \ {t} : call[u].op = "add" => new(u) \in 1 .. made
    BY DEF CallsOK, Idling, Nothing, Busy
  <2>2. \A u \in Threads \ {t} : call'[u].op = "add" => call'[u].no # made + 1
    BY <1>1, <1>2, <2>1 DEF OthersCalls, new
  <2>. QED  BY <1>1, <1>2, <1>5, <1>6, <2>2 DEF CallsOK, Maps, new
<1>8. {HeadNode, TailNode} \subseteq DOMAIN heap
  BY SuccAndRank
<1>. QED  BY <1>1, <1>3, <1>6, <1>7, <1>8

LEMMA CallBegins ==
  ASSUME ListInv, NEW t \in Threads, NEW op \in {"add", "delete", "find"}, NEW k \in Keys, NEW l,
         l \notin {"idle", "crashed"}, Enter(t, op, k, l), NEW node, Creates(op, node),
         Fields(node), node.key = k, node.next = Null
  PROVE  /\ ListInv' /\ OthersCalls(t)
         /\ WalkOf(succ') = WalkOf(succ) /\ DOMAIN heap \subseteq DOMAIN heap'
         /\ \A n \in DOMAIN heap : heap'[n] = heap[n]
<1>1. MemoryOK /\ CallsOK
  BY DEF ListInv
<1>2. /\ MemoryOK' /\ CallsOK' /\ OthersCalls(t) /\ Contents' = Contents /\ configs' = configs
      /\ WalkOf(succ') = WalkOf(succ) /\ DOMAIN heap \subseteq DOMAIN heap'
      /\ \A n \in DOMAIN heap : heap'[n] = heap[n]
  BY <1>1, CallStarts
<1>. QED  BY <1>2 DEF ListInv, Explained1
-----------------------------------------------------------------------------
(* The second list: FineGrainedSynchroList.c.  A thread that walks has the  *)
(* mutex of pred, which is on the list and before the key, so that curr     *)
(* stays the successor of pred; from the comparison on it has that of curr. *)
OnItsWay(t) == pc[t] \in {"lock_curr", "compare"}
Holding(t) == OnItsWay(t) =>
  /\ {"pred", "curr"} \subseteq DOMAIN my[t]
  /\ my[t].pred \in WalkOf(succ) /\ my[t].pred # TailNode /\ heap[my[t].pred].owner = t
  /\ my[t].pred = HeadNode \/ heap[my[t].pred].key < key(t)
  /\ my[t].curr = succ[my[t].pred]
  /\ pc[t] = "compare" => heap[my[t].curr].owner = t
FineInv == ListInv /\ \A t \in Threads : Holding(t)

(* What a step has to leave to a thread u: the nodes whose mutexes it has.  *)
LEMMA KeepsHolding ==
  ASSUME MemoryOK, NEW u \in Threads, Holding(u), call'[u] = call[u], pc'[u] = pc[u], my'[u] = my[u],
         OnItsWay(u) => \A n \in WalkOf(succ) : heap[n].owner = u =>
           /\ n \in WalkOf(succ') /\ succ'[n] = succ[n]
           /\ heap'[n].owner = u /\ heap'[n].key = heap[n].key
  PROVE  Holding(u)'
<1>1. SUFFICES ASSUME OnItsWay(u) PROVE Holding(u)'
  BY DEF Holding, OnItsWay
<1>2. my[u].pred \in WalkOf(succ) /\ my[u].curr \in WalkOf(succ)
  BY <1>1, SuccAndRank DEF Holding
<1>. QED  BY <1>1, <1>2 DEF Holding, OnItsWay, key

(* The operators of the model of this list are those of ThreadSteps.        *)
LEMMA FineAnswer == \A t, ret : Fine!Answer(t, ret) <=> Answer(t, ret)
<1>1. \A c, t : Fine!TakeEffect(c, t) = TakeEffect(c, t)
  BY DEF Fine!TakeEffect, TakeEffect, Fine!Effect, Effect, Fine!Outcome, Outcome
<1>2. \A c, s : Fine!TakeEffects(c, s) = TakeEffects(c, s)
  BY <1>1 DEF Fine!TakeEffects, TakeEffects, Fine!MapThenFoldSet, MapThenFoldSet, Fine!Max, Max
<1>3. \A S : Fine!Orders(S) = Orders(S)
  BY DEF Fine!Orders, Orders, Fine!Bijection, Bijection, Fine!Injection, Injection,
         Fine!Surjection, Surjection, Fine!IsInjective, IsInjective, Fine!Cardinality, Cardinality
<1>4. \A c, t : Fine!Explained(c, t) = Explained(c, t)
  BY <1>1, <1>2, <1>3 DEF Fine!Explained, Explained, Fine!Pending, Pending, Fine!Nothing, Nothing
<1>. QED  BY <1>4, ZenonT(60) DEF Fine!Answer, Answer, Fine!Nothing, Nothing

LEMMA FineSteps ==
  /\ \A t, ret : Fine!Return(t, ret) <=> Return(t, ret)
  /\ \A t, op, k, l : Fine!Enter(t, op, k, l) <=> Enter(t, op, k, l)
  /\ \A t, l : (Fine!Goto(t, l) <=> Goto(t, l)) /\ (Fine!At(t, l) <=> pc[t] = l)
  /\ \A h, S : Fine!Unlock(h, S) <=> Unlock(h, S)
  /\ (Fine!Internal <=> Internal) /\ \A t : Fine!key(t) = key(t) /\ Fine!new(t) = new(t)
<1>1. \A t, ret : Fine!Return(t, ret) <=> Return(t, ret)
  BY FineAnswer DEF Fine!Return, Return, Fine!Goto, Goto, Fine!Locals, Locals
<1>2. \A t, op, k, l : Fine!Enter(t, op, k, l) <=> Enter(t, op, k, l)
  BY DEF Fine!Enter, Enter, Fine!Invoke, Invoke, Fine!Goto, Goto, Fine!Used, Used, Fine!Nothing, Nothing
<1>3. (Fine!Internal <=> Internal) /\ \A t : Fine!key(t) = key(t) /\ Fine!new(t) = new(t)
  BY DEF Fine!Internal, Internal, Fine!callVars, callVars, Fine!key, key, Fine!new, new
<1>4. \A t, l : (Fine!Goto(t, l) <=> Goto(t, l)) /\ (Fine!At(t, l) <=> pc[t] = l)
  BY DEF Fine!Goto, Goto, Fine!At
<1>5. \A h, S : Fine!Unlock(h, S) <=> Unlock(h, S)
  BY DEF Fine!Unlock, Unlock
<1>. QED  BY <1>1, <1>2, <1>3, <1>4, <1>5

(* What a step of t has to leave to the others, for their Holding.          *)
OthersKeep(t) == \A u \in Threads \ {t} : \A n \in WalkOf(succ) : heap[n].owner = u =>
  /\ n \in WalkOf(succ') /\ succ'[n] = succ[n]
  /\ heap'[n].owner = u /\ heap'[n].key = heap[n].key

LEMMA FineOthers ==
  ASSUME FineInv, NEW t \in Threads, ListInv', OthersCalls(t), OthersKeep(t), Holding(t)'
  PROVE  FineInv'
<1>1. ASSUME NEW u \in Threads \ {t} PROVE Holding(u)'
  <2>1. call'[u] = call[u] /\ pc'[u] = pc[u] /\ my'[u] = my[u] /\ MemoryOK /\ Holding(u)
    BY DEF OthersCalls, FineInv, ListInv
  <2>2. \A n \in WalkOf(succ) : heap[n].owner = u =>
           /\ n \in WalkOf(succ') /\ succ'[n] = succ[n]
           /\ heap'[n].owner = u /\ heap'[n].key = heap[n].key
    BY DEF OthersKeep
  <2>. QED  BY <2>1, <2>2, KeepsHolding
<1>. QED  BY <1>1 DEF FineInv

LEMMA FineCall ==
  ASSUME FineInv, NEW t \in Threads, NEW op \in {"add", "delete", "find"}, NEW k \in Keys, Fine!Call(t, op, k)
  PROVE  FineInv'
<1> DEFINE node == Fine!node_t(k, Null)
<1>1. Fields(node) /\ node.key = k /\ node.next = Null
  BY DEF Fine!node_t, Fields
<1>2. Enter(t, op, k, "lock_head") /\ Creates(op, node)
  BY FineSteps DEF Fine!Call, Fine!create_node, Fine!With, With, Creates
<1> HIDE DEF node
<1>3. /\ ListInv' /\ OthersCalls(t) /\ pc'[t] = "lock_head"
      /\ WalkOf(succ') = WalkOf(succ) /\ DOMAIN heap \subseteq DOMAIN heap'
      /\ \A n \in DOMAIN heap : heap'[n] = heap[n]
  <2>1. ListInv /\ "lock_head" \notin {"idle", "crashed"}
    BY DEF FineInv
  <2>2. pc'[t] = "lock_head"
    BY <1>2, <2>1 DEF Enter, Goto, ListInv, CallsOK
  <2>. QED  BY <1>1, <1>2, <2>1, <2>2, CallBegins
<1>4. OthersKeep(t)
  <2>1. \A n \in WalkOf(succ) : n \in DOMAIN heap /\ succ[n] = heap[n].next
    BY SuccAndRank DEF FineInv, ListInv
  <2>2. \A n \in DOMAIN heap : succ'[n] = heap[n].next
    BY <1>3 DEF succ
  <2>. QED  BY <1>3, <2>1, <2>2 DEF OthersKeep
<1>5. Holding(t)'
  BY <1>3 DEF Holding, OnItsWay
<1>. QED  BY <1>3, <1>4, <1>5, FineOthers

(* Taking and giving back mutexes. *)
LEMMA LockLinks ==
  ASSUME MemoryOK, NEW t, NEW n \in DOMAIN heap, heap' = [heap EXCEPT ![n].owner = t]
  PROVE  /\ Linked(succ) /\ heap'[n].owner = t
         /\ \A m \in DOMAIN heap : m # n => heap'[m] = heap[m]
<1>1. DOMAIN heap' = DOMAIN heap /\ \A m \in DOMAIN heap : m # n => heap'[m] = heap[m]
  OBVIOUS
<1>2. heap'[n] = [heap[n] EXCEPT !.owner = t] /\ Fields(heap[n])
  BY DEF MemoryOK
<1>3. Fields(heap'[n]) /\ heap'[n].owner = t /\ heap'[n].next = heap[n].next /\ heap'[n].key = heap[n].key
  BY <1>2 DEF Fields
<1>. QED  BY <1>1, <1>3 DEF Linked, succ, MemoryOK

LEMMA UnlockLinks ==
  ASSUME NEW h, DOMAIN h = DOMAIN heap, \A n \in DOMAIN heap : Fields(h[n]) /\ h[n].key = heap[n].key, NEW S,
         NEW f, f = [n \in DOMAIN heap |-> h[n].next], Unlock(h, S)
  PROVE  /\ Linked(f)
         /\ \A n \in DOMAIN heap : heap'[n].owner = IF n \in S THEN Null ELSE h[n].owner
<1>1. DOMAIN heap' = DOMAIN heap
  BY DEF Unlock
<1>2. ASSUME NEW n \in DOMAIN heap
      PROVE  /\ Fields(heap'[n]) /\ heap'[n].key = heap[n].key /\ heap'[n].next = h[n].next
             /\ heap'[n].owner = IF n \in S THEN Null ELSE h[n].owner
  <2>1. CASE n \in S
    <3>1. heap'[n] = [h[n] EXCEPT !.owner = Null] /\ Fields(h[n])
      BY <2>1 DEF Unlock
    <3>. QED  BY <2>1, <3>1 DEF Fields
  <2>2. CASE n \notin S
    BY <2>2 DEF Unlock
  <2>. QED  BY <2>1, <2>2
<1>. QED  BY <1>1, <1>2 DEF Linked

LEMMA UnlockOnly ==
  ASSUME MemoryOK, NEW S, Unlock(heap, S)
  PROVE  Linked(succ) /\ \A n \in DOMAIN heap : heap'[n].owner = IF n \in S THEN Null ELSE heap[n].owner
<1>1. \A n \in DOMAIN heap : Fields(heap[n])
  BY DEF MemoryOK
<1>2. succ = [n \in DOMAIN heap |-> heap[n].next]
  BY DEF succ
<1>. QED  BY <1>1, <1>2, UnlockLinks

LEMMA FineLockHead ==
  ASSUME FineInv, NEW t \in Threads, Fine!LockHead(t)
  PROVE  FineInv'
<1>1. /\ MemoryOK /\ CallsOK /\ HeadNode \in WalkOf(succ) /\ HeadNode \in DOMAIN heap
      /\ succ[HeadNode] = heap[HeadNode].next
  BY SuccAndRank DEF FineInv, ListInv
<1>2. /\ pc[t] = "lock_head" /\ heap[HeadNode].owner = Null /\ heap' = [heap EXCEPT ![HeadNode].owner = t]
      /\ Goto(t, "lock_curr") /\ Internal
  BY FineSteps DEF Fine!LockHead, Fine!Lock
<1> DEFINE v == [x \in DOMAIN my[t] \cup {"pred", "curr"} |->
                   IF x \in {"pred", "curr"} THEN [pred |-> HeadNode, curr |-> heap[HeadNode].next][x] ELSE my[t][x]]
<1>3. my' = [my EXCEPT ![t] = v] /\ {"pred", "curr"} \subseteq DOMAIN v
      /\ v.pred = HeadNode /\ v.curr = succ[HeadNode]
  BY <1>1 DEF Fine!LockHead, Fine!Set
<1>4. Busy(t)
  BY <1>1, <1>2 DEF CallsOK, Idling
<1>5. /\ Linked(succ) /\ heap'[HeadNode].owner = t
      /\ \A m \in DOMAIN heap : m # HeadNode => heap'[m] = heap[m]
  BY <1>1, <1>2, LockLinks
<1> HIDE DEF v
<1>6. /\ ListInv' /\ OthersCalls(t) /\ succ' = succ /\ call'[t] = call[t]
      /\ pc'[t] = "lock_curr" /\ my'[t] = v
  BY <1>2, <1>3, <1>4, <1>5, CallGoesOn DEF FineInv
<1>7. OthersKeep(t)
  BY <1>1, <1>2, <1>5, <1>6, SuccAndRank, NamesAssumption DEF OthersKeep
<1>8. Holding(t)'
  BY <1>1, <1>3, <1>5, <1>6, NamesAssumption DEF Holding, OnItsWay
<1>. QED  BY <1>6, <1>7, <1>8, FineOthers

LEMMA FineLockCurr ==
  ASSUME FineInv, NEW t \in Threads, Fine!LockCurr(t)
  PROVE  FineInv'
<1> DEFINE p == my[t].pred
           c == my[t].curr
<1>1. /\ pc[t] = "lock_curr" /\ heap[c].owner = Null /\ heap' = [heap EXCEPT ![c].owner = t]
      /\ Goto(t, "compare") /\ Internal /\ my' = my
  BY FineSteps DEF Fine!LockCurr, Fine!Lock
<1>2. MemoryOK /\ CallsOK /\ Holding(t) /\ OnItsWay(t)
  BY <1>1 DEF FineInv, ListInv, OnItsWay
<1>3. p \in WalkOf(succ) /\ c = succ[p] /\ c \in WalkOf(succ) /\ c \in DOMAIN heap /\ p \in DOMAIN heap
  BY <1>2, SuccAndRank DEF Holding
<1>4. my' = [my EXCEPT ![t] = my[t]]
  BY <1>1, <1>2 DEF CallsOK
<1>5. Busy(t)
  BY <1>1, <1>2 DEF CallsOK, Idling
<1>6. /\ Linked(succ) /\ heap'[c].owner = t
      /\ \A m \in DOMAIN heap : m # c => heap'[m] = heap[m]
  BY <1>1, <1>2, <1>3, LockLinks
<1>7. /\ ListInv' /\ OthersCalls(t) /\ succ' = succ /\ call'[t] = call[t]
      /\ pc'[t] = "compare" /\ my'[t] = my[t]
  <2>1. ListInv /\ Internal /\ Goto(t, "compare") /\ Linked(succ)
    BY <1>1, <1>6 DEF FineInv
  <2> HIDE DEF p, c
  <2>. QED  BY <1>4, <1>5, <2>1, CallGoesOn
<1>8. OthersKeep(t)
  BY <1>1, <1>2, <1>3, <1>6, <1>7, SuccAndRank, NamesAssumption DEF OthersKeep
<1>9. Holding(t)'
  <2>1. heap'[p].key = heap[p].key /\ heap'[p].owner = t
    BY <1>2, <1>3, <1>6 DEF Linked, Holding
  <2>. QED  BY <1>2, <1>3, <1>6, <1>7, <2>1 DEF Holding, OnItsWay, key
<1>. QED  BY <1>7, <1>8, <1>9, FineOthers

LEMMA FineAdvance ==
  ASSUME FineInv, NEW t \in Threads, Fine!Advance(t)
  PROVE  FineInv'
<1> DEFINE p == my[t].pred
           c == my[t].curr
<1>1. /\ pc[t] = "compare" /\ c # TailNode /\ heap[c].key < key(t)
      /\ Unlock(heap, {p}) /\ Goto(t, "lock_curr") /\ Internal
  BY FineSteps DEF Fine!Advance, Fine!Before
<1>2. MemoryOK /\ CallsOK /\ Holding(t) /\ OnItsWay(t)
  BY <1>1 DEF FineInv, ListInv, OnItsWay
<1>3. /\ p \in WalkOf(succ) /\ p # TailNode /\ c = succ[p] /\ c \in WalkOf(succ) /\ c \in DOMAIN heap
      /\ p \in DOMAIN heap /\ heap[p].owner = t /\ heap[c].owner = t /\ succ[c] = heap[c].next
  BY <1>1, <1>2, SuccAndRank DEF Holding
<1>4. p # c
  <2>1. rank[p] < rank[c] /\ rank[p] \in Int
    BY <1>2, <1>3, GreatestKey DEF MemoryOK, Sorted, succ
  <2>. QED  BY <2>1
<1> DEFINE v == [x \in DOMAIN my[t] \cup {"pred", "curr"} |->
                   IF x \in {"pred", "curr"} THEN [pred |-> c, curr |-> heap[c].next][x] ELSE my[t][x]]
<1>5. my' = [my EXCEPT ![t] = v] /\ {"pred", "curr"} \subseteq DOMAIN v
      /\ v.pred = c /\ v.curr = succ[c]
  BY <1>3 DEF Fine!Advance, Fine!Set
<1>6. Busy(t)
  BY <1>1, <1>2 DEF CallsOK, Idling
<1>7. /\ Linked(succ)
      /\ \A n \in DOMAIN heap : heap'[n].owner = IF n = p THEN Null ELSE heap[n].owner
  BY <1>1, <1>2, UnlockOnly
<1> HIDE DEF v, p, c
<1>8. /\ ListInv' /\ OthersCalls(t) /\ succ' = succ /\ call'[t] = call[t]
      /\ pc'[t] = "lock_curr" /\ my'[t] = v
  BY <1>1, <1>5, <1>6, <1>7, CallGoesOn DEF FineInv
<1>9. OthersKeep(t)
  BY <1>2, <1>3, <1>7, <1>8, SuccAndRank DEF OthersKeep, Linked
<1>10. Holding(t)'
  BY <1>1, <1>3, <1>4, <1>5, <1>7, <1>8 DEF Holding, OnItsWay, Linked, key
<1>. QED  BY <1>8, <1>9, <1>10, FineOthers

(* Where a call ends: between pred and curr, at the place of its key.       *)
LEMMA FinePlace ==
  ASSUME FineInv, NEW t \in Threads, pc[t] = "compare", ~Fine!Before(t)
  PROVE  /\ Busy(t) /\ Place(my[t].pred, key(t)) /\ my[t].curr = succ[my[t].pred]
         /\ heap[my[t].pred].owner = t /\ heap[my[t].curr].owner = t
         /\ my[t].curr \in DOMAIN heap /\ my[t].pred \in DOMAIN heap
         /\ Fine!Found(t) <=> At1(my[t].pred, key(t))
<1>1. MemoryOK /\ CallsOK /\ Holding(t) /\ OnItsWay(t)
  BY DEF FineInv, ListInv, OnItsWay
<1>2. Busy(t)
  BY <1>1 DEF CallsOK, Idling
<1>3. /\ my[t].pred \in WalkOf(succ) /\ my[t].pred # TailNode /\ my[t].curr = succ[my[t].pred]
      /\ my[t].pred = HeadNode \/ heap[my[t].pred].key < key(t)
      /\ heap[my[t].pred].owner = t /\ heap[my[t].curr].owner = t
  BY <1>1 DEF Holding
<1>4. my[t].curr \in WalkOf(succ) /\ my[t].curr \in DOMAIN heap /\ my[t].pred \in DOMAIN heap
  BY <1>1, <1>3, SuccAndRank
<1>5. my[t].curr # HeadNode
  <2>1. rank[my[t].pred] < rank[my[t].curr] /\ rank[my[t].pred] \in Nat
    BY <1>1, <1>3, <1>4, GreatestKey DEF MemoryOK, Sorted, succ
  <2>. QED  BY <1>1, <2>1, SuccAndRank
<1>6. my[t].curr # TailNode => heap[my[t].curr].key \in Int
  BY <1>1, <1>4, <1>5, GreatestKey DEF MemoryOK
<1>7. key(t) \in Int
  BY <1>2, GreatestKey DEF Busy
<1>8. my[t].curr = TailNode \/ key(t) <= heap[my[t].curr].key
  BY <1>6, <1>7, FineSteps DEF Fine!Before
<1>9. Fine!Found(t) <=> At1(my[t].pred, key(t))
  BY <1>3, FineSteps DEF Fine!Found, At1
<1>. QED  BY <1>2, <1>3, <1>4, <1>8, <1>9 DEF Place

LEMMA FineReturn ==
  ASSUME FineInv, NEW t \in Threads, Busy(t), NEW ret, Return(t, ret), MemoryOK', OthersNodes(t), OthersKeep(t),
         ret = Effect(Contents, call[t]).ret, Contents' = Effect(Contents, call[t]).state
  PROVE  FineInv'
<1>1. ListInv' /\ OthersCalls(t) /\ Idling(t)'
  BY CallReturned DEF FineInv
<1>2. Holding(t)'
  BY <1>1 DEF Holding, OnItsWay, Idling
<1>. QED  BY <1>1, <1>2, FineOthers

(* A call that changes nothing but owners. *)
LEMMA FineUnchanged ==
  ASSUME FineInv, NEW t \in Threads, pc[t] = "compare", ~Fine!Before(t), NEW ret, Fine!Done(t, heap, ret),
         ret = Effect(Contents, call[t]).ret, Contents = Effect(Contents, call[t]).state
  PROVE  FineInv'
<1> DEFINE S == {my[t].pred, my[t].curr}
<1>1. Return(t, ret) /\ Unlock(heap, S)
  BY FineSteps DEF Fine!Done
<1>2. Busy(t) /\ heap[my[t].pred].owner = t /\ heap[my[t].curr].owner = t
  BY FinePlace
<1>3. MemoryOK /\ CallsOK
  BY DEF FineInv, ListInv
<1>4. /\ Linked(succ)
      /\ \A n \in DOMAIN heap : heap'[n].owner = IF n \in S THEN Null ELSE heap[n].owner
  <2> HIDE DEF S
  <2>. QED  BY <1>1, <1>3, UnlockOnly
<1>5. made' = made
  BY <1>1 DEF Return, Answer
<1>6. MemoryOK' /\ succ' = succ /\ Contents' = Contents
  BY <1>3, <1>4, <1>5, OnlyLocks
<1>7. OthersKeep(t)
  BY <1>2, <1>3, <1>4, <1>6, SuccAndRank DEF OthersKeep, Linked
<1>8. OthersNodes(t)
  <2>1. SUFFICES ASSUME NEW u \in Threads \ {t}, call[u].op = "add"
                 PROVE  new(u) \in DOMAIN heap' /\ succ'[new(u)] = Null /\ heap'[new(u)].key = key(u)
    BY DEF OthersNodes
  <2>2. Busy(u)
    BY <1>3, <2>1 DEF CallsOK, Idling, Nothing
  <2>. QED  BY <1>4, <1>6, <2>1, <2>2 DEF Busy, Linked
<1>. QED  BY <1>1, <1>2, <1>6, <1>7, <1>8, FineReturn

LEMMA Effects ==
  ASSUME NEW t
  PROVE  LET k == key(t)
             e == Effect(Contents, call[t])
         IN /\ call[t].op = "add" => /\ e.state = Contents \cup {k}
                                     /\ (k \in Contents => e.ret = 0) /\ (k \notin Contents => e.ret = k)
            /\ call[t].op = "delete" => /\ e.state = Contents \ {k}
                                        /\ (k \in Contents => e.ret = k) /\ (k \notin Contents => e.ret = 0)
            /\ call[t].op = "find" => /\ e.state = Contents
                                      /\ (k \in Contents => e.ret = k) /\ (k \notin Contents => e.ret = 0)
BY DEF Effect, Outcome, key

(* What the writes of an add and of a delete make of the memory.            *)
Inserted(m, p) == [heap EXCEPT ![m].next = succ[p], ![p].next = m]
Removed(p) == [heap EXCEPT ![p].next = succ[succ[p]]]

(* The writes of an add, which gives back the mutexes of S.                 *)
LEMMA AddsNode ==
  ASSUME MemoryOK, CallsOK, NEW t \in Threads, Busy(t), call[t].op = "add", made' = made,
         NEW p, Place(p, key(t)), ~At1(p, key(t)),
         NEW S, Unlock(Inserted(new(t), p), S)
  PROVE  /\ MemoryOK' /\ OthersNodes(t) /\ Contents' = Contents \cup {key(t)}
         /\ WalkOf(succ) \subseteq WalkOf(succ') /\ WalkOf(succ') = WalkOf(succ) \cup {new(t)}
         /\ succ' = [n \in DOMAIN heap |-> IF n = p THEN new(t) ELSE IF n = new(t) THEN succ[p] ELSE succ[n]]
         /\ Linked(succ') /\ \A n \in DOMAIN heap : heap'[n].owner = IF n \in S THEN Null ELSE heap[n].owner
         /\ \A n \in WalkOf(succ) : /\ n # p => succ'[n] = succ[n]
                                    /\ heap'[n].key = heap[n].key
                                    /\ heap'[n].owner = IF n \in S THEN Null ELSE heap[n].owner
<1> DEFINE m == new(t)
           h == Inserted(m, p)
           f == [n \in DOMAIN heap |-> IF n = p THEN m ELSE IF n = m THEN succ[p] ELSE succ[n]]
<1>1. /\ MemoryOK /\ CallsOK /\ p \in WalkOf(succ) /\ p # TailNode /\ p \in DOMAIN heap
      /\ m \in DOMAIN heap /\ m \in 1 .. made /\ succ[m] = Null /\ heap[m].key = key(t) /\ key(t) \in Keys
  BY SuccAndRank DEF ListInv, Busy, Place
<1>2. m # p /\ m \notin WalkOf(succ)
  <2>1. m # TailNode
    BY <1>1, NamesAssumption DEF CallsOK
  <2>. QED  BY <1>1, <2>1, SuccAndRank
<1> HIDE DEF m
<1>3. Unlock(h, S) /\ h = [heap EXCEPT ![m].next = succ[p], ![p].next = m]
  BY DEF Inserted, m
<1> HIDE DEF h
<1>4. /\ DOMAIN h = DOMAIN heap
      /\ \A n \in DOMAIN heap : /\ Fields(h[n]) /\ h[n].key = heap[n].key /\ h[n].owner = heap[n].owner
                                /\ h[n].next = f[n]
  <2>1. DOMAIN h = DOMAIN heap /\ \A n \in DOMAIN heap : Fields(heap[n]) /\ succ[n] = heap[n].next
    BY <1>1, <1>3 DEF MemoryOK, succ
  <2>2. h[m] = [heap[m] EXCEPT !.next = succ[p]] /\ h[p] = [heap[p] EXCEPT !.next = m]
        /\ \A n \in DOMAIN heap : n \notin {m, p} => h[n] = heap[n]
    BY <1>1, <1>2, <1>3
  <2>3. Fields(h[m]) /\ h[m].key = heap[m].key /\ h[m].owner = heap[m].owner /\ h[m].next = f[m]
    BY <1>1, <1>2, <2>1, <2>2 DEF Fields
  <2>4. Fields(h[p]) /\ h[p].key = heap[p].key /\ h[p].owner = heap[p].owner /\ h[p].next = f[p]
    BY <1>1, <1>2, <2>1, <2>2 DEF Fields
  <2>. QED  BY <2>1, <2>2, <2>3, <2>4
<1>5. /\ Linked(f)
      /\ \A n \in DOMAIN heap : heap'[n].owner = IF n \in S THEN Null ELSE h[n].owner
  <2>1. f = [n \in DOMAIN heap |-> h[n].next]
    BY <1>4
  <2>2. DOMAIN h = DOMAIN heap /\ \A n \in DOMAIN heap : Fields(h[n]) /\ h[n].key = heap[n].key
    BY <1>4
  <2>3. Unlock(h, S)
    BY <1>3
  <2> HIDE DEF f
  <2>. QED  BY ONLY <2>1, <2>2, <2>3, UnlockLinks
<1>6. /\ MemoryOK' /\ Contents' = Contents \cup {key(t)} /\ WalkOf(succ') = WalkOf(succ) \cup {m}
      /\ succ' = f
  BY <1>1, <1>5, Insertion
<1>7. OthersNodes(t)
  <2>1. SUFFICES ASSUME NEW u \in Threads \ {t}, call[u].op = "add"
                 PROVE  new(u) \in DOMAIN heap' /\ succ'[new(u)] = Null /\ heap'[new(u)].key = key(u)
    BY DEF OthersNodes
  <2>2. Busy(u)
    BY <1>1, <2>1 DEF CallsOK, Idling, Nothing
  <2>3. new(u) # m /\ new(u) # p
    <3>1. new(u) # m
      BY <1>1, <2>1 DEF CallsOK, m
    <3>. QED  BY <1>1, <2>1, <2>2, <3>1, SuccAndRank DEF Busy
  <2>. QED  BY <1>5, <1>6, <2>1, <2>2, <2>3 DEF Busy, Linked
<1>8. succ' = [n \in DOMAIN heap |-> IF n = p THEN new(t) ELSE IF n = new(t) THEN succ[p] ELSE succ[n]]
  BY <1>6 DEF m
<1>9. WalkOf(succ') = WalkOf(succ) \cup {new(t)}
  BY <1>6 DEF m
<1>. QED  BY <1>1, <1>2, <1>4, <1>5, <1>6, <1>7, <1>8, <1>9, SuccAndRank DEF Linked

(* The writes of a delete, which gives back the mutexes of S.               *)
LEMMA DropsNode ==
  ASSUME MemoryOK, CallsOK, NEW t \in Threads, Busy(t), call[t].op = "delete", made' = made,
         NEW p, Place(p, key(t)), At1(p, key(t)),
         NEW S, Unlock(Removed(p), S)
  PROVE  /\ MemoryOK' /\ OthersNodes(t) /\ Contents' = Contents \ {key(t)}
         /\ WalkOf(succ') = WalkOf(succ) \ {succ[p]}
         /\ succ' = [n \in DOMAIN heap |-> IF n = p THEN succ[succ[p]] ELSE succ[n]]
         /\ Linked(succ') /\ \A n \in DOMAIN heap : heap'[n].owner = IF n \in S THEN Null ELSE heap[n].owner
         /\ \A n \in WalkOf(succ) : /\ n # p => succ'[n] = succ[n]
                                    /\ heap'[n].key = heap[n].key
                                    /\ heap'[n].owner = IF n \in S THEN Null ELSE heap[n].owner
<1> DEFINE h == Removed(p)
           f == [n \in DOMAIN heap |-> IF n = p THEN succ[succ[p]] ELSE succ[n]]
<1>1. /\ MemoryOK /\ CallsOK /\ p \in WalkOf(succ) /\ p # TailNode /\ p \in DOMAIN heap /\ key(t) \in Keys
  BY SuccAndRank DEF ListInv, Busy, Place
<1>2. /\ DOMAIN h = DOMAIN heap
      /\ \A n \in DOMAIN heap : /\ Fields(h[n]) /\ h[n].key = heap[n].key /\ h[n].owner = heap[n].owner
                                /\ h[n].next = f[n]
  <2>1. DOMAIN h = DOMAIN heap /\ \A n \in DOMAIN heap : Fields(heap[n]) /\ succ[n] = heap[n].next
    BY <1>1 DEF MemoryOK, succ, Removed
  <2>2. h[p] = [heap[p] EXCEPT !.next = succ[succ[p]]] /\ \A n \in DOMAIN heap : n # p => h[n] = heap[n]
    BY <1>1 DEF Removed
  <2>3. Fields(h[p]) /\ h[p].key = heap[p].key /\ h[p].owner = heap[p].owner /\ h[p].next = f[p]
    BY <1>1, <2>1, <2>2 DEF Fields
  <2>. QED  BY <2>1, <2>2, <2>3
<1>3. /\ Linked(f)
      /\ \A n \in DOMAIN heap : heap'[n].owner = IF n \in S THEN Null ELSE h[n].owner
  <2>1. f = [n \in DOMAIN heap |-> h[n].next]
    BY <1>2
  <2>2. DOMAIN h = DOMAIN heap /\ \A n \in DOMAIN heap : Fields(h[n]) /\ h[n].key = heap[n].key
    BY <1>2
  <2>3. Unlock(h, S)
    OBVIOUS
  <2> HIDE DEF f, h
  <2>. QED  BY ONLY <2>1, <2>2, <2>3, UnlockLinks
<1>4. /\ MemoryOK' /\ Contents' = Contents \ {key(t)} /\ WalkOf(succ') = WalkOf(succ) \ {succ[p]}
      /\ succ' = f
  BY <1>1, <1>3, Removal
<1>5. OthersNodes(t)
  <2>1. SUFFICES ASSUME NEW u \in Threads \ {t}, call[u].op = "add"
                 PROVE  new(u) \in DOMAIN heap' /\ succ'[new(u)] = Null /\ heap'[new(u)].key = key(u)
    BY DEF OthersNodes
  <2>2. Busy(u)
    BY <1>1, <2>1 DEF CallsOK, Idling, Nothing
  <2>3. new(u) # p
    BY <1>1, <2>1, <2>2, SuccAndRank DEF Busy
  <2>. QED  BY <1>3, <1>4, <2>1, <2>2, <2>3 DEF Busy, Linked
<1>. QED  BY <1>1, <1>2, <1>3, <1>4, <1>5, SuccAndRank DEF Linked

LEMMA FineAdd ==
  ASSUME FineInv, NEW t \in Threads, Fine!add(t)
  PROVE  FineInv'
<1> DEFINE p == my[t].pred
           c == my[t].curr
<1>1. pc[t] = "compare" /\ call[t].op = "add" /\ ~Fine!Before(t)
  BY FineSteps DEF Fine!add, Fine!Here
<1>2. /\ Busy(t) /\ Place(p, key(t)) /\ c = succ[p] /\ heap[p].owner = t /\ heap[c].owner = t
      /\ Fine!Found(t) <=> At1(p, key(t))
  BY <1>1, FinePlace
<1>3. ListInv /\ MemoryOK /\ CallsOK /\ key(t) \in Keys /\ key(t) = call[t].key
  BY <1>2 DEF FineInv, ListInv, Busy, key
<1>4. At1(p, key(t)) <=> key(t) \in Contents
  BY <1>2, <1>3, PlaceShows
<1>5. CASE Fine!Found(t)
  <2>1. Fine!Done(t, heap, 0)
    BY <1>5 DEF Fine!add
  <2>2. 0 = Effect(Contents, call[t]).ret /\ Contents = Effect(Contents, call[t]).state
    <3>1. key(t) \in Contents /\ Contents \cup {key(t)} = Contents
      BY <1>2, <1>4, <1>5
    <3>. QED  BY <1>1, <1>3, <3>1, Effects
  <2>. QED  BY <1>1, <2>1, <2>2, FineUnchanged
<1>6. CASE ~Fine!Found(t)
  <2> DEFINE h == [heap EXCEPT ![new(t)].next = c, ![p].next = new(t)]
  <2>1. Return(t, key(t)) /\ Unlock(h, {p, c})
    <3>1. Fine!Done(t, [heap EXCEPT ![Fine!new(t)].next = c, ![p].next = Fine!new(t)], Fine!key(t))
      BY <1>6 DEF Fine!add
    <3>2. Fine!new(t) = new(t) /\ Fine!key(t) = key(t)
      BY FineSteps
    <3>. QED  BY <3>1, <3>2, FineSteps DEF Fine!Done
  <2>2. made' = made
    BY <2>1 DEF Return, Answer
  <2> DEFINE S == {p, c}
  <2>3. Unlock(Inserted(new(t), p), S)
    BY <1>2, <2>1 DEF Inserted
  <2> HIDE DEF h, p, c, S
  <2>4. /\ MemoryOK' /\ OthersNodes(t) /\ Contents' = Contents \cup {key(t)}
        /\ WalkOf(succ) \subseteq WalkOf(succ')
        /\ \A n \in WalkOf(succ) : /\ n # p => succ'[n] = succ[n]
                                   /\ heap'[n].key = heap[n].key
                                   /\ heap'[n].owner = IF n \in S THEN Null ELSE heap[n].owner
    BY <1>1, <1>2, <1>3, <1>6, <2>2, <2>3, AddsNode
  <2>5. OthersKeep(t)
    BY <1>2, <2>4 DEF OthersKeep, S
  <2>6. key(t) = Effect(Contents, call[t]).ret /\ Contents' = Effect(Contents, call[t]).state
    BY <1>1, <1>2, <1>3, <1>4, <1>6, <2>4, Effects
  <2>. QED  BY <1>2, <2>1, <2>4, <2>5, <2>6, FineReturn
<1>. QED  BY <1>5, <1>6

LEMMA FineDelete ==
  ASSUME FineInv, NEW t \in Threads, Fine!delete(t)
  PROVE  FineInv'
<1> DEFINE p == my[t].pred
           c == my[t].curr
<1>1. pc[t] = "compare" /\ call[t].op = "delete" /\ ~Fine!Before(t)
  BY FineSteps DEF Fine!delete, Fine!Here
<1>2. /\ Busy(t) /\ Place(p, key(t)) /\ c = succ[p] /\ heap[p].owner = t /\ heap[c].owner = t
      /\ c \in DOMAIN heap /\ (Fine!Found(t) <=> At1(p, key(t)))
  BY <1>1, FinePlace
<1>3. ListInv /\ MemoryOK /\ CallsOK /\ key(t) \in Keys /\ key(t) = call[t].key
  BY <1>2 DEF FineInv, ListInv, Busy, key
<1>4. At1(p, key(t)) <=> key(t) \in Contents
  BY <1>2, <1>3, PlaceShows
<1>5. CASE Fine!Found(t)
  <2> DEFINE h == [heap EXCEPT ![p].next = heap[c].next]
  <2>1. Return(t, key(t)) /\ Unlock(h, {p, c})
    <3>1. Fine!Done(t, h, Fine!key(t))
      BY <1>5 DEF Fine!delete
    <3>. QED  BY <3>1, FineSteps DEF Fine!Done
  <2>2. made' = made
    BY <2>1 DEF Return, Answer
  <2> DEFINE S == {p, c}
  <2>3. Unlock(Removed(p), S)
    <3>1. heap[c].next = succ[succ[p]]
      BY <1>2 DEF succ
    <3>. QED  BY <2>1, <3>1 DEF Removed
  <2> HIDE DEF h, p, c, S
  <2>4. /\ MemoryOK' /\ OthersNodes(t) /\ Contents' = Contents \ {key(t)}
        /\ WalkOf(succ') = WalkOf(succ) \ {succ[p]}
        /\ \A n \in WalkOf(succ) : /\ n # p => succ'[n] = succ[n]
                                   /\ heap'[n].key = heap[n].key
                                   /\ heap'[n].owner = IF n \in S THEN Null ELSE heap[n].owner
    BY <1>1, <1>2, <1>3, <1>5, <2>2, <2>3, DropsNode
  <2>5. OthersKeep(t)
    BY <1>2, <2>4 DEF OthersKeep, S
  <2>6. key(t) = Effect(Contents, call[t]).ret /\ Contents' = Effect(Contents, call[t]).state
    BY <1>1, <1>2, <1>3, <1>4, <1>5, <2>4, Effects
  <2>. QED  BY <1>2, <2>1, <2>4, <2>5, <2>6, FineReturn
<1>6. CASE ~Fine!Found(t)
  <2>1. Fine!Done(t, heap, 0)
    BY <1>6 DEF Fine!delete
  <2>2. 0 = Effect(Contents, call[t]).ret /\ Contents = Effect(Contents, call[t]).state
    <3>1. key(t) \notin Contents /\ Contents \ {key(t)} = Contents
      BY <1>2, <1>4, <1>6
    <3>. QED  BY <1>1, <1>3, <3>1, Effects
  <2>. QED  BY <1>1, <2>1, <2>2, FineUnchanged
<1>. QED  BY <1>5, <1>6

LEMMA FineFind ==
  ASSUME FineInv, NEW t \in Threads, Fine!find(t)
  PROVE  FineInv'
<1> DEFINE p == my[t].pred
           ret == IF Fine!Found(t) THEN key(t) ELSE 0
<1>1. pc[t] = "compare" /\ call[t].op = "find" /\ ~Fine!Before(t) /\ Fine!Done(t, heap, ret)
  BY FineSteps DEF Fine!find, Fine!Here
<1>2. Busy(t) /\ Place(p, key(t)) /\ (Fine!Found(t) <=> At1(p, key(t)))
  BY <1>1, FinePlace
<1>3. MemoryOK /\ key(t) \in Keys /\ key(t) = call[t].key
  BY <1>2 DEF FineInv, ListInv, Busy, key
<1>4. At1(p, key(t)) <=> key(t) \in Contents
  BY <1>2, <1>3, PlaceShows
<1>5. ret = Effect(Contents, call[t]).ret /\ Contents = Effect(Contents, call[t]).state
  BY <1>1, <1>2, <1>3, <1>4, Effects
<1> HIDE DEF ret
<1>. QED  BY <1>1, <1>5, FineUnchanged

LEMMA FineStep ==
  ASSUME FineInv, NEW t \in Threads, Fine!Step(t)
  PROVE  FineInv'
BY FineLockHead, FineLockCurr, FineAdvance, FineAdd, FineDelete, FineFind DEF Fine!Step

LEMMA FineInit == Fine!Init => FineInv
<1>1. SUFFICES ASSUME Fine!Init PROVE FineInv
  OBVIOUS
<1>2. PICK S \in SUBSET Keys :
        /\ heap = [n \in Fine!InitialNodes(S) |-> Fine!node_t(Fine!KeyOf(n, 0, 0), Fine!Successor(S, n))]
        /\ Fine!Idle /\ Fine!NoCalls({S})
  BY <1>1 DEF Fine!Init
<1>3. \A T : Fine!First(T) = First(T)
  BY DEF Fine!First, First, Fine!Old, Old, Fine!Min, Min
<1>4. \A n : Fine!KeyOf(n, 0, 0) = KeyOf(n, 0, 0) /\ Fine!Successor(S, n) = Successor(S, n)
  BY <1>3 DEF Fine!KeyOf, KeyOf, Fine!Successor, Successor
<1>5. DOMAIN heap = InitialNodes(S)
  BY <1>2 DEF Fine!InitialNodes, InitialNodes, Fine!Old, Old
<1>6. \A n \in DOMAIN heap : /\ Fields(heap[n]) /\ heap[n].key = KeyOf(n, 0, 0)
                             /\ heap[n].next = Successor(S, n)
  BY <1>2, <1>4, <1>5 DEF Fine!node_t, Fields
<1>7. Idle /\ NoCalls({S})
  BY <1>2 DEF Fine!Idle, Idle, Fine!Locals, Locals, Fine!NoCalls, NoCalls, Fine!Nothing, Nothing
<1>8. ListInv
  BY <1>5, <1>6, <1>7, Initially
<1>9. \A t \in Threads : Holding(t)
  BY <1>7 DEF Holding, OnItsWay, Idle
<1>. QED  BY <1>8, <1>9 DEF FineInv
-----------------------------------------------------------------------------
(* The first list: CoarseGrainedSynchroList.c.  A call that has the mutex   *)
(* finds the place of its key and does its writes in one step.  The delete  *)
(* compares with the tail's key too, which must not be one of the keys.     *)
Doing(t) == pc[t] \in {"add", "delete", "find"} => pc[t] = call[t].op
CoarseInv == ListInv /\ heap[TailNode].key = 0 /\ \A t \in Threads : Doing(t)

LEMMA CoarseAnswer == \A t, ret : Coarse!Answer(t, ret) <=> Answer(t, ret)
<1>1. \A c, t : Coarse!TakeEffect(c, t) = TakeEffect(c, t)
  BY DEF Coarse!TakeEffect, TakeEffect, Coarse!Effect, Effect, Coarse!Outcome, Outcome
<1>2. \A c, s : Coarse!TakeEffects(c, s) = TakeEffects(c, s)
  BY <1>1 DEF Coarse!TakeEffects, TakeEffects, Coarse!MapThenFoldSet, MapThenFoldSet, Coarse!Max, Max
<1>3. \A S : Coarse!Orders(S) = Orders(S)
  BY DEF Coarse!Orders, Orders, Coarse!Bijection, Bijection, Coarse!Injection, Injection,
         Coarse!Surjection, Surjection, Coarse!IsInjective, IsInjective, Coarse!Cardinality, Cardinality
<1>4. \A c, t : Coarse!Explained(c, t) = Explained(c, t)
  BY <1>1, <1>2, <1>3 DEF Coarse!Explained, Explained, Coarse!Pending, Pending, Coarse!Nothing, Nothing
<1>. QED  BY <1>4, ZenonT(60) DEF Coarse!Answer, Answer, Coarse!Nothing, Nothing

LEMMA CoarseSteps ==
  /\ \A t, ret : Coarse!Return(t, ret) <=> Return(t, ret)
  /\ \A t, op, k, l : Coarse!Enter(t, op, k, l) <=> Enter(t, op, k, l)
  /\ \A t, l : (Coarse!Goto(t, l) <=> Goto(t, l)) /\ (Coarse!At(t, l) <=> pc[t] = l)
  /\ \A h, S : Coarse!Unlock(h, S) <=> Unlock(h, S)
  /\ (Coarse!Internal <=> Internal) /\ \A t : Coarse!key(t) = key(t) /\ Coarse!new(t) = new(t)
  /\ Coarse!Succ = succ
<1>1. \A t, ret : Coarse!Return(t, ret) <=> Return(t, ret)
  BY CoarseAnswer DEF Coarse!Return, Return, Coarse!Goto, Goto, Coarse!Locals, Locals
<1>2. \A t, op, k, l : Coarse!Enter(t, op, k, l) <=> Enter(t, op, k, l)
  BY DEF Coarse!Enter, Enter, Coarse!Invoke, Invoke, Coarse!Goto, Goto, Coarse!Used, Used, Coarse!Nothing, Nothing
<1>3. (Coarse!Internal <=> Internal) /\ \A t : Coarse!key(t) = key(t) /\ Coarse!new(t) = new(t)
  BY DEF Coarse!Internal, Internal, Coarse!callVars, callVars, Coarse!key, key, Coarse!new, new
<1>4. \A t, l : (Coarse!Goto(t, l) <=> Goto(t, l)) /\ (Coarse!At(t, l) <=> pc[t] = l)
  BY DEF Coarse!Goto, Goto, Coarse!At
<1>5. (\A h, S : Coarse!Unlock(h, S) <=> Unlock(h, S)) /\ Coarse!Succ = succ
  BY DEF Coarse!Unlock, Unlock, Coarse!Succ, succ
<1>. QED  BY <1>1, <1>2, <1>3, <1>4, <1>5

(* The loop of the calls stops at the place of the key. *)
LEMMA PositionFound ==
  ASSUME ListInv, NEW k \in Keys
  PROVE  /\ Place(Coarse!Position(k).pred, k)
         /\ Coarse!Position(k).curr = succ[Coarse!Position(k).pred]
<1> DEFINE P(n) == n = HeadNode \/ (n # TailNode /\ heap[n].key < k)
           g == [n \in DOMAIN heap |-> IF P(n) THEN succ[n] ELSE Null]
           met == Reachable(g, HeadNode)
           curr == CHOOSE n \in met : ~P(n)
           pred == CHOOSE n \in met : P(n) /\ succ[n] = curr
<1>1. Coarse!Position(k) = [curr |-> curr, pred |-> pred]
  BY CoarseSteps DEF Coarse!Position, Coarse!Met, Coarse!Passed, Coarse!Reachable, Reachable, Coarse!Closed, Closed
<1>2. MemoryOK /\ InMemory(succ) /\ DOMAIN succ = DOMAIN heap
  BY DEF ListInv, MemoryOK, Sorted, succ
<1>3. HeadNode \in DOMAIN g /\ DOMAIN g = DOMAIN heap /\ \A n \in DOMAIN g : g[n] = Null \/ g[n] \in DOMAIN g
  BY <1>2 DEF InMemory
<1>4. HeadNode \in met /\ Closed(g, met) /\ met \subseteq DOMAIN heap
  <2> HIDE DEF g
  <2>. QED  BY <1>3, WalkFacts
<1>5. met \subseteq WalkOf(succ)
  <2>1. HeadNode \in WalkOf(succ) /\ WalkOf(succ) \in SUBSET DOMAIN g /\ Closed(g, WalkOf(succ))
    BY <1>2, <1>3, SuccAndRank, WalkFacts DEF Closed, InMemory, WalkOf
  <2> HIDE DEF g
  <2>. QED  BY <1>3, <2>1, WalkFacts
<1>6. \E n \in met : ~P(n)
  <2>1. SUFFICES ASSUME \A n \in met : P(n) PROVE FALSE
    OBVIOUS
  <2>2. Closed(succ, met)
    BY <1>4, <2>1 DEF Closed
  <2>3. TailNode \in met
    <3> HIDE DEF met
    <3>. QED  BY <1>2, <1>4, <1>5, <2>2, TailIsMet DEF MemoryOK
  <2>. QED  BY <2>1, <2>3, NamesAssumption
<1>7. curr \in met /\ ~P(curr)
  <2> HIDE DEF met, P
  <2>. QED  BY <1>6
<1> HIDE DEF curr
<1>8. \E n \in met : P(n) /\ succ[n] = curr
  <2>1. SUFFICES ASSUME \A n \in met : P(n) => succ[n] # curr PROVE FALSE
    OBVIOUS
  <2>2. Closed(g, met \ {curr})
    BY <1>4, <2>1 DEF Closed
  <2>3. HeadNode \in met \ {curr} /\ met \ {curr} \in SUBSET DOMAIN g
    BY <1>3, <1>4, <1>7
  <2>4. met \subseteq met \ {curr}
    <3> HIDE DEF g
    <3>. QED  BY <1>3, <2>2, <2>3, WalkFacts
  <2>. QED  BY <1>7, <2>4
<1>9. pred \in met /\ P(pred) /\ succ[pred] = curr
  <2> HIDE DEF met, P
  <2>. QED  BY <1>8
<1> HIDE DEF pred, met
<1>10. pred \in WalkOf(succ) /\ pred # TailNode /\ (pred = HeadNode \/ heap[pred].key < k)
  BY <1>5, <1>9, NamesAssumption
<1>11. curr = TailNode \/ k <= heap[curr].key
  <2>1. SUFFICES ASSUME curr # TailNode PROVE k <= heap[curr].key
    OBVIOUS
  <2>2. curr \in DOMAIN heap \ {HeadNode, TailNode}
    BY <1>4, <1>7, <2>1
  <2>3. heap[curr].key \in Int /\ k \in Int
    BY <1>2, <2>2, GreatestKey DEF MemoryOK
  <2>. QED  BY <1>7, <2>1, <2>3
<1>. QED  BY <1>1, <1>9, <1>10, <1>11 DEF Place

LEMMA CoarseOthers ==
  ASSUME CoarseInv, NEW t \in Threads, ListInv', OthersCalls(t), Doing(t)',
         heap'[TailNode].key = heap[TailNode].key
  PROVE  CoarseInv'
BY DEF CoarseInv, Doing, OthersCalls

LEMMA CoarseCall ==
  ASSUME CoarseInv, NEW t \in Threads, NEW op \in {"add", "delete", "find"}, NEW k \in Keys, Coarse!Call(t, op, k)
  PROVE  CoarseInv'
<1> DEFINE node == Coarse!node_t(k, Null)
<1>1. Fields(node) /\ node.key = k /\ node.next = Null
  BY DEF Coarse!node_t, Fields
<1>2. Enter(t, op, k, "lock") /\ Creates(op, node)
  BY CoarseSteps DEF Coarse!Call, Coarse!create_node, Coarse!With, With, Creates
<1> HIDE DEF node
<1>3. ListInv /\ MemoryOK /\ "lock" \notin {"idle", "crashed"}
  BY DEF CoarseInv, ListInv
<1>4. ListInv' /\ OthersCalls(t) /\ \A n \in DOMAIN heap : heap'[n] = heap[n]
  BY <1>1, <1>2, <1>3, CallBegins
<1>5. pc'[t] = "lock"
  BY <1>2, <1>3 DEF Enter, Goto, ListInv, CallsOK
<1>6. heap'[TailNode].key = heap[TailNode].key /\ Doing(t)'
  BY <1>3, <1>4, <1>5, SuccAndRank DEF Doing
<1>. QED  BY <1>4, <1>6, CoarseOthers

LEMMA CoarseLockList ==
  ASSUME CoarseInv, NEW t \in Threads, Coarse!LockList(t)
  PROVE  CoarseInv'
<1>1. ListInv /\ MemoryOK /\ CallsOK /\ HeadNode \in DOMAIN heap /\ TailNode \in DOMAIN heap
  BY SuccAndRank DEF CoarseInv, ListInv
<1>2. /\ pc[t] = "lock" /\ heap' = [heap EXCEPT ![HeadNode].owner = t]
      /\ Goto(t, call[t].op) /\ Internal /\ my' = [my EXCEPT ![t] = my[t]]
  BY <1>1, CoarseSteps DEF Coarse!LockList, Coarse!Lock, CallsOK
<1>3. Busy(t) /\ call[t].op \notin {"idle", "crashed"}
  BY <1>1, <1>2 DEF CallsOK, Idling, Busy
<1>4. Linked(succ)
  BY <1>1, <1>2, LockLinks
<1>5. ListInv' /\ OthersCalls(t) /\ call'[t] = call[t] /\ pc'[t] = call[t].op
  BY <1>1, <1>2, <1>3, <1>4, CallGoesOn
<1>6. heap'[TailNode].key = heap[TailNode].key /\ Doing(t)'
  BY <1>1, <1>4, <1>5 DEF Linked, Doing
<1>. QED  BY <1>5, <1>6, CoarseOthers

LEMMA CoarseReturn ==
  ASSUME CoarseInv, NEW t \in Threads, Busy(t), NEW ret, Return(t, ret), MemoryOK', OthersNodes(t),
         ret = Effect(Contents, call[t]).ret, Contents' = Effect(Contents, call[t]).state,
         heap'[TailNode].key = heap[TailNode].key
  PROVE  CoarseInv'
<1>1. ListInv' /\ OthersCalls(t) /\ Idling(t)'
  BY CallReturned DEF CoarseInv
<1>2. Doing(t)'
  BY <1>1 DEF Doing, Idling
<1>. QED  BY <1>1, <1>2, CoarseOthers

(* A call that changes nothing but the owner. *)
LEMMA CoarseUnchanged ==
  ASSUME CoarseInv, NEW t \in Threads, Busy(t), NEW ret, Return(t, ret), Unlock(heap, {HeadNode}),
         ret = Effect(Contents, call[t]).ret, Contents = Effect(Contents, call[t]).state
  PROVE  CoarseInv'
<1>1. MemoryOK /\ CallsOK /\ TailNode \in DOMAIN heap
  BY SuccAndRank DEF CoarseInv, ListInv
<1>2. Linked(succ)
  BY <1>1, UnlockOnly
<1>3. made' = made
  BY DEF Return, Answer
<1>4. MemoryOK' /\ succ' = succ /\ Contents' = Contents
  BY <1>1, <1>2, <1>3, OnlyLocks
<1>5. OthersNodes(t)
  <2>1. SUFFICES ASSUME NEW u \in Threads \ {t}, call[u].op = "add"
                 PROVE  new(u) \in DOMAIN heap' /\ succ'[new(u)] = Null /\ heap'[new(u)].key = key(u)
    BY DEF OthersNodes
  <2>2. Busy(u)
    BY <1>1, <2>1 DEF CallsOK, Idling, Nothing
  <2>. QED  BY <1>2, <1>4, <2>1, <2>2 DEF Busy, Linked
<1>6. heap'[TailNode].key = heap[TailNode].key
  BY <1>1, <1>2 DEF Linked
<1>. QED  BY <1>4, <1>5, <1>6, CoarseReturn

(* What the three calls find at the place of their key.                     *)
LEMMA CoarsePlace ==
  ASSUME CoarseInv, NEW t \in Threads, NEW p, NEW c, pc[t] \in {"add", "delete", "find"},
         p = Coarse!Position(key(t)).pred, c = Coarse!Position(key(t)).curr
  PROVE  /\ Busy(t) /\ pc[t] = call[t].op /\ Place(p, key(t)) /\ c = succ[p] /\ key(t) \in Keys
         /\ TailNode \in WalkOf(succ) /\ ListInv /\ key(t) = call[t].key /\ heap[c].next = succ[c]
         /\ At1(p, key(t)) <=> (c # TailNode /\ heap[c].key = key(t))
         /\ At1(p, key(t)) <=> (succ[HeadNode] # TailNode /\ heap[c].key = key(t))
         /\ At1(p, key(t)) <=> key(t) \in Contents
<1>1. ListInv /\ MemoryOK /\ CallsOK /\ Doing(t)
  BY DEF CoarseInv, ListInv
<1>2. Busy(t) /\ pc[t] = call[t].op /\ key(t) \in Keys /\ key(t) = call[t].key
  BY <1>1 DEF CallsOK, Idling, Doing, Busy, key
<1>3. Place(p, key(t)) /\ c = succ[p]
  BY <1>1, <1>2, PositionFound
<1>4. c \in DOMAIN heap /\ heap[c].next = succ[c] /\ TailNode \in WalkOf(succ) /\ HeadNode \in WalkOf(succ)
  BY <1>1, <1>3, SuccAndRank DEF Place
<1>5. At1(p, key(t)) <=> key(t) \in Contents
  BY <1>1, <1>2, <1>3, PlaceShows
<1>6. At1(p, key(t)) <=> (c # TailNode /\ heap[c].key = key(t))
  BY <1>3 DEF At1
<1>7. succ[HeadNode] = TailNode => key(t) \notin Contents
  BY <1>1, EmptyList
<1>8. heap[TailNode].key # key(t)
  BY <1>2, KeysAssumption DEF CoarseInv
<1>9. At1(p, key(t)) <=> (succ[HeadNode] # TailNode /\ heap[c].key = key(t))
  BY <1>5, <1>6, <1>7, <1>8
<1>. QED  BY <1>1, <1>2, <1>3, <1>4, <1>5, <1>6, <1>9

LEMMA CoarseAdd ==
  ASSUME CoarseInv, NEW t \in Threads, Coarse!add(t)
  PROVE  CoarseInv'
<1> DEFINE p == Coarse!Position(key(t)).pred
           c == Coarse!Position(key(t)).curr
           S == {HeadNode}
<1>1. /\ pc[t] = "add"
      /\ \/ c # TailNode /\ heap[c].key = key(t) /\ Unlock(heap, S) /\ Return(t, 0)
         \/ /\ ~(c # TailNode /\ heap[c].key = key(t))
            /\ Unlock([heap EXCEPT ![new(t)].next = c, ![p].next = new(t)], S) /\ Return(t, key(t))
  BY CoarseSteps DEF Coarse!add
<1> HIDE DEF p, c
<1>2. /\ Busy(t) /\ call[t].op = "add" /\ Place(p, key(t)) /\ c = succ[p] /\ key(t) \in Keys
      /\ TailNode \in WalkOf(succ) /\ ListInv /\ MemoryOK /\ CallsOK /\ key(t) = call[t].key
      /\ At1(p, key(t)) <=> (c # TailNode /\ heap[c].key = key(t))
      /\ At1(p, key(t)) <=> key(t) \in Contents
  BY <1>1, CoarsePlace DEF p, c, ListInv
<1>3. CASE At1(p, key(t))
  <2>1. Return(t, 0) /\ Unlock(heap, {HeadNode})
    BY <1>1, <1>2, <1>3
  <2>2. key(t) \in Contents /\ Contents \cup {key(t)} = Contents
    BY <1>2, <1>3
  <2>3. 0 = Effect(Contents, call[t]).ret /\ Contents = Effect(Contents, call[t]).state
    BY <1>2, <2>2, Effects
  <2>. QED  BY <1>2, <2>1, <2>3, CoarseUnchanged
<1>4. CASE ~At1(p, key(t))
  <2>1. Return(t, key(t)) /\ Unlock(Inserted(new(t), p), S) /\ made' = made
    BY <1>1, <1>2, <1>4 DEF Inserted, Return, Answer
  <2> HIDE DEF S
  <2>2. /\ MemoryOK' /\ OthersNodes(t) /\ Contents' = Contents \cup {key(t)}
        /\ \A n \in WalkOf(succ) : heap'[n].key = heap[n].key
    BY <1>2, <1>4, <2>1, AddsNode
  <2>3. key(t) = Effect(Contents, call[t]).ret /\ Contents' = Effect(Contents, call[t]).state
    BY <1>2, <1>4, <2>2, Effects
  <2>. QED  BY <1>2, <2>1, <2>2, <2>3, CoarseReturn
<1>. QED  BY <1>3, <1>4

LEMMA CoarseDelete ==
  ASSUME CoarseInv, NEW t \in Threads, Coarse!delete(t)
  PROVE  CoarseInv'
<1> DEFINE p == Coarse!Position(key(t)).pred
           c == Coarse!Position(key(t)).curr
           S == {HeadNode}
<1>1. /\ pc[t] = "delete"
      /\ \/ /\ succ[HeadNode] # TailNode /\ heap[c].key = key(t)
            /\ Unlock([heap EXCEPT ![p].next = succ[c]], S) /\ Return(t, heap[c].key)
         \/ /\ ~(succ[HeadNode] # TailNode /\ heap[c].key = key(t))
            /\ Unlock(heap, S) /\ Return(t, 0)
  BY CoarseSteps DEF Coarse!delete
<1> HIDE DEF p, c
<1>2. /\ Busy(t) /\ call[t].op = "delete" /\ Place(p, key(t)) /\ c = succ[p] /\ key(t) \in Keys
      /\ TailNode \in WalkOf(succ) /\ ListInv /\ MemoryOK /\ CallsOK /\ key(t) = call[t].key
      /\ At1(p, key(t)) <=> (succ[HeadNode] # TailNode /\ heap[c].key = key(t))
      /\ At1(p, key(t)) <=> key(t) \in Contents
  BY <1>1, CoarsePlace DEF p, c, ListInv
<1>3. CASE At1(p, key(t))
  <2>1. Return(t, key(t)) /\ Unlock(Removed(p), S) /\ made' = made
    BY <1>1, <1>2, <1>3 DEF Removed, Return, Answer
  <2> HIDE DEF S
  <2>2. /\ MemoryOK' /\ OthersNodes(t) /\ Contents' = Contents \ {key(t)}
        /\ \A n \in WalkOf(succ) : heap'[n].key = heap[n].key
    BY <1>2, <1>3, <2>1, DropsNode
  <2>3. key(t) = Effect(Contents, call[t]).ret /\ Contents' = Effect(Contents, call[t]).state
    BY <1>2, <1>3, <2>2, Effects
  <2>. QED  BY <1>2, <2>1, <2>2, <2>3, CoarseReturn
<1>4. CASE ~At1(p, key(t))
  <2>1. Return(t, 0) /\ Unlock(heap, {HeadNode})
    BY <1>1, <1>2, <1>4
  <2>2. key(t) \notin Contents /\ Contents \ {key(t)} = Contents
    BY <1>2, <1>4
  <2>3. 0 = Effect(Contents, call[t]).ret /\ Contents = Effect(Contents, call[t]).state
    BY <1>2, <2>2, Effects
  <2>. QED  BY <1>2, <2>1, <2>3, CoarseUnchanged
<1>. QED  BY <1>3, <1>4

LEMMA CoarseFind ==
  ASSUME CoarseInv, NEW t \in Threads, Coarse!find(t)
  PROVE  CoarseInv'
<1> DEFINE p == Coarse!Position(key(t)).pred
           c == Coarse!Position(key(t)).curr
           ret == IF c # TailNode /\ heap[c].key = key(t) THEN key(t) ELSE 0
<1>1. pc[t] = "find" /\ Unlock(heap, {HeadNode}) /\ Return(t, ret)
  BY CoarseSteps DEF Coarse!find
<1> HIDE DEF p, c
<1>2. /\ Busy(t) /\ call[t].op = "find" /\ key(t) = call[t].key
      /\ At1(p, key(t)) <=> (c # TailNode /\ heap[c].key = key(t))
      /\ At1(p, key(t)) <=> key(t) \in Contents
  BY <1>1, CoarsePlace DEF p, c
<1>3. ret = Effect(Contents, call[t]).ret /\ Contents = Effect(Contents, call[t]).state
  BY <1>2, Effects
<1> HIDE DEF ret
<1>. QED  BY <1>1, <1>2, <1>3, CoarseUnchanged

LEMMA CoarseStep ==
  ASSUME CoarseInv, NEW t \in Threads, Coarse!Step(t)
  PROVE  CoarseInv'
BY CoarseLockList, CoarseAdd, CoarseDelete, CoarseFind DEF Coarse!Step

LEMMA CoarseInit == Coarse!Init => CoarseInv
<1>1. SUFFICES ASSUME Coarse!Init PROVE CoarseInv
  OBVIOUS
<1>2. PICK S \in SUBSET Keys :
        /\ heap = [n \in Coarse!InitialNodes(S) |-> Coarse!node_t(Coarse!KeyOf(n, 0, 0), Coarse!Successor(S, n))]
        /\ Coarse!Idle /\ Coarse!NoCalls({S})
  BY <1>1 DEF Coarse!Init
<1>3. \A T : Coarse!First(T) = First(T)
  BY DEF Coarse!First, First, Coarse!Old, Old, Coarse!Min, Min
<1>4. \A n : Coarse!KeyOf(n, 0, 0) = KeyOf(n, 0, 0) /\ Coarse!Successor(S, n) = Successor(S, n)
  BY <1>3 DEF Coarse!KeyOf, KeyOf, Coarse!Successor, Successor
<1>5. DOMAIN heap = InitialNodes(S)
  BY <1>2 DEF Coarse!InitialNodes, InitialNodes, Coarse!Old, Old
<1>6. \A n \in DOMAIN heap : /\ Fields(heap[n]) /\ heap[n].key = KeyOf(n, 0, 0)
                             /\ heap[n].next = Successor(S, n)
  BY <1>2, <1>4, <1>5 DEF Coarse!node_t, Fields
<1>7. Idle /\ NoCalls({S})
  BY <1>2 DEF Coarse!Idle, Idle, Coarse!Locals, Locals, Coarse!NoCalls, NoCalls, Coarse!Nothing, Nothing
<1>8. ListInv
  BY <1>5, <1>6, <1>7, Initially
<1>9. heap[TailNode].key = 0
  BY <1>5, <1>6, NamesAssumption DEF InitialNodes, KeyOf
<1>10. \A t \in Threads : Doing(t)
  BY <1>7 DEF Doing, Idle
<1>. QED  BY <1>8, <1>9, <1>10 DEF CoarseInv
-----------------------------------------------------------------------------
(* The third list: LazySynchroList.c.  A node is published when it has been *)
(* linked; it stays so, with a rank below that of its successor, whether or *)
(* not it is still on the list.                                             *)
Published(n) == n \in DOMAIN heap /\ (n = TailNode \/ succ[n] # Null)
LazyMemory ==
  /\ \A n \in DOMAIN heap : "marked" \in DOMAIN heap[n] /\ heap[n].marked \in BOOLEAN
  /\ heap[HeadNode].key = Lowest /\ heap[TailNode].key = Highest
  /\ ~heap[HeadNode].marked /\ ~heap[TailNode].marked
  /\ \A n \in DOMAIN heap : succ[n] # Null => Published(succ[n]) /\ rank[n] < rank[succ[n]]
  /\ \A n \in DOMAIN heap : heap[n].marked => Published(n)
  /\ \A n \in DOMAIN heap : Published(n) /\ ~heap[n].marked => n \in WalkOf(succ)
  /\ \A n \in WalkOf(succ) : heap[n].marked => \E u \in Threads : pc[u] = "unlink" /\ my[u].curr = n

(* What a thread knows of pred and curr: they are on the two sides of its   *)
(* key, and from the validation on they have been neighbours on the list.   *)
LazyThread(t) ==
  /\ {"pred", "curr"} \subseteq DOMAIN my[t]
  /\ pc[t] = "idle" => my[t].curr = Null
  /\ pc[t] # "idle" => (pc[t] = "find" <=> call[t].op = "find")
  /\ pc[t] = "find" => my[t].curr = Null \/ Published(my[t].curr)
  /\ pc[t] \in {"walk", "lock_pred", "lock_curr", "validate", "unlink"} =>
       Published(my[t].pred) /\ Published(my[t].curr) /\ rank[my[t].pred] < key(t)
  /\ pc[t] = "walk" => rank[my[t].curr] < key(t)
  /\ pc[t] \in {"lock_pred", "lock_curr", "validate", "unlink"} => key(t) <= rank[my[t].curr]
  /\ pc[t] \in {"lock_curr", "validate", "unlink"} => heap[my[t].pred].owner = t
  /\ pc[t] \in {"validate", "unlink"} => heap[my[t].curr].owner = t
  /\ pc[t] = "unlink" => /\ call[t].op = "delete" /\ rank[my[t].curr] = key(t)
                         /\ heap[my[t].curr].marked /\ ~heap[my[t].pred].marked
                         /\ succ[my[t].pred] = my[t].curr

(* What the calls in progress add to the explanations.  A delete that has   *)
(* marked its node may or may not have taken effect; so may a find that has *)
(* met, since it began, a moment without its key, and then it returns 0.    *)
Unlinking == {t \in Threads : pc[t] = "unlink"}
Finding == {t \in Threads : call[t].op = "find"}
Present == {heap[n].key : n \in {m \in WalkOf(succ) \ {HeadNode, TailNode} : ~heap[m].marked}}
Fits(c, F) ==
  /\ DOMAIN c.ret \subseteq F \cup Unlinking
  /\ \A t \in F : IF t \in DOMAIN c.ret THEN c.ret[t] = 0 ELSE key(t) \notin Present
  /\ \A t \in Unlinking \cap DOMAIN c.ret : c.ret[t] = key(t)
  /\ c.state = Contents \ {key(t) : t \in Unlinking \cap DOMAIN c.ret}
(* A find that has to find its key, as long as the node is not marked.      *)
Spot(t) == IF my[t].curr = Null THEN HeadNode ELSE my[t].curr
WillFind(t) == \E m \in DOMAIN heap : ~heap[m].marked /\ rank[m] = key(t) /\ m \in Reachable(succ, Spot(t))
LazyExplained == \E G \in SUBSET Finding :
  /\ \A F \in SUBSET G : \E c \in configs : Fits(c, F)
  /\ \A t \in Finding \ G : WillFind(t)
LazyInv == MemoryOK /\ CallsOK /\ LazyMemory /\ (\A t \in Threads : LazyThread(t)) /\ LazyExplained

(* Who could be reached before a change still can.                          *)
LEMMA ReachedAfterCreation ==
  ASSUME NEW f, InMemory(f), NEW g, DOMAIN f \subseteq DOMAIN g, \A n \in DOMAIN f : g[n] = f[n],
         NEW a \in DOMAIN f, NEW b \in Reachable(f, a)
  PROVE  b \in Reachable(g, a)
<1>1. ASSUME NEW S \in SUBSET DOMAIN g, a \in S, Closed(g, S) PROVE b \in S
  <2>1. Closed(f, S \cap DOMAIN f) /\ S \cap DOMAIN f \in SUBSET DOMAIN f /\ a \in S \cap DOMAIN f
    BY <1>1 DEF Closed, InMemory
  <2>. QED  BY <2>1 DEF Reachable
<1>2. b \in DOMAIN g
  BY DEF Reachable
<1>. QED  BY <1>1, <1>2 DEF Reachable

LEMMA ReachedAfterInsertion ==
  ASSUME NEW f, InMemory(f), NEW p \in DOMAIN f, NEW m \in DOMAIN f, m # p, f[m] = Null,
         NEW g, g = [n \in DOMAIN f |-> IF n = p THEN m ELSE IF n = m THEN f[p] ELSE f[n]],
         NEW a \in DOMAIN f, NEW b \in Reachable(f, a)
  PROVE  b \in Reachable(g, a)
<1>1. ASSUME NEW S \in SUBSET DOMAIN g, a \in S, Closed(g, S) PROVE b \in S
  <2>1. ASSUME NEW n \in S, f[n] # Null PROVE f[n] \in S
    <3>1. CASE n = p
      <4>1. g[p] = m /\ m # Null /\ g[m] = f[p]
        BY DEF InMemory
      <4>2. m \in S
        BY <1>1, <2>1, <3>1, <4>1 DEF Closed
      <4>. QED  BY <1>1, <2>1, <3>1, <4>1, <4>2 DEF Closed
    <3>2. CASE n # p
      <4>1. n \in DOMAIN f /\ n # m /\ g[n] = f[n]
        BY <1>1, <2>1, <3>2
      <4>. QED  BY <1>1, <2>1, <4>1 DEF Closed
    <3>. QED  BY <3>1, <3>2
  <2>2. Closed(f, S) /\ S \in SUBSET DOMAIN f
    BY <1>1, <2>1 DEF Closed
  <2>. QED  BY <1>1, <2>2 DEF Reachable
<1>2. b \in DOMAIN g
  BY DEF Reachable
<1>. QED  BY <1>1, <1>2 DEF Reachable

LEMMA ReachedAfterRemoval ==
  ASSUME NEW f, InMemory(f), NEW p \in DOMAIN f, f[p] # Null,
         NEW g, g = [n \in DOMAIN f |-> IF n = p THEN f[f[p]] ELSE f[n]],
         NEW a \in DOMAIN f, NEW b \in Reachable(f, a), b # f[p]
  PROVE  b \in Reachable(g, a)
<1>1. ASSUME NEW S \in SUBSET DOMAIN g, a \in S, Closed(g, S) PROVE b \in S
  <2> DEFINE T == S \cup {n \in {f[p]} : p \in S}
  <2>1. ASSUME NEW n \in T, f[n] # Null PROVE f[n] \in T
    <3>1. CASE n = p /\ p \in S
      BY <3>1
    <3>2. CASE n \in S /\ n # p
      <4>1. n \in DOMAIN f /\ g[n] = f[n]
        BY <1>1, <3>2
      <4>. QED  BY <1>1, <2>1, <3>2, <4>1 DEF Closed
    <3>3. CASE n = f[p] /\ p \in S
      <4>1. g[p] = f[n]
        BY <3>3
      <4>. QED  BY <1>1, <2>1, <3>3, <4>1 DEF Closed
    <3>. QED  BY <2>1, <3>1, <3>2, <3>3
  <2>2. Closed(f, T) /\ T \in SUBSET DOMAIN f /\ a \in T
    <3>1. f[p] \in DOMAIN f
      BY DEF InMemory
    <3>. QED  BY <1>1, <2>1, <3>1 DEF Closed
  <2>3. b \in T
    <3> HIDE DEF T
    <3>. QED  BY <2>2 DEF Reachable
  <2>. QED  BY <2>3
<1>2. b \in DOMAIN g
  BY DEF Reachable
<1>. QED  BY <1>1, <1>2 DEF Reachable

LEMMA LeastKey == Lowest \in Int /\ \A k \in Keys : Lowest < k
<1>1. PICK low \in Keys : \A k \in Keys : low <= k
  BY KeysAssumption
<1>2. Min(Keys) \in Keys /\ \A y \in Keys : Min(Keys) <= y
  BY <1>1 DEF Min
<1>3. \A k \in Keys : k \in Int
  BY KeysAssumption
<1>. QED  BY <1>2, <1>3 DEF Lowest

(* Keys and ranks compare alike, those of the sentinels too.                *)
LEMMA KeyAndRank ==
  ASSUME MemoryOK, LazyMemory, NEW n \in DOMAIN heap, NEW k \in Keys
  PROVE  /\ heap[n].key \in Int /\ rank[n] \in 0 .. Highest /\ rank[n] \in Int
         /\ heap[n].key < k <=> rank[n] < k
         /\ heap[n].key = k <=> rank[n] = k
<1>1. k \in 1 .. Highest - 1 /\ Highest \in Nat /\ Lowest \in Int /\ Lowest < k
  BY GreatestKey, LeastKey
<1>2. CASE n = HeadNode
  BY <1>1, <1>2, SuccAndRank DEF LazyMemory
<1>3. CASE n = TailNode
  BY <1>1, <1>3, SuccAndRank DEF LazyMemory
<1>4. CASE n \notin {HeadNode, TailNode}
  BY <1>1, <1>4, SuccAndRank
<1>. QED  BY <1>2, <1>3, <1>4

LEMMA OnTheList ==
  ASSUME MemoryOK
  PROVE  /\ \A n \in WalkOf(succ) : Published(n)
         /\ HeadNode \in DOMAIN heap /\ TailNode \in DOMAIN heap /\ Published(HeadNode) /\ Published(TailNode)
         /\ succ[TailNode] = Null /\ Null \notin DOMAIN heap
<1>1. \A n \in WalkOf(succ) : Published(n)
  BY SuccAndRank DEF Published
<1>2. succ[TailNode] = Null /\ Null \notin DOMAIN heap
  BY SuccAndRank DEF MemoryOK, Sorted, InMemory
<1>. QED  BY <1>1, <1>2, SuccAndRank

(* Two neighbours that are not marked, on the two sides of a key.           *)
LEMMA LazyPlace ==
  ASSUME MemoryOK, LazyMemory, NEW k \in Keys, NEW p, Published(p), ~heap[p].marked, rank[p] < k,
         NEW c, Published(c), c = succ[p], k <= rank[c]
  PROVE  /\ Place(p, k) /\ p \in WalkOf(succ) /\ c \in WalkOf(succ) /\ p # TailNode /\ c # HeadNode
         /\ heap[c].key = k <=> At1(p, k)
         /\ heap[c].key = k => c # TailNode
<1>1. /\ p \in DOMAIN heap /\ c \in DOMAIN heap /\ k \in 1 .. Highest - 1 /\ Highest \in Nat
      /\ rank[HeadNode] = 0 /\ rank[TailNode] = Highest
  BY GreatestKey, SuccAndRank DEF Published
<1>2. p # TailNode /\ c # HeadNode
  BY <1>1
<1>3. p \in WalkOf(succ) /\ c \in WalkOf(succ)
  BY <1>1, <1>2, SuccAndRank DEF LazyMemory
<1>4. heap[p].key < k /\ k <= heap[c].key
  BY <1>1, KeyAndRank
<1>5. heap[TailNode].key # k
  BY <1>1 DEF LazyMemory
<1>. QED  BY <1>2, <1>3, <1>4, <1>5 DEF Place, At1

(* A step of t leaves alone what the others know.                           *)
Kept(t) == \A n : Published(n) =>
  /\ Published(n)' /\ heap'[n].key = heap[n].key
  /\ \A u \in Threads \ {t} : heap[n].owner = u =>
       heap'[n].owner = u /\ heap'[n].marked = heap[n].marked /\ succ'[n] = succ[n]

LEMMA SameRanks ==
  ASSUME NEW t, Kept(t)
  PROVE  \A n : Published(n) => rank'[n] = rank[n] /\ n \in DOMAIN heap'
BY DEF Kept, Published, rank

LEMMA LazyOthers ==
  ASSUME NEW t \in Threads, NEW u \in Threads \ {t}, LazyThread(u), OthersCalls(t), Kept(t)
  PROVE  LazyThread(u)'
<1>1. call'[u] = call[u] /\ pc'[u] = pc[u] /\ my'[u] = my[u] /\ key(u)' = key(u)
  BY DEF OthersCalls, key
<1>2. ASSUME NEW n, Published(n)
      PROVE  /\ n \in DOMAIN heap' /\ (n = TailNode \/ succ'[n] # Null) /\ rank'[n] = rank[n]
             /\ heap[n].owner = u => heap'[n].owner = u /\ heap'[n].marked = heap[n].marked /\ succ'[n] = succ[n]
  BY <1>2, SameRanks DEF Kept, Published
<1>3. CASE pc[u] \in {"walk", "lock_pred", "lock_curr", "validate", "unlink"}
  <2>1. PICK p, c : p = my[u].pred /\ c = my[u].curr
    OBVIOUS
  <2>2. Published(p) /\ Published(c)
    BY <1>3, <2>1 DEF LazyThread
  <2>3. Published(my[u].pred)' /\ Published(my[u].curr)' /\ rank'[p] = rank[p] /\ rank'[c] = rank[c]
    BY <1>1, <1>2, <2>1, <2>2 DEF Published
  <2>4. /\ heap[p].owner = u => heap'[p].owner = u /\ heap'[p].marked = heap[p].marked /\ succ'[p] = succ[p]
        /\ heap[c].owner = u => heap'[c].owner = u /\ heap'[c].marked = heap[c].marked
    BY <1>2, <2>2
  <2>. QED  BY <1>1, <1>3, <2>1, <2>3, <2>4 DEF LazyThread
<1>4. CASE pc[u] \notin {"walk", "lock_pred", "lock_curr", "validate", "unlink"}
  <2>1. pc[u] = "find" => my[u].curr = Null \/ Published(my[u].curr)'
    <3>1. SUFFICES ASSUME pc[u] = "find", my[u].curr # Null PROVE Published(my[u].curr)'
      OBVIOUS
    <3>2. PICK c : c = my[u].curr
      OBVIOUS
    <3>3. Published(c)
      BY <3>1, <3>2 DEF LazyThread
    <3>. QED  BY <1>1, <1>2, <3>2, <3>3 DEF Published
  <2>. QED  BY <1>1, <1>4, <2>1 DEF LazyThread
<1>. QED  BY <1>3, <1>4

(* The operators of the model of this list are those of ThreadSteps.        *)
LEMMA LazyAnswer == \A t, ret : Lazy!Answer(t, ret) <=> Answer(t, ret)
<1>1. \A c, t : Lazy!TakeEffect(c, t) = TakeEffect(c, t)
  BY DEF Lazy!TakeEffect, TakeEffect, Lazy!Effect, Effect, Lazy!Outcome, Outcome
<1>2. \A c, s : Lazy!TakeEffects(c, s) = TakeEffects(c, s)
  BY <1>1 DEF Lazy!TakeEffects, TakeEffects, Lazy!MapThenFoldSet, MapThenFoldSet, Lazy!Max, Max
<1>3. \A S : Lazy!Orders(S) = Orders(S)
  BY DEF Lazy!Orders, Orders, Lazy!Bijection, Bijection, Lazy!Injection, Injection,
         Lazy!Surjection, Surjection, Lazy!IsInjective, IsInjective, Lazy!Cardinality, Cardinality
<1>4. \A c, t : Lazy!Explained(c, t) = Explained(c, t)
  BY <1>1, <1>2, <1>3 DEF Lazy!Explained, Explained, Lazy!Pending, Pending, Lazy!Nothing, Nothing
<1>. QED  BY <1>4, ZenonT(60) DEF Lazy!Answer, Answer, Lazy!Nothing, Nothing

LEMMA LazySteps ==
  /\ \A t, ret : Lazy!Return(t, ret) <=> Return(t, ret)
  /\ \A t, op, k, l : Lazy!Enter(t, op, k, l) <=> Enter(t, op, k, l)
  /\ \A t, l : (Lazy!Goto(t, l) <=> Goto(t, l)) /\ (Lazy!At(t, l) <=> pc[t] = l)
  /\ \A h, S : Lazy!Unlock(h, S) <=> Unlock(h, S)
  /\ (Lazy!Internal <=> Internal) /\ \A t : Lazy!key(t) = key(t) /\ Lazy!new(t) = new(t)
<1>1. \A t, ret : Lazy!Return(t, ret) <=> Return(t, ret)
  BY LazyAnswer DEF Lazy!Return, Return, Lazy!Goto, Goto, Lazy!Locals, Locals
<1>2. \A t, op, k, l : Lazy!Enter(t, op, k, l) <=> Enter(t, op, k, l)
  BY DEF Lazy!Enter, Enter, Lazy!Invoke, Invoke, Lazy!Goto, Goto, Lazy!Used, Used, Lazy!Nothing, Nothing
<1>3. (Lazy!Internal <=> Internal) /\ \A t : Lazy!key(t) = key(t) /\ Lazy!new(t) = new(t)
  BY DEF Lazy!Internal, Internal, Lazy!callVars, callVars, Lazy!key, key, Lazy!new, new
<1>4. \A t, l : (Lazy!Goto(t, l) <=> Goto(t, l)) /\ (Lazy!At(t, l) <=> pc[t] = l)
  BY DEF Lazy!Goto, Goto, Lazy!At
<1>5. \A h, S : Lazy!Unlock(h, S) <=> Unlock(h, S)
  BY DEF Lazy!Unlock, Unlock
<1>. QED  BY <1>1, <1>2, <1>3, <1>4, <1>5

(* A step that writes neither links nor marks. *)
Calm(t) ==
  /\ Linked(succ) /\ made' = made
  /\ \A n \in DOMAIN heap : "marked" \in DOMAIN heap'[n] /\ heap'[n].marked = heap[n].marked
  /\ \A n \in DOMAIN heap : \A u \in Threads \ {t} : heap[n].owner = u => heap'[n].owner = u

LEMMA CalmMemory ==
  ASSUME MemoryOK, LazyMemory, NEW t \in Threads, Calm(t), OthersCalls(t), pc[t] # "unlink"
  PROVE  /\ LazyMemory' /\ Kept(t) /\ MemoryOK' /\ succ' = succ /\ rank' = rank
         /\ Contents' = Contents /\ Present' = Present
         /\ DOMAIN heap' = DOMAIN heap /\ \A n : Published(n)' <=> Published(n)
<1>1. MemoryOK' /\ succ' = succ /\ Contents' = Contents
  BY OnlyLocks DEF Calm
<1>2. /\ DOMAIN heap' = DOMAIN heap
      /\ \A n \in DOMAIN heap : /\ heap'[n].key = heap[n].key /\ heap'[n].marked = heap[n].marked
                                /\ "marked" \in DOMAIN heap'[n]
  BY DEF Calm, Linked
<1>3. rank' = rank
  BY <1>2 DEF rank
<1>4. \A n : Published(n)' <=> Published(n)
  BY <1>1, <1>2 DEF Published
<1>5. WalkOf(succ') = WalkOf(succ) /\ WalkOf(succ) \subseteq DOMAIN heap /\ {HeadNode, TailNode} \subseteq DOMAIN heap
  BY <1>1, SuccAndRank
<1>6. Present' = Present
  BY <1>2, <1>5 DEF Present
<1>7. Kept(t)
  BY <1>1, <1>2, <1>4 DEF Kept, Calm, Published
<1>8. LazyMemory'
  <2>1. /\ \A n \in DOMAIN heap : "marked" \in DOMAIN heap'[n] /\ heap'[n].marked \in BOOLEAN
        /\ heap'[HeadNode].key = Lowest /\ heap'[TailNode].key = Highest
        /\ ~heap'[HeadNode].marked /\ ~heap'[TailNode].marked
    BY <1>2, <1>5 DEF LazyMemory
  <2>2. \A n \in DOMAIN heap : succ[n] # Null =>
           succ[n] \in DOMAIN heap /\ (succ[n] = TailNode \/ succ[succ[n]] # Null) /\ rank[n] < rank[succ[n]]
    BY DEF LazyMemory, Published
  <2>3. \A n \in DOMAIN heap : /\ heap'[n].marked => n = TailNode \/ succ[n] # Null
                               /\ (n = TailNode \/ succ[n] # Null) /\ ~heap'[n].marked => n \in WalkOf(succ)
    BY <1>2 DEF LazyMemory, Published
  <2>4. \A n \in WalkOf(succ) : heap'[n].marked => \E u \in Threads : pc'[u] = "unlink" /\ my'[u].curr = n
    BY <1>2, <1>5 DEF LazyMemory, OthersCalls
  <2>. QED  BY <1>1, <1>2, <1>3, <1>5, <2>1, <2>2, <2>3, <2>4 DEF LazyMemory, Published
<1>. QED  BY <1>1, <1>2, <1>3, <1>4, <1>6, <1>7, <1>8

LEMMA CalmFind ==
  ASSUME MemoryOK, NEW t \in Threads, Calm(t), succ' = succ, rank' = rank,
         NEW u \in Threads, key(u)' = key(u), my'[u].curr = my[u].curr, WillFind(u)
  PROVE  WillFind(u)'
<1>1. PICK m \in DOMAIN heap : ~heap[m].marked /\ rank[m] = key(u) /\ m \in Reachable(succ, Spot(u))
  BY DEF WillFind
<1>2. m \in DOMAIN heap' /\ ~heap'[m].marked /\ Spot(u)' = Spot(u)
  BY <1>1 DEF Calm, Linked, Spot
<1>. QED  BY <1>1, <1>2 DEF WillFind

LEMMA StillExplained ==
  ASSUME LazyExplained, call' = call, configs' = configs, Contents' = Contents, Present' = Present,
         Unlinking' = Unlinking, \A u \in Finding : WillFind(u) => WillFind(u)'
  PROVE  LazyExplained'
<1>1. PICK G \in SUBSET Finding : /\ \A F \in SUBSET G : \E c \in configs : Fits(c, F)
                                  /\ \A u \in Finding \ G : WillFind(u)
  BY DEF LazyExplained
<1>2. Finding' = Finding /\ \A u : key(u)' = key(u)
  BY DEF Finding, key
<1>3. \A c, F : Fits(c, F)' <=> Fits(c, F)
  BY <1>2 DEF Fits
<1>4. \A u \in Finding' \ G : WillFind(u)'
  BY <1>1, <1>2 DEF Finding
<1>. QED  BY <1>1, <1>2, <1>3, <1>4 DEF LazyExplained

LEMMA LazyTogether ==
  ASSUME LazyInv, NEW t \in Threads, MemoryOK', CallsOK', LazyMemory', OthersCalls(t), Kept(t),
         LazyThread(t)', LazyExplained'
  PROVE  LazyInv'
BY LazyOthers DEF LazyInv

LEMMA LazyGoesOn ==
  ASSUME LazyInv, NEW t \in Threads, pc[t] \notin {"idle", "unlink"}, Internal,
         NEW l, Goto(t, l), l \notin {"idle", "crashed", "unlink"},
         NEW v, my' = [my EXCEPT ![t] = v], Calm(t),
         v.curr = my[t].curr \/ call[t].op # "find" \/ (WillFind(t) => WillFind(t)')
  PROVE  /\ MemoryOK' /\ Busy(t) /\ call' = call /\ pc'[t] = l /\ my'[t] = v /\ succ' = succ /\ rank' = rank
         /\ \A n : Published(n)' <=> Published(n)
         /\ LazyThread(t)' => LazyInv'
<1>1. MemoryOK /\ CallsOK /\ LazyMemory /\ LazyExplained
  BY DEF LazyInv
<1>2. Busy(t)
  BY <1>1 DEF CallsOK, Idling
<1>3. /\ MemoryOK' /\ CallsOK' /\ OthersCalls(t) /\ succ' = succ /\ Contents' = Contents
      /\ call' = call /\ configs' = configs /\ pc'[t] = l /\ my'[t] = v
  BY <1>1, <1>2, CallContinues DEF Calm
<1>4. LazyMemory' /\ Kept(t) /\ rank' = rank /\ Present' = Present /\ \A n : Published(n)' <=> Published(n)
  BY <1>1, <1>3, CalmMemory
<1>5. Unlinking' = Unlinking
  BY <1>3 DEF Unlinking, OthersCalls
<1>6. ASSUME NEW u \in Finding, WillFind(u) PROVE WillFind(u)'
  <2>1. key(u)' = key(u) /\ u \in Threads
    BY <1>3 DEF key, Finding
  <2>2. CASE u # t
    BY <1>1, <1>3, <1>4, <1>6, <2>1, <2>2, CalmFind DEF OthersCalls
  <2>3. CASE u = t
    <3>1. my'[u].curr = my[u].curr \/ WillFind(u)'
      BY <1>3, <1>6, <2>3 DEF Finding
    <3>. QED  BY <1>1, <1>3, <1>4, <1>6, <2>1, <3>1, CalmFind
  <2>. QED  BY <2>2, <2>3
<1>7. LazyExplained'
  BY <1>1, <1>3, <1>4, <1>5, <1>6, StillExplained
<1>. QED  BY <1>2, <1>3, <1>4, <1>7, LazyTogether

LEMMA NothingWritten ==
  ASSUME MemoryOK, LazyMemory, NEW t, heap' = heap, made' = made
  PROVE  Calm(t)
BY DEF Calm, Linked, succ, MemoryOK, LazyMemory

LEMMA MutexTaken ==
  ASSUME MemoryOK, LazyMemory, NEW t, NEW n \in DOMAIN heap, heap[n].owner = Null, made' = made,
         heap' = [heap EXCEPT ![n].owner = t]
  PROVE  Calm(t) /\ heap'[n].owner = t /\ \A m \in DOMAIN heap : m # n => heap'[m] = heap[m]
<1>1. Linked(succ) /\ heap'[n].owner = t /\ \A m \in DOMAIN heap : m # n => heap'[m] = heap[m]
  BY LockLinks
<1>2. heap'[n] = [heap[n] EXCEPT !.owner = t] /\ "marked" \in DOMAIN heap[n]
  BY DEF LazyMemory
<1>3. "marked" \in DOMAIN heap'[n] /\ heap'[n].marked = heap[n].marked
  BY <1>2
<1>. QED  BY <1>1, <1>3, NamesAssumption DEF Calm, LazyMemory

LEMMA MarksKept ==
  ASSUME NEW h, DOMAIN h = DOMAIN heap, NEW S, Unlock(h, S), \A n \in DOMAIN heap : "marked" \in DOMAIN h[n]
  PROVE  \A n \in DOMAIN heap : "marked" \in DOMAIN heap'[n] /\ heap'[n].marked = h[n].marked
<1>1. SUFFICES ASSUME NEW n \in DOMAIN heap PROVE "marked" \in DOMAIN heap'[n] /\ heap'[n].marked = h[n].marked
  OBVIOUS
<1>2. CASE n \in S
  <2>1. heap'[n] = [h[n] EXCEPT !.owner = Null] /\ "marked" \in DOMAIN h[n]
    BY <1>2 DEF Unlock
  <2>. QED  BY <2>1
<1>3. CASE n \notin S
  BY <1>3 DEF Unlock
<1>. QED  BY <1>2, <1>3

LEMMA MutexesGiven ==
  ASSUME MemoryOK, LazyMemory, NEW t, NEW S, Unlock(heap, S), \A n \in S : heap[n].owner = t, made' = made
  PROVE  Calm(t)
<1>1. /\ Linked(succ)
      /\ \A n \in DOMAIN heap : heap'[n].owner = IF n \in S THEN Null ELSE heap[n].owner
  BY UnlockOnly
<1>2. \A n \in DOMAIN heap : "marked" \in DOMAIN heap'[n] /\ heap'[n].marked = heap[n].marked
  BY MarksKept DEF LazyMemory
<1>. QED  BY <1>1, <1>2 DEF Calm

LEMMA LazyContinue ==
  ASSUME LazyInv, NEW t \in Threads, pc[t] \in {"start", "walk"}, heap' = heap, Internal,
         NEW p, NEW c, Lazy!Continue(t, p, c), Published(p), Published(c), rank[p] < key(t)
  PROVE  LazyInv'
<1>1. MemoryOK /\ CallsOK /\ LazyMemory /\ LazyThread(t) /\ made' = made
  BY DEF LazyInv, Internal, callVars
<1>2. Busy(t) /\ key(t) \in Keys /\ call[t].op # "find"
  BY <1>1 DEF CallsOK, Idling, Busy, LazyThread
<1> DEFINE l == IF Lazy!Before(t, c) THEN "walk" ELSE "lock_pred"
           v == [x \in DOMAIN my[t] \cup {"pred", "curr"} |->
                   IF x \in {"pred", "curr"} THEN [pred |-> p, curr |-> c][x] ELSE my[t][x]]
<1>3. Goto(t, l)
  BY LazySteps DEF Lazy!Continue
<1>4. my' = [my EXCEPT ![t] = v] /\ {"pred", "curr"} \subseteq DOMAIN v /\ v.pred = p /\ v.curr = c
  BY DEF Lazy!Continue, Lazy!Set
<1>5. Lazy!Before(t, c) <=> rank[c] < key(t)
  <2>1. c \in DOMAIN heap /\ (c = TailNode => rank[c] = Highest) /\ key(t) \in 1 .. Highest - 1 /\ Highest \in Nat
    BY <1>1, <1>2, SuccAndRank, GreatestKey DEF Published
  <2>. QED  BY <1>1, <1>2, <2>1, KeyAndRank, LazySteps DEF Lazy!Before
<1>6. l \in {"walk", "lock_pred"} /\ (l = "walk" <=> rank[c] < key(t))
  BY <1>5
<1>7. Calm(t)
  BY <1>1, NothingWritten
<1> HIDE DEF l, v
<1>8. /\ call' = call /\ pc'[t] = l /\ my'[t] = v /\ succ' = succ /\ rank' = rank
      /\ \A n : Published(n)' <=> Published(n)
      /\ LazyThread(t)' => LazyInv'
  <2>1. pc[t] \notin {"idle", "unlink"} /\ l \notin {"idle", "crashed", "unlink"}
    BY <1>6
  <2>. QED  BY <1>2, <1>3, <1>4, <1>7, <2>1, LazyGoesOn
<1>9. rank[p] \in Int /\ rank[c] \in Int /\ key(t) \in Int
  BY <1>1, <1>2, KeyAndRank, GreatestKey DEF Published
<1>10. Published(my[t].pred)' /\ Published(my[t].curr)'
  BY <1>4, <1>8 DEF Published
<1>11. LazyThread(t)'
  BY <1>2, <1>4, <1>6, <1>8, <1>9, <1>10 DEF LazyThread, key
<1>. QED  BY <1>8, <1>11

LEMMA LazyWalk ==
  ASSUME LazyInv, NEW t \in Threads, Lazy!Walk(t)
  PROVE  LazyInv'
<1> DEFINE p == my[t].curr
<1>1. pc[t] = "walk" /\ Lazy!Continue(t, p, heap[p].next) /\ heap' = heap /\ Internal
  BY LazySteps DEF Lazy!Walk
<1>2. MemoryOK /\ LazyMemory /\ LazyThread(t) /\ CallsOK
  BY DEF LazyInv
<1>3. Published(p) /\ rank[p] < key(t)
  BY <1>1, <1>2 DEF LazyThread
<1>4. p # TailNode
  <2>1. key(t) \in Keys
    BY <1>1, <1>2 DEF CallsOK, Idling, Busy
  <2>. QED  BY <1>2, <1>3, <2>1, SuccAndRank, GreatestKey
<1>5. heap[p].next = succ[p] /\ Published(succ[p])
  BY <1>2, <1>3, <1>4 DEF Published, LazyMemory, succ
<1> HIDE DEF p
<1>. QED  BY <1>1, <1>3, <1>5, LazyContinue

LEMMA LazyLockPred ==
  ASSUME LazyInv, NEW t \in Threads, Lazy!LockPred(t)
  PROVE  LazyInv'
<1>1. PICK p : p = my[t].pred
  OBVIOUS
<1>2. /\ pc[t] = "lock_pred" /\ heap[p].owner = Null /\ heap' = [heap EXCEPT ![p].owner = t]
      /\ Goto(t, "lock_curr") /\ my' = my /\ Internal
  BY <1>1, LazySteps DEF Lazy!LockPred, Lazy!Lock
<1>3. MemoryOK /\ LazyMemory /\ LazyThread(t) /\ CallsOK /\ made' = made
  BY <1>2 DEF LazyInv, Internal, callVars
<1>4. Published(p) /\ p \in DOMAIN heap /\ call[t].op # "find"
  BY <1>1, <1>2, <1>3 DEF LazyThread, Published
<1>5. Calm(t) /\ heap'[p].owner = t
  BY <1>2, <1>3, <1>4, MutexTaken
<1>6. my' = [my EXCEPT ![t] = my[t]]
  BY <1>2, <1>3 DEF CallsOK
<1>7. /\ call' = call /\ pc'[t] = "lock_curr" /\ my'[t] = my[t] /\ succ' = succ /\ rank' = rank
      /\ \A n : Published(n)' <=> Published(n)
      /\ LazyThread(t)' => LazyInv'
  <2>1. /\ pc[t] \notin {"idle", "unlink"} /\ Internal /\ Goto(t, "lock_curr") /\ Calm(t)
        /\ call[t].op # "find"
    BY <1>2, <1>4, <1>5
  <2>. QED  BY <1>6, <2>1, LazyGoesOn
<1>8. Published(my[t].pred)' /\ Published(my[t].curr)'
  BY <1>2, <1>3, <1>7 DEF Published, LazyThread
<1>9. LazyThread(t)'
  BY <1>1, <1>2, <1>3, <1>5, <1>7, <1>8 DEF LazyThread, key
<1>. QED  BY <1>7, <1>9

LEMMA LazyLockCurr ==
  ASSUME LazyInv, NEW t \in Threads, Lazy!LockCurr(t)
  PROVE  LazyInv'
<1>1. PICK c, p : c = my[t].curr /\ p = my[t].pred
  OBVIOUS
<1>2. /\ pc[t] = "lock_curr" /\ heap[c].owner = Null /\ heap' = [heap EXCEPT ![c].owner = t]
      /\ Goto(t, "validate") /\ my' = my /\ Internal
  BY <1>1, LazySteps DEF Lazy!LockCurr, Lazy!Lock
<1>3. MemoryOK /\ LazyMemory /\ LazyThread(t) /\ CallsOK /\ made' = made
  BY <1>2 DEF LazyInv, Internal, callVars
<1>4. /\ Published(c) /\ c \in DOMAIN heap /\ call[t].op # "find"
      /\ heap[p].owner = t /\ p \in DOMAIN heap
  BY <1>1, <1>2, <1>3 DEF LazyThread, Published
<1>5. Calm(t) /\ heap'[c].owner = t /\ heap'[p].owner = t
  BY <1>2, <1>3, <1>4, MutexTaken
<1>6. my' = [my EXCEPT ![t] = my[t]]
  BY <1>2, <1>3 DEF CallsOK
<1>7. /\ call' = call /\ pc'[t] = "validate" /\ my'[t] = my[t] /\ succ' = succ /\ rank' = rank
      /\ \A n : Published(n)' <=> Published(n)
      /\ LazyThread(t)' => LazyInv'
  <2>1. /\ pc[t] \notin {"idle", "unlink"} /\ Internal /\ Goto(t, "validate") /\ Calm(t)
        /\ call[t].op # "find"
    BY <1>2, <1>4, <1>5
  <2>. QED  BY <1>6, <2>1, LazyGoesOn
<1>8. Published(my[t].pred)' /\ Published(my[t].curr)'
  BY <1>2, <1>3, <1>7 DEF Published, LazyThread
<1>9. LazyThread(t)'
  BY <1>1, <1>2, <1>3, <1>5, <1>7, <1>8 DEF LazyThread, key
<1>. QED  BY <1>7, <1>9

LEMMA LazyAgain ==
  ASSUME LazyInv, NEW t \in Threads, Lazy!Again(t)
  PROVE  LazyInv'
<1> DEFINE S == {my[t].pred, my[t].curr}
<1>1. pc[t] = "validate" /\ Unlock(heap, S) /\ Goto(t, "start") /\ my' = my /\ Internal
  BY LazySteps DEF Lazy!Again, Lazy!Both
<1>2. MemoryOK /\ LazyMemory /\ LazyThread(t) /\ CallsOK /\ made' = made
  BY <1>1 DEF LazyInv, Internal, callVars
<1>3. \A n \in S : heap[n].owner = t
  BY <1>1, <1>2 DEF LazyThread
<1>4. call[t].op # "find" /\ {"pred", "curr"} \subseteq DOMAIN my[t]
  BY <1>1, <1>2 DEF LazyThread
<1> HIDE DEF S
<1>5. Calm(t)
  BY <1>1, <1>2, <1>3, MutexesGiven
<1>6. my' = [my EXCEPT ![t] = my[t]]
  BY <1>1, <1>2 DEF CallsOK
<1>7. call' = call /\ pc'[t] = "start" /\ my'[t] = my[t] /\ (LazyThread(t)' => LazyInv')
  <2>1. pc[t] \notin {"idle", "unlink"}
    BY <1>1
  <2>. QED  BY <1>1, <1>4, <1>5, <1>6, <2>1, LazyGoesOn
<1>8. LazyThread(t)'
  BY <1>4, <1>7 DEF LazyThread
<1>. QED  BY <1>7, <1>8

(* A find moves on: a node that it will find is behind the next one.        *)
LEMMA LazyFindGoes ==
  ASSUME LazyInv, NEW t \in Threads, pc[t] = "find", NEW n, n = Spot(t), heap[n].key < key(t),
         heap' = heap, Internal, pc' = pc,
         Lazy!Set(t, [curr |-> heap[n].next])
  PROVE  LazyInv'
<1>1. MemoryOK /\ CallsOK /\ LazyMemory /\ LazyThread(t) /\ made' = made
  BY DEF LazyInv, Internal, callVars
<1>2. key(t) \in Keys /\ call[t].op = "find" /\ {"pred", "curr"} \subseteq DOMAIN my[t]
  BY <1>1 DEF CallsOK, Idling, Busy, LazyThread
<1>3. Published(n) /\ n \in DOMAIN heap
  BY <1>1, OnTheList DEF LazyThread, Spot, Published
<1>4. rank[n] < key(t) /\ n # TailNode
  BY <1>1, <1>2, <1>3, KeyAndRank, SuccAndRank, GreatestKey
<1>5. Published(succ[n]) /\ succ[n] # Null /\ succ[n] = heap[n].next /\ succ[n] \in DOMAIN heap
  BY <1>1, <1>3, <1>4 DEF LazyMemory, Published, succ
<1> DEFINE v == [x \in DOMAIN my[t] \cup {"curr"} |-> IF x \in {"curr"} THEN [curr |-> heap[n].next][x] ELSE my[t][x]]
<1>6. my' = [my EXCEPT ![t] = v] /\ {"pred", "curr"} \subseteq DOMAIN v /\ v.curr = succ[n]
  BY <1>2, <1>5 DEF Lazy!Set
<1>7. Goto(t, "find")
  BY <1>1 DEF Goto, CallsOK
<1>8. Calm(t)
  BY <1>1, NothingWritten
<1> HIDE DEF v
<1>9. WillFind(t) => WillFind(t)'
  <2>1. SUFFICES ASSUME WillFind(t) PROVE WillFind(t)'
    OBVIOUS
  <2>2. PICK m \in DOMAIN heap : ~heap[m].marked /\ rank[m] = key(t) /\ m \in Reachable(succ, n)
    BY <2>1 DEF WillFind
  <2>3. m # n
    BY <1>1, <1>2, <1>3, <1>4, <2>2, KeyAndRank
  <2>4. m \in Reachable(succ, succ[n])
    BY <1>1, <1>3, <2>2, <2>3, OneStep, SuccAndRank DEF MemoryOK, Sorted, InMemory
  <2>5. succ' = succ /\ rank' = rank /\ key(t)' = key(t)
    BY DEF succ, rank, key, Internal, callVars
  <2>6. Spot(t)' = succ[n]
    BY <1>1, <1>5, <1>6 DEF Spot, CallsOK
  <2>. QED  BY <2>2, <2>4, <2>5, <2>6 DEF WillFind
<1>10. /\ call' = call /\ pc'[t] = "find" /\ my'[t] = v /\ succ' = succ /\ rank' = rank
       /\ \A x : Published(x)' <=> Published(x)
       /\ LazyThread(t)' => LazyInv'
  <2>1. pc[t] \notin {"idle", "unlink"}
    OBVIOUS
  <2>. QED  BY <1>6, <1>7, <1>8, <1>9, <2>1, LazyGoesOn
<1>11. Published(my[t].curr)'
  BY <1>5, <1>6, <1>10 DEF Published
<1>12. LazyThread(t)'
  BY <1>2, <1>6, <1>10, <1>11 DEF LazyThread
<1>. QED  BY <1>10, <1>12

(* What a successful validation shows.                                      *)
LEMMA Validated ==
  ASSUME LazyInv, NEW t \in Threads, NEW op, Lazy!Valid(t, op), NEW p, NEW c, p = my[t].pred, c = my[t].curr
  PROVE  /\ MemoryOK /\ CallsOK /\ LazyMemory /\ LazyThread(t) /\ pc[t] = "validate" /\ call[t].op = op
         /\ Busy(t) /\ key(t) \in Keys /\ key(t) = call[t].key
         /\ p \in DOMAIN heap /\ c \in DOMAIN heap /\ Published(p) /\ Published(c)
         /\ ~heap[p].marked /\ ~heap[c].marked /\ c = succ[p] /\ rank[p] < key(t)
         /\ heap[p].owner = t /\ heap[c].owner = t
         /\ Place(p, key(t)) /\ p \in WalkOf(succ) /\ c \in WalkOf(succ) /\ p # TailNode /\ c # HeadNode
         /\ heap[c].key = key(t) <=> At1(p, key(t))
         /\ heap[c].key = key(t) => c # TailNode /\ rank[c] = key(t)
         /\ At1(p, key(t)) <=> key(t) \in Contents
<1>1. MemoryOK /\ CallsOK /\ LazyMemory /\ LazyThread(t)
  BY DEF LazyInv
<1>2. /\ pc[t] = "validate" /\ call[t].op = op /\ ~heap[p].marked /\ ~heap[c].marked /\ heap[p].next = c
  BY LazySteps DEF Lazy!Valid, Lazy!validate
<1>3. Busy(t) /\ key(t) \in Keys /\ key(t) = call[t].key
  BY <1>1, <1>2 DEF CallsOK, Idling, Busy, key
<1>4. /\ Published(p) /\ Published(c) /\ rank[p] < key(t) /\ key(t) <= rank[c]
      /\ heap[p].owner = t /\ heap[c].owner = t
  BY <1>1, <1>2 DEF LazyThread
<1>5. p \in DOMAIN heap /\ c \in DOMAIN heap /\ c = succ[p]
  BY <1>2, <1>4 DEF Published, succ
<1>6. /\ Place(p, key(t)) /\ p \in WalkOf(succ) /\ c \in WalkOf(succ) /\ p # TailNode /\ c # HeadNode
      /\ heap[c].key = key(t) <=> At1(p, key(t))
      /\ heap[c].key = key(t) => c # TailNode
  BY <1>1, <1>2, <1>3, <1>4, <1>5, LazyPlace
<1>7. heap[c].key = key(t) => rank[c] = key(t)
  BY <1>1, <1>3, <1>5, KeyAndRank
<1>8. At1(p, key(t)) <=> key(t) \in Contents
  BY <1>1, <1>3, <1>6, PlaceShows
<1>. QED  BY <1>1, <1>2, <1>3, <1>4, <1>5, <1>6, <1>7, <1>8

(* A node is marked: from now on the finds of its key may return 0.         *)
LEMMA MarkExplained ==
  ASSUME LazyInv, NEW t \in Threads, pc[t] = "validate", call[t].op = "delete", call' = call, configs' = configs,
         Unlinking' = Unlinking \cup {t}, Contents' = Contents, Present' \subseteq Present, key(t) \notin Present',
         \A u \in Finding : key(u) # key(t) /\ WillFind(u) => WillFind(u)'
  PROVE  LazyExplained'
<1>1. PICK G \in SUBSET Finding : /\ \A F \in SUBSET G : \E c \in configs : Fits(c, F)
                                  /\ \A u \in Finding \ G : WillFind(u)
  BY DEF LazyInv, LazyExplained
<1>2. Finding' = Finding /\ \A u : key(u)' = key(u)
  BY DEF Finding, key
<1>3. \A u \in Unlinking : call[u].op = "delete"
  BY DEF LazyInv, LazyThread, Unlinking
<1>4. t \notin Finding /\ t \notin Unlinking
  BY DEF Finding, Unlinking
<1> DEFINE H == G \cup {u \in Finding : key(u) = key(t)}
<1>5. ASSUME NEW F \in SUBSET H PROVE \E c \in configs' : Fits(c, F)'
  <2>1. PICK c \in configs : Fits(c, F \cap G)
    BY <1>1
  <2>2. DOMAIN c.ret \subseteq (F \cap G) \cup Unlinking
    BY <2>1 DEF Fits
  <2>3. DOMAIN c.ret \subseteq F \cup Unlinking' /\ Unlinking' \cap DOMAIN c.ret = Unlinking \cap DOMAIN c.ret
    BY <1>1, <1>4, <2>2
  <2>4. ASSUME NEW u \in F PROVE IF u \in DOMAIN c.ret THEN c.ret[u] = 0 ELSE key(u) \notin Present'
    <3>1. u \in Finding /\ u \notin Unlinking
      BY <1>3 DEF Finding
    <3>2. CASE u \in DOMAIN c.ret
      BY <2>1, <2>2, <3>1, <3>2 DEF Fits
    <3>3. CASE u \notin DOMAIN c.ret
      <4>1. CASE u \in G
        BY <2>1, <3>3, <4>1 DEF Fits
      <4>2. CASE key(u) = key(t)
        BY <3>3, <4>2
      <4>. QED  BY <3>1, <4>1, <4>2
    <3>. QED  BY <3>2, <3>3
  <2>5. /\ \A u \in Unlinking \cap DOMAIN c.ret : c.ret[u] = key(u)
        /\ c.state = Contents \ {key(u) : u \in Unlinking \cap DOMAIN c.ret}
    BY <2>1 DEF Fits
  <2>6. /\ \A u \in Unlinking' \cap DOMAIN c.ret : c.ret[u] = key(u)'
        /\ c.state = Contents' \ {key(u)' : u \in Unlinking' \cap DOMAIN c.ret}
    BY <1>2, <2>3, <2>5
  <2>7. Fits(c, F)'
    BY <1>2, <2>3, <2>4, <2>6 DEF Fits
  <2>. QED  BY <2>7
<1>6. H \in SUBSET Finding' /\ \A u \in Finding' \ H : WillFind(u)'
  BY <1>1, <1>2
<1> HIDE DEF H
<1>. QED  BY <1>5, <1>6 DEF LazyExplained

LEMMA LazyMark ==
  ASSUME LazyInv, NEW t \in Threads, Lazy!Valid(t, "delete"), NEW c, c = my[t].curr, heap[c].key = key(t),
         heap' = [heap EXCEPT ![c].marked = TRUE], Goto(t, "unlink"), my' = my, Internal
  PROVE  LazyInv'
<1>1. PICK p : p = my[t].pred
  OBVIOUS
<1>2. /\ MemoryOK /\ CallsOK /\ LazyMemory /\ LazyThread(t) /\ pc[t] = "validate" /\ call[t].op = "delete" /\ Busy(t)
      /\ key(t) \in Keys /\ p \in DOMAIN heap /\ c \in DOMAIN heap /\ Published(p) /\ Published(c)
      /\ ~heap[p].marked /\ ~heap[c].marked /\ c = succ[p] /\ rank[p] < key(t)
      /\ heap[p].owner = t /\ heap[c].owner = t /\ p \in WalkOf(succ) /\ c \in WalkOf(succ)
      /\ c \notin {HeadNode, TailNode} /\ rank[c] = key(t)
  BY <1>1, Validated
<1>3. /\ DOMAIN heap' = DOMAIN heap /\ heap'[c] = [heap[c] EXCEPT !.marked = TRUE]
      /\ \A n \in DOMAIN heap : n # c => heap'[n] = heap[n]
  BY <1>2
<1>4. /\ Linked(succ)
      /\ \A n \in DOMAIN heap : /\ "marked" \in DOMAIN heap'[n] /\ heap'[n].owner = heap[n].owner
                                /\ heap'[n].marked = (n = c \/ heap[n].marked)
  <2>1. Fields(heap[c]) /\ "marked" \in DOMAIN heap[c]
    BY <1>2 DEF MemoryOK, LazyMemory
  <2>2. /\ Fields(heap'[c]) /\ heap'[c].key = heap[c].key
        /\ heap'[c].next = heap[c].next /\ heap'[c].owner = heap[c].owner
        /\ "marked" \in DOMAIN heap'[c] /\ heap'[c].marked = TRUE
    BY <1>2, <1>3, <2>1 DEF Fields
  <2>3. \A n \in DOMAIN heap : /\ Fields(heap[n]) /\ succ[n] = heap[n].next
                               /\ "marked" \in DOMAIN heap[n] /\ heap[n].marked \in BOOLEAN
    BY <1>2 DEF MemoryOK, LazyMemory, succ
  <2>4. ASSUME NEW n \in DOMAIN heap
        PROVE  /\ "marked" \in DOMAIN heap'[n] /\ heap'[n].owner = heap[n].owner
               /\ heap'[n].marked = (n = c \/ heap[n].marked)
               /\ Fields(heap'[n]) /\ heap'[n].key = heap[n].key /\ heap'[n].next = succ[n]
    <3>1. CASE n = c
      BY ONLY <3>1, <2>2, <2>3, <2>4
    <3>2. CASE n # c
      <4>1. heap'[n] = heap[n]
        BY ONLY <1>3, <3>2, <2>4
      <4>. QED  BY ONLY <4>1, <3>2, <2>3, <2>4
    <3>. QED  BY <3>1, <3>2
  <2>5. DOMAIN heap' = DOMAIN heap
    BY <1>3
  <2>6. Linked(succ)
    BY ONLY <2>4, <2>5 DEF Linked
  <2>. QED  BY ONLY <2>4, <2>6
<1>5. my' = [my EXCEPT ![t] = my[t]]
  BY <1>2 DEF CallsOK
<1>6. /\ MemoryOK' /\ CallsOK' /\ OthersCalls(t) /\ succ' = succ /\ Contents' = Contents
      /\ call' = call /\ configs' = configs /\ pc'[t] = "unlink" /\ my'[t] = my[t]
  <2>1. Linked(succ) /\ "unlink" \notin {"idle", "crashed"} /\ MemoryOK /\ CallsOK /\ Busy(t)
    BY <1>2, <1>4
  <2>. QED  BY <1>5, <2>1, CallContinues
<1>7. rank' = rank /\ \A n : Published(n)' <=> Published(n)
  <2>1. rank' = rank
    BY <1>4 DEF Linked, rank
  <2>. QED  BY <1>3, <1>6, <2>1 DEF Published
<1>8. Kept(t)
  <2>1. ASSUME NEW n, Published(n), NEW u \in Threads \ {t}, heap[n].owner = u
        PROVE  heap'[n].owner = u /\ heap'[n].marked = heap[n].marked
    BY <1>2, <1>3, <2>1 DEF Published
  <2>2. \A n : Published(n) => n \in DOMAIN heap
    BY DEF Published
  <2>. QED  BY <1>4, <1>6, <1>7, <2>1, <2>2 DEF Kept, Linked
<1>9. WalkOf(succ') = WalkOf(succ) /\ WalkOf(succ) \subseteq DOMAIN heap /\ {HeadNode, TailNode} \subseteq DOMAIN heap
  BY <1>2, <1>6, SuccAndRank
<1>10. LazyMemory'
  <2>1. /\ \A n \in DOMAIN heap : "marked" \in DOMAIN heap'[n] /\ heap'[n].marked \in BOOLEAN
        /\ heap'[HeadNode].key = Lowest /\ heap'[TailNode].key = Highest
        /\ ~heap'[HeadNode].marked /\ ~heap'[TailNode].marked
    BY <1>2, <1>4, <1>9 DEF LazyMemory, Linked
  <2>2. \A n \in DOMAIN heap : succ[n] # Null =>
           succ[n] \in DOMAIN heap /\ (succ[n] = TailNode \/ succ[succ[n]] # Null) /\ rank[n] < rank[succ[n]]
    BY <1>2 DEF LazyMemory, Published
  <2>3. \A n \in DOMAIN heap : /\ heap'[n].marked => n = TailNode \/ succ[n] # Null
                               /\ (n = TailNode \/ succ[n] # Null) /\ ~heap'[n].marked => n \in WalkOf(succ)
    BY <1>2, <1>4 DEF LazyMemory, Published
  <2>4. ASSUME NEW n \in WalkOf(succ), heap'[n].marked PROVE \E u \in Threads : pc'[u] = "unlink" /\ my'[u].curr = n
    <3>1. CASE n = c
      BY <1>6, <3>1
    <3>2. CASE n # c
      <4>1. PICK u \in Threads : pc[u] = "unlink" /\ my[u].curr = n
        BY <1>2, <1>4, <1>9, <2>4, <3>2 DEF LazyMemory
      <4>. QED  BY <1>2, <1>6, <4>1 DEF OthersCalls
    <3>. QED  BY <3>1, <3>2
  <2>5. DOMAIN heap' = DOMAIN heap /\ succ' = succ /\ rank' = rank /\ WalkOf(succ') = WalkOf(succ)
    BY <1>3, <1>6, <1>7, <1>9
  <2>6. \A n \in DOMAIN heap : succ[n] # Null => Published(succ[n])' /\ rank[n] < rank[succ[n]]
    BY ONLY <2>2, <2>5 DEF Published
  <2>7. \A n \in DOMAIN heap : heap'[n].marked => Published(n)'
    BY ONLY <2>3, <2>5 DEF Published
  <2>8. \A n \in DOMAIN heap : Published(n)' /\ ~heap'[n].marked => n \in WalkOf(succ)
    BY ONLY <2>3, <2>5 DEF Published
  <2>. QED  BY ONLY <2>1, <2>4, <2>5, <2>6, <2>7, <2>8 DEF LazyMemory
<1>11. LazyThread(t)'
  <2>1. Published(my[t].pred)' /\ Published(my[t].curr)'
    BY <1>1, <1>2, <1>6, <1>7 DEF Published
  <2>2. rank[c] \in Int /\ rank[p] \in Int /\ {"pred", "curr"} \subseteq DOMAIN my[t]
    BY <1>2, KeyAndRank DEF LazyThread
  <2>3. heap'[p].owner = t /\ heap'[c].owner = t /\ heap'[c].marked /\ ~heap'[p].marked
    <3>1. p # c
      BY <1>2, <2>2
    <3>. QED  BY <1>2, <1>4, <3>1
  <2>4. key(t)' = key(t) /\ key(t) <= rank[c]
    BY <1>2, <1>6, <2>2 DEF key
  <2>. QED  BY <1>1, <1>2, <1>6, <1>7, <2>1, <2>2, <2>3, <2>4 DEF LazyThread
<1>12. Unlinking' = Unlinking \cup {t}
  BY <1>6 DEF Unlinking, OthersCalls
<1>13. Present' \subseteq Present /\ key(t) \notin Present'
  <2> DEFINE On == {n \in WalkOf(succ) \ {HeadNode, TailNode} : ~heap'[n].marked}
  <2>1. Present' = {heap'[n].key : n \in On}
    BY <1>9 DEF Present
  <2>2. ASSUME NEW n \in On PROVE heap'[n].key \in Present /\ heap'[n].key # key(t)
    <3>1. n \in DOMAIN heap /\ n # c /\ ~heap[n].marked /\ heap'[n].key = heap[n].key
      BY <1>4, <1>9, <2>2 DEF Linked
    <3>2. heap[n].key \in Present
      BY <2>2, <3>1 DEF Present
    <3>3. rank[n] # rank[c]
      BY <1>2, <2>2, <3>1, SameRank DEF MemoryOK
    <3>4. rank[n] = heap[n].key
      BY <1>2, <2>2, <3>1, SuccAndRank
    <3>. QED  BY <1>2, <3>1, <3>2, <3>3, <3>4
  <2> HIDE DEF On
  <2>. QED  BY <2>1, <2>2
<1>14. ASSUME NEW u \in Finding, key(u) # key(t), WillFind(u) PROVE WillFind(u)'
  <2>1. PICK m \in DOMAIN heap : ~heap[m].marked /\ rank[m] = key(u) /\ m \in Reachable(succ, Spot(u))
    BY <1>14 DEF WillFind
  <2>2. m # c
    BY <1>2, <1>14, <2>1
  <2>3. u # t /\ u \in Threads
    BY <1>2 DEF Finding
  <2>4. Spot(u)' = Spot(u) /\ key(u)' = key(u)
    BY <1>6, <2>3 DEF Spot, key, OthersCalls
  <2>. QED  BY <1>3, <1>6, <1>7, <2>1, <2>2, <2>4 DEF WillFind
<1>15. LazyExplained'
  BY <1>2, <1>6, <1>12, <1>13, <1>14, MarkExplained
<1>. QED  BY <1>6, <1>8, <1>10, <1>11, <1>15, LazyTogether

(* What the threads know that have marked a node and not unlinked it yet.   *)
LEMMA Unlinkers ==
  ASSUME LazyInv
  PROVE  /\ \A u \in Unlinking : /\ call[u].op = "delete" /\ Busy(u) /\ key(u) \in Contents
                                 /\ my[u].curr \in WalkOf(succ) \ {HeadNode, TailNode}
                                 /\ heap[my[u].curr].key = key(u) /\ heap[my[u].curr].owner = u
         /\ \A u, v \in Unlinking : key(u) = key(v) => u = v
         /\ Present = Contents \ {key(u) : u \in Unlinking}
<1>1. MemoryOK /\ CallsOK /\ LazyMemory
  BY DEF LazyInv
<1>2. ASSUME NEW u \in Unlinking
      PROVE  /\ call[u].op = "delete" /\ Busy(u) /\ key(u) \in Contents
             /\ my[u].curr \in WalkOf(succ) \ {HeadNode, TailNode}
             /\ heap[my[u].curr].key = key(u) /\ heap[my[u].curr].owner = u
             /\ heap[my[u].curr].marked /\ rank[my[u].curr] = key(u)
  <2>1. PICK p, c : p = my[u].pred /\ c = my[u].curr
    OBVIOUS
  <2>2. u \in Threads /\ pc[u] = "unlink" /\ LazyThread(u)
    BY DEF Unlinking, LazyInv
  <2>3. /\ Published(p) /\ Published(c) /\ rank[p] < key(u) /\ call[u].op = "delete" /\ rank[c] = key(u)
        /\ heap[c].marked /\ ~heap[p].marked /\ succ[p] = c /\ heap[c].owner = u
    BY <2>1, <2>2 DEF LazyThread
  <2>4. Busy(u) /\ key(u) \in Keys
    BY <1>1, <2>2 DEF CallsOK, Idling, Busy
  <2>5. key(u) \in Int /\ key(u) <= rank[c] /\ c \in DOMAIN heap
    BY <2>3, <2>4, GreatestKey DEF Published
  <2>6. heap[c].key = key(u)
    BY <1>1, <2>3, <2>4, <2>5, KeyAndRank
  <2>7. c \in WalkOf(succ) /\ c # HeadNode /\ c # TailNode
    BY <1>1, <2>3, <2>4, <2>5, <2>6, LazyPlace
  <2>8. key(u) \in Contents
    BY <2>6, <2>7 DEF Contents, KeysOf
  <2>. QED  BY <2>1, <2>3, <2>4, <2>6, <2>7, <2>8
<1>3. ASSUME NEW u \in Unlinking, NEW n \in WalkOf(succ) \ {HeadNode, TailNode}, heap[n].key = key(u)
      PROVE  n = my[u].curr
  <2>1. rank[n] = key(u)
    BY <1>1, <1>3, SuccAndRank
  <2>. QED  BY <1>1, <1>2, <2>1, SameRank DEF MemoryOK
<1>4. ASSUME NEW u \in Unlinking, NEW v \in Unlinking, key(u) = key(v) PROVE u = v
  <2>1. my[u].curr = my[v].curr
    BY <1>2, <1>3, <1>4
  <2>. QED  BY <1>2, <2>1
<1>5. ASSUME NEW k \in Present PROVE k \in Contents /\ k \notin {key(u) : u \in Unlinking}
  <2>1. PICK n \in WalkOf(succ) \ {HeadNode, TailNode} : ~heap[n].marked /\ heap[n].key = k
    BY DEF Present
  <2>. QED  BY <1>2, <1>3, <2>1 DEF Contents, KeysOf
<1>6. ASSUME NEW k \in Contents, k \notin {key(u) : u \in Unlinking} PROVE k \in Present
  <2>1. PICK n \in WalkOf(succ) \ {HeadNode, TailNode} : heap[n].key = k
    BY DEF Contents, KeysOf
  <2>2. ~heap[n].marked
    <3>1. SUFFICES ASSUME heap[n].marked PROVE FALSE
      OBVIOUS
    <3>2. PICK u \in Threads : pc[u] = "unlink" /\ my[u].curr = n
      BY <1>1, <2>1, <3>1 DEF LazyMemory
    <3>3. u \in Unlinking
      BY <3>2 DEF Unlinking
    <3>. QED  BY <1>2, <1>6, <2>1, <3>2, <3>3
  <2>. QED  BY <2>1, <2>2 DEF Present
<1>. QED  BY <1>2, <1>4, <1>5, <1>6

(* The finds G may all return 0, those outside of it find their key.        *)
Allows(G) == /\ G \subseteq Finding
             /\ \A F \in SUBSET G : \E c \in configs : Fits(c, F)
             /\ \A u \in Finding \ G : WillFind(u)

LEMMA SomeAllowed == LazyExplained <=> \E G : Allows(G)
BY DEF LazyExplained, Allows

LEMMA FittingStates ==
  ASSUME LazyInv, NEW F, F \subseteq Finding, NEW c, Fits(c, F)
  PROVE  /\ Present \subseteq c.state /\ c.state \subseteq Contents
         /\ \A u \in Unlinking : key(u) \in c.state <=> u \notin DOMAIN c.ret
         /\ \A k \in c.state \ Present : \E u \in Unlinking : key(u) = k /\ u \notin DOMAIN c.ret
         /\ \A t : t \notin F \cup Unlinking => t \notin DOMAIN c.ret
         /\ Finding \cap Unlinking = {}
<1>1. c.state = Contents \ {key(u) : u \in Unlinking \cap DOMAIN c.ret} /\ DOMAIN c.ret \subseteq F \cup Unlinking
  BY DEF Fits
<1>2. /\ Present = Contents \ {key(u) : u \in Unlinking}
      /\ \A u, v \in Unlinking : key(u) = key(v) => u = v
      /\ \A u \in Unlinking : key(u) \in Contents /\ call[u].op = "delete"
  BY Unlinkers
<1>3. \A u \in Unlinking : key(u) \in c.state <=> u \notin DOMAIN c.ret
  BY <1>1, <1>2
<1>4. \A k \in c.state \ Present : \E u \in Unlinking : key(u) = k /\ u \notin DOMAIN c.ret
  BY <1>1, <1>2
<1>5. Finding \cap Unlinking = {}
  BY <1>2 DEF Finding
<1>. QED  BY <1>1, <1>2, <1>3, <1>4, <1>5

(* A call of t returns, when b explains its result: the calls W, of those   *)
(* that have taken effect in b, are left; U are unlinking.                  *)
Suits(b, W, F, U, P, S) ==
  /\ W \subseteq F \cup U
  /\ \A u \in F : IF u \in W THEN b.ret[u] = 0 ELSE key(u) \notin P
  /\ \A u \in U \cap W : b.ret[u] = key(u)
  /\ b.state = S \ {key(u) : u \in U \cap W}
CanExplain(t, ret, F, U, P, S) == \E c \in configs : \E b :
  /\ b \in Explained(c, t) \/ (b = c /\ t \in DOMAIN c.ret)
  /\ b.ret[t] = ret /\ Suits(b, DOMAIN b.ret \ {t}, F, U, P, S)

LEMMA FitsLater ==
  ASSUME NEW t, NEW ret, Answer(t, ret), OthersCalls(t), NEW F, F \subseteq Threads \ {t}, t \notin Unlinking',
         CanExplain(t, ret, F, Unlinking', Present', Contents')
  PROVE  \E d \in configs' : Fits(d, F)'
<1>0. PICK c \in configs : \E b : /\ b \in Explained(c, t) \/ (b = c /\ t \in DOMAIN c.ret)
                                  /\ b.ret[t] = ret
                                  /\ Suits(b, DOMAIN b.ret \ {t}, F, Unlinking', Present', Contents')
  BY DEF CanExplain
<1>1. PICK b : /\ b \in Explained(c, t) \/ (b = c /\ t \in DOMAIN c.ret)
               /\ b.ret[t] = ret /\ Suits(b, DOMAIN b.ret \ {t}, F, Unlinking', Present', Contents')
  BY <1>0
<1>2. PICK d \in configs' : /\ d.state = b.state /\ DOMAIN d.ret = DOMAIN b.ret \ {t}
                            /\ \A u \in DOMAIN d.ret : d.ret[u] = b.ret[u]
  BY <1>1, Remains
<1>3. \A u \in F \cup Unlinking' : key(u)' = key(u)
  BY DEF OthersCalls, key, Unlinking
<1>4. /\ DOMAIN d.ret \subseteq F \cup Unlinking'
      /\ \A u \in F : IF u \in DOMAIN d.ret THEN d.ret[u] = 0 ELSE key(u)' \notin Present'
      /\ \A u \in Unlinking' \cap DOMAIN d.ret : d.ret[u] = key(u)'
    BY <1>1, <1>2, <1>3 DEF Suits
<1>5. d.state = Contents' \ {key(u)' : u \in Unlinking' \cap DOMAIN d.ret}
  <2>1. d.state = Contents' \ {key(u) : u \in Unlinking' \cap DOMAIN d.ret}
    BY <1>1, <1>2 DEF Suits
  <2>2. {key(u) : u \in Unlinking' \cap DOMAIN d.ret} = {key(u)' : u \in Unlinking' \cap DOMAIN d.ret}
    BY <1>3
  <2>. QED  BY <2>1, <2>2
<1>6. Fits(d, F)'
  BY <1>4, <1>5 DEF Fits
<1>. QED  BY <1>6

LEMMA LazyReturns ==
  ASSUME LazyInv, NEW t \in Threads, NEW ret, Return(t, ret), OthersNodes(t), MemoryOK', LazyMemory', Kept(t),
         NEW G, Allows(G), Unlinking' = Unlinking \ {t},
         \A F \in SUBSET (G \ {t}) : CanExplain(t, ret, F, Unlinking', Present', Contents'),
         \A u \in Finding \ {t} : WillFind(u) => WillFind(u)'
  PROVE  LazyInv'
<1>1. CallsOK' /\ Idling(t)' /\ OthersCalls(t) /\ Answer(t, ret)
  BY CallEnded DEF LazyInv, Return
<1>2. my'[t] = Locals /\ call'[t] = Nothing /\ pc'[t] = "idle"
  BY DEF Return, Answer, Goto, LazyInv, CallsOK
<1>3. LazyThread(t)'
  BY <1>2 DEF LazyThread, Locals
<1>4. Finding' = Finding \ {t}
  BY <1>1, <1>2 DEF Finding, OthersCalls, Nothing
<1>5. ASSUME NEW F \in SUBSET (G \ {t}) PROVE \E d \in configs' : Fits(d, F)'
  <2>1. F \subseteq Threads \ {t} /\ t \notin Unlinking'
    BY DEF Allows, Finding
  <2>2. CanExplain(t, ret, F, Unlinking', Present', Contents')
    OBVIOUS
  <2>. QED  BY <1>1, <2>1, <2>2, FitsLater
<1>6. G \ {t} \in SUBSET Finding' /\ \A u \in Finding' \ (G \ {t}) : WillFind(u)'
  BY <1>4 DEF Allows
<1>7. LazyExplained'
  BY <1>5, <1>6 DEF LazyExplained
<1>. QED  BY <1>1, <1>3, <1>7, LazyTogether

(* A call returns that has written nothing but owners.                      *)
LEMMA LazyCalmReturns ==
  ASSUME LazyInv, NEW t \in Threads, pc[t] \notin {"idle", "unlink"}, Calm(t), NEW ret, Return(t, ret),
         NEW G, Allows(G), \A F \in SUBSET (G \ {t}) : CanExplain(t, ret, F, Unlinking, Present, Contents)
  PROVE  LazyInv'
<1>1. MemoryOK /\ CallsOK /\ LazyMemory
  BY DEF LazyInv
<1>2. OthersCalls(t) /\ pc'[t] = "idle"
  BY <1>1 DEF Return, Answer, Goto, CallsOK, OthersCalls
<1>3. LazyMemory' /\ Kept(t) /\ MemoryOK' /\ succ' = succ /\ rank' = rank /\ Contents' = Contents /\ Present' = Present
  BY <1>1, <1>2, CalmMemory
<1>4. OthersNodes(t)
  <2>1. SUFFICES ASSUME NEW u \in Threads \ {t}, call[u].op = "add"
                 PROVE  new(u) \in DOMAIN heap' /\ succ'[new(u)] = Null /\ heap'[new(u)].key = key(u)
    BY DEF OthersNodes
  <2>2. Busy(u)
    BY <1>1, <2>1 DEF CallsOK, Idling, Nothing
  <2>. QED  BY <1>3, <2>1, <2>2 DEF Busy, Calm, Linked
<1>5. Unlinking' = Unlinking /\ Unlinking' = Unlinking \ {t}
  BY <1>2 DEF Unlinking, OthersCalls
<1>6. ASSUME NEW u \in Finding \ {t}, WillFind(u) PROVE WillFind(u)'
  <2>1. key(u)' = key(u) /\ my'[u].curr = my[u].curr /\ u \in Threads
    BY <1>2 DEF key, Finding, OthersCalls
  <2>. QED  BY <1>1, <1>3, <1>6, <2>1, CalmFind
<1>7. \A F \in SUBSET (G \ {t}) : CanExplain(t, ret, F, Unlinking', Present', Contents')
  BY <1>3, <1>5
<1>. QED  BY <1>3, <1>4, <1>5, <1>6, <1>7, LazyReturns

(* It may take effect just now when it does nothing to any state in between. *)
LEMMA LazyUnchanged ==
  ASSUME LazyInv, NEW t \in Threads, pc[t] \notin {"idle", "unlink"}, Calm(t), NEW ret, Return(t, ret),
         \A s : Present \subseteq s /\ s \subseteq Contents => Effect(s, call[t]) = [state |-> s, ret |-> ret]
  PROVE  LazyInv'
<1>1. PICK G : Allows(G)
  BY SomeAllowed DEF LazyInv
<1>2. t \notin Unlinking
  BY DEF Unlinking
<1>3. ASSUME NEW F \in SUBSET (G \ {t}) PROVE CanExplain(t, ret, F, Unlinking, Present, Contents)
  <2>1. PICK c \in configs : Fits(c, F)
    BY <1>1 DEF Allows
  <2>2. F \subseteq Finding
    BY <1>1 DEF Allows
  <2>3. Present \subseteq c.state /\ c.state \subseteq Contents /\ t \notin DOMAIN c.ret
    BY <1>2, <2>1, <2>2, FittingStates
  <2>4. Effect(c.state, call[t]) = [state |-> c.state, ret |-> ret]
    BY <2>3
  <2>5. PICK b \in Explained(c, t) : /\ b.state = c.state /\ DOMAIN b.ret = DOMAIN c.ret \cup {t} /\ b.ret[t] = ret
                                     /\ \A u \in DOMAIN c.ret : b.ret[u] = c.ret[u]
    BY <2>3, <2>4, TakesEffectNow
  <2>6. Suits(b, DOMAIN b.ret \ {t}, F, Unlinking, Present, Contents)
    <3>1. DOMAIN b.ret \ {t} = DOMAIN c.ret
      BY <2>3, <2>5
    <3>. QED  BY <2>1, <2>5, <3>1 DEF Fits, Suits
  <2>. QED  BY <2>5, <2>6 DEF CanExplain
<1>. QED  BY <1>1, <1>3, LazyCalmReturns

(* A find returns 0: it was allowed to.                                     *)
LEMMA LazyNotFound ==
  ASSUME LazyInv, NEW t \in Threads, pc[t] = "find", call[t].op = "find", ~WillFind(t), Calm(t), Return(t, 0)
  PROVE  LazyInv'
<1>1. PICK G : Allows(G)
  BY SomeAllowed DEF LazyInv
<1>2. t \in Finding /\ t \in G /\ t \notin Unlinking /\ G \subseteq Finding
  BY <1>1 DEF Finding, Allows, Unlinking
<1>3. ASSUME NEW F \in SUBSET (G \ {t}) PROVE CanExplain(t, 0, F, Unlinking, Present, Contents)
  <2>1. PICK c \in configs : Fits(c, F \cup {t})
    <3>1. F \cup {t} \in SUBSET G
      BY <1>2
    <3>. QED  BY <1>1, <3>1 DEF Allows
  <2>2. F \cup {t} \subseteq Finding /\ t \notin F
    BY <1>2
  <2>3. /\ \A u \in Unlinking : key(u) \in c.state <=> u \notin DOMAIN c.ret
        /\ \A k \in c.state \ Present : \E u \in Unlinking : key(u) = k /\ u \notin DOMAIN c.ret
    BY <2>1, <2>2, FittingStates
  <2>4. /\ DOMAIN c.ret \subseteq F \cup {t} \cup Unlinking
        /\ \A u \in F \cup {t} : IF u \in DOMAIN c.ret THEN c.ret[u] = 0 ELSE key(u) \notin Present
        /\ \A u \in Unlinking \cap DOMAIN c.ret : c.ret[u] = key(u)
        /\ c.state = Contents \ {key(u) : u \in Unlinking \cap DOMAIN c.ret}
    BY <2>1 DEF Fits
  <2>5. CASE t \in DOMAIN c.ret
    <3>1. Suits(c, DOMAIN c.ret \ {t}, F, Unlinking, Present, Contents)
      <4>1. Unlinking \cap (DOMAIN c.ret \ {t}) = Unlinking \cap DOMAIN c.ret
        BY <1>2
      <4>. QED  BY <2>2, <2>4, <4>1 DEF Suits
    <3>. QED  BY <2>4, <2>5, <3>1 DEF CanExplain
  <2>6. CASE t \notin DOMAIN c.ret /\ key(t) \notin c.state
    <3>1. Effect(c.state, call[t]) = [state |-> c.state, ret |-> 0]
      BY <2>6 DEF Effect, Outcome, key
    <3>2. PICK b \in Explained(c, t) : /\ b.state = c.state /\ DOMAIN b.ret = DOMAIN c.ret \cup {t} /\ b.ret[t] = 0
                                       /\ \A u \in DOMAIN c.ret : b.ret[u] = c.ret[u]
      BY <2>6, <3>1, TakesEffectNow
    <3>3. Suits(b, DOMAIN b.ret \ {t}, F, Unlinking, Present, Contents)
      <4>1. DOMAIN b.ret \ {t} = DOMAIN c.ret
        BY <2>6, <3>2
      <4>. QED  BY <2>4, <2>6, <3>2, <4>1 DEF Suits
    <3>. QED  BY <3>2, <3>3 DEF CanExplain
  <2>7. CASE t \notin DOMAIN c.ret /\ key(t) \in c.state
    <3>1. PICK u \in Unlinking : key(u) = key(t) /\ u \notin DOMAIN c.ret
      BY <2>3, <2>4, <2>7
    <3>2. u \in Pending /\ u # t /\ call[u].op = "delete" /\ key(u) \in c.state
      BY <1>2, <2>3, <3>1, Unlinkers DEF Pending, Unlinking, Nothing
    <3> DEFINE d == Effect(c.state, call[u])
               e == Effect(d.state, call[t])
    <3>3. d.state = c.state \ {key(t)} /\ d.ret = key(u)
      BY <3>1, <3>2 DEF Effect, Outcome, key
    <3> HIDE DEF d
    <3>4. e.state = c.state \ {key(t)} /\ e.ret = 0
      BY <3>3 DEF Effect, Outcome, key
    <3> HIDE DEF e
    <3>5. d = Effect(c.state, call[u]) /\ e = Effect(d.state, call[t])
      BY DEF d, e
    <3>6. PICK b \in Explained(c, t) :
             /\ b.state = e.state /\ DOMAIN b.ret = DOMAIN c.ret \cup {u, t} /\ b.ret[t] = e.ret /\ b.ret[u] = d.ret
             /\ \A v \in DOMAIN c.ret : b.ret[v] = c.ret[v]
      BY <2>7, <3>1, <3>2, <3>5, AfterOne
    <3>7. Suits(b, DOMAIN b.ret \ {t}, F, Unlinking, Present, Contents)
      <4>1. DOMAIN b.ret \ {t} = DOMAIN c.ret \cup {u}
        BY <2>7, <3>2, <3>6
      <4>2. Unlinking \cap (DOMAIN c.ret \cup {u}) = (Unlinking \cap DOMAIN c.ret) \cup {u}
        BY <3>1
      <4>3. b.state = Contents \ {key(v) : v \in (Unlinking \cap DOMAIN c.ret) \cup {u}}
        BY <2>4, <3>1, <3>4, <3>6
      <4>4. u \notin F
        BY <2>2, <3>2 DEF Finding
      <4>. QED  BY <2>2, <2>4, <2>7, <3>1, <3>3, <3>6, <4>1, <4>2, <4>3, <4>4 DEF Suits
    <3>. QED  BY <3>4, <3>6, <3>7 DEF CanExplain
  <2>. QED  BY <2>5, <2>6, <2>7
<1>4. pc[t] \notin {"idle", "unlink"}
  OBVIOUS
<1>. QED  BY <1>1, <1>3, <1>4, LazyCalmReturns

LEMMA LazyStart ==
  ASSUME LazyInv, NEW t \in Threads, Lazy!Start(t)
  PROVE  LazyInv'
<1>1. PICK c : c = heap[HeadNode].next
  OBVIOUS
<1>2. /\ pc[t] = "start" /\ heap' = heap
      /\ \/ call[t].op = "delete" /\ c = TailNode /\ Return(t, 0)
         \/ Lazy!Continue(t, HeadNode, c) /\ Internal
  BY <1>1, LazySteps DEF Lazy!Start
<1>3. MemoryOK /\ LazyMemory /\ CallsOK /\ Published(HeadNode) /\ HeadNode \in DOMAIN heap /\ c = succ[HeadNode]
  BY <1>1, OnTheList, SuccAndRank DEF LazyInv
<1>4. key(t) \in Keys /\ key(t) = call[t].key
  BY <1>2, <1>3 DEF CallsOK, Idling, Busy, key
<1>5. CASE call[t].op = "delete" /\ c = TailNode /\ Return(t, 0)
  <2>1. Contents = {}
    BY <1>3, <1>5, EmptyList
  <2>2. \A s : Present \subseteq s /\ s \subseteq Contents => Effect(s, call[t]) = [state |-> s, ret |-> 0]
    BY <1>5, <2>1 DEF Effect, Outcome
  <2>3. made' = made
    BY <1>5 DEF Return, Answer
  <2>4. Calm(t) /\ pc[t] \notin {"idle", "unlink"} /\ Return(t, 0)
    BY <1>2, <1>3, <1>5, <2>3, NothingWritten
  <2>. QED  BY <2>2, <2>4, LazyUnchanged
<1>6. CASE Lazy!Continue(t, HeadNode, c) /\ Internal
  <2>1. rank[HeadNode] < key(t) /\ HeadNode # TailNode
    BY <1>3, <1>4, SuccAndRank, GreatestKey, NamesAssumption
  <2>2. Published(c)
    BY <1>3, <2>1 DEF LazyMemory, Published
  <2>3. pc[t] \in {"start", "walk"} /\ heap' = heap /\ Internal /\ Lazy!Continue(t, HeadNode, c)
    BY <1>2, <1>6
  <2>. QED  BY <1>3, <2>1, <2>2, <2>3, LazyContinue
<1>. QED  BY <1>2, <1>5, <1>6

(* A validated call that gives up.                                          *)
LEMMA LazyGivesUp ==
  ASSUME LazyInv, NEW t \in Threads, NEW op, Lazy!Valid(t, op), Unlock(heap, Lazy!Both(t)), Return(t, 0),
         \A s : Present \subseteq s /\ s \subseteq Contents => Effect(s, call[t]) = [state |-> s, ret |-> 0]
  PROVE  LazyInv'
<1> DEFINE S == {my[t].pred, my[t].curr}
<1>1. \A n \in S : heap[n].owner = t
  BY Validated
<1>2. MemoryOK /\ LazyMemory /\ pc[t] = "validate"
  BY Validated
<1>3. Unlock(heap, S)
  BY DEF Lazy!Both
<1>4. made' = made
  BY DEF Return, Answer
<1> HIDE DEF S
<1>5. Calm(t)
  BY <1>1, <1>2, <1>3, <1>4, MutexesGiven
<1>6. pc[t] \notin {"idle", "unlink"}
  BY <1>2
<1>. QED  BY <1>5, <1>6, LazyUnchanged

LEMMA LazyDelete ==
  ASSUME LazyInv, NEW t \in Threads, Lazy!delete(t)
  PROVE  LazyInv'
<1>1. PICK p, c : p = my[t].pred /\ c = my[t].curr
  OBVIOUS
<1>2. /\ Lazy!Valid(t, "delete")
      /\ \/ heap[c].key # key(t) /\ Unlock(heap, Lazy!Both(t)) /\ Return(t, 0)
         \/ /\ heap[c].key = key(t) /\ heap' = [heap EXCEPT ![c].marked = TRUE]
            /\ Goto(t, "unlink") /\ my' = my /\ Internal
  BY <1>1, LazySteps DEF Lazy!delete, Lazy!Found
<1>3. CASE heap[c].key # key(t) /\ Unlock(heap, Lazy!Both(t)) /\ Return(t, 0)
  <2>1. /\ key(t) \notin Contents /\ call[t].op = "delete" /\ key(t) = call[t].key
    BY <1>1, <1>2, <1>3, Validated
  <2>2. \A s : Present \subseteq s /\ s \subseteq Contents => Effect(s, call[t]) = [state |-> s, ret |-> 0]
    BY <2>1 DEF Effect, Outcome
  <2>3. Lazy!Valid(t, "delete") /\ Unlock(heap, Lazy!Both(t)) /\ Return(t, 0)
    BY <1>2, <1>3
  <2>. QED  BY <2>2, <2>3, LazyGivesUp
<1>4. CASE /\ heap[c].key = key(t) /\ heap' = [heap EXCEPT ![c].marked = TRUE]
           /\ Goto(t, "unlink") /\ my' = my /\ Internal
  BY <1>1, <1>2, <1>4, LazyMark
<1>. QED  BY <1>2, <1>3, <1>4

LEMMA RanksAhead ==
  ASSUME MemoryOK, LazyMemory, NEW a \in DOMAIN heap, NEW b \in Reachable(succ, a), b # a
  PROVE  b \in DOMAIN heap /\ rank[a] < rank[b]
<1>1. /\ DOMAIN succ = DOMAIN heap
      /\ \A n \in DOMAIN succ : succ[n] = Null \/ succ[n] \in DOMAIN succ
      /\ \A n \in DOMAIN succ : succ[n] # Null => rank[n] < rank[succ[n]]
  BY SuccAndRank DEF MemoryOK, Sorted, InMemory, LazyMemory
<1>2. \A n \in DOMAIN heap : rank[n] \in Int
  BY GreatestKey, SuccAndRank DEF MemoryOK, Sorted
<1> DEFINE S == {n \in DOMAIN heap : n = a \/ rank[a] < rank[n]}
<1>3. ASSUME NEW n \in S, succ[n] # Null PROVE succ[n] \in S
  BY <1>1, <1>2, <1>3
<1>4. Closed(succ, S) /\ a \in S /\ S \in SUBSET DOMAIN succ
  BY <1>1, <1>3 DEF Closed
<1>5. b \in S
  <2> HIDE DEF S
  <2>. QED  BY <1>1, <1>4, WalkFacts
<1>. QED  BY <1>5

LEMMA LazyFind ==
  ASSUME LazyInv, NEW t \in Threads, Lazy!find(t)
  PROVE  LazyInv'
<1>1. PICK n : n = Spot(t)
  OBVIOUS
<1>2. /\ pc[t] = "find" /\ heap' = heap
      /\ \/ heap[n].key < key(t) /\ Lazy!Set(t, [curr |-> heap[n].next]) /\ pc' = pc /\ Internal
         \/ /\ heap[n].key >= key(t)
            /\ Return(t, IF heap[n].key = key(t) /\ ~heap[n].marked THEN key(t) ELSE 0)
  BY <1>1, LazySteps DEF Lazy!find, Spot
<1>3. MemoryOK /\ LazyMemory /\ CallsOK /\ LazyThread(t)
  BY DEF LazyInv
<1>4. key(t) \in Keys /\ key(t) = call[t].key /\ call[t].op = "find" /\ Published(n) /\ n \in DOMAIN heap
  BY <1>1, <1>2, <1>3, OnTheList DEF CallsOK, Idling, Busy, key, LazyThread, Spot, Published
<1>5. key(t) \in Int /\ rank[n] \in Int /\ (heap[n].key < key(t) <=> rank[n] < key(t)) /\ heap[n].key \in Int
      /\ (heap[n].key = key(t) <=> rank[n] = key(t))
  BY <1>3, <1>4, KeyAndRank, GreatestKey
<1>6. CASE heap[n].key < key(t) /\ Lazy!Set(t, [curr |-> heap[n].next]) /\ pc' = pc /\ Internal
  BY <1>1, <1>2, <1>6, LazyFindGoes
<1>7. CASE heap[n].key >= key(t) /\ Return(t, IF heap[n].key = key(t) /\ ~heap[n].marked THEN key(t) ELSE 0)
  <2>1. made' = made
    BY <1>7 DEF Return, Answer
  <2>2. Calm(t) /\ pc[t] \notin {"idle", "unlink"}
    BY <1>2, <1>3, <2>1, NothingWritten
  <2>3. CASE heap[n].key = key(t) /\ ~heap[n].marked
    <3>1. n \notin {HeadNode, TailNode}
      BY <1>3, <1>4, <1>5, <2>3, SuccAndRank, GreatestKey
    <3>2. key(t) \in Present
      BY <1>3, <1>4, <2>3, <3>1 DEF LazyMemory, Present
    <3>3. \A s : Present \subseteq s /\ s \subseteq Contents => Effect(s, call[t]) = [state |-> s, ret |-> key(t)]
      BY <1>4, <3>2 DEF Effect, Outcome
    <3>4. Return(t, key(t))
      BY <1>7, <2>3
    <3>. QED  BY <2>2, <3>3, <3>4, LazyUnchanged
  <2>4. CASE ~(heap[n].key = key(t) /\ ~heap[n].marked)
    <3>1. ~WillFind(t)
      <4>1. SUFFICES ASSUME WillFind(t) PROVE FALSE
        OBVIOUS
      <4>2. PICK m \in DOMAIN heap : ~heap[m].marked /\ rank[m] = key(t) /\ m \in Reachable(succ, n)
        BY <1>1, <4>1 DEF WillFind
      <4>3. m # n
        BY <1>5, <2>4, <4>2
      <4>4. rank[n] < rank[m]
        BY <1>3, <1>4, <4>2, <4>3, RanksAhead
      <4>. QED  BY <1>5, <1>7, <4>2, <4>4
    <3>2. Return(t, 0)
      BY <1>7, <2>4
    <3>. QED  BY <1>2, <1>4, <2>2, <3>1, <3>2, LazyNotFound
  <2>. QED  BY <2>3, <2>4
<1>. QED  BY <1>2, <1>6, <1>7

(* Where a find is, there is a node. *)
LEMMA FindSpot ==
  ASSUME LazyInv, NEW u \in Finding
  PROVE  u \in Threads /\ pc[u] = "find" /\ Published(Spot(u)) /\ Spot(u) \in DOMAIN heap
<1>1. u \in Threads /\ call[u].op = "find" /\ MemoryOK /\ CallsOK /\ LazyThread(u)
  BY DEF Finding, LazyInv
<1>2. pc[u] = "find"
  BY <1>1 DEF CallsOK, Idling, Busy, Nothing, LazyThread
<1>. QED  BY <1>1, <1>2, OnTheList DEF LazyThread, Spot, Published

(* The writes of an add that has found its place.                           *)
LEMMA LazyInsert ==
  ASSUME LazyInv, NEW t \in Threads, Lazy!Valid(t, "add"), NEW p, NEW c, p = my[t].pred, c = my[t].curr,
         heap[c].key # key(t), NEW S, S = {p, c}, Unlock(Inserted(new(t), p), S), made' = made, OthersCalls(t)
  PROVE  /\ MemoryOK' /\ OthersNodes(t) /\ Contents' = Contents \cup {key(t)} /\ key(t) \notin Contents
         /\ LazyMemory' /\ Kept(t) /\ Present' \subseteq Present \cup {key(t)}
         /\ \A u \in Finding : WillFind(u) => WillFind(u)'
<1>1. PICK m : m = new(t)
  OBVIOUS
<1>2. /\ MemoryOK /\ CallsOK /\ LazyMemory /\ pc[t] = "validate" /\ call[t].op = "add"
      /\ Busy(t) /\ key(t) \in Keys
      /\ p \in DOMAIN heap /\ c \in DOMAIN heap /\ Published(p) /\ Published(c)
      /\ c = succ[p] /\ rank[p] < key(t) /\ heap[p].owner = t /\ heap[c].owner = t
      /\ Place(p, key(t)) /\ p \in WalkOf(succ) /\ ~At1(p, key(t)) /\ key(t) \notin Contents
      /\ key(t) <= rank[c]
  <2>1. key(t) <= rank[c]
    BY Validated DEF LazyThread
  <2>. QED  BY <2>1, Validated
<1>3. /\ MemoryOK' /\ OthersNodes(t) /\ Contents' = Contents \cup {key(t)}
      /\ WalkOf(succ') = WalkOf(succ) \cup {m}
      /\ succ' = [n \in DOMAIN heap |-> IF n = p THEN m ELSE IF n = m THEN succ[p] ELSE succ[n]]
      /\ Linked(succ') /\ \A n \in DOMAIN heap : heap'[n].owner = IF n \in S THEN Null ELSE heap[n].owner
  <2>1. /\ MemoryOK' /\ OthersNodes(t) /\ Contents' = Contents \cup {key(t)}
        /\ WalkOf(succ') = WalkOf(succ) \cup {new(t)}
        /\ succ' = [n \in DOMAIN heap |-> IF n = p THEN new(t) ELSE IF n = new(t) THEN succ[p] ELSE succ[n]]
        /\ Linked(succ') /\ \A n \in DOMAIN heap : heap'[n].owner = IF n \in S THEN Null ELSE heap[n].owner
    BY <1>2, AddsNode
  <2>. QED  BY <1>1, <2>1
<1>4. /\ m \in DOMAIN heap /\ succ[m] = Null /\ heap[m].key = key(t) /\ m \notin {HeadNode, TailNode}
      /\ ~Published(m) /\ ~heap[m].marked /\ m # p /\ m # c /\ rank[m] = key(t)
  <2>1. m \in DOMAIN heap /\ m \in 1 .. made /\ succ[m] = Null /\ heap[m].key = key(t)
    BY <1>1, <1>2 DEF Busy
  <2>2. m \notin {HeadNode, TailNode}
    BY <1>2, <2>1, NamesAssumption DEF CallsOK
  <2>3. ~Published(m) /\ ~heap[m].marked
    BY <1>2, <2>1, <2>2 DEF Published, LazyMemory
  <2>. QED  BY <1>2, <2>1, <2>2, <2>3, SuccAndRank
<1>5. \A n \in DOMAIN heap : /\ "marked" \in DOMAIN heap'[n] /\ heap'[n].marked = heap[n].marked
  <2> DEFINE h == Inserted(m, p)
  <2>1. ASSUME NEW n \in DOMAIN heap PROVE "marked" \in DOMAIN h[n] /\ h[n].marked = heap[n].marked
    <3>1. /\ \A x \in DOMAIN heap : "marked" \in DOMAIN heap[x]
          /\ h[m] = [heap[m] EXCEPT !.next = succ[p]] /\ h[p] = [heap[p] EXCEPT !.next = m]
          /\ n \notin {m, p} => h[n] = heap[n]
      BY <1>2, <1>4 DEF LazyMemory, Inserted
    <3>. QED  BY <1>2, <1>4, <3>1
  <2>2. DOMAIN h = DOMAIN heap /\ Unlock(h, S)
    BY <1>1 DEF Inserted
  <2> HIDE DEF h
  <2>. QED  BY <2>1, <2>2, MarksKept
<1>6. /\ DOMAIN heap' = DOMAIN heap /\ rank' = rank /\ Null \notin DOMAIN heap
      /\ \A n \in DOMAIN heap : heap'[n].key = heap[n].key
  <2>1. DOMAIN heap' = DOMAIN heap /\ \A n \in DOMAIN heap : heap'[n].key = heap[n].key
    BY <1>3 DEF Linked
  <2>2. rank' = rank
    BY <2>1 DEF rank
  <2>. QED  BY <1>2, <2>1, <2>2, OnTheList
<1>7. succ'[p] = m /\ succ'[m] = c /\ \A n \in DOMAIN heap : n \notin {p, m} => succ'[n] = succ[n]
  BY <1>2, <1>3, <1>4
<1>8. \A n : Published(n)' <=> Published(n) \/ n = m
  <2>1. ASSUME NEW n \in DOMAIN heap PROVE n = TailNode \/ succ'[n] # Null <=> n = TailNode \/ succ[n] # Null \/ n = m
    BY <1>2, <1>4, <1>6, <1>7, <2>1 DEF Published
  <2>. QED  BY <1>4, <1>6, <2>1 DEF Published
<1>9. Kept(t)
  <2>1. ASSUME NEW n, Published(n)
        PROVE  n \in DOMAIN heap /\ n # m /\ \A u \in Threads \ {t} : heap[n].owner = u => n \notin S /\ n # p
    BY <1>2, <1>4, <2>1 DEF Published
  <2>2. ASSUME NEW n, Published(n), NEW u \in Threads \ {t}, heap[n].owner = u
        PROVE  heap'[n].owner = u /\ heap'[n].marked = heap[n].marked /\ succ'[n] = succ[n]
    BY <1>3, <1>5, <1>7, <2>1, <2>2
  <2>. QED  BY <1>6, <1>8, <2>1, <2>2 DEF Kept
<1>10. LazyMemory'
  <2>1. /\ \A n \in DOMAIN heap : "marked" \in DOMAIN heap'[n] /\ heap'[n].marked \in BOOLEAN
        /\ heap'[HeadNode].key = Lowest /\ heap'[TailNode].key = Highest
        /\ ~heap'[HeadNode].marked /\ ~heap'[TailNode].marked
    <3>1. {HeadNode, TailNode} \subseteq DOMAIN heap
      BY <1>2, SuccAndRank
    <3>. QED  BY <1>2, <1>5, <1>6, <3>1 DEF LazyMemory
  <2>2. ASSUME NEW n \in DOMAIN heap, succ'[n] # Null
        PROVE  (Published(succ'[n]) \/ succ'[n] = m) /\ rank[n] < rank[succ'[n]]
    <3>1. CASE n = p
      BY <1>2, <1>4, <1>7, <3>1
    <3>2. CASE n = m
      <4>1. rank[c] # key(t) /\ rank[c] \in Int /\ key(t) \in Int
        BY <1>2, KeyAndRank, GreatestKey
      <4>. QED  BY <1>2, <1>4, <1>7, <3>2, <4>1
    <3>3. CASE n \notin {p, m}
      <4>1. succ'[n] = succ[n]
        BY <1>7, <3>3
      <4>. QED  BY <1>2, <2>2, <4>1 DEF LazyMemory
    <3>. QED  BY <3>1, <3>2, <3>3
  <2>3. ASSUME NEW n \in DOMAIN heap
        PROVE  /\ heap'[n].marked => Published(n)
               /\ (Published(n) \/ n = m) /\ ~heap'[n].marked => n \in WalkOf(succ')
    <3>1. heap'[n].marked = heap[n].marked
      BY <1>5
    <3>2. (heap[n].marked => Published(n)) /\ (Published(n) /\ ~heap[n].marked => n \in WalkOf(succ))
      BY <1>2 DEF LazyMemory
    <3>. QED  BY <1>3, <3>1, <3>2
  <2>4. ASSUME NEW n \in WalkOf(succ'), heap'[n].marked PROVE \E u \in Threads : pc'[u] = "unlink" /\ my'[u].curr = n
    <3>1. n \in WalkOf(succ) /\ heap[n].marked
      BY <1>2, <1>3, <1>4, <1>5, <2>4, SuccAndRank
    <3>2. PICK u \in Threads : pc[u] = "unlink" /\ my[u].curr = n
      BY <1>2, <3>1 DEF LazyMemory
    <3>. QED  BY <1>2, <3>2 DEF OthersCalls
  <2>5. \A n \in DOMAIN heap : succ'[n] # Null => Published(succ[n])' /\ rank[n] < rank[succ'[n]]
    BY <1>8, <2>2
  <2>6. \A n \in DOMAIN heap : heap'[n].marked => Published(n)'
    BY <1>8, <2>3
  <2>7. \A n \in DOMAIN heap : Published(n)' /\ ~heap'[n].marked => n \in WalkOf(succ')
    BY <1>8, <2>3
  <2>8. DOMAIN heap' = DOMAIN heap /\ rank' = rank
    BY <1>6
  <2>. QED  BY ONLY <2>1, <2>4, <2>5, <2>6, <2>7, <2>8 DEF LazyMemory
<1>11. Present' \subseteq Present \cup {key(t)}
  <2> DEFINE On == {n \in WalkOf(succ') \ {HeadNode, TailNode} : ~heap'[n].marked}
  <2>1. Present' = {heap'[n].key : n \in On}
    BY DEF Present
  <2>2. ASSUME NEW n \in On PROVE heap'[n].key \in Present \cup {key(t)}
    <3>1. CASE n = m
      BY <1>4, <1>6, <3>1
    <3>2. CASE n # m
      <4>1. n \in WalkOf(succ) \ {HeadNode, TailNode} /\ n \in DOMAIN heap
        BY <1>2, <1>3, <3>2, SuccAndRank
      <4>2. heap'[n].key = heap[n].key /\ ~heap[n].marked
        BY <1>5, <1>6, <4>1
      <4>. QED  BY <4>1, <4>2 DEF Present
    <3>. QED  BY <3>1, <3>2
  <2> HIDE DEF On
  <2>. QED  BY <2>1, <2>2
<1>12. ASSUME NEW u \in Finding, WillFind(u) PROVE WillFind(u)'
  <2>1. PICK n \in DOMAIN heap : ~heap[n].marked /\ rank[n] = key(u) /\ n \in Reachable(succ, Spot(u))
    BY <1>12 DEF WillFind
  <2>2. u \in Threads \ {t} /\ Spot(u) \in DOMAIN heap
    BY <1>2, FindSpot
  <2>3. Spot(u)' = Spot(u) /\ key(u)' = key(u)
    BY <2>2 DEF Spot, key, OthersCalls
  <2>4. n \in Reachable(succ', Spot(u))
    <3>1. /\ InMemory(succ) /\ p \in DOMAIN succ /\ m \in DOMAIN succ /\ m # p /\ succ[m] = Null
          /\ succ' = [x \in DOMAIN succ |-> IF x = p THEN m ELSE IF x = m THEN succ[p] ELSE succ[x]]
          /\ Spot(u) \in DOMAIN succ
      BY <1>2, <1>3, <1>4, <2>2, SuccAndRank DEF MemoryOK, Sorted
    <3>. QED  BY <2>1, <3>1, ReachedAfterInsertion
  <2>. QED  BY <1>5, <1>6, <2>1, <2>3, <2>4 DEF WillFind
<1>. QED  BY <1>2, <1>3, <1>9, <1>10, <1>11, <1>12

LEMMA LazyAdd ==
  ASSUME LazyInv, NEW t \in Threads, Lazy!add(t)
  PROVE  LazyInv'
<1>1. PICK p, c : p = my[t].pred /\ c = my[t].curr
  OBVIOUS
<1> DEFINE S == {p, c}
<1>2. /\ Lazy!Valid(t, "add")
      /\ \/ heap[c].key = key(t) /\ Unlock(heap, Lazy!Both(t)) /\ Return(t, 0)
         \/ /\ heap[c].key # key(t)
            /\ Unlock([heap EXCEPT ![new(t)].next = c, ![p].next = new(t)], S) /\ Return(t, key(t))
  BY <1>1, LazySteps DEF Lazy!add, Lazy!Found, Lazy!Both
<1>3. /\ MemoryOK /\ CallsOK /\ LazyMemory /\ pc[t] = "validate" /\ call[t].op = "add" /\ key(t) = call[t].key
      /\ c \in WalkOf(succ) /\ c # HeadNode /\ c = succ[p] /\ ~heap[c].marked
      /\ heap[c].key = key(t) => c # TailNode
  BY <1>1, <1>2, Validated
<1>4. CASE heap[c].key = key(t) /\ Unlock(heap, Lazy!Both(t)) /\ Return(t, 0)
  <2>1. key(t) \in Present
    BY <1>3, <1>4 DEF Present
  <2>2. \A s : Present \subseteq s /\ s \subseteq Contents => Effect(s, call[t]) = [state |-> s, ret |-> 0]
    <3>1. SUFFICES ASSUME NEW s, Present \subseteq s PROVE Effect(s, call[t]) = [state |-> s, ret |-> 0]
      OBVIOUS
    <3>2. key(t) \in s /\ s \cup {key(t)} = s
      BY <2>1, <3>1
    <3>. QED  BY <1>3, <3>2 DEF Effect, Outcome
  <2>3. Lazy!Valid(t, "add") /\ Unlock(heap, Lazy!Both(t)) /\ Return(t, 0)
    BY <1>2, <1>4
  <2>. QED  BY <2>2, <2>3, LazyGivesUp
<1>5. CASE /\ heap[c].key # key(t)
           /\ Unlock([heap EXCEPT ![new(t)].next = c, ![p].next = new(t)], S) /\ Return(t, key(t))
  <2>1. Unlock(Inserted(new(t), p), S) /\ made' = made /\ Lazy!Valid(t, "add") /\ Answer(t, key(t))
    BY <1>2, <1>3, <1>5 DEF Inserted, Return, Answer
  <2>2. OthersCalls(t) /\ pc'[t] = "idle"
    BY <1>3, <1>5 DEF Return, Answer, Goto, CallsOK, OthersCalls
  <2>3. /\ MemoryOK' /\ OthersNodes(t) /\ Contents' = Contents \cup {key(t)} /\ key(t) \notin Contents
        /\ LazyMemory' /\ Kept(t) /\ Present' \subseteq Present \cup {key(t)}
        /\ \A u \in Finding : WillFind(u) => WillFind(u)'
    <3>1. S = {p, c}
      OBVIOUS
    <3> HIDE DEF S
    <3>. QED  BY <1>1, <1>5, <2>1, <2>2, <3>1, LazyInsert
  <2>4. PICK G : Allows(G)
    BY SomeAllowed DEF LazyInv
  <2>5. t \notin Finding /\ t \notin Unlinking /\ Unlinking' = Unlinking /\ Unlinking' = Unlinking \ {t}
    BY <1>3, <2>2 DEF Finding, Unlinking, OthersCalls
  <2>6. ASSUME NEW F \in SUBSET (G \ {t}) PROVE CanExplain(t, key(t), F, Unlinking', Present', Contents')
    <3>1. PICK k : k = key(t)
      OBVIOUS
    <3>2. PICK a \in configs : Fits(a, F)
      BY <2>4 DEF Allows
    <3>3. F \subseteq Finding /\ Finding \subseteq Threads
      BY <2>4 DEF Allows, Finding
    <3>4. /\ Present \subseteq a.state /\ a.state \subseteq Contents /\ t \notin DOMAIN a.ret
          /\ Finding \cap Unlinking = {}
      BY <2>5, <3>2, <3>3, FittingStates
    <3> DEFINE D == {u \in F \ DOMAIN a.ret : key(u) = k}
               e == Effect(a.state, call[t])
    <3>5. e.state = a.state \cup {k} /\ e.ret = k
      BY <1>3, <2>3, <3>1, <3>4 DEF Effect, Outcome
    <3>6. /\ IsFiniteSet(D) /\ D \subseteq Pending \ (DOMAIN a.ret \cup {t})
          /\ \A u \in D : call[u].op = "find" /\ key(u) \notin a.state
      <4>1. IsFiniteSet(D)
        BY <3>3, FS_Subset, NamesAssumption
      <4>2. ASSUME NEW u \in D
            PROVE  u \in Pending /\ u # t /\ u \notin DOMAIN a.ret /\ call[u].op = "find" /\ key(u) \notin a.state
        BY <2>3, <2>5, <3>1, <3>3, <3>4 DEF Finding, Pending, Nothing
      <4>. QED  BY <4>1, <4>2
    <3>7. D \subseteq F /\ \A u \in F : u \in D <=> u \notin DOMAIN a.ret /\ key(u) = k
      OBVIOUS
    <3> HIDE DEF D
    <3>8. PICK b \in Explained(a, t) :
             /\ b.state = e.state /\ DOMAIN b.ret = DOMAIN a.ret \cup D \cup {t} /\ b.ret[t] = e.ret
             /\ \A u \in DOMAIN a.ret : b.ret[u] = a.ret[u]
             /\ \A u \in D : b.ret[u] = 0
      <4>1. e = Effect(a.state, call[t])
        OBVIOUS
      <4> HIDE DEF e
      <4>. QED  BY <3>4, <3>6, <4>1, AfterFinds
    <3> HIDE DEF e
    <3>9. DOMAIN b.ret \ {t} = DOMAIN a.ret \cup D
      BY <2>5, <3>3, <3>4, <3>7, <3>8
    <3>10. /\ DOMAIN a.ret \subseteq F \cup Unlinking
           /\ \A u \in F : IF u \in DOMAIN a.ret THEN a.ret[u] = 0 ELSE key(u) \notin Present
           /\ \A u \in Unlinking \cap DOMAIN a.ret : a.ret[u] = key(u)
           /\ a.state = Contents \ {key(u) : u \in Unlinking \cap DOMAIN a.ret}
      BY <3>2 DEF Fits
    <3>11. Unlinking \cap (DOMAIN a.ret \cup D) = Unlinking \cap DOMAIN a.ret
      BY <3>3, <3>4, <3>7
    <3>12. \A u \in Unlinking : key(u) # k
      BY <2>3, <3>1, Unlinkers
    <3>13. b.state = Contents' \ {key(u) : u \in Unlinking \cap (DOMAIN a.ret \cup D)}
      BY <2>3, <3>1, <3>5, <3>8, <3>10, <3>11, <3>12
    <3>14. ASSUME NEW u \in F PROVE IF u \in DOMAIN a.ret \cup D THEN b.ret[u] = 0 ELSE key(u) \notin Present'
      BY <2>3, <3>1, <3>7, <3>8, <3>10
    <3>15. Suits(b, DOMAIN b.ret \ {t}, F, Unlinking', Present', Contents')
      <4>1. DOMAIN a.ret \cup D \subseteq F \cup Unlinking
        BY <3>7, <3>10
      <4>2. \A u \in Unlinking \cap (DOMAIN a.ret \cup D) : b.ret[u] = key(u)
        BY <3>8, <3>10, <3>11
      <4>. QED  BY <2>5, <3>9, <3>13, <3>14, <4>1, <4>2 DEF Suits
    <3>. QED  BY <3>1, <3>5, <3>8, <3>15 DEF CanExplain
  <2>7. \A u \in Finding \ {t} : WillFind(u) => WillFind(u)'
    BY <2>3
  <2>. QED  BY <1>5, <2>3, <2>4, <2>5, <2>6, <2>7, LazyReturns
<1>. QED  BY <1>2, <1>4, <1>5

(* The second write of a delete, which has marked curr before.              *)
LEMMA LazyRemove ==
  ASSUME LazyInv, NEW t \in Threads, pc[t] = "unlink", NEW p, NEW c, p = my[t].pred, c = my[t].curr,
         NEW S, S = {p, c}, Unlock(Removed(p), S), made' = made, OthersCalls(t)
  PROVE  /\ MemoryOK' /\ OthersNodes(t) /\ Contents' = Contents \ {key(t)}
         /\ LazyMemory' /\ Kept(t) /\ Present' \subseteq Present
         /\ \A u \in Finding : WillFind(u) => WillFind(u)'
<1>1. MemoryOK /\ CallsOK /\ LazyMemory /\ LazyThread(t)
  BY DEF LazyInv
<1>2. /\ Busy(t) /\ key(t) \in Keys /\ key(t) \in Int /\ call[t].op = "delete"
      /\ Published(p) /\ Published(c) /\ rank[p] < key(t) /\ rank[c] = key(t) /\ c = succ[p]
      /\ heap[p].owner = t /\ heap[c].owner = t /\ heap[c].marked /\ ~heap[p].marked
  BY <1>1, GreatestKey DEF CallsOK, Idling, Busy, LazyThread
<1>3. p \in DOMAIN heap /\ c \in DOMAIN heap /\ p # c /\ key(t) <= rank[c]
  BY <1>2 DEF Published
<1>4. heap[c].key = key(t)
  BY <1>1, <1>2, <1>3, KeyAndRank
<1>5. Place(p, key(t)) /\ p \in WalkOf(succ) /\ c \in WalkOf(succ) /\ At1(p, key(t)) /\ c # TailNode /\ p # TailNode
  BY <1>1, <1>2, <1>3, <1>4, LazyPlace
<1>6. /\ MemoryOK' /\ OthersNodes(t) /\ Contents' = Contents \ {key(t)}
      /\ WalkOf(succ') = WalkOf(succ) \ {c}
      /\ succ' = [n \in DOMAIN heap |-> IF n = p THEN succ[c] ELSE succ[n]]
      /\ Linked(succ') /\ \A n \in DOMAIN heap : heap'[n].owner = IF n \in S THEN Null ELSE heap[n].owner
  <2>1. /\ MemoryOK' /\ OthersNodes(t) /\ Contents' = Contents \ {key(t)}
        /\ WalkOf(succ') = WalkOf(succ) \ {succ[p]}
        /\ succ' = [n \in DOMAIN heap |-> IF n = p THEN succ[succ[p]] ELSE succ[n]]
        /\ Linked(succ') /\ \A n \in DOMAIN heap : heap'[n].owner = IF n \in S THEN Null ELSE heap[n].owner
    BY <1>1, <1>2, <1>5, DropsNode
  <2>. QED  BY <1>2, <2>1
<1>7. \A n \in DOMAIN heap : /\ "marked" \in DOMAIN heap'[n] /\ heap'[n].marked = heap[n].marked
  <2> DEFINE h == Removed(p)
  <2>1. ASSUME NEW n \in DOMAIN heap PROVE "marked" \in DOMAIN h[n] /\ h[n].marked = heap[n].marked
    <3>1. /\ \A x \in DOMAIN heap : "marked" \in DOMAIN heap[x]
          /\ h[p] = [heap[p] EXCEPT !.next = succ[succ[p]]] /\ (n # p => h[n] = heap[n])
      BY <1>1, <1>3 DEF LazyMemory, Removed
    <3>. QED  BY <1>3, <3>1
  <2>2. DOMAIN h = DOMAIN heap /\ Unlock(h, S)
    BY DEF Removed
  <2> HIDE DEF h
  <2>. QED  BY <2>1, <2>2, MarksKept
<1>8. /\ DOMAIN heap' = DOMAIN heap /\ rank' = rank /\ Null \notin DOMAIN heap
      /\ \A n \in DOMAIN heap : heap'[n].key = heap[n].key
  <2>1. DOMAIN heap' = DOMAIN heap /\ \A n \in DOMAIN heap : heap'[n].key = heap[n].key
    BY <1>6 DEF Linked
  <2>2. rank' = rank
    BY <2>1 DEF rank
  <2>. QED  BY <1>1, <2>1, <2>2, OnTheList
<1>9. /\ succ'[p] = succ[c] /\ \A n \in DOMAIN heap \ {p} : succ'[n] = succ[n]
      /\ succ[c] # Null /\ Published(succ[c]) /\ rank[c] < rank[succ[c]]
  BY <1>1, <1>3, <1>5, <1>6, SuccAndRank DEF LazyMemory
<1>10. \A n : Published(n)' <=> Published(n)
  <2>1. ASSUME NEW n \in DOMAIN heap PROVE n = TailNode \/ succ'[n] # Null <=> n = TailNode \/ succ[n] # Null
    BY <1>2, <1>9, <2>1 DEF Published
  <2>. QED  BY <1>8, <2>1 DEF Published
<1>11. Kept(t)
  <2>1. ASSUME NEW n, Published(n)
        PROVE  n \in DOMAIN heap /\ \A u \in Threads \ {t} : heap[n].owner = u => n \notin S /\ n # p
    BY <1>2, <2>1 DEF Published
  <2>2. ASSUME NEW n, Published(n), NEW u \in Threads \ {t}, heap[n].owner = u
        PROVE  heap'[n].owner = u /\ heap'[n].marked = heap[n].marked /\ succ'[n] = succ[n]
    BY <1>6, <1>7, <1>9, <2>1, <2>2
  <2>. QED  BY <1>8, <1>10, <2>1, <2>2 DEF Kept
<1>12. LazyMemory'
  <2>1. /\ \A n \in DOMAIN heap : "marked" \in DOMAIN heap'[n] /\ heap'[n].marked \in BOOLEAN
        /\ heap'[HeadNode].key = Lowest /\ heap'[TailNode].key = Highest
        /\ ~heap'[HeadNode].marked /\ ~heap'[TailNode].marked
    <3>1. {HeadNode, TailNode} \subseteq DOMAIN heap
      BY <1>1, SuccAndRank
    <3>. QED  BY <1>1, <1>7, <1>8, <3>1 DEF LazyMemory
  <2>2. ASSUME NEW n \in DOMAIN heap, succ'[n] # Null
        PROVE  Published(succ'[n]) /\ rank[n] < rank[succ'[n]]
    <3>1. CASE n = p
      <4>1. rank[p] \in Int /\ rank[succ[c]] \in Int
        BY <1>1, <1>2, <1>3, <1>9, KeyAndRank DEF Published
      <4>. QED  BY <1>2, <1>9, <3>1, <4>1
    <3>2. CASE n # p
      <4>1. succ'[n] = succ[n]
        BY <1>9, <3>2
      <4>. QED  BY <1>1, <2>2, <4>1 DEF LazyMemory
    <3>. QED  BY <3>1, <3>2
  <2>3. ASSUME NEW n \in DOMAIN heap
        PROVE  /\ heap'[n].marked => Published(n)
               /\ Published(n) /\ ~heap'[n].marked => n \in WalkOf(succ')
    <3>1. heap'[n].marked = heap[n].marked
      BY <1>7
    <3>2. (heap[n].marked => Published(n)) /\ (Published(n) /\ ~heap[n].marked => n \in WalkOf(succ))
      BY <1>1 DEF LazyMemory
    <3>. QED  BY <1>2, <1>6, <3>1, <3>2
  <2>4. ASSUME NEW n \in WalkOf(succ'), heap'[n].marked PROVE \E u \in Threads : pc'[u] = "unlink" /\ my'[u].curr = n
    <3>1. n \in WalkOf(succ) /\ heap[n].marked /\ n # c
      BY <1>1, <1>6, <1>7, <2>4, SuccAndRank
    <3>2. PICK u \in Threads : pc[u] = "unlink" /\ my[u].curr = n
      BY <1>1, <3>1 DEF LazyMemory
    <3>. QED  BY <3>1, <3>2 DEF OthersCalls
  <2>5. \A n \in DOMAIN heap : succ'[n] # Null => Published(succ[n])' /\ rank[n] < rank[succ'[n]]
    BY <1>10, <2>2
  <2>6. \A n \in DOMAIN heap : heap'[n].marked => Published(n)'
    BY <1>10, <2>3
  <2>7. \A n \in DOMAIN heap : Published(n)' /\ ~heap'[n].marked => n \in WalkOf(succ')
    BY <1>10, <2>3
  <2>8. DOMAIN heap' = DOMAIN heap /\ rank' = rank
    BY <1>8
  <2>. QED  BY ONLY <2>1, <2>4, <2>5, <2>6, <2>7, <2>8 DEF LazyMemory
<1>13. Present' \subseteq Present
  <2> DEFINE On == {n \in WalkOf(succ') \ {HeadNode, TailNode} : ~heap'[n].marked}
  <2>1. Present' = {heap'[n].key : n \in On}
    BY DEF Present
  <2>2. ASSUME NEW n \in On PROVE heap'[n].key \in Present
    <3>1. n \in WalkOf(succ) \ {HeadNode, TailNode} /\ n \in DOMAIN heap
      BY <1>1, <1>6, SuccAndRank
    <3>2. heap'[n].key = heap[n].key /\ ~heap[n].marked
      BY <1>7, <1>8, <3>1
    <3>. QED  BY <3>1, <3>2 DEF Present
  <2> HIDE DEF On
  <2>. QED  BY <2>1, <2>2
<1>14. ASSUME NEW u \in Finding, WillFind(u) PROVE WillFind(u)'
  <2>1. PICK n \in DOMAIN heap : ~heap[n].marked /\ rank[n] = key(u) /\ n \in Reachable(succ, Spot(u))
    BY <1>14 DEF WillFind
  <2>2. u \in Threads \ {t} /\ Spot(u) \in DOMAIN heap
    BY FindSpot
  <2>3. Spot(u)' = Spot(u) /\ key(u)' = key(u)
    BY <2>2 DEF Spot, key, OthersCalls
  <2>4. n \in Reachable(succ', Spot(u))
    <3>1. InMemory(succ) /\ DOMAIN succ = DOMAIN heap
      BY <1>1, SuccAndRank DEF MemoryOK, Sorted
    <3>2. p \in DOMAIN succ /\ succ[p] # Null /\ n # succ[p]
      BY <1>1, <1>2, <1>3, <1>6, <1>8, <2>1, <3>1
    <3>3. succ' = [x \in DOMAIN succ |-> IF x = p THEN succ[succ[p]] ELSE succ[x]]
      BY ONLY <1>2, <1>6, <3>1
    <3>4. Spot(u) \in DOMAIN succ /\ n \in Reachable(succ, Spot(u))
      BY <2>1, <2>2, <3>1
    <3>. QED  BY ONLY <3>1, <3>2, <3>3, <3>4, ReachedAfterRemoval
  <2>. QED  BY <1>7, <1>8, <2>1, <2>3, <2>4 DEF WillFind
<1>. QED  BY <1>6, <1>11, <1>12, <1>13, <1>14

LEMMA LazyUnlink ==
  ASSUME LazyInv, NEW t \in Threads, Lazy!Unlink(t)
  PROVE  LazyInv'
<1>1. PICK p, c : p = my[t].pred /\ c = my[t].curr
  OBVIOUS
<1> DEFINE S == {p, c}
<1>2. pc[t] = "unlink" /\ Unlock([heap EXCEPT ![p].next = heap[c].next], S) /\ Return(t, key(t))
  BY <1>1, LazySteps DEF Lazy!Unlink, Lazy!Both
<1>3. MemoryOK /\ CallsOK /\ LazyThread(t) /\ t \in Unlinking
  BY <1>2 DEF LazyInv, Unlinking
<1>4. c = succ[p] /\ heap[c].next = succ[c] /\ call[t].op = "delete"
  BY <1>1, <1>2, <1>3 DEF LazyThread, Published, succ
<1>5. Unlock(Removed(p), S) /\ made' = made /\ Answer(t, key(t))
  BY <1>2, <1>4 DEF Removed, Return, Answer
<1>6. OthersCalls(t) /\ pc'[t] = "idle"
  BY <1>2, <1>3 DEF Return, Answer, Goto, CallsOK, OthersCalls
<1>7. /\ MemoryOK' /\ OthersNodes(t) /\ Contents' = Contents \ {key(t)}
      /\ LazyMemory' /\ Kept(t) /\ Present' \subseteq Present
      /\ \A u \in Finding : WillFind(u) => WillFind(u)'
  <2>1. S = {p, c}
    OBVIOUS
  <2> HIDE DEF S
  <2>. QED  BY <1>1, <1>2, <1>5, <1>6, <2>1, LazyRemove
<1>8. PICK G : Allows(G)
  BY SomeAllowed DEF LazyInv
<1>9. t \notin Finding /\ Unlinking' = Unlinking \ {t}
  BY <1>4, <1>6 DEF Finding, Unlinking, OthersCalls
<1>10. ASSUME NEW F \in SUBSET (G \ {t}) PROVE CanExplain(t, key(t), F, Unlinking', Present', Contents')
  <2>1. PICK a \in configs : Fits(a, F)
    BY <1>8 DEF Allows
  <2>2. F \subseteq Finding
    BY <1>8 DEF Allows
  <2>3. /\ \A u \in Unlinking : key(u) \in a.state <=> u \notin DOMAIN a.ret
        /\ Finding \cap Unlinking = {}
    BY <2>1, <2>2, FittingStates
  <2>4. /\ DOMAIN a.ret \subseteq F \cup Unlinking
        /\ \A u \in F : IF u \in DOMAIN a.ret THEN a.ret[u] = 0 ELSE key(u) \notin Present
        /\ \A u \in Unlinking \cap DOMAIN a.ret : a.ret[u] = key(u)
        /\ a.state = Contents \ {key(u) : u \in Unlinking \cap DOMAIN a.ret}
    BY <2>1 DEF Fits
  <2> DEFINE Others == {key(u) : u \in Unlinking' \cap (DOMAIN a.ret \ {t})}
  <2>5. Unlinking' \cap (DOMAIN a.ret \ {t}) = (Unlinking \cap DOMAIN a.ret) \ {t}
    BY <1>9
  <2>6. ASSUME NEW b, b.state = a.state \ {key(t)}, DOMAIN b.ret = DOMAIN a.ret \cup {t},
               \A u \in DOMAIN a.ret \ {t} : b.ret[u] = a.ret[u]
        PROVE  Suits(b, DOMAIN b.ret \ {t}, F, Unlinking', Present', Contents')
    <3>1. DOMAIN b.ret \ {t} = DOMAIN a.ret \ {t}
      BY <2>6
    <3>2. \A u \in F : IF u \in DOMAIN a.ret \ {t} THEN b.ret[u] = 0 ELSE key(u) \notin Present'
      BY <1>7, <1>9, <2>2, <2>4, <2>6
    <3>3. \A u \in Unlinking' \cap (DOMAIN a.ret \ {t}) : b.ret[u] = key(u)
      BY <1>9, <2>4, <2>6
    <3>4. b.state = Contents' \ Others
      <4>1. {key(u) : u \in Unlinking \cap DOMAIN a.ret} \cup {key(t)} = Others \cup {key(t)}
        BY <2>5
      <4> HIDE DEF Others
      <4>. QED  BY <1>7, <2>4, <2>6, <4>1
    <3>5. DOMAIN a.ret \ {t} \subseteq F \cup Unlinking'
      BY <1>9, <2>4
    <3>. QED  BY <3>1, <3>2, <3>3, <3>4, <3>5 DEF Suits
  <2> HIDE DEF Others
  <2>7. CASE t \in DOMAIN a.ret
    <3>1. a.ret[t] = key(t) /\ key(t) \notin a.state
      BY <1>3, <2>3, <2>4, <2>7
    <3>2. Suits(a, DOMAIN a.ret \ {t}, F, Unlinking', Present', Contents')
      <4>1. a.state = a.state \ {key(t)} /\ DOMAIN a.ret = DOMAIN a.ret \cup {t}
        <5>1. a.state = Contents \ {key(u) : u \in Unlinking \cap DOMAIN a.ret}
          BY <2>4
        <5>. QED  BY <2>7, <3>1, <5>1
      <4>. QED  BY <2>6, <4>1
    <3>. QED  BY <2>7, <3>1, <3>2 DEF CanExplain
  <2>8. CASE t \notin DOMAIN a.ret
    <3> DEFINE e == Effect(a.state, call[t])
    <3>1. e.state = a.state \ {key(t)} /\ e.ret = key(t)
      <4>1. key(t) \in a.state /\ key(t) = call[t].key
        BY <1>3, <2>3, <2>8 DEF key
      <4>. QED  BY <1>4, <4>1 DEF Effect, Outcome
    <3>2. PICK b \in Explained(a, t) : /\ b.state = e.state /\ DOMAIN b.ret = DOMAIN a.ret \cup {t} /\ b.ret[t] = e.ret
                                       /\ \A u \in DOMAIN a.ret : b.ret[u] = a.ret[u]
      <4>1. e = Effect(a.state, call[t])
        OBVIOUS
      <4> HIDE DEF e
      <4>. QED  BY <2>8, <4>1, TakesEffectNow
    <3> HIDE DEF e
    <3>3. Suits(b, DOMAIN b.ret \ {t}, F, Unlinking', Present', Contents')
      BY <2>6, <3>1, <3>2
    <3>. QED  BY <3>1, <3>2, <3>3 DEF CanExplain
  <2>. QED  BY <2>7, <2>8
<1>11. \A u \in Finding \ {t} : WillFind(u) => WillFind(u)'
  BY <1>7
<1>. QED  BY <1>2, <1>7, <1>8, <1>9, <1>10, <1>11, LazyReturns

LEMMA LazyCall ==
  ASSUME LazyInv, NEW t \in Threads, NEW op \in {"add", "delete", "find"}, NEW k \in Keys, Lazy!Call(t, op, k)
  PROVE  LazyInv'
<1> DEFINE l == IF op = "find" THEN "find" ELSE "start"
<1>1. PICK node : node = Lazy!node_t(k, Null)
  OBVIOUS
<1>2. Fields(node) /\ node.key = k /\ node.next = Null /\ "marked" \in DOMAIN node /\ node.marked = FALSE
  BY <1>1 DEF Lazy!node_t, Fields
<1>3. Enter(t, op, k, l) /\ Creates(op, node) /\ l \notin {"idle", "crashed"}
  BY <1>1, LazySteps DEF Lazy!Call, Lazy!create_node, Lazy!With, With, Creates
<1>4. MemoryOK /\ CallsOK /\ LazyMemory /\ LazyThread(t)
  BY DEF LazyInv
<1>5. l \in {"find", "start"} /\ (l = "find" <=> op = "find")
  OBVIOUS
<1> HIDE DEF l
<1>6. /\ MemoryOK' /\ CallsOK' /\ Busy(t)' /\ OthersCalls(t) /\ pc'[t] = l /\ Contents' = Contents
      /\ call[t] = Nothing /\ call'[t] = [op |-> op, key |-> k, no |-> made + 1] /\ configs' = configs /\ my' = my
      /\ WalkOf(succ') = WalkOf(succ) /\ DOMAIN heap \subseteq DOMAIN heap'
      /\ \A n \in DOMAIN heap : heap'[n] = heap[n]
      /\ \A n \in DOMAIN heap' \ DOMAIN heap : heap'[n] = node /\ n \notin {HeadNode, TailNode}
  BY <1>2, <1>3, <1>4, CallStarts
<1>7. pc[t] = "idle" /\ call'[t].op = op /\ key(t)' = k /\ call[t].op = "none"
  BY <1>4, <1>6 DEF CallsOK, Idling, Busy, Nothing, key
<1>8. /\ \A n \in DOMAIN heap : succ'[n] = succ[n] /\ rank'[n] = rank[n]
      /\ \A n \in DOMAIN heap' \ DOMAIN heap : succ'[n] = Null /\ ~heap'[n].marked /\ "marked" \in DOMAIN heap'[n]
      /\ DOMAIN succ = DOMAIN heap /\ DOMAIN succ' = DOMAIN heap'
  BY <1>2, <1>6 DEF succ, rank
<1>9. \A n : Published(n)' <=> Published(n)
  <2>1. ASSUME NEW n 
        PROVE  n \in DOMAIN heap' /\ (n = TailNode \/ succ'[n] # Null)
               <=> n \in DOMAIN heap /\ (n = TailNode \/ succ[n] # Null)
    BY <1>6, <1>8
  <2>. QED  BY <2>1 DEF Published
<1>10. Kept(t)
  BY <1>6, <1>8, <1>9 DEF Kept, Published
<1>11. WalkOf(succ) \subseteq DOMAIN heap /\ {HeadNode, TailNode} \subseteq DOMAIN heap
  BY <1>4, SuccAndRank
<1>12. LazyMemory'
  <2>1. /\ \A n \in DOMAIN heap' : "marked" \in DOMAIN heap'[n] /\ heap'[n].marked \in BOOLEAN
        /\ heap'[HeadNode].key = Lowest /\ heap'[TailNode].key = Highest
        /\ ~heap'[HeadNode].marked /\ ~heap'[TailNode].marked
    BY <1>2, <1>4, <1>6, <1>11 DEF LazyMemory
  <2>2. ASSUME NEW n \in DOMAIN heap', succ'[n] # Null
        PROVE  Published(succ'[n]) /\ rank'[n] < rank'[succ'[n]]
    <3>1. n \in DOMAIN heap /\ succ'[n] = succ[n]
      BY <1>8, <2>2
    <3>2. Published(succ[n]) /\ rank[n] < rank[succ[n]] /\ succ[n] \in DOMAIN heap
      BY <1>4, <2>2, <3>1 DEF LazyMemory, Published
    <3>. QED  BY <1>8, <3>1, <3>2
  <2>3. ASSUME NEW n \in DOMAIN heap'
        PROVE  (heap'[n].marked => Published(n)) /\ (Published(n) /\ ~heap'[n].marked => n \in WalkOf(succ'))
    <3>1. CASE n \in DOMAIN heap
      <4>1. (heap[n].marked => Published(n)) /\ (Published(n) /\ ~heap[n].marked => n \in WalkOf(succ))
        BY <1>4, <3>1 DEF LazyMemory
      <4>. QED  BY <1>6, <3>1, <4>1
    <3>2. CASE n \notin DOMAIN heap
      BY <1>8, <3>2 DEF Published
    <3>. QED  BY <3>1, <3>2
  <2>4. ASSUME NEW n \in WalkOf(succ'), heap'[n].marked PROVE \E u \in Threads : pc'[u] = "unlink" /\ my'[u].curr = n
    <3>1. n \in WalkOf(succ) /\ heap[n].marked
      BY <1>6, <1>11, <2>4
    <3>2. PICK u \in Threads : pc[u] = "unlink" /\ my[u].curr = n
      BY <1>4, <3>1 DEF LazyMemory
    <3>. QED  BY <1>6, <1>7, <3>2 DEF OthersCalls
  <2>5. \A n : n \in DOMAIN heap' /\ succ'[n] # Null => Published(succ[n])' /\ rank'[n] < rank'[succ'[n]]
    BY <1>9, <2>2
  <2>6. \A n : n \in DOMAIN heap' /\ heap'[n].marked => Published(n)'
    BY <1>9, <2>3
  <2>7. \A n : n \in DOMAIN heap' /\ Published(n)' /\ ~heap'[n].marked => n \in WalkOf(succ')
    BY <1>9, <2>3
  <2>. QED  BY ONLY <2>1, <2>4, <2>5, <2>6, <2>7 DEF LazyMemory
<1>13. Present' = Present
  BY <1>6, <1>11 DEF Present
<1>14. Unlinking' = Unlinking /\ t \notin Unlinking /\ t \notin Finding
       /\ Finding' = IF op = "find" THEN Finding \cup {t} ELSE Finding
  BY <1>5, <1>6, <1>7 DEF Unlinking, Finding, OthersCalls
<1>15. ASSUME NEW u \in Finding, WillFind(u) PROVE WillFind(u)'
  <2>1. PICK n \in DOMAIN heap : ~heap[n].marked /\ rank[n] = key(u) /\ n \in Reachable(succ, Spot(u))
    BY <1>15 DEF WillFind
  <2>2. u \in Threads \ {t} /\ Spot(u) \in DOMAIN heap
    BY <1>14, FindSpot
  <2>3. Spot(u)' = Spot(u) /\ key(u)' = key(u)
    BY <1>6, <2>2 DEF Spot, key, OthersCalls
  <2>4. n \in Reachable(succ', Spot(u))
    <3>1. /\ InMemory(succ) /\ DOMAIN succ \subseteq DOMAIN succ' /\ Spot(u) \in DOMAIN succ
          /\ \A x \in DOMAIN succ : succ'[x] = succ[x]
      BY <1>4, <1>6, <1>8, <2>2 DEF MemoryOK, Sorted
    <3>. QED  BY <2>1, <3>1, ReachedAfterCreation
  <2>5. n \in DOMAIN heap' /\ ~heap'[n].marked /\ rank'[n] = rank[n]
    BY <1>6, <1>8, <2>1
  <2>. QED  BY <2>1, <2>3, <2>4, <2>5 DEF WillFind
<1>16. ASSUME op = "find", k \in Present PROVE WillFind(t)'
  <2>1. PICK n \in WalkOf(succ) \ {HeadNode, TailNode} : ~heap[n].marked /\ heap[n].key = k
    BY <1>16 DEF Present
  <2>2. n \in DOMAIN heap' /\ ~heap'[n].marked /\ rank'[n] = k
    BY <1>4, <1>6, <1>8, <1>11, <2>1, SuccAndRank
  <2>3. Spot(t)' = HeadNode
    BY <1>4, <1>6, <1>7 DEF LazyThread, Spot
  <2>4. n \in Reachable(succ', HeadNode)
    BY <1>6, <2>1 DEF WalkOf
  <2>. QED  BY <1>7, <2>2, <2>3, <2>4 DEF WillFind
<1>17. PICK G : Allows(G)
  BY SomeAllowed DEF LazyInv
<1> DEFINE H == G \cup {u \in {t} : op = "find" /\ k \notin Present}
<1>18. ASSUME NEW F \in SUBSET H PROVE \E c \in configs' : Fits(c, F)'
  <2>1. PICK c \in configs : Fits(c, F \cap G)
    BY <1>17 DEF Allows
  <2>2. F \cap G \subseteq Finding /\ G \subseteq Finding
    BY <1>17 DEF Allows
  <2>3. t \notin DOMAIN c.ret
    BY <1>14, <2>1, <2>2, FittingStates
  <2>4. /\ DOMAIN c.ret \subseteq (F \cap G) \cup Unlinking
        /\ \A u \in F \cap G : IF u \in DOMAIN c.ret THEN c.ret[u] = 0 ELSE key(u) \notin Present
        /\ \A u \in Unlinking \cap DOMAIN c.ret : c.ret[u] = key(u)
        /\ c.state = Contents \ {key(u) : u \in Unlinking \cap DOMAIN c.ret}
    BY <2>1 DEF Fits
  <2>5. \A u \in (F \cap G) \cup Unlinking : key(u)' = key(u)
    BY <1>6, <1>14, <2>2 DEF OthersCalls, key, Finding, Unlinking
  <2>6. ASSUME NEW u \in F PROVE IF u \in DOMAIN c.ret THEN c.ret[u] = 0 ELSE key(u)' \notin Present
    <3>1. CASE u \in G
      BY <2>4, <2>5, <3>1
    <3>2. CASE u \notin G
      <4>1. u = t /\ k \notin Present
        BY <3>2
      <4>. QED  BY <1>7, <2>3, <4>1
    <3>. QED  BY <3>1, <3>2
  <2>7. {key(u) : u \in Unlinking \cap DOMAIN c.ret} = {key(u)' : u \in Unlinking \cap DOMAIN c.ret}
    BY <2>5
  <2>8. \A u \in Unlinking \cap DOMAIN c.ret : c.ret[u] = key(u)'
    BY <2>4, <2>5
  <2>9. Fits(c, F)'
    BY <1>6, <1>13, <1>14, <2>4, <2>6, <2>7, <2>8 DEF Fits
  <2>. QED  BY <1>6, <2>9
<1>19. H \in SUBSET Finding' /\ \A u \in Finding' \ H : WillFind(u)'
  BY <1>14, <1>15, <1>16, <1>17 DEF Allows
<1> HIDE DEF H
<1>20. LazyExplained'
  BY <1>18, <1>19 DEF LazyExplained
<1>21. LazyThread(t)'
  BY <1>4, <1>5, <1>6, <1>7 DEF LazyThread
<1>. QED  BY <1>6, <1>10, <1>12, <1>20, <1>21, LazyTogether

LEMMA LazyStep ==
  ASSUME LazyInv, NEW t \in Threads, Lazy!Step(t)
  PROVE  LazyInv'
BY LazyStart, LazyWalk, LazyLockPred, LazyLockCurr, LazyAgain, LazyAdd, LazyDelete, LazyUnlink, LazyFind DEF Lazy!Step

LEMMA LazyInit == Lazy!Init => LazyInv
<1>1. SUFFICES ASSUME Lazy!Init PROVE LazyInv
  OBVIOUS
<1>2. PICK S \in SUBSET Keys :
        /\ heap = [n \in Lazy!InitialNodes(S) |->
                     Lazy!node_t(Lazy!KeyOf(n, Lazy!Lowest, Lazy!Highest), Lazy!Successor(S, n))]
        /\ Lazy!Idle /\ Lazy!NoCalls({S})
  BY <1>1 DEF Lazy!Init
<1>3. \A T : Lazy!First(T) = First(T)
  BY DEF Lazy!First, First, Lazy!Old, Old, Lazy!Min, Min
<1>4. Lazy!Lowest = Lowest /\ Lazy!Highest = Highest
  BY DEF Lazy!Lowest, Lowest, Lazy!Highest, Highest, Lazy!Min, Min, Lazy!Max, Max
<1>5. \A n, low, high : Lazy!KeyOf(n, low, high) = KeyOf(n, low, high) /\ Lazy!Successor(S, n) = Successor(S, n)
  BY <1>3 DEF Lazy!KeyOf, KeyOf, Lazy!Successor, Successor
<1>6. DOMAIN heap = InitialNodes(S)
  BY <1>2 DEF Lazy!InitialNodes, InitialNodes, Lazy!Old, Old
<1>7. \A n \in DOMAIN heap : /\ Fields(heap[n]) /\ heap[n].key = KeyOf(n, Lowest, Highest)
                             /\ heap[n].next = Successor(S, n)
  BY <1>2, <1>4, <1>5, <1>6 DEF Lazy!node_t, Fields
<1>8. \A n \in DOMAIN heap : "marked" \in DOMAIN heap[n] /\ heap[n].marked = FALSE
  BY <1>2, <1>6 DEF Lazy!node_t
<1>9. Idle /\ NoCalls({S})
  BY <1>2 DEF Lazy!Idle, Idle, Lazy!Locals, Locals, Lazy!NoCalls, NoCalls, Lazy!Nothing, Nothing
<1>10. ListInv /\ DOMAIN heap \subseteq WalkOf(succ)
  BY <1>6, <1>7, <1>9, Initially
<1>11. MemoryOK /\ CallsOK /\ Explained1 /\ HeadNode \in DOMAIN heap /\ TailNode \in DOMAIN heap
  BY <1>10, SuccAndRank DEF ListInv
<1>12. LazyMemory
  <2>1. heap[HeadNode].key = Lowest /\ heap[TailNode].key = Highest
    BY <1>7, <1>11, NamesAssumption DEF KeyOf
  <2>2. ASSUME NEW n \in DOMAIN heap, succ[n] # Null PROVE Published(succ[n]) /\ rank[n] < rank[succ[n]]
    <3>1. n # TailNode /\ n \in WalkOf(succ)
      BY <1>10, <1>11, <2>2, OnTheList
    <3>. QED  BY <1>11, <3>1, OnTheList, SuccAndRank DEF MemoryOK, Sorted
  <2>. QED  BY <1>8, <1>10, <1>11, <2>1, <2>2, SuccAndRank DEF LazyMemory
<1>13. \A t \in Threads : LazyThread(t) /\ call[t].op = "none" /\ pc[t] = "idle"
  BY <1>9 DEF Idle, NoCalls, Nothing, Locals, LazyThread
<1>14. LazyExplained
  <2>1. PICK c \in configs : c.state = Contents /\ DOMAIN c.ret = {}
    BY <1>11 DEF Explained1
  <2>2. Unlinking = {} /\ Finding = {}
    BY <1>13 DEF Unlinking, Finding
  <2>3. Fits(c, {})
    BY <2>1, <2>2 DEF Fits
  <2>4. \A F \in SUBSET {} : F = {}
    OBVIOUS
  <2>. QED  BY <2>2, <2>3, <2>4 DEF LazyExplained
<1>. QED  BY <1>11, <1>12, <1>13, <1>14 DEF LazyInv
-----------------------------------------------------------------------------
(* The inductive invariant of the three lists with mutexes.                 *)
Inv == (which = "coarse" => CoarseInv) /\ (which = "fine" => FineInv) /\ (which = "lazy" => LazyInv)

LEMMA Stutters == Inv /\ UNCHANGED <<vars, which>> => Inv'
<1>1. SUFFICES ASSUME Inv, UNCHANGED <<vars, which>> PROVE Inv'
  OBVIOUS
<1>2. /\ heap' = heap /\ pc' = pc /\ my' = my /\ call' = call /\ made' = made /\ configs' = configs
      /\ which' = which
  BY <1>1 DEF vars, callVars
<1>3. succ' = succ /\ rank' = rank
  BY <1>2 DEF succ, rank
<1>4. WalkOf(succ') = WalkOf(succ) /\ Contents' = Contents
  BY <1>2, <1>3 DEF Contents, KeysOf
<1>5. MemoryOK' <=> MemoryOK
  BY <1>2, <1>3 DEF MemoryOK
<1>6. CallsOK' <=> CallsOK
  BY <1>2, <1>3 DEF CallsOK, Idling, Busy, key, new
<1>7. ListInv' <=> ListInv
  BY <1>2, <1>4, <1>5, <1>6 DEF ListInv, Explained1
<1>8. \A t \in Threads : (Holding(t)' <=> Holding(t)) /\ (Doing(t)' <=> Doing(t))
  BY <1>2, <1>3, <1>4 DEF Holding, OnItsWay, Doing, key
<1>9. LazyMemory' <=> LazyMemory
  BY <1>2, <1>3, <1>4 DEF LazyMemory, Published
<1>10. \A t \in Threads : LazyThread(t)' <=> LazyThread(t)
  BY <1>2, <1>3 DEF LazyThread, Published, key
<1>11. LazyExplained' <=> LazyExplained
  <2>1. Unlinking' = Unlinking /\ Finding' = Finding /\ Present' = Present
    BY <1>2, <1>4 DEF Unlinking, Finding, Present
  <2>2. \A c, F : Fits(c, F)' <=> Fits(c, F)
    BY <1>2, <1>4, <2>1 DEF Fits, key
  <2>3. \A t : WillFind(t)' <=> WillFind(t)
    BY <1>2, <1>3 DEF WillFind, Spot, key
  <2>. QED  BY <1>2, <2>1, <2>2, <2>3 DEF LazyExplained
<1>12. LazyInv' <=> LazyInv
  BY <1>5, <1>6, <1>9, <1>10, <1>11 DEF LazyInv
<1>. QED  BY <1>1, <1>2, <1>7, <1>8, <1>12 DEF Inv, CoarseInv, FineInv

THEOREM ListInvariant == Spec => []Inv
<1>1. Init => Inv
  BY CoarseInit, FineInit, LazyInit DEF Init, Inv
<1>2. Inv /\ [Next]_<<vars, which, apart>> => Inv'
  <2>1. SUFFICES ASSUME Inv, [Next]_<<vars, which, apart>> PROVE Inv'
    OBVIOUS
  <2>2. CASE UNCHANGED <<vars, which>>
    BY <2>1, <2>2, Stutters
  <2>3. ASSUME NEW t \in Threads, NEW op \in {"add", "delete", "find"}, NEW k \in Keys, Call(t, op, k),
               which' = which
        PROVE  Inv'
    BY <2>1, <2>3, CoarseCall, FineCall, LazyCall DEF Call, Inv
  <2>4. ASSUME NEW t \in Threads, Step(t), which' = which
        PROVE  Inv'
    BY <2>1, <2>4, CoarseStep, FineStep, LazyStep DEF Step, Inv
  <2>5. CASE Next
    BY <2>2, <2>3, <2>4, <2>5 DEF Next, Done
  <2>. QED  BY <2>1, <2>2, <2>5
<1>. QED  BY <1>1, <1>2, PTL DEF Spec

(* The lists of which the theorems speak, and what their invariants say     *)
(* about the orders that the results allow: one of them has the elements of *)
(* the list, if no call is in progress.                                     *)
Locked == which \in {"coarse", "fine", "lazy"}
LEMMA LockedLists ==
  ASSUME Inv, Locked
  PROVE  /\ MemoryOK /\ CallsOK /\ Pointers = succ /\ Explainable
         /\ Quiet => \E c \in configs : c.state = Contents
<1>1. Pointers = succ
  BY CoarseSteps DEF Locked, Pointers
<1>2. CASE which \in {"coarse", "fine"}
  <2>1. ListInv
    BY <1>2 DEF Inv, CoarseInv, FineInv
  <2>. QED  BY <1>1, <2>1 DEF ListInv, Explained1, Explainable
<1>3. CASE which = "lazy"
  <2>1. MemoryOK /\ CallsOK /\ LazyExplained /\ \A t \in Threads : LazyThread(t)
    BY <1>3 DEF Inv, LazyInv
  <2>2. PICK c \in configs : Fits(c, {})
    BY <2>1 DEF LazyExplained
  <2>3. ASSUME Quiet PROVE c.state = Contents
    <3>1. Unlinking = {}
      BY <2>1, <2>3 DEF Quiet, Pending, Nothing, Unlinking, LazyThread
    <3>. QED  BY <2>2, <3>1 DEF Fits
  <2>. QED  BY <1>1, <2>1, <2>2, <2>3 DEF Explainable
<1>. QED  BY <1>2, <1>3 DEF Locked

(* CoarseGrainedSynchroList.c, FineGrainedSynchroList.c, LazySynchroList.c: *)
(* every result of add, delete and find is one that a set would have given, *)
(* which does each call at one instant between its start and its return.    *)
THEOREM LockedListsAreLinearizable == Spec => [](Locked => Linearizable)
<1>1. Inv /\ Locked => Linearizable
  <2>1. SUFFICES ASSUME CallsOK, Explainable PROVE Linearizable
    BY LockedLists
  <2>2. ASSUME NEW t \in Threads PROVE pc[t] # "crashed"
    BY <2>1 DEF CallsOK, Idling, Busy
  <2>. QED  BY <2>1, <2>2 DEF Linearizable, Crashed
<1>. QED  BY <1>1, ListInvariant, PTL

(* The same files: with no call in progress, the list holds the elements    *)
(* that such a set would have after the same calls.                         *)
THEOREM LockedListsKeepTheirElements == Spec => [](Locked => ContentsExplained)
<1>1. Inv /\ Locked => ContentsExplained
  <2>1. SUFFICES ASSUME Pointers = succ, Quiet => \E c \in configs : c.state = Contents PROVE ContentsExplained
    BY LockedLists
  <2>2. KeysOf(List) = Contents
    BY <2>1 DEF List, Contents, WalkOf
  <2>. QED  BY <2>1, <2>2 DEF ContentsExplained, Explains
<1>. QED  BY <1>1, ListInvariant, PTL

(* The same files: whatever the calls in progress have done so far, a walk  *)
(* from the head gets to the tail, along nodes with increasing keys.        *)
THEOREM LockedListsAreSorted == Spec => [](Locked => Ordered)
<1>1. Inv /\ Locked => Ordered
  <2>1. SUFFICES ASSUME MemoryOK, Pointers = succ PROVE Ordered
    BY LockedLists
  <2>2. List = WalkOf(succ) /\ TailNode \in List
    BY <2>1, SuccAndRank DEF List, WalkOf
  <2>3. ASSUME NEW n \in List \ {HeadNode, TailNode}, succ[n] # TailNode
        PROVE  Before(heap[n].key, heap[succ[n]].key)
    <3>1. succ[n] \in DOMAIN heap /\ n \in DOMAIN heap /\ rank[n] < rank[succ[n]]
      BY <2>1, <2>2, <2>3, SuccAndRank DEF MemoryOK, Sorted
    <3>2. rank[n] = heap[n].key /\ rank[n] \in 1 .. Highest - 1 /\ Highest \in Nat
      BY <2>1, <2>3, <3>1, SuccAndRank, GreatestKey
    <3>3. succ[n] # HeadNode
      BY <2>1, <3>1, <3>2, SuccAndRank
    <3>4. rank[succ[n]] = heap[succ[n]].key /\ rank[succ[n]] \in 1 .. Highest - 1
      BY <2>1, <2>3, <3>1, <3>3, SuccAndRank
    <3>. QED  BY <3>1, <3>2, <3>4 DEF Before
  <2>. QED  BY <2>1, <2>2, <2>3 DEF Ordered
<1>. QED  BY <1>1, ListInvariant, PTL
=============================================================================
