--------------------------- MODULE MCHashTables ---------------------------
(* One run over the six hash tables: which says which one a behaviour is    *)
(* about, and apart whether the callers respect the conditions below.       *)
EXTENDS ThreadSteps
VARIABLES which, apart
allVars == <<vars, which, apart>>

(* The tables start so that one or two calls make them grow. *)
Chain == INSTANCE Hash WITH Size <- 2, Initial <- {{1}, 1..9}
Striped == INSTANCE StripedHash WITH Size <- 2, Initial <- {{1}, 1..9}
Refinable == INSTANCE RefinableHash WITH Size <- 2, Initial <- {{1}, 1..9}
Cuckoo == INSTANCE CuckooHash WITH Size <- 2, Initial <- {{}, {1}, {1, 2}}, Tries <- 2
Open == INSTANCE OpenAddressHash WITH Size <- 4, Initial <- {{1}, {1, 2}, {1, 2, 3}}
Concurrent == INSTANCE ConcurrentCuckooHash WITH
  Size <- 2, Initial <- {{1}, {1, 3}, {1, 2, 3}}, probe_size <- 2, threshold <- 1

Keys == CASE which \in {"chain", "striped", "refinable"} -> {1, 10}
          [] which = "cuckoo" -> {1, 3, 5, 9}
          [] which = "open" -> {1, 5, 6}
          [] which = "concurrent" -> {1, 5, 7}

Init == /\ apart \in BOOLEAN
        /\ \/ which = "chain" /\ Chain!Init
           \/ which = "striped" /\ Striped!Init
           \/ which = "refinable" /\ Refinable!Init
           \/ which = "cuckoo" /\ Cuckoo!Init
           \/ which = "open" /\ Open!Init
           \/ which = "concurrent" /\ Concurrent!Init

(* The calls that each table is right for. *)
Sure(k, present) == /\ \A c \in configs : (k \in c.state) = present
                    /\ \A t \in Pending : call[t].key # k
DeletesPresent(op, k) == apart /\ op = "delete" => Sure(k, TRUE)
AddsAbsent(op, k) == apart /\ op = "add" => Sure(k, FALSE)
Apart(op, a, b) == apart => \A t \in Pending : {op, call[t].op} # {a, b}
AddsFit(op, k) == apart /\ op = "add" =>   \* two resizes part 1 from 5, but not from 9
  ~({1, 9} \subseteq {k} \cup UNION {c.state : c \in configs} \cup {call[t].key : t \in Pending})
GrowsAlone == apart => \/ Quiet
                       \/ heap.destroyed = {} /\ heap.setSize + Cardinality(Pending) + 1 < 10
Crowded(k) == LET lists == {Concurrent!get_list(heap.table, i, k) : i \in 0..1}
              IN \E l \in lists : l # <<>>
OverflowsAlone(op, k) == apart =>
  /\ op = "add" => Quiet \/ ~Crowded(k)
  /\ \A t \in Pending : call[t].op = "add" => ~Crowded(call[t].key) /\ call[t].key % 2 # k % 2

(* Without the conditions one call fewer is made, which bounds the run. *)
Limit == IF apart THEN MaxCalls ELSE MaxCalls - 1
Call(t, op, k) == made < Limit /\
  \/ which = "chain" /\ DeletesPresent(op, k) /\ Chain!Call(t, op, k)
  \/ which = "striped" /\ DeletesPresent(op, k) /\ Apart(op, "find", "add") /\ Striped!Call(t, op, k)
  \/ which = "refinable" /\ DeletesPresent(op, k) /\ GrowsAlone /\ Refinable!Call(t, op, k)
  \/ which = "cuckoo" /\ AddsFit(op, k) /\ Cuckoo!Call(t, op, k)
  \/ which = "open" /\ AddsAbsent(op, k) /\ Open!Call(t, op, k)
  \/ which = "concurrent" /\ OverflowsAlone(op, k) /\ Concurrent!Call(t, op, k)

Step(t) ==
  \/ which = "chain" /\ Chain!Step(t)
  \/ which = "striped" /\ Striped!Step(t)
  \/ which = "refinable" /\ Refinable!Step(t)
  \/ which = "cuckoo" /\ Cuckoo!Step(t)
  \/ which = "open" /\ Open!Step(t)
  \/ which = "concurrent" /\ Concurrent!Step(t)

Done == ((Quiet /\ made = Limit) \/ Crashed) /\ UNCHANGED vars
Next == /\ UNCHANGED <<which, apart>>
        /\ \/ ~Crashed /\ \E t \in Threads :
                \/ \E op \in {"add", "delete", "find"}, k \in Keys : Call(t, op, k)
                \/ Step(t)
           \/ Done
Spec == Init /\ [][Next]_allVars

(* The keys that a lookup finds, and the number of entries there are. *)
InLists == {"chain", "striped", "refinable"}
Found(k) ==
  CASE which \in InLists -> k \in heap.bucket[k % Cardinality(DOMAIN heap.bucket)]
    [] which = "cuckoo" -> Cuckoo!find_op(k)
    [] which = "open" -> Open!Found(k)
    [] which = "concurrent" -> Concurrent!contains_op(heap.table, k)
Contents == {k \in 1..10 : Found(k)}
Entries ==
  CASE which \in InLists -> FoldFunction(LAMBDA S, n : Cardinality(S) + n, 0, heap.bucket)
    [] which = "cuckoo" -> Cardinality(Cuckoo!show_hashtable)
    [] which = "open" -> Len(Open!show_hashtable)
    [] which = "concurrent" -> Len(Concurrent!show_hashtable)

(* Callers that respect the conditions above get results that one table,    *)
(* doing each call at one instant, would have given (the callers cannot     *)
(* tell that buckets are locked one at a time and moved by a resize).       *)
Linearizable == apart => Explainable /\ ~Crashed

(* Between calls lookups find what such a table would hold: no resize,      *)
(* eviction or relocation loses a key or brings one back.                   *)
ContentsExplained == apart => Explains(Contents)

(* Nothing is stored twice, or where no lookup finds it. *)
NoCopies == apart /\ Quiet => Entries = Cardinality(Contents)

(* Under one mutex the count that decides when to grow is the number of     *)
(* keys.  (The two tables with a mutex per bucket change it without one for *)
(* all, and ConcurrentCuckooHash counts a key again when it moves.)         *)
SizeCounts == apart /\ Quiet /\ which \in {"chain", "cuckoo", "open"} => heap.setSize = Cardinality(Contents)
=============================================================================
