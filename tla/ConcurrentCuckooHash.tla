------------------------ MODULE ConcurrentCuckooHash ------------------------
(* hash/ConcurrentCuckooHash.c: cuckoo hashing with two arrays of lists of  *)
(* at most probe_size keys.  A call holds the mutex of its key in each      *)
(* array; a list longer than threshold has its first key moved to the other *)
(* array, and a resize takes all mutexes.  Lists are sequences of keys.     *)
EXTENDS HashMemory

CONSTANTS probe_size, threshold

mtx_size == Size
table_size == Cardinality(DOMAIN ht.table[0])
hashCode(i, k) == IF i = 0 THEN k * 65699 ELSE k * 65701
mtx(i, k) == <<i, hashCode(i, k) % mtx_size>>
init_tables(size) == [i \in 0..1 |-> [b \in 0..size - 1 |-> <<>>]]

add_node_atTail(table, i, b, k) == [table EXCEPT ![i][b] = Append(@, k)]
delete_node(list, k) == SelectSeq(list, LAMBDA x : x # k)
Bucket(table, i, k) == hashCode(i, k) % Cardinality(DOMAIN table[0])
get_list(table, i, k) == table[i][Bucket(table, i, k)]
contains_op(table, k) == \E i \in 0..1 : k \in ToSet(get_list(table, i, k))

(* The array whose list takes k: one below threshold before one below       *)
(* probe_size, the first array before the second; 2 when both are full.     *)
ArrayFor(table, k) ==
  LET Below(n) == {i \in 0..1 : Len(get_list(table, i, k)) < n}
  IN IF Below(threshold) # {} THEN Min(Below(threshold)) ELSE Min(Below(probe_size) \cup {2})
Place(table, k) == LET i == ArrayFor(table, k) IN add_node_atTail(table, i, Bucket(table, i, k), k)
Overfull(table, k) == \A i \in 0..1 : Len(get_list(table, i, k)) >= threshold

(* The keys in the order in which a resize meets them. *)
KeysIn(table) == LET size == Cardinality(DOMAIN table[0]) IN
  FlattenSeq([n \in 1..2 * size |-> table[(n - 1) \div size][(n - 1) % size]])

init_hashtable(S) ==
  LET table == FoldLeft(Place, init_tables(Size), SetToSortSeq(S, <))
  IN [table |-> table, setSize |-> Cardinality(S), owner |-> [m \in (0..1) \X (0..mtx_size - 1) |-> Null]]
Init == \E S \in Initial : heap = init_hashtable(S) /\ Idle /\ NoCalls({S})

Call(t, op, k) == Enter(t, op, k, "acquire") /\ UNCHANGED heap

(* acquire; lock_key is the key of the call, or the one to relocate. *)
lock_key(t) == IF my[t].next = Null THEN key(t) ELSE my[t].next
Acquire0(t) ==
  /\ At(t, "acquire") /\ Lock(t, mtx(0, lock_key(t)))
  /\ Goto(t, "acquire1") /\ UNCHANGED my /\ Internal
acquire(t) ==
  /\ At(t, "acquire1") /\ Lock(t, mtx(1, lock_key(t)))
  /\ Goto(t, IF my[t].next = Null THEN call[t].op ELSE "relocate") /\ UNCHANGED my /\ Internal

(* The recursive call after a resize ends the outer one with true. *)
Again(t) == "after" \in DOMAIN my[t]
add(t) == LET k == key(t)  i == ArrayFor(ht.table, k) IN
  /\ At(t, "add")
  /\ \/ /\ contains_op(ht.table, k)
        /\ Unlock(ht, t) /\ Return(t, IF Again(t) THEN k ELSE 0)
     \/ /\ ~contains_op(ht.table, k) /\ i < 2
        /\ Unlock([ht EXCEPT !.table = Place(@, k), !.setSize = @ + 1], t)
        /\ IF Overfull(ht.table, k)
           THEN Set(t, [i |-> i, hi |-> Bucket(ht.table, i, k), round |-> 0]) /\ Goto(t, "head") /\ Internal
           ELSE Return(t, k)
     \/ /\ ~contains_op(ht.table, k) /\ i = 2
        /\ Unlock(ht, t) /\ Set(t, [after |-> "add"]) /\ Goto(t, "resize") /\ Internal

delete(t) == LET k == key(t)  lists == {i \in 0..1 : k \in ToSet(get_list(ht.table, i, k))} IN
  /\ At(t, "delete")
  /\ \/ lists = {} /\ Unlock(ht, t) /\ Return(t, 0)
     \/ /\ lists # {}
        /\ Unlock([ht EXCEPT !.table[Min(lists)][Bucket(ht.table, Min(lists), k)] = delete_node(@, k),
                             !.setSize = @ - 1], t)
        /\ Return(t, k)

contains(t) ==
  /\ At(t, "find") /\ Unlock(ht, t)
  /\ Return(t, IF contains_op(ht.table, key(t)) THEN key(t) ELSE 0)

(* relocate reads the first key of the list, and the place it is to go to,  *)
(* before it has their mutexes; size says which table that was.             *)
LIMIT == 8
get_head_node(t) == LET list == ht.table[my[t].i][my[t].hi]  y == Head(list) IN
  /\ At(t, "head")
  /\ IF list = <<>> THEN Local(t, "crashed") /\ UNCHANGED my
     ELSE /\ Set(t, [next |-> y, hj |-> Bucket(ht.table, 1 - my[t].i, y), size |-> table_size])
          /\ Local(t, "acquire")

relocate(t) ==
  LET i == my[t].i  j == 1 - i  hi == my[t].hi  hj == my[t].hj  y == my[t].next
      jSet == ht.table[j][hj]
      moved == [ht EXCEPT !.table[i][hi] = delete_node(@, y), !.table[j][hj] = Append(@, y), !.setSize = @ + 1]
      rotated == [ht EXCEPT !.table[i][hi] = Append(delete_node(@, y), y), !.setSize = @ + 1]
  IN
  /\ At(t, "relocate")
  /\ \/ /\ my[t].size # table_size \/ y \notin ToSet(ht.table[i][hi])
        /\ Local(t, "crashed") /\ UNCHANGED my
     \/ /\ my[t].size = table_size /\ y \in ToSet(ht.table[i][hi])
        /\ \/ Len(jSet) < threshold /\ Unlock(moved, t) /\ Return(t, key(t))
           \/ /\ Len(jSet) \in threshold..probe_size - 1 /\ Unlock(moved, t)
              /\ Set(t, [i |-> j, hi |-> hj, round |-> my[t].round + 1, after |-> "return"])
              /\ Goto(t, IF my[t].round + 1 < LIMIT THEN "head" ELSE "resize") /\ Internal
           \/ /\ Len(jSet) >= probe_size /\ Unlock(rotated, t)
              /\ Set(t, [after |-> "return"]) /\ Goto(t, "resize") /\ Internal

(* aLock takes the mutexes in turn, bucket by bucket. *)
StartResize(t) == At(t, "resize") /\ Set(t, [lock |-> 0]) /\ Local(t, "lock_all")
aLock(t) == LET n == my[t].lock IN
  /\ At(t, "lock_all") /\ Lock(t, <<n % 2, n \div 2>>)
  /\ Set(t, [lock |-> n + 1])
  /\ Goto(t, IF n + 1 = 2 * mtx_size THEN "rehash" ELSE "lock_all") /\ Internal

(* exit(-1) when a key finds both lists full.  Every key moved counts. *)
Rehashed(keys) == FoldLeft(Place, init_tables(2 * table_size), keys)
Fits(keys) == \A n \in DOMAIN keys : ArrayFor(Rehashed(SubSeq(keys, 1, n - 1)), keys[n]) < 2
resize(t) == LET keys == KeysIn(ht.table) IN
  /\ At(t, "rehash")
  /\ IF ~Fits(keys) THEN Local(t, "crashed") /\ UNCHANGED my
     ELSE /\ Unlock([ht EXCEPT !.table = Rehashed(keys), !.setSize = @ + Len(keys)], t)
          /\ IF my[t].after = "add" THEN Set(t, [next |-> Null]) /\ Goto(t, "acquire") /\ Internal
             ELSE Return(t, key(t))

Step(t) == \/ Acquire0(t) \/ acquire(t) \/ add(t) \/ delete(t) \/ contains(t)
           \/ get_head_node(t) \/ relocate(t) \/ StartResize(t) \/ aLock(t) \/ resize(t)

show_hashtable == KeysIn(ht.table)
=============================================================================
