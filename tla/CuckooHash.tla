----------------------------- MODULE CuckooHash -----------------------------
(* hash/CuckooHash.c: a hash table with two arrays under one mutex.  Both   *)
(* swaps of add are with table[1], as get_node only knows 0 and not 0, so   *)
(* that a key that evicts another is evicted by it in turn.  table[0] stays *)
(* empty.  An entry is a key, or None when its state is EMP or DEL.         *)
EXTENDS HashMemory

CONSTANT Tries   \* how often add resizes before it gives up, 10 in the code

None == 0
hashCode1(k, size) == (k * 271) % size
table_size == Cardinality(DOMAIN ht.table)

(* The keys that a table of that size would take one after the other.       *)
set_node(table, k) == [table EXCEPT ![hashCode1(k, Cardinality(DOMAIN table))] = k]
init_tables(size) == [b \in 0..size - 1 |-> None]
get_node(table, k) == table[hashCode1(k, Cardinality(DOMAIN table))]
Stored(table) == {table[b] : b \in DOMAIN table} \ {None}

(* The keys of a table never meet in one twice as large. *)
resize(table) == FoldSet(LAMBDA k, new_table : set_node(new_table, k),
                         init_tables(2 * Cardinality(DOMAIN table)), Stored(table))

Init == \E S \in Initial :
  LET table == FoldSet(LAMBDA k, new_table : set_node(new_table, k), init_tables(Size), S) IN
  /\ Stored(table) = S
  /\ heap = [table |-> table, setSize |-> Cardinality(S), owner |-> ("mtx" :> Null)]
  /\ Idle /\ NoCalls({S})

Call(t, op, k) == Enter(t, op, k, "lock") /\ UNCHANGED heap

LockTable(t) ==
  /\ At(t, "lock") /\ Lock(t, "mtx")
  /\ Goto(t, call[t].op) /\ UNCHANGED my /\ Internal

find_op(k) == get_node(ht.table, k) = k

(* swap_node: the loop ends at once when the entry is free; otherwise it    *)
(* ends with the entry as it was and the new key in hand.                   *)
swap_node(table, k) == IF get_node(table, k) = None THEN set_node(table, k) ELSE table
Resized(i) == FoldLeft(LAMBDA table, j : resize(table), ht.table, [j \in 1..i |-> j])
Collides(t, i) == get_node(Resized(i), key(t)) # None
Resizes(t) == Min({i \in 0..Tries : i = Tries \/ ~Collides(t, i)})

(* A resize counts the keys that it stores anew. *)
Counted(i) == IF i = 0 THEN ht.setSize ELSE Cardinality(Stored(Resized(i)))

add(t) == LET i == Resizes(t) IN
  /\ At(t, "add")
  /\ \/ find_op(key(t)) /\ Unlock(ht, t) /\ Return(t, 0)
     \/ /\ ~find_op(key(t)) /\ ~Collides(t, i)
        /\ Unlock([ht EXCEPT !.table = swap_node(Resized(i), key(t)), !.setSize = Counted(i) + 1], t)
        /\ Return(t, key(t))
     \/ /\ ~find_op(key(t)) /\ Collides(t, i)
        /\ Unlock([ht EXCEPT !.table = Resized(i), !.setSize = Counted(i)], t) /\ Return(t, 0)

del_opUncounted(k) == [ht EXCEPT !.table[hashCode1(k, table_size)] = None]   \* mutant
del_op(k) == [ht EXCEPT !.table[hashCode1(k, table_size)] = None, !.setSize = @ - 1]
delete(t) ==
  /\ At(t, "delete")
  /\ \/ find_op(key(t)) /\ Unlock(del_op(key(t)), t) /\ Return(t, key(t))
     \/ ~find_op(key(t)) /\ Unlock(ht, t) /\ Return(t, 0)

find(t) == At(t, "find") /\ Unlock(ht, t) /\ Return(t, IF find_op(key(t)) THEN key(t) ELSE 0)

Step(t) == LockTable(t) \/ add(t) \/ delete(t) \/ find(t)

show_hashtable == Stored(ht.table)
=============================================================================
