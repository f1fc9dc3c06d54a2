-------------------------------- MODULE Hash --------------------------------
(* hash/Hash.c: a table of chained buckets under one mutex.  What is done   *)
(* under the mutex is one step together with giving it back.  A bucket is   *)
(* an ordered list without duplicates, kept here as the set of its keys.    *)
EXTENDS HashMemory

table_size == Cardinality(DOMAIN ht.bucket)
hashCode(k, size) == k % size
init_bucket(S, size) == [b \in 0..size - 1 |-> {k \in S : hashCode(k, size) = b}]
policy(setSize, size) == setSize \div size > 4
resizeOldCode(bucket, size) ==   \* mutant: the keys are hashed for the old size
  bucket @@ [b \in 0..2 * size - 1 |-> {}]
resize(bucket, size) == init_bucket(Chained(bucket), 2 * size)

Init == \E S \in Initial :
  /\ heap = [bucket |-> init_bucket(S, Size), setSize |-> Cardinality(S), owner |-> ("mtx" :> Null)]
  /\ Idle /\ NoCalls({S})

Call(t, op, k) == Enter(t, op, k, "lock") /\ UNCHANGED heap

LockTable(t) ==
  /\ At(t, "lock") /\ Lock(t, "mtx")
  /\ Goto(t, call[t].op) /\ UNCHANGED my /\ Internal

bucket(t) == ht.bucket[hashCode(key(t), table_size)]
add_node(t) == [ht.bucket EXCEPT ![hashCode(key(t), table_size)] = @ \cup {key(t)}]
find_node(t) == key(t) \in bucket(t)

add(t) == LET n == IF find_node(t) THEN ht.setSize ELSE ht.setSize + 1 IN
  /\ At(t, "add")
  /\ Unlock([ht EXCEPT !.setSize = n,
                       !.bucket = IF policy(n, table_size) THEN resize(add_node(t), table_size)
                                  ELSE add_node(t)], t)
  /\ Return(t, IF find_node(t) THEN 0 ELSE key(t))

(* A walk beyond the last node of a list that is not empty follows NULL. *)
delete_node(t) == [ht.bucket EXCEPT ![hashCode(key(t), table_size)] = @ \ {key(t)}]
Overrun(t) == bucket(t) # {} /\ \A k \in bucket(t) : k < key(t)

delete(t) ==
  /\ At(t, "delete")
  /\ IF Overrun(t) THEN Local(t, "crashed") /\ UNCHANGED my
     ELSE IF find_node(t)
     THEN Unlock([ht EXCEPT !.setSize = @ - 1, !.bucket = delete_node(t)], t) /\ Return(t, key(t))
     ELSE Unlock(ht, t) /\ Return(t, 0)

find(t) == At(t, "find") /\ Unlock(ht, t) /\ Return(t, IF find_node(t) THEN key(t) ELSE 0)

Step(t) == LockTable(t) \/ add(t) \/ delete(t) \/ find(t)

show_hashtable == Chained(ht.bucket)
=============================================================================
