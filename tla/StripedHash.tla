---------------------------- MODULE StripedHash ----------------------------
(* hash/StripedHash.c: a table of chained buckets with as many mutexes as   *)
(* it had buckets at first.  The bucket of a key is computed before its     *)
(* mutex is taken and checked after; a resize takes all mutexes in order.   *)
EXTENDS HashMemory

lock_size == Size
lockKey(b) == b % lock_size
hashCode(k, size) == k % size
init_bucket(S, size) == [b \in 0..size - 1 |-> {k \in S : hashCode(k, size) = b}]
init_hashtable(S) == [bucket |-> init_bucket(S, Size), table_size |-> Size, setSize |-> Cardinality(S),
                      owner |-> [m \in 0..lock_size - 1 |-> Null]]

Init == \E S \in Initial : heap = init_hashtable(S) /\ Idle /\ NoCalls({S})

Call(t, op, k) ==
  Enter(t, op, k, IF op = "find" THEN "hash" ELSE "size") /\ UNCHANGED heap

(* retry counts what is left of the three attempts of add and delete. *)
ReadSize(t) ==
  /\ At(t, "size")
  /\ Set(t, [size |-> ht.table_size, retry |-> IF "retry" \in DOMAIN my[t] THEN my[t].retry - 1 ELSE 2])
  /\ Local(t, "hash")
HashKey(t) ==
  At(t, "hash") /\ Set(t, [bucket |-> hashCode(key(t), ht.table_size)]) /\ Local(t, "lock")
lock(t) ==
  /\ At(t, "lock") /\ Lock(t, lockKey(my[t].bucket))
  /\ Goto(t, call[t].op) /\ UNCHANGED my /\ Internal

bucket(t) == ht.bucket[my[t].bucket]
find_node(t) == key(t) \in bucket(t)
add_node(t) == [ht.bucket EXCEPT ![my[t].bucket] = @ \cup {key(t)}]
delete_node(t) == [ht.bucket EXCEPT ![my[t].bucket] = @ \ {key(t)}]
Overrun(t) == bucket(t) # {} /\ \A k \in bucket(t) : k < key(t)
UnresizedUnchecked(t) == TRUE   \* mutant
Unresized(t) == my[t].size = ht.table_size

(* The bucket changes under its mutex; the count, which belongs to all      *)
(* buckets, is loaded and stored.                                           *)
Change(t, buckets) ==
  /\ heap' = [ht EXCEPT !.bucket = buckets]
  /\ Goto(t, "count") /\ UNCHANGED my /\ Internal
NotDone(t) == Unlock(ht, t) /\ Goto(t, IF my[t].retry > 0 THEN "size" ELSE "no") /\ UNCHANGED my /\ Internal

add(t) ==
  /\ At(t, "add")
  /\ IF Unresized(t) /\ ~find_node(t) THEN Change(t, add_node(t)) ELSE NotDone(t)
delete(t) ==
  /\ At(t, "delete")
  /\ IF Unresized(t) /\ Overrun(t) THEN Local(t, "crashed") /\ UNCHANGED my
     ELSE IF Unresized(t) /\ find_node(t) THEN Change(t, delete_node(t)) ELSE NotDone(t)
find(t) == At(t, "find") /\ Unlock(ht, t) /\ Return(t, IF find_node(t) THEN key(t) ELSE 0)

LoadCount(t) == At(t, "count") /\ Set(t, [count |-> ht.setSize]) /\ Local(t, "store")
StoreCount(t) ==
  /\ At(t, "store")
  /\ Unlock([ht EXCEPT !.setSize = my[t].count + (IF call[t].op = "add" THEN 1 ELSE -1)], t)
  /\ Set(t, [ret |-> key(t)]) /\ Goto(t, "done") /\ Internal
NoLuck(t) == At(t, "no") /\ Set(t, [ret |-> 0]) /\ Local(t, "done")

policy == ht.setSize \div ht.table_size > 4
Done(t) ==
  /\ At(t, "done") /\ UNCHANGED heap
  /\ IF call[t].op = "add" /\ policy THEN Goto(t, "resize") /\ UNCHANGED my /\ Internal
     ELSE Return(t, my[t].ret)

(* resize does nothing when another one was faster. *)
StartResize(t) ==
  At(t, "resize") /\ Set(t, [size |-> ht.table_size, stripe |-> 0]) /\ Local(t, "lock_all")
LockAll(t) ==
  /\ At(t, "lock_all") /\ Lock(t, my[t].stripe) /\ Internal
  /\ Set(t, [stripe |-> my[t].stripe + 1])
  /\ Goto(t, IF my[t].stripe + 1 = lock_size THEN "rehash" ELSE "lock_all")
resize(t) == LET size == 2 * ht.table_size IN
  /\ At(t, "rehash")
  /\ Unlock(IF Unresized(t) THEN [ht EXCEPT !.table_size = size, !.bucket = init_bucket(Chained(@), size)]
            ELSE ht, t)
  /\ Return(t, my[t].ret)

Step(t) == \/ ReadSize(t) \/ HashKey(t) \/ lock(t) \/ add(t) \/ delete(t) \/ find(t)
           \/ LoadCount(t) \/ StoreCount(t) \/ NoLuck(t) \/ Done(t)
           \/ StartResize(t) \/ LockAll(t) \/ resize(t)

show_hashtable == Chained(ht.bucket)
=============================================================================
