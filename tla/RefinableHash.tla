---------------------------- MODULE RefinableHash ----------------------------
(* hash/RefinableHash.c: a table of chained buckets with a mutex for each   *)
(* bucket.  A resize makes new buckets with the old mutexes and as many     *)
(* more, and then frees the old buckets, which destroys those mutexes.      *)
EXTENDS HashMemory

hashCode(k, size) == k % size
create_buckets(S, size) == [b \in 0..size - 1 |-> {k \in S : hashCode(k, size) = b}]

(* Mutex b is that of bucket b; mtx says which mutexes the buckets in       *)
(* ht->bucket point to already.                                             *)
init_hashtable(S) ==
  [bucket |-> create_buckets(S, Size), table_size |-> Size, setSize |-> Cardinality(S),
   old_bucket |-> {}, mtx |-> 0..Size - 1, owner |-> [m \in 0..Size - 1 |-> Null], destroyed |-> {}]

Init == \E S \in Initial : heap = init_hashtable(S) /\ Idle /\ NoCalls({S})

Call(t, op, k) ==
  Enter(t, op, k, IF op = "find" THEN "hash" ELSE "size") /\ UNCHANGED heap

ReadSize(t) ==
  /\ At(t, "size")
  /\ Set(t, [size |-> ht.table_size, retry |-> IF "retry" \in DOMAIN my[t] THEN my[t].retry - 1 ELSE 2])
  /\ Local(t, "hash")
HashKey(t) ==
  At(t, "hash") /\ Set(t, [bucket |-> hashCode(key(t), ht.table_size)]) /\ Local(t, "lock")

(* A mutex that has been destroyed is not taken: pthread_mutex_lock returns *)
(* EINVAL, which nobody looks at.                                           *)
Take(t, m, l) ==
  IF m \notin ht.mtx THEN Local(t, "crashed")
  ELSE /\ IF m \in ht.destroyed THEN UNCHANGED heap ELSE Lock(t, m)
       /\ Goto(t, l) /\ Internal
lock(t) == At(t, "lock") /\ Take(t, my[t].bucket, call[t].op) /\ UNCHANGED my

bucket(t) == ht.bucket[my[t].bucket]
find_node(t) == key(t) \in bucket(t)
add_node(t) == [ht.bucket EXCEPT ![my[t].bucket] = @ \cup {key(t)}]
delete_node(t) == [ht.bucket EXCEPT ![my[t].bucket] = @ \ {key(t)}]
Overrun(t) == bucket(t) # {} /\ \A k \in bucket(t) : k < key(t)
Unresized(t) == my[t].size = ht.table_size

Change(t, buckets) ==
  /\ heap' = [ht EXCEPT !.bucket = buckets]
  /\ Goto(t, "count") /\ UNCHANGED my /\ Internal
NotDone(t) == Unlock(ht, t) /\ Goto(t, IF my[t].retry > 0 THEN "size" ELSE "no") /\ UNCHANGED my /\ Internal

add(t) ==
  /\ At(t, "add")
  /\ IF Unresized(t) /\ ~find_node(t) THEN Change(t, add_node(t)) ELSE NotDone(t)
delete(t) ==
  /\ At(t, "delete")
  /\ IF Unresized(t) /\ Overrun(t) THEN Local(t, "crashed") /\ UNCHANGED my
     ELSE IF Unresized(t) /\ find_node(t) THEN Change(t, delete_node(t)) ELSE NotDone(t)
find(t) == At(t, "find") /\ Unlock(ht, t) /\ Return(t, IF find_node(t) THEN key(t) ELSE 0)

LoadCount(t) == At(t, "count") /\ Set(t, [count |-> ht.setSize]) /\ Local(t, "store")
StoreCount(t) ==
  /\ At(t, "store")
  /\ Unlock([ht EXCEPT !.setSize = my[t].count + (IF call[t].op = "add" THEN 1 ELSE -1)], t)
  /\ Set(t, [ret |-> key(t)]) /\ Goto(t, "done") /\ Internal
NoLuck(t) == At(t, "no") /\ Set(t, [ret |-> 0]) /\ Local(t, "done")

policy == ht.setSize \div ht.table_size > 4
Done(t) ==
  /\ At(t, "done") /\ UNCHANGED heap
  /\ IF call[t].op = "add" /\ policy THEN Goto(t, "resize") /\ UNCHANGED my /\ Internal
     ELSE Return(t, my[t].ret)

StartResize(t) ==
  At(t, "resize") /\ Set(t, [size |-> ht.table_size, bucket |-> 0]) /\ Local(t, "lock_all")
LockAll(t) ==
  /\ At(t, "lock_all")
  /\ Take(t, my[t].bucket, IF my[t].bucket + 1 = my[t].size THEN "new_buckets" ELSE "lock_all")
  /\ Set(t, [bucket |-> my[t].bucket + 1])

(* ht->bucket points to the new buckets before they have their mutexes, and *)
(* table_size is doubled before the keys have moved: only the old mutexes   *)
(* are held.                                                                *)
NewBuckets(t) ==
  /\ At(t, "new_buckets")
  /\ IF Unresized(t)
     THEN /\ heap' = [ht EXCEPT !.mtx = {}, !.old_bucket = Chained(ht.bucket), !.bucket = create_buckets({}, 2 * my[t].size)]
          /\ Goto(t, "init_bucket") /\ UNCHANGED my /\ Internal
     ELSE Unlock(ht, t) /\ Return(t, my[t].ret)
init_bucket(t) == LET mutexes == 0..2 * my[t].size - 1 IN
  /\ At(t, "init_bucket") /\ UNCHANGED my
  /\ heap' = [ht EXCEPT !.mtx = mutexes, !.owner = @ @@ [m \in mutexes |-> Null]]
  /\ Goto(t, "double") /\ Internal
Double(t) ==
  /\ At(t, "double") /\ UNCHANGED my
  /\ heap' = [ht EXCEPT !.table_size = 2 * @]
  /\ Goto(t, "rehash") /\ Internal

(* The keys move in the order of the old buckets.  Another thread may be in *)
(* the middle of changing the list that one moves to.                       *)
NextOld(t) == LET first == CHOOSE b \in 0..my[t].size - 1 :
                    /\ \E k \in ht.old_bucket : hashCode(k, my[t].size) = b
                    /\ \A k \in ht.old_bucket : hashCode(k, my[t].size) >= b
              IN Min({k \in ht.old_bucket : hashCode(k, my[t].size) = first})
resize(t) ==
  /\ At(t, "rehash") /\ UNCHANGED my
  /\ IF ht.old_bucket = {} THEN Unlock(ht, t) /\ Goto(t, "free") /\ Internal
     ELSE LET k == NextOld(t)  b == hashCode(k, ht.table_size) IN
          IF ht.owner[b] \notin {t, Null} THEN Local(t, "crashed")
          ELSE /\ heap' = [ht EXCEPT !.bucket[b] = @ \cup {k}, !.old_bucket = @ \ {k}]
               /\ UNCHANGED pc /\ Internal
free_bucket(t) ==
  /\ At(t, "free")
  /\ heap' = [ht EXCEPT !.destroyed = @ \cup 0..my[t].size - 1]
  /\ Return(t, my[t].ret)

Step(t) == \/ ReadSize(t) \/ HashKey(t) \/ lock(t) \/ add(t) \/ delete(t) \/ find(t)
           \/ LoadCount(t) \/ StoreCount(t) \/ NoLuck(t) \/ Done(t)
           \/ StartResize(t) \/ LockAll(t) \/ NewBuckets(t) \/ init_bucket(t) \/ Double(t) \/ resize(t) \/ free_bucket(t)

show_hashtable == Chained(ht.bucket)
=============================================================================
