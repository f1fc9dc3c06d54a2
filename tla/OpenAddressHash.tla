-------------------------- MODULE OpenAddressHash --------------------------
(* hash/OpenAddressHash.c: open addressing with linear probing under one    *)
(* mutex.  An entry is EMP, DEL or, when it is occupied, OCC of its key.    *)
(* add takes the first entry that is not occupied and does not look whether *)
(* the key is in the table already.                                         *)
EXTENDS HashMemory

EMP == <<"EMP">>
DEL == <<"DEL">>
OCC(k) == <<"OCC", k>>
Occupied(entry) == entry \notin {EMP, DEL}

size_of(bucket) == Cardinality(DOMAIN bucket)
hashCode(k, i, size) == (k + i) % size
policy(setSize, size) == (size * 4) \div 5 < setSize
init_bucket(size) == [b \in 0..size - 1 |-> EMP]

(* The number of the first probe for k that meets one of entries, or size. *)
Probe(bucket, k, entries) == LET size == size_of(bucket) IN
  Min({i \in 0..size : i = size \/ bucket[hashCode(k, i, size)] \in entries})
Entry(bucket, k, i) == hashCode(k, i, size_of(bucket))
At_probe(bucket, k, i) == IF i < size_of(bucket) THEN bucket[Entry(bucket, k, i)] ELSE EMP

add_op(bucket, k) == LET i == Probe(bucket, k, {EMP, DEL}) IN
  IF i < size_of(bucket) THEN [bucket EXCEPT ![Entry(bucket, k, i)] = OCC(k)] ELSE bucket
Room(bucket) == \E b \in DOMAIN bucket : ~Occupied(bucket[b])

(* The keys in the order of the entries, with those that are there twice. *)
KeysIn(bucket) == SelectSeq([b \in 1..size_of(bucket) |-> bucket[b - 1]], Occupied)
resize(bucket) ==
  FoldLeft(LAMBDA new_bucket, e : add_op(new_bucket, e[2]), init_bucket(2 * size_of(bucket)), KeysIn(bucket))

Init == \E S \in Initial :
  LET bucket == FoldSet(LAMBDA k, b : add_op(b, k), init_bucket(Size), S) IN
  /\ ~policy(Cardinality(S), Size)
  /\ heap = [bucket |-> bucket, setSize |-> Cardinality(S), owner |-> ("mtx" :> Null)]
  /\ Idle /\ NoCalls({S})

Call(t, op, k) == Enter(t, op, k, "lock") /\ UNCHANGED heap

LockTable(t) ==
  /\ At(t, "lock") /\ Lock(t, "mtx")
  /\ Goto(t, call[t].op) /\ UNCHANGED my /\ Internal

add(t) == LET bucket == add_op(ht.bucket, key(t))
              n == IF Room(ht.bucket) THEN ht.setSize + 1 ELSE ht.setSize IN
  /\ At(t, "add")
  /\ Unlock([ht EXCEPT !.bucket = IF policy(n, size_of(bucket)) THEN resize(bucket) ELSE bucket,
                       !.setSize = n], t)
  /\ Return(t, IF Room(ht.bucket) THEN key(t) ELSE 0)

Place(k) == Probe(ht.bucket, k, {EMP, OCC(k)})
Found(k) == At_probe(ht.bucket, k, Place(k)) = OCC(k)
del_opEmpty(k) ==   \* mutant: a deleted entry ends the probes for the keys behind it
  [ht EXCEPT !.bucket[Entry(ht.bucket, k, Place(k))] = EMP, !.setSize = @ - 1]
del_op(k) == [ht EXCEPT !.bucket[Entry(ht.bucket, k, Place(k))] = DEL, !.setSize = @ - 1]

delete(t) ==
  /\ At(t, "delete")
  /\ \/ Found(key(t)) /\ Unlock(del_op(key(t)), t) /\ Return(t, key(t))
     \/ ~Found(key(t)) /\ Unlock(ht, t) /\ Return(t, 0)

find(t) == At(t, "find") /\ Unlock(ht, t) /\ Return(t, IF Found(key(t)) THEN key(t) ELSE 0)

Step(t) == LockTable(t) \/ add(t) \/ delete(t) \/ find(t)

show_hashtable == KeysIn(ht.bucket)
=============================================================================
