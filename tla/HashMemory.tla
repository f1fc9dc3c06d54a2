----------------------------- MODULE HashMemory -----------------------------
(* What the models of the hash tables share.  The memory is one record, the *)
(* hashtable_t; ht.owner maps its mutexes to their holders.                 *)
EXTENDS ThreadSteps, SequencesExt

CONSTANTS Initial,   \* the sets of keys a table may start with
          Size       \* the number of buckets it starts with

ht == heap
Held(t, m) == ht.owner[m] = t
Lock(t, m) == ht.owner[m] = Null /\ heap' = [heap EXCEPT !.owner[m] = t]
Released(h, t) == [h EXCEPT !.owner = [m \in DOMAIN @ |-> IF @[m] = t THEN Null ELSE @[m]]]
Unlock(h, t) == heap' = Released(h, t)

(* The keys in a table of chained buckets. *)
Chained(bucket) == UNION {bucket[i] : i \in DOMAIN bucket}
=============================================================================
