----------------------------- MODULE TestBench -----------------------------
(***************************************************************************)
(* The test bench of a2/blocking2.cpp (the same text drives block_q.cpp,   *)
(* nonblock_q.cpp and non_block2.cpp): every thread runs threadFn, which   *)
(* makes enq and deq calls, as drawn in an array of random numbers, until  *)
(* total_cals says that MAX_SIZE calls have been made.  index and          *)
(* total_cals are plain ints that all the threads read and write without a *)
(* lock; one step is one access to them.  The queue is left out here: a    *)
(* call takes any time and returns.                                        *)
(***************************************************************************)
EXTENDS Integers, FiniteSets

CONSTANTS NUM_THREADS, MAX_SIZE,
          test_bench, \* 1, 2 or 3: the ratio of enq to deq the user selects
          Beyond      \* the words that may be found behind the array; 3 stands
                      \* for every number that selects no branch

ASSUME ThreadsAssumption == NUM_THREADS \in Nat \ {0}
ASSUME MaxSizeAssumption == MAX_SIZE \in Nat \ {0}
ASSUME BenchAssumption   == test_bench \in 1 .. 3
ASSUME BeyondAssumption  == Beyond \subseteq 0 .. 3 /\ Beyond # {}

VARIABLES random,     \* the generated numbers
          index, total_cals,
          bpc,        \* bpc[t]: what thread t does next
          k,          \* k[t]: the number thread t compares with next
          reg,        \* reg[t]: the value of ++'s operand
          calls       \* history: the calls that have returned

vars == <<random, index, total_cals, bpc, k, reg, calls>>

Tids == 0 .. NUM_THREADS - 1

(* The numbers random_gen draws, and the calls that the branches of the     *)
(* three benches make of them.                                              *)
Numbers == IF test_bench = 1 THEN 0 .. 1 ELSE 0 .. 2
Enqs    == IF test_bench = 2 THEN {0, 1} ELSE {0}
Choice  == [n \in Numbers |-> IF n \in Enqs THEN "enq" ELSE "deq"]

(* random_gen fills the array but for its last element. *)
Generated == 0 .. MAX_SIZE - 2

Labels == {"while", "test", "enq", "deq", "in_call",
           "index_read", "index_write", "total_read", "total_write", "done"}

TypeOK == /\ random \in [Generated -> Numbers]
          /\ index \in Nat
          /\ total_cals \in Nat
          /\ bpc \in [Tids -> Labels]
          /\ k \in [Tids -> Numbers]
          /\ reg \in [Tids -> Nat]
          /\ calls \in Nat

Init == /\ random \in [Generated -> Numbers]
        /\ index = 0
        /\ total_cals = 0
        /\ bpc = [t \in Tids |-> "while"]
        /\ k = [t \in Tids |-> 0]
        /\ reg = [t \in Tids |-> 0]
        /\ calls = 0

(* The words a thread may read as _random[j].  The array is static and      *)
(* random_gen leaves its last element 0; with several threads an enq of     *)
(* blocking2.cpp may have written there (see WritesStayInArray of           *)
(* BlockingQueue).                                                          *)
Words(j) == CASE j \in Generated                       -> {random[j]}
              [] j = MAX_SIZE - 1 /\ NUM_THREADS = 1 -> {0}
              [] OTHER                                -> Beyond

At(t, label)   == bpc[t] = label
Goto(t, label) == bpc' = [bpc EXCEPT ![t] = label]
Move(t, from, to) == At(t, from) /\ Goto(t, to)
-----------------------------------------------------------------------------
(* while (total_cals < MAX_SIZE) *)
While(t) == /\ Move(t, "while", IF total_cals < MAX_SIZE THEN "test" ELSE "done")
            /\ UNCHANGED <<random, index, total_cals, k, reg, calls>>

(* mutant: the last number is drawn, but no branch compares with it *)
TestShort(t, word) ==
    /\ At(t, "test")
    /\ \/ /\ word = k[t]
          /\ Goto(t, Choice[word])
          /\ k' = [k EXCEPT ![t] = 0]
       \/ /\ word # k[t] /\ k[t] + 2 \in Numbers
          /\ k' = [k EXCEPT ![t] = @ + 1]
          /\ UNCHANGED bpc
       \/ /\ word # k[t] /\ k[t] + 2 \notin Numbers
          /\ Goto(t, "while")
          /\ k' = [k EXCEPT ![t] = 0]
    /\ UNCHANGED <<random, index, total_cals, reg, calls>>

(* One comparison _random[index+tid] == k, on the word that is there.  Each *)
(* comparison reads index anew; when none succeeds the loop starts over.    *)
Test(t, word) ==
    /\ At(t, "test")
    /\ \/ /\ word = k[t]
          /\ Goto(t, Choice[word])
          /\ k' = [k EXCEPT ![t] = 0]
       \/ /\ word # k[t] /\ k[t] + 1 \in Numbers
          /\ k' = [k EXCEPT ![t] = @ + 1]
          /\ UNCHANGED bpc
       \/ /\ word # k[t] /\ k[t] + 1 \notin Numbers
          /\ Goto(t, "while")
          /\ k' = [k EXCEPT ![t] = 0]
    /\ UNCHANGED <<random, index, total_cals, reg, calls>>

StartCall(t) == /\ At(t, "enq") \/ At(t, "deq")
                /\ Goto(t, "in_call")
                /\ UNCHANGED <<random, index, total_cals, k, reg, calls>>

CallReturns(t) == /\ Move(t, "in_call", "index_read")
                  /\ calls' = calls + 1
                  /\ UNCHANGED <<random, index, total_cals, k, reg>>

(* index++ *)
IndexRead(t) == /\ Move(t, "index_read", "index_write")
                /\ reg' = [reg EXCEPT ![t] = index]
                /\ UNCHANGED <<random, index, total_cals, k, calls>>
IndexWrite(t) == /\ Move(t, "index_write", "total_read")
                 /\ index' = reg[t] + 1
                 /\ reg' = [reg EXCEPT ![t] = 0] \* dead
                 /\ UNCHANGED <<random, total_cals, k, calls>>

(* total_cals++ *)
TotalRead(t) == /\ Move(t, "total_read", "total_write")
                /\ reg' = [reg EXCEPT ![t] = total_cals]
                /\ UNCHANGED <<random, index, total_cals, k, calls>>
(* mutant: total_cals advances by two *)
TotalTwice(t) == /\ Move(t, "total_write", "while")
                 /\ total_cals' = reg[t] + 2
                 /\ reg' = [reg EXCEPT ![t] = 0]
                 /\ UNCHANGED <<random, index, k, calls>>

TotalWrite(t) == /\ Move(t, "total_write", "while")
                 /\ total_cals' = reg[t] + 1
                 /\ reg' = [reg EXCEPT ![t] = 0] \* dead
                 /\ UNCHANGED <<random, index, k, calls>>

Count(t) == IndexRead(t) \/ IndexWrite(t) \/ TotalRead(t) \/ TotalWrite(t)

Step(t) == \/ While(t)
           \/ \E word \in Words(index + t) : Test(t, word)
           \/ StartCall(t) \/ CallReturns(t)
           \/ Count(t)

(* main has joined every thread. *)
AllDone == \A t \in Tids : At(t, "done")
Joined  == AllDone /\ UNCHANGED vars

Next == Joined \/ \E t \in Tids : Step(t)

Spec == Init /\ [][Next]_vars
FairSpec == Spec /\ \A t \in Tids : WF_vars(Step(t))
-----------------------------------------------------------------------------
Counting == {t \in Tids : bpc[t] \in {"index_read", "index_write",
                                      "total_read", "total_write"}}

(* Updates of total_cals get lost when threads race, but none is made up:   *)
(* total_cals never exceeds the calls made and already counted, whatever    *)
(* stale value a thread writes back.                                        *)
NeverOvercounted == total_cals + Cardinality(Counting) <= calls

(* So nobody leaves the bench before MAX_SIZE calls have returned.          *)
BenchIsLongEnough == (\E t \in Tids : At(t, "done")) => calls >= MAX_SIZE

(* blocking2.cpp:12: total_cals is the "total number of enq's and deq's".   *)
TotalIsCalls == AllDone => total_cals = calls

(* blocking2.cpp:9: _random is the "Pre-generated array of ramdom numbers": *)
(* a thread draws its choice from the array, not from the memory behind it. *)
DrawsFromArray == \A t \in Tids : At(t, "test") => index + t < MAX_SIZE
=============================================================================
