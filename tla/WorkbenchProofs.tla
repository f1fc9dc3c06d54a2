-------------------------- MODULE WorkbenchProofs --------------------------
(* For any number of threads and items, whatever the container, and with    *)
(* wakeups that nobody asked for: no worker of the bench starts before all  *)
(* have entered the barrier, nothing is used after it has been freed, each  *)
(* item is taken out once, and the master adds them up rightly.             *)
EXTENDS Workbench, FiniteSetTheorems, SequenceTheorems, WellFoundedInduction, TLAPS

Busy == {"start", "add", "delete", "end", "ended", "undefined"}
Entered == {t \in Workers : worker[t] \in {"waiting", "woken"} \cup Busy}
Ended == {t \in Workers : worker[t] = "ended"}

TypeOK ==
  /\ thread_num \in 1..MAX_THREADS
  /\ main \in {"create_master", "create", "join_master", "joined", "exit", "failed", "aborted"}
  /\ created \in 0..thread_num
  /\ master \in {"none", "lock", "waiting", "woken", "free", "result", "OK", "FAILED"}
  /\ worker \in [Workers -> {"none", "enter", "waiting", "woken"} \cup Busy]
  /\ begin_thread_num \in Nat /\ end_thread_num \in Nat
  /\ freed \subseteq {"container", "stat_data"}

(* The two counters say how many workers are in and how many are through.   *)
(* The barrier does not count a worker that is alone.                       *)
Counted ==
  /\ \A t \in Workers : worker[t] = "none" <=> t >= created
  /\ begin_thread_num = IF thread_num = 1 THEN 0 ELSE Cardinality(Entered)
  /\ end_thread_num = Cardinality(Ended)

(* Once one worker is past the barrier all are in. *)
Barrier == \A t \in Workers : worker[t] \in Busy =>
  created = thread_num /\ \A u \in Workers : worker[u] # "enter"

(* Once the master is past its wait all workers are through. *)
Through == created = thread_num /\ \A t \in Workers : worker[t] \in {"none", "ended"}
MasterWaits == master \in {"free", "result", "OK", "FAILED"} => Through
FreedInTime ==
  /\ "container" \in freed => Through
  /\ "stat_data" \in freed => main \in {"failed", "aborted", "exit"}
  /\ main = "create_master" => created = 0
  /\ main \in {"failed", "aborted"} => created < thread_num
  /\ main \in {"join_master", "joined", "exit"} => Through
  /\ main \in {"joined", "exit"} => master \in {"OK", "FAILED"}

Inv == TypeOK /\ Counted /\ Barrier /\ MasterWaits /\ FreedInTime
-----------------------------------------------------------------------------
(* A set of naturals below n has n elements only if it has all of them. *)
LEMMA CountBelow ==
  ASSUME NEW n \in Nat, NEW S \in SUBSET (0..n-1)
  PROVE  /\ IsFiniteSet(S) /\ Cardinality(S) \in 0..n
         /\ Cardinality(S) = n => S = 0..n-1
<1>1. IsFiniteSet(0..n-1) /\ Cardinality(0..n-1) = n
  BY FS_Interval
<1>2. IsFiniteSet(S) /\ Cardinality(S) <= n /\ (Cardinality(S) = n => S = 0..n-1)
  BY <1>1, FS_Subset
<1> QED BY <1>2, FS_CardinalityType

(* The workers that are in, and those that are through, have been created. *)
LEMMA Counts ==
  ASSUME TypeOK, Counted
  PROVE  \A S \in {Entered, Ended} :
           /\ IsFiniteSet(S) /\ Cardinality(S) \in 0..created
           /\ \A t \in S : t < created
           /\ Cardinality(S) = thread_num => created = thread_num /\ \A t \in Workers : t \notin S => worker[t] = "none"
<1> SUFFICES ASSUME NEW S \in {Entered, Ended}
             PROVE  /\ IsFiniteSet(S) /\ Cardinality(S) \in 0..created
                    /\ \A t \in S : t < created
                    /\ Cardinality(S) = thread_num => created = thread_num /\ \A t \in Workers : t \notin S => worker[t] = "none"
  OBVIOUS
<1>1. created \in Nat /\ thread_num \in Nat /\ created <= thread_num /\ Workers \subseteq Nat
  BY MaxAssumption DEF TypeOK, Workers
<1>2. \A t \in S : t \in Workers /\ worker[t] # "none"
  BY DEF Entered, Ended, Busy
<1>3. ASSUME NEW t \in S PROVE t \in 0..created-1
  <2>1. t \in Nat /\ ~(t >= created)
    BY <1>1, <1>2 DEF Counted
  <2> QED BY <1>1, <2>1
<1>4. /\ IsFiniteSet(S) /\ Cardinality(S) \in 0..created
      /\ Cardinality(S) = created => S = 0..created-1
  BY <1>1, <1>3, CountBelow
<1>5. ASSUME Cardinality(S) = thread_num
      PROVE  created = thread_num /\ \A t \in Workers : t \notin S => worker[t] = "none"
  <2>1. created = thread_num /\ S = 0..created-1
    BY <1>1, <1>4, <1>5
  <2> QED BY <1>1, <2>1 DEF Counted
<1> QED BY <1>1, <1>3, <1>4, <1>5

LEMMA InitInv == Init => Inv
<1> SUFFICES ASSUME Init PROVE Inv
  OBVIOUS
<1> USE DEF Init
<1>1. thread_num \in 1..MAX_THREADS
  <2>1. PICK n \in 1..MAX_THREADS + 1 : thread_num = Option(n, MAX_THREADS)
    OBVIOUS
  <2> QED BY <2>1, MaxAssumption DEF Option
<1>2. TypeOK
  BY <1>1 DEF TypeOK
<1>3. Entered = {} /\ Ended = {}
  BY DEF Entered, Ended, Busy
<1>4. Counted
  BY <1>3, FS_EmptySet, MaxAssumption DEF Counted, Workers
<1> QED BY <1>2, <1>4 DEF Inv, Barrier, MasterWaits, FreedInTime, Busy
-----------------------------------------------------------------------------
(* Steps of the main thread and the master, which leave the workers alone. *)
LEMMA OthersKeepInv ==
  ASSUME Inv, workbench \/ master_thread \/ WakeMaster
  PROVE  Inv'
<1> USE DEF Inv, TypeOK
<1>1. CASE CreateWorker /\ main' = "create"
  <2>1. /\ created < thread_num /\ created \in Workers /\ worker[created] = "none"
        /\ worker' = [worker EXCEPT ![created] = "enter"] /\ created' = created + 1
        /\ main = "create"
        /\ UNCHANGED <<options, master, begin_thread_num, end_thread_num, freed>>
    BY <1>1, MaxAssumption DEF CreateWorker, Main, Workers, Counted, Fails
  <2>2. Entered' = Entered /\ Ended' = Ended
    BY <2>1 DEF Entered, Ended, Busy
  <2>3. \A t \in Workers : t \in Nat
    BY MaxAssumption DEF Workers
  <2>4. TypeOK'
    BY <2>1, <1>1 DEF options, Busy
  <2>5. Counted'
    <3>1. \A t \in Workers : worker'[t] = "none" <=> t >= created'
      BY <2>1, <2>3 DEF Counted
    <3> QED BY <2>1, <2>2, <3>1 DEF Counted, options
  <2>6. ~Through /\ \A t \in Workers : worker[t] \notin Busy
    BY <2>1 DEF Through, Barrier
  <2>7. Barrier'
    BY <2>1, <2>6 DEF Barrier, Busy
  <2>8. MasterWaits' /\ FreedInTime'
    BY <1>1, <2>1, <2>6 DEF MasterWaits, FreedInTime
  <2> QED BY <2>4, <2>5, <2>7, <2>8
<1>2. ASSUME UNCHANGED <<options, worker, created, begin_thread_num, end_thread_num>>
      PROVE  Counted' /\ Barrier' /\ (Through' <=> Through)
  <2>1. Entered' = Entered /\ Ended' = Ended
    BY <1>2 DEF Entered, Ended
  <2> QED BY <1>2, <2>1 DEF Counted, Barrier, Through, options
<1>3. CASE CreateMaster
  <2>1. /\ main = "create_master" /\ main' \in {"create", "failed"}
        /\ master' \in {master, "lock"} /\ freed' \subseteq freed \cup {"stat_data"}
        /\ main' = "create" => freed' = freed
        /\ UNCHANGED <<options, created, worker, begin_thread_num, end_thread_num>>
    BY <1>3 DEF CreateMaster, Main, Fails
  <2>2. thread_num' = thread_num /\ created' = created
    BY <2>1 DEF options
  <2>3. created < thread_num
    BY <2>1, MaxAssumption DEF FreedInTime
  <2>4. TypeOK'
    BY <2>1, <2>2
  <2>5. MasterWaits' /\ FreedInTime'
    BY <1>2, <2>1, <2>2, <2>3 DEF MasterWaits, FreedInTime
  <2> QED BY <1>2, <2>1, <2>4, <2>5
<1>4. CASE CreateWorker /\ main' # "create"
  BY <1>2, <1>4 DEF CreateWorker, Main, Fails, options, MasterWaits, FreedInTime
<1>5. CASE JoinWorkers
  <2>1. Through
    BY <1>5, MaxAssumption DEF JoinWorkers, Through, Counted, Workers
  <2> QED BY <1>2, <1>5, <2>1 DEF JoinWorkers, Main, options, MasterWaits, FreedInTime
<1>6. CASE JoinMaster \/ Exit \/ Abort
  BY <1>2, <1>6 DEF JoinMaster, Exit, Abort, Main, options, MasterWaits, FreedInTime
<1>7. CASE AwaitEnd
  <2>1. thread_num = end_thread_num => Through
    BY Counts DEF Counted, Through, Ended
  <2> QED BY <1>2, <1>7, <2>1 DEF AwaitEnd, Master, Running, options, MasterWaits, FreedInTime
<1>8. CASE FreeContainer \/ Result \/ WakeMaster
  BY <1>2, <1>8 DEF FreeContainer, Result, WakeMaster, Master, Running, options, MasterWaits, FreedInTime
<1> QED BY <1>1, <1>3, <1>4, <1>5, <1>6, <1>7, <1>8 DEF workbench, master_thread

(* Steps that take a worker neither over the barrier nor to its end. *)
LEMMA WithinKeepsInv ==
  ASSUME Inv, NEW t \in Workers, NEW l,
         \/ worker[t] \in {"waiting", "woken"} /\ l \in {"waiting", "woken"}
         \/ worker[t] \in Busy \ {"ended"} /\ l \in Busy \ {"ended"},
         worker' = [worker EXCEPT ![t] = l],
         UNCHANGED <<options, main, created, master, begin_thread_num, end_thread_num, freed>>
  PROVE  Inv'
<1> USE DEF Inv, options
<1>1. TypeOK'
  BY DEF TypeOK, Busy
<1>2. \A u \in Workers : worker'[u] = IF u = t THEN l ELSE worker[u]
  BY DEF TypeOK
<1>3. Entered' = Entered /\ Ended' = Ended
  BY <1>2 DEF Entered, Ended, Busy
<1>4. Counted'
  BY <1>2, <1>3 DEF Counted, Busy
<1>5. Barrier'
  BY <1>2 DEF Barrier, Busy
<1>6. ~Through
  BY DEF Through, Busy
<1>7. MasterWaits' /\ FreedInTime'
  BY <1>6 DEF MasterWaits, FreedInTime
<1> QED BY <1>1, <1>4, <1>5, <1>7

(* A worker enters the barrier, and the one that is the last lets all pass. *)
LEMMA EnterKeepsInv ==
  ASSUME Inv, NEW t \in Workers, EnterLast(t) \/ Enter(t) \/ EnterAlone(t)
  PROVE  Inv'
<1> USE DEF Inv, options
<1>1. /\ worker[t] = "enter" /\ t \notin Entered
      /\ worker \in [Workers -> {"none", "enter", "waiting", "woken"} \cup Busy]
      /\ UNCHANGED <<options, main, created, master, end_thread_num, freed>>
  BY DEF EnterLast, Enter, EnterAlone, Worker, Entered, Busy, TypeOK
<1>2. worker'[t] \in {"waiting", "start"}
  BY <1>1 DEF EnterLast, Enter, EnterAlone, Worker
<1>3. \A u \in Workers \ {t} :
        worker[u] = worker'[u] \/ (worker[u] = "waiting" /\ worker'[u] = "woken")
  BY <1>1 DEF EnterLast, Enter, EnterAlone, Worker
<1>4. Entered' = Entered \cup {t} /\ Ended' = Ended
  BY <1>1, <1>2, <1>3 DEF Entered, Ended, Busy
<1>5. worker' \in [Workers -> {"none", "enter", "waiting", "woken"} \cup Busy]
  BY <1>1 DEF EnterLast, Enter, EnterAlone, Worker, Busy
<1>6. thread_num \in Nat /\ created \in 0..thread_num /\ begin_thread_num \in Nat
  BY MaxAssumption DEF TypeOK
<1>7. /\ IsFiniteSet(Entered) /\ Cardinality(Entered) \in Nat
      /\ Cardinality(Entered \cup {t}) = Cardinality(Entered) + 1
  <2>1. IsFiniteSet(Entered) /\ Cardinality(Entered) \in Nat
    BY <1>6, Counts
  <2> QED BY <1>1, <2>1, FS_AddElement
<1>8. TypeOK'
  BY <1>1, <1>5, <1>6 DEF TypeOK, EnterLast, Enter, EnterAlone
<1>9. Counted'
  <2>1. \A u \in Workers : worker'[u] = "none" <=> u >= created'
    BY <1>1, <1>2, <1>3 DEF Counted
  <2>2. begin_thread_num' = IF thread_num' = 1 THEN 0 ELSE Cardinality(Entered')
    BY <1>1, <1>4, <1>7 DEF Counted, EnterLast, Enter, EnterAlone
  <2> QED BY <1>1, <1>4, <2>1, <2>2 DEF Counted
<1>10. \A u \in Workers : worker[u] \notin Busy
  BY <1>1 DEF Barrier
<1>11. \A u \in Entered' : u \in 0..created-1
  <2>1. \A u \in Entered' : u \in Workers /\ worker'[u] # "none"
    BY DEF Entered, Busy
  <2>2. Workers \subseteq Nat
    BY MaxAssumption DEF Workers
  <2>3. ASSUME NEW u \in Entered' PROVE u \in 0..created-1
    <3>1. u \in Nat /\ ~(u >= created)
      BY <1>1, <1>9, <2>1, <2>2 DEF Counted
    <3> QED BY <1>6, <3>1
  <2> QED BY <2>3
<1>12. worker'[t] = "start" => thread_num = Cardinality(Entered')
  <2>1. Cardinality(Entered') \in 0..created
    BY <1>1, <1>6, <1>11, CountBelow
  <2>2. CASE EnterAlone(t)
    BY <1>4, <1>6, <1>7, <2>1, <2>2 DEF EnterAlone
  <2>3. CASE EnterLast(t) \/ Enter(t)
    BY <1>1, <1>4, <1>6, <1>7, <2>1, <2>3 DEF EnterLast, Enter, Worker, Counted
  <2> QED BY <2>2, <2>3
<1>13. Barrier'
  <2> SUFFICES ASSUME NEW v \in Workers, worker'[v] \in Busy
               PROVE  created' = thread_num' /\ \A u \in Workers : worker'[u] # "enter"
    BY DEF Barrier
  <2>1. worker'[t] = "start"
    BY <1>2, <1>3, <1>10 DEF Busy
  <2>2. created = thread_num /\ Entered' = 0..created-1
    <3>1. Cardinality(Entered') \in 0..created /\ (Cardinality(Entered') = created => Entered' = 0..created-1)
      BY <1>6, <1>11, CountBelow
    <3> QED BY <1>6, <1>12, <2>1, <3>1
  <2>3. ASSUME NEW u \in Workers, u \notin Entered' PROVE worker'[u] = "none"
    <3>1. u \in Nat
      BY MaxAssumption DEF Workers
    <3>2. u >= created
      BY <1>6, <2>2, <2>3, <3>1
    <3> QED BY <1>1, <1>9, <3>2 DEF Counted
  <2>4. \A u \in Entered' : worker'[u] # "enter"
    BY DEF Entered, Busy
  <2> QED BY <1>1, <2>2, <2>3, <2>4
<1>14. ~Through
  BY <1>1 DEF Through
<1>15. MasterWaits' /\ FreedInTime'
  BY <1>1, <1>14 DEF MasterWaits, FreedInTime
<1> QED BY <1>8, <1>9, <1>13, <1>15

LEMMA EndKeepsInv ==
  ASSUME Inv, NEW t \in Workers, End(t)
  PROVE  Inv'
<1> USE DEF Inv, options
<1>1. /\ worker[t] = "end" /\ worker' = [worker EXCEPT ![t] = "ended"]
      /\ end_thread_num' = end_thread_num + 1 /\ master' \in {master, "woken"}
      /\ UNCHANGED <<options, main, created, begin_thread_num, freed>>
  BY DEF End, Worker
<1>2. \A u \in Workers : worker'[u] = IF u = t THEN "ended" ELSE worker[u]
  BY <1>1 DEF TypeOK
<1>3. Entered' = Entered /\ Ended' = Ended \cup {t} /\ t \notin Ended
  BY <1>1, <1>2 DEF Entered, Ended, Busy
<1>4. TypeOK'
  BY <1>1 DEF TypeOK, Busy
<1>5. Counted'
  <2>1. IsFiniteSet(Ended)
    BY Counts
  <2>2. Cardinality(Ended') = Cardinality(Ended) + 1
    BY <1>3, <2>1, FS_AddElement
  <2> QED BY <1>1, <1>2, <1>3, <2>2 DEF Counted
<1>6. Barrier'
  BY <1>1, <1>2 DEF Barrier, Busy
<1>7. ~Through
  BY <1>1 DEF Through
<1>8. MasterWaits' /\ FreedInTime'
  BY <1>1, <1>7 DEF MasterWaits, FreedInTime
<1> QED BY <1>4, <1>5, <1>6, <1>8

LEMMA LeaveKeepsInv ==
  ASSUME Inv, NEW t \in Workers, Leave(t)
  PROVE  Inv'
<1> USE DEF Inv, options
<1>1. /\ worker[t] = "woken"
      /\ worker' = [worker EXCEPT ![t] = IF begin_thread_num < thread_num THEN "waiting" ELSE "start"]
      /\ UNCHANGED <<options, main, created, master, begin_thread_num, end_thread_num, freed>>
  BY DEF Leave, Worker
<1>2. CASE begin_thread_num < thread_num
  BY <1>1, <1>2, WithinKeepsInv
<1>3. CASE ~(begin_thread_num < thread_num)
  <2>1. thread_num \in Nat \ {0} /\ created \in 0..thread_num
    BY MaxAssumption DEF TypeOK
  <2>2. Cardinality(Entered) = thread_num
    BY <1>3, <2>1, Counts DEF Counted
  <2>3. created = thread_num /\ \A u \in Workers : worker[u] # "enter"
    BY <2>2, Counts DEF Entered, Busy
  <2>4. \A u \in Workers : worker'[u] = IF u = t THEN "start" ELSE worker[u]
    BY <1>1, <1>3 DEF TypeOK
  <2>5. Entered' = Entered /\ Ended' = Ended
    BY <1>1, <2>4 DEF Entered, Ended, Busy
  <2>6. TypeOK'
    BY <1>1 DEF TypeOK, Busy
  <2>7. Counted'
    BY <1>1, <2>4, <2>5 DEF Counted
  <2>8. Barrier'
    BY <1>1, <2>3, <2>4 DEF Barrier
  <2>9. ~Through
    BY <1>1 DEF Through
  <2>10. MasterWaits' /\ FreedInTime'
    BY <1>1, <2>9 DEF MasterWaits, FreedInTime
  <2> QED BY <2>6, <2>7, <2>8, <2>10
<1> QED BY <1>2, <1>3

LEMMA StepInv == Inv /\ [Next]_vars => Inv'
<1> SUFFICES ASSUME Inv, [Next]_vars PROVE Inv'
  OBVIOUS
<1>1. CASE UNCHANGED vars
  BY <1>1 DEF vars, options, Inv, TypeOK, Counted, Barrier, MasterWaits, FreedInTime, Through, Entered, Ended
<1>2. CASE workbench \/ master_thread \/ WakeMaster
  BY <1>2, OthersKeepInv
<1>3. ASSUME NEW t \in Workers, worker_thread(t) \/ WakeWorker(t)
      PROVE  Inv'
  <2>1. CASE EnterLast(t) \/ Enter(t) \/ EnterAlone(t)
    BY <2>1, EnterKeepsInv
  <2>2. CASE Leave(t)
    BY <2>2, LeaveKeepsInv
  <2>3. CASE Start(t) \/ add(t) \/ delete(t)
    <3>1. \E l \in {"add", "delete", "end", "undefined"} : worker' = [worker EXCEPT ![t] = l]
      BY <2>3 DEF Start, add, delete, Worker
    <3>2. /\ worker[t] \in {"start", "add", "delete"}
          /\ UNCHANGED <<options, main, created, master, begin_thread_num, end_thread_num, freed>>
      BY <2>3 DEF Start, add, delete, Worker
    <3> QED BY <3>1, <3>2, WithinKeepsInv DEF Busy
  <2>4. CASE End(t)
    BY <2>4, EndKeepsInv
  <2>5. CASE WakeWorker(t)
    <3>1. /\ worker[t] = "waiting" /\ worker' = [worker EXCEPT ![t] = "woken"]
          /\ UNCHANGED <<options, main, created, master, begin_thread_num, end_thread_num, freed>>
      BY <2>5 DEF WakeWorker, Worker
    <3> QED BY <3>1, WithinKeepsInv
  <2> QED BY <1>3, <2>1, <2>2, <2>3, <2>4, <2>5 DEF worker_thread
<1> QED BY <1>1, <1>2, <1>3 DEF Next

LEMMA Invariance == Spec => []Inv
<1> QED BY InitInv, StepInv, PTL DEF Spec
-----------------------------------------------------------------------------
(* No worker touches the container before all of them have entered the      *)
(* barrier of worker_thread (list/stub.c), whoever is woken up and when.    *)
THEOREM BarrierHolds == Spec => []NobodyStartsEarly
<1>1. Inv => NobodyStartsEarly
  BY DEF Inv, Barrier, NobodyStartsEarly, Working, Busy
<1> QED BY <1>1, Invariance, PTL

(* The container is freed by the master when the last worker is through     *)
(* with it, and stat_data, also when workbench gives up half-way, when      *)
(* nobody is going to write into it.                                        *)
THEOREM FreedWhenDone == Spec => []NoUseAfterFree
<1>1. Inv => NoUseAfterFree
  <2> SUFFICES ASSUME Inv PROVE NoUseAfterFree
    OBVIOUS
  <2>1. thread_num \in Nat /\ created \in 0..thread_num
    BY MaxAssumption DEF Inv, TypeOK
  <2>2. "container" \in freed => \A t \in Workers : worker[t] \in {"none", "ended"}
    BY DEF Inv, FreedInTime, Through
  <2>3. ASSUME "stat_data" \in freed
        PROVE  /\ \A t \in Workers : worker[t] \notin {"start", "add", "delete", "end"}
               /\ master # "result"
    <3>1. CASE main \in {"failed", "aborted"}
      <4>1. created # thread_num
        BY <2>1, <3>1 DEF Inv, FreedInTime
      <4> QED BY <4>1 DEF Inv, Barrier, MasterWaits, Through, Busy
    <3>2. CASE main = "exit"
      BY <3>2 DEF Inv, FreedInTime, Through
    <3> QED BY <2>3, <3>1, <3>2 DEF Inv, FreedInTime
  <2> QED BY <2>2, <2>3 DEF NoUseAfterFree
<1> QED BY <1>1, Invariance, PTL
-----------------------------------------------------------------------------
(* The keys of the workers: no + 1 to no + item_num, for no the number of    *)
(* the worker times item_num, are all the numbers up to Items, each once.    *)
LEMMA NextWorker ==
  ASSUME NEW n \in Nat \ {0}, NEW t \in Nat, NEW u \in Nat, t < u
  PROVE  t * n + n <= u * n
<1>1. u * n = t * n + (u - t) * n
  OBVIOUS
<1>2. (u - t) * n >= n
  OBVIOUS
<1> QED BY <1>1, <1>2

LEMMA KeysDiffer ==
  ASSUME NEW n \in Nat \ {0}, NEW t \in Nat, NEW u \in Nat,
         NEW j \in 0..n-1, NEW l \in 0..n-1, t * n + j + 1 = u * n + l + 1
  PROVE  t = u /\ j = l
<1>1. t * n \in Nat /\ u * n \in Nat
  OBVIOUS
<1>2. ~(t < u) /\ ~(u < t)
  BY <1>1, NextWorker
<1> QED BY <1>2

LEMMA KeyInRange ==
  ASSUME NEW n \in Nat \ {0}, NEW m \in Nat, NEW t \in 0..m-1, NEW j \in 0..n-1
  PROVE  t * n + j + 1 \in 1..m * n
<1>1. t * n \in Nat /\ m * n \in Nat
  OBVIOUS
<1> QED BY <1>1, NextWorker

LEMMA KeyOfSomebody ==
  ASSUME NEW n \in Nat \ {0}, NEW m \in Nat, NEW k \in 1..m * n
  PROVE  \E t \in 0..m-1, j \in 0..n-1 : k = t * n + j + 1
<1> DEFINE q == (k - 1) \div n
           r == (k - 1) % n
<1>1. m * n \in Nat /\ k - 1 \in Nat
  OBVIOUS
<1>2. k - 1 = n * q + r /\ r \in 0..n-1 /\ q \in Nat
  BY <1>1
<1> HIDE DEF q, r
<1>3. n * q = q * n /\ q * n \in Nat
  BY <1>2
<1>4. q < m
  <2>1. ~(m < q)
    BY <1>1, <1>2, <1>3, NextWorker
  <2>2. m # q
    BY <1>1, <1>2, <1>3
  <2> QED BY <1>2, <2>1, <2>2
<1> QED BY <1>2, <1>3, <1>4

LEMMA RemoveAtProperties ==
  ASSUME NEW S, NEW s \in Seq(S), NEW p \in 1..Len(s)
  PROVE  /\ RemoveAt(s, p) \in Seq(S) /\ Len(RemoveAt(s, p)) = Len(s) - 1
         /\ \A q \in 1..Len(s) - 1 : RemoveAt(s, p)[q] = IF q < p THEN s[q] ELSE s[q + 1]
<1> DEFINE a == SubSeq(s, 1, p - 1)
           b == SubSeq(s, p + 1, Len(s))
<1>1. Len(s) \in Nat /\ p - 1 \in Int /\ p + 1 \in Int
  BY LenProperties
<1>2. /\ a \in Seq(S) /\ Len(a) = p - 1
      /\ \A q \in 1..p-1 : a[q] = s[q]
  <2>1. \A q \in 1..p-1 : s[q] \in S
    BY <1>1, ElementOfSeq
  <2>2. /\ a \in Seq(S) /\ Len(a) = IF 1 <= p - 1 THEN (p - 1) - 1 + 1 ELSE 0
        /\ \A q \in 1..(p - 1) - 1 + 1 : a[q] = s[1 + q - 1]
    BY <1>1, <2>1, SubSeqProperties
  <2> QED BY <1>1, <2>2
<1>3. /\ b \in Seq(S) /\ Len(b) = Len(s) - p
      /\ \A q \in 1..Len(s) - p : b[q] = s[p + q]
  <2>1. \A q \in p+1..Len(s) : s[q] \in S
    BY <1>1, ElementOfSeq
  <2>2. /\ b \in Seq(S) /\ Len(b) = IF p + 1 <= Len(s) THEN Len(s) - (p + 1) + 1 ELSE 0
        /\ \A q \in 1..Len(s) - (p + 1) + 1 : b[q] = s[(p + 1) + q - 1]
    BY <1>1, <2>1, SubSeqProperties
  <2> QED BY <1>1, <2>2
<1> HIDE DEF a, b
<1>4. /\ a \o b \in Seq(S) /\ Len(a \o b) = Len(a) + Len(b)
      /\ \A q \in 1..Len(a) + Len(b) : (a \o b)[q] = IF q <= Len(a) THEN a[q] ELSE b[q - Len(a)]
  BY <1>2, <1>3, ConcatProperties
<1>5. RemoveAt(s, p) = a \o b
  BY DEF RemoveAt, a, b
<1> DEFINE c == a \o b
<1>6. c \in Seq(S) /\ Len(c) = Len(s) - 1
  BY <1>1, <1>2, <1>3, <1>4
<1>7. \A q \in 1..Len(s) - 1 : c[q] = IF q < p THEN s[q] ELSE s[q + 1]
  <2>1. ASSUME NEW q \in 1..Len(s) - 1 PROVE c[q] = IF q <= p - 1 THEN a[q] ELSE b[q - (p - 1)]
    BY <1>1, <1>2, <1>3, <1>4
  <2> HIDE DEF c
  <2>2. ASSUME NEW q \in 1..Len(s) - 1, q < p PROVE c[q] = s[q]
    BY <1>1, <1>2, <2>1, <2>2
  <2>3. ASSUME NEW q \in 1..Len(s) - 1, ~(q < p) PROVE c[q] = s[q + 1]
    <3>1. /\ q - (p - 1) \in 1..Len(s) - p /\ p + (q - (p - 1)) = q + 1 /\ ~(q <= p - 1)
      BY <1>1, <2>3
    <3> QED BY <1>3, <2>1, <3>1
  <2> QED BY <2>2, <2>3
<1> HIDE DEF c
<1>8. RemoveAt(s, p) = c
  BY <1>5 DEF c
<1> QED BY <1>6, <1>7, <1>8
-----------------------------------------------------------------------------
(* The items, as pairs of a worker and a round of its loop: those that have  *)
(* been put in, and those that their worker has put in and not claimed yet.  *)
Rounds == (0..thread_num - 1) \X (0..item_num - 1)
Key(c) == c[1] * item_num + c[2] + 1
PutIn(t, j) == \/ worker[t] = "add" /\ j < i[t]
               \/ worker[t] \in {"delete", "end", "ended"}
Unclaimed(t, j) == \/ worker[t] = "add" /\ j < i[t]
                   \/ worker[t] = "delete" /\ j >= i[t]
Added == {c \in Rounds : PutIn(c[1], c[2])}
Credits == {c \in Rounds : Unclaimed(c[1], c[2])}
KeysOf(C) == {Key(c) : c \in C}
Held == {content[p] : p \in DOMAIN content}

Early == {"none", "enter", "waiting", "woken", "start"}
DataOK ==
  /\ item_num \in 1..MAX_ITEMS
  /\ i \in [Workers -> 0..item_num - 1]
  /\ content \in Seq(1..Items)
  /\ check \in [1..Items -> {0, 1}]
  /\ \A t \in Workers : worker[t] # "undefined" /\ (worker[t] \in Early => i[t] = 0)
(* The container has no item twice. *)
Distinct == \A p, q \in DOMAIN content : content[p] = content[q] => p = q
(* An item that has been put in is in the container, or has been checked.   *)
Checked ==
  /\ Held \subseteq KeysOf(Added)
  /\ \A k \in 1..Items : check[k] = IF k \in KeysOf(Added) \ Held THEN 1 ELSE 0
(* There is an item for everybody who is to take one, in a list or a hash   *)
(* table the very one that he asks for.                                     *)
Credited ==
  /\ Len(content) = Cardinality(Credits)
  /\ ~Fifo => Held = KeysOf(Credits)

ItemInv == DataOK /\ Distinct /\ Checked /\ Credited

LEMMA KeysInRounds ==
  ASSUME TypeOK, DataOK
  PROVE  /\ \A c, d \in Rounds : Key(c) = Key(d) => c = d
         /\ KeysOf(Rounds) = 1..Items
<1>1. thread_num \in Nat /\ item_num \in Nat \ {0}
  BY MaxAssumption DEF TypeOK, DataOK
<1>2. ASSUME NEW c \in Rounds, NEW d \in Rounds, Key(c) = Key(d) PROVE c = d
  <2>1. PICK t \in 0..thread_num-1, j \in 0..item_num-1 : c = <<t, j>>
    BY DEF Rounds
  <2>2. PICK u \in 0..thread_num-1, l \in 0..item_num-1 : d = <<u, l>>
    BY DEF Rounds
  <2>3. t \in Nat /\ u \in Nat /\ t * item_num + j + 1 = u * item_num + l + 1
    BY <1>1, <1>2, <2>1, <2>2 DEF Key
  <2>4. t = u /\ j = l
    BY <1>1, <2>3, KeysDiffer
  <2> QED BY <2>1, <2>2, <2>4
<1>3. ASSUME NEW c \in Rounds PROVE Key(c) \in 1..Items
  <2>1. c[1] \in 0..thread_num-1 /\ c[2] \in 0..item_num-1
    BY DEF Rounds
  <2> QED BY <1>1, <2>1, KeyInRange DEF Key, Items
<1>4. ASSUME NEW k \in 1..Items PROVE \E c \in Rounds : k = Key(c)
  <2>1. PICK t \in 0..thread_num-1, j \in 0..item_num-1 : k = t * item_num + j + 1
    BY <1>1, KeyOfSomebody DEF Items
  <2>2. <<t, j>> \in Rounds
    BY DEF Rounds
  <2>3. k = Key(<<t, j>>)
    BY <2>1 DEF Key
  <2> QED BY <2>2, <2>3
<1> QED BY <1>2, <1>3, <1>4 DEF KeysOf

LEMMA CreditsFinite ==
  ASSUME TypeOK, DataOK
  PROVE  IsFiniteSet(Credits) /\ Cardinality(Credits) \in Nat
<1>1. thread_num \in Nat /\ item_num \in Nat
  BY MaxAssumption DEF TypeOK, DataOK
<1>2. IsFiniteSet(0..thread_num - 1) /\ IsFiniteSet(0..item_num - 1)
  BY <1>1, FS_Interval
<1>3. IsFiniteSet(Rounds)
  BY <1>2, FS_Product DEF Rounds
<1> QED BY <1>3, FS_Subset, FS_CardinalityType DEF Credits

(* The counter of the loop, which starts again when the loop is over.       *)
LEMMA LoopStep ==
  ASSUME DataOK, NEW t \in Workers, Loop(t)
  PROVE  /\ i' = [i EXCEPT ![t] = IF Last_round(t) THEN 0 ELSE i[t] + 1]
         /\ i' \in [Workers -> 0..item_num - 1]
<1>1. item_num \in Nat \ {0} /\ i[t] \in 0..item_num - 1
  BY MaxAssumption DEF DataOK
<1>2. (i[t] + 1) % item_num = IF i[t] + 1 = item_num THEN 0 ELSE i[t] + 1
  <2>1. CASE i[t] + 1 = item_num
    BY <1>1, <2>1
  <2>2. CASE i[t] + 1 < item_num
    BY <1>1, <2>2
  <2> QED BY <1>1, <2>1, <2>2
<1>3. i' = [i EXCEPT ![t] = IF Last_round(t) THEN 0 ELSE i[t] + 1]
  BY <1>2 DEF Loop, Last_round
<1>4. (IF Last_round(t) THEN 0 ELSE i[t] + 1) \in 0..item_num - 1
  BY <1>1 DEF Last_round
<1> QED BY <1>3, <1>4 DEF DataOK

(* Steps that neither put an item in nor take one out. *)
LEMMA ItemsUntouched ==
  ASSUME TypeOK, ItemInv, UNCHANGED <<options, i, content, check>>,
         \A t \in Workers : \/ worker'[t] = worker[t]
                            \/ worker[t] \in Early /\ worker'[t] \in Early \cup {"add"}
                            \/ worker[t] = "end" /\ worker'[t] = "ended"
  PROVE  ItemInv'
<1> USE DEF ItemInv, options
<1>1. Rounds' = Rounds /\ Items' = Items /\ \A c \in Rounds : Key(c)' = Key(c)
  BY DEF Rounds, Items, Key
<1>2. \A c \in Rounds : c[1] \in Workers /\ c[2] \in Nat
  BY MaxAssumption DEF Rounds, Workers, TypeOK, DataOK
<1>3. \A t \in Workers, j \in Nat : /\ PutIn(t, j)' <=> PutIn(t, j)
                                    /\ Unclaimed(t, j)' <=> Unclaimed(t, j)
  BY DEF PutIn, Unclaimed, DataOK, Early
<1>4. Added' = Added /\ Credits' = Credits
  BY <1>1, <1>2, <1>3 DEF Added, Credits
<1>5. KeysOf(Added)' = KeysOf(Added) /\ KeysOf(Credits)' = KeysOf(Credits) /\ Held' = Held
  <2>1. Added \subseteq Rounds /\ Credits \subseteq Rounds
    BY DEF Added, Credits
  <2> QED BY <1>1, <1>4, <2>1 DEF KeysOf, Held
<1>6. DataOK'
  BY <1>1 DEF DataOK, Early
<1> QED BY <1>1, <1>4, <1>5, <1>6 DEF Distinct, Checked, Credited

(* The round that worker t is in. *)
Now(t) == <<t, i[t]>>

LEMMA InRound ==
  ASSUME Inv, DataOK, NEW t \in Workers, worker[t] # "none"
  PROVE  Now(t) \in Rounds /\ Key(Now(t)) = itemKey(t)
<1>1. t \in Nat /\ created <= thread_num /\ created \in Nat /\ thread_num \in Nat
  BY MaxAssumption DEF Inv, TypeOK, Workers
<1>2. t \in 0..thread_num - 1
  BY <1>1 DEF Inv, Counted
<1> QED BY <1>2 DEF Now, Rounds, Key, itemKey, DataOK

LEMMA AddKeepsItems ==
  ASSUME Inv, ItemInv, NEW t \in Workers, add(t)
  PROVE  ItemInv'
<1> USE DEF ItemInv, options
<1> DEFINE k == itemKey(t)
<1>1. /\ worker[t] = "add" /\ worker' = [worker EXCEPT ![t] = IF Last_round(t) THEN "delete" ELSE "add"]
      /\ content' = Append(content, k) /\ Loop(t)
      /\ thread_num' = thread_num /\ item_num' = item_num /\ check' = check
  BY DEF add, Worker
<1>2. TypeOK /\ worker \in [Workers -> {"none", "enter", "waiting", "woken"} \cup Busy]
  BY DEF Inv, TypeOK
<1>3. /\ i' = [i EXCEPT ![t] = IF Last_round(t) THEN 0 ELSE i[t] + 1]
      /\ i' \in [Workers -> 0..item_num - 1]
  BY <1>1, LoopStep
<1>4. Now(t) \in Rounds /\ Key(Now(t)) = k
  BY <1>1, InRound
<1>5. Rounds' = Rounds /\ Items' = Items /\ \A c \in Rounds : Key(c)' = Key(c)
  BY <1>1 DEF Rounds, Items, Key
<1>6. item_num \in Nat \ {0} /\ i[t] \in 0..item_num - 1
  BY MaxAssumption DEF DataOK
<1>7. ASSUME NEW u \in Workers, NEW j \in 0..item_num - 1
      PROVE  /\ PutIn(u, j)' <=> (PutIn(u, j) \/ (u = t /\ j = i[t]))
             /\ Unclaimed(u, j)' <=> (Unclaimed(u, j) \/ (u = t /\ j = i[t]))
             /\ ~PutIn(t, i[t]) /\ ~Unclaimed(t, i[t])
  <2>1. CASE u # t
    BY <1>1, <1>2, <1>3, <1>6, <2>1 DEF PutIn, Unclaimed, DataOK
  <2>2. CASE u = t
    BY <1>1, <1>2, <1>3, <1>6, <2>2 DEF PutIn, Unclaimed, Last_round, DataOK
  <2> QED BY <2>1, <2>2
<1>8. \A c \in Rounds : c = <<c[1], c[2]>> /\ c[1] \in Workers /\ c[2] \in 0..item_num - 1
  BY MaxAssumption DEF Rounds, Workers, TypeOK, Inv
<1>9. /\ Added' = Added \cup {Now(t)} /\ Now(t) \notin Added
      /\ Credits' = Credits \cup {Now(t)} /\ Now(t) \notin Credits
  BY <1>4, <1>5, <1>6, <1>7, <1>8 DEF Added, Credits, Now
<1>10. Added \subseteq Rounds /\ Credits \subseteq Rounds
  BY DEF Added, Credits
<1>11. KeysOf(Added)' = KeysOf(Added) \cup {k} /\ KeysOf(Credits)' = KeysOf(Credits) \cup {k}
  BY <1>4, <1>5, <1>9, <1>10 DEF KeysOf
<1>12. k \in 1..Items /\ k \notin KeysOf(Added)
  BY <1>2, <1>4, <1>9, <1>10, KeysInRounds DEF KeysOf
<1> HIDE DEF k
<1>13. /\ content' \in Seq(1..Items) /\ Len(content') = Len(content) + 1 /\ Len(content) \in Nat
       /\ \A p \in 1..Len(content) : content'[p] = content[p]
       /\ content'[Len(content) + 1] = k
       /\ DOMAIN content = 1..Len(content) /\ DOMAIN content' = 1..Len(content')
  BY <1>1, <1>12, AppendProperties, LenProperties DEF DataOK
<1>14. Held' = Held \cup {k} /\ k \notin Held
  BY <1>12, <1>13 DEF Held, Checked
<1>15. DataOK'
  BY <1>1, <1>2, <1>3, <1>5, <1>13 DEF DataOK, Early
<1>16. Distinct'
  BY <1>13, <1>14 DEF Distinct, Held
<1>17. Checked'
  <2>1. Held' \subseteq KeysOf(Added)'
    BY <1>11, <1>14 DEF Checked
  <2>2. ASSUME NEW l \in 1..Items
        PROVE  l \in KeysOf(Added)' \ Held' <=> l \in KeysOf(Added) \ Held
    BY <1>11, <1>12, <1>14
  <2> QED BY <1>1, <1>5, <2>1, <2>2 DEF Checked
<1>18. Credited'
  <2>1. Cardinality(Credits') = Cardinality(Credits) + 1
    BY <1>2, <1>9, CreditsFinite, FS_AddElement
  <2> QED BY <1>11, <1>13, <1>14, <2>1 DEF Credited
<1> QED BY <1>15, <1>16, <1>17, <1>18

LEMMA DeleteKeepsItems ==
  ASSUME Inv, ItemInv, NEW t \in Workers, delete(t)
  PROVE  ItemInv'
<1> USE DEF ItemInv, options
<1>1. worker[t] = "delete"
  BY DEF delete, Worker
<1>2. TypeOK /\ worker \in [Workers -> {"none", "enter", "waiting", "woken"} \cup Busy]
  BY DEF Inv, TypeOK
<1>3. Now(t) \in Rounds /\ Key(Now(t)) = itemKey(t)
  BY <1>1, InRound
<1>4. Now(t) \in Credits
  BY <1>1, <1>3 DEF Credits, Now, Unclaimed, DataOK
<1>5. Len(content) \in Nat /\ DOMAIN content = 1..Len(content)
  BY LenProperties DEF DataOK
<1>6. IsFiniteSet(Credits) /\ Cardinality(Credits) \in Nat /\ Cardinality(Credits) # 0
  BY <1>2, <1>4, CreditsFinite, FS_EmptySet
<1>7. Found(t) # {}
  <2>1. CASE Fifo
    BY <1>5, <1>6, <2>1 DEF Found, Credited
  <2>2. CASE ~Fifo
    <3>1. itemKey(t) \in Held
      BY <1>3, <1>4, <2>2 DEF Credited, KeysOf
    <3> QED BY <2>2, <3>1 DEF Found, Held
  <2> QED BY <2>1, <2>2
<1>8. PICK p \in Found(t) :
        /\ worker' = [worker EXCEPT ![t] = IF Last_round(t) THEN "end" ELSE "delete"]
        /\ content' = RemoveAt(content, p) /\ Loop(t)
        /\ check' = [check EXCEPT ![content[p]] = @ + 1]
        /\ thread_num' = thread_num /\ item_num' = item_num
  BY <1>7 DEF delete, Worker
<1>9. p \in 1..Len(content) /\ (~Fifo => content[p] = itemKey(t))
  BY <1>5 DEF Found
<1>10. /\ i' = [i EXCEPT ![t] = IF Last_round(t) THEN 0 ELSE i[t] + 1]
       /\ i' \in [Workers -> 0..item_num - 1]
  BY <1>8, LoopStep
<1>11. Rounds' = Rounds /\ Items' = Items /\ \A c \in Rounds : Key(c)' = Key(c)
  BY <1>8 DEF Rounds, Items, Key
<1>12. item_num \in Nat \ {0} /\ i[t] \in 0..item_num - 1
  BY MaxAssumption DEF DataOK
<1>13. ASSUME NEW u \in Workers, NEW j \in 0..item_num - 1
       PROVE  /\ PutIn(u, j)' <=> PutIn(u, j)
              /\ Unclaimed(u, j)' <=> (Unclaimed(u, j) /\ ~(u = t /\ j = i[t]))
  <2>1. CASE u # t
    BY <1>2, <1>8, <1>10, <1>12, <2>1 DEF PutIn, Unclaimed, DataOK
  <2>2. CASE u = t
    BY <1>1, <1>2, <1>8, <1>10, <1>12, <2>2 DEF PutIn, Unclaimed, Last_round, DataOK
  <2> QED BY <2>1, <2>2
<1>14. \A c \in Rounds : c = <<c[1], c[2]>> /\ c[1] \in Workers /\ c[2] \in 0..item_num - 1
  BY MaxAssumption DEF Rounds, Workers, TypeOK, Inv
<1>15. Added' = Added /\ Credits' = Credits \ {Now(t)}
  BY <1>3, <1>11, <1>13, <1>14 DEF Added, Credits, Now
<1>16. Added \subseteq Rounds /\ Credits \subseteq Rounds
  BY DEF Added, Credits
<1>17. KeysOf(Added)' = KeysOf(Added) /\ KeysOf(Credits)' = KeysOf(Credits) \ {itemKey(t)}
  <2>1. \A c \in Credits : c # Now(t) => Key(c) # itemKey(t)
    BY <1>2, <1>3, <1>16, KeysInRounds
  <2> QED BY <1>3, <1>11, <1>15, <1>16, <2>1 DEF KeysOf
<1>18. /\ content' \in Seq(1..Items) /\ Len(content') = Len(content) - 1
       /\ \A q \in 1..Len(content) - 1 : content'[q] = IF q < p THEN content[q] ELSE content[q + 1]
       /\ DOMAIN content' = 1..Len(content')
  BY <1>8, <1>9, RemoveAtProperties, LenProperties DEF DataOK
<1>19. content[p] \in 1..Items /\ content[p] \in Held /\ content[p] \in KeysOf(Added)
  <2>1. content[p] \in 1..Items
    BY <1>9, ElementOfSeq DEF DataOK
  <2>2. content[p] \in Held
    BY <1>5, <1>9 DEF Held
  <2> QED BY <2>1, <2>2 DEF Checked
<1>20. Held' = Held \ {content[p]}
  <2>1. ASSUME NEW q \in DOMAIN content'
        PROVE  content'[q] \in Held \ {content[p]}
    <3>1. CASE q < p
      <4>1. q \in DOMAIN content /\ q # p /\ content'[q] = content[q]
        BY <1>5, <1>9, <1>18, <3>1
      <4> QED BY <1>5, <1>9, <4>1 DEF Held, Distinct
    <3>2. CASE ~(q < p)
      <4>1. q + 1 \in DOMAIN content /\ q + 1 # p /\ content'[q] = content[q + 1]
        BY <1>5, <1>9, <1>18, <3>2
      <4> QED BY <1>5, <1>9, <4>1 DEF Held, Distinct
    <3> QED BY <3>1, <3>2
  <2>2. ASSUME NEW q \in DOMAIN content, content[q] # content[p]
        PROVE  \E r \in DOMAIN content' : content'[r] = content[q]
    <3>1. CASE q < p
      BY <1>5, <1>9, <1>18, <3>1
    <3>2. CASE p < q
      <4>1. q - 1 \in DOMAIN content' /\ content'[q - 1] = content[(q - 1) + 1]
        BY <1>5, <1>9, <1>18, <3>2
      <4>2. (q - 1) + 1 = q
        BY <1>5
      <4> QED BY <4>1, <4>2
    <3> QED BY <1>5, <1>9, <2>2, <3>1, <3>2
  <2> QED BY <2>1, <2>2 DEF Held
<1>21. DataOK'
  <2>1. check[content[p]] = 0
    BY <1>19 DEF Checked
  <2>2. check' \in [1..Items -> {0, 1}]
    BY <1>8, <1>19, <2>1 DEF DataOK
  <2> QED BY <1>2, <1>8, <1>10, <1>11, <1>18, <2>2 DEF DataOK, Early
<1>22. Distinct'
  <2> SUFFICES ASSUME NEW q \in DOMAIN content', NEW r \in DOMAIN content', content'[q] = content'[r]
               PROVE  q = r
    BY DEF Distinct
  <2>1. q \in 1..Len(content) - 1 /\ r \in 1..Len(content) - 1
    BY <1>5, <1>18
  <2> DEFINE Old(x) == IF x < p THEN x ELSE x + 1
  <2>2. Old(q) \in DOMAIN content /\ Old(r) \in DOMAIN content
    BY <1>5, <1>9, <2>1
  <2>3. content[Old(q)] = content[Old(r)]
    BY <1>18, <2>1
  <2>4. Old(q) = Old(r)
    BY <2>2, <2>3 DEF Distinct
  <2> QED BY <1>9, <2>1, <2>4
<1>23. Checked'
  <2>1. check[content[p]] = 0
    BY <1>19 DEF Checked
  <2> QED BY <1>8, <1>11, <1>17, <1>19, <1>20, <2>1 DEF Checked, DataOK
<1>24. Credited'
  <2>1. Cardinality(Credits') = Cardinality(Credits) - 1
    BY <1>4, <1>6, <1>15, FS_RemoveElement
  <2> QED BY <1>9, <1>17, <1>18, <1>20, <2>1 DEF Credited
<1> QED BY <1>21, <1>22, <1>23, <1>24

LEMMA InitItems == Init => ItemInv
<1> SUFFICES ASSUME Init PROVE ItemInv
  OBVIOUS
<1> USE DEF Init
<1>1. item_num \in 1..MAX_ITEMS
  <2>1. PICK n \in 1..MAX_ITEMS + 1 : item_num = Option(n, MAX_ITEMS)
    OBVIOUS
  <2> QED BY <2>1, MaxAssumption DEF Option
<1>2. \A t \in Workers : worker[t] = "none" /\ i[t] = 0
  OBVIOUS
<1>3. DataOK
  <2>1. i \in [Workers -> 0..item_num - 1]
    BY <1>1, MaxAssumption
  <2> QED BY <1>1, <1>2, <2>1, EmptySeq DEF DataOK
<1>4. \A c \in Rounds : c[1] \in Workers
  BY InitInv, MaxAssumption DEF Inv, TypeOK, Rounds, Workers
<1>5. Added = {} /\ Credits = {}
  BY <1>2, <1>4 DEF Added, Credits, PutIn, Unclaimed
<1>6. KeysOf(Added) = {} /\ KeysOf(Credits) = {} /\ Held = {} /\ Len(content) = 0
  BY <1>5, EmptySeq DEF KeysOf, Held
<1>7. Distinct /\ Checked /\ Credited
  BY <1>5, <1>6, FS_EmptySet DEF Distinct, Checked, Credited
<1> QED BY <1>3, <1>7 DEF ItemInv

LEMMA StepItems == Inv /\ ItemInv /\ [Next]_vars => ItemInv'
<1> SUFFICES ASSUME Inv, ItemInv, [Next]_vars PROVE ItemInv'
  OBVIOUS
<1>1. TypeOK
  BY DEF Inv
<1>2. CASE UNCHANGED vars
  BY <1>1, <1>2, ItemsUntouched DEF vars, data
<1>3. CASE workbench
  <2>1. UNCHANGED <<options, data>>
    BY <1>3 DEF workbench, CreateMaster, CreateWorker, Fails, JoinWorkers, JoinMaster, Exit, Abort
  <2>2. \/ worker' = worker
        \/ created < thread_num /\ worker' = [worker EXCEPT ![created] = "enter"]
    BY <1>3 DEF workbench, CreateMaster, CreateWorker, Fails, JoinWorkers, JoinMaster, Exit, Abort
  <2>3. created < thread_num => created \in Workers /\ worker[created] = "none"
    BY MaxAssumption DEF Inv, TypeOK, Workers, Counted
  <2>4. \A t \in Workers : \/ worker'[t] = worker[t]
                           \/ worker[t] \in Early /\ worker'[t] \in Early \cup {"add"}
    BY <1>1, <2>2, <2>3 DEF TypeOK, Early
  <2> QED BY <1>1, <2>1, <2>4, ItemsUntouched DEF data
<1>4. CASE master_thread \/ WakeMaster
  BY <1>1, <1>4, ItemsUntouched
  DEF master_thread, AwaitEnd, FreeContainer, Result, WakeMaster, Master, data
<1>5. ASSUME NEW t \in Workers, worker_thread(t) \/ WakeWorker(t) PROVE ItemInv'
  <2>1. CASE EnterLast(t)
    <3>1. \A u \in Workers : \/ worker'[u] = worker[u]
                             \/ worker[u] \in Early /\ worker'[u] \in Early \cup {"add"}
      BY <1>1, <2>1 DEF EnterLast, TypeOK, Early
    <3> QED BY <1>1, <2>1, <3>1, ItemsUntouched DEF EnterLast, data
  <2>2. CASE Enter(t) \/ EnterAlone(t) \/ Leave(t) \/ WakeWorker(t) \/ Start(t)
    <3>1. \A u \in Workers : \/ worker'[u] = worker[u]
                             \/ worker[u] \in Early /\ worker'[u] \in Early \cup {"add"}
      BY <1>1, <2>2 DEF Enter, EnterAlone, Leave, WakeWorker, Start, Worker, TypeOK, Early
    <3>2. UNCHANGED <<options, i, content, check>>
      BY <2>2 DEF Enter, EnterAlone, Leave, WakeWorker, Start, Worker, data
    <3> QED BY <1>1, <3>1, <3>2, ItemsUntouched
  <2>3. CASE End(t)
    <3>1. \A u \in Workers : worker'[u] = worker[u] \/ (worker[u] = "end" /\ worker'[u] = "ended")
      BY <1>1, <2>3 DEF End, Worker, TypeOK
    <3> QED BY <1>1, <2>3, <3>1, ItemsUntouched DEF End, Worker, data
  <2>4. CASE add(t)
    BY <2>4, AddKeepsItems
  <2>5. CASE delete(t)
    BY <2>5, DeleteKeepsItems
  <2> QED BY <1>5, <2>1, <2>2, <2>3, <2>4, <2>5 DEF worker_thread
<1> QED BY <1>2, <1>3, <1>4, <1>5 DEF Next

(* When all workers are through every item has been checked off.            *)
LEMMA AllChecked ==
  ASSUME Inv, ItemInv, Through
  PROVE  \A k \in 1..Items : check[k] = 1
<1>1. TypeOK /\ DataOK /\ thread_num \in Nat /\ created = thread_num
  BY MaxAssumption DEF Inv, TypeOK, ItemInv, Through
<1>2. \A c \in Rounds : c[1] \in Workers /\ c[1] < created
  BY <1>1, MaxAssumption DEF Rounds, Workers, TypeOK
<1>3. \A c \in Rounds : worker[c[1]] = "ended"
  BY <1>1, <1>2 DEF Inv, Counted, Workers, Through
<1>4. Added = Rounds /\ Credits = {}
  BY <1>3 DEF Added, Credits, PutIn, Unclaimed
<1>5. Held = {}
  <2>1. Len(content) = 0
    BY <1>4, FS_EmptySet DEF ItemInv, Credited
  <2>2. DOMAIN content = {}
    BY <1>1, <2>1, LenProperties DEF DataOK
  <2> QED BY <2>2 DEF Held
<1>6. KeysOf(Added) = 1..Items
  BY <1>1, <1>4, KeysInRounds
<1> QED BY <1>5, <1>6 DEF ItemInv, Checked

(* For any number of threads and items, in a list or a hash table as in a   *)
(* queue: no delete of a worker fails, and when the program ends each item  *)
(* has been taken out exactly once (check of list/stub.c).                  *)
THEOREM ItemsTakenOnce == Spec => []EachItemOnce
<1>1. Inv /\ ItemInv => EachItemOnce
  <2> SUFFICES ASSUME Inv, ItemInv PROVE EachItemOnce
    OBVIOUS
  <2> USE DEF ItemInv
  <2>1. ASSUME main = "exit", NEW k \in DOMAIN check PROVE check[k] = 1
    <3>1. Through
      BY <2>1 DEF Inv, FreedInTime
    <3>2. k \in 1..Items
      BY DEF DataOK
    <3> QED BY <3>1, <3>2, AllChecked
  <2> QED BY <2>1 DEF EachItemOnce, DataOK
<1>2. Inv /\ ItemInv /\ [Next]_vars => Inv' /\ ItemInv'
  BY StepInv, StepItems
<1> QED BY <1>1, <1>2, InitInv, InitItems, PTL DEF Spec
-----------------------------------------------------------------------------
(* The verdict of the master.  a[k] is the sum of the first k values of f.  *)
Sums(a, n, f) == /\ a \in [0..n -> Nat] /\ a[0] = 0
                 /\ \A k \in 0..n - 1 : f[k] \in Nat /\ a[k + 1] = a[k] + f[k]

LEMMA LeastElement ==
  ASSUME NEW T, T \subseteq Nat, T # {}
  PROVE  \E n \in T : \A m \in T : n <= m
<1> DEFINE R == OpToRel(<, Nat)
<1>1. PICK n \in T : \A m \in T : ~(<<m, n>> \in R)
  <2>1. IsWellFoundedOn(R, Nat)
    BY NatLessThanWellFounded
  <2> HIDE DEF R
  <2> QED BY <2>1, WFMin
<1>2. \A m \in T : ~(m < n)
  BY <1>1 DEF OpToRel
<1> QED BY <1>2

LEMMA UpTo ==
  ASSUME NEW n \in Nat, NEW G, 0 \in G, \A k \in 0..n - 1 : k \in G => k + 1 \in G
  PROVE  \A k \in 0..n : k \in G
<1> DEFINE Bad == {k \in 0..n : k \notin G}
<1>1. SUFFICES ASSUME Bad # {} PROVE FALSE
  OBVIOUS
<1>2. PICK k \in Bad : \A j \in Bad : k <= j
  <2>1. Bad \subseteq Nat
    OBVIOUS
  <2> HIDE DEF Bad
  <2> QED BY <1>1, <2>1, LeastElement
<1>3. k \in 1..n /\ k - 1 \in 0..n - 1
  BY <1>2
<1>4. k - 1 \in G
  BY <1>2, <1>3
<1> QED BY <1>2, <1>3, <1>4

(* A value that grows by d changes the sums from there on.                  *)
Grown(h, f, n, j, d) == \A k \in 0..n - 1 : h[k] = IF k = j THEN f[k] + d ELSE f[k]

LEMMA SumsChange ==
  ASSUME NEW n \in Nat, NEW a, NEW f, Sums(a, n, f), NEW j \in 0..n - 1, NEW d \in Nat,
         NEW h, Grown(h, f, n, j, d)
  PROVE  \E b : Sums(b, n, h) /\ b[n] = a[n] + d
<1> DEFINE b == [k \in 0..n |-> IF k > j THEN a[k] + d ELSE a[k]]
<1>1. b \in [0..n -> Nat] /\ b[0] = 0 /\ b[n] = a[n] + d
  BY DEF Sums
<1>2. ASSUME NEW k \in 0..n - 1 PROVE h[k] \in Nat /\ b[k + 1] = b[k] + h[k]
  <2>1. k \in 0..n /\ k + 1 \in 0..n /\ a[k] \in Nat /\ f[k] \in Nat /\ a[k + 1] = a[k] + f[k]
    BY DEF Sums
  <2>2. h[k] = IF k = j THEN f[k] + d ELSE f[k]
    BY DEF Grown
  <2>3. CASE k = j
    BY <2>1, <2>2, <2>3
  <2>4. CASE k # j
    BY <2>1, <2>2, <2>4
  <2> QED BY <2>3, <2>4
<1> HIDE DEF b
<1> QED BY <1>1, <1>2 DEF Sums

(* g has the sum of the values of f over every set of indices below n.      *)
SetSums(g, n, f) ==
  /\ g \in [SUBSET (0..n - 1) -> Nat] /\ g[{}] = 0
  /\ \A S \in SUBSET (0..n - 1) : \A x \in S : g[S] = f[x] + g[S \ {x}]

LEMMA SetSumsExist ==
  ASSUME NEW n \in Nat, NEW a, NEW f, Sums(a, n, f)
  PROVE  \E g : SetSums(g, n, f) /\ g[0..n - 1] = a[n]
<1> DEFINE G == {m \in Nat : \E g : SetSums(g, m, f) /\ g[0..m - 1] = a[m]}
<1>1. 0 \in G
  <2> DEFINE g == [S \in SUBSET (0..0 - 1) |-> 0]
  <2>1. 0..0 - 1 = {} /\ a[0] = 0
    BY DEF Sums
  <2>2. \A S \in SUBSET (0..0 - 1) : S = {}
    BY <2>1
  <2>3. SetSums(g, 0, f)
    BY <2>2 DEF SetSums
  <2>4. g[0..0 - 1] = a[0]
    BY <2>1
  <2> QED BY <2>3, <2>4
<1>2. ASSUME NEW m \in 0..n - 1, m \in G PROVE m + 1 \in G
  <2>1. PICK g : SetSums(g, m, f) /\ g[0..m - 1] = a[m]
    BY <1>2
  <2>2. PICK p \in Nat : p = m + 1 /\ p - 1 = m /\ m \in Nat /\ p \in 0..n
    OBVIOUS
  <2>3. f[m] \in Nat /\ a[p] = a[m] + f[m]
    BY <2>2 DEF Sums
  <2>4. 0..p - 1 = (0..m - 1) \cup {m} /\ m \notin 0..m - 1
    BY <2>2
  <2> DEFINE k == [S \in SUBSET (0..p - 1) |-> IF m \in S THEN f[m] + g[S \ {m}] ELSE g[S]]
  <2>5. \A S \in SUBSET (0..p - 1) : S \ {m} \in SUBSET (0..m - 1) /\ (m \notin S => S \ {m} = S)
    BY <2>4
  <2>6. k \in [SUBSET (0..p - 1) -> Nat] /\ k[{}] = 0
    <3>1. \A S \in SUBSET (0..p - 1) : g[S \ {m}] \in Nat
      BY <2>1, <2>5 DEF SetSums
    <3>2. ASSUME NEW S \in SUBSET (0..p - 1) PROVE (IF m \in S THEN f[m] + g[S \ {m}] ELSE g[S]) \in Nat
      <4>1. g[S \ {m}] \in Nat /\ (m \notin S => g[S] = g[S \ {m}])
        BY <2>5, <3>1
      <4> QED BY <2>3, <4>1
    <3>3. k \in [SUBSET (0..p - 1) -> Nat]
      BY <3>2
    <3>4. {} \in SUBSET (0..p - 1) /\ m \notin {} /\ g[{}] = 0
      BY <2>1 DEF SetSums
    <3> QED BY <3>3, <3>4
  <2>7. ASSUME NEW S \in SUBSET (0..p - 1), NEW x \in S PROVE k[S] = f[x] + k[S \ {x}]
    <3>1. CASE x = m
      BY <3>1
    <3>2. CASE x # m /\ m \in S
      <4>1. x \in S \ {m} /\ S \ {m} \in SUBSET (0..m - 1) /\ (S \ {m}) \ {x} = (S \ {x}) \ {m}
        BY <2>5, <3>2
      <4>2. g[S \ {m}] = f[x] + g[(S \ {x}) \ {m}] /\ g[(S \ {x}) \ {m}] \in Nat
        <5>1. PICK T \in SUBSET (0..m - 1) : T = S \ {m} /\ x \in T /\ (S \ {x}) \ {m} = T \ {x}
          BY <4>1
        <5>2. g[T] = f[x] + g[T \ {x}]
          BY <2>1, <5>1 DEF SetSums
        <5>3. g[T \ {x}] \in Nat
          BY <2>1 DEF SetSums
        <5> QED BY <5>1, <5>2, <5>3
      <4>3. f[x] \in Nat
        BY <2>2 DEF Sums
      <4>4. k[S] = f[m] + g[S \ {m}] /\ k[S \ {x}] = f[m] + g[(S \ {x}) \ {m}]
        BY <3>2
      <4> QED BY <2>3, <4>2, <4>3, <4>4
    <3>3. CASE m \notin S
      <4>1. S \in SUBSET (0..m - 1)
        BY <2>5, <3>3
      <4>2. g[S] = f[x] + g[S \ {x}]
        BY <2>1, <4>1 DEF SetSums
      <4> QED BY <3>3, <4>2
    <3> QED BY <3>1, <3>2, <3>3
  <2>8. k[0..p - 1] = a[p]
    <3>1. (0..p - 1) \ {m} = 0..m - 1 /\ m \in 0..p - 1
      BY <2>4
    <3>2. a[m] \in Nat
      BY DEF Sums
    <3>3. k[0..p - 1] = f[m] + g[(0..p - 1) \ {m}]
      BY <3>1
    <3>4. k[0..p - 1] = f[m] + a[m]
      BY <2>1, <3>1, <3>3
    <3> HIDE DEF k
    <3> QED BY <2>3, <3>2, <3>4
  <2> HIDE DEF k
  <2>9. SetSums(k, p, f)
    BY <2>6, <2>7 DEF SetSums
  <2> QED BY <2>2, <2>8, <2>9
<1> HIDE DEF G
<1>3. n \in G
  BY <1>1, <1>2, UpTo
<1> QED BY <1>3 DEF G

(* The fold takes the indices in some order and gets the same sum.          *)
LEMMA FoldIsSum ==
  ASSUME NEW n \in Nat, NEW a, NEW f, Sums(a, n, f)
  PROVE  FoldFunctionOnSet(+, 0, f, 0..n - 1) = a[n]
<1> DEFINE D == 0..n - 1
           one(S) == CHOOSE x \in S : TRUE
           Eq(it) == [S \in SUBSET D |-> IF S = {} THEN 0 ELSE f[one(S)] + it[S \ {one(S)}]]
           iter == CHOOSE it : it = Eq(it)
<1>1. FoldFunctionOnSet(+, 0, f, D) = iter[D]
  BY DEF FoldFunctionOnSet, MapThenFoldSet
<1>2. PICK g : SetSums(g, n, f) /\ g[D] = a[n]
  BY SetSumsExist
<1>3. \A S \in SUBSET D : S # {} => one(S) \in S
  OBVIOUS
<1> HIDE DEF one
<1>4. g = Eq(g)
  <2>1. g = [S \in SUBSET D |-> g[S]] /\ g[{}] = 0
    BY <1>2 DEF SetSums
  <2>2. \A S \in SUBSET D : S # {} => g[S] = f[one(S)] + g[S \ {one(S)}]
    BY <1>2, <1>3 DEF SetSums
  <2> QED BY <2>1, <2>2
<1>5. iter = Eq(iter)
  <2> HIDE DEF Eq
  <2> QED BY <1>4
<1> HIDE DEF iter
<1>6. iter[{}] = 0 /\ \A S \in SUBSET D : S # {} => iter[S] = f[one(S)] + iter[S \ {one(S)}]
  BY <1>5
<1>7. IsFiniteSet(D) /\ Cardinality(D) = n
  BY FS_Interval
<1>8. \A S \in SUBSET D : IsFiniteSet(S) /\ Cardinality(S) \in Nat
  BY <1>7, FS_Subset, FS_CardinalityType
<1> DEFINE G == {m \in Nat : \A S \in SUBSET D : Cardinality(S) = m => iter[S] = g[S]}
<1>9. 0 \in G
  <2>1. \A S \in SUBSET D : Cardinality(S) = 0 => S = {}
    BY <1>8, FS_EmptySet
  <2> QED BY <1>2, <1>6, <2>1 DEF SetSums
<1>10. ASSUME NEW m \in 0..n - 1, m \in G PROVE m + 1 \in G
  <2>1. SUFFICES ASSUME NEW S \in SUBSET D, Cardinality(S) = m + 1 PROVE iter[S] = g[S]
    OBVIOUS
  <2>2. S # {}
    BY <2>1, FS_EmptySet
  <2>3. PICK x \in S : x = one(S)
    BY <1>3, <2>2
  <2>4. Cardinality(S \ {x}) = m
    BY <1>8, <2>1, FS_RemoveElement
  <2>5. iter[S \ {x}] = g[S \ {x}]
    BY <1>10, <2>4
  <2>6. g[S] = f[x] + g[S \ {x}]
    BY <1>2 DEF SetSums
  <2> QED BY <1>6, <2>2, <2>3, <2>5, <2>6
<1> HIDE DEF G
<1>11. n \in G
  BY <1>9, <1>10, UpTo
<1>12. iter[D] = g[D]
  BY <1>7, <1>11 DEF G
<1> QED BY <1>1, <1>2, <1>12

(* The sum of the numbers from 1 to n.                                      *)
LEMMA SumOfAll ==
  ASSUME NEW n \in Nat, NEW a, NEW f, Sums(a, n, f), \A k \in 0..n - 1 : f[k] = k + 1
  PROVE  a[n] = SumUpTo(n)
<1> DEFINE G == {k \in Nat : k <= n => 2 * a[k] = k * (k + 1)}
<1>1. 0 \in G
  BY DEF Sums
<1>2. ASSUME NEW k \in 0..n - 1, k \in G PROVE k + 1 \in G
  <2>1. a[k + 1] = a[k] + (k + 1) /\ a[k] \in Nat /\ 2 * a[k] = k * (k + 1)
    BY <1>2 DEF Sums
  <2>2. 2 * a[k + 1] = (k + 1) * ((k + 1) + 1)
    BY <2>1
  <2> QED BY <2>2
<1> HIDE DEF G
<1>3. n \in G
  BY <1>1, <1>2, UpTo
<1>4. 2 * a[n] = n * (n + 1) /\ a[n] \in Nat
  BY <1>3 DEF G, Sums
<1>5. CASE n % 2 = 0
  <2>1. PICK m \in Nat : n = 2 * m /\ n \div 2 = m
    BY <1>5
  <2>2. 2 * a[n] = 2 * (m * (n + 1))
    BY <1>4, <2>1
  <2>3. a[n] = m * (n + 1)
    BY <1>4, <2>2
  <2> QED BY <1>5, <2>1, <2>3 DEF SumUpTo
<1>6. CASE n % 2 # 0
  <2>1. PICK m \in Nat : n + 1 = 2 * m /\ (n + 1) \div 2 = m
    BY <1>6
  <2>2. 2 * a[n] = 2 * (m * n)
    BY <1>4, <2>1
  <2>3. a[n] = m * n
    BY <1>4, <2>2
  <2> QED BY <1>6, <2>1, <2>3 DEF SumUpTo
<1> QED BY <1>5, <1>6
-----------------------------------------------------------------------------
(* What the workers have added up is what has been checked off. *)
Value == [k \in 0..Items - 1 |-> IF check[k + 1] = 1 THEN k + 1 ELSE 0]
Agree == \E a, b : Sums(a, thread_num, sum) /\ Sums(b, Items, Value) /\ a[thread_num] = b[Items]
AddedUp ==
  /\ sum \in [Workers -> Nat] /\ \A t \in Workers : worker[t] \in Early => sum[t] = 0
  /\ Agree
(* The master has compared that with what the program holds to be right.    *)
Judged == master \in {"OK", "FAILED"} => (master = "FAILED" <=> Expected(Items) # SumUpTo(Items))

LEMMA TotalIsRight ==
  ASSUME Inv, ItemInv, AddedUp, Through
  PROVE  total = SumUpTo(Items)
<1>1. PICK a, b : Sums(a, thread_num, sum) /\ Sums(b, Items, Value) /\ a[thread_num] = b[Items]
  BY DEF AddedUp, Agree
<1>2. thread_num \in Nat /\ item_num \in Nat
  BY MaxAssumption DEF Inv, TypeOK, ItemInv, DataOK
<1>3. Items \in Nat
  BY <1>2 DEF Items
<1>4. total = a[thread_num]
  BY <1>1, <1>2, FoldIsSum DEF total
<1>5. ASSUME NEW k \in 0..Items - 1 PROVE Value[k] = k + 1
  <2>1. k + 1 \in 1..Items
    BY <1>3
  <2>2. check[k + 1] = 1
    BY <2>1, AllChecked
  <2> QED BY <2>2 DEF Value
<1>6. b[Items] = SumUpTo(Items)
  BY <1>1, <1>3, <1>5, SumOfAll
<1> QED BY <1>1, <1>4, <1>6

LEMMA InitAddedUp == Init => AddedUp /\ Judged
<1> SUFFICES ASSUME Init PROVE AddedUp /\ Judged
  OBVIOUS
<1>1. Inv /\ ItemInv
  BY InitInv, InitItems
<1>2. thread_num \in 0..MAX_THREADS /\ item_num \in Nat
  BY <1>1, MaxAssumption DEF Inv, TypeOK, ItemInv, DataOK
<1>3. Items \in Nat
  BY <1>2, MaxAssumption DEF Items
<1>4. sum = [t \in Workers |-> 0] /\ check = [k \in 1..Items |-> 0] /\ master = "none"
  BY DEF Init
<1> DEFINE z(n) == [k \in 0..n |-> 0]
<1>5. Sums(z(thread_num), thread_num, sum)
  <2>1. thread_num \in Nat /\ \A k \in 0..thread_num - 1 : k \in Workers
    BY <1>2, MaxAssumption DEF Workers
  <2> QED BY <1>4, <2>1 DEF Sums
<1>6. Sums(z(Items), Items, Value)
  <2>1. ASSUME NEW k \in 0..Items - 1 PROVE Value[k] = 0
    <3>1. k + 1 \in 1..Items
      BY <1>3
    <3> QED BY <1>4, <3>1 DEF Value
  <2> QED BY <1>3, <2>1 DEF Sums
<1>7. z(thread_num)[thread_num] = z(Items)[Items]
  BY <1>2, <1>3, MaxAssumption
<1> HIDE DEF z
<1>8. Agree
  BY <1>5, <1>6, <1>7 DEF Agree
<1> QED BY <1>4, <1>8 DEF AddedUp, Judged

(* Steps that take no item out. *)
LEMMA SumsUntouched ==
  ASSUME AddedUp, UNCHANGED <<options, sum, check>>,
         \A t \in Workers : worker'[t] \in Early => worker[t] \in Early
  PROVE  AddedUp'
<1>1. Value' = Value /\ Items' = Items /\ thread_num' = thread_num /\ sum' = sum
  BY DEF Value, Items, options
<1>2. PICK a, b : Sums(a, thread_num, sum) /\ Sums(b, Items, Value) /\ a[thread_num] = b[Items]
  BY DEF AddedUp, Agree
<1>3. Sums(a, thread_num, sum)' /\ Sums(b, Items, Value)' /\ (a[thread_num] = b[Items])'
  BY <1>1, <1>2 DEF Sums
<1>4. Agree'
  BY <1>3 DEF Agree
<1> QED BY <1>1, <1>4 DEF AddedUp

LEMMA DeleteAddsUp ==
  ASSUME Inv, ItemInv, AddedUp, NEW t \in Workers, delete(t)
  PROVE  AddedUp'
<1>1. worker[t] = "delete" /\ TypeOK /\ DataOK
  BY DEF delete, Worker, Inv, ItemInv
<1>2. thread_num \in Nat /\ item_num \in Nat /\ Items \in Nat
  BY <1>1, MaxAssumption DEF TypeOK, DataOK, Items
<1>3. t \in 0..thread_num - 1
  <2>1. t \in Nat /\ created <= thread_num /\ created \in Nat
    BY <1>1, <1>2, MaxAssumption DEF TypeOK, Workers
  <2> QED BY <1>1, <1>2, <2>1 DEF Inv, Counted
<1>4. Found(t) # {} /\ \A p \in Found(t) : content[p] \in 1..Items /\ check[content[p]] = 0
  <2>1. Found(t) # {}
    <3>1. worker' # [worker EXCEPT ![t] = "undefined"]
      <4>1. ItemInv' /\ worker \in [Workers -> {"none", "enter", "waiting", "woken"} \cup Busy]
        BY <1>1, DeleteKeepsItems DEF TypeOK
      <4> QED BY <4>1 DEF ItemInv, DataOK
    <3> QED BY <3>1 DEF delete, Worker
  <2>2. ASSUME NEW p \in Found(t) PROVE content[p] \in 1..Items /\ check[content[p]] = 0
    <3>1. p \in DOMAIN content /\ DOMAIN content = 1..Len(content)
      BY <1>1, LenProperties DEF Found, DataOK
    <3>2. content[p] \in 1..Items /\ content[p] \in Held
      BY <1>1, <3>1, ElementOfSeq DEF Held, DataOK
    <3> QED BY <3>2 DEF ItemInv, Checked
  <2> QED BY <2>1, <2>2
<1>5. PICK v \in 1..Items : /\ check[v] = 0 /\ sum' = [sum EXCEPT ![t] = @ + v]
                            /\ check' = [check EXCEPT ![v] = @ + 1]
                            /\ worker' = [worker EXCEPT ![t] = IF Last_round(t) THEN "end" ELSE "delete"]
                            /\ thread_num' = thread_num /\ item_num' = item_num
  <2>1. PICK p \in Found(t) :
          /\ sum' = [sum EXCEPT ![t] = @ + content[p]] /\ check' = [check EXCEPT ![content[p]] = @ + 1]
          /\ worker' = [worker EXCEPT ![t] = IF Last_round(t) THEN "end" ELSE "delete"]
          /\ thread_num' = thread_num /\ item_num' = item_num
    BY <1>4 DEF delete, Worker, options
  <2> QED BY <1>4, <2>1
<1>6. PICK a, b : Sums(a, thread_num, sum) /\ Sums(b, Items, Value) /\ a[thread_num] = b[Items]
  BY DEF AddedUp, Agree
<1>7. sum \in [Workers -> Nat] /\ check \in [1..Items -> {0, 1}] /\ v \in Nat
  BY <1>1, <1>2 DEF AddedUp, DataOK
<1>8. sum' \in [Workers -> Nat] /\ \A u \in Workers : sum'[u] = IF u = t THEN sum[u] + v ELSE sum[u]
  BY <1>5, <1>7
<1>9. \A u \in Workers : worker'[u] \in Early => u # t /\ worker[u] \in Early
  BY <1>1, <1>5 DEF TypeOK, Early
<1>10. Items' = Items /\ thread_num' = thread_num
  BY <1>5 DEF Items
<1>11. PICK c : Sums(c, thread_num, sum') /\ c[thread_num] = a[thread_num] + v
  <2>1. \A k \in 0..thread_num - 1 : k \in Workers
    BY <1>1, MaxAssumption DEF TypeOK, Workers
  <2>2. \A k \in 0..thread_num - 1 : sum'[k] = IF k = t THEN sum[k] + v ELSE sum[k]
    BY <1>8, <2>1
  <2>3. PICK h : h = sum'
    OBVIOUS
  <2>4. Grown(h, sum, thread_num, t, v)
    BY <2>2, <2>3 DEF Grown
  <2>5. \E c : Sums(c, thread_num, h) /\ c[thread_num] = a[thread_num] + v
    <3>1. thread_num \in Nat /\ v \in Nat /\ Sums(a, thread_num, sum)
      BY <1>2, <1>6, <1>7
    <3> QED BY ONLY <1>3, <2>4, <3>1, SumsChange
  <2> QED BY <2>3, <2>5
<1>12. PICK j \in 0..Items - 1 : j + 1 = v
  BY <1>2, <1>5
<1>13. ASSUME NEW k \in 0..Items - 1 PROVE Value'[k] = IF k = j THEN Value[k] + v ELSE Value[k]
  <2>1. Value'[k] = IF check'[k + 1] = 1 THEN k + 1 ELSE 0
    BY <1>10 DEF Value
  <2>2. Value[k] = IF check[k + 1] = 1 THEN k + 1 ELSE 0
    BY DEF Value
  <2>3. k + 1 \in 1..Items /\ (k + 1 = v <=> k = j)
    BY <1>2, <1>12
  <2>4. check'[k + 1] = IF k = j THEN 1 ELSE check[k + 1]
    BY <1>5, <1>7, <2>3
  <2>5. k = j => check[k + 1] = 0 /\ k + 1 = v
    BY <1>5, <2>3
  <2> QED BY <1>7, <2>1, <2>2, <2>4, <2>5
<1>14. PICK d : Sums(d, Items, Value') /\ d[Items] = b[Items] + v
  <2>1. PICK h : h = Value'
    OBVIOUS
  <2>2. Grown(h, Value, Items, j, v)
    BY <1>13, <2>1 DEF Grown
  <2>3. \E d : Sums(d, Items, h) /\ d[Items] = b[Items] + v
    <3>1. Items \in Nat /\ v \in Nat /\ Sums(b, Items, Value)
      BY <1>2, <1>6, <1>7
    <3> QED BY ONLY <2>2, <3>1, SumsChange
  <2> QED BY <2>1, <2>3
<1>15. Agree'
  <2>1. Sums(c, thread_num, sum)' /\ Sums(d, Items, Value)'
    BY <1>10, <1>11, <1>14 DEF Sums
  <2>2. (c[thread_num] = d[Items])'
    BY <1>6, <1>10, <1>11, <1>14
  <2> QED BY <2>1, <2>2 DEF Agree
<1> QED BY <1>8, <1>9, <1>15 DEF AddedUp

LEMMA StepAddedUp == Inv /\ ItemInv /\ AddedUp /\ Judged /\ [Next]_vars => AddedUp' /\ Judged'
<1> SUFFICES ASSUME Inv, ItemInv, AddedUp, Judged, [Next]_vars PROVE AddedUp' /\ Judged'
  OBVIOUS
<1>1. TypeOK
  BY DEF Inv
<1>2. ASSUME thread_num' = thread_num, item_num' = item_num, master' = master \/ master' \notin {"OK", "FAILED"}
      PROVE  Judged'
  BY <1>2 DEF Judged, Items
<1>3. CASE UNCHANGED vars
  BY <1>2, <1>3, SumsUntouched DEF vars, data, options
<1>4. CASE workbench
  <2>1. UNCHANGED <<options, data>> /\ (master' = master \/ master' \notin {"OK", "FAILED"})
    BY <1>4 DEF workbench, CreateMaster, CreateWorker, Fails, JoinWorkers, JoinMaster, Exit, Abort
  <2>2. \/ worker' = worker
        \/ created < thread_num /\ worker' = [worker EXCEPT ![created] = "enter"]
    BY <1>4 DEF workbench, CreateMaster, CreateWorker, Fails, JoinWorkers, JoinMaster, Exit, Abort
  <2>3. created < thread_num => created \in Workers /\ worker[created] = "none"
    BY MaxAssumption DEF Inv, TypeOK, Workers, Counted
  <2>4. \A t \in Workers : worker'[t] \in Early => worker[t] \in Early
    BY <1>1, <2>2, <2>3 DEF TypeOK, Early
  <2> QED BY <1>2, <2>1, <2>4, SumsUntouched DEF data, options
<1>5. CASE AwaitEnd \/ FreeContainer \/ WakeMaster
  BY <1>2, <1>5, SumsUntouched DEF AwaitEnd, FreeContainer, WakeMaster, Master, data, options
<1>6. CASE Result
  <2>1. AddedUp'
    BY <1>6, SumsUntouched DEF Result, Master, data, options
  <2>2. Through
    BY <1>6 DEF Result, Master, Inv, MasterWaits
  <2>3. total = SumUpTo(Items)
    BY <2>2, TotalIsRight
  <2>4. master' = IF SumUpTo(Items) = Expected(Items) THEN "OK" ELSE "FAILED"
    BY <1>6, <2>3 DEF Result, Master
  <2>5. Items' = Items
    BY <1>6 DEF Result, Master, options, Items
  <2>6. Judged'
    BY <2>4, <2>5 DEF Judged
  <2> QED BY <2>1, <2>6
<1>7. ASSUME NEW t \in Workers, worker_thread(t) \/ WakeWorker(t) PROVE AddedUp' /\ Judged'
  <2>1. thread_num' = thread_num /\ item_num' = item_num /\ (master' = master \/ master' = "woken")
    BY <1>7 DEF worker_thread, EnterLast, Enter, EnterAlone, Leave, WakeWorker, Start, add, delete, End, Worker,
                options, data
  <2>2. Judged'
    BY <1>2, <2>1
  <2>3. CASE EnterLast(t)
    <3>1. \A u \in Workers : worker'[u] \in Early => worker[u] \in Early
      BY <1>1, <2>3 DEF EnterLast, TypeOK, Early
    <3> QED BY <2>2, <2>3, <3>1, SumsUntouched DEF EnterLast, data
  <2>4. CASE Enter(t) \/ EnterAlone(t) \/ Leave(t) \/ WakeWorker(t) \/ add(t) \/ End(t)
    <3>1. \A u \in Workers : worker'[u] \in Early => worker[u] \in Early
      BY <1>1, <2>4 DEF Enter, EnterAlone, Leave, WakeWorker, add, End, Worker, TypeOK, Early
    <3>2. UNCHANGED <<options, sum, check>>
      BY <2>4 DEF Enter, EnterAlone, Leave, WakeWorker, add, End, Worker, data
    <3> QED BY <2>2, <3>1, <3>2, SumsUntouched
  <2>5. CASE Start(t)
    <3>1. worker[t] = "start" /\ worker' = [worker EXCEPT ![t] = "add"]
      BY <2>5 DEF Start, Worker
    <3>2. sum' = sum
      BY <2>5, <3>1 DEF Start, AddedUp, Early
    <3>3. \A u \in Workers : worker'[u] \in Early => worker[u] \in Early
      BY <1>1, <3>1 DEF TypeOK, Early
    <3> QED BY <2>2, <2>5, <3>2, <3>3, SumsUntouched DEF Start, Worker
  <2>6. CASE delete(t)
    BY <2>2, <2>6, DeleteAddsUp
  <2> QED BY <1>7, <2>3, <2>4, <2>5, <2>6 DEF worker_thread
<1> QED BY <1>3, <1>4, <1>5, <1>6, <1>7 DEF Next, master_thread

(* For any number of threads and items: the sum of what the workers have    *)
(* taken out is the sum of what they have put in, so that master_thread     *)
(* prints FAILED only if the program is wrong about the right total         *)
(* (list/stub.c; the product of hash/stub.c, which may overflow).           *)
THEOREM ItemsAddUp == Spec => []RightVerdict
<1>1. Inv /\ Judged => RightVerdict
  BY DEF Judged, Inv, FreedInTime, RightVerdict
<1>2. Inv /\ ItemInv /\ AddedUp /\ Judged /\ [Next]_vars => Inv' /\ ItemInv' /\ AddedUp' /\ Judged'
  BY StepInv, StepItems, StepAddedUp
<1> QED BY <1>1, <1>2, InitInv, InitItems, InitAddedUp, PTL DEF Spec
=============================================================================
