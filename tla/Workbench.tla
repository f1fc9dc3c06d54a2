----------------------------- MODULE Workbench -----------------------------
(* list/stub.c, of which hash/stub.c and queue/stub.c are variants: workers *)
(* that meet at a barrier, put items into a container and take them out     *)
(* again, a master that waits for them and adds up, and the main thread     *)
(* that creates and joins them all.  The container does each call at one    *)
(* instant: so do the containers of the collection for the callers that     *)
(* respect the conditions of the runs over them.                            *)
EXTENDS WorkbenchState

CONSTANTS Fifo,          \* the container gives items back in the order they came
          Places,        \* the places of check[]
          Expected(_)    \* the total that is right for so many items

(* What main makes of the value of an option. *)
Option(n, max) == IF max <= n THEN max ELSE n

(* Place 0 of check[] is not used: a bench whose items need one place more  *)
(* than there are writes behind the array, and is not modelled.             *)
Init ==
  /\ \E n \in 1..MAX_THREADS + 1 : thread_num = Option(n, MAX_THREADS)
  /\ \E n \in 1..MAX_ITEMS + 1 : item_num = Option(n, MAX_ITEMS)
  /\ Items < Places
  /\ main = "create_master" /\ created = 0 /\ master = "none"
  /\ worker = [t \in Workers |-> "none"]
  /\ begin_thread_num = 0 /\ end_thread_num = 0
  /\ i = [t \in Workers |-> 0] /\ sum = [t \in Workers |-> 0]
  /\ content = <<>>
  /\ check = [k \in 1..Items |-> 0]
  /\ freed = {}
-----------------------------------------------------------------------------
(* main and workbench.  When a thread cannot be created, stat_data is freed *)
(* and then the process aborts.                                             *)
Main(from, to) == main = from /\ main' = to
Fails ==
  /\ freed' = freed \cup {"stat_data"}
  /\ UNCHANGED <<options, created, master, worker, data, begin_thread_num, end_thread_num>>
CreateMaster ==
  \/ /\ Main("create_master", "create") /\ master' = "lock"
     /\ UNCHANGED <<options, created, worker, data, begin_thread_num, end_thread_num, freed>>
  \/ Main("create_master", "failed") /\ Fails
CreateWorker == created < thread_num /\
  \/ /\ Main("create", "create") /\ created' = created + 1
     /\ worker' = [worker EXCEPT ![created] = "enter"]
     /\ UNCHANGED <<options, master, data, begin_thread_num, end_thread_num, freed>>
  \/ Main("create", "failed") /\ Fails
JoinWorkers ==
  /\ created = thread_num /\ \A t \in 0..thread_num - 1 : worker[t] = "ended"
  /\ Main("create", "join_master")
  /\ UNCHANGED <<options, created, master, worker, data, begin_thread_num, end_thread_num, freed>>
JoinMaster ==
  /\ master \in {"OK", "FAILED"} /\ Main("join_master", "joined")
  /\ UNCHANGED <<options, created, master, worker, data, begin_thread_num, end_thread_num, freed>>
Exit ==
  /\ Main("joined", "exit") /\ freed' = freed \cup {"stat_data"}
  /\ UNCHANGED <<options, created, master, worker, data, begin_thread_num, end_thread_num>>
Abort ==
  /\ Main("failed", "aborted")
  /\ UNCHANGED <<options, created, master, worker, data, begin_thread_num, end_thread_num, freed>>
workbench == CreateMaster \/ CreateWorker \/ JoinWorkers \/ JoinMaster \/ Exit \/ Abort
-----------------------------------------------------------------------------
(* master_thread.  What happens under end_mtx is one step.                  *)
Master(from, to) ==
  /\ Running /\ master \in from /\ master' = to
  /\ UNCHANGED <<options, main, created, worker, data, begin_thread_num, end_thread_num>>
AwaitEndOnce ==   \* mutant: an if in the place of the while
  /\ Master({"lock", "woken"}, IF thread_num = end_thread_num \/ master = "woken" THEN "free" ELSE "waiting")
  /\ UNCHANGED freed
AwaitEnd ==
  /\ Master({"lock", "woken"}, IF thread_num = end_thread_num THEN "free" ELSE "waiting")
  /\ UNCHANGED freed
WakeMaster == Master({"waiting"}, "woken") /\ UNCHANGED freed   \* without a signal
FreeContainer == Master({"free"}, "result") /\ freed' = freed \cup {"container"}
totalOfOthers == FoldFunctionOnSet(+, 0, sum, 1..thread_num - 1)   \* mutant: starts from 1
total == FoldFunctionOnSet(+, 0, sum, 0..thread_num - 1)
Result == Master({"result"}, IF total = Expected(Items) THEN "OK" ELSE "FAILED") /\ UNCHANGED freed
master_thread == AwaitEnd \/ FreeContainer \/ Result
-----------------------------------------------------------------------------
(* worker_thread.  What happens under begin_mtx, or under end_mtx, is one   *)
(* step.  The last worker to enter wakes the others.                        *)
Worker(t, from, to) ==
  /\ Running /\ worker[t] = from /\ worker' = [worker EXCEPT ![t] = to]
  /\ UNCHANGED <<options, main, created, freed>>
EnterLastSignal(t) ==   \* mutant: pthread_cond_signal wakes one worker only
  /\ Running /\ worker[t] = "enter" /\ thread_num # 1 /\ begin_thread_num + 1 = thread_num
  /\ begin_thread_num' = begin_thread_num + 1
  /\ \E u \in Workers : worker[u] = "waiting" /\ worker' = [worker EXCEPT ![t] = "start", ![u] = "woken"]
  /\ UNCHANGED <<options, main, created, master, data, end_thread_num, freed>>
EnterLast(t) ==
  /\ Running /\ worker[t] = "enter" /\ thread_num # 1 /\ begin_thread_num + 1 = thread_num
  /\ begin_thread_num' = begin_thread_num + 1
  /\ worker' = [u \in Workers |-> IF u = t THEN "start" ELSE IF worker[u] = "waiting" THEN "woken" ELSE worker[u]]
  /\ UNCHANGED <<options, main, created, master, data, end_thread_num, freed>>
Enter(t) ==
  /\ thread_num # 1 /\ begin_thread_num + 1 # thread_num
  /\ begin_thread_num' = begin_thread_num + 1
  /\ Worker(t, "enter", IF begin_thread_num + 1 < thread_num THEN "waiting" ELSE "start")
  /\ UNCHANGED <<master, data, end_thread_num>>
EnterAlone(t) ==
  thread_num = 1 /\ Worker(t, "enter", "start") /\ UNCHANGED <<master, data, begin_thread_num, end_thread_num>>
LeaveOnce(t) ==   \* mutant: an if in the place of the while
  Worker(t, "woken", "start") /\ UNCHANGED <<master, data, begin_thread_num, end_thread_num>>
Leave(t) ==
  /\ Worker(t, "woken", IF begin_thread_num < thread_num THEN "waiting" ELSE "start")
  /\ UNCHANGED <<master, data, begin_thread_num, end_thread_num>>
WakeWorker(t) ==   \* without a signal
  Worker(t, "waiting", "woken") /\ UNCHANGED <<master, data, begin_thread_num, end_thread_num>>
Start(t) ==
  /\ Worker(t, "start", "add")
  /\ sum' = [sum EXCEPT ![t] = 0]
  /\ UNCHANGED <<i, content, check, master, begin_thread_num, end_thread_num>>

itemKeyOverlapping(t) == t + i[t] + 1   \* mutant: the workers share keys
itemKey(t) == t * item_num + i[t] + 1
Loop(t) == i' = [i EXCEPT ![t] = (i[t] + 1) % item_num]
Last_round(t) == i[t] + 1 = item_num
add(t) ==
  /\ Worker(t, "add", IF Last_round(t) THEN "delete" ELSE "add")
  /\ content' = Append(content, itemKey(t)) /\ Loop(t)
  /\ UNCHANGED <<sum, check, master, begin_thread_num, end_thread_num>>

(* delete by key, or deq: the place where the item is found.  When there is *)
(* none, the worker goes on with whatever getval holds.                     *)
Found(t) == {p \in DOMAIN content : IF Fifo THEN p = 1 ELSE content[p] = itemKey(t)}
delete(t) ==
  /\ \/ \E p \in Found(t) : LET getval == content[p] IN
          /\ Worker(t, "delete", IF Last_round(t) THEN "end" ELSE "delete")
          /\ content' = RemoveAt(content, p) /\ Loop(t)
          /\ sum' = [sum EXCEPT ![t] = @ + getval]
          /\ check' = [check EXCEPT ![getval] = @ + 1]
     \/ Found(t) = {} /\ Worker(t, "delete", "undefined") /\ UNCHANGED data
  /\ UNCHANGED <<master, begin_thread_num, end_thread_num>>
End(t) ==
  /\ Worker(t, "end", "ended")
  /\ end_thread_num' = end_thread_num + 1
  /\ master' = IF master = "waiting" THEN "woken" ELSE master
  /\ UNCHANGED <<data, begin_thread_num>>
worker_thread(t) == \/ EnterLast(t) \/ Enter(t) \/ EnterAlone(t) \/ Leave(t) \/ Start(t)
                    \/ add(t) \/ delete(t) \/ End(t)
-----------------------------------------------------------------------------
Next == \/ workbench \/ master_thread \/ WakeMaster
        \/ \E t \in Workers : worker_thread(t) \/ WakeWorker(t)
        \/ ~Running /\ UNCHANGED vars
Spec == Init /\ [][Next]_vars
Fairness == /\ WF_vars(workbench) /\ WF_vars(master_thread)
            /\ \A t \in Workers : WF_vars(worker_thread(t))

(* At the end the test says OK if the total that the program holds to be    *)
(* right is the sum of the items that have been put in, and FAILED if not.  *)
RightVerdict == main = "exit" => (master = "FAILED" <=> Expected(Items) # SumUpTo(Items))
=============================================================================
