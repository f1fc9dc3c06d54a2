--------------------------- MODULE WorkbenchState ---------------------------
(* The state of the test bench of the collection, and what is to hold of    *)
(* it whatever the container is.                                            *)
EXTENDS Integers, Sequences, SequencesExt, FiniteSetsExt

CONSTANTS MAX_THREADS, MAX_ITEMS
ASSUME MaxAssumption == MAX_THREADS \in Nat \ {0} /\ MAX_ITEMS \in Nat \ {0}

VARIABLES thread_num, item_num, main, created, master, worker, i, content,
          begin_thread_num, end_thread_num, sum, check, freed
options == <<thread_num, item_num>>
data == <<i, content, sum, check>>
vars == <<options, main, created, master, worker, data, begin_thread_num, end_thread_num, freed>>

Workers == 0..MAX_THREADS - 1
Items == thread_num * item_num
(* The right total of the benches of the lists and the queues. *)
SumUpTo(n) == IF n % 2 = 0 THEN (n \div 2) * (n + 1) ELSE ((n + 1) \div 2) * n
Running == main \notin {"exit", "aborted"}

(* Nobody touches the container before every worker has entered the         *)
(* barrier, whatever wakes up those who wait there.                         *)
Working == {t \in Workers : worker[t] \in {"start", "add", "delete", "end", "ended"}}
NobodyStartsEarly == Working # {} => created = thread_num /\ \A t \in Workers : worker[t] # "enter"

(* The master frees the container only when the last worker is through with *)
(* it; stat_data is freed when nobody will write his times into it, also    *)
(* when the main thread gives up with workers waiting at the barrier.       *)
NoUseAfterFree ==
  /\ "container" \in freed => \A t \in Workers : worker[t] \in {"none", "ended"}
  /\ "stat_data" \in freed =>
       /\ \A t \in Workers : worker[t] \notin {"start", "add", "delete", "end"}
       /\ master # "result"

(* Every item is taken out exactly once: no delete fails, as every item a   *)
(* worker takes out is preceded by one that it has put in itself, and at    *)
(* the end each one has been taken out by one worker.                       *)
EachItemOnce ==
  /\ \A t \in Workers : worker[t] # "undefined"
  /\ main = "exit" => \A k \in DOMAIN check : check[k] = 1
=============================================================================
