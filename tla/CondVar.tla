------------------------------ MODULE CondVar ------------------------------
(***************************************************************************)
(* a1/condvar.c: two threads count to TCOUNT each under count_mutex and    *)
(* signal a condition variable when count reaches COUNT_LIMIT; a third one *)
(* waits for that and then adds 125.                                       *)
(***************************************************************************)
EXTENDS Integers, FiniteSets

CONSTANTS Incrementers, \* the threads that run inc_count
          Watcher,      \* the thread that runs watch_count
          Nobody,       \* the owner of a free mutex
          TCOUNT, COUNT_LIMIT, Bonus, \* 10, 12 and 125 in the code
          SpuriousWakeup \* pthread_cond_wait may return without a signal

ASSUME ThreadsAssumption == /\ IsFiniteSet(Incrementers)
                            /\ Watcher \notin Incrementers
                            /\ Nobody \notin Incrementers \cup {Watcher}
ASSUME LimitsAssumption == /\ TCOUNT \in Nat \ {0}
                           /\ COUNT_LIMIT \in Nat \ {0}
                           /\ Bonus \in Nat /\ Bonus >= COUNT_LIMIT
ASSUME SpuriousAssumption == SpuriousWakeup \in BOOLEAN

Threads == Incrementers \cup {Watcher}

VARIABLES count,       \* the shared counter
          count_mutex, \* who holds the mutex
          pc,          \* pc[t]: what thread t does next
          i,           \* i[t]: the iterations thread t has finished
          updates      \* history: how often the watcher has added Bonus

vars == <<count, count_mutex, pc, i, updates>>

IncLabels   == {"lock", "increment", "check", "signal", "unlock", "done"}
WatchLabels == {"lock", "test", "waiting", "woken", "update", "unlock", "done"}

TypeOK == /\ count \in Nat
          /\ count_mutex \in Threads \cup {Nobody}
          /\ pc \in [Threads -> IncLabels \cup WatchLabels]
          /\ \A t \in Incrementers : pc[t] \in IncLabels
          /\ pc[Watcher] \in WatchLabels
          /\ i \in [Incrementers -> 0 .. TCOUNT]
          /\ updates \in Nat

Init == /\ count = 0
        /\ count_mutex = Nobody
        /\ pc = [t \in Threads |-> "lock"]
        /\ i = [t \in Incrementers |-> 0]
        /\ updates = 0

At(t, label)   == pc[t] = label
Goto(t, label) == pc' = [pc EXCEPT ![t] = label]
Move(t, from, to) == At(t, from) /\ Goto(t, to)

Acquire(t) == count_mutex = Nobody /\ count_mutex' = t
-----------------------------------------------------------------------------
(* pthread_mutex_lock, for everybody *)
Lock(t) == /\ Move(t, "lock", IF t = Watcher THEN "test" ELSE "increment")
           /\ Acquire(t)
           /\ UNCHANGED <<count, i, updates>>

Increment(t) == /\ Move(t, "increment", "check")
                /\ count' = count + 1
                /\ UNCHANGED <<count_mutex, i, updates>>

(* mutant: the signal comes one increment early *)
CheckEarly(t) == /\ Move(t, "check", IF count = COUNT_LIMIT - 1 THEN "signal" ELSE "unlock")
                 /\ UNCHANGED <<count, count_mutex, i, updates>>

Check(t) == /\ Move(t, "check", IF count = COUNT_LIMIT THEN "signal" ELSE "unlock")
            /\ UNCHANGED <<count, count_mutex, i, updates>>

(* mutant: nobody is woken *)
SignalNobody(t) == /\ Move(t, "signal", "unlock")
                   /\ UNCHANGED <<count, count_mutex, i, updates>>

(* A signal with nobody waiting is lost. *)
Signal(t) == /\ At(t, "signal")
             /\ pc' = [pc EXCEPT ![t] = "unlock",
                                 ![Watcher] = IF @ = "waiting" THEN "woken" ELSE @]
             /\ UNCHANGED <<count, count_mutex, i, updates>>

(* Unlock, sleep, and the loop over i. *)
IncUnlock(t) == /\ t # Watcher /\ At(t, "unlock")
                /\ count_mutex' = Nobody
                /\ i' = [i EXCEPT ![t] = @ + 1]
                /\ Goto(t, IF i[t] + 1 < TCOUNT THEN "lock" ELSE "done")
                /\ UNCHANGED <<count, updates>>

IncStep(t) == Lock(t) \/ Increment(t) \/ Check(t) \/ Signal(t) \/ IncUnlock(t)
-----------------------------------------------------------------------------
(* mutant: pthread_cond_wait without a test of count *)
WaitUntested == /\ At(Watcher, "test")
                /\ Goto(Watcher, IF updates = 0 THEN "waiting" ELSE "unlock")
                /\ count_mutex' = IF updates = 0 THEN Nobody ELSE count_mutex
                /\ UNCHANGED <<count, i, updates>>

(* while (count < COUNT_LIMIT): pthread_cond_wait gives the mutex up and    *)
(* starts to wait in one step.                                              *)
Test == /\ At(Watcher, "test")
        /\ IF count < COUNT_LIMIT
           THEN Goto(Watcher, "waiting") /\ count_mutex' = Nobody
           ELSE Goto(Watcher, "unlock") /\ UNCHANGED count_mutex
        /\ UNCHANGED <<count, i, updates>>

WakeSpuriously == /\ SpuriousWakeup
                  /\ At(Watcher, "waiting")
                  /\ Goto(Watcher, "woken")
                  /\ UNCHANGED <<count, count_mutex, i, updates>>

(* A woken thread competes for the mutex before pthread_cond_wait returns. *)
Reacquire == /\ At(Watcher, "woken")
             /\ Acquire(Watcher)
             /\ Goto(Watcher, "update")
             /\ UNCHANGED <<count, i, updates>>

(* mutant: the limit is taken for what count is *)
UpdateFromLimit == /\ At(Watcher, "update")
                   /\ count' = COUNT_LIMIT + Bonus
                   /\ updates' = updates + 1
                   /\ Goto(Watcher, "test")
                   /\ UNCHANGED <<count_mutex, i>>

(* count += 125, inside the loop: before count is tested again *)
Update == /\ At(Watcher, "update")
          /\ count' = count + Bonus
          /\ updates' = updates + 1
          /\ Goto(Watcher, "test")
          /\ UNCHANGED <<count_mutex, i>>

WatchUnlock == /\ At(Watcher, "unlock")
               /\ count_mutex' = Nobody
               /\ Goto(Watcher, "done")
               /\ UNCHANGED <<count, i, updates>>

WatchStep == Lock(Watcher) \/ Test \/ Reacquire \/ Update \/ WatchUnlock

(* main joins the three threads, prints count and exits. *)
AllDone == \A t \in Threads : At(t, "done")
Joined  == AllDone /\ UNCHANGED vars

Next == \/ \E t \in Incrementers : IncStep(t)
        \/ WatchStep
        \/ WakeSpuriously
        \/ Joined

Spec == Init /\ [][Next]_vars

(* Threads that can run do; nobody is owed a spurious wakeup.               *)
FairSpec == /\ Spec
            /\ \A t \in Incrementers : WF_vars(IncStep(t))
            /\ WF_vars(WatchStep)
-----------------------------------------------------------------------------
(* The watcher never sleeps through its signal: while it waits, either the  *)
(* limit has not been reached or the thread that reached it is about to     *)
(* signal.  (The comment at condvar.c:65-67 argues the other half, that the *)
(* watcher does not start to wait when the signal is already past.)         *)
NoLostWakeup ==
    At(Watcher, "waiting") =>
        \/ count < COUNT_LIMIT
        \/ count = COUNT_LIMIT /\ \E t \in Incrementers : At(t, "check") \/ At(t, "signal")

(* What main prints: the counted iterations, with the bonus once or not at  *)
(* all (a watcher that comes late skips its loop).                          *)
FinalCount ==
    AllDone => \/ count = Cardinality(Incrementers) * TCOUNT
               \/ count = Cardinality(Incrementers) * TCOUNT + Bonus

(* The three joins of main return, whoever gets the mutex.                  *)
EverybodyFinishes == <>AllDone

(* condvar.c:6-9: 'When "count" reaches a predefined limit, the waiting     *)
(* thread is signaled [...] "awakens" and then modifies count': the watcher *)
(* modifies count only once the limit has been reached.                     *)
UpdatesAfterLimit == At(Watcher, "update") => count >= COUNT_LIMIT
=============================================================================
