---------------------------- MODULE Philosophers ----------------------------
(***************************************************************************)
(* The dining philosophers of a1/phil_deadlock.c: a counting semaphore     *)
(* ("tickets") admits a philosopher before it picks its right and then its *)
(* left chopstick.  a1/philos.c and a1/philosopher_1.c are the same program *)
(* without the semaphore; Tickets = PHILOS, a semaphore that never blocks, *)
(* stands for them.                                                        *)
(*                                                                         *)
(* Thinking and eating (printf, usleep, getchar) always end; how long they *)
(* take is left to the interleaving.                                       *)
(***************************************************************************)
EXTENDS Integers, FiniteSets

CONSTANTS PHILOS,  \* philosophers, and chopsticks
          FOOD,    \* the initial value of food
          Tickets  \* the initial value of phil_sem: PHILOS - 1 in the code

ASSUME PhilosAssumption  == PHILOS \in Nat /\ PHILOS >= 2
ASSUME FoodAssumption    == FOOD \in Nat \ {0}
ASSUME TicketsAssumption == Tickets \in 1 .. PHILOS

VARIABLES food,      \* the static variable of food_left
          phil_sem,  \* the value of the semaphore
          chopstick, \* chopstick[c]: the philosopher that holds mutex c
          pc,        \* pc[p]: what philosopher p does next
          meals      \* history: how many meals have been eaten

vars == <<food, phil_sem, chopstick, pc, meals>>

Philos == 0 .. PHILOS - 1
Nobody == -1

(* left_chop = tid+1, wrapping; right_chop = tid *)
Left(p) == IF p + 1 = PHILOS THEN 0 ELSE p + 1

Labels == {"food_left", "get_ticket", "pick_right", "pick_left", "eating",
           "drop_right", "return_ticket", "done"}

TypeOK == /\ food \in 0 .. FOOD
          /\ phil_sem \in 0 .. Tickets
          /\ chopstick \in [Philos -> Philos \cup {Nobody}]
          /\ pc \in [Philos -> Labels]
          /\ meals \in Nat

Init == /\ food = FOOD
        /\ phil_sem = Tickets
        /\ chopstick = [c \in Philos |-> Nobody]
        /\ pc = [p \in Philos |-> "food_left"]
        /\ meals = 0

At(p, label)   == pc[p] = label
Goto(p, label) == pc' = [pc EXCEPT ![p] = label]
Move(p, from, to) == At(p, from) /\ Goto(p, to)
-----------------------------------------------------------------------------
(* mutant: food is taken before it is tested *)
FoodLeftUnchecked(p) == /\ food' = food - 1
                        /\ Move(p, "food_left", IF food' # 0 THEN "get_ticket" ELSE "done")
                        /\ UNCHANGED <<phil_sem, chopstick, meals>>

(* mutant: food_left returns what it found, not what it leaves *)
FoodLeftOld(p) == /\ food' = IF food > 0 THEN food - 1 ELSE food
                  /\ Move(p, "food_left", IF food # 0 THEN "get_ticket" ELSE "done")
                  /\ UNCHANGED <<phil_sem, chopstick, meals>>

(* while (f = food_left()).  food is only touched under food_lock, and the  *)
(* holder of food_lock waits for nothing: one step.                         *)
FoodLeft(p) == /\ food' = IF food > 0 THEN food - 1 ELSE food
               /\ Move(p, "food_left", IF food' # 0 THEN "get_ticket" ELSE "done")
               /\ UNCHANGED <<phil_sem, chopstick, meals>>

(* mutant: a philosopher enters without a ticket *)
GetNoTicket(p) == /\ Move(p, "get_ticket", "pick_right")
                  /\ UNCHANGED <<food, phil_sem, chopstick, meals>>

GetTicket(p) == /\ Move(p, "get_ticket", "pick_right")
                /\ phil_sem > 0
                /\ phil_sem' = phil_sem - 1
                /\ UNCHANGED <<food, chopstick, meals>>

PickChop(p, c) == /\ chopstick[c] = Nobody
                  /\ chopstick' = [chopstick EXCEPT ![c] = p]
                  /\ UNCHANGED <<food, phil_sem, meals>>

(* mutant: the left chopstick is tried, not waited for *)
TryLeft(p) == /\ Move(p, "pick_left", "eating")
              /\ chopstick' = [chopstick EXCEPT ![Left(p)] = IF @ = Nobody THEN p ELSE @]
              /\ UNCHANGED <<food, phil_sem, meals>>

PickRight(p) == At(p, "pick_right") /\ PickChop(p, p) /\ Goto(p, "pick_left")
PickLeft(p)  == At(p, "pick_left") /\ PickChop(p, Left(p)) /\ Goto(p, "eating")

DropChop(c) == /\ chopstick' = [chopstick EXCEPT ![c] = Nobody]
               /\ UNCHANGED <<food, phil_sem>>

(* The meal ends when the first chopstick, the left one, is put down. *)
DropLeft(p)  == /\ Move(p, "eating", "drop_right")
                /\ DropChop(Left(p))
                /\ meals' = meals + 1

(* mutant: the right chopstick stays locked *)
KeepRight(p) == /\ Move(p, "drop_right", "return_ticket")
                /\ UNCHANGED <<food, phil_sem, chopstick, meals>>

DropRight(p) == /\ Move(p, "drop_right", "return_ticket")
                /\ DropChop(p)
                /\ UNCHANGED meals

(* mutant: the ticket is kept *)
KeepTicket(p) == /\ Move(p, "return_ticket", "food_left")
                 /\ UNCHANGED <<food, phil_sem, chopstick, meals>>

ReturnTicket(p) == /\ Move(p, "return_ticket", "food_left")
                   /\ phil_sem' = phil_sem + 1
                   /\ UNCHANGED <<food, chopstick, meals>>

Step(p) == \/ FoodLeft(p) \/ GetTicket(p) \/ PickRight(p) \/ PickLeft(p)
           \/ DropLeft(p) \/ DropRight(p) \/ ReturnTicket(p)

(* main has joined every philosopher and returned. *)
AllDone == \A p \in Philos : At(p, "done")
Joined  == AllDone /\ UNCHANGED vars

Next == Joined \/ \E p \in Philos : Step(p)

Spec == Init /\ [][Next]_vars

(* The scheduler lets a philosopher that can move move.  Mutexes and the    *)
(* semaphore are not assumed to be fair to those who wait for them.         *)
FairSpec == Spec /\ \A p \in Philos : WF_vars(Step(p))
-----------------------------------------------------------------------------
Inside == {p \in Philos : pc[p] \in {"pick_right", "pick_left", "eating",
                                     "drop_right", "return_ticket"}}
HasRight == {p \in Philos : pc[p] \in {"pick_left", "eating", "drop_right"}}
HasLeft  == {p \in Philos : At(p, "eating")}

(* Neighbours never eat at the same time. *)
NeighboursExclude ==
    \A p \in Philos : At(p, "eating") => ~At(Left(p), "eating")

(* The semaphore counts: no ticket is lost or made up. *)
TicketsAccounted == phil_sem + Cardinality(Inside) = Tickets

(* Every portion handed out is eaten or about to be eaten, and the portion  *)
(* that food_left takes when it leaves nothing (it returns 0, "stop") is    *)
(* not handed out: FOOD - 1 meals in all.                                   *)
Served == {p \in Philos : pc[p] \in {"get_ticket", "pick_right", "pick_left", "eating"}}
MealsAccounted ==
    meals + Cardinality(Served) = IF food > 0 THEN FOOD - food ELSE FOOD - 1

(* A philosopher that is not waiting for somebody else. *)
CanMove(p) ==
    CASE At(p, "done")       -> FALSE
      [] At(p, "get_ticket") -> phil_sem > 0
      [] At(p, "pick_right") -> chopstick[p] = Nobody
      [] At(p, "pick_left")  -> chopstick[Left(p)] = Nobody
      [] OTHER               -> TRUE

(* The philosophers never all wait for one another.  This is what the       *)
(* tickets are for; without them it is what philos.c:59-61 hopes for: "may  *)
(* be able to eat their dishes and not deadlock".                           *)
NoDeadlock == AllDone \/ \E p \in Philos : CanMove(p)

(* main's joins return: the food runs out and everybody leaves, however     *)
(* unfair the chopsticks and the semaphore are.                             *)
EverybodyLeaves == <>AllDone

(* Who holds a chopstick, and which. *)
Held == /\ \A p \in HasRight : chopstick[p] = p
        /\ \A p \in HasLeft : chopstick[Left(p)] = p
        /\ \A c \in Philos : chopstick[c] # Nobody =>
              \/ chopstick[c] = c /\ c \in HasRight
              \/ Left(chopstick[c]) = c /\ chopstick[c] \in HasLeft
=============================================================================
