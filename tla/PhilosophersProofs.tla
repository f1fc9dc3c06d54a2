------------------------- MODULE PhilosophersProofs -------------------------
(***************************************************************************)
(* Theorems about Philosophers, for every number of philosophers, portions *)
(* and tickets.                                                            *)
(***************************************************************************)
EXTENDS Philosophers, FiniteSetTheorems, WellFoundedInduction, TLAPS

(* Everything a step needs to know about the others. *)
Inv == TypeOK /\ Held /\ TicketsAccounted

LEMMA LeftPhilos == \A p \in Philos : Left(p) \in Philos /\ Left(p) # p
BY PhilosAssumption DEF Left, Philos

LEMMA LeftInjective == \A p, q \in Philos : Left(p) = Left(q) => p = q
BY PhilosAssumption DEF Left, Philos

LEMMA InsideFinite ==
    /\ IsFiniteSet(Inside) /\ Cardinality(Inside) \in Nat
    /\ IsFiniteSet(Inside') /\ Cardinality(Inside') \in Nat
<1>1. IsFiniteSet(Philos)
  BY PhilosAssumption, FS_Interval DEF Philos
<1>2. Inside \subseteq Philos /\ Inside' \subseteq Philos
  BY DEF Inside
<1> QED BY <1>1, <1>2, FS_Subset, FS_CardinalityType

LEMMA InitInv == Init => Inv
<1> SUFFICES ASSUME Init PROVE Inv
  OBVIOUS
<1>1. TypeOK
  BY FoodAssumption, TicketsAssumption, PhilosAssumption DEF Init, TypeOK, Labels
<1>2. Held
  BY DEF Init, Held, HasRight, HasLeft, At, Philos, Nobody
<1>3. Inside = {}
  BY DEF Init, Inside
<1>4. TicketsAccounted
  BY <1>3, FS_EmptySet, TicketsAssumption DEF Init, TicketsAccounted
<1> QED BY <1>1, <1>2, <1>4 DEF Inv
-----------------------------------------------------------------------------
(* The chopsticks.                                                          *)
LEMMA StepHeld ==
    ASSUME TypeOK, Held, NEW p \in Philos, Step(p)
    PROVE  Held'
<1> USE DEF TypeOK, Held, HasRight, HasLeft, At, Goto, Move
<1>0. Left(p) \in Philos /\ Left(p) # p /\ \A q \in Philos : q # Nobody
  BY LeftPhilos DEF Philos, Nobody
<1>1. CASE FoodLeft(p)
  BY <1>1 DEF FoodLeft
<1>2. CASE GetTicket(p) \/ ReturnTicket(p)
  BY <1>2 DEF GetTicket, ReturnTicket
<1>3. CASE PickRight(p)
  <2>1. /\ chopstick' = [chopstick EXCEPT ![p] = p]
        /\ chopstick[p] = Nobody
        /\ HasRight' = HasRight \cup {p}
        /\ HasLeft' = HasLeft
    BY <1>3 DEF PickRight, PickChop
  <2> HIDE DEF HasRight, HasLeft
  <2>2. \A q \in HasRight' : chopstick'[q] = q
    BY <1>0, <2>1 DEF HasRight
  <2>3. \A q \in HasLeft' : chopstick'[Left(q)] = q
    BY <1>0, <2>1, LeftPhilos DEF HasLeft
  <2>4. ASSUME NEW c \in Philos, chopstick'[c] # Nobody
        PROVE  \/ chopstick'[c] = c /\ c \in HasRight'
               \/ Left(chopstick'[c]) = c /\ chopstick'[c] \in HasLeft'
    BY <1>0, <2>1, <2>4
  <2> QED BY <2>2, <2>3, <2>4
<1>4. CASE PickLeft(p)
  <2>1. /\ chopstick' = [chopstick EXCEPT ![Left(p)] = p]
        /\ chopstick[Left(p)] = Nobody
        /\ HasRight' = HasRight
        /\ HasLeft' = HasLeft \cup {p}
    BY <1>4 DEF PickLeft, PickChop
  <2> HIDE DEF HasRight, HasLeft
  <2>2. \A q \in HasRight' : chopstick'[q] = q
    BY <1>0, <2>1 DEF HasRight
  <2>3. \A q \in HasLeft' : chopstick'[Left(q)] = q
    BY <1>0, <2>1, LeftPhilos, LeftInjective DEF HasLeft
  <2>4. ASSUME NEW c \in Philos, chopstick'[c] # Nobody
        PROVE  \/ chopstick'[c] = c /\ c \in HasRight'
               \/ Left(chopstick'[c]) = c /\ chopstick'[c] \in HasLeft'
    BY <1>0, <2>1, <2>4
  <2> QED BY <2>2, <2>3, <2>4
<1>5. CASE DropLeft(p)
  <2>1. /\ chopstick' = [chopstick EXCEPT ![Left(p)] = Nobody]
        /\ chopstick[Left(p)] = p
        /\ HasRight' = HasRight
        /\ HasLeft' = HasLeft \ {p}
    BY <1>5 DEF DropLeft, DropChop
  <2> HIDE DEF HasRight, HasLeft
  <2>2. \A q \in HasRight' : chopstick'[q] = q
    BY <1>0, <2>1 DEF HasRight
  <2>3. \A q \in HasLeft' : chopstick'[Left(q)] = q
    BY <1>0, <2>1, LeftPhilos, LeftInjective DEF HasLeft
  <2>4. ASSUME NEW c \in Philos, chopstick'[c] # Nobody
        PROVE  \/ chopstick'[c] = c /\ c \in HasRight'
               \/ Left(chopstick'[c]) = c /\ chopstick'[c] \in HasLeft'
    BY <1>0, <2>1, <2>4
  <2> QED BY <2>2, <2>3, <2>4
<1>6. CASE DropRight(p)
  BY <1>0, <1>6, LeftPhilos, LeftInjective DEF DropRight, DropChop
<1> QED BY <1>1, <1>2, <1>3, <1>4, <1>5, <1>6 DEF Step

(* The tickets, and with them the range of phil_sem.                        *)
LEMMA StepTickets ==
    ASSUME TypeOK, TicketsAccounted, NEW p \in Philos, Step(p)
    PROVE  TypeOK' /\ TicketsAccounted'
<1> USE DEF TypeOK, TicketsAccounted, At, Goto, Move, Labels
<1>0. Left(p) \in Philos
  BY LeftPhilos
<1>1. CASE GetTicket(p)
  <2>1. p \notin Inside /\ Inside' = Inside \cup {p}
    BY <1>1 DEF GetTicket, Inside
  <2>2. Cardinality(Inside') = Cardinality(Inside) + 1
    BY <2>1, InsideFinite, FS_AddElement
  <2> QED BY <1>1, <2>2, InsideFinite, TicketsAssumption DEF GetTicket
<1>2. CASE ReturnTicket(p)
  <2>1. p \in Inside /\ Inside' = Inside \ {p}
    BY <1>2 DEF ReturnTicket, Inside
  <2>2. Cardinality(Inside') = Cardinality(Inside) - 1
    BY <2>1, InsideFinite, FS_RemoveElement
  <2> QED BY <1>2, <2>2, InsideFinite, TicketsAssumption DEF ReturnTicket
<1>3. CASE FoodLeft(p) \/ PickRight(p) \/ PickLeft(p) \/ DropLeft(p) \/ DropRight(p)
  <2>1. Inside' = Inside /\ phil_sem' = phil_sem
    BY <1>3 DEF FoodLeft, PickRight, PickLeft, DropLeft, DropRight,
                PickChop, DropChop, Inside
  <2>2. TypeOK'
    BY <1>0, <1>3, FoodAssumption
    DEF FoodLeft, PickRight, PickLeft, DropLeft, DropRight, PickChop, DropChop
  <2> QED BY <2>1, <2>2
<1> QED BY <1>1, <1>2, <1>3 DEF Step

LEMMA StepInv == Inv /\ [Next]_vars => Inv'
<1> SUFFICES ASSUME Inv, [Next]_vars PROVE Inv'
  OBVIOUS
<1>1. ASSUME NEW p \in Philos, Step(p) PROVE Inv'
  BY <1>1, StepHeld, StepTickets DEF Inv
<1>2. CASE UNCHANGED vars
  BY <1>2 DEF vars, Inv, TypeOK, Held, HasRight, HasLeft, At, TicketsAccounted, Inside
<1> QED BY <1>1, <1>2 DEF Next, Joined

THEOREM InvHolds == Spec => []Inv
<1> QED BY InitInv, StepInv, PTL DEF Spec

(* A semaphore value is never negative nor above the initial number of      *)
(* tickets, and a chopstick is held by a philosopher or by nobody.          *)
THEOREM TypeCorrect == Spec => []TypeOK
<1>1. Inv => TypeOK
  BY DEF Inv
<1> QED BY <1>1, InvHolds, PTL

(* phil_sem always says how many tickets are left.                          *)
THEOREM TicketsNeverLost == Spec => []TicketsAccounted
<1>1. Inv => TicketsAccounted
  BY DEF Inv
<1> QED BY <1>1, InvHolds, PTL

(* Two neighbours never eat at the same time, with or without tickets.      *)
THEOREM NeighboursNeverEatTogether == Spec => []NeighboursExclude
<1>1. Inv => NeighboursExclude
  BY LeftPhilos DEF Inv, Held, HasRight, HasLeft, NeighboursExclude, At
<1> QED BY <1>1, InvHolds, PTL
-----------------------------------------------------------------------------
(* The meals.                                                               *)
LEMMA ServedFinite ==
    /\ IsFiniteSet(Served) /\ Cardinality(Served) \in Nat
    /\ IsFiniteSet(Served') /\ Cardinality(Served') \in Nat
<1>1. IsFiniteSet(Philos)
  BY PhilosAssumption, FS_Interval DEF Philos
<1>2. Served \subseteq Philos /\ Served' \subseteq Philos
  BY DEF Served
<1> QED BY <1>1, <1>2, FS_Subset, FS_CardinalityType

LEMMA StepMeals == TypeOK /\ MealsAccounted /\ [Next]_vars => MealsAccounted'
<1> SUFFICES ASSUME TypeOK, MealsAccounted, [Next]_vars PROVE MealsAccounted'
  OBVIOUS
<1> USE DEF TypeOK, MealsAccounted, At, Goto, Move
<1>1. ASSUME Served' = Served, meals' = meals, food' = food PROVE MealsAccounted'
  BY <1>1
<1>2. CASE UNCHANGED vars
  BY <1>1, <1>2 DEF vars, Served
<1>3. ASSUME NEW p \in Philos, FoodLeft(p) PROVE MealsAccounted'
  <2>1. CASE food > 1
    <3>1. p \notin Served /\ Served' = Served \cup {p}
      BY <1>3, <2>1 DEF FoodLeft, Served
    <3>2. Cardinality(Served') = Cardinality(Served) + 1
      BY <3>1, ServedFinite, FS_AddElement
    <3> QED BY <1>3, <2>1, <3>2, ServedFinite, FoodAssumption DEF FoodLeft
  <2>2. CASE ~(food > 1)
    <3>1. Served' = Served
      BY <1>3, <2>2, FoodAssumption DEF FoodLeft, Served
    <3> QED BY <1>3, <2>2, <3>1, ServedFinite, FoodAssumption DEF FoodLeft
  <2> QED BY <2>1, <2>2
<1>4. ASSUME NEW p \in Philos, DropLeft(p) PROVE MealsAccounted'
  <2>1. p \in Served /\ Served' = Served \ {p}
    BY <1>4 DEF DropLeft, Served
  <2>2. Cardinality(Served') = Cardinality(Served) - 1
    BY <2>1, ServedFinite, FS_RemoveElement
  <2> QED BY <1>4, <2>2, ServedFinite DEF DropLeft, DropChop
<1>5. ASSUME NEW p \in Philos,
             \/ GetTicket(p) \/ PickRight(p) \/ PickLeft(p)
             \/ DropRight(p) \/ ReturnTicket(p)
      PROVE  MealsAccounted'
  BY <1>1, <1>5 DEF GetTicket, PickRight, PickLeft, DropRight, ReturnTicket,
                    PickChop, DropChop, Served
<1> QED BY <1>2, <1>3, <1>4, <1>5 DEF Next, Joined, Step

(* However the philosophers interleave, food_left hands out every portion   *)
(* but the last exactly once, and each one is eaten.                        *)
THEOREM MealsAddUp == Spec => []MealsAccounted
<1>1. Init => MealsAccounted
  <2> SUFFICES ASSUME Init PROVE MealsAccounted
    OBVIOUS
  <2>1. Served = {}
    BY DEF Init, Served
  <2> QED BY <2>1, FS_EmptySet, FoodAssumption DEF Init, MealsAccounted
<1> QED BY <1>1, StepMeals, TypeCorrect, PTL DEF Spec
-----------------------------------------------------------------------------
(* The ring.  A set of philosophers that contains the left neighbour of     *)
(* each of its members is empty or contains everybody.                      *)
LEMMA SmallestElement ==
    ASSUME NEW S, S \subseteq Nat, S # {}
    PROVE  \E m \in S : \A k \in S : m <= k
<1> DEFINE R == OpToRel(<, Nat)
<1>1. IsWellFoundedOn(R, Nat)
  BY NatLessThanWellFounded
<1>2. \A a, b \in Nat : a < b => <<a, b>> \in R
  BY DEF OpToRel
<1> HIDE DEF R
<1>3. PICK m \in S : \A k \in S : ~(<<k, m>> \in R)
  BY ONLY WFMin, <1>1, S \subseteq Nat, S # {}
<1>4. ASSUME NEW k \in S PROVE m <= k
  <2>1. m \in Nat /\ k \in Nat
    OBVIOUS
  <2>2. ~(k < m)
    BY ONLY <1>2, <1>3, <2>1, k \in S
  <2> QED BY <2>1, <2>2
<1> QED BY <1>4

LEMMA RingClosed ==
    ASSUME NEW T, T \subseteq Philos, T # {}, \A p \in T : Left(p) \in T
    PROVE  T = Philos
<1>1. PHILOS - 1 \in T
  <2> DEFINE D == {n \in Philos : PHILOS - 1 - n \in T}
  <2>1. D \subseteq Nat /\ D # {}
    <3>1. PICK q \in T : q \in Philos
      OBVIOUS
    <3>2. PHILOS - 1 - (PHILOS - 1 - q) = q /\ PHILOS - 1 - q \in Philos
      BY <3>1, PhilosAssumption DEF Philos
    <3> QED BY <3>2 DEF Philos
  <2>2. PICK n \in D : \A k \in D : n <= k
    BY <2>1, SmallestElement
  <2>3. n \in Philos /\ PHILOS - 1 - n \in T
    OBVIOUS
  <2>4. CASE n = 0
    BY <2>3, <2>4, PhilosAssumption
  <2>5. CASE n # 0
    <3>1. Left(PHILOS - 1 - n) = PHILOS - 1 - (n - 1) /\ n - 1 \in Philos
      BY <2>3, <2>5, PhilosAssumption DEF Left, Philos
    <3>2. n - 1 \in D
      BY <2>3, <3>1
    <3> QED BY <2>2, <2>3, <3>2 DEF Philos
  <2> QED BY <2>4, <2>5
<1>2. 0 \in T
  <2>1. Left(PHILOS - 1) = 0
    BY PhilosAssumption DEF Left
  <2> QED BY <1>1, <2>1
<1>3. SUFFICES ASSUME Philos \ T # {} PROVE FALSE
  OBVIOUS
<1>4. PICK m \in Philos \ T : \A k \in Philos \ T : m <= k
  <2>1. Philos \ T \subseteq Nat
    BY DEF Philos
  <2> QED BY <1>3, <2>1, SmallestElement
<1>5. m # 0 /\ m - 1 \in Philos /\ m - 1 < m
  BY <1>2, <1>4, PhilosAssumption DEF Philos
<1>6. m - 1 \in T
  BY <1>4, <1>5 DEF Philos
<1>7. Left(m - 1) = m
  BY <1>4, <1>5, PhilosAssumption DEF Left, Philos
<1> QED BY <1>4, <1>6, <1>7

LEMMA PhilosCount == IsFiniteSet(Philos) /\ Cardinality(Philos) = PHILOS
BY PhilosAssumption, FS_Interval DEF Philos

(* If nobody can move, everybody inside holds a right chopstick and waits   *)
(* for the left one, which a neighbour inside holds: then all are inside.   *)
LEMMA InvNoDeadlock == Inv /\ Tickets < PHILOS => NoDeadlock
<1> SUFFICES ASSUME Inv, Tickets < PHILOS, ~AllDone, \A p \in Philos : ~CanMove(p)
             PROVE  FALSE
  BY DEF NoDeadlock
<1> DEFINE T == {p \in Philos : At(p, "pick_left")}
<1>1. \A p \in Philos :
        \/ At(p, "done")
        \/ At(p, "get_ticket") /\ phil_sem = 0
        \/ At(p, "pick_right") /\ chopstick[p] # Nobody
        \/ At(p, "pick_left") /\ chopstick[Left(p)] # Nobody
  BY DEF CanMove, At, Inv, TypeOK, Labels
<1>2. HasLeft = {} /\ HasRight = T
  BY <1>1 DEF HasLeft, HasRight, At
<1>3. \A p \in Philos : ~At(p, "pick_right")
  BY <1>1, <1>2 DEF Inv, Held, At
<1>4. Inside = T
  BY <1>1, <1>3 DEF Inside, At
<1>5. \A p \in T : Left(p) \in T
  BY <1>1, <1>2, LeftPhilos DEF Inv, Held, At
<1>6. T # {}
  <2>1. CASE Inside = {}
    <3>1. phil_sem = Tickets
      BY <2>1, FS_EmptySet DEF Inv, TicketsAccounted, TypeOK
    <3> QED BY <1>1, <1>3, <1>4, <2>1, <3>1, TicketsAssumption,
                PhilosAssumption DEF AllDone, At
  <2> QED BY <2>1, <1>4
<1>7. T = Philos
  BY <1>5, <1>6, RingClosed
<1>8. Cardinality(Inside) = PHILOS
  BY <1>4, <1>7, PhilosCount
<1> QED BY <1>8, PhilosAssumption, TicketsAssumption DEF Inv, TicketsAccounted, TypeOK

(* With fewer tickets than philosophers (PHILOS - 1 in phil_deadlock.c:33)  *)
(* there is always somebody who waits for nobody, until all have left.      *)
THEOREM TicketsPreventDeadlock == Tickets < PHILOS => (Spec => []NoDeadlock)
<1> SUFFICES ASSUME Tickets < PHILOS PROVE Spec => []NoDeadlock
  OBVIOUS
<1>1. Inv => NoDeadlock
  BY InvNoDeadlock
<1> QED BY <1>1, InvHolds, PTL
=============================================================================
