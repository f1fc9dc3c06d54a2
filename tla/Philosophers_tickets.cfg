SPECIFICATION FairSpec
CONSTANTS
    PHILOS = 5
    FOOD = 7
    Tickets = 4
INVARIANTS TypeOK NeighboursExclude TicketsAccounted MealsAccounted NoDeadlock
PROPERTY EverybodyLeaves
