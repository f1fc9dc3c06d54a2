SPECIFICATION FairSpec
CONSTANTS
    Incrementers = {t2, t3}
    Watcher = t1
    Nobody = Nobody
    TCOUNT = 10
    COUNT_LIMIT = 12
    Bonus = 125
    SpuriousWakeup = TRUE
INVARIANTS NoLostWakeup FinalCount
PROPERTY EverybodyFinishes
