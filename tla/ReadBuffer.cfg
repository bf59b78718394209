CONSTANTS
    t1 = t1
    t2 = t2
    NULL = NULL
    Pool = Pool
    Thread = {t1, t2}
    Main = {t1}
    Types = {"TRANSACTION", "NODE", "DEATH"}
    Sizes = {40, 128}
    Maxima = {1}
    Faulty = TRUE
    MaxItems = 3
SPECIFICATION FairSpec
INVARIANTS
    
    
    PoolBounded
PROPERTIES
    AllRead
