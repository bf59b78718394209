CONSTANTS
    t1 = t1
    t2 = t2
    NULL = NULL
    Task = {t1, t2}
    Names = {"x", "y", "z"}
    MaxContexts = 7
    MayFail <- Early
SPECIFICATION Spec
CHECK_DEADLOCK FALSE
INVARIANTS
    NamesUnique
    NodesServed
    
    
