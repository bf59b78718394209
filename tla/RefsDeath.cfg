CONSTANTS
    p1 = p1
    p2 = p2
    p3 = p3
    NULL = NULL
    Proc = {p1, p3}
    Ptr = {0}
    Implements <- TheOwner
    UidOf <- TwoUids
    Objects = {"BINDER", "HANDLE"}
    MaxObjects = 1
    MaxParcels = 1
    Holds = {"strong"}
    MaxHeld = 1
    MaxDeaths = 2
    Posts = {}
    Managers = {p1, p3}
    Closes = {p1, p3}
SPECIFICATION FairSpec
INVARIANTS
    ManagerLives
    DeathTold
    ClearAnswered
PROPERTIES
    
    DeathReaches
CHECK_DEADLOCK FALSE
