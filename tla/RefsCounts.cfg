CONSTANTS
    p1 = p1
    p2 = p2
    p3 = p3
    NULL = NULL
    Proc = {p1, p2, p3}
    Ptr = {0}
    Implements <- TheOwner
    UidOf <- SameUid
    Objects = {"BINDER", "HANDLE", "WEAK_HANDLE", "FD"}
    MaxObjects = 1
    MaxParcels = 2
    Holds = {"strong"}
    MaxHeld = 1
    MaxDeaths = 0
    Posts = {p2}
    Managers = {}
    Closes = {p1, p2}
SPECIFICATION Spec
INVARIANTS
    
    NodeBacked
    NamedExists
    StrongNews
