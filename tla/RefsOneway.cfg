CONSTANTS
    p1 = p1
    p2 = p2
    p3 = p3
    NULL = NULL
    Proc = {p1, p2}
    Ptr = {0}
    Implements <- TheOwner
    UidOf <- SameUid
    Objects = {"BINDER"}
    MaxObjects = 1
    MaxParcels = 2
    Holds = {"strong"}
    MaxHeld = 1
    MaxDeaths = 0
    Posts = {p2}
    Managers = {}
    Closes = {}
SPECIFICATION Spec
INVARIANTS
    OnewayKept
