CONSTANTS
    t1 = t1
    t2 = t2
    t3 = t3
    p1 = p1
    p2 = p2
    p3 = p3
    NULL = NULL
    Task = {t1, t2, t3}
    pidOf <- Siblings
    Context = {"binder", "hwbinder"}
    MaxOpens = 2
SPECIFICATION Spec
INVARIANTS
    OpenKept
    NoneStranded
    OneMinor
    LookupServed
