SPECIFICATION Spec
CONSTANTS
    p1 = p1  p2 = p2  a = a  b = b  c = c  nc = nc  ns = ns  nt = nt
    NULL = NULL
    Proc = {p1, p2}
    Thread = {a, b, c}
    Node = {nc, ns, nt}
    ProcOf <- TwoServers
    OwnerOf <- Owners
    Targets <- CallsBoth
    Kinds <- KindByNode
    PoolThread = {b, c}
    Caller = {a}
    Pollers = {c}
    Closes = {p1, p2}
    Exits = {b}
    Freezes = {b}
    Fails = {"call", "reply"}
    Unwritable = {p1, p2}
    MaxCalls = 2
INVARIANTS QueuedOnce 
CHECK_DEADLOCK FALSE
