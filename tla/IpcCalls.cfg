SPECIFICATION Spec
CONSTANTS
    p1 = p1  p2 = p2  a = a  b = b  c = c  nc = nc  ns = ns  nt = nt
    NULL = NULL
    Proc = {p1, p2}
    Thread = {a, b, c}
    Node = {nc, ns, nt}
    ProcOf <- TwoServers
    OwnerOf <- Owners
    Targets <- CallsAll
    Kinds <- KindByNode
    PoolThread = {a, b, c}
    Caller = {a}
    Pollers = {c}
    Closes = {}
    Exits = {}
    Freezes = {}
    Fails = {"call"}
    Unwritable = {}
    MaxCalls = 3
INVARIANTS StackMatches ReplyToCaller
 
CHECK_DEADLOCK FALSE
