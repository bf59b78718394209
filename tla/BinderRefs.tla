----------------------------- MODULE BinderRefs -----------------------------
(***************************************************************************)
(* Objects, handles and the counts between them: kext/binder_node.c, with  *)
(* the object translation of kext/binder_txn.c, the reference and death    *)
(* commands and the node and death work of kext/binder_proc.c.             *)
(*                                                                         *)
(* A handler of the driver changes nodes, handles and queues many times    *)
(* under one hold of the lock.  Each of its functions is an operator from  *)
(* a state s of the driver (the record that State is) to the next, so that *)
(* an action composes them in the order of the code.                       *)
(*                                                                         *)
(* A node is named by its owner and its address, and its cookie is a       *)
(* function of the address.  A process has one thread, in the pool, and    *)
(* owes nobody; what the process owes the driver (owed) is written at any  *)
(* later time, as by another thread of the pool.  That a process may send  *)
(* a parcel of objects to another is given: the node it calls through is   *)
(* not one of these.  One-way calls go through the nodes of the model, and *)
(* carry nothing.                                                          *)
(* held, owed, heard, done, acked and clearing are the clients' side.      *)
(***************************************************************************)
EXTENDS Integers, FiniteSets, SequencesExt

CONSTANTS
    Proc, Ptr, NULL,
    UidOf,          \* the user of each process
    Implements,     \* the objects that their owners hand out
    Objects,        \* the types of object that clients send
    MaxObjects,     \* bound: the objects in a parcel
    MaxParcels,     \* bound: the parcels alive at once
    Holds,          \* what clients hold of handles: "strong", "weak"
    MaxHeld,        \* bound: what a client holds of one handle
    MaxDeaths,      \* bound: the death notifications asked for
    Posts,          \* the processes that make one-way calls
    Managers,       \* the processes that may become context manager
    Closes          \* the processes that may close the device

ASSUME RefsAssumption ==
    /\ Managers \cup Closes \cup Posts \subseteq Proc
    /\ Implements \subseteq Proc \X Ptr
    /\ Objects \subseteq {"BINDER", "WEAK_BINDER", "HANDLE", "WEAK_HANDLE", "FD"}
    /\ Holds \subseteq {"strong", "weak"}
    /\ {MaxObjects, MaxParcels, MaxHeld, MaxDeaths} \subseteq Nat
    /\ 0 \in Ptr

VARIABLES
    procs,          \* processes with the device open
    node,           \* the nodes, NULL for one that does not exist
    refs,           \* proc->refs, newest first
    todo,           \* the queue of the process's thread
    proc_todo,      \* proc->todo
    mgr_node, mgr_uid,
    parcel,         \* the live buffers
    node_async,     \* the one-way calls waiting on a node
    has_async,      \* nodes with has_async_transaction
    asleep,         \* processes whose thread sleeps on proc->todo
    deaths,         \* who asked for each death notification so far
    held,           \* what the client of a process holds of each handle
    owed,           \* the BC_..._DONE the owner of a node has to write
    heard, clearing, done, acked    \* cookies: BR_DEAD_BINDER read,
                    \* BC_CLEAR_DEATH_NOTIFICATION written,
                    \* BR_CLEAR_DEATH_NOTIFICATION_DONE read,
                    \* BC_DEAD_BINDER_DONE written

parcels == <<parcel, node_async, has_async>>
client == <<held, owed, heard, clearing, done, acked>>
vars == <<procs, node, refs, todo, proc_todo, mgr_node, mgr_uid, parcels, asleep, deaths, client>>

Node == Proc \X Ptr
Owner(n) == n[1]
Desc == 0 .. Cardinality(Node)
ParcelId == 1 .. MaxParcels
Cookie == 1 .. MaxDeaths
Freed == <<>>       \* what a buffer's target_node is once that node is freed
Strong(obj) == obj.type \in {"BINDER", "HANDLE"}

NodeRecord == [is_dead : BOOLEAN, internal : Nat, local_strong : Nat, local_weak : Nat,
               has_strong_ref : BOOLEAN, has_weak_ref : BOOLEAN]
NewNode == [is_dead |-> FALSE, internal |-> 0, local_strong |-> 0, local_weak |-> 0,
            has_strong_ref |-> FALSE, has_weak_ref |-> FALSE]
Ref == [node : Node, desc : Desc, strong : Nat, weak : Nat, death : Cookie \cup {0}]

NodeWork(n) == [type |-> "NODE", node |-> n, id |-> 0]
TxnWork(id) == [type |-> "TRANSACTION", node |-> NULL, id |-> id]
DeathWork(type, c) == [type |-> type, node |-> NULL, id |-> c]

Init ==
    /\ procs = Proc
    /\ node = [n \in Node |-> NULL]
    /\ refs = [p \in Proc |-> <<>>]
    /\ todo = [p \in Proc |-> <<>>] /\ proc_todo = [p \in Proc |-> <<>>]
    /\ mgr_node = NULL /\ mgr_uid = NULL
    /\ parcel = [id \in ParcelId |-> NULL]
    /\ node_async = [n \in Node |-> <<>>] /\ has_async = {}
    /\ asleep = {} /\ deaths = <<>>
    /\ held = [p \in Proc |-> [d \in Desc |-> [strong |-> 0, weak |-> 0]]]
    /\ owed = [n \in Node |-> {}]
    /\ heard = {} /\ clearing = {} /\ done = {} /\ acked = {}

State == [node |-> node, refs |-> refs, todo |-> todo, proc_todo |-> proc_todo,
          mgr |-> mgr_node, parcel |-> parcel, async |-> node_async, has_async |-> has_async,
          woken |-> {}]

Becomes(s) ==
    /\ node' = s.node /\ refs' = s.refs /\ todo' = s.todo /\ proc_todo' = s.proc_todo
    /\ mgr_node' = s.mgr
    /\ parcel' = s.parcel /\ node_async' = s.async /\ has_async' = s.has_async
    /\ asleep' = asleep \ s.woken

-----------------------------------------------------------------------------
(* Nodes *)

RefsTo(s, n) == {p \in Proc : \E i \in DOMAIN s.refs[p] : s.refs[p][i].node = n}
HasStrong(s, n) == s.node[n].internal # 0 \/ s.node[n].local_strong # 0
HasWeak(s, n) == HasStrong(s, n) \/ s.node[n].local_weak # 0 \/ RefsTo(s, n) # {}
IsQueued(s, w) == \E p \in Proc : Contains(s.todo[p], w) \/ Contains(s.proc_todo[p], w)
DeathQueued(s, c) ==
    \E type \in {"DEAD", "DEAD_AND_CLEAR", "CLEAR"} : IsQueued(s, DeathWork(type, c))

(* The buffers that were sent to n point at a node no more. *)
Orphaned(s, n) ==
    [id \in ParcelId |-> IF s.parcel[id] # NULL /\ s.parcel[id].target = n
                        THEN [s.parcel[id] EXCEPT !.target = Freed] ELSE s.parcel[id]]

(* binder_node_maybe_free.  The one-way calls waiting on the node are      *)
(* freed with it, their buffers are not.                                   *)
MaybeFree(s, n) ==
    IF \/ HasWeak(s, n) \/ s.node[n].has_strong_ref \/ s.node[n].has_weak_ref
       \/ IsQueued(s, NodeWork(n))
    THEN s
    ELSE [s EXCEPT !.node[n] = NULL, !.async[n] = <<>>, !.has_async = @ \ {n},
                   !.parcel = Orphaned(s, n),
                   !.mgr = IF @ = n /\ ~ s.node[n].is_dead THEN NULL ELSE @]

(* binder_node_notify_owner, from a command of the thread of process th *)
NotifyNobody(s, n, th) == s

NotifyOwner(s, n, th) ==
    IF s.node[n].is_dead \/ IsQueued(s, NodeWork(n)) THEN s
    ELSE IF th = Owner(n) THEN [s EXCEPT !.todo[th] = Append(@, NodeWork(n))]
    ELSE [s EXCEPT !.proc_todo[Owner(n)] = Append(@, NodeWork(n))]

(* binder_node_update_refs.  An internal weak count is not kept. *)
UpdateRefs(s, n, strong, increment, internal, th) ==
    LET field == IF ~ strong THEN "local_weak" ELSE IF internal THEN "internal" ELSE "local_strong"
        counted == strong \/ ~ internal
        t == IF counted THEN [s EXCEPT !.node[n][field] = IF increment THEN @ + 1 ELSE @ - 1] ELSE s
        crossed == HasStrong(t, n) # HasStrong(s, n) \/ HasWeak(t, n) # HasWeak(s, n)
    IN  IF counted /\ ~ increment /\ s.node[n][field] = 0 THEN s
        ELSE MaybeFree(IF crossed THEN NotifyOwner(t, n, th) ELSE t, n)

(* binder_node_died: whoever asked is told, and woken. *)
TellNobody(s, p, c) == s
TellDeathQuietly(s, p, c) ==
    [s EXCEPT !.proc_todo[p] = Append(@, DeathWork("DEAD", c))]

TellDeath(s, p, c) ==
    [s EXCEPT !.proc_todo[p] = Append(@, DeathWork("DEAD", c)), !.woken = @ \cup {p}]
NodeDied(s, n) ==
    LET dead == [s EXCEPT !.node[n].is_dead = TRUE]
        asked == {<<p, i>> \in Proc \X (1 .. Cardinality(Node)) :
                     /\ i \in DOMAIN s.refs[p] /\ s.refs[p][i].node = n
                     /\ s.refs[p][i].death # 0 /\ ~ DeathQueued(s, s.refs[p][i].death)}
        tell(a, u) == TellDeath(u, a[1], s.refs[a[1]][a[2]].death)
    IN  FoldSet(tell, dead, asked)

-----------------------------------------------------------------------------
(* Handles.  A handle is its index in proc->refs; none is the empty set. *)

First(q, Test(_)) == {i \in DOMAIN q : Test(q[i]) /\ \A j \in 1 .. i - 1 : ~ Test(q[j])}
FindByDesc(s, p, d) == First(s.refs[p], LAMBDA r : r.desc = d)
FindForNode(s, p, n) == First(s.refs[p], LAMBDA r : r.node = n)

(* binder_ref_next_desc: 0 for the context manager, else the lowest free. *)
NextDesc(s, p, n) ==
    LET free == {d \in Desc \ {0} : FindByDesc(s, p, d) = {}}
    IN  IF s.mgr = n THEN 0 ELSE CHOOSE d \in free : \A e \in free : d <= e

(* binder_ref_get_for_node *)
RefGet(s, p, n) ==
    IF FindForNode(s, p, n) # {} THEN s
    ELSE [s EXCEPT !.refs[p] = <<[node |-> n, desc |-> NextDesc(s, p, n),
                                  strong |-> 0, weak |-> 0, death |-> 0]>> \o @]

(* binder_ref_delete: its death notification goes with it. *)
RefDelete(s, p, i) ==
    LET r == s.refs[p][i]
        keeps(w) == ~ (r.death # 0 /\ w.type \notin {"NODE", "TRANSACTION"} /\ w.id = r.death)
        t == [s EXCEPT !.refs[p] = RemoveAt(@, i),
                       !.todo[p] = SelectSeq(@, keeps),
                       !.proc_todo[p] = SelectSeq(@, keeps)]
    IN  UpdateRefs(t, r.node, r.strong > 0, FALSE, TRUE, NULL)

(* binder_ref_update *)
RefUpdate(s, p, i, strong, increment, th) ==
    LET r == s.refs[p][i]
        field == IF strong THEN "strong" ELSE "weak"
        t == [s EXCEPT !.refs[p][i][field] = IF increment THEN @ + 1 ELSE @ - 1]
        crossed == strong /\ r.strong = IF increment THEN 0 ELSE 1
        u == IF crossed THEN UpdateRefs(t, r.node, TRUE, increment, TRUE, th) ELSE t
    IN  IF ~ increment /\ r[field] = 0 THEN s
        ELSE IF u.refs[p][i].strong = 0 /\ u.refs[p][i].weak = 0 THEN RefDelete(u, p, i)
        ELSE u

-----------------------------------------------------------------------------
(* Parcels: the objects in them become the receiver's on the way in, and   *)
(* are undone when the buffer is freed.  val is an address or a handle.    *)

Only(S) == CHOOSE x \in S : TRUE
Flat(local, strong, val) ==
    [type |-> IF strong THEN IF local THEN "BINDER" ELSE "HANDLE"
              ELSE IF local THEN "WEAK_BINDER" ELSE "WEAK_HANDLE",
     val |-> val]
IsLocal(obj) == obj.type \in {"BINDER", "WEAK_BINDER"}
IsHandle(obj) == obj.type \in {"HANDLE", "WEAK_HANDLE"}

(* What translation leaves: the driver's state and the objects so far. *)
GiveHandleStrong(a, p, q, n, obj) ==
    LET s == RefGet(a.s, q, n)
        i == Only(FindForNode(s, q, n))
    IN  [s |-> RefUpdate(s, q, i, TRUE, TRUE, p),
         out |-> Append(a.out, Flat(FALSE, Strong(obj), s.refs[q][i].desc))]

GiveHandle(a, p, q, n, obj) ==
    LET s == RefGet(a.s, q, n)
        i == Only(FindForNode(s, q, n))
    IN  [s |-> RefUpdate(s, q, i, Strong(obj), TRUE, p),
         out |-> Append(a.out, Flat(FALSE, Strong(obj), s.refs[q][i].desc))]

TranslateBinder(a, p, q, obj) ==
    LET n == <<p, obj.val>>
    IN  GiveHandle([a EXCEPT !.s.node[n] = IF @ = NULL THEN NewNode ELSE @], p, q, n, obj)

TranslateHandle(a, p, q, obj) ==
    LET n == a.s.refs[p][Only(FindByDesc(a.s, p, obj.val))].node
    IN  IF Owner(n) = q /\ ~ a.s.node[n].is_dead
        THEN [s |-> UpdateRefs(a.s, n, Strong(obj), TRUE, FALSE, p),
              out |-> Append(a.out, Flat(TRUE, Strong(obj), n[2]))]
        ELSE GiveHandle(a, p, q, n, obj)

Translate(s, p, q, objs) ==
    LET step(a, obj) == IF IsLocal(obj) THEN TranslateBinder(a, p, q, obj)
                                        ELSE TranslateHandle(a, p, q, obj)
    IN  FoldLeft(step, [s |-> s, out |-> <<>>], objs)

(* binder_transaction_buffer_release, for the parcel of process q *)
ReleaseHandlesOnly(s, q, objs) ==
    LET step(t, obj) ==
            LET i == FindByDesc(t, q, obj.val)
            IN  IF IsHandle(obj) /\ i # {}
                THEN RefUpdate(t, q, Only(i), Strong(obj), FALSE, NULL) ELSE t
    IN  FoldLeft(step, s, objs)

BufferRelease(s, q, objs) ==
    LET step(t, obj) ==
            LET n == <<q, obj.val>>
                i == FindByDesc(t, q, obj.val)
            IN  IF IsLocal(obj) /\ t.node[n] # NULL
                THEN IF t.node[n].is_dead THEN t
                     ELSE UpdateRefs(t, n, Strong(obj), FALSE, FALSE, NULL)
                ELSE IF IsHandle(obj) /\ i # {}
                THEN RefUpdate(t, q, Only(i), Strong(obj), FALSE, NULL)
                ELSE t
    IN  FoldLeft(step, s, objs)

-----------------------------------------------------------------------------
(* Sending *)

Awake(p) == p \in procs \ asleep
Delivered(p) == {id \in ParcelId : /\ parcel[id] # NULL /\ parcel[id].to = p
                                   /\ parcel[id].read}
Unused(id) == parcel[id] = NULL /\ \A n \in Node : ~ Contains(node_async[n], id)

(* The handles the client of p may name: held, or in a parcel it has. *)
Named(p) ==
    {d \in Desc : held[p][d].strong + held[p][d].weak > 0}
    \cup {d \in Desc : \E id \in Delivered(p) : \E k \in DOMAIN parcel[id].objs :
                          IsHandle(parcel[id].objs[k]) /\ parcel[id].objs[k].val = d}

Sendable(p) ==
    {obj \in [type : Objects, val : Ptr \cup Desc] :
        \/ IsLocal(obj) /\ <<p, obj.val>> \in Implements
        \/ IsHandle(obj) /\ obj.val \in Named(p)
        \/ obj.type = "FD" /\ obj.val = 0}

(* A descriptor goes to a node that does not take them, and a handle the   *)
(* client believes in may not be in the table.                             *)
Untranslatable(p, obj) == obj.type = "FD" \/ (IsHandle(obj) /\ FindByDesc(State, p, obj.val) = {})

NewParcel(q, objs, target) == [to |-> q, objs |-> objs, target |-> target, read |-> FALSE]

(* binder_transaction: one that carries objs and is queued to q's pool. *)
Send(p, q, objs, id) ==
    /\ Awake(p) /\ q \in procs \ {p} /\ Unused(id)
    /\ \A k \in DOMAIN objs : ~ Untranslatable(p, objs[k])
    /\ LET a == Translate(State, p, q, objs)
       IN  Becomes([a.s EXCEPT !.proc_todo[q] = Append(@, TxnWork(id)),
                               !.parcel[id] = NewParcel(q, a.out, NULL),
                               !.woken = @ \cup {q}])
    /\ UNCHANGED <<procs, mgr_uid, deaths, client>>

(* The same, refused: the objects before the first that cannot be          *)
(* translated have been, and all of them are released.                     *)
SendRefused(p, q, objs) ==
    /\ Awake(p) /\ q \in procs \ {p} /\ \E id \in ParcelId : Unused(id)
    /\ \E k \in First(objs, LAMBDA obj : Untranslatable(p, obj)) :
          LET a == Translate(State, p, q, SubSeq(objs, 1, k - 1))
          IN  Becomes(BufferRelease(a.s, q, a.out \o SubSeq(objs, k, Len(objs))))
    /\ UNCHANGED <<procs, mgr_uid, deaths, client>>

(* binder_transaction: a one-way call to the object behind handle d waits  *)
(* on the node while another is on its way.                                *)
Post(p, d, id) ==
    LET n == IF d = 0 THEN mgr_node ELSE refs[p][Only(FindByDesc(State, p, d))].node
        q == Owner(n)
        s == [State EXCEPT !.parcel[id] = NewParcel(q, <<>>, n)]
    IN  /\ Awake(p) /\ p \in Posts /\ d \in Named(p) /\ Unused(id)
        /\ IF d = 0 THEN mgr_node # NULL ELSE FindByDesc(State, p, d) # {}
        /\ ~ node[n].is_dead
        /\ \/ /\ n \in has_async
              /\ Becomes([s EXCEPT !.async[n] = Append(@, id)])
           \/ /\ n \notin has_async
              /\ Becomes([s EXCEPT !.has_async = @ \cup {n},
                                   !.proc_todo[q] = Append(@, TxnWork(id)), !.woken = @ \cup {q}])
        /\ UNCHANGED <<procs, mgr_uid, deaths, client>>

(* The buffer of a call to n is freed: the next one-way call goes on.      *)
NextOneway(s, p, n) ==
    IF n \notin s.has_async THEN s
    ELSE IF s.async[n] = <<>> THEN [s EXCEPT !.has_async = @ \ {n}]
    ELSE [s EXCEPT !.async[n] = Tail(@), !.woken = @ \cup {p},
                   !.proc_todo[p] = Append(@, TxnWork(Head(s.async[n])))]

(* BC_FREE_BUFFER.  Once the node it was sent to is freed, what the driver *)
(* reads there is undefined, and the step is not taken.                    *)
FreeBuffer(p, id) ==
    LET s == BufferRelease(State, p, parcel[id].objs)
    IN  /\ Awake(p) /\ id \in Delivered(p)
        /\ s.parcel[id].target # Freed
        /\ Becomes([NextOneway(s, p, s.parcel[id].target) EXCEPT !.parcel[id] = NULL])
    /\ UNCHANGED <<procs, mgr_uid, deaths, client>>

-----------------------------------------------------------------------------
(* Reference commands *)

(* BC_ACQUIRE and BC_INCREFS, from a client that may name the handle or    *)
(* asks for the context manager's.                                         *)
Acquire(p, d, field) ==
    LET known == FindByDesc(State, p, d)
        s == IF known = {} THEN RefGet(State, p, mgr_node) ELSE State
        i == Only(IF known = {} THEN FindForNode(s, p, mgr_node) ELSE known)
    IN  /\ Awake(p) /\ held[p][d][field] < MaxHeld
        /\ d \in Named(p) \/ d = 0
        /\ known # {} \/ (d = 0 /\ mgr_node # NULL)
        /\ (d = 0 /\ mgr_node # NULL) => Owner(mgr_node) # p
        /\ Becomes(RefUpdate(s, p, i, field = "strong", TRUE, p))
        /\ held' = [held EXCEPT ![p][d][field] = @ + 1]
        /\ UNCHANGED <<procs, mgr_uid, deaths, owed, heard, clearing, done, acked>>

(* BC_RELEASE and BC_DECREFS, of what the client holds *)
Release(p, d, field) ==
    /\ Awake(p) /\ held[p][d][field] > 0
    /\ \E i \in FindByDesc(State, p, d) :
          Becomes(RefUpdate(State, p, i, field = "strong", FALSE, p))
    /\ held' = [held EXCEPT ![p][d][field] = @ - 1]
    /\ UNCHANGED <<procs, mgr_uid, deaths, owed, heard, clearing, done, acked>>

(* BC_INCREFS_DONE and BC_ACQUIRE_DONE; EINVAL when the node is gone. *)
RefDone(n, field) ==
    /\ Awake(Owner(n)) /\ field \in owed[n] /\ node[n] # NULL
    /\ owed' = [owed EXCEPT ![n] = @ \ {field}]
    /\ UNCHANGED <<procs, node, refs, todo, proc_todo, mgr_node, mgr_uid, parcels, asleep, deaths,
                   held, heard, clearing, done, acked>>

-----------------------------------------------------------------------------
(* Death notifications *)

(* BC_REQUEST_DEATH_NOTIFICATION: of an object already dead, the answer is *)
(* queued at once.                                                         *)
DeathRequest(p, d) ==
    LET c == Len(deaths) + 1
    IN  /\ Awake(p) /\ d \in Named(p) /\ c <= MaxDeaths
        /\ \E i \in FindByDesc(State, p, d) :
              /\ refs[p][i].death = 0
              /\ refs' = [refs EXCEPT ![p][i].death = c]
              /\ todo' = IF node[refs[p][i].node].is_dead
                         THEN [todo EXCEPT ![p] = Append(@, DeathWork("DEAD", c))] ELSE todo
        /\ deaths' = Append(deaths, p)
        /\ UNCHANGED <<procs, node, proc_todo, mgr_node, mgr_uid, parcels, asleep, client>>

(* BC_CLEAR_DEATH_NOTIFICATION: a death on its way changes in place. *)
DeathClear(p, d) ==
    /\ Awake(p)
    /\ \E i \in FindByDesc(State, p, d) :
          LET c == refs[p][i].death
              turn(w) == IF w = DeathWork("DEAD", c) THEN DeathWork("DEAD_AND_CLEAR", c) ELSE w
              turned(q) == [k \in DOMAIN q |-> turn(q[k])]
          IN  /\ c # 0
              /\ IF DeathQueued(State, c)
                 THEN /\ todo' = [todo EXCEPT ![p] = turned(@)]
                      /\ proc_todo' = [proc_todo EXCEPT ![p] = turned(@)]
                 ELSE /\ todo' = [todo EXCEPT ![p] = Append(@, DeathWork("CLEAR", c))]
                      /\ UNCHANGED proc_todo
              /\ refs' = [refs EXCEPT ![p][i].death = 0]
              /\ clearing' = clearing \cup {c}
    /\ UNCHANGED <<procs, node, mgr_node, mgr_uid, parcels, asleep, deaths,
                   held, owed, heard, done, acked>>

(* BC_DEAD_BINDER_DONE: accepted, and nothing more. *)
DeadBinderDone(p, c) ==
    /\ Awake(p) /\ c \in heard \ acked /\ deaths[c] = p
    /\ acked' = acked \cup {c}
    /\ UNCHANGED <<procs, node, refs, todo, proc_todo, mgr_node, mgr_uid, parcels, asleep, deaths,
                   held, owed, heard, clearing, done>>

-----------------------------------------------------------------------------
(* The context manager, and the end of a process *)

MayManageAnyone(p) == mgr_node = NULL
MayManage(p) == mgr_node = NULL /\ mgr_uid \in {NULL, UidOf[p]}

(* binder_context_mgr_set; EBUSY and EPERM leave everything as it was. *)
ContextMgrSet(p) ==
    LET n == <<p, 0>>
        new == IF node[n] = NULL THEN NewNode ELSE node[n]
    IN  /\ Awake(p) /\ p \in Managers
        /\ MayManage(p)
        /\ mgr_uid' = UidOf[p] /\ mgr_node' = n
        /\ node' = [node EXCEPT ![n] =
                      [new EXCEPT !.local_strong = @ + 1, !.local_weak = @ + 1,
                                  !.has_strong_ref = TRUE, !.has_weak_ref = TRUE]]
        /\ UNCHANGED <<procs, refs, todo, proc_todo, parcels, asleep, deaths, client>>

(* binder_proc_release: the role, the nodes, the handles, the queues and   *)
(* the threads.  The parcels hold nothing any more once the nodes and      *)
(* handles are gone.                                                       *)
KeepRole(s, p) == s

GiveUpRole(s, p) ==
    IF s.mgr = NULL \/ Owner(s.mgr) # p THEN s
    ELSE [s EXCEPT !.mgr = NULL,
                   !.node[s.mgr].local_strong = 0, !.node[s.mgr].local_weak = 0,
                   !.node[s.mgr].has_strong_ref = FALSE, !.node[s.mgr].has_weak_ref = FALSE]

NodesFreed(s, p) ==
    LET step(n, t) == [NodeDied(t, n) EXCEPT !.node[n] = NULL]
    IN  FoldSet(step, s, {n \in Node : Owner(n) = p /\ s.node[n] # NULL})

NodesDied(s, p) ==
    LET step(n, t) == MaybeFree(NodeDied(t, n), n)
    IN  FoldSet(step, s, {n \in Node : Owner(n) = p /\ s.node[n] # NULL})

HandlesDropped(s, p) ==
    FoldLeft(LAMBDA t, r : RefDelete(t, p, 1), s, s.refs[p])

NothingQueued(s, p) ==
    [s EXCEPT !.todo[p] = <<>>, !.proc_todo[p] = <<>>, !.woken = @ \cup {p}]

ProcRelease(p) ==
    LET s == HandlesDropped(NodesDied(GiveUpRole(State, p), p), p)
        left == [id \in ParcelId |->
                    IF s.parcel[id] # NULL /\ s.parcel[id].to = p THEN NULL ELSE s.parcel[id]]
    IN  /\ p \in procs \cap Closes
        /\ Becomes([NothingQueued(s, p) EXCEPT !.parcel = left])
        /\ procs' = procs \ {p}
        /\ held' = [held EXCEPT ![p] = [d \in Desc |-> [strong |-> 0, weak |-> 0]]]
        /\ owed' = [n \in Node |-> IF Owner(n) = p THEN {} ELSE owed[n]]
        /\ UNCHANGED <<mgr_uid, deaths, heard, clearing, done, acked>>

-----------------------------------------------------------------------------
(* Reading: the thread's own queue first, then the process's. *)

FirstWork(p) == IF todo[p] # <<>> THEN Head(todo[p]) ELSE Head(proc_todo[p])
Dequeued(p) == IF todo[p] # <<>> THEN [State EXCEPT !.todo[p] = Tail(@)]
                             ELSE [State EXCEPT !.proc_todo[p] = Tail(@)]
HasWork(p) == todo[p] # <<>> \/ proc_todo[p] # <<>>

(* binder_read_node_work: the owner is told what has changed; one that is  *)
(* told to let go altogether may lose the node.                            *)
Reconcile(s, n) ==
    LET t == [s EXCEPT !.node[n].has_strong_ref = HasStrong(s, n),
                       !.node[n].has_weak_ref = HasWeak(s, n)]
    IN  IF s.node[n].has_weak_ref /\ ~ HasWeak(s, n) THEN MaybeFree(t, n) ELSE t

ReadNode(p) ==
    LET n == FirstWork(p).node
    IN  /\ Awake(p) /\ HasWork(p) /\ FirstWork(p).type = "NODE"
        /\ Becomes(Reconcile(Dequeued(p), n))
        /\ owed' = [owed EXCEPT ![n] = @
              \cup {f \in {"strong"} : HasStrong(State, n) /\ ~ node[n].has_strong_ref}
              \cup {f \in {"weak"} : HasWeak(State, n) /\ ~ node[n].has_weak_ref}]
        /\ UNCHANGED <<procs, mgr_uid, deaths, held, heard, clearing, done, acked>>

ReadTransaction(p) ==
    /\ Awake(p) /\ HasWork(p) /\ FirstWork(p).type = "TRANSACTION"
    /\ Becomes([Dequeued(p) EXCEPT !.parcel[FirstWork(p).id].read = TRUE])
    /\ UNCHANGED <<procs, mgr_uid, deaths, client>>

(* A clear asked for while the death was in flight is answered next. *)
OwedClearNone(s, p, w) == s

OwedClear(s, p, w) ==
    IF w.type = "DEAD_AND_CLEAR" THEN [s EXCEPT !.todo[p] = Append(@, DeathWork("CLEAR", w.id))]
    ELSE s

ReadDeath(p) ==
    LET w == FirstWork(p)
    IN  /\ Awake(p) /\ HasWork(p) /\ w.type \in {"DEAD", "DEAD_AND_CLEAR", "CLEAR"}
        /\ Becomes(OwedClear(Dequeued(p), p, w))
        /\ heard' = IF w.type = "CLEAR" THEN heard ELSE heard \cup {w.id}
        /\ done' = IF w.type = "CLEAR" THEN done \cup {w.id} ELSE done
        /\ UNCHANGED <<procs, mgr_uid, deaths, held, owed, clearing, acked>>

(* binder_wait, on the process's queue *)
Sleep(p) ==
    /\ Awake(p) /\ ~ HasWork(p)
    /\ asleep' = asleep \cup {p}
    /\ UNCHANGED <<procs, node, refs, todo, proc_todo, mgr_node, mgr_uid, parcels, deaths, client>>

(* A signal ends the wait (PCATCH). *)
Interrupt(p) ==
    /\ p \in asleep
    /\ asleep' = asleep \ {p}
    /\ UNCHANGED <<procs, node, refs, todo, proc_todo, mgr_node, mgr_uid, parcels, deaths, client>>

Next ==
    \E p \in Proc :
        \/ \E q \in Proc, objs \in SeqOf(Sendable(p), MaxObjects) \ {<<>>} :
              (\E id \in ParcelId : Send(p, q, objs, id)) \/ SendRefused(p, q, objs)
        \/ \E id \in ParcelId : FreeBuffer(p, id) \/ \E d \in Desc : Post(p, d, id)
        \/ \E d \in Desc, field \in Holds : Acquire(p, d, field) \/ Release(p, d, field)
        \/ \E x \in Ptr, field \in {"strong", "weak"} : RefDone(<<p, x>>, field)
        \/ \E d \in Desc : DeathRequest(p, d) \/ DeathClear(p, d)
        \/ \E c \in Cookie : DeadBinderDone(p, c)
        \/ ContextMgrSet(p)
        \/ ProcRelease(p)
        \/ ReadNode(p) \/ ReadTransaction(p) \/ ReadDeath(p)
        \/ Sleep(p) \/ Interrupt(p)

Spec == Init /\ [][Next]_vars

(* A thread that is awake goes back to read: it is how it gets anything. *)
FairSpec == Spec /\ \A p \in Proc : WF_vars(ReadNode(p) \/ ReadTransaction(p) \/ ReadDeath(p))

-----------------------------------------------------------------------------
(* Properties *)

WorkItem ==
    {NodeWork(n) : n \in Node} \cup {TxnWork(id) : id \in ParcelId}
    \cup {DeathWork(type, c) : type \in {"DEAD", "DEAD_AND_CLEAR", "CLEAR"}, c \in Cookie}

(* The driver's tables and queues hold what their C types say. *)
TypeOK ==
    /\ procs \subseteq Proc /\ asleep \subseteq procs
    /\ node \in [Node -> NodeRecord \cup {NULL}]
    /\ \A p \in Proc : /\ \A i \in DOMAIN refs[p] : refs[p][i] \in Ref
                       /\ \A k \in DOMAIN todo[p] : todo[p][k] \in WorkItem
                       /\ \A k \in DOMAIN proc_todo[p] : proc_todo[p][k] \in WorkItem
    /\ mgr_node \in Node \cup {NULL}

Carried(p, type, val) ==
    Cardinality({<<id, k>> \in ParcelId \X (1 .. MaxObjects) :
                    /\ parcel[id] # NULL
                    /\ parcel[id].to = p /\ k \in DOMAIN parcel[id].objs
                    /\ parcel[id].objs[k] = [type |-> type, val |-> val]})

(* A handle counts exactly what its process has of it: the objects in the  *)
(* parcels it was sent and has not freed, and the counts its client took   *)
(* with BC_ACQUIRE and BC_INCREFS.  A handle that counts nothing is gone,  *)
(* and one the client has a claim to exists (binder_ref_update,            *)
(* binder_transaction_buffer_release).                                     *)
HandleBacked ==
    \A p \in procs, d \in Desc :
        LET strong == held[p][d].strong + Carried(p, "HANDLE", d)
            weak == held[p][d].weak + Carried(p, "WEAK_HANDLE", d)
            counts == {<<refs[p][i].strong, refs[p][i].weak>> :
                          i \in {j \in DOMAIN refs[p] : refs[p][j].desc = d}}
        IN  counts = IF strong + weak = 0 THEN {} ELSE {<<strong, weak>>}

(* A node's counts are what holds it: one internal strong count for every  *)
(* handle with a strong count, one local count for every object its owner  *)
(* was sent back and has not freed, and the context manager's own two      *)
(* (binder_node_update_refs, binder_context_mgr_set).                      *)
NodeBacked ==
    \A n \in Node : node[n] # NULL /\ ~ node[n].is_dead =>
        LET mine == IF mgr_node = n THEN 1 ELSE 0
        IN  /\ node[n].internal =
                  Cardinality({p \in Proc : \E i \in FindForNode(State, p, n) : refs[p][i].strong > 0})
            /\ node[n].local_strong = mine + Carried(Owner(n), "BINDER", n[2])
            /\ node[n].local_weak = mine + Carried(Owner(n), "WEAK_BINDER", n[2])

(* A node is not freed while a handle names it, is news in a queue, or is  *)
(* the context manager (binder_node_maybe_free).                           *)
NamedExists ==
    /\ \A p \in Proc : \A i \in DOMAIN refs[p] : node[refs[p][i].node] # NULL
    /\ \A n \in Node : IsQueued(State, NodeWork(n)) => node[n] # NULL
    /\ mgr_node # NULL => node[mgr_node] # NULL

(* Whatever the owner of a live node has not been told of the strong count *)
(* is queued for it to read, so a count that crosses zero is never missed  *)
(* (binder_node_notify_owner, binder_read_node_work).                      *)
StrongNews ==
    \A n \in Node : node[n] # NULL /\ ~ node[n].is_dead =>
        node[n].has_strong_ref = HasStrong(State, n) \/ IsQueued(State, NodeWork(n))

(* The context manager is a live process with its object in place, and the *)
(* same user as every manager before it (binder_context_mgr_set,           *)
(* binder_proc_release).                                                   *)
ManagerLives ==
    mgr_node # NULL => Owner(mgr_node) \in procs /\ ~ node[mgr_node].is_dead

(* The role only ever passes between processes of one user. *)
SameUser == [][mgr_uid # NULL => mgr_uid' = mgr_uid]_vars

(* Who asked to be told of a death that has happened has been told, or the *)
(* notification is queued for them (binder_node_died,                      *)
(* binder_death_request).                                                  *)
DeathTold ==
    \A p \in Proc : \A i \in DOMAIN refs[p] :
        LET c == refs[p][i].death
        IN  c # 0 /\ node[refs[p][i].node].is_dead => c \in heard \/ DeathQueued(State, c)

(* A clear is answered once: until the answer is read it is queued, and    *)
(* nothing of that notification is queued after it (binder_death_clear and *)
(* the death work of binder_thread_read).                                  *)
ClearAnswered ==
    \A c \in clearing : deaths[c] \in procs => (c \in done) # DeathQueued(State, c)

(* A death that somebody asked to be told of is read by its asker, unless  *)
(* they drop the handle, clear the notification or close.                  *)
DeathReaches ==
    \A c \in Cookie :
        (\E p \in Proc : \E i \in DOMAIN refs[p] :
            refs[p][i].death = c /\ node[refs[p][i].node].is_dead)
        ~> (c \in heard \/ \A p \in Proc : \A i \in DOMAIN refs[p] : refs[p][i].death # c)

-----------------------------------------------------------------------------
(* What the comments of the code state and the code does not always keep;  *)
(* README.md gives the instances that show it.                             *)

(* A process has one handle to a node, and one node to a handle            *)
(* (binder_ref_get_for_node, binder_ref_next_desc).                        *)
OneHandle ==
    \A p \in Proc : \A i, j \in DOMAIN refs[p] :
        i # j => refs[p][i].node # refs[p][j].node /\ refs[p][i].desc # refs[p][j].desc

(* Whatever the owner of a live node has not been told of the weak count  *)
(* is queued for it to read (binder_ref_get_for_node).                     *)
WeakNews ==
    \A n \in Node : node[n] # NULL /\ ~ node[n].is_dead =>
        node[n].has_weak_ref = HasWeak(State, n) \/ IsQueued(State, NodeWork(n))

(* A node that nothing points at, whose owner is gone or has let go and    *)
(* that is not news for anybody, is freed (binder_node_maybe_free).        *)
Reclaimed ==
    \A n \in Node : node[n] # NULL =>
        \/ HasWeak(State, n) \/ IsQueued(State, NodeWork(n))
        \/ ~ node[n].is_dead /\ (node[n].has_strong_ref \/ node[n].has_weak_ref)

(* A client that heard of the death is told that its clear happened only   *)
(* after it has acknowledged the death (binder_death_clear).               *)
ClearAfterAck == heard \cap done \subseteq acked

(* The owner is always told when the last strong handle to its object is   *)
(* gone: once no strong count is left, it reads BR_RELEASE, or the object  *)
(* is taken again, or the owner closes (binder_ref_update).                *)
LastLetsGo ==
    \A n \in Node :
        (node[n] # NULL /\ node[n].has_strong_ref /\ ~ HasStrong(State, n))
            ~> (IF node[n] = NULL THEN TRUE
                ELSE ~ node[n].has_strong_ref \/ HasStrong(State, n) \/ node[n].is_dead)

(* What the owner has yet to acknowledge is there to be acknowledged: no   *)
(* BC_ACQUIRE_DONE or BC_INCREFS_DONE it owes is refused.                  *)
DoneAccepted == \A n \in Node : owed[n] # {} => node[n] # NULL

(* "Their buffers belong to the process that is going away": a one-way     *)
(* call to a process that has not closed is delivered, or it is on its way *)
(* or waits on its node (binder_node_maybe_free).                          *)
OnewayKept ==
    \A id \in ParcelId : parcel[id] # NULL /\ ~ parcel[id].read =>
        \/ IsQueued(State, TxnWork(id))
        \/ \E n \in Node : Contains(node_async[n], id)

(* The object that a buffer was sent to is there for as long as the        *)
(* buffer, whose release moves that object's one-way queue                 *)
(* (binder_write_free_buffer).                                             *)
TargetKept == \A id \in ParcelId : parcel[id] # NULL => parcel[id].target # Freed

(* A one-way call that waits on its node has its buffer                    *)
(* (binder_proc_release).                                                  *)
WaitingBacked ==
    \A n \in Node : \A k \in DOMAIN node_async[n] : parcel[node_async[n][k]] # NULL

=============================================================================
