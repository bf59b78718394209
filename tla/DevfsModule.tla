----------------------------- MODULE DevfsModule -----------------------------
(***************************************************************************)
(* Loading and unloading the kernel extension, and the device nodes that   *)
(* come and go with it: devfs_start and devfs_stop of kext/devfs.c,        *)
(* binder_devices_init, binder_ctl_add and binder_devices_fini of          *)
(* kext/binder_dev.c, android_devices_init and _fini of                    *)
(* kext/android_dev.c.                                                     *)
(*                                                                         *)
(* devfs_start is one action per thing it takes from the kernel, each of   *)
(* which may be refused: its nodes serve clients before it is through.     *)
(* binder_ctl_add gives up the lock while it publishes its node.  What the *)
(* extension holds in the kernel, "held", outlives its own variables.      *)
(***************************************************************************)
EXTENDS Integers, Sequences, FiniteSets

CONSTANTS
    Task,           \* clients of binder-control
    Names,          \* names that they ask for
    MaxContexts,    \* BINDER_MAX_CONTEXTS
    MayFail,        \* what the kernel may refuse
    NULL

Static == <<"binder", "hwbinder", "vndbinder">>

ASSUME ModuleAssumption ==
    /\ MaxContexts \in Nat /\ MaxContexts > Len(Static)
    /\ NULL \notin Nat /\ NULL \notin Names \cup {Static[i] : i \in DOMAIN Static}

VARIABLES
    phase,          \* of the extension: "starting", "loaded", "failed", "unloaded"
    step,           \* how far devfs_start is
    held,           \* what the kernel holds for the extension; a node is its name
    contexts,       \* binder_contexts: name (NULL when not in use) and devfs_handle
    task            \* what each client of binder-control is doing

vars == <<phase, step, held, contexts, task>>

Index == 1..MaxContexts
NoContext == [name |-> NULL, handle |-> NULL]

(* What devfs_start takes, in its order. *)
Order == <<"lock_group", "lock", "tag", "binder_major",
           "binder", "hwbinder", "vndbinder", "binder-control",
           "properties_major", "__properties__", "kmsg_major", "kmsg", "sysctls">>

Init ==
    /\ phase = "starting" /\ step = 1 /\ held = {} /\ task = [t \in Task |-> NULL]
    /\ contexts = [i \in Index |-> NoContext]

(* binder_devices_init keeps binder-control's handle in the last context. *)
RecordedUnused(r) ==
    [i \in Index |->
        IF i \in DOMAIN Static /\ r = Static[i] THEN [name |-> NULL, handle |-> r]
        ELSE IF i = MaxContexts /\ r = "binder-control" THEN [contexts[i] EXCEPT !.handle = r]
        ELSE contexts[i]]

Recorded(r) ==
    [i \in Index |->
        IF i \in DOMAIN Static /\ r = Static[i] THEN [name |-> r, handle |-> r]
        ELSE IF i = MaxContexts /\ r = "binder-control" THEN [contexts[i] EXCEPT !.handle = r]
        ELSE contexts[i]]

Take ==
    /\ phase = "starting"
    /\ held' = held \cup {Order[step]}
    /\ contexts' = Recorded(Order[step])
    /\ IF step = Len(Order) THEN phase' = "loaded" /\ step' = step
                            ELSE phase' = phase /\ step' = step + 1
    /\ UNCHANGED task

(* binder-control is optional. *)
GoWithout ==
    /\ phase = "starting" /\ Order[step] = "binder-control" /\ Order[step] \in MayFail
    /\ step' = step + 1
    /\ UNCHANGED <<phase, held, contexts, task>>

(* Everything else ends the start: what the rollback path of each failure  *)
(* gives back.  A failure in binder_devices_init gives back the major but  *)
(* not the nodes it has published; one in android_devices_init gives back  *)
(* its own node, and a major taken for kmsg, and nothing of the rest.      *)
BinderCore == {"lock_group", "lock", "tag", "binder_major"}
RollbackNothing(r) == {}
Rollback(r) ==
    CASE r \in BinderCore \cup {Static[i] : i \in DOMAIN Static} -> BinderCore
      [] r \in {"properties_major", "__properties__"} -> {}
      [] r = "kmsg_major" -> {"__properties__"}
      [] r = "kmsg" -> {"__properties__", "kmsg_major"}

Refused ==
    /\ phase = "starting" /\ Order[step] \in MayFail \ {"binder-control", "sysctls"}
    /\ held' = held \ Rollback(Order[step])
    /\ phase' = "failed"
    /\ UNCHANGED <<step, contexts, task>>

-----------------------------------------------------------------------------
(* binder_ctl_add *)

InUse(i) == contexts[i].name # NULL
TakenPublished(name) == \E i \in Index : contexts[i] = [name |-> name, handle |-> name]
Taken(name) == \E i \in Index : contexts[i].name = name
Free == {i \in Index : ~ InUse(i)}
Running == phase \in {"starting", "loaded"}

(* The client has binder-control open, and names a context nobody has: the *)
(* first free one is its own from here on.  Otherwise EEXIST or ENOSPC.    *)
AddContext(t, name) ==
    /\ Running /\ "binder-control" \in held /\ task[t] = NULL
    /\ ~ Taken(name) /\ Free # {}
    /\ LET i == CHOOSE j \in Free : \A k \in Free : j <= k
       IN  /\ contexts' = [contexts EXCEPT ![i].name = name]
           /\ task' = [task EXCEPT ![t] = i]
    /\ UNCHANGED <<phase, step, held>>

(* devfs_make_node_clone, outside the lock, and the handle kept under it. *)
Publish(t) ==
    /\ task[t] \in Index
    /\ held' = held \cup {contexts[task[t]].name}
    /\ contexts' = [contexts EXCEPT ![task[t]].handle = contexts[task[t]].name]
    /\ task' = [task EXCEPT ![t] = NULL]
    /\ UNCHANGED <<phase, step>>

PublishRefused(t) ==
    /\ task[t] \in Index /\ "binderfs_node" \in MayFail
    /\ contexts' = [contexts EXCEPT ![task[t]].name = NULL]
    /\ task' = [task EXCEPT ![t] = NULL]
    /\ UNCHANGED <<phase, step, held>>

-----------------------------------------------------------------------------
(* devfs_stop: the kernel calls it when no file of the extension is open.  *)
(* android_devices_fini removes its nodes, binder_devices_fini the nodes   *)
(* whose handles it finds.                                                 *)
BinderNodesStatic == {Static[i] : i \in DOMAIN Static}
BinderNodes == {contexts[i].handle : i \in Index} \ {NULL}
AndroidNodes == {"__properties__", "kmsg"}

Stop ==
    /\ phase = "loaded" /\ \A t \in Task : task[t] = NULL
    /\ held' = held \ (BinderCore \cup BinderNodes \cup AndroidNodes \cup {"sysctls"})
    /\ contexts' = [i \in Index |-> NoContext]
    /\ phase' = "unloaded"
    /\ UNCHANGED <<step, task>>

Next ==
    \/ Take \/ GoWithout \/ Refused \/ Stop
    \/ \E t \in Task : Publish(t) \/ PublishRefused(t) \/ \E name \in Names : AddContext(t, name)

Spec == Init /\ [][Next]_vars

-----------------------------------------------------------------------------
(* Properties *)

Nodes == Names \cup {Static[i] : i \in DOMAIN Static}

(* Two contexts in use never have one name, also while binder_ctl_add has  *)
(* given up the lock: a node leads to one context.                         *)
NamesUnique == \A i, j \in Index : InUse(i) /\ InUse(j) /\ contexts[i].name = contexts[j].name => i = j

(* While the extension runs, whatever node a client can look up has a      *)
(* context in use, and the lock and the major that serve it are there.     *)
NodesServed == Running => \A n \in Nodes \cap held :
    Taken(n) /\ {"lock", "binder_major"} \subseteq held

(* A start that failed gave back everything it took. *)
FailedClean == phase = "failed" => held = {}

(* After the unload no node of the extension is left in /dev. *)
NodesGone == phase = "unloaded" => held \cap (Nodes \cup {"binder-control"} \cup AndroidNodes) = {}

-----------------------------------------------------------------------------
(* What the comments of the code state and the code does not always keep;  *)
(* README.md gives the instances that show it.                             *)

(* After the unload the kernel holds nothing of the extension. *)
UnloadedClean == phase = "unloaded" => held = {}

=============================================================================
