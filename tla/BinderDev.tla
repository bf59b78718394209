------------------------------ MODULE BinderDev ------------------------------
(***************************************************************************)
(* The slots of the cloning device nodes: binder_clone, binder_dev_open    *)
(* and binder_dev_close of kext/binder_dev.c.                              *)
(*                                                                         *)
(* devfs calls binder_clone when a path is looked up; the open that may    *)
(* follow is a call of its own, and other tasks run in between.  A task    *)
(* that only wanted to stat the node never opens it.  What an open does    *)
(* with its binder_proc is in BinderIpc and BinderRefs; here it is known   *)
(* by the task that opened it.                                             *)
(***************************************************************************)
EXTENDS Integers, SequencesExt

CONSTANTS
    Task,           \* threads of the clients
    pidOf,          \* the process of each
    Context,        \* the contexts that have a node
    MaxOpens,       \* BINDER_MAX_OPENS
    NULL

ASSUME DevAssumption ==
    MaxOpens \in Nat \ {0} /\ NULL \notin Task /\ DOMAIN pidOf = Task

VARIABLES
    slots,          \* g_slots
    order,          \* the slots by their sequence numbers, oldest first
    task            \* each task: nothing, a minor it was given, or an open file

vars == <<slots, order, task>>

Slot == 1..MaxOpens
Unused == [cloned |-> FALSE, opened |-> FALSE, lookup_pid |-> NULL, context |-> NULL, proc |-> NULL]
Nowhere == [at |-> "idle", slot |-> NULL, context |-> NULL]

Init ==
    /\ slots = [i \in Slot |-> Unused] /\ order = <<>>
    /\ task = [t \in Task |-> Nowhere]

(* A cloned slot without an open. *)
Unopened(i) == slots[i].cloned /\ ~ slots[i].opened

(* The slot this process was given for this context and has not opened. *)
OutstandingMinted(pid, ctx) == {}
Outstanding(pid, ctx) ==
    {i \in Slot : Unopened(i) /\ slots[i].lookup_pid = pid /\ slots[i].context = ctx}

(* The first slot without a minor, or the longest-standing clone that was  *)
(* never opened.  No slot if every one is open.                            *)
First(S) == {i \in S : \A j \in S : i <= j}
Older(i, j) == \E m, n \in DOMAIN order : m <= n /\ order[m] = i /\ order[n] = j

FreshFree == First({i \in Slot : ~ slots[i].cloned})

Fresh ==
    IF \E i \in Slot : ~ slots[i].cloned
    THEN First({i \in Slot : ~ slots[i].cloned})
    ELSE {i \in Slot : Unopened(i) /\ \A j \in Slot : Unopened(j) => Older(i, j)}

Touched(i) == Append(SelectSeq(order, LAMBDA j : j # i), i)
Found(t, i, ctx) == task' = [task EXCEPT ![t] = [at |-> "found", slot |-> i, context |-> ctx]]

(* binder_clone *)
LookupAgain(t, ctx) ==
    /\ task[t].at = "idle"
    /\ \E i \in First(Outstanding(pidOf[t], ctx)) : order' = Touched(i) /\ Found(t, i, ctx)
    /\ UNCHANGED slots

Lookup(t, ctx) ==
    /\ task[t].at = "idle" /\ Outstanding(pidOf[t], ctx) = {}
    /\ \E i \in Fresh :
          /\ slots' = [slots EXCEPT ![i] = [cloned |-> TRUE, opened |-> FALSE, lookup_pid |-> pidOf[t],
                                            context |-> ctx, proc |-> NULL]]
          /\ order' = Touched(i)
          /\ Found(t, i, ctx)

(* The lookup was for a stat, or the open cannot have its binder_proc. *)
Leave(t) ==
    /\ task[t].at = "found"
    /\ task' = [task EXCEPT ![t] = Nowhere]
    /\ UNCHANGED <<slots, order>>

(* binder_dev_open: refused without a clone (ENXIO) or when the minor is   *)
(* open already (EBUSY).                                                   *)
OpenableOpened(i) == slots[i].cloned
Openable(i) == slots[i].cloned /\ ~ slots[i].opened

Open(t) ==
    /\ task[t].at = "found" /\ Openable(task[t].slot)
    /\ slots' = [slots EXCEPT ![task[t].slot] = [cloned |-> TRUE, opened |-> TRUE, lookup_pid |-> NULL,
                                                 context |-> @.context, proc |-> t]]
    /\ task' = [task EXCEPT ![t].at = "open"]
    /\ UNCHANGED order

OpenRefused(t) ==
    /\ task[t].at = "found" /\ ~ Openable(task[t].slot)
    /\ task' = [task EXCEPT ![t] = Nowhere]
    /\ UNCHANGED <<slots, order>>

(* binder_dev_close, at the last close of the minor: the slot is free. *)
ReleasedOpen(i) == [slots[i] EXCEPT !.proc = NULL]
Released(i) == Unused

Close(t) ==
    /\ task[t].at = "open"
    /\ slots' = [slots EXCEPT ![task[t].slot] = Released(task[t].slot)]
    /\ task' = [task EXCEPT ![t] = Nowhere]
    /\ UNCHANGED order

Next ==
    \E t \in Task :
        \/ \E ctx \in Context : Lookup(t, ctx) \/ LookupAgain(t, ctx)
        \/ Leave(t) \/ Open(t) \/ OpenRefused(t) \/ Close(t)

Spec == Init /\ [][Next]_vars

-----------------------------------------------------------------------------
(* Properties *)

(* Slots and tasks are what the handlers make of them; the order has every *)
(* slot that has a minor, and none twice.                                  *)
TypeOK ==
    /\ \A i \in Slot : slots[i].opened => slots[i].cloned
    /\ \A t \in Task : task[t].at \in {"idle", "found", "open"}
    /\ {i \in Slot : slots[i].cloned} \subseteq Range(order) /\ IsInjective(order)

(* An open file keeps its slot and its binder_proc, whatever lookups,      *)
(* opens, refusals and closes the other tasks go through: the table never  *)
(* takes back a slot in use and a close ends nobody else's open.           *)
OpenKept == \A t \in Task : task[t].at = "open" =>
                slots[task[t].slot].opened /\ slots[task[t].slot].proc = t

(* A slot is in use as long as its file is open and no longer: the table   *)
(* is not used up by files that are gone.                                  *)
NoneStranded == \A i \in Slot : slots[i].opened =>
                    \E t \in Task : task[t].at = "open" /\ task[t].slot = i

(* A process that looks a node up over and over has one minor for it: the  *)
(* device number it sees is stable and costs one slot.                     *)
OneMinor == \A i, j \in Slot :
    (Unopened(i) /\ Unopened(j) /\ slots[i].lookup_pid = slots[j].lookup_pid
        /\ slots[i].context = slots[j].context) => i = j

(* A lookup has a slot unless every slot is open: minors handed out to     *)
(* stat are no loss.                                                       *)
LookupServed == Fresh = {} => \A i \in Slot : slots[i].opened

-----------------------------------------------------------------------------
(* What the comments of the code state and the code does not always keep;  *)
(* README.md gives the instances that show it.                             *)

(* An open has the context of the node it looked up. *)
OwnContext == \A t \in Task : task[t].at = "open" => slots[task[t].slot].context = task[t].context

(* An open is refused as busy only when a thread of the same process had   *)
(* looked up the same minor.                                               *)
BusySiblings == \A t \in Task :
    (task[t].at = "found" /\ slots[task[t].slot].opened) =>
        pidOf[slots[task[t].slot].proc] = pidOf[t]

=============================================================================
