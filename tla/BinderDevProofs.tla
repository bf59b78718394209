--------------------------- MODULE BinderDevProofs ---------------------------
(***************************************************************************)
(* What the slot table of BinderDev keeps for every number of slots,       *)
(* tasks, processes and contexts.                                          *)
(***************************************************************************)
EXTENDS BinderDev, TLAPS

(* The inductive invariant.  That an open file's slot names the file       *)
(* keeps two files from sharing a slot, so Close ends one open only.  That *)
(* a lookup spares open files needs, beyond OpenKept, that a slot without  *)
(* a minor is not open, and that tasks are sent to slots of the table.     *)
DevInv ==
    /\ slots \in [Slot -> [cloned : BOOLEAN, opened : BOOLEAN, lookup_pid : {NULL} \cup {pidOf[t] : t \in Task},
                           context : Context \cup {NULL}, proc : Task \cup {NULL}]]
    /\ task \in [Task -> [at : {"idle", "found", "open"}, slot : Slot \cup {NULL},
                          context : Context \cup {NULL}]]
    /\ \A t \in Task : task[t].at # "idle" => task[t].slot \in Slot
    /\ \A i \in Slot : slots[i].opened => slots[i].cloned
    /\ OpenKept /\ NoneStranded /\ OneMinor

(* Whatever slot a lookup is given, no file is open on it: it has no minor *)
(* or its clone was never opened.                                          *)
LEMMA FreshUnopened == ASSUME DevInv, NEW i \in Fresh PROVE i \in Slot /\ ~ slots[i].opened
  BY DEF DevInv, Fresh, First, Unopened

LEMMA InitDevInv == Init => DevInv
  BY DEF Init, DevInv, Unused, Nowhere, OpenKept, NoneStranded, OneMinor, Unopened

LEMMA NextDevInv == DevInv /\ [Next]_vars => DevInv'
<1> SUFFICES ASSUME DevInv, [Next]_vars PROVE DevInv'
  OBVIOUS
<1>1. ASSUME NEW t \in Task, NEW ctx \in Context, Lookup(t, ctx) PROVE DevInv'
  <2>1. PICK i \in Fresh :
          /\ slots' = [slots EXCEPT ![i] = [cloned |-> TRUE, opened |-> FALSE, lookup_pid |-> pidOf[t],
                                            context |-> ctx, proc |-> NULL]]
          /\ task' = [task EXCEPT ![t] = [at |-> "found", slot |-> i, context |-> ctx]]
    BY <1>1 DEF Lookup, Found
  <2>2. i \in Slot /\ ~ slots[i].opened /\ task[t].at = "idle" /\ Outstanding(pidOf[t], ctx) = {}
    BY <1>1, FreshUnopened DEF Lookup
  <2>3. OpenKept' /\ NoneStranded'
    BY <2>1, <2>2 DEF DevInv, OpenKept, NoneStranded
  <2>4. OneMinor'
    BY <2>1, <2>2 DEF DevInv, OneMinor, Unopened, Outstanding
  <2> QED
    BY <2>1, <2>2, <2>3, <2>4 DEF DevInv
<1>2. ASSUME NEW t \in Task, NEW ctx \in Context, LookupAgain(t, ctx) PROVE DevInv'
  <2>1. PICK i \in First(Outstanding(pidOf[t], ctx)) :
          task' = [task EXCEPT ![t] = [at |-> "found", slot |-> i, context |-> ctx]]
    BY <1>2 DEF LookupAgain, Found
  <2> QED
    BY <1>2, <2>1 DEF LookupAgain, DevInv, First, Outstanding, OpenKept, NoneStranded, OneMinor, Unopened
<1>3. ASSUME NEW t \in Task, Leave(t) \/ OpenRefused(t) PROVE DevInv'
  <2>1. task' = [task EXCEPT ![t] = Nowhere] /\ slots' = slots /\ task[t].at = "found"
    BY <1>3 DEF Leave, OpenRefused
  <2>2. OpenKept' /\ NoneStranded'
    BY <2>1 DEF Nowhere, DevInv, OpenKept, NoneStranded
  <2>3. OneMinor'
    BY <2>1 DEF DevInv, OneMinor, Unopened
  <2> QED
    BY <2>1, <2>2, <2>3 DEF Nowhere, DevInv
<1>4. ASSUME NEW t \in Task, Open(t) PROVE DevInv'
  <2>1. OpenKept' /\ NoneStranded'
    BY <1>4 DEF Open, Openable, DevInv, OpenKept, NoneStranded
  <2>2. OneMinor'
    BY <1>4 DEF Open, Openable, DevInv, OneMinor, Unopened
  <2> QED
    BY <1>4, <2>1, <2>2 DEF Open, Openable, DevInv
<1>5. ASSUME NEW t \in Task, Close(t) PROVE DevInv'
  <2>1. slots' = [slots EXCEPT ![task[t].slot] = Unused] /\ task' = [task EXCEPT ![t] = Nowhere]
        /\ task[t].at = "open" /\ task[t].slot \in Slot
    BY <1>5 DEF Close, Released, DevInv
  <2>2. OpenKept'
    BY <2>1 DEF Unused, Nowhere, DevInv, OpenKept
  <2>3. NoneStranded'
    BY <2>1 DEF Unused, Nowhere, DevInv, NoneStranded
  <2>4. OneMinor'
    BY <2>1 DEF Unused, DevInv, OneMinor, Unopened
  <2> QED
    BY <2>1, <2>2, <2>3, <2>4 DEF Unused, Nowhere, DevInv
<1>6. CASE UNCHANGED vars
  BY <1>6 DEF vars, DevInv, OpenKept, NoneStranded, OneMinor, Unopened
<1> QED
  BY <1>1, <1>2, <1>3, <1>4, <1>5, <1>6 DEF Next

(* binder_clone never takes back a slot with a file open on it, and        *)
(* binder_dev_close never ends an open other than its own.                 *)
THEOREM OpensKept == Spec => []OpenKept
<1>1. DevInv => OpenKept
  BY DEF DevInv
<1> QED
  BY <1>1, InitDevInv, NextDevInv, PTL DEF Spec

(* binder_dev_close leaves no slot behind that no file has open. *)
THEOREM NothingStranded == Spec => []NoneStranded
<1>1. DevInv => NoneStranded
  BY DEF DevInv
<1> QED
  BY <1>1, InitDevInv, NextDevInv, PTL DEF Spec

(* binder_clone gives one process one minor of a node, however often it    *)
(* looks the node up before it opens it.                                   *)
THEOREM StableMinor == Spec => []OneMinor
<1>1. DevInv => OneMinor
  BY DEF DevInv
<1> QED
  BY <1>1, InitDevInv, NextDevInv, PTL DEF Spec

=============================================================================
