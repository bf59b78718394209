----------------------------- MODULE OnewayQueue -----------------------------
(***************************************************************************)
(* What the driver promises of the one-way calls to an object: "one        *)
(* asynchronous transaction per object at a time: the rest queue behind it *)
(* on the node" (kext/binder_txn.c), in the order they were sent, and none *)
(* is passed over.                                                         *)
(***************************************************************************)
EXTENDS Sequences

CONSTANT Call

VARIABLES
    out,            \* the call that the owner of the object has or will be given
    waiting         \* the calls behind it, in order

vars == <<out, waiting>>

Init == out = {} /\ waiting = <<>>

(* A call is sent: it goes out, or waits behind the one that is out. *)
Post(t) ==
    \/ /\ out = {} /\ waiting = <<>>
       /\ out' = {t}
       /\ UNCHANGED waiting
    \/ /\ out # {}
       /\ waiting' = Append(waiting, t)
       /\ UNCHANGED out

(* The owner has freed the one that was out: the next goes out. *)
Done ==
    /\ out # {}
    /\ \/ waiting = <<>> /\ out' = {} /\ UNCHANGED waiting
       \/ waiting # <<>> /\ out' = {Head(waiting)} /\ waiting' = Tail(waiting)

Next == Done \/ \E t \in Call : Post(t)

Spec == Init /\ [][Next]_vars
=============================================================================
