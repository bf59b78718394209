----------------------------- MODULE MCBinderDev -----------------------------
(* Small instances of BinderDev for TLC. *)
EXTENDS BinderDev, TLC

CONSTANTS t1, t2, t3, p1, p2, p3

Alone == t1 :> p1 @@ t2 :> p2 @@ t3 :> p3
Siblings == t1 :> p1 @@ t2 :> p1 @@ t3 :> p2

=============================================================================
