---------------------------- MODULE MCBinderRefs ----------------------------
(* Small instances of BinderRefs for TLC. *)
EXTENDS BinderRefs, TLC

CONSTANTS p1, p2, p3

TheOwner == {<<p1, 0>>}
BothServe == {<<p1, 0>>, <<p2, 0>>}
SameUid == [p \in Proc |-> 501]
TwoUids == [p \in Proc |-> IF p = p3 THEN 502 ELSE 501]

=============================================================================
