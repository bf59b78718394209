---------------------------- MODULE MCBinderRead ----------------------------
(* Small instances of BinderRead for TLC. *)
EXTENDS BinderRead, TLC

CONSTANTS t1, t2

=============================================================================
