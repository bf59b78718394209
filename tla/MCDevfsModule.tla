---------------------------- MODULE MCDevfsModule ----------------------------
(* Small instances of DevfsModule for TLC. *)
EXTENDS DevfsModule, TLC

CONSTANTS t1, t2

(* What devfs_start may be refused before it has published a node, and the *)
(* nodes it can do without.                                                *)
Early == BinderCore \cup {"binder", "binder-control", "binderfs_node"}

=============================================================================
