-------------------------------- MODULE Arena --------------------------------
(***************************************************************************)
(* What a payload arena promises the rest of the driver, without the list  *)
(* of buffers: a region of bytes from which extents are granted, each at   *)
(* least as long as what was asked for and apart from all others, and to   *)
(* which exactly the extent that was named returns.                        *)
(***************************************************************************)
EXTENDS Integers

VARIABLES
    size,           \* bytes in the arena; 0 when there is none
    live            \* the extents granted: where, how long, what was asked

vars == <<size, live>>

Extent == [offset : Nat, size : Nat, need : Nat]
End(e) == e.offset + e.size
Apart(e, f) == End(e) <= f.offset \/ End(f) <= e.offset

Init == size = 0 /\ live = {}

Register ==
    /\ size = 0
    /\ size' \in Nat \ {0}
    /\ UNCHANGED live

(* Which of the extents that fit is granted is not promised. *)
Grant ==
    /\ \E e \in live' :
          /\ e \in Extent /\ e.need > 0 /\ e.need <= e.size /\ End(e) <= size
          /\ \A f \in live : Apart(e, f)
          /\ live' = live \cup {e}
    /\ UNCHANGED size

Giveback ==
    /\ \E e \in live : live' = live \ {e}
    /\ UNCHANGED size

Teardown ==
    /\ size # 0
    /\ size' = 0 /\ live' = {}

Next == Register \/ Grant \/ Giveback \/ Teardown

Spec == Init /\ [][Next]_vars

=============================================================================
