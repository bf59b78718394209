--------------------------- MODULE MCBinderParcel ---------------------------
(***************************************************************************)
(* Small parcels for BinderParcel.  The sender's memory is 512 .. 575, the *)
(* receiver's arena is at 256, and a word has ten bits.                    *)
(***************************************************************************)
EXTENDS BinderParcel

Ptr(at, buffer, length, parent) ==
    [type |-> "PTR", at |-> at, buffer |-> buffer, length |-> length, parent |-> parent]
Other(type, at) == [type |-> type, at |-> at, buffer |-> 7, length |-> 0, parent |-> NULL]

(* One that is copied, one nested in an object behind it, and two that are *)
(* not pointers.                                                           *)
Firsts ==
    {Ptr(0, 512, 13, NULL), Ptr(0, 521, 3, 40), Other("FD", 0), Other("FDA", 0)}

(* One that is copied, one whose length wraps when it is rounded, one that *)
(* is not all mapped, one nested in the first object, one whose parent is  *)
(* no object's offset, and one that is not a pointer.                      *)
Seconds ==
    {Ptr(40, 520, 5, NULL), Ptr(40, 512, 1020, NULL), Ptr(40, 573, 5, NULL),
     Ptr(40, 514, 4, 0), Ptr(40, 512, 8, 200), Other("FLAT", 40)}

(* None, one or two objects, and two of which the data cuts the second     *)
(* short.                                                                  *)
SmallParcels ==
    {[data |-> 36, objs |-> <<>>]}
    \cup {[data |-> 44, objs |-> <<o>>] : o \in Firsts}
    \cup {[data |-> 80, objs |-> <<o, u>>] : o \in Firsts, u \in Seconds}
    \cup {[data |-> 60, objs |-> <<Other("FDA", 0), Ptr(40, 512, 8, NULL)>>]}

SenderMemory == 512 .. 575
=============================================================================
