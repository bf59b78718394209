---------------------------- MODULE BinderParcel ----------------------------
(***************************************************************************)
(* What binder_transaction (kext/binder_txn.c) does to one parcel: it      *)
(* takes a buffer of the receiver's arena, copies the parcel into kernel   *)
(* memory, walks the objects the offsets array names, copies what the      *)
(* scatter-gather ones point at behind it and rewrites their pointers to   *)
(* where the receiver will find the copies.  Composed with BinderAlloc,    *)
(* whose arena the buffers come from.                                      *)
(*                                                                         *)
(* Each object is a step; tr # NULL stands for the driver's lock, so that  *)
(* nothing else happens meanwhile.  What becomes of handles and objects    *)
(* ("FLAT") is left to BinderRefs: they hold any of Words afterwards.  An  *)
(* object is [type, at, buffer, length, parent]: its offset in the parcel, *)
(* the two words behind the header and the flags (for "PTR" the sender's   *)
(* address and the length, for "FD" the descriptor and the cookie, for     *)
(* "FDA" their number and the parent), and for a nested "PTR" the offset   *)
(* of its parent.  The objects of a parcel do not overlap, as libbinder's  *)
(* do not.  Addresses and lengths are below 2^64, here WORD, and wrap.     *)
(***************************************************************************)
EXTENDS BinderAlloc

CONSTANTS
    NULL,
    Parcels,        \* what clients send: [data, objs], the size and the objects
    Extras,         \* the scatter-gather sizes they announce
    Mapped,         \* the addresses the sender can read
    Pid,            \* the sender
    Words,          \* what a handle or an object may hold once it is translated
    TakesFds,       \* the target node has accept_fds, or this is a reply
    BINDER_MAX_TRANSACTION_SIZE,
    WORD

Types == {"FLAT", "FD", "PTR", "FDA"}
Object == [type : Types, at : Nat, buffer : Nat, length : Nat, parent : Nat \cup {NULL}]
Copy == [at : Nat, src : Nat, len : Nat]
Transaction ==
    [data : Nat, extra : Nat, objs : Seq(Object), sent : Seq(Object), at : Nat, i : Nat,
     sg_used : Nat, copies : SUBSET Copy]

ASSUME ParcelAssumption ==
    /\ Parcels \subseteq [data : Nat, objs : Seq(Object)]
    /\ Extras \cup Words \subseteq Nat /\ Pid \in Nat
    /\ NULL \notin Nat /\ NULL \notin Transaction
    /\ BINDER_MAX_TRANSACTION_SIZE \in Nat /\ WORD \in Nat
    /\ BINDER_MAX_TRANSACTION_SIZE + 8 < WORD

VARIABLES
    tr,             \* the transaction being sent, NULL for none
    kdata,          \* the parcels in the arena, by the offset of their buffer
    before          \* history: the buffers as this transaction found them

pvars == <<arena_size, buffers, free_async_space, tr, kdata, before>>

PInit == Init /\ tr = NULL /\ kdata = <<>> /\ before = <<>>

-----------------------------------------------------------------------------
(* The areas of a parcel: the data, the offsets, the copies. *)
OffArea(q) == BINDER_ALIGN(q.data)
SgArea(q) == OffArea(q) + BINDER_ALIGN(8 * Len(q.objs))
Total(q) == SgArea(q) + BINDER_ALIGN(q.extra)

(* Up to the point where the sender's memory is read. *)
Begin(d, extra, is_async) ==
    LET q == [data |-> d.data, extra |-> extra, objs |-> d.objs, sent |-> d.objs,
              at |-> 0, i |-> 0, sg_used |-> 0, copies |-> {}]
    IN  /\ tr = NULL
        /\ free_async_space <= MaxAsync
        /\ {d.data, 8 * Len(d.objs), extra} \subseteq 0 .. BINDER_MAX_TRANSACTION_SIZE
        /\ Total(q) # 0 /\ Total(q) <= BINDER_MAX_TRANSACTION_SIZE
        /\ Alloc(d.data, 8 * Len(d.objs), extra, is_async)
        /\ \E k \in FirstFit(Need(d.data, 8 * Len(d.objs), extra)) :
              tr' = [q EXCEPT !.at = buffers[k].offset]
        /\ before' = buffers
        /\ UNCHANGED kdata

Copyin ==
    /\ tr # NULL /\ tr.i = 0
    /\ tr' = [tr EXCEPT !.i = 1]
    /\ UNCHANGED <<arena_size, buffers, free_async_space, kdata, before>>

-----------------------------------------------------------------------------
(* binder_object_at *)
ObjectSize(type) ==
    CASE type \in {"FLAT", "FD"} -> 24 [] type = "PTR" -> 40 [] type = "FDA" -> 32
Whole(o) == o.at % 8 = 0 /\ o.at < tr.data /\ ObjectSize(o.type) <= tr.data - o.at

(* The parent is whatever object the sender's offset names first. *)
Parents(o) ==
    {j \in DOMAIN tr.objs : /\ tr.objs[j].at = o.parent
                            /\ \A k \in 1 .. j - 1 : tr.objs[k].at # o.parent}
WithinParent(o) ==
    o.parent # NULL =>
        \E j \in Parents(o) :
            LET parent == tr.objs[j]
            IN  /\ o.buffer >= parent.buffer
                /\ (o.buffer + o.length) % WORD <= (parent.buffer + parent.length) % WORD

(* The room in the copies' area; the rounded length may have wrapped. *)
Rounded(n) == BINDER_ALIGN(n) % WORD
HasRoomAlone(o) == o.length <= tr.extra /\ Rounded(o.length) <= BINDER_ALIGN(tr.extra)
HasRoom(o) ==
    /\ o.length <= tr.extra
    /\ tr.sg_used + Rounded(o.length) <= BINDER_ALIGN(tr.extra)

Readable(o) == o.buffer .. o.buffer + o.length - 1 \subseteq Mapped

Accepted(o) ==
    /\ Whole(o)
    /\ o.type = "FD" => TakesFds
    /\ o.type = "PTR" => WithinParent(o) /\ HasRoom(o) /\ Readable(o)

Current == tr.objs[tr.i]

(* Where the receiver will find what is copied next. *)
PlaceAfter == Addr + tr.at + SgArea(tr) + tr.sg_used + Rounded(Current.length)
Place == Addr + tr.at + SgArea(tr) + tr.sg_used

TranslatePtr ==
    /\ tr # NULL /\ tr.i \in DOMAIN tr.objs /\ Current.type = "PTR" /\ Accepted(Current)
    /\ tr' = [tr EXCEPT !.i = @ + 1,
                        !.objs[tr.i].buffer = Place,
                        !.sg_used = @ + Rounded(Current.length),
                        !.copies = @ \cup {[at |-> tr.sg_used, src |-> Current.buffer,
                                            len |-> Current.length]}]
    /\ UNCHANGED <<arena_size, buffers, free_async_space, kdata, before>>

(* binder_translate_fd: the broker will need to know whose it is. *)
TranslateFd ==
    /\ tr # NULL /\ tr.i \in DOMAIN tr.objs /\ Current.type = "FD" /\ Accepted(Current)
    /\ tr' = [tr EXCEPT !.i = @ + 1, !.objs[tr.i].length = Pid]
    /\ UNCHANGED <<arena_size, buffers, free_async_space, kdata, before>>

(* binder_translate_binder and binder_translate_handle *)
TranslateFlat ==
    /\ tr # NULL /\ tr.i \in DOMAIN tr.objs /\ Current.type = "FLAT" /\ Accepted(Current)
    /\ \E w, cookie \in Words :
          tr' = [tr EXCEPT !.i = @ + 1, !.objs[tr.i].buffer = w, !.objs[tr.i].length = cookie]
    /\ UNCHANGED <<arena_size, buffers, free_async_space, kdata, before>>

PassOn ==
    /\ tr # NULL /\ tr.i \in DOMAIN tr.objs /\ Current.type = "FDA" /\ Accepted(Current)
    /\ tr' = [tr EXCEPT !.i = @ + 1]
    /\ UNCHANGED <<arena_size, buffers, free_async_space, kdata, before>>

-----------------------------------------------------------------------------
(* A parcel that could not be read (i = 0), was refused at an object (by   *)
(* BinderRefs, if it is a handle), or could not be kept for want of        *)
(* memory, gives its buffer back.                                          *)
AbortLeaks ==
    /\ tr # NULL
    /\ tr.i \in DOMAIN tr.objs => Current.type = "FLAT" \/ ~ Accepted(Current)
    /\ tr' = NULL /\ before' = <<>>
    /\ UNCHANGED <<arena_size, buffers, free_async_space, kdata>>

Abort ==
    /\ tr # NULL
    /\ tr.i \in DOMAIN tr.objs => Current.type = "FLAT" \/ ~ Accepted(Current)
    /\ \E k \in DOMAIN buffers : buffers[k].offset = tr.at /\ Free(k)
    /\ tr' = NULL /\ before' = <<>>
    /\ UNCHANGED kdata

Finish ==
    /\ tr # NULL /\ tr.i = Len(tr.objs) + 1
    /\ kdata' = [x \in DOMAIN kdata \cup {tr.at} |-> IF x = tr.at THEN tr ELSE kdata[x]]
    /\ tr' = NULL /\ before' = <<>>
    /\ UNCHANGED <<arena_size, buffers, free_async_space>>

(* BC_FREE_BUFFER, or a delivery that failed. *)
Done(k) ==
    /\ tr = NULL
    /\ free_async_space <= MaxAsync
    /\ Free(k)
    /\ kdata' = [x \in DOMAIN kdata \ {buffers[k].offset} |-> kdata[x]]
    /\ UNCHANGED <<tr, before>>

Registers(size) == tr = NULL /\ Register(size) /\ UNCHANGED <<tr, kdata, before>>
Closes == tr = NULL /\ Teardown /\ kdata' = <<>> /\ UNCHANGED <<tr, before>>

PNext ==
    \/ \E d \in Parcels, extra \in Extras, is_async \in BOOLEAN : Begin(d, extra, is_async)
    \/ Copyin
    \/ TranslatePtr \/ TranslateFd \/ TranslateFlat \/ PassOn
    \/ Abort \/ Finish
    \/ \E k \in DOMAIN buffers : Done(k)
    \/ \E size \in ArenaSizes : Registers(size)
    \/ Closes

PSpec == PInit /\ [][PNext]_pvars

-----------------------------------------------------------------------------
(* Properties *)

(* The parcels there are: in the arena, and on their way into it. *)
Held == {kdata[x] : x \in DOMAIN kdata} \cup ({tr} \ {NULL})

(* The copies of the scatter-gather buffers of a parcel stay inside the    *)
(* area that was allocated for them and never overlap, whatever lengths    *)
(* the sender announces and however they wrap when they are rounded up.    *)
CopiesApart ==
    \A q \in Held : \A c \in q.copies :
        /\ c.at + c.len <= BINDER_ALIGN(q.extra)
        /\ \A d \in q.copies : c # d => c.at + c.len <= d.at \/ d.at + d.len <= c.at

(* Every pointer that the receiver is given is the place, in its own       *)
(* buffer, of a copy of what the sender's pointer named; the rest of it is *)
(* as it was sent, and so is a descriptor but for its cookie, which names  *)
(* the sender.                                                             *)
PointersResolve ==
    \A q \in Held : \A j \in 1 .. q.i - 1 :
        LET old == q.sent[j]
            new == q.objs[j]
        IN  IF old.type = "PTR"
            THEN \E c \in q.copies :
                    /\ c.src = old.buffer /\ c.len = old.length
                    /\ new = [old EXCEPT !.buffer = Addr + q.at + SgArea(q) + c.at]
            ELSE old.type # "FLAT" =>
                    new = IF old.type = "FD" THEN [old EXCEPT !.length = Pid] ELSE old

(* The parcels are exactly the live buffers, and each fits in its own: the *)
(* copyout of binder_read_transaction writes the total that                *)
(* binder_transaction computed into what binder_buffer_alloc granted.      *)
CopyoutFits ==
    /\ \A i \in DOMAIN buffers : ~ buffers[i].free =>
          \/ buffers[i].offset \in DOMAIN kdata
          \/ tr # NULL /\ tr.at = buffers[i].offset
    /\ \A q \in Held : \E i \in DOMAIN buffers :
          ~ buffers[i].free /\ buffers[i].offset = q.at /\ Total(q) <= buffers[i].size

(* "Never by leaving half a transaction behind": at every object, giving   *)
(* the buffer back restores the arena to what it was before the send.      *)
UndoExact ==
    tr # NULL => \E i \in DOMAIN buffers :
        buffers[i].offset = tr.at /\ Release(buffers, i) = before

-----------------------------------------------------------------------------
(* What the documents state and the code does not always keep; README.md   *)
(* gives the instances that show it.                                       *)

(* "Nested scatter-gather is accepted by the driver, which validates the   *)
(* child against its parent": a child that lies in the buffer its parent   *)
(* had when it was sent passes the test.                                   *)
NestedAccepted ==
    tr # NULL => \A j \in {k \in 1 .. Len(tr.sent) : tr.sent[k].type = "PTR"} :
        /\ tr.i \in DOMAIN tr.objs /\ Current.type = "PTR"
        /\ tr.sent[j].at = Current.parent
        /\ Current.buffer >= tr.sent[j].buffer
        /\ Current.buffer + Current.length <= tr.sent[j].buffer + tr.sent[j].length
        /\ tr.sent[j].buffer + tr.sent[j].length < WORD
        => WithinParent(Current)

=============================================================================
