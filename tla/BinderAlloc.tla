----------------------------- MODULE BinderAlloc -----------------------------
(***************************************************************************)
(* The payload arena of one binder process (kext/binder_alloc.c): a region *)
(* of the client's memory, described by the list proc->buffers, from which *)
(* every parcel sent to the process is allocated first-fit and to which it *)
(* returns, coalesced, when it is freed.                                   *)
(*                                                                         *)
(* A buffer is [offset, size, free, async, need]; "need" abstracts the     *)
(* three sizes the record keeps (data, offsets, extra) to the aligned      *)
(* total that was asked for.  The list is a sequence, in list order; that  *)
(* the order is that of the offsets is a property, not a premise.  All     *)
(* sizes are bytes.  binder_transaction bounds each of the three sizes by  *)
(* BINDER_MAX_TRANSACTION_SIZE before it allocates, so their uint64_t sum  *)
(* does not wrap and plain integers are exact.                             *)
(***************************************************************************)
EXTENDS Integers, SequencesExt

CONSTANTS
    ARENA_MIN, ARENA_MAX,   \* BINDER_MSL_ARENA_MIN, BINDER_MSL_ARENA_MAX
    PAGE_SIZE,
    ADDRESS_LIMIT,          \* where a user address wraps
    ArenaSizes,             \* the sizes a client asks to register
    Addr,                   \* the arena's address in the client
    Sizes,                  \* the part sizes a parcel may have
    MaxAsync                \* bound: no frees once free_async_space is beyond it

ASSUME ArenaAssumption ==
    /\ ARENA_MIN \in Nat /\ ARENA_MAX \in Nat /\ PAGE_SIZE \in Nat
    /\ 0 < ARENA_MIN /\ 0 < PAGE_SIZE
    /\ ArenaSizes \subseteq Nat
    /\ \A size \in ArenaSizes : size % PAGE_SIZE = 0 => size % 8 = 0
    /\ Addr \in Nat /\ ADDRESS_LIMIT \in Nat
    /\ Sizes \subseteq Nat
    /\ MaxAsync \in Nat

VARIABLES
    arena_size,             \* 0 until the client registers an arena
    buffers,                \* the list, in list order
    free_async_space

vars == <<arena_size, buffers, free_async_space>>

BINDER_MIN_SPLIT == 32
BINDER_ASYNC_FRACTION == 2
BINDER_ALIGN(x) == 8 * ((x + 7) \div 8)

Buffer == [offset : Nat, size : Nat, free : BOOLEAN, async : BOOLEAN, need : Nat]

FreeBuffer(offset, size) ==
    [offset |-> offset, size |-> size, free |-> TRUE, async |-> FALSE, need |-> 0]

Init ==
    /\ arena_size = 0
    /\ buffers = <<>>
    /\ free_async_space = 0

-----------------------------------------------------------------------------
(* binder_arena_register: one free buffer that is the whole arena. *)
Register(size) ==
    /\ arena_size = 0
    /\ size \in ARENA_MIN .. ARENA_MAX
    /\ size % PAGE_SIZE = 0 /\ Addr % PAGE_SIZE = 0
    /\ Addr # 0 /\ Addr + size < ADDRESS_LIMIT
    /\ arena_size' = size
    /\ buffers' = <<FreeBuffer(0, size)>>
    /\ free_async_space' = size \div BINDER_ASYNC_FRACTION

-----------------------------------------------------------------------------
(* binder_buffer_alloc *)

Need(data, offsets, extra) ==
    BINDER_ALIGN(data) + BINDER_ALIGN(offsets) + BINDER_ALIGN(extra)

FitsNearly(buf, need) == buf.free /\ buf.size + BINDER_MIN_SPLIT > need
Fits(buf, need) == buf.free /\ buf.size >= need

FirstFit(need) ==
    {i \in DOMAIN buffers : /\ Fits(buffers[i], need)
                            /\ \A j \in 1 .. i - 1 : ~ Fits(buffers[j], need)}

Taken(buf, need, is_async) ==
    [buf EXCEPT !.free = FALSE, !.async = is_async, !.need = need]

(* The remainder is split off behind buffer i when it is worth tracking; *)
(* otherwise it stays as slack on the allocation.                        *)
TakeSplitFront(bufs, i, need, is_async) ==
    LET taken == Taken(bufs[i], need, is_async)
    IN  InsertAt([bufs EXCEPT ![i] = [taken EXCEPT !.size = need]], i,
                 FreeBuffer(bufs[i].offset + need, bufs[i].size - need))

Take(bufs, i, need, is_async) ==
    LET taken == Taken(bufs[i], need, is_async)
    IN  IF bufs[i].size - need >= BINDER_MIN_SPLIT
        THEN InsertAt([bufs EXCEPT ![i] = [taken EXCEPT !.size = need]], i + 1,
                      FreeBuffer(bufs[i].offset + need, bufs[i].size - need))
        ELSE [bufs EXCEPT ![i] = taken]

AllocUnmetered(data, offsets, extra, is_async) ==
    LET need == Need(data, offsets, extra)
    IN  /\ arena_size # 0
        /\ need # 0 /\ need <= arena_size
        /\ \E i \in FirstFit(need) : buffers' = Take(buffers, i, need, is_async)
        /\ free_async_space' = IF is_async THEN free_async_space - need
                                           ELSE free_async_space
        /\ UNCHANGED arena_size

Alloc(data, offsets, extra, is_async) ==
    LET need == Need(data, offsets, extra)
    IN  /\ arena_size # 0
        /\ need # 0 /\ need <= arena_size
        /\ is_async => need <= free_async_space
        /\ \E i \in FirstFit(need) : buffers' = Take(buffers, i, need, is_async)
        /\ free_async_space' = IF is_async THEN free_async_space - need
                                           ELSE free_async_space
        /\ UNCHANGED arena_size

-----------------------------------------------------------------------------
(* binder_buffer_free: mark buffer i free, then merge with the next and    *)
(* with the previous buffer where they are free too.                       *)

MergeNext(bufs, i) ==
    IF i < Len(bufs) /\ bufs[i].free /\ bufs[i + 1].free
    THEN RemoveAt([bufs EXCEPT ![i].size = @ + bufs[i + 1].size], i + 1)
    ELSE bufs

ReleaseForward(bufs, i) ==
    MergeNext([bufs EXCEPT ![i] = FreeBuffer(bufs[i].offset, bufs[i].size)], i)

Release(bufs, i) ==
    LET freed  == [bufs EXCEPT ![i] = FreeBuffer(bufs[i].offset, bufs[i].size)]
        merged == MergeNext(freed, i)
    IN  IF i > 1 THEN MergeNext(merged, i - 1) ELSE merged

FreeUncharged(i) ==
    /\ i \in DOMAIN buffers /\ ~ buffers[i].free
    /\ free_async_space' = free_async_space
    /\ buffers' = Release(buffers, i)
    /\ UNCHANGED arena_size

Free(i) ==
    /\ i \in DOMAIN buffers /\ ~ buffers[i].free
    /\ free_async_space' = IF buffers[i].async THEN free_async_space + buffers[i].size
                                               ELSE free_async_space
    /\ buffers' = Release(buffers, i)
    /\ UNCHANGED arena_size

(* binder_buffer_lookup: the walk stops at the first buffer at or past the *)
(* offset; the result is the set of the (at most one) index it returns.    *)
LookupInside(user_ptr) ==
    LET offset == user_ptr - Addr
    IN  {i \in DOMAIN buffers :
            /\ ~ buffers[i].free
            /\ offset \in buffers[i].offset .. buffers[i].offset + buffers[i].size - 1}

Lookup(user_ptr) ==
    LET offset == user_ptr - Addr
    IN  {i \in DOMAIN buffers :
            /\ arena_size # 0 /\ user_ptr >= Addr /\ offset < arena_size
            /\ buffers[i].offset = offset
            /\ \A j \in 1 .. i - 1 : buffers[j].offset < offset
            /\ ~ buffers[i].free}

(* binder_arena_teardown, when the process closes the device. *)
Teardown ==
    /\ arena_size # 0
    /\ buffers' = <<>>
    /\ arena_size' = 0
    /\ free_async_space' = 0

Next ==
    \/ \E size \in ArenaSizes : Register(size)
    \/ \E data, offsets, extra \in Sizes, is_async \in BOOLEAN :
            Alloc(data, offsets, extra, is_async)
    \/ \E i \in DOMAIN buffers : free_async_space <= MaxAsync /\ Free(i)
    \/ Teardown

Spec == Init /\ [][Next]_vars

-----------------------------------------------------------------------------
(* Every list entry is a buffer and the async allowance is a natural:      *)
(* binder_buffer_alloc never takes free_async_space, which is unsigned,    *)
(* below zero.                                                             *)
TypeOK ==
    /\ arena_size \in Nat
    /\ buffers \in Seq(Buffer)
    /\ free_async_space \in Nat

(* "The list is ordered by offset and covers the arena": each buffer       *)
(* starts where the one before it ends, none is empty, the first starts at *)
(* 0 and the last ends at the arena's end.                                 *)
Tiling ==
    /\ arena_size = 0 <=> buffers = <<>>
    /\ \A i \in DOMAIN buffers : buffers[i].size > 0
    /\ buffers # <<>> => /\ buffers[1].offset = 0
                         /\ buffers[Len(buffers)].offset + buffers[Len(buffers)].size
                                = arena_size
    /\ \A i \in 1 .. Len(buffers) - 1 :
            buffers[i + 1].offset = buffers[i].offset + buffers[i].size

(* binder_buffer_free coalesces: no two neighbours are both free, so no    *)
(* request fails for want of merging two adjacent free buffers.            *)
Coalesced ==
    \A i \in 1 .. Len(buffers) - 1 : ~ (buffers[i].free /\ buffers[i + 1].free)

(* No byte of the arena is handed out twice: two different live            *)
(* allocations of binder_buffer_alloc never overlap, and each is as long   *)
(* as what was asked for and inside the arena.                             *)
Disjoint ==
    \A i \in DOMAIN buffers : ~ buffers[i].free =>
        /\ buffers[i].need > 0 /\ buffers[i].need <= buffers[i].size
        /\ buffers[i].offset + buffers[i].size <= arena_size
        /\ \A j \in DOMAIN buffers : j # i /\ ~ buffers[j].free =>
              \/ buffers[i].offset + buffers[i].size <= buffers[j].offset
              \/ buffers[j].offset + buffers[j].size <= buffers[i].offset

(* Once every allocation is freed the arena is one free buffer again, in   *)
(* whatever order the frees came, so no space is lost to fragmentation     *)
(* that outlives the allocations that caused it.                           *)
WholeAgain ==
    (arena_size # 0 /\ \A i \in DOMAIN buffers : buffers[i].free)
        => buffers = <<FreeBuffer(0, arena_size)>>

(* Parcels start on 8-byte boundaries, as the objects in them need, and so *)
(* do the slack and the free space between them.                           *)
Aligned == \A i \in DOMAIN buffers :
    buffers[i].offset % 8 = 0 /\ buffers[i].size % 8 = 0

(* The bounded walk of binder_buffer_lookup finds exactly the live         *)
(* allocation that starts at the pointer: never one already freed, never   *)
(* one the pointer is merely inside of, and never nothing when there is    *)
(* such an allocation.                                                     *)
LookupExact ==
    \A p \in 0 .. Addr + arena_size :
        Lookup(p) = {i \in DOMAIN buffers : /\ ~ buffers[i].free
                                            /\ buffers[i].offset + Addr = p}

(* The allocator never refuses what fits: when the free-list walk of       *)
(* binder_buffer_alloc finds no buffer for a request, the live parcels     *)
(* leave no gap that would hold it, wherever it started.  It is what       *)
(* coalescing is for.                                                      *)
NoFalseRefusal ==
    \A data, offsets, extra \in Sizes :
        LET need == Need(data, offsets, extra)
        IN  arena_size # 0 /\ need > 0 /\ FirstFit(need) = {} =>
                \A o \in 0 .. arena_size - need : \E i \in DOMAIN buffers :
                    /\ ~ buffers[i].free
                    /\ buffers[i].offset < o + need
                    /\ o < buffers[i].offset + buffers[i].size

(* The live parcels as extents, which is all that a client of the arena    *)
(* sees of the list.                                                       *)
Ext(buf) == [offset |-> buf.offset, size |-> buf.size, need |-> buf.need]
LiveOf(bufs) == {Ext(bufs[i]) : i \in {j \in DOMAIN bufs : ~ bufs[j].free}}

A == INSTANCE Arena WITH size <- arena_size, live <- LiveOf(buffers)

(* The list with its first fit, splits and merges implements the arena:    *)
(* each operation grants or takes back one extent and touches no other.    *)
ImplementsArena == A!Spec

LiveAsync == {i \in DOMAIN buffers : buffers[i].async}
AsyncBytes == SumFunctionOnSet([i \in DOMAIN buffers |-> buffers[i].size], LiveAsync)
AsyncAsked == SumFunctionOnSet([i \in DOMAIN buffers |-> buffers[i].need], LiveAsync)

(* The allowance for asynchronous calls is never lost: what is left plus   *)
(* what the live asynchronous parcels asked for is at least the half of    *)
(* the arena that binder_arena_register granted.                           *)
AsyncNeverLost ==
    free_async_space + AsyncAsked >= arena_size \div BINDER_ASYNC_FRACTION

-----------------------------------------------------------------------------
(* What the comments of the code state and the code does not always keep;  *)
(* README.md gives the instances that show it.                             *)

(* "Asynchronous transactions may take only half the arena, so a flood of  *)
(* asynchronous calls cannot starve synchronous ones": the bytes held by   *)
(* asynchronous parcels stay within the fraction.                          *)
AsyncHalf == AsyncBytes <= arena_size \div BINDER_ASYNC_FRACTION

=============================================================================
