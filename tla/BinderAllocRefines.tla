------------------------- MODULE BinderAllocRefines -------------------------
(***************************************************************************)
(* BinderAlloc implements Arena, for every arena size, every request size  *)
(* and any number of buffers, and it refuses no request that would fit.    *)
(*                                                                         *)
(* A parcel is known by its extent.  Laid gives different buffers          *)
(* different extents, so that marking one buffer free takes one extent     *)
(* away; merging only moves buffers that are not live.                     *)
(***************************************************************************)
EXTENDS BinderAllocProofs, WellFoundedInduction

-----------------------------------------------------------------------------
(* Membership in LiveOf, for a list. *)
LEMMA LiveIs ==
    ASSUME NEW bufs \in Seq(Buffer), NEW e
    PROVE  e \in LiveOf(bufs) <=> \E j \in 1 .. Len(bufs) : ~ bufs[j].free /\ e = Ext(bufs[j])
BY EntryTypes DEF LiveOf

(* Merging two free neighbours leaves every live parcel where it was. *)
LEMMA MergeLive ==
    ASSUME NEW bufs, NEW n, Laid(bufs, n), Entries(bufs), NEW i \in 1 .. Len(bufs)
    PROVE  LiveOf(MergeNext(bufs, i)) = LiveOf(bufs)
<1> DEFINE big == [bufs[i] EXCEPT !.size = @ + bufs[i + 1].size]
           grown == [bufs EXCEPT ![i] = big]
           new == RemoveAt(grown, i + 1)
<1>1. bufs \in Seq(Buffer) /\ Len(bufs) \in Nat /\ i \in Nat /\ i >= 1
  BY LenProperties DEF Laid
<1>2. CASE ~ (i < Len(bufs) /\ bufs[i].free /\ bufs[i + 1].free)
  BY <1>2 DEF MergeNext
<1>3. CASE i < Len(bufs) /\ bufs[i].free /\ bufs[i + 1].free
  <2>1. MergeNext(bufs, i) = new
    BY <1>3 DEF MergeNext
  <2>2. i + 1 \in 1 .. Len(bufs)
    BY <1>1, <1>3
  <2>3. bufs[i] \in Buffer /\ bufs[i + 1] \in Buffer
    BY <1>1, <2>2, EntryTypes
  <2>4. big \in Buffer /\ big.free = bufs[i].free
    <3>1. bufs[i].size + bufs[i + 1].size \in Nat
      BY <2>3 DEF Buffer
    <3> QED
      BY <2>3, <3>1, Resized
  <2> HIDE DEF big
  <2>5. /\ grown \in Seq(Buffer) /\ Len(grown) = Len(bufs)
        /\ \A j \in 1 .. Len(bufs) : grown[j] = IF j = i THEN big ELSE bufs[j]
    BY <1>1, <2>4, EntryTypes
  <2> HIDE DEF grown
  <2>6. /\ new \in Seq(Buffer) /\ Len(new) = Len(bufs) - 1
        /\ \A j \in 1 .. Len(bufs) - 1 : new[j] = IF j < i + 1 THEN grown[j] ELSE grown[j + 1]
    BY <2>2, <2>5, RemoveAtIs
  <2> HIDE DEF new
  <2>7. \A j \in 1 .. Len(bufs) - 1 :
            /\ j < i => new[j] = bufs[j]
            /\ j = i => new[j] = big
            /\ j > i => new[j] = bufs[j + 1]
    BY <1>1, <1>3, <2>5, <2>6
  <2>8. ASSUME NEW e, e \in LiveOf(new) PROVE e \in LiveOf(bufs)
    <3>1. PICK j \in 1 .. Len(bufs) - 1 : ~ new[j].free /\ e = Ext(new[j])
      BY <2>6, <2>8, LiveIs
    <3>2. j # i
      BY <3>1, <2>7, <2>4, <1>3
    <3>3. CASE j < i
      <4>1. new[j] = bufs[j] /\ j \in 1 .. Len(bufs)
        BY <3>3, <2>7, <1>1
      <4> QED
        BY <4>1, <3>1, <1>1, LiveIs
    <3>4. CASE j > i
      <4>1. new[j] = bufs[j + 1] /\ j + 1 \in 1 .. Len(bufs)
        BY <3>4, <2>7, <1>1
      <4> QED
        BY <4>1, <3>1, <1>1, LiveIs
    <3> QED
      BY <3>2, <3>3, <3>4, <1>1
  <2>9. ASSUME NEW e, e \in LiveOf(bufs) PROVE e \in LiveOf(new)
    <3>1. PICK j \in 1 .. Len(bufs) : ~ bufs[j].free /\ e = Ext(bufs[j])
      BY <1>1, <2>9, LiveIs
    <3>2. j # i /\ j # i + 1
      BY <3>1, <1>3
    <3>3. CASE j < i
      <4>1. new[j] = bufs[j] /\ j \in 1 .. Len(new)
        BY <3>3, <2>6, <2>7, <1>1, <1>3
      <4> QED
        BY <4>1, <3>1, <2>6, LiveIs
    <3>4. CASE j > i + 1
      <4>1. j - 1 \in 1 .. Len(bufs) - 1 /\ j - 1 > i /\ (j - 1) + 1 = j
        BY <3>4, <1>1
      <4>2. new[j - 1] = bufs[j] /\ j - 1 \in 1 .. Len(new)
        BY <4>1, <2>6, <2>7
      <4> QED
        BY <4>2, <3>1, <2>6, LiveIs
    <3> QED
      BY <3>2, <3>3, <3>4, <1>1
  <2> QED
    BY <2>1, <2>8, <2>9
<1> QED
  BY <1>2, <1>3

(* binder_buffer_free takes away the extent of the parcel it frees. *)
LEMMA ReleaseLive ==
    ASSUME NEW bufs, NEW n, Laid(bufs, n), Entries(bufs),
           NEW i \in 1 .. Len(bufs), ~ bufs[i].free
    PROVE  LiveOf(Release(bufs, i)) = LiveOf(bufs) \ {Ext(bufs[i])}
<1> DEFINE buf    == FreeBuffer(bufs[i].offset, bufs[i].size)
           freed  == [bufs EXCEPT ![i] = buf]
           merged == MergeNext(freed, i)
           before == MergeNext(merged, i - 1)
<1>1. bufs \in Seq(Buffer) /\ Len(bufs) \in Nat /\ i \in Nat /\ i >= 1
  BY LenProperties DEF Laid
<1>2. \A j \in 1 .. Len(bufs) : bufs[j].offset \in Nat /\ bufs[j].size \in Nat
  BY <1>1, EntryTypes
<1>3. /\ buf \in Buffer /\ buf.offset = bufs[i].offset /\ buf.size = bufs[i].size
      /\ buf.async = FALSE /\ buf.need = 0 /\ buf.free = TRUE
  BY <1>2 DEF FreeBuffer, Buffer
<1>4. Release(bufs, i) = IF i > 1 THEN before ELSE merged
  BY DEF Release
<1> HIDE DEF buf
<1>5. Laid(freed, n)
  BY <1>3, MarkLaid
<1>6. /\ freed \in Seq(Buffer) /\ Len(freed) = Len(bufs)
      /\ \A j \in 1 .. Len(bufs) : freed[j] = IF j = i THEN buf ELSE bufs[j]
  BY <1>1, <1>3, EntryTypes
<1> HIDE DEF freed
<1>7. Entries(freed)
  <2> SUFFICES ASSUME NEW j \in 1 .. Len(bufs) PROVE Entry(freed[j])
    BY <1>6 DEF Entries
  <2>1. Entry(bufs[i]) /\ Entry(bufs[j])
    BY DEF Entries
  <2> QED
    BY <1>3, <1>6, <2>1 DEF Entry
<1>8. ASSUME NEW j \in 1 .. Len(bufs), j # i PROVE Ext(bufs[j]) # Ext(bufs[i])
  <2>1. bufs[j].offset # bufs[i].offset
    <3>1. /\ j < i => bufs[j].offset + bufs[j].size <= bufs[i].offset
          /\ i < j => bufs[i].offset + bufs[i].size <= bufs[j].offset
          /\ bufs[i].size > 0 /\ bufs[j].size > 0
      BY DEF Laid
    <3> QED
      BY <3>1, <1>1, <1>2, <1>8
  <2>2. Ext(bufs[j]).offset = bufs[j].offset /\ Ext(bufs[i]).offset = bufs[i].offset
    BY DEF Ext
  <2> QED
    BY <2>1, <2>2
<1>9. LiveOf(freed) = LiveOf(bufs) \ {Ext(bufs[i])}
  <2>1. ASSUME NEW e, e \in LiveOf(freed) PROVE e \in LiveOf(bufs) /\ e # Ext(bufs[i])
    <3>1. PICK j \in 1 .. Len(bufs) : ~ freed[j].free /\ e = Ext(freed[j])
      BY <1>6, <2>1, LiveIs
    <3>2. j # i /\ freed[j] = bufs[j]
      BY <3>1, <1>3, <1>6
    <3> QED
      BY <3>1, <3>2, <1>1, <1>8, LiveIs
  <2>2. ASSUME NEW e, e \in LiveOf(bufs), e # Ext(bufs[i]) PROVE e \in LiveOf(freed)
    <3>1. PICK j \in 1 .. Len(bufs) : ~ bufs[j].free /\ e = Ext(bufs[j])
      BY <1>1, <2>2, LiveIs
    <3>2. j # i /\ freed[j] = bufs[j]
      BY <3>1, <2>2, <1>6
    <3> QED
      BY <3>1, <3>2, <1>6, LiveIs
  <2> QED
    BY <2>1, <2>2
<1>10. i \in 1 .. Len(freed)
  BY <1>6
<1>11. /\ LiveOf(merged) = LiveOf(freed)
       /\ Laid(merged, n) /\ Entries(merged) /\ Len(merged) >= i
  BY <1>5, <1>7, <1>10, MergeLaid, MergeLive
<1> HIDE DEF merged
<1>12. CASE i > 1
  <2>1. i - 1 \in 1 .. Len(merged)
    <3>1. Len(merged) \in Nat
      BY <1>11, LenProperties DEF Laid
    <3> QED
      BY <3>1, <1>1, <1>11, <1>12
  <2>2. LiveOf(before) = LiveOf(merged)
    BY <2>1, <1>11, MergeLive
  <2> QED
    BY <2>2, <1>4, <1>9, <1>11, <1>12
<1>13. CASE ~ (i > 1)
  BY <1>4, <1>9, <1>11, <1>13
<1> QED
  BY <1>12, <1>13

(* binder_buffer_alloc adds the extent it takes, at the start of the free  *)
(* buffer it found and within it, and touches no other.                    *)
LEMMA TakeLive ==
    ASSUME NEW bufs, NEW n, Laid(bufs, n), NEW i \in 1 .. Len(bufs), NEW need \in Nat,
           NEW is_async \in BOOLEAN, bufs[i].free, need > 0, bufs[i].size >= need
    PROVE  \E m \in Nat :
              /\ need <= m /\ m <= bufs[i].size
              /\ LiveOf(Take(bufs, i, need, is_async)) =
                   LiveOf(bufs) \cup {[offset |-> bufs[i].offset, size |-> m, need |-> need]}
<1> DEFINE taken == Taken(bufs[i], need, is_async)
           small == [taken EXCEPT !.size = need]
           rest  == FreeBuffer(bufs[i].offset + need, bufs[i].size - need)
           whole == [bufs EXCEPT ![i] = taken]
           cut   == [bufs EXCEPT ![i] = small]
           split == InsertAt(cut, i + 1, rest)
<1>1. bufs \in Seq(Buffer) /\ Len(bufs) \in Nat /\ i \in Nat /\ i >= 1 /\ i <= Len(bufs)
  BY LenProperties DEF Laid
<1>2. bufs[i] \in Buffer /\ bufs[i].offset \in Nat /\ bufs[i].size \in Nat
  BY <1>1, EntryTypes
<1>3. /\ taken \in Buffer /\ taken.offset = bufs[i].offset /\ taken.size = bufs[i].size
      /\ taken.need = need /\ taken.free = FALSE
  <2> DEFINE b == bufs[i]
  <2>1. b \in Buffer
    BY <1>2
  <2> HIDE DEF b
  <2>2. /\ Taken(b, need, is_async) \in Buffer
        /\ Taken(b, need, is_async).offset = b.offset
        /\ Taken(b, need, is_async).size = b.size
        /\ Taken(b, need, is_async).need = need
        /\ Taken(b, need, is_async).free = FALSE
    BY <2>1 DEF Buffer, Taken
  <2> QED
    BY <2>2 DEF b
<1>4. Take(bufs, i, need, is_async) =
        IF bufs[i].size - need >= BINDER_MIN_SPLIT THEN split ELSE whole
  BY DEF Take
<1>5. CASE ~ (bufs[i].size - need >= BINDER_MIN_SPLIT)
  <2> DEFINE new == [offset |-> bufs[i].offset, size |-> bufs[i].size, need |-> need]
  <2>1. Ext(taken) = new
    BY <1>3 DEF Ext
  <2> HIDE DEF taken, new
  <2>2. /\ whole \in Seq(Buffer) /\ Len(whole) = Len(bufs)
        /\ \A j \in 1 .. Len(bufs) : whole[j] = IF j = i THEN taken ELSE bufs[j]
    BY <1>1, <1>3, EntryTypes
  <2> HIDE DEF whole
  <2>3. LiveOf(whole) = LiveOf(bufs) \cup {new}
    <3>1. ASSUME NEW e, e \in LiveOf(whole) PROVE e \in LiveOf(bufs) \cup {new}
      <4>1. PICK j \in 1 .. Len(bufs) : ~ whole[j].free /\ e = Ext(whole[j])
        BY <2>2, <3>1, LiveIs
      <4> QED
        BY <4>1, <2>1, <2>2, <1>1, LiveIs
    <3>2. ASSUME NEW e, e \in LiveOf(bufs) PROVE e \in LiveOf(whole)
      <4>1. PICK j \in 1 .. Len(bufs) : ~ bufs[j].free /\ e = Ext(bufs[j])
        BY <1>1, <3>2, LiveIs
      <4>2. whole[j] = bufs[j]
        BY <4>1, <2>2
      <4> QED
        BY <4>1, <4>2, <2>2, LiveIs
    <3>3. new \in LiveOf(whole)
      <4>1. whole[i] = taken /\ ~ whole[i].free /\ i \in 1 .. Len(whole)
        BY <2>2, <1>3
      <4> QED
        BY <4>1, <2>1, <2>2, LiveIs
    <3> QED
      BY <3>1, <3>2, <3>3
  <2> QED
    BY <2>3, <1>2, <1>4, <1>5 DEF new
<1>6. CASE bufs[i].size - need >= BINDER_MIN_SPLIT
  <2> DEFINE new == [offset |-> bufs[i].offset, size |-> need, need |-> need]
  <2>1. /\ small \in Buffer /\ small.offset = bufs[i].offset /\ small.size = need
        /\ small.need = need /\ small.free = FALSE
    <3> HIDE DEF taken
    <3> QED
      BY <1>3, Resized
  <2>2. bufs[i].size - need \in Nat /\ bufs[i].offset + need \in Nat
    BY <1>2, <1>6 DEF BINDER_MIN_SPLIT
  <2>3. rest \in Buffer /\ rest.free = TRUE
    BY <2>2 DEF FreeBuffer, Buffer
  <2>4. Ext(small) = new
    <3> HIDE DEF small
    <3> QED
      BY <2>1 DEF Ext
  <2> HIDE DEF taken, small, rest, new
  <2>5. /\ cut \in Seq(Buffer) /\ Len(cut) = Len(bufs)
        /\ \A j \in 1 .. Len(bufs) : cut[j] = IF j = i THEN small ELSE bufs[j]
    BY <1>1, <2>1, EntryTypes
  <2> HIDE DEF cut
  <2>6. /\ split \in Seq(Buffer) /\ Len(split) = Len(bufs) + 1
        /\ \A j \in 1 .. Len(bufs) + 1 :
              split[j] = IF j < i + 1 THEN cut[j] ELSE IF j = i + 1 THEN rest ELSE cut[j - 1]
    <3> DEFINE k == i + 1
    <3>1. k \in 1 .. Len(cut) + 1 /\ cut \in Seq(Buffer) /\ rest \in Buffer
      BY <1>1, <2>3, <2>5
    <3> HIDE DEF k
    <3>2. /\ InsertAt(cut, k, rest) \in Seq(Buffer)
          /\ Len(InsertAt(cut, k, rest)) = Len(cut) + 1
          /\ \A j \in 1 .. Len(cut) + 1 :
                InsertAt(cut, k, rest)[j] = IF j < k THEN cut[j]
                                            ELSE IF j = k THEN rest ELSE cut[j - 1]
      BY <3>1, InsertAtIs
    <3> QED
      BY <3>2, <2>5 DEF k
  <2> HIDE DEF split
  <2>7. LiveOf(split) = LiveOf(bufs) \cup {new}
    <3>1. ASSUME NEW e, e \in LiveOf(split) PROVE e \in LiveOf(bufs) \cup {new}
      <4>1. PICK j \in 1 .. Len(bufs) + 1 : ~ split[j].free /\ e = Ext(split[j])
        BY <2>6, <3>1, LiveIs
      <4>2. j # i + 1
        BY <4>1, <2>3, <2>6
      <4>3. CASE j <= i
        <5>1. j \in 1 .. Len(bufs) /\ split[j] = IF j = i THEN small ELSE bufs[j]
          BY <4>3, <1>1, <2>5, <2>6
        <5> QED
          BY <5>1, <4>1, <2>4, <1>1, LiveIs
      <4>4. CASE j > i + 1
        <5>1. j - 1 \in 1 .. Len(bufs) /\ j - 1 # i /\ ~ (j < i + 1)
          BY <4>4, <1>1
        <5>2. split[j] = cut[j - 1]
          BY <5>1, <4>2, <2>6
        <5>3. cut[j - 1] = bufs[j - 1]
          BY <5>1, <2>5
        <5> QED
          BY <5>1, <5>2, <5>3, <4>1, <1>1, LiveIs
      <4> QED
        BY <4>2, <4>3, <4>4, <1>1
    <3>2. ASSUME NEW e, e \in LiveOf(bufs) PROVE e \in LiveOf(split)
      <4>1. PICK j \in 1 .. Len(bufs) : ~ bufs[j].free /\ e = Ext(bufs[j])
        BY <1>1, <3>2, LiveIs
      <4>2. j # i
        BY <4>1
      <4>3. CASE j < i
        <5>1. j \in 1 .. Len(bufs) + 1 /\ j < i + 1
          BY <4>3, <1>1
        <5>2. split[j] = cut[j] /\ j \in 1 .. Len(split)
          BY <5>1, <2>6
        <5>3. cut[j] = bufs[j]
          BY <4>2, <2>5
        <5> QED
          BY <5>2, <5>3, <4>1, <2>6, LiveIs
      <4>4. CASE j > i
        <5>1. j + 1 \in 1 .. Len(bufs) + 1 /\ j + 1 > i + 1 /\ (j + 1) - 1 = j
          BY <4>4, <1>1
        <5>2. j + 1 \in 1 .. Len(split) /\ split[j + 1] = bufs[j]
          BY <5>1, <4>2, <1>1, <2>5, <2>6
        <5> QED
          BY <5>2, <4>1, <2>6, LiveIs
      <4> QED
        BY <4>2, <4>3, <4>4, <1>1
    <3>3. new \in LiveOf(split)
      <4>1. split[i] = small /\ ~ split[i].free /\ i \in 1 .. Len(split)
        BY <1>1, <2>1, <2>5, <2>6
      <4> QED
        BY <4>1, <2>4, <2>6, LiveIs
    <3> QED
      BY <3>1, <3>2, <3>3
  <2> QED
    BY <2>7, <1>2, <1>4, <1>6 DEF new
<1> QED
  BY <1>5, <1>6

-----------------------------------------------------------------------------
(* Every buffer ends inside the arena, and apart from every other. *)
LEMMA LaidApart ==
    ASSUME NEW bufs, NEW n, Laid(bufs, n), NEW i \in 1 .. Len(bufs)
    PROVE  /\ bufs[i].offset \in Nat /\ bufs[i].size \in Nat /\ n \in Nat
           /\ bufs[i].offset + bufs[i].size <= n
           /\ \A j \in 1 .. Len(bufs) : j # i =>
                 \/ bufs[i].offset + bufs[i].size <= bufs[j].offset
                 \/ bufs[j].offset + bufs[j].size <= bufs[i].offset
<1> DEFINE m == Len(bufs)
<1>1. bufs \in Seq(Buffer) /\ m \in Nat /\ m > 0 /\ i \in Nat /\ m \in 1 .. Len(bufs)
  BY LenProperties DEF Laid
<1>2. \A j \in 1 .. Len(bufs) : bufs[j].offset \in Nat /\ bufs[j].size \in Nat
  BY <1>1, EntryTypes
<1>3. \A j, k \in 1 .. Len(bufs) : j < k => bufs[j].offset + bufs[j].size <= bufs[k].offset
  BY DEF Laid
<1>4. bufs[m].offset + bufs[m].size = n
  BY DEF Laid
<1>5. n \in Nat
  BY <1>1, <1>2, <1>4
<1>6. bufs[i].offset + bufs[i].size <= n
  <2>1. CASE i = m
    BY <2>1, <1>4, <1>5
  <2>2. CASE i # m
    <3> DEFINE x == bufs[i].offset + bufs[i].size   y == bufs[m].offset   z == bufs[m].size
    <3>1. x \in Nat /\ y \in Nat /\ z \in Nat /\ y + z = n
      BY <1>1, <1>2, <1>4
    <3>2. x <= y
      BY <2>2, <1>1, <1>3
    <3> HIDE DEF x, y, z
    <3>3. x <= n
      BY <3>1, <3>2
    <3> QED
      BY <3>3 DEF x
  <2> QED
    BY <2>1, <2>2
<1>7. ASSUME NEW j \in 1 .. Len(bufs), j # i
      PROVE  \/ bufs[i].offset + bufs[i].size <= bufs[j].offset
             \/ bufs[j].offset + bufs[j].size <= bufs[i].offset
  <2>1. i < j \/ j < i
    BY <1>1, <1>7
  <2> QED
    BY <2>1, <1>3
<1> QED
  BY <1>2, <1>5, <1>6, <1>7

(* The list of buffers implements the arena: every step of binder_alloc.c  *)
(* grants one extent, apart from all others and no shorter than what was   *)
(* asked for, or takes back the one named, or replaces the whole arena.    *)
THEOREM Refinement == Spec => ImplementsArena
<1>1. Init => A!Init
  BY DEF Init, A!Init, LiveOf
<1>2. IInv /\ [Next]_vars => [A!Next]_A!vars
  <2> SUFFICES ASSUME IInv, [Next]_vars PROVE [A!Next]_A!vars
    OBVIOUS
  <2>1. ASSUME NEW size \in ArenaSizes, Register(size) PROVE A!Register
    <3>1. arena_size = 0 /\ arena_size' \in Nat \ {0} /\ buffers = <<>>
      BY <2>1, ArenaAssumption DEF Register, IInv
    <3>2. buffers' = <<FreeBuffer(0, size)>>
      BY <2>1 DEF Register
    <3>3. LiveOf(buffers') = {}
      <4>1. FreeBuffer(0, size).free
        BY DEF FreeBuffer
      <4> DEFINE b == FreeBuffer(0, size)
      <4> HIDE DEF b
      <4>2. LiveOf(<<b>>) = {j \in {} : TRUE} \/ ~ b.free
        BY DEF LiveOf
      <4> QED
        BY <4>1, <4>2, <3>2 DEF b
    <3>4. LiveOf(buffers) = {}
      BY <3>1 DEF LiveOf
    <3> QED
      BY <3>1, <3>3, <3>4 DEF A!Register
  <2>2. ASSUME NEW data \in Sizes, NEW offsets \in Sizes, NEW extra \in Sizes,
               NEW is_async \in BOOLEAN, Alloc(data, offsets, extra, is_async)
        PROVE  A!Grant
    <3> DEFINE need == Need(data, offsets, extra)
    <3>1. need \in Nat
      BY ArenaAssumption, NeedAligned
    <3>2. /\ arena_size # 0 /\ need # 0 /\ UNCHANGED arena_size
          /\ \E i \in FirstFit(need) : buffers' = Take(buffers, i, need, is_async)
      BY <2>2 DEF Alloc
    <3> HIDE DEF need
    <3>3. Laid(buffers, arena_size) /\ buffers \in Seq(Buffer)
      BY <3>2, Registered
    <3>4. PICK i \in FirstFit(need) : buffers' = Take(buffers, i, need, is_async)
      BY <3>2
    <3>5. i \in 1 .. Len(buffers) /\ buffers[i].free /\ buffers[i].size >= need /\ need > 0
      BY <3>1, <3>2, <3>3, EntryTypes DEF FirstFit, Fits
    <3>6. PICK m \in Nat :
             /\ need <= m /\ m <= buffers[i].size
             /\ LiveOf(Take(buffers, i, need, is_async)) =
                  LiveOf(buffers) \cup {[offset |-> buffers[i].offset, size |-> m, need |-> need]}
      BY <3>1, <3>3, <3>5, TakeLive
    <3> DEFINE e == [offset |-> buffers[i].offset, size |-> m, need |-> need]
    <3>7. /\ buffers[i].offset \in Nat /\ buffers[i].size \in Nat /\ arena_size \in Nat
          /\ buffers[i].offset + buffers[i].size <= arena_size
      BY <3>3, <3>5, LaidApart
    <3>8. /\ e \in A!Extent /\ e.offset = buffers[i].offset /\ e.size = m /\ e.need = need
      BY <3>1, <3>7 DEF A!Extent
    <3> HIDE DEF e
    <3>9. A!End(e) <= arena_size
      <4>1. buffers[i].offset + m <= arena_size
        BY <3>6, <3>7
      <4> QED
        BY <4>1, <3>8 DEF A!End
    <3>10. ASSUME NEW f \in LiveOf(buffers) PROVE A!Apart(e, f)
      <4>1. PICK j \in 1 .. Len(buffers) : ~ buffers[j].free /\ f = Ext(buffers[j])
        BY <3>3, LiveIs
      <4>2. j # i /\ f.offset = buffers[j].offset /\ f.size = buffers[j].size
        BY <4>1, <3>5 DEF Ext
      <4>3. buffers[j].offset \in Nat /\ buffers[j].size \in Nat
        BY <3>3, EntryTypes
      <4>4. \/ buffers[i].offset + buffers[i].size <= buffers[j].offset
            \/ buffers[j].offset + buffers[j].size <= buffers[i].offset
        BY <4>2, <3>3, <3>5, LaidApart
      <4>5. \/ buffers[i].offset + m <= buffers[j].offset
            \/ buffers[j].offset + buffers[j].size <= buffers[i].offset
        <5> DEFINE a == buffers[i].offset
                   z == buffers[i].size
                   c == buffers[j].offset
        <5>1. a \in Nat /\ z \in Nat /\ c \in Nat /\ m <= z
          BY <4>3, <3>6, <3>7
        <5>2. a + z <= c \/ buffers[j].offset + buffers[j].size <= buffers[i].offset
          BY <4>4
        <5> HIDE DEF a, z, c
        <5>3. a + z <= c => a + m <= c
          BY <5>1
        <5> QED
          BY <5>2, <5>3 DEF a, c
      <4> QED
        BY <4>2, <4>5, <3>8 DEF A!Apart, A!End
    <3>11. LiveOf(buffers') = LiveOf(buffers) \cup {e}
      BY <3>4, <3>6 DEF e
    <3>12. e.need > 0 /\ e.need <= e.size
      BY <3>5, <3>6, <3>8
    <3> QED
      BY <3>2, <3>8, <3>9, <3>10, <3>11, <3>12 DEF A!Grant
  <2>3. ASSUME NEW i \in DOMAIN buffers, Free(i) PROVE A!Giveback
    <3>1. arena_size # 0
      <4>1. buffers # <<>>
        BY <2>3
      <4> QED
        BY <4>1 DEF IInv
    <3>2. /\ Laid(buffers, arena_size) /\ Entries(buffers) /\ buffers \in Seq(Buffer)
          /\ i \in 1 .. Len(buffers)
      BY <3>1, Registered
    <3>3. ~ buffers[i].free /\ buffers' = Release(buffers, i) /\ UNCHANGED arena_size
      BY <2>3 DEF Free
    <3>4. LiveOf(buffers') = LiveOf(buffers) \ {Ext(buffers[i])}
      BY <3>2, <3>3, ReleaseLive
    <3>5. Ext(buffers[i]) \in LiveOf(buffers)
      BY <3>2, <3>3, LiveIs
    <3> QED
      BY <3>3, <3>4, <3>5 DEF A!Giveback
  <2>4. ASSUME Teardown PROVE A!Teardown
    <3>1. LiveOf(<<>>) = {}
      BY DEF LiveOf
    <3> QED
      BY <2>4, <3>1 DEF Teardown, A!Teardown
  <2>5. CASE UNCHANGED vars
    BY <2>5 DEF vars, A!vars, LiveOf, Ext
  <2> QED
    BY <2>1, <2>2, <2>3, <2>4, <2>5 DEF Next, A!Next
<1> QED
  BY <1>1, <1>2, Inductive, PTL DEF Spec, ImplementsArena, A!Spec

-----------------------------------------------------------------------------
(* A set of natural numbers that is not empty has a least element. *)
LEMMA Least ==
    ASSUME NEW T, T \subseteq Nat, T # {}
    PROVE  \E x \in T : \A y \in T : x <= y
<1>1. PICK x \in T : \A y \in T : ~ (<<y, x>> \in OpToRel(<, Nat))
  BY NatLessThanWellFounded, WFMin
<1>2. ASSUME NEW y \in T PROVE x <= y
  <2>1. x \in Nat /\ y \in Nat
    OBVIOUS
  <2>2. ~ (<<y, x>> \in OpToRel(<, Nat))
    BY <1>1
  <2>3. ~ (y < x)
    BY <2>1, <2>2 DEF OpToRel
  <2> QED
    BY <2>1, <2>3
<1> QED
  BY <1>2

(* Every byte of the arena is in a buffer. *)
LEMMA ByteInBuffer ==
    ASSUME NEW bufs, NEW n, Laid(bufs, n), NEW o \in Nat, o < n
    PROVE  \E i \in 1 .. Len(bufs) : bufs[i].offset <= o /\ o < bufs[i].offset + bufs[i].size
<1> DEFINE T == {j \in 1 .. Len(bufs) : o < bufs[j].offset + bufs[j].size}
<1>1. /\ bufs \in Seq(Buffer) /\ Len(bufs) \in Nat /\ Len(bufs) > 0 /\ bufs[1].offset = 0
      /\ bufs[Len(bufs)].offset + bufs[Len(bufs)].size = n
      /\ \A j \in 1 .. Len(bufs) - 1 : bufs[j + 1].offset = bufs[j].offset + bufs[j].size
  BY LenProperties DEF Laid
<1>2. \A j \in 1 .. Len(bufs) : bufs[j].offset \in Nat /\ bufs[j].size \in Nat
  BY <1>1, EntryTypes
<1>3. Len(bufs) \in T
  BY <1>1
<1>4. PICK i \in T : \A j \in T : i <= j
  <2>1. T \subseteq Nat /\ T # {}
    BY <1>1, <1>3
  <2> HIDE DEF T
  <2> QED
    BY <2>1, Least
<1>5. i \in 1 .. Len(bufs) /\ o < bufs[i].offset + bufs[i].size
  BY <1>4
<1>6. bufs[i].offset <= o
  <2>1. CASE i = 1
    BY <2>1, <1>1
  <2>2. CASE i # 1
    <3>1. i - 1 \in 1 .. Len(bufs) - 1 /\ i - 1 \in 1 .. Len(bufs) /\ (i - 1) + 1 = i
      BY <2>2, <1>1, <1>5
    <3>2. bufs[i].offset = bufs[i - 1].offset + bufs[i - 1].size
      BY <3>1, <1>1
    <3>3. i - 1 \notin T
      BY <3>1, <1>4, <1>5
    <3>4. ~ (o < bufs[i - 1].offset + bufs[i - 1].size)
      BY <3>1, <3>3
    <3>5. bufs[i].offset \in Nat /\ ~ (o < bufs[i].offset)
      BY <3>2, <3>4, <1>2, <1>5
    <3> QED
      BY <3>5
  <2> QED
    BY <2>1, <2>2
<1> QED
  BY <1>5, <1>6

(* binder_buffer_alloc refuses a request only when no gap between the live *)
(* parcels would hold it: free space is never lost to its being cut up.    *)
THEOREM NothingRefused == Spec => []NoFalseRefusal
<1>1. IInv => NoFalseRefusal
  <2> SUFFICES ASSUME IInv, NEW data \in Sizes, NEW offsets \in Sizes, NEW extra \in Sizes,
                      NEW need, need = Need(data, offsets, extra),
                      arena_size # 0, need > 0, FirstFit(need) = {},
                      NEW o \in 0 .. arena_size - need
               PROVE  \E i \in DOMAIN buffers :
                         /\ ~ buffers[i].free
                         /\ buffers[i].offset < o + need
                         /\ o < buffers[i].offset + buffers[i].size
    BY DEF NoFalseRefusal
  <2>1. need \in Nat /\ arena_size \in Nat /\ o \in Nat /\ o + need <= arena_size /\ o < arena_size
    <3>1. need \in Nat
      BY ArenaAssumption, NeedAligned
    <3>2. arena_size \in Nat
      BY DEF IInv
    <3> QED
      BY <3>1, <3>2
  <2>2. /\ Laid(buffers, arena_size) /\ CoalescedBut(buffers, {})
        /\ buffers \in Seq(Buffer) /\ Len(buffers) \in Nat
        /\ DOMAIN buffers = 1 .. Len(buffers)
        /\ \A i \in DOMAIN buffers : buffers[i].offset \in Nat /\ buffers[i].size \in Nat
    BY Registered
  <2>3. ASSUME NEW i \in DOMAIN buffers PROVE ~ Fits(buffers[i], need)
    <3> DEFINE T == {j \in DOMAIN buffers : Fits(buffers[j], need)}
    <3> SUFFICES ASSUME i \in T PROVE FALSE
      OBVIOUS
    <3>1. T \subseteq Nat /\ T # {}
      BY <2>2
    <3>2. PICK j \in T : \A k \in T : j <= k
      <4> HIDE DEF T
      <4> QED
        BY <3>1, Least
    <3>3. \A k \in 1 .. j - 1 : ~ Fits(buffers[k], need)
      <4> SUFFICES ASSUME NEW k \in 1 .. j - 1, Fits(buffers[k], need) PROVE FALSE
        OBVIOUS
      <4>1. j \in 1 .. Len(buffers)
        BY <3>2, <2>2
      <4>2. k \in DOMAIN buffers /\ k < j
        BY <4>1, <2>2
      <4>3. k \in T
        BY <4>2
      <4> QED
        BY <4>1, <4>2, <4>3, <3>2, <2>2
    <3>4. j \in FirstFit(need)
      BY <3>2, <3>3 DEF FirstFit
    <3> QED
      BY <3>4
  <2>4. PICK i \in 1 .. Len(buffers) :
           buffers[i].offset <= o /\ o < buffers[i].offset + buffers[i].size
    BY <2>1, <2>2, ByteInBuffer
  <2>5. buffers[i].offset \in Nat /\ buffers[i].size \in Nat
    BY <2>2
  <2>6. CASE ~ buffers[i].free
    <3>1. buffers[i].offset < o + need
      BY <2>1, <2>4, <2>5
    <3> QED
      BY <3>1, <2>2, <2>4, <2>6
  <2>7. CASE buffers[i].free
    <3>1. ~ (buffers[i].size >= need)
      BY <2>2, <2>3, <2>7 DEF Fits
    <3>2. buffers[i].offset + buffers[i].size < o + need
      BY <3>1, <2>1, <2>4, <2>5
    <3>3. i # Len(buffers)
      <4>1. buffers[Len(buffers)].offset + buffers[Len(buffers)].size = arena_size
        BY <2>2 DEF Laid
      <4> DEFINE x == buffers[i].offset + buffers[i].size
      <4>2. x \in Nat /\ x < o + need
        BY <3>2, <2>5
      <4>3. x # arena_size
        <5> HIDE DEF x
        <5> QED
          BY <4>2, <2>1
      <4> QED
        BY <4>1, <4>3
    <3>4. i \in 1 .. Len(buffers) - 1 /\ i + 1 \in 1 .. Len(buffers)
      BY <3>3, <2>2
    <3>5. ~ buffers[i + 1].free
      BY <3>4, <2>2, <2>7 DEF CoalescedBut
    <3>6. buffers[i + 1].offset = buffers[i].offset + buffers[i].size /\ buffers[i + 1].size > 0
      BY <3>4, <2>2 DEF Laid
    <3>7. buffers[i + 1].offset \in Nat /\ buffers[i + 1].size \in Nat
      BY <3>4, <2>2
    <3>8. buffers[i + 1].offset < o + need /\ o < buffers[i + 1].offset + buffers[i + 1].size
      <4> DEFINE x == buffers[i].offset + buffers[i].size
                 y == buffers[i + 1].offset   z == buffers[i + 1].size
      <4>1. x < o + need /\ o < x /\ y = x /\ z > 0 /\ y \in Nat /\ z \in Nat
        BY <3>2, <3>6, <3>7, <2>4
      <4>2. y < o + need /\ o < y + z
        <5> HIDE DEF x, y, z
        <5> QED
          BY <4>1, <2>1
      <4> QED
        BY <4>2
    <3> QED
      BY <3>4, <3>5, <3>8, <2>2
  <2> QED
    BY <2>6, <2>7
<1> QED
  BY <1>1, Inductive, PTL

=============================================================================
