------------------------- MODULE BinderParcelProofs -------------------------
(***************************************************************************)
(* Proofs about BinderParcel, for every arena, every set of parcels and    *)
(* any number of objects in them.                                          *)
(*                                                                         *)
(* What is inductive is stated parcel by parcel (Good): the copies so far  *)
(* lie below sg_used, the objects before i are resolved and the ones from  *)
(* i on are as they were sent.  PInv joins it to the arena: the offsets of *)
(* the live extents are those of the parcels, which needs the invariant of *)
(* the allocator, since otherwise two extents could start at one offset.   *)
(***************************************************************************)
EXTENDS BinderParcel, BinderAllocRefines

-----------------------------------------------------------------------------
(* Merging changes nothing where two neighbours are not both free. *)
LEMMA MergeNothing ==
    ASSUME NEW bufs, NEW i, ~ (i < Len(bufs) /\ bufs[i].free /\ bufs[i + 1].free)
    PROVE  MergeNext(bufs, i) = bufs
BY DEF MergeNext

(* A free entry is what FreeBuffer makes. *)
LEMMA FreeEntry ==
    ASSUME NEW b \in Buffer, Entry(b), b.free
    PROVE  b = FreeBuffer(b.offset, b.size)
BY DEF Entry, Buffer, FreeBuffer

(* binder_buffer_free undoes binder_buffer_alloc: what was split off is    *)
(* merged again, and nothing else is, since the list was coalesced.        *)
LEMMA UndoTake ==
    ASSUME NEW bufs, NEW n, Laid(bufs, n), Entries(bufs), CoalescedBut(bufs, {}),
           NEW i \in 1 .. Len(bufs), NEW need \in Nat, NEW is_async \in BOOLEAN,
           bufs[i].free, need > 0, bufs[i].size >= need
    PROVE  /\ i \in DOMAIN Take(bufs, i, need, is_async)
           /\ Take(bufs, i, need, is_async)[i].offset = bufs[i].offset
           /\ Release(Take(bufs, i, need, is_async), i) = bufs
<1> DEFINE taken == Taken(bufs[i], need, is_async)
           small == [taken EXCEPT !.size = need]
           rest  == FreeBuffer(bufs[i].offset + need, bufs[i].size - need)
           whole == [bufs EXCEPT ![i] = taken]
           cut   == [bufs EXCEPT ![i] = small]
           split == InsertAt(cut, i + 1, rest)
<1>1. bufs \in Seq(Buffer) /\ Len(bufs) \in Nat /\ i \in Nat /\ i >= 1 /\ i <= Len(bufs)
  BY LenProperties DEF Laid
<1>2. /\ bufs[i] \in Buffer /\ bufs[i].offset \in Nat /\ bufs[i].size \in Nat
      /\ bufs[i] = FreeBuffer(bufs[i].offset, bufs[i].size)
  BY <1>1, EntryTypes, FreeEntry DEF Entries
<1>3. /\ taken \in Buffer /\ taken.offset = bufs[i].offset /\ taken.size = bufs[i].size
  <2> DEFINE b == bufs[i]
  <2>1. b \in Buffer
    BY <1>2
  <2> HIDE DEF b
  <2>2. /\ Taken(b, need, is_async) \in Buffer
        /\ Taken(b, need, is_async).offset = b.offset
        /\ Taken(b, need, is_async).size = b.size
    BY <2>1 DEF Buffer, Taken
  <2> QED
    BY <2>2 DEF b
<1>4. Take(bufs, i, need, is_async) =
        IF bufs[i].size - need >= BINDER_MIN_SPLIT THEN split ELSE whole
  BY DEF Take
<1>5. MergeNext(bufs, i) = bufs
  <2>1. ~ (i < Len(bufs) /\ bufs[i].free /\ bufs[i + 1].free)
    BY <1>1 DEF CoalescedBut
  <2> QED
    BY <2>1, MergeNothing
<1>6. i > 1 => MergeNext(bufs, i - 1) = bufs
  <2> SUFFICES ASSUME i > 1 PROVE MergeNext(bufs, i - 1) = bufs
    OBVIOUS
  <2> DEFINE k == i - 1
  <2>1. k \in 1 .. Len(bufs) - 1 /\ k + 1 = i
    BY <1>1
  <2>2. ~ (bufs[k].free /\ bufs[k + 1].free)
    BY <2>1 DEF CoalescedBut
  <2> QED
    BY <2>2, MergeNothing
<1>7. CASE ~ (bufs[i].size - need >= BINDER_MIN_SPLIT)
  <2>1. Take(bufs, i, need, is_async) = whole
    BY <1>4, <1>7
  <2> HIDE DEF taken
  <2>2. /\ whole \in Seq(Buffer) /\ Len(whole) = Len(bufs) /\ DOMAIN whole = 1 .. Len(bufs)
        /\ \A j \in 1 .. Len(bufs) : whole[j] = IF j = i THEN taken ELSE bufs[j]
    BY <1>1, <1>3, EntryTypes
  <2> HIDE DEF whole
  <2> DEFINE freed == [whole EXCEPT ![i] = FreeBuffer(whole[i].offset, whole[i].size)]
  <2>3. FreeBuffer(whole[i].offset, whole[i].size) = bufs[i]
    BY <2>2, <1>1, <1>2, <1>3
  <2>4. /\ freed \in Seq(Buffer) /\ Len(freed) = Len(bufs)
        /\ \A j \in 1 .. Len(bufs) : freed[j] = IF j = i THEN bufs[i] ELSE whole[j]
    BY <1>1, <1>2, <2>2, <2>3
  <2>5. freed = bufs
    <3> HIDE DEF freed
    <3>1. \A j \in 1 .. Len(freed) : freed[j] = bufs[j]
      BY <2>2, <2>4
    <3> QED
      BY <3>1, <2>4, <1>1, SeqEqual
  <2>6. Release(whole, i) = IF i > 1 THEN MergeNext(MergeNext(freed, i), i - 1)
                                     ELSE MergeNext(freed, i)
    BY DEF Release
  <2> HIDE DEF freed
  <2>7. Release(whole, i) = bufs
    BY <2>5, <2>6, <1>5, <1>6
  <2> QED
    BY <2>1, <2>2, <2>7, <1>1, <1>3
<1>8. CASE bufs[i].size - need >= BINDER_MIN_SPLIT
  <2>1. Take(bufs, i, need, is_async) = split
    BY <1>4, <1>8
  <2>2. /\ small \in Buffer /\ small.offset = bufs[i].offset /\ small.size = need
    BY <1>3, Resized
  <2>3. /\ rest \in Buffer /\ rest.free = TRUE /\ rest.size = bufs[i].size - need
    <3>1. bufs[i].offset + need \in Nat /\ bufs[i].size - need \in Nat
      BY <1>2
    <3> QED
      BY <3>1 DEF FreeBuffer, Buffer
  <2> HIDE DEF small, rest
  <2>4. /\ cut \in Seq(Buffer) /\ Len(cut) = Len(bufs)
        /\ \A j \in 1 .. Len(bufs) : cut[j] = IF j = i THEN small ELSE bufs[j]
    BY <1>1, <2>2, EntryTypes
  <2> HIDE DEF cut
  <2>5. /\ split \in Seq(Buffer) /\ Len(split) = Len(bufs) + 1
        /\ \A j \in 1 .. Len(bufs) + 1 :
              split[j] = IF j < i + 1 THEN cut[j] ELSE IF j = i + 1 THEN rest ELSE cut[j - 1]
    <3> DEFINE m == i + 1
    <3>1. cut \in Seq(Buffer) /\ m \in 1 .. Len(cut) + 1 /\ rest \in Buffer
      BY <1>1, <2>3, <2>4
    <3> HIDE DEF m
    <3>2. /\ InsertAt(cut, m, rest) \in Seq(Buffer)
          /\ Len(InsertAt(cut, m, rest)) = Len(cut) + 1
          /\ \A j \in 1 .. Len(cut) + 1 : InsertAt(cut, m, rest)[j] =
                IF j < m THEN cut[j] ELSE IF j = m THEN rest ELSE cut[j - 1]
      BY <3>1, InsertAtIs
    <3> QED
      BY <2>4, <3>2 DEF m
  <2> HIDE DEF split
  <2>6. /\ DOMAIN split = 1 .. Len(bufs) + 1 /\ i \in DOMAIN split
        /\ split[i] = small /\ split[i + 1] = rest
        /\ \A j \in 1 .. Len(bufs) : /\ j < i => split[j] = bufs[j]
                                     /\ j > i => split[j + 1] = bufs[j]
    <3>1. DOMAIN split = 1 .. Len(bufs) + 1
      BY <2>5, EntryTypes
    <3>2. split[i] = small /\ split[i + 1] = rest
      BY <1>1, <2>4, <2>5
    <3>3. ASSUME NEW j \in 1 .. Len(bufs), j < i PROVE split[j] = bufs[j]
      BY <3>3, <1>1, <2>4, <2>5
    <3>4. ASSUME NEW j \in 1 .. Len(bufs), j > i PROVE split[j + 1] = bufs[j]
      <4>1. j + 1 \in 1 .. Len(bufs) + 1 /\ ~ (j + 1 < i + 1) /\ j + 1 # i + 1 /\ (j + 1) - 1 = j
        BY <3>4, <1>1
      <4> QED
        BY <4>1, <3>4, <2>4, <2>5
    <3> QED
      BY <3>1, <3>2, <3>3, <3>4, <1>1
  <2> DEFINE mine  == FreeBuffer(split[i].offset, split[i].size)
             freed == [split EXCEPT ![i] = mine]
             big   == [freed[i] EXCEPT !.size = @ + freed[i + 1].size]
             grown == [freed EXCEPT ![i] = big]
             new   == RemoveAt(grown, i + 1)
  <2>7. mine = FreeBuffer(bufs[i].offset, need) /\ mine \in Buffer
    <3>1. mine = FreeBuffer(bufs[i].offset, need)
      BY <2>2, <2>6
    <3> QED
      BY <3>1, <1>2 DEF FreeBuffer, Buffer
  <2> HIDE DEF mine
  <2>8. /\ freed \in Seq(Buffer) /\ Len(freed) = Len(bufs) + 1
        /\ freed[i] = mine /\ freed[i + 1] = rest
        /\ \A j \in 1 .. Len(bufs) + 1 : j # i => freed[j] = split[j]
    BY <1>1, <2>5, <2>6, <2>7
  <2>9. MergeNext(freed, i) = new
    <3>1. i < Len(freed) /\ freed[i].free /\ freed[i + 1].free
      BY <1>1, <2>3, <2>7, <2>8 DEF FreeBuffer
    <3> QED
      BY <3>1 DEF MergeNext
  <2>10. Release(split, i) = IF i > 1 THEN MergeNext(MergeNext(freed, i), i - 1)
                                      ELSE MergeNext(freed, i)
    BY DEF Release, mine
  <2> HIDE DEF freed
  <2>11. big = bufs[i]
    <3>1. big = [FreeBuffer(bufs[i].offset, need) EXCEPT !.size = @ + (bufs[i].size - need)]
      BY <2>3, <2>7, <2>8
    <3>2. need + (bufs[i].size - need) = bufs[i].size
      BY <1>2
    <3> HIDE DEF big
    <3>3. big = FreeBuffer(bufs[i].offset, need + (bufs[i].size - need))
      BY <3>1 DEF FreeBuffer
    <3> QED
      BY <3>2, <3>3, <1>2
  <2> HIDE DEF big
  <2>12. /\ grown \in Seq(Buffer) /\ Len(grown) = Len(bufs) + 1
         /\ \A j \in 1 .. Len(bufs) + 1 : grown[j] = IF j = i THEN bufs[i] ELSE freed[j]
    BY <1>1, <1>2, <2>8, <2>11
  <2> HIDE DEF grown
  <2>13. /\ new \in Seq(Buffer) /\ Len(new) = Len(bufs)
         /\ \A j \in 1 .. Len(bufs) : new[j] = IF j < i + 1 THEN grown[j] ELSE grown[j + 1]
    <3> DEFINE m == i + 1
    <3>1. grown \in Seq(Buffer) /\ m \in 1 .. Len(grown)
      BY <1>1, <2>12
    <3> HIDE DEF m
    <3>2. /\ RemoveAt(grown, m) \in Seq(Buffer)
          /\ Len(RemoveAt(grown, m)) = Len(grown) - 1
          /\ \A j \in 1 .. Len(grown) - 1 :
                RemoveAt(grown, m)[j] = IF j < m THEN grown[j] ELSE grown[j + 1]
      BY <3>1, RemoveAtIs
    <3>3. Len(grown) - 1 = Len(bufs)
      BY <1>1, <2>12
    <3> QED
      BY <3>2, <3>3 DEF m
  <2> HIDE DEF new
  <2>14. ASSUME NEW j \in 1 .. Len(bufs) PROVE new[j] = bufs[j]
    <3>1. CASE j < i
      BY <3>1, <1>1, <2>6, <2>8, <2>12, <2>13
    <3>2. CASE j = i
      BY <3>2, <1>1, <2>12, <2>13
    <3>3. CASE j > i
      <4>1. j + 1 \in 1 .. Len(bufs) + 1 /\ j + 1 # i /\ ~ (j < i + 1)
        BY <3>3, <1>1
      <4> QED
        BY <4>1, <3>3, <2>6, <2>8, <2>12, <2>13
    <3> QED
      BY <3>1, <3>2, <3>3, <1>1
  <2>15. new = bufs
    BY <2>13, <2>14, <1>1, SeqEqual
  <2>16. Release(split, i) = bufs
    BY <2>9, <2>10, <2>15, <1>6
  <2> QED
    BY <2>1, <2>2, <2>6, <2>16
<1> QED
  BY <1>7, <1>8

-----------------------------------------------------------------------------
(* What PointersResolve says of object j of parcel q. *)
Resolved(q, j) ==
    LET old == q.sent[j]
        new == q.objs[j]
    IN  IF old.type = "PTR"
        THEN \E c \in q.copies :
                /\ c.src = old.buffer /\ c.len = old.length
                /\ new = [old EXCEPT !.buffer = Addr + q.at + SgArea(q) + c.at]
        ELSE old.type # "FLAT" =>
                new = IF old.type = "FD" THEN [old EXCEPT !.length = Pid] ELSE old

Apart(c, d) == c.at + c.len <= d.at \/ d.at + d.len <= c.at

Good(q) ==
    /\ q \in Transaction
    /\ q.extra <= BINDER_MAX_TRANSACTION_SIZE
    /\ Len(q.sent) = Len(q.objs) /\ q.i <= Len(q.objs) + 1
    /\ q.sg_used <= BINDER_ALIGN(q.extra)
    /\ \A c \in q.copies : c.at + c.len <= q.sg_used
    /\ \A c, d \in q.copies : c # d => Apart(c, d)
    /\ \A j \in 1 .. Len(q.objs) : j >= q.i => q.objs[j] = q.sent[j]
    /\ \A j \in 1 .. q.i - 1 : Resolved(q, j)

(* The fields of a transaction. *)
LEMMA Fields ==
    ASSUME NEW q \in Transaction
    PROVE  /\ q.data \in Nat /\ q.extra \in Nat /\ q.at \in Nat /\ q.i \in Nat
           /\ q.sg_used \in Nat /\ q.copies \subseteq Copy
           /\ q.objs \in Seq(Object) /\ q.sent \in Seq(Object)
           /\ Len(q.objs) \in Nat /\ Len(q.sent) \in Nat
           /\ DOMAIN q.objs = 1 .. Len(q.objs)
<1>1. /\ q.data \in Nat /\ q.extra \in Nat /\ q.at \in Nat /\ q.i \in Nat
      /\ q.sg_used \in Nat /\ q.copies \subseteq Copy
      /\ q.objs \in Seq(Object) /\ q.sent \in Seq(Object)
  BY DEF Transaction
<1> QED
  BY <1>1, LenProperties

(* Moving on to the next object: the object is rewritten to o, and at most *)
(* one copy is added, behind the ones there are.                           *)
Moved(q, p, o) ==
    /\ p \in Transaction /\ q.i \in 1 .. Len(q.objs) /\ o \in Object
    /\ p.data = q.data /\ p.extra = q.extra /\ p.sent = q.sent /\ p.at = q.at
    /\ p.i = q.i + 1 /\ p.objs = [q.objs EXCEPT ![q.i] = o]
    /\ q.sg_used <= p.sg_used /\ p.sg_used <= BINDER_ALIGN(q.extra)
    /\ q.copies \subseteq p.copies
    /\ \A c \in p.copies \ q.copies : c.at = q.sg_used /\ c.at + c.len <= p.sg_used
    /\ \A c, d \in p.copies \ q.copies : c = d
    /\ Resolved(p, q.i)

(* Such a step keeps what is known of the parcel, and its total. *)
LEMMA Advance ==
    ASSUME NEW q, NEW p, NEW o, Good(q), Moved(q, p, o)
    PROVE  Good(p) /\ Total(p) = Total(q) /\ p.at = q.at
<1>0. /\ p \in Transaction /\ q.i \in 1 .. Len(q.objs) /\ o \in Object
      /\ p.data = q.data /\ p.extra = q.extra /\ p.sent = q.sent /\ p.at = q.at
      /\ p.i = q.i + 1 /\ p.objs = [q.objs EXCEPT ![q.i] = o]
      /\ q.sg_used <= p.sg_used /\ p.sg_used <= BINDER_ALIGN(q.extra)
      /\ q.copies \subseteq p.copies
      /\ \A c \in p.copies \ q.copies : c.at = q.sg_used /\ c.at + c.len <= p.sg_used
      /\ \A c, d \in p.copies \ q.copies : c = d
      /\ Resolved(p, q.i)
  BY DEF Moved
<1> USE <1>0
<1>1. /\ q \in Transaction
      /\ q.objs \in Seq(Object) /\ Len(q.objs) \in Nat /\ q.i \in Nat /\ q.sg_used \in Nat
      /\ q.copies \subseteq Copy
      /\ p.copies \subseteq Copy /\ p.sg_used \in Nat
  BY Fields DEF Good
<1>2. /\ Len(p.objs) = Len(q.objs)
      /\ \A j \in 1 .. Len(q.objs) : p.objs[j] = IF j = q.i THEN o ELSE q.objs[j]
  BY <1>1
<1>3. SgArea(p) = SgArea(q) /\ Total(p) = Total(q)
  BY <1>2 DEF SgArea, OffArea, Total
<1>4. ASSUME NEW c \in Copy PROVE c.at \in Nat /\ c.len \in Nat
  BY DEF Copy
<1>5. ASSUME NEW c \in p.copies PROVE c.at + c.len <= p.sg_used
  <2>1. CASE c \in q.copies
    <3>1. c.at + c.len <= q.sg_used /\ c.at + c.len \in Nat
      BY <2>1, <1>1, <1>4 DEF Good
    <3> QED
      BY <3>1, <1>1
  <2> QED
    BY <2>1
<1>6. ASSUME NEW c \in p.copies, NEW d \in p.copies, c # d PROVE Apart(c, d)
  <2>1. CASE c \in q.copies /\ d \in q.copies
    BY <2>1, <1>6 DEF Good
  <2>2. CASE c \in q.copies /\ d \notin q.copies
    BY <2>2 DEF Good, Apart
  <2>3. CASE c \notin q.copies /\ d \in q.copies
    BY <2>3 DEF Good, Apart
  <2> QED
    BY <2>1, <2>2, <2>3, <1>6
<1>7. ASSUME NEW j \in 1 .. Len(p.objs), j >= p.i PROVE p.objs[j] = p.sent[j]
  <2>1. j \in 1 .. Len(q.objs) /\ j # q.i /\ j >= q.i
    BY <1>1, <1>2, <1>7
  <2> QED
    BY <2>1, <1>2 DEF Good
<1>8. ASSUME NEW j \in 1 .. p.i - 1 PROVE Resolved(p, j)
  <2>1. CASE j = q.i
    BY <2>1
  <2>2. CASE j # q.i
    <3>1. j \in 1 .. q.i - 1 /\ j \in 1 .. Len(q.objs)
      BY <2>2, <1>1
    <3>2. Resolved(q, j)
      BY <3>1 DEF Good
    <3>3. p.objs[j] = q.objs[j]
      BY <3>1, <1>2, <2>2
    <3>4. CASE q.sent[j].type = "PTR"
      <4>1. PICK c \in q.copies :
                /\ c.src = q.sent[j].buffer /\ c.len = q.sent[j].length
                /\ q.objs[j] = [q.sent[j] EXCEPT !.buffer = Addr + q.at + SgArea(q) + c.at]
        BY <3>2, <3>4, Zenon DEF Resolved
      <4>2. /\ c \in p.copies /\ c.src = p.sent[j].buffer /\ c.len = p.sent[j].length
            /\ p.objs[j] = [p.sent[j] EXCEPT !.buffer = Addr + p.at + SgArea(p) + c.at]
        BY <4>1, <3>3, <1>3, Zenon
      <4> QED
        BY <4>2, <3>4, Zenon DEF Resolved
    <3>5. CASE q.sent[j].type # "PTR"
      BY <3>2, <3>3, <3>5, Zenon DEF Resolved
    <3> QED
      BY <3>4, <3>5
  <2> QED
    BY <2>1, <2>2
<1>9. Len(p.sent) = Len(p.objs) /\ p.i <= Len(p.objs) + 1
  BY <1>1, <1>2 DEF Good
<1>10. p.extra <= BINDER_MAX_TRANSACTION_SIZE
  BY DEF Good
<1> QED
  BY <1>3, <1>5, <1>6, <1>7, <1>8, <1>9, <1>10 DEF Good

(* BINDER_ALIGN rounds up, by less than 8. *)
LEMMA AlignUp ==
    ASSUME NEW n \in Nat
    PROVE  BINDER_ALIGN(n) \in Nat /\ n <= BINDER_ALIGN(n) /\ BINDER_ALIGN(n) < n + 8
BY DEF BINDER_ALIGN

(* A length that is at most the announced size does not wrap. *)
LEMMA NoWrap ==
    ASSUME NEW n \in Nat, n <= BINDER_MAX_TRANSACTION_SIZE
    PROVE  Rounded(n) \in Nat /\ n <= Rounded(n)
<1> DEFINE a == BINDER_ALIGN(n)
<1>1. a \in Nat /\ n <= a /\ a < n + 8
  BY AlignUp
<1> HIDE DEF a
<1>2. a < WORD /\ WORD \in Nat
  BY <1>1, ParcelAssumption
<1>3. a % WORD = a
  BY <1>1, <1>2
<1> QED
  BY <1>1, <1>3 DEF Rounded, a

(* The object under the loop's index is as it was sent. *)
LEMMA CurrentIs ==
    ASSUME Good(tr), tr.i \in DOMAIN tr.objs
    PROVE  /\ tr \in Transaction /\ tr.i \in 1 .. Len(tr.objs) /\ tr.i \in Nat
           /\ tr.objs \in Seq(Object) /\ tr.sg_used \in Nat /\ tr.copies \subseteq Copy
           /\ Current \in Object /\ Current = tr.sent[tr.i]
<1>1. /\ tr \in Transaction /\ tr.i \in 1 .. Len(tr.objs) /\ tr.i \in Nat
      /\ tr.objs \in Seq(Object) /\ tr.sg_used \in Nat /\ tr.copies \subseteq Copy
  BY Fields DEF Good
<1>2. tr.objs[tr.i] \in Object
  BY <1>1
<1>3. tr.objs[tr.i] = tr.sent[tr.i]
  BY <1>1 DEF Good
<1> QED
  BY <1>1, <1>2, <1>3 DEF Current

(* An object that adds no copy. *)
LEMMA AdvanceSame ==
    ASSUME Good(tr), tr.i \in DOMAIN tr.objs, NEW o \in Object,
           NEW p, p = [tr EXCEPT !.i = tr.i + 1, !.objs = [tr.objs EXCEPT ![tr.i] = o]],
           Current.type # "PTR",
           Current.type # "FLAT" =>
              o = IF Current.type = "FD" THEN [Current EXCEPT !.length = Pid] ELSE Current
    PROVE  Good(p) /\ Total(p) = Total(tr) /\ p.at = tr.at
<1> DEFINE objs == [tr.objs EXCEPT ![tr.i] = o]
<1>1. /\ tr \in Transaction /\ tr.i \in 1 .. Len(tr.objs) /\ tr.i \in Nat
      /\ tr.objs \in Seq(Object) /\ tr.sg_used \in Nat /\ tr.copies \subseteq Copy
      /\ Current = tr.sent[tr.i]
  BY CurrentIs
<1>2. objs \in Seq(Object) /\ objs[tr.i] = o
  BY <1>1
<1> HIDE DEF objs
<1>3. /\ p.data = tr.data /\ p.extra = tr.extra /\ p.sent = tr.sent /\ p.at = tr.at
      /\ p.i = tr.i + 1 /\ p.objs = objs /\ p.sg_used = tr.sg_used /\ p.copies = tr.copies
  BY <1>1 DEF Transaction, objs
<1>4. p \in Transaction
  <2>1. tr.i + 1 \in Nat
    BY <1>1
  <2>2. p = [tr EXCEPT !.i = tr.i + 1, !.objs = objs]
    BY DEF objs
  <2> QED
    BY <2>1, <2>2, <1>1, <1>2 DEF Transaction
<1>5. Resolved(p, tr.i)
  BY <1>1, <1>2, <1>3, Zenon DEF Resolved
<1>6. p.objs = [tr.objs EXCEPT ![tr.i] = o]
  BY <1>3 DEF objs
<1>7. tr.sg_used <= p.sg_used /\ p.sg_used <= BINDER_ALIGN(tr.extra)
  BY <1>1, <1>3 DEF Good
<1>8. p.copies = tr.copies
  BY <1>3
<1>9. Moved(tr, p, o)
  BY <1>1, <1>3, <1>4, <1>5, <1>6, <1>7, <1>8 DEF Moved
<1> QED
  BY <1>9, Advance

(* A scatter-gather object: its copy goes behind the others, and is where  *)
(* the pointer says.                                                       *)
LEMMA AdvancePtr ==
    ASSUME Good(tr), TranslatePtr
    PROVE  Good(tr') /\ Total(tr') = Total(tr) /\ tr'.at = tr.at
<1> DEFINE len  == Current.length
           used == tr.sg_used + Rounded(len)
           copy == [at |-> tr.sg_used, src |-> Current.buffer, len |-> len]
           o    == [Current EXCEPT !.buffer = Place]
           objs == [tr.objs EXCEPT ![tr.i] = o]
           C    == tr.copies \cup {copy}
<1>1. /\ tr \in Transaction /\ tr.i \in 1 .. Len(tr.objs) /\ tr.i \in Nat
      /\ tr.objs \in Seq(Object) /\ tr.sg_used \in Nat /\ tr.copies \subseteq Copy
      /\ Current \in Object /\ Current = tr.sent[tr.i] /\ Current.type = "PTR"
  BY CurrentIs DEF TranslatePtr
<1>2. tr' = [tr EXCEPT !.i = tr.i + 1, !.objs = objs, !.sg_used = used, !.copies = C]
  BY <1>1 DEF TranslatePtr, Current, Transaction
<1>3. len \in Nat /\ Current.buffer \in Nat
  BY <1>1 DEF Object
<1>4. /\ Rounded(len) \in Nat /\ len <= Rounded(len) /\ used \in Nat
      /\ used <= BINDER_ALIGN(tr.extra)
  <2>1. len <= tr.extra /\ used <= BINDER_ALIGN(tr.extra)
    BY <1>1 DEF TranslatePtr, Accepted, HasRoom
  <2>2. tr.extra \in Nat /\ tr.extra <= BINDER_MAX_TRANSACTION_SIZE
    BY <1>1, Fields DEF Good
  <2>3. len <= BINDER_MAX_TRANSACTION_SIZE
    BY <1>3, <2>1, <2>2, ParcelAssumption
  <2>4. Rounded(len) \in Nat /\ len <= Rounded(len)
    BY <1>3, <2>3, NoWrap
  <2> QED
    BY <1>1, <2>1, <2>4
<1>5. Place \in Nat
  <2>1. /\ tr.at \in Nat /\ tr.data \in Nat /\ Len(tr.objs) \in Nat /\ Addr \in Nat
    BY <1>1, Fields, ArenaAssumption
  <2>2. BINDER_ALIGN(tr.data) \in Nat /\ BINDER_ALIGN(8 * Len(tr.objs)) \in Nat
    <3>1. 8 * Len(tr.objs) \in Nat
      BY <2>1
    <3> QED
      BY <2>1, <3>1, AlignUp
  <2> DEFINE data == BINDER_ALIGN(tr.data)
             offs == BINDER_ALIGN(8 * Len(tr.objs))
  <2>3. Place = Addr + tr.at + (data + offs) + tr.sg_used
    BY DEF Place, SgArea, OffArea
  <2>4. data \in Nat /\ offs \in Nat
    BY <2>2
  <2> HIDE DEF data, offs
  <2> QED
    BY <1>1, <2>1, <2>3, <2>4
<1>6. o \in Object
  BY <1>1, <1>5 DEF Object
<1>7. copy \in Copy /\ C \subseteq Copy
  BY <1>1, <1>3 DEF Copy
<1>8. /\ copy.at = tr.sg_used /\ copy.len = len /\ copy.src = Current.buffer
      /\ \A c \in C \ tr.copies : c = copy
  OBVIOUS
<1>9. objs \in Seq(Object) /\ objs[tr.i] = o
  BY <1>1, <1>6
<1>10. Place = Addr + tr.at + SgArea(tr) + copy.at /\ Len(objs) = Len(tr.objs)
  BY <1>1 DEF Place
<1>11. o = [tr.sent[tr.i] EXCEPT !.buffer = Place]
  BY <1>1
<1> HIDE DEF len, used, copy, o, objs, C
<1>12. /\ tr'.data = tr.data /\ tr'.extra = tr.extra /\ tr'.sent = tr.sent /\ tr'.at = tr.at
       /\ tr'.i = tr.i + 1 /\ tr'.objs = objs /\ tr'.sg_used = used /\ tr'.copies = C
  BY <1>1, <1>2 DEF Transaction
<1>13. tr' \in Transaction
  <2>1. tr.i + 1 \in Nat /\ C \in SUBSET Copy
    BY <1>1, <1>7
  <2> QED
    BY <2>1, <1>1, <1>2, <1>4, <1>9 DEF Transaction
<1>14. Resolved(tr', tr.i)
  <2>1. SgArea(tr') = SgArea(tr)
    BY <1>10, <1>12 DEF SgArea, OffArea
  <2>2. /\ copy \in tr'.copies /\ copy.src = tr'.sent[tr.i].buffer
        /\ copy.len = tr'.sent[tr.i].length
    BY <1>1, <1>8, <1>12 DEF C, len
  <2>3. tr'.objs[tr.i] =
            [tr'.sent[tr.i] EXCEPT !.buffer = Addr + tr'.at + SgArea(tr') + copy.at]
    BY <2>1, <1>9, <1>10, <1>11, <1>12, Zenon
  <2>4. tr'.sent[tr.i].type = "PTR"
    BY <1>1, <1>12
  <2> QED
    BY <2>2, <2>3, <2>4, Zenon DEF Resolved
<1>15. tr.sg_used <= used
  BY <1>1, <1>4 DEF used
<1>16. ASSUME NEW c \in C \ tr.copies PROVE c.at = tr.sg_used /\ c.at + c.len <= used
  <2>1. c.at = tr.sg_used /\ c.len = len
    BY <1>8
  <2> QED
    BY <2>1, <1>1, <1>3, <1>4 DEF used
<1>17. \A c, d \in C \ tr.copies : c = d
  BY <1>8
<1>18. tr'.objs = [tr.objs EXCEPT ![tr.i] = o]
  BY <1>12 DEF objs
<1>19. tr.copies \subseteq C
  BY DEF C
<1>20. Moved(tr, tr', o)
  BY <1>1, <1>4, <1>6, <1>12, <1>13, <1>14, <1>15, <1>16, <1>17, <1>18, <1>19 DEF Moved
<1> QED
  BY <1>20, Advance

(* The other objects. *)
LEMMA AdvanceOther ==
    ASSUME Good(tr), TranslateFd \/ TranslateFlat \/ PassOn
    PROVE  Good(tr') /\ Total(tr') = Total(tr) /\ tr'.at = tr.at
<1>1. tr.i \in DOMAIN tr.objs
  BY DEF TranslateFd, TranslateFlat, PassOn
<1>2. /\ tr \in Transaction /\ tr.i \in 1 .. Len(tr.objs) /\ tr.objs \in Seq(Object)
      /\ Current \in Object /\ Current = tr.objs[tr.i]
  BY <1>1, CurrentIs DEF Current
<1>3. CASE TranslateFd
  <2> DEFINE o == [Current EXCEPT !.length = Pid]
  <2>1. o \in Object
    BY <1>2, ParcelAssumption DEF Object
  <2>2. tr' = [tr EXCEPT !.i = tr.i + 1, !.objs = [tr.objs EXCEPT ![tr.i] = o]]
    BY <1>2, <1>3 DEF TranslateFd, Transaction
  <2>3. Current.type = "FD"
    BY <1>3 DEF TranslateFd
  <2>4. o = IF Current.type = "FD" THEN [Current EXCEPT !.length = Pid] ELSE Current
    BY <2>3
  <2> HIDE DEF o
  <2> QED
    BY <1>1, <2>1, <2>2, <2>3, <2>4, AdvanceSame
<1>4. CASE TranslateFlat
  <2>1. PICK w \in Words, cookie \in Words :
            tr' = [tr EXCEPT !.i = @ + 1, !.objs[tr.i].buffer = w,
                             !.objs[tr.i].length = cookie]
    BY <1>4 DEF TranslateFlat
  <2> DEFINE o == [Current EXCEPT !.buffer = w, !.length = cookie]
  <2>2. o \in Object
    BY <1>2, ParcelAssumption DEF Object
  <2>3. tr' = [tr EXCEPT !.i = tr.i + 1, !.objs = [tr.objs EXCEPT ![tr.i] = o]]
    BY <1>2, <2>1 DEF Transaction
  <2>4. Current.type = "FLAT"
    BY <1>4 DEF TranslateFlat
  <2> HIDE DEF o
  <2> QED
    BY <1>1, <2>2, <2>3, <2>4, AdvanceSame
<1>5. CASE PassOn
  <2> DEFINE o == Current
  <2>1. o \in Object
    BY <1>2
  <2>2. tr' = [tr EXCEPT !.i = tr.i + 1, !.objs = [tr.objs EXCEPT ![tr.i] = o]]
    <3> DEFINE objs == [tr.objs EXCEPT ![tr.i] = o]
    <3>1. objs = tr.objs
      BY <1>2
    <3>2. tr' = [tr EXCEPT !.i = tr.i + 1]
      BY <1>5 DEF PassOn
    <3> HIDE DEF objs
    <3>3. tr' = [tr EXCEPT !.i = tr.i + 1, !.objs = objs]
      BY <1>2, <3>1, <3>2 DEF Transaction
    <3> QED
      BY <3>3 DEF objs
  <2>3. Current.type = "FDA"
    BY <1>5 DEF PassOn
  <2>4. o = IF Current.type = "FD" THEN [Current EXCEPT !.length = Pid] ELSE Current
    BY <2>3
  <2> HIDE DEF o
  <2> QED
    BY <1>1, <2>1, <2>2, <2>3, <2>4, AdvanceSame
<1> QED
  BY <1>3, <1>4, <1>5

-----------------------------------------------------------------------------
(* No two entries of the list start at one offset. *)
LEMMA OffsetsDiffer ==
    ASSUME NEW bufs, NEW n, Laid(bufs, n), NEW i \in 1 .. Len(bufs), NEW j \in 1 .. Len(bufs),
           bufs[i].offset = bufs[j].offset
    PROVE  i = j
<1>1. bufs[i].offset \in Nat /\ bufs[i].size \in Nat /\ bufs[j].offset \in Nat /\ bufs[j].size \in Nat
  BY LaidApart
<1>2. bufs[i].size > 0 /\ bufs[j].size > 0
  BY DEF Laid
<1>3. i # j => \/ bufs[i].offset + bufs[i].size <= bufs[j].offset
               \/ bufs[j].offset + bufs[j].size <= bufs[i].offset
  BY LaidApart
<1> QED
  BY <1>1, <1>2, <1>3

(* The extent that starts where entry k does is entry k, which is live. *)
LEMMA LiveAt ==
    ASSUME NEW bufs, NEW n, Laid(bufs, n), NEW k \in 1 .. Len(bufs),
           NEW e \in LiveOf(bufs), e.offset = bufs[k].offset
    PROVE  ~ bufs[k].free /\ e = Ext(bufs[k])
<1>1. bufs \in Seq(Buffer)
  BY DEF Laid
<1>2. PICK j \in 1 .. Len(bufs) : ~ bufs[j].free /\ e = Ext(bufs[j])
  BY <1>1, LiveIs
<1>3. bufs[j].offset = bufs[k].offset
  BY <1>2 DEF Ext
<1>4. j = k
  BY <1>3, OffsetsDiffer
<1> QED
  BY <1>2, <1>4

(* There is one first fit. *)
LEMMA OneFit ==
    ASSUME IInv, arena_size # 0, NEW need, NEW i \in FirstFit(need), NEW k \in FirstFit(need)
    PROVE  i = k
<1>1. DOMAIN buffers = 1 .. Len(buffers) /\ Len(buffers) \in Nat
  BY Registered
<1>2. i \in 1 .. Len(buffers) /\ k \in 1 .. Len(buffers)
  BY <1>1 DEF FirstFit
<1>3. ~ (i < k) /\ ~ (k < i)
  BY <1>2 DEF FirstFit
<1> QED
  BY <1>1, <1>2, <1>3

(* The buffer of a parcel, and what is known of the parcels there are. *)
Backed(q, live) == \E e \in live : e.offset = q.at /\ Total(q) <= e.size

Stored(live) ==
    \A x \in DOMAIN kdata : Good(kdata[x]) /\ kdata[x].at = x /\ Backed(kdata[x], live)

PInv ==
    /\ IInv
    /\ Stored(LiveOf(buffers))
    /\ tr # NULL => /\ Good(tr) /\ Backed(tr, LiveOf(buffers))
                    /\ tr.at \notin DOMAIN kdata
    /\ \A e \in LiveOf(buffers) : \/ e.offset \in DOMAIN kdata
                                  \/ tr # NULL /\ e.offset = tr.at
    /\ UndoExact

(* A parcel that begins takes the first fit, and UndoTake applies to it. *)
LEMMA BeginKeeps ==
    ASSUME PInv, NEW d \in Parcels, NEW extra \in Extras, NEW is_async \in BOOLEAN,
           Begin(d, extra, is_async)
    PROVE  PInv'
<1> DEFINE data == d.data
           offs == 8 * Len(d.objs)
           need == Need(data, offs, extra)
           q    == [data |-> d.data, extra |-> extra, objs |-> d.objs, sent |-> d.objs,
                    at |-> 0, i |-> 0, sg_used |-> 0, copies |-> {}]
<1>1. /\ d.data \in Nat /\ d.objs \in Seq(Object) /\ Len(d.objs) \in Nat
      /\ offs \in Nat /\ extra \in Nat
  <2>1. d.data \in Nat /\ d.objs \in Seq(Object) /\ extra \in Nat
    BY ParcelAssumption
  <2>2. Len(d.objs) \in Nat
    BY <2>1, LenProperties
  <2> QED
    BY <2>1, <2>2
<1>2. /\ tr = NULL /\ extra <= BINDER_MAX_TRANSACTION_SIZE
      /\ Alloc(data, offs, extra, is_async)
      /\ before' = buffers /\ UNCHANGED kdata
      /\ \E k \in FirstFit(need) : tr' = [q EXCEPT !.at = buffers[k].offset]
  <2>1. {d.data, offs, extra} \subseteq 0 .. BINDER_MAX_TRANSACTION_SIZE
    BY Zenon DEF Begin
  <2>2. extra <= BINDER_MAX_TRANSACTION_SIZE
    BY <2>1
  <2> QED
    BY <2>2, Zenon DEF Begin
<1>3. IInv /\ IInv'
  <2>1. IInv
    BY DEF PInv
  <2> QED
    BY <2>1, <1>1, <1>2, AllocKeeps
<1>4. /\ arena_size # 0 /\ need # 0
      /\ \E i \in FirstFit(need) : buffers' = Take(buffers, i, need, is_async)
  BY <1>2 DEF Alloc
<1>5. need \in Nat /\ need > 0
  <2>1. need \in Nat
    BY <1>1, NeedAligned
  <2> HIDE DEF need
  <2> QED
    BY <2>1, <1>4
<1>6. Total(q) = need
  BY DEF Total, SgArea, OffArea, Need
<1> HIDE DEF need
<1>7. PICK k \in FirstFit(need) : tr' = [q EXCEPT !.at = buffers[k].offset]
  BY <1>2
<1>8. buffers' = Take(buffers, k, need, is_async)
  <2>1. PICK i \in FirstFit(need) : buffers' = Take(buffers, i, need, is_async)
    BY <1>4
  <2>2. i = k
    BY <1>3, <1>4, OneFit
  <2> QED
    BY <2>1, <2>2
<1>9. /\ Laid(buffers, arena_size) /\ Entries(buffers) /\ CoalescedBut(buffers, {})
      /\ DOMAIN buffers = 1 .. Len(buffers)
  BY <1>3, <1>4, Registered
<1>10. k \in 1 .. Len(buffers) /\ buffers[k].free /\ buffers[k].size >= need
  BY <1>9 DEF FirstFit, Fits
<1>11. buffers[k].offset \in Nat
  BY <1>9, <1>10, LaidApart
<1>12. /\ tr'.at = buffers[k].offset /\ tr'.i = 0 /\ tr'.objs = d.objs /\ tr'.sent = d.objs
       /\ tr'.sg_used = 0 /\ tr'.copies = {} /\ tr'.extra = extra /\ tr'.data = d.data
  BY <1>7
<1>13. tr' \in Transaction
  <2>1. {} \in SUBSET Copy
    OBVIOUS
  <2>2. q \in Transaction
    BY <1>1, <2>1 DEF Transaction
  <2> QED
    BY <1>7, <1>11, <2>2 DEF Transaction
<1>14. Total(tr') = need
  BY <1>6, <1>12 DEF Total, SgArea, OffArea
<1> HIDE DEF q
<1>15. Good(tr')
  <2>1. BINDER_ALIGN(extra) \in Nat
    BY <1>1, AlignUp
  <2> QED
    BY <2>1, <1>1, <1>2, <1>12, <1>13 DEF Good
<1>16. PICK m \in Nat :
          /\ need <= m
          /\ LiveOf(buffers') = LiveOf(buffers) \cup
                                  {[offset |-> buffers[k].offset, size |-> m, need |-> need]}
  <2>1. \E m \in Nat :
          /\ need <= m /\ m <= buffers[k].size
          /\ LiveOf(Take(buffers, k, need, is_async)) = LiveOf(buffers) \cup
                {[offset |-> buffers[k].offset, size |-> m, need |-> need]}
    BY <1>5, <1>9, <1>10, TakeLive
  <2> QED
    BY <2>1, <1>8, Zenon
<1> DEFINE new == [offset |-> buffers[k].offset, size |-> m, need |-> need]
<1>17. new.offset = buffers[k].offset /\ new.size = m /\ new \in LiveOf(buffers')
  BY <1>16
<1> HIDE DEF new
<1>18. Backed(tr', LiveOf(buffers'))
  BY <1>12, <1>14, <1>16, <1>17 DEF Backed
<1>19. Stored(LiveOf(buffers)) /\ Stored(LiveOf(buffers))'
  <2>1. Stored(LiveOf(buffers))
    BY DEF PInv
  <2>2. LiveOf(buffers) \subseteq LiveOf(buffers')
    BY <1>16
  <2>3. ASSUME NEW x \in DOMAIN kdata PROVE Backed(kdata[x], LiveOf(buffers'))
    BY <2>1, <2>2 DEF Stored, Backed
  <2> QED
    BY <2>1, <2>3, <1>2 DEF Stored
<1>20. tr'.at \notin DOMAIN kdata
  <2> SUFFICES ASSUME tr'.at \in DOMAIN kdata PROVE FALSE
    OBVIOUS
  <2>1. PICK e \in LiveOf(buffers) : e.offset = buffers[k].offset
    BY <1>12, <1>19 DEF Stored, Backed
  <2> QED
    BY <2>1, <1>9, <1>10, LiveAt
<1>21. tr' # NULL
  BY <1>13, ParcelAssumption
<1>22. ASSUME NEW e \in LiveOf(buffers')
       PROVE  e.offset \in DOMAIN kdata \/ e.offset = tr'.at
  <2>1. CASE e \in LiveOf(buffers)
    BY <2>1, <1>2 DEF PInv
  <2>2. CASE e = new
    BY <2>2, <1>12, <1>17
  <2> QED
    BY <2>1, <2>2, <1>16 DEF new
<1>23. UndoExact'
  <2>1. /\ k \in DOMAIN buffers' /\ buffers'[k].offset = tr'.at
        /\ Release(buffers', k) = before'
    BY <1>2, <1>5, <1>8, <1>9, <1>10, <1>12, UndoTake
  <2> QED
    BY <2>1 DEF UndoExact
<1> QED
  BY <1>2, <1>3, <1>15, <1>18, <1>19, <1>20, <1>21, <1>22, <1>23 DEF PInv

(* Freeing entry k takes away the one extent that starts where it does. *)
LEMMA FreeTakes ==
    ASSUME IInv, NEW k \in DOMAIN buffers, Free(k)
    PROVE  /\ IInv'
           /\ LiveOf(buffers') = {e \in LiveOf(buffers) : e.offset # buffers[k].offset}
<1>1. arena_size # 0
  <2>1. buffers # <<>>
    OBVIOUS
  <2> QED
    BY <2>1 DEF IInv
<1>2. /\ Laid(buffers, arena_size) /\ Entries(buffers) /\ DOMAIN buffers = 1 .. Len(buffers)
  BY <1>1, Registered
<1>3. ~ buffers[k].free /\ buffers' = Release(buffers, k)
  BY DEF Free
<1>4. LiveOf(buffers') = LiveOf(buffers) \ {Ext(buffers[k])}
  BY <1>2, <1>3, ReleaseLive
<1>5. ASSUME NEW e \in LiveOf(buffers), e.offset = buffers[k].offset
      PROVE  e = Ext(buffers[k])
  BY <1>2, <1>5, LiveAt
<1>6. Ext(buffers[k]).offset = buffers[k].offset
  BY DEF Ext
<1> QED
  BY <1>4, <1>5, <1>6, FreeKeeps

(* What the steps that touch neither the arena nor the parcels keep. *)
LEMMA SameArena ==
    ASSUME PInv, UNCHANGED <<arena_size, buffers, free_async_space>>
    PROVE  IInv' /\ LiveOf(buffers') = LiveOf(buffers)
BY DEF PInv, IInv, Laid, Entries, Entry, CoalescedBut

(* A step of the loop over the objects. *)
LEMMA ObjectKeeps ==
    ASSUME PInv, tr # NULL, UNCHANGED <<arena_size, buffers, free_async_space, kdata, before>>,
           Good(tr'), Total(tr') = Total(tr), tr'.at = tr.at
    PROVE  PInv'
<1>1. IInv' /\ LiveOf(buffers') = LiveOf(buffers)
  BY SameArena
<1>2. tr' # NULL
  BY ParcelAssumption DEF Good
<1>3. Backed(tr', LiveOf(buffers))
  BY DEF PInv, Backed
<1>4. UndoExact'
  <2>1. PICK i \in DOMAIN buffers : buffers[i].offset = tr.at /\ Release(buffers, i) = before
    BY DEF PInv, UndoExact
  <2>2. /\ i \in DOMAIN buffers' /\ buffers'[i].offset = tr'.at
        /\ Release(buffers', i) = before'
    BY <2>1
  <2> QED
    BY <2>2 DEF UndoExact
<1>5. Stored(LiveOf(buffers))'
  BY <1>1 DEF PInv, Stored
<1>6. tr'.at \notin DOMAIN kdata'
  BY DEF PInv
<1>7. \A e \in LiveOf(buffers) : e.offset \in DOMAIN kdata' \/ e.offset = tr'.at
  BY DEF PInv
<1> QED
  BY <1>1, <1>2, <1>3, <1>4, <1>5, <1>6, <1>7 DEF PInv

(* Reading the sender's memory. *)
LEMMA CopyinGood ==
    ASSUME Good(tr), Copyin
    PROVE  Good(tr') /\ Total(tr') = Total(tr) /\ tr'.at = tr.at
<1>1. tr \in Transaction /\ tr.i = 0 /\ tr' = [tr EXCEPT !.i = 1]
  BY DEF Copyin, Good
<1>2. /\ tr'.data = tr.data /\ tr'.extra = tr.extra /\ tr'.sent = tr.sent /\ tr'.at = tr.at
      /\ tr'.i = 1 /\ tr'.objs = tr.objs /\ tr'.sg_used = tr.sg_used /\ tr'.copies = tr.copies
  BY <1>1 DEF Transaction
<1>3. tr' \in Transaction
  BY <1>1 DEF Transaction
<1>4. Len(tr.objs) \in Nat /\ tr.objs \in Seq(Object)
  BY <1>1, Fields
<1>5. \A j \in 1 .. Len(tr.objs) : j >= 0
  BY <1>4
<1>6. 1 .. 1 - 1 = {}
  OBVIOUS
<1>7. Good(tr')
  BY <1>1, <1>2, <1>3, <1>4, <1>5, <1>6 DEF Good
<1> QED
  BY <1>2, <1>7 DEF Total, SgArea, OffArea

(* Giving up on a parcel: its extent goes, and no other. *)
LEMMA AbortKeeps ==
    ASSUME PInv, Abort
    PROVE  PInv'
<1>1. PICK k \in DOMAIN buffers : buffers[k].offset = tr.at /\ Free(k)
  BY DEF Abort
<1>2. tr # NULL /\ tr' = NULL /\ UNCHANGED kdata
  BY DEF Abort
<1>3. /\ IInv' /\ LiveOf(buffers') = {e \in LiveOf(buffers) : e.offset # tr.at}
  BY <1>1, FreeTakes DEF PInv
<1>4. tr.at \notin DOMAIN kdata /\ Stored(LiveOf(buffers))
  BY <1>2 DEF PInv
<1>5. ASSUME NEW x \in DOMAIN kdata PROVE Backed(kdata[x], LiveOf(buffers'))
  BY <1>3, <1>4 DEF Stored, Backed
<1>6. Stored(LiveOf(buffers))'
  BY <1>2, <1>4, <1>5 DEF Stored
<1>7. \A e \in LiveOf(buffers') : e.offset \in DOMAIN kdata
  BY <1>2, <1>3 DEF PInv
<1>8. UndoExact'
  BY <1>2 DEF UndoExact
<1> QED
  BY <1>2, <1>3, <1>6, <1>7, <1>8 DEF PInv

(* A parcel that is complete joins the others. *)
LEMMA FinishKeeps ==
    ASSUME PInv, Finish
    PROVE  PInv'
<1>1. /\ tr # NULL /\ tr' = NULL /\ UNCHANGED <<arena_size, buffers, free_async_space>>
      /\ kdata' = [x \in DOMAIN kdata \cup {tr.at} |-> IF x = tr.at THEN tr ELSE kdata[x]]
  BY DEF Finish
<1>2. IInv' /\ LiveOf(buffers') = LiveOf(buffers)
  BY <1>1, SameArena
<1>3. DOMAIN kdata' = DOMAIN kdata \cup {tr.at}
  BY <1>1
<1>4. ASSUME NEW x \in DOMAIN kdata'
      PROVE  Good(kdata'[x]) /\ kdata'[x].at = x /\ Backed(kdata'[x], LiveOf(buffers))
  <2>1. CASE x = tr.at
    <3>1. kdata'[x] = tr
      BY <2>1, <1>1
    <3> QED
      BY <3>1, <2>1, <1>1 DEF PInv
  <2>2. CASE x # tr.at
    <3>1. x \in DOMAIN kdata /\ kdata'[x] = kdata[x]
      BY <2>2, <1>1
    <3> QED
      BY <3>1 DEF PInv, Stored
  <2> QED
    BY <2>1, <2>2
<1>5. Stored(LiveOf(buffers))'
  BY <1>2, <1>4 DEF Stored
<1>6. \A e \in LiveOf(buffers) : e.offset \in DOMAIN kdata'
  BY <1>3 DEF PInv
<1>7. UndoExact'
  BY <1>1 DEF UndoExact
<1> QED
  BY <1>1, <1>2, <1>5, <1>6, <1>7 DEF PInv

(* A parcel that is done with leaves, together with its extent. *)
LEMMA DoneKeeps ==
    ASSUME PInv, NEW k \in DOMAIN buffers, Done(k)
    PROVE  PInv'
<1> DEFINE o == buffers[k].offset
<1>1. /\ tr = NULL /\ tr' = NULL /\ Free(k)
      /\ kdata' = [x \in DOMAIN kdata \ {o} |-> kdata[x]]
  BY DEF Done
<1>2. IInv' /\ LiveOf(buffers') = {e \in LiveOf(buffers) : e.offset # o}
  BY <1>1, FreeTakes DEF PInv
<1> HIDE DEF o
<1>3. /\ DOMAIN kdata' = DOMAIN kdata \ {o}
      /\ \A x \in DOMAIN kdata' : kdata'[x] = kdata[x]
  BY <1>1
<1>4. ASSUME NEW x \in DOMAIN kdata'
      PROVE  Good(kdata'[x]) /\ kdata'[x].at = x /\ Backed(kdata'[x], LiveOf(buffers'))
  <2>1. x \in DOMAIN kdata /\ x # o /\ kdata'[x] = kdata[x]
    BY <1>3
  <2>2. Good(kdata[x]) /\ kdata[x].at = x /\ Backed(kdata[x], LiveOf(buffers))
    BY <2>1 DEF PInv, Stored
  <2> QED
    BY <2>1, <2>2, <1>2 DEF Backed
<1>5. Stored(LiveOf(buffers))'
  BY <1>4 DEF Stored
<1>6. \A e \in LiveOf(buffers') : e.offset \in DOMAIN kdata'
  BY <1>1, <1>2, <1>3 DEF PInv
<1>7. UndoExact'
  BY <1>1 DEF UndoExact
<1> QED
  BY <1>1, <1>2, <1>5, <1>6, <1>7 DEF PInv

(* An arena is registered only where there is none, hence no parcel. *)
LEMMA RegistersKeeps ==
    ASSUME PInv, NEW size \in ArenaSizes, Registers(size)
    PROVE  PInv'
<1>1. /\ tr = NULL /\ tr' = NULL /\ UNCHANGED kdata /\ Register(size)
  BY DEF Registers
<1>2. IInv /\ IInv'
  <2>1. IInv
    BY DEF PInv
  <2> QED
    BY <2>1, <1>1, RegisterKeeps
<1>3. LiveOf(buffers) = {}
  <2>1. buffers = <<>>
    BY <1>1, <1>2 DEF Register, IInv
  <2> QED
    BY <2>1 DEF LiveOf
<1>4. DOMAIN kdata = {}
  BY <1>3 DEF PInv, Stored, Backed
<1>5. LiveOf(buffers') = {}
  <2>1. buffers' = <<FreeBuffer(0, size)>>
    BY <1>1 DEF Register
  <2>2. \A j \in DOMAIN buffers' : buffers'[j].free
    BY <2>1 DEF FreeBuffer
  <2> QED
    BY <2>2 DEF LiveOf
<1>6. Stored(LiveOf(buffers))'
  BY <1>1, <1>4 DEF Stored
<1>7. UndoExact'
  BY <1>1 DEF UndoExact
<1> QED
  BY <1>1, <1>2, <1>5, <1>6, <1>7 DEF PInv

(* The process closes the device: nothing is left. *)
LEMMA ClosesKeeps ==
    ASSUME PInv, Closes
    PROVE  PInv'
<1>1. /\ tr' = NULL /\ kdata' = <<>> /\ Teardown
  BY DEF Closes
<1>2. buffers' = <<>> /\ IInv'
  BY <1>1 DEF Teardown, IInv
<1>3. LiveOf(buffers') = {}
  BY <1>2 DEF LiveOf
<1>4. Stored(LiveOf(buffers))'
  <2>1. DOMAIN kdata' = {}
    BY <1>1
  <2> QED
    BY <2>1 DEF Stored
<1>5. UndoExact'
  BY <1>1 DEF UndoExact
<1> QED
  BY <1>1, <1>2, <1>3, <1>4, <1>5 DEF PInv

(* PInv holds initially and every step of a send, at whatever object it is *)
(* refused, every free and every close keeps it.                           *)
THEOREM ParcelsInductive == PSpec => []PInv
<1>1. PInit => PInv
  <2> SUFFICES ASSUME PInit PROVE PInv
    OBVIOUS
  <2>1. tr = NULL /\ kdata = <<>> /\ buffers = <<>> /\ IInv
    BY DEF PInit, Init, IInv
  <2>2. LiveOf(buffers) = {} /\ DOMAIN kdata = {}
    BY <2>1 DEF LiveOf
  <2> QED
    BY <2>1, <2>2 DEF PInv, Stored, UndoExact
<1>2. PInv /\ [PNext]_pvars => PInv'
  <2> SUFFICES ASSUME PInv, [PNext]_pvars PROVE PInv'
    OBVIOUS
  <2>1. ASSUME NEW d \in Parcels, NEW extra \in Extras, NEW is_async \in BOOLEAN,
               Begin(d, extra, is_async)
        PROVE  PInv'
    BY <2>1, BeginKeeps
  <2>2. CASE Copyin
    <3>1. tr # NULL /\ Good(tr)
      BY <2>2 DEF Copyin, PInv
    <3>2. UNCHANGED <<arena_size, buffers, free_async_space, kdata, before>>
      BY <2>2 DEF Copyin
    <3> QED
      BY <3>1, <3>2, <2>2, CopyinGood, ObjectKeeps
  <2>3. CASE TranslatePtr
    <3>1. tr # NULL /\ Good(tr)
      BY <2>3 DEF TranslatePtr, PInv
    <3>2. UNCHANGED <<arena_size, buffers, free_async_space, kdata, before>>
      BY <2>3 DEF TranslatePtr
    <3> QED
      BY <3>1, <3>2, <2>3, AdvancePtr, ObjectKeeps
  <2>4. CASE TranslateFd \/ TranslateFlat \/ PassOn
    <3>1. tr # NULL /\ Good(tr)
      BY <2>4 DEF TranslateFd, TranslateFlat, PassOn, PInv
    <3>2. UNCHANGED <<arena_size, buffers, free_async_space, kdata, before>>
      BY <2>4 DEF TranslateFd, TranslateFlat, PassOn
    <3> QED
      BY <3>1, <3>2, <2>4, AdvanceOther, ObjectKeeps
  <2>5. CASE Abort
    BY <2>5, AbortKeeps
  <2>6. CASE Finish
    BY <2>6, FinishKeeps
  <2>7. ASSUME NEW k \in DOMAIN buffers, Done(k) PROVE PInv'
    BY <2>7, DoneKeeps
  <2>8. ASSUME NEW size \in ArenaSizes, Registers(size) PROVE PInv'
    BY <2>8, RegistersKeeps
  <2>9. CASE Closes
    BY <2>9, ClosesKeeps
  <2>10. CASE UNCHANGED pvars
    <3>1. /\ UNCHANGED <<arena_size, buffers, free_async_space>>
          /\ UNCHANGED <<tr, kdata, before>>
      BY <2>10 DEF pvars
    <3>2. IInv' /\ LiveOf(buffers') = LiveOf(buffers)
      BY <3>1, SameArena
    <3> QED
      BY <3>1, <3>2 DEF PInv, Stored, UndoExact
  <2> QED
    BY <2>1, <2>2, <2>3, <2>4, <2>5, <2>6, <2>7, <2>8, <2>9, <2>10 DEF PNext
<1> QED
  BY <1>1, <1>2, PTL DEF PSpec

(* The parcels there are, each of them good and backed. *)
LEMMA HeldGood ==
    ASSUME PInv, NEW q \in Held
    PROVE  Good(q) /\ Backed(q, LiveOf(buffers))
<1>1. CASE q = tr /\ tr # NULL
  BY <1>1 DEF PInv
<1>2. CASE \E x \in DOMAIN kdata : q = kdata[x]
  BY <1>2 DEF PInv, Stored
<1> QED
  BY <1>1, <1>2 DEF Held

-----------------------------------------------------------------------------
(* The copies of a parcel's scatter-gather buffers stay inside the area    *)
(* that binder_transaction allocated for them and apart, for any number of *)
(* objects and any lengths.                                                *)
THEOREM CopiesNeverMeet == PSpec => []CopiesApart
<1>1. PInv => CopiesApart
  <2> SUFFICES ASSUME PInv, NEW q \in Held, NEW c \in q.copies
               PROVE  /\ c.at + c.len <= BINDER_ALIGN(q.extra)
                      /\ \A d \in q.copies :
                            c # d => c.at + c.len <= d.at \/ d.at + d.len <= c.at
    BY DEF CopiesApart
  <2>1. Good(q)
    BY HeldGood
  <2>2. q.sg_used \in Nat /\ q.extra \in Nat /\ c \in Copy
    BY <2>1, Fields DEF Good
  <2>3. BINDER_ALIGN(q.extra) \in Nat /\ c.at \in Nat /\ c.len \in Nat
    BY <2>2, AlignUp DEF Copy
  <2>4. c.at + c.len <= q.sg_used /\ q.sg_used <= BINDER_ALIGN(q.extra)
    BY <2>1 DEF Good
  <2>5. c.at + c.len <= BINDER_ALIGN(q.extra)
    BY <2>2, <2>3, <2>4
  <2>6. \A d \in q.copies : c # d => c.at + c.len <= d.at \/ d.at + d.len <= c.at
    BY <2>1 DEF Good, Apart
  <2> QED
    BY <2>5, <2>6
<1> QED
  BY <1>1, ParcelsInductive, PTL

(* Every pointer that binder_transaction hands on names its own copy in    *)
(* the receiver's buffer.                                                  *)
THEOREM PointersAreRight == PSpec => []PointersResolve
<1>1. PInv => PointersResolve
  <2> SUFFICES ASSUME PInv PROVE \A q \in Held : \A j \in 1 .. q.i - 1 : Resolved(q, j)
    BY Zenon DEF PointersResolve, Resolved
  <2> QED
    BY HeldGood DEF Good
<1> QED
  BY <1>1, ParcelsInductive, PTL

(* The parcels are exactly the live buffers of the arena, and each fits in *)
(* its own, so that the copyout of a delivery stays inside it.             *)
THEOREM ParcelsFit == PSpec => []CopyoutFits
<1>1. PInv => CopyoutFits
  <2> SUFFICES ASSUME PInv PROVE CopyoutFits
    OBVIOUS
  <2>1. ASSUME NEW i \in DOMAIN buffers, ~ buffers[i].free
        PROVE  \/ buffers[i].offset \in DOMAIN kdata
               \/ tr # NULL /\ tr.at = buffers[i].offset
    <3>1. Ext(buffers[i]) \in LiveOf(buffers) /\ Ext(buffers[i]).offset = buffers[i].offset
      BY <2>1 DEF LiveOf, Ext
    <3> QED
      BY <3>1 DEF PInv
  <2>2. ASSUME NEW q \in Held
        PROVE  \E i \in DOMAIN buffers :
                  ~ buffers[i].free /\ buffers[i].offset = q.at /\ Total(q) <= buffers[i].size
    <3>1. PICK e \in LiveOf(buffers) : e.offset = q.at /\ Total(q) <= e.size
      BY HeldGood DEF Backed
    <3>2. PICK i \in DOMAIN buffers : ~ buffers[i].free /\ e = Ext(buffers[i])
      BY DEF LiveOf
    <3>3. e.offset = buffers[i].offset /\ e.size = buffers[i].size
      BY <3>2 DEF Ext
    <3> QED
      BY <3>1, <3>2, <3>3
  <2> QED
    BY <2>1, <2>2 DEF CopyoutFits
<1> QED
  BY <1>1, ParcelsInductive, PTL

(* At every object of every parcel, binder_buffer_free gives back exactly  *)
(* the list that binder_transaction found.                                 *)
THEOREM RefusalsLeaveNothing == PSpec => []UndoExact
<1>1. PInv => UndoExact
  BY DEF PInv
<1> QED
  BY <1>1, ParcelsInductive, PTL

=============================================================================
