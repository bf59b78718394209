-------------------------- MODULE BinderAllocProofs --------------------------
(***************************************************************************)
(* Proofs about the arena of BinderAlloc, for every arena size, every      *)
(* request size and any number of buffers.                                 *)
(*                                                                         *)
(* Tiling only relates neighbours, which is not enough to say that two     *)
(* distant allocations are disjoint without an induction over the list.    *)
(* The inductive invariant therefore keeps the order of every PAIR of      *)
(* buffers (Laid), which inserting and removing one buffer preserve.       *)
(***************************************************************************)
EXTENDS BinderAlloc, SequenceTheorems, TLAPS

(* The layout of a buffer list bufs over an arena of n bytes. *)
Laid(bufs, n) ==
    /\ bufs \in Seq(Buffer)
    /\ Len(bufs) > 0
    /\ bufs[1].offset = 0
    /\ bufs[Len(bufs)].offset + bufs[Len(bufs)].size = n
    /\ \A i \in 1 .. Len(bufs) : bufs[i].size > 0
    /\ \A i \in 1 .. Len(bufs) - 1 : bufs[i + 1].offset = bufs[i].offset + bufs[i].size
    /\ \A i, j \in 1 .. Len(bufs) : i < j => bufs[i].offset + bufs[i].size <= bufs[j].offset

(* What each entry says of itself. *)
Entry(buf) ==
    /\ buf.offset % 8 = 0 /\ buf.size % 8 = 0
    /\ buf.free => buf.async = FALSE /\ buf.need = 0
    /\ ~ buf.free => buf.need > 0 /\ buf.need <= buf.size

Entries(bufs) == \A i \in 1 .. Len(bufs) : Entry(bufs[i])

(* No two free neighbours, except possibly the pairs that start in K. *)
CoalescedBut(bufs, K) ==
    \A k \in 1 .. Len(bufs) - 1 : k \notin K => ~ (bufs[k].free /\ bufs[k + 1].free)

IInv ==
    /\ arena_size \in Nat /\ free_async_space \in Nat
    /\ arena_size = 0 => buffers = <<>>
    /\ arena_size # 0 => /\ Laid(buffers, arena_size)
                         /\ Entries(buffers)
                         /\ CoalescedBut(buffers, {})

-----------------------------------------------------------------------------
(* InsertAt, position by position. *)
LEMMA InsertAtIs ==
    ASSUME NEW S, NEW s \in Seq(S), NEW i \in 1 .. Len(s) + 1, NEW e \in S
    PROVE  /\ InsertAt(s, i, e) \in Seq(S)
           /\ Len(InsertAt(s, i, e)) = Len(s) + 1
           /\ \A j \in 1 .. Len(s) + 1 :
                 InsertAt(s, i, e)[j] = IF j < i THEN s[j] ELSE IF j = i THEN e ELSE s[j - 1]
<1> DEFINE a == SubSeq(s, 1, i - 1)
           b == SubSeq(s, i, Len(s))
<1>0. Len(s) \in Nat
  BY LenProperties
<1>1. /\ a \in Seq(S) /\ Len(a) = i - 1
      /\ \A j \in 1 .. i - 1 : a[j] = s[j]
  BY <1>0, SubSeqProperties
<1>2. /\ b \in Seq(S) /\ Len(b) = Len(s) - i + 1
      /\ \A j \in 1 .. Len(s) - i + 1 : b[j] = s[i + j - 1]
  BY <1>0, SubSeqProperties
<1>3. /\ <<e>> \in Seq(S) /\ Len(<<e>>) = 1 /\ <<e>>[1] = e
  OBVIOUS
<1> HIDE DEF a, b
<1>4. /\ a \o <<e>> \in Seq(S) /\ Len(a \o <<e>>) = i
      /\ \A j \in 1 .. i : (a \o <<e>>)[j] = IF j <= i - 1 THEN a[j] ELSE <<e>>[j - (i - 1)]
  BY <1>0, <1>1, <1>3, ConcatProperties
<1> DEFINE ae == a \o <<e>>
<1> HIDE DEF ae
<1>5. /\ ae \o b \in Seq(S) /\ Len(ae \o b) = Len(s) + 1
      /\ \A j \in 1 .. Len(s) + 1 : (ae \o b)[j] = IF j <= i THEN ae[j] ELSE b[j - i]
  <2>1. ae \in Seq(S) /\ Len(ae) = i
    BY <1>4 DEF ae
  <2>2. Len(ae) + Len(b) = Len(s) + 1
    BY <2>1, <1>0, <1>2
  <2>3. /\ ae \o b \in Seq(S) /\ Len(ae \o b) = Len(ae) + Len(b)
        /\ \A j \in 1 .. Len(ae) + Len(b) :
              (ae \o b)[j] = IF j <= Len(ae) THEN ae[j] ELSE b[j - Len(ae)]
    BY <2>1, <1>2, ConcatProperties
  <2> QED
    BY <2>1, <2>2, <2>3
<1>6. InsertAt(s, i, e) = ae \o b
  BY DEF InsertAt, a, b, ae
<1>7. ASSUME NEW j \in 1 .. Len(s) + 1
      PROVE  (ae \o b)[j] = IF j < i THEN s[j] ELSE IF j = i THEN e ELSE s[j - 1]
  <2>1. CASE j < i
    BY <2>1, <1>0, <1>1, <1>4, <1>5 DEF ae
  <2>2. CASE j = i
    BY <2>2, <1>0, <1>3, <1>4, <1>5 DEF ae
  <2>3. CASE j > i
    <3>1. j - i \in 1 .. Len(s) - i + 1 /\ i + (j - i) - 1 = j - 1
      BY <2>3, <1>0
    <3>2. (ae \o b)[j] = b[j - i]
      BY <2>3, <1>0, <1>5
    <3> QED
      BY <2>3, <3>1, <3>2, <1>0, <1>2
  <2>4. i \in Int /\ j \in Int
    BY <1>0
  <2>5. j < i \/ j = i \/ j > i
    BY <2>4
  <2> QED
    BY <2>1, <2>2, <2>3, <2>5
<1> QED
  BY <1>5, <1>6, <1>7

(* RemoveAt, position by position. *)
LEMMA RemoveAtIs ==
    ASSUME NEW S, NEW s \in Seq(S), NEW i \in 1 .. Len(s)
    PROVE  /\ RemoveAt(s, i) \in Seq(S)
           /\ Len(RemoveAt(s, i)) = Len(s) - 1
           /\ \A j \in 1 .. Len(s) - 1 :
                 RemoveAt(s, i)[j] = IF j < i THEN s[j] ELSE s[j + 1]
<1> DEFINE a == SubSeq(s, 1, i - 1)
           b == SubSeq(s, i + 1, Len(s))
<1>0. Len(s) \in Nat
  BY LenProperties
<1>1. /\ a \in Seq(S) /\ Len(a) = i - 1
      /\ \A j \in 1 .. i - 1 : a[j] = s[j]
  BY <1>0, SubSeqProperties
<1>2. /\ b \in Seq(S) /\ Len(b) = Len(s) - i
      /\ \A j \in 1 .. Len(s) - i : b[j] = s[i + j]
  BY <1>0, SubSeqProperties
<1> HIDE DEF a, b
<1>3. /\ a \o b \in Seq(S) /\ Len(a \o b) = Len(s) - 1
      /\ \A j \in 1 .. Len(s) - 1 : (a \o b)[j] = IF j <= Len(a) THEN a[j] ELSE b[j - Len(a)]
  <2>1. Len(a) + Len(b) = Len(s) - 1
    BY <1>0, <1>1, <1>2
  <2>2. /\ a \o b \in Seq(S) /\ Len(a \o b) = Len(a) + Len(b)
        /\ \A j \in 1 .. Len(a) + Len(b) :
              (a \o b)[j] = IF j <= Len(a) THEN a[j] ELSE b[j - Len(a)]
    BY <1>1, <1>2, ConcatProperties
  <2> QED
    BY <2>1, <2>2
<1>4. RemoveAt(s, i) = a \o b
  BY DEF RemoveAt, a, b
<1>5. ASSUME NEW j \in 1 .. Len(s) - 1
      PROVE  (a \o b)[j] = IF j < i THEN s[j] ELSE s[j + 1]
  <2>1. CASE j < i
    BY <2>1, <1>0, <1>1, <1>3
  <2>2. CASE ~ (j < i)
    <3>1. /\ j - Len(a) \in 1 .. Len(s) - i /\ i + (j - Len(a)) = j + 1
          /\ ~ (j <= Len(a))
      BY <2>2, <1>0, <1>1
    <3> QED
      BY <2>2, <3>1, <1>2, <1>3
  <2> QED
    BY <2>1, <2>2
<1> QED
  BY <1>3, <1>4, <1>5

-----------------------------------------------------------------------------
(* The types of a list's entries, field by field. *)
LEMMA EntryTypes ==
    ASSUME NEW bufs \in Seq(Buffer)
    PROVE  /\ Len(bufs) \in Nat
           /\ DOMAIN bufs = 1 .. Len(bufs)
           /\ \A j \in 1 .. Len(bufs) :
                /\ bufs[j] \in Buffer
                /\ bufs[j].offset \in Nat /\ bufs[j].size \in Nat /\ bufs[j].need \in Nat
                /\ bufs[j].free \in BOOLEAN /\ bufs[j].async \in BOOLEAN
<1>1. Len(bufs) \in Nat /\ DOMAIN bufs = 1 .. Len(bufs)
  BY LenProperties
<1>2. \A j \in 1 .. Len(bufs) : bufs[j] \in Buffer
  BY ElementOfSeq
<1> QED
  BY <1>1, <1>2 DEF Buffer

(* A buffer whose size alone is changed. *)
LEMMA Resized ==
    ASSUME NEW b \in Buffer, NEW m \in Nat
    PROVE  LET g == [b EXCEPT !.size = m]
           IN  /\ g \in Buffer /\ g.size = m /\ g.offset = b.offset /\ g.need = b.need
               /\ g.free = b.free /\ g.async = b.async
BY DEF Buffer

(* The end of an extent is a natural number. *)
LEMMA ExtentEnd ==
  ASSUME NEW a \in Nat, NEW s \in Nat
  PROVE  a + s \in Nat
OBVIOUS

(* A chain of bounds between natural numbers. *)
LEMMA BoundChain ==
  ASSUME NEW a \in Nat, NEW b \in Nat, NEW c \in Nat, NEW d \in Nat,
         a <= b, b <= c, c <= d
  PROVE  a <= d
OBVIOUS

(* Sums and differences of multiples of 8. *)
LEMMA AlignedSum ==
    ASSUME NEW a \in Nat, NEW b \in Nat, a % 8 = 0, b % 8 = 0
    PROVE  (a + b) % 8 = 0
OBVIOUS

LEMMA AlignedDifference ==
    ASSUME NEW a \in Nat, NEW b \in Nat, a % 8 = 0, b % 8 = 0, b <= a
    PROVE  (a - b) % 8 = 0
OBVIOUS

(* Changing what a buffer holds, but not where it lies, keeps the layout. *)
LEMMA MarkLaid ==
    ASSUME NEW bufs, NEW n, Laid(bufs, n), NEW i \in 1 .. Len(bufs), NEW buf \in Buffer,
           buf.offset = bufs[i].offset, buf.size = bufs[i].size
    PROVE  Laid([bufs EXCEPT ![i] = buf], n)
<1> DEFINE new == [bufs EXCEPT ![i] = buf]
<1>1. bufs \in Seq(Buffer)
  BY DEF Laid
<1>2. new \in Seq(Buffer) /\ Len(new) = Len(bufs)
  BY <1>1, EntryTypes
<1>3. \A j \in 1 .. Len(bufs) : new[j].offset = bufs[j].offset /\ new[j].size = bufs[j].size
  BY <1>1, EntryTypes
<1> HIDE DEF new
<1>4. Len(bufs) \in Nat /\ Len(bufs) > 0
  BY <1>1, EntryTypes DEF Laid
<1>5. 1 \in 1 .. Len(bufs) /\ Len(bufs) \in 1 .. Len(bufs)
  BY <1>4
<1>6. \A j \in 1 .. Len(bufs) - 1 : j \in 1 .. Len(bufs) /\ j + 1 \in 1 .. Len(bufs)
  BY <1>4
<1>7. Laid(new, n)
  BY <1>2, <1>3, <1>5, <1>6 DEF Laid
<1> QED
  BY <1>7 DEF new

(* Merging buffer i with its successor, where both are free, keeps the     *)
(* layout and the entries, and settles the pair that starts at i.          *)
LEMMA MergeLaid ==
    ASSUME NEW bufs, NEW n, Laid(bufs, n), Entries(bufs), NEW i \in 1 .. Len(bufs)
    PROVE  /\ Laid(MergeNext(bufs, i), n)
           /\ Entries(MergeNext(bufs, i))
           /\ Len(MergeNext(bufs, i)) >= i
           /\ \A K : CoalescedBut(bufs, K \cup {i}) /\ (\A k \in K : k < i)
                        => CoalescedBut(MergeNext(bufs, i), K)
<1> DEFINE grown == [bufs EXCEPT ![i].size = @ + bufs[i + 1].size]
           new   == RemoveAt(grown, i + 1)
<1>1. bufs \in Seq(Buffer) /\ Len(bufs) \in Nat /\ i \in Nat
  BY LenProperties DEF Laid
<1>2. CASE ~ (i < Len(bufs) /\ bufs[i].free /\ bufs[i + 1].free)
  <2>1. MergeNext(bufs, i) = bufs
    BY <1>2 DEF MergeNext
  <2> QED
    BY <1>1, <1>2, <2>1 DEF CoalescedBut
<1>3. CASE i < Len(bufs) /\ bufs[i].free /\ bufs[i + 1].free
  <2>1. MergeNext(bufs, i) = new
    BY <1>3 DEF MergeNext
  <2>2. i + 1 \in 1 .. Len(bufs)
    BY <1>1, <1>3
  <2>3. bufs[i] \in Buffer /\ bufs[i + 1] \in Buffer
    BY <1>1, <2>2, EntryTypes
  <2> DEFINE big == [bufs[i] EXCEPT !.size = @ + bufs[i + 1].size]
  <2>4. /\ big \in Buffer /\ big.offset = bufs[i].offset /\ big.free = bufs[i].free
        /\ big.size = bufs[i].size + bufs[i + 1].size
        /\ big.async = bufs[i].async /\ big.need = bufs[i].need
    <3>1. bufs[i].size + bufs[i + 1].size \in Nat
      BY <2>3 DEF Buffer
    <3> QED
      BY <2>3, <3>1, Resized
  <2>5. grown = [bufs EXCEPT ![i] = big]
    OBVIOUS
  <2> HIDE DEF big, grown
  <2>6. /\ grown \in Seq(Buffer) /\ Len(grown) = Len(bufs)
        /\ \A j \in 1 .. Len(bufs) : grown[j] = IF j = i THEN big ELSE bufs[j]
    BY <1>1, <2>4, <2>5, EntryTypes
  <2>7. /\ new \in Seq(Buffer) /\ Len(new) = Len(bufs) - 1
        /\ \A j \in 1 .. Len(bufs) - 1 : new[j] = IF j < i + 1 THEN grown[j] ELSE grown[j + 1]
    <3>1. i + 1 \in 1 .. Len(grown)
      BY <2>2, <2>6
    <3>2. /\ new \in Seq(Buffer) /\ Len(new) = Len(grown) - 1
          /\ \A j \in 1 .. Len(grown) - 1 :
                new[j] = IF j < i + 1 THEN grown[j] ELSE grown[j + 1]
      BY <2>6, <3>1, RemoveAtIs
    <3> QED
      BY <2>6, <3>2
  <2> HIDE DEF new
  <2>8. \A j \in 1 .. Len(bufs) - 1 :
            /\ j < i => new[j] = bufs[j]
            /\ j = i => new[j] = big
            /\ j > i => new[j] = bufs[j + 1]
    BY <1>1, <1>3, <2>6, <2>7
  <2>9. Laid(new, n)
    <3>1. /\ \A j \in 1 .. Len(bufs) : bufs[j].offset \in Nat /\ bufs[j].size \in Nat
          /\ Len(bufs) \in Nat
      BY <1>1, EntryTypes
    <3>2. /\ bufs[1].offset = 0
          /\ bufs[Len(bufs)].offset + bufs[Len(bufs)].size = n
          /\ bufs[i + 1].offset = bufs[i].offset + bufs[i].size
          /\ bufs[i].size > 0
      BY <1>1, <1>3 DEF Laid
    <3>3. \A j \in 1 .. Len(bufs) : bufs[j].size > 0
      BY DEF Laid
    <3>4. \A j \in 1 .. Len(bufs) - 1 : bufs[j + 1].offset = bufs[j].offset + bufs[j].size
      BY DEF Laid
    <3>5. \A j, k \in 1 .. Len(bufs) : j < k => bufs[j].offset + bufs[j].size <= bufs[k].offset
      BY DEF Laid
    <3>6. Len(new) > 0 /\ new[1].offset = 0
      BY <1>1, <1>3, <2>4, <2>7, <2>8, <3>2
    <3>7. new[Len(new)].offset + new[Len(new)].size = n
      <4>1. CASE i + 1 = Len(bufs)
        <5>1. Len(new) = i /\ new[i] = big
          BY <4>1, <1>1, <1>3, <2>7, <2>8
        <5> QED
          BY <4>1, <5>1, <2>2, <2>4, <3>1, <3>2
      <4>2. CASE i + 1 < Len(bufs)
        <5>1. new[Len(new)] = bufs[Len(bufs)]
          BY <4>2, <1>1, <1>3, <2>7, <2>8
        <5> QED
          BY <5>1, <3>2
      <4> QED
        BY <4>1, <4>2, <1>1, <1>3
    <3>8. ASSUME NEW j \in 1 .. Len(new) PROVE new[j].size > 0
      <4>1. CASE j = i
        BY <4>1, <2>2, <2>4, <2>7, <2>8, <3>1, <3>3
      <4>2. CASE j # i
        BY <4>2, <1>1, <2>7, <2>8, <3>3
      <4> QED
        BY <4>1, <4>2
    <3>9. ASSUME NEW j \in 1 .. Len(new) - 1
          PROVE  new[j + 1].offset = new[j].offset + new[j].size
      <4>0. j \in 1 .. Len(bufs) - 1 /\ j + 1 \in 1 .. Len(bufs) - 1 /\ j \in Nat
        BY <1>1, <2>7
      <4>1. CASE j + 1 < i
        <5>1. new[j] = bufs[j] /\ new[j + 1] = bufs[j + 1]
          BY <4>0, <4>1, <1>1, <2>8
        <5> QED
          BY <4>0, <5>1, <3>4
      <4>2. CASE j + 1 = i
        <5>1. new[j] = bufs[j] /\ new[j + 1] = big
          BY <4>0, <4>2, <1>1, <2>8
        <5> QED
          BY <4>0, <4>2, <5>1, <2>4, <3>4
      <4>3. CASE j = i
        <5>1. bufs[i + 2].offset = bufs[i + 1].offset + bufs[i + 1].size
          <6>1. i + 1 \in 1 .. Len(bufs) - 1 /\ (i + 1) + 1 = i + 2
            BY <4>0, <4>3, <1>1
          <6> QED
            BY <6>1, <3>4
        <5>2. new[j + 1] = bufs[i + 2] /\ new[j] = big
          <6>1. j + 1 > i /\ (j + 1) + 1 = i + 2
            BY <4>0, <4>3
          <6> QED
            BY <6>1, <4>0, <4>3, <2>8
        <5> QED
          <6>1. /\ bufs[i].offset \in Nat /\ bufs[i].size \in Nat
                /\ bufs[i + 1].offset \in Nat /\ bufs[i + 1].size \in Nat
            BY <2>2, <3>1
          <6>2. bufs[i + 2].offset = bufs[i].offset + (bufs[i].size + bufs[i + 1].size)
            <7>1. bufs[i + 1].offset = bufs[i].offset + bufs[i].size
              BY <3>2
            <7>2. bufs[i].offset + (bufs[i].size + bufs[i + 1].size)
                    = bufs[i + 1].offset + bufs[i + 1].size
              <8> DEFINE a == bufs[i].offset   s == bufs[i].size
                         b == bufs[i + 1].offset   r == bufs[i + 1].size
              <8>1. a \in Nat /\ s \in Nat /\ b \in Nat /\ r \in Nat
                BY <6>1
              <8>2. b = a + s
                BY <7>1
              <8>3. a + (s + r) = b + r
                <9> HIDE DEF a, s, b, r
                <9> QED
                  BY <8>1, <8>2
              <8> QED
                BY <8>3
            <7> QED
              BY <5>1, <7>2
          <6> QED
            BY <5>2, <6>2, <2>4
      <4>4. CASE j > i
        <5>1. new[j] = bufs[j + 1] /\ new[j + 1] = bufs[(j + 1) + 1]
          BY <4>0, <4>4, <1>1, <2>8
        <5> QED
          BY <4>0, <5>1, <3>4, <1>1
      <4> QED
        BY <4>0, <4>1, <4>2, <4>3, <4>4, <1>1
    <3>10. ASSUME NEW j \in 1 .. Len(new), NEW k \in 1 .. Len(new), j < k
           PROVE  new[j].offset + new[j].size <= new[k].offset
      <4>0. j \in Nat /\ k \in Nat /\ j \in 1 .. Len(bufs) /\ k + 1 \in 1 .. Len(bufs)
        BY <1>1, <2>7
      <4>1. CASE k <= i
        <5>1. new[j] = bufs[j] /\ new[k].offset = bufs[k].offset
          BY <4>0, <4>1, <1>1, <2>4, <2>7, <2>8, <3>10
        <5> QED
          BY <5>1, <4>0, <2>7, <3>1, <3>5, <3>10
      <4>2. CASE k > i /\ j < i
        BY <4>0, <4>2, <1>1, <2>7, <2>8, <3>5
      <4>3. CASE k > i /\ j = i
        <5>1. new[k] = bufs[k + 1] /\ new[j] = big
          BY <4>0, <4>3, <1>1, <2>7, <2>8
        <5>2. bufs[i + 1].offset + bufs[i + 1].size <= bufs[k + 1].offset
          BY <4>0, <4>3, <1>1, <2>2, <3>5
        <5>3. /\ bufs[i].offset \in Nat /\ bufs[i].size \in Nat
              /\ bufs[i + 1].offset \in Nat /\ bufs[i + 1].size \in Nat
          BY <2>2, <3>1
        <5>4. bufs[i].offset + (bufs[i].size + bufs[i + 1].size)
                = bufs[i + 1].offset + bufs[i + 1].size
          <6> DEFINE a == bufs[i].offset   s == bufs[i].size
                     b == bufs[i + 1].offset   r == bufs[i + 1].size
          <6>1. a \in Nat /\ s \in Nat /\ b \in Nat /\ r \in Nat
            BY <5>3
          <6>2. b = a + s
            BY <3>2
          <6>3. a + (s + r) = b + r
            <7> HIDE DEF a, s, b, r
            <7> QED
              BY <6>1, <6>2
          <6> QED
            BY <6>3
        <5>5. big.offset + big.size = bufs[i + 1].offset + bufs[i + 1].size
          BY <5>4, <2>4
        <5> QED
          BY <5>1, <5>2, <5>5
      <4>4. CASE k > i /\ j > i
        <5>1. j + 1 \in 1 .. Len(bufs) /\ j + 1 < k + 1
          BY <4>0, <4>4, <1>1, <2>7, <3>10
        <5>2. new[j] = bufs[j + 1] /\ new[k] = bufs[k + 1]
          BY <4>0, <4>4, <1>1, <2>7, <2>8
        <5>3. bufs[j + 1].offset + bufs[j + 1].size <= bufs[k + 1].offset
          BY <5>1, <4>0, <3>5
        <5> QED
          BY <5>2, <5>3
      <4> QED
        BY <4>0, <4>1, <4>2, <4>3, <4>4, <1>1
    <3> QED
      BY <2>7, <3>6, <3>7, <3>8, <3>9, <3>10 DEF Laid
  <2>10. Entries(new)
    <3> SUFFICES ASSUME NEW j \in 1 .. Len(new) PROVE Entry(new[j])
      BY DEF Entries
    <3>1. CASE j = i
      <4>1. Entry(bufs[i]) /\ Entry(bufs[i + 1])
        BY <2>2 DEF Entries
      <4>2. new[j] = big
        BY <3>1, <2>7, <2>8
      <4>3. big.size % 8 = 0
        <5>1. /\ bufs[i].size \in Nat /\ bufs[i + 1].size \in Nat
              /\ bufs[i].size % 8 = 0 /\ bufs[i + 1].size % 8 = 0
          BY <4>1, <2>2, <1>1, EntryTypes DEF Entry
        <5>2. (bufs[i].size + bufs[i + 1].size) % 8 = 0
          BY <5>1, AlignedSum, Zenon
        <5> QED
          BY <5>2, <2>4
      <4> QED
        BY <4>1, <4>2, <4>3, <1>3, <2>4 DEF Entry
    <3>2. CASE j < i
      <4>1. new[j] = bufs[j] /\ j \in 1 .. Len(bufs)
        BY <3>2, <1>1, <2>7, <2>8
      <4> QED
        BY <4>1 DEF Entries
    <3>3. CASE j > i
      <4>1. new[j] = bufs[j + 1] /\ j + 1 \in 1 .. Len(bufs)
        BY <3>3, <1>1, <2>7, <2>8
      <4> QED
        BY <4>1 DEF Entries
    <3>4. j < i \/ j = i \/ j > i
      BY <1>1, <2>7
    <3> QED
      BY <3>1, <3>2, <3>3, <3>4
  <2>11. ASSUME NEW K, CoalescedBut(bufs, K \cup {i}), \A k \in K : k < i
         PROVE  CoalescedBut(new, K)
    <3> SUFFICES ASSUME NEW k \in 1 .. Len(new) - 1, k \notin K
                 PROVE  ~ (new[k].free /\ new[k + 1].free)
      BY DEF CoalescedBut
    <3>1. CASE k < i
      <4>1. new[k].free = bufs[k].free /\ new[k + 1].free = bufs[k + 1].free
        <5>1. k \in 1 .. Len(bufs) - 1 /\ k + 1 \in 1 .. Len(bufs) - 1 /\ k + 1 <= i
          BY <3>1, <1>1, <2>7
        <5> QED
          <6>1. new[k] = bufs[k]
            BY <5>1, <3>1, <2>8
          <6>2. CASE k + 1 = i
            BY <6>1, <6>2, <5>1, <2>8, <2>4
          <6>3. CASE k + 1 < i
            BY <6>1, <6>3, <5>1, <2>8
          <6> QED
            BY <6>2, <6>3, <5>1, <1>1
      <4> QED
        BY <3>1, <4>1, <1>1, <2>7, <2>11 DEF CoalescedBut
    <3>2. CASE k >= i
      <4>1. new[k + 1].free = bufs[k + 2].free /\ k + 1 \in 1 .. Len(bufs) - 1
        <5>1. k + 1 \in 1 .. Len(bufs) - 1 /\ k + 1 > i /\ (k + 1) + 1 = k + 2
          BY <3>2, <1>1, <2>7
        <5> QED
          BY <5>1, <2>8
      <4>2. k + 1 \notin K \cup {i}
        BY <3>2, <1>1, <2>7, <2>11
      <4>3. ~ (bufs[k + 1].free /\ bufs[k + 2].free)
        <5>1. (k + 1) + 1 = k + 2
          BY <1>1, <2>7
        <5> QED
          BY <4>1, <4>2, <5>1, <2>11 DEF CoalescedBut
      <4>4. new[k].free => bufs[k + 1].free
        BY <3>2, <1>1, <1>3, <2>7, <2>8, <2>4
      <4> QED
        BY <4>1, <4>3, <4>4
    <3> QED
      BY <3>1, <3>2, <1>1, <2>7
  <2> QED
    BY <1>1, <1>3, <2>1, <2>7, <2>9, <2>10, <2>11
<1> QED
  BY <1>2, <1>3

-----------------------------------------------------------------------------
(* binder_buffer_free on a well laid out, coalesced list gives another. *)
LEMMA ReleaseLaid ==
    ASSUME NEW bufs, NEW n, Laid(bufs, n), Entries(bufs), CoalescedBut(bufs, {}),
           NEW i \in 1 .. Len(bufs)
    PROVE  /\ Laid(Release(bufs, i), n)
           /\ Entries(Release(bufs, i))
           /\ CoalescedBut(Release(bufs, i), {})
<1> DEFINE buf    == FreeBuffer(bufs[i].offset, bufs[i].size)
           freed  == [bufs EXCEPT ![i] = buf]
           merged == MergeNext(freed, i)
           before == MergeNext(merged, i - 1)
<1>1. bufs \in Seq(Buffer) /\ i \in Nat /\ i >= 1
  <2>1. bufs \in Seq(Buffer)
    BY DEF Laid
  <2> QED
    BY <2>1, EntryTypes
<1>2. bufs[i].offset \in Nat /\ bufs[i].size \in Nat
  BY <1>1, EntryTypes
<1>3. /\ buf \in Buffer /\ buf.offset = bufs[i].offset /\ buf.size = bufs[i].size
      /\ buf.async = FALSE /\ buf.need = 0 /\ buf.free = TRUE
  BY <1>2 DEF FreeBuffer, Buffer
<1>4. Release(bufs, i) = IF i > 1 THEN before ELSE merged
  BY DEF Release
<1> HIDE DEF buf
<1>5. Laid(freed, n)
  BY <1>3, MarkLaid
<1>6. Len(freed) = Len(bufs) /\ \A j \in 1 .. Len(bufs) : freed[j] = IF j = i THEN buf ELSE bufs[j]
  BY <1>1, EntryTypes
<1> HIDE DEF freed
<1>7. Entries(freed)
  <2> SUFFICES ASSUME NEW j \in 1 .. Len(bufs) PROVE Entry(freed[j])
    BY <1>6 DEF Entries
  <2>1. Entry(bufs[i])
    BY DEF Entries
  <2>2. CASE j = i
    BY <1>3, <1>6, <2>1, <2>2 DEF Entry
  <2>3. CASE j # i
    BY <1>6, <2>3 DEF Entries
  <2> QED
    BY <2>2, <2>3
<1>8. CoalescedBut(freed, {i - 1} \cup {i})
  <2> SUFFICES ASSUME NEW k \in 1 .. Len(bufs) - 1, k \notin {i - 1} \cup {i}
               PROVE  ~ (freed[k].free /\ freed[k + 1].free)
    BY <1>6 DEF CoalescedBut
  <2>1. k \in 1 .. Len(bufs) /\ k + 1 \in 1 .. Len(bufs) /\ k # i /\ k + 1 # i
    BY <1>1, EntryTypes
  <2>2. freed[k] = bufs[k] /\ freed[k + 1] = bufs[k + 1]
    BY <1>6, <2>1
  <2> QED
    BY <2>2 DEF CoalescedBut
<1>9. /\ Laid(merged, n) /\ Entries(merged) /\ Len(merged) >= i
      /\ CoalescedBut(merged, {i - 1})
  <2>1. \A k \in {i - 1} : k < i
    BY <1>1
  <2>2. i \in 1 .. Len(freed)
    BY <1>6
  <2> QED
    BY <2>1, <2>2, <1>5, <1>7, <1>8, MergeLaid
<1> HIDE DEF merged
<1>10. CASE i > 1
  <2>1. i - 1 \in 1 .. Len(merged) /\ {} \cup {i - 1} = {i - 1}
    <3>1. Len(merged) \in Nat
      BY <1>9, EntryTypes DEF Laid
    <3> QED
      BY <3>1, <1>1, <1>9, <1>10
  <2> DEFINE none == {}
  <2>2. CoalescedBut(merged, none \cup {i - 1}) /\ \A k \in none : k < i - 1
    BY <2>1, <1>9
  <2>3. Laid(before, n) /\ Entries(before) /\ CoalescedBut(before, none)
    <3> HIDE DEF none
    <3> QED
      BY <2>1, <2>2, <1>9, MergeLaid
  <2> QED
    BY <2>3, <1>4, <1>10
<1>11. CASE ~ (i > 1)
  <2>1. CoalescedBut(merged, {})
    <3> SUFFICES ASSUME NEW k \in 1 .. Len(merged) - 1
                 PROVE  ~ (merged[k].free /\ merged[k + 1].free)
      BY DEF CoalescedBut
    <3>1. Len(merged) \in Nat
      BY <1>9, EntryTypes DEF Laid
    <3>2. k \notin {i - 1}
      BY <3>1, <1>1, <1>11
    <3> QED
      BY <3>2, <1>9 DEF CoalescedBut
  <2> QED
    BY <2>1, <1>4, <1>9, <1>11
<1> QED
  BY <1>10, <1>11

-----------------------------------------------------------------------------
(* Splitting the tail of buffer i off behind it keeps the layout. *)
LEMMA SplitLaid ==
    ASSUME NEW bufs, NEW n, Laid(bufs, n), NEW i \in 1 .. Len(bufs),
           NEW small \in Buffer, NEW rest \in Buffer,
           small.offset = bufs[i].offset, small.size > 0, rest.size > 0,
           rest.offset = small.offset + small.size,
           small.size + rest.size = bufs[i].size
    PROVE  LET new == InsertAt([bufs EXCEPT ![i] = small], i + 1, rest)
           IN  /\ Laid(new, n)
               /\ Len(new) = Len(bufs) + 1
               /\ \A j \in 1 .. Len(new) :
                    /\ j < i => new[j] = bufs[j]
                    /\ j = i => new[j] = small
                    /\ j = i + 1 => new[j] = rest
                    /\ j > i + 1 => new[j] = bufs[j - 1] /\ j - 1 \in 1 .. Len(bufs)
<1> DEFINE cut == [bufs EXCEPT ![i] = small]
           new == InsertAt(cut, i + 1, rest)
<1>1. bufs \in Seq(Buffer)
  BY DEF Laid
<1>2. Len(bufs) \in Nat /\ i \in Nat /\ i >= 1 /\ i <= Len(bufs)
  BY <1>1, EntryTypes
<1>3. /\ cut \in Seq(Buffer) /\ Len(cut) = Len(bufs)
      /\ \A j \in 1 .. Len(bufs) : cut[j] = IF j = i THEN small ELSE bufs[j]
  BY <1>1, EntryTypes
<1> HIDE DEF cut
<1>4. /\ new \in Seq(Buffer) /\ Len(new) = Len(bufs) + 1
      /\ \A j \in 1 .. Len(bufs) + 1 :
            new[j] = IF j < i + 1 THEN cut[j] ELSE IF j = i + 1 THEN rest ELSE cut[j - 1]
  <2>1. i + 1 \in 1 .. Len(cut) + 1
    BY <1>2, <1>3
  <2>2. /\ new \in Seq(Buffer) /\ Len(new) = Len(cut) + 1
        /\ \A j \in 1 .. Len(cut) + 1 :
              new[j] = IF j < i + 1 THEN cut[j] ELSE IF j = i + 1 THEN rest ELSE cut[j - 1]
    <3> DEFINE m == i + 1
    <3>1. cut \in Seq(Buffer) /\ m \in 1 .. Len(cut) + 1
      BY <1>3, <2>1
    <3> HIDE DEF m
    <3>2. /\ InsertAt(cut, m, rest) \in Seq(Buffer)
          /\ Len(InsertAt(cut, m, rest)) = Len(cut) + 1
          /\ \A j \in 1 .. Len(cut) + 1 : InsertAt(cut, m, rest)[j] =
                IF j < m THEN cut[j] ELSE IF j = m THEN rest ELSE cut[j - 1]
      BY <3>1, InsertAtIs
    <3> QED
      BY <3>2 DEF m
  <2> QED
    BY <1>3, <2>2
<1> HIDE DEF new
<1>5. ASSUME NEW j \in 1 .. Len(new)
      PROVE  /\ j < i => new[j] = bufs[j]
             /\ j = i => new[j] = small
             /\ j = i + 1 => new[j] = rest
             /\ j > i + 1 => new[j] = bufs[j - 1] /\ j - 1 \in 1 .. Len(bufs)
  <2>0. j \in 1 .. Len(bufs) + 1 /\ j \in Nat
    BY <1>2, <1>4
  <2>1. j < i => new[j] = bufs[j]
    <3> SUFFICES ASSUME j < i PROVE new[j] = bufs[j]
      OBVIOUS
    <3>1. j < i + 1 /\ j # i /\ j \in 1 .. Len(bufs)
      BY <2>0, <1>2
    <3> QED
      BY <3>1, <2>0, <1>3, <1>4
  <2>2. j = i => new[j] = small
    BY <2>0, <1>2, <1>3, <1>4
  <2>3. j = i + 1 => new[j] = rest
    BY <2>0, <1>2, <1>4
  <2>4. ASSUME j > i + 1 PROVE new[j] = bufs[j - 1] /\ j - 1 \in 1 .. Len(bufs)
    <3>1. ~ (j < i + 1) /\ j # i + 1 /\ j - 1 # i /\ j - 1 \in 1 .. Len(bufs)
      BY <2>0, <2>4, <1>2
    <3> QED
      BY <3>1, <2>0, <1>3, <1>4
  <2> QED
    BY <2>1, <2>2, <2>3, <2>4
<1>6. /\ \A j \in 1 .. Len(bufs) : bufs[j].offset \in Nat /\ bufs[j].size \in Nat
      /\ small.offset \in Nat /\ small.size \in Nat /\ rest.offset \in Nat /\ rest.size \in Nat
  BY <1>1, EntryTypes DEF Buffer
<1>7. rest.offset + rest.size = bufs[i].offset + bufs[i].size
  BY <1>6
<1>8. /\ bufs[1].offset = 0 /\ bufs[Len(bufs)].offset + bufs[Len(bufs)].size = n
      /\ \A j \in 1 .. Len(bufs) : bufs[j].size > 0
      /\ \A j \in 1 .. Len(bufs) - 1 : bufs[j + 1].offset = bufs[j].offset + bufs[j].size
      /\ \A j, k \in 1 .. Len(bufs) : j < k => bufs[j].offset + bufs[j].size <= bufs[k].offset
  BY DEF Laid
<1>9. Len(new) > 0 /\ new[1].offset = 0
  <2>1. 1 \in 1 .. Len(new) /\ (1 < i \/ 1 = i)
    BY <1>2, <1>4
  <2> QED
    BY <2>1, <1>2, <1>4, <1>5, <1>8
<1>10. new[Len(new)].offset + new[Len(new)].size = n
  <2>1. CASE i = Len(bufs)
    <3>1. new[Len(new)] = rest
      BY <2>1, <1>2, <1>4, <1>5
    <3> QED
      BY <2>1, <3>1, <1>7, <1>8
  <2>2. CASE i < Len(bufs)
    <3>1. new[Len(new)] = bufs[Len(bufs)]
      BY <2>2, <1>2, <1>4, <1>5
    <3> QED
      BY <3>1, <1>8
  <2> QED
    BY <2>1, <2>2, <1>2
<1>11. ASSUME NEW j \in 1 .. Len(new) PROVE new[j].size > 0
  <2>1. j < i \/ j = i \/ j = i + 1 \/ j > i + 1
    BY <1>2, <1>4
  <2>2. j < i => j \in 1 .. Len(bufs)
    BY <1>2, <1>4
  <2> QED
    BY <2>1, <2>2, <1>5, <1>8
<1>12. ASSUME NEW j \in 1 .. Len(new) - 1
       PROVE  new[j + 1].offset = new[j].offset + new[j].size
  <2>0. j \in 1 .. Len(new) /\ j + 1 \in 1 .. Len(new) /\ j \in Nat
    BY <1>2, <1>4
  <2>1. CASE j + 1 < i
    <3>1. new[j] = bufs[j] /\ new[j + 1] = bufs[j + 1] /\ j \in 1 .. Len(bufs) - 1
      BY <2>0, <2>1, <1>2, <1>5
    <3> QED
      BY <3>1, <1>8
  <2>2. CASE j + 1 = i
    <3>1. new[j] = bufs[j] /\ new[j + 1] = small /\ j \in 1 .. Len(bufs) - 1
      BY <2>0, <2>2, <1>2, <1>5
    <3> QED
      BY <3>1, <2>2, <1>8
  <2>3. CASE j = i
    BY <2>0, <2>3, <1>5
  <2>4. CASE j = i + 1
    <3>1. new[j] = rest /\ new[j + 1] = bufs[i + 1] /\ i \in 1 .. Len(bufs) - 1
      BY <2>0, <2>4, <1>2, <1>4, <1>5
    <3> QED
      BY <3>1, <1>7, <1>8
  <2>5. CASE j > i + 1
    <3>1. /\ new[j] = bufs[j - 1] /\ new[j + 1] = bufs[(j - 1) + 1]
          /\ j - 1 \in 1 .. Len(bufs) - 1
      BY <2>0, <2>5, <1>2, <1>4, <1>5
    <3> QED
      BY <3>1, <1>8
  <2> QED
    BY <2>0, <2>1, <2>2, <2>3, <2>4, <2>5, <1>2
<1> DEFINE src(j) == IF j <= i THEN j ELSE j - 1
<1>13. ASSUME NEW j \in 1 .. Len(new)
       PROVE  /\ src(j) \in 1 .. Len(bufs)
              /\ new[j].offset \in Nat /\ new[j].size \in Nat
              /\ bufs[src(j)].offset <= new[j].offset
              /\ new[j].offset + new[j].size <= bufs[src(j)].offset + bufs[src(j)].size
  <2>0. new[j].offset \in Nat /\ new[j].size \in Nat
    BY <1>4, EntryTypes
  <2>1. CASE j < i
    <3>1. src(j) = j /\ j \in 1 .. Len(bufs) /\ new[j] = bufs[j]
      BY <2>1, <1>2, <1>4, <1>5
    <3> QED
      BY <3>1, <2>0
  <2>2. CASE j = i
    <3>1. src(j) = i /\ new[j] = small
      BY <2>2, <1>2, <1>5
    <3>2. /\ bufs[i].offset <= small.offset
          /\ small.offset + small.size <= bufs[i].offset + bufs[i].size
      <4> DEFINE o == bufs[i].offset   m == small.size   r == rest.size
      <4>1. o \in Nat /\ m \in Nat /\ r \in Nat
        BY <1>6
      <4>2. o <= o /\ o + m <= o + (m + r)
        <5> HIDE DEF o, m, r
        <5> QED
          BY <4>1
      <4>3. small.offset = o /\ bufs[i].size = m + r
        OBVIOUS
      <4> QED
        BY <4>2, <4>3
    <3> QED
      BY <3>1, <3>2, <2>0
  <2>3. CASE j = i + 1
    <3>1. src(j) = i /\ new[j] = rest
      BY <2>3, <1>2, <1>5
    <3> QED
      <4>1. bufs[i].offset <= rest.offset /\ rest.offset + rest.size <= bufs[i].offset + bufs[i].size
        BY <1>6, <1>7
      <4> QED
        BY <3>1, <4>1, <2>0
  <2>4. CASE j > i + 1
    <3>1. src(j) = j - 1 /\ j - 1 \in 1 .. Len(bufs) /\ new[j] = bufs[j - 1]
      BY <2>4, <1>2, <1>5
    <3> QED
      BY <3>1, <2>0
  <2>5. j < i \/ j = i \/ j = i + 1 \/ j > i + 1
    BY <1>2, <1>4
  <2> QED
    BY <2>1, <2>2, <2>3, <2>4, <2>5
<1>14. ASSUME NEW j \in 1 .. Len(new), NEW k \in 1 .. Len(new), j < k
       PROVE  new[j].offset + new[j].size <= new[k].offset
  <2>1. CASE j = i /\ k = i + 1
    <3>1. new[j] = small /\ new[k] = rest
      BY <2>1, <1>5
    <3> QED
      BY <3>1, <1>6
  <2>2. CASE ~ (j = i /\ k = i + 1)
    <3>1. src(j) < src(k)
      BY <2>2, <1>2, <1>4, <1>14
    <3>2. bufs[src(j)].offset + bufs[src(j)].size <= bufs[src(k)].offset
      BY <3>1, <1>8, <1>13
    <3> DEFINE a == new[j].offset + new[j].size
               b == bufs[src(j)].offset + bufs[src(j)].size
               c == bufs[src(k)].offset
               d == new[k].offset
    <3>3. src(j) \in 1 .. Len(bufs) /\ src(k) \in 1 .. Len(bufs)
      BY <1>13
    <3>4. a <= b /\ c <= d
      BY <1>13
    <3>5. new[j].offset \in Nat /\ new[j].size \in Nat /\ d \in Nat
      BY <1>13
    <3>6. bufs[src(j)].offset \in Nat /\ bufs[src(j)].size \in Nat /\ c \in Nat
      <4> HIDE DEF src
      <4> QED
        BY <3>3, <1>6
    <3> HIDE DEF src
    <3>7. a \in Nat /\ b \in Nat
      <4>1. a \in Nat
        BY <3>5, ExtentEnd
      <4>2. b \in Nat
        BY <3>6, ExtentEnd
      <4> QED
        BY <4>1, <4>2
    <3>8. b <= c
      BY <3>2
    <3> HIDE DEF a, b, c, d
    <3>9. a <= d
      BY <3>4, <3>5, <3>6, <3>7, <3>8, BoundChain
    <3> QED
      BY <3>9 DEF a, d
  <2> QED
    BY <2>1, <2>2
<1>15. Laid(new, n)
  BY <1>4, <1>9, <1>10, <1>11, <1>12, <1>14 DEF Laid
<1> QED
  BY <1>4, <1>5, <1>15 DEF new, cut

(* binder_buffer_alloc's taking of a free buffer that fits gives a well    *)
(* laid out, coalesced list again, with or without a split.                *)
LEMMA TakeLaid ==
    ASSUME NEW bufs, NEW n, Laid(bufs, n), Entries(bufs), CoalescedBut(bufs, {}),
           NEW i \in 1 .. Len(bufs), NEW need \in Nat, NEW is_async \in BOOLEAN,
           bufs[i].free, need > 0, need % 8 = 0, bufs[i].size >= need
    PROVE  /\ Laid(Take(bufs, i, need, is_async), n)
           /\ Entries(Take(bufs, i, need, is_async))
           /\ CoalescedBut(Take(bufs, i, need, is_async), {})
<1> DEFINE taken == Taken(bufs[i], need, is_async)
           small == [taken EXCEPT !.size = need]
           rest  == FreeBuffer(bufs[i].offset + need, bufs[i].size - need)
           whole == [bufs EXCEPT ![i] = taken]
           split == InsertAt([bufs EXCEPT ![i] = small], i + 1, rest)
<1>1. bufs \in Seq(Buffer)
  BY DEF Laid
<1>2. /\ Len(bufs) \in Nat /\ i \in Nat /\ i >= 1 /\ i <= Len(bufs)
      /\ bufs[i] \in Buffer /\ bufs[i].offset \in Nat /\ bufs[i].size \in Nat
  BY <1>1, EntryTypes
<1>3. /\ taken \in Buffer /\ taken.offset = bufs[i].offset /\ taken.size = bufs[i].size
      /\ taken.need = need /\ taken.free = FALSE
  <2> DEFINE b == bufs[i]
  <2>1. b \in Buffer
    BY <1>2
  <2> HIDE DEF b
  <2>2. /\ Taken(b, need, is_async) \in Buffer
        /\ Taken(b, need, is_async).offset = b.offset
        /\ Taken(b, need, is_async).size = b.size
        /\ Taken(b, need, is_async).need = need
        /\ Taken(b, need, is_async).free = FALSE
    BY <2>1 DEF Buffer, Taken
  <2> QED
    BY <2>2 DEF b
<1>4. Entry(bufs[i])
  BY DEF Entries
<1>5. Take(bufs, i, need, is_async) =
        IF bufs[i].size - need >= BINDER_MIN_SPLIT THEN split ELSE whole
  BY DEF Take
<1>6. CASE ~ (bufs[i].size - need >= BINDER_MIN_SPLIT)
  <2> HIDE DEF taken
  <2>1. Laid(whole, n)
    BY <1>3, MarkLaid
  <2>2. /\ Len(whole) = Len(bufs)
        /\ \A j \in 1 .. Len(bufs) : whole[j] = IF j = i THEN taken ELSE bufs[j]
    BY <1>1, EntryTypes
  <2> HIDE DEF whole
  <2>3. Entry(taken)
    BY <1>3, <1>4 DEF Entry
  <2>4. Entries(whole)
    BY <2>2, <2>3 DEF Entries
  <2>5. CoalescedBut(whole, {})
    <3> SUFFICES ASSUME NEW k \in 1 .. Len(bufs) - 1
                 PROVE  ~ (whole[k].free /\ whole[k + 1].free)
      BY <2>2 DEF CoalescedBut
    <3>1. k \in 1 .. Len(bufs) /\ k + 1 \in 1 .. Len(bufs)
      BY <1>2
    <3>2. CASE k = i \/ k + 1 = i
      BY <3>1, <3>2, <2>2, <1>3
    <3>3. CASE k # i /\ k + 1 # i
      BY <3>1, <3>3, <2>2 DEF CoalescedBut
    <3> QED
      BY <3>2, <3>3
  <2> QED
    BY <2>1, <2>4, <2>5, <1>5, <1>6
<1>7. CASE bufs[i].size - need >= BINDER_MIN_SPLIT
  <2>1. /\ small \in Buffer /\ small.offset = bufs[i].offset /\ small.size = need
        /\ small.need = need /\ small.free = FALSE
    <3> HIDE DEF taken
    <3> QED
      BY <1>3, Resized
  <2>2. bufs[i].size - need \in Nat /\ bufs[i].size - need > 0 /\ bufs[i].offset + need \in Nat
    BY <1>2, <1>7 DEF BINDER_MIN_SPLIT
  <2>3. /\ rest \in Buffer /\ rest.offset = bufs[i].offset + need
        /\ rest.size = bufs[i].size - need
        /\ rest.need = 0 /\ rest.async = FALSE /\ rest.free = TRUE
    BY <2>2 DEF FreeBuffer, Buffer
  <2> HIDE DEF taken, small, rest
  <2>4. small.size > 0 /\ rest.size > 0 /\ small.size + rest.size = bufs[i].size
        /\ rest.offset = small.offset + small.size
    BY <1>2, <2>1, <2>2, <2>3
  <2>5. /\ Laid(split, n)
        /\ Len(split) = Len(bufs) + 1
        /\ \A j \in 1 .. Len(split) :
              /\ j < i => split[j] = bufs[j]
              /\ j = i => split[j] = small
              /\ j = i + 1 => split[j] = rest
              /\ j > i + 1 => split[j] = bufs[j - 1] /\ j - 1 \in 1 .. Len(bufs)
    BY <2>1, <2>3, <2>4, SplitLaid, ZenonT(60)
  <2> HIDE DEF split
  <2>6. Entry(small)
    BY <1>4, <2>1 DEF Entry
  <2>7. Entry(rest)
    <3>1. (bufs[i].offset + need) % 8 = 0 /\ (bufs[i].size - need) % 8 = 0
      <4>1. bufs[i].offset % 8 = 0 /\ bufs[i].size % 8 = 0
        BY <1>4 DEF Entry
      <4> QED
        BY <4>1, <1>2, AlignedSum, AlignedDifference
    <3> QED
      BY <3>1, <2>3 DEF Entry
  <2>8. Entries(split)
    <3> SUFFICES ASSUME NEW j \in 1 .. Len(split) PROVE Entry(split[j])
      BY DEF Entries
    <3>1. j < i \/ j = i \/ j = i + 1 \/ j > i + 1
      BY <1>2, <2>5
    <3>2. j < i => j \in 1 .. Len(bufs)
      BY <1>2, <2>5
    <3> QED
      BY <3>1, <3>2, <2>5, <2>6, <2>7 DEF Entries
  <2>9. CoalescedBut(split, {})
    <3> SUFFICES ASSUME NEW k \in 1 .. Len(split) - 1
                 PROVE  ~ (split[k].free /\ split[k + 1].free)
      BY DEF CoalescedBut
    <3>0. k \in 1 .. Len(split) /\ k + 1 \in 1 .. Len(split) /\ k \in Nat
      BY <1>2, <2>5
    <3>1. CASE k + 1 < i
      <4>1. split[k] = bufs[k] /\ split[k + 1] = bufs[k + 1] /\ k \in 1 .. Len(bufs) - 1
        BY <3>0, <3>1, <1>2, <2>5
      <4> QED
        BY <4>1 DEF CoalescedBut
    <3>2. CASE k + 1 = i \/ k = i
      BY <3>0, <3>2, <2>1, <2>5
    <3>3. CASE k = i + 1
      <4>1. split[k + 1] = bufs[i + 1] /\ i \in 1 .. Len(bufs) - 1
        BY <3>0, <3>3, <1>2, <2>5
      <4> QED
        BY <4>1 DEF CoalescedBut
    <3>4. CASE k > i + 1
      <4>1. /\ split[k] = bufs[k - 1] /\ split[k + 1] = bufs[(k - 1) + 1]
            /\ k - 1 \in 1 .. Len(bufs) - 1
        BY <3>0, <3>4, <1>2, <2>5
      <4> QED
        BY <4>1 DEF CoalescedBut
    <3> QED
      BY <3>0, <3>1, <3>2, <3>3, <3>4, <1>2
  <2> QED
    BY <2>5, <2>8, <2>9, <1>5, <1>7
<1> QED
  BY <1>6, <1>7

-----------------------------------------------------------------------------
(* What binder_buffer_alloc reserves is a whole number of 8-byte words. *)
LEMMA NeedAligned ==
    ASSUME NEW data \in Nat, NEW offsets \in Nat, NEW extra \in Nat
    PROVE  Need(data, offsets, extra) \in Nat /\ Need(data, offsets, extra) % 8 = 0
<1>1. \A x \in Nat : BINDER_ALIGN(x) \in Nat /\ BINDER_ALIGN(x) % 8 = 0
  BY DEF BINDER_ALIGN
<1> HIDE DEF BINDER_ALIGN
<1> QED
  BY <1>1 DEF Need

(* A freshly registered arena is well laid out. *)
LEMMA RegisterLaid ==
    ASSUME NEW size \in Nat, size > 0, size % 8 = 0
    PROVE  /\ Laid(<<FreeBuffer(0, size)>>, size)
           /\ Entries(<<FreeBuffer(0, size)>>)
           /\ CoalescedBut(<<FreeBuffer(0, size)>>, {})
<1> DEFINE b == FreeBuffer(0, size)
<1>1. /\ b \in Buffer /\ b.offset = 0 /\ b.size = size /\ b.free = TRUE
      /\ b.async = FALSE /\ b.need = 0
  BY DEF FreeBuffer, Buffer
<1> HIDE DEF b
<1>2. <<b>> \in Seq(Buffer) /\ Len(<<b>>) = 1 /\ <<b>>[1] = b
  BY <1>1
<1>3. Laid(<<b>>, size)
  BY <1>1, <1>2 DEF Laid
<1>4. Entry(b)
  BY <1>1 DEF Entry
<1>5. Entries(<<b>>) /\ CoalescedBut(<<b>>, {})
  BY <1>2, <1>4 DEF Entries, CoalescedBut
<1> QED
  BY <1>3, <1>5 DEF b

(* Registering an arena establishes IInv anew. *)
LEMMA RegisterKeeps ==
    ASSUME IInv, NEW size \in ArenaSizes, Register(size)
    PROVE  IInv'
<1>1. size \in Nat /\ size > 0 /\ size % 8 = 0 /\ size # 0
  BY ArenaAssumption DEF Register
<1>2. arena_size' = size /\ buffers' = <<FreeBuffer(0, size)>>
  BY DEF Register
<1>3. free_async_space' \in Nat
  BY <1>1 DEF Register, BINDER_ASYNC_FRACTION
<1> QED
  BY <1>1, <1>2, <1>3, RegisterLaid DEF IInv

(* An allocation keeps IInv, whatever sizes it is asked for. *)
LEMMA AllocKeeps ==
    ASSUME IInv, NEW data \in Nat, NEW offsets \in Nat, NEW extra \in Nat,
           NEW is_async \in BOOLEAN, Alloc(data, offsets, extra, is_async)
    PROVE  IInv'
<1> DEFINE need == Need(data, offsets, extra)
<1>1. need \in Nat /\ need % 8 = 0
  BY NeedAligned
<1>2. /\ arena_size # 0 /\ need # 0 /\ UNCHANGED arena_size
      /\ is_async => need <= free_async_space
      /\ free_async_space' = IF is_async THEN free_async_space - need ELSE free_async_space
      /\ \E i \in FirstFit(need) : buffers' = Take(buffers, i, need, is_async)
  BY DEF Alloc
<1> HIDE DEF need
<1>3. free_async_space' \in Nat
  BY <1>1, <1>2 DEF IInv
<1>4. /\ Laid(buffers, arena_size) /\ Entries(buffers) /\ CoalescedBut(buffers, {})
  BY <1>2 DEF IInv
<1>5. PICK i \in FirstFit(need) : buffers' = Take(buffers, i, need, is_async)
  BY <1>2
<1>6. i \in 1 .. Len(buffers) /\ buffers[i].free /\ buffers[i].size >= need
  <2>1. buffers \in Seq(Buffer)
    BY <1>4 DEF Laid
  <2> QED
    BY <2>1, EntryTypes DEF FirstFit, Fits
<1>7. need > 0
  BY <1>1, <1>2
<1>8. /\ Laid(buffers', arena_size) /\ Entries(buffers') /\ CoalescedBut(buffers', {})
  BY <1>1, <1>4, <1>5, <1>6, <1>7, TakeLaid
<1> QED
  BY <1>2, <1>3, <1>8 DEF IInv

(* So does giving a buffer back. *)
LEMMA FreeKeeps ==
    ASSUME IInv, NEW i \in DOMAIN buffers, Free(i)
    PROVE  IInv'
<1>1. arena_size # 0
  <2>1. buffers # <<>>
    OBVIOUS
  <2> QED
    BY <2>1 DEF IInv
<1>2. /\ Laid(buffers, arena_size) /\ Entries(buffers) /\ CoalescedBut(buffers, {})
  BY <1>1 DEF IInv
<1>3. i \in 1 .. Len(buffers) /\ buffers[i].size \in Nat
  <2>1. buffers \in Seq(Buffer)
    BY <1>2 DEF Laid
  <2> QED
    BY <2>1, EntryTypes
<1>4. free_async_space' \in Nat
  BY <1>3 DEF Free, IInv
<1>5. buffers' = Release(buffers, i) /\ UNCHANGED arena_size
  BY DEF Free
<1>6. /\ Laid(buffers', arena_size) /\ Entries(buffers') /\ CoalescedBut(buffers', {})
  BY <1>2, <1>3, <1>5, ReleaseLaid
<1> QED
  BY <1>1, <1>4, <1>5, <1>6 DEF IInv

(* IInv holds initially and every operation of the allocator preserves it. *)
THEOREM Inductive == Spec => []IInv
<1>1. Init => IInv
  BY DEF Init, IInv
<1>2. IInv /\ [Next]_vars => IInv'
  <2> SUFFICES ASSUME IInv, [Next]_vars PROVE IInv'
    OBVIOUS
  <2>1. ASSUME NEW size \in ArenaSizes, Register(size) PROVE IInv'
    BY <2>1, RegisterKeeps
  <2>2. ASSUME NEW data \in Sizes, NEW offsets \in Sizes, NEW extra \in Sizes,
               NEW is_async \in BOOLEAN, Alloc(data, offsets, extra, is_async)
        PROVE  IInv'
    BY <2>2, AllocKeeps, ArenaAssumption
  <2>3. ASSUME NEW i \in DOMAIN buffers, Free(i) PROVE IInv'
    BY <2>3, FreeKeeps
  <2>4. CASE Teardown
    BY <2>4 DEF Teardown, IInv
  <2>5. CASE UNCHANGED vars
    BY <2>5 DEF vars, IInv, Laid, Entries, Entry, CoalescedBut
  <2> QED
    BY <2>1, <2>2, <2>3, <2>4, <2>5 DEF Next
<1> QED
  BY <1>1, <1>2, PTL DEF Spec

-----------------------------------------------------------------------------
(* What IInv says of a registered arena, in the vocabulary of BinderAlloc. *)
LEMMA Registered ==
    ASSUME IInv, arena_size # 0
    PROVE  /\ Laid(buffers, arena_size) /\ Entries(buffers) /\ CoalescedBut(buffers, {})
           /\ buffers \in Seq(Buffer) /\ Len(buffers) \in Nat /\ Len(buffers) > 0
           /\ buffers # <<>> /\ DOMAIN buffers = 1 .. Len(buffers)
           /\ \A i \in DOMAIN buffers :
                 buffers[i].offset \in Nat /\ buffers[i].size \in Nat /\ buffers[i].need \in Nat
<1>1. Laid(buffers, arena_size) /\ Entries(buffers) /\ CoalescedBut(buffers, {})
  BY DEF IInv
<1>2. buffers \in Seq(Buffer) /\ Len(buffers) > 0
  BY <1>1 DEF Laid
<1> QED
  BY <1>1, <1>2, EntryTypes

(* The list and the async allowance keep their types: free_async_space,    *)
(* an unsigned field, is never driven below zero by binder_buffer_alloc.   *)
THEOREM TypeCorrect == Spec => []TypeOK
<1>1. IInv => TypeOK
  <2> SUFFICES ASSUME IInv PROVE TypeOK
    OBVIOUS
  <2>1. CASE arena_size = 0
    BY <2>1 DEF IInv, TypeOK
  <2>2. CASE arena_size # 0
    BY <2>2, Registered DEF IInv, TypeOK
  <2> QED
    BY <2>1, <2>2
<1> QED
  BY <1>1, Inductive, PTL

(* The buffer list is ordered by offset and covers the arena exactly, and  *)
(* no two neighbours are both free, after any sequence of operations.      *)
THEOREM ArenaTiled == Spec => [](Tiling /\ Coalesced)
<1>1. IInv => Tiling /\ Coalesced
  <2> SUFFICES ASSUME IInv PROVE Tiling /\ Coalesced
    OBVIOUS
  <2>1. CASE arena_size = 0
    BY <2>1 DEF IInv, Tiling, Coalesced
  <2>2. CASE arena_size # 0
    BY <2>2, Registered DEF Tiling, Coalesced, Laid, CoalescedBut
  <2> QED
    BY <2>1, <2>2
<1> QED
  BY <1>1, Inductive, PTL

(* No byte of the arena belongs to two live parcels: binder_buffer_alloc   *)
(* never hands out bytes that it has handed out and not got back.          *)
THEOREM NoByteTwice == Spec => []Disjoint
<1>1. IInv => Disjoint
  <2> SUFFICES ASSUME IInv, NEW i \in DOMAIN buffers, ~ buffers[i].free
               PROVE  /\ buffers[i].need > 0 /\ buffers[i].need <= buffers[i].size
                      /\ buffers[i].offset + buffers[i].size <= arena_size
                      /\ \A j \in DOMAIN buffers : j # i /\ ~ buffers[j].free =>
                            \/ buffers[i].offset + buffers[i].size <= buffers[j].offset
                            \/ buffers[j].offset + buffers[j].size <= buffers[i].offset
    BY DEF Disjoint
  <2>1. arena_size # 0
    BY DEF IInv
  <2>2. /\ Laid(buffers, arena_size) /\ Entries(buffers)
        /\ Len(buffers) \in Nat /\ Len(buffers) > 0 /\ DOMAIN buffers = 1 .. Len(buffers)
        /\ \A j \in DOMAIN buffers : buffers[j].offset \in Nat /\ buffers[j].size \in Nat
    BY <2>1, Registered
  <2>3. \A j, k \in 1 .. Len(buffers) :
            j < k => buffers[j].offset + buffers[j].size <= buffers[k].offset
    BY <2>2 DEF Laid
  <2>4. buffers[i].need > 0 /\ buffers[i].need <= buffers[i].size
    BY <2>2 DEF Entries, Entry
  <2>5. buffers[i].offset + buffers[i].size <= arena_size
    <3> DEFINE m == Len(buffers)
    <3>1. m \in 1 .. Len(buffers) /\ buffers[m].offset + buffers[m].size = arena_size
      BY <2>2 DEF Laid
    <3>2. buffers[m].offset \in Nat /\ buffers[m].size \in Nat
      BY <2>2, <3>1
    <3>3. CASE i = m
      BY <3>1, <3>2, <3>3
    <3>4. CASE i # m
      <4>1. i < m
        BY <2>2, <3>4
      <4>2. buffers[i].offset + buffers[i].size <= buffers[m].offset
        BY <4>1, <2>2, <2>3, <3>1
      <4>3. buffers[i].offset + buffers[i].size \in Nat
        BY <2>2
      <4> QED
        BY <4>2, <4>3, <3>1, <3>2
    <3> QED
      BY <3>3, <3>4
  <2>6. ASSUME NEW j \in DOMAIN buffers, j # i
        PROVE  \/ buffers[i].offset + buffers[i].size <= buffers[j].offset
               \/ buffers[j].offset + buffers[j].size <= buffers[i].offset
    <3>1. i < j \/ j < i
      BY <2>2, <2>6
    <3> QED
      BY <3>1, <2>2, <2>3
  <2> QED
    BY <2>4, <2>5, <2>6
<1> QED
  BY <1>1, Inductive, PTL

(* When the last parcel is freed the arena is one free buffer again,       *)
(* whatever the order in which binder_buffer_free gave the parcels back.   *)
THEOREM FullyReclaimed == Spec => []WholeAgain
<1>1. IInv => WholeAgain
  <2> SUFFICES ASSUME IInv, arena_size # 0, \A i \in DOMAIN buffers : buffers[i].free
               PROVE  buffers = <<FreeBuffer(0, arena_size)>>
    BY DEF WholeAgain
  <2>1. /\ Laid(buffers, arena_size) /\ Entries(buffers) /\ CoalescedBut(buffers, {})
        /\ buffers \in Seq(Buffer) /\ Len(buffers) \in Nat /\ Len(buffers) > 0
        /\ DOMAIN buffers = 1 .. Len(buffers)
    BY Registered
  <2>2. Len(buffers) = 1
    <3> SUFFICES ASSUME Len(buffers) # 1 PROVE FALSE
      OBVIOUS
    <3>1. 1 \in 1 .. Len(buffers) - 1 /\ 1 \in DOMAIN buffers /\ 2 \in DOMAIN buffers
      BY <2>1
    <3>2. ~ (buffers[1].free /\ buffers[1 + 1].free)
      BY <2>1, <3>1 DEF CoalescedBut
    <3> QED
      BY <3>1, <3>2
  <2>3. /\ buffers[1] \in Buffer /\ buffers[1].offset = 0 /\ buffers[1].size = arena_size
        /\ Entry(buffers[1]) /\ buffers[1].free
    <3>1. /\ buffers[1].offset = 0
          /\ buffers[Len(buffers)].offset + buffers[Len(buffers)].size = arena_size
      BY <2>1 DEF Laid
    <3>2. buffers[1] \in Buffer /\ buffers[1].size \in Nat /\ Entry(buffers[1]) /\ buffers[1].free
      <4>1. 1 \in 1 .. Len(buffers) /\ 1 \in DOMAIN buffers
        BY <2>1
      <4>2. buffers[1] \in Buffer /\ buffers[1].size \in Nat
        BY <2>1, <4>1, EntryTypes
      <4>3. Entry(buffers[1])
        BY <2>1, <4>1 DEF Entries
      <4> QED
        BY <4>1, <4>2, <4>3
    <3> QED
      BY <2>2, <3>1, <3>2
  <2>4. buffers[1] = FreeBuffer(0, arena_size)
    <3> DEFINE b == buffers[1]
    <3>1. /\ b \in Buffer /\ b.offset = 0 /\ b.size = arena_size /\ b.free = TRUE
          /\ b.async = FALSE /\ b.need = 0
      BY <2>3 DEF Entry, Buffer
    <3> HIDE DEF b
    <3>2. b = FreeBuffer(0, arena_size)
      BY <3>1 DEF Buffer, FreeBuffer
    <3> QED
      BY <3>2 DEF b
  <2> QED
    BY <2>1, <2>2, <2>4
<1> QED
  BY <1>1, Inductive, PTL

(* Every parcel, and every gap between parcels, starts on an 8-byte        *)
(* boundary and is a multiple of 8 bytes long.                             *)
THEOREM AlwaysAligned == Spec => []Aligned
<1>1. IInv => Aligned
  <2> SUFFICES ASSUME IInv, NEW i \in DOMAIN buffers
               PROVE  buffers[i].offset % 8 = 0 /\ buffers[i].size % 8 = 0
    BY DEF Aligned
  <2>1. arena_size # 0
    BY DEF IInv
  <2> QED
    BY <2>1, Registered DEF Entries, Entry
<1> QED
  BY <1>1, Inductive, PTL

(* binder_buffer_lookup's early exit is right: it resolves a pointer to    *)
(* the live parcel that starts there, and to nothing otherwise.            *)
THEOREM LookupCorrect == Spec => []LookupExact
<1>1. IInv => LookupExact
  <2> SUFFICES ASSUME IInv, NEW p \in 0 .. Addr + arena_size, NEW i \in DOMAIN buffers
               PROVE  i \in Lookup(p) <=> (~ buffers[i].free /\ buffers[i].offset + Addr = p)
    BY DEF LookupExact, Lookup
  <2>1. arena_size # 0 /\ arena_size \in Nat /\ Addr \in Nat /\ p \in Nat
    BY ArenaAssumption DEF IInv
  <2>2. /\ Laid(buffers, arena_size) /\ Len(buffers) \in Nat
        /\ DOMAIN buffers = 1 .. Len(buffers)
        /\ \A j \in DOMAIN buffers : buffers[j].offset \in Nat /\ buffers[j].size \in Nat
    BY <2>1, Registered
  <2>3. \A j, k \in 1 .. Len(buffers) :
            j < k => buffers[j].offset + buffers[j].size <= buffers[k].offset
    BY <2>2 DEF Laid
  <2>4. \A j \in 1 .. Len(buffers) : buffers[j].size > 0
    BY <2>2 DEF Laid
  <2>5. \A j \in 1 .. i - 1 : buffers[j].offset < buffers[i].offset
    <3> SUFFICES ASSUME NEW j \in 1 .. i - 1 PROVE buffers[j].offset < buffers[i].offset
      OBVIOUS
    <3>1. j \in 1 .. Len(buffers) /\ i \in 1 .. Len(buffers) /\ j < i
      BY <2>2
    <3>2. /\ buffers[j].offset + buffers[j].size <= buffers[i].offset /\ buffers[j].size > 0
          /\ buffers[j].offset \in Nat /\ buffers[j].size \in Nat /\ buffers[i].offset \in Nat
      BY <3>1, <2>2, <2>3, <2>4
    <3> QED
      BY <3>2
  <2>6. buffers[i].offset < arena_size
    <3> DEFINE m == Len(buffers)
    <3>1. m \in 1 .. Len(buffers) /\ buffers[m].offset + buffers[m].size = arena_size
      BY <2>2 DEF Laid
    <3>2. buffers[m].offset \in Nat /\ buffers[m].size \in Nat /\ buffers[m].size > 0
      BY <2>2, <2>4, <3>1
    <3>3. CASE i = m
      BY <3>1, <3>2, <3>3
    <3>4. CASE i # m
      <4>1. /\ buffers[i].offset + buffers[i].size <= buffers[m].offset
            /\ buffers[i].offset \in Nat /\ buffers[i].size \in Nat
        BY <2>2, <2>3, <3>1, <3>4
      <4> QED
        BY <4>1, <3>1, <3>2
    <3> QED
      BY <3>3, <3>4
  <2>7. buffers[i].offset \in Nat
    BY <2>2
  <2>8. (buffers[i].offset = p - Addr) <=> (buffers[i].offset + Addr = p)
    BY <2>1, <2>7
  <2>9. ASSUME ~ buffers[i].free, buffers[i].offset = p - Addr
        PROVE  i \in Lookup(p)
    <3>1. p >= Addr /\ p - Addr < arena_size
      <4> DEFINE o == buffers[i].offset
      <4>1. o \in Nat /\ o < arena_size /\ o = p - Addr
        BY <2>6, <2>7, <2>9
      <4> HIDE DEF o
      <4> QED
        BY <4>1, <2>1
    <3>2. \A j \in 1 .. i - 1 : buffers[j].offset < p - Addr
      BY <2>5, <2>9
    <3> QED
      BY <2>1, <2>9, <3>1, <3>2 DEF Lookup
  <2>10. ASSUME i \in Lookup(p) PROVE ~ buffers[i].free /\ buffers[i].offset = p - Addr
    BY <2>10 DEF Lookup
  <2> QED
    BY <2>8, <2>9, <2>10
<1> QED
  BY <1>1, Inductive, PTL
=============================================================================
