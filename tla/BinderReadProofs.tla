-------------------------- MODULE BinderReadProofs --------------------------
(***************************************************************************)
(* Proofs about BinderRead, for any threads, buffer sizes, limits and      *)
(* number of items: no read overruns its buffer, the pool keeps its limit, *)
(* and every queue is read in order and each item once, as long as no      *)
(* transaction carries a security context (the README says what happens    *)
(* then).                                                                  *)
(***************************************************************************)
EXTENDS BinderRead, SequenceTheorems, TLAPS

Item == [type : Types, id : Nat]
States == {"client", "reading", "ready", "alone", "ready woken", "alone woken"}
Read == [at : States, size : Nat, consumed : Nat, wrote : BOOLEAN]

(* The reads, and none of them beyond its buffer. *)
Reads(r) ==
    /\ r \in [Thread -> Read]
    /\ \A t \in Thread : r[t].consumed <= r[t].size

Queues ==
    /\ queue \in [Queue -> Seq(Item)] /\ arrived \in [Queue -> Seq(Item)]
    /\ taken \in [Queue -> Seq(Item)]

Limits ==
    /\ requested_threads \in Nat /\ requested_threads_started \in Nat
    /\ max_threads \in Nat /\ peak \in Nat /\ max_threads <= peak
    /\ PoolBounded

-----------------------------------------------------------------------------
(* An item that is queued stands behind what was read and what waits. *)
LEMMA QueuedBehind ==
    ASSUME NEW a \in Seq(Item), NEW s \in Seq(Item), NEW e \in Item
    PROVE  Append(a \o s, e) = a \o Append(s, e)
<1>1. <<e>> \in Seq(Item) /\ a \o s \in Seq(Item)
  BY ConcatProperties
<1>2. Append(a \o s, e) = (a \o s) \o <<e>>
  BY <1>1, AppendIsConcat
<1>3. Append(s, e) = s \o <<e>>
  BY AppendIsConcat
<1> QED
  BY <1>1, <1>2, <1>3, ConcatAssociative

(* An item that is read moves from the one part to the other. *)
LEMMA ReadMoves ==
    ASSUME NEW S, NEW a \in Seq(S), NEW s \in Seq(S), s # <<>>
    PROVE  /\ Append(a, Head(s)) \o Tail(s) = a \o s
           /\ Head(s) \in S /\ Tail(s) \in Seq(S) /\ Append(a, Head(s)) \in Seq(S)
<1> DEFINE e == Head(s)
           r == Tail(s)
<1>1. e \in S /\ r \in Seq(S) /\ <<e>> \in Seq(S)
  BY HeadTailProperties
<1>2. s = <<e>> \o r
  OBVIOUS
<1> HIDE DEF e, r
<1>3. Append(a, e) = a \o <<e>> /\ Append(a, e) \in Seq(S)
  BY <1>1, AppendIsConcat, AppendProperties
<1>4. (a \o <<e>>) \o r = a \o (<<e>> \o r)
  BY <1>1, ConcatAssociative
<1> QED
  BY <1>1, <1>2, <1>3, <1>4 DEF e, r

(* What an item costs is a natural number, and more than a command. *)
LEMMA CostIs ==
    ASSUME NEW type \in Types
    PROVE  Cost(type) \in Nat /\ Cost(type) >= Cmd
BY ReadAssumption DEF Cost, Cmd, TransactionData, SecctxData, Secctx

(* A wakeup changes where a thread is, not its buffer. *)
LEMMA WokenReads ==
    ASSUME NEW r, Reads(r), NEW on
    PROVE  Reads(Woken(r, on))
<1> DEFINE w == Woken(r, on)
<1>1. ASSUME NEW t \in Thread
      PROVE  w[t] \in Read /\ w[t].consumed <= w[t].size
  <2>1. r[t] \in Read /\ r[t].consumed <= r[t].size
    BY DEF Reads
  <2>2. CASE (on = Pool /\ r[t].at = "ready") \/ (on = t /\ r[t].at = "alone")
    <3> DEFINE at == IF r[t].at = "ready" THEN "ready woken" ELSE "alone woken"
    <3>1. w[t] = [r[t] EXCEPT !.at = at]
      BY <2>2 DEF Woken
    <3>2. at \in States
      BY DEF States
    <3> HIDE DEF at, w
    <3> QED
      BY <2>1, <3>1, <3>2 DEF Read
  <2>3. CASE ~ ((on = Pool /\ r[t].at = "ready") \/ (on = t /\ r[t].at = "alone"))
    <3>1. w[t] = r[t]
      BY <2>3 DEF Woken
    <3> QED
      BY <2>1, <3>1
  <2> QED
    BY <2>2, <2>3
<1>2. w = [t \in Thread |-> w[t]]
  BY DEF Woken
<1> HIDE DEF w
<1>3. Reads(w)
  BY <1>1, <1>2 DEF Reads
<1> QED
  BY <1>3 DEF w

(* Assigning one thread's read. *)
LEMMA OneRead ==
    ASSUME Reads(rd), NEW t \in Thread, NEW x \in Read, x.consumed <= x.size
    PROVE  Reads([rd EXCEPT ![t] = x])
BY DEF Reads

(* A read that ends within its buffer. *)
LEMMA ReturnReads ==
    ASSUME Reads(rd), NEW t \in Thread, NEW n \in Nat, n <= rd[t].size, NEW left
    PROVE  Reads(Return(t, n, left))
<1> DEFINE x == [Idle EXCEPT !.size = rd[t].size, !.consumed = n]
           back == [rd EXCEPT ![t] = x]
<1>1. rd[t] \in Read
  BY DEF Reads
<1>2. x \in Read /\ x.consumed <= x.size
  BY <1>1 DEF Idle, Read, States
<1> HIDE DEF x
<1>3. Reads(back)
  BY <1>2, OneRead
<1>4. Return(t, n, left) = IF left[Pool] # <<>> THEN Woken(back, Pool) ELSE back
  BY DEF Return, x
<1> HIDE DEF back
<1> QED
  BY <1>3, <1>4, WokenReads

(* The item that a read would take. *)
LEMMA ItemThere ==
    ASSUME Queues, NEW t \in Thread, HasItem(t)
    PROVE  /\ Source(t) \in Queue /\ queue[Source(t)] \in Seq(Item)
           /\ queue[Source(t)] # <<>> /\ taken[Source(t)] \in Seq(Item)
           /\ Head(queue[Source(t)]) \in Item /\ Head(queue[Source(t)]).type \in Types
<1>1. Source(t) \in Queue /\ queue[Source(t)] # <<>>
  BY DEF Source, HasItem, TakesProcWork, Queue
<1>2. queue[Source(t)] \in Seq(Item) /\ taken[Source(t)] \in Seq(Item)
  BY <1>1 DEF Queues
<1>3. Head(queue[Source(t)]) \in Item
  BY <1>1, <1>2, HeadTailProperties
<1> QED
  BY <1>1, <1>2, <1>3 DEF Item

(* A step that takes the head of one queue and reads it. *)
LEMMA TakesHead ==
    ASSUME Queues, NEW q \in Queue, queue[q] # <<>>,
           queue' = [queue EXCEPT ![q] = Tail(@)],
           taken' = [taken EXCEPT ![q] = Append(@, Head(queue[q]))], UNCHANGED arrived
    PROVE  Queues' /\ (ReadOnce => ReadOnce')
<1>1. queue[q] \in Seq(Item) /\ taken[q] \in Seq(Item)
  BY DEF Queues
<1> DEFINE a == Append(taken[q], Head(queue[q]))
           r == Tail(queue[q])
<1>2. a \o r = taken[q] \o queue[q] /\ a \in Seq(Item) /\ r \in Seq(Item)
  BY <1>1, ReadMoves
<1> HIDE DEF a, r
<1>3. queue' = [queue EXCEPT ![q] = r] /\ taken' = [taken EXCEPT ![q] = a]
  BY DEF a, r
<1>4. Queues'
  BY <1>2, <1>3 DEF Queues
<1>5. ASSUME ReadOnce, NEW p \in Queue PROVE arrived'[p] = taken'[p] \o queue'[p]
  <2>1. arrived'[p] = taken[p] \o queue[p]
    BY <1>5 DEF ReadOnce
  <2>2. CASE p = q
    <3>1. taken'[p] = a /\ queue'[p] = r
      BY <2>2, <1>3 DEF Queues
    <3> QED
      BY <2>1, <2>2, <3>1, <1>2
  <2>3. CASE p # q
    <3>1. taken'[p] = taken[p] /\ queue'[p] = queue[p]
      BY <2>3, <1>3 DEF Queues
    <3> QED
      BY <2>1, <3>1
  <2> QED
    BY <2>2, <2>3
<1> QED
  BY <1>4, <1>5 DEF ReadOnce

(* The limits, where nothing of the pool changes. *)
LEMMA SameLimits ==
    ASSUME Limits, UNCHANGED pool
    PROVE  Limits'
BY DEF Limits, PoolBounded, pool

-----------------------------------------------------------------------------
RInv == Queues /\ Reads(rd) /\ Limits
Plain == "SEC_CTX" \notin Types

(* Arriving work. *)
LEMMA ArriveKeeps ==
    ASSUME RInv, NEW q \in Queue, NEW type \in Types, Arrive(q, type)
    PROVE  RInv' /\ (ReadOnce => ReadOnce')
<1> DEFINE item == [type |-> type, id |-> Len(arrived[q]) + 1]
<1>1. /\ queue[q] \in Seq(Item) /\ arrived[q] \in Seq(Item) /\ taken[q] \in Seq(Item)
  BY DEF RInv, Queues
<1>2. item \in Item
  <2>1. Len(arrived[q]) + 1 \in Nat
    BY <1>1, LenProperties
  <2> QED
    BY <2>1 DEF Item
<1>3. /\ queue' = [queue EXCEPT ![q] = Append(@, item)]
      /\ arrived' = [arrived EXCEPT ![q] = Append(@, item)]
      /\ rd' = Woken(rd, q) /\ UNCHANGED <<pool, taken>>
  BY DEF Arrive
<1> HIDE DEF item
<1> DEFINE waits == Append(queue[q], item)
           came == Append(arrived[q], item)
<1>4. waits \in Seq(Item) /\ came \in Seq(Item)
  BY <1>1, <1>2, AppendProperties
<1> HIDE DEF waits, came
<1>0. queue' = [queue EXCEPT ![q] = waits] /\ arrived' = [arrived EXCEPT ![q] = came]
  BY <1>3 DEF waits, came
<1>5. Queues'
  BY <1>0, <1>3, <1>4 DEF RInv, Queues
<1>6. Reads(rd')
  BY <1>3, WokenReads DEF RInv
<1>7. Limits'
  BY <1>3, SameLimits DEF RInv
<1>8. ASSUME ReadOnce, NEW p \in Queue PROVE arrived'[p] = taken'[p] \o queue'[p]
  <2>1. arrived[p] = taken[p] \o queue[p] /\ taken'[p] = taken[p]
    BY <1>3, <1>8 DEF ReadOnce
  <2>2. CASE p = q
    <3>1. arrived'[q] = came /\ queue'[q] = waits
      BY <1>0 DEF RInv, Queues
    <3>2. Append(taken[q] \o queue[q], item) = taken[q] \o Append(queue[q], item)
      BY <1>1, <1>2, QueuedBehind, Zenon
    <3> QED
      BY <2>1, <2>2, <3>1, <3>2 DEF came, waits
  <2>3. CASE p # q
    <3>1. arrived'[p] = arrived[p] /\ queue'[p] = queue[p]
      BY <2>3, <1>0 DEF RInv, Queues
    <3> QED
      BY <2>1, <3>1
  <2> QED
    BY <2>2, <2>3
<1> QED
  BY <1>5, <1>6, <1>7, <1>8 DEF RInv, ReadOnce

(* An item that fits: the buffer takes it and, if there is room, the       *)
(* request for a thread.                                                   *)
LEMMA ItemKeeps ==
    ASSUME RInv, NEW t \in Thread, ReadItem(t)
    PROVE  RInv' /\ (ReadOnce => ReadOnce')
<1> DEFINE q == Source(t)
           item == Head(queue[q])
           cost == Cost(item.type)
           spawns == Spawn(q) /\ Fits(Room(t) - cost, Cmd)
           room == Room(t) - cost - IF spawns THEN Cmd ELSE 0
<1>1. /\ HasItem(t) /\ Fits(Room(t), cost)
      /\ queue' = [queue EXCEPT ![q] = Tail(@)]
      /\ taken' = [taken EXCEPT ![q] = Append(@, item)]
      /\ AskForThread(q, Room(t) - cost)
      /\ rd' = IF Stops(room) THEN Return(t, rd[t].size - room, queue')
               ELSE [rd EXCEPT ![t].consumed = rd[t].size - room, ![t].wrote = TRUE]
      /\ UNCHANGED <<looper, requested_threads_started, max_threads, arrived, peak>>
  BY Zenon DEF ReadItem
<1>2. q \in Queue /\ queue[q] # <<>> /\ item.type \in Types
  BY <1>1, ItemThere DEF RInv
<1>3. Queues' /\ (ReadOnce => ReadOnce')
  BY <1>1, <1>2, TakesHead DEF RInv
<1>4. rd[t] \in Read /\ rd[t].consumed \in Nat /\ rd[t].size \in Nat /\ Room(t) \in Nat
  <2>1. rd[t] \in Read /\ rd[t].consumed <= rd[t].size
    BY DEF RInv, Reads
  <2>2. rd[t].consumed \in Nat /\ rd[t].size \in Nat
    BY <2>1 DEF Read
  <2> QED
    BY <2>1, <2>2 DEF Room
<1>5. cost \in Nat
  BY <1>2, CostIs
<1>6. Room(t) <= rd[t].size
  BY <1>4 DEF Room
<1> HIDE DEF q, item, cost
<1>7. room \in Nat /\ room <= rd[t].size
  <2>1. Room(t) - cost \in Nat
    BY <1>1, <1>4, <1>5 DEF Fits
  <2>2. spawns => Room(t) - cost - Cmd \in Nat
    BY <2>1 DEF Fits, Cmd
  <2> QED
    BY <2>1, <2>2, <1>4, <1>5, <1>6 DEF Cmd
<1> HIDE DEF room
<1> DEFINE n == rd[t].size - room
<1>8. n \in Nat /\ n <= rd[t].size
  BY <1>4, <1>7
<1>9. Reads(rd')
  <2>1. CASE Stops(room)
    <3> HIDE DEF n
    <3>1. rd' = Return(t, n, queue')
      BY <1>1, <2>1 DEF n
    <3> QED
      BY <3>1, <1>8, ReturnReads DEF RInv
  <2>2. CASE ~ Stops(room)
    <3> DEFINE x == [rd[t] EXCEPT !.consumed = n, !.wrote = TRUE]
    <3>1. x \in Read /\ x.consumed <= x.size
      <4> HIDE DEF n
      <4> QED
        BY <1>4, <1>8 DEF Read
    <3>2. rd' = [rd EXCEPT ![t] = x]
      BY <1>1, <2>2 DEF RInv, Reads
    <3> HIDE DEF x
    <3> QED
      BY <3>1, <3>2, OneRead DEF RInv
  <2> QED
    BY <2>1, <2>2
<1>10. Limits'
  <2>1. /\ UNCHANGED <<requested_threads_started, max_threads, peak>>
        /\ \/ UNCHANGED requested_threads
           \/ /\ requested_threads = 0 /\ requested_threads_started < max_threads
              /\ requested_threads' = requested_threads + 1
    BY <1>1 DEF AskForThread, Spawn
  <2> QED
    BY <2>1 DEF RInv, Limits, PoolBounded
<1> QED
  BY <1>3, <1>9, <1>10 DEF RInv

(* An item that does not fit is put back, and nothing of it was written.   *)
LEMMA FullKeeps ==
    ASSUME RInv, NEW t \in Thread, ReadFull(t)
    PROVE  RInv' /\ (Plain /\ ReadOnce => ReadOnce')
<1> DEFINE q == Source(t)
           item == Head(queue[q])
           part == Part(item.type, Room(t))
           n == rd[t].consumed + part
<1>1. /\ HasItem(t)
      /\ queue' = [queue EXCEPT ![q] = PutBack(q)]
      /\ taken' = IF part > 0 THEN [taken EXCEPT ![q] = Append(@, item)] ELSE taken
      /\ rd' = Return(t, n, queue')
      /\ UNCHANGED <<pool, arrived>>
  BY Zenon DEF ReadFull
<1>2. /\ q \in Queue /\ item \in Item /\ item.type \in Types /\ taken[q] \in Seq(Item)
  BY <1>1, ItemThere DEF RInv
<1> HIDE DEF q, item
<1>3. queue' = queue
  <2>1. queue' = [queue EXCEPT ![q] = queue[q]]
    BY <1>1 DEF PutBack
  <2> QED
    BY <2>1, <1>2 DEF RInv, Queues
<1>4. rd[t].consumed \in Nat /\ rd[t].size \in Nat /\ rd[t].consumed <= rd[t].size
  <2>1. rd[t] \in Read /\ rd[t].consumed <= rd[t].size
    BY DEF RInv, Reads
  <2> QED
    BY <2>1 DEF Read
<1>5. part \in Nat /\ part <= Room(t) /\ Room(t) \in Nat
  BY <1>4 DEF Part, Room, Fits, Cmd, SecctxData
<1>6. Plain => part = 0
  BY <1>2 DEF Plain, Part
<1> HIDE DEF part
<1>7. n \in Nat /\ n <= rd[t].size
  BY <1>4, <1>5 DEF Room
<1> HIDE DEF n
<1>8. Reads(rd')
  BY <1>1, <1>7, ReturnReads DEF RInv
<1>9. Append(taken[q], item) \in Seq(Item)
  BY <1>2, AppendProperties
<1>10. Queues'
  BY <1>1, <1>2, <1>3, <1>9 DEF RInv, Queues
<1>11. Plain /\ ReadOnce => ReadOnce'
  <2> SUFFICES ASSUME Plain, ReadOnce PROVE ReadOnce'
    OBVIOUS
  <2>1. ~ (part > 0)
    BY <1>6
  <2>2. taken' = taken /\ arrived' = arrived
    BY <2>1, <1>1
  <2> QED
    BY <2>2, <1>3, Zenon DEF ReadOnce
<1> QED
  BY <1>1, <1>8, <1>10, <1>11, SameLimits DEF RInv

(* A fault ends the read with the item off its queue. *)
LEMMA FaultKeeps ==
    ASSUME RInv, NEW t \in Thread, ReadFault(t)
    PROVE  RInv' /\ (ReadOnce => ReadOnce')
<1> DEFINE q == Source(t)
           n == rd[t].consumed
<1>1. /\ HasItem(t)
      /\ queue' = [queue EXCEPT ![q] = Tail(@)]
      /\ taken' = [taken EXCEPT ![q] = Append(@, Head(queue[q]))]
      /\ rd' = Return(t, n, queue')
      /\ UNCHANGED <<pool, arrived>>
  BY Zenon DEF ReadFault
<1>2. q \in Queue /\ queue[q] # <<>>
  BY <1>1, ItemThere DEF RInv
<1> HIDE DEF q
<1>3. Queues' /\ (ReadOnce => ReadOnce')
  BY <1>1, <1>2, TakesHead DEF RInv
<1>4. n \in Nat /\ n <= rd[t].size
  BY DEF RInv, Reads, Read
<1> HIDE DEF n
<1>5. Reads(rd')
  BY <1>1, <1>4, ReturnReads DEF RInv
<1> QED
  BY <1>1, <1>3, <1>5, SameLimits DEF RInv

(* The steps that touch no queue: they begin, end, pause or resume a read. *)
LEMMA OtherKeeps ==
    ASSUME RInv, NEW t \in Thread,
           \/ \E size \in Sizes : BeginRead(t, size)
           \/ ReadNothing(t) \/ Resume(t) \/ Signal(t)
    PROVE  RInv' /\ (ReadOnce => ReadOnce')
<1>1. UNCHANGED <<queue, pool, arrived, taken>>
  BY DEF BeginRead, ReadNothing, Resume, Signal
<1>2. rd[t] \in Read /\ rd[t].consumed \in Nat /\ rd[t].consumed <= rd[t].size
  BY DEF RInv, Reads, Read
<1>3. ASSUME NEW size \in Sizes, BeginRead(t, size) PROVE Reads(rd')
  <2> DEFINE x == [at |-> "reading", size |-> size, consumed |-> Cmd, wrote |-> FALSE]
  <2>1. x \in Read /\ x.consumed <= x.size
    BY <1>3, ReadAssumption DEF BeginRead, Read, States, Cmd
  <2>2. rd' = [rd EXCEPT ![t] = x]
    BY <1>3 DEF BeginRead
  <2> HIDE DEF x
  <2> QED
    BY <2>1, <2>2, OneRead DEF RInv
<1>4. ASSUME rd' = Return(t, rd[t].consumed, queue) PROVE Reads(rd')
  BY <1>2, <1>4, ReturnReads DEF RInv
<1>5. ASSUME NEW at \in States, rd' = [rd EXCEPT ![t].at = at] PROVE Reads(rd')
  <2> DEFINE x == [rd[t] EXCEPT !.at = at]
  <2>1. x \in Read /\ x.consumed <= x.size
    BY <1>2 DEF Read
  <2>2. rd' = [rd EXCEPT ![t] = x]
    BY <1>5 DEF RInv, Reads
  <2> HIDE DEF x
  <2> QED
    BY <2>1, <2>2, OneRead DEF RInv
<1>6. ASSUME ReadNothing(t) PROVE Reads(rd')
  <2>1. "ready" \in States /\ "alone" \in States
    BY DEF States
  <2>2. \/ rd' = Return(t, rd[t].consumed, queue)
        \/ rd' = [rd EXCEPT ![t].at = "ready"]
        \/ rd' = [rd EXCEPT ![t].at = "alone"]
    BY <1>6 DEF ReadNothing
  <2> QED
    BY <2>1, <2>2, <1>4, <1>5
<1>7. ASSUME Resume(t) PROVE Reads(rd')
  <2>1. "reading" \in States
    BY Zenon DEF States
  <2>2. rd' = [rd EXCEPT ![t].at = "reading"]
    BY <1>7, Zenon DEF Resume
  <2> QED
    BY <1>5, <2>1, <2>2
<1>8. ASSUME Signal(t) PROVE Reads(rd')
  BY <1>4, <1>8 DEF Signal
<1>9. Reads(rd')
  BY <1>3, <1>6, <1>7, <1>8
<1> QED
  BY <1>1, <1>9, SameLimits DEF RInv, Queues, ReadOnce

(* The pool's commands: the sum of the threads asked for and started never *)
(* grows past the limit.                                                   *)
LEMMA PoolKeeps ==
    ASSUME RInv, \/ \E n \in Maxima : SetMaxThreads(n)
                 \/ \E t \in Thread : EnterLooper(t) \/ RegisterLooper(t)
    PROVE  RInv' /\ (ReadOnce => ReadOnce')
<1>1. UNCHANGED <<queue, rd, arrived, taken>>
  BY DEF SetMaxThreads, EnterLooper, RegisterLooper
<1>2. ASSUME NEW n \in Maxima, SetMaxThreads(n) PROVE Limits'
  <2>1. n \in Nat
    BY ReadAssumption
  <2> QED
    BY <2>1, <1>2 DEF SetMaxThreads, RInv, Limits, PoolBounded
<1>3. ASSUME NEW t \in Thread, EnterLooper(t) PROVE Limits'
  BY <1>3 DEF EnterLooper, RInv, Limits, PoolBounded
<1>4. ASSUME NEW t \in Thread, RegisterLooper(t) PROVE Limits'
  BY <1>4 DEF RegisterLooper, RInv, Limits, PoolBounded
<1>5. Limits'
  BY <1>2, <1>3, <1>4
<1> QED
  BY <1>1, <1>5 DEF RInv, Queues, Reads, ReadOnce

-----------------------------------------------------------------------------
(* What holds at first. *)
LEMMA Initially ==
    ASSUME Init
    PROVE  RInv /\ ReadOnce
<1>1. Queues /\ ReadOnce
  <2>1. <<>> \in Seq(Item) /\ <<>> \o <<>> = <<>>
    OBVIOUS
  <2> QED
    BY <2>1 DEF Init, Queues, ReadOnce
<1>2. Reads(rd)
  BY DEF Init, Reads, Idle, Read, States
<1>3. Limits
  BY ReadAssumption DEF Init, Limits, PoolBounded
<1> QED
  BY <1>1, <1>2, <1>3 DEF RInv

(* Every step keeps the invariant, and the order of every queue. *)
LEMMA EveryStep ==
    ASSUME RInv, [Next]_vars
    PROVE  RInv' /\ (Plain /\ ReadOnce => ReadOnce')
<1>1. CASE UNCHANGED vars
  BY <1>1 DEF vars, RInv, Queues, Reads, Limits, PoolBounded, ReadOnce
<1> QED
  BY <1>1, ArriveKeeps, ItemKeeps, FullKeeps, FaultKeeps, OtherKeeps, PoolKeeps DEF Next

(* No read writes beyond the buffer that the client gave it, and the       *)
(* driver never asks for more threads than the client allowed.             *)
THEOREM ReadsStayInside == Spec => [](InsideBuffer /\ PoolBounded)
<1>1. Init => RInv
  BY Initially
<1>2. RInv /\ [Next]_vars => RInv'
  BY EveryStep
<1>3. RInv => InsideBuffer /\ PoolBounded
  BY DEF RInv, Reads, Limits, InsideBuffer
<1> QED
  BY <1>1, <1>2, <1>3, PTL DEF Spec

(* Without security contexts every queue is read in order and each item    *)
(* once, through full buffers, sleeps, signals and faults.                 *)
THEOREM EachReadOnce == "SEC_CTX" \notin Types => (Spec => []ReadOnce)
<1> SUFFICES ASSUME "SEC_CTX" \notin Types PROVE Spec => []ReadOnce
  OBVIOUS
<1>1. Init => RInv /\ ReadOnce
  BY Initially
<1>2. RInv /\ ReadOnce /\ [Next]_vars => RInv' /\ ReadOnce'
  BY EveryStep DEF Plain
<1> QED
  BY <1>1, <1>2, PTL DEF Spec

=============================================================================
