----------------------------- MODULE BinderRead -----------------------------
(***************************************************************************)
(* The client's read buffer and the thread pool: binder_thread_read of     *)
(* kext/binder_proc.c at the level of bytes, for one process.              *)
(*                                                                         *)
(* One read holds the driver lock from its start to its end, or until it   *)
(* sleeps; while a thread is "reading" nothing else happens.  What is      *)
(* queued is an item with a type that says what is written for it.  A      *)
(* transaction here is one-way: whom a thread owes a reply, freezing, and  *)
(* a payload that cannot be written to the arena are in BinderIpc.         *)
(***************************************************************************)
EXTENDS Integers, FiniteSets, SequencesExt

CONSTANTS
    Thread, Pool, NULL,
    Main,           \* the threads that enter the pool by themselves
    Types,          \* the types of item that are queued
    Sizes,          \* the sizes of read buffer that the clients offer
    Maxima,         \* the limits that BINDER_SET_MAX_THREADS sets
    Faulty,         \* whether the client's buffer may be unwritable
    MaxItems        \* bound: the items queued in all

ASSUME ReadAssumption ==
    /\ Main \subseteq Thread /\ Pool \notin Thread /\ Faulty \in BOOLEAN
    /\ Types \subseteq {"COMPLETE", "TRANSACTION", "SEC_CTX", "NODE", "DEATH"}
    /\ Sizes \subseteq Nat /\ Maxima \subseteq Nat /\ MaxItems \in Nat

VARIABLES
    queue,          \* proc->todo (Pool) and each thread's todo
    looper,         \* threads that are in the pool
    rd,             \* each thread's read, and where it is in it
    requested_threads, requested_threads_started, max_threads,
    arrived, taken, \* what was ever queued on each queue, and what reads
                    \* took from it
    asked,          \* BR_SPAWN_LOOPER read and not yet acted on
    peak            \* the highest limit so far

vars == <<queue, looper, rd, requested_threads, requested_threads_started, max_threads,
          arrived, taken, asked, peak>>
pool == <<looper, requested_threads, requested_threads_started, max_threads, asked, peak>>

Queue == Thread \cup {Pool}
Cmd == 4                        \* sizeof(uint32_t)
TransactionData == 64           \* sizeof(struct binder_transaction_data)
SecctxData == 72                \* sizeof(struct binder_transaction_data_secctx)
Secctx == 21                    \* the context string, its NUL included

(* What is written for an item, and what of it is written before the room  *)
(* for the rest is looked at.  The news of a node is two commands, costed  *)
(* together.                                                               *)
Cost(type) ==
    CASE type = "COMPLETE" -> Cmd
      [] type = "TRANSACTION" -> Cmd + TransactionData
      [] type = "SEC_CTX" -> Cmd + SecctxData + Secctx
      [] type = "NODE" -> 2 * (Cmd + 16)
      [] type = "DEATH" -> Cmd + 8

(* binder_put_cmd and binder_put_cmd_data: is there room for n bytes? *)
FitsWithoutCmd(room, n) == room >= n - Cmd
Fits(room, n) == room >= n

Part(type, room) ==
    IF type = "SEC_CTX" /\ Fits(room, Cmd + SecctxData) THEN Cmd + SecctxData ELSE 0

Idle == [at |-> "client", size |-> 0, consumed |-> 0, wrote |-> FALSE]

Init ==
    /\ queue = [q \in Queue |-> <<>>]
    /\ looper = {} /\ rd = [t \in Thread |-> Idle]
    /\ requested_threads = 0 /\ requested_threads_started = 0
    /\ max_threads \in Maxima /\ peak = max_threads
    /\ arrived = [q \in Queue |-> <<>>] /\ taken = [q \in Queue |-> <<>>]
    /\ asked = 0

Unlocked == \A t \in Thread : rd[t].at # "reading"
TakesProcWork(t) == t \in looper /\ queue[t] = <<>>
Source(t) == IF queue[t] # <<>> THEN t ELSE Pool
HasItem(t) == queue[t] # <<>> \/ (TakesProcWork(t) /\ queue[Pool] # <<>>)
Room(t) == rd[t].size - rd[t].consumed

(* binder_wakeup_proc and binder_wakeup_thread: a thread sleeps on the     *)
(* process's queue ("ready") or on itself ("alone").                       *)
WokenThread(r, on) ==
    [t \in Thread |-> IF on = t /\ r[t].at = "alone" THEN [r[t] EXCEPT !.at = "alone woken"] ELSE r[t]]

Woken(r, on) ==
    [t \in Thread |-> IF (on = Pool /\ r[t].at = "ready") \/ (on = t /\ r[t].at = "alone")
                      THEN [r[t] EXCEPT !.at = IF @ = "ready" THEN "ready woken" ELSE "alone woken"]
                      ELSE r[t]]
ReadyThreads == Cardinality({t \in Thread : rd[t].at \in {"ready", "ready woken"}})

(* Work is queued, by whoever has it, and its reader is woken. *)
Arrive(q, type) ==
    /\ Unlocked
    /\ FoldFunction(LAMBDA s, n : Len(s) + n, 0, arrived) < MaxItems
    /\ LET item == [type |-> type, id |-> Len(arrived[q]) + 1]
       IN  /\ queue' = [queue EXCEPT ![q] = Append(@, item)]
           /\ arrived' = [arrived EXCEPT ![q] = Append(@, item)]
    /\ rd' = Woken(rd, q)
    /\ UNCHANGED <<pool, taken>>

-----------------------------------------------------------------------------
(* The pool *)

(* BC_ENTER_LOOPER *)
EnterLooper(t) ==
    /\ Unlocked /\ rd[t].at = "client" /\ t \in Main \ looper
    /\ looper' = looper \cup {t}
    /\ UNCHANGED <<queue, rd, requested_threads, requested_threads_started, max_threads,
                   arrived, taken, asked, peak>>

(* BC_REGISTER_LOOPER, from the thread that a BR_SPAWN_LOOPER started *)
RegisterLooper(t) ==
    /\ Unlocked /\ rd[t].at = "client" /\ t \notin Main \cup looper /\ asked > 0
    /\ looper' = looper \cup {t}
    /\ asked' = asked - 1
    /\ IF requested_threads > 0
       THEN /\ requested_threads' = requested_threads - 1
            /\ requested_threads_started' = requested_threads_started + 1
       ELSE UNCHANGED <<requested_threads, requested_threads_started>>
    /\ UNCHANGED <<queue, rd, max_threads, arrived, taken, peak>>

SetMaxThreads(n) ==
    /\ Unlocked
    /\ max_threads' = n /\ peak' = IF n > peak THEN n ELSE peak
    /\ UNCHANGED <<queue, looper, rd, requested_threads, requested_threads_started,
                   arrived, taken, asked>>

(* Another thread is asked for when the item came from the process's queue *)
(* and nobody is ready for the next.  The command is written if there is   *)
(* room for it.                                                            *)
SpawnAlways(q) ==
    /\ q = Pool /\ ReadyThreads = 0 /\ requested_threads_started < max_threads

Spawn(q) ==
    /\ q = Pool /\ requested_threads = 0 /\ ReadyThreads = 0
    /\ requested_threads_started < max_threads

AskForThread(q, room) ==
    IF Spawn(q)
    THEN /\ requested_threads' = requested_threads + 1
         /\ asked' = IF Fits(room, Cmd) THEN asked + 1 ELSE asked
    ELSE UNCHANGED <<requested_threads, asked>>

-----------------------------------------------------------------------------
(* One read *)

(* The read is over; what is left for the process wakes its sleepers. *)
Return(t, consumed, left) ==
    LET back == [rd EXCEPT ![t] = [Idle EXCEPT !.size = rd[t].size, !.consumed = consumed]]
    IN  IF left[Pool] # <<>> THEN Woken(back, Pool) ELSE back

(* BINDER_WRITE_READ: every read starts with BR_NOOP.  A main thread reads *)
(* once it is in the pool.                                                 *)
BeginRead(t, size) ==
    /\ Unlocked /\ rd[t].at = "client" /\ size >= Cmd /\ (t \in Main => t \in looper)
    /\ rd' = [rd EXCEPT ![t] = [at |-> "reading", size |-> size, consumed |-> Cmd, wrote |-> FALSE]]
    /\ UNCHANGED <<queue, pool, arrived, taken>>

(* The item fits.  The loop goes on while there is room for a transaction. *)
Stops(room) == room < Cmd + TransactionData

ReadItem(t) ==
    LET q == Source(t)
        item == Head(queue[q])
        cost == Cost(item.type)
        spawns == Spawn(q) /\ Fits(Room(t) - cost, Cmd)
        room == Room(t) - cost - IF spawns THEN Cmd ELSE 0
    IN  /\ rd[t].at = "reading" /\ HasItem(t) /\ Fits(Room(t), cost)
        /\ queue' = [queue EXCEPT ![q] = Tail(@)]
        /\ taken' = [taken EXCEPT ![q] = Append(@, item)]
        /\ AskForThread(q, Room(t) - cost)
        /\ rd' = IF Stops(room) THEN Return(t, rd[t].size - room, queue')
                 ELSE [rd EXCEPT ![t].consumed = rd[t].size - room, ![t].wrote = TRUE]
        /\ UNCHANGED <<looper, requested_threads_started, max_threads, arrived, peak>>

(* The item does not fit: it goes back to the head of its queue, with what *)
(* was written of it.                                                      *)
PutBackLast(q) == Append(Tail(queue[q]), Head(queue[q]))
PutBack(q) == queue[q]

ReadFull(t) ==
    LET q == Source(t)
        item == Head(queue[q])
        part == Part(item.type, Room(t))
    IN  /\ rd[t].at = "reading" /\ HasItem(t) /\ ~ Fits(Room(t), Cost(item.type))
        /\ queue' = [queue EXCEPT ![q] = PutBack(q)]
        /\ taken' = IF part > 0 THEN [taken EXCEPT ![q] = Append(@, item)] ELSE taken
        /\ rd' = Return(t, rd[t].consumed + part, queue')
        /\ UNCHANGED <<pool, arrived>>

(* The client's buffer cannot be written (EFAULT): the read ends there,    *)
(* with the item off its queue.                                            *)
ReadFault(t) ==
    /\ Faulty /\ rd[t].at = "reading" /\ HasItem(t)
    /\ Fits(Room(t), Cost(Head(queue[Source(t)]).type))
    /\ queue' = [queue EXCEPT ![Source(t)] = Tail(@)]
    /\ rd' = Return(t, rd[t].consumed, queue')
    /\ taken' = [taken EXCEPT ![Source(t)] = Append(@, Head(queue[Source(t)]))]
    /\ UNCHANGED <<pool, arrived>>

(* Nothing to read: return what there is, or sleep. *)
ReadNothing(t) ==
    /\ rd[t].at = "reading" /\ ~ HasItem(t)
    /\ rd' = IF rd[t].wrote THEN Return(t, rd[t].consumed, queue)
             ELSE [rd EXCEPT ![t].at = IF TakesProcWork(t) THEN "ready" ELSE "alone"]
    /\ UNCHANGED <<queue, pool, arrived, taken>>

(* The sleeper has the lock again, or was interrupted by a signal. *)
Resume(t) ==
    /\ Unlocked /\ rd[t].at \in {"ready woken", "alone woken"}
    /\ rd' = [rd EXCEPT ![t].at = "reading"]
    /\ UNCHANGED <<queue, pool, arrived, taken>>

Signal(t) ==
    /\ Unlocked /\ rd[t].at \in {"ready", "alone"}
    /\ rd' = Return(t, rd[t].consumed, queue)
    /\ UNCHANGED <<queue, pool, arrived, taken>>

Loop(t) == ReadItem(t) \/ ReadFull(t) \/ ReadFault(t) \/ ReadNothing(t)

Next ==
    \/ \E q \in Queue, type \in Types : Arrive(q, type)
    \/ \E n \in Maxima : SetMaxThreads(n)
    \/ \E t \in Thread :
          \/ EnterLooper(t) \/ RegisterLooper(t) \/ Signal(t)
          \/ \E size \in Sizes : BeginRead(t, size)
          \/ ReadItem(t) \/ ReadFull(t) \/ ReadFault(t) \/ ReadNothing(t) \/ Resume(t)

Spec == Init /\ [][Next]_vars

BeginLargeRead(t) == \E size \in Sizes : ~ Stops(size - Cmd) /\ BeginRead(t, size)

(* A thread in a read goes on with it, a woken thread gets the lock in the *)
(* end, and a main thread enters the pool and reads again, time and again  *)
(* with a buffer that takes a transaction.                                 *)
FairSpec ==
    /\ Spec
    /\ \A t \in Thread : WF_vars(Loop(t)) /\ SF_vars(Resume(t))
    /\ \A t \in Main : SF_vars(EnterLooper(t)) /\ SF_vars(BeginLargeRead(t))

-----------------------------------------------------------------------------
(* Properties *)

(* No read writes beyond the client's buffer (binder_put_cmd,              *)
(* binder_read_node_work and the room check of the loop).                  *)
InsideBuffer == \A t \in Thread : rd[t].consumed <= rd[t].size

(* Every queue is read in order, and each item once: what was queued is    *)
(* what reads took followed by what still waits, through full buffers,     *)
(* pools of several threads, sleeps, signals and faults.                   *)
ReadOnce == \A q \in Queue : arrived[q] = taken[q] \o queue[q]

(* The driver never asks for more threads than the client allowed, counting *)
(* the one it is waiting for.                                               *)
PoolBounded == requested_threads + requested_threads_started <= peak

(* Whatever is queued for the process is read, with fair threads. *)
AllRead == queue[Pool] # <<>> ~> queue[Pool] = <<>>

-----------------------------------------------------------------------------
(* What the comments of the code state and the code does not always keep;  *)
(* README.md gives the instances that show it.                             *)

(* A thread the driver waits for is one the client was asked for.  As long *)
(* as one is awaited no other is asked for, so a request the client never  *)
(* saw is the last.                                                        *)
SpawnAsked == requested_threads <= asked

=============================================================================
