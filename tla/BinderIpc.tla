------------------------------ MODULE BinderIpc ------------------------------
(***************************************************************************)
(* Calls between binder processes: how a transaction, a reply or an error  *)
(* travels through the driver's queues to the thread that must have it     *)
(* (kext/binder_proc.c and kext/binder_txn.c, with the poll, freeze and    *)
(* thread-exit handlers of kext/binder_dev.c).                             *)
(*                                                                         *)
(* The driver has one lock, which an ioctl holds from start to end except  *)
(* while it sleeps in binder_wait.  An action is therefore one command of  *)
(* a write buffer, or one item put in a read buffer (a client with room    *)
(* for one item), or the ioctl's going to sleep.  A sleeper that is woken  *)
(* runs the read loop from the top, which is what a new read does, so      *)
(* waking sets its wait to "none".                                         *)
(*                                                                         *)
(* Calls are numbered in the order they are sent and the reply to call t   *)
(* is t + MaxCalls; the payload buffer of a transaction has its number.    *)
(* Every process holds a handle to every node it calls, and every node is  *)
(* also held by a process outside the model, so no node is reclaimed.      *)
(*                                                                         *)
(* frames is the client side: what each thread is in the middle of, with   *)
(* the discipline of libbinder's IPCThreadState (a thread that has called  *)
(* reads until it is answered, serving what arrives meanwhile).            *)
(***************************************************************************)
EXTENDS Integers, FiniteSets, SequencesExt

CONSTANTS
    Proc, Thread, Node, NULL,
    ProcOf,         \* the process of each thread
    OwnerOf,        \* the process that implements each node
    PoolThread,     \* the threads that enter the looper
    Caller,         \* the threads that call without being called first
    Targets,        \* the nodes each thread calls
    Kinds,          \* the kinds of call made to each node: TRUE is TF_ONE_WAY
    Pollers,        \* the threads that wait in poll()
    Closes,         \* the processes that may close the device
    Exits,          \* the threads that may exit whatever they are doing
    Freezes,        \* the threads BINDER_FREEZE is used on
    Fails,          \* what may fail: "call", "reply"
    Unwritable,     \* the processes whose arena may be unwritable
    MaxCalls        \* bound: the calls that succeed

ASSUME IpcAssumption ==
    /\ ProcOf \in [Thread -> Proc]
    /\ OwnerOf \in [Node -> Proc]
    /\ Targets \in [Thread -> SUBSET Node]
    /\ Kinds \in [Node -> SUBSET BOOLEAN]
    /\ PoolThread \cup Caller \cup Pollers \cup Exits \cup Freezes \subseteq Thread
    /\ Closes \cup Unwritable \subseteq Proc
    /\ Fails \subseteq {"call", "reply"}
    /\ MaxCalls \in Nat
    /\ NULL \notin Thread /\ NULL \notin Node

VARIABLES
    procs,          \* processes with the device open
    threads,        \* threads with a binder_thread
    looper,         \* threads that said BC_ENTER_LOOPER
    frozen,         \* thread->frozen
    txn,            \* the live transactions
    buf,            \* the live payload buffers
    stack,          \* thread->transaction_stack, 0 for none
    todo,           \* thread->todo
    error,          \* thread->return_error.cmd
    proc_todo,      \* proc->todo
    sel_recorded,   \* processes with proc->sel_recorded
    node_async,     \* node->async_todo
    has_async,      \* nodes with has_async_transaction
    wait,           \* where the thread sleeps
    calls,          \* calls sent so far
    frames          \* what the client of the thread is in the middle of

vars == <<procs, threads, looper, frozen, txn, buf, stack, todo, error, proc_todo,
          sel_recorded, node_async, has_async, wait, calls, frames>>

Call == 1 .. MaxCalls
Txn == 1 .. 2 * MaxCalls
ReplyTo(t) == t + MaxCalls

Transaction == [from : Thread \cup {NULL}, from_parent : Call \cup {0},
                to_thread : Thread \cup {NULL}, to_parent : Call \cup {0},
                need_reply : BOOLEAN]
Payload == [proc : Proc, target_node : Node \cup {NULL}, async : BOOLEAN,
            allow_user_free : BOOLEAN]

Work == [type : {"TRANSACTION", "TRANSACTION_COMPLETE", "RETURN_ERROR"}, t : Txn \cup {0}]
TxnWork(t) == [type |-> "TRANSACTION", t |-> t]
Complete == [type |-> "TRANSACTION_COMPLETE", t |-> 0]
ReturnError == [type |-> "RETURN_ERROR", t |-> 0]

Frame == [kind : {"call", "serve", "run", "post"}, t : Call \cup {0}]

Init ==
    /\ procs = Proc /\ threads = Thread /\ looper = {} /\ frozen = {}
    /\ txn = [t \in Txn |-> NULL] /\ buf = [t \in Txn |-> NULL]
    /\ stack = [th \in Thread |-> 0]
    /\ todo = [th \in Thread |-> <<>>]
    /\ error = [th \in Thread |-> "OK"]
    /\ proc_todo = [p \in Proc |-> <<>>]
    /\ sel_recorded = {}
    /\ node_async = [n \in Node |-> <<>>]
    /\ has_async = {}
    /\ wait = [th \in Thread |-> "none"]
    /\ calls = 0
    /\ frames = [th \in Thread |-> <<>>]

Live(t) == txn[t] # NULL

-----------------------------------------------------------------------------
(* Queues and wakeups *)

(* binder_queue_insert leaves an item that is already queued where it is; *)
(* only the one return_error item of a thread is ever inserted twice.     *)
Enqueue(q, w) == IF Contains(q, w) THEN q ELSE Append(q, w)

(* binder_thread_takes_proc_work: it has joined the pool and owes nobody. *)
TakesProcWork(th) ==
    stack[th] = 0 /\ todo[th] = <<>> /\ th \in looper

(* binder_has_work, which poll asks. *)
HasWork(th) ==
    todo[th] # <<>> \/ (TakesProcWork(th) /\ proc_todo[ProcOf[th]] # <<>>)

(* binder_wakeup_proc for the processes ps and binder_wakeup_thread for    *)
(* the threads ths: everyone asleep on the channel, and, where a poll has  *)
(* been recorded for the process, everyone in poll.                        *)
WakeupPool(ps, ths, waits) ==
    /\ wait' = [u \in Thread |->
                  IF waits[u] = "proc" /\ ProcOf[u] \in ps THEN "none" ELSE waits[u]]
    /\ UNCHANGED sel_recorded

Wakeup(ps, ths, waits) ==
    LET selected == sel_recorded \cap (ps \cup {ProcOf[th] : th \in ths})
    IN  /\ wait' = [u \in Thread |->
                      IF \/ waits[u] = "proc" /\ ProcOf[u] \in ps
                         \/ waits[u] = "thread" /\ u \in ths
                         \/ waits[u] = "poll" /\ ProcOf[u] \in selected
                      THEN "none" ELSE waits[u]]
        /\ sel_recorded' = sel_recorded \ selected

NoWakeup == UNCHANGED <<wait, sel_recorded>>

-----------------------------------------------------------------------------
(* Client state *)

Top(th) == IF frames[th] = <<>> THEN "idle" ELSE Last(frames[th]).kind
Push(th, kind, t) == [frames EXCEPT ![th] = Append(@, [kind |-> kind, t |-> t])]
Pop(th) == [frames EXCEPT ![th] = Front(@)]

Running(th) == th \in threads /\ wait[th] = "none"

MayCall(th) ==
    /\ Running(th)
    /\ \/ Top(th) = "idle" /\ th \in Caller
       \/ Top(th) \in {"serve", "run"}

Reads(th) ==
    /\ Running(th)
    /\ \/ Top(th) = "idle" /\ th \in looper
       \/ Top(th) \in {"call", "post"}

-----------------------------------------------------------------------------
(* Transactions *)

(* binder_txn_error: the error is queued to the sender itself. *)
TxnErrorUnqueued(th, br) ==
    /\ error' = [error EXCEPT ![th] = br]
    /\ UNCHANGED todo

TxnError(th, br) ==
    /\ error' = [error EXCEPT ![th] = br]
    /\ todo' = [todo EXCEPT ![th] = Enqueue(@, ReturnError)]

(* binder_target_thread_for: a call into a process that is already waiting *)
(* further up this chain of calls goes to the thread that waits.           *)
TargetAnyThread(th, p) == NULL

TargetThread(th, p) ==
    LET walk[t \in Call \cup {0}] ==
            IF t = 0 THEN NULL
            ELSE IF txn[t].from # NULL /\ ProcOf[txn[t].from] = p THEN txn[t].from
            ELSE walk[txn[t].from_parent]
    IN  walk[stack[th]]

(* binder_free_transaction pops the transaction off both stacks it is on. *)
PopCallee(stk, t) ==
    [u \in Thread |-> IF stk[u] = t /\ txn[t].to_thread = u THEN txn[t].to_parent
                                                           ELSE stk[u]]

PopBoth(stk, t) ==
    [u \in Thread |-> IF stk[u] # t THEN stk[u]
                      ELSE IF txn[t].from = u THEN txn[t].from_parent
                      ELSE IF txn[t].to_thread = u THEN txn[t].to_parent
                      ELSE stk[u]]

Sent(th, target) ==
    [from |-> th, from_parent |-> stack[th], to_thread |-> target, to_parent |-> 0,
     need_reply |-> TRUE]

Unanswered(target) ==
    [from |-> NULL, from_parent |-> 0, to_thread |-> target, to_parent |-> 0,
     need_reply |-> FALSE]

Parcel(p, n, oneway) ==
    [proc |-> p, target_node |-> n, async |-> oneway, allow_user_free |-> FALSE]

(* BC_TRANSACTION that cannot be sent: the target is dead, or a check, an  *)
(* allocation, a copyin or a translation of binder_transaction failed.     *)
TransactFails(th, n, oneway) ==
    /\ MayCall(th) /\ n \in Targets[th] /\ oneway \in Kinds[n]
    /\ \/ OwnerOf[n] \notin procs /\ TxnError(th, "DEAD_REPLY")
       \/ OwnerOf[n] \in procs /\ "call" \in Fails /\ TxnError(th, "FAILED_REPLY")
    /\ frames' = Push(th, IF oneway THEN "post" ELSE "call", 0)
    /\ NoWakeup
    /\ UNCHANGED <<procs, threads, looper, frozen, txn, buf, stack, proc_todo,
                   node_async, has_async, calls>>

(* BC_TRANSACTION, synchronous: to the waiting thread if there is one,     *)
(* else to any thread of the pool.                                         *)
Transact(th, n) ==
    LET t == calls + 1
        p == OwnerOf[n]
        target == TargetThread(th, p)
    IN  /\ MayCall(th) /\ n \in Targets[th] /\ FALSE \in Kinds[n]
        /\ calls < MaxCalls
        /\ p \in procs
        /\ calls' = t
        /\ txn' = [txn EXCEPT ![t] = Sent(th, target)]
        /\ buf' = [buf EXCEPT ![t] = Parcel(p, n, FALSE)]
        /\ stack' = [stack EXCEPT ![th] = t]
        /\ \/ /\ target # NULL
              /\ todo' = [todo EXCEPT ![target] = Append(@, TxnWork(t)),
                                      ![th] = Append(@, Complete)]
              /\ Wakeup({}, {target}, wait)
              /\ UNCHANGED proc_todo
           \/ /\ target = NULL
              /\ todo' = [todo EXCEPT ![th] = Append(@, Complete)]
              /\ proc_todo' = [proc_todo EXCEPT ![p] = Append(@, TxnWork(t))]
              /\ Wakeup({p}, {}, wait)
        /\ frames' = Push(th, "call", t)
        /\ UNCHANGED <<procs, threads, looper, frozen, error, node_async, has_async>>

(* One asynchronous call at a time for each node; the rest queue on it. *)
QueueOnewayAtOnce(n, t) ==
    /\ has_async' = has_async \cup {n}
    /\ proc_todo' = [proc_todo EXCEPT ![OwnerOf[n]] = Append(@, TxnWork(t))]
    /\ Wakeup({OwnerOf[n]}, {}, wait)
    /\ UNCHANGED node_async

QueueOnewayFirst(n, t) ==
    IF n \in has_async
    THEN /\ node_async' = [node_async EXCEPT ![n] = <<TxnWork(t)>> \o @]
         /\ NoWakeup
         /\ UNCHANGED <<proc_todo, has_async>>
    ELSE QueueOnewayAtOnce(n, t)

QueueOneway(n, t) ==
    \/ /\ n \in has_async
       /\ node_async' = [node_async EXCEPT ![n] = Append(@, TxnWork(t))]
       /\ NoWakeup
       /\ UNCHANGED <<proc_todo, has_async>>
    \/ /\ n \notin has_async
       /\ has_async' = has_async \cup {n}
       /\ proc_todo' = [proc_todo EXCEPT ![OwnerOf[n]] = Append(@, TxnWork(t))]
       /\ Wakeup({OwnerOf[n]}, {}, wait)
       /\ UNCHANGED node_async

(* BC_TRANSACTION with TF_ONE_WAY *)
TransactOneway(th, n) ==
    LET t == calls + 1
        p == OwnerOf[n]
    IN  /\ MayCall(th) /\ n \in Targets[th] /\ TRUE \in Kinds[n]
        /\ calls < MaxCalls
        /\ p \in procs
        /\ calls' = t
        /\ txn' = [txn EXCEPT ![t] = Unanswered(NULL)]
        /\ buf' = [buf EXCEPT ![t] = Parcel(p, n, TRUE)]
        /\ QueueOneway(n, t)
        /\ todo' = [todo EXCEPT ![th] = Append(@, Complete)]
        /\ frames' = Push(th, "post", t)
        /\ UNCHANGED <<procs, threads, looper, frozen, stack, error>>

(* BC_REPLY with nobody left to reply to. *)
ReplyDead(th) ==
    LET r == stack[th]
    IN  /\ Running(th) /\ Top(th) = "serve"
        /\ \/ /\ r = 0
              /\ TxnError(th, "FAILED_REPLY")
              /\ UNCHANGED <<stack, txn>>
           \/ /\ r # 0 /\ txn[r].from \notin threads
              /\ TxnError(th, "DEAD_REPLY")
              /\ stack' = [stack EXCEPT ![th] = txn[r].to_parent]
              /\ txn' = [txn EXCEPT ![r] = NULL]
        /\ frames' = [frames EXCEPT ![th] = Append(Front(@), [kind |-> "post", t |-> 0])]
        /\ NoWakeup
        /\ UNCHANGED <<procs, threads, looper, frozen, buf, proc_todo, node_async,
                       has_async, calls>>

(* BC_REPLY that fails on the way: the call stays on the stack. *)
ReplyFails(th) ==
    /\ "reply" \in Fails
    /\ Running(th) /\ Top(th) = "serve"
    /\ stack[th] # 0 /\ txn[stack[th]].from \in threads
    /\ TxnError(th, "FAILED_REPLY")
    /\ frames' = [frames EXCEPT ![th] = Append(Front(@), [kind |-> "post", t |-> 0])]
    /\ NoWakeup
    /\ UNCHANGED <<procs, threads, looper, frozen, txn, buf, stack, proc_todo,
                   node_async, has_async, calls>>

(* BC_REPLY: the answer goes to the thread that called, and the call comes *)
(* off both stacks.                                                        *)
ReplyToPool(th) ==
    LET r == stack[th]
        p == ProcOf[txn[r].from]
        t == ReplyTo(r)
    IN  /\ Running(th) /\ Top(th) = "serve"
        /\ r # 0 /\ txn[r].from \in threads
        /\ txn' = [txn EXCEPT ![r] = NULL, ![t] = Unanswered(NULL)]
        /\ buf' = [buf EXCEPT ![t] = Parcel(p, NULL, FALSE)]
        /\ stack' = PopBoth([stack EXCEPT ![th] = txn[r].to_parent], r)
        /\ todo' = [todo EXCEPT ![th] = Append(@, Complete)]
        /\ proc_todo' = [proc_todo EXCEPT ![p] = Append(@, TxnWork(t))]
        /\ Wakeup({p}, {}, wait)
        /\ frames' = [frames EXCEPT ![th] = Append(Front(@), [kind |-> "post", t |-> 0])]
        /\ UNCHANGED <<procs, threads, looper, frozen, error, node_async, has_async, calls>>

Reply(th) ==
    LET r == stack[th]
        caller == txn[r].from
        t == ReplyTo(r)
    IN  /\ Running(th) /\ Top(th) = "serve"
        /\ r # 0 /\ caller \in threads
        /\ txn' = [txn EXCEPT ![r] = NULL, ![t] = Unanswered(caller)]
        /\ buf' = [buf EXCEPT ![t] = Parcel(ProcOf[caller], NULL, FALSE)]
        /\ stack' = PopBoth([stack EXCEPT ![th] = txn[r].to_parent], r)
        /\ todo' = [todo EXCEPT ![caller] = Append(@, TxnWork(t)),
                                ![th] = Append(@, Complete)]
        /\ Wakeup({}, {caller}, wait)
        /\ frames' = [frames EXCEPT ![th] = Append(Front(@), [kind |-> "post", t |-> 0])]
        /\ UNCHANGED <<procs, threads, looper, frozen, error, proc_todo, node_async,
                       has_async, calls>>

(* The client is done with a one-way call, whose payload it has freed;     *)
(* nothing is sent.                                                        *)
EndRun(th) ==
    /\ Running(th) /\ Top(th) = "run"
    /\ buf[Last(frames[th]).t] = NULL
    /\ frames' = Pop(th)
    /\ UNCHANGED <<procs, threads, looper, frozen, txn, buf, stack, todo, error,
                   proc_todo, sel_recorded, node_async, has_async, wait, calls>>

(* The next asynchronous call to the node n of process p may go. *)
NextOnewayNever(n, p) ==
    NoWakeup /\ UNCHANGED <<node_async, proc_todo, has_async>>

NextOneway(n, p) ==
    \/ /\ n \in has_async /\ node_async[n] # <<>>
       /\ node_async' = [node_async EXCEPT ![n] = Tail(@)]
       /\ proc_todo' = [proc_todo EXCEPT ![p] = Append(@, Head(node_async[n]))]
       /\ Wakeup({p}, {}, wait)
       /\ UNCHANGED has_async
    \/ /\ n \in has_async /\ node_async[n] = <<>>
       /\ has_async' = has_async \ {n}
       /\ NoWakeup
       /\ UNCHANGED <<node_async, proc_todo>>
    \/ /\ n \notin has_async
       /\ NoWakeup
       /\ UNCHANGED <<node_async, proc_todo, has_async>>

(* BC_FREE_BUFFER, from any thread of the process. *)
FreeBuffer(th, t) ==
    /\ Running(th)
    /\ buf[t] # NULL /\ buf[t].proc = ProcOf[th] /\ buf[t].allow_user_free
    /\ buf' = [buf EXCEPT ![t] = NULL]
    /\ NextOneway(buf[t].target_node, ProcOf[th])
    /\ UNCHANGED <<procs, threads, looper, frozen, txn, stack, todo, error, calls,
                   frames>>

-----------------------------------------------------------------------------
(* The read loop *)

(* The queue a read takes from: the thread's own first. *)
Source(th) ==
    IF todo[th] # <<>> THEN todo[th]
    ELSE IF TakesProcWork(th) THEN proc_todo[ProcOf[th]] ELSE <<>>

(* The first item that may be delivered; a frozen thread gets no transactions. *)
Found(th) ==
    LET q == Source(th)
        passes(i) == q[i].type # "TRANSACTION" \/ th \notin frozen
    IN  {i \in DOMAIN q : passes(i) /\ \A j \in 1 .. i - 1 : ~ passes(j)}

DequeueNot(th, i) == UNCHANGED <<todo, proc_todo>>

Dequeue(th, i) ==
    IF todo[th] # <<>>
    THEN /\ todo' = [todo EXCEPT ![th] = RemoveAt(@, i)]
         /\ UNCHANGED proc_todo
    ELSE /\ proc_todo' = [proc_todo EXCEPT ![ProcOf[th]] = RemoveAt(@, i)]
         /\ UNCHANGED todo

(* The end of binder_ioctl_write_read: work that is left wakes the pool. *)
AfterRead(th, ths, waits) ==
    Wakeup(IF proc_todo'[ProcOf[th]] # <<>> THEN {ProcOf[th]} ELSE {}, ths, waits)

(* Nothing to deliver: sleep on the process queue or on the thread. *)
ReadSleeps(th) ==
    /\ Reads(th) /\ th \notin frozen
    /\ Found(th) = {}
    /\ wait' = [wait EXCEPT ![th] = IF TakesProcWork(th) THEN "proc" ELSE "thread"]
    /\ UNCHANGED <<procs, threads, looper, frozen, txn, buf, stack, todo, error,
                   proc_todo, sel_recorded, node_async, has_async, calls, frames>>

(* A frozen thread with nothing it may take returns at once. *)
ReadFrozen(th) ==
    /\ Reads(th) /\ th \in frozen
    /\ Found(th) = {}
    /\ UNCHANGED proc_todo
    /\ AfterRead(th, {}, wait)
    /\ UNCHANGED <<procs, threads, looper, frozen, txn, buf, stack, todo, error,
                   node_async, has_async, calls, frames>>

(* BR_TRANSACTION_COMPLETE ends a one-way call or a reply; a synchronous   *)
(* call goes on waiting.                                                   *)
ReadComplete(th) ==
    /\ Reads(th)
    /\ \E i \in Found(th) : Source(th)[i] = Complete /\ Dequeue(th, i)
    /\ frames' = IF Top(th) = "post" THEN Pop(th) ELSE frames
    /\ AfterRead(th, {}, wait)
    /\ UNCHANGED <<procs, threads, looper, frozen, txn, buf, stack, error, node_async,
                   has_async, calls>>

(* BR_DEAD_REPLY or BR_FAILED_REPLY ends what the client waits for. *)
ReadError(th) ==
    /\ Reads(th)
    /\ \E i \in Found(th) : Source(th)[i] = ReturnError /\ Dequeue(th, i)
    /\ error' = [error EXCEPT ![th] = "OK"]
    /\ frames' = IF Top(th) \in {"call", "post"} THEN Pop(th) ELSE frames
    /\ AfterRead(th, {}, wait)
    /\ UNCHANGED <<procs, threads, looper, frozen, txn, buf, stack, node_async,
                   has_async, calls>>

(* BR_REPLY: what has no target node.  The call it answers ends. *)
ReadReply(th) ==
    /\ Reads(th)
    /\ \E i \in Found(th) :
          LET t == Source(th)[i].t
          IN  /\ Source(th)[i].type = "TRANSACTION" /\ buf[t].target_node = NULL
              /\ Dequeue(th, i)
              /\ buf' = [buf EXCEPT ![t].allow_user_free = TRUE]
              /\ txn' = [txn EXCEPT ![t] = NULL]
              /\ stack' = PopBoth(stack, t)
    /\ frames' = IF Top(th) = "call" THEN Pop(th) ELSE frames
    /\ AfterRead(th, {}, wait)
    /\ UNCHANGED <<procs, threads, looper, frozen, error, node_async, has_async, calls>>

(* BR_TRANSACTION: a synchronous call is now owed a reply by this thread;  *)
(* a one-way call is forgotten.                                            *)
ReadTransaction(th) ==
    /\ Reads(th)
    /\ \E i \in Found(th) :
          LET t == Source(th)[i].t
          IN  /\ Source(th)[i].type = "TRANSACTION" /\ buf[t].target_node # NULL
              /\ Dequeue(th, i)
              /\ buf' = [buf EXCEPT ![t].allow_user_free = TRUE]
              /\ \/ /\ txn[t].need_reply
                    /\ txn' = [txn EXCEPT ![t].to_thread = th, ![t].to_parent = stack[th]]
                    /\ stack' = [stack EXCEPT ![th] = t]
                    /\ frames' = Push(th, "serve", t)
                 \/ /\ ~ txn[t].need_reply
                    /\ txn' = [txn EXCEPT ![t] = NULL]
                    /\ stack' = PopBoth(stack, t)
                    /\ frames' = Push(th, "run", t)
    /\ AfterRead(th, {}, wait)
    /\ UNCHANGED <<procs, threads, looper, frozen, error, node_async, has_async, calls>>

(* The arena cannot be written: the sender is told, if it waits. *)
ReadUnwritable(th) ==
    /\ Reads(th) /\ ProcOf[th] \in Unwritable
    /\ \E i \in Found(th) :
          LET t == Source(th)[i].t
              told == {txn[t].from} \cap threads
              own == IF todo[th] # <<>> THEN RemoveAt(todo[th], i) ELSE todo[th]
              left == [todo EXCEPT ![th] = own]
          IN  /\ Source(th)[i].type = "TRANSACTION"
              /\ todo' = [u \in Thread |-> IF u \in told THEN Enqueue(left[u], ReturnError)
                                                         ELSE left[u]]
              /\ error' = [u \in Thread |-> IF u \in told THEN "FAILED_REPLY" ELSE error[u]]
              /\ proc_todo' = IF todo[th] # <<>> THEN proc_todo
                              ELSE [proc_todo EXCEPT ![ProcOf[th]] = RemoveAt(@, i)]
              /\ buf' = [buf EXCEPT ![t] = NULL]
              /\ txn' = [txn EXCEPT ![t] = NULL]
              /\ stack' = PopBoth(stack, t)
              /\ AfterRead(th, told, wait)
    /\ UNCHANGED <<procs, threads, looper, frozen, node_async, has_async, calls, frames>>

(* A signal ends the sleep of a read or a poll; the client will retry. *)
Signal(th) ==
    /\ th \in threads /\ wait[th] # "none"
    /\ UNCHANGED proc_todo
    /\ LET waits == [wait EXCEPT ![th] = "none"]
       IN  IF wait[th] = "poll" THEN wait' = waits /\ UNCHANGED sel_recorded
                                ELSE AfterRead(th, {}, waits)
    /\ UNCHANGED <<procs, threads, looper, frozen, txn, buf, stack, todo, error,
                   node_async, has_async, calls, frames>>

(* binder_dev_select with nothing to read: record the poll and sleep. *)
Select(th) ==
    /\ Running(th) /\ th \in Pollers /\ Top(th) = "idle"
    /\ ~ HasWork(th)
    /\ wait' = [wait EXCEPT ![th] = "poll"]
    /\ sel_recorded' = sel_recorded \cup {ProcOf[th]}
    /\ UNCHANGED <<procs, threads, looper, frozen, txn, buf, stack, todo, error,
                   proc_todo, node_async, has_async, calls, frames>>

-----------------------------------------------------------------------------
(* Threads and processes coming and going *)

(* BC_ENTER_LOOPER *)
EnterLooper(th) ==
    /\ Running(th) /\ th \in PoolThread \ looper /\ Top(th) = "idle"
    /\ looper' = looper \cup {th}
    /\ UNCHANGED <<procs, threads, frozen, txn, buf, stack, todo, error, proc_todo,
                   sel_recorded, node_async, has_async, wait, calls, frames>>

(* BINDER_FREEZE, from any thread of the process. *)
Freeze(th) ==
    /\ th \in Freezes \cap threads
    /\ \E u \in threads : ProcOf[u] = ProcOf[th] /\ Running(u)
    /\ frozen' \in {frozen \cup {th}, frozen \ {th}}
    /\ UNCHANGED <<procs, threads, looper, txn, buf, stack, todo, error, proc_todo,
                   sel_recorded, node_async, has_async, wait, calls, frames>>

(* The transactions on a thread's stack, as binder_thread_release walks it. *)
OnStack(th) ==
    LET walk[t \in Call \cup {0}] ==
            IF t = 0 THEN {}
            ELSE IF txn[t].from = th THEN {t} \cup walk[txn[t].from_parent]
            ELSE IF txn[t].to_thread = th THEN {t} \cup walk[txn[t].to_parent]
            ELSE {}
    IN  walk[stack[th]]

Calling(th) == {t \in OnStack(th) : txn[t].from = th}
Serving(th) == OnStack(th) \ Calling(th)
Queued(q) == {q[i].t : i \in {j \in DOMAIN q : q[j].type = "TRANSACTION"}}

(* What binder_thread_release does to the transactions on the stacks of    *)
(* the threads ths: calls are detached, calls being served lose their      *)
(* payload and their caller, if alive, is told.                            *)
Detach(ths, t) ==
    [txn[t] EXCEPT !.from = IF @ \in ths /\ t \in Calling(@) THEN NULL ELSE @,
                   !.to_thread = IF @ \in ths /\ t \in Serving(@) THEN NULL ELSE @]

Abandoned(ths) == UNION {Serving(th) : th \in ths}
Callers(ts) == {txn[t].from : t \in ts} \cap threads

(* BINDER_THREAD_EXIT: undelivered transactions go back to the process. *)
ThreadExit(th) ==
    LET p == ProcOf[th]
        told == Callers(Abandoned({th})) \ {th}
    IN  /\ Running(th) /\ th \in Exits
        /\ threads' = threads \ {th}
        /\ looper' = looper \ {th}
        /\ frozen' = frozen \ {th}
        /\ txn' = [t \in Txn |-> IF Live(t) THEN Detach({th}, t) ELSE NULL]
        /\ buf' = [t \in Txn |-> IF t \in Abandoned({th}) THEN NULL ELSE buf[t]]
        /\ stack' = [stack EXCEPT ![th] = 0]
        /\ error' = [u \in Thread |-> IF u \in told THEN "DEAD_REPLY" ELSE error[u]]
        /\ todo' = [u \in Thread |-> IF u = th THEN <<>>
                                     ELSE IF u \in told THEN Enqueue(todo[u], ReturnError)
                                     ELSE todo[u]]
        /\ proc_todo' = [proc_todo EXCEPT ![p] =
                            @ \o SelectSeq(todo[th], LAMBDA w : w.type = "TRANSACTION")]
        /\ frames' = [frames EXCEPT ![th] = <<>>]
        /\ Wakeup({}, told, wait)
        /\ UNCHANGED <<procs, node_async, has_async, calls>>

(* The device is closed (binder_proc_release): callers queued on the       *)
(* process are told, every thread is released, the arena goes.  The        *)
(* process's own threads are out of the driver by then.                    *)
Close(p) ==
    LET ths == {th \in threads : ProcOf[th] = p}
        queued == Queued(proc_todo[p])
        freed == queued \cup UNION {Queued(todo[th]) : th \in ths}
        told == Callers(queued \cup Abandoned(ths)) \ ths
    IN  /\ p \in procs \cap Closes
        /\ \A th \in ths : wait[th] = "none"
        /\ procs' = procs \ {p}
        /\ threads' = threads \ ths
        /\ looper' = looper \ ths
        /\ frozen' = frozen \ ths
        /\ txn' = [t \in Txn |-> IF Live(t) /\ t \notin freed THEN Detach(ths, t) ELSE NULL]
        /\ buf' = [t \in Txn |-> IF buf[t] # NULL /\ buf[t].proc # p THEN buf[t] ELSE NULL]
        /\ stack' = [u \in Thread |-> IF u \in ths THEN 0
                                      ELSE IF stack[u] \in freed /\ txn[stack[u]].from = u
                                      THEN txn[stack[u]].from_parent
                                      ELSE stack[u]]
        /\ error' = [u \in Thread |-> IF u \in told THEN "DEAD_REPLY" ELSE error[u]]
        /\ todo' = [u \in Thread |-> IF u \in ths THEN <<>>
                                     ELSE IF u \in told THEN Enqueue(todo[u], ReturnError)
                                     ELSE todo[u]]
        /\ proc_todo' = [proc_todo EXCEPT ![p] = <<>>]
        /\ frames' = [th \in Thread |-> IF th \in ths THEN <<>> ELSE frames[th]]
        /\ Wakeup({}, told, wait)
        /\ UNCHANGED <<node_async, has_async, calls>>

-----------------------------------------------------------------------------
Read(th) ==
    \/ ReadSleeps(th) \/ ReadFrozen(th)
    \/ ReadComplete(th) \/ ReadError(th)
    \/ ReadReply(th) \/ ReadTransaction(th)
    \/ ReadUnwritable(th)

Answer(th) == ReplyDead(th) \/ ReplyFails(th) \/ Reply(th) \/ EndRun(th)

Next ==
    \/ \E th \in Thread :
          \/ EnterLooper(th)
          \/ \E n \in Node : \/ \E oneway \in BOOLEAN : TransactFails(th, n, oneway)
                             \/ Transact(th, n)
                             \/ TransactOneway(th, n)
          \/ Answer(th)
          \/ \E t \in Txn : FreeBuffer(th, t)
          \/ Read(th)
          \/ Signal(th) \/ Select(th)
          \/ Freeze(th)
          \/ ThreadExit(th)
    \/ \E p \in Proc : Close(p)

Spec == Init /\ [][Next]_vars

(* A client keeps reading while it waits or is in the pool, answers what   *)
(* it serves and frees what it was given; nothing makes it call.           *)
Fairness ==
    \A th \in Thread :
        /\ WF_vars(EnterLooper(th))
        /\ WF_vars(Read(th))
        /\ WF_vars(Answer(th))
        /\ WF_vars(\E t \in Txn : FreeBuffer(th, t))

FairSpec == Spec /\ Fairness

-----------------------------------------------------------------------------
Errors == {"OK", "DEAD_REPLY", "FAILED_REPLY"}

(* The types of the driver's records and queues. *)
TypeOK ==
    /\ procs \subseteq Proc /\ threads \subseteq Thread
    /\ looper \subseteq threads /\ frozen \subseteq threads
    /\ txn \in [Txn -> Transaction \cup {NULL}]
    /\ buf \in [Txn -> Payload \cup {NULL}]
    /\ stack \in [Thread -> Call \cup {0}]
    /\ todo \in [Thread -> Seq(Work)]
    /\ error \in [Thread -> Errors]
    /\ proc_todo \in [Proc -> Seq(Work)]
    /\ sel_recorded \subseteq Proc
    /\ node_async \in [Node -> Seq(Work)]
    /\ has_async \subseteq Node
    /\ wait \in [Thread -> {"none", "proc", "thread", "poll"}]
    /\ calls \in 0 .. MaxCalls
    /\ frames \in [Thread -> Seq(Frame)]

Count(q, t) == Cardinality({i \in DOMAIN q : q[i] = TxnWork(t)})
Places(t) ==
    LET at(u) == Count(todo[u], t)
        of(p) == Count(proc_todo[p], t)
        on(n) == Count(node_async[n], t)
    IN  MapThenSumSet(at, Thread) + MapThenSumSet(of, Proc) + MapThenSumSet(on, Node)

(* A transaction waits on one queue at most ("already waiting somewhere;   *)
(* leave it there"), and one that waits for a thread still has its record  *)
(* and its undelivered payload: every removal goes through                 *)
(* binder_dequeue_work before anything is freed.                           *)
QueuedOnce ==
    /\ \A t \in Txn : Places(t) <= 1
    /\ \A t \in UNION ({Queued(todo[th]) : th \in Thread}
                        \cup {Queued(proc_todo[p]) : p \in Proc}) :
          Live(t) /\ buf[t] # NULL /\ ~ buf[t].allow_user_free

(* Nobody sleeps on a queue that holds work: not on the process queue, and *)
(* not, in a read or a poll, with something on the thread's own queue; and *)
(* a thread in poll can be reached by selwakeup.  Whatever inserts work    *)
(* must wake the channel in the same hold of the lock.                     *)
NoUnseenWork ==
    \A th \in Thread :
        /\ wait[th] = "proc" => proc_todo[ProcOf[th]] = <<>>
        /\ wait[th] \in {"thread", "poll"} => todo[th] = <<>>
        /\ wait[th] = "poll" => ProcOf[th] \in sel_recorded

(* No wakeup is lost: a thread asleep in a read or a poll has nothing to   *)
(* read, and it sleeps on the channel that the next work it may take will  *)
(* wake: the process queue exactly when it may take process work.          *)
NoLostWakeup ==
    \A th \in threads :
        /\ wait[th] # "none" => ~ HasWork(th)
        /\ wait[th] = "proc" => TakesProcWork(th)
        /\ wait[th] = "thread" => ~ TakesProcWork(th)

FramesOf(th, kind) == {f \in Range(frames[th]) : f.kind = kind}
FrameCalls(th, kind) == {f.t : f \in FramesOf(th, kind)}

(* The driver's transaction stack and the client agree on who owes whom: a *)
(* thread serves on its stack exactly the calls its client is executing,   *)
(* and calls nothing its client is not waiting for.  Its top is never a    *)
(* transaction binder_free_transaction has released.                       *)
StackMatches ==
    \A th \in threads :
        /\ stack[th] # 0 => Live(stack[th])
        /\ Serving(th) = FrameCalls(th, "serve")
        /\ Calling(th) \subseteq FrameCalls(th, "call")

(* A reply is only ever queued to the thread that made the call, for the   *)
(* innermost call that thread is waiting for; never to "any thread".       *)
ReplyToCaller ==
    /\ \A p \in Proc : \A t \in Queued(proc_todo[p]) : t \in Call
    /\ \A th \in threads : \A t \in Queued(todo[th]) \ Call :
          /\ FramesOf(th, "call") # {}
          /\ LET inner == SelectLastInSeq(frames[th], LAMBDA f : f.kind = "call")
             IN  ReplyTo(frames[th][inner].t) = t

(* A call that can still be answered: it waits for a thread, or one of     *)
(* them is serving it.                                                     *)
Answerable(t) ==
    \/ \E p \in procs : t \in Queued(proc_todo[p])
    \/ \E u \in threads : t \in Queued(todo[u])
    \/ \E u \in threads : t \in Serving(u) \cap FrameCalls(u, "serve")

(* What the client of a thread waits for and will not get unless an error  *)
(* is pending for it.                                                      *)
Unanswerable(th) ==
    {i \in DOMAIN frames[th] :
        LET f == frames[th][i]
        IN  \/ /\ f.kind = "call"
               /\ f.t # 0 => ~ Answerable(f.t) /\ ReplyTo(f.t) \notin Queued(todo[th])
            \/ /\ f.kind = "post"
               /\ ~ Contains(todo[th], Complete)}

(* "Anything this thread was in the middle of has to be answered, or the   *)
(* far side waits forever": whatever a thread waits for has an answer on   *)
(* its way, or an error queued, one for each.                              *)
EveryoneAnswered ==
    \A th \in threads :
        Cardinality(Unanswerable(th)) <= (IF Contains(todo[th], ReturnError) THEN 1 ELSE 0)

OnNode(n) == {t \in Call : buf[t] # NULL /\ buf[t].async /\ buf[t].target_node = n}

(* The one-way queue of a node: what is out, and what waits on the node. *)
O(n) == INSTANCE OnewayQueue
        WITH out <- OnNode(n) \ Queued(node_async[n]),
             waiting <- [i \in DOMAIN node_async[n] |-> node_async[n][i].t]

(* Every node implements OnewayQueue (\A n \in Node : O(n)!Spec, in the    *)
(* form TLC evaluates): while nobody dies and arenas can be written, the   *)
(* one-way calls to an object are handed over one at a time, in the order  *)
(* they were sent, and each BC_FREE_BUFFER lets exactly the next through.  *)
ImplementsOneway ==
    /\ \A n \in Node : O(n)!Init
    /\ [][\A n \in Node : [O(n)!Next]_(O(n)!vars)]_vars

(* Every transaction leaves the driver: it is delivered, replied to, or    *)
(* its sender told.                                                        *)
TransactionsEnd == \A t \in Txn : Live(t) ~> ~ Live(t)

(* Every client comes back from what it is in the middle of. *)
CallsReturn == \A th \in Thread : frames[th] # <<>> ~> frames[th] = <<>>

-----------------------------------------------------------------------------
(* What the comments of the code state and the code does not always keep;  *)
(* README.md gives the instances that show it.                             *)

(* poll "has to agree exactly with what the read loop would do": when      *)
(* binder_has_work reports a thread readable, its read returns an item.    *)
PollAgrees == \A th \in threads : HasWork(th) => Found(th) # {}

(* "One asynchronous transaction per object at a time": of the one-way     *)
(* calls to a node that have not been freed, all but one wait on the node. *)
AsyncOne ==
    \A n \in Node : Cardinality(OnNode(n) \ Queued(node_async[n])) <= 1

(* The queue of a node drains: while has_async_transaction is set there is *)
(* a one-way call on its way or unfreed whose BC_FREE_BUFFER will let the  *)
(* next one through, and nothing queues on the node otherwise.             *)
AsyncHeld ==
    \A n \in Node : OwnerOf[n] \in procs =>
        /\ n \in has_async <=> OnNode(n) \ Queued(node_async[n]) # {}
        /\ n \notin has_async => node_async[n] = <<>>

=============================================================================
