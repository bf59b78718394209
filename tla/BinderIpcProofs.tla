--------------------------- MODULE BinderIpcProofs ---------------------------
(***************************************************************************)
(* Nobody sleeps on a queue that holds work, for any number of processes,  *)
(* threads, nodes and calls, and whatever closes, fails, freezes or polls, *)
(* as long as no thread leaves with BINDER_THREAD_EXIT.                    *)
(*                                                                         *)
(* The invariant is inductive with the shape of the queues.  What is on    *)
(* them does not matter, so that they are sequences of something is all    *)
(* that is needed of their type.                                           *)
(***************************************************************************)
EXTENDS BinderIpc, SequenceTheorems, TLAPS

IsSeq(q) == \E S : q \in Seq(S)
Waits == {"none", "proc", "thread", "poll"}

Shape ==
    /\ wait \in [Thread -> Waits]
    /\ DOMAIN todo = Thread /\ \A th \in Thread : IsSeq(todo[th])
    /\ DOMAIN proc_todo = Proc /\ \A p \in Proc : IsSeq(proc_todo[p])
    /\ threads \subseteq Thread

SleepInv == Shape /\ NoUnseenWork

-----------------------------------------------------------------------------
(* Appending an item keeps a sequence a sequence. *)
LEMMA AppendIsSeq ==
  ASSUME NEW q, NEW w, IsSeq(q)
  PROVE  IsSeq(Append(q, w))
<1>1. PICK S : q \in Seq(S)
  BY DEF IsSeq
<1>2. q \in Seq(S \cup {w}) /\ w \in S \cup {w}
  BY <1>1
<1>3. Append(q, w) \in Seq(S \cup {w})
  BY <1>2
<1> QED
  BY <1>3 DEF IsSeq

(* So does Enqueue. *)
LEMMA EnqueueIsSeq ==
  ASSUME NEW q, NEW w, IsSeq(q)
  PROVE  IsSeq(Enqueue(q, w))
BY AppendIsSeq DEF Enqueue

(* Removing an item does too. *)
LEMMA RemoveAtIsSeq ==
  ASSUME NEW q, IsSeq(q), NEW i \in DOMAIN q
  PROVE  IsSeq(RemoveAt(q, i))
<1>1. PICK S : q \in Seq(S)
  BY DEF IsSeq
<1>2. i \in 1 .. Len(q) /\ Len(q) \in Nat
  BY <1>1
<1>3. SubSeq(q, 1, i - 1) \in Seq(S) /\ SubSeq(q, i + 1, Len(q)) \in Seq(S)
  BY <1>1, <1>2
<1>4. RemoveAt(q, i) \in Seq(S)
  BY <1>3 DEF RemoveAt
<1> QED
  BY <1>4 DEF IsSeq

(* What binder_wakeup_proc and binder_wakeup_thread leave asleep: threads  *)
(* on channels that were not woken, and pollers of processes for which     *)
(* nothing happened, still recorded.                                       *)
LEMMA StillAsleep ==
  ASSUME NEW ps, NEW ths, NEW waits \in [Thread -> Waits],
         Wakeup(ps, ths, waits)
  PROVE  /\ wait' \in [Thread -> Waits]
         /\ \A u \in Thread : wait'[u] # "none" =>
               /\ wait'[u] = waits[u]
               /\ wait'[u] = "proc" => ProcOf[u] \notin ps
               /\ wait'[u] \in {"thread", "poll"} =>
                     (u \in ths => wait'[u] = "poll" /\ ProcOf[u] \notin sel_recorded)
               /\ wait'[u] = "poll" /\ ProcOf[u] \in sel_recorded =>
                     ProcOf[u] \in sel_recorded'
BY DEF Wakeup, Waits

(* Queues that hold sequences, before and after a step. *)
Queues ==
    /\ DOMAIN todo = Thread /\ \A th \in Thread : IsSeq(todo[th])
    /\ DOMAIN proc_todo = Proc /\ \A p \in Proc : IsSeq(proc_todo[p])

(* A step that gives work only to the threads ths, to threads that are     *)
(* awake and to the processes ps, and then wakes ths and ps, leaves nobody *)
(* asleep on work.                                                         *)
LEMMA GiveAndWake ==
  ASSUME SleepInv, Queues', threads' \subseteq Thread,
         NEW ps, NEW ths, NEW waits \in [Thread -> Waits],
         Wakeup(ps, ths, waits),
         \A u \in Thread : waits[u] \in {"none", wait[u]},
         \A u \in Thread : u \notin ths /\ waits[u] # "none" /\ todo[u] = <<>> => todo'[u] = <<>>,
         \A p \in Proc : p \notin ps /\ proc_todo[p] = <<>> => proc_todo'[p] = <<>>
  PROVE  SleepInv'
<1>1. Shape'
  BY StillAsleep DEF Shape, Queues
<1>2. ASSUME NEW u \in Thread
      PROVE  /\ wait'[u] = "proc" => proc_todo'[ProcOf[u]] = <<>>
             /\ wait'[u] \in {"thread", "poll"} => todo'[u] = <<>>
             /\ wait'[u] = "poll" => ProcOf[u] \in sel_recorded'
  <2>1. ProcOf[u] \in Proc
    BY IpcAssumption
  <2>2. wait'[u] # "none" => wait'[u] = waits[u] /\ wait'[u] = wait[u]
    BY StillAsleep
  <2>3. /\ wait[u] = "proc" => proc_todo[ProcOf[u]] = <<>>
        /\ wait[u] \in {"thread", "poll"} => todo[u] = <<>>
        /\ wait[u] = "poll" => ProcOf[u] \in sel_recorded
    BY DEF SleepInv, NoUnseenWork
  <2>4. wait'[u] = "proc" => ProcOf[u] \notin ps
    BY StillAsleep
  <2>5. wait'[u] \in {"thread", "poll"} =>
            (u \in ths => wait'[u] = "poll" /\ ProcOf[u] \notin sel_recorded)
    BY StillAsleep
  <2>6. wait'[u] = "poll" /\ ProcOf[u] \in sel_recorded => ProcOf[u] \in sel_recorded'
    BY StillAsleep
  <2> QED
    BY <2>1, <2>2, <2>3, <2>4, <2>5, <2>6
<1> QED
  BY <1>1, <1>2 DEF SleepInv, NoUnseenWork

(* A step that wakes nobody must give no work to a sleeper. *)
LEMMA GiveNothing ==
  ASSUME SleepInv, Queues', threads' \subseteq Thread, NoWakeup,
         \A u \in Thread : wait[u] # "none" /\ todo[u] = <<>> => todo'[u] = <<>>,
         \A p \in Proc : proc_todo[p] = <<>> => proc_todo'[p] = <<>>
  PROVE  SleepInv'
<1>1. Shape'
  BY DEF SleepInv, Shape, Queues, NoWakeup
<1>2. NoUnseenWork'
  <2> SUFFICES ASSUME NEW u \in Thread
               PROVE  /\ wait'[u] = "proc" => proc_todo'[ProcOf[u]] = <<>>
                      /\ wait'[u] \in {"thread", "poll"} => todo'[u] = <<>>
                      /\ wait'[u] = "poll" => ProcOf[u] \in sel_recorded'
    BY DEF NoUnseenWork
  <2>1. ProcOf[u] \in Proc
    BY IpcAssumption
  <2> QED
    BY <2>1 DEF SleepInv, NoUnseenWork, NoWakeup
<1> QED
  BY <1>1, <1>2 DEF SleepInv

-----------------------------------------------------------------------------
(* The actions *)

(* An error queued to the running sender wakes nobody and need not. *)
LEMMA ErrorStep ==
  ASSUME SleepInv, NEW th \in Thread, wait[th] = "none", NEW br,
         TxnError(th, br), NoWakeup, UNCHANGED <<threads, proc_todo>>
  PROVE  SleepInv'
<1>1. /\ DOMAIN todo' = Thread
      /\ \A u \in Thread : todo'[u] = IF u = th THEN Enqueue(todo[th], ReturnError)
                                                ELSE todo[u]
  BY DEF SleepInv, Shape, TxnError
<1>2. Queues'
  BY <1>1, EnqueueIsSeq DEF SleepInv, Shape, Queues
<1> QED
  BY <1>1, <1>2, GiveNothing DEF SleepInv, Shape

(* Appending to one queue of a family keeps the others. *)
LEMMA AppendTo ==
  ASSUME NEW D, NEW f, DOMAIN f = D, \A d \in D : IsSeq(f[d]),
         NEW k, NEW w, NEW g, g = [f EXCEPT ![k] = Append(@, w)]
  PROVE  /\ DOMAIN g = D /\ \A d \in D : IsSeq(g[d])
         /\ \A d \in D : d # k => g[d] = f[d]
<1>1. DOMAIN g = D /\ \A d \in D : g[d] = IF d = k THEN Append(f[d], w) ELSE f[d]
  OBVIOUS
<1>2. ASSUME NEW d \in D PROVE IsSeq(g[d])
  <2>1. IsSeq(f[d]) /\ IsSeq(Append(f[d], w))
    BY AppendIsSeq
  <2> QED
    BY <1>1, <2>1
<1> QED
  BY <1>1, <1>2

(* What two appends can make of a queue is a queue. *)
LEMMA AppendTwo ==
  ASSUME NEW q, IsSeq(q), NEW w, NEW x, NEW r,
         r = q \/ r = Append(q, w) \/ r = Append(q, x) \/ r = Append(Append(q, w), x)
  PROVE  IsSeq(r)
<1>1. IsSeq(Append(q, w)) /\ IsSeq(Append(q, x)) /\ IsSeq(Append(Append(q, w), x))
  BY AppendIsSeq
<1> QED
  BY <1>1

(* Removing from one queue of a family keeps the others. *)
LEMMA RemoveFrom ==
  ASSUME NEW D, NEW f, DOMAIN f = D, \A d \in D : IsSeq(f[d]),
         NEW k \in D, NEW i \in DOMAIN f[k], NEW g, g = [f EXCEPT ![k] = RemoveAt(@, i)]
  PROVE  /\ DOMAIN g = D /\ \A d \in D : IsSeq(g[d])
         /\ \A d \in D : d # k => g[d] = f[d]
<1>1. DOMAIN g = D /\ \A d \in D : g[d] = IF d = k THEN RemoveAt(f[d], i) ELSE f[d]
  OBVIOUS
<1>2. ASSUME NEW d \in D PROVE IsSeq(g[d])
  <2>1. IsSeq(f[d]) /\ IsSeq(RemoveAt(f[k], i))
    BY RemoveAtIsSeq
  <2> QED
    BY <1>1, <2>1
<1> QED
  BY <1>1, <1>2

(* BC_TRANSACTION gives work to one thread or one process, and to its
   running sender. *)
LEMMA TransactStep ==
  ASSUME SleepInv, NEW th \in Thread, NEW n \in Node, Transact(th, n)
  PROVE  SleepInv'
<1> DEFINE T == TxnWork(calls + 1)
           C == Complete
           target == TargetThread(th, OwnerOf[n])
           o == OwnerOf[n]
<1> HIDE DEF T, C, target, o
<1>0. wait[th] = "none" /\ threads' = threads /\ o \in Proc
  BY IpcAssumption DEF Transact, MayCall, Running, o
<1>1. /\ wait \in [Thread -> Waits] /\ threads' \subseteq Thread
      /\ \A u \in Thread : wait[u] \in {"none", wait[u]}
  BY <1>0 DEF SleepInv, Shape
<1>2. DOMAIN todo = Thread /\ \A u \in Thread : IsSeq(todo[u])
  BY DEF SleepInv, Shape
<1>3. DOMAIN proc_todo = Proc /\ \A p \in Proc : IsSeq(proc_todo[p])
  BY DEF SleepInv, Shape
<1>4. CASE /\ todo' = [todo EXCEPT ![target] = Append(@, T), ![th] = Append(@, C)]
           /\ Wakeup({}, {target}, wait)
           /\ UNCHANGED proc_todo
  <2>0. todo' = [todo EXCEPT ![target] = Append(@, T), ![th] = Append(@, C)]
    BY <1>4
  <2>1. /\ DOMAIN todo' = Thread /\ \A u \in Thread : IsSeq(todo'[u])
        /\ \A u \in Thread : u # target /\ u # th => todo'[u] = todo[u]
    <3>1. /\ DOMAIN todo' = Thread
          /\ \A u \in Thread : u # target /\ u # th => todo'[u] = todo[u]
          /\ \A u \in Thread : \/ todo'[u] = todo[u] \/ todo'[u] = Append(todo[u], T)
                               \/ todo'[u] = Append(todo[u], C)
                               \/ todo'[u] = Append(Append(todo[u], T), C)
      BY <1>2, <2>0
    <3>2. ASSUME NEW u \in Thread PROVE IsSeq(todo'[u])
      <4>1. IsSeq(todo[u])
        BY <1>2
      <4> QED
        BY <3>1, <4>1, AppendTwo
    <3> QED
      BY <3>1, <3>2
  <2>2. Queues'
    BY <1>3, <1>4, <2>1 DEF Queues
  <2>3. \A u \in Thread : u \notin {target} /\ wait[u] # "none" /\ todo[u] = <<>> => todo'[u] = <<>>
    BY <1>0, <2>1
  <2>4. \A p \in Proc : p \notin {} /\ proc_todo[p] = <<>> => proc_todo'[p] = <<>>
    BY <1>4
  <2> QED
    BY <1>1, <1>4, <2>2, <2>3, <2>4, GiveAndWake
<1>5. CASE /\ todo' = [todo EXCEPT ![th] = Append(@, C)]
           /\ proc_todo' = [proc_todo EXCEPT ![o] = Append(@, T)]
           /\ Wakeup({o}, {}, wait)
  <2>0. /\ todo' = [todo EXCEPT ![th] = Append(@, C)]
        /\ proc_todo' = [proc_todo EXCEPT ![o] = Append(@, T)]
    BY <1>5
  <2>1. /\ DOMAIN todo' = Thread /\ \A u \in Thread : IsSeq(todo'[u])
        /\ \A u \in Thread : u # th => todo'[u] = todo[u]
    BY <1>2, <2>0, AppendTo
  <2>2. /\ DOMAIN proc_todo' = Proc /\ \A p \in Proc : IsSeq(proc_todo'[p])
        /\ \A p \in Proc : p # o => proc_todo'[p] = proc_todo[p]
    BY <1>3, <2>0, AppendTo
  <2>3. Queues'
    BY <2>1, <2>2 DEF Queues
  <2>4. \A u \in Thread : u \notin {} /\ wait[u] # "none" /\ todo[u] = <<>> => todo'[u] = <<>>
    BY <1>0, <2>1
  <2>5. \A p \in Proc : p \notin {o} /\ proc_todo[p] = <<>> => proc_todo'[p] = <<>>
    BY <2>2
  <2> QED
    BY <1>1, <1>5, <2>3, <2>4, <2>5, GiveAndWake
<1> QED
  BY <1>4, <1>5 DEF Transact, T, C, target, o

(* A one-way BC_TRANSACTION gives work to the owner of the node. *)
LEMMA OnewayStep ==
  ASSUME SleepInv, NEW th \in Thread, NEW n \in Node, TransactOneway(th, n)
  PROVE  SleepInv'
<1> DEFINE T == TxnWork(calls + 1)
           C == Complete
           o == OwnerOf[n]
<1> HIDE DEF T, C, o
<1>0. wait[th] = "none" /\ threads' = threads /\ o \in Proc
  BY IpcAssumption DEF TransactOneway, MayCall, Running, o
<1>1. /\ wait \in [Thread -> Waits] /\ threads' \subseteq Thread
      /\ \A u \in Thread : wait[u] \in {"none", wait[u]}
  BY <1>0 DEF SleepInv, Shape
<1>2. DOMAIN todo = Thread /\ \A u \in Thread : IsSeq(todo[u])
  BY DEF SleepInv, Shape
<1>3. DOMAIN proc_todo = Proc /\ \A p \in Proc : IsSeq(proc_todo[p])
  BY DEF SleepInv, Shape
<1>4. todo' = [todo EXCEPT ![th] = Append(@, C)]
  BY DEF TransactOneway, C
<1>5. /\ DOMAIN todo' = Thread /\ \A u \in Thread : IsSeq(todo'[u])
      /\ \A u \in Thread : u # th => todo'[u] = todo[u]
  BY <1>2, <1>4, AppendTo
<1>6. CASE NoWakeup /\ UNCHANGED proc_todo
  <2>1. Queues'
    BY <1>3, <1>5, <1>6 DEF Queues
  <2>2. \A u \in Thread : wait[u] # "none" /\ todo[u] = <<>> => todo'[u] = <<>>
    BY <1>0, <1>5
  <2>3. \A p \in Proc : proc_todo[p] = <<>> => proc_todo'[p] = <<>>
    BY <1>6
  <2> QED
    BY <1>1, <1>6, <2>1, <2>2, <2>3, GiveNothing
<1>7. CASE proc_todo' = [proc_todo EXCEPT ![o] = Append(@, T)] /\ Wakeup({o}, {}, wait)
  <2>0. proc_todo' = [proc_todo EXCEPT ![o] = Append(@, T)]
    BY <1>7
  <2>1. /\ DOMAIN proc_todo' = Proc /\ \A p \in Proc : IsSeq(proc_todo'[p])
        /\ \A p \in Proc : p # o => proc_todo'[p] = proc_todo[p]
    BY <1>3, <2>0, AppendTo
  <2>2. Queues'
    BY <1>5, <2>1 DEF Queues
  <2>3. \A u \in Thread : u \notin {} /\ wait[u] # "none" /\ todo[u] = <<>> => todo'[u] = <<>>
    BY <1>0, <1>5
  <2>4. \A p \in Proc : p \notin {o} /\ proc_todo[p] = <<>> => proc_todo'[p] = <<>>
    BY <2>1
  <2> QED
    BY <1>1, <1>7, <2>2, <2>3, <2>4, GiveAndWake
<1>8. QueueOneway(n, calls + 1)
  BY DEF TransactOneway
<1> QED
  BY <1>6, <1>7, <1>8 DEF QueueOneway, T, o

(* BC_REPLY gives work to the caller. *)
LEMMA ReplyStep ==
  ASSUME SleepInv, NEW th \in Thread, Reply(th)
  PROVE  SleepInv'
<1> DEFINE caller == txn[stack[th]].from
           T == TxnWork(ReplyTo(stack[th]))
           C == Complete
<1> HIDE DEF caller, T, C
<1>0. wait[th] = "none" /\ threads' = threads /\ proc_todo' = proc_todo
  BY DEF Reply, Running
<1>1. /\ wait \in [Thread -> Waits] /\ threads' \subseteq Thread
      /\ \A u \in Thread : wait[u] \in {"none", wait[u]}
  BY <1>0 DEF SleepInv, Shape
<1>2. DOMAIN todo = Thread /\ \A u \in Thread : IsSeq(todo[u])
  BY DEF SleepInv, Shape
<1>3. todo' = [todo EXCEPT ![caller] = Append(@, T), ![th] = Append(@, C)]
  BY DEF Reply, caller, T, C
<1>4. /\ DOMAIN todo' = Thread /\ \A u \in Thread : IsSeq(todo'[u])
      /\ \A u \in Thread : u # caller /\ u # th => todo'[u] = todo[u]
  <2>1. /\ DOMAIN todo' = Thread
        /\ \A u \in Thread : u # caller /\ u # th => todo'[u] = todo[u]
        /\ \A u \in Thread : \/ todo'[u] = todo[u] \/ todo'[u] = Append(todo[u], T)
                             \/ todo'[u] = Append(todo[u], C)
                             \/ todo'[u] = Append(Append(todo[u], T), C)
    BY <1>2, <1>3
  <2>2. ASSUME NEW u \in Thread PROVE IsSeq(todo'[u])
    <3>1. IsSeq(todo[u])
      BY <1>2
    <3> QED
      BY <2>1, <3>1, AppendTwo
  <2> QED
    BY <2>1, <2>2
<1>5. Queues'
  BY <1>0, <1>4 DEF Queues, SleepInv, Shape
<1>6. \A u \in Thread : u \notin {caller} /\ wait[u] # "none" /\ todo[u] = <<>> => todo'[u] = <<>>
  BY <1>0, <1>4
<1>7. \A p \in Proc : p \notin {} /\ proc_todo[p] = <<>> => proc_todo'[p] = <<>>
  BY <1>0
<1>8. Wakeup({}, {caller}, wait)
  BY DEF Reply, caller
<1> QED
  BY <1>1, <1>5, <1>6, <1>7, <1>8, GiveAndWake

(* BC_FREE_BUFFER may give the next one-way call to the process. *)
LEMMA FreeStep ==
  ASSUME SleepInv, NEW th \in Thread, NEW t \in Txn, FreeBuffer(th, t)
  PROVE  SleepInv'
<1> DEFINE n == buf[t].target_node
           o == ProcOf[th]
           W == Head(node_async[n])
<1> HIDE DEF n, o, W
<1>0. todo' = todo /\ threads' = threads /\ o \in Proc
  BY IpcAssumption DEF FreeBuffer, o
<1>1. /\ wait \in [Thread -> Waits] /\ threads' \subseteq Thread
      /\ \A u \in Thread : wait[u] \in {"none", wait[u]}
  BY <1>0 DEF SleepInv, Shape
<1>2. DOMAIN todo = Thread /\ \A u \in Thread : IsSeq(todo[u])
  BY DEF SleepInv, Shape
<1>3. DOMAIN proc_todo = Proc /\ \A p \in Proc : IsSeq(proc_todo[p])
  BY DEF SleepInv, Shape
<1>4. CASE NoWakeup /\ UNCHANGED proc_todo
  <2>1. Queues'
    BY <1>0, <1>2, <1>3, <1>4 DEF Queues
  <2>2. \A u \in Thread : wait[u] # "none" /\ todo[u] = <<>> => todo'[u] = <<>>
    BY <1>0
  <2>3. \A p \in Proc : proc_todo[p] = <<>> => proc_todo'[p] = <<>>
    BY <1>4
  <2> QED
    BY <1>1, <1>4, <2>1, <2>2, <2>3, GiveNothing
<1>5. CASE proc_todo' = [proc_todo EXCEPT ![o] = Append(@, W)] /\ Wakeup({o}, {}, wait)
  <2>0. proc_todo' = [proc_todo EXCEPT ![o] = Append(@, W)]
    BY <1>5
  <2>1. /\ DOMAIN proc_todo' = Proc /\ \A p \in Proc : IsSeq(proc_todo'[p])
        /\ \A p \in Proc : p # o => proc_todo'[p] = proc_todo[p]
    BY <1>3, <2>0, AppendTo
  <2>2. Queues'
    BY <1>0, <1>2, <2>1 DEF Queues
  <2>3. \A u \in Thread : u \notin {} /\ wait[u] # "none" /\ todo[u] = <<>> => todo'[u] = <<>>
    BY <1>0
  <2>4. \A p \in Proc : p \notin {o} /\ proc_todo[p] = <<>> => proc_todo'[p] = <<>>
    BY <2>1
  <2> QED
    BY <1>1, <1>5, <2>2, <2>3, <2>4, GiveAndWake
<1>6. NextOneway(buf[t].target_node, ProcOf[th])
  BY DEF FreeBuffer
<1> QED
  BY <1>4, <1>5, <1>6 DEF NextOneway, n, o, W

(* The queue a read takes from is a sequence. *)
LEMMA SourceIsSeq ==
  ASSUME SleepInv, NEW th \in Thread
  PROVE  IsSeq(Source(th))
<1>1. ProcOf[th] \in Proc
  BY IpcAssumption
<1>2. IsSeq(todo[th]) /\ IsSeq(proc_todo[ProcOf[th]])
  BY <1>1 DEF SleepInv, Shape
<1>3. IsSeq(<< >>)
  <2>1. << >> \in Seq({})
    BY EmptySeq
  <2> QED
    BY <2>1 DEF IsSeq
<1> QED
  BY <1>2, <1>3 DEF Source

(* A thread that is not frozen finds something in a queue that has work. *)
LEMMA FindsWork ==
  ASSUME SleepInv, NEW th \in Thread, th \notin frozen, Found(th) = {}
  PROVE  Source(th) = << >>
<1> DEFINE q == Source(th)
<1>1. IsSeq(q)
  BY SourceIsSeq
<1>2. PICK S : q \in Seq(S)
  BY <1>1 DEF IsSeq
<1> HIDE DEF q
<1> SUFFICES ASSUME q # << >> PROVE FALSE
  BY DEF q
<1>3. 1 \in DOMAIN q
  BY <1>2
<1>4. \A j \in 1 .. 1 - 1 : FALSE
  OBVIOUS
<1>5. Found(th) = {i \in DOMAIN q : /\ q[i].type # "TRANSACTION" \/ th \notin frozen
                                    /\ \A j \in 1 .. i - 1 :
                                         ~ (q[j].type # "TRANSACTION" \/ th \notin frozen)}
  BY DEF Found, q
<1>6. 1 \in Found(th)
  BY <1>3, <1>4, <1>5
<1> QED
  BY <1>6

(* A read that sleeps has looked at the queue it sleeps on. *)
LEMMA SleepStep ==
  ASSUME SleepInv, NEW th \in Thread, ReadSleeps(th)
  PROVE  SleepInv'
<1>0. /\ todo' = todo /\ proc_todo' = proc_todo /\ threads' = threads
      /\ sel_recorded' = sel_recorded
      /\ wait' = [wait EXCEPT ![th] = IF TakesProcWork(th) THEN "proc" ELSE "thread"]
  BY DEF ReadSleeps
<1>1. Source(th) = << >>
  BY FindsWork DEF ReadSleeps
<1>2. todo[th] = << >> /\ (TakesProcWork(th) => proc_todo[ProcOf[th]] = << >>)
  BY <1>1 DEF Source
<1>3. wait \in [Thread -> Waits]
  BY DEF SleepInv, Shape
<1>4. Shape'
  BY <1>0, <1>3 DEF SleepInv, Shape, Waits
<1>5. NoUnseenWork'
  <2> SUFFICES ASSUME NEW u \in Thread
               PROVE  /\ wait'[u] = "proc" => proc_todo'[ProcOf[u]] = << >>
                      /\ wait'[u] \in {"thread", "poll"} => todo'[u] = << >>
                      /\ wait'[u] = "poll" => ProcOf[u] \in sel_recorded'
    BY DEF NoUnseenWork
  <2>1. CASE u = th
    BY <1>0, <1>2, <1>3, <2>1
  <2>2. CASE u # th
    BY <1>0, <1>3, <2>2 DEF SleepInv, NoUnseenWork
  <2> QED
    BY <2>1, <2>2
<1> QED
  BY <1>4, <1>5 DEF SleepInv

(* So has a poll, and it is recorded before it sleeps. *)
LEMMA SelectStep ==
  ASSUME SleepInv, NEW th \in Thread, Select(th)
  PROVE  SleepInv'
<1>0. /\ todo' = todo /\ proc_todo' = proc_todo /\ threads' = threads
      /\ sel_recorded' = sel_recorded \cup {ProcOf[th]}
      /\ wait' = [wait EXCEPT ![th] = "poll"]
      /\ todo[th] = << >>
  BY DEF Select, HasWork
<1>1. wait \in [Thread -> Waits]
  BY DEF SleepInv, Shape
<1>2. Shape'
  BY <1>0, <1>1 DEF SleepInv, Shape, Waits
<1>3. NoUnseenWork'
  BY <1>0, <1>1 DEF SleepInv, NoUnseenWork
<1> QED
  BY <1>2, <1>3 DEF SleepInv

(* The item a read finds is in the queue that Dequeue takes it from. *)
LEMMA FoundWhere ==
  ASSUME NEW th, NEW i \in Found(th)
  PROVE  /\ todo[th] # << >> => i \in DOMAIN todo[th]
         /\ todo[th] = << >> => /\ i \in DOMAIN proc_todo[ProcOf[th]]
                                /\ proc_todo[ProcOf[th]] # << >>
<1>1. i \in DOMAIN Source(th)
  BY DEF Found
<1>2. DOMAIN << >> = {}
  OBVIOUS
<1> QED
  BY <1>1, <1>2 DEF Source

(* A read that returns an item leaves at most less. *)
LEMMA DequeueStep ==
  ASSUME SleepInv, NEW th \in Thread, wait[th] = "none", threads' = threads,
         NEW i \in Found(th), Dequeue(th, i), AfterRead(th, {}, wait)
  PROVE  SleepInv'
<1> DEFINE o == ProcOf[th]
           ps == IF proc_todo'[o] # <<>> THEN {o} ELSE {}
<1>0. o \in Proc /\ Wakeup(ps, {}, wait)
  BY IpcAssumption DEF AfterRead
<1> HIDE DEF o, ps
<1>1. /\ wait \in [Thread -> Waits] /\ threads' \subseteq Thread
      /\ \A u \in Thread : wait[u] \in {"none", wait[u]}
  BY DEF SleepInv, Shape
<1>2. DOMAIN todo = Thread /\ \A u \in Thread : IsSeq(todo[u])
  BY DEF SleepInv, Shape
<1>3. DOMAIN proc_todo = Proc /\ \A p \in Proc : IsSeq(proc_todo[p])
  BY DEF SleepInv, Shape
<1>4. CASE todo[th] # << >>
  <2>0. /\ todo' = [todo EXCEPT ![th] = RemoveAt(@, i)] /\ proc_todo' = proc_todo
        /\ i \in DOMAIN todo[th]
    BY <1>4, FoundWhere DEF Dequeue
  <2>1. /\ DOMAIN todo' = Thread /\ \A u \in Thread : IsSeq(todo'[u])
        /\ \A u \in Thread : u # th => todo'[u] = todo[u]
    BY <1>2, <2>0, RemoveFrom
  <2>2. Queues'
    BY <1>3, <2>0, <2>1 DEF Queues
  <2>3. \A u \in Thread : u \notin {} /\ wait[u] # "none" /\ todo[u] = <<>> => todo'[u] = <<>>
    BY <2>1
  <2>4. \A p \in Proc : p \notin ps /\ proc_todo[p] = <<>> => proc_todo'[p] = <<>>
    BY <2>0
  <2> QED
    BY <1>0, <1>1, <2>2, <2>3, <2>4, GiveAndWake, SMTT(30)
<1>5. CASE todo[th] = << >>
  <2>0. /\ proc_todo' = [proc_todo EXCEPT ![o] = RemoveAt(@, i)] /\ todo' = todo
        /\ i \in DOMAIN proc_todo[o] /\ proc_todo[o] # << >>
    BY <1>5, FoundWhere DEF Dequeue, o
  <2>1. /\ DOMAIN proc_todo' = Proc /\ \A p \in Proc : IsSeq(proc_todo'[p])
        /\ \A p \in Proc : p # o => proc_todo'[p] = proc_todo[p]
    BY <1>0, <1>3, <2>0, RemoveFrom
  <2>2. Queues'
    BY <1>2, <2>0, <2>1 DEF Queues
  <2>3. \A u \in Thread : u \notin {} /\ wait[u] # "none" /\ todo[u] = <<>> => todo'[u] = <<>>
    BY <2>0
  <2>4. \A p \in Proc : p \notin ps /\ proc_todo[p] = <<>> => proc_todo'[p] = <<>>
    BY <2>0, <2>1
  <2> QED
    BY <1>0, <1>1, <2>2, <2>3, <2>4, GiveAndWake, SMTT(30)
<1> QED
  BY <1>4, <1>5

(* Coming back with nothing gives nobody work. *)
LEMMA SignalStep ==
  ASSUME SleepInv, NEW th \in Thread, threads' = threads, todo' = todo, proc_todo' = proc_todo,
         NEW waits \in {wait, [wait EXCEPT ![th] = "none"]},
         \/ AfterRead(th, {}, waits)
         \/ wait' = waits /\ sel_recorded' = sel_recorded
  PROVE  SleepInv'
<1>0. wait \in [Thread -> Waits] /\ threads' \subseteq Thread
  BY DEF SleepInv, Shape
<1>1. /\ waits \in [Thread -> Waits]
      /\ \A u \in Thread : waits[u] \in {"none", wait[u]}
  BY <1>0 DEF Waits
<1>2. Queues'
  BY DEF Queues, SleepInv, Shape
<1>3. CASE wait' = waits /\ sel_recorded' = sel_recorded
  BY <1>0, <1>1, <1>3 DEF SleepInv, Shape, NoUnseenWork
<1>4. CASE AfterRead(th, {}, waits)
  <2> DEFINE ps == IF proc_todo'[ProcOf[th]] # <<>> THEN {ProcOf[th]} ELSE {}
  <2>1. Wakeup(ps, {}, waits)
    BY <1>4 DEF AfterRead
  <2> HIDE DEF ps
  <2>2. \A u \in Thread : u \notin {} /\ waits[u] # "none" /\ todo[u] = <<>> => todo'[u] = <<>>
    OBVIOUS
  <2>3. \A p \in Proc : p \notin ps /\ proc_todo[p] = <<>> => proc_todo'[p] = <<>>
    OBVIOUS
  <2> QED
    BY <1>0, <1>1, <1>2, <2>1, <2>2, <2>3, GiveAndWake
<1> QED
  BY <1>3, <1>4

(* Closing the device gives work only to the callers it tells. *)
LEMMA CloseStep ==
  ASSUME SleepInv, NEW p \in Proc, Close(p)
  PROVE  SleepInv'
<1> DEFINE ths == {th \in threads : ProcOf[th] = p}
           told == Callers(Queued(proc_todo[p]) \cup Abandoned(ths)) \ ths
<1>0. /\ threads' = threads \ ths /\ Wakeup({}, told, wait)
      /\ proc_todo' = [proc_todo EXCEPT ![p] = <<>>]
      /\ todo' = [u \in Thread |-> IF u \in ths THEN <<>>
                                   ELSE IF u \in told THEN Enqueue(todo[u], ReturnError)
                                   ELSE todo[u]]
  BY DEF Close
<1> HIDE DEF ths, told
<1>1. /\ wait \in [Thread -> Waits] /\ threads' \subseteq Thread
      /\ \A u \in Thread : wait[u] \in {"none", wait[u]}
  BY <1>0 DEF SleepInv, Shape
<1>2. IsSeq(<< >>)
  <2>1. << >> \in Seq({})
    BY EmptySeq
  <2> QED
    BY <2>1 DEF IsSeq
<1>3. DOMAIN todo' = Thread /\ \A u \in Thread : IsSeq(todo'[u])
  <2>1. ASSUME NEW u \in Thread PROVE IsSeq(todo'[u])
    <3>1. IsSeq(todo[u]) /\ IsSeq(Enqueue(todo[u], ReturnError))
      BY EnqueueIsSeq DEF SleepInv, Shape
    <3> QED
      BY <1>0, <1>2, <3>1
  <2> QED
    BY <1>0, <2>1
<1>4. DOMAIN proc_todo' = Proc /\ \A r \in Proc : IsSeq(proc_todo'[r])
  <2>1. DOMAIN proc_todo = Proc /\ \A r \in Proc : IsSeq(proc_todo[r])
    BY DEF SleepInv, Shape
  <2> QED
    BY <1>0, <1>2, <2>1
<1>5. Queues'
  BY <1>3, <1>4 DEF Queues
<1>6. \A u \in Thread : u \notin told /\ wait[u] # "none" /\ todo[u] = <<>> => todo'[u] = <<>>
  BY <1>0
<1>7. \A r \in Proc : r \notin {} /\ proc_todo[r] = <<>> => proc_todo'[r] = <<>>
  BY <1>0 DEF SleepInv, Shape
<1> QED
  BY <1>0, <1>1, <1>5, <1>6, <1>7, GiveAndWake

(* An unwritable arena gives work only to the sender. *)
LEMMA UnwritableStep ==
  ASSUME SleepInv, NEW th \in Thread, ReadUnwritable(th)
  PROVE  SleepInv'
<1> DEFINE o == ProcOf[th]
           ps == IF proc_todo'[o] # <<>> THEN {o} ELSE {}
           own(i) == IF todo[th] # <<>> THEN RemoveAt(todo[th], i) ELSE todo[th]
           left(i) == [todo EXCEPT ![th] = own(i)]
<1>0. wait[th] = "none" /\ threads' = threads /\ o \in Proc
  BY IpcAssumption DEF ReadUnwritable, Reads, Running
<1>1. PICK i \in Found(th) : \E told :
          /\ todo' = [u \in Thread |-> IF u \in told THEN Enqueue(left(i)[u], ReturnError)
                                                     ELSE left(i)[u]]
          /\ proc_todo' = IF todo[th] # <<>> THEN proc_todo
                          ELSE [proc_todo EXCEPT ![o] = RemoveAt(@, i)]
          /\ Wakeup(ps, told, wait)
  BY DEF ReadUnwritable, AfterRead
<1> HIDE DEF o, ps
<1>2. PICK told :
          /\ todo' = [u \in Thread |-> IF u \in told THEN Enqueue(left(i)[u], ReturnError)
                                                     ELSE left(i)[u]]
          /\ proc_todo' = IF todo[th] # <<>> THEN proc_todo
                          ELSE [proc_todo EXCEPT ![o] = RemoveAt(@, i)]
          /\ Wakeup(ps, told, wait)
  BY <1>1
<1>3. /\ wait \in [Thread -> Waits] /\ threads' \subseteq Thread
      /\ \A u \in Thread : wait[u] \in {"none", wait[u]}
  BY <1>0 DEF SleepInv, Shape
<1>4. DOMAIN todo = Thread /\ \A u \in Thread : IsSeq(todo[u])
  BY DEF SleepInv, Shape
<1>5. DOMAIN proc_todo = Proc /\ \A p \in Proc : IsSeq(proc_todo[p])
  BY DEF SleepInv, Shape
<1>6. \A u \in Thread : u # th => left(i)[u] = todo[u]
  BY <1>4
<1>7. ASSUME NEW u \in Thread PROVE IsSeq(left(i)[u])
  <2>1. IsSeq(todo[u]) /\ IsSeq(todo[th])
    BY <1>4
  <2>2. todo[th] # <<>> => IsSeq(RemoveAt(todo[th], i))
    BY <2>1, FoundWhere, RemoveAtIsSeq
  <2>3. IsSeq(own(i))
    BY <2>1, <2>2
  <2> HIDE DEF own
  <2>4. left(i)[u] = IF u = th THEN own(i) ELSE todo[u]
    BY <1>4
  <2> QED
    BY <2>1, <2>3, <2>4
<1> HIDE DEF left
<1>8. ASSUME NEW u \in Thread PROVE IsSeq(todo'[u])
  <2>1. IsSeq(left(i)[u]) /\ IsSeq(Enqueue(left(i)[u], ReturnError))
    BY <1>7, EnqueueIsSeq
  <2> QED
    BY <1>2, <2>1
<1>9. /\ DOMAIN proc_todo' = Proc /\ \A p \in Proc : IsSeq(proc_todo'[p])
      /\ \A p \in Proc : proc_todo[p] = <<>> => proc_todo'[p] = <<>>
  <2>1. CASE todo[th] # <<>>
    BY <1>2, <1>5, <2>1
  <2>2. CASE todo[th] = <<>>
    <3>1. /\ proc_todo' = [proc_todo EXCEPT ![o] = RemoveAt(@, i)]
          /\ i \in DOMAIN proc_todo[o] /\ proc_todo[o] # << >>
      BY <1>2, <2>2, FoundWhere DEF o
    <3>2. /\ DOMAIN proc_todo' = Proc /\ \A p \in Proc : IsSeq(proc_todo'[p])
          /\ \A p \in Proc : p # o => proc_todo'[p] = proc_todo[p]
      BY <1>0, <1>5, <3>1, RemoveFrom
    <3> QED
      BY <3>1, <3>2
  <2> QED
    BY <2>1, <2>2
<1>10. Queues'
  <2>1. DOMAIN todo' = Thread
    BY <1>2
  <2> QED
    BY <1>8, <1>9, <2>1 DEF Queues
<1>11. \A u \in Thread : u \notin told /\ wait[u] # "none" /\ todo[u] = <<>> => todo'[u] = <<>>
  BY <1>0, <1>2, <1>6
<1>12. \A p \in Proc : p \notin ps /\ proc_todo[p] = <<>> => proc_todo'[p] = <<>>
  BY <1>9
<1>13. Wakeup(ps, told, wait)
  BY <1>2
<1> QED
  BY <1>3, <1>10, <1>11, <1>12, <1>13, GiveAndWake

-----------------------------------------------------------------------------
(* The initial state has empty queues. *)
LEMMA SleepInit == Init => SleepInv
<1> SUFFICES ASSUME Init PROVE SleepInv
  OBVIOUS
<1>1. IsSeq(<< >>)
  <2>1. << >> \in Seq({})
    BY EmptySeq
  <2> QED
    BY <2>1 DEF IsSeq
<1>2. Shape
  BY <1>1 DEF Init, Shape, Waits
<1>3. NoUnseenWork
  BY DEF Init, NoUnseenWork
<1> QED
  BY <1>2, <1>3 DEF SleepInv

(* Every read leaves nobody asleep on work. *)
LEMMA ReadStep ==
  ASSUME SleepInv, NEW th \in Thread, Read(th)
  PROVE  SleepInv'
<1>1. CASE ReadSleeps(th)
  BY <1>1, SleepStep
<1>2. CASE ReadFrozen(th)
  BY <1>2, SignalStep DEF ReadFrozen
<1>3. CASE ReadUnwritable(th)
  BY <1>3, UnwritableStep
<1>4. CASE ReadComplete(th) \/ ReadError(th) \/ ReadReply(th) \/ ReadTransaction(th)
  <2>1. /\ wait[th] = "none" /\ threads' = threads /\ AfterRead(th, {}, wait)
        /\ \E i \in Found(th) : Dequeue(th, i)
    BY <1>4 DEF ReadComplete, ReadError, ReadReply, ReadTransaction, Reads, Running
  <2> QED
    BY <2>1, DequeueStep
<1> QED
  BY <1>1, <1>2, <1>3, <1>4 DEF Read

(* No step but BINDER_THREAD_EXIT leaves anybody asleep on work. *)
LEMMA SleepNext ==
  ASSUME Exits = {}, SleepInv, [Next]_vars
  PROVE  SleepInv'
<1>1. CASE UNCHANGED vars
  BY <1>1 DEF vars, SleepInv, Shape, NoUnseenWork
<1>2. ASSUME NEW p \in Proc, Close(p) PROVE SleepInv'
  BY <1>2, CloseStep
<1>3. ASSUME NEW th \in Thread, \E n \in Node : \/ \E oneway \in BOOLEAN : TransactFails(th, n, oneway)
                                                \/ Transact(th, n) \/ TransactOneway(th, n)
      PROVE  SleepInv'
  <2>1. ASSUME NEW n \in Node, NEW oneway \in BOOLEAN, TransactFails(th, n, oneway)
        PROVE  SleepInv'
    BY <2>1, ErrorStep DEF TransactFails, MayCall, Running
  <2> QED
    BY <1>3, <2>1, TransactStep, OnewayStep
<1>4. ASSUME NEW th \in Thread, Answer(th) PROVE SleepInv'
  <2>1. CASE ReplyDead(th)
    BY <2>1, ErrorStep DEF ReplyDead, Running
  <2>2. CASE ReplyFails(th)
    BY <2>2, ErrorStep DEF ReplyFails, Running
  <2>3. CASE EndRun(th)
    BY <2>3 DEF EndRun, SleepInv, Shape, NoUnseenWork
  <2> QED
    BY <1>4, <2>1, <2>2, <2>3, ReplyStep DEF Answer
<1>5. ASSUME NEW th \in Thread, Signal(th) PROVE SleepInv'
  <2>1. /\ threads' = threads /\ todo' = todo /\ proc_todo' = proc_todo
        /\ \E waits \in {wait, [wait EXCEPT ![th] = "none"]} :
              \/ AfterRead(th, {}, waits)
              \/ wait' = waits /\ sel_recorded' = sel_recorded
    BY <1>5 DEF Signal
  <2> QED
    BY <2>1, SignalStep
<1>6. ASSUME NEW th \in Thread, EnterLooper(th) \/ Freeze(th) PROVE SleepInv'
  BY <1>6 DEF EnterLooper, Freeze, SleepInv, Shape, NoUnseenWork
<1>7. ASSUME NEW th \in Thread PROVE ~ ThreadExit(th)
  BY DEF ThreadExit
<1> QED
  BY <1>1, <1>2, <1>3, <1>4, <1>5, <1>6, <1>7, ReadStep, FreeStep, SelectStep DEF Next

(* Without BINDER_THREAD_EXIT nobody ever sleeps, in a read or in poll, on *)
(* a queue that holds work for it: every path of the driver that inserts   *)
(* work wakes the channel before it lets go of the lock.                   *)
THEOREM NoSleepOnWork == Exits = {} => (Spec => []NoUnseenWork)
<1> SUFFICES ASSUME Exits = {} PROVE Spec => []NoUnseenWork
  OBVIOUS
<1>1. Init => SleepInv
  BY SleepInit
<1>2. SleepInv /\ [Next]_vars => SleepInv'
  BY SleepNext
<1>3. SleepInv => NoUnseenWork
  BY DEF SleepInv
<1> QED
  BY <1>1, <1>2, <1>3, PTL DEF Spec
=============================================================================
