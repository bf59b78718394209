-------------------------- MODULE DevfsModuleProofs --------------------------
(***************************************************************************)
(* The table of contexts and the nodes that lead to it, for any number of  *)
(* clients of binder-control, any names and any size of the table.         *)
(*                                                                         *)
(* devfs_start writes its three contexts without asking whether they are   *)
(* free or their names taken.  Ready says why it need not: until           *)
(* binder-control is there nobody else has touched the table.              *)
(***************************************************************************)
EXTENDS DevfsModule, WellFoundedInduction, TLAPS

-----------------------------------------------------------------------------
(* A set of numbers has a first one: the context binder_ctl_add takes. *)
LEMMA FirstOf ==
    ASSUME NEW S, S \subseteq Nat, S # {}
    PROVE  \E first \in S : \A n \in S : first <= n
<1>1. PICK first \in S : \A n \in S : ~ (<<n, first>> \in OpToRel(<, Nat))
  BY NatLessThanWellFounded, WFMin
<1>2. ASSUME NEW n \in S PROVE first <= n
  <2>1. n \in Nat /\ first \in Nat
    OBVIOUS
  <2>2. ~ (<<n, first>> \in OpToRel(<, Nat))
    BY <1>1
  <2>3. ~ (n < first)
    BY <2>1, <2>2 DEF OpToRel
  <2> QED
    BY <2>1, <2>3
<1> QED
  BY <1>2

(* The context that binder_ctl_add takes is a free one. *)
LEMMA FirstFree ==
    ASSUME Free # {}
    PROVE  (CHOOSE j \in Free : \A k \in Free : j <= k) \in Free
<1>1. Free \subseteq Nat
  BY DEF Free, Index
<1>2. \E j \in Free : \A k \in Free : j <= k
  BY <1>1, FirstOf
<1> QED
  BY <1>2

(* Where devfs_start makes its nodes: what it takes up to the first of them *)
(* is the binder core.                                                      *)
LEMMA OrderIs ==
    /\ Len(Order) = 13
    /\ \A k \in 1..13 : (Order[k] = "binder-control") <=> (k = 8)
    /\ \A k \in 1..4 : Order[k] \in BinderCore
    /\ \A k \in 6..13 : Order[k] \notin BinderCore \cup {"binder", "binderfs_node"}
    /\ Order[5] = "binder"
<1>1. Len(Order) = 13 /\ Order[5] = "binder"
  BY DEF Order
<1>2. \A k \in 1..13 : (Order[k] = "binder-control") <=> (k = 8)
  BY DEF Order
<1>3. \A k \in 1..4 : Order[k] \in BinderCore
  BY DEF Order, BinderCore
<1>4. \A k \in 6..13 : Order[k] \notin BinderCore \cup {"binder", "binderfs_node"}
  BY DEF Order, BinderCore
<1> QED
  BY <1>1, <1>2, <1>3, <1>4

-----------------------------------------------------------------------------
Statics == {Static[i] : i \in DOMAIN Static}
Label == Names \cup Statics \cup {"binder-control", NULL}

TypeOK ==
    /\ step \in 1..13
    /\ contexts \in [Index -> [name : Label, handle : Label]]
    /\ task \in [Task -> Index \cup {NULL}]

(* Before binder-control is there, no client is at work and the contexts   *)
(* in use are those that devfs_start has passed.                           *)
Ready ==
    /\ phase = "starting" /\ step <= 8 => "binder-control" \notin held
    /\ phase = "loaded" => step = 13
    /\ "binder-control" \notin held =>
        /\ \A t \in Task : task[t] = NULL
        /\ \A i \in Index : InUse(i) =>
              i \in 1..3 /\ i + 4 < step /\ contexts[i].name = Static[i]

MInv == TypeOK /\ NamesUnique /\ (Running => Ready)

(* What Recorded leaves in a context. *)
LEMMA RecordedIs ==
    ASSUME TypeOK, NEW i \in Index
    PROVE  /\ Recorded(Order[step]) \in [Index -> [name : Label, handle : Label]]
           /\ i \in 1..3 /\ step = i + 4 => Recorded(Order[step])[i].name = Static[i]
           /\ ~ (i \in 1..3 /\ step = i + 4) => Recorded(Order[step])[i].name = contexts[i].name
<1>1. \A j \in 1..3 : (Order[step] = Static[j]) <=> (step = j + 4)
  BY DEF TypeOK, Order, Static
<1>2. DOMAIN Static = 1..3
  BY DEF Static
<1>3. \A j \in Index : contexts[j] \in [name : Label, handle : Label]
  BY DEF TypeOK
<1>4. \A j \in 1..3 : Static[j] \in Label
  BY <1>2 DEF Label, Statics
<1>5. "binder-control" \in Label
  BY DEF Label
<1>6. ASSUME NEW j \in Index
      PROVE  Recorded(Order[step])[j] \in [name : Label, handle : Label]
  <2>1. CASE j \in DOMAIN Static /\ Order[step] = Static[j]
    BY <2>1, <1>2, <1>4 DEF Recorded
  <2>2. CASE ~ (j \in DOMAIN Static /\ Order[step] = Static[j])
    BY <2>2, <1>3, <1>5 DEF Recorded
  <2> QED
    BY <2>1, <2>2
<1>7. Recorded(Order[step]) \in [Index -> [name : Label, handle : Label]]
  BY <1>6 DEF Recorded
<1> QED
  BY <1>1, <1>2, <1>3, <1>7 DEF Recorded

-----------------------------------------------------------------------------
LEMMA StartMInv == Init => MInv
<1> SUFFICES ASSUME Init PROVE MInv
  OBVIOUS
<1>1. NULL \in Label
  BY DEF Label
<1>2. \A i \in Index : contexts[i] = NoContext
  BY DEF Init
<1>3. \A i \in Index : ~ InUse(i)
  BY <1>2 DEF InUse, NoContext
<1>4. TypeOK
  BY <1>1 DEF Init, TypeOK, NoContext
<1>5. NamesUnique
  BY <1>3 DEF NamesUnique
<1>6. Ready
  BY <1>3 DEF Init, Ready
<1> QED
  BY <1>4, <1>5, <1>6 DEF MInv

LEMMA TakeKeeps == MInv /\ Take => MInv'
<1> SUFFICES ASSUME MInv, Take PROVE MInv'
  OBVIOUS
<1>1. TypeOK /\ NamesUnique /\ Running /\ Ready /\ phase = "starting"
  BY DEF MInv, Take, Running
<1>2. contexts' = Recorded(Order[step]) /\ task' = task /\ held' = held \cup {Order[step]}
  BY DEF Take
<1>3. step \in 1..13 /\ step' \in 1..13 /\ step <= step'
      /\ (phase' = "starting" => step' = step + 1)
      /\ (phase' = "loaded" => step = 13 /\ step' = 13) /\ phase' \in {"starting", "loaded"}
  <2>1. step \in 1..13 /\ Len(Order) = 13
    BY <1>1, OrderIs DEF TypeOK
  <2>2. IF step = 13 THEN phase' = "loaded" /\ step' = step
                     ELSE phase' = "starting" /\ step' = step + 1
    BY <2>1, <1>1 DEF Take
  <2> QED
    BY <2>1, <2>2
<1>4. TypeOK'
  <2>1. 1 \in Index
    BY ModuleAssumption DEF Index, Static
  <2> QED
    BY <1>1, <1>2, <1>3, <2>1, RecordedIs DEF TypeOK
<1>5. \A i \in Index : contexts'[i].name =
          IF i \in 1..3 /\ step = i + 4 THEN Static[i] ELSE contexts[i].name
  BY <1>1, <1>2, RecordedIs
<1>6. \A i \in 1..3 : step = i + 4 => "binder-control" \notin held
  BY <1>1, <1>3 DEF Ready
<1>7. \A i, j \in 1..3 : Static[i] = Static[j] => i = j
  BY DEF Static
<1>8. NamesUnique'
  <2> SUFFICES ASSUME NEW i \in Index, NEW j \in Index, InUse(i)', InUse(j)',
                      contexts'[i].name = contexts'[j].name
               PROVE  i = j
    BY DEF NamesUnique
  <2>1. CASE step \in 5..7
    <3>1. "binder-control" \notin held
      BY <1>1, <2>1 DEF Ready
    <3>2. \A k \in Index : contexts'[k].name # NULL =>
              k \in 1..3 /\ contexts'[k].name = Static[k]
      BY <1>1, <1>5, <3>1 DEF Ready, InUse
    <3> QED
      BY <3>2, <1>7 DEF InUse
  <2>2. CASE ~ (step \in 5..7)
    <3>1. \A k \in Index : contexts'[k].name = contexts[k].name
      BY <1>3, <1>5, <2>2
    <3> QED
      BY <3>1, <1>1 DEF NamesUnique, InUse
  <2> QED
    BY <2>1, <2>2
<1>9. Ready'
  <2>1. step # 8 => Order[step] # "binder-control"
    BY <1>3 DEF Order
  <2>2. phase' = "starting" /\ step' <= 8 => "binder-control" \notin held'
    BY <1>1, <1>2, <1>3, <2>1 DEF Ready
  <2>3. ASSUME "binder-control" \notin held'
        PROVE  /\ \A t \in Task : task'[t] = NULL
               /\ \A i \in Index : InUse(i)' =>
                     i \in 1..3 /\ i + 4 < step' /\ contexts'[i].name = Static[i]
    <3>1. "binder-control" \notin held
      BY <2>3, <1>2
    <3>2. \A t \in Task : task'[t] = NULL
      BY <1>1, <1>2, <3>1 DEF Ready
    <3>3. ASSUME NEW i \in Index, contexts'[i].name # NULL
          PROVE  i \in 1..3 /\ i + 4 < step' /\ contexts'[i].name = Static[i]
      <4>1. CASE i \in 1..3 /\ step = i + 4
        BY <4>1, <1>3, <1>5
      <4>2. CASE ~ (i \in 1..3 /\ step = i + 4)
        <5>1. contexts'[i].name = contexts[i].name
          BY <4>2, <1>5
        <5>2. i \in 1..3 /\ i + 4 < step /\ contexts[i].name = Static[i]
          BY <5>1, <3>1, <3>3, <1>1 DEF Ready, InUse
        <5> QED
          BY <5>1, <5>2, <1>3
      <4> QED
        BY <4>1, <4>2
    <3> QED
      BY <3>2, <3>3 DEF InUse
  <2> QED
    BY <2>2, <2>3, <1>3 DEF Ready
<1> QED
  BY <1>4, <1>8, <1>9 DEF MInv

(* What binder_ctl_add does to the table: one free context gets the name. *)
LEMMA AddContextIs ==
    ASSUME TypeOK, NEW t \in Task, NEW name \in Names, AddContext(t, name)
    PROVE  \E i \in Index :
              /\ contexts[i].name = NULL
              /\ contexts' \in [Index -> [name : Label, handle : Label]]
              /\ \A j \in Index : contexts'[j].name = IF j = i THEN name ELSE contexts[j].name
              /\ task' = [task EXCEPT ![t] = i]
<1> DEFINE i == CHOOSE j \in Free : \A k \in Free : j <= k
<1>1. i \in Free
  BY FirstFree DEF AddContext
<1>2. contexts' = [contexts EXCEPT ![i].name = name] /\ task' = [task EXCEPT ![t] = i]
  BY DEF AddContext
<1> HIDE DEF i
<1>3. i \in Index /\ contexts[i].name = NULL
  BY <1>1 DEF Free, InUse
<1>4. contexts \in [Index -> [name : Label, handle : Label]] /\ name \in Label
  BY DEF TypeOK, Label
<1>5. contexts' \in [Index -> [name : Label, handle : Label]]
  BY <1>2, <1>3, <1>4
<1>6. \A j \in Index : contexts'[j].name = IF j = i THEN name ELSE contexts[j].name
  BY <1>2, <1>3, <1>4
<1> QED
  BY <1>2, <1>3, <1>5, <1>6

LEMMA AddContextKeeps ==
    ASSUME MInv, NEW t \in Task, NEW name \in Names, AddContext(t, name)
    PROVE  MInv'
<1> USE ModuleAssumption
<1>1. TypeOK /\ NamesUnique /\ Ready /\ Running
  BY DEF MInv, AddContext
<1>2. PICK i \in Index :
        /\ contexts[i].name = NULL
        /\ contexts' \in [Index -> [name : Label, handle : Label]]
        /\ \A j \in Index : contexts'[j].name = IF j = i THEN name ELSE contexts[j].name
        /\ task' = [task EXCEPT ![t] = i]
  BY <1>1, AddContextIs
<1>3. "binder-control" \in held /\ ~ Taken(name) /\ UNCHANGED <<phase, step, held>>
  BY DEF AddContext
<1>4. TypeOK'
  BY <1>1, <1>2, <1>3 DEF TypeOK
<1>5. \A j \in Index : contexts[j].name # name
  BY <1>3 DEF Taken
<1>6. NamesUnique'
  BY <1>1, <1>2, <1>5 DEF NamesUnique, InUse
<1>7. Ready'
  BY <1>1, <1>3 DEF Ready
<1> QED
  BY <1>4, <1>6, <1>7 DEF MInv

(* What becomes of a client's context when its node is made, or is not. *)
LEMMA PublishIs ==
    ASSUME TypeOK, NEW t \in Task, Publish(t)
    PROVE  /\ contexts' \in [Index -> [name : Label, handle : Label]]
           /\ \A j \in Index : contexts'[j].name = contexts[j].name
<1> DEFINE i == task[t]
<1>1. i \in Index /\ contexts' = [contexts EXCEPT ![i].handle = contexts[i].name]
  BY DEF Publish
<1> HIDE DEF i
<1>2. contexts \in [Index -> [name : Label, handle : Label]]
  BY DEF TypeOK
<1>3. contexts[i] \in [name : Label, handle : Label]
  BY <1>1, <1>2
<1> QED
  BY <1>1, <1>2, <1>3

LEMMA PublishRefusedIs ==
    ASSUME TypeOK, NEW t \in Task, PublishRefused(t)
    PROVE  /\ contexts' \in [Index -> [name : Label, handle : Label]]
           /\ \A j \in Index : contexts'[j].name = IF j = task[t] THEN NULL ELSE contexts[j].name
<1> DEFINE i == task[t]
<1>1. i \in Index /\ contexts' = [contexts EXCEPT ![i].name = NULL]
  BY DEF PublishRefused
<1> HIDE DEF i
<1>2. contexts \in [Index -> [name : Label, handle : Label]] /\ NULL \in Label
  BY DEF TypeOK, Label
<1>3. \A j \in Index : contexts'[j].name = IF j = i THEN NULL ELSE contexts[j].name
  BY <1>1, <1>2
<1>4. contexts' \in [Index -> [name : Label, handle : Label]]
  BY <1>1, <1>2
<1> QED
  BY <1>3, <1>4 DEF i

LEMMA PublishKeeps ==
    ASSUME MInv, NEW t \in Task, Publish(t) \/ PublishRefused(t)
    PROVE  MInv'
<1> USE ModuleAssumption
<1>1. TypeOK /\ NamesUnique /\ (Running => Ready)
  BY DEF MInv
<1>2. task[t] \in Index /\ task[t] # NULL /\ task' = [task EXCEPT ![t] = NULL]
      /\ UNCHANGED <<phase, step>> /\ held \subseteq held'
  BY DEF Publish, PublishRefused, Index
<1>3. /\ contexts' \in [Index -> [name : Label, handle : Label]]
      /\ \A j \in Index : contexts'[j].name # NULL => contexts'[j].name = contexts[j].name
  BY <1>1, PublishIs, PublishRefusedIs
<1>4. TypeOK'
  BY <1>1, <1>2, <1>3 DEF TypeOK
<1>5. NamesUnique'
  BY <1>1, <1>3 DEF NamesUnique, InUse
<1>6. Running' => Ready'
  <2>1. SUFFICES ASSUME Running PROVE Ready'
    BY <1>2 DEF Running
  <2>2. "binder-control" \in held
    BY <1>1, <1>2, <2>1 DEF Ready
  <2> QED
    BY <1>1, <1>2, <2>1, <2>2 DEF Ready
<1> QED
  BY <1>4, <1>5, <1>6 DEF MInv

LEMMA MInvInductive == MInv /\ [Next]_vars => MInv'
<1> SUFFICES ASSUME MInv, [Next]_vars PROVE MInv'
  OBVIOUS
<1>1. CASE Take
  BY <1>1, TakeKeeps
<1>2. CASE GoWithout
  <2>1. TypeOK /\ NamesUnique /\ Ready /\ phase = "starting"
    BY <1>2 DEF MInv, GoWithout, Running
  <2>2. step = 8 /\ step' = 9 /\ UNCHANGED <<phase, held, contexts, task>>
    BY <1>2, <2>1, OrderIs DEF GoWithout, TypeOK
  <2>3. TypeOK' /\ NamesUnique'
    BY <2>1, <2>2 DEF TypeOK, NamesUnique, InUse
  <2>4. Ready'
    BY <2>1, <2>2 DEF Ready, InUse, Index
  <2> QED
    BY <2>3, <2>4 DEF MInv
<1>3. CASE Refused
  BY <1>3 DEF Refused, MInv, TypeOK, NamesUnique, InUse, Running
<1>4. CASE Stop
  <2>1. NULL \in Label
    BY DEF Label
  <2>2. contexts' = [i \in Index |-> NoContext] /\ phase' = "unloaded" /\ UNCHANGED <<step, task>>
    BY <1>4 DEF Stop
  <2>3. TypeOK'
    BY <2>1, <2>2 DEF MInv, TypeOK, NoContext
  <2>4. NamesUnique'
    BY <2>2 DEF NamesUnique, InUse, NoContext
  <2> QED
    BY <2>2, <2>3, <2>4 DEF MInv, Running
<1>5. ASSUME NEW t \in Task, Publish(t) \/ PublishRefused(t) PROVE MInv'
  BY <1>5, PublishKeeps
<1>6. ASSUME NEW t \in Task, NEW name \in Names, AddContext(t, name) PROVE MInv'
  BY <1>6, AddContextKeeps
<1>7. CASE UNCHANGED vars
  BY <1>7 DEF vars, MInv, TypeOK, NamesUnique, InUse, Ready, Running
<1> QED
  BY <1>1, <1>2, <1>3, <1>4, <1>5, <1>6, <1>7 DEF Next

LEMMA MInvAlways == Spec => []MInv
  BY StartMInv, MInvInductive, PTL DEF Spec

(* Two contexts in use never have one name, however the steps of           *)
(* devfs_start and of the clients of binder-control interleave: the name   *)
(* is taken under the lock, before the node is made outside it.            *)
THEOREM OneContextPerName == Spec => []NamesUnique
<1>1. MInv => NamesUnique
  BY DEF MInv
<1> QED
  BY <1>1, MInvAlways, PTL

-----------------------------------------------------------------------------
(* Nodes.  No client asks for a name that means something else to the      *)
(* kernel: the nodes of the other devices, or the model's names for the    *)
(* lock and the majors.                                                    *)
Others == {Order[j] : j \in (1..13) \ (5..7)}

(* A node of the extension has its context; a client that is still to make *)
(* its node has a context of its own, whose name is not yet a node.        *)
Served ==
    /\ step > 2 => "lock" \in held
    /\ step > 4 => "binder_major" \in held
    /\ \A n \in Nodes \cap held : Taken(n) /\ step > 4
    /\ \A t \in Task : task[t] \in Index => contexts[task[t]].name \in Names \ held
    /\ \A t, u \in Task : task[t] \in Index /\ task[t] = task[u] => t = u

LEMMA StartServed == Init => Served
  BY ModuleAssumption DEF Init, Served, Index

LEMMA TakeServed ==
    ASSUME Names \cap Others = {}, MInv, Served, Take
    PROVE  Served'
<1>1. TypeOK /\ NamesUnique /\ Ready /\ phase = "starting" /\ step \in 1..13
  BY DEF MInv, Take, Running, TypeOK
<1>2. contexts' = Recorded(Order[step]) /\ task' = task /\ held' = held \cup {Order[step]}
      /\ step' \in {step, step + 1} /\ (step' = step => step = 13)
  BY <1>1, OrderIs DEF Take
<1>3. \A i \in Index : contexts'[i].name =
          IF i \in 1..3 /\ step = i + 4 THEN Static[i] ELSE contexts[i].name
  BY <1>1, <1>2, RecordedIs
<1>4. (step = 2 => Order[step] = "lock") /\ (step = 4 => Order[step] = "binder_major")
  BY DEF Order
<1>5. (step' > 2 => "lock" \in held') /\ (step' > 4 => "binder_major" \in held')
  BY <1>1, <1>2, <1>4 DEF Served
<1>6. CASE step \in 5..7
  <2>1. PICK k \in 1..3 : step = k + 4
    <3>1. step - 4 \in 1..3 /\ step = (step - 4) + 4
      BY <1>6
    <3> QED
      BY <3>1
  <2>2. k \in Index /\ Order[step] = Static[k] /\ contexts'[k].name = Static[k]
    BY <2>1, <1>3, ModuleAssumption DEF Index, Order, Static
  <2>3. "binder-control" \notin held
    BY <1>1, <1>6 DEF Ready
  <2>4. contexts[k].name = NULL
    BY <1>1, <2>1, <2>2, <2>3 DEF Ready, InUse
  <2>5. \A n \in Nodes : n # NULL
    BY ModuleAssumption DEF Nodes
  <2>6. ASSUME NEW n \in Nodes \cap held' PROVE Taken(n)' /\ step' > 4
    <3>1. step' > 4
      BY <1>2, <1>6
    <3>2. CASE n = Static[k]
      BY <3>1, <3>2, <2>2 DEF Taken
    <3>3. CASE n # Static[k]
      <4>1. PICK j \in Index : contexts[j].name = n
        BY <2>2, <2>6, <3>3, <1>2 DEF Served, Taken
      <4>2. j # k
        BY <4>1, <2>4, <2>5, <2>6
      <4>3. contexts'[j].name = n
        BY <4>1, <4>2, <2>1, <1>3
      <4> QED
        BY <3>1, <4>3 DEF Taken
    <3> QED
      BY <3>2, <3>3
  <2>7. \A t \in Task : task'[t] \notin Index
    BY <1>1, <1>2, <2>3, ModuleAssumption DEF Ready, Index
  <2> QED
    BY <1>5, <2>6, <2>7 DEF Served
<1>7. CASE ~ (step \in 5..7)
  <2>1. \A i \in Index : contexts'[i].name = contexts[i].name
    BY <1>1, <1>3, <1>7
  <2>2. Order[step] \in Others
    BY <1>1, <1>7 DEF Others
  <2>3. \A j \in 1..3 : Order[step] # Static[j]
    BY <1>1, <1>7 DEF Order, Static
  <2>4. Order[step] \notin Nodes /\ Order[step] \notin Names
    BY <2>2, <2>3 DEF Nodes, Static
  <2>5. \A n \in Nodes \cap held' : Taken(n)' /\ step' > 4
    BY <1>1, <1>2, <2>1, <2>4 DEF Served, Taken
  <2>6. \A t \in Task : task'[t] \in Index => contexts'[task'[t]].name \in Names \ held'
    BY <1>2, <2>1, <2>4 DEF Served
  <2> QED
    BY <1>2, <1>5, <2>5, <2>6 DEF Served
<1> QED
  BY <1>6, <1>7

LEMMA AddContextServed ==
    ASSUME MInv, Served, NEW t \in Task, NEW name \in Names, AddContext(t, name)
    PROVE  Served'
<1> USE ModuleAssumption
<1>1. TypeOK /\ NamesUnique /\ Ready /\ Running
  BY DEF MInv, AddContext
<1>2. PICK i \in Index :
        /\ contexts[i].name = NULL
        /\ contexts' \in [Index -> [name : Label, handle : Label]]
        /\ \A j \in Index : contexts'[j].name = IF j = i THEN name ELSE contexts[j].name
        /\ task' = [task EXCEPT ![t] = i]
  BY <1>1, AddContextIs
<1>3. "binder-control" \in held /\ ~ Taken(name) /\ UNCHANGED <<phase, step, held>>
  BY DEF AddContext
<1>4. name \notin held
  BY <1>3 DEF Served, Nodes
<1>5. \A n \in Nodes : n # NULL
  BY DEF Nodes
<1>6. \A n \in Nodes \cap held' : Taken(n)' /\ step' > 4
  BY <1>2, <1>3, <1>5 DEF Served, Taken
<1>7. task \in [Task -> Index \cup {NULL}]
  BY <1>1 DEF TypeOK
<1>8. \A u \in Task : task[u] \in Index => task[u] # i
  BY <1>2 DEF Served
<1>9. \A u \in Task : task'[u] = IF u = t THEN i ELSE task[u]
  BY <1>2, <1>7
<1>10. \A u \in Task : task'[u] \in Index => contexts'[task'[u]].name \in Names \ held'
  BY <1>2, <1>3, <1>4, <1>8, <1>9 DEF Served
<1>11. \A u, v \in Task : task'[u] \in Index /\ task'[u] = task'[v] => u = v
  BY <1>8, <1>9 DEF Served
<1> QED
  BY <1>3, <1>6, <1>10, <1>11 DEF Served

LEMMA PublishServed ==
    ASSUME MInv, Running, Served, NEW t \in Task, Publish(t) \/ PublishRefused(t)
    PROVE  Served'
<1> USE ModuleAssumption
<1>1. TypeOK /\ NamesUnique /\ Ready
  BY DEF MInv
<1> DEFINE i == task[t]
           n0 == contexts[i].name
<1>2. i \in Index /\ task' = [task EXCEPT ![t] = NULL] /\ UNCHANGED <<phase, step>>
  BY DEF Publish, PublishRefused
<1>3. n0 \in Names \ held
  BY <1>2 DEF Served
<1>4. step > 4
  <2>1. i # NULL
    BY <1>2 DEF Index
  <2>2. "binder-control" \in held
    BY <1>1, <2>1 DEF Ready
  <2>3. step \in 1..13
    BY <1>1 DEF TypeOK
  <2> QED
    BY <1>1, <2>2, <2>3 DEF Ready, Running
<1>5. held \subseteq held' /\ held' \subseteq held \cup {n0}
  BY DEF Publish, PublishRefused
<1>6. \A j \in Index : contexts'[j].name = contexts[j].name \/ (j = i /\ held' = held)
  <2>1. CASE Publish(t)
    BY <2>1, <1>1, PublishIs
  <2>2. CASE PublishRefused(t)
    <3>1. held' = held
      BY <2>2 DEF PublishRefused
    <3>2. \A j \in Index : contexts'[j].name = IF j = i THEN NULL ELSE contexts[j].name
      BY <2>2, <1>1, PublishRefusedIs
    <3> QED
      BY <3>1, <3>2
  <2> QED
    BY <2>1, <2>2
<1> HIDE DEF i, n0
<1>7. ASSUME NEW n \in Nodes \cap held' PROVE Taken(n)'
  <2>1. CASE n \in held
    <3>1. PICK j \in Index : contexts[j].name = n
      BY <2>1, <1>7 DEF Served, Taken
    <3>2. j # i
      BY <3>1, <2>1, <1>3 DEF n0
    <3>3. contexts'[j].name = n
      BY <3>1, <3>2, <1>6
    <3> QED
      BY <3>3 DEF Taken
  <2>2. CASE n \notin held
    <3>1. n = n0 /\ held' # held
      BY <2>2, <1>5, <1>7
    <3>2. contexts'[i].name = n
      BY <3>1, <1>2, <1>6 DEF n0
    <3> QED
      BY <3>2, <1>2 DEF Taken
  <2> QED
    BY <2>1, <2>2
<1>8. task \in [Task -> Index \cup {NULL}]
  BY <1>1 DEF TypeOK
<1>9. \A u \in Task : task'[u] \in Index => u # t /\ task'[u] = task[u]
  <2>1. NULL \notin Index
    BY DEF Index
  <2> QED
    BY <1>2, <1>8, <2>1
<1>10. ASSUME NEW u \in Task, task'[u] \in Index
       PROVE  contexts'[task'[u]].name \in Names \ held'
  <2>1. u # t /\ task'[u] = task[u] /\ task[u] \in Index
    BY <1>9, <1>10
  <2>2. task[u] # i
    BY <2>1 DEF Served, i
  <2>3. contexts[task[u]].name \in Names \ held
    BY <2>1 DEF Served
  <2>4. contexts[task[u]].name # n0
    <3>1. contexts[task[u]].name # NULL /\ n0 # NULL
      BY <2>3, <1>3
    <3> QED
      BY <3>1, <2>1, <2>2, <1>1, <1>2 DEF NamesUnique, InUse, n0
  <2>5. contexts'[task[u]].name = contexts[task[u]].name
    BY <2>1, <2>2, <1>6
  <2> QED
    BY <2>1, <2>3, <2>4, <2>5, <1>5
<1>11. \A u, v \in Task : task'[u] \in Index /\ task'[u] = task'[v] => u = v
  BY <1>9 DEF Served
<1> QED
  BY <1>2, <1>4, <1>5, <1>7, <1>10, <1>11 DEF Served

LEMMA ServedInductive ==
    ASSUME Names \cap Others = {}
    PROVE  MInv /\ (Running => Served) /\ [Next]_vars => (Running => Served)'
<1> SUFFICES ASSUME MInv, Running => Served, [Next]_vars, Running'
             PROVE  Served'
  OBVIOUS
<1>1. CASE Take
  BY <1>1, TakeServed DEF Take, Running
<1>2. CASE GoWithout
  <2>1. Served /\ TypeOK /\ phase = "starting"
    BY <1>2 DEF GoWithout, Running, MInv
  <2>2. step = 8 /\ step' = 9 /\ UNCHANGED <<phase, held, contexts, task>>
    BY <1>2, <2>1, OrderIs DEF GoWithout, TypeOK
  <2> QED
    BY <2>1, <2>2 DEF Served, Taken
<1>3. CASE Refused \/ Stop
  BY <1>3 DEF Refused, Stop, Running
<1>4. ASSUME NEW t \in Task, Publish(t) \/ PublishRefused(t) PROVE Served'
  <2>1. Running
    BY <1>4 DEF Publish, PublishRefused, Running
  <2> QED
    BY <1>4, <2>1, PublishServed
<1>5. ASSUME NEW t \in Task, NEW name \in Names, AddContext(t, name) PROVE Served'
  <2>1. Running
    BY <1>5 DEF AddContext
  <2> QED
    BY <1>5, <2>1, AddContextServed
<1>6. CASE UNCHANGED vars
  BY <1>6 DEF vars, Served, Taken, Running
<1> QED
  BY <1>1, <1>2, <1>3, <1>4, <1>5, <1>6 DEF Next

(* While the extension runs, from the first node devfs_start makes to the  *)
(* last binder_ctl_add, a node a client can look up has a context in use   *)
(* and the lock and the major that serve it are there, as long as no       *)
(* client asks for the name of another device.                             *)
THEOREM NodesAlwaysServed ==
    ASSUME Names \cap Others = {}
    PROVE  Spec => []NodesServed
<1>1. Init => (Running => Served)
  BY StartServed
<1>2. MInv /\ (Running => Served) /\ [Next]_vars => (Running => Served)'
  BY ServedInductive
<1>3. MInv /\ (Running => Served) => NodesServed
  <2> SUFFICES ASSUME step \in 1..13, Running, Served, NEW n \in Nodes \cap held
               PROVE  Taken(n) /\ {"lock", "binder_major"} \subseteq held
    BY DEF NodesServed, MInv, TypeOK
  <2>1. Taken(n) /\ step > 4
    BY DEF Served
  <2>2. "binder_major" \in held
    BY <2>1 DEF Served
  <2> QED
    BY <2>1, <2>2 DEF Served
<1> QED
  BY <1>1, <1>2, <1>3, MInvAlways, PTL DEF Spec

-----------------------------------------------------------------------------
(* A failed start.  Up to the first node there is nothing that a rollback  *)
(* path forgets.                                                           *)
UpToFirstNode == BinderCore \cup {"binder", "binder-control", "binderfs_node"}

Returned ==
    /\ phase = "starting" /\ step <= 5 => held \subseteq BinderCore
    /\ phase = "failed" => held = {} /\ \A t \in Task : task[t] = NULL

LEMMA ReturnedInductive ==
    ASSUME MayFail \subseteq UpToFirstNode
    PROVE  MInv /\ Returned /\ [Next]_vars => Returned'
<1> SUFFICES ASSUME MInv, Returned, [Next]_vars PROVE Returned'
  OBVIOUS
<1>1. step \in 1..13
  BY DEF MInv, TypeOK
<1>2. CASE Take
  <2>1. phase = "starting" /\ phase' # "failed" /\ held' = held \cup {Order[step]}
        /\ (phase' = "starting" => step' = step + 1)
    BY <1>2 DEF Take
  <2>2. step <= 4 => Order[step] \in BinderCore
    BY <1>1, OrderIs
  <2> QED
    BY <2>1, <2>2, <1>1, <1>2 DEF Returned, Take
<1>3. CASE GoWithout
  <2>1. step = 8
    BY <1>1, <1>3, OrderIs DEF GoWithout
  <2> QED
    BY <1>3, <2>1 DEF GoWithout, Returned
<1>4. CASE Refused
  <2>1. phase = "starting" /\ phase' = "failed" /\ task' = task
        /\ held' = held \ Rollback(Order[step])
        /\ Order[step] \in UpToFirstNode \ {"binder-control"}
    BY <1>4 DEF Refused
  <2>2. step <= 5
    <3>1. ~ (step \in 6..13)
      BY <2>1, OrderIs DEF UpToFirstNode
    <3> QED
      BY <1>1, <3>1
  <2>3. Order[step] \in BinderCore \cup {Static[i] : i \in DOMAIN Static}
    <3>1. Order[step] \in BinderCore \/ Order[step] = "binder"
      BY <1>1, <2>2, OrderIs
    <3>2. 1 \in DOMAIN Static /\ Static[1] = "binder"
      BY DEF Static
    <3> QED
      BY <3>1, <3>2
  <2>4. Rollback(Order[step]) = BinderCore
    <3>1. Order[step] \notin {"properties_major", "__properties__", "kmsg_major", "kmsg"}
      BY <2>3 DEF BinderCore, Static
    <3> QED
      BY <2>3, <3>1 DEF Rollback
  <2>5. held' = {}
    BY <2>1, <2>2, <2>4 DEF Returned
  <2>6. "binder-control" \notin held
    BY <2>1, <2>2, <1>1 DEF MInv, Ready, Running
  <2>7. \A t \in Task : task[t] = NULL
    BY <2>1, <2>6 DEF MInv, Ready, Running
  <2> QED
    BY <2>1, <2>5, <2>7 DEF Returned
<1>5. CASE Stop
  BY <1>5 DEF Stop, Returned
<1>6. ASSUME NEW t \in Task, Publish(t) \/ PublishRefused(t) PROVE Returned'
  <2>1. task[t] # NULL /\ UNCHANGED <<phase, step>>
    BY <1>6, ModuleAssumption DEF Publish, PublishRefused, Index
  <2>2. phase # "failed"
    BY <2>1 DEF Returned
  <2>3. phase = "starting" => ~ (step <= 5)
    <3>1. phase = "starting" => "binder-control" \in held
      BY <2>1 DEF MInv, Ready, Running
    <3> QED
      BY <3>1, <1>1 DEF MInv, Ready, Running
  <2> QED
    BY <2>1, <2>2, <2>3 DEF Returned
<1>7. ASSUME NEW t \in Task, NEW name \in Names, AddContext(t, name) PROVE Returned'
  BY <1>7 DEF AddContext, Returned, Running
<1>8. CASE UNCHANGED vars
  BY <1>8 DEF vars, Returned
<1> QED
  BY <1>2, <1>3, <1>4, <1>5, <1>6, <1>7, <1>8 DEF Next

(* A start that fails before its first node is made gives back everything  *)
(* it took, and no client is left at work; a later failure does not, as    *)
(* README.md shows.                                                        *)
THEOREM EarlyFailureClean ==
    ASSUME MayFail \subseteq UpToFirstNode
    PROVE  Spec => []FailedClean
<1>1. Init => Returned
  BY DEF Init, Returned
<1>2. MInv /\ Returned /\ [Next]_vars => Returned'
  BY ReturnedInductive
<1>3. Returned => FailedClean
  BY DEF Returned, FailedClean
<1> QED
  BY <1>1, <1>2, <1>3, MInvAlways, PTL DEF Spec

=============================================================================
