---------------------------- MODULE MCBinderIpc ----------------------------
(***************************************************************************)
(* Small instances of BinderIpc: a client process p1 and a server process  *)
(* p2.  The client's node nc is a callback object, the server's nodes are  *)
(* ns and nt.                                                              *)
(***************************************************************************)
EXTENDS BinderIpc, TLC

CONSTANTS p1, p2, a, b, c, nc, ns, nt

(* a and c are threads of the client, b the one thread of the server. *)
TwoClients == a :> p1 @@ b :> p2 @@ c :> p1

(* a is the client, b and c are the pool of the server. *)
TwoServers == a :> p1 @@ b :> p2 @@ c :> p2

OneEach == a :> p1 @@ b :> p2

Owners == nc :> p1 @@ ns :> p2 @@ nt :> p2

(* The server calls back into the client while it serves. *)
CallsBack == [th \in Thread |-> IF ProcOf[th] = p1 THEN {ns} ELSE {nc}]

(* The client calls two objects of the server, which calls nobody. *)
CallsBoth == [th \in Thread |-> IF ProcOf[th] = p1 THEN {ns, nt} ELSE {}]

(* The client calls both objects of the server, which calls back. *)
CallsAll == [th \in Thread |-> IF ProcOf[th] = p1 THEN {ns, nt} ELSE {nc}]

AllSync == [n \in Node |-> {FALSE}]
AllKinds == [n \in Node |-> BOOLEAN]

(* Synchronous calls to ns and one-way calls to nt. *)
KindByNode == [n \in Node |-> {n = nt}]
=============================================================================
