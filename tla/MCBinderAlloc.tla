---------------------------- MODULE MCBinderAlloc ----------------------------
(* BinderAlloc on small arenas: 64 bytes stand for a page.                 *)
EXTENDS BinderAlloc
=============================================================================
