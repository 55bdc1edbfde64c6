--------------------------- MODULE MCHookThreads ---------------------------
(* One thread stacks two hooks, another patches a function on the page.    *)
EXTENDS HookThreads

CONSTANTS c1, c2, c3, f1, f2, p1, p2, t1

Functions == (c1 :> f1) @@ (c2 :> f1) @@ (c3 :> f2)
Owners == (c1 :> p1) @@ (c2 :> p1) @@ (c3 :> p2)
=============================================================================
