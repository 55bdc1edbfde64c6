---------------------------- MODULE MCHookOrder ----------------------------
(* HookOrder on the instances of MCHookContext.                            *)
EXTENDS MCHookContext, HookOrder
=============================================================================
