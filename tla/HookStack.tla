----------------------------- MODULE HookStack -----------------------------
(***************************************************************************)
(* What hooking promises to a program that removes its hooks in the        *)
(* reverse order of installing them: a call of a location runs the         *)
(* replacement functions hooked there, the newest first, each reaching the *)
(* next through its proxy, and ends in the original body.                  *)
(***************************************************************************)
EXTENDS Naturals, Sequences

CONSTANTS Ctx, Loc

VARIABLE chain  \* chain[l]: who runs when l is called, the body last

Hooked(c) == \E l \in Loc : \E i \in DOMAIN chain[l] : chain[l][i] = c

Init == chain = [l \in Loc |-> <<"body">>]

\* The hook of c becomes the newest of l.
Install(c, l) ==
  /\ Head(chain'[l]) = c
  /\ ~Hooked(c)
  /\ chain' = [chain EXCEPT ![l] = <<c>> \o @]

\* Only the newest hook of a location can be taken off.
Remove(l) ==
  /\ Len(chain[l]) > 1
  /\ chain' = [chain EXCEPT ![l] = Tail(@)]

Next == \E l \in Loc : Remove(l) \/ \E c \in Ctx : Install(c, l)

Spec == Init /\ [][Next]_chain
=============================================================================
