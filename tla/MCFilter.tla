------------------------------ MODULE MCFilter ------------------------------
(* A function whose filter lies out of reach, near, or next to it. *)
EXTENDS Filter, MCCopyCode

HeadLengths == {2, 3, 15}

Insn(n) == [len |-> n, op |-> "plain"]
Ret == [len |-> 1, op |-> "ret"]

\* Nothing that can be decoded, a short epilogue with other code behind it,
\* and more instructions than the table has entries.
Rests == {<<>>, <<Insn(3), Ret, Insn(5)>>, [i \in 1 .. 17 |-> Insn(2)]}
=============================================================================
