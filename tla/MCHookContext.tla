--------------------------- MODULE MCHookContext ---------------------------
(* Small instances, one per build.                                        *)
EXTENDS HookContext

CONSTANTS c1, c2, c3, f1, f2, f3, s1

\* x86.  f1 has room for every jump, an instruction of 6 bytes included; f2
\* ends in a tail jump after 5 bytes.
X86Reach == [c \in Ctx |-> [f \in Func |->
               IF c = c1 THEN "short" ELSE "near"]]
X86Ends == [f \in Func |-> IF f = f1 THEN {2, 5, 6, 8} ELSE {3, 5}]

\* x64.  The third replacement function is in another module, out of reach of
\* a near jump; f2 is out of reach of the bridge slots and begins with an
\* instruction that cannot be moved; f3 is far from all and has no room for a
\* far jump.
X64Reach == [c \in Ctx |-> [f \in Func |->
               IF c = c3 \/ f = f3 THEN "far" ELSE IF c = c2 THEN "near" ELSE "short"]]
X64Ends == [f \in Func |-> CASE f = f1 -> {3, 7, 14} [] f = f2 -> {} [] OTHER -> {7}]
=============================================================================
