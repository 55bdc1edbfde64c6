---------------------------- MODULE MCMemoryPtr ----------------------------
(* Sixteen addresses, ints of three bits, elements of two bytes and        *)
(* pointers of four on two mapped pages of three bytes: bytes 6 to 11.     *)
(* The second thread's element is the bytes 8 and 9, across the pages; the *)
(* first thread's may lie beside it on either page, or overlap it.         *)
EXTENDS MemoryPtr

BothVisit == [t \in Thread |-> 8]

\* One element back is two bytes, as two of them are four; three forward are
\* six, which no int of three bits holds: that distance wraps.
FewSteps == {-1, 3}
=============================================================================
