---------------------------- MODULE JumpEncoding ----------------------------
(***************************************************************************)
(* The jump encoders of hooklib.c (89-237).  Code they write is a sequence *)
(* of pieces; a piece says what the processor will do with the bytes: its  *)
(* address, its length and the address it transfers control to, computed   *)
(* from the displacement that was stored, in the width it was stored in.   *)
(***************************************************************************)
EXTENDS Integers, Sequences

CONSTANT NearMax   \* the reach of a 32-bit displacement, 0x7FFFFFFF in the code

VARIABLE isX64     \* the build: x64 or x86

\* The value of the low byte of x as a signed offset.
Int8(x) == ((x + 128) % 256) - 128

abs64(a) == IF a >= 0 THEN a ELSE -a

Far(from, to) == isX64 /\ abs64(to - from - 5) > NearMax

Piece(op, at, len, to) == [op |-> op, at |-> at, len |-> len, to |-> to]

\* eb xx, or 7x xx: from the end of the two bytes, by a signed byte.
MakeJmpShort(from, to, op) == <<Piece(op, from, 2, from + 2 + Int8(to - from - 2))>>

\* "jmp" or "call" (iscall) with the whole address behind it, a jmp with a
\* signed byte, or either with a 32-bit displacement.
MakeJmpNear(from, to, op) ==
  CASE Far(from, to) -> <<Piece(op, from, IF op = "call" THEN 16 ELSE 14, to)>>
    [] ~Far(from, to) /\ op = "jmp" /\ abs64(to - from - 5) < 128 ->
         MakeJmpShort(from, to, op)
    [] OTHER -> <<Piece(op, from, 5, from + 5 + (to - from - 5))>>

\* The two targets are exchanged.
MakeJmpcNearSwapped(from, condTo, elseTo, kind, code1) ==
  LET skip == MakeJmpNear(from + 2, condTo, "jmp")
      after == from + 2 + skip[1].len
  IN MakeJmpShort(from, after, "jcc") \o skip \o MakeJmpNear(after, elseTo, "jmp")

\* A conditional jump to condTo, and a jump to elseTo behind it.  `kind' tells
\* 0f 8x ("jcc32") from 7x ("jcc8"), code1 is the second byte of the
\* source: the condition of a near jump, the offset of a short one.
\* Out of reach: a short conditional jump over the jump to elseTo.
\* In reach: the first two bytes are code0 and code1 (0x10 added to it when
\* the source is 7x), then a displacement counted from from + 5.  The
\* processor counts it from the end of the six bytes if they are 0f 8x; if they
\* are 7x it takes the second byte for the offset and meets the rest as code.
MakeJmpcNear(from, condTo, elseTo, kind, code1) ==
  LET skip == MakeJmpNear(from + 2, elseTo, "jmp")
      after == from + 2 + skip[1].len
      cond == IF kind = "jcc32"
                THEN <<Piece("jcc", from, 6, from + 6 + (condTo - from - 5))>>
                ELSE <<Piece("jcc", from, 2, from + 2 + Int8(code1 + 16)),
                       Piece("junk", from + 2, 4, from + 6)>>
  IN IF Far(from, condTo)
       THEN MakeJmpShort(from, after, "jcc") \o skip \o MakeJmpNear(after, condTo, "jmp")
       ELSE cond \o MakeJmpNear(from + 6, elseTo, "jmp")

\* Counted from the operand, not from the end of the instruction.
get_dest_from_operand(pos, disp) == pos + 1 + disp
\* get_dest_address_0xe9: jmp and call with a 32-bit displacement
get_dest_address_0xe9(pos, disp) == pos + 5 + disp

\* The displacement of a two-byte jump counted as if it had five bytes.
get_dest_as_near(pos, disp) == pos + 5 + disp
\* get_dest_address_0xeb: jmp with an 8-bit displacement
get_dest_address_0xeb(pos, disp) == pos + 2 + disp
=============================================================================
