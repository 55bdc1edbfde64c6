------------------------------ MODULE CopyCode ------------------------------
(***************************************************************************)
(* hook_copy_code (hooklib.c 244-318): it decodes the head of a function   *)
(* one instruction at a time and writes to a buffer code that does the     *)
(* same at another address, until mincopysize bytes are moved or it meets  *)
(* an instruction behind which it does not go on; then it appends a jump   *)
(* to the rest of the function.                                            *)
(*                                                                         *)
(* The disassembler is external: each decoding step may find any of the    *)
(* kinds of instruction the code tells apart.                              *)
(***************************************************************************)
EXTENDS JumpEncoding, FiniteSets

CONSTANTS
  Builds,      \* values of isX64
  from,        \* address of the function
  fromsize,    \* bytes that may be decoded
  Buffers,     \* addresses of the buffer
  BufferSizes, \* values of tosize
  MinSizes,    \* values of mincopysize
  Targets,     \* where the transfers of the function lead
  PlainSizes   \* lengths of instructions that are copied byte by byte

ASSUME SizeAssumption ==
  /\ from \in Int /\ Buffers \subseteq Int /\ Targets \subseteq Int
  /\ NearMax \in Nat /\ Builds \subseteq BOOLEAN
  /\ fromsize \in Nat \ {0} /\ BufferSizes \subseteq Nat \ {0}
  /\ MinSizes \subseteq 1 .. 14
  /\ PlainSizes \subseteq 1 .. 15

VARIABLES
  to,           \* address of the buffer
  tosize,       \* size of the buffer
  mincopysize,  \* bytes that have to be moved
  pfrom,        \* offset of the instruction to be decoded
  pto,          \* offset in the buffer of the next byte to be written
  out,          \* the pieces written
  head,         \* the instructions of the function counted so far
  pc,           \* "decode", "tail" or "done"
  ret           \* the result

args == <<isX64, to, tosize, mincopysize>>
vars == <<args, pfrom, pto, out, head, pc, ret>>

Init ==
  /\ isX64 \in Builds
  /\ to \in Buffers
  /\ tosize \in BufferSizes
  /\ mincopysize \in MinSizes
  /\ pfrom = 0 /\ pto = 0
  /\ out = <<>> /\ head = <<>>
  /\ pc = "decode"
  /\ ret = 0

Here == from + pfrom
There == to + pto

\* The address behind the last piece.
End(pieces) == LET p == pieces[Len(pieces)] IN p.at + p.len

\* The pointers are subtracted the wrong way round.
EmitReversed(pieces) ==
  /\ out' = out \o pieces
  /\ pto' = to - End(pieces)

Emit(pieces) ==
  /\ out' = out \o pieces
  /\ pto' = End(pieces) - to

Count(op, len, target) == head' = Append(head, Piece(op, Here, len, target))

\* The test is made before the instruction is counted in.
EnoughMovedBefore(len) == pfrom >= mincopysize
\* Copying goes on for as long as there is room.
EnoughMovedNever(len) == FALSE
EnoughMoved(len) == pfrom + len >= mincopysize

\* An instruction behind which decoding does not go on.
Stop(len) ==
  /\ pfrom' = pfrom + len
  /\ pc' = "tail"

\* An instruction behind which decoding may go on.  When the loop ends because
\* a buffer is exhausted, the last length is added a second time.
GoOn(len) ==
  LET more == pfrom + len < fromsize /\ pto' < tosize
  IN \/ EnoughMoved(len) /\ Stop(len)
     \/ ~EnoughMoved(len) /\ more /\ pfrom' = pfrom + len /\ pc' = "decode"
     \/ ~EnoughMoved(len) /\ ~more /\ Stop(len + len)

Decoding == pc = "decode" /\ UNCHANGED <<args, ret>>
InShortReach(t) == t - Here - 2 \in -128 .. 127

DecodeFails ==
  /\ pc = "decode"
  /\ pc' = "done"
  /\ ret' = 0
  /\ UNCHANGED <<args, pfrom, pto, out, head>>

CopyCall(t) ==
  /\ Decoding
  /\ Emit(MakeJmpNear(There, get_dest_address_0xe9(Here, t - Here - 5), "call"))
  /\ Count("call", 5, t)
  /\ GoOn(5)

CopyJmpNear(t) ==
  /\ Decoding
  /\ Emit(MakeJmpNear(There, get_dest_address_0xe9(Here, t - Here - 5), "jmp"))
  /\ Count("jmp", 5, t)
  /\ Stop(5)

CopyJmpShort(t) ==
  /\ Decoding
  /\ InShortReach(t)
  /\ Emit(MakeJmpNear(There, get_dest_address_0xeb(Here, t - Here - 2), "jmp"))
  /\ Count("jmp", 2, t)
  /\ Stop(2)

CopyJmpc(t, kind) ==
  LET len == IF kind = "jcc32" THEN 6 ELSE 2
  IN /\ Decoding
     /\ kind = "jcc32" \/ InShortReach(t)
     /\ Emit(MakeJmpcNear(There, t, Here + len, kind, t - Here - 2))
     /\ Count(kind, len, t)
     /\ Stop(len)

\* loop, loope, loopne and jecxz: nothing is written, two bytes are counted.
MeetLoop(t) ==
  /\ Decoding
  /\ InShortReach(t)
  /\ Count("loop", 2, t)
  /\ Stop(2)
  /\ UNCHANGED <<pto, out>>

\* Any other instruction that addresses memory relative to itself.
MeetRelative ==
  /\ Decoding
  /\ Stop(0)
  /\ UNCHANGED <<pto, out, head>>

CopyPlain(n) ==
  /\ Decoding
  /\ Emit(<<Piece("plain", There, n, Here)>>)
  /\ Count("plain", n, Here)
  /\ GoOn(n)

JumpToRest ==
  /\ pc = "tail"
  /\ IF pfrom < fromsize /\ pto < tosize
       THEN Emit(MakeJmpNear(There, Here, "jmp"))
       ELSE UNCHANGED <<pto, out>>
  /\ ret' = pfrom
  /\ pc' = "done"
  /\ UNCHANGED <<args, pfrom, head>>

Next ==
  \/ DecodeFails \/ MeetRelative \/ JumpToRest
  \/ \E t \in Targets :
       \/ CopyCall(t) \/ CopyJmpNear(t) \/ CopyJmpShort(t) \/ MeetLoop(t)
       \/ \E kind \in {"jcc32", "jcc8"} : CopyJmpc(t, kind)
  \/ \E n \in PlainSizes : CopyPlain(n)

Spec == Init /\ [][Next]_vars

-----------------------------------------------------------------------------
SavedMax == 32   \* sizeof(orginal_code)

\* hook_install goes on: enough was moved for the jump to be written.
Usable == pc = "done" /\ ret >= mincopysize

\* Every variable has the type of the data it stands for.
TypeOK ==
  /\ isX64 \in Builds /\ to \in Buffers /\ tosize \in BufferSizes /\ mincopysize \in MinSizes
  /\ pfrom \in Nat /\ pto \in Nat /\ ret \in Nat
  /\ pc \in {"decode", "tail", "done"}
  /\ \A p \in {out[i] : i \in DOMAIN out} \cup {head[i] : i \in DOMAIN head} :
       p \in [op : {"plain", "call", "jmp", "jcc", "jcc32", "jcc8", "loop", "junk"},
              at : Int, len : 1 .. 16, to : Int]

\* The sizes that hook_install and hook_install_by_bridgeslot pass, or more
\* (hooklib.c 347, 406; hooklib.h 53).
Ample == fromsize >= 100 /\ tosize >= 64

\* The head an install saves fits in orginal_code, whatever the instructions of
\* the function are: hook_install copies ret bytes into it without looking
\* (hooklib.c 347-354, hooklib.h 51).
SavedCodeFits == (Ample /\ Usable) => ret <= SavedMax

\* What is written for a patch of at most six bytes, on x86 for every patch,
\* fits in the buffer, although the loop looks at the space left before an
\* instruction, never at the space its translation takes, and so does the jump
\* at the end (hooklib.c 256, 274-291, 312).
ProxyFits == (Ample /\ (isX64 => mincopysize <= 6)) => pto <= tosize

\* hooklib.h 53: the proxy's buffer is an array of 64 bytes, whatever the patch.
FarProxyFits == Ample => pto <= tosize

\* The calls and the instructions copied as they are, numbered in order, with
\* what a call calls.
Kept(code) == {i \in DOMAIN code : code[i].op \in {"plain", "call"}}
Straight(code) ==
  {<<Cardinality(Kept(code) \cap (1 .. i)), code[i].op, code[i].to>> : i \in Kept(code)}

\* The buffer performs the plain instructions and the calls of the head, each
\* once, in their order, each call with its own callee, although calls change
\* their length and their displacement (hooklib.c 271-304).
HeadMoved == Usable => Straight(out) = Straight(head)

Wild == -1

\* Where control leaves the buffer, when a conditional jump is taken and when
\* it is not: a transfer inside the buffer is followed.
BufferExit(taken) ==
  LET n == Len(out)
      Land(follow, i, a) ==
        IF \E j \in i + 1 .. n : out[j].at = a
          THEN follow[CHOOSE j \in i + 1 .. n : out[j].at = a] ELSE a
      follow[i \in 1 .. n + 1] ==
        IF i = n + 1 THEN Wild
        ELSE CASE out[i].op = "jmp"  -> Land(follow, i, out[i].to)
               [] out[i].op = "jcc"  -> IF taken THEN Land(follow, i, out[i].to)
                                                 ELSE follow[i + 1]
               [] out[i].op = "junk" -> Wild
               [] OTHER              -> follow[i + 1]
  IN follow[1]

\* Where control leaves the first ret bytes of the function.
HeadExit(taken) ==
  LET last == head[Len(head)]
  IN CASE last.op = "jmp" -> last.to
       [] last.op \in {"jcc32", "jcc8", "loop"} /\ taken -> last.to
       [] OTHER -> from + ret

ExitsKept == \A taken \in BOOLEAN : BufferExit(taken) = HeadExit(taken)

LastOp == head[Len(head)].op

\* Buffers apart from the targets and the head, at no distance at which the
\* two-byte form of a jump is chosen though it does not reach, and in which
\* what their beginning does not reach no other byte does.  At most 41 bytes are
\* written before the last instruction of a head, 57 with it if it is no
\* conditional jump, 71 if it is one, for at most 28 bytes of the function.
Apart ==
  \A b \in Buffers :
    /\ b .. b + 71 \cap (Targets \cup from .. from + 28) = {}
    /\ \A y \in 0 .. 57, n \in 0 .. 28 : (from + n) - (b + y) \notin 130 .. 132
    /\ \A t \in Targets :
         /\ \A y \in 0 .. 41 : t - (b + y) \notin 130 .. 132
         /\ abs64(t - b - 5) > NearMax => \A y \in 0 .. 57 : abs64(t - (b + y) - 5) > NearMax

\* After its head, and the head's jump if it ends in one, the buffer goes on
\* where the function would: behind the bytes the patch may overwrite, or at
\* the jump's own target, in whatever form the distance asks for
\* (hooklib.c 271-283, 312-315; hooklib.h 53, 59).
LeavesAsHeadDoes == (Ample /\ Usable /\ LastOp \in {"plain", "call", "jmp"}) => ExitsKept

\* On x64, with the buffer out of reach of the function, conditional jumps are
\* translated by a jump over a jump; both ways out are kept (hooklib.c 200-218).
FarConditionalKept ==
  (Usable /\ LastOp \in {"jcc32", "jcc8"} /\ Far(to, HeadExit(TRUE))) => ExitsKept

\* hooklib.h 53: the buffer performs the original function, here for a head
\* that ends in a conditional jump.
ConditionalKept == (Usable /\ LastOp \in {"jcc32", "jcc8"}) => ExitsKept

\* hooklib.h 59: the last instruction of the buffer jumps to from + the size
\* copied.
TailReachesRest == (Usable /\ LastOp \in {"plain", "call"}) => ExitsKept

=============================================================================
