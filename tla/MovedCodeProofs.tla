-------------------------- MODULE MovedCodeProofs --------------------------
(***************************************************************************)
(* What hook_copy_code makes of the head of every function, and what a     *)
(* filter makes of the result.                                             *)
(*                                                                         *)
(* How far it goes: the code compares the space left with nothing, so the  *)
(* bounds come from counting.  Before the last instruction fewer than      *)
(* mincopysize bytes were moved, and moving an instruction takes at most   *)
(* 16 bytes for 5 of them.  What the x64 stub of a filter leaves of        *)
(* proxy_code is exactly enough for the translation of six bytes without a *)
(* conditional jump: two calls of 16 bytes, and the jump of 14 behind.     *)
(*                                                                         *)
(* What the buffer does: each step adds to it and to the head the same     *)
(* plain instruction or call, or a transfer.  Where control leaves it is   *)
(* followed from the first piece to the last by an induction, for buffers  *)
(* at distances at which every form of a jump leads where it should.       *)
(*                                                                         *)
(* What a filter's stub does: its pushes, pops and the structure the       *)
(* filter function sees are the same names in the same or the opposite     *)
(* order, and no two fields have one name.                                 *)
(*                                                                         *)
(* Where a filtered call goes on: while the head has plain instructions    *)
(* and calls only, their pieces lie one behind the other, and each is the  *)
(* one control goes to next, up to the jump to the rest of the function.   *)
(* The table has the addresses of these pieces and of the instructions     *)
(* behind the head, so that its entries are the steps of one walk.         *)
(***************************************************************************)
EXTENDS Filter, FiniteSetTheorems, WellFoundedInduction, TLAPS

\* Room enough for the loop to end because it moved enough, never because a
\* buffer is exhausted.
Roomy == fromsize >= 100 /\ tosize >= 46

\* Nothing here depends on where the buffer is.
CountInv ==
  /\ Roomy
  /\ isX64 \in BOOLEAN
  /\ to \in Int /\ tosize \in Nat /\ mincopysize \in 1 .. 14
  /\ pfrom \in Nat /\ pto \in Nat /\ ret \in Nat
  /\ pc \in {"decode", "tail", "done"}
  /\ pc = "decode" => pfrom < mincopysize /\ 5 * pto <= 16 * pfrom
  /\ pc # "done" => ret = 0
  /\ pc = "decode" /\ ~isX64 => pto <= pfrom
  /\ pc = "tail" => pfrom <= mincopysize + 14
  /\ pc = "tail" /\ ~isX64 => pto <= 28
  /\ pc = "tail" /\ mincopysize <= 6 => pto <= 46
  /\ ret <= mincopysize + 14
  /\ pc = "done" /\ ~isX64 => pto <= 33
  /\ pc = "done" /\ mincopysize <= 6 => pto <= 60

\* The sizes the callers pass are enough, and do not change.
IInv == tosize \in Nat /\ (Roomy => CountInv)

\* A translated jump or call is one piece.
LEMMA NearPiece ==
  ASSUME NEW a \in Int, NEW b \in Int, NEW op \in {"call", "jmp"}
  PROVE  \E len \in 2 .. 16, x \in Int :
           /\ MakeJmpNear(a, b, op) = <<Piece(op, a, len, x)>>
           /\ ~isX64 => len <= 5
           /\ op = "jmp" => len <= 14
<1>2. CASE Far(a, b)
  <2>1. MakeJmpNear(a, b, op) = <<Piece(op, a, IF op = "call" THEN 16 ELSE 14, b)>>
    BY <1>2 DEF MakeJmpNear
  <2>2. /\ isX64 /\ (IF op = "call" THEN 16 ELSE 14) \in 2 .. 16
        /\ op = "jmp" => (IF op = "call" THEN 16 ELSE 14) <= 14
    BY <1>2 DEF Far
  <2>. QED
    BY <2>1, <2>2
<1>3. CASE ~Far(a, b) /\ op = "jmp" /\ abs64(b - a - 5) < 128
  <2>1. MakeJmpNear(a, b, op) = <<Piece(op, a, 2, a + 2 + Int8(b - a - 2))>>
    BY <1>3 DEF MakeJmpNear, MakeJmpShort
  <2>2. a + 2 + Int8(b - a - 2) \in Int
    BY DEF Int8
  <2>. QED
    BY <2>1, <2>2
<1>4. CASE ~Far(a, b) /\ ~(op = "jmp" /\ abs64(b - a - 5) < 128)
  <2>1. MakeJmpNear(a, b, op) = <<Piece(op, a, 5, a + 5 + (b - a - 5))>>
    BY <1>4 DEF MakeJmpNear
  <2>. QED
    BY <2>1
<1>. QED
  BY <1>2, <1>3, <1>4

\* A translated jump takes no more than 14 bytes.
LEMMA JmpPiece ==
  ASSUME NEW a \in Int, NEW b \in Int
  PROVE  \E len \in 2 .. 14, x \in Int :
           /\ MakeJmpNear(a, b, "jmp") = <<Piece("jmp", a, len, x)>>
           /\ ~isX64 => len <= 5
<1>1. PICK len \in 2 .. 16, x \in Int :
        /\ MakeJmpNear(a, b, "jmp") = <<Piece("jmp", a, len, x)>>
        /\ ~isX64 => len <= 5
        /\ len <= 14
  BY NearPiece
<1>. QED
  BY <1>1

\* The bytes a translated jump or call takes.
LEMMA NearLength ==
  ASSUME NEW a \in Int, NEW b \in Int, NEW op \in {"call", "jmp"}
  PROVE  \E d \in 2 .. 16 :
           /\ End(MakeJmpNear(a, b, op)) = a + d
           /\ ~isX64 => d <= 5
           /\ op = "jmp" => d <= 14
<1>1. PICK len \in 2 .. 16, x \in Int :
        /\ MakeJmpNear(a, b, op) = <<Piece(op, a, len, x)>>
        /\ ~isX64 => len <= 5
        /\ op = "jmp" => len <= 14
  BY NearPiece
<1>. QED
  BY <1>1 DEF Piece, End

\* The last element of a sequence with one element appended.
LEMMA LastOfConcat ==
  ASSUME NEW S, NEW s \in Seq(S), NEW x
  PROVE  LET q == s \o <<x>> IN q[Len(q)] = x
OBVIOUS

EndsWithin30(a, code) ==
  \E d \in 0 .. 30 : End(code) = a + d /\ (~isX64 => d <= 11)

\* The bytes a translated conditional jump takes.
LEMMA ConditionalLength ==
  ASSUME NEW a \in Int, NEW b \in Int, NEW e \in Int, NEW kind, NEW k \in Int
  PROVE  EndsWithin30(a, MakeJmpcNear(a, b, e, kind, k))
<1>. PICK a2 \in Int, a6 \in Int : a2 = a + 2 /\ a6 = a + 6
  OBVIOUS
<1>. DEFINE over == MakeJmpNear(a2, e, "jmp")
            after == a2 + over[1].len
            cond == IF kind = "jcc32"
                      THEN <<Piece("jcc", a, 6, a + 6 + (b - a - 5))>>
                      ELSE <<Piece("jcc", a, 2, a + 2 + Int8(k + 16)),
                             Piece("junk", a + 2, 4, a + 6)>>
<1>1. PICK len1 \in 2 .. 14, x1 \in Int :
        /\ over = <<Piece("jmp", a2, len1, x1)>>
        /\ ~isX64 => len1 <= 5
  BY JmpPiece
<1>2. over[1].len = len1
  BY <1>1 DEF Piece
<1>3. after \in a + 4 .. a + 16 /\ after \in Int
  BY <1>2
<1>. HIDE DEF over, after, cond
<1>4. PICK len2 \in 2 .. 14, x2 \in Int :
        /\ MakeJmpNear(after, b, "jmp") = <<Piece("jmp", after, len2, x2)>>
        /\ ~isX64 => len2 <= 5
  BY <1>3, JmpPiece
<1>5. PICK len3 \in 2 .. 14, x3 \in Int :
        /\ MakeJmpNear(a6, e, "jmp") = <<Piece("jmp", a6, len3, x3)>>
        /\ ~isX64 => len3 <= 5
  BY JmpPiece
<1>6. CASE Far(a, b)
  <2>1. MakeJmpcNear(a, b, e, kind, k)
          = (MakeJmpShort(a, after, "jcc") \o over) \o <<Piece("jmp", after, len2, x2)>>
    BY <1>4, <1>6 DEF MakeJmpcNear, over, after
  <2>2. MakeJmpShort(a, after, "jcc") \o over
          \in Seq({Piece("jcc", a, 2, a + 2 + Int8(after - a - 2)),
                   Piece("jmp", a2, len1, x1)})
    BY <1>1 DEF MakeJmpShort
  <2>3. LET q == MakeJmpcNear(a, b, e, kind, k)
        IN q[Len(q)] = Piece("jmp", after, len2, x2)
    BY <2>1, <2>2, LastOfConcat
  <2>4. isX64
    BY <1>6 DEF Far
  <2>. QED
    BY <2>3, <2>4, <1>3 DEF Piece, End, EndsWithin30
<1>7. CASE ~Far(a, b)
  <2>1. MakeJmpcNear(a, b, e, kind, k) = cond \o <<Piece("jmp", a6, len3, x3)>>
    BY <1>5, <1>7 DEF MakeJmpcNear, cond
  <2>2. \E S : cond \in Seq(S)
    <3>1. CASE kind = "jcc32"
      <4>1. cond = <<Piece("jcc", a, 6, a + 6 + (b - a - 5))>>
        BY <3>1 DEF cond
      <4>2. cond \in Seq({Piece("jcc", a, 6, a + 6 + (b - a - 5))})
        BY <4>1
      <4>. QED
        BY <4>2
    <3>2. CASE kind # "jcc32"
      <4>1. cond = <<Piece("jcc", a, 2, a + 2 + Int8(k + 16)), Piece("junk", a + 2, 4, a + 6)>>
        BY <3>2 DEF cond
      <4>2. cond \in Seq({Piece("jcc", a, 2, a + 2 + Int8(k + 16)),
                          Piece("junk", a + 2, 4, a + 6)})
        BY <4>1
      <4>. QED
        BY <4>2
    <3>. QED
      BY <3>1, <3>2
  <2>3. LET q == MakeJmpcNear(a, b, e, kind, k)
        IN q[Len(q)] = Piece("jmp", a6, len3, x3)
    BY <2>1, <2>2, LastOfConcat
  <2>. QED
    BY <2>3, <1>5, <1>7 DEF Piece, End, EndsWithin30
<1>. QED
  BY <1>6, <1>7

-----------------------------------------------------------------------------
\* The instruction behind which decoding stops keeps the count.
LEMMA StopStep ==
  ASSUME CountInv, Decoding, NEW len \in 0 .. 15, NEW d \in 0 .. 30, Stop(len),
         pto' = pto + d, ~isX64 => d <= 15
  PROVE  CountInv'
<1>1. /\ pfrom \in Nat /\ pto \in Nat /\ mincopysize \in 1 .. 14 /\ ret = 0
      /\ pfrom < mincopysize
      /\ ~isX64 => pto <= pfrom
      /\ mincopysize <= 6 => pto <= 16
      /\ Roomy /\ isX64 \in BOOLEAN /\ to \in Int /\ tosize \in Nat
  BY DEF CountInv, Decoding
<1>2. /\ pfrom' = pfrom + len /\ pc' = "tail"
      /\ isX64' = isX64 /\ to' = to /\ tosize' = tosize /\ mincopysize' = mincopysize /\ ret' = ret
  BY DEF Decoding, Stop, args
<1>3. pfrom <= 13 /\ pfrom' \in Nat /\ pfrom' <= mincopysize + 14 /\ pfrom' <= 28
  BY <1>1, <1>2
<1>4. pto' \in Nat /\ (~isX64 => pto' <= 28) /\ (mincopysize <= 6 => pto' <= 46)
  BY <1>1, <1>3
<1>. QED
  BY <1>1, <1>2, <1>3, <1>4 DEF CountInv, Roomy

\* With room enough the exhausted branch of GoOn is never taken.
LEMMA GoOnStep ==
  ASSUME CountInv, Decoding, NEW len \in 1 .. 15, NEW d \in 0 .. 30, GoOn(len),
         pto' = pto + d, 5 * d <= 16 * len, ~isX64 => d <= len
  PROVE  CountInv'
<1>1. CASE EnoughMoved(len) /\ Stop(len)
  BY <1>1, StopStep
<1>2. CASE ~EnoughMoved(len)
  <2>. PICK x \in Nat, y \in Nat, m \in 1 .. 14 : x = pfrom /\ y = pto /\ m = mincopysize
    BY DEF CountInv
  <2>1. x + len < m /\ 5 * y <= 16 * x /\ (~isX64 => y <= x) /\ ret = 0
    BY <1>2 DEF EnoughMoved, CountInv, Decoding
  <2>2. 5 * (y + d) <= 16 * (x + len) /\ y + d <= 41 /\ (~isX64 => y + d <= x + len)
    BY <2>1
  <2>3. pfrom + len < fromsize /\ pto' < tosize
    BY <2>1, <2>2, SizeAssumption DEF CountInv, Roomy
  <2>4. pfrom' = x + len /\ pc' = "decode"
    BY <1>2, <2>3 DEF GoOn
  <2>5. /\ pto' = y + d /\ mincopysize' = m /\ ret' = 0
        /\ isX64' = isX64 /\ to' = to /\ tosize' = tosize
    BY <2>1 DEF Decoding, args
  <2>. QED
    BY <2>1, <2>2, <2>4, <2>5 DEF CountInv, Roomy
<1>. QED
  BY <1>1, <1>2 DEF GoOn

\* The write position is the end of the last piece.
LEMMA EmitEnd ==
  ASSUME NEW STATE code, Emit(code)
  PROVE  pto' = End(code) - to
BY DEF Emit

\* Addresses and offsets are integers.
Offsets == to \in Int /\ pto \in Nat /\ pfrom \in Nat

LEMMA CountOffsets == CountInv => Offsets
BY DEF CountInv, Offsets

\* Addresses and offsets in the buffer differ by the buffer's address.
LEMMA Advance ==
  ASSUME Offsets, NEW y \in Nat, NEW d \in Int, NEW z, z = (to + y) + d
  PROVE  z - to = y + d
BY DEF Offsets

\* Addresses are integers.
LEMMA DestTypes ==
  ASSUME Offsets, NEW t \in Targets
  PROVE  /\ There \in Int /\ Here \in Int
         /\ get_dest_address_0xe9(Here, t - Here - 5) \in Int
         /\ get_dest_address_0xeb(Here, t - Here - 2) \in Int
BY SizeAssumption DEF Offsets, There, Here, get_dest_address_0xe9, get_dest_address_0xeb

\* How far a translated jump or call advances in the buffer.
LEMMA EmitNear ==
  ASSUME Offsets, NEW b \in Int, NEW op \in {"call", "jmp"},
         Emit(MakeJmpNear(There, b, op))
  PROVE  \E d \in 2 .. 16 :
           pto' = pto + d /\ (~isX64 => d <= 5) /\ (op = "jmp" => d <= 14)
<1>. PICK y \in Nat : y = pto
  BY DEF Offsets
<1>. DEFINE z == End(MakeJmpNear(to + y, b, op))
<1>1. PICK d \in 2 .. 16 :
        z = (to + y) + d /\ (~isX64 => d <= 5) /\ (op = "jmp" => d <= 14)
  BY NearLength DEF Offsets
<1>2. pto' = z - to
  <2>1. There = to + y
    BY DEF There
  <2>2. pto' = End(MakeJmpNear(There, b, op)) - to
    BY EmitEnd
  <2>. QED
    BY <2>1, <2>2, Zenon
<1>3. z - to = y + d
  <2>. HIDE DEF z
  <2>. QED
    BY <1>1, Advance
<1>4. pto' = pto + d
  BY <1>2, <1>3, Zenon
<1>. QED
  BY <1>1, <1>4

\* A call keeps the count.
LEMMA CopyCallStep ==
  ASSUME CountInv, NEW t \in Targets, CopyCall(t)
  PROVE  CountInv'
<1>1. Decoding /\ GoOn(5)
  BY DEF CopyCall
<1>2. PICK d \in 2 .. 16 : pto' = pto + d /\ (~isX64 => d <= 5)
  BY CountOffsets, DestTypes, EmitNear DEF CopyCall
<1>3. 5 * d <= 16 * 5 /\ d \in 0 .. 30
  OBVIOUS
<1>. QED
  BY <1>1, <1>2, <1>3, GoOnStep

\* A jump, near or short, keeps the count.
LEMMA CopyJmpStep ==
  ASSUME CountInv, NEW t \in Targets, CopyJmpNear(t) \/ CopyJmpShort(t)
  PROVE  CountInv'
<1>1. Decoding /\ (Stop(5) \/ Stop(2))
  BY DEF CopyJmpNear, CopyJmpShort
<1>2. PICK d \in 2 .. 16 : pto' = pto + d /\ (~isX64 => d <= 5)
  BY CountOffsets, DestTypes, EmitNear DEF CopyJmpNear, CopyJmpShort
<1>3. d \in 0 .. 30 /\ (~isX64 => d <= 15)
  BY <1>2
<1>. QED
  BY <1>1, <1>2, <1>3, StopStep

\* A conditional jump keeps the count.
LEMMA CopyJmpcStep ==
  ASSUME CountInv, NEW t \in Targets, NEW kind \in {"jcc32", "jcc8"}, CopyJmpc(t, kind)
  PROVE  CountInv'
<1>. DEFINE len == IF kind = "jcc32" THEN 6 ELSE 2
            code == MakeJmpcNear(There, t, Here + len, kind, t - Here - 2)
            z == End(code)
<1>. PICK y \in Nat : y = pto
  BY DEF CountInv
<1>1. Decoding /\ (Stop(6) \/ Stop(2)) /\ Emit(code)
  BY DEF CopyJmpc
<1>2. /\ There \in Int /\ There = to + y /\ t \in Int
      /\ Here + len \in Int /\ t - Here - 2 \in Int
  BY CountOffsets, SizeAssumption, DestTypes DEF There
<1>3. EndsWithin30(There, code)
  <2>. HIDE DEF len
  <2>. QED
    BY <1>2, ConditionalLength, Zenon
<1>. HIDE DEF code
<1>4. PICK d \in 0 .. 30 : z = There + d /\ (~isX64 => d <= 11)
  BY <1>3 DEF EndsWithin30
<1>5. pto' = z - to
  BY <1>1, EmitEnd
<1>. HIDE DEF z
<1>6. z = (to + y) + d
  BY <1>2, <1>4, Zenon
<1>7. z - to = y + d
  BY CountOffsets, <1>6, Advance
<1>8. pto' = pto + d
  BY <1>5, <1>7, Zenon
<1>9. ~isX64 => d <= 15
  BY <1>4
<1>. QED
  BY <1>1, <1>8, <1>9, StopStep

\* An instruction copied as it is keeps the count.
LEMMA CopyPlainStep ==
  ASSUME CountInv, NEW n \in PlainSizes, CopyPlain(n)
  PROVE  CountInv'
<1>1. n \in 1 .. 15 /\ to \in Int /\ pto \in Nat
  BY SizeAssumption DEF CountInv
<1>. DEFINE code == <<Piece("plain", There, n, Here)>>
<1>2. End(code) = (to + pto) + n
  BY DEF End, Piece, There
<1>3. pto' = End(code) - to
  BY EmitEnd DEF CopyPlain
<1>. HIDE DEF code
<1>4. End(code) - to = pto + n
  BY CountOffsets, <1>1, <1>2, Advance
<1>5. pto' = pto + n
  BY <1>3, <1>4, Zenon
<1>6. n \in 0 .. 30 /\ 5 * n <= 16 * n
  BY <1>1
<1>. QED
  BY <1>1, <1>5, <1>6, GoOnStep DEF CopyPlain

\* The appended jump keeps the count.
LEMMA JumpToRestStep ==
  ASSUME CountInv, JumpToRest
  PROVE  CountInv'
<1>1. Here \in Int
  BY SizeAssumption DEF CountInv, Here
<1>2. PICK d \in 0 .. 14 : pto' = pto + d /\ (~isX64 => d <= 5)
  <2>1. CASE pfrom < fromsize /\ pto < tosize
    BY CountOffsets, <1>1, <2>1, EmitNear DEF JumpToRest
  <2>2. CASE ~(pfrom < fromsize /\ pto < tosize)
    <3>1. pto' = pto + 0
      BY <2>2 DEF JumpToRest, CountInv
    <3>. QED
      BY <3>1
  <2>. QED
    BY <2>1, <2>2
<1>3. /\ pto \in Nat /\ pfrom \in Nat /\ pfrom <= mincopysize + 14
      /\ ~isX64 => pto <= 28
      /\ mincopysize <= 6 => pto <= 46
  BY DEF JumpToRest, CountInv
<1>4. pto' \in Nat /\ (~isX64 => pto' <= 33) /\ (mincopysize <= 6 => pto' <= 60)
  BY <1>2, <1>3
<1>5. /\ isX64' = isX64 /\ to' = to /\ tosize' = tosize /\ mincopysize' = mincopysize
      /\ pfrom' = pfrom /\ ret' = pfrom /\ pc' = "done"
  BY DEF JumpToRest, args
<1>. QED
  BY <1>3, <1>4, <1>5 DEF CountInv, Roomy

\* Every step keeps the count, and the sizes.
LEMMA CountInductive == IInv /\ [Next]_vars => IInv'
<1>1. [Next]_vars => UNCHANGED args
  BY DEF Next, vars, DecodeFails, MeetRelative, JumpToRest, CopyCall, CopyJmpNear,
     CopyJmpShort, MeetLoop, CopyJmpc, CopyPlain, Decoding
<1>. SUFFICES ASSUME IInv, [Next]_vars, Roomy' PROVE CountInv'
  BY <1>1 DEF IInv, args
<1>2. CountInv
  BY <1>1 DEF IInv, Roomy, args
<1>3. CASE UNCHANGED vars
  BY <1>2, <1>3 DEF vars, args, CountInv, Roomy
<1>4. CASE DecodeFails
  BY <1>2, <1>4 DEF DecodeFails, args, CountInv, Roomy
<1>5. CASE MeetRelative
  <2>1. pto' = pto + 0 /\ Decoding /\ Stop(0)
    BY <1>2, <1>5 DEF MeetRelative, CountInv
  <2>. QED
    BY <1>2, <2>1, StopStep
<1>6. ASSUME NEW t \in Targets, MeetLoop(t)
      PROVE  CountInv'
  <2>1. pto' = pto + 0 /\ Decoding /\ Stop(2)
    BY <1>2, <1>6 DEF MeetLoop, CountInv
  <2>. QED
    BY <1>2, <2>1, StopStep
<1>. QED
  BY <1>2, <1>3, <1>4, <1>5, <1>6, JumpToRestStep, CopyCallStep, CopyJmpStep,
     CopyJmpcStep, CopyPlainStep DEF Next

\* Nothing is moved at first.
LEMMA CountInitially == Init => IInv
BY SizeAssumption DEF Init, IInv, CountInv

\* Whatever the function's instructions, the bytes hook_install saves fit in
\* orginal_code, if the buffers are no smaller than the library's own.
THEOREM SavedCodeAlwaysFits == Spec => []SavedCodeFits
<1>1. IInv => SavedCodeFits
  BY SizeAssumption DEF IInv, CountInv, Roomy, Ample, SavedCodeFits, Usable, SavedMax
<1>. QED
  BY <1>1, CountInductive, CountInitially, PTL DEF Spec

\* Whatever the function's instructions, the translated head of a patch of at
\* most six bytes, on x86 of any patch, and the jump behind it fit in
\* proxy_function_code.
THEOREM ProxyAlwaysFits == Spec => []ProxyFits
<1>1. IInv => ProxyFits
  <2>. SUFFICES ASSUME CountInv, Ample, isX64 => mincopysize <= 6
                PROVE  pto <= tosize
    BY SizeAssumption DEF IInv, ProxyFits, Ample, Roomy
  <2>1. pto \in Nat /\ tosize \in Nat /\ tosize >= 64 /\ isX64 \in BOOLEAN
    BY SizeAssumption DEF CountInv, Ample
  <2>2. CASE pc = "decode"
    BY <2>1, <2>2 DEF CountInv
  <2>3. CASE pc = "tail"
    BY <2>1, <2>3 DEF CountInv
  <2>4. CASE pc = "done"
    BY <2>1, <2>4 DEF CountInv
  <2>. QED
    BY <2>2, <2>3, <2>4 DEF CountInv
<1>. QED
  BY <1>1, CountInductive, CountInitially, PTL DEF Spec

-----------------------------------------------------------------------------
(* What the buffer performs.                                               *)

PieceType ==
  [op : {"plain", "call", "jmp", "jcc", "jcc32", "jcc8", "loop", "junk"},
   at : Int, len : 1 .. 16, to : Int]

\* Pieces that only transfer control inside the function.
Transfer == [op : {"jmp", "jcc", "junk"}, at : Int, len : 1 .. 16, to : Int]

MoveTypes ==
  /\ isX64 \in Builds /\ to \in Buffers /\ tosize \in BufferSizes /\ mincopysize \in MinSizes
  /\ pfrom \in Nat /\ pto \in Nat /\ ret \in Nat
  /\ pc \in {"decode", "tail", "done"}

\* So far the buffer performs what the head does.
SameStraight(o, h) ==
  /\ o \in Seq(PieceType) /\ h \in Seq(PieceType)
  /\ Straight(o) = Straight(h)
  /\ Cardinality(Kept(o)) = Cardinality(Kept(h))

MoveInv == MoveTypes /\ SameStraight(out, head)

\* Only plain instructions and calls count.
LEMMA AppendTransfers ==
  ASSUME NEW s \in Seq(PieceType), NEW q \in Seq(PieceType),
         \A i \in DOMAIN q : q[i].op \notin {"plain", "call"}
  PROVE  s \o q \in Seq(PieceType) /\ Kept(s \o q) = Kept(s) /\ Straight(s \o q) = Straight(s)
<1>. PICK n \in Nat, m \in Nat : n = Len(s) /\ m = Len(q)
  OBVIOUS
<1>1. /\ s \o q \in Seq(PieceType) /\ DOMAIN (s \o q) = 1 .. n + m /\ DOMAIN s = 1 .. n
      /\ \A i \in 1 .. n : (s \o q)[i] = s[i]
      /\ \A i \in n + 1 .. n + m : (s \o q)[i].op \notin {"plain", "call"}
  <2>1. s \o q \in Seq(PieceType) /\ DOMAIN (s \o q) = 1 .. n + m /\ DOMAIN s = 1 .. n
        /\ \A i \in 1 .. n : (s \o q)[i] = s[i]
    OBVIOUS
  <2>2. ASSUME NEW i \in n + 1 .. n + m PROVE (s \o q)[i].op \notin {"plain", "call"}
    <3>1. i - n \in DOMAIN q /\ (s \o q)[i] = q[i - n]
      OBVIOUS
    <3>. QED
      BY <3>1
  <2>. QED
    BY <2>1, <2>2
<1>2. Kept(s \o q) = Kept(s)
  BY <1>1 DEF Kept
<1>3. \A i \in Kept(s) : (s \o q)[i] = s[i]
  BY <1>1 DEF Kept
<1>4. Straight(s \o q) = Straight(s)
  BY <1>2, <1>3 DEF Straight
<1>. QED
  BY <1>1, <1>2, <1>4

\* One instruction more that counts.
LEMMA AppendStraight ==
  ASSUME NEW s \in Seq(PieceType), NEW p \in PieceType, p.op \in {"plain", "call"}
  PROVE  /\ Append(s, p) \in Seq(PieceType)
         /\ Cardinality(Kept(Append(s, p))) = Cardinality(Kept(s)) + 1
         /\ Straight(Append(s, p)) = Straight(s) \cup {<<Cardinality(Kept(s)) + 1, p.op, p.to>>}
<1>. PICK n \in Nat : n = Len(s)
  OBVIOUS
<1>. PICK r : r = Append(s, p)
  OBVIOUS
<1>1. /\ r \in Seq(PieceType) /\ DOMAIN r = 1 .. n + 1 /\ DOMAIN s = 1 .. n
      /\ \A i \in 1 .. n : r[i] = s[i]
      /\ r[n + 1] = p
  OBVIOUS
<1>2. Kept(r) = Kept(s) \cup {n + 1} /\ n + 1 \notin Kept(s) /\ Kept(s) \subseteq 1 .. n
  BY <1>1 DEF Kept
<1>3. IsFiniteSet(Kept(s))
  <2>1. IsFiniteSet(1 .. n)
    BY FS_Interval
  <2>. QED
    BY <1>2, <2>1, FS_Subset
<1>4. Cardinality(Kept(r)) = Cardinality(Kept(s)) + 1
  BY <1>2, <1>3, FS_AddElement
<1>5. \A i \in Kept(s) : Kept(r) \cap (1 .. i) = Kept(s) \cap (1 .. i)
  BY <1>2
<1>6. Kept(r) \cap (1 .. n + 1) = Kept(r)
  BY <1>2
<1>7. \A i \in Kept(s) : r[i] = s[i]
  BY <1>1, <1>2
<1>. DEFINE T(c, i) == <<Cardinality(Kept(c) \cap (1 .. i)), c[i].op, c[i].to>>
<1>8. \A i \in Kept(s) : T(r, i) = T(s, i)
  BY <1>5, <1>7
<1>9. T(r, n + 1) = <<Cardinality(Kept(s)) + 1, p.op, p.to>>
  BY <1>1, <1>4, <1>6
<1>10. Straight(r) = {T(r, i) : i \in Kept(r)} /\ Straight(s) = {T(s, i) : i \in Kept(s)}
  BY DEF Straight
<1>. HIDE DEF T
<1>11. Straight(r) = Straight(s) \cup {T(r, n + 1)}
  BY <1>2, <1>8, <1>10
<1>. QED
  BY <1>1, <1>4, <1>9, <1>11

\* The same instruction on both sides.
LEMMA StraightOnBoth ==
  ASSUME NEW o, NEW h, SameStraight(o, h), NEW p \in PieceType, NEW i \in PieceType,
         p.op \in {"plain", "call"}, i.op = p.op, i.to = p.to
  PROVE  SameStraight(o \o <<p>>, Append(h, i))
<1>1. o \in Seq(PieceType) /\ h \in Seq(PieceType)
  BY DEF SameStraight
<1>2. o \o <<p>> = Append(o, p)
  BY <1>1
<1>3. /\ Append(o, p) \in Seq(PieceType)
      /\ Cardinality(Kept(Append(o, p))) = Cardinality(Kept(o)) + 1
      /\ Straight(Append(o, p)) = Straight(o) \cup {<<Cardinality(Kept(o)) + 1, p.op, p.to>>}
  BY <1>1, AppendStraight
<1>4. /\ Append(h, i) \in Seq(PieceType)
      /\ Cardinality(Kept(Append(h, i))) = Cardinality(Kept(h)) + 1
      /\ Straight(Append(h, i)) = Straight(h) \cup {<<Cardinality(Kept(h)) + 1, p.op, p.to>>}
  BY <1>1, AppendStraight
<1>. QED
  BY <1>2, <1>3, <1>4 DEF SameStraight

\* A transfer, or nothing, on either side.
LEMMA TransfersOnBoth ==
  ASSUME NEW o, NEW h, SameStraight(o, h),
         NEW q \in Seq(Transfer),
         NEW k \in PieceType, k.op \notin {"plain", "call"}
  PROVE  /\ SameStraight(o \o q, h) /\ SameStraight(o, Append(h, k))
         /\ SameStraight(o \o q, Append(h, k))
<1>1. o \in Seq(PieceType) /\ h \in Seq(PieceType)
  BY DEF SameStraight
<1>2. q \in Seq(PieceType) /\ \A i \in DOMAIN q : q[i].op \notin {"plain", "call"}
  <2>1. \A i \in DOMAIN q : q[i] \in PieceType /\ q[i].op \notin {"plain", "call"}
    <3>1. \A x \in Transfer : x \in PieceType /\ x.op \notin {"plain", "call"}
      BY DEF Transfer, PieceType
    <3>. QED
      BY <3>1
  <2>. QED
    BY <2>1
<1>3. o \o q \in Seq(PieceType) /\ Kept(o \o q) = Kept(o) /\ Straight(o \o q) = Straight(o)
  BY <1>1, <1>2, AppendTransfers
<1>4. <<k>> \in Seq(PieceType) /\ \A i \in DOMAIN <<k>> : <<k>>[i].op \notin {"plain", "call"}
  OBVIOUS
<1>5. h \o <<k>> = Append(h, k)
  BY <1>1
<1>6. Append(h, k) \in Seq(PieceType) /\ Kept(Append(h, k)) = Kept(h)
      /\ Straight(Append(h, k)) = Straight(h)
  BY <1>1, <1>4, <1>5, AppendTransfers
<1>. QED
  BY <1>3, <1>6 DEF SameStraight

\* A translated call calls what it should, a jump only transfers control.
LEMMA NearMoved ==
  ASSUME NEW a \in Int, NEW b \in Int
  PROVE  /\ \E p \in PieceType : p.op = "call" /\ p.to = b /\ MakeJmpNear(a, b, "call") = <<p>>
         /\ MakeJmpNear(a, b, "jmp") \in Seq(Transfer)
<1>1. \E p \in PieceType : p.op = "call" /\ p.to = b /\ MakeJmpNear(a, b, "call") = <<p>>
  <2>1. CASE Far(a, b)
    <3>1. MakeJmpNear(a, b, "call") = <<Piece("call", a, 16, b)>>
      BY <2>1 DEF MakeJmpNear
    <3>. QED
      BY <3>1 DEF Piece, PieceType
  <2>2. CASE ~Far(a, b)
    <3>1. MakeJmpNear(a, b, "call") = <<Piece("call", a, 5, a + 5 + (b - a - 5))>>
      BY <2>2 DEF MakeJmpNear
    <3>2. a + 5 + (b - a - 5) = b
      OBVIOUS
    <3>. QED
      BY <3>1, <3>2 DEF Piece, PieceType
  <2>. QED
    BY <2>1, <2>2
<1>2. MakeJmpNear(a, b, "jmp") \in Seq(Transfer)
  <2>1. PICK len \in 2 .. 14, x \in Int : MakeJmpNear(a, b, "jmp") = <<Piece("jmp", a, len, x)>>
    BY JmpPiece
  <2>2. PICK p \in Transfer : p = Piece("jmp", a, len, x)
    <3>1. Piece("jmp", a, len, x) \in Transfer
      BY DEF Piece, Transfer
    <3>. QED
      BY <3>1, Zenon
  <2>3. <<p>> \in Seq(Transfer)
    OBVIOUS
  <2>4. MakeJmpNear(a, b, "jmp") = <<p>>
    BY <2>1, <2>2, Zenon
  <2>. QED
    BY <2>3, <2>4, Zenon
<1>. QED
  BY <1>1, <1>2

\* So do the pieces of a translated conditional jump.
LEMMA ConditionalMoved ==
  ASSUME NEW a \in Int, NEW b \in Int, NEW e \in Int, NEW kind, NEW k \in Int
  PROVE  MakeJmpcNear(a, b, e, kind, k) \in Seq(Transfer)
<1>. PICK a2 \in Int, a6 \in Int : a2 = a + 2 /\ a6 = a + 6
  OBVIOUS
<1>. DEFINE over == MakeJmpNear(a2, e, "jmp")
            after == a2 + over[1].len
            cond == IF kind = "jcc32"
                      THEN <<Piece("jcc", a, 6, a + 6 + (b - a - 5))>>
                      ELSE <<Piece("jcc", a, 2, a + 2 + Int8(k + 16)),
                             Piece("junk", a + 2, 4, a + 6)>>
<1>1. over \in Seq(Transfer) /\ after \in Int
  <2>1. PICK len \in 2 .. 14, x \in Int : over = <<Piece("jmp", a2, len, x)>>
    BY JmpPiece
  <2>2. over[1].len = len
    BY <2>1 DEF Piece
  <2>3. over \in Seq(Transfer)
    BY NearMoved
  <2>4. after = a2 + len
    BY <2>2
  <2>. QED
    BY <2>3, <2>4
<1>2. cond \in Seq(Transfer)
  <2>1. /\ Piece("jcc", a, 6, a + 6 + (b - a - 5)) \in Transfer
        /\ Piece("jcc", a, 2, a + 2 + Int8(k + 16)) \in Transfer
        /\ Piece("junk", a + 2, 4, a + 6) \in Transfer
    BY DEF Piece, Transfer, Int8
  <2>2. \A x, y \in Transfer : <<x>> \in Seq(Transfer) /\ <<x, y>> \in Seq(Transfer)
    OBVIOUS
  <2>. QED
    BY <2>1, <2>2
<1>3. MakeJmpNear(after, b, "jmp") \in Seq(Transfer) /\ MakeJmpNear(a6, e, "jmp") \in Seq(Transfer)
  BY <1>1, NearMoved
<1>4. MakeJmpShort(a, after, "jcc") \in Seq(Transfer)
  <2>1. Piece("jcc", a, 2, a + 2 + Int8(after - a - 2)) \in Transfer
    BY <1>1 DEF Piece, Transfer, Int8
  <2>. QED
    BY <2>1 DEF MakeJmpShort
<1>5. MakeJmpcNear(a, b, e, kind, k)
        = IF Far(a, b) THEN (MakeJmpShort(a, after, "jcc") \o over) \o MakeJmpNear(after, b, "jmp")
          ELSE cond \o MakeJmpNear(a6, e, "jmp")
  BY DEF MakeJmpcNear
<1>. HIDE DEF over, after, cond
<1>6. \A x, y \in Seq(Transfer) : x \o y \in Seq(Transfer)
  OBVIOUS
<1>7. MakeJmpShort(a, after, "jcc") \o over \in Seq(Transfer)
  BY <1>1, <1>4, <1>6
<1>. QED
  BY <1>1, <1>2, <1>3, <1>5, <1>6, <1>7

\* The addresses that are computed from displacements are the targets.
LEMMA Destinations ==
  ASSUME MoveTypes, NEW t \in Targets
  PROVE  /\ Offsets /\ t \in Int /\ There \in Int /\ Here \in Int
         /\ get_dest_address_0xe9(Here, t - Here - 5) = t
         /\ get_dest_address_0xeb(Here, t - Here - 2) = t
<1>1. Offsets /\ t \in Int /\ Here \in Int /\ There \in Int
  BY SizeAssumption DEF MoveTypes, Offsets, Here, There
<1>. QED
  BY <1>1 DEF get_dest_address_0xe9, get_dest_address_0xeb

\* The instruction that is counted in.
LEMMA Counted ==
  ASSUME MoveTypes, NEW op \in {"plain", "call", "jmp", "jcc32", "jcc8", "loop"},
         NEW len \in 1 .. 16, NEW t \in Int, Count(op, len, t)
  PROVE  \E i \in PieceType : i.op = op /\ i.to = t /\ head' = Append(head, i)
<1>1. Here \in Int
  BY SizeAssumption DEF MoveTypes, Here
<1>2. Piece(op, Here, len, t) \in PieceType /\ Piece(op, Here, len, t).op = op
      /\ Piece(op, Here, len, t).to = t
  BY <1>1 DEF Piece, PieceType
<1>. QED
  BY <1>2 DEF Count

\* A decoding step keeps the types.
LEMMA DecodingTypes ==
  ASSUME MoveTypes, Decoding, NEW len \in Nat, Stop(len) \/ GoOn(len), pto' \in Nat
  PROVE  MoveTypes'
<1>1. pfrom' \in Nat /\ pc' \in {"decode", "tail"}
  BY DEF Stop, GoOn, MoveTypes
<1>. QED
  BY <1>1 DEF Decoding, args, MoveTypes

\* Calls.
LEMMA CallMoved ==
  ASSUME MoveInv, NEW t \in Targets, CopyCall(t)
  PROVE  MoveInv'
<1>1. /\ Decoding /\ GoOn(5) /\ Count("call", 5, t)
      /\ Emit(MakeJmpNear(There, t, "call"))
  BY Destinations DEF CopyCall, MoveInv
<1>2. Offsets /\ There \in Int /\ t \in Int /\ pto \in Nat
  BY Destinations DEF MoveInv, MoveTypes
<1>3. PICK p \in PieceType : p.op = "call" /\ p.to = t /\ MakeJmpNear(There, t, "call") = <<p>>
  BY <1>2, NearMoved
<1>4. out' = out \o <<p>>
  BY <1>1, <1>3 DEF Emit
<1>5. PICK i \in PieceType : i.op = "call" /\ i.to = t /\ head' = Append(head, i)
  BY <1>1, <1>2, Counted DEF MoveInv
<1>6. SameStraight(out', head')
  BY <1>3, <1>4, <1>5, StraightOnBoth DEF MoveInv
<1>7. pto' \in Nat
  <2>1. PICK d \in 2 .. 16 : pto' = pto + d
    BY <1>1, <1>2, EmitNear
  <2>. QED
    BY <1>2, <2>1
<1>. QED
  BY <1>1, <1>6, <1>7, DecodingTypes DEF MoveInv

\* Jumps, and the jump to the rest.
LEMMA JumpsMoved ==
  ASSUME MoveInv, NEW b \in Int, Emit(MakeJmpNear(There, b, "jmp"))
  PROVE  /\ SameStraight(out', head) /\ pto' \in Nat
         /\ \A k \in PieceType : k.op \notin {"plain", "call"} => SameStraight(out', Append(head, k))
<1>1. Offsets /\ There \in Int /\ pto \in Nat
  BY SizeAssumption DEF MoveInv, MoveTypes, Offsets, There
<1>2. PICK q \in Seq(Transfer) : q = MakeJmpNear(There, b, "jmp")
  BY <1>1, NearMoved
<1>3. out' = out \o q
  BY <1>2 DEF Emit
<1>4. PICK d \in 2 .. 16 : pto' = pto + d
  BY <1>1, EmitNear
<1>5. pto' \in Nat
  BY <1>1, <1>4
<1>6. PICK j \in PieceType : j.op = "jmp"
  <2>1. Piece("jmp", 0, 2, 0) \in PieceType /\ Piece("jmp", 0, 2, 0).op = "jmp"
    BY DEF Piece, PieceType
  <2>. QED
    BY <2>1
<1>. QED
  BY <1>3, <1>5, <1>6, TransfersOnBoth DEF MoveInv

LEMMA JmpMoved ==
  ASSUME MoveInv, NEW t \in Targets, CopyJmpNear(t) \/ CopyJmpShort(t)
  PROVE  MoveInv'
<1>1. /\ Decoding /\ (Stop(5) \/ Stop(2)) /\ (Count("jmp", 5, t) \/ Count("jmp", 2, t))
      /\ Emit(MakeJmpNear(There, t, "jmp")) /\ t \in Int
  BY Destinations DEF CopyJmpNear, CopyJmpShort, MoveInv
<1>2. PICK i \in PieceType : i.op = "jmp" /\ head' = Append(head, i)
  BY <1>1, Counted DEF MoveInv
<1>3. SameStraight(out', head') /\ pto' \in Nat
  BY <1>1, <1>2, JumpsMoved
<1>. QED
  BY <1>1, <1>3, DecodingTypes DEF MoveInv

LEMMA RestReached ==
  ASSUME MoveInv, JumpToRest
  PROVE  MoveInv'
<1>1. Here \in Int /\ pto \in Nat
  BY SizeAssumption DEF MoveInv, MoveTypes, Here
<1>2. SameStraight(out', head) /\ pto' \in Nat
  <2>1. CASE pfrom < fromsize /\ pto < tosize
    BY <1>1, <2>1, JumpsMoved DEF JumpToRest
  <2>2. CASE ~(pfrom < fromsize /\ pto < tosize)
    BY <1>1, <2>2 DEF JumpToRest, MoveInv
  <2>. QED
    BY <2>1, <2>2
<1>. QED
  BY <1>2 DEF JumpToRest, args, MoveInv, MoveTypes

\* Conditional jumps.
LEMMA ConditionalJumpMoved ==
  ASSUME MoveInv, NEW t \in Targets, NEW kind \in {"jcc32", "jcc8"}, CopyJmpc(t, kind)
  PROVE  MoveInv'
<1>. DEFINE len == IF kind = "jcc32" THEN 6 ELSE 2
            code == MakeJmpcNear(There, t, Here + len, kind, t - Here - 2)
<1>1. Offsets /\ There \in Int /\ Here \in Int /\ t \in Int /\ There = to + pto
      /\ Here + len \in Int /\ t - Here - 2 \in Int
  <2>1. There \in Int /\ Here \in Int /\ t \in Int /\ There = to + pto /\ Offsets
    BY Destinations DEF MoveInv, There
  <2>. QED
    BY <2>1
<1>2. Decoding /\ Stop(len) /\ Count(kind, len, t) /\ Emit(code)
  BY DEF CopyJmpc
<1>3. code \in Seq(Transfer)
  <2>. HIDE DEF len
  <2>. QED
    BY <1>1, ConditionalMoved
<1>4. EndsWithin30(There, code)
  <2>. HIDE DEF len
  <2>. QED
    BY <1>1, ConditionalLength, Zenon
<1>5. len \in 1 .. 16 /\ len \in Nat
  OBVIOUS
<1>. HIDE DEF code, len
<1>6. pto' \in Nat
  <2>. PICK y \in Nat, b \in Int : y = pto /\ b = to
    BY <1>1 DEF Offsets
  <2>1. PICK d \in 0 .. 30 : End(code) = There + d
    BY <1>4 DEF EndsWithin30
  <2>2. pto' = End(code) - b
    BY <1>2, EmitEnd
  <2>3. There = b + y
    BY <1>1
  <2>4. ((b + y) + d) - b = y + d
    OBVIOUS
  <2>5. pto' = y + d
    BY <2>1, <2>2, <2>3, <2>4, Zenon
  <2>. QED
    BY <2>5
<1>7. PICK i \in PieceType : i.op = kind /\ head' = Append(head, i)
  <2>1. MoveTypes /\ t \in Int
    BY <1>1 DEF MoveInv
  <2>2. (kind = "jcc32" /\ Count("jcc32", 6, t)) \/ (kind = "jcc8" /\ Count("jcc8", 2, t))
    BY DEF CopyJmpc
  <2>3. CASE kind = "jcc32" /\ Count("jcc32", 6, t)
    BY <2>1, <2>3, Counted
  <2>4. CASE kind = "jcc8" /\ Count("jcc8", 2, t)
    BY <2>1, <2>4, Counted
  <2>. QED
    BY <2>2, <2>3, <2>4, Zenon
<1>8. SameStraight(out', head')
  BY <1>2, <1>3, <1>7, TransfersOnBoth DEF MoveInv, Emit
<1>. QED
  BY <1>2, <1>5, <1>6, <1>8, DecodingTypes DEF MoveInv

\* Instructions copied as they are.
LEMMA PlainMoved ==
  ASSUME MoveInv, NEW n \in PlainSizes, CopyPlain(n)
  PROVE  MoveInv'
<1>1. n \in 1 .. 15 /\ to \in Int /\ pto \in Nat /\ Here \in Int /\ There \in Int /\ There = to + pto
  BY SizeAssumption DEF MoveInv, MoveTypes, Here, There
<1>2. Decoding /\ GoOn(n) /\ Count("plain", n, Here) /\ Emit(<<Piece("plain", There, n, Here)>>)
  BY DEF CopyPlain
<1>3. PICK p \in PieceType : p = Piece("plain", There, n, Here) /\ p.op = "plain" /\ p.to = Here
                             /\ p.at = There /\ p.len = n
  <2>1. Piece("plain", There, n, Here) \in PieceType
    BY <1>1 DEF Piece, PieceType
  <2>2. LET p == Piece("plain", There, n, Here)
        IN p.op = "plain" /\ p.to = Here /\ p.at = There /\ p.len = n
    BY DEF Piece
  <2>. QED
    BY <2>1, <2>2, Zenon
<1>4. out' = out \o <<p>>
  BY <1>2, <1>3 DEF Emit
<1>5. PICK i \in PieceType : i.op = "plain" /\ i.to = Here /\ head' = Append(head, i)
  <2>1. PICK i \in PieceType : i = Piece("plain", Here, n, Here) /\ i.op = "plain" /\ i.to = Here
    <3>1. Piece("plain", Here, n, Here) \in PieceType
      BY <1>1 DEF Piece, PieceType
    <3>2. LET i == Piece("plain", Here, n, Here) IN i.op = "plain" /\ i.to = Here
      BY DEF Piece
    <3>. QED
      BY <3>1, <3>2, Zenon
  <2>2. head' = Append(head, i)
    BY <1>2, <2>1 DEF Count
  <2>. QED
    BY <2>1, <2>2
<1>6. SameStraight(out', head')
  BY <1>3, <1>4, <1>5, StraightOnBoth DEF MoveInv
<1>7. pto' \in Nat
  <2>1. pto' = End(<<p>>) - to
    BY <1>2, <1>3, EmitEnd
  <2>2. End(<<p>>) = There + n
    BY <1>3 DEF End
  <2>. QED
    BY <1>1, <2>1, <2>2
<1>. QED
  BY <1>1, <1>2, <1>6, <1>7, DecodingTypes DEF MoveInv

\* What ends the head without being translated.
LEMMA EndsMoved ==
  ASSUME MoveInv, DecodeFails \/ MeetRelative \/ (\E t \in Targets : MeetLoop(t))
  PROVE  MoveInv'
<1>1. CASE DecodeFails
  BY <1>1 DEF DecodeFails, args, MoveInv, MoveTypes
<1>2. CASE MeetRelative
  <2>1. Decoding /\ Stop(0) /\ pto' \in Nat /\ UNCHANGED <<out, head>>
    BY <1>2 DEF MeetRelative, MoveInv, MoveTypes
  <2>. QED
    BY <2>1, DecodingTypes DEF MoveInv
<1>3. ASSUME NEW t \in Targets, MeetLoop(t) PROVE MoveInv'
  <2>1. Decoding /\ Stop(2) /\ pto' \in Nat /\ out' = out /\ Count("loop", 2, t)
    BY <1>3 DEF MeetLoop, MoveInv, MoveTypes
  <2>2. PICK i \in PieceType : i.op = "loop" /\ head' = Append(head, i)
    BY <2>1, Counted, Destinations DEF MoveInv
  <2>3. <<>> \in Seq(Transfer)
    OBVIOUS
  <2>4. SameStraight(out', head')
    BY <2>1, <2>2, <2>3, TransfersOnBoth DEF MoveInv
  <2>. QED
    BY <2>1, <2>4, DecodingTypes DEF MoveInv
<1>. QED
  BY <1>1, <1>2, <1>3

\* Every step keeps it.
LEMMA MovesKept == MoveInv /\ [Next]_vars => MoveInv'
<1>. SUFFICES ASSUME MoveInv, [Next]_vars PROVE MoveInv'
  OBVIOUS
<1>1. CASE UNCHANGED vars
  BY <1>1 DEF vars, args, MoveInv, MoveTypes
<1>. QED
  BY <1>1, CallMoved, JmpMoved, RestReached, ConditionalJumpMoved, PlainMoved, EndsMoved DEF Next

LEMMA NothingMoved == Init => MoveInv
<1>1. SameStraight(<<>>, <<>>)
  BY DEF SameStraight
<1>. QED
  BY <1>1, SizeAssumption DEF Init, MoveInv, MoveTypes

\* It fixes the types.
LEMMA MovesTyped == MoveInv => TypeOK
<1>. SUFFICES ASSUME MoveInv PROVE TypeOK
  OBVIOUS
<1>1. out \in Seq(PieceType) /\ head \in Seq(PieceType)
  BY DEF MoveInv, SameStraight
<1>2. /\ \A i \in DOMAIN out : out[i] \in PieceType
      /\ \A i \in DOMAIN head : head[i] \in PieceType
  BY <1>1
<1>3. \A p \in {out[i] : i \in DOMAIN out} \cup {head[i] : i \in DOMAIN head} : p \in PieceType
  BY <1>2, Zenon
<1>. QED
  BY <1>3 DEF MoveInv, MoveTypes, TypeOK, PieceType

\* The positions and pieces keep their types, whatever the function, the place
\* of the buffer and its size: the write position never goes back in front of
\* the buffer (hooklib.c 244-318).
THEOREM PiecesTyped == Spec => []TypeOK
BY MovesTyped, NothingMoved, MovesKept, PTL DEF Spec

\* Whatever the instructions of the function and wherever the buffer is, the
\* buffer performs the plain instructions and the calls of the head, each once
\* and in order, each call with its own callee (hooklib.c 271-304).
THEOREM HeadAlwaysMoved == Spec => []HeadMoved
<1>1. MoveInv => HeadMoved
  BY DEF MoveInv, SameStraight, HeadMoved
<1>. QED
  BY <1>1, NothingMoved, MovesKept, PTL DEF Spec

-----------------------------------------------------------------------------
(* Where control leaves the buffer.  BufferExit chooses a function that    *)
(* computes backwards from the last piece; that there is one is shown by   *)
(* induction on the number of pieces.                                      *)

\* What holds of 0, and of a number if of the one before, holds of all.
LEMMA NatSetInduction ==
  ASSUME NEW S, 0 \in S, \A n \in Nat : n \in S => n + 1 \in S
  PROVE  Nat \subseteq S
<1>. SUFFICES ASSUME NEW k \in Nat, k \notin S PROVE FALSE
  OBVIOUS
<1>1. PICK x \in Nat \ S : \A y \in Nat \ S : ~ (<<y, x>> \in OpToRel(<,Nat))
  <2>1. Nat \ S \subseteq Nat /\ Nat \ S # {}
    OBVIOUS
  <2>. QED
    BY <2>1, NatLessThanWellFounded, WFMin
<1>2. \A y \in Nat \ S : ~(y < x)
  BY <1>1 DEF OpToRel
<1>3. x - 1 \in Nat /\ x - 1 \notin S
  BY x # 0, x + 0 \in Nat
<1>. QED
  BY <1>2, <1>3

Landing(o, f, i, a) ==
  IF \E j \in i + 1 .. Len(o) : o[j].at = a
    THEN f[CHOOSE j \in i + 1 .. Len(o) : o[j].at = a] ELSE a

FlowStep(o, taken, f, i) ==
  IF i = Len(o) + 1 THEN Wild
  ELSE CASE o[i].op = "jmp"  -> Landing(o, f, i, o[i].to)
         [] o[i].op = "jcc"  -> IF taken THEN Landing(o, f, i, o[i].to) ELSE f[i + 1]
         [] o[i].op = "junk" -> Wild
         [] OTHER            -> f[i + 1]

\* A function that follows the pieces of o from the k-th on.
FlowFrom(o, taken, k, f) == f = [i \in k .. Len(o) + 1 |-> FlowStep(o, taken, f, i)]

SameBehind(f, g, i, n) == \A j \in i + 1 .. n + 1 : f[j] = g[j]

\* A piece depends on those behind it only.
LEMMA StepLooksAhead ==
  ASSUME NEW o, NEW taken, NEW n \in Nat, n = Len(o), NEW i \in 1 .. n + 1,
         NEW f, NEW g, SameBehind(f, g, i, n)
  PROVE  FlowStep(o, taken, f, i) = FlowStep(o, taken, g, i)
<1>. \A j \in i + 1 .. n + 1 : f[j] = g[j]
  BY DEF SameBehind
<1>1. CASE i = n + 1
  BY <1>1 DEF FlowStep
<1>2. CASE i # n + 1
  <2>1. f[i + 1] = g[i + 1]
    BY <1>2
  <2>2. ASSUME NEW a PROVE Landing(o, f, i, a) = Landing(o, g, i, a)
    <3>1. CASE \E j \in i + 1 .. n : o[j].at = a
      <4>. DEFINE c == CHOOSE j \in i + 1 .. n : o[j].at = a
      <4>1. c \in i + 1 .. n
        BY <3>1
      <4>. HIDE DEF c
      <4>2. f[c] = g[c]
        BY <4>1
      <4>. QED
        BY <3>1, <4>2 DEF Landing, c
    <3>2. CASE ~ \E j \in i + 1 .. n : o[j].at = a
      BY <3>2 DEF Landing
    <3>. QED
      BY <3>1, <3>2
  <2>. QED
    BY <1>2, <2>1, <2>2 DEF FlowStep
<1>. QED
  BY <1>1, <1>2

LEMMA FlowExists ==
  ASSUME NEW S, NEW o \in Seq(S), NEW taken
  PROVE  \E f : FlowFrom(o, taken, 1, f)
<1>. PICK n \in Nat : n = Len(o)
  OBVIOUS
<1>. DEFINE D == {m \in Nat : m <= n => \E f : FlowFrom(o, taken, n + 1 - m, f)}
<1>1. 0 \in D
  <2>. PICK f : f = [i \in n + 1 .. n + 1 |-> Wild]
    OBVIOUS
  <2>1. \A i \in n + 1 .. n + 1 : FlowStep(o, taken, f, i) = Wild
    BY DEF FlowStep
  <2>2. FlowFrom(o, taken, n + 1 - 0, f)
    BY <2>1 DEF FlowFrom
  <2>. QED
    BY <2>2
<1>2. ASSUME NEW m \in Nat, m \in D PROVE m + 1 \in D
  <2>. SUFFICES ASSUME m + 1 <= n PROVE \E f : FlowFrom(o, taken, n + 1 - (m + 1), f)
    OBVIOUS
  <2>. PICK k \in Nat : k = n - m /\ k \in 1 .. n
    OBVIOUS
  <2>1. PICK f : FlowFrom(o, taken, k + 1, f)
    <3>1. n + 1 - m = k + 1 /\ m <= n
      OBVIOUS
    <3>. QED
      BY <1>2, <3>1
  <2>. PICK x : x = FlowStep(o, taken, f, k)
    OBVIOUS
  <2>. PICK g : g = [i \in k .. n + 1 |-> IF i = k THEN x ELSE f[i]]
    OBVIOUS
  <2>2. f = [i \in k + 1 .. n + 1 |-> FlowStep(o, taken, f, i)]
    BY <2>1 DEF FlowFrom
  <2>3. \A j \in k + 1 .. n + 1 : g[j] = f[j]
    OBVIOUS
  <2>4. ASSUME NEW i \in k .. n + 1 PROVE g[i] = FlowStep(o, taken, g, i)
    <3>1. FlowStep(o, taken, g, i) = FlowStep(o, taken, f, i)
      <4>1. i \in 1 .. n + 1 /\ SameBehind(g, f, i, n)
        BY <2>3 DEF SameBehind
      <4>. QED
        BY <4>1, StepLooksAhead
    <3>2. CASE i = k
      BY <3>1, <3>2
    <3>3. CASE i # k
      <4>1. i \in k + 1 .. n + 1
        BY <3>3
      <4>2. f[i] = FlowStep(o, taken, f, i)
        BY <2>2, <4>1
      <4>. QED
        BY <2>3, <3>1, <4>1, <4>2
    <3>. QED
      BY <3>2, <3>3
  <2>5. g = [i \in k .. n + 1 |-> FlowStep(o, taken, g, i)]
    BY <2>4
  <2>6. FlowFrom(o, taken, k, g)
    BY <2>5, Zenon DEF FlowFrom
  <2>7. n + 1 - (m + 1) = k
    OBVIOUS
  <2>. QED
    BY <2>6, <2>7
<1>. HIDE DEF D
<1>3. n \in D
  BY <1>1, <1>2, NatSetInduction
<1>4. n + 1 - n = 1
  OBVIOUS
<1>. QED
  BY <1>3, <1>4 DEF D

\* BufferExit is what such a function says of the first piece.
LEMMA ExitIsFlow ==
  ASSUME NEW taken \in BOOLEAN, out \in Seq(PieceType)
  PROVE  \E f : FlowFrom(out, taken, 1, f) /\ BufferExit(taken) = f[1]
<1>. DEFINE chosen == CHOOSE f : FlowFrom(out, taken, 1, f)
<1>1. FlowFrom(out, taken, 1, chosen)
  BY FlowExists
<1>2. BufferExit(taken) = chosen[1]
  BY DEF BufferExit, FlowFrom, FlowStep, Landing
<1>. QED
  BY <1>1, <1>2

-----------------------------------------------------------------------------
(* Ways through the pieces.                                                *)

Flows(o, k) == \A i \in 1 .. k : o[i].op \in {"plain", "call"}

\* Plain instructions and calls, then a jump to t.
JumpsTo(o, t) ==
  \E k \in 0 .. Len(o) - 1 :
    /\ Flows(o, k) /\ o[k + 1].op = "jmp" /\ o[k + 1].to = t
    /\ \A j \in k + 2 .. Len(o) : o[j].at # t

\* Then a conditional jump over a jump to e, to a jump to t.
SplitsAt(o, k, t, e) ==
  /\ k \in 0 .. Len(o) - 3
  /\ Flows(o, k)
  /\ o[k + 1].op = "jcc" /\ o[k + 1].to = o[k + 3].at
  /\ o[k + 2].op = "jmp" /\ o[k + 2].to = e /\ o[k + 2].at # o[k + 3].at
  /\ o[k + 3].op = "jmp" /\ o[k + 3].to = t /\ o[k + 3].at # e
  /\ \A j \in k + 4 .. Len(o) : o[j].at \notin {o[k + 3].at, t, e}

\* What does not transfer control goes on behind.
LEMMA FlowsOn ==
  ASSUME NEW o, NEW n \in Nat, n = Len(o), NEW taken, NEW f, FlowFrom(o, taken, 1, f),
         NEW k \in 0 .. n, Flows(o, k)
  PROVE  f[1] = f[k + 1]
<1>. DEFINE D == {m \in Nat : m <= k => f[1] = f[m + 1]}
<1>1. 0 \in D
  OBVIOUS
<1>2. ASSUME NEW m \in Nat, m \in D PROVE m + 1 \in D
  <2>. SUFFICES ASSUME m + 1 <= k PROVE f[1] = f[(m + 1) + 1]
    OBVIOUS
  <2>1. f[1] = f[m + 1]
    BY <1>2
  <2>2. m + 1 \in 1 .. n /\ m + 1 # n + 1 /\ m + 1 \in 1 .. k /\ m + 1 \in 1 .. n + 1
    OBVIOUS
  <2>3. f[m + 1] = FlowStep(o, taken, f, m + 1)
    BY <2>2 DEF FlowFrom
  <2>4. o[m + 1].op \in {"plain", "call"}
    BY <2>2 DEF Flows
  <2>5. FlowStep(o, taken, f, m + 1) = f[(m + 1) + 1]
    BY <2>2, <2>4 DEF FlowStep
  <2>. QED
    BY <2>1, <2>3, <2>5
<1>. HIDE DEF D
<1>3. k \in D
  <2>1. Nat \subseteq D
    BY <1>1, <1>2, NatSetInduction
  <2>. QED
    BY <2>1
<1>. QED
  BY <1>3 DEF D

LEMMA JumpLeaves ==
  ASSUME NEW o, NEW n \in Nat, n = Len(o), NEW taken, NEW f, FlowFrom(o, taken, 1, f),
         NEW i \in 1 .. n, o[i].op = "jmp", \A j \in i + 1 .. n : o[j].at # o[i].to
  PROVE  f[i] = o[i].to
<1>1. i # n + 1 /\ i \in 1 .. n + 1
  OBVIOUS
<1>2. f[i] = FlowStep(o, taken, f, i)
  BY <1>1 DEF FlowFrom
<1>3. FlowStep(o, taken, f, i) = Landing(o, f, i, o[i].to)
  BY <1>1 DEF FlowStep
<1>4. Landing(o, f, i, o[i].to) = o[i].to
  BY DEF Landing
<1>. QED
  BY <1>2, <1>3, <1>4

LEMMA JumpExit ==
  ASSUME NEW o, NEW n \in Nat, n = Len(o), NEW taken, NEW f, FlowFrom(o, taken, 1, f),
         NEW t, JumpsTo(o, t)
  PROVE  f[1] = t
<1>1. PICK k \in 0 .. n - 1 :
        /\ Flows(o, k) /\ o[k + 1].op = "jmp" /\ o[k + 1].to = t
        /\ \A j \in k + 2 .. n : o[j].at # t
  BY DEF JumpsTo
<1>2. k \in 0 .. n /\ k + 1 \in 1 .. n
  OBVIOUS
<1>3. f[1] = f[k + 1]
  BY <1>1, <1>2, FlowsOn
<1>4. \A j \in (k + 1) + 1 .. n : o[j].at # o[k + 1].to
  BY <1>1
<1>5. f[k + 1] = t
  BY <1>1, <1>2, <1>4, JumpLeaves
<1>. QED
  BY <1>3, <1>5

LEMMA SplitExit ==
  ASSUME NEW o, NEW n \in Nat, n = Len(o), NEW taken \in BOOLEAN, NEW f,
         FlowFrom(o, taken, 1, f), NEW k, NEW t, NEW e, SplitsAt(o, k, t, e)
  PROVE  f[1] = IF taken THEN t ELSE e
<1>1. /\ k \in 0 .. n - 3 /\ Flows(o, k)
      /\ o[k + 1].op = "jcc" /\ o[k + 1].to = o[k + 3].at
      /\ o[k + 2].op = "jmp" /\ o[k + 2].to = e /\ o[k + 2].at # o[k + 3].at
      /\ o[k + 3].op = "jmp" /\ o[k + 3].to = t /\ o[k + 3].at # e
      /\ \A j \in k + 4 .. n : o[j].at \notin {o[k + 3].at, t, e}
  BY DEF SplitsAt
<1>2. k \in 0 .. n /\ k + 1 \in 1 .. n /\ k + 2 \in 1 .. n /\ k + 3 \in 1 .. n
      /\ k + 1 \in 1 .. n + 1 /\ k + 1 # n + 1
  BY <1>1
<1>3. f[1] = f[k + 1]
  BY <1>1, <1>2, FlowsOn
<1>4. f[k + 2] = e
  <2>1. \A j \in (k + 2) + 1 .. n : j = k + 3 \/ j \in k + 4 .. n
    BY <1>1
  <2>2. \A j \in (k + 2) + 1 .. n : o[j].at # o[k + 2].to
    BY <1>1, <2>1
  <2>. QED
    BY <1>1, <1>2, <2>2, JumpLeaves
<1>5. f[k + 3] = t
  <2>1. \A j \in (k + 3) + 1 .. n : o[j].at # o[k + 3].to
    BY <1>1
  <2>. QED
    BY <1>1, <1>2, <2>1, JumpLeaves
<1>6. f[k + 1] = FlowStep(o, taken, f, k + 1)
  BY <1>2 DEF FlowFrom
<1>7. FlowStep(o, taken, f, k + 1)
        = IF taken THEN Landing(o, f, k + 1, o[k + 1].to) ELSE f[(k + 1) + 1]
  BY <1>1, <1>2 DEF FlowStep
<1>8. Landing(o, f, k + 1, o[k + 1].to) = f[k + 3]
  <2>1. k + 3 \in (k + 1) + 1 .. n /\ o[k + 3].at = o[k + 1].to
    BY <1>1
  <2>2. ASSUME NEW j \in (k + 1) + 1 .. n, o[j].at = o[k + 1].to PROVE j = k + 3
    <3>1. j = k + 2 \/ j = k + 3 \/ j \in k + 4 .. n
      BY <1>1
    <3>. QED
      BY <1>1, <2>2, <3>1
  <2>. DEFINE c == CHOOSE j \in (k + 1) + 1 .. n : o[j].at = o[k + 1].to
  <2>3. c = k + 3
    BY <2>1, <2>2
  <2>. HIDE DEF c
  <2>. QED
    BY <2>1, <2>3 DEF Landing, c
<1>9. (k + 1) + 1 = k + 2
  BY <1>1
<1>. QED
  BY <1>3, <1>4, <1>5, <1>6, <1>7, <1>8, <1>9

-----------------------------------------------------------------------------
(* What the last pieces do.                                                *)

\* A jump of any form but the two-byte one that does not reach leads where it
\* should.
LEMMA JmpReaches ==
  ASSUME NEW a \in Int, NEW b \in Int, b - a \notin 130 .. 132
  PROVE  \E len \in 2 .. 14 : MakeJmpNear(a, b, "jmp") = <<Piece("jmp", a, len, b)>>
<1>1. CASE Far(a, b)
  <2>1. MakeJmpNear(a, b, "jmp") = <<Piece("jmp", a, 14, b)>>
    BY <1>1 DEF MakeJmpNear
  <2>. QED
    BY <2>1
<1>2. CASE ~Far(a, b) /\ abs64(b - a - 5) < 128
  <2>1. MakeJmpNear(a, b, "jmp") = <<Piece("jmp", a, 2, a + 2 + Int8(b - a - 2))>>
    BY <1>2 DEF MakeJmpNear, MakeJmpShort
  <2>2. b - a - 2 \in -128 .. 127
    BY <1>2 DEF abs64
  <2>3. Int8(b - a - 2) = b - a - 2
    BY <2>2 DEF Int8
  <2>4. a + 2 + Int8(b - a - 2) = b
    BY <2>3
  <2>. QED
    BY <2>1, <2>4
<1>3. CASE ~Far(a, b) /\ ~(abs64(b - a - 5) < 128)
  <2>1. MakeJmpNear(a, b, "jmp") = <<Piece("jmp", a, 5, a + 5 + (b - a - 5))>>
    BY <1>3 DEF MakeJmpNear
  <2>2. a + 5 + (b - a - 5) = b
    OBVIOUS
  <2>. QED
    BY <2>1, <2>2
<1>. QED
  BY <1>1, <1>2, <1>3

\* One piece more.
LEMMA OneMore ==
  ASSUME NEW S, NEW o \in Seq(S), NEW p \in S
  PROVE  /\ o \o <<p>> \in Seq(S) /\ Len(o \o <<p>>) = Len(o) + 1
         /\ \A j \in 1 .. Len(o) : (o \o <<p>>)[j] = o[j]
         /\ (o \o <<p>>)[Len(o) + 1] = p
OBVIOUS

LEMMA FlowMore ==
  ASSUME NEW o \in Seq(PieceType), Flows(o, Len(o)), NEW p \in PieceType,
         p.op \in {"plain", "call"}
  PROVE  Flows(o \o <<p>>, Len(o \o <<p>>))
<1>. PICK n \in Nat : n = Len(o)
  OBVIOUS
<1>. PICK q : q = o \o <<p>>
  OBVIOUS
<1>1. Len(q) = n + 1 /\ (\A j \in 1 .. n : q[j] = o[j]) /\ q[n + 1] = p
  BY OneMore
<1>2. \A j \in 1 .. n : o[j].op \in {"plain", "call"}
  BY DEF Flows
<1>3. \A j \in 1 .. n + 1 : q[j].op \in {"plain", "call"}
  BY <1>1, <1>2
<1>. QED
  BY <1>1, <1>3 DEF Flows

LEMMA FlowThenJump ==
  ASSUME NEW o \in Seq(PieceType), Flows(o, Len(o)), NEW p \in PieceType, p.op = "jmp"
  PROVE  JumpsTo(o \o <<p>>, p.to)
<1>. PICK n \in Nat : n = Len(o)
  OBVIOUS
<1>. PICK q : q = o \o <<p>>
  OBVIOUS
<1>1. Len(q) = n + 1 /\ (\A j \in 1 .. n : q[j] = o[j]) /\ q[n + 1] = p
  BY OneMore
<1>2. Flows(q, n)
  BY <1>1 DEF Flows
<1>3. n \in 0 .. Len(q) - 1 /\ n + 2 .. Len(q) = {}
  BY <1>1
<1>. QED
  BY <1>1, <1>2, <1>3 DEF JumpsTo

LEMMA JumpStays ==
  ASSUME NEW o \in Seq(PieceType), NEW t, JumpsTo(o, t), NEW p \in PieceType, p.at # t
  PROVE  JumpsTo(o \o <<p>>, t)
<1>. PICK n \in Nat : n = Len(o)
  OBVIOUS
<1>. PICK q : q = o \o <<p>>
  OBVIOUS
<1>1. Len(q) = n + 1 /\ (\A j \in 1 .. n : q[j] = o[j]) /\ q[n + 1] = p
  BY OneMore
<1>2. PICK k \in 0 .. n - 1 :
        /\ Flows(o, k) /\ o[k + 1].op = "jmp" /\ o[k + 1].to = t
        /\ \A j \in k + 2 .. n : o[j].at # t
  BY DEF JumpsTo
<1>3. Flows(q, k)
  BY <1>1, <1>2 DEF Flows
<1>4. k \in 0 .. Len(q) - 1 /\ k + 1 \in 1 .. n
  BY <1>1
<1>5. \A j \in k + 2 .. n + 1 : q[j].at # t
  BY <1>1, <1>2
<1>. QED
  BY <1>1, <1>2, <1>3, <1>4, <1>5 DEF JumpsTo

\* A conditional jump over q to r.
JumpsOver(p, q, r) ==
  /\ p.op = "jcc" /\ p.to = r.at
  /\ q.op = "jmp" /\ q.at # r.at
  /\ r.op = "jmp" /\ r.at # q.to

\* Sequences with the same elements.
LEMMA SameSequence ==
  ASSUME NEW S, NEW s \in Seq(S), NEW t \in Seq(S), Len(s) = Len(t),
         \A i \in 1 .. Len(t) : s[i] = t[i]
  PROVE  s = t
OBVIOUS

\* w is o with three pieces more.
ThreeMore(w, n, o, p, q, r) ==
  /\ Len(w) = n + 3 /\ \A j \in 1 .. n : w[j] = o[j]
  /\ w[n + 1] = p /\ w[n + 2] = q /\ w[n + 3] = r

LEMMA Three ==
  ASSUME NEW S, NEW p \in S, NEW q \in S, NEW r \in S
  PROVE  (<<p>> \o <<q>>) \o <<r>> = <<p, q, r>>
<1>. PICK v : v = <<p>> \o <<q>>
  OBVIOUS
<1>. PICK w : w = v \o <<r>>
  OBVIOUS
<1>1. v \in Seq(S) /\ Len(v) = 2 /\ v[1] = p /\ v[2] = q
  OBVIOUS
<1>2. w \in Seq(S) /\ Len(w) = 3 /\ w[1] = p /\ w[2] = q /\ w[3] = r
  BY <1>1
<1>3. <<p, q, r>> \in Seq(S) /\ Len(<<p, q, r>>) = 3
  OBVIOUS
<1>4. \A i \in 1 .. 3 : w[i] = <<p, q, r>>[i]
  <2>1. <<p, q, r>>[1] = p /\ <<p, q, r>>[2] = q /\ <<p, q, r>>[3] = r
    OBVIOUS
  <2>2. \A i \in 1 .. 3 : i = 1 \/ i = 2 \/ i = 3
    OBVIOUS
  <2>. QED
    BY <1>2, <2>1, <2>2, Zenon
<1>5. w = <<p, q, r>>
  BY <1>2, <1>3, <1>4, SameSequence
<1>. QED
  BY <1>5, Zenon

LEMMA Lengthened ==
  ASSUME NEW S, NEW o \in Seq(S), NEW p \in S, NEW q \in S, NEW r \in S
  PROVE  Len(o) \in Nat /\ ThreeMore(o \o <<p, q, r>>, Len(o), o, p, q, r)
BY DEF ThreeMore

\* Plain instructions and calls, then a conditional jump over q to r.
Splits(w, q, r) == \E k : SplitsAt(w, k, r.to, q.to) /\ w[k + 3] = r

LEMMA SplitMade ==
  ASSUME NEW o \in Seq(PieceType), Flows(o, Len(o)),
         NEW p \in PieceType, NEW q \in PieceType, NEW r \in PieceType, JumpsOver(p, q, r)
  PROVE  Splits(o \o <<p, q, r>>, q, r)
<1>. PICK w : w = o \o <<p, q, r>>
  OBVIOUS
<1>1. PICK n \in Nat : n = Len(o) /\ ThreeMore(w, n, o, p, q, r)
  BY Lengthened
<1>2. Len(w) = n + 3 /\ (\A j \in 1 .. n : w[j] = o[j])
      /\ w[n + 1] = p /\ w[n + 2] = q /\ w[n + 3] = r
  BY <1>1 DEF ThreeMore
<1>3. Flows(w, n)
  BY <1>1, <1>2 DEF Flows
<1>4. n \in 0 .. Len(w) - 3 /\ n + 4 .. Len(w) = {}
  BY <1>2
<1>5. SplitsAt(w, n, r.to, q.to)
  BY <1>2, <1>3, <1>4 DEF SplitsAt, JumpsOver
<1>6. Splits(w, q, r)
  BY <1>2, <1>5 DEF Splits
<1>. QED
  BY <1>6, Zenon

LEMMA SplitStays ==
  ASSUME NEW o \in Seq(PieceType), NEW k, NEW t, NEW e, SplitsAt(o, k, t, e),
         NEW p \in PieceType, p.at \notin {o[k + 3].at, t, e}
  PROVE  SplitsAt(o \o <<p>>, k, t, e)
<1>. PICK n \in Nat : n = Len(o)
  OBVIOUS
<1>. PICK q : q = o \o <<p>>
  OBVIOUS
<1>1. Len(q) = n + 1 /\ (\A j \in 1 .. n : q[j] = o[j]) /\ q[n + 1] = p
  BY OneMore
<1>2. k \in 0 .. n - 3 /\ Flows(o, k) /\ \A j \in k + 4 .. n : o[j].at \notin {o[k + 3].at, t, e}
  BY DEF SplitsAt
<1>3. Flows(q, k)
  BY <1>1, <1>2 DEF Flows
<1>4. q[k + 1] = o[k + 1] /\ q[k + 2] = o[k + 2] /\ q[k + 3] = o[k + 3] /\ k \in 0 .. Len(q) - 3
  BY <1>1, <1>2, SMTT(30)
<1>5. \A j \in k + 4 .. n + 1 : q[j].at \notin {o[k + 3].at, t, e}
  BY <1>1, <1>2
<1>. QED
  BY <1>1, <1>3, <1>4, <1>5 DEF SplitsAt

-----------------------------------------------------------------------------
(* Where control leaves the buffer, step by step.                          *)

\* b is out of reach of t in the build x.
FarFrom(x, b, t) == x /\ abs64(t - b - 5) > NearMax

\* The last instruction of the head is translated: o are the pieces written to
\* b .. b + y - 1 for the head h of n bytes.
Leaving(x, b, y, n, o, h) ==
  /\ y \in 0 .. 71
  /\ h = <<>> => n = 0
  /\ h # <<>> =>
       LET last == h[Len(h)]
       IN /\ last.op \in {"plain", "call"} =>
               Flows(o, Len(o)) /\ y \in 0 .. 57 /\ n \in 0 .. 28
          /\ last.op = "jmp" => last.to \in Targets /\ JumpsTo(o, last.to)
          /\ last.op \in {"jcc32", "jcc8"} /\ FarFrom(x, b, last.to) =>
               /\ last.to \in Targets /\ n \in 0 .. 28
               /\ \E k : SplitsAt(o, k, last.to, from + n) /\ o[k + 3].at # b + y

\* The jump to the rest is appended too, if there was room for all.
Left(x, b, n, ample, o, h) ==
  /\ h = <<>> => n = 0
  /\ h # <<>> =>
       LET last == h[Len(h)]
       IN /\ last.op \in {"plain", "call"} /\ ample => JumpsTo(o, from + n)
          /\ last.op = "jmp" => JumpsTo(o, last.to)
          /\ last.op \in {"jcc32", "jcc8"} /\ FarFrom(x, b, last.to) =>
               \E k : SplitsAt(o, k, last.to, from + n)

LeaveInv ==
  /\ MoveInv
  /\ pc = "decode" => /\ pfrom < mincopysize /\ 5 * pto <= 16 * pfrom
                      /\ Flows(out, Len(out)) /\ (head = <<>> => pfrom = 0)
                      /\ head # <<>> => head[Len(head)].op \in {"plain", "call"}
  /\ pc = "tail" => Leaving(isX64, to, pto, pfrom, out, head)
  /\ pc = "done" => ret = 0 \/ Left(isX64, to, ret, Ample, out, head)

\* The buffer is written from its beginning, at most 41 bytes for at most 13
\* of the function before the last instruction.
LEMMA DecodingBounds ==
  ASSUME LeaveInv, Decoding
  PROVE  /\ pto \in 0 .. 41 /\ pfrom \in 0 .. 13 /\ 5 * pto <= 16 * pfrom
         /\ mincopysize \in 1 .. 14 /\ pfrom < mincopysize
<1>1. pto \in Nat /\ pfrom \in Nat /\ mincopysize \in 1 .. 14 /\ pfrom < mincopysize
      /\ 5 * pto <= 16 * pfrom
  BY SizeAssumption DEF LeaveInv, MoveInv, MoveTypes, Decoding
<1>. QED
  BY <1>1

\* An instruction that does not transfer control.
LEMMA FlowingOn ==
  ASSUME LeaveInv, MoveInv', Decoding, NEW len \in 1 .. 15, NEW d \in 1 .. 16,
         pto' = pto + d, 5 * d <= 16 * len, GoOn(len),
         NEW p \in PieceType, NEW i \in PieceType,
         p.op \in {"plain", "call"}, i.op \in {"plain", "call"},
         out' = out \o <<p>>, head' = Append(head, i)
  PROVE  LeaveInv'
<1>. PICK y \in 0 .. 41, n \in 0 .. 13, m \in 1 .. 14 :
       y = pto /\ n = pfrom /\ m = mincopysize /\ 5 * y <= 16 * n /\ n < m
  <2>1. pto \in 0 .. 41 /\ pfrom \in 0 .. 13 /\ 5 * pto <= 16 * pfrom
        /\ mincopysize \in 1 .. 14 /\ pfrom < mincopysize
    BY DecodingBounds
  <2>. QED
    BY <2>1
<1>1. out \in Seq(PieceType) /\ head \in Seq(PieceType) /\ Flows(out, Len(out))
  BY DEF LeaveInv, MoveInv, SameStraight, Decoding
<1>2. Flows(out', Len(out'))
  <2>. PICK o : o = out
    OBVIOUS
  <2>. PICK q : q = o \o <<p>>
    OBVIOUS
  <2>1. Flows(q, Len(q))
    BY <1>1, FlowMore
  <2>2. q = out'
    OBVIOUS
  <2>. QED
    BY <2>1, <2>2, Zenon
<1>3. head' # <<>> /\ head'[Len(head')] = i
  BY <1>1
<1>4. pto' \in 0 .. 57 /\ mincopysize' = m
  BY DEF Decoding, args
<1>5. CASE n + len >= m
  <2>1. EnoughMoved(len) /\ (GoOn(len) => Stop(len))
    BY <1>5, Zenon DEF GoOn, EnoughMoved
  <2>2. pfrom' = n + len /\ pc' = "tail"
    BY <2>1 DEF Stop
  <2>3. pfrom' \in 0 .. 28
    BY <2>2
  <2>4. Leaving(isX64', to', pto', pfrom', out', head')
    BY <1>2, <1>3, <1>4, <2>3 DEF Leaving
  <2>. QED
    BY <2>2, <2>4 DEF LeaveInv
<1>6. CASE ~(n + len >= m)
  <2>1. (pfrom' = n + len /\ pc' = "decode") \/ (pfrom' = n + (len + len) /\ pc' = "tail")
    BY <1>6 DEF GoOn, EnoughMoved, Stop
  <2>2. CASE pfrom' = n + len /\ pc' = "decode"
    <3>1. pfrom' < m /\ 5 * pto' <= 16 * pfrom'
      BY <1>6, <2>2
    <3>. QED
      BY <1>2, <1>3, <1>4, <2>2, <3>1 DEF LeaveInv
  <2>3. CASE pfrom' = n + (len + len) /\ pc' = "tail"
    <3>1. pfrom' \in 0 .. 28
      BY <1>6, <2>3
    <3>2. Leaving(isX64', to', pto', pfrom', out', head')
      BY <1>2, <1>3, <1>4, <3>1 DEF Leaving
    <3>. QED
      BY <2>3, <3>2 DEF LeaveInv
  <2>. QED
    BY <2>1, <2>2, <2>3
<1>. QED
  BY <1>5, <1>6

LEMMA CallLeaves ==
  ASSUME LeaveInv, MoveInv', NEW t \in Targets, CopyCall(t)
  PROVE  LeaveInv'
<1>1. /\ Decoding /\ GoOn(5) /\ Count("call", 5, t) /\ MoveTypes
      /\ Emit(MakeJmpNear(There, t, "call"))
  BY Destinations DEF CopyCall, LeaveInv, MoveInv
<1>2. Offsets /\ There \in Int /\ t \in Int
  BY <1>1, Destinations
<1>3. PICK p \in PieceType : p.op = "call" /\ p.to = t /\ MakeJmpNear(There, t, "call") = <<p>>
  BY <1>2, NearMoved
<1>4. out' = out \o <<p>>
  BY <1>1, <1>3 DEF Emit
<1>5. PICK i \in PieceType : i.op = "call" /\ i.to = t /\ head' = Append(head, i)
  BY <1>1, <1>2, Counted
<1>6. PICK d \in 2 .. 16 : pto' = pto + d
  BY <1>1, <1>2, EmitNear
<1>7. /\ d \in 1 .. 16 /\ 5 * d <= 16 * 5 /\ 5 \in 1 .. 15
      /\ p.op \in {"plain", "call"} /\ i.op \in {"plain", "call"}
  BY <1>3, <1>5
<1>. QED
  BY <1>1, <1>3, <1>4, <1>5, <1>6, <1>7, FlowingOn

LEMMA PlainLeaves ==
  ASSUME LeaveInv, MoveInv', NEW n \in PlainSizes, CopyPlain(n)
  PROVE  LeaveInv'
<1>1. n \in 1 .. 15 /\ to \in Int /\ pto \in Nat /\ Here \in Int /\ There \in Int /\ There = to + pto
      /\ MoveTypes
  BY SizeAssumption DEF LeaveInv, MoveInv, MoveTypes, Here, There
<1>2. Decoding /\ GoOn(n) /\ Count("plain", n, Here) /\ Emit(<<Piece("plain", There, n, Here)>>)
  BY DEF CopyPlain
<1>3. PICK p \in PieceType : p = Piece("plain", There, n, Here) /\ p.op = "plain"
                             /\ p.at = There /\ p.len = n
  <2>1. Piece("plain", There, n, Here) \in PieceType
    BY <1>1 DEF Piece, PieceType
  <2>2. LET p == Piece("plain", There, n, Here)
        IN p.op = "plain" /\ p.at = There /\ p.len = n
    BY DEF Piece
  <2>. QED
    BY <2>1, <2>2, Zenon
<1>4. out' = out \o <<p>>
  BY <1>2, <1>3 DEF Emit
<1>5. PICK i \in PieceType : i.op = "plain" /\ head' = Append(head, i)
  <2>1. PICK h \in Int : h = Here
    BY <1>1
  <2>2. n \in 1 .. 16 /\ Count("plain", n, h)
    BY <1>1, <1>2, <2>1 DEF Count
  <2>3. \E i \in PieceType : i.op = "plain" /\ i.to = h /\ head' = Append(head, i)
    BY <1>1, <2>1, <2>2, Counted, SMTT(30)
  <2>. QED
    BY <2>1, <2>3
<1>6. pto' = pto + n
  <2>1. pto' = End(<<p>>) - to
    BY <1>2, <1>3, EmitEnd
  <2>2. End(<<p>>) = There + n
    BY <1>3 DEF End
  <2>. QED
    BY <1>1, <2>1, <2>2
<1>7. /\ 5 * n <= 16 * n /\ n \in 1 .. 16
      /\ p.op \in {"plain", "call"} /\ i.op \in {"plain", "call"}
  BY <1>1, <1>3, <1>5
<1>. QED
  BY <1>1, <1>2, <1>4, <1>5, <1>6, <1>7, FlowingOn

\* A jump: the buffer leaves where it does.
LEMMA JmpLeaves ==
  ASSUME LeaveInv, MoveInv', Apart, NEW t \in Targets, CopyJmpNear(t) \/ CopyJmpShort(t)
  PROVE  LeaveInv'
<1>1. /\ Decoding /\ (Stop(5) \/ Stop(2)) /\ (Count("jmp", 5, t) \/ Count("jmp", 2, t))
      /\ Emit(MakeJmpNear(There, t, "jmp")) /\ t \in Int /\ MoveTypes
      /\ Offsets /\ There \in Int
  BY Destinations DEF CopyJmpNear, CopyJmpShort, LeaveInv, MoveInv
<1>2. PICK i \in PieceType : i.op = "jmp" /\ i.to = t /\ head' = Append(head, i)
  BY <1>1, Counted
<1>. PICK y \in 0 .. 41 : y = pto
  BY <1>1, DecodingBounds
<1>3. t - There \notin 130 .. 132
  BY <1>1 DEF Apart, MoveTypes, There
<1>4. PICK len \in 2 .. 14 : MakeJmpNear(There, t, "jmp") = <<Piece("jmp", There, len, t)>>
  BY <1>1, <1>3, JmpReaches
<1>5. PICK p \in PieceType : p = Piece("jmp", There, len, t) /\ p.op = "jmp" /\ p.to = t
  <2>1. Piece("jmp", There, len, t) \in PieceType /\ Piece("jmp", There, len, t).op = "jmp"
        /\ Piece("jmp", There, len, t).to = t
    BY <1>1 DEF Piece, PieceType
  <2>. QED
    BY <2>1, Zenon
<1>6. out' = out \o <<p>>
  BY <1>1, <1>4, <1>5 DEF Emit
<1>7. out \in Seq(PieceType) /\ head \in Seq(PieceType) /\ Flows(out, Len(out))
  BY <1>1 DEF LeaveInv, MoveInv, SameStraight, Decoding
<1>8. JumpsTo(out', t)
  <2>. PICK o : o = out
    OBVIOUS
  <2>1. JumpsTo(o \o <<p>>, t)
    BY <1>5, <1>7, FlowThenJump
  <2>. QED
    BY <1>6, <2>1
<1>9. PICK d \in 2 .. 16 : pto' = y + d
  BY <1>1, EmitNear
<1>10. pto' \in 0 .. 71
  BY <1>9
<1>11. head' # <<>> /\ head'[Len(head')] = i
  BY <1>2, <1>7
<1>12. Leaving(isX64', to', pto', pfrom', out', head')
  BY <1>2, <1>8, <1>10, <1>11 DEF Leaving
<1>13. pc' = "tail"
  BY <1>1 DEF Stop
<1>. QED
  BY <1>12, <1>13 DEF LeaveInv

\* What ends the head without being translated.
LEMMA EndsLeave ==
  ASSUME LeaveInv, MoveInv', DecodeFails \/ MeetRelative \/ (\E t \in Targets : MeetLoop(t))
  PROVE  LeaveInv'
<1>1. CASE DecodeFails
  BY <1>1 DEF DecodeFails, LeaveInv
<1>2. CASE MeetRelative
  <2>1. Decoding /\ Stop(0) /\ UNCHANGED <<out, head, pto>>
    BY <1>2 DEF MeetRelative
  <2>2. pto \in 0 .. 41 /\ pfrom \in 0 .. 13
    BY <2>1, DecodingBounds
  <2>3. pfrom' = pfrom /\ pc' = "tail" /\ UNCHANGED <<isX64, to>>
    BY <2>1, <2>2 DEF Stop, Decoding, args
  <2>4. Leaving(isX64, to, pto, pfrom, out, head)
    BY <2>1, <2>2 DEF Leaving, LeaveInv, Decoding
  <2>. QED
    BY <2>1, <2>3, <2>4 DEF LeaveInv
<1>3. ASSUME NEW t \in Targets, MeetLoop(t) PROVE LeaveInv'
  <2>1. Decoding /\ Stop(2) /\ out' = out /\ pto' = pto /\ Count("loop", 2, t)
    BY <1>3 DEF MeetLoop
  <2>2. PICK i \in PieceType : i.op = "loop" /\ head' = Append(head, i)
    BY <2>1, Counted, Destinations DEF LeaveInv, MoveInv
  <2>3. pto' \in 0 .. 71
    BY <2>1, DecodingBounds
  <2>4. head' # <<>> /\ head'[Len(head')] = i
    BY <2>2 DEF LeaveInv, MoveInv, SameStraight
  <2>5. Leaving(isX64', to', pto', pfrom', out', head')
    BY <2>2, <2>3, <2>4 DEF Leaving
  <2>6. pc' = "tail"
    BY <2>1 DEF Stop
  <2>. QED
    BY <2>5, <2>6 DEF LeaveInv
<1>. QED
  BY <1>1, <1>2, <1>3

\* A conditional jump over a jump to e, to a jump to t.
FarTranslated(a, t, e, kind, c) ==
  \E p \in PieceType, q \in PieceType, r \in PieceType :
    /\ MakeJmpcNear(a, t, e, kind, c) = <<p, q, r>>
    /\ JumpsOver(p, q, r) /\ q.to = e /\ r.to = t /\ r.len = 14

\* That is what a conditional jump out of reach becomes.
LEMMA FarPieces ==
  ASSUME Apart, NEW b \in Buffers, NEW t \in Targets, FarFrom(isX64, b, t),
         NEW y \in 0 .. 41, NEW n \in 0 .. 19, NEW kind, NEW c \in Int,
         NEW a, a = b + y, NEW e, e = from + n
  PROVE  FarTranslated(a, t, e, kind, c)
<1>. b \in Int /\ from \in Int /\ t \in Int /\ a \in Int /\ e \in Int
  BY SizeAssumption
<1>1. isX64 /\ \A x \in 0 .. 57 : abs64(t - (b + x) - 5) > NearMax
  BY DEF FarFrom, Apart
<1>2. Far(a, t)
  BY <1>1 DEF Far
<1>. PICK a2 \in Int : a2 = a + 2
  OBVIOUS
<1>3. e - a2 \notin 130 .. 132
  <2>1. y + 2 \in 0 .. 57 /\ n \in 0 .. 28
    OBVIOUS
  <2>2. (from + n) - (b + (y + 2)) \notin 130 .. 132
    BY <2>1 DEF Apart
  <2>. QED
    BY <2>2
<1>4. PICK l \in 2 .. 14 : MakeJmpNear(a2, e, "jmp") = <<Piece("jmp", a2, l, e)>>
  BY <1>3, JmpReaches
<1>. PICK z \in Int : z = a2 + l
  OBVIOUS
<1>5. a2 # z
  OBVIOUS
<1>6. MakeJmpNear(z, t, "jmp") = <<Piece("jmp", z, 14, t)>>
  <2>1. y + 2 + l \in 0 .. 57 /\ z = b + (y + 2 + l)
    OBVIOUS
  <2>2. Far(z, t)
    BY <1>1, <2>1 DEF Far
  <2>. QED
    BY <2>2 DEF MakeJmpNear
<1>7. MakeJmpShort(a, z, "jcc") = <<Piece("jcc", a, 2, z)>>
  <2>1. z - a - 2 \in 2 .. 14
    OBVIOUS
  <2>2. Int8(z - a - 2) = z - a - 2
    <3>1. \A x \in 2 .. 14 : Int8(x) = x
      BY DEF Int8
    <3>. QED
      BY <2>1, <3>1
  <2>3. a + 2 + Int8(z - a - 2) = z
    BY <2>2
  <2>. QED
    BY <2>3 DEF MakeJmpShort
<1>8. PICK p \in PieceType, q \in PieceType, r \in PieceType :
        /\ p = Piece("jcc", a, 2, z) /\ p.op = "jcc" /\ p.to = z
        /\ q = Piece("jmp", a2, l, e) /\ q.op = "jmp" /\ q.to = e /\ q.at = a2 /\ q.len = l
        /\ r = Piece("jmp", z, 14, t) /\ r.op = "jmp" /\ r.to = t /\ r.at = z /\ r.len = 14
  <2>1. /\ Piece("jcc", a, 2, z) \in PieceType /\ Piece("jmp", a2, l, e) \in PieceType
        /\ Piece("jmp", z, 14, t) \in PieceType
    BY DEF Piece, PieceType
  <2>2. /\ Piece("jcc", a, 2, z).op = "jcc" /\ Piece("jcc", a, 2, z).to = z
        /\ Piece("jmp", a2, l, e).op = "jmp" /\ Piece("jmp", a2, l, e).to = e
        /\ Piece("jmp", a2, l, e).at = a2 /\ Piece("jmp", a2, l, e).len = l
        /\ Piece("jmp", z, 14, t).op = "jmp" /\ Piece("jmp", z, 14, t).to = t
        /\ Piece("jmp", z, 14, t).at = z /\ Piece("jmp", z, 14, t).len = 14
    BY DEF Piece
  <2>. QED
    BY <2>1, <2>2, Zenon
<1>9. MakeJmpcNear(a, t, e, kind, c) = <<p, q, r>>
  <2>1. MakeJmpNear(a + 2, e, "jmp") = <<q>>
    BY <1>4, <1>8
  <2>2. a + 2 + q.len = z /\ <<q>>[1] = q
    BY <1>8
  <2>3. MakeJmpcNear(a, t, e, kind, c) = (<<p>> \o <<q>>) \o <<r>>
    BY <1>2, <1>6, <1>7, <1>8, <2>1, <2>2, Zenon DEF MakeJmpcNear
  <2>4. (<<p>> \o <<q>>) \o <<r>> = <<p, q, r>>
    BY Three
  <2>. QED
    BY <2>3, <2>4, Zenon
<1>10. z # e
  <2>1. z \in b .. b + 71 /\ e \in from .. from + 28
    OBVIOUS
  <2>. QED
    BY <2>1 DEF Apart
<1>11. JumpsOver(p, q, r)
  <2>1. p.to = r.at
    BY <1>8, Zenon
  <2>2. q.at # r.at
    BY <1>5, <1>8, Zenon
  <2>3. r.at # q.to
    BY <1>8, <1>10, Zenon
  <2>. QED
    BY <1>8, <2>1, <2>2, <2>3, Zenon DEF JumpsOver
<1>. QED
  BY <1>8, <1>9, <1>11, Zenon DEF FarTranslated

\* The buffer with the three pieces.
LEMMA SplitWritten ==
  ASSUME LeaveInv, pc = "decode", NEW p \in PieceType, NEW q \in PieceType, NEW r \in PieceType,
         JumpsOver(p, q, r), out' = out \o <<p, q, r>>
  PROVE  Splits(out', q, r)
<1>1. out \in Seq(PieceType) /\ Flows(out, Len(out))
  BY DEF LeaveInv, MoveInv, SameStraight
<1>2. Splits(out \o <<p, q, r>>, q, r)
  BY <1>1, SplitMade
<1>. QED
  BY <1>2, Zenon

LEMMA ConditionalLeaves ==
  ASSUME LeaveInv, MoveInv', Apart, NEW t \in Targets, NEW kind \in {"jcc32", "jcc8"},
         CopyJmpc(t, kind)
  PROVE  LeaveInv'
<1>. DEFINE size == IF kind = "jcc32" THEN 6 ELSE 2
<1>. PICK len \in {2, 6} : len = size
  OBVIOUS
<1>1. Decoding /\ Stop(len) /\ Count(kind, len, t)
      /\ Emit(MakeJmpcNear(There, t, Here + len, kind, t - Here - 2))
  BY DEF CopyJmpc
<1>. HIDE DEF size
<1>2. Offsets /\ There \in Int /\ Here \in Int /\ t \in Int /\ MoveTypes
  BY Destinations DEF LeaveInv, MoveInv
<1>. PICK y \in 0 .. 41, n \in 0 .. 13 : y = pto /\ n = pfrom
  BY <1>1, DecodingBounds
<1>. PICK b \in Buffers : b = to
  BY <1>2 DEF MoveTypes
<1>3. b \in Int /\ from \in Int
  BY SizeAssumption
<1>. PICK a \in Int, e \in Int, c \in Int :
       a = b + y /\ e = (from + n) + len /\ c = t - Here - 2
  BY <1>2, <1>3
<1>4. There = a /\ Here + len = e
  BY DEF There, Here
<1>5. Emit(MakeJmpcNear(a, t, e, kind, c))
  BY <1>1, <1>4
<1>6. PICK i \in PieceType : i.op = kind /\ i.to = t /\ head' = Append(head, i)
  <2>1. MoveTypes /\ t \in Int
    BY <1>2
  <2>2. (kind = "jcc32" /\ Count("jcc32", 6, t)) \/ (kind = "jcc8" /\ Count("jcc8", 2, t))
    BY DEF CopyJmpc
  <2>3. CASE kind = "jcc32" /\ Count("jcc32", 6, t)
    BY <2>1, <2>3, Counted
  <2>4. CASE kind = "jcc8" /\ Count("jcc8", 2, t)
    BY <2>1, <2>4, Counted
  <2>. QED
    BY <2>2, <2>3, <2>4, Zenon
<1>7. head' # <<>> /\ head'[Len(head')] = i
  <2>1. head \in Seq(PieceType)
    BY DEF LeaveInv, MoveInv, SameStraight
  <2>. QED
    BY <1>6, <2>1
<1>8. pto' \in 0 .. 71
  <2>1. PICK d \in 0 .. 30 : End(MakeJmpcNear(a, t, e, kind, c)) = a + d
    <3>1. EndsWithin30(a, MakeJmpcNear(a, t, e, kind, c))
      BY <1>2, ConditionalLength, Zenon
    <3>. QED
      BY <3>1 DEF EndsWithin30
  <2>2. pto' = End(MakeJmpcNear(a, t, e, kind, c)) - b
    BY <1>5, EmitEnd
  <2>3. pto' = y + d
    <3>1. ((b + y) + d) - b = y + d
      BY <1>3
    <3>. QED
      BY <2>1, <2>2, <3>1, Zenon
  <2>. QED
    BY <2>3
<1>9. pfrom' = n + len /\ pc' = "tail" /\ isX64' = isX64 /\ to' = b
  BY <1>1 DEF Stop, Decoding, args
<1>10. ASSUME FarFrom(isX64, b, t)
       PROVE  \E k : SplitsAt(out', k, t, e) /\ out'[k + 3].at # b + pto'
  <2>1. n + len \in 0 .. 19 /\ e = from + (n + len) /\ a = b + y
    BY <1>3
  <2>2. PICK p \in PieceType, q \in PieceType, r \in PieceType :
          /\ MakeJmpcNear(a, t, e, kind, c) = <<p, q, r>>
          /\ JumpsOver(p, q, r) /\ q.to = e /\ r.to = t /\ r.len = 14
    <3>1. PICK m \in 0 .. 19 : m = n + len
      BY <2>1
    <3>2. e = from + m /\ a = b + y /\ FarFrom(isX64, b, t) /\ b \in Buffers
      BY <1>10, <2>1, <3>1
    <3>3. FarTranslated(a, t, e, kind, c)
      BY <3>2, FarPieces
    <3>. QED
      BY <3>3 DEF FarTranslated
  <2>3. out' = out \o <<p, q, r>>
    BY <1>5, <2>2 DEF Emit
  <2>4. pc = "decode" /\ JumpsOver(p, q, r)
    BY <1>1, <2>2 DEF Decoding
  <2>5. PICK k : SplitsAt(out', k, r.to, q.to) /\ out'[k + 3] = r
    <3>1. Splits(out', q, r)
      BY <2>3, <2>4, SplitWritten, Zenon
    <3>. QED
      BY <3>1 DEF Splits
  <2>6. b + pto' # r.at
    <3>1. pto' = End(<<p, q, r>>) - b
      BY <1>5, <2>2, EmitEnd
    <3>2. End(<<p, q, r>>) = r.at + 14 /\ r.at \in Int
      BY <2>2 DEF End, PieceType
    <3>3. pto' = (r.at + 14) - b
      BY <3>1, <3>2
    <3>. QED
      BY <1>3, <3>2, <3>3
  <2>. QED
    BY <2>2, <2>5, <2>6
<1>11. e = from + (n + len) /\ n + len \in 0 .. 28
  BY <1>3
<1>12. Leaving(isX64', to', pto', pfrom', out', head')
  BY <1>6, <1>7, <1>8, <1>9, <1>10, <1>11 DEF Leaving
<1>. QED
  BY <1>9, <1>12 DEF LeaveInv

\* What is written behind a jump is not where it leads.
LEMMA MoreWritten ==
  ASSUME NEW o \in Seq(PieceType), NEW b \in Buffers, Apart, NEW y \in 0 .. 71,
         NEW t \in Targets, NEW p \in PieceType, p.at = b + y
  PROVE  /\ JumpsTo(o, t) => JumpsTo(o \o <<p>>, t)
         /\ \A n \in 0 .. 28 : \A k :
              SplitsAt(o, k, t, from + n) /\ o[k + 3].at # b + y
                => SplitsAt(o \o <<p>>, k, t, from + n)
<1>1. b \in Int /\ from \in Int
  BY SizeAssumption
<1>2. p.at \in b .. b + 71
  BY <1>1
<1>3. p.at # t
  BY <1>2 DEF Apart
<1>4. \A n \in 0 .. 28 : p.at # from + n
  <2>1. \A n \in 0 .. 28 : from + n \in from .. from + 28
    BY <1>1
  <2>. QED
    <3>1. b .. b + 71 \cap (from .. from + 28) = {}
      BY DEF Apart
    <3>. QED
      BY <1>2, <2>1, <3>1
<1>5. JumpsTo(o, t) => JumpsTo(o \o <<p>>, t)
  BY <1>3, JumpStays
<1>6. ASSUME NEW n \in 0 .. 28, NEW k, SplitsAt(o, k, t, from + n), o[k + 3].at # b + y
      PROVE  SplitsAt(o \o <<p>>, k, t, from + n)
  <2>1. p.at \notin {o[k + 3].at, t, from + n}
    BY <1>3, <1>4, <1>6
  <2>. QED
    BY <1>6, <2>1, SplitStays
<1>. QED
  BY <1>5, <1>6

\* The jump to the rest is appended.
LEMMA RestWritten ==
  ASSUME NEW x, NEW b \in Buffers, Apart, NEW y, NEW n, NEW o \in Seq(PieceType), NEW h,
         Leaving(x, b, y, n, o, h), NEW p \in PieceType, p.op = "jmp", p.at = b + y,
         (\E z \in 0 .. 57 : y = z) /\ n \in 0 .. 28 => p.to = from + n
  PROVE  Left(x, b, n, TRUE, o \o <<p>>, h)
<1>1. y \in 0 .. 71 /\ (h = <<>> => n = 0)
  BY DEF Leaving
<1>. SUFFICES ASSUME h # <<>> PROVE Left(x, b, n, TRUE, o \o <<p>>, h)
  BY <1>1 DEF Left
<1>. PICK last : last = h[Len(h)]
  OBVIOUS
<1>2. ASSUME last.op \in {"plain", "call"} PROVE JumpsTo(o \o <<p>>, from + n)
  <2>1. Flows(o, Len(o)) /\ y \in 0 .. 57 /\ n \in 0 .. 28
    BY <1>2 DEF Leaving
  <2>2. p.to = from + n
    BY <2>1
  <2>3. JumpsTo(o \o <<p>>, p.to)
    BY <2>1, FlowThenJump
  <2>. QED
    BY <2>2, <2>3, Zenon
<1>3. ASSUME last.op = "jmp" PROVE JumpsTo(o \o <<p>>, last.to)
  <2>1. last.to \in Targets /\ JumpsTo(o, last.to)
    BY <1>3 DEF Leaving
  <2>. QED
    BY <1>1, <2>1, MoreWritten
<1>4. ASSUME last.op \in {"jcc32", "jcc8"}, FarFrom(x, b, last.to)
      PROVE  \E k : SplitsAt(o \o <<p>>, k, last.to, from + n)
  <2>1. last.to \in Targets /\ n \in 0 .. 28
    BY <1>4 DEF Leaving
  <2>2. PICK k : SplitsAt(o, k, last.to, from + n) /\ o[k + 3].at # b + y
    BY <1>4 DEF Leaving
  <2>3. SplitsAt(o \o <<p>>, k, last.to, from + n)
    BY <1>1, <2>1, <2>2, MoreWritten
  <2>. QED
    BY <2>3
<1>. QED
  BY <1>2, <1>3, <1>4 DEF Left

\* The head is copied, and the jump to the rest appended or not.
LEMMA RestLeaves ==
  ASSUME LeaveInv, MoveInv', Apart, JumpToRest
  PROVE  LeaveInv'
<1>1. /\ pc = "tail" /\ pc' = "done" /\ ret' = pfrom /\ head' = head
      /\ isX64' = isX64 /\ to' = to /\ tosize' = tosize
  BY DEF JumpToRest, args
<1>2. Leaving(isX64, to, pto, pfrom, out, head)
  BY <1>1 DEF LeaveInv
<1>3. out \in Seq(PieceType) /\ to \in Buffers /\ pto \in Nat /\ pfrom \in Nat
      /\ to \in Int /\ from \in Int /\ fromsize \in Nat /\ tosize \in Nat
  BY SizeAssumption DEF LeaveInv, MoveInv, MoveTypes, SameStraight
<1>4. pto \in 0 .. 71 /\ Ample' = Ample
  BY <1>1, <1>2 DEF Leaving, Ample
<1>5. CASE pfrom < fromsize /\ pto < tosize
  <2>1. Emit(MakeJmpNear(There, Here, "jmp"))
    BY <1>5 DEF JumpToRest
  <2>. PICK a \in Int, b \in Int : a = There /\ b = Here
    BY <1>3 DEF There, Here
  <2>2. PICK len \in 2 .. 14, x \in Int :
          /\ MakeJmpNear(a, b, "jmp") = <<Piece("jmp", a, len, x)>>
          /\ b - a \notin 130 .. 132 => x = b
    <3>1. CASE b - a \notin 130 .. 132
      BY <3>1, JmpReaches
    <3>2. CASE b - a \in 130 .. 132
      BY <3>2, JmpPiece, ZenonT(20)
    <3>. QED
      BY <3>1, <3>2
  <2>3. PICK p \in PieceType :
          p = Piece("jmp", a, len, x) /\ p.op = "jmp" /\ p.at = a /\ p.to = x
    <3>1. LET q == Piece("jmp", a, len, x)
          IN q \in PieceType /\ q.op = "jmp" /\ q.at = a /\ q.to = x
      BY DEF Piece, PieceType
    <3>. QED
      BY <3>1, Zenon
  <2>4. out' = out \o <<p>>
    BY <2>1, <2>2, <2>3 DEF Emit
  <2>5. ASSUME pto \in 0 .. 57, pfrom \in 0 .. 28 PROVE p.to = from + pfrom
    <3>1. (from + pfrom) - (to + pto) \notin 130 .. 132
      BY <1>3, <2>5 DEF Apart
    <3>2. b - a \notin 130 .. 132
      BY <3>1 DEF There, Here
    <3>. QED
      BY <2>2, <2>3, <3>2 DEF Here
  <2>6. p.at = to + pto
    BY <2>3 DEF There
  <2>7. Left(isX64, to, pfrom, TRUE, out \o <<p>>, head)
    BY <1>2, <1>3, <2>3, <2>5, <2>6, RestWritten
  <2>8. Left(isX64, to, pfrom, Ample, out \o <<p>>, head)
    BY <2>7, Zenon DEF Left
  <2>9. Left(isX64', to', ret', Ample', out', head')
    BY <1>1, <1>4, <2>4, <2>8, Zenon
  <2>. QED
    BY <1>1, <2>9 DEF LeaveInv
<1>6. CASE ~(pfrom < fromsize /\ pto < tosize)
  <2>1. out' = out
    BY <1>6 DEF JumpToRest
  <2>2. ~(Ample /\ pto \in 0 .. 57 /\ pfrom \in 0 .. 28)
    BY <1>3, <1>6 DEF Ample
  <2>3. Left(isX64, to, pfrom, Ample, out, head)
    BY <1>2, <2>2 DEF Leaving, Left
  <2>4. Left(isX64', to', ret', Ample', out', head')
    BY <1>1, <1>4, <2>1, <2>3, Zenon
  <2>. QED
    BY <1>1, <2>4 DEF LeaveInv
<1>. QED
  BY <1>5, <1>6

\* Every step keeps it.
LEMMA LeavesKept == Apart /\ LeaveInv /\ [Next]_vars => LeaveInv'
<1>. SUFFICES ASSUME Apart, LeaveInv, [Next]_vars PROVE LeaveInv'
  OBVIOUS
<1>1. MoveInv'
  BY MovesKept DEF LeaveInv
<1>2. CASE UNCHANGED vars
  BY <1>1, <1>2 DEF vars, args, LeaveInv, Ample
<1>. QED
  BY <1>1, <1>2, CallLeaves, JmpLeaves, RestLeaves, ConditionalLeaves, PlainLeaves, EndsLeave
     DEF Next

LEMMA NothingLeft == Init => LeaveInv
<1>. SUFFICES ASSUME Init PROVE LeaveInv
  OBVIOUS
<1>1. MoveInv
  BY NothingMoved
<1>2. mincopysize \in 1 .. 14
  BY SizeAssumption DEF Init
<1>. QED
  BY <1>1, <1>2 DEF Init, LeaveInv, Flows

\* Where control leaves the buffer.
LEMMA ExitsAgree ==
  ASSUME LeaveInv, Usable
  PROVE  /\ (Ample /\ LastOp \in {"plain", "call", "jmp"}) => ExitsKept
         /\ (LastOp \in {"jcc32", "jcc8"} /\ Far(to, HeadExit(TRUE))) => ExitsKept
<1>1. out \in Seq(PieceType) /\ head \in Seq(PieceType)
  BY DEF LeaveInv, MoveInv, SameStraight
<1>2. ret # 0 /\ pc = "done"
  BY SizeAssumption DEF Usable, LeaveInv, MoveInv, MoveTypes
<1>3. Left(isX64, to, ret, Ample, out, head) /\ head # <<>>
  BY <1>2 DEF LeaveInv, Left
<1>. PICK last : last = head[Len(head)]
  OBVIOUS
<1>4. LastOp = last.op
  BY DEF LastOp
<1>5. ASSUME NEW taken \in BOOLEAN, Ample, last.op \in {"plain", "call"}
      PROVE  BufferExit(taken) = HeadExit(taken)
  <2>1. JumpsTo(out, from + ret)
    BY <1>3, <1>5 DEF Left
  <2>2. BufferExit(taken) = from + ret
    BY <1>1, <2>1, ExitIsFlow, JumpExit
  <2>3. HeadExit(taken) = from + ret
    BY <1>5 DEF HeadExit
  <2>. QED
    BY <2>2, <2>3, Zenon
<1>6. ASSUME NEW taken \in BOOLEAN, last.op = "jmp"
      PROVE  BufferExit(taken) = HeadExit(taken)
  <2>1. JumpsTo(out, last.to)
    BY <1>3, <1>6 DEF Left
  <2>2. BufferExit(taken) = last.to
    BY <1>1, <2>1, ExitIsFlow, JumpExit
  <2>3. HeadExit(taken) = last.to
    BY <1>6 DEF HeadExit
  <2>. QED
    BY <2>2, <2>3, Zenon
<1>7. ASSUME NEW taken \in BOOLEAN, last.op \in {"jcc32", "jcc8"}, Far(to, HeadExit(TRUE))
      PROVE  BufferExit(taken) = HeadExit(taken)
  <2>1. HeadExit(TRUE) = last.to /\ HeadExit(FALSE) = from + ret
    BY <1>7 DEF HeadExit
  <2>2. FarFrom(isX64, to, last.to)
    BY <1>7, <2>1 DEF Far, FarFrom
  <2>3. PICK k : SplitsAt(out, k, last.to, from + ret)
    BY <1>3, <1>7, <2>2 DEF Left
  <2>4. BufferExit(taken) = IF taken THEN last.to ELSE from + ret
    BY <1>1, <2>3, ExitIsFlow, SplitExit
  <2>. QED
    BY <2>1, <2>4
<1>. QED
  BY <1>4, <1>5, <1>6, <1>7 DEF ExitsKept

\* Wherever the buffer and the targets are, if they are apart, and whatever the
\* instructions of the function are: behind a head of plain instructions and
\* calls the buffer goes on at the first byte that was not moved, behind a jump
\* at the jump's target, whatever form the jumps take (hooklib.c 271-283, 312-315).
THEOREM LeavesAsHead == Spec => [](Apart => LeavesAsHeadDoes)
<1>1. LeaveInv => LeavesAsHeadDoes
  BY ExitsAgree DEF LeavesAsHeadDoes
<1>2. Init => (Apart => LeaveInv)
  BY NothingLeft
<1>3. (Apart => LeaveInv) /\ [Next]_vars => (Apart => LeaveInv)'
  BY LeavesKept DEF Apart
<1>. QED
  BY <1>1, <1>2, <1>3, PTL DEF Spec

\* For such buffers, too: a conditional jump out of reach of its target leaves
\* at its target when it is taken and behind the head when it is not
\* (hooklib.c 200-218).
THEOREM FarConditionalsKept == Spec => [](Apart => FarConditionalKept)
<1>1. LeaveInv => FarConditionalKept
  BY ExitsAgree DEF FarConditionalKept
<1>2. Init => (Apart => LeaveInv)
  BY NothingLeft
<1>3. (Apart => LeaveInv) /\ [Next]_vars => (Apart => LeaveInv)'
  BY LeavesKept DEF Apart
<1>. QED
  BY <1>1, <1>2, <1>3, PTL DEF Spec

-----------------------------------------------------------------------------
(* Filters.                                                                *)

Insn == [op : {"plain", "call", "jmp", "jcc32", "jcc8", "loop"}, at : Int, len : Int, to : Int]

Unconditional == LastOp \notin {"jcc32", "jcc8"}

\* The translation of six bytes that end in no conditional jump.
ShortTail ==
  /\ head \in Seq(Insn)
  /\ mincopysize <= 6 /\ Unconditional => /\ pc = "tail" => pto <= 32
                                          /\ pc = "done" => pto <= 46

FInv == tosize = Room /\ IInv /\ ShortTail

-----------------------------------------------------------------------------
\* The room there is.
LEMMA RoomEnough ==
  /\ Room = IF isX64 THEN 46 ELSE 90
  /\ Room \in Nat
  /\ tosize = Room => Roomy
BY FilterAssumption, SizeAssumption DEF Room, ProxyCodeMax, StubSize, Roomy

\* Counting an instruction in makes it the last one.
LEMMA CountLast ==
  ASSUME head \in Seq(Insn), Here \in Int,
         NEW op \in {"plain", "call", "jmp", "jcc32", "jcc8", "loop"},
         NEW len \in Int, NEW t \in Int, Count(op, len, t)
  PROVE  head' \in Seq(Insn) /\ LastOp' = op
<1>. DEFINE i == Piece(op, Here, len, t)
<1>1. i \in Insn /\ i.op = op
  BY DEF Insn, Piece
<1>2. head' = Append(head, i)
  BY DEF Count
<1>. HIDE DEF i
<1>3. head' \in Seq(Insn) /\ head'[Len(head')] = i
  BY <1>1, <1>2
<1>. QED
  BY <1>1, <1>3 DEF LastOp

\* A step that moves no more than 16 bytes.
LEMMA SmallStep ==
  ASSUME CountInv, ShortTail, Decoding, NEW d \in 0 .. 16, pto' = pto + d,
         head' \in Seq(Insn), pc' \in {"decode", "tail"}
  PROVE  ShortTail'
<1>1. mincopysize <= 6 => pto \in Nat /\ pto <= 16
  BY DEF CountInv, Decoding
<1>2. mincopysize' = mincopysize
  BY DEF Decoding, args
<1>3. mincopysize <= 6 => pto' <= 32
  BY <1>1
<1>. QED
  BY <1>2, <1>3 DEF ShortTail

\* Calls and jumps.
LEMMA TransferStep ==
  ASSUME CountInv, ShortTail, NEW t \in Targets,
         CopyCall(t) \/ CopyJmpNear(t) \/ CopyJmpShort(t)
  PROVE  ShortTail'
<1>1. Decoding /\ pc' \in {"decode", "tail"}
  BY DEF CopyCall, CopyJmpNear, CopyJmpShort, Stop, GoOn
<1>2. \E d \in 2 .. 16 : pto' = pto + d
  BY CountOffsets, DestTypes, EmitNear DEF CopyCall, CopyJmpNear, CopyJmpShort
<1>3. head' \in Seq(Insn)
  BY CountOffsets, DestTypes, CountLast, SizeAssumption DEF CopyCall, CopyJmpNear, CopyJmpShort, ShortTail
<1>. QED
  BY <1>1, <1>2, <1>3, SmallStep

\* Conditional jumps are the exception.
LEMMA ConditionalStep ==
  ASSUME CountInv, ShortTail, NEW t \in Targets, NEW kind \in {"jcc32", "jcc8"},
         CopyJmpc(t, kind)
  PROVE  ShortTail'
<1>1. \E len \in {2, 6} : Count(kind, len, t)
  BY DEF CopyJmpc
<1>2. head' \in Seq(Insn) /\ LastOp' = kind
  BY CountOffsets, <1>1, DestTypes, CountLast, SizeAssumption DEF ShortTail
<1>. QED
  BY <1>2 DEF ShortTail, Unconditional

\* What is copied as it is, or not at all.
LEMMA OtherStep ==
  ASSUME CountInv, ShortTail,
         MeetRelative \/ (\E t \in Targets : MeetLoop(t)) \/ (\E n \in PlainSizes : CopyPlain(n))
  PROVE  ShortTail'
<1>. PICK y \in Nat, a \in Int : y = pto /\ a = to
  BY DEF CountInv
<1>1. CASE MeetRelative
  <2>1. pto' = pto + 0 /\ Decoding /\ pc' = "tail" /\ head' = head
    BY <1>1 DEF MeetRelative, Stop, CountInv
  <2>. QED
    BY <2>1, SmallStep DEF ShortTail
<1>2. ASSUME NEW t \in Targets, MeetLoop(t) PROVE ShortTail'
  <2>1. pto' = pto + 0 /\ Decoding /\ pc' = "tail" /\ Count("loop", 2, t)
    BY <1>2 DEF MeetLoop, Stop, CountInv
  <2>2. head' \in Seq(Insn)
    BY CountOffsets, <2>1, DestTypes, CountLast, SizeAssumption DEF ShortTail
  <2>. QED
    BY <2>1, <2>2, SmallStep
<1>3. ASSUME NEW n \in PlainSizes, CopyPlain(n) PROVE ShortTail'
  <2>. DEFINE code == <<Piece("plain", There, n, Here)>>
  <2>1. n \in 1 .. 15 /\ Decoding /\ Emit(code) /\ pc' \in {"decode", "tail"}
    BY <1>3, SizeAssumption DEF CopyPlain, Stop, GoOn
  <2>2. End(code) = (a + y) + n
    BY DEF End, Piece, There
  <2>3. pto' = End(code) - to
    BY <2>1, EmitEnd
  <2>. HIDE DEF code
  <2>4. End(code) - to = y + n
    BY <2>1, <2>2
  <2>5. pto' = pto + n
    BY <2>3, <2>4, Zenon
  <2>6. Here \in Int /\ Count("plain", n, Here)
    BY <1>3, SizeAssumption DEF CopyPlain, CountInv, Here
  <2>7. head' \in Seq(Insn)
    BY <2>1, <2>6, CountLast DEF ShortTail
  <2>. QED
    BY <2>1, <2>5, <2>7, SmallStep
<1>. QED
  BY <1>1, <1>2, <1>3

\* The jump at the end takes 14 bytes.
LEMMA EndStep ==
  ASSUME CountInv, ShortTail, DecodeFails \/ JumpToRest
  PROVE  ShortTail'
<1>1. mincopysize' = mincopysize /\ head' = head /\ pc' = "done"
  BY DEF DecodeFails, JumpToRest, args
<1>2. LastOp' = LastOp
  BY <1>1 DEF LastOp
<1>3. CASE DecodeFails
  <2>1. mincopysize <= 6 => pto \in Nat /\ pto <= 16
    BY <1>3 DEF DecodeFails, CountInv
  <2>2. pto' = pto
    BY <1>3 DEF DecodeFails
  <2>. QED
    BY <1>1, <1>2, <2>1, <2>2 DEF ShortTail, Unconditional
<1>4. CASE JumpToRest
  <2>1. Here \in Int /\ pto \in Nat /\ pc = "tail"
    BY <1>4, SizeAssumption DEF CountInv, Here, JumpToRest
  <2>2. PICK d \in 0 .. 14 : pto' = pto + d
    <3>1. CASE pfrom < fromsize /\ pto < tosize
      BY CountOffsets, <1>4, <2>1, <3>1, EmitNear DEF JumpToRest
    <3>2. CASE ~(pfrom < fromsize /\ pto < tosize)
      <4>1. pto' = pto + 0
        BY <1>4, <2>1, <3>2 DEF JumpToRest
      <4>. QED
        BY <4>1
    <3>. QED
      BY <3>1, <3>2
  <2>3. pto <= 32 => pto' <= 46
    BY <2>1, <2>2
  <2>. QED
    BY <1>1, <1>2, <2>1, <2>3 DEF ShortTail, Unconditional
<1>. QED
  BY <1>3, <1>4

\* A step of hook_copy_code.
LEMMA CopyStep ==
  ASSUME FInv, Next
  PROVE  FInv'
<1>1. CountInv /\ ShortTail
  BY RoomEnough DEF FInv, IInv
<1>2. ShortTail'
  BY <1>1, TransferStep, ConditionalStep, OtherStep, EndStep DEF Next
<1>3. IInv'
  BY CountInductive DEF FInv
<1>4. tosize' = tosize /\ isX64' = isX64
  BY DEF Next, DecodeFails, MeetRelative, JumpToRest, CopyCall, CopyJmpNear,
     CopyJmpShort, MeetLoop, CopyJmpc, CopyPlain, Decoding, args
<1>. QED
  BY <1>2, <1>3, <1>4 DEF FInv, Room, StubSize, ProxyCodeMax

\* No other step touches the translation.
LEMMA FilterStep == FInv /\ [FNext]_fvars => FInv'
<1>. SUFFICES ASSUME FInv, [FNext]_fvars PROVE FInv'
  OBVIOUS
<1>1. CASE CopyHead
  BY <1>1, CopyStep DEF CopyHead
<1>2. CASE UNCHANGED vars
  BY <1>2 DEF vars, args, FInv, Room, StubSize, ProxyCodeMax, IInv, CountInv, Roomy,
     ShortTail, Unconditional, LastOp
<1>. QED
  BY <1>1, <1>2 DEF FNext, fvars, SlotOutOfReach, TooShort, Install, Uninstall, FilteredCall

\* At the beginning nothing is translated.
LEMMA FilterInitially == FInit => FInv
<1>. SUFFICES ASSUME FInit PROVE FInv
  OBVIOUS
<1>1. Init /\ tosize = Room
  BY DEF FInit
<1>2. IInv
  BY <1>1, CountInitially
<1>3. head = <<>> /\ pc = "decode"
  BY <1>1 DEF Init
<1>. QED
  BY <1>1, <1>2, <1>3 DEF FInv, ShortTail

\* Whatever the instructions of the function, a filter's jump of at most six
\* bytes overruns none of the arrays it is written from, and its translated
\* head fits in proxy_code: on x86 always, on x64 without a conditional jump
\* (hooklib.c 640, 656-659, 810, 822-825).
THEOREM FilterAlwaysFits == FSpec => []FilterFits
<1>1. FInv => FilterFits
  <2>. SUFFICES ASSUME FInv PROVE FilterFits
    OBVIOUS
  <2>1. CountInv /\ ShortTail /\ tosize = Room /\ Room = IF isX64 THEN 46 ELSE 90
    BY RoomEnough DEF FInv, IInv
  <2>2. ret <= SavedMax /\ (mincopysize <= 6 => ret <= JmpCodeMax)
    BY <2>1 DEF CountInv, SavedMax, JmpCodeMax
  <2>3. ASSUME Usable, isX64 => mincopysize <= 6 /\ LastOp \notin {"jcc32", "jcc8"}
        PROVE  pto <= tosize
    BY <2>1, <2>3 DEF CountInv, ShortTail, Unconditional, Usable
  <2>. QED
    BY <2>2, <2>3 DEF FilterFits
<1>. QED
  BY <1>1, FilterStep, FilterInitially, PTL DEF FSpec


-----------------------------------------------------------------------------
(* The table of a filter.                                                  *)

\* The least element that CHOOSE picks from a set of numbers.
LEMMA LeastOf ==
  ASSUME NEW S, S \subseteq Nat, S # {}
  PROVE  LET m == CHOOSE i \in S : \A j \in S : i <= j
         IN m \in S /\ \A j \in S : m <= j
<1>1. \E i \in S : \A j \in S : i <= j
  <2>1. PICK i \in S : \A j \in S : ~(<<j, i>> \in OpToRel(<, Nat))
    BY NatLessThanWellFounded, WFMin
  <2>2. \A j \in S : ~(j < i)
    BY <2>1 DEF OpToRel
  <2>. QED
    BY <2>2
<1>. QED
  BY <1>1

\* The entries are a sequence, cut at the size of the table.
LEMMA TableCapped ==
  ASSUME out \in Seq(PieceType), NEW b \in Behind, NEW g \in BOOLEAN
  PROVE  Len(SkipTable(b, g)) <= MAX_SKIP_RIP
<1>. PICK n \in Nat : n = Len(out)
  OBVIOUS
<1>1. \E S : HeadEntries(g) \in Seq(S)
  <2>1. Stops(g) \subseteq Nat \ {0} /\ n + 1 \in Stops(g)
    BY DEF Stops
  <2>2. FirstStop(g) \in Nat \ {0}
    BY <2>1, LeastOf DEF FirstStop
  <2>. PICK k \in Nat : k = FirstStop(g) - 1
    BY <2>2
  <2>3. [i \in 1 .. k |-> out[i].at] \in Seq({out[i].at : i \in 1 .. k})
    OBVIOUS
  <2>. QED
    BY <2>3 DEF HeadEntries
<1>2. \E S : BehindEntries(b) \in Seq(S)
  <2>. DEFINE ends == {i \in DOMAIN b : b[i].op = "ret"} \cup {Len(b)}
              least == CHOOSE i \in ends : \A j \in ends : i <= j
  <2>1. ends \subseteq Nat /\ ends # {}
    BY FilterAssumption
  <2>. HIDE DEF ends
  <2>2. least \in Nat
    BY <2>1, LeastOf
  <2>3. BehindEntries(b) = [i \in 1 .. least |-> BehindAt(b, i)]
    BY DEF BehindEntries, ends
  <2>. HIDE DEF least
  <2>. PICK k \in Nat : k = least
    BY <2>2
  <2>. PICK e : e = [i \in 1 .. k |-> BehindAt(b, i)]
    OBVIOUS
  <2>4. e \in Seq({e[i] : i \in 1 .. k})
    OBVIOUS
  <2>. QED
    BY <2>3, <2>4
<1>0. \E S : (IF Undecoded(g) THEN <<>> ELSE BehindEntries(b)) \in Seq(S)
  BY <1>2
<1>3. PICK S, T : /\ HeadEntries(g) \in Seq(S)
                  /\ (IF Undecoded(g) THEN <<>> ELSE BehindEntries(b)) \in Seq(T)
  BY <1>0, <1>1
<1>. PICK all : all = Entries(b, g)
  OBVIOUS
<1>4. all \in Seq(S \cup T)
  BY <1>3 DEF Entries
<1>5. Len(SubSeq(all, 1, 16)) <= 16 \/ ~(Len(all) > 16)
  BY <1>4
<1>. QED
  BY <1>4, <1>5 DEF SkipTable, MAX_SKIP_RIP

TableInv ==
  /\ MoveInv
  /\ link \in {"near", "bridge"}
  /\ phase \in {"copy", "installed", "failed", "removed"}
  /\ Len(skip) <= MAX_SKIP_RIP
  /\ written \in Nat

LEMMA TableStep == TableInv /\ [FNext]_fvars => TableInv'
<1>. SUFFICES ASSUME TableInv, [FNext]_fvars PROVE TableInv'
  OBVIOUS
<1>1. UNCHANGED vars => MoveInv'
  BY DEF vars, args, MoveInv, MoveTypes, TableInv
<1>2. CASE CopyHead
  BY <1>2, MovesKept DEF CopyHead, filterVars, TableInv
<1>3. CASE SlotOutOfReach \/ TooShort \/ UNCHANGED fvars
  BY <1>1, <1>3 DEF SlotOutOfReach, TooShort, TableInv, fvars, filterVars
<1>4. ASSUME NEW b \in Behind, NEW w \in {"ok", "denied"}, NEW g \in BOOLEAN, Install(b, w, g)
      PROVE  TableInv'
  <2>1. Len(SkipTable(b, g)) <= MAX_SKIP_RIP
    BY TableCapped DEF TableInv, MoveInv, SameStraight
  <2>2. ret \in Nat
    BY DEF TableInv, MoveInv, MoveTypes
  <2>. QED
    BY <1>1, <1>4, <2>1, <2>2 DEF Install, TableInv
<1>5. ASSUME NEW w \in {"ok", "denied"}, Uninstall(w) PROVE TableInv'
  <2>1. Len(<<>>) <= MAX_SKIP_RIP
    BY DEF MAX_SKIP_RIP
  <2>. QED
    BY <1>1, <1>5, <2>1 DEF Uninstall, TableInv
<1>6. ASSUME NEW k \in Skips, NEW x \in Stored, NEW s \in BOOLEAN, FilteredCall(k, x, s)
      PROVE  TableInv'
  BY <1>1, <1>6 DEF FilteredCall, TableInv
<1>. QED
  BY <1>2, <1>3, <1>4, <1>5, <1>6 DEF FNext

\* The filter's variables keep their types whatever the function, its place
\* and the code behind it: make_skip_array never fills more entries than
\* skip_rip has (hooklib.c 515-568).
THEOREM FilterTyped == FSpec => []FTypeOK
<1>1. FInit => TableInv
  <2>. SUFFICES ASSUME FInit PROVE TableInv
    OBVIOUS
  <2>1. MoveInv
    BY NothingMoved DEF FInit
  <2>2. Len(<<>>) <= MAX_SKIP_RIP
    BY DEF MAX_SKIP_RIP
  <2>. QED
    BY <2>1, <2>2 DEF FInit, TableInv
<1>2. TableInv => FTypeOK
  BY MovesTyped DEF TableInv, FTypeOK
<1>. QED
  BY <1>1, <1>2, TableStep, PTL DEF FSpec

-----------------------------------------------------------------------------
(* The registers of a filtered call.                                       *)

Names == {"cflags", "rax", "rbx", "rcx", "rdx", "rbp", "rsi", "rdi",
          "r8", "r9", "r10", "r11", "r12", "r13", "r14", "r15"}

\* struct _filter_register_: what both builds have, then the rest.
Common == <<"cflags", "rax", "rbx", "rcx", "rdx", "rbp", "rsi", "rdi">>
Registers == Common \o High

\* u is s followed by t.
IsJoin(s, t, u) ==
  /\ Len(u) = Len(s) + Len(t)
  /\ \A i \in 1 .. Len(s) : u[i] = s[i]
  /\ \A i \in 1 .. Len(t) : u[Len(s) + i] = t[i]

LEMMA Joined ==
  ASSUME NEW S, NEW s \in Seq(S), NEW t \in Seq(S), NEW u \in Seq(S), IsJoin(s, t, u)
  PROVE  s \o t = u
<1>. USE DEF IsJoin
<1>1. s \o t \in Seq(S) /\ Len(s \o t) = Len(u)
  OBVIOUS
<1>2. ASSUME NEW i \in 1 .. Len(u) PROVE (s \o t)[i] = u[i]
  <2>1. CASE i \in 1 .. Len(s)
    BY <2>1
  <2>2. CASE i \notin 1 .. Len(s)
    <3>1. i - Len(s) \in 1 .. Len(t) /\ (s \o t)[i] = t[i - Len(s)] /\ Len(s) + (i - Len(s)) = i
      BY <2>2
    <3>. QED
      BY <3>1
  <2>. QED
    BY <2>1, <2>2
<1>. QED
  BY <1>1, <1>2, SameSequence

\* What Reverse returns, and its laws.
LEMMA Reversed ==
  ASSUME NEW S, NEW s \in Seq(S)
  PROVE  /\ Reverse(s) \in Seq(S) /\ Len(Reverse(s)) = Len(s)
         /\ \A i \in 1 .. Len(s) : Reverse(s)[i] = s[(Len(s) - i) + 1]
<1>. PICK n \in Nat : n = Len(s)
  OBVIOUS
<1>1. \A i \in 1 .. n : (n - i) + 1 \in 1 .. n
  OBVIOUS
<1>. QED
  BY <1>1 DEF Reverse

LEMMA ReversedTwice ==
  ASSUME NEW S, NEW s \in Seq(S)
  PROVE  Reverse(Reverse(s)) = s
<1>. PICK n \in Nat, r \in Seq(S) : n = Len(s) /\ r = Reverse(s)
  BY Reversed
<1>1. Len(r) = n /\ \A i \in 1 .. n : r[i] = s[(n - i) + 1]
  BY Reversed
<1>2. /\ Reverse(r) \in Seq(S) /\ Len(Reverse(r)) = n
      /\ \A i \in 1 .. n : Reverse(r)[i] = r[(n - i) + 1]
  BY <1>1, Reversed
<1>3. ASSUME NEW i \in 1 .. n PROVE Reverse(r)[i] = s[i]
  <2>1. (n - i) + 1 \in 1 .. n /\ (n - ((n - i) + 1)) + 1 = i
    OBVIOUS
  <2>2. r[(n - i) + 1] = s[(n - ((n - i) + 1)) + 1]
    BY <1>1, <2>1
  <2>. QED
    BY <1>2, <2>1, <2>2
<1>. QED
  BY <1>2, <1>3, SameSequence

LEMMA ReversedJoin ==
  ASSUME NEW S, NEW s \in Seq(S), NEW t \in Seq(S)
  PROVE  Reverse(s \o t) = Reverse(t) \o Reverse(s)
<1>. PICK n \in Nat, m \in Nat : n = Len(s) /\ m = Len(t)
  OBVIOUS
<1>. PICK u \in Seq(S) : u = s \o t
  <2>1. s \o t \in Seq(S)
    OBVIOUS
  <2>. QED
    BY <2>1, Zenon
<1>. PICK a \in Seq(S) : a = Reverse(s)
  BY Reversed
<1>. PICK b \in Seq(S) : b = Reverse(t)
  BY Reversed
<1>1. Len(u) = n + m /\ (\A i \in 1 .. n : u[i] = s[i]) /\ (\A i \in 1 .. m : u[n + i] = t[i])
  OBVIOUS
<1>2. Len(a) = n /\ Len(b) = m
  BY Reversed
<1>3. PICK r \in Seq(S) : r = Reverse(u)
  BY Reversed
<1>4. Len(r) = n + m /\ \A i \in 1 .. n + m : r[i] = u[((n + m) - i) + 1]
  <2>1. Len(r) = Len(u) /\ \A i \in 1 .. Len(u) : r[i] = u[(Len(u) - i) + 1]
    BY <1>3, Reversed
  <2>. QED
    BY <1>1, <2>1, Zenon
<1>5. ASSUME NEW i \in 1 .. m PROVE r[i] = b[i]
  <2>1. i \in 1 .. n + m /\ (m - i) + 1 \in 1 .. m /\ ((n + m) - i) + 1 = n + ((m - i) + 1)
    OBVIOUS
  <2>2. r[i] = u[n + ((m - i) + 1)]
    BY <1>4, <2>1
  <2>3. u[n + ((m - i) + 1)] = t[(m - i) + 1]
    BY <1>1, <2>1
  <2>4. b[i] = t[(m - i) + 1]
    BY Reversed
  <2>. QED
    BY <2>2, <2>3, <2>4
<1>6. ASSUME NEW i \in 1 .. n PROVE r[m + i] = a[i]
  <2>1. m + i \in 1 .. n + m /\ (n - i) + 1 \in 1 .. n /\ ((n + m) - (m + i)) + 1 = (n - i) + 1
    OBVIOUS
  <2>2. r[m + i] = u[(n - i) + 1]
    BY <1>4, <2>1
  <2>3. u[(n - i) + 1] = s[(n - i) + 1]
    BY <1>1, <2>1
  <2>4. a[i] = s[(n - i) + 1]
    BY Reversed
  <2>. QED
    BY <2>2, <2>3, <2>4
<1>7. b \o a = r
  <2>1. m + n = n + m
    OBVIOUS
  <2>2. Len(r) = Len(b) + Len(a)
    BY <1>2, <1>4, <2>1, Zenon
  <2>3. \A i \in 1 .. Len(b) : r[i] = b[i]
    BY <1>2, <1>5, Zenon
  <2>4. \A i \in 1 .. Len(a) : r[Len(b) + i] = a[i]
    BY <1>2, <1>6, Zenon
  <2>5. IsJoin(b, a, r)
    BY <2>2, <2>3, <2>4 DEF IsJoin
  <2>6. b \in Seq(S) /\ a \in Seq(S) /\ r \in Seq(S)
    OBVIOUS
  <2>. QED
    BY <2>5, <2>6, Joined, Zenon
<1>. QED
  BY <1>3, <1>7

\* The registers both builds have, and those only x64 has.
LEMMA HighTypes ==
  ASSUME isX64 \in BOOLEAN
  PROVE  /\ High \in Seq(Names)
         /\ \A i, j \in 1 .. Len(High) : High[i] = High[j] => i = j
         /\ \A i \in 1 .. Len(High) : High[i] \notin {Common[j] : j \in 1 .. 8}
<1>. PICK h : h = High
  OBVIOUS
<1>1. CASE isX64
  <2>1. h = <<"r8", "r9", "r10", "r11", "r12", "r13", "r14", "r15">>
    BY <1>1 DEF High
  <2>2. h \in Seq(Names) /\ Len(h) = 8
    BY <2>1 DEF Names
  <2>3. \A i, j \in 1 .. 8 : h[i] = h[j] => i = j
    BY <2>1
  <2>4. \A i \in 1 .. 8 : h[i] \notin {Common[j] : j \in 1 .. 8}
    BY <2>1 DEF Common
  <2>. QED
    BY <2>2, <2>3, <2>4
<1>2. CASE ~isX64
  BY <1>2 DEF High
<1>. QED
  BY <1>1, <1>2

LEMMA CommonTypes ==
  /\ Common \in Seq(Names) /\ Len(Common) = 8
  /\ \A i, j \in 1 .. 8 : Common[i] = Common[j] => i = j
  /\ Common[1] = "cflags" /\ Common[2] = "rax" /\ Common[5] = "rdx"
<1>1. Common \in Seq(Names) /\ Len(Common) = 8
  BY DEF Common, Names
<1>2. \A i, j \in 1 .. 8 : Common[i] = Common[j] => i = j
  BY DEF Common
<1>. QED
  BY <1>1, <1>2 DEF Common

\* The structure and the push instructions name them in opposite orders.
LEMMA CommonTuples ==
  /\ <<"cflags">> \o Low = Common
  /\ Reverse(Common) = <<"rdi", "rsi", "rbp", "rdx", "rcx", "rbx", "rax", "cflags">>
<1>. PICK c, back : c = <<"cflags">>
                  /\ back = <<"rdi", "rsi", "rbp", "rdx", "rcx", "rbx", "rax", "cflags">>
  OBVIOUS
<1>1. c \in Seq(Names) /\ Low \in Seq(Names) /\ Len(c) = 1 /\ Len(Low) = 7
  BY DEF Names, Low
<1>2. back \in Seq(Names) /\ Len(back) = 8
  BY DEF Names
<1>3. (\A i \in 1 .. 1 : Common[i] = c[i]) /\ (\A i \in 1 .. 7 : Common[1 + i] = Low[i])
  BY DEF Common, Low
<1>4. c \o Low = Common
  <2>1. /\ Len(Common) = Len(c) + Len(Low)
        /\ \A i \in 1 .. Len(c) : Common[i] = c[i]
        /\ \A i \in 1 .. Len(Low) : Common[Len(c) + i] = Low[i]
    BY <1>1, <1>3, CommonTypes
  <2>. QED
    BY <1>1, <2>1, CommonTypes, Joined DEF IsJoin
<1>5. \A i \in 1 .. 8 : Common[(8 - i) + 1] = back[i]
  BY DEF Common
<1>6. Reverse(Common) = back
  <2>1. /\ Reverse(Common) \in Seq(Names) /\ Len(Reverse(Common)) = Len(Common)
        /\ \A i \in 1 .. Len(Common) : Reverse(Common)[i] = Common[(Len(Common) - i) + 1]
    BY CommonTypes, Reversed
  <2>2. Len(Common) = 8
    BY CommonTypes
  <2>3. Len(Reverse(Common)) = Len(back) /\ \A i \in 1 .. Len(back) : Reverse(Common)[i] = back[i]
    BY <1>2, <1>5, <2>1, <2>2
  <2>. QED
    BY <1>2, <2>1, <2>3, SameSequence
<1>. QED
  BY <1>4, <1>6

\* The registers are saved and loaded in the order of the structure.
LEMMA SameOrder ==
  ASSUME isX64 \in BOOLEAN
  PROVE  Frame = Registers /\ Fields = Registers /\ Popped = Registers
         /\ GetRsp = Len(Pushed) + 1
<1>. PICK h \in Seq(Names), b \in Seq(Names) : h = High /\ b = Common
  BY HighTypes, CommonTypes
<1>. PICK hr \in Seq(Names), br \in Seq(Names) : hr = Reverse(h) /\ br = Reverse(b)
  BY Reversed
<1>1. Fields = Registers
  BY CommonTuples DEF Fields, Registers
<1>2. Popped = Registers
  BY DEF Popped, Registers, Common
<1>3. Pushed = hr \o br
  BY CommonTuples DEF Pushed
<1>4. Reverse(hr \o br) = b \o h
  <2>1. Reverse(hr \o br) = Reverse(br) \o Reverse(hr)
    BY ReversedJoin
  <2>2. Reverse(br) = b /\ Reverse(hr) = h
    BY ReversedTwice
  <2>. QED
    BY <2>1, <2>2, Zenon
<1>5. Frame = Registers
  BY <1>3, <1>4 DEF Frame, Registers
<1>6. Len(b \o h) = Len(b) + Len(h) /\ Len(hr \o br) = Len(hr) + Len(br)
      /\ Len(hr) = Len(h) /\ Len(br) = Len(b)
  BY Reversed
<1>7. Len(Fields) = Len(Pushed)
  BY <1>1, <1>3, <1>6 DEF Registers
<1>. QED
  BY <1>1, <1>2, <1>5, <1>7 DEF GetRsp

\* Nothing occurs twice in two sequences with nothing in common.
LEMMA JoinedOnce ==
  ASSUME NEW S, NEW s \in Seq(S), NEW t \in Seq(S),
         \A i, j \in DOMAIN s : s[i] = s[j] => i = j,
         \A i, j \in DOMAIN t : t[i] = t[j] => i = j,
         \A i \in DOMAIN s, j \in DOMAIN t : s[i] # t[j]
  PROVE  /\ DOMAIN s \subseteq DOMAIN (s \o t)
         /\ \A i \in DOMAIN s : (s \o t)[i] = s[i]
         /\ \A i, j \in DOMAIN (s \o t) : (s \o t)[i] = (s \o t)[j] => i = j
<1>. PICK n \in Nat, m \in Nat : n = Len(s) /\ m = Len(t)
  OBVIOUS
<1>1. DOMAIN s = 1 .. n /\ DOMAIN t = 1 .. m /\ DOMAIN (s \o t) = 1 .. n + m
  OBVIOUS
<1>2. \A i \in 1 .. n : (s \o t)[i] = s[i]
  OBVIOUS
<1>3. ASSUME NEW i \in n + 1 .. n + m PROVE i - n \in 1 .. m /\ (s \o t)[i] = t[i - n]
  OBVIOUS
<1>. PICK u : u = s \o t
  OBVIOUS
<1>4. ASSUME NEW i \in 1 .. n + m, NEW j \in 1 .. n + m, u[i] = u[j] PROVE i = j
  <2>1. CASE i <= n /\ j <= n
    <3>1. i \in 1 .. n /\ j \in 1 .. n
      BY <2>1
    <3>. QED
      BY <1>1, <1>2, <1>4, <3>1
  <2>2. CASE i > n /\ j > n
    <3>1. i - n \in 1 .. m /\ j - n \in 1 .. m /\ u[i] = t[i - n] /\ u[j] = t[j - n]
      BY <1>3, <2>2
    <3>2. i - n = j - n
      BY <1>1, <1>4, <3>1
    <3>. QED
      BY <3>2
  <2>3. CASE i <= n /\ j > n
    <3>1. i \in 1 .. n /\ j - n \in 1 .. m /\ u[i] = s[i] /\ u[j] = t[j - n]
      BY <1>2, <1>3, <2>3
    <3>. QED
      BY <1>1, <1>4, <3>1
  <2>4. CASE i > n /\ j <= n
    <3>1. j \in 1 .. n /\ i - n \in 1 .. m /\ u[j] = s[j] /\ u[i] = t[i - n]
      BY <1>2, <1>3, <2>4
    <3>. QED
      BY <1>1, <1>4, <3>1
  <2>. QED
    BY <2>1, <2>2, <2>3, <2>4
<1>5. 1 .. n \subseteq 1 .. n + m
  OBVIOUS
<1>6. \A i, j \in DOMAIN u : u[i] = u[j] => i = j
  <2>1. DOMAIN u = 1 .. n + m
    BY <1>1
  <2>. QED
    BY <1>4, <2>1, Zenon
<1>7. DOMAIN s \subseteq DOMAIN (s \o t)
  BY <1>1, <1>5, Zenon
<1>8. \A i \in DOMAIN s : (s \o t)[i] = s[i]
  BY <1>1, <1>2, Zenon
<1>. QED
  BY <1>6, <1>7, <1>8, Zenon

\* Every register has one place in it.
LEMMA RegistersDiffer ==
  ASSUME isX64 \in BOOLEAN
  PROVE  /\ \A i, j \in DOMAIN Registers : Registers[i] = Registers[j] => i = j
         /\ 1 \in DOMAIN Registers /\ 2 \in DOMAIN Registers /\ 5 \in DOMAIN Registers
         /\ Registers[1] = "cflags" /\ Registers[2] = "rax" /\ Registers[5] = "rdx"
<1>1. High \in Seq(Names) /\ Common \in Seq(Names)
  BY HighTypes, CommonTypes
<1>2. DOMAIN Common = 1 .. 8 /\ DOMAIN High = 1 .. Len(High)
  BY <1>1, CommonTypes
<1>3. /\ \A i, j \in DOMAIN Common : Common[i] = Common[j] => i = j
      /\ \A i, j \in DOMAIN High : High[i] = High[j] => i = j
  BY <1>2, HighTypes, CommonTypes, Zenon
<1>4. \A i \in DOMAIN Common, j \in DOMAIN High : Common[i] # High[j]
  BY <1>2, HighTypes, Zenon, SMTT(30)
<1>5. /\ DOMAIN Common \subseteq DOMAIN Registers
      /\ \A i \in DOMAIN Common : Registers[i] = Common[i]
      /\ \A i, j \in DOMAIN Registers : Registers[i] = Registers[j] => i = j
  BY <1>1, <1>3, <1>4, JoinedOnce DEF Registers
<1>6. 1 \in DOMAIN Common /\ 2 \in DOMAIN Common /\ 5 \in DOMAIN Common
  BY <1>2
<1>. QED
  BY <1>5, <1>6, CommonTypes

\* What a filtered call leaves in the registers.
Returned(x, spills) ==
  \A r \in DOMAIN Loaded(FrameAfter(x, spills)) :
    Loaded(FrameAfter(x, spills))[r]
      = IF spills /\ isX64 /\ r \in {"cflags", "rax"} THEN "junk"
        ELSE IF r = x THEN "new" ELSE r

LEMMA Restored ==
  ASSUME isX64 \in BOOLEAN, NEW x \in Stored, NEW spills \in BOOLEAN
  PROVE  Returned(x, spills)
<1>1. PICK P : P = Registers
  OBVIOUS
<1>2. /\ \A i, j \in DOMAIN P : P[i] = P[j] => i = j
      /\ 1 \in DOMAIN P /\ 2 \in DOMAIN P /\ 5 \in DOMAIN P
      /\ P[1] = "cflags" /\ P[2] = "rax" /\ P[5] = "rdx"
  BY <1>1, RegistersDiffer
<1>3. Frame = P /\ Fields = P /\ Popped = P
  BY <1>1, SameOrder
<1>4. PICK at \in DOMAIN P : P[at] = x /\ WordOf(x) = at
  BY <1>2, <1>3 DEF WordOf, Stored
<1>5. PICK fr : fr = FrameAfter(x, spills)
  OBVIOUS
<1>6. fr = [i \in DOMAIN P |-> IF spills /\ i \in HomeWords THEN "junk"
                               ELSE IF i = at THEN "new" ELSE P[i]]
  BY <1>3, <1>4, <1>5 DEF FrameAfter
<1>7. Loaded(fr) = [r \in {P[i] : i \in DOMAIN P} |-> fr[CHOOSE i \in DOMAIN P : P[i] = r]]
  BY <1>3 DEF Loaded
<1>8. ASSUME NEW r \in {P[i] : i \in DOMAIN P}
      PROVE  Loaded(fr)[r] = IF spills /\ isX64 /\ r \in {"cflags", "rax"} THEN "junk"
                             ELSE IF r = x THEN "new" ELSE r
  <2>1. PICK i \in DOMAIN P : P[i] = r /\ Loaded(fr)[r] = fr[i]
    BY <1>2, <1>7
  <2>2. i \in HomeWords <=> (isX64 /\ r \in {"cflags", "rax"})
    BY <1>2, <2>1 DEF HomeWords
  <2>3. i = at <=> r = x
    BY <1>2, <1>4, <2>1
  <2>. QED
    BY <1>6, <2>1, <2>2, <2>3
<1>. QED
  BY <1>5, <1>7, <1>8 DEF Returned

CallInv ==
  /\ isX64 \in BOOLEAN
  /\ \/ cpu = NotRun \/ cpu.at = Wild
     \/ \E x \in Stored, s \in BOOLEAN :
          cpu.regs = [wrote |-> x, spilt |-> s, loaded |-> Loaded(FrameAfter(x, s))]

\* Nothing but a call of the function changes what the last one did.
LEMMA CallStep == CallInv /\ [FNext]_fvars => CallInv'
<1>. SUFFICES ASSUME CallInv, [FNext]_fvars PROVE CallInv'
  OBVIOUS
<1>1. isX64' = isX64
  BY DEF FNext, fvars, vars, args, SlotOutOfReach, CopyHead, TooShort, Install, Uninstall,
     FilteredCall, Next, DecodeFails, MeetRelative, JumpToRest, CopyCall, CopyJmpNear,
     CopyJmpShort, MeetLoop, CopyJmpc, CopyPlain, Decoding
<1>0. Stored' = Stored
  BY <1>1 DEF Stored, Fields, High
<1>2. CASE UNCHANGED cpu
  <2>1. \A x, s : Loaded(FrameAfter(x, s))' = Loaded(FrameAfter(x, s))
    BY <1>1 DEF Loaded, FrameAfter, HomeWords, WordOf, Frame, Pushed, Popped, Fields, High
  <2>. QED
    BY <1>0, <1>1, <1>2, <2>1 DEF CallInv
<1>3. CASE cpu' = NotRun
  BY <1>1, <1>3 DEF CallInv, NotRun
<1>4. ASSUME NEW k \in Skips, NEW x \in Stored, NEW s \in BOOLEAN, FilteredCall(k, x, s)
      PROVE  CallInv'
  <2>1. \/ cpu' = [NotRun EXCEPT !.at = Wild]
        \/ cpu' = [at |-> SkipRip(k), skipped |-> IF SkipAccepted(k) THEN k ELSE 0,
                   regs |-> [wrote |-> x, spilt |-> s, loaded |-> Loaded(FrameAfter(x, s))]]
    BY <1>4 DEF FilteredCall
  <2>2. CASE cpu' = [NotRun EXCEPT !.at = Wild]
    <3>1. cpu'.at = Wild
      BY <2>2 DEF NotRun
    <3>. QED
      BY <1>1, <3>1 DEF CallInv, Wild
  <2>3. CASE cpu' = [at |-> SkipRip(k), skipped |-> IF SkipAccepted(k) THEN k ELSE 0,
                     regs |-> [wrote |-> x, spilt |-> s, loaded |-> Loaded(FrameAfter(x, s))]]
    <3>1. cpu'.regs = [wrote |-> x, spilt |-> s, loaded |-> Loaded(FrameAfter(x, s))]
      BY <2>3
    <3>2. Loaded(FrameAfter(x, s))' = Loaded(FrameAfter(x, s))
      BY <1>1 DEF Loaded, FrameAfter, HomeWords, WordOf, Frame, Pushed, Popped, Fields, High
    <3>. QED
      BY <1>0, <1>1, <3>1, <3>2 DEF CallInv
  <2>. QED
    BY <2>1, <2>2, <2>3
<1>. QED
  BY <1>2, <1>3, <1>4 DEF FNext, fvars, filterVars, SlotOutOfReach, CopyHead, TooShort, Install, Uninstall

\* Whatever the build, the function and what the filter function stores, it
\* sees every register under its own name, and after the call each register
\* has its old value or the one the filter function stored
\* (hooklib.c 600-637, 741-799, 871-876).
THEOREM RegistersAlwaysKept == FSpec => []RegistersKept
<1>1. FInit => CallInv
  BY SizeAssumption DEF FInit, Init, CallInv
<1>2. CallInv => RegistersKept
  <2>. SUFFICES ASSUME CallInv, cpu # NotRun, cpu.at # Wild PROVE RegistersKept
    BY DEF RegistersKept
  <2>1. Frame = Fields /\ GetRsp = Len(Pushed) + 1
    BY SameOrder DEF CallInv
  <2>2. PICK x \in Stored, s \in BOOLEAN :
          cpu.regs = [wrote |-> x, spilt |-> s, loaded |-> Loaded(FrameAfter(x, s))]
    BY DEF CallInv
  <2>3. Returned(x, s)
    BY Restored DEF CallInv
  <2>4. cpu.regs.wrote = x /\ cpu.regs.spilt = s /\ cpu.regs.loaded = Loaded(FrameAfter(x, s))
    BY <2>2
  <2>. QED
    BY <2>1, <2>3, <2>4 DEF Returned, RegistersKept
<1>. QED
  BY <1>1, <1>2, CallStep, PTL DEF FSpec

-----------------------------------------------------------------------------
(* Where the pieces lie.                                                   *)

\* Nothing of o lies before a.
Above(o, a) == \A i \in 1 .. Len(o) : o[i].at >= a

\* The n pieces of o lie one behind the other from a to z.
Laid(o, n, a, z) ==
  /\ a <= z
  /\ n = 0 => z = a
  /\ n # 0 => o[1].at = a /\ o[n].at + o[n].len = z
  /\ \A i \in 1 .. n - 1 : o[i + 1].at = o[i].at + o[i].len
  /\ \A i \in 1 .. n : a <= o[i].at /\ o[i].at + o[i].len <= z
  /\ \A i, j \in 1 .. n : i < j => o[i].at < o[j].at

LEMMA Between ==
  ASSUME NEW z \in Int, NEW u \in Int, NEW k \in 1 .. 16, u + k <= z
  PROVE  u < z /\ \A l \in 1 .. 16 : u + k <= z + l
OBVIOUS

LEMMA LaidLonger ==
  ASSUME NEW o, NEW n \in Nat, NEW a \in Int, NEW z \in Int, Laid(o, n, a, z),
         \A i \in 1 .. n : o[i].at \in Int /\ o[i].len \in 1 .. 16,
         NEW q, \A i \in 1 .. n : q[i] = o[i],
         NEW l \in 1 .. 16, q[n + 1].at = z, q[n + 1].len = l
  PROVE  Laid(q, n + 1, a, z + l)
<1>1. /\ n = 0 => z = a
      /\ n # 0 => o[1].at = a /\ o[n].at + o[n].len = z
      /\ \A i \in 1 .. n - 1 : o[i + 1].at = o[i].at + o[i].len
      /\ \A i \in 1 .. n : a <= o[i].at /\ o[i].at + o[i].len <= z
      /\ \A i, j \in 1 .. n : i < j => o[i].at < o[j].at
  BY DEF Laid
<1>2. a <= z /\ a <= z + l
  BY DEF Laid
<1>3. q[1].at = a
  <2>1. CASE n = 0
    BY <1>1, <2>1
  <2>2. CASE n # 0
    <3>1. 1 \in 1 .. n
      BY <2>2
    <3>. QED
      BY <1>1, <2>2, <3>1
  <2>. QED
    BY <2>1, <2>2
<1>4. ASSUME NEW i \in 1 .. n PROVE q[i + 1].at = q[i].at + q[i].len
  <2>1. CASE i = n
    BY <1>1, <2>1
  <2>2. CASE i # n
    <3>1. i \in 1 .. n - 1 /\ i + 1 \in 1 .. n
      BY <2>2
    <3>. QED
      BY <1>1, <3>1
  <2>. QED
    BY <2>1, <2>2
<1>5. ASSUME NEW i \in 1 .. n PROVE o[i].at < z /\ o[i].at + o[i].len <= z + l
  <2>1. o[i].at \in Int /\ o[i].len \in 1 .. 16 /\ o[i].at + o[i].len <= z
    BY <1>1
  <2>. QED
    BY <2>1, Between
<1>6. ASSUME NEW i \in 1 .. n + 1 PROVE a <= q[i].at /\ q[i].at + q[i].len <= z + l
  <2>1. CASE i = n + 1
    BY <1>2, <2>1
  <2>2. CASE i # n + 1
    <3>1. i \in 1 .. n
      BY <2>2
    <3>. QED
      BY <1>1, <1>5, <3>1
  <2>. QED
    BY <2>1, <2>2
<1>7. ASSUME NEW i \in 1 .. n + 1, NEW j \in 1 .. n + 1, i < j PROVE q[i].at < q[j].at
  <2>1. i \in 1 .. n
    BY <1>7
  <2>2. CASE j = n + 1
    BY <1>5, <2>1, <2>2
  <2>3. CASE j # n + 1
    <3>1. j \in 1 .. n
      BY <2>3
    <3>. QED
      BY <1>1, <1>7, <2>1, <3>1
  <2>. QED
    BY <2>2, <2>3
<1>8. \A i \in 1 .. (n + 1) - 1 : q[i + 1].at = q[i].at + q[i].len
  BY <1>4
<1>. QED
  BY <1>2, <1>3, <1>6, <1>7, <1>8 DEF Laid

LEMMA LaidMore ==
  ASSUME NEW o \in Seq(PieceType), NEW a \in Int, NEW z \in Int, Laid(o, Len(o), a, z),
         NEW p \in PieceType, p.at = z
  PROVE  Laid(o \o <<p>>, Len(o \o <<p>>), a, z + p.len)
<1>. PICK n \in Nat : n = Len(o)
  OBVIOUS
<1>. PICK q : q = o \o <<p>>
  OBVIOUS
<1>1. Len(q) = n + 1 /\ (\A j \in 1 .. n : q[j] = o[j]) /\ q[n + 1] = p
  BY OneMore
<1>2. ASSUME NEW j \in 1 .. n PROVE o[j].at \in Int /\ o[j].len \in 1 .. 16
  <2>1. o[j] \in PieceType
    OBVIOUS
  <2>. QED
    BY <2>1 DEF PieceType
<1>3. PICK l \in 1 .. 16 : l = p.len
  BY DEF PieceType
<1>4. q[n + 1].at = z /\ q[n + 1].len = l
  BY <1>1, <1>3
<1>5. Laid(o, n, a, z) /\ \A i \in 1 .. n : q[i] = o[i]
  BY <1>1
<1>6. Laid(q, n + 1, a, z + l)
  BY <1>2, <1>4, <1>5, LaidLonger
<1>. QED
  BY <1>1, <1>3, <1>6, Zenon

LEMMA AboveJoin ==
  ASSUME NEW S, NEW T, NEW o \in Seq(S), NEW q \in Seq(T), NEW a, Above(o, a), Above(q, a)
  PROVE  Above(o \o q, a)
<1>. PICK n \in Nat, m \in Nat : n = Len(o) /\ m = Len(q)
  OBVIOUS
<1>. PICK r : r = o \o q
  OBVIOUS
<1>1. /\ Len(r) = n + m
      /\ \A i \in 1 .. n : r[i] = o[i]
      /\ \A i \in n + 1 .. n + m : r[i] = q[i - n]
  OBVIOUS
<1>2. ASSUME NEW i \in 1 .. n + m PROVE r[i].at >= a
  <2>1. CASE i \in 1 .. n
    BY <1>1, <2>1 DEF Above
  <2>2. CASE i \notin 1 .. n
    <3>1. i \in n + 1 .. n + m /\ i - n \in 1 .. m
      BY <2>2
    <3>. QED
      BY <1>1, <3>1 DEF Above
  <2>. QED
    BY <2>1, <2>2
<1>. QED
  BY <1>1, <1>2 DEF Above

LEMMA AboveOne ==
  ASSUME NEW p \in PieceType, NEW a, p.at >= a
  PROVE  Above(<<p>>, a)
BY DEF Above

\* A jump or call written at a is one piece.
OnePiece(a, b, op, p) ==
  /\ p \in PieceType /\ p.at = a /\ p.op = op /\ p.len \in 2 .. 16
  /\ MakeJmpNear(a, b, op) = <<p>>

LEMMA NearOne ==
  ASSUME NEW a \in Int, NEW b \in Int, NEW op \in {"call", "jmp"}
  PROVE  \E p : OnePiece(a, b, op, p)
<1>1. PICK len \in 2 .. 16, x \in Int : MakeJmpNear(a, b, op) = <<Piece(op, a, len, x)>>
  BY NearPiece
<1>2. LET p == Piece(op, a, len, x)
      IN p \in PieceType /\ p.at = a /\ p.op = op /\ p.len \in 2 .. 16
  BY DEF Piece, PieceType
<1>. QED
  BY <1>1, <1>2, Zenon DEF OnePiece

\* What is written at an address lies at it or behind it.
LEMMA NearAbove ==
  ASSUME NEW a \in Int, NEW b \in Int, NEW op \in {"call", "jmp"}, NEW y \in Int, y <= a
  PROVE  MakeJmpNear(a, b, op) \in Seq(PieceType) /\ Above(MakeJmpNear(a, b, op), y)
<1>1. PICK p : OnePiece(a, b, op, p)
  BY NearOne
<1>2. p \in PieceType /\ p.at = a /\ MakeJmpNear(a, b, op) = <<p>>
  BY <1>1 DEF OnePiece
<1>3. <<p>> \in Seq(PieceType) /\ Above(<<p>>, y)
  BY <1>2, AboveOne
<1>. QED
  BY <1>2, <1>3, Zenon

LEMMA ConditionalAbove ==
  ASSUME NEW a \in Int, NEW b \in Int, NEW e \in Int, NEW kind, NEW k \in Int,
         NEW y \in Int, y <= a
  PROVE  MakeJmpcNear(a, b, e, kind, k) \in Seq(PieceType)
         /\ Above(MakeJmpcNear(a, b, e, kind, k), y)
<1>. PICK a2 \in Int, a6 \in Int : a2 = a + 2 /\ a6 = a + 6
  OBVIOUS
<1>. DEFINE over == MakeJmpNear(a2, e, "jmp")
            after == a2 + over[1].len
            cond == IF kind = "jcc32"
                      THEN <<Piece("jcc", a, 6, a + 6 + (b - a - 5))>>
                      ELSE <<Piece("jcc", a, 2, a + 2 + Int8(k + 16)),
                             Piece("junk", a + 2, 4, a + 6)>>
            short == MakeJmpShort(a, after, "jcc")
<1>1. over \in Seq(PieceType) /\ Above(over, y) /\ after \in Int /\ y <= after
  <2>1. PICK p : OnePiece(a2, e, "jmp", p)
    BY NearOne
  <2>2. over = <<p>> /\ p.len \in 2 .. 16
    BY <2>1, Zenon DEF OnePiece
  <2>3. over \in Seq(PieceType) /\ Above(over, y)
    <3>1. y <= a2
      OBVIOUS
    <3>. QED
      BY <3>1, NearAbove
  <2>. PICK m \in 2 .. 16 : m = p.len
    BY <2>2
  <2>4. after = a2 + m
    BY <2>2
  <2>5. a2 + m \in Int /\ y <= a2 + m
    OBVIOUS
  <2>. QED
    BY <2>3, <2>4, <2>5, Zenon
<1>2. cond \in Seq(PieceType) /\ Above(cond, y)
  <2>1. PICK p \in PieceType, q \in PieceType, r \in PieceType :
          /\ p = Piece("jcc", a, 6, a + 6 + (b - a - 5)) /\ p.at = a
          /\ q = Piece("jcc", a, 2, a + 2 + Int8(k + 16)) /\ q.at = a
          /\ r = Piece("junk", a + 2, 4, a + 6) /\ r.at = a + 2
    <3>1. /\ Piece("jcc", a, 6, a + 6 + (b - a - 5)) \in PieceType
          /\ Piece("jcc", a, 2, a + 2 + Int8(k + 16)) \in PieceType
          /\ Piece("junk", a + 2, 4, a + 6) \in PieceType
      BY DEF Piece, PieceType, Int8
    <3>2. /\ Piece("jcc", a, 6, a + 6 + (b - a - 5)).at = a
          /\ Piece("jcc", a, 2, a + 2 + Int8(k + 16)).at = a
          /\ Piece("junk", a + 2, 4, a + 6).at = a + 2
      BY DEF Piece
    <3>. QED
      BY <3>1, <3>2, Zenon
  <2>2. <<p>> \in Seq(PieceType) /\ Above(<<p>>, y)
    BY <2>1 DEF Above
  <2>3. <<q, r>> \in Seq(PieceType) /\ Above(<<q, r>>, y)
    BY <2>1 DEF Above
  <2>4. cond = IF kind = "jcc32" THEN <<p>> ELSE <<q, r>>
    BY <2>1, Zenon
  <2>. HIDE DEF cond
  <2>. QED
    BY <2>2, <2>3, <2>4
<1>3. /\ MakeJmpNear(after, b, "jmp") \in Seq(PieceType) /\ Above(MakeJmpNear(after, b, "jmp"), y)
      /\ MakeJmpNear(a6, e, "jmp") \in Seq(PieceType) /\ Above(MakeJmpNear(a6, e, "jmp"), y)
  <2>. HIDE DEF after
  <2>1. y <= a6
    OBVIOUS
  <2>. QED
    BY <1>1, <2>1, NearAbove
<1>4. short \in Seq(PieceType) /\ Above(short, y)
  <2>. HIDE DEF after
  <2>1. PICK p \in PieceType : p = Piece("jcc", a, 2, a + 2 + Int8(after - a - 2)) /\ p.at = a
    <3>1. LET p == Piece("jcc", a, 2, a + 2 + Int8(after - a - 2)) IN p \in PieceType /\ p.at = a
      BY <1>1 DEF Piece, PieceType, Int8
    <3>. QED
      BY <3>1, Zenon
  <2>2. <<p>> \in Seq(PieceType) /\ Above(<<p>>, y)
    BY <2>1, AboveOne
  <2>3. short = <<p>>
    BY <2>1, Zenon DEF MakeJmpShort
  <2>. QED
    BY <2>2, <2>3, Zenon
<1>5. MakeJmpcNear(a, b, e, kind, k)
        = IF Far(a, b) THEN (short \o over) \o MakeJmpNear(after, b, "jmp")
          ELSE cond \o MakeJmpNear(a6, e, "jmp")
  BY DEF MakeJmpcNear
<1>. HIDE DEF over, after, cond, short
<1>6. \A u, v \in Seq(PieceType) : u \o v \in Seq(PieceType)
  OBVIOUS
<1>7. short \o over \in Seq(PieceType) /\ Above(short \o over, y)
  BY <1>1, <1>4, <1>6, AboveJoin
<1>8. Above((short \o over) \o MakeJmpNear(after, b, "jmp"), y)
  BY <1>3, <1>7, AboveJoin
<1>9. Above(cond \o MakeJmpNear(a6, e, "jmp"), y)
  BY <1>2, <1>3, AboveJoin
<1>. QED
  BY <1>2, <1>3, <1>5, <1>6, <1>7, <1>8, <1>9

-----------------------------------------------------------------------------
(* The buffer, while only plain instructions and calls are moved.          *)

Plain(h) == \A i \in 1 .. Len(h) : h[i].op \in {"plain", "call"}

\* n bytes are moved.
Walked(o, h, a, z, n) ==
  /\ Laid(o, Len(o), a, z)
  /\ Flows(o, Len(o))
  /\ n # 0 => o # <<>> /\ h # <<>>

\* The jump to the rest is appended, or there was no room for it.
Ended(o, h, a, z) ==
  /\ Laid(o, Len(o), a, z)
  /\ o # <<>> /\ h # <<>>
  /\ \/ Flows(o, Len(o))
     \/ Len(o) > 1 /\ Flows(o, Len(o) - 1) /\ o[Len(o)].op = "jmp"

WalkInv ==
  /\ MoveInv
  /\ Above(out, to)
  /\ pc \in {"decode", "tail"} /\ Plain(head) => Walked(out, head, to, to + pto, pfrom)
  /\ pc = "done" /\ ret # 0 /\ Plain(head) => Ended(out, head, to, to + pto)

LEMMA PlainBefore ==
  ASSUME NEW h \in Seq(PieceType), NEW i \in PieceType
  PROVE  /\ Plain(Append(h, i)) => Plain(h) /\ i.op \in {"plain", "call"}
         /\ Append(h, i) # <<>>
<1>. PICK n \in Nat : n = Len(h)
  OBVIOUS
<1>. PICK g : g = Append(h, i)
  OBVIOUS
<1>1. Len(g) = n + 1 /\ (\A j \in 1 .. n : g[j] = h[j]) /\ g[n + 1] = i /\ g # <<>>
  OBVIOUS
<1>2. ASSUME Plain(g) PROVE Plain(h) /\ i.op \in {"plain", "call"}
  <2>1. \A j \in 1 .. n + 1 : g[j].op \in {"plain", "call"}
    BY <1>1, <1>2 DEF Plain
  <2>2. n + 1 \in 1 .. n + 1 /\ \A j \in 1 .. n : j \in 1 .. n + 1
    OBVIOUS
  <2>. QED
    BY <1>1, <2>1, <2>2 DEF Plain
<1>. QED
  BY <1>1, <1>2

LEMMA OneEmitted ==
  ASSUME MoveTypes, NEW p \in PieceType, p.at = There, Emit(<<p>>)
  PROVE  out' = out \o <<p>> /\ pto' = pto + p.len /\ p.len \in Int
<1>1. to \in Int /\ pto \in Nat /\ There = to + pto
  BY SizeAssumption DEF MoveTypes, There
<1>2. p.len \in Int
  BY DEF PieceType
<1>3. pto' = End(<<p>>) - to
  BY EmitEnd
<1>4. End(<<p>>) = There + p.len
  BY DEF End
<1>5. out' = out \o <<p>>
  BY DEF Emit
<1>. PICK a \in Int, y \in Nat, l \in Int : a = to /\ y = pto /\ l = p.len
  BY <1>1, <1>2
<1>6. pto' = ((a + y) + l) - a
  BY <1>1, <1>3, <1>4
<1>7. ((a + y) + l) - a = y + l
  OBVIOUS
<1>. QED
  BY <1>2, <1>5, <1>6, <1>7, Zenon

\* A piece that is no jump.
LEMMA WalksOn ==
  ASSUME WalkInv, MoveInv', Decoding, pc' \in {"decode", "tail"},
         NEW p \in PieceType, p.at = There, p.op \in {"plain", "call"}, Emit(<<p>>),
         NEW i \in PieceType, head' = Append(head, i)
  PROVE  WalkInv'
<1>1. MoveTypes /\ out \in Seq(PieceType) /\ head \in Seq(PieceType)
  BY DEF WalkInv, MoveInv, SameStraight
<1>2. to \in Int /\ pto \in Nat /\ There = to + pto /\ to' = to
  BY <1>1, SizeAssumption DEF MoveTypes, There, Decoding, args
<1>. PICK a \in Int, z \in Int, o \in Seq(PieceType), h \in Seq(PieceType) :
       a = to /\ z = to + pto /\ o = out /\ h = head
  BY <1>1, <1>2
<1>3. out' = o \o <<p>> /\ pto' = pto + p.len /\ p.len \in Int /\ p.at = z
  BY <1>1, <1>2, OneEmitted
<1>4. to' + pto' = z + p.len
  <2>. PICK l \in Int : l = p.len
    BY <1>3
  <2>. PICK y \in Nat : y = pto
    BY <1>2
  <2>1. to' = a /\ pto' = y + l /\ z = a + y
    BY <1>2, <1>3
  <2>2. a + (y + l) = (a + y) + l
    OBVIOUS
  <2>. QED
    BY <2>1, <2>2, Zenon
<1>5. Above(out', to')
  <2>1. <<p>> \in Seq(PieceType) /\ Above(<<p>>, a)
    BY <1>2, <1>3, AboveOne
  <2>2. Above(o \o <<p>>, a)
    BY <2>1, AboveJoin DEF WalkInv
  <2>. QED
    BY <1>2, <1>3, <2>2
<1>6. ASSUME Plain(head') PROVE Walked(out', head', to', to' + pto', pfrom')
  <2>1. Plain(h) /\ head' # <<>>
    BY <1>6, PlainBefore
  <2>2. Laid(o, Len(o), a, z) /\ Flows(o, Len(o))
    BY <2>1 DEF WalkInv, Decoding, Walked
  <2>. PICK q : q = o \o <<p>>
    OBVIOUS
  <2>3. Laid(q, Len(q), a, z + p.len) /\ Flows(q, Len(q)) /\ q # <<>>
    BY <1>3, <2>2, LaidMore, FlowMore
  <2>4. Walked(q, head', a, z + p.len, pfrom')
    BY <2>1, <2>3 DEF Walked
  <2>. QED
    BY <1>2, <1>3, <1>4, <2>4
<1>. QED
  BY <1>5, <1>6 DEF WalkInv

LEMMA CallWalks ==
  ASSUME WalkInv, MoveInv', NEW t \in Targets, CopyCall(t)
  PROVE  WalkInv'
<1>1. /\ Decoding /\ GoOn(5) /\ Count("call", 5, t) /\ MoveTypes
      /\ Emit(MakeJmpNear(There, t, "call"))
  BY Destinations DEF CopyCall, WalkInv, MoveInv
<1>2. There \in Int /\ t \in Int
  BY <1>1, Destinations
<1>3. PICK p : OnePiece(There, t, "call", p)
  BY <1>2, NearOne
<1>4. p \in PieceType /\ p.at = There /\ p.op = "call" /\ MakeJmpNear(There, t, "call") = <<p>>
  BY <1>3 DEF OnePiece
<1>5. Emit(<<p>>)
  BY <1>1, <1>4, Zenon
<1>6. PICK i \in PieceType : head' = Append(head, i)
  BY <1>1, <1>2, Counted
<1>7. pc' \in {"decode", "tail"}
  BY <1>1 DEF GoOn, Stop
<1>. QED
  BY <1>1, <1>4, <1>5, <1>6, <1>7, WalksOn

LEMMA PlainWalks ==
  ASSUME WalkInv, MoveInv', NEW n \in PlainSizes, CopyPlain(n)
  PROVE  WalkInv'
<1>1. n \in 1 .. 15 /\ Here \in Int /\ There \in Int /\ MoveTypes
  BY SizeAssumption DEF WalkInv, MoveInv, MoveTypes, Here, There
<1>2. Decoding /\ GoOn(n) /\ Count("plain", n, Here) /\ Emit(<<Piece("plain", There, n, Here)>>)
  BY DEF CopyPlain
<1>3. PICK p \in PieceType : p = Piece("plain", There, n, Here) /\ p.op = "plain" /\ p.at = There
  <2>1. LET p == Piece("plain", There, n, Here) IN p \in PieceType /\ p.op = "plain" /\ p.at = There
    BY <1>1 DEF Piece, PieceType
  <2>. QED
    BY <2>1, Zenon
<1>4. Emit(<<p>>)
  BY <1>2, <1>3
<1>5. PICK i \in PieceType : head' = Append(head, i)
  <2>1. PICK h \in Int : h = Here
    BY <1>1
  <2>2. n \in 1 .. 16 /\ Count("plain", n, h)
    BY <1>1, <1>2, <2>1 DEF Count
  <2>3. \E i \in PieceType : i.op = "plain" /\ i.to = h /\ head' = Append(head, i)
    BY <1>1, <2>1, <2>2, Counted, SMTT(30)
  <2>. QED
    BY <2>3
<1>6. pc' \in {"decode", "tail"}
  BY <1>2 DEF GoOn, Stop
<1>. QED
  BY <1>2, <1>3, <1>4, <1>5, <1>6, WalksOn

LEMMA NearReaches ==
  ASSUME WalkInv, NEW b \in Int, Emit(MakeJmpNear(There, b, "jmp"))
  PROVE  Above(out', to)
<1>. PICK a \in Int, y \in Int, o \in Seq(PieceType) : a = There /\ y = to /\ y <= a /\ o = out
  BY SizeAssumption DEF WalkInv, MoveInv, MoveTypes, SameStraight, There
<1>. PICK q : q = MakeJmpNear(a, b, "jmp")
  OBVIOUS
<1>1. q \in Seq(PieceType) /\ Above(q, y)
  BY NearAbove
<1>2. Above(o \o q, y)
  BY <1>1, AboveJoin DEF WalkInv
<1>3. out' = o \o q
  BY DEF Emit
<1>. QED
  BY <1>2, <1>3, Zenon

LEMMA TransferCounted ==
  ASSUME head \in Seq(PieceType), Here \in Int, NEW op \in {"jmp", "jcc32", "jcc8", "loop"},
         NEW len \in {2, 5, 6}, NEW t \in Int, Count(op, len, t)
  PROVE  ~Plain(head')
<1>1. PICK i \in PieceType : i = Piece(op, Here, len, t) /\ i.op \notin {"plain", "call"}
  <2>1. LET i == Piece(op, Here, len, t) IN i \in PieceType /\ i.op \notin {"plain", "call"}
    BY DEF Piece, PieceType
  <2>. QED
    BY <2>1, Zenon
<1>2. ~Plain(Append(head, i))
  BY <1>1, PlainBefore, Zenon
<1>. QED
  BY <1>1, <1>2 DEF Count

\* An instruction that is not translated one to one.
LEMMA TransfersWalk ==
  ASSUME WalkInv, MoveInv', NEW t \in Targets,
         \/ CopyJmpNear(t) \/ CopyJmpShort(t) \/ MeetLoop(t)
         \/ \E kind \in {"jcc32", "jcc8"} : CopyJmpc(t, kind)
  PROVE  WalkInv'
<1>1. MoveTypes /\ head \in Seq(PieceType)
  BY DEF WalkInv, MoveInv, SameStraight
<1>2. /\ Decoding /\ pc' = "tail"
      /\ \E op \in {"jmp", "jcc32", "jcc8", "loop"}, len \in {2, 5, 6} : Count(op, len, t)
  BY DEF CopyJmpNear, CopyJmpShort, MeetLoop, CopyJmpc, Stop
<1>3. t \in Int /\ There \in Int /\ Here \in Int /\ to \in Int /\ to <= There /\ to' = to
  <2>1. to \in Int /\ pto \in Nat
    BY <1>1, SizeAssumption DEF MoveTypes
  <2>. QED
    BY <1>1, <1>2, <2>1, Destinations DEF There, Decoding, args
<1>4. ~Plain(head')
  <2>1. PICK op \in {"jmp", "jcc32", "jcc8", "loop"}, len \in {2, 5, 6} : Count(op, len, t)
    BY <1>2
  <2>. QED
    BY <1>1, <1>3, <2>1, TransferCounted
<1>5. Above(out', to)
  <2>1. CASE CopyJmpNear(t) \/ CopyJmpShort(t)
    <3>1. Emit(MakeJmpNear(There, t, "jmp"))
      BY <1>1, <2>1, Destinations DEF CopyJmpNear, CopyJmpShort
    <3>. QED
      BY <1>3, <3>1, NearReaches
  <2>2. CASE MeetLoop(t)
    BY <2>2 DEF MeetLoop, WalkInv
  <2>3. ASSUME NEW kind \in {"jcc32", "jcc8"}, CopyJmpc(t, kind) PROVE Above(out', to)
    <3>. PICK a \in Int, y \in Int, o \in Seq(PieceType) : a = There /\ y = to /\ y <= a /\ o = out
      BY <1>3 DEF WalkInv, MoveInv, SameStraight
    <3>. PICK e \in Int, k \in Int :
           e = Here + (IF kind = "jcc32" THEN 6 ELSE 2) /\ k = t - Here - 2
      BY <1>3
    <3>. PICK q : q = MakeJmpcNear(a, t, e, kind, k)
      OBVIOUS
    <3>1. q \in Seq(PieceType) /\ Above(q, y)
      BY <1>3, ConditionalAbove
    <3>2. Above(o \o q, y)
      BY <3>1, AboveJoin DEF WalkInv
    <3>3. out' = o \o q
      BY <2>3 DEF CopyJmpc, Emit
    <3>. QED
      BY <3>2, <3>3, Zenon
  <2>. QED
    BY <2>1, <2>2, <2>3
<1>. QED
  BY <1>2, <1>3, <1>4, <1>5 DEF WalkInv

\* What ends the head without being translated.
LEMMA EndsWalk ==
  ASSUME WalkInv, MoveInv', DecodeFails \/ MeetRelative
  PROVE  WalkInv'
<1>1. CASE DecodeFails
  BY <1>1 DEF DecodeFails, args, WalkInv
<1>2. CASE MeetRelative
  <2>1. /\ pc = "decode" /\ pc' = "tail" /\ out' = out /\ head' = head /\ to' = to /\ pto' = pto
        /\ pfrom' = pfrom
    BY <1>2 DEF MeetRelative, Decoding, args, Stop, WalkInv, MoveInv, MoveTypes
  <2>. QED
    BY <2>1 DEF WalkInv
<1>. QED
  BY <1>1, <1>2

\* The jump to the rest, or no room for it.
LEMMA RestWalks ==
  ASSUME WalkInv, MoveInv', JumpToRest
  PROVE  WalkInv'
<1>1. /\ pc = "tail" /\ pc' = "done" /\ ret' = pfrom /\ head' = head /\ to' = to
  BY DEF JumpToRest, args
<1>2. MoveTypes /\ out \in Seq(PieceType) /\ Here \in Int /\ There \in Int /\ to \in Int /\ pto \in Nat
  BY SizeAssumption DEF WalkInv, MoveInv, MoveTypes, SameStraight, Here, There
<1>3. CASE pfrom < fromsize /\ pto < tosize
  <2>1. Emit(MakeJmpNear(There, Here, "jmp"))
    BY <1>3 DEF JumpToRest
  <2>2. Above(out', to')
    BY <1>1, <1>2, <2>1, NearReaches
  <2>3. ASSUME Plain(head), ret' # 0 PROVE Ended(out', head', to', to' + pto')
    <3>. PICK a \in Int, y \in Nat, z \in Int, o \in Seq(PieceType) :
           a = to /\ y = pto /\ z = a + y /\ z = There /\ o = out
      BY <1>2 DEF There
    <3>1. Laid(o, Len(o), a, z) /\ Flows(o, Len(o)) /\ o # <<>> /\ head # <<>>
      BY <1>1, <2>3 DEF WalkInv, Walked
    <3>. PICK b \in Int : b = Here
      BY <1>2
    <3>2. PICK p : OnePiece(z, b, "jmp", p)
      BY NearOne
    <3>3. p \in PieceType /\ p.at = z /\ p.op = "jmp" /\ MakeJmpNear(z, b, "jmp") = <<p>>
      BY <3>2 DEF OnePiece
    <3>4. Emit(<<p>>)
      BY <2>1, <3>3
    <3>5. out' = o \o <<p>> /\ pto' = y + p.len /\ p.len \in Int
      BY <1>2, <3>3, <3>4, OneEmitted
    <3>. PICK q : q = o \o <<p>>
      OBVIOUS
    <3>6. Laid(q, Len(q), a, z + p.len)
      BY <3>1, <3>3, LaidMore
    <3>7. Len(q) > 1 /\ Flows(q, Len(q) - 1) /\ q[Len(q)].op = "jmp" /\ q # <<>>
      <4>. PICK n \in Nat : n = Len(o) /\ n # 0
        BY <3>1
      <4>1. Len(q) = n + 1 /\ (\A j \in 1 .. n : q[j] = o[j]) /\ q[n + 1] = p /\ (n + 1) - 1 = n
        BY OneMore
      <4>2. Flows(q, n)
        BY <3>1, <4>1 DEF Flows
      <4>. QED
        BY <3>3, <4>1, <4>2
    <3>8. to' + pto' = z + p.len
      <4>. PICK l \in Int : l = p.len
        BY <3>5
      <4>1. to' = a /\ pto' = y + l
        BY <1>1, <3>5
      <4>2. a + (y + l) = (a + y) + l
        OBVIOUS
      <4>. QED
        BY <4>1, <4>2, Zenon
    <3>9. Ended(q, head, a, z + p.len)
      BY <3>1, <3>6, <3>7 DEF Ended
    <3>. QED
      BY <1>1, <3>5, <3>8, <3>9
  <2>. QED
    BY <1>1, <2>2, <2>3 DEF WalkInv
<1>4. CASE ~(pfrom < fromsize /\ pto < tosize)
  <2>1. out' = out /\ pto' = pto
    BY <1>4 DEF JumpToRest
  <2>2. ASSUME Plain(head), ret' # 0 PROVE Ended(out, head, to, to + pto)
    BY <1>1, <2>2 DEF WalkInv, Walked, Ended
  <2>. QED
    BY <1>1, <2>1, <2>2 DEF WalkInv
<1>. QED
  BY <1>3, <1>4

LEMMA WalkKept == WalkInv /\ [Next]_vars => WalkInv'
<1>. SUFFICES ASSUME WalkInv, [Next]_vars PROVE WalkInv'
  OBVIOUS
<1>1. MoveInv'
  BY MovesKept DEF WalkInv
<1>2. CASE UNCHANGED vars
  BY <1>1, <1>2 DEF vars, args, WalkInv
<1>. QED
  BY <1>1, <1>2, CallWalks, PlainWalks, TransfersWalk, EndsWalk, RestWalks DEF Next

LEMMA NothingWalked == Init => WalkInv
<1>. SUFFICES ASSUME Init PROVE WalkInv
  OBVIOUS
<1>1. MoveInv
  BY NothingMoved
<1>2. out = <<>> /\ head = <<>> /\ pfrom = 0 /\ pto = 0 /\ pc = "decode" /\ to \in Int
  BY SizeAssumption DEF Init
<1>3. Laid(<<>>, Len(<<>>), to, to + pto) /\ Flows(<<>>, Len(<<>>)) /\ Above(<<>>, to)
  BY <1>2 DEF Laid, Flows, Above
<1>. QED
  BY <1>1, <1>2, <1>3 DEF WalkInv, Walked

-----------------------------------------------------------------------------
(* The addresses of the code behind the head, which BehindAt chooses as a  *)
(* function that adds up the lengths.                                      *)

Place(a, b, f, j) == IF j = 1 THEN a ELSE f[j - 1] + b[j - 1].len

\* A function that places the first m instructions of b, from a on.
PlacedTo(f, a, b, m) == f = [j \in 1 .. m + 1 |-> Place(a, b, f, j)]

\* Instructions, as FilterAssumption has them.
Code(b, n) == n \in Nat /\ \A i \in 1 .. n : b[i].len \in 1 .. 15

LEMMA PlacedExists ==
  ASSUME NEW a, NEW b, NEW n \in Nat
  PROVE  \E f : PlacedTo(f, a, b, n)
<1>. DEFINE D == {m \in Nat : \E f : PlacedTo(f, a, b, m)}
<1>1. 0 \in D
  <2>. PICK f : f = [j \in 1 .. 0 + 1 |-> a]
    OBVIOUS
  <2>1. \A j \in 1 .. 0 + 1 : Place(a, b, f, j) = a
    BY DEF Place
  <2>2. PlacedTo(f, a, b, 0)
    BY <2>1 DEF PlacedTo
  <2>. QED
    BY <2>2
<1>2. ASSUME NEW m \in Nat, m \in D PROVE m + 1 \in D
  <2>1. PICK f : PlacedTo(f, a, b, m)
    BY <1>2
  <2>. PICK x : x = Place(a, b, f, m + 2)
    OBVIOUS
  <2>. PICK g : g = [j \in 1 .. (m + 1) + 1 |-> IF j = m + 2 THEN x ELSE f[j]]
    OBVIOUS
  <2>2. f = [j \in 1 .. m + 1 |-> Place(a, b, f, j)]
    BY <2>1 DEF PlacedTo
  <2>3. \A j \in 1 .. m + 1 : g[j] = f[j]
    OBVIOUS
  <2>4. ASSUME NEW j \in 1 .. (m + 1) + 1 PROVE g[j] = Place(a, b, g, j)
    <3>1. Place(a, b, g, j) = Place(a, b, f, j)
      <4>1. CASE j = 1
        BY <4>1 DEF Place
      <4>2. CASE j # 1
        <5>1. j - 1 \in 1 .. m + 1
          BY <4>2
        <5>2. g[j - 1] = f[j - 1]
          BY <2>3, <5>1
        <5>. QED
          BY <5>2 DEF Place
      <4>. QED
        BY <4>1, <4>2
    <3>2. CASE j = m + 2
      BY <3>1, <3>2
    <3>3. CASE j # m + 2
      <4>1. j \in 1 .. m + 1
        BY <3>3
      <4>2. f[j] = Place(a, b, f, j)
        BY <2>2, <4>1
      <4>. QED
        BY <2>3, <3>1, <4>1, <4>2
    <3>. QED
      BY <3>2, <3>3
  <2>5. g = [j \in 1 .. (m + 1) + 1 |-> Place(a, b, g, j)]
    BY <2>4
  <2>6. PlacedTo(g, a, b, m + 1)
    BY <2>5, Zenon DEF PlacedTo
  <2>. QED
    BY <2>6
<1>. HIDE DEF D
<1>3. Nat \subseteq D
  BY <1>1, <1>2, NatSetInduction
<1>. QED
  BY <1>3 DEF D

\* One instruction behind the other.
LEMMA PlacedOn ==
  ASSUME NEW a \in Int, NEW b, NEW n, Code(b, n), NEW f, PlacedTo(f, a, b, n)
  PROVE  /\ f[1] = a
         /\ \A i \in 1 .. n : f[i + 1] = f[i] + b[i].len
         /\ \A i \in 0 .. n : f[i + 1] \in Int /\ a <= f[i + 1] /\ f[i + 1] <= a + 15 * i
<1>1. n \in Nat /\ \A i \in 1 .. n : b[i].len \in 1 .. 15
  BY DEF Code
<1>2. f[1] = a
  BY <1>1 DEF PlacedTo, Place
<1>3. ASSUME NEW i \in 1 .. n PROVE f[i + 1] = f[i] + b[i].len
  <2>1. i + 1 \in 1 .. n + 1 /\ i + 1 # 1 /\ (i + 1) - 1 = i
    BY <1>1
  <2>2. f[i + 1] = Place(a, b, f, i + 1)
    BY <2>1 DEF PlacedTo
  <2>. QED
    BY <2>1, <2>2 DEF Place
<1>. DEFINE D == {m \in Nat : m <= n => f[m + 1] \in Int /\ a <= f[m + 1] /\ f[m + 1] <= a + 15 * m}
<1>4. 0 \in D
  BY <1>2
<1>5. ASSUME NEW m \in Nat, m \in D PROVE m + 1 \in D
  <2>. SUFFICES ASSUME m + 1 <= n
                PROVE  /\ f[(m + 1) + 1] \in Int /\ a <= f[(m + 1) + 1]
                       /\ f[(m + 1) + 1] <= a + 15 * (m + 1)
    OBVIOUS
  <2>1. m + 1 \in 1 .. n
    BY <1>1
  <2>2. f[(m + 1) + 1] = f[m + 1] + b[m + 1].len
    BY <1>3, <2>1
  <2>. PICK x \in Int : x = f[m + 1] /\ a <= x /\ x <= a + 15 * m
    BY <1>1, <1>5, <2>1
  <2>. PICK l \in 1 .. 15 : l = b[m + 1].len
    BY <1>1, <2>1
  <2>3. x + l \in Int /\ a <= x + l /\ x + l <= a + 15 * (m + 1)
    OBVIOUS
  <2>. QED
    BY <2>2, <2>3, Zenon
<1>. HIDE DEF D
<1>6. Nat \subseteq D
  BY <1>4, <1>5, NatSetInduction
<1>7. \A i \in 0 .. n : i \in Nat /\ i <= n
  BY <1>1
<1>. QED
  BY <1>2, <1>3, <1>6, <1>7 DEF D

\* No two at one address.
LEMMA PlacedApart ==
  ASSUME NEW a \in Int, NEW b, NEW n, Code(b, n), NEW f, PlacedTo(f, a, b, n),
         NEW i \in 1 .. n + 1, NEW j \in 1 .. n + 1, f[i] = f[j]
  PROVE  i = j
<1>1. n \in Nat /\ \A k \in 1 .. n : b[k].len \in 1 .. 15
  BY DEF Code
<1>2. \A k \in 1 .. n + 1 : f[k] \in Int
  <2>1. \A k \in 1 .. n + 1 : k - 1 \in 0 .. n /\ (k - 1) + 1 = k
    BY <1>1
  <2>2. \A k \in 0 .. n : f[k + 1] \in Int
    BY PlacedOn
  <2>. QED
    BY <2>1, <2>2
<1>3. \A k \in 1 .. n : f[k] < f[k + 1]
  <2>. SUFFICES ASSUME NEW k \in 1 .. n PROVE f[k] < f[k + 1]
    OBVIOUS
  <2>1. f[k + 1] = f[k] + b[k].len
    BY PlacedOn
  <2>. PICK x \in Int, l \in 1 .. 15 : x = f[k] /\ l = b[k].len
    BY <1>1, <1>2
  <2>2. x < x + l
    OBVIOUS
  <2>. QED
    BY <2>1, <2>2, Zenon
<1>. DEFINE D == {m \in Nat : m <= n => \A k \in 1 .. m : f[k] < f[m + 1]}
<1>4. 0 \in D
  OBVIOUS
<1>5. ASSUME NEW m \in Nat, m \in D PROVE m + 1 \in D
  <2>. SUFFICES ASSUME m + 1 <= n, NEW k \in 1 .. m + 1 PROVE f[k] < f[(m + 1) + 1]
    OBVIOUS
  <2>1. m + 1 \in 1 .. n
    BY <1>1
  <2>2. f[m + 1] < f[(m + 1) + 1]
    BY <1>3, <2>1
  <2>3. CASE k = m + 1
    BY <2>2, <2>3
  <2>4. CASE k # m + 1
    <3>1. k \in 1 .. m /\ m <= n
      BY <1>1, <2>4
    <3>2. f[k] < f[m + 1]
      BY <1>5, <3>1
    <3>3. f[k] \in Int /\ f[m + 1] \in Int /\ f[(m + 1) + 1] \in Int
      BY <1>1, <1>2, <2>1, <3>1
    <3>. QED
      BY <2>2, <3>2, <3>3
  <2>. QED
    BY <2>3, <2>4
<1>. HIDE DEF D
<1>6. Nat \subseteq D
  BY <1>4, <1>5, NatSetInduction
<1>7. ASSUME NEW m \in 0 .. n, NEW k \in 1 .. m PROVE f[k] < f[m + 1]
  BY <1>1, <1>6 DEF D
<1>8. ASSUME NEW k \in 1 .. n + 1, NEW l \in 1 .. n + 1, k < l PROVE f[k] # f[l]
  <2>1. l - 1 \in 0 .. n /\ k \in 1 .. l - 1 /\ (l - 1) + 1 = l
    BY <1>1, <1>8
  <2>2. f[k] < f[l]
    BY <1>7, <2>1
  <2>3. f[k] \in Int /\ f[l] \in Int
    BY <1>2
  <2>. QED
    BY <2>2, <2>3
<1>9. i < j \/ i = j \/ j < i
  BY <1>1
<1>. QED
  BY <1>8, <1>9

\* The function that BehindAt chooses.
Places(a, b) == CHOOSE f : PlacedTo(f, a, b, Len(b))

LEMMA Elements ==
  ASSUME NEW S, NEW s \in Seq(S)
  PROVE  Len(s) \in Nat /\ \A i \in 1 .. Len(s) : s[i] \in S
OBVIOUS

LEMMA BehindPlaced ==
  ASSUME NEW b \in Behind, ret \in Nat
  PROVE  /\ from + ret \in Int /\ Code(b, Len(b))
         /\ PlacedTo(Places(from + ret, b), from + ret, b, Len(b))
         /\ \A i : BehindAt(b, i) = Places(from + ret, b)[i]
<1>1. from + ret \in Int
  BY FilterAssumption
<1>2. Code(b, Len(b))
  <2>. PICK S : S = [len : 1 .. 15, op : {"plain", "ret"}]
    OBVIOUS
  <2>1. b \in Seq(S)
    BY FilterAssumption
  <2>2. Len(b) \in Nat /\ \A i \in 1 .. Len(b) : b[i] \in S
    BY <2>1, Elements, Zenon
  <2>3. \A x \in S : x.len \in 1 .. 15
    OBVIOUS
  <2>. QED
    BY <2>2, <2>3 DEF Code
<1>3. PlacedTo(Places(from + ret, b), from + ret, b, Len(b))
  <2>1. \E f : PlacedTo(f, from + ret, b, Len(b))
    BY <1>2, PlacedExists DEF Code
  <2>. QED
    BY <2>1, Zenon DEF Places
<1>4. \A i : BehindAt(b, i) = Places(from + ret, b)[i]
  BY DEF BehindAt, Places, PlacedTo, Place
<1>. QED
  BY <1>1, <1>2, <1>3, <1>4

-----------------------------------------------------------------------------
(* The entries of the table.                                               *)

\* s begins with the addresses of the first k pieces of o and goes on with the
\* addresses of at most n instructions that f gives.
Tabled(s, k, o, f, n) ==
  /\ Len(s) \in Nat
  /\ \A i \in 1 .. Len(s) :
       /\ i <= k => s[i] = o[i].at
       /\ i > k => i - k \in 1 .. n /\ s[i] = f[i - k]

LEMMA JoinIs ==
  ASSUME NEW S, NEW x \in Seq(S), NEW y \in Seq(S), NEW n \in Nat, NEW m \in Nat,
         n = Len(x), m = Len(y)
  PROVE  /\ x \o y \in Seq(S) /\ Len(x \o y) = n + m
         /\ \A i \in 1 .. n : (x \o y)[i] = x[i]
         /\ \A i \in n + 1 .. n + m : i - n \in 1 .. m /\ (x \o y)[i] = y[i - n]
OBVIOUS

LEMMA CutIs ==
  ASSUME NEW S, NEW w \in Seq(S), NEW z \in Nat, Len(w) > z
  PROVE  Len(SubSeq(w, 1, z)) = z /\ \A i \in 1 .. z : SubSeq(w, 1, z)[i] = w[i]
OBVIOUS

\* s is the n entries of x and the m entries of y behind them, or the first of these.
CutOf(s, x, n, y, m) ==
  /\ Len(s) \in Nat
  /\ \A i \in 1 .. Len(s) :
       /\ i <= n => s[i] = x[i]
       /\ i > n => i - n \in 1 .. m /\ s[i] = y[i - n]

LEMMA CutJoin ==
  ASSUME NEW S, NEW x \in Seq(S), NEW y \in Seq(S), NEW n \in Nat, NEW m \in Nat,
         n = Len(x), m = Len(y), NEW z \in Nat, NEW s,
         s = IF Len(x \o y) > z THEN SubSeq(x \o y, 1, z) ELSE x \o y
  PROVE  CutOf(s, x, n, y, m)
<1>. DEFINE w == x \o y
<1>1. /\ w \in Seq(S) /\ Len(w) = n + m
      /\ \A i \in 1 .. n : w[i] = x[i]
      /\ \A i \in n + 1 .. n + m : i - n \in 1 .. m /\ w[i] = y[i - n]
  BY JoinIs
<1>0. s = IF Len(w) > z THEN SubSeq(w, 1, z) ELSE w
  OBVIOUS
<1>. HIDE DEF w
<1>2. Len(s) \in Nat /\ Len(s) <= n + m /\ \A i \in 1 .. Len(s) : s[i] = w[i]
  <2>1. CASE Len(w) > z
    <3>1. s = SubSeq(w, 1, z)
      BY <1>0, <2>1
    <3>2. Len(SubSeq(w, 1, z)) = z /\ \A i \in 1 .. z : SubSeq(w, 1, z)[i] = w[i]
      BY <1>1, <2>1, CutIs
    <3>3. Len(s) = z /\ \A i \in 1 .. z : s[i] = w[i]
      BY <3>1, <3>2, Zenon
    <3>4. z <= n + m
      BY <1>1, <2>1
    <3>. QED
      BY <3>3, <3>4
  <2>2. CASE ~(Len(w) > z)
    <3>1. s = w
      BY <1>0, <2>2
    <3>. QED
      BY <1>1, <3>1
  <2>. QED
    BY <2>1, <2>2
<1>3. ASSUME NEW i \in 1 .. Len(s), i <= n PROVE s[i] = x[i]
  BY <1>1, <1>2, <1>3
<1>4. ASSUME NEW i \in 1 .. Len(s), i > n PROVE i - n \in 1 .. m /\ s[i] = y[i - n]
  <2>1. i \in n + 1 .. n + m
    BY <1>2, <1>4
  <2>. QED
    BY <1>1, <1>2, <2>1
<1>. QED
  BY <1>2, <1>3, <1>4 DEF CutOf

\* What follows from it for a sequence of addresses.
LEMMA JoinTabled ==
  ASSUME NEW k \in Nat, NEW m \in Nat, NEW n \in Nat, m <= n, NEW o, NEW f, NEW x, NEW y, NEW s,
         \A i \in 1 .. k : x[i] = o[i].at, \A i \in 1 .. m : y[i] = f[i],
         CutOf(s, x, k, y, m)
  PROVE  Tabled(s, k, o, f, n)
<1>0. /\ Len(s) \in Nat
      /\ \A i \in 1 .. Len(s) :
           /\ i <= k => s[i] = x[i]
           /\ i > k => i - k \in 1 .. m /\ s[i] = y[i - k]
  BY DEF CutOf
<1>1. ASSUME NEW i \in 1 .. Len(s), i <= k PROVE s[i] = o[i].at
  <2>1. i \in 1 .. k /\ s[i] = x[i]
    BY <1>0, <1>1
  <2>. QED
    BY <2>1
<1>2. ASSUME NEW i \in 1 .. Len(s), i > k PROVE i - k \in 1 .. n /\ s[i] = f[i - k]
  <2>1. i - k \in 1 .. m /\ s[i] = y[i - k]
    BY <1>0, <1>2
  <2>2. i - k \in 1 .. n
    BY <2>1
  <2>. QED
    BY <2>1, <2>2
<1>. QED
  BY <1>0, <1>1, <1>2 DEF Tabled

\* The pieces of o before the last one flow into it, it jumps, no call takes 16
\* bytes, and all lie before z.
Simple(o, z) ==
  /\ Len(o) > 1 /\ Flows(o, Len(o) - 1) /\ o[Len(o)].op = "jmp"
  /\ \A i \in 1 .. Len(o) : o[i].len # 16 /\ ~(o[i].at + o[i].len > z)

\* The disassembler takes a piece of the buffer for what it is.
LEMMA WithinSure ==
  ASSUME to + tosize \in Int, NEW p \in PieceType, p.op # "junk",
         ~(p.at + p.len > to + tosize)
  PROVE  ~(p.at >= to + tosize) /\ ~Doubtful(p)
<1>1. p.at \in Int /\ p.len \in 1 .. 16
  BY DEF PieceType
<1>. PICK a \in Int, l \in 1 .. 16, z \in Int : a = p.at /\ l = p.len /\ z = to + tosize
  BY <1>1
<1>2. InsnSize(p) \in Int /\ InsnSize(p) <= l
  BY DEF InsnSize
<1>. PICK k \in Int : k = InsnSize(p) /\ k <= l
  BY <1>2
<1>3. ~(a + l > z) => ~(a + k > z) /\ ~(a >= z)
  OBVIOUS
<1>. QED
  BY <1>3 DEF Doubtful

\* Then each piece but the last one gets an entry.
LEMMA HeadEntriesAre ==
  ASSUME out \in Seq(PieceType), to + tosize \in Int, NEW g \in BOOLEAN
  PROVE  \E k \in 0 .. Len(out) :
           /\ HeadEntries(g) = [i \in 1 .. k |-> out[i].at]
           /\ Simple(out, to + tosize) => k = Len(out) - 1
<1>. PICK n \in Nat : n = Len(out)
  OBVIOUS
<1>1. Stops(g) \subseteq Nat \ {0} /\ n + 1 \in Stops(g)
  BY DEF Stops
<1>2. ASSUME Simple(out, to + tosize) PROVE n \in Stops(g) /\ \A i \in Stops(g) : n <= i
  <2>1. /\ n > 1 /\ out[n].op = "jmp" /\ \A i \in 1 .. n - 1 : out[i].op \in {"plain", "call"}
        /\ \A i \in 1 .. n : out[i].len # 16 /\ ~(out[i].at + out[i].len > to + tosize)
    BY <1>2 DEF Simple, Flows
  <2>2. n \in Stops(g)
    BY <2>1 DEF Stops, EndsTable
  <2>3. PICK z : z = to + tosize
    OBVIOUS
  <2>4. ASSUME NEW i \in DOMAIN out PROVE ~(out[i].at >= to + tosize) /\ ~Doubtful(out[i])
    BY <1>2, <2>1, <2>4, WithinSure
  <2>5. {j \in DOMAIN out : out[j].op = "call" /\ out[j].len = 16} = {}
    BY <2>1
  <2>6. \A i \in DOMAIN out : EndsTable(out[i]) => i = n
    BY <2>1 DEF EndsTable
  <2>7. \A i \in Stops(g) : i = n \/ i = n + 1
    BY <2>4, <2>5, <2>6 DEF Stops
  <2>. QED
    BY <2>2, <2>7
<1>3. FirstStop(g) \in Stops(g) /\ \A j \in Stops(g) : FirstStop(g) <= j
  BY <1>1, LeastOf DEF FirstStop
<1>4. HeadEntries(g) = [i \in 1 .. FirstStop(g) - 1 |-> out[i].at]
  BY DEF HeadEntries
<1>. PICK l \in Nat \ {0} : l = FirstStop(g) /\ l <= n + 1 /\ \A j \in Stops(g) : l <= j
  BY <1>1, <1>3
<1>5. l - 1 \in 0 .. n
  OBVIOUS
<1>6. Simple(out, to + tosize) => l - 1 = n - 1
  <2>. SUFFICES ASSUME Simple(out, to + tosize) PROVE l = n
    OBVIOUS
  <2>1. l <= n /\ n <= l
    BY <1>2, <1>3
  <2>. QED
    BY <2>1
<1>. QED
  BY <1>4, <1>5, <1>6

LEMMA BehindEntriesAre ==
  ASSUME NEW b \in Behind
  PROVE  \E m \in 0 .. Len(b) : BehindEntries(b) = [i \in 1 .. m |-> BehindAt(b, i)]
<1>. DEFINE ends == {i \in DOMAIN b : b[i].op = "ret"} \cup {Len(b)}
            least == CHOOSE i \in ends : \A j \in ends : i <= j
<1>1. ends \subseteq Nat /\ Len(b) \in ends
  BY FilterAssumption
<1>. HIDE DEF ends
<1>2. least \in Nat /\ least <= Len(b)
  BY <1>1, LeastOf
<1>3. BehindEntries(b) = [i \in 1 .. least |-> BehindAt(b, i)]
  BY DEF BehindEntries, ends
<1>. HIDE DEF least
<1>4. least \in 0 .. Len(b)
  BY <1>1, <1>2
<1>. QED
  BY <1>3, <1>4

\* make_skip_array: the entries of the translated head, then those behind it.
LEMMA TableRight ==
  ASSUME out \in Seq(PieceType), ret \in Nat, to + tosize \in Int,
         NEW b \in Behind, NEW g \in BOOLEAN
  PROVE  \E k \in 0 .. Len(out) :
           /\ Tabled(SkipTable(b, g), k, out, Places(from + ret, b), Len(b))
           /\ Simple(out, to + tosize) => k = Len(out) - 1
<1>1. PICK k \in 0 .. Len(out) :
        /\ HeadEntries(g) = [i \in 1 .. k |-> out[i].at]
        /\ Simple(out, to + tosize) => k = Len(out) - 1
  BY HeadEntriesAre
<1>2. PICK m \in 0 .. Len(b) :
        (IF Undecoded(g) THEN <<>> ELSE BehindEntries(b)) = [i \in 1 .. m |-> BehindAt(b, i)]
  <2>1. CASE Undecoded(g)
    <3>1. <<>> = [i \in 1 .. 0 |-> BehindAt(b, i)] /\ 0 \in 0 .. Len(b)
      BY FilterAssumption
    <3>. QED
      BY <2>1, <3>1
  <2>2. CASE ~Undecoded(g)
    BY <2>2, BehindEntriesAre
  <2>. QED
    BY <2>1, <2>2
<1>3. Len(b) \in Nat /\ \A i : BehindAt(b, i) = Places(from + ret, b)[i]
  BY BehindPlaced DEF Code
<1>10. PICK x : x = [i \in 1 .. k |-> out[i].at]
  OBVIOUS
<1>11. PICK y : y = [i \in 1 .. m |-> BehindAt(b, i)]
  OBVIOUS
<1>12. PICK S : S = {x[i] : i \in 1 .. k} \cup {y[i] : i \in 1 .. m}
  OBVIOUS
<1>4. k \in Nat /\ m \in Nat /\ m <= Len(b)
  BY <1>3
<1>5. x \in Seq(S) /\ k = Len(x) /\ \A i \in 1 .. k : x[i] = out[i].at
  BY <1>4, <1>10, <1>12
<1>6. y \in Seq(S) /\ m = Len(y) /\ \A i \in 1 .. m : y[i] = Places(from + ret, b)[i]
  BY <1>3, <1>4, <1>11, <1>12
<1>13. PICK s : s = SkipTable(b, g)
  OBVIOUS
<1>7. 16 \in Nat /\ s = IF Len(x \o y) > 16 THEN SubSeq(x \o y, 1, 16) ELSE x \o y
  BY <1>1, <1>2, <1>10, <1>11, <1>13 DEF SkipTable, Entries, MAX_SKIP_RIP
<1>8. CutOf(s, x, k, y, m)
  <2>1. x \in Seq(S) /\ k = Len(x)
    BY <1>5
  <2>2. y \in Seq(S) /\ m = Len(y)
    BY <1>6
  <2>. QED
    BY <1>4, <1>7, <2>1, <2>2, CutJoin, Zenon
<1>9. Tabled(s, k, out, Places(from + ret, b), Len(b))
  <2>1. /\ k \in Nat /\ m \in Nat /\ Len(b) \in Nat /\ m <= Len(b)
        /\ \A i \in 1 .. k : x[i] = out[i].at
        /\ \A i \in 1 .. m : y[i] = Places(from + ret, b)[i]
    BY <1>3, <1>4, <1>5, <1>6
  <2>. QED
    BY <1>8, <2>1, JoinTabled, Zenon
<1>. QED
  BY <1>1, <1>9, <1>13

-----------------------------------------------------------------------------
(* What a filter keeps from one step to the next.                          *)

\* The table s has the entries that make_skip_array gives for b.
Filled(s, b) ==
  \E k \in 0 .. Len(out) :
    /\ Tabled(s, k, out, Places(from + ret, b), Len(b))
    /\ Simple(out, to + tosize) => k = Len(out) - 1

\* Where the call c goes on when the filter function asked for k instructions.
AnswersFor(c, k, t, s) ==
  IF k >= 1 /\ k < MAX_SKIP_RIP
    THEN c.skipped = k /\ c.at = IF k < Len(s) THEN s[k + 1] ELSE 0
    ELSE c.skipped = 0 /\ c.at = t

Reached == isX64 => link = "bridge"

ResumeInv ==
  /\ FInv /\ WalkInv
  /\ link \in {"near", "bridge"} /\ (~isX64 => link = "near")
  /\ link = "bridge" => mincopysize = 6
  /\ phase # "installed" => cpu = NotRun
  /\ phase = "installed" =>
       /\ pc = "done" /\ ret >= mincopysize
       /\ behind \in Behind /\ Filled(skip, behind)
  /\ phase = "installed" /\ cpu # NotRun /\ Reached =>
       \E k \in Int : AnswersFor(cpu, k, to, skip)

LEMMA StubReached ==
  ASSUME to \in Int, link \in {"near", "bridge"}, ~isX64 => link = "near", Reached
  PROVE  EntryAt = StubAt
<1>. PICK p \in Int : p = ProxyCode
  BY DEF ProxyCode, StubSize
<1>1. CASE isX64
  BY <1>1 DEF Reached, EntryAt, StubAt, WordSize
<1>2. CASE ~isX64
  BY <1>2 DEF EntryAt, StubAt
<1>. QED
  BY <1>1, <1>2

LEMMA ResumeKept == ResumeInv /\ [FNext]_fvars => ResumeInv'
<1>. SUFFICES ASSUME ResumeInv, [FNext]_fvars PROVE ResumeInv'
  OBVIOUS
<1>1. FInv'
  BY FilterStep DEF ResumeInv
<1>2. WalkInv'
  <2>1. [Next]_vars
    BY DEF FNext, fvars, SlotOutOfReach, CopyHead, TooShort, Install, Uninstall, FilteredCall
  <2>. QED
    BY <2>1, WalkKept DEF ResumeInv
<1>3. isX64' = isX64 /\ mincopysize' = mincopysize /\ link' = link
  BY DEF FNext, fvars, vars, filterVars, args, SlotOutOfReach, CopyHead, TooShort, Install,
     Uninstall, FilteredCall, Next, DecodeFails, MeetRelative, JumpToRest, CopyCall, CopyJmpNear,
     CopyJmpShort, MeetLoop, CopyJmpc, CopyPlain, Decoding
<1>4. /\ link' \in {"near", "bridge"} /\ (~isX64' => link' = "near")
      /\ link' = "bridge" => mincopysize' = 6
  BY <1>3 DEF ResumeInv
<1>5. ASSUME UNCHANGED vars, UNCHANGED <<skip, behind>>, phase = "installed"
      PROVE  /\ pc' = "done" /\ ret' >= mincopysize'
             /\ behind' \in Behind /\ Filled(skip, behind)'
  BY <1>5 DEF vars, args, ResumeInv, Filled
<1>6. CASE phase' # "installed" /\ cpu' = NotRun
  BY <1>1, <1>2, <1>4, <1>6 DEF ResumeInv
<1>7. CASE SlotOutOfReach \/ CopyHead \/ TooShort
  BY <1>6, <1>7 DEF ResumeInv, SlotOutOfReach, CopyHead, TooShort, filterVars
<1>8. ASSUME NEW w \in {"ok", "denied"}, Uninstall(w) PROVE ResumeInv'
  BY <1>6, <1>8 DEF Uninstall
<1>9. ASSUME NEW b \in Behind, NEW w \in {"ok", "denied"}, NEW g \in BOOLEAN, Install(b, w, g)
      PROVE  ResumeInv'
  <2>1. cpu' = NotRun
    BY <1>9 DEF Install, ResumeInv
  <2>2. CASE phase' = "failed"
    BY <1>6, <2>1, <2>2
  <2>3. CASE phase' # "failed"
    <3>1. /\ phase' = "installed" /\ skip' = SkipTable(b, g) /\ behind' = b
          /\ pc = "done" /\ ret >= mincopysize /\ UNCHANGED vars
      BY <1>9, <2>3 DEF Install
    <3>2. out \in Seq(PieceType) /\ ret \in Nat /\ to + tosize \in Int
      BY SizeAssumption DEF ResumeInv, WalkInv, MoveInv, MoveTypes, SameStraight
    <3>3. Filled(SkipTable(b, g), b)
      BY <3>2, TableRight DEF Filled
    <3>4. Filled(skip, behind)'
      BY <3>1, <3>3 DEF Filled, vars, args
    <3>5. pc' = "done" /\ ret' >= mincopysize' /\ behind' \in Behind
      BY <3>1 DEF vars, args
    <3>. QED
      BY <1>1, <1>2, <1>4, <2>1, <3>1, <3>4, <3>5 DEF ResumeInv
  <2>. QED
    BY <2>2, <2>3
<1>10. ASSUME NEW k \in Skips, NEW x \in Stored, NEW s \in BOOLEAN, FilteredCall(k, x, s)
       PROVE  ResumeInv'
  <2>1. phase = "installed" /\ phase' = "installed" /\ UNCHANGED vars /\ UNCHANGED <<skip, behind>>
    BY <1>10 DEF FilteredCall
  <2>2. ASSUME Reached' PROVE \E j \in Int : AnswersFor(cpu', j, to', skip')
    <3>1. Reached /\ to \in Int
      BY <1>3, <2>2, SizeAssumption DEF Reached, ResumeInv, WalkInv, MoveInv, MoveTypes
    <3>2. EntryAt = StubAt
      BY <3>1, StubReached DEF ResumeInv
    <3>3. cpu' = [at |-> SkipRip(k), skipped |-> IF SkipAccepted(k) THEN k ELSE 0,
                  regs |-> [wrote |-> x, spilt |-> s, loaded |-> Loaded(FrameAfter(x, s))]]
      BY <1>10, <3>2 DEF FilteredCall
    <3>4. cpu'.at = SkipRip(k) /\ cpu'.skipped = IF SkipAccepted(k) THEN k ELSE 0
      BY <3>3
    <3>5. AnswersFor(cpu', k, to, skip)
      BY <3>4 DEF AnswersFor, SkipRip, SkipAccepted
    <3>6. to' = to /\ skip' = skip /\ k \in Int
      BY <2>1, FilterAssumption DEF vars, args
    <3>. QED
      BY <3>5, <3>6
  <2>. QED
    BY <1>1, <1>2, <1>4, <1>5, <2>1, <2>2 DEF ResumeInv
<1>11. CASE UNCHANGED fvars
  <2>1. UNCHANGED vars /\ UNCHANGED <<link, phase, behind, skip, cpu>>
    BY <1>11 DEF fvars, filterVars
  <2>2. to' = to
    BY <2>1 DEF vars, args
  <2>3. Reached' = Reached
    BY <1>3 DEF Reached
  <2>. QED
    BY <1>1, <1>2, <1>4, <1>5, <2>1, <2>2, <2>3 DEF ResumeInv
<1>. QED
  BY <1>7, <1>8, <1>9, <1>10, <1>11 DEF FNext

LEMMA ResumeAtFirst == FInit => ResumeInv
<1>. SUFFICES ASSUME FInit PROVE ResumeInv
  OBVIOUS
<1>1. FInv /\ WalkInv
  BY FilterInitially, NothingWalked DEF FInit
<1>2. isX64 \in BOOLEAN
  BY SizeAssumption DEF FInit, Init
<1>3. link \in {"near", "bridge"} /\ (~isX64 => link = "near")
  BY <1>2 DEF FInit
<1>4. link = "bridge" => mincopysize = 6
  BY DEF FInit, PatchSize
<1>5. phase = "copy" /\ cpu = NotRun
  BY DEF FInit
<1>. QED
  BY <1>1, <1>3, <1>4, <1>5 DEF ResumeInv

-----------------------------------------------------------------------------
(* What the table promises.                                                *)

\* No entry is the address that stands for a wild jump.
LEMMA EntriesTame ==
  ASSUME NEW o \in Seq(PieceType), NEW a \in Nat, Above(o, a), NEW k \in Nat, k <= Len(o),
         NEW r \in Nat, NEW b, NEW n, Code(b, n), NEW f, PlacedTo(f, r, b, n),
         NEW s, Tabled(s, k, o, f, n), NEW i \in 1 .. Len(s)
  PROVE  s[i] # Wild
<1>. PICK m \in Nat : m = Len(o)
  OBVIOUS
<1>1. /\ i <= k => s[i] = o[i].at
      /\ i > k => i - k \in 1 .. n /\ s[i] = f[i - k]
  BY DEF Tabled
<1>2. i \in Nat /\ i >= 1
  BY DEF Tabled
<1>3. CASE i <= k
  <2>1. i \in 1 .. m
    BY <1>2, <1>3
  <2>2. o[i].at >= a /\ o[i].at \in Int
    <3>1. o[i] \in PieceType
      BY <2>1
    <3>. QED
      BY <2>1, <3>1 DEF Above, PieceType
  <2>. QED
    BY <1>1, <1>3, <2>2 DEF Wild
<1>4. CASE i > k
  <2>1. i - k \in 1 .. n /\ n \in Nat
    BY <1>1, <1>4 DEF Code
  <2>. PICK j \in Nat : j + 1 = i - k /\ j \in 0 .. n
    BY <2>1
  <2>2. \A l \in 0 .. n : f[l + 1] \in Int /\ r <= f[l + 1]
    BY PlacedOn
  <2>3. f[i - k] \in Int /\ r <= f[i - k]
    BY <2>2, Zenon
  <2>. QED
    BY <1>1, <1>4, <2>3 DEF Wild
<1>. QED
  BY <1>2, <1>3, <1>4

\* Behind a piece comes the next one, or what the last one jumps to.
LEMMA FollowInside ==
  ASSUME out \in Seq(PieceType), NEW n \in Nat, n = Len(out), n > 1, NEW a, NEW z,
         Laid(out, n, a, z), Flows(out, n - 1), out[n].op = "jmp", NEW i \in 1 .. n - 1
  PROVE  Follow(out[i].at) = IF i = n - 1 THEN out[n].to ELSE out[i + 1].at
<1>. DEFINE x == out[i].at
            here == {j \in DOMAIN out : out[j].at = x}
            Past(b) == LET jumps == {j \in DOMAIN out : out[j].at = b /\ out[j].op = "jmp"}
                       IN IF jumps = {} THEN b ELSE out[CHOOSE j \in jumps : TRUE].to
<1>1. DOMAIN out = 1 .. n /\ i \in 1 .. n /\ i + 1 \in 1 .. n /\ n \in 1 .. n
  OBVIOUS
<1>2. \A j, l \in 1 .. n : out[j].at = out[l].at => j = l
  <2>1. \A j \in 1 .. n : out[j].at \in Int
    <3>1. \A j \in 1 .. n : out[j] \in PieceType
      BY <1>1
    <3>. QED
      BY <3>1 DEF PieceType
  <2>2. \A j, l \in 1 .. n : j < l => out[j].at < out[l].at
    BY DEF Laid
  <2>3. \A j, l \in 1 .. n : j < l \/ j = l \/ l < j
    OBVIOUS
  <2>. QED
    BY <2>1, <2>2, <2>3
<1>3. here = {i}
  BY <1>1, <1>2
<1>4. (CHOOSE j \in here : TRUE) = i
  BY <1>3
<1>5. out[i + 1].at = x + out[i].len
  BY DEF Laid
<1>6. Follow(x) = Past(x + out[i].len)
  <2>. DEFINE c == CHOOSE j \in here : TRUE
              after == {j \in DOMAIN behind : BehindAt(behind, j) = x}
  <2>1. Follow(x) = IF here # {} THEN Past(x + out[c].len)
                    ELSE IF after # {} THEN x + behind[CHOOSE j \in after : TRUE].len
                    ELSE Wild
    BY Zenon DEF Follow
  <2>2. here # {} /\ c = i
    BY <1>3, <1>4
  <2>. HIDE DEF here, Past, c, after
  <2>. QED
    BY <2>1, <2>2
<1>7. \A j \in 1 .. n : out[j].op = "jmp" => j = n
  <2>1. \A j \in 1 .. n : j = n \/ j \in 1 .. n - 1
    OBVIOUS
  <2>. QED
    BY <2>1 DEF Flows
<1>. DEFINE jumps == {j \in DOMAIN out : out[j].at = out[i + 1].at /\ out[j].op = "jmp"}
<1>8. Past(out[i + 1].at) = IF jumps = {} THEN out[i + 1].at ELSE out[CHOOSE j \in jumps : TRUE].to
  OBVIOUS
<1>9. CASE i = n - 1
  <2>1. jumps = {n}
    BY <1>1, <1>2, <1>7, <1>9
  <2>2. (CHOOSE j \in jumps : TRUE) = n
    BY <2>1
  <2>. HIDE DEF Past, jumps
  <2>. QED
    BY <1>5, <1>6, <1>8, <1>9, <2>1, <2>2
<1>10. CASE i # n - 1
  <2>1. jumps = {}
    BY <1>1, <1>2, <1>7, <1>10
  <2>. HIDE DEF Past, jumps
  <2>. QED
    BY <1>5, <1>6, <1>8, <1>10, <2>1
<1>. QED
  BY <1>9, <1>10

LEMMA NextPlaced ==
  ASSUME NEW a \in Int, NEW b, NEW n, Code(b, n), NEW f, PlacedTo(f, a, b, n), NEW j \in 1 .. n
  PROVE  f[j + 1] = f[j] + b[j].len
<1>1. \A i \in 1 .. n : f[i + 1] = f[i] + b[i].len
  BY PlacedOn
<1>. QED
  BY <1>1

\* Behind an instruction of the function comes the next one.
LEMMA FollowBehind ==
  ASSUME out \in Seq(PieceType), behind \in Behind, ret \in Nat,
         NEW f, f = Places(from + ret, behind), NEW j \in 1 .. Len(behind),
         \A i \in 1 .. Len(out) : out[i].at # f[j]
  PROVE  Follow(f[j]) = f[j + 1]
<1>1. /\ from + ret \in Int /\ Code(behind, Len(behind))
      /\ PlacedTo(f, from + ret, behind, Len(behind))
      /\ \A i : BehindAt(behind, i) = f[i]
  BY BehindPlaced
<1>2. Len(behind) \in Nat /\ DOMAIN behind = 1 .. Len(behind)
  BY <1>1, FilterAssumption DEF Code
<1>3. \A i \in 1 .. Len(behind) : f[i] = f[j] => i = j
  <2>. SUFFICES ASSUME NEW i \in 1 .. Len(behind), f[i] = f[j] PROVE i = j
    OBVIOUS
  <2>1. i \in 1 .. Len(behind) + 1 /\ j \in 1 .. Len(behind) + 1
    BY <1>2
  <2>. QED
    BY <1>1, <2>1, PlacedApart
<1>. DEFINE here == {i \in DOMAIN out : out[i].at = f[j]}
            after == {i \in DOMAIN behind : BehindAt(behind, i) = f[j]}
<1>4. here = {}
  OBVIOUS
<1>5. after = {j}
  BY <1>1, <1>2, <1>3
<1>6. (CHOOSE i \in after : TRUE) = j
  BY <1>5
<1>7. Follow(f[j]) = f[j] + behind[j].len
  <2>. DEFINE c == CHOOSE i \in after : TRUE
              Past(b) == LET jumps == {i \in DOMAIN out : out[i].at = b /\ out[i].op = "jmp"}
                         IN IF jumps = {} THEN b ELSE out[CHOOSE i \in jumps : TRUE].to
  <2>1. Follow(f[j]) = IF here # {} THEN Past(f[j] + out[CHOOSE i \in here : TRUE].len)
                       ELSE IF after # {} THEN f[j] + behind[c].len
                       ELSE Wild
    BY Zenon DEF Follow
  <2>2. here = {} /\ after # {} /\ c = j
    BY <1>4, <1>5, <1>6
  <2>. HIDE DEF here, Past, c, after
  <2>. QED
    BY <2>1, <2>2
<1>8. f[j + 1] = f[j] + behind[j].len
  <2>. PICK a \in Int : a = from + ret
    BY <1>1
  <2>. PICK m \in Nat : m = Len(behind)
    BY <1>2
  <2>1. Code(behind, m) /\ PlacedTo(f, a, behind, m) /\ j \in 1 .. m
    BY <1>1
  <2>. HIDE DEF here, after
  <2>. QED
    BY <2>1, NextPlaced
<1>. QED
  BY <1>7, <1>8

\* The buffer and the code behind the head do not meet.
LEMMA FarApart ==
  ASSUME NEW t \in Int, NEW z \in Int, NEW r \in Nat, NEW m \in Nat, NEW y \in Int, NEW d \in Nat,
         z <= t + 90, r <= 32, d < m,
         t + 90 <= from \/ from + 32 + 15 * m < t,
         from + r <= y, y <= from + r + 15 * d,
         NEW x \in Int, NEW l \in 1 .. 16, t <= x, x + l <= z
  PROVE  x # y
<1>1. from \in Int /\ 15 * d <= 15 * m
  BY FilterAssumption
<1>. QED
  BY <1>1

\* A walk along entries each of which follows the one before.
LEMMA WalkIs ==
  ASSUME NEW s, Len(s) \in Nat, s[1] = to,
         \A i \in 1 .. Len(s) - 1 : Follow(s[i]) = s[i + 1],
         NEW k \in Nat, k < Len(s)
  PROVE  Executed(k) = s[k + 1]
<1>. DEFINE Goes(f) == f = [i \in 0 .. k |-> IF i = 0 THEN to ELSE Follow(f[i - 1])]
<1>1. \E f : Goes(f)
  <2>. PICK g : g = [i \in 0 .. k |-> s[i + 1]]
    OBVIOUS
  <2>1. ASSUME NEW i \in 0 .. k PROVE g[i] = IF i = 0 THEN to ELSE Follow(g[i - 1])
    <3>1. CASE i = 0
      BY <3>1
    <3>2. CASE i # 0
      <4>1. i - 1 \in 0 .. k /\ (i - 1) + 1 = i /\ i \in 1 .. Len(s) - 1
        BY <3>2
      <4>2. g[i - 1] = s[i] /\ g[i] = s[i + 1]
        BY <4>1
      <4>3. Follow(s[i]) = s[i + 1]
        BY <4>1
      <4>. QED
        BY <3>2, <4>2, <4>3
    <3>. QED
      BY <3>1, <3>2
  <2>2. g = [i \in 0 .. k |-> IF i = 0 THEN to ELSE Follow(g[i - 1])]
    BY <2>1
  <2>. QED
    BY <2>2, Zenon
<1>. DEFINE walk == CHOOSE f : Goes(f)
<1>2. Goes(walk)
  BY <1>1, Zenon
<1>3. Executed(k) = walk[k]
  BY DEF Executed
<1>. HIDE DEF walk
<1>4. \A i \in 0 .. k : walk[i] = IF i = 0 THEN to ELSE Follow(walk[i - 1])
  <2>1. walk = [i \in 0 .. k |-> IF i = 0 THEN to ELSE Follow(walk[i - 1])]
    BY <1>2, Zenon
  <2>. QED
    BY <2>1
<1>. HIDE DEF Goes
<1>. DEFINE D == {m \in Nat : m <= k => walk[m] = s[m + 1]}
<1>5. 0 \in D
  BY <1>4
<1>6. ASSUME NEW m \in Nat, m \in D PROVE m + 1 \in D
  <2>. SUFFICES ASSUME m + 1 <= k PROVE walk[m + 1] = s[(m + 1) + 1]
    OBVIOUS
  <2>1. m + 1 \in 0 .. k /\ m + 1 # 0 /\ (m + 1) - 1 = m /\ m + 1 \in 1 .. Len(s) - 1
    OBVIOUS
  <2>2. walk[m + 1] = Follow(walk[m])
    BY <1>4, <2>1
  <2>3. walk[m] = s[m + 1]
    BY <1>6
  <2>. QED
    BY <2>1, <2>2, <2>3
<1>. HIDE DEF D
<1>7. k \in D
  <2>1. Nat \subseteq D
    BY <1>5, <1>6, NatSetInduction
  <2>. QED
    BY <2>1
<1>. QED
  BY <1>3, <1>7 DEF D

\* Where nothing transfers control, it runs out of the buffer.
LEMMA FlowsOut ==
  ASSUME NEW o, NEW n \in Nat, n = Len(o), NEW taken, NEW f, FlowFrom(o, taken, 1, f), Flows(o, n)
  PROVE  f[1] = Wild
<1>1. n \in 0 .. n /\ n + 1 \in 1 .. n + 1
  OBVIOUS
<1>2. f[1] = f[n + 1]
  BY <1>1, FlowsOn
<1>3. f[n + 1] = FlowStep(o, taken, f, n + 1)
  BY <1>1 DEF FlowFrom
<1>4. FlowStep(o, taken, f, n + 1) = Wild
  BY DEF FlowStep
<1>. QED
  BY <1>2, <1>3, <1>4

\* What is known of an installed filter whose table an x64 build reaches and
\* whose head has instructions that are translated one to one.
Straightly ==
  /\ phase = "installed" /\ Reached
  /\ OneToOne /\ NoFarCall /\ TailExact

\* Then the buffer is the head and a jump to the rest, and fits.
LEMMA HeadStraight ==
  ASSUME ResumeInv, Straightly
  PROVE  /\ out \in Seq(PieceType) /\ Simple(out, to + tosize)
         /\ Laid(out, Len(out), to, to + pto)
         /\ out[Len(out)].to = from + ret
         /\ pto <= 90 /\ ret <= 32
<1>1. /\ out \in Seq(PieceType) /\ head \in Seq(PieceType)
      /\ to \in Nat /\ pto \in Nat /\ ret \in Nat /\ mincopysize \in 1 .. 14
  BY SizeAssumption, FilterAssumption DEF ResumeInv, WalkInv, MoveInv, MoveTypes, SameStraight
<1>2. pc = "done" /\ ret >= mincopysize
  BY DEF ResumeInv, Straightly
<1>3. Plain(head)
  BY <1>1 DEF Straightly, OneToOne, Plain
<1>4. Ended(out, head, to, to + pto)
  BY <1>1, <1>2, <1>3 DEF ResumeInv, WalkInv
<1>5. head # <<>> /\ Laid(out, Len(out), to, to + pto)
  BY <1>4 DEF Ended
<1>6. LastOp \in {"plain", "call"}
  <2>1. Len(head) \in 1 .. Len(head)
    BY <1>1, <1>5
  <2>. QED
    BY <1>3, <2>1 DEF Plain, LastOp
<1>7. ret <= 32 /\ pto <= tosize /\ tosize <= 90
  <2>1. CountInv /\ ShortTail /\ tosize = Room /\ Room = IF isX64 THEN 46 ELSE 90
    BY RoomEnough DEF ResumeInv, FInv, IInv
  <2>2. isX64 => mincopysize <= 6
    BY DEF Straightly, Reached, ResumeInv
  <2>. QED
    BY <1>2, <1>6, <2>1, <2>2 DEF CountInv, ShortTail, Unconditional
<1>8. PICK y, f : FlowFrom(out, y, 1, f) /\ BufferExit(TRUE) = f[1]
  <2>1. TRUE \in BOOLEAN
    OBVIOUS
  <2>. QED
    BY <1>1, <2>1, ExitIsFlow
<1>9. f[1] = from + ret
  BY <1>8 DEF Straightly, TailExact
<1>. PICK n \in Nat : n = Len(out)
  BY <1>1
<1>10. ~Flows(out, n)
  <2>1. from + ret # Wild
    BY <1>1, FilterAssumption DEF Wild
  <2>2. Flows(out, n) => f[1] = Wild
    BY <1>8, FlowsOut
  <2>. QED
    BY <1>9, <2>1, <2>2
<1>11. n > 1 /\ Flows(out, n - 1) /\ out[n].op = "jmp"
  BY <1>4, <1>10 DEF Ended
<1>12. out[n].to = from + ret
  <2>1. JumpsTo(out, out[n].to)
    <3>1. n - 1 \in 0 .. n - 1 /\ (n - 1) + 1 = n /\ (n - 1) + 2 .. n = {}
      BY <1>11
    <3>. QED
      BY <1>11, <3>1 DEF JumpsTo
  <2>2. f[1] = out[n].to
    BY <1>8, <2>1, JumpExit
  <2>. QED
    BY <1>9, <2>2
<1>13. Simple(out, to + tosize)
  <2>1. ASSUME NEW i \in 1 .. n PROVE out[i].len # 16 /\ ~(out[i].at + out[i].len > to + tosize)
    <3>1. out[i].len # 16
      BY <1>1 DEF Straightly, NoFarCall
    <3>2. out[i].at + out[i].len <= to + pto
      BY <1>5 DEF Laid
    <3>3. out[i].at \in Int /\ out[i].len \in 1 .. 16
      <4>1. out[i] \in PieceType
        BY <1>1
      <4>. QED
        BY <4>1 DEF PieceType
    <3>. PICK u \in Int, l \in 1 .. 16 : u = out[i].at /\ l = out[i].len
      BY <3>3
    <3>. PICK q \in Int : q = u + l
      OBVIOUS
    <3>4. tosize \in Nat
      BY DEF ResumeInv, FInv, IInv
    <3>5. ~(q > to + tosize)
      BY <1>1, <1>7, <3>2, <3>4
    <3>. QED
      BY <3>1, <3>5
  <2>. QED
    BY <1>11, <2>1 DEF Simple
<1>14. pto <= 90
  <2>1. tosize \in Nat
    BY DEF ResumeInv, FInv, IInv
  <2>. QED
    BY <1>1, <1>7, <2>1
<1>. QED
  BY <1>1, <1>5, <1>7, <1>12, <1>13, <1>14

\* No piece lies at an address behind the head.
LEMMA BehindElsewhere ==
  ASSUME out \in Seq(PieceType), to \in Buffers, pto \in Nat, ret \in Nat, behind \in Behind,
         Laid(out, Len(out), to, to + pto), pto <= 90, ret <= 32,
         NEW i \in 1 .. Len(out), NEW j \in 1 .. Len(behind)
  PROVE  out[i].at # Places(from + ret, behind)[j]
<1>. PICK f : f = Places(from + ret, behind)
  OBVIOUS
<1>. PICK m \in Nat : m = Len(behind)
  BY BehindPlaced DEF Code
<1>. PICK t \in Int : t = to
  BY FilterAssumption
<1>. PICK z \in Int : z = to + pto /\ z <= t + 90
  OBVIOUS
<1>. PICK a \in Int : a = from + ret
  BY BehindPlaced
<1>. PICK d \in Nat : d + 1 = j /\ d \in 0 .. m /\ d < m
  OBVIOUS
<1>1. f[d + 1] \in Int /\ a <= f[d + 1] /\ f[d + 1] <= a + 15 * d
  <2>1. Code(behind, m) /\ PlacedTo(f, a, behind, m)
    BY BehindPlaced
  <2>. QED
    BY <2>1, PlacedOn
<1>2. out[i].at \in Int /\ out[i].len \in 1 .. 16
  <2>1. out[i] \in PieceType
    OBVIOUS
  <2>. QED
    BY <2>1 DEF PieceType
<1>3. t <= out[i].at /\ out[i].at + out[i].len <= z
  BY DEF Laid
<1>4. t + 90 <= from \/ from + 32 + 15 * m < t
  BY FilterAssumption DEF SavedMax
<1>5. out[i].at # f[d + 1]
  BY <1>1, <1>2, <1>3, <1>4, FarApart
<1>. QED
  BY <1>5

\* Each entry of the table is the address control goes to behind the one before.
LEMMA EntriesFollow ==
  ASSUME ResumeInv, Straightly
  PROVE  /\ Len(skip) \in Nat
         /\ Len(skip) > 0 => skip[1] = to
         /\ \A i \in 1 .. Len(skip) - 1 : Follow(skip[i]) = skip[i + 1]
<1>1. /\ out \in Seq(PieceType) /\ Simple(out, to + tosize)
      /\ Laid(out, Len(out), to, to + pto)
      /\ out[Len(out)].to = from + ret
      /\ pto <= 90 /\ ret <= 32
  BY HeadStraight
<1>2. to \in Buffers /\ pto \in Nat /\ ret \in Nat /\ behind \in Behind
  BY DEF ResumeInv, WalkInv, MoveInv, MoveTypes, Straightly
<1>. PICK n \in Nat : n = Len(out)
  BY <1>1
<1>. PICK f : f = Places(from + ret, behind)
  OBVIOUS
<1>. PICK m \in Nat : m = Len(behind)
  BY <1>2, BehindPlaced DEF Code
<1>3. Tabled(skip, n - 1, out, f, m)
  <2>1. Filled(skip, behind)
    BY DEF ResumeInv, Straightly
  <2>. QED
    BY <1>1, <2>1 DEF Filled
<1>4. n > 1 /\ Flows(out, n - 1) /\ out[n].op = "jmp"
  BY <1>1 DEF Simple
<1>. PICK l \in Nat : l = n - 1 /\ l >= 1
  BY <1>4
<1>5. /\ Len(skip) \in Nat
      /\ \A i \in 1 .. Len(skip) :
           /\ i <= l => skip[i] = out[i].at
           /\ i > l => i - l \in 1 .. m /\ skip[i] = f[i - l]
  BY <1>3 DEF Tabled
<1>6. Len(skip) > 0 => skip[1] = to
  <2>1. out[1].at = to
    BY <1>1, <1>4 DEF Laid
  <2>. QED
    BY <1>5, <2>1
<1>7. f[1] = from + ret
  <2>1. Code(behind, m) /\ PlacedTo(f, from + ret, behind, m) /\ from + ret \in Int
    BY <1>2, BehindPlaced
  <2>. QED
    BY <2>1, PlacedOn
<1>8. ASSUME NEW i \in 1 .. Len(skip) - 1 PROVE Follow(skip[i]) = skip[i + 1]
  <2>1. i \in 1 .. Len(skip) /\ i + 1 \in 1 .. Len(skip) /\ i \in Nat
    BY <1>5
  <2>2. CASE i <= l
    <3>1. i \in 1 .. n - 1 /\ skip[i] = out[i].at
      BY <1>5, <2>1, <2>2
    <3>2. Follow(out[i].at) = IF i = n - 1 THEN out[n].to ELSE out[i + 1].at
      BY <1>1, <1>4, <3>1, FollowInside
    <3>3. CASE i = l
      <4>1. skip[i + 1] = f[(i + 1) - l]
        BY <1>5, <2>1, <3>3
      <4>2. (i + 1) - l = 1
        BY <3>3
      <4>. QED
        BY <1>1, <1>7, <3>1, <3>2, <3>3, <4>1, <4>2
    <3>4. CASE i # l
      <4>1. i + 1 <= l
        BY <2>2, <3>4
      <4>2. skip[i + 1] = out[i + 1].at
        BY <1>5, <2>1, <4>1
      <4>. QED
        BY <3>1, <3>2, <3>4, <4>2
    <3>. QED
      BY <3>3, <3>4
  <2>3. CASE ~(i <= l)
    <3>0. i > l
      BY <2>1, <2>3
    <3>4. i - l \in 1 .. m /\ skip[i] = f[i - l]
      BY <1>5, <2>1, <3>0
    <3>. PICK j \in 1 .. m : j = i - l
      BY <3>4
    <3>1. skip[i + 1] = f[j + 1]
      <4>1. i + 1 > l /\ (i + 1) - l = j + 1
        BY <2>1, <3>0
      <4>2. skip[i + 1] = f[(i + 1) - l]
        BY <1>5, <2>1, <4>1
      <4>. QED
        BY <4>1, <4>2
    <3>2. \A q \in 1 .. Len(out) : out[q].at # f[j]
      BY <1>1, <1>2, BehindElsewhere
    <3>3. Follow(f[j]) = f[j + 1]
      BY <1>1, <1>2, <3>2, FollowBehind
    <3>. QED
      BY <3>1, <3>3, <3>4
  <2>. QED
    BY <2>2, <2>3
<1>. QED
  BY <1>5, <1>6, <1>8

LEMMA Resumes == ResumeInv => FilteredCallResumes
<1>. SUFFICES ASSUME ResumeInv, cpu # NotRun, Reached, phase = "installed"
              PROVE  /\ cpu.at # Wild
                     /\ (cpu.skipped < Len(skip) /\ OneToOne /\ NoFarCall /\ TailExact)
                          => cpu.at = Executed(cpu.skipped)
  BY DEF FilteredCallResumes, Reached
<1>1. PICK k \in Int : AnswersFor(cpu, k, to, skip)
  BY DEF ResumeInv
<1>2. /\ out \in Seq(PieceType) /\ to \in Nat /\ ret \in Nat /\ behind \in Behind
      /\ Above(out, to) /\ Filled(skip, behind)
  BY FilterAssumption DEF ResumeInv, WalkInv, MoveInv, MoveTypes, SameStraight
<1>3. Len(skip) \in Nat /\ \A i \in 1 .. Len(skip) : skip[i] # Wild
  <2>. PICK f : f = Places(from + ret, behind)
    OBVIOUS
  <2>. PICK n : n = Len(behind)
    OBVIOUS
  <2>. PICK r \in Nat : r = from + ret
    BY <1>2, FilterAssumption
  <2>1. Code(behind, n) /\ PlacedTo(f, r, behind, n)
    BY <1>2, BehindPlaced
  <2>2. PICK j \in 0 .. Len(out) : Tabled(skip, j, out, f, n)
    BY <1>2 DEF Filled
  <2>3. j \in Nat /\ j <= Len(out)
    BY <1>2
  <2>4. \A i \in 1 .. Len(skip) : skip[i] # Wild
    BY <1>2, <2>1, <2>2, <2>3, EntriesTame
  <2>. QED
    BY <2>2, <2>4 DEF Tabled
<1>4. CASE k >= 1 /\ k < MAX_SKIP_RIP
  <2>1. cpu.skipped = k /\ cpu.at = IF k < Len(skip) THEN skip[k + 1] ELSE 0
    BY <1>1, <1>4 DEF AnswersFor
  <2>2. k < Len(skip) => k + 1 \in 1 .. Len(skip)
    BY <1>3, <1>4
  <2>3. cpu.at # Wild
    BY <1>3, <2>1, <2>2 DEF Wild
  <2>4. ASSUME k < Len(skip), Straightly PROVE cpu.at = Executed(k)
    <3>1. /\ k \in Nat /\ skip[1] = to
          /\ \A i \in 1 .. Len(skip) - 1 : Follow(skip[i]) = skip[i + 1]
      BY <1>3, <1>4, <2>4, EntriesFollow
    <3>2. Executed(k) = skip[k + 1]
      BY <1>3, <2>4, <3>1, WalkIs
    <3>. QED
      BY <2>1, <2>4, <3>2
  <2>. QED
    BY <2>1, <2>3, <2>4 DEF Straightly
<1>5. CASE ~(k >= 1 /\ k < MAX_SKIP_RIP)
  <2>1. cpu.skipped = 0 /\ cpu.at = to
    BY <1>1, <1>5 DEF AnswersFor
  <2>2. cpu.at # Wild
    BY <1>2, <2>1 DEF Wild
  <2>3. ASSUME 0 < Len(skip), Straightly PROVE cpu.at = Executed(0)
    <3>1. /\ skip[1] = to
          /\ \A i \in 1 .. Len(skip) - 1 : Follow(skip[i]) = skip[i + 1]
      BY <1>3, <2>3, EntriesFollow
    <3>2. Executed(0) = skip[0 + 1]
      BY <1>3, <2>3, <3>1, WalkIs
    <3>. QED
      BY <2>1, <3>1, <3>2
  <2>. QED
    BY <2>1, <2>2, <2>3 DEF Straightly
<1>. QED
  BY <1>4, <1>5

\* Wherever the filter function makes a call go on, it is with the instruction
\* the function would have executed after those that were skipped, if the table
\* has an entry for it and the head is translated one to one
\* (hooklib.c 515-568, 877-892).
THEOREM FilteredCallAlwaysResumes == FSpec => []FilteredCallResumes
  BY ResumeAtFirst, ResumeKept, Resumes, PTL DEF FSpec

=============================================================================
