------------------------------- MODULE Filter -------------------------------
(***************************************************************************)
(* Filters (hooklib.c 515-892, HooklibCPP.cpp 157-195): a function's head  *)
(* is replaced by a jump to a stub that saves the registers, calls a       *)
(* filter function with them, loads them again and goes on in the          *)
(* translated head behind the stub, or at an instruction the filter        *)
(* function chose in the table skip_rip.                                   *)
(*                                                                         *)
(* CopyCode translates the head: its buffer is what proxy_code has left    *)
(* behind the stub.  One context, installed once; the caller has zeroed    *)
(* it, as hooklib.h 121 asks.                                              *)
(***************************************************************************)
EXTENDS CopyCode, SequencesExt

CONSTANTS
  Behind,  \* what may follow the head: sequences of [len, op]
  Skips    \* values of skip_count

ProxyCodeMax == 128
JmpCodeMax == 24
MAX_SKIP_RIP == 16
WordSize == IF isX64 THEN 8 ELSE 4

\* Bytes of proxy_code in front of the translated head: on x64 the pointer to
\* the filter function comes first.
StubSize == IF isX64 THEN 82 ELSE 38
Room == ProxyCodeMax - StubSize

\* 100 bytes of the function may be decoded.  A context is no part of the
\* function: the code behind the head begins at most SavedMax bytes behind its
\* first one, and the translated head has Room, 90 bytes at most.
ASSUME FilterAssumption ==
  /\ fromsize >= 100
  /\ from \in Nat /\ Buffers \subseteq Nat
  /\ \A b \in Behind : b \in Seq([len : 1 .. 15, op : {"plain", "ret"}])
  /\ \A a \in Buffers, b \in Behind : a + 90 <= from \/ from + SavedMax + 15 * Len(b) < a
  /\ Skips \subseteq Int

VARIABLES
  link,    \* the jump to the stub: "near" or through a "bridge" slot
  phase,   \* "copy", "installed", "failed" or "removed"
  behind,  \* the instructions that follow the head
  skip,    \* skip_rip[0 .. max_skip_count - 1]
  written, \* bytes of the function that are overwritten
  cpu      \* a filtered call: where it goes on, with which registers

filterVars == <<link, phase, behind, skip, written, cpu>>
fvars == <<vars, filterVars>>

-----------------------------------------------------------------------------
(* The stub.                                                               *)
Low == <<"rax", "rbx", "rcx", "rdx", "rbp", "rsi", "rdi">>
High == IF isX64 THEN <<"r8", "r9", "r10", "r11", "r12", "r13", "r14", "r15">> ELSE <<>>

\* struct _filter_register_, from its lowest address
Fields == <<"cflags">> \o Low \o High
\* push edi ... pushfd
Pushed == Reverse(High) \o <<"rdi", "rsi", "rbp", "rdx", "rcx", "rbx", "rax", "cflags">>
\* The registers are loaded in the order they were saved in.
PoppedAsPushed == Pushed
\* popfd ... pop edi
Popped == <<"cflags", "rax", "rbx", "rcx", "rdx", "rbp", "rsi", "rdi">> \o High

\* What lies on the stack, upwards, when the filter function is called.
Frame == Reverse(Pushed)
WordOf(x) == CHOOSE i \in DOMAIN Fields : Fields[i] = x

\* The 32 bytes above its return address belong to a called function on x64:
\* here that is the argument, the saved rbp, and the first words of the frame.
HomeWords == IF isX64 THEN {1, 2} ELSE {}

\* The frame after the filter function stored something in field x, and
\* perhaps used its home space.
FrameAfter(x, spills) ==
  [i \in DOMAIN Frame |-> IF spills /\ i \in HomeWords THEN "junk"
                          ELSE IF i = WordOf(x) THEN "new" ELSE Frame[i]]

\* rbp is popped twice, the second time from the frame.
Loaded(frame) == [r \in {Popped[i] : i \in DOMAIN Popped} |->
                    frame[CHOOSE i \in DOMAIN Popped : Popped[i] = r]]

\* filter_get_rsp, in words above the frame: behind the registers and rip.
GetRsp == Len(Fields) + 1

-----------------------------------------------------------------------------
ProxyCode == to - StubSize
StubAt == ProxyCode + (IF isX64 THEN WordSize ELSE 0)

\* Where the jump in the function leads: the slot gets the address behind the
\* pointer, the near jump that of proxy_code.
EntryAt == IF link = "bridge" THEN ProxyCode + WordSize ELSE ProxyCode

PatchSize == IF link = "bridge" THEN 6 ELSE MakeJmpNear(from, ProxyCode, "jmp")[1].len

NotRun == [at |-> 0, skipped |-> 0, regs |-> <<>>]

FInit ==
  /\ Init
  /\ link \in IF isX64 THEN {"near", "bridge"} ELSE {"near"}
  /\ tosize = Room
  /\ mincopysize = PatchSize
  /\ phase = "copy"
  /\ behind = <<>> /\ skip = <<>>
  /\ written = 0
  /\ cpu = NotRun

\* make_jmp_qword_disp does not reach the slot.
SlotOutOfReach ==
  /\ phase = "copy" /\ link = "bridge" /\ pc = "decode" /\ out = <<>>
  /\ phase' = "failed"
  /\ UNCHANGED <<vars, link, behind, skip, written, cpu>>

CopyHead == phase = "copy" /\ Next /\ UNCHANGED filterVars

TooShort ==
  /\ phase = "copy" /\ pc = "done" /\ ret < mincopysize
  /\ phase' = "failed"
  /\ UNCHANGED <<vars, link, behind, skip, written, cpu>>

\* Every instruction of the buffer gets an entry.
EndsTableNever(p) == FALSE
EndsTable(p) == p.op = "jmp"

\* The bytes the disassembler takes for one instruction: the address behind an
\* indirect jump or call is none of them.
InsnSize(p) == IF p.len \in {14, 16} THEN 6 ELSE p.len

\* The end of the buffer cuts the instruction, or it is what is left of a 7x
\* jump: the disassembler may give up there, or take it for an instruction.
Doubtful(p) == p.at + InsnSize(p) > to + tosize \/ p.op = "junk"

\* Where the walk through the translated head ends: at its first jmp, which on
\* x64 may be the one inside a translated call, at the end of the buffer, and
\* where the disassembler gives up, if it does.
Stops(givesup) ==
  {i \in DOMAIN out : EndsTable(out[i])}
  \cup {i + 1 : i \in {j \in DOMAIN out : out[j].op = "call" /\ out[j].len = 16}}
  \cup {i \in DOMAIN out : out[i].at >= to + tosize \/ (givesup /\ Doubtful(out[i]))}
  \cup {Len(out) + 1}
FirstStop(givesup) == CHOOSE i \in Stops(givesup) : \A j \in Stops(givesup) : i <= j

HeadEntries(givesup) == [i \in 1 .. FirstStop(givesup) - 1 |-> out[i].at]

\* The disassembler gave up inside the buffer: make_skip_array returns at once.
Undecoded(givesup) ==
  LET i == FirstStop(givesup)
  IN givesup /\ i \in DOMAIN out /\ out[i].at < to + tosize /\ Doubtful(out[i])

\* The address of the i-th instruction behind the head.
BehindAt(b, i) ==
  LET at[j \in 1 .. Len(b) + 1] == IF j = 1 THEN from + ret ELSE at[j - 1] + b[j - 1].len
  IN at[i]

\* The entries the code behind the head gives: up to a ret, and to what cannot
\* be decoded.
BehindEntries(b) ==
  LET ends == {i \in DOMAIN b : b[i].op = "ret"} \cup {Len(b)}
      last == CHOOSE i \in ends : \A j \in ends : i <= j
  IN [i \in 1 .. last |-> BehindAt(b, i)]

Entries(b, givesup) ==
  HeadEntries(givesup) \o (IF Undecoded(givesup) THEN <<>> ELSE BehindEntries(b))

\* The table is filled without looking at its size.
SkipTableUncapped(b, givesup) == Entries(b, givesup)
\* make_skip_array
SkipTable(b, givesup) ==
  LET all == Entries(b, givesup)
  IN IF Len(all) > MAX_SKIP_RIP THEN SubSeq(all, 1, MAX_SKIP_RIP) ELSE all

\* The rest of filter_install; without an entry in the table it gives up.
Install(b, w, givesup) ==
  /\ phase = "copy" /\ pc = "done" /\ ret >= mincopysize
  /\ behind' = b
  /\ IF SkipTable(b, givesup) = <<>>
       THEN phase' = "failed" /\ UNCHANGED <<skip, written>>
       ELSE /\ phase' = "installed"
            /\ skip' = SkipTable(b, givesup)
            /\ written' = IF w = "denied" THEN 0 ELSE ret
  /\ UNCHANGED <<vars, link, cpu>>

\* filter_skip_rip looks at the size of the table, not at its entries: those
\* that were not filled are null pointers.
SkipAccepted(k) == k >= 1 /\ k < MAX_SKIP_RIP
SkipRip(k) ==
  IF ~SkipAccepted(k) THEN to
  ELSE IF k < Len(skip) THEN skip[k + 1] ELSE 0

\* The field the filter function stores in: any of them.
Stored == {Fields[i] : i \in DOMAIN Fields}

\* A call of the function: the filter function stores a value in field x and
\* asks for k instructions to be skipped.  A call leaves nothing behind that
\* another meets, so one is looked at.
FilteredCall(k, x, spills) ==
  /\ phase = "installed" /\ written > 0
  /\ cpu = NotRun
  /\ cpu' = IF EntryAt # StubAt THEN [NotRun EXCEPT !.at = Wild]
            ELSE [at |-> SkipRip(k), skipped |-> IF SkipAccepted(k) THEN k ELSE 0,
                  regs |-> [wrote |-> x, spilt |-> spills, loaded |-> Loaded(FrameAfter(x, spills))]]
  /\ UNCHANGED <<vars, link, phase, behind, skip, written>>

\* The result of the write is 0 or 1, so the context is always cleared.
Uninstall(w) ==
  /\ phase = "installed"
  /\ phase' = "removed"
  /\ skip' = <<>>
  /\ written' = IF w = "denied" THEN written ELSE 0
  /\ behind' = <<>> /\ cpu' = NotRun
  /\ UNCHANGED <<vars, link>>

FNext ==
  \/ SlotOutOfReach \/ CopyHead \/ TooShort
  \/ \E w \in {"ok", "denied"} :
       (\E b \in Behind, givesup \in BOOLEAN : Install(b, w, givesup)) \/ Uninstall(w)
  \/ \E k \in Skips, x \in Stored, spills \in BOOLEAN : FilteredCall(k, x, spills)

FSpec == FInit /\ [][FNext]_fvars

-----------------------------------------------------------------------------
\* Every variable has the type of the data it stands for.
FTypeOK ==
  /\ TypeOK
  /\ link \in {"near", "bridge"}
  /\ phase \in {"copy", "installed", "failed", "removed"}
  /\ Len(skip) <= MAX_SKIP_RIP
  /\ written \in Nat

\* The bytes written over the head come from an array of 24 and go, at
\* removal, from one of 32, though their number is that of the instructions
\* moved; with a jump of six bytes or less neither is overrun.  The translated
\* head stays inside proxy_code, so that the table behind it does not overwrite
\* its end: on x86 always, in the 46 bytes the x64 stub leaves when the patch
\* has six bytes and the head no conditional jump (hooklib.c 640, 656-659, 810,
\* 822-825).
FilterFits ==
  /\ phase = "installed" => ret <= SavedMax /\ (mincopysize <= 6 => ret <= JmpCodeMax)
  /\ (Usable /\ (isX64 => mincopysize <= 6 /\ LastOp \notin {"jcc32", "jcc8"})) => pto <= tosize

\* The address control goes to when the instruction at a is done, which is in
\* the translated head or behind the original one.
Follow(a) ==
  LET Past(b) == LET jumps == {i \in DOMAIN out : out[i].at = b /\ out[i].op = "jmp"}
                 IN IF jumps = {} THEN b ELSE out[CHOOSE i \in jumps : TRUE].to
      here == {i \in DOMAIN out : out[i].at = a}
      after == {i \in DOMAIN behind : BehindAt(behind, i) = a}
  IN IF here # {} THEN Past(a + out[CHOOSE i \in here : TRUE].len)
     ELSE IF after # {} THEN a + behind[CHOOSE i \in after : TRUE].len
     ELSE Wild

\* The instruction the function executes as its k-th, from 0.
Executed(k) ==
  LET walk[i \in 0 .. k] == IF i = 0 THEN to ELSE Follow(walk[i - 1]) IN walk[k]

\* Instructions that are translated one to one.
OneToOne == \A i \in DOMAIN head : head[i].op \in {"plain", "call"}
NoFarCall == \A i \in DOMAIN out : out[i].len # 16
TailExact == BufferExit(TRUE) = from + ret

\* A filtered call goes on with the instruction the function would have
\* executed after those that were skipped, in the translated head or behind the
\* original one, if the table has an entry for it and no transfer of the head
\* takes several instructions (hooklib.c 515-568, 877-892).  On x64 the jump
\* has to go through a bridge slot to reach the stub (683).
FilteredCallResumes ==
  (cpu # NotRun /\ (isX64 => link = "bridge") /\ phase = "installed") =>
    /\ cpu.at # Wild
    /\ (cpu.skipped < Len(skip) /\ OneToOne /\ NoFarCall /\ TailExact)
          => cpu.at = Executed(cpu.skipped)

\* The filter function sees every register under its own name and the stack of
\* the caller above them, and after the call each register has its old value
\* or the one the filter function stored; what it does with the home space it
\* has on x64 touches flags and rax only (hooklib.c 600-637, 741-799, 871-876).
RegistersKept ==
  (cpu # NotRun /\ cpu.at # Wild) =>
    /\ Frame = Fields /\ GetRsp = Len(Pushed) + 1
    /\ \A r \in DOMAIN cpu.regs.loaded :
         cpu.regs.loaded[r] = IF cpu.regs.spilt /\ isX64 /\ r \in {"cflags", "rax"} THEN "junk"
                              ELSE IF r = cpu.regs.wrote THEN "new" ELSE r

=============================================================================
