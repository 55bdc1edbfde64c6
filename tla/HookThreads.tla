---------------------------- MODULE HookThreads ----------------------------
(***************************************************************************)
(* Threads that call hooked functions while other threads install and      *)
(* remove the hooks (hooklib.c 331-433, port_win32.c 7-21, callemit.h).    *)
(* The library locks nothing and stops no thread, so every access to the   *)
(* code that is patched, to its page and to a context is a step of its own.*)
(*                                                                         *)
(* The head of a function is two instructions, a patch is one instruction  *)
(* that covers both; memory changes one half at a time.  A half belongs to *)
(* the context whose patch it is part of, or to nobody: it is original.    *)
(* All functions lie on one page.  An access violation ends the process.   *)
(***************************************************************************)
EXTENDS Naturals, Sequences, FiniteSets, SequencesExt

CONSTANTS
  Ctx, NoCtx,  \* hook contexts; nobody
  Func,        \* functions that are hooked
  Patcher,     \* threads that install and remove hooks
  Caller,      \* threads that call the functions
  FuncOf,      \* FuncOf[c]: the function context c is installed at
  OwnerOf,     \* OwnerOf[c]: the thread that installs and removes c
  MaxFaults    \* bound on the failing VirtualProtect calls

Special == {"null", "zeros", "body", "wild"}

ASSUME ThreadsAssumption ==
  /\ NoCtx \notin Ctx /\ Ctx \cap Special = {}
  /\ FuncOf \in [Ctx -> Func] /\ OwnerOf \in [Ctx -> Patcher]
  /\ Patcher \cap Caller = {}
  /\ MaxFaults \in Nat

Protection == {"rx", "rw", "rwx"}

VARIABLES
  code,     \* code[f]: the two halves of the head of f
  prot,     \* protection of the page the functions are on
  ctx,      \* ctx[c]: size > 0, saved halves, where the proxy leads
  job,      \* job[p]: what patcher p does
  call,     \* call[t]: what caller t executes
  faults,   \* VirtualProtect calls that have failed
  stack,    \* stack[f]: contexts in use at f, oldest first (history)
  shown,    \* shown[f]: those of stack[f] whose patch was written, newest
            \* first (history)
  raced,    \* functions two patchers worked on at a time, or whose patch
            \* could not be removed (history)
  mixed     \* two patchers wrote to the page at a time (history)

history == <<stack, shown, raced, mixed>>
vars == <<code, prot, ctx, job, call, faults, history>>

Halves == {1, 2}
Original == <<NoCtx, NoCtx>>
Jump(c) == <<c, c>>
Unused == [live |-> FALSE, saved |-> Original, proxy |-> "null"]
NoJob == [pc |-> "idle", c |-> NoCtx, op |-> "none", todo |-> {}, old |-> "rx"]
NoCall == [pc |-> "out", f |-> "none", c |-> NoCtx, ran |-> <<>>, body |-> 0, quiet |-> FALSE]

Init ==
  /\ code = [f \in Func |-> Original]
  /\ prot = "rx"
  /\ ctx = [c \in Ctx |-> Unused]
  /\ job = [p \in Patcher |-> NoJob]
  /\ call = [t \in Caller |-> NoCall]
  /\ faults = 0
  /\ stack = [f \in Func |-> <<>>]
  /\ shown = [f \in Func |-> <<>>]
  /\ raced = {} /\ mixed = FALSE

Running == \A p \in Patcher, t \in Caller : job[p].pc # "fault" /\ call[t].pc # "fault"

-----------------------------------------------------------------------------
(* Installing and removing.                                                *)
BusyAt(f) == {p \in Patcher : job[p].pc # "idle" /\ FuncOf[job[p].c] = f}
InWrite == {p \in Patcher : job[p].pc \in {"write", "restore"}}

Goto(p, pc) == job' = [job EXCEPT ![p].pc = pc]
At(p, pc) == Running /\ job[p].pc = pc

\* A call in progress is disturbed; what it has run so far does not matter.
Disturbed(r) == [r EXCEPT !.quiet = FALSE, !.ran = <<>>, !.body = 0]
Disturb(f) ==
  call' = [t \in Caller |-> IF call[t].f = f THEN Disturbed(call[t]) ELSE call[t]]

Begin(p, c, op, pc) ==
  /\ At(p, "idle")
  /\ OwnerOf[c] = p
  /\ job' = [job EXCEPT ![p] = [NoJob EXCEPT !.pc = pc, !.c = c, !.op = op]]
  /\ raced' = IF BusyAt(FuncOf[c]) # {} THEN raced \cup {FuncOf[c]} ELSE raced
  /\ Disturb(FuncOf[c])

\* The pointer to the proxy is set while its code is still zero.  Its page is
\* taken to become executable (hook_make_executeable, whose result is ignored).
BeginInstall(p, c) ==
  /\ ~ctx[c].live
  /\ Begin(p, c, "install", "copy")
  /\ ctx' = [ctx EXCEPT ![c] = [Unused EXCEPT !.proxy = "zeros"]]
  /\ UNCHANGED <<code, prot, faults, stack, shown, mixed>>

\* A program removes its hooks newest first.
BeginUninstall(p, c) ==
  /\ ctx[c].live
  /\ stack[FuncOf[c]] # <<>> /\ Last(stack[FuncOf[c]]) = c
  /\ Begin(p, c, "uninstall", "protect")
  /\ UNCHANGED <<code, prot, ctx, faults, stack, shown, mixed>>

\* Jumps are copied with the offsets they have.
LeadsNotRebased(halves) == IF halves = Original THEN "body" ELSE "wild"
\* Original instructions are taken for a jump.
LeadsAlwaysJump(halves) == halves[1]

\* Where a copy of these halves leads: hook_copy_code moves original
\* instructions and the jump of another context.
Leads(halves) ==
  CASE halves = Original -> "body"
    [] halves[1] # NoCtx /\ halves[2] = halves[1] -> halves[1]
    [] OTHER -> "wild"

CopyHead(p) ==
  LET c == job[p].c IN
  /\ At(p, "copy")
  /\ ctx' = [ctx EXCEPT ![c].proxy = Leads(code[FuncOf[c]]), ![c].live = TRUE]
  /\ Goto(p, "save")
  /\ UNCHANGED <<code, prot, call, faults, history>>

\* The head is shorter than the patch: the install is given up.
CopyTooShort(p) ==
  /\ At(p, "copy")
  /\ ctx' = [ctx EXCEPT ![job[p].c] = Unused]
  /\ job' = [job EXCEPT ![p] = NoJob]
  /\ UNCHANGED <<code, prot, call, faults, history>>

\* The head is read a second time.
SaveHead(p) ==
  LET c == job[p].c IN
  /\ At(p, "save")
  /\ ctx' = [ctx EXCEPT ![c].saved = code[FuncOf[c]]]
  /\ Goto(p, "protect")
  /\ UNCHANGED <<code, prot, call, faults, history>>

\* The write is over, or was refused: hook_install returns, hook_uninstall
\* has its memset to do.
Finish(p) ==
  LET c == job[p].c
      f == FuncOf[c]
  IN IF job[p].op = "install"
       THEN /\ job' = [job EXCEPT ![p] = NoJob]
            /\ stack' = [stack EXCEPT ![f] = Append(@, c)]
       ELSE /\ job' = [job EXCEPT ![p].pc = "clear", ![p].old = "rx"]
            /\ UNCHANGED stack

\* The page is made writable as data pages are.
NewProtectionData == "rw"
\* The page is made executable only.
NewProtectionCode == "rx"
NewProtection == "rwx"

Protect(p) ==
  /\ At(p, "protect")
  /\ job' = [job EXCEPT ![p].pc = "write", ![p].todo = Halves, ![p].old = prot]
  /\ prot' = NewProtection
  /\ mixed' = (mixed \/ InWrite # {})
  /\ UNCHANGED <<code, ctx, call, faults, stack, shown, raced>>

ProtectDenied(p) ==
  LET c == job[p].c IN
  /\ At(p, "protect")
  /\ faults < MaxFaults
  /\ faults' = faults + 1
  /\ Finish(p)
  /\ raced' = IF job[p].op = "uninstall" /\ c \in Range(shown[FuncOf[c]])
                THEN raced \cup {FuncOf[c]} ELSE raced
  /\ UNCHANGED <<code, prot, ctx, call, shown, mixed>>

\* A removal that does not put the head back.
PatchBytesAlwaysJump(p) == Jump(job[p].c)
PatchBytes(p) ==
  IF job[p].op = "install" THEN Jump(job[p].c) ELSE ctx[job[p].c].saved

\* memcpy: one half of the bytes; the order is the compiler's.
WriteHalf(p, h) ==
  LET c == job[p].c
  IN /\ At(p, "write")
     /\ h \in job[p].todo
     /\ IF prot = "rwx"
          THEN /\ code' = [code EXCEPT ![FuncOf[c]][h] = PatchBytes(p)[h]]
               /\ job' = [job EXCEPT ![p].todo = @ \ {h},
                                     ![p].pc = IF job[p].todo = {h} THEN "restore" ELSE "write"]
          ELSE Goto(p, "fault") /\ UNCHANGED code
     /\ UNCHANGED <<prot, ctx, call, faults, history>>

\* The protection is left as the write needed it.
RestoredToReadWrite(p) == "rwx"
\* The protection found at the beginning comes back, unless that fails.
RestoredProtection(p) == job[p].old

Restore(p) ==
  LET c == job[p].c IN
  /\ At(p, "restore")
  /\ Finish(p)
  /\ shown' = IF job[p].op = "install" THEN [shown EXCEPT ![FuncOf[c]] = <<c>> \o @] ELSE shown
  /\ \/ prot' = RestoredProtection(p) /\ UNCHANGED faults
     \/ faults < MaxFaults /\ faults' = faults + 1 /\ UNCHANGED prot
  /\ UNCHANGED <<code, ctx, call, raced, mixed>>

\* The contexts in use without c, which is one of them.
Without(s, c) == RemoveAt(s, CHOOSE i \in DOMAIN s : s[i] = c)

Clear(p) ==
  LET c == job[p].c IN
  /\ At(p, "clear")
  /\ ctx' = [ctx EXCEPT ![c] = Unused]
  /\ job' = [job EXCEPT ![p] = NoJob]
  /\ stack' = [stack EXCEPT ![FuncOf[c]] = Without(@, c)]
  /\ shown' = [shown EXCEPT ![FuncOf[c]] = IF @ # <<>> /\ Head(@) = c THEN Tail(@) ELSE @]
  /\ UNCHANGED <<code, prot, call, faults, raced, mixed>>

PatcherStep(p) ==
  \/ CopyHead(p) \/ CopyTooShort(p) \/ SaveHead(p) \/ Protect(p) \/ ProtectDenied(p)
  \/ \E h \in Halves : WriteHalf(p, h)
  \/ Restore(p) \/ Clear(p)

-----------------------------------------------------------------------------
(* Calling.                                                                *)
Undisturbed(f) == BusyAt(f) = {} /\ f \notin raced

Call(t, f) ==
  /\ Running
  /\ call[t].pc = "out"
  /\ call' = [call EXCEPT ![t] = [NoCall EXCEPT !.pc = "entry", !.f = f, !.quiet = Undisturbed(f)]]
  /\ UNCHANGED <<code, prot, ctx, job, faults, history>>

Go(t, pc, c) ==
  call' = [call EXCEPT ![t].pc = pc, ![t].c = c,
     ![t].ran = IF pc = "replacement" /\ call[t].quiet THEN Append(@, c) ELSE @,
     ![t].body = IF pc = "returned" /\ call[t].pc = "body" /\ call[t].quiet THEN @ + 1 ELSE @]

\* The processor takes one instruction: the first original one, or a whole jump.
FetchEntry(t) ==
  LET halves == code[call[t].f] IN
  /\ call[t].pc = "entry"
  /\ CASE halves[1] = NoCtx -> Go(t, "second", NoCtx)
       [] halves[1] # NoCtx /\ halves[2] = halves[1] -> Go(t, "replacement", halves[1])
       [] OTHER -> Go(t, "fault", NoCtx)

\* A thread that is between the two instructions meets the tail of a jump.
FetchSecond(t) ==
  /\ call[t].pc = "second"
  /\ Go(t, IF code[call[t].f][2] = NoCtx THEN "body" ELSE "fault", NoCtx)

\* The replacement function calls emit, which returns 0 if it finds no proxy.
Emit(t) ==
  LET c == call[t].c IN
  /\ call[t].pc = "replacement"
  /\ IF ctx[c].proxy = "null" THEN Go(t, "returned", NoCtx) ELSE Go(t, "proxy", c)

RunProxy(t) ==
  LET to == ctx[call[t].c].proxy IN
  /\ call[t].pc = "proxy"
  /\ CASE to = "body" -> Go(t, "body", NoCtx)
       [] to \in Ctx -> Go(t, "replacement", to)
       [] OTHER -> Go(t, "fault", NoCtx)

RunBody(t) == call[t].pc = "body" /\ Go(t, "returned", NoCtx)

Leave(t) ==
  /\ call[t].pc = "returned"
  /\ call' = [call EXCEPT ![t] = NoCall]

CallerStep(t) ==
  /\ Running
  /\ \/ FetchEntry(t) \/ FetchSecond(t) \/ Emit(t) \/ RunProxy(t) \/ RunBody(t) \/ Leave(t)
  /\ UNCHANGED <<code, prot, ctx, job, faults, history>>

Next ==
  \/ \E p \in Patcher :
       \/ \E c \in Ctx : BeginInstall(p, c) \/ BeginUninstall(p, c)
       \/ PatcherStep(p)
  \/ \E t \in Caller : (\E f \in Func : Call(t, f)) \/ CallerStep(t)

\* Windows schedules every thread that can run.  Nothing makes a thread call,
\* install or remove, and what is shown does not need a patcher to go on.
Fairness == \A t \in Caller : WF_vars(CallerStep(t))

Spec == Init /\ [][Next]_vars /\ Fairness

-----------------------------------------------------------------------------
\* Every variable has the type of the data it stands for.
TypeOK ==
  /\ code \in [Func -> [Halves -> Ctx \cup {NoCtx}]]
  /\ prot \in Protection
  /\ ctx \in [Ctx -> [live : BOOLEAN, saved : [Halves -> Ctx \cup {NoCtx}], proxy : Ctx \cup Special]]
  /\ \A p \in Patcher : job[p].old \in Protection
  /\ \A p \in Patcher : job[p].pc # "idle" => job[p].c \in Ctx
  /\ faults \in 0 .. MaxFaults

\* Other threads keep executing the functions of the page through every
\* write, overlapping ones included: no step takes the right to execute away
\* (port_win32.c 12, 18 and its protection PAGE_EXECUTE_READWRITE).
PageStaysExecutable == prot \in {"rx", "rwx"}

\* A call during which nobody patches its function never faults, passes the
\* hooks installed there, newest first, and performs the function once, even
\* while the rest of the page is being written (hooklib.c 331-433).
QuietCallPerforms ==
  \A t \in Caller : call[t].quiet =>
     /\ call[t].pc # "fault"
     /\ call[t].pc = "returned" => call[t].ran = shown[call[t].f] /\ call[t].body = 1

\* A patcher faults in its memcpy only if the writes of two patchers to the
\* page have overlapped, whatever calls are in progress (port_win32.c 12-18).
LoneWriterNeverFaults == ~mixed => \A p \in Patcher : job[p].pc # "fault"

\* Writes that do not overlap leave the page as it was, on all ways out of
\* port_write_memory but the failing restore (port_win32.c 18).
ProtectionRestored == (~mixed /\ faults = 0 /\ InWrite = {}) => prot = "rx"

\* A call that has been disturbed by installs and removals ends once nobody
\* works on its function any more, whatever it had run into: no chain of
\* proxies goes round.  Excepted are functions two patchers met at, and those
\* with a denied removal, after which the cleared context may be installed over
\* its own jump (hooklib.c 346, 430).
EveryCallEnds ==
  \A t \in Caller :
     []<>(call[t].pc = "out" \/ ~Running \/ BusyAt(call[t].f) # {} \/ call[t].f \in raced)

=============================================================================
