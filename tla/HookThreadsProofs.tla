------------------------- MODULE HookThreadsProofs -------------------------
(***************************************************************************)
(* What a page goes through while any number of threads patch it and any   *)
(* number call the functions on it.                                        *)
(*                                                                         *)
(* The page is executable because every protection that is ever set, or    *)
(* remembered to be set later, is.  A patcher does not fault as long as no *)
(* two of them were inside port_write_memory at a time: then one that is   *)
(* copying bytes is the only one that can take the right to write away.    *)
(*                                                                         *)
(* A call that nobody disturbs passes the hooks of its function because    *)
(* every context in use there has saved what the one before it left, and   *)
(* its proxy leads there.  This holds for the functions no two patchers    *)
(* met at, whatever happens to the rest of the page.                       *)
(***************************************************************************)
EXTENDS HookThreads, SequenceTheorems, TLAPS

Pc == {"idle", "copy", "save", "protect", "write", "restore", "clear", "fault"}

JobType ==
  /\ job \in [Patcher -> [pc : Pc, c : Ctx \cup {NoCtx}, op : {"none", "install", "uninstall"},
                          todo : SUBSET Halves, old : Protection]]

Executable == {"rx", "rwx"}

\* No protection without the right to execute is set or remembered.
AllExecutable ==
  /\ prot \in Executable
  /\ \A p \in Patcher : job[p].old \in Executable

Writing(p) == job[p].pc \in {"write", "restore"}

\* What holds of the page while the writes have not overlapped.
Alone ==
  /\ \A p, q \in Patcher : Writing(p) /\ Writing(q) => p = q
  /\ \A p \in Patcher : job[p].pc # "fault"
  /\ \A p \in Patcher : job[p].pc = "write" => prot = "rwx"
  /\ faults = 0 => /\ \A p \in Patcher : Writing(p) => job[p].old = "rx"
                   /\ (\A p \in Patcher : ~Writing(p)) => prot = "rx"

WriteInv == JobType /\ AllExecutable /\ (mixed \in BOOLEAN) /\ (~mixed => Alone)

IInv == TypeOK /\ WriteInv

-----------------------------------------------------------------------------
\* A step of p before or after its write: nothing happens to the page.
OutsideWrite(p) ==
  /\ ~Writing(p)
  /\ UNCHANGED <<prot, mixed>>
  /\ faults' \in {faults, faults + 1}
  /\ \E new \in [pc : Pc \ {"write", "restore", "fault"}, c : Ctx \cup {NoCtx},
                 op : {"none", "install", "uninstall"}, todo : SUBSET Halves, old : Executable] :
       job' = [job EXCEPT ![p] = new]

\* Steps outside a write keep what is known about the page.
LEMMA OutsideWriteStep ==
  ASSUME IInv, NEW p \in Patcher, OutsideWrite(p)
  PROVE  WriteInv'
<1>1. PICK new \in [pc : Pc \ {"write", "restore", "fault"}, c : Ctx \cup {NoCtx},
                    op : {"none", "install", "uninstall"}, todo : SUBSET Halves, old : Executable] :
        job' = [job EXCEPT ![p] = new]
  BY DEF OutsideWrite
<1>2. JobType'
  BY <1>1 DEF IInv, WriteInv, JobType, Executable, Protection
<1>3. AllExecutable' /\ mixed' \in BOOLEAN
  BY <1>1 DEF IInv, WriteInv, AllExecutable, JobType, OutsideWrite
<1>4. ASSUME ~mixed' PROVE Alone'
  <2>1. Alone /\ prot' = prot /\ ~Writing(p)
    BY <1>4 DEF OutsideWrite, IInv, WriteInv
  <2>2. /\ \A q \in Patcher : Writing(q)' <=> Writing(q)
        /\ \A q \in Patcher : q # p => job'[q] = job[q]
        /\ job'[p].pc \notin {"write", "restore", "fault"}
    BY <1>1, <2>1 DEF Writing, IInv, WriteInv, JobType
  <2>3. faults' = 0 => faults = 0
    BY DEF OutsideWrite, IInv, TypeOK
  <2>. QED
    BY <2>1, <2>2, <2>3 DEF Alone, Writing
<1>. QED
  BY <1>2, <1>3, <1>4 DEF WriteInv

\* The steps that are outside a write.
LEMMA StepsOutsideWrite ==
  ASSUME IInv, NEW p \in Patcher,
         \/ \E c \in Ctx : BeginInstall(p, c) \/ BeginUninstall(p, c)
         \/ CopyHead(p) \/ CopyTooShort(p) \/ SaveHead(p) \/ ProtectDenied(p) \/ Clear(p)
  PROVE  OutsideWrite(p)
<1>. USE DEF At, IInv, WriteInv, JobType, Writing, AllExecutable, Executable, Pc
<1>1. job[p].c \in Ctx \cup {NoCtx} /\ job[p] \in [pc : Pc, c : Ctx \cup {NoCtx},
         op : {"none", "install", "uninstall"}, todo : SUBSET Halves, old : Executable]
  OBVIOUS
<1>2. NoJob \in [pc : Pc \ {"write", "restore", "fault"}, c : Ctx \cup {NoCtx},
                 op : {"none", "install", "uninstall"}, todo : SUBSET Halves, old : Executable]
  BY DEF NoJob
<1>3. ASSUME NEW c \in Ctx, BeginInstall(p, c) PROVE OutsideWrite(p)
  BY <1>2, <1>3 DEF BeginInstall, Begin, NoJob, OutsideWrite
<1>4. ASSUME NEW c \in Ctx, BeginUninstall(p, c) PROVE OutsideWrite(p)
  BY <1>2, <1>4 DEF BeginUninstall, Begin, NoJob, OutsideWrite
<1>5. CASE CopyHead(p) \/ SaveHead(p)
  <2>1. job' = [job EXCEPT ![p] = [job[p] EXCEPT !.pc = "save"]]
        \/ job' = [job EXCEPT ![p] = [job[p] EXCEPT !.pc = "protect"]]
    BY <1>5 DEF CopyHead, SaveHead, Goto
  <2>. QED
    BY <1>1, <1>5, <2>1 DEF CopyHead, SaveHead, OutsideWrite, history
<1>6. CASE ProtectDenied(p)
  <2>1. job' = [job EXCEPT ![p] = NoJob]
        \/ job' = [job EXCEPT ![p] = [job[p] EXCEPT !.pc = "clear", !.old = "rx"]]
    BY <1>6 DEF ProtectDenied, Finish
  <2>. QED
    BY <1>1, <1>2, <1>6, <2>1, ZenonT(20) DEF ProtectDenied, OutsideWrite
<1>7. CASE Clear(p)
  BY <1>2, <1>7 DEF Clear, OutsideWrite
<1>8. CASE CopyTooShort(p)
  BY <1>2, <1>8 DEF CopyTooShort, OutsideWrite, history
<1>. QED
  BY <1>3, <1>4, <1>5, <1>6, <1>7, <1>8

\* VirtualProtect opens the page; a second writer is noted.
LEMMA ProtectStep ==
  ASSUME IInv, NEW p \in Patcher, Protect(p)
  PROVE  WriteInv'
<1>. USE DEF IInv, WriteInv
<1>1. /\ ~Writing(p)
      /\ job' = [job EXCEPT ![p] = [job[p] EXCEPT !.pc = "write", !.todo = Halves, !.old = prot]]
      /\ prot' = "rwx" /\ faults' = faults
      /\ mixed' = (mixed \/ InWrite # {})
  BY DEF Protect, At, Writing, NewProtection
<1>2. JobType'
  <2>1. [job[p] EXCEPT !.pc = "write", !.todo = Halves, !.old = prot]
          \in [pc : Pc, c : Ctx \cup {NoCtx}, op : {"none", "install", "uninstall"},
              todo : SUBSET Halves, old : Protection]
    BY DEF JobType, AllExecutable, Executable, Protection, Pc
  <2>. QED
    BY <1>1, <2>1 DEF JobType
<1>3. AllExecutable' /\ mixed' \in BOOLEAN
  BY <1>1 DEF AllExecutable, JobType, Executable
<1>4. ASSUME ~mixed' PROVE Alone'
  <2>1. Alone /\ \A q \in Patcher : ~Writing(q)
    BY <1>1, <1>4 DEF InWrite, Writing
  <2>2. /\ job'[p].pc = "write" /\ job'[p].old = prot
        /\ \A q \in Patcher : q # p => job'[q] = job[q]
    BY <1>1 DEF JobType
  <2>. QED
    BY <1>1, <2>1, <2>2 DEF Alone, Writing
<1>. QED
  BY <1>2, <1>3, <1>4

\* A half of the bytes is written, or the process faults.
LEMMA WriteHalfStep ==
  ASSUME IInv, NEW p \in Patcher, NEW h \in Halves, WriteHalf(p, h)
  PROVE  WriteInv'
<1>. USE DEF IInv, WriteInv
<1>1. /\ job[p].pc = "write"
      /\ UNCHANGED <<prot, faults, mixed>>
  BY DEF WriteHalf, At, history
<1>2. PICK pc \in {"write", "restore", "fault"}, todo \in SUBSET Halves :
        /\ job' = [job EXCEPT ![p] = [job[p] EXCEPT !.pc = pc, !.todo = todo]]
        /\ prot = "rwx" => pc # "fault"
  <2>1. job[p].todo \in SUBSET Halves /\ job[p] = [job[p] EXCEPT !.todo = job[p].todo]
    BY DEF JobType
  <2>2. CASE prot = "rwx"
    <3>. DEFINE next == IF job[p].todo = {h} THEN "restore" ELSE "write"
                rest == job[p].todo \ {h}
    <3>1. job' = [job EXCEPT ![p].todo = rest, ![p].pc = next]
      BY <2>2 DEF WriteHalf
    <3>2. next \in {"write", "restore"} /\ rest \in SUBSET Halves
      BY <2>1
    <3>. HIDE DEF next, rest
    <3>3. job' = [job EXCEPT ![p] = [job[p] EXCEPT !.pc = next, !.todo = rest]]
      BY <3>1 DEF JobType
    <3>. QED
      BY <3>2, <3>3
  <2>3. CASE prot # "rwx"
    <3>1. job' = [job EXCEPT ![p] = [job[p] EXCEPT !.pc = "fault"]]
      BY <2>3 DEF WriteHalf, Goto
    <3>2. [job[p] EXCEPT !.pc = "fault"] = [job[p] EXCEPT !.pc = "fault", !.todo = job[p].todo]
      BY DEF JobType
    <3>. QED
      BY <2>1, <2>3, <3>1, <3>2
  <2>. QED
    BY <2>2, <2>3
<1>3. JobType'
  BY <1>2, ZenonT(20) DEF JobType, Pc
<1>4. AllExecutable' /\ mixed' \in BOOLEAN
  BY <1>1, <1>2 DEF AllExecutable, JobType
<1>5. ASSUME ~mixed' PROVE Alone'
  <2>1. Alone /\ Writing(p) /\ prot = "rwx" /\ pc # "fault"
    BY <1>1, <1>2, <1>5 DEF Alone, Writing
  <2>2. /\ job'[p].pc = pc /\ job'[p].old = job[p].old
        /\ \A q \in Patcher : q # p => job'[q] = job[q]
    BY <1>2 DEF JobType
  <2>3. \A q \in Patcher : Writing(q)' <=> Writing(q)
    BY <2>1, <2>2 DEF Writing
  <2>. QED
    BY <1>1, <2>1, <2>2, <2>3 DEF Alone
<1>. QED
  BY <1>3, <1>4, <1>5

\* The old protection comes back, or stays away when that call fails.
LEMMA RestoreStep ==
  ASSUME IInv, NEW p \in Patcher, Restore(p)
  PROVE  WriteInv'
<1>. USE DEF IInv, WriteInv
<1>1. /\ job[p].pc = "restore" /\ mixed' = mixed
      /\ \/ prot' = job[p].old /\ faults' = faults
         \/ prot' = prot /\ faults' = faults + 1
  BY DEF Restore, At, RestoredProtection
<1>2. PICK new \in [pc : {"idle", "clear"}, c : Ctx \cup {NoCtx},
                    op : {"none", "install", "uninstall"}, todo : SUBSET Halves, old : {"rx"}] :
        job' = [job EXCEPT ![p] = new]
  <2>1. job' = [job EXCEPT ![p] = NoJob]
        \/ job' = [job EXCEPT ![p] = [job[p] EXCEPT !.pc = "clear", !.old = "rx"]]
    BY DEF Restore, Finish
  <2>. QED
    <3>1. NoJob \in [pc : {"idle", "clear"}, c : Ctx \cup {NoCtx},
                     op : {"none", "install", "uninstall"}, todo : SUBSET Halves, old : {"rx"}]
      BY DEF NoJob
    <3>2. [job[p] EXCEPT !.pc = "clear", !.old = "rx"]
            \in [pc : {"idle", "clear"}, c : Ctx \cup {NoCtx},
                op : {"none", "install", "uninstall"}, todo : SUBSET Halves, old : {"rx"}]
      BY DEF JobType
    <3>. QED
      BY <2>1, <3>1, <3>2
<1>3. JobType'
  BY <1>2 DEF JobType, Pc, Protection
<1>4. AllExecutable' /\ mixed' \in BOOLEAN
  BY <1>1, <1>2 DEF AllExecutable, JobType, Executable
<1>5. ASSUME ~mixed' PROVE Alone'
  <2>1. Alone /\ Writing(p)
    BY <1>1, <1>5 DEF Writing
  <2>2. /\ job'[p].pc \in {"idle", "clear"}
        /\ \A q \in Patcher : q # p => job'[q] = job[q] /\ ~Writing(q)
    BY <1>2, <2>1 DEF JobType, Alone
  <2>3. \A q \in Patcher : ~Writing(q)'
    BY <2>2 DEF Writing
  <2>4. \A q \in Patcher : job'[q].pc # "write" /\ job'[q].pc # "fault"
    BY <2>2, <2>3, <2>1 DEF Writing, Alone
  <2>5. faults' = 0 => prot' = "rx"
    BY <1>1, <2>1 DEF Alone, TypeOK
  <2>. QED
    BY <2>3, <2>4, <2>5 DEF Alone
<1>. QED
  BY <1>3, <1>4, <1>5

-----------------------------------------------------------------------------
\* The values the steps store are halves of code, places a proxy leads to, and
\* contexts.
LEMMA ValueTypes ==
  /\ Original \in [Halves -> Ctx \cup {NoCtx}]
  /\ \A c \in Ctx : Jump(c) \in [Halves -> Ctx \cup {NoCtx}]
  /\ \A s \in [Halves -> Ctx \cup {NoCtx}] : Leads(s) \in Ctx \cup Special
  /\ Unused \in [live : BOOLEAN, saved : [Halves -> Ctx \cup {NoCtx}], proxy : Ctx \cup Special]
  /\ [Unused EXCEPT !.proxy = "zeros"]
       \in [live : BOOLEAN, saved : [Halves -> Ctx \cup {NoCtx}], proxy : Ctx \cup Special]
<1>1. \A a \in Ctx \cup {NoCtx} : <<a, a>> \in [Halves -> Ctx \cup {NoCtx}]
  BY DEF Halves
<1>2. Original \in [Halves -> Ctx \cup {NoCtx}] /\ \A c \in Ctx : Jump(c) \in [Halves -> Ctx \cup {NoCtx}]
  BY <1>1 DEF Original, Jump
<1>3. ASSUME NEW s \in [Halves -> Ctx \cup {NoCtx}] PROVE Leads(s) \in Ctx \cup Special
  <2>1. s[1] \in Ctx \cup {NoCtx}
    BY DEF Halves
  <2>. QED
    BY <2>1 DEF Leads, Special
<1>4. Unused \in [live : BOOLEAN, saved : [Halves -> Ctx \cup {NoCtx}], proxy : Ctx \cup Special]
  BY <1>2 DEF Unused, Special
<1>5. [Unused EXCEPT !.proxy = "zeros"]
        \in [live : BOOLEAN, saved : [Halves -> Ctx \cup {NoCtx}], proxy : Ctx \cup Special]
  BY <1>4 DEF Special
<1>. QED
  BY <1>2, <1>3, <1>4, <1>5

DataType ==
  /\ code \in [Func -> [Halves -> Ctx \cup {NoCtx}]]
  /\ ctx \in [Ctx -> [live : BOOLEAN, saved : [Halves -> Ctx \cup {NoCtx}], proxy : Ctx \cup Special]]
  /\ \A p \in Patcher : job[p].pc # "idle" => job[p].c \in Ctx

\* A job keeps its context until it is over.
LEMMA JobContext ==
  ASSUME IInv, NEW p \in Patcher, NEW new, job' = [job EXCEPT ![p] = new],
         new.pc # "idle" => new.c \in Ctx
  PROVE  \A q \in Patcher : job'[q].pc # "idle" => job'[q].c \in Ctx
BY DEF IInv, TypeOK, WriteInv, JobType

\* The same for a job that is not over.
LEMMA JobKept ==
  ASSUME IInv, NEW p \in Patcher, job[p].c \in Ctx,
         \A q \in Patcher : q # p => job'[q] = job[q],
         job'[p].pc = "idle" \/ job'[p].c = job[p].c
  PROVE  \A q \in Patcher : job'[q].pc # "idle" => job'[q].c \in Ctx
BY DEF IInv, TypeOK

\* Steps that begin or end something.
LEMMA DataOfBegin ==
  ASSUME IInv, NEW p \in Patcher, NEW c \in Ctx, BeginInstall(p, c) \/ BeginUninstall(p, c)
  PROVE  DataType'
<1>1. job' = [job EXCEPT ![p] = [NoJob EXCEPT !.pc = "copy", !.c = c, !.op = "install"]]
      \/ job' = [job EXCEPT ![p] = [NoJob EXCEPT !.pc = "protect", !.c = c, !.op = "uninstall"]]
  BY DEF BeginInstall, BeginUninstall, Begin
<1>2. \A q \in Patcher : job'[q].pc # "idle" => job'[q].c \in Ctx
  BY <1>1, JobContext DEF NoJob
<1>3. code' = code /\ (ctx' = ctx \/ ctx' = [ctx EXCEPT ![c] = [Unused EXCEPT !.proxy = "zeros"]])
  BY DEF BeginInstall, BeginUninstall
<1>. QED
  BY <1>2, <1>3, ValueTypes DEF DataType, IInv, TypeOK

\* Steps that fill the context or clear it.
LEMMA DataOfContext ==
  ASSUME IInv, NEW p \in Patcher, CopyHead(p) \/ SaveHead(p) \/ CopyTooShort(p) \/ Clear(p)
  PROVE  DataType'
<1>1. job[p].c \in Ctx /\ FuncOf[job[p].c] \in Func
  <2>1. job[p].pc # "idle"
    BY DEF CopyHead, SaveHead, CopyTooShort, Clear, At
  <2>2. job[p].c \in Ctx
    BY <2>1 DEF IInv, TypeOK
  <2>. QED
    BY <2>2, ThreadsAssumption
<1>2. code[FuncOf[job[p].c]] \in [Halves -> Ctx \cup {NoCtx}]
  BY <1>1 DEF IInv, TypeOK
<1>3. Leads(code[FuncOf[job[p].c]]) \in Ctx \cup Special
  BY <1>2, ValueTypes
<1>4. code' = code
  BY DEF CopyHead, SaveHead, CopyTooShort, Clear
<1>5. \A q \in Patcher : job'[q].pc # "idle" => job'[q].c \in Ctx
  <2>1. CASE CopyHead(p) \/ SaveHead(p)
    <3>1. \E pc : job' = [job EXCEPT ![p] = [job[p] EXCEPT !.pc = pc]]
      BY <2>1 DEF CopyHead, SaveHead, Goto
    <3>. QED
      BY <3>1, <1>1, JobContext DEF IInv, WriteInv, JobType
  <2>2. CASE CopyTooShort(p) \/ Clear(p)
    BY <2>2, JobContext DEF CopyTooShort, Clear, NoJob
  <2>. QED
    BY <2>1, <2>2
<1>6. ctx' \in [Ctx -> [live : BOOLEAN, saved : [Halves -> Ctx \cup {NoCtx}], proxy : Ctx \cup Special]]
  <2>1. CASE CopyHead(p)
    <3>1. ctx' = [ctx EXCEPT ![job[p].c].proxy = Leads(code[FuncOf[job[p].c]]), ![job[p].c].live = TRUE]
      BY <2>1 DEF CopyHead
    <3>. HIDE DEF Leads
    <3>. QED
      BY <3>1, <1>1, <1>3 DEF IInv, TypeOK
  <2>2. CASE SaveHead(p)
    BY <2>2, <1>1, <1>2 DEF SaveHead, IInv, TypeOK
  <2>3. CASE CopyTooShort(p) \/ Clear(p)
    BY <2>3, <1>1, ValueTypes DEF CopyTooShort, Clear, IInv, TypeOK
  <2>. QED
    BY <2>1, <2>2, <2>3
<1>. QED
  BY <1>4, <1>5, <1>6 DEF DataType, IInv, TypeOK

\* Steps of port_write_memory.
LEMMA DataOfWrite ==
  ASSUME IInv, NEW p \in Patcher,
         \/ Protect(p) \/ ProtectDenied(p) \/ Restore(p)
         \/ \E h \in Halves : WriteHalf(p, h)
  PROVE  DataType'
<1>1. job[p].c \in Ctx /\ FuncOf[job[p].c] \in Func
  <2>1. job[p].pc # "idle"
    BY DEF Protect, ProtectDenied, Restore, WriteHalf, At
  <2>2. job[p].c \in Ctx
    BY <2>1 DEF IInv, TypeOK
  <2>. QED
    BY <2>2, ThreadsAssumption
<1>2. ctx' = ctx
  BY DEF Protect, ProtectDenied, Restore, WriteHalf
<1>3. code' \in [Func -> [Halves -> Ctx \cup {NoCtx}]]
  <2>1. ASSUME NEW h \in Halves, WriteHalf(p, h) PROVE code' \in [Func -> [Halves -> Ctx \cup {NoCtx}]]
    <3>1. PatchBytes(p) \in [Halves -> Ctx \cup {NoCtx}]
      BY <1>1, ValueTypes DEF PatchBytes, IInv, TypeOK
    <3>2. code' = [code EXCEPT ![FuncOf[job[p].c]][h] = PatchBytes(p)[h]] \/ code' = code
      BY <2>1 DEF WriteHalf
    <3>. QED
      BY <3>1, <3>2, <1>1 DEF IInv, TypeOK
  <2>. QED
    BY <2>1 DEF Protect, ProtectDenied, Restore, IInv, TypeOK
<1>4. \A q \in Patcher : job'[q].pc # "idle" => job'[q].c \in Ctx
  <2>. USE DEF IInv, WriteInv, JobType
  <2>1. CASE Protect(p)
    <3>1. job' = [job EXCEPT ![p] = [job[p] EXCEPT !.pc = "write", !.todo = Halves, !.old = prot]]
      BY <2>1 DEF Protect
    <3>. QED
      BY <3>1, <1>1, JobKept
  <2>2. CASE ProtectDenied(p) \/ Restore(p)
    <3>1. job' = [job EXCEPT ![p] = NoJob]
          \/ job' = [job EXCEPT ![p] = [job[p] EXCEPT !.pc = "clear", !.old = "rx"]]
      BY <2>2 DEF ProtectDenied, Restore, Finish
    <3>2. CASE job' = [job EXCEPT ![p] = NoJob]
      BY <3>2, <1>1, JobKept DEF NoJob
    <3>3. CASE job' = [job EXCEPT ![p] = [job[p] EXCEPT !.pc = "clear", !.old = "rx"]]
      BY <3>3, <1>1, JobKept
    <3>. QED
      BY <3>1, <3>2, <3>3
  <2>3. ASSUME NEW h \in Halves, WriteHalf(p, h)
        PROVE  \A q \in Patcher : job'[q].pc # "idle" => job'[q].c \in Ctx
    <3>1. CASE prot = "rwx"
      <4>. DEFINE next == IF job[p].todo = {h} THEN "restore" ELSE "write"
                  rest == job[p].todo \ {h}
      <4>1. job' = [job EXCEPT ![p].todo = rest, ![p].pc = next]
        BY <2>3, <3>1 DEF WriteHalf
      <4>. HIDE DEF next, rest
      <4>. QED
        BY <4>1, <1>1, JobKept
    <3>2. CASE prot # "rwx"
      <4>1. job' = [job EXCEPT ![p].pc = "fault"]
        BY <2>3, <3>2 DEF WriteHalf, Goto
      <4>. QED
        BY <4>1, <1>1, JobKept
    <3>. QED
      BY <3>1, <3>2
  <2>. QED
    BY <2>1, <2>2, <2>3
<1>. QED
  BY <1>2, <1>3, <1>4 DEF DataType, IInv, TypeOK

-----------------------------------------------------------------------------
\* A caller changes nothing but its own call.
LEMMA CallerKeeps ==
  ASSUME IInv, NEW t \in Caller, (\E f \in Func : Call(t, f)) \/ CallerStep(t)
  PROVE  IInv'
<1>1. UNCHANGED <<code, prot, ctx, job, faults, mixed>>
  BY DEF Call, CallerStep, history
<1>. QED
  BY <1>1 DEF IInv, TypeOK, WriteInv, JobType, AllExecutable, Alone, Writing

\* At most MaxFaults calls fail.
LEMMA FaultsBounded ==
  ASSUME IInv, [Next]_vars
  PROVE  faults' \in 0 .. MaxFaults
<1>1. faults' = faults \/ (faults < MaxFaults /\ faults' = faults + 1)
  BY DEF Next, vars, BeginInstall, BeginUninstall, PatcherStep, CopyHead, CopyTooShort, SaveHead,
         Protect, ProtectDenied, WriteHalf, Restore, Clear, Call, CallerStep
<1>. QED
  BY <1>1, ThreadsAssumption DEF IInv, TypeOK

\* Every step keeps the invariant.
LEMMA Step ==
  ASSUME IInv, [Next]_vars
  PROVE  IInv'
<1>1. CASE vars' = vars
  <2>1. UNCHANGED <<code, prot, ctx, job, faults, mixed>>
    BY <1>1 DEF vars, history
  <2>. QED
    BY <2>1 DEF IInv, TypeOK, WriteInv, JobType, AllExecutable, Alone, Writing
<1>2. ASSUME NEW p \in Patcher, NEW c \in Ctx, BeginInstall(p, c) \/ BeginUninstall(p, c)
      PROVE  WriteInv' /\ DataType'
  BY <1>2, StepsOutsideWrite, OutsideWriteStep, DataOfBegin
<1>3. ASSUME NEW p \in Patcher, PatcherStep(p)
      PROVE  WriteInv' /\ DataType'
  <2>1. CASE CopyHead(p) \/ SaveHead(p) \/ CopyTooShort(p) \/ Clear(p)
    BY <2>1, StepsOutsideWrite, OutsideWriteStep, DataOfContext
  <2>2. CASE ProtectDenied(p)
    BY <2>2, StepsOutsideWrite, OutsideWriteStep, DataOfWrite
  <2>3. CASE Protect(p)
    BY <2>3, ProtectStep, DataOfWrite
  <2>4. CASE Restore(p)
    BY <2>4, RestoreStep, DataOfWrite
  <2>5. CASE \E h \in Halves : WriteHalf(p, h)
    BY <2>5, WriteHalfStep, DataOfWrite
  <2>. QED
    BY <1>3, <2>1, <2>2, <2>3, <2>4, <2>5 DEF PatcherStep
<1>4. ASSUME WriteInv' /\ DataType' PROVE IInv'
  <2>1. prot' \in Protection /\ \A p \in Patcher : job'[p].old \in Protection
    BY <1>4 DEF WriteInv, AllExecutable, Executable, Protection
  <2>. QED
    BY <1>4, <2>1, FaultsBounded DEF IInv, TypeOK, DataType
<1>. QED
  BY <1>1, <1>2, <1>3, <1>4, CallerKeeps DEF Next

\* The initial states satisfy the invariant.
LEMMA InitStep == Init => IInv
<1>. SUFFICES ASSUME Init PROVE IInv
  OBVIOUS
<1>1. TypeOK
  BY ValueTypes, ThreadsAssumption DEF Init, TypeOK, Protection, NoJob
<1>2. JobType
  BY DEF Init, JobType, NoJob, Pc, Protection
<1>3. AllExecutable /\ mixed \in BOOLEAN /\ Alone
  BY DEF Init, AllExecutable, Executable, Alone, Writing, NoJob
<1>. QED
  BY <1>1, <1>2, <1>3 DEF IInv, WriteInv

\* The invariant holds in every state the threads can bring the page into.
LEMMA Inductive == Spec => []IInv
<1>1. Init => IInv
  BY InitStep
<1>2. IInv /\ [Next]_vars => IInv'
  BY Step
<1>. QED
  BY <1>1, <1>2, PTL DEF Spec

\* Every variable keeps its type, for any number of threads, contexts and
\* functions (hooklib.c 331-433, port_win32.c 7-21).
THEOREM TypesKept == Spec => []TypeOK
<1>1. IInv => TypeOK
  BY DEF IInv
<1>. QED
  BY <1>1, Inductive, PTL

\* However many threads patch functions on a page, and however their writes
\* overlap or fail, nobody finds the page without the right to execute it
\* (port_win32.c 12, 18).
THEOREM ExecutableThroughout == Spec => []PageStaysExecutable
<1>1. IInv => PageStaysExecutable
  BY DEF IInv, WriteInv, AllExecutable, Executable, PageStaysExecutable
<1>. QED
  BY <1>1, Inductive, PTL

\* However many threads patch and call, a memcpy of port_write_memory faults
\* only after two of them have been inside port_write_memory for the page at a
\* time (port_win32.c 12-18).
THEOREM LoneWriter == Spec => []LoneWriterNeverFaults
<1>1. IInv => LoneWriterNeverFaults
  BY DEF IInv, WriteInv, Alone, LoneWriterNeverFaults
<1>. QED
  BY <1>1, Inductive, PTL

\* Writes of any number of threads that follow one another, and none of which
\* failed, leave the page with the protection it had (port_win32.c 18).
THEOREM ProtectionComesBack == Spec => []ProtectionRestored
<1>1. IInv => ProtectionRestored
  BY DEF IInv, WriteInv, Alone, Writing, InWrite, ProtectionRestored
<1>. QED
  BY <1>1, Inductive, PTL

-----------------------------------------------------------------------------
(* The contexts at a function.  What holds of them is said of functions no *)
(* two patchers met at; of the others nothing is known.                    *)

\* The head of a function that shows h, as below its i newest patches but one:
\* the first is what it shows.
Below(h, i) == IF i <= Len(h) THEN Jump(h[i]) ELSE Original

Shows(h, c) == \E i \in 1 .. Len(h) : h[i] = c

\* The head after the i-th install of s; w is what the contexts hold.
After(s, h, w, i) ==
  IF i = 0 THEN Original ELSE IF Shows(h, s[i]) THEN Jump(s[i]) ELSE w[s[i]].saved

\* Every context in use at f saved what the one before it left, and its proxy
\* leads there; the newest left what f shows.
Stacked(f, s, h, w) ==
  /\ s \in Seq(Ctx) /\ h \in Seq(Ctx)
  /\ \A i, j \in 1 .. Len(s) : s[i] = s[j] => i = j
  /\ \A i, j \in 1 .. Len(h) : h[i] = h[j] => i = j
  /\ \A i \in 1 .. Len(s) :
       /\ FuncOf[s[i]] = f
       /\ w[s[i]].live
       /\ w[s[i]].saved = After(s, h, w, i - 1)
       /\ w[s[i]].proxy = Leads(w[s[i]].saved)
  /\ \A i \in 1 .. Len(h) :
       /\ \E j \in 1 .. Len(s) : s[j] = h[i]
       /\ w[h[i]].saved = Below(h, i + 1)
  /\ After(s, h, w, Len(s)) = Below(h, 1)

Head1(f) == Below(shown[f], 1)

Busy(p, f) == job[p].pc # "idle" /\ FuncOf[job[p].c] = f

\* How far an install has come.
Installing(p, f) ==
  LET c == job[p].c IN
  /\ job[p].pc # "clear"
  /\ \A i \in 1 .. Len(stack[f]) : stack[f][i] # c
  /\ job[p].pc # "copy" => ctx[c].live /\ ctx[c].proxy = Leads(Head1(f))
  /\ job[p].pc \notin {"copy", "save"} => ctx[c].saved = Head1(f)

\* How far a removal has come.
Removing(p, f) ==
  LET c == job[p].c IN
  /\ job[p].pc \notin {"copy", "save"}
  /\ stack[f] # <<>> /\ stack[f][Len(stack[f])] = c
  /\ job[p].pc = "clear" => code[f] = ctx[c].saved

\* What is written so far is in the code, the rest is as it was.
HalfWritten(p, f) ==
  \A h \in Halves : code[f][h] = IF h \in job[p].todo THEN Head1(f)[h] ELSE PatchBytes(p)[h]

Working(p, f) ==
  /\ job[p].op = "install" => Installing(p, f)
  /\ job[p].op = "uninstall" => Removing(p, f)
  /\ job[p].op # "none"
  /\ job[p].pc \in {"copy", "save", "protect"} => code[f] = Head1(f)
  /\ job[p].pc \in {"write", "restore"} => HalfWritten(p, f)
  /\ job[p].pc = "restore" => job[p].todo = {}

Orderly(f) ==
  /\ Stacked(f, stack[f], shown[f], ctx)
  /\ \A p, q \in Patcher : Busy(p, f) /\ Busy(q, f) => p = q
  /\ \A p \in Patcher : Busy(p, f) => Working(p, f)
  /\ (\A p \in Patcher : ~Busy(p, f)) => code[f] = Head1(f)

CallPc == {"out", "entry", "second", "replacement", "proxy", "body", "returned", "fault"}
CallRecord == [pc : CallPc, f : Func \cup {"none"}, c : Ctx \cup {NoCtx},
               ran : Seq(Ctx), body : Nat, quiet : BOOLEAN]
CallType ==
  /\ call \in [Caller -> CallRecord]
  /\ \A t \in Caller : call[t].pc # "out" => call[t].f \in Func

\* A quiet call has passed the first contexts that f shows, in order, and is at
\* the last of them.
Passed(t) ==
  LET r == call[t].ran
      s == shown[call[t].f]
  IN /\ Len(r) <= Len(s)
     /\ \A i \in 1 .. Len(r) : r[i] = s[i]

Quiet(t) ==
  LET f == call[t].f IN
  /\ f \in Func \ raced
  /\ \A p \in Patcher : ~Busy(p, f)
  /\ Passed(t)
  /\ call[t].pc \in CallPc \ {"out", "fault"}
  /\ call[t].pc \in {"entry", "second"} => call[t].ran = <<>>
  /\ call[t].pc = "second" => shown[f] = <<>>
  /\ call[t].pc \in {"replacement", "proxy"} => call[t].ran # <<>> /\ call[t].c = call[t].ran[Len(call[t].ran)]
  /\ call[t].pc \in {"body", "returned"} => Len(call[t].ran) = Len(shown[f])
  /\ call[t].body = IF call[t].pc = "returned" THEN 1 ELSE 0

OrderInv ==
  /\ DOMAIN stack = Func /\ DOMAIN shown = Func
  /\ \A f \in Func \ raced : Orderly(f)
  /\ CallType
  /\ \A t \in Caller : call[t].quiet => Quiet(t)

-----------------------------------------------------------------------------
\* What holds at f does not depend on contexts that are not in use there.
LEMMA StackedKept ==
  ASSUME NEW f, NEW s, NEW h, NEW w, Stacked(f, s, h, w),
         NEW v, \A i \in 1 .. Len(s) : v[s[i]] = w[s[i]]
  PROVE  Stacked(f, s, h, v)
<1>1. PICK n \in Nat : n = Len(s)
  BY DEF Stacked
<1>2. \A i \in 0 .. n : After(s, h, v, i) = After(s, h, w, i)
  BY <1>1 DEF After
<1>3. \A i \in 1 .. n : i - 1 \in 0 .. n
  OBVIOUS
<1>4. PICK m \in Nat : m = Len(h)
  BY DEF Stacked
<1>5. \A i \in 1 .. m : v[h[i]].saved = Below(h, i + 1)
  <2>1. \A i \in 1 .. m : w[h[i]].saved = Below(h, i + 1) /\ \E j \in 1 .. n : s[j] = h[i]
    BY <1>1, <1>4 DEF Stacked
  <2>2. \A i \in 1 .. m : v[h[i]] = w[h[i]]
    BY <1>1, <2>1
  <2>. QED
    BY <2>1, <2>2
<1>6. \A i \in 1 .. n : v[s[i]].saved = After(s, h, v, i - 1)
  BY <1>1, <1>2, <1>3 DEF Stacked
<1>7. \A i \in 1 .. n : FuncOf[s[i]] = f /\ v[s[i]].live /\ v[s[i]].proxy = Leads(v[s[i]].saved)
  BY <1>1 DEF Stacked
<1>8. After(s, h, v, n) = Below(h, 1)
  <2>1. n \in 0 .. n
    BY <1>1
  <2>. QED
    BY <1>1, <1>2, <2>1 DEF Stacked
<1>9. /\ s \in Seq(Ctx) /\ h \in Seq(Ctx)
      /\ \A i, j \in 1 .. n : s[i] = s[j] => i = j
      /\ \A i, j \in 1 .. m : h[i] = h[j] => i = j
      /\ \A i \in 1 .. m : \E j \in 1 .. n : s[j] = h[i]
  BY <1>1, <1>4 DEF Stacked
<1>. QED
  BY <1>1, <1>4, <1>5, <1>6, <1>7, <1>8, <1>9 DEF Stacked

\* A context that has saved what f shows, and leads there, goes on the stack;
\* its jump is shown or it is not.
LEMMA StackedPushed ==
  ASSUME NEW f, NEW s, NEW h, NEW w, Stacked(f, s, h, w),
         NEW c \in Ctx, FuncOf[c] = f, \A i \in 1 .. Len(s) : s[i] # c,
         w[c].live, w[c].saved = Below(h, 1), w[c].proxy = Leads(w[c].saved)
  PROVE  Stacked(f, Append(s, c), <<c>> \o h, w) /\ Stacked(f, Append(s, c), h, w)
<1>. DEFINE r == Append(s, c)
            k == <<c>> \o h
<1>1. PICK n \in Nat, m \in Nat : n = Len(s) /\ m = Len(h) /\ s \in Seq(Ctx) /\ h \in Seq(Ctx)
  BY DEF Stacked
<1>2. /\ r \in Seq(Ctx) /\ Len(r) = n + 1 /\ r[n + 1] = c
      /\ \A i \in 1 .. n : r[i] = s[i]
  BY <1>1
<1>3. /\ k \in Seq(Ctx) /\ Len(k) = m + 1 /\ k[1] = c
      /\ \A i \in 1 .. m : k[i + 1] = h[i]
  BY <1>1
<1>21. \A i, j \in 1 .. m : h[i] = h[j] => i = j
  BY <1>1 DEF Stacked
<1>. HIDE DEF r, k
<1>4. \A i \in 1 .. m : h[i] # c
  BY <1>1 DEF Stacked
<1>5. \A d : d # c => (Shows(k, d) <=> Shows(h, d))
  <2>1. \A i \in 1 .. m + 1 : i = 1 \/ (i - 1 \in 1 .. m /\ k[i] = h[i - 1])
    BY <1>1, <1>3
  <2>2. \A i \in 1 .. m : i + 1 \in 1 .. m + 1
    BY <1>1
  <2>3. ASSUME NEW d, d # c, Shows(k, d) PROVE Shows(h, d)
    BY <1>1, <1>3, <2>1, <2>3 DEF Shows
  <2>4. ASSUME NEW d, Shows(h, d) PROVE Shows(k, d)
    BY <1>1, <1>3, <2>2, <2>4 DEF Shows
  <2>. QED
    BY <2>3, <2>4
<1>6. Shows(k, c) /\ ~Shows(h, c)
  BY <1>1, <1>3, <1>4 DEF Shows
<1>7. \A i \in 0 .. n : After(r, k, w, i) = After(s, h, w, i) /\ After(r, h, w, i) = After(s, h, w, i)
  <2>1. \A i \in 1 .. n : s[i] # c
    BY <1>1
  <2>. QED
    BY <1>2, <1>5, <2>1 DEF After
<1>8. After(r, k, w, n + 1) = Jump(c) /\ After(r, h, w, n + 1) = Below(h, 1)
  BY <1>1, <1>2, <1>6 DEF After
<1>9. \A i \in 1 .. n + 1 : i \in 1 .. n \/ i = n + 1
  BY <1>1
<1>10. \A i \in 1 .. n : i - 1 \in 0 .. n
  BY <1>1
<1>11. n + 1 - 1 = n /\ n \in 0 .. n
  BY <1>1
<1>12. After(s, h, w, n) = Below(h, 1)
  BY <1>1 DEF Stacked
<1>13. \A i \in 1 .. n + 1 : /\ FuncOf[r[i]] = f /\ w[r[i]].live
                             /\ w[r[i]].proxy = Leads(w[r[i]].saved)
                             /\ w[r[i]].saved = After(r, k, w, i - 1)
                             /\ w[r[i]].saved = After(r, h, w, i - 1)
  <2>1. ASSUME NEW i \in 1 .. n
        PROVE  /\ FuncOf[r[i]] = f /\ w[r[i]].live
               /\ w[r[i]].proxy = Leads(w[r[i]].saved)
               /\ w[r[i]].saved = After(s, h, w, i - 1)
    BY <1>1, <1>2 DEF Stacked
  <2>2. /\ FuncOf[c] = f /\ w[c].live
        /\ w[c].proxy = Leads(w[c].saved)
        /\ w[c].saved = After(s, h, w, n)
    BY <1>12
  <2>3. \A i \in 1 .. n : After(r, k, w, i - 1) = After(s, h, w, i - 1) /\ After(r, h, w, i - 1) = After(s, h, w, i - 1)
    BY <1>7, <1>10
  <2>4. After(r, k, w, n) = After(s, h, w, n) /\ After(r, h, w, n) = After(s, h, w, n)
    BY <1>7, <1>11
  <2>. QED
    BY <1>2, <1>9, <1>11, <2>1, <2>2, <2>3, <2>4, SMTT(30)
<1>14. \A i, j \in 1 .. n + 1 : r[i] = r[j] => i = j
  <2>1. \A i \in 1 .. n : r[i] # c
    BY <1>1, <1>2
  <2>2. \A i, j \in 1 .. n : r[i] = r[j] => i = j
    BY <1>1, <1>2 DEF Stacked
  <2>. QED
    BY <1>2, <1>9, <2>1, <2>2
<1>15. \A i \in 1 .. m : (\E j \in 1 .. n + 1 : r[j] = h[i]) /\ w[h[i]].saved = Below(h, i + 1)
  BY <1>1, <1>2 DEF Stacked
<1>16. \A i \in 1 .. m + 1 : Below(k, i + 1) = Below(h, i)
  BY <1>1, <1>3 DEF Below
<1>17. Below(k, 1) = Jump(c)
  BY <1>1, <1>3 DEF Below
<1>18. \A i \in 1 .. m + 1 : (\E j \in 1 .. n + 1 : r[j] = k[i]) /\ w[k[i]].saved = Below(k, i + 1)
  <2>1. (\E j \in 1 .. n + 1 : r[j] = k[1]) /\ w[k[1]].saved = Below(k, 1 + 1)
    <3>1. 1 \in 1 .. m + 1 /\ n + 1 \in 1 .. n + 1
      BY <1>1
    <3>. QED
      BY <1>2, <1>3, <1>16, <3>1
  <2>2. ASSUME NEW i \in 1 .. m
        PROVE  (\E j \in 1 .. n + 1 : r[j] = k[i + 1]) /\ w[k[i + 1]].saved = Below(k, i + 1 + 1)
    <3>1. i + 1 \in 1 .. m + 1 /\ k[i + 1] = h[i]
      BY <1>1, <1>3
    <3>. QED
      BY <3>1, <1>15, <1>16
  <2>3. \A i \in 1 .. m + 1 : i = 1 \/ \E j \in 1 .. m : i = j + 1
    <3>1. \A i \in 1 .. m + 1 : i = 1 \/ (i - 1 \in 1 .. m /\ i = (i - 1) + 1)
      BY <1>1
    <3>. QED
      BY <3>1
  <2>. QED
    BY <2>1, <2>2, <2>3
<1>19. Stacked(f, r, k, w)
  <2>1. \A i, j \in 1 .. m + 1 : k[i] = k[j] => i = j
    <3>1. \A i \in 1 .. m + 1 : i = 1 \/ (i - 1 \in 1 .. m /\ k[i] = h[i - 1])
      BY <1>1, <1>3
    <3>2. \A i, j \in 1 .. m + 1 : i - 1 = j - 1 => i = j
      BY <1>1
    <3>. QED
      BY <1>3, <1>4, <1>21, <3>1, <3>2
  <2>. QED
    BY <1>1, <1>2, <1>3, <1>8, <1>13, <1>14, <1>17, <1>18, <2>1 DEF Stacked
<1>20. Stacked(f, r, h, w)
  BY <1>1, <1>2, <1>8, <1>13, <1>14, <1>15 DEF Stacked
<1>. QED
  BY <1>19, <1>20 DEF r, k

\* The newest context leaves the stack, and with its jump what f shows.
LEMMA StackedPopped ==
  ASSUME NEW f, NEW s, NEW h, NEW w, Stacked(f, s, h, w), s # <<>>,
         NEW c, c = s[Len(s)]
  PROVE  LET k == IF h # <<>> /\ Head(h) = c THEN Tail(h) ELSE h
         IN  /\ Stacked(f, Without(s, c), k, w)
             /\ Below(k, 1) = w[c].saved
             /\ \A i \in 1 .. Len(Without(s, c)) : Without(s, c)[i] # c
<1>. DEFINE r == Without(s, c)
            k == IF h # <<>> /\ Head(h) = c THEN Tail(h) ELSE h
<1>1. PICK n \in Nat, m \in Nat : n + 1 = Len(s) /\ m = Len(h) /\ s \in Seq(Ctx) /\ h \in Seq(Ctx)
  <2>1. s \in Seq(Ctx) /\ h \in Seq(Ctx)
    BY DEF Stacked
  <2>2. Len(s) \in Nat /\ Len(s) # 0 /\ Len(h) \in Nat
    BY <2>1
  <2>3. Len(s) - 1 \in Nat /\ Len(s) - 1 + 1 = Len(s)
    BY <2>2
  <2>. QED
    BY <2>1, <2>2, <2>3
<1>2. /\ r \in Seq(Ctx) /\ Len(r) = n
      /\ \A i \in 1 .. n : r[i] = s[i]
  <2>1. (CHOOSE i \in DOMAIN s : s[i] = c) = n + 1
    <3>1. DOMAIN s = 1 .. n + 1 /\ n + 1 \in 1 .. n + 1
      BY <1>1
    <3>2. \A i \in 1 .. n + 1 : s[i] = c => i = n + 1
      BY <1>1, <3>1 DEF Stacked
    <3>3. n + 1 \in DOMAIN s /\ s[n + 1] = c
      BY <1>1, <3>1
    <3>4. \A i \in DOMAIN s : s[i] = c => i = n + 1
      BY <3>1, <3>2
    <3>. QED
      BY <3>3, <3>4
  <2>2. r = SubSeq(s, 1, n) \o SubSeq(s, n + 2, n + 1)
    <3>1. r = RemoveAt(s, n + 1)
      BY <2>1 DEF Without
    <3>2. RemoveAt(s, n + 1) = SubSeq(s, 1, (n + 1) - 1) \o SubSeq(s, (n + 1) + 1, Len(s))
      BY DEF RemoveAt
    <3>3. (n + 1) - 1 = n /\ (n + 1) + 1 = n + 2
      BY <1>1
    <3>. QED
      BY <1>1, <3>1, <3>2, <3>3
  <2>3. SubSeq(s, n + 2, n + 1) = <<>>
    BY <1>1
  <2>4. SubSeq(s, 1, n) \in Seq(Ctx) /\ Len(SubSeq(s, 1, n)) = n /\ \A i \in 1 .. n : SubSeq(s, 1, n)[i] = s[i]
    BY <1>1
  <2>5. SubSeq(s, 1, n) \o <<>> = SubSeq(s, 1, n)
    BY <2>4
  <2>. QED
    BY <2>2, <2>3, <2>4, <2>5
<1>. HIDE DEF r
<1>3. \A i \in 1 .. n : s[i] # c
  BY <1>1 DEF Stacked
<1>4. After(s, h, w, n + 1) = Below(h, 1) /\ w[c].saved = After(s, h, w, n)
  <2>1. n + 1 \in 1 .. n + 1 /\ n + 1 - 1 = n
    BY <1>1
  <2>. QED
    BY <1>1, <2>1 DEF Stacked
<1>5. \A i \in 1 .. n : i \in 1 .. n + 1 /\ i - 1 \in 0 .. n
  BY <1>1
<1>6. n \in 0 .. n
  BY <1>1
<1>9. \A i, j \in 1 .. n : r[i] = r[j] => i = j
  <2>1. \A i, j \in 1 .. n : s[i] = s[j] => i = j
    BY <1>1, <1>5 DEF Stacked
  <2>. QED
    BY <1>2, <2>1
<1>7. ASSUME ~Shows(h, c) PROVE k = h /\ Stacked(f, r, k, w) /\ Below(k, 1) = w[c].saved
  <2>1. h # <<>> => Head(h) # c
    BY <1>1, <1>7 DEF Shows
  <2>2. k = h
    BY <2>1
  <2>3. \A i \in 0 .. n : After(r, h, w, i) = After(s, h, w, i)
    BY <1>1, <1>2 DEF After
  <2>4. w[c].saved = Below(h, 1)
    BY <1>1, <1>4, <1>7 DEF After
  <2>5. \A i \in 1 .. m : h[i] # c
    BY <1>1, <1>7 DEF Shows
  <2>6. \A i \in 1 .. m : \E j \in 1 .. n : r[j] = h[i]
    <3>1. \A i \in 1 .. n + 1 : i \in 1 .. n \/ i = n + 1
      BY <1>1
    <3>. QED
      BY <1>1, <1>2, <2>5, <3>1 DEF Stacked
  <2>7. \A i \in 1 .. n : w[r[i]].saved = After(r, h, w, i - 1)
    BY <1>1, <1>2, <1>5, <2>3 DEF Stacked
  <2>8. After(r, h, w, n) = Below(h, 1)
    BY <1>4, <1>6, <2>3, <2>4
  <2>9. /\ \A i \in 1 .. n : FuncOf[r[i]] = f /\ w[r[i]].live /\ w[r[i]].proxy = Leads(w[r[i]].saved)
    BY <1>1, <1>2, <1>5 DEF Stacked
  <2>11. /\ \A i, j \in 1 .. n : r[i] = r[j] => i = j
         /\ \A i, j \in 1 .. m : h[i] = h[j] => i = j
         /\ \A i \in 1 .. m : w[h[i]].saved = Below(h, i + 1)
    BY <1>1, <1>9 DEF Stacked
  <2>10. Stacked(f, r, h, w)
    BY <1>1, <1>2, <2>6, <2>7, <2>8, <2>9, <2>11 DEF Stacked
  <2>. QED
    BY <2>2, <2>4, <2>10
<1>8. ASSUME Shows(h, c) PROVE Stacked(f, r, k, w) /\ Below(k, 1) = w[c].saved
  <2>1. Jump(c) = Below(h, 1)
    BY <1>1, <1>4, <1>8 DEF After
  <2>2. m # 0
    BY <1>1, <1>8 DEF Shows
  <2>3. h[1] = c
    BY <1>1, <2>1, <2>2 DEF Below, Jump
  <2>4. /\ k = Tail(h) /\ k \in Seq(Ctx) /\ Len(k) = m - 1
        /\ \A i \in 1 .. m - 1 : k[i] = h[i + 1]
    BY <1>1, <2>2, <2>3
  <2>. HIDE DEF k
  <2>5. \A i \in 1 .. m - 1 : i + 1 \in 1 .. m /\ i + 2 = i + 1 + 1
    BY <1>1
  <2>6. Below(k, 1) = Below(h, 2) /\ \A i \in 1 .. m - 1 : Below(k, i + 1) = Below(h, i + 1 + 1)
    <3>1. \A i \in 1 .. m : Below(k, i) = Below(h, i + 1)
      BY <1>1, <2>4 DEF Below
    <3>2. \A i \in 1 .. m - 1 : i + 1 \in 1 .. m
      BY <1>1
    <3>3. 1 \in 1 .. m /\ 1 + 1 = 2
      BY <1>1, <2>2
    <3>. QED
      BY <3>1, <3>2, <3>3
  <2>7. w[c].saved = Below(h, 2)
    <3>1. 1 \in 1 .. m /\ 1 + 1 = 2
      BY <1>1, <2>2
    <3>. QED
      BY <1>1, <2>3, <3>1 DEF Stacked
  <2>8. \A i \in 1 .. m - 1 : k[i] # c
    <3>1. 1 \in 1 .. m /\ \A i \in 1 .. m - 1 : i + 1 # 1
      BY <1>1, <2>2
    <3>. QED
      BY <1>1, <2>3, <2>4, <2>5, <3>1 DEF Stacked
  <2>9. \A d : d # c => (Shows(k, d) <=> Shows(h, d))
    <3>1. \A i \in 1 .. m : i = 1 \/ (i - 1 \in 1 .. m - 1 /\ h[i] = k[i - 1])
      BY <1>1, <2>4
    <3>2. ASSUME NEW d, Shows(k, d) PROVE Shows(h, d)
      BY <1>1, <2>4, <2>5, <3>2 DEF Shows
    <3>3. ASSUME NEW d, d # c, Shows(h, d) PROVE Shows(k, d)
      BY <1>1, <2>3, <2>4, <3>1, <3>3 DEF Shows
    <3>. QED
      BY <3>2, <3>3
  <2>10. \A i \in 0 .. n : After(r, k, w, i) = After(s, h, w, i)
    BY <1>1, <1>2, <1>3, <2>9 DEF After
  <2>11. \A i \in 1 .. m - 1 : (\E j \in 1 .. n : r[j] = k[i]) /\ w[k[i]].saved = Below(k, i + 1)
    <3>1. \A i \in 1 .. n + 1 : i \in 1 .. n \/ i = n + 1
      BY <1>1
    <3>2. \A i \in 1 .. m : (\E j \in 1 .. n + 1 : s[j] = h[i]) /\ w[h[i]].saved = Below(h, i + 1)
      BY <1>1 DEF Stacked
    <3>3. \A i \in 1 .. m - 1 : \E j \in 1 .. n : s[j] = k[i]
      <4>. TAKE i \in 1 .. m - 1
      <4>1. PICK j \in 1 .. n + 1 : s[j] = k[i]
        BY <2>4, <2>5, <3>2
      <4>2. j # n + 1
        BY <1>1, <2>8, <4>1
      <4>. QED
        BY <3>1, <4>1, <4>2
    <3>4. \A i \in 1 .. m - 1 : w[k[i]].saved = Below(h, i + 1 + 1)
      BY <2>4, <2>5, <3>2
    <3>. QED
      BY <1>2, <2>6, <3>3, <3>4
  <2>12. \A i \in 1 .. n : w[r[i]].saved = After(r, k, w, i - 1)
    BY <1>1, <1>2, <1>5, <2>10 DEF Stacked
  <2>13. After(r, k, w, n) = Below(k, 1)
    BY <1>4, <1>6, <2>6, <2>7, <2>10
  <2>14. \A i \in 1 .. n : FuncOf[r[i]] = f /\ w[r[i]].live /\ w[r[i]].proxy = Leads(w[r[i]].saved)
    <3>1. \A i \in 1 .. n : FuncOf[s[i]] = f /\ w[s[i]].live /\ w[s[i]].proxy = Leads(w[s[i]].saved)
      BY <1>1, <1>5 DEF Stacked
    <3>. QED
      BY <1>2, <3>1
  <2>15. \A i, j \in 1 .. m - 1 : k[i] = k[j] => i = j
    <3>1. \A i, j \in 1 .. m - 1 : i + 1 = j + 1 => i = j
      BY <1>1
    <3>. QED
      BY <1>1, <2>4, <2>5, <3>1 DEF Stacked
  <2>16. Stacked(f, r, k, w)
    BY <1>1, <1>2, <1>9, <2>4, <2>11, <2>12, <2>13, <2>14, <2>15 DEF Stacked
  <2>. QED
    BY <2>6, <2>7, <2>16
<1>10. \A i \in 1 .. Len(r) : r[i] # c
  BY <1>2, <1>3
<1>. QED
  BY <1>7, <1>8, <1>10 DEF r

\* The jobs that are done at f, and what a job has done to the code of f.
LEMMA OrderlyKept ==
  ASSUME IInv, NEW f \in Func, Orderly(f),
         stack'[f] = stack[f], shown'[f] = shown[f], code'[f] = code[f],
         \A c \in Ctx : FuncOf[c] = f => ctx'[c] = ctx[c],
         \A q \in Patcher : /\ Busy(q, f)' <=> Busy(q, f)
                            /\ Busy(q, f) => job'[q] = job[q]
  PROVE  Orderly(f)'
<1>1. \A i \in 1 .. Len(stack[f]) : ctx'[stack[f][i]] = ctx[stack[f][i]]
  BY DEF Orderly, Stacked
<1>2. Stacked(f, stack[f], shown[f], ctx)' /\ Head1(f)' = Head1(f)
  BY <1>1, StackedKept, SMTT(30) DEF Orderly, Head1
<1>3. ASSUME NEW p \in Patcher, Busy(p, f)' PROVE Working(p, f)'
  <2>1. job'[p] = job[p] /\ Busy(p, f) /\ Working(p, f)
    BY <1>3 DEF Orderly
  <2>2. ctx'[job[p].c] = ctx[job[p].c]
    BY <2>1 DEF Busy, IInv, TypeOK
  <2>3. PatchBytes(p)' = PatchBytes(p)
    BY <2>1, <2>2 DEF PatchBytes
  <2>4. HalfWritten(p, f)' <=> HalfWritten(p, f)
    BY <2>1, <2>3, <1>2 DEF HalfWritten
  <2>5. (Installing(p, f)' <=> Installing(p, f)) /\ (Removing(p, f)' <=> Removing(p, f))
    BY <2>1, <2>2, <1>2 DEF Installing, Removing
  <2>. QED
    BY <2>1, <2>4, <2>5, <1>2 DEF Working
<1>. QED
  BY <1>2, <1>3 DEF Orderly

\* A step of p that concerns no function but f.
StepAt(p, f) ==
  /\ DOMAIN stack' = Func /\ DOMAIN shown' = Func
  /\ raced \subseteq raced' /\ raced' \subseteq raced \cup {f}
  /\ \A g \in Func \ {f} : stack'[g] = stack[g] /\ shown'[g] = shown[g] /\ code'[g] = code[g]
  /\ \A c \in Ctx : FuncOf[c] # f => ctx'[c] = ctx[c]
  /\ \A q \in Patcher : q # p => job'[q] = job[q]
  /\ job[p].pc = "idle" \/ FuncOf[job[p].c] = f
  /\ job'[p].pc = "idle" \/ FuncOf[job'[p].c] = f
  /\ \A t \in Caller : call'[t].quiet => call'[t] = call[t] /\ call[t].f # f

\* The other functions, and the calls of them, do not notice.
LEMMA Elsewhere ==
  ASSUME IInv, OrderInv, NEW p \in Patcher, NEW f \in Func, StepAt(p, f), CallType',
         f \notin raced' => Orderly(f)'
  PROVE  OrderInv'
<1>1. ASSUME NEW g \in Func, g # f, NEW q \in Patcher
      PROVE  /\ Busy(q, g)' <=> Busy(q, g)
             /\ Busy(q, g) => job'[q] = job[q]
  BY <1>1 DEF Busy, StepAt
<1>2. ASSUME NEW g \in Func \ raced', g # f
      PROVE  Orderly(g)'
  <2>1. Orderly(g) /\ \A c \in Ctx : FuncOf[c] = g => ctx'[c] = ctx[c]
    BY <1>2 DEF OrderInv, StepAt
  <2>2. stack'[g] = stack[g] /\ shown'[g] = shown[g] /\ code'[g] = code[g]
    BY <1>2 DEF StepAt
  <2>. QED
    BY <1>1, <1>2, <2>1, <2>2, OrderlyKept
<1>3. ASSUME NEW t \in Caller, call'[t].quiet
      PROVE  Quiet(t)'
  <2>1. call'[t] = call[t] /\ call[t].f # f /\ Quiet(t)
    BY <1>3 DEF StepAt, OrderInv
  <2>2. call[t].f \in Func \ raced' /\ shown'[call[t].f] = shown[call[t].f]
    BY <2>1 DEF StepAt, Quiet
  <2>3. \A q \in Patcher : ~Busy(q, call[t].f)'
    BY <1>1, <2>1, <2>2 DEF Quiet
  <2>4. Passed(t)' <=> Passed(t)
    BY <2>1, <2>2 DEF Passed
  <2>. QED
    BY <2>1, <2>2, <2>3, <2>4 DEF Quiet
<1>4. DOMAIN stack' = Func /\ DOMAIN shown' = Func
  BY DEF StepAt
<1>5. \A g \in Func \ raced' : Orderly(g)'
  BY <1>2
<1>. QED
  BY <1>3, <1>4, <1>5 DEF OrderInv

-----------------------------------------------------------------------------
\* Who works at a function that nobody else works at, and on what.
LEMMA AtWork ==
  ASSUME IInv, OrderInv, NEW p \in Patcher, job[p].pc # "idle"
  PROVE  LET f == FuncOf[job[p].c] IN
         /\ job[p].c \in Ctx /\ f \in Func /\ Busy(p, f)
         /\ \A t \in Caller : call[t].quiet => call[t].f # f
         /\ f \notin raced =>
              /\ Orderly(f) /\ Working(p, f)
              /\ job[p].op \in {"install", "uninstall"}
              /\ \A q \in Patcher : q # p => ~Busy(q, f)
<1>1. job[p].c \in Ctx
  BY DEF IInv, TypeOK
<1>2. PICK f \in Func : f = FuncOf[job[p].c]
  BY <1>1, ThreadsAssumption
<1>3. Busy(p, f)
  BY <1>2 DEF Busy
<1>4. \A t \in Caller : call[t].quiet => call[t].f # f
  BY <1>3 DEF OrderInv, Quiet
<1>5. ASSUME f \notin raced
      PROVE  /\ Orderly(f) /\ Working(p, f)
             /\ \A q \in Patcher : q # p => ~Busy(q, f)
  BY <1>3, <1>5 DEF OrderInv, Orderly
<1>6. job[p].op \in {"none", "install", "uninstall"}
  BY DEF IInv, WriteInv, JobType
<1>7. f \notin raced => job[p].op \in {"install", "uninstall"}
  BY <1>5, <1>6 DEF Working
<1>. QED
  BY <1>1, <1>2, <1>3, <1>4, <1>5, <1>7

\* What is left to show of f when p is the only one there.
LEMMA OrderlyAgain ==
  ASSUME NEW p \in Patcher, NEW f \in Func, StepAt(p, f),
         \A q \in Patcher : q # p => ~Busy(q, f),
         Stacked(f, stack[f], shown[f], ctx)',
         Busy(p, f)' => Working(p, f)',
         ~Busy(p, f)' => code'[f] = Head1(f)'
  PROVE  Orderly(f)'
<1>1. \A q \in Patcher : q # p => ~Busy(q, f)'
  BY DEF StepAt, Busy
<1>. QED
  BY <1>1 DEF Orderly

\* A step that leaves everything alone but the work of p.
LEMMA OwnStep ==
  ASSUME IInv, OrderInv, NEW p \in Patcher, job[p].pc # "idle",
         NEW f, f = FuncOf[job[p].c],
         \A q \in Patcher : q # p => job'[q] = job[q],
         job'[p].pc = "idle" \/ job'[p].c = job[p].c,
         call' = call, raced \subseteq raced', raced' \subseteq raced \cup {f},
         \A d \in Ctx : d # job[p].c => ctx'[d] = ctx[d],
         \A g \in Func \ {f} :
           stack'[g] = stack[g] /\ shown'[g] = shown[g] /\ code'[g] = code[g],
         DOMAIN stack' = Func /\ DOMAIN shown' = Func
  PROVE  StepAt(p, f) /\ CallType'
<1>1. \A t \in Caller : call[t].quiet => call[t].f # f
  BY AtWork
<1>2. CallType'
  BY DEF OrderInv, CallType
<1>. QED
  BY <1>1, <1>2 DEF StepAt

\* The job a step leaves to p.
LEMMA NewJob ==
  ASSUME IInv, NEW p \in Patcher, NEW new, job' = [job EXCEPT ![p] = new]
  PROVE  job'[p] = new /\ \A q \in Patcher : q # p => job'[q] = job[q]
BY DEF IInv, WriteInv, JobType

\* Nobody else works at a function where no two patchers meet.
LEMMA BeginStep ==
  ASSUME IInv, OrderInv, NEW p \in Patcher, NEW c \in Ctx,
         BeginInstall(p, c) \/ BeginUninstall(p, c)
  PROVE  OrderInv'
<1>1. PICK f \in Func : f = FuncOf[c]
  BY ThreadsAssumption
<1>2. /\ job[p].pc = "idle"
      /\ raced' = IF BusyAt(f) # {} THEN raced \cup {f} ELSE raced
      /\ Disturb(f)
      /\ UNCHANGED <<code, stack, shown>>
  BY <1>1 DEF BeginInstall, BeginUninstall, Begin, At
<1>3. /\ \A q \in Patcher : q # p => job'[q] = job[q]
      /\ job'[p].c = c /\ job'[p].pc \in {"copy", "protect"}
      /\ BeginInstall(p, c) => job'[p].pc = "copy" /\ job'[p].op = "install"
      /\ BeginUninstall(p, c) => job'[p].pc = "protect" /\ job'[p].op = "uninstall"
  <2>1. ~(BeginInstall(p, c) /\ BeginUninstall(p, c))
    BY DEF BeginInstall, BeginUninstall
  <2>2. CASE BeginInstall(p, c)
    BY <2>1, <2>2 DEF BeginInstall, Begin, NoJob, IInv, WriteInv, JobType
  <2>3. CASE BeginUninstall(p, c)
    BY <2>1, <2>3 DEF BeginUninstall, Begin, NoJob, IInv, WriteInv, JobType
  <2>. QED
    BY <2>2, <2>3
<1>4. ASSUME NEW t \in Caller
      PROVE  /\ call'[t] \in CallRecord
             /\ call'[t].pc # "out" => call'[t].f \in Func
             /\ call'[t].quiet => call'[t] = call[t] /\ call[t].f # f
  <2>1. call[t] \in CallRecord /\ (call[t].pc # "out" => call[t].f \in Func)
    BY DEF OrderInv, CallType
  <2>2. /\ Disturbed(call[t]) \in CallRecord /\ ~Disturbed(call[t]).quiet
        /\ Disturbed(call[t]).pc = call[t].pc /\ Disturbed(call[t]).f = call[t].f
    <3>1. <<>> \in Seq(Ctx)
      OBVIOUS
    <3>. QED
      BY <2>1, <3>1 DEF Disturbed, CallRecord
  <2>3. call'[t] = IF call[t].f = f THEN Disturbed(call[t]) ELSE call[t]
    BY <1>2 DEF Disturb
  <2>. QED
    BY <2>1, <2>2, <2>3
<1>5. CallType'
  <2>1. DOMAIN call' = Caller /\ call' = [t \in Caller |-> call'[t]]
    BY <1>2 DEF Disturb
  <2>. QED
    BY <1>4, <2>1 DEF CallType
<1>6. ctx' = ctx \/ ctx' = [ctx EXCEPT ![c] = [Unused EXCEPT !.proxy = "zeros"]]
  BY DEF BeginInstall, BeginUninstall
<1>7. \A d \in Ctx : d # c => ctx'[d] = ctx[d]
  BY <1>6 DEF IInv, TypeOK
<1>8. StepAt(p, f)
  BY <1>1, <1>2, <1>3, <1>4, <1>7 DEF StepAt, OrderInv
<1>9. ASSUME f \notin raced' PROVE Orderly(f)'
  <2>1. f \notin raced /\ BusyAt(f) = {}
    BY <1>2, <1>9
  <2>2. /\ Orderly(f) /\ \A q \in Patcher : ~Busy(q, f)
        /\ code[f] = Head1(f) /\ Stacked(f, stack[f], shown[f], ctx)
    BY <2>1 DEF OrderInv, BusyAt, Busy, Orderly
  <2>3. CASE BeginInstall(p, c)
    <3>1. ~ctx[c].live
      BY <2>3 DEF BeginInstall
    <3>2. \A i \in 1 .. Len(stack[f]) : stack[f][i] # c /\ stack[f][i] \in Ctx
      BY <2>2, <3>1 DEF Stacked
    <3>3. Stacked(f, stack[f], shown[f], ctx')
      BY <1>7, <2>2, <3>2, StackedKept
    <3>4. Working(p, f)'
      BY <1>2, <1>3, <2>2, <2>3, <3>2 DEF Working, Installing, Head1
    <3>. QED
      BY <1>2, <1>3, <1>8, <2>2, <3>3, <3>4, OrderlyAgain DEF Busy, Head1
  <2>4. CASE BeginUninstall(p, c)
    <3>1. ctx' = ctx /\ stack[f] # <<>> /\ stack[f][Len(stack[f])] = c
      BY <1>1, <2>4 DEF BeginUninstall, Last
    <3>2. Working(p, f)'
      BY <1>2, <1>3, <2>2, <2>4, <3>1 DEF Working, Removing, Head1
    <3>. QED
      BY <1>1, <1>2, <1>3, <1>8, <2>2, <3>1, <3>2, OrderlyAgain DEF Busy
  <2>. QED
    BY <2>3, <2>4
<1>. QED
  BY <1>5, <1>8, <1>9, Elsewhere

\* The head is copied and saved while nobody changes it.
LEMMA CopySaveStep ==
  ASSUME IInv, OrderInv, NEW p \in Patcher, CopyHead(p) \/ SaveHead(p)
  PROVE  OrderInv'
<1>1. PICK c \in Ctx, f \in Func : c = job[p].c /\ f = FuncOf[c]
  BY AtWork DEF CopyHead, SaveHead, At
<1>2. /\ job[p].pc \in {"copy", "save"}
      /\ UNCHANGED <<code, call, stack, shown, raced>>
  BY DEF CopyHead, SaveHead, At, history
<1>3. PICK pc \in {"save", "protect"} :
        /\ job' = [job EXCEPT ![p] = [job[p] EXCEPT !.pc = pc]]
        /\ CopyHead(p) => job[p].pc = "copy" /\ pc = "save"
        /\ SaveHead(p) => job[p].pc = "save" /\ pc = "protect"
  BY DEF CopyHead, SaveHead, Goto, At
<1>4. ctx[c] \in [live : BOOLEAN, saved : [Halves -> Ctx \cup {NoCtx}], proxy : Ctx \cup Special]
  BY DEF IInv, TypeOK
<1>5. /\ \A d \in Ctx : d # c => ctx'[d] = ctx[d]
      /\ CopyHead(p) => ctx'[c] = [ctx[c] EXCEPT !.proxy = Leads(code[f]), !.live = TRUE]
      /\ SaveHead(p) => ctx'[c] = [ctx[c] EXCEPT !.saved = code[f]]
  <2>1. CASE CopyHead(p)
    <3>1. ctx' = [ctx EXCEPT ![c] = [ctx[c] EXCEPT !.proxy = Leads(code[f]), !.live = TRUE]]
      BY <1>1, <2>1 DEF CopyHead
    <3>2. ~SaveHead(p)
      BY <2>1 DEF CopyHead, SaveHead, At
    <3>. QED
      BY <3>1, <3>2 DEF IInv, TypeOK
  <2>2. CASE SaveHead(p)
    <3>1. ctx' = [ctx EXCEPT ![c] = [ctx[c] EXCEPT !.saved = code[f]]]
      BY <1>1, <2>2 DEF SaveHead
    <3>2. ~CopyHead(p)
      BY <2>2 DEF CopyHead, SaveHead, At
    <3>. QED
      BY <3>1, <3>2 DEF IInv, TypeOK
  <2>. QED
    BY <2>1, <2>2
<1>7. job[p] \in [pc : Pc, c : Ctx \cup {NoCtx}, op : {"none", "install", "uninstall"},
                  todo : SUBSET Halves, old : Protection]
  BY DEF IInv, WriteInv, JobType
<1>6. /\ StepAt(p, f) /\ CallType'
      /\ job'[p] = [job[p] EXCEPT !.pc = pc]
  <2>1. /\ job'[p] = [job[p] EXCEPT !.pc = pc]
        /\ \A q \in Patcher : q # p => job'[q] = job[q]
    BY <1>3, NewJob
  <2>2. job'[p].c = job[p].c
    BY <1>7, <2>1
  <2>3. job[p].pc # "idle" /\ \A d \in Ctx : d # job[p].c => ctx'[d] = ctx[d]
    BY <1>1, <1>2, <1>5
  <2>4. UNCHANGED <<code, call, stack, shown, raced>> /\ DOMAIN stack = Func /\ DOMAIN shown = Func
    BY <1>2 DEF OrderInv
  <2>. QED
    BY <1>1, <2>1, <2>2, <2>3, <2>4, OwnStep
<1>8. ASSUME f \notin raced' PROVE Orderly(f)'
  <2>1. /\ Orderly(f) /\ Working(p, f) /\ job[p].op = "install" /\ Installing(p, f)
        /\ \A q \in Patcher : q # p => ~Busy(q, f)
    BY <1>1, <1>2, <1>8, AtWork DEF Working, Removing
  <2>2. code[f] = Head1(f) /\ code' = code /\ Head1(f)' = Head1(f)
    BY <1>2, <2>1 DEF Working, Head1
  <2>3. \A i \in 1 .. Len(stack[f]) : stack[f][i] # c /\ stack[f][i] \in Ctx
    <3>1. stack[f] \in Seq(Ctx)
      BY <2>1 DEF Orderly, Stacked
    <3>. QED
      BY <1>1, <2>1, <3>1 DEF Installing
  <2>4. Stacked(f, stack[f], shown[f], ctx')
    BY <1>5, <2>1, <2>3, StackedKept, SMTT(30) DEF Orderly
  <2>5. /\ job'[p].pc = pc /\ job'[p].op = "install" /\ job'[p].c = c
    BY <1>1, <1>6, <1>7, <2>1
  <2>6. /\ ctx'[c].live /\ ctx'[c].proxy = Leads(Head1(f))
        /\ pc = "protect" => ctx'[c].saved = Head1(f)
    <3>1. job[p].pc = "save" => ctx[c].live /\ ctx[c].proxy = Leads(Head1(f))
      BY <1>1, <2>1 DEF Installing
    <3>2. CASE CopyHead(p)
      BY <1>3, <1>4, <1>5, <2>2, <3>2
    <3>3. CASE SaveHead(p)
      BY <1>3, <1>4, <1>5, <2>2, <3>1, <3>3
    <3>. QED
      BY <3>2, <3>3
  <2>7. Working(p, f)'
    BY <1>2, <2>2, <2>3, <2>5, <2>6 DEF Working, Installing
  <2>8. Stacked(f, stack[f], shown[f], ctx)'
    BY <1>2, <2>4
  <2>. QED
    BY <1>1, <1>6, <2>1, <2>5, <2>7, <2>8, OrderlyAgain DEF Busy
<1>. QED
  BY <1>6, <1>8, Elsewhere

\* An install that is given up leaves the function as it was.
LEMMA CopyTooShortStep ==
  ASSUME IInv, OrderInv, NEW p \in Patcher, CopyTooShort(p)
  PROVE  OrderInv'
<1>1. PICK c \in Ctx, f \in Func : c = job[p].c /\ f = FuncOf[c] /\ f = FuncOf[job[p].c]
  BY AtWork DEF CopyTooShort, At
<1>2. /\ job[p].pc = "copy"
      /\ UNCHANGED <<code, call, stack, shown, raced>>
      /\ ctx' = [ctx EXCEPT ![c] = Unused]
      /\ job' = [job EXCEPT ![p] = NoJob]
  BY <1>1 DEF CopyTooShort, At, history
<1>3. /\ job'[p].pc = "idle" /\ \A q \in Patcher : q # p => job'[q] = job[q]
  <2>1. job'[p] = NoJob /\ \A q \in Patcher : q # p => job'[q] = job[q]
    BY <1>2, NewJob
  <2>. QED
    BY <2>1 DEF NoJob
<1>4. \A d \in Ctx : d # c => ctx'[d] = ctx[d]
  BY <1>2 DEF IInv, TypeOK
<1>5. StepAt(p, f) /\ CallType'
  <2>1. UNCHANGED <<code, call, stack, shown, raced>> /\ job[p].pc # "idle"
        /\ DOMAIN stack = Func /\ DOMAIN shown = Func
    BY <1>2 DEF OrderInv
  <2>. QED
    BY <1>1, <1>3, <1>4, <2>1, OwnStep
<1>6. ASSUME f \notin raced' PROVE Orderly(f)'
  <2>1. /\ Orderly(f) /\ Working(p, f) /\ job[p].op = "install" /\ Installing(p, f)
        /\ \A q \in Patcher : q # p => ~Busy(q, f)
    BY <1>1, <1>2, <1>6, AtWork DEF Working, Removing
  <2>2. code[f] = Head1(f) /\ code' = code /\ Head1(f)' = Head1(f)
    BY <1>2, <2>1 DEF Working, Head1
  <2>3. \A i \in 1 .. Len(stack[f]) : stack[f][i] # c /\ stack[f][i] \in Ctx
    <3>1. stack[f] \in Seq(Ctx)
      BY <2>1 DEF Orderly, Stacked
    <3>. QED
      BY <1>1, <2>1, <3>1 DEF Installing
  <2>4. Stacked(f, stack[f], shown[f], ctx')
    BY <1>4, <2>1, <2>3, StackedKept, SMTT(30) DEF Orderly
  <2>5. Stacked(f, stack[f], shown[f], ctx)'
    BY <1>2, <2>4
  <2>6. code'[f] = Head1(f)'
    BY <2>2
  <2>. QED
    BY <1>3, <1>5, <2>1, <2>5, <2>6, OrderlyAgain DEF Busy
<1>. QED
  BY <1>5, <1>6, Elsewhere

\* The page is opened.
LEMMA OpenStep ==
  ASSUME IInv, OrderInv, NEW p \in Patcher, Protect(p)
  PROVE  OrderInv'
<1>1. PICK c \in Ctx, f \in Func : c = job[p].c /\ f = FuncOf[c]
  BY AtWork DEF Protect, At
<1>2. /\ job[p].pc = "protect"
      /\ UNCHANGED <<code, ctx, call, stack, shown, raced>>
      /\ job' = [job EXCEPT ![p] = [job[p] EXCEPT !.pc = "write", !.todo = Halves, !.old = prot]]
  BY DEF Protect, At
<1>4. job[p] \in [pc : Pc, c : Ctx \cup {NoCtx}, op : {"none", "install", "uninstall"},
                  todo : SUBSET Halves, old : Protection]
  BY DEF IInv, WriteInv, JobType
<1>3. /\ StepAt(p, f) /\ CallType'
      /\ job'[p] = [job[p] EXCEPT !.pc = "write", !.todo = Halves, !.old = prot]
  <2>1. /\ job'[p] = [job[p] EXCEPT !.pc = "write", !.todo = Halves, !.old = prot]
        /\ \A q \in Patcher : q # p => job'[q] = job[q]
    BY <1>2, NewJob
  <2>2. job'[p].c = job[p].c
    BY <1>4, <2>1
  <2>3. job[p].pc # "idle" /\ \A d \in Ctx : d # job[p].c => ctx'[d] = ctx[d]
    BY <1>1, <1>2
  <2>4. UNCHANGED <<code, call, stack, shown, raced>> /\ DOMAIN stack = Func /\ DOMAIN shown = Func
    BY <1>2 DEF OrderInv
  <2>. QED
    BY <1>1, <2>1, <2>2, <2>3, <2>4, OwnStep
<1>5. job'[p].pc = "write" /\ job'[p].todo = Halves /\ job'[p].op = job[p].op /\ job'[p].c = c
  BY <1>1, <1>3, <1>4
<1>6. ASSUME f \notin raced' PROVE Orderly(f)'
  <2>1. /\ Orderly(f) /\ Working(p, f)
        /\ \A q \in Patcher : q # p => ~Busy(q, f)
    BY <1>1, <1>2, <1>6, AtWork
  <2>2. Head1(f)' = Head1(f) /\ code'[f] = Head1(f)
    BY <1>2, <2>1 DEF Head1, Working
  <2>3. HalfWritten(p, f)'
    BY <1>5, <2>2 DEF HalfWritten
  <2>4. Working(p, f)'
    BY <1>1, <1>2, <1>5, <2>1, <2>2, <2>3, ZenonT(20) DEF Working, Installing, Removing
  <2>5. Stacked(f, stack[f], shown[f], ctx)'
    BY <1>2, <2>1 DEF Orderly
  <2>. QED
    BY <1>1, <1>3, <1>5, <2>1, <2>4, <2>5, OrderlyAgain DEF Busy
<1>. QED
  BY <1>3, <1>6, Elsewhere

\* What a job is at the end of an install, and between the write of a removal
\* and the memset.
LEMMA FinishedJob ==
  ASSUME IInv, NEW p \in Patcher, Finish(p)
  PROVE  /\ \A q \in Patcher : q # p => job'[q] = job[q]
         /\ job[p].op = "install" => job'[p].pc = "idle"
         /\ job[p].op # "install" =>
              job'[p].pc = "clear" /\ job'[p].c = job[p].c /\ job'[p].op = job[p].op
<1>1. job[p] \in [pc : Pc, c : Ctx \cup {NoCtx}, op : {"none", "install", "uninstall"},
                  todo : SUBSET Halves, old : Protection]
  BY DEF IInv, WriteInv, JobType
<1>2. CASE job[p].op = "install"
  <2>1. job' = [job EXCEPT ![p] = NoJob]
    BY <1>2 DEF Finish
  <2>2. job'[p] = NoJob /\ \A q \in Patcher : q # p => job'[q] = job[q]
    BY <2>1, NewJob
  <2>. QED
    BY <1>2, <2>2 DEF NoJob
<1>3. CASE job[p].op # "install"
  <2>1. job' = [job EXCEPT ![p] = [job[p] EXCEPT !.pc = "clear", !.old = "rx"]]
    BY <1>3 DEF Finish
  <2>2. job'[p] = [job[p] EXCEPT !.pc = "clear", !.old = "rx"] /\ \A q \in Patcher : q # p => job'[q] = job[q]
    BY <2>1, NewJob
  <2>. QED
    BY <1>1, <1>3, <2>2
<1>. QED
  BY <1>2, <1>3

\* A patch that is refused leaves the code as it was.
LEMMA DeniedStep ==
  ASSUME IInv, OrderInv, NEW p \in Patcher, ProtectDenied(p)
  PROVE  OrderInv'
<1>1. PICK c \in Ctx, f \in Func : c = job[p].c /\ f = FuncOf[c] /\ f = FuncOf[job[p].c]
  BY AtWork DEF ProtectDenied, At
<1>2. /\ job[p].pc = "protect" /\ Finish(p)
      /\ UNCHANGED <<code, ctx, call, shown>>
      /\ raced' = IF job[p].op = "uninstall" /\ c \in Range(shown[f])
                    THEN raced \cup {f} ELSE raced
  BY <1>1 DEF ProtectDenied, At
<1>3. stack' = IF job[p].op = "install" THEN [stack EXCEPT ![f] = Append(stack[f], c)] ELSE stack
  BY <1>1, <1>2 DEF Finish
<1>4. StepAt(p, f) /\ CallType'
  <2>1. \A g \in Func \ {f} : stack'[g] = stack[g]
    BY <1>3 DEF OrderInv
  <2>2. DOMAIN stack' = Func /\ DOMAIN shown' = Func
    BY <1>2, <1>3 DEF OrderInv
  <2>3. /\ \A q \in Patcher : q # p => job'[q] = job[q]
        /\ job'[p].pc = "idle" \/ job'[p].c = job[p].c
    BY <1>2, FinishedJob
  <2>4. raced \subseteq raced' /\ raced' \subseteq raced \cup {f}
    BY <1>2
  <2>. QED
    BY <1>1, <1>2, <2>1, <2>2, <2>3, <2>4, OwnStep
<1>5. ASSUME f \notin raced' PROVE Orderly(f)'
  <2>1. /\ Orderly(f) /\ Working(p, f) /\ job[p].op \in {"install", "uninstall"}
        /\ \A q \in Patcher : q # p => ~Busy(q, f)
    BY <1>1, <1>2, <1>5, AtWork
  <2>2. Head1(f)' = Head1(f) /\ code'[f] = Head1(f)
    BY <1>2, <2>1 DEF Head1, Working
  <2>3. Stacked(f, stack[f], shown[f], ctx)
    BY <2>1 DEF Orderly
  <2>4. CASE job[p].op = "install"
    <3>1. job'[p].pc = "idle" /\ stack'[f] = Append(stack[f], c)
      BY <1>2, <1>3, <2>4, FinishedJob DEF OrderInv
    <3>2. /\ \A i \in 1 .. Len(stack[f]) : stack[f][i] # c
          /\ ctx[c].live /\ ctx[c].saved = Below(shown[f], 1) /\ ctx[c].proxy = Leads(ctx[c].saved)
      BY <1>1, <1>2, <2>1, <2>4 DEF Working, Installing, Head1
    <3>3. Stacked(f, Append(stack[f], c), shown[f], ctx)
      BY <1>1, <2>3, <3>2, StackedPushed
    <3>4. Stacked(f, stack[f], shown[f], ctx)'
      BY <1>2, <3>1, <3>3
    <3>. QED
      BY <1>4, <2>1, <2>2, <3>1, <3>4, OrderlyAgain DEF Busy
  <2>5. CASE job[p].op = "uninstall"
    <3>1. job'[p].pc = "clear" /\ job'[p].c = c /\ job'[p].op = "uninstall" /\ stack' = stack
      BY <1>1, <1>2, <1>3, <2>5, FinishedJob
    <3>2. stack[f] # <<>> /\ stack[f][Len(stack[f])] = c
      BY <1>1, <2>1, <2>5 DEF Working, Removing
    <3>3. ~Shows(shown[f], c)
      BY <1>2, <1>5, <2>3, <2>5 DEF Stacked, Shows, Range
    <3>4. Head1(f) = ctx[c].saved
      <4>1. stack[f] \in Seq(Ctx) /\ After(stack[f], shown[f], ctx, Len(stack[f])) = Head1(f)
        BY <2>3 DEF Stacked, Head1
      <4>2. Len(stack[f]) # 0 /\ Len(stack[f]) \in 1 .. Len(stack[f])
        BY <3>2, <4>1
      <4>3. Head1(f) = ctx[stack[f][Len(stack[f])]].saved
        BY <3>2, <3>3, <4>1, <4>2 DEF After
      <4>4. \A i \in 1 .. Len(stack[f]) : ctx[stack[f][i]].saved = After(stack[f], shown[f], ctx, i - 1)
        BY <2>3 DEF Stacked
      <4>. QED
        BY <3>2, <4>3
    <3>5. Working(p, f)'
      BY <1>2, <2>2, <3>1, <3>2, <3>4 DEF Working, Removing
    <3>6. Stacked(f, stack[f], shown[f], ctx)'
      BY <1>2, <2>3, <3>1
    <3>. QED
      BY <1>1, <1>4, <2>1, <3>1, <3>5, <3>6, OrderlyAgain DEF Busy
  <2>. QED
    BY <2>1, <2>4, <2>5
<1>. QED
  BY <1>4, <1>5, Elsewhere

\* One half of the patch is written, or the process ends.
LEMMA HalfStep ==
  ASSUME IInv, OrderInv, NEW p \in Patcher, NEW h \in Halves, WriteHalf(p, h)
  PROVE  OrderInv'
<1>1. PICK c \in Ctx, f \in Func : c = job[p].c /\ f = FuncOf[c] /\ f = FuncOf[job[p].c]
  BY AtWork DEF WriteHalf, At
<1>2. /\ job[p].pc = "write" /\ h \in job[p].todo
      /\ UNCHANGED <<prot, ctx, call, stack, shown, raced>>
  BY DEF WriteHalf, At, history
<1>3. job[p] \in [pc : Pc, c : Ctx \cup {NoCtx}, op : {"none", "install", "uninstall"},
                  todo : SUBSET Halves, old : Protection]
  BY DEF IInv, WriteInv, JobType
<1>4. /\ \A q \in Patcher : q # p => job'[q] = job[q]
      /\ job'[p].c = c /\ job'[p].op = job[p].op
      /\ \/ /\ job'[p].pc = "fault" /\ code' = code
         \/ /\ job'[p].pc \in {"write", "restore"}
            /\ job'[p].todo = job[p].todo \ {h}
            /\ job'[p].pc = "restore" => job'[p].todo = {}
            /\ code' = [code EXCEPT ![f] = [code[f] EXCEPT ![h] = PatchBytes(p)[h]]]
  <2>1. CASE prot = "rwx"
    <3>. DEFINE next == IF job[p].todo = {h} THEN "restore" ELSE "write"
                rest == job[p].todo \ {h}
    <3>1. job' = [job EXCEPT ![p].todo = rest, ![p].pc = next]
      BY <2>1 DEF WriteHalf
    <3>2. next \in {"write", "restore"} /\ (next = "restore" => rest = {})
      OBVIOUS
    <3>3. code' = [code EXCEPT ![f] = [code[f] EXCEPT ![h] = PatchBytes(p)[h]]]
      BY <1>1, <2>1 DEF WriteHalf
    <3>. HIDE DEF next, rest
    <3>4. /\ \A q \in Patcher : q # p => job'[q] = job[q]
          /\ job'[p].pc = next /\ job'[p].todo = rest
          /\ job'[p].c = job[p].c /\ job'[p].op = job[p].op
      BY <1>3, <3>1 DEF IInv, WriteInv, JobType
    <3>. QED
      BY <1>1, <3>2, <3>3, <3>4 DEF rest
  <2>2. CASE prot # "rwx"
    <3>1. job' = [job EXCEPT ![p].pc = "fault"] /\ code' = code
      BY <2>2 DEF WriteHalf, Goto
    <3>. QED
      BY <1>1, <1>3, <3>1 DEF IInv, WriteInv, JobType
  <2>. QED
    BY <2>1, <2>2
<1>5. StepAt(p, f) /\ CallType'
  <2>1. \A g \in Func \ {f} : code'[g] = code[g]
    BY <1>4 DEF IInv, TypeOK
  <2>2. DOMAIN stack' = Func /\ DOMAIN shown' = Func
    BY <1>2 DEF OrderInv
  <2>. QED
    BY <1>1, <1>2, <1>4, <2>1, <2>2, OwnStep
<1>6. ASSUME f \notin raced' PROVE Orderly(f)'
  <2>1. /\ Orderly(f) /\ Working(p, f)
        /\ \A q \in Patcher : q # p => ~Busy(q, f)
    BY <1>1, <1>2, <1>6, AtWork
  <2>2. Head1(f)' = Head1(f)
    BY <1>2 DEF Head1
  <2>3. PatchBytes(p)' = PatchBytes(p)
    BY <1>1, <1>2, <1>4 DEF PatchBytes
  <2>4. HalfWritten(p, f)' \/ job'[p].pc = "fault"
    <3>1. ASSUME code' = [code EXCEPT ![f] = [code[f] EXCEPT ![h] = PatchBytes(p)[h]]],
                 job'[p].todo = job[p].todo \ {h}
          PROVE  HalfWritten(p, f)'
      <4>1. HalfWritten(p, f)
        BY <1>2, <2>1 DEF Working
      <4>2. \A k \in Halves : code'[f][k] = IF k = h THEN PatchBytes(p)[h] ELSE code[f][k]
        BY <3>1 DEF IInv, TypeOK
      <4>3. ASSUME NEW k \in Halves
            PROVE  code'[f][k] = IF k \in job'[p].todo THEN Head1(f)[k] ELSE PatchBytes(p)[k]
        BY <3>1, <4>1, <4>2 DEF HalfWritten
      <4>. QED
        BY <2>2, <2>3, <4>3 DEF HalfWritten
    <3>. QED
      BY <1>4, <3>1
  <2>5. Working(p, f)'
    <3>1. job'[p].pc \in {"write", "restore", "fault"} /\ (job'[p].pc = "restore" => job'[p].todo = {})
      BY <1>4
    <3>2. job'[p].pc \notin {"copy", "save", "protect", "clear"}
      BY <3>1
    <3>3. ASSUME job[p].op = "install" PROVE Installing(p, f)'
      <4>1. Installing(p, f)
        BY <2>1, <3>3 DEF Working
      <4>2. job'[p].c = job[p].c /\ job'[p].op = job[p].op /\ job'[p].pc \notin {"copy", "save", "clear"}
        BY <1>1, <1>4, <3>2
      <4>3. /\ \A i \in 1 .. Len(stack[f]) : stack[f][i] # job[p].c
            /\ ctx[job[p].c].live /\ ctx[job[p].c].proxy = Leads(Head1(f))
            /\ ctx[job[p].c].saved = Head1(f)
        BY <1>2, <3>3, <4>1 DEF Installing
      <4>4. stack' = stack /\ ctx' = ctx
        BY <1>2
      <4>. QED
        BY <2>2, <4>2, <4>3, <4>4 DEF Installing
    <3>4. job[p].op = "uninstall" => Removing(p, f)'
      <4>1. job[p].op = "uninstall" => Removing(p, f)
        BY <2>1 DEF Working
      <4>. QED
        BY <1>1, <1>2, <1>4, <3>2, <4>1 DEF Removing
    <3>. QED
      BY <1>4, <2>1, <2>4, <3>1, <3>2, <3>3, <3>4 DEF Working
  <2>6. Stacked(f, stack[f], shown[f], ctx)'
    BY <1>2, <2>1 DEF Orderly
  <2>7. Busy(p, f)'
    <3>1. job'[p].pc # "idle"
      BY <1>4
    <3>. QED
      BY <1>1, <1>4, <3>1 DEF Busy
  <2>. QED
    BY <1>5, <2>1, <2>5, <2>6, <2>7, OrderlyAgain
<1>. QED
  BY <1>5, <1>6, Elsewhere

\* The whole patch is in the code when port_write_memory returns.
LEMMA PatchWritten ==
  ASSUME IInv, NEW p \in Patcher, NEW f \in Func, job[p].c \in Ctx,
         Working(p, f), job[p].pc = "restore"
  PROVE  code[f] = PatchBytes(p)
<1>1. \A h \in Halves : code[f][h] = PatchBytes(p)[h]
  BY DEF Working, HalfWritten
<1>2. code[f] \in [Halves -> Ctx \cup {NoCtx}]
  BY DEF IInv, TypeOK
<1>3. PatchBytes(p) \in [Halves -> Ctx \cup {NoCtx}]
  BY ValueTypes DEF PatchBytes, IInv, TypeOK
<1>. QED
  BY <1>1, <1>2, <1>3

\* An install is over: its jump is shown.  A removal has its bytes back.
LEMMA ReturnStep ==
  ASSUME IInv, OrderInv, NEW p \in Patcher, Restore(p)
  PROVE  OrderInv'
<1>1. PICK c \in Ctx, f \in Func : c = job[p].c /\ f = FuncOf[c] /\ f = FuncOf[job[p].c]
  BY AtWork DEF Restore, At
<1>2. /\ job[p].pc = "restore" /\ Finish(p)
      /\ UNCHANGED <<code, ctx, call, raced>>
      /\ shown' = IF job[p].op = "install" THEN [shown EXCEPT ![f] = <<c>> \o shown[f]] ELSE shown
  BY <1>1 DEF Restore, At
<1>3. stack' = IF job[p].op = "install" THEN [stack EXCEPT ![f] = Append(stack[f], c)] ELSE stack
  BY <1>1, <1>2 DEF Finish
<1>4. StepAt(p, f) /\ CallType'
  <2>1. \A g \in Func \ {f} : stack'[g] = stack[g] /\ shown'[g] = shown[g]
    BY <1>2, <1>3 DEF OrderInv
  <2>2. DOMAIN stack' = Func /\ DOMAIN shown' = Func
    BY <1>2, <1>3 DEF OrderInv
  <2>3. /\ \A q \in Patcher : q # p => job'[q] = job[q]
        /\ job'[p].pc = "idle" \/ job'[p].c = job[p].c
    BY <1>2, FinishedJob
  <2>4. UNCHANGED <<code, ctx, call, raced>> /\ job[p].pc # "idle"
    BY <1>2
  <2>. QED
    BY <1>1, <2>1, <2>2, <2>3, <2>4, OwnStep
<1>5. ASSUME f \notin raced' PROVE Orderly(f)'
  <2>1. /\ Orderly(f) /\ Working(p, f) /\ job[p].op \in {"install", "uninstall"}
        /\ \A q \in Patcher : q # p => ~Busy(q, f)
    BY <1>1, <1>2, <1>5, AtWork
  <2>2. code'[f] = PatchBytes(p)
    BY <1>1, <1>2, <2>1, PatchWritten
  <2>3. Stacked(f, stack[f], shown[f], ctx)
    BY <2>1 DEF Orderly
  <2>4. CASE job[p].op = "install"
    <3>1. /\ job'[p].pc = "idle" /\ stack'[f] = Append(stack[f], c)
          /\ shown'[f] = <<c>> \o shown[f]
      BY <1>2, <1>3, <2>4, FinishedJob DEF OrderInv
    <3>2. /\ \A i \in 1 .. Len(stack[f]) : stack[f][i] # c
          /\ ctx[c].live /\ ctx[c].saved = Below(shown[f], 1) /\ ctx[c].proxy = Leads(ctx[c].saved)
      BY <1>1, <1>2, <2>1, <2>4 DEF Working, Installing, Head1
    <3>3. Stacked(f, Append(stack[f], c), <<c>> \o shown[f], ctx)
      BY <1>1, <2>3, <3>2, StackedPushed
    <3>4. Stacked(f, stack[f], shown[f], ctx)'
      BY <1>2, <3>1, <3>3
    <3>5. code'[f] = Jump(c)
      BY <1>1, <2>2, <2>4 DEF PatchBytes
    <3>6. Head1(f)' = Jump(c)
      <4>1. shown[f] \in Seq(Ctx)
        BY <2>3 DEF Stacked
      <4>2. 1 <= Len(<<c>> \o shown[f]) /\ (<<c>> \o shown[f])[1] = c
        BY <4>1
      <4>. QED
        BY <3>1, <4>2 DEF Head1, Below
    <3>. QED
      BY <1>4, <2>1, <3>1, <3>4, <3>5, <3>6, OrderlyAgain DEF Busy
  <2>5. CASE job[p].op = "uninstall"
    <3>1. /\ job'[p].pc = "clear" /\ job'[p].c = c /\ job'[p].op = "uninstall"
          /\ stack' = stack /\ shown' = shown
      BY <1>1, <1>2, <1>3, <2>5, FinishedJob
    <3>2. stack[f] # <<>> /\ stack[f][Len(stack[f])] = c
      BY <1>1, <2>1, <2>5 DEF Working, Removing
    <3>3. code'[f] = ctx[c].saved
      BY <1>1, <2>2, <2>5 DEF PatchBytes
    <3>4. Working(p, f)'
      BY <1>2, <3>1, <3>2, <3>3 DEF Working, Removing
    <3>5. Stacked(f, stack[f], shown[f], ctx)'
      BY <1>2, <2>3, <3>1
    <3>. QED
      BY <1>1, <1>4, <2>1, <3>1, <3>4, <3>5, OrderlyAgain DEF Busy
  <2>. QED
    BY <2>1, <2>4, <2>5
<1>. QED
  BY <1>4, <1>5, Elsewhere

\* The context of a removal is cleared.
LEMMA ClearStep ==
  ASSUME IInv, OrderInv, NEW p \in Patcher, Clear(p)
  PROVE  OrderInv'
<1>1. PICK c \in Ctx, f \in Func : c = job[p].c /\ f = FuncOf[c] /\ f = FuncOf[job[p].c]
  BY AtWork DEF Clear, At
<1>. DEFINE rest == IF shown[f] # <<>> /\ Head(shown[f]) = c THEN Tail(shown[f]) ELSE shown[f]
<1>2. /\ job[p].pc = "clear"
      /\ UNCHANGED <<code, call, raced>>
      /\ ctx' = [ctx EXCEPT ![c] = Unused]
      /\ job' = [job EXCEPT ![p] = NoJob]
      /\ stack' = [stack EXCEPT ![f] = Without(stack[f], c)]
      /\ shown' = [shown EXCEPT ![f] = rest]
  BY <1>1 DEF Clear, At
<1>3. /\ job'[p].pc = "idle" /\ \A q \in Patcher : q # p => job'[q] = job[q]
  <2>1. job'[p] = NoJob /\ \A q \in Patcher : q # p => job'[q] = job[q]
    BY <1>2, NewJob
  <2>. QED
    BY <2>1 DEF NoJob
<1>4. \A d \in Ctx : d # c => ctx'[d] = ctx[d]
  BY <1>2 DEF IInv, TypeOK
<1>5. /\ DOMAIN stack' = Func /\ DOMAIN shown' = Func
      /\ stack'[f] = Without(stack[f], c) /\ shown'[f] = rest
      /\ \A g \in Func \ {f} : stack'[g] = stack[g] /\ shown'[g] = shown[g]
  BY <1>2 DEF OrderInv
<1>6. StepAt(p, f) /\ CallType'
  <2>1. UNCHANGED <<code, call, raced>> /\ job[p].pc # "idle"
    BY <1>2
  <2>. QED
    BY <1>1, <1>3, <1>4, <1>5, <2>1, OwnStep
<1>7. ASSUME f \notin raced' PROVE Orderly(f)'
  <2>1. /\ Orderly(f) /\ Working(p, f) /\ job[p].op = "uninstall" /\ Removing(p, f)
        /\ \A q \in Patcher : q # p => ~Busy(q, f)
    BY <1>1, <1>2, <1>7, AtWork DEF Working, Installing
  <2>2. /\ stack[f] # <<>> /\ c = stack[f][Len(stack[f])] /\ code[f] = ctx[c].saved
        /\ Stacked(f, stack[f], shown[f], ctx)
    BY <1>1, <1>2, <2>1 DEF Removing, Orderly
  <2>3. /\ Stacked(f, Without(stack[f], c), rest, ctx)
        /\ Below(rest, 1) = ctx[c].saved
        /\ \A i \in 1 .. Len(Without(stack[f], c)) : Without(stack[f], c)[i] # c
    BY <2>2, StackedPopped
  <2>. HIDE DEF rest
  <2>4. \A i \in 1 .. Len(Without(stack[f], c)) : Without(stack[f], c)[i] \in Ctx
    BY <2>3 DEF Stacked
  <2>5. Stacked(f, Without(stack[f], c), rest, ctx')
    BY <1>4, <2>3, <2>4, StackedKept
  <2>6. Stacked(f, stack[f], shown[f], ctx)'
    BY <1>5, <2>5
  <2>7. code'[f] = Head1(f)'
    BY <1>2, <1>5, <2>2, <2>3 DEF Head1
  <2>. QED
    BY <1>3, <1>6, <2>1, <2>6, <2>7, OrderlyAgain DEF Busy
<1>. QED
  BY <1>6, <1>7, Elsewhere

-----------------------------------------------------------------------------
\* Where the proxy of a context leads whose jump is shown.
LEMMA ProxyLeads ==
  ASSUME NEW f, NEW s, NEW h, NEW w, Stacked(f, s, h, w), NEW i \in 1 .. Len(h)
  PROVE  w[h[i]].proxy = IF i = Len(h) THEN "body" ELSE h[i + 1]
<1>1. PICK m \in Nat : m = Len(h) /\ h \in Seq(Ctx)
  BY DEF Stacked
<1>2. w[h[i]].proxy = Leads(w[h[i]].saved)
  BY DEF Stacked
<1>3. w[h[i]].saved = Below(h, i + 1)
  BY DEF Stacked
<1>4. CASE i = m
  <2>1. Below(h, i + 1) = Original
    BY <1>1, <1>4 DEF Below
  <2>2. Leads(Original) = "body"
    BY DEF Leads, Original
  <2>. QED
    BY <1>1, <1>2, <1>3, <1>4, <2>1, <2>2
<1>5. CASE i # m
  <2>1. Below(h, i + 1) = Jump(h[i + 1]) /\ h[i + 1] \in Ctx
    BY <1>1, <1>5 DEF Below
  <2>2. h[i + 1] # NoCtx
    BY <2>1, ThreadsAssumption
  <2>3. Leads(Jump(h[i + 1])) = h[i + 1]
    BY <2>2 DEF Leads, Jump, Original
  <2>. QED
    BY <1>1, <1>2, <1>3, <1>5, <2>1, <2>3
<1>. QED
  BY <1>4, <1>5

\* A step of a caller changes its call and nothing else.
LEMMA CallerOnly ==
  ASSUME IInv, OrderInv, NEW t \in Caller,
         UNCHANGED <<code, prot, ctx, job, faults, history>>,
         call' = [call EXCEPT ![t] = call'[t]],
         call'[t] \in CallRecord, call'[t].pc # "out" => call'[t].f \in Func,
         call'[t].quiet => Quiet(t)'
  PROVE  OrderInv'
<1>1. UNCHANGED <<code, ctx, job, stack, shown, raced>>
  BY DEF history
<1>2. \A u \in Caller : u # t => call'[u] = call[u]
  BY DEF OrderInv, CallType
<1>3. CallType'
  BY <1>2 DEF OrderInv, CallType
<1>4. \A f \in Func \ raced' : Orderly(f)'
  BY <1>1, SMTT(30) DEF OrderInv, Orderly, Stacked, After, Busy, Working, Installing, Removing, HalfWritten,
         PatchBytes, Head1
<1>5. ASSUME NEW u \in Caller, call'[u].quiet PROVE Quiet(u)'
  <2>1. CASE u # t
    <3>1. call'[u] = call[u] /\ Quiet(u)
      BY <1>2, <1>5, <2>1 DEF OrderInv
    <3>2. Passed(u)' <=> Passed(u)
      BY <1>1, <3>1 DEF Passed
    <3>3. \A p \in Patcher : Busy(p, call[u].f)' <=> Busy(p, call[u].f)
      BY <1>1, <3>1 DEF Busy
    <3>. QED
      BY <1>1, <3>1, <3>2, <3>3 DEF Quiet
  <2>. QED
    BY <1>5, <2>1
<1>. QED
  BY <1>1, <1>3, <1>4, <1>5 DEF OrderInv

\* What a call is after it went on.
LEMMA Gone ==
  ASSUME IInv, OrderInv, NEW t \in Caller, NEW pc \in CallPc \ {"out"}, NEW c \in Ctx \cup {NoCtx},
         call[t].pc # "out", pc = "replacement" => c \in Ctx, Go(t, pc, c)
  PROVE  /\ call' = [call EXCEPT ![t] = call'[t]]
         /\ call'[t] \in CallRecord
         /\ call'[t].pc = pc /\ call'[t].c = c
         /\ call'[t].f = call[t].f /\ call[t].f \in Func /\ call'[t].quiet = call[t].quiet
         /\ call'[t].ran = IF pc = "replacement" /\ call[t].quiet THEN Append(call[t].ran, c) ELSE call[t].ran
         /\ call'[t].body = IF pc = "returned" /\ call[t].pc = "body" /\ call[t].quiet
                              THEN call[t].body + 1 ELSE call[t].body
<1>. DEFINE ran == IF pc = "replacement" /\ call[t].quiet THEN Append(call[t].ran, c) ELSE call[t].ran
            body == IF pc = "returned" /\ call[t].pc = "body" /\ call[t].quiet
                      THEN call[t].body + 1 ELSE call[t].body
            new == [call[t] EXCEPT !.pc = pc, !.c = c, !.ran = ran, !.body = body]
<1>1. call[t] \in CallRecord /\ call[t].f \in Func
  BY DEF OrderInv, CallType
<1>2. ran \in Seq(Ctx) /\ body \in Nat
  <2>1. call[t].ran \in Seq(Ctx) /\ call[t].body \in Nat
    BY <1>1 DEF CallRecord
  <2>. QED
    BY <2>1
<1>3. call' = [call EXCEPT ![t] = new]
  BY DEF Go, OrderInv, CallType
<1>. HIDE DEF ran, body
<1>4. /\ new \in CallRecord /\ new.pc = pc /\ new.c = c /\ new.ran = ran /\ new.body = body
      /\ new.f = call[t].f /\ new.quiet = call[t].quiet
  BY <1>1, <1>2 DEF CallRecord
<1>. HIDE DEF new
<1>5. call'[t] = new
  BY <1>3 DEF OrderInv, CallType
<1>. QED
  BY <1>1, <1>3, <1>4, <1>5 DEF ran, body

\* Where a call can go when its function is quiet.
LEMMA QuietCall ==
  ASSUME IInv, OrderInv, NEW t \in Caller, call[t].quiet
  PROVE  LET f == call[t].f
             h == shown[f]
             n == Len(call[t].ran)
         IN /\ Stacked(f, stack[f], h, ctx) /\ h \in Seq(Ctx) /\ f \in Func
            /\ code[f] = Below(h, 1)
            /\ call[t].ran \in Seq(Ctx) /\ n \in Nat /\ n <= Len(h)
            /\ \A i \in 1 .. n : call[t].ran[i] = h[i]
            /\ call[t].pc \in {"replacement", "proxy"} =>
                 /\ n \in 1 .. Len(h) /\ call[t].c = h[n]
                 /\ ctx[call[t].c].proxy = IF n = Len(h) THEN "body" ELSE h[n + 1]
<1>1. PICK f \in Func \ raced : f = call[t].f /\ Quiet(t)
  BY DEF OrderInv, Quiet
<1>2. Orderly(f) /\ code[f] = Below(shown[f], 1)
  BY <1>1 DEF OrderInv, Orderly, Quiet, Head1
<1>3. Stacked(f, stack[f], shown[f], ctx) /\ shown[f] \in Seq(Ctx)
  BY <1>2 DEF Orderly, Stacked
<1>4. call[t].ran \in Seq(Ctx)
  BY DEF OrderInv, CallType, CallRecord
<1>5. Len(call[t].ran) \in Nat /\ Len(call[t].ran) <= Len(shown[f])
      /\ \A i \in 1 .. Len(call[t].ran) : call[t].ran[i] = shown[f][i]
  BY <1>1, <1>4 DEF Quiet, Passed
<1>6. ASSUME call[t].pc \in {"replacement", "proxy"}
      PROVE  LET n == Len(call[t].ran)
             IN /\ n \in 1 .. Len(shown[f]) /\ call[t].c = shown[f][n]
                /\ ctx[call[t].c].proxy = IF n = Len(shown[f]) THEN "body" ELSE shown[f][n + 1]
  <2>1. call[t].ran # <<>> /\ call[t].c = call[t].ran[Len(call[t].ran)]
    BY <1>1, <1>6 DEF Quiet
  <2>2. Len(call[t].ran) \in 1 .. Len(shown[f]) /\ Len(call[t].ran) \in 1 .. Len(call[t].ran)
    BY <1>3, <1>4, <1>5, <2>1
  <2>3. call[t].c = shown[f][Len(call[t].ran)]
    BY <1>5, <2>1, <2>2
  <2>. QED
    BY <1>3, <2>2, <2>3, ProxyLeads, SMTT(30)
<1>. QED
  BY <1>1, <1>2, <1>3, <1>4, <1>5, <1>6

\* A call begins.
LEMMA CallStep ==
  ASSUME IInv, OrderInv, NEW t \in Caller, NEW f \in Func, Call(t, f)
  PROVE  OrderInv'
<1>. DEFINE new == [NoCall EXCEPT !.pc = "entry", !.f = f, !.quiet = Undisturbed(f)]
<1>1. UNCHANGED <<code, prot, ctx, job, faults, history>> /\ call' = [call EXCEPT ![t] = new]
  BY DEF Call
<1>2. Undisturbed(f) \in BOOLEAN
  BY DEF Undisturbed
<1>3. /\ new \in CallRecord /\ new.pc = "entry" /\ new.f = f /\ new.ran = <<>> /\ new.body = 0
      /\ new.quiet = Undisturbed(f)
  <2>1. NoCall \in CallRecord
    <3>1. <<>> \in Seq(Ctx)
      OBVIOUS
    <3>. QED
      BY <3>1 DEF NoCall, CallRecord, CallPc
  <2>. QED
    BY <1>2, <2>1 DEF NoCall, CallRecord, CallPc
<1>. HIDE DEF new
<1>4. call'[t] = new
  BY <1>1 DEF OrderInv, CallType
<1>5. ASSUME call'[t].quiet PROVE Quiet(t)'
  <2>1. f \in Func \ raced /\ \A p \in Patcher : ~Busy(p, f)
    BY <1>3, <1>4, <1>5 DEF Undisturbed, BusyAt, Busy
  <2>2. \A p \in Patcher : ~Busy(p, f)'
    BY <1>1, <2>1 DEF Busy
  <2>3. raced' = raced /\ shown' = shown
    BY <1>1 DEF history
  <2>4. Len(shown[f]) \in Nat
    BY <2>1 DEF OrderInv, Orderly, Stacked
  <2>. QED
    BY <1>3, <1>4, <2>1, <2>2, <2>3, <2>4 DEF Quiet, Passed, CallPc
<1>. QED
  BY <1>1, <1>3, <1>4, <1>5, CallerOnly

\* Nothing a quiet call depends on but the call itself changes in its steps.
LEMMA QuietAgain ==
  ASSUME OrderInv, NEW t \in Caller, call[t].quiet,
         UNCHANGED <<code, prot, ctx, job, faults, history>>, call'[t].f = call[t].f
  PROVE  /\ call[t].f \in Func \ raced' /\ shown' = shown
         /\ \A p \in Patcher : ~Busy(p, call[t].f)'
         /\ Quiet(t)
BY DEF OrderInv, Quiet, Busy, history

\* The processor reads the head of the function.
LEMMA EntryStep ==
  ASSUME IInv, OrderInv, NEW t \in Caller, FetchEntry(t),
         UNCHANGED <<code, prot, ctx, job, faults, history>>
  PROVE  OrderInv'
<1>1. call[t].pc = "entry"
  BY DEF FetchEntry
<1>2. PICK f \in Func : f = call[t].f
  BY <1>1 DEF OrderInv, CallType
<1>3. PICK a \in Ctx \cup {NoCtx}, b \in Ctx \cup {NoCtx} : a = code[f][1] /\ b = code[f][2]
  BY DEF IInv, TypeOK, Halves
<1>4. \/ a = NoCtx /\ Go(t, "second", NoCtx)
      \/ a # NoCtx /\ b = a /\ Go(t, "replacement", a)
      \/ a # NoCtx /\ b # a /\ Go(t, "fault", NoCtx)
  BY <1>2, <1>3 DEF FetchEntry
<1>5. PICK pc \in {"second", "replacement", "fault"}, c \in Ctx \cup {NoCtx} :
        /\ Go(t, pc, c) /\ (pc = "replacement" => c \in Ctx /\ c = a)
        /\ pc = "second" => a = NoCtx
        /\ pc = "fault" => a # NoCtx /\ b # a
  BY <1>3, <1>4
<1>6. /\ call' = [call EXCEPT ![t] = call'[t]]
      /\ call'[t] \in CallRecord
      /\ call'[t].pc = pc /\ call'[t].c = c
      /\ call'[t].f = f /\ call'[t].quiet = call[t].quiet
      /\ call'[t].ran = IF pc = "replacement" /\ call[t].quiet THEN Append(call[t].ran, c) ELSE call[t].ran
      /\ call'[t].body = call[t].body
  <2>1. pc \in CallPc \ {"out"} /\ pc # "returned"
    BY DEF CallPc
  <2>. QED
    BY <1>1, <1>2, <1>5, <2>1, Gone
<1>7. ASSUME call[t].quiet PROVE Quiet(t)'
  <2>1. /\ f \in Func \ raced' /\ shown' = shown /\ Quiet(t)
        /\ \A p \in Patcher : ~Busy(p, f)'
    BY <1>2, <1>6, <1>7, QuietAgain
  <2>2. call[t].ran = <<>> /\ call[t].body = 0
    BY <1>1, <2>1 DEF Quiet
  <2>3. PICK h \in Seq(Ctx) : h = shown[f] /\ code[f] = Below(h, 1)
    BY <1>2, <1>7, QuietCall
  <2>4. CASE h = <<>>
    <3>1. code[f] = Original
      BY <2>3, <2>4 DEF Below
    <3>2. pc = "second" /\ call'[t].ran = <<>>
      BY <1>3, <1>5, <1>6, <2>2, <3>1, ThreadsAssumption DEF Original
    <3>. QED
      BY <1>6, <2>1, <2>2, <2>3, <2>4, <3>2 DEF Quiet, Passed, CallPc
  <2>5. CASE h # <<>>
    <3>1. Len(h) \in Nat /\ 1 <= Len(h) /\ h[1] \in Ctx
      BY <2>5
    <3>2. code[f] = Jump(h[1])
      BY <2>3, <3>1 DEF Below
    <3>3. a = h[1] /\ b = a /\ a # NoCtx
      BY <1>3, <3>1, <3>2, ThreadsAssumption DEF Jump
    <3>4. pc = "replacement" /\ c = h[1]
      BY <1>5, <3>3
    <3>5. call'[t].ran = <<c>>
      BY <1>6, <1>7, <2>2, <3>4
    <3>6. call'[t].pc \notin {"entry", "second", "body", "returned", "out", "fault"} /\ call'[t].pc \in CallPc
      BY <1>6, <3>4 DEF CallPc
    <3>8. <<c>> # <<>> /\ Len(<<c>>) = 1 /\ <<c>>[1] = c
      OBVIOUS
    <3>7. Passed(t)'
      <4>1. shown'[call'[t].f] = h
        BY <1>6, <2>1, <2>3
      <4>2. \A i \in 1 .. 1 : i = 1
        OBVIOUS
      <4>. QED
        BY <3>1, <3>4, <3>5, <3>8, <4>1, <4>2 DEF Passed
    <3>9. /\ call'[t].f = f /\ call'[t].c = c /\ call'[t].body = 0 /\ call'[t].pc = "replacement"
      BY <1>6, <2>2, <3>4
    <3>. QED
      BY <2>1, <3>5, <3>6, <3>7, <3>8, <3>9 DEF Quiet
  <2>. QED
    BY <2>4, <2>5
<1>. QED
  BY <1>2, <1>6, <1>7, CallerOnly

\* The second instruction of a head that nobody changes is original.
LEMMA SecondStep ==
  ASSUME IInv, OrderInv, NEW t \in Caller, FetchSecond(t),
         UNCHANGED <<code, prot, ctx, job, faults, history>>
  PROVE  OrderInv'
<1>1. call[t].pc = "second"
  BY DEF FetchSecond
<1>2. PICK pc \in {"body", "fault"} :
        Go(t, pc, NoCtx) /\ (pc = "fault" => code[call[t].f][2] # NoCtx)
  BY DEF FetchSecond
<1>3. /\ call' = [call EXCEPT ![t] = call'[t]]
      /\ call'[t] \in CallRecord
      /\ call'[t].pc = pc
      /\ call'[t].f = call[t].f /\ call[t].f \in Func /\ call'[t].quiet = call[t].quiet
      /\ call'[t].ran = call[t].ran /\ call'[t].body = call[t].body
  <2>1. pc \in CallPc \ {"out"} /\ pc \notin {"returned", "replacement"}
    BY DEF CallPc
  <2>. QED
    BY <1>1, <1>2, <2>1, Gone
<1>4. ASSUME call[t].quiet PROVE Quiet(t)'
  <2>1. /\ call[t].f \in Func \ raced' /\ shown' = shown /\ Quiet(t)
        /\ \A p \in Patcher : ~Busy(p, call[t].f)'
    BY <1>3, <1>4, QuietAgain
  <2>2. shown[call[t].f] = <<>> /\ call[t].ran = <<>> /\ call[t].body = 0 /\ Passed(t)
    BY <1>1, <2>1 DEF Quiet
  <2>3. code[call[t].f] = Original
    <3>1. code[call[t].f] = Below(shown[call[t].f], 1)
      BY <1>4, QuietCall
    <3>. QED
      BY <2>2, <3>1 DEF Below
  <2>4. pc = "body"
    BY <1>2, <2>3 DEF Original
  <2>5. Passed(t)'
    BY <1>3, <2>1, <2>2 DEF Passed
  <2>. QED
    BY <1>3, <2>1, <2>2, <2>4, <2>5 DEF Quiet, CallPc
<1>. QED
  BY <1>3, <1>4, CallerOnly

\* A quiet call finds the proxy of the context it is at.
LEMMA EmitStep ==
  ASSUME IInv, OrderInv, NEW t \in Caller, Emit(t),
         UNCHANGED <<code, prot, ctx, job, faults, history>>
  PROVE  OrderInv'
<1>1. call[t].pc = "replacement"
  BY DEF Emit
<1>2. PICK pc \in {"returned", "proxy"}, c \in Ctx \cup {NoCtx} :
        /\ Go(t, pc, c)
        /\ pc = "proxy" => c = call[t].c
        /\ pc = "returned" => ctx[call[t].c].proxy = "null"
  <2>1. call[t].c \in Ctx \cup {NoCtx}
    BY DEF OrderInv, CallType, CallRecord
  <2>. QED
    BY <2>1 DEF Emit
<1>3. /\ call' = [call EXCEPT ![t] = call'[t]]
      /\ call'[t] \in CallRecord
      /\ call'[t].pc = pc /\ call'[t].c = c
      /\ call'[t].f = call[t].f /\ call[t].f \in Func /\ call'[t].quiet = call[t].quiet
      /\ call'[t].ran = call[t].ran /\ call'[t].body = call[t].body
  <2>1. pc \in CallPc \ {"out"} /\ pc # "replacement"
    BY DEF CallPc
  <2>. QED
    BY <1>1, <1>2, <2>1, Gone
<1>4. ASSUME call[t].quiet PROVE Quiet(t)'
  <2>1. /\ call[t].f \in Func \ raced' /\ shown' = shown /\ Quiet(t)
        /\ \A p \in Patcher : ~Busy(p, call[t].f)'
    BY <1>3, <1>4, QuietAgain
  <2>2. /\ call[t].ran # <<>> /\ call[t].c = call[t].ran[Len(call[t].ran)]
        /\ call[t].body = 0 /\ Passed(t)
    BY <1>1, <2>1 DEF Quiet
  <2>3. pc = "proxy"
    <3>1. PICK h \in Seq(Ctx), n \in Nat :
            /\ n \in 1 .. Len(h)
            /\ ctx[call[t].c].proxy = IF n = Len(h) THEN "body" ELSE h[n + 1]
      BY <1>1, <1>4, QuietCall
    <3>2. Len(h) \in Nat /\ (n # Len(h) => h[n + 1] \in Ctx)
      BY <3>1
    <3>3. ctx[call[t].c].proxy \in Ctx \cup {"body"}
      BY <3>1, <3>2
    <3>4. "null" \notin Ctx
      BY ThreadsAssumption DEF Special
    <3>. QED
      BY <1>2, <3>3, <3>4
  <2>4. Passed(t)'
    BY <1>3, <2>1, <2>2 DEF Passed
  <2>5. call'[t].c = call[t].c /\ call'[t].pc = "proxy"
    BY <1>2, <1>3, <2>3
  <2>. QED
    BY <1>3, <2>1, <2>2, <2>4, <2>5 DEF Quiet, CallPc
<1>. QED
  BY <1>3, <1>4, CallerOnly

\* A call's record of the contexts it ran, with one more.
LEMMA Longer ==
  ASSUME NEW S, NEW r \in Seq(S), NEW c \in S
  PROVE  /\ Len(Append(r, c)) = Len(r) + 1
         /\ Append(r, c)[Len(r) + 1] = c
         /\ \A i \in 1 .. Len(r) : Append(r, c)[i] = r[i]
         /\ Append(r, c) # <<>>
OBVIOUS

\* The proxy of a quiet call leads to the next context, or into the function.
LEMMA RunProxyStep ==
  ASSUME IInv, OrderInv, NEW t \in Caller, RunProxy(t),
         UNCHANGED <<code, prot, ctx, job, faults, history>>
  PROVE  OrderInv'
<1>1. call[t].pc = "proxy"
  BY DEF RunProxy
<1>. DEFINE to == ctx[call[t].c].proxy
<1>0. "body" \notin Ctx
  BY ThreadsAssumption DEF Special
<1>2. PICK pc \in {"body", "replacement", "fault"}, c \in Ctx \cup {NoCtx} :
        /\ Go(t, pc, c)
        /\ pc = "replacement" => c \in Ctx /\ c = to
        /\ pc = "body" => to = "body"
        /\ pc = "fault" => to # "body" /\ to \notin Ctx
  <2>1. CASE to = "body"
    BY <1>0, <2>1 DEF RunProxy
  <2>2. CASE to \in Ctx
    BY <1>0, <2>2 DEF RunProxy
  <2>3. CASE to # "body" /\ to \notin Ctx
    BY <2>3 DEF RunProxy
  <2>. QED
    BY <2>1, <2>2, <2>3
<1>3. /\ call' = [call EXCEPT ![t] = call'[t]]
      /\ call'[t] \in CallRecord
      /\ call'[t].pc = pc /\ call'[t].c = c
      /\ call'[t].f = call[t].f /\ call[t].f \in Func /\ call'[t].quiet = call[t].quiet
      /\ call'[t].ran = IF pc = "replacement" /\ call[t].quiet THEN Append(call[t].ran, c) ELSE call[t].ran
      /\ call'[t].body = call[t].body
  <2>1. pc \in CallPc \ {"out"} /\ pc # "returned"
    BY DEF CallPc
  <2>. QED
    BY <1>1, <1>2, <2>1, Gone
<1>4. ASSUME call[t].quiet PROVE Quiet(t)'
  <2>1. /\ call[t].f \in Func \ raced' /\ shown' = shown /\ Quiet(t)
        /\ \A p \in Patcher : ~Busy(p, call[t].f)'
    BY <1>3, <1>4, QuietAgain
  <2>2. call[t].body = 0
    BY <1>1, <2>1 DEF Quiet
  <2>3. PICK h \in Seq(Ctx), r \in Seq(Ctx), n \in Nat :
          /\ n \in 1 .. Len(h)
          /\ h = shown[call[t].f] /\ r = call[t].ran /\ n = Len(r)
          /\ \A i \in 1 .. n : r[i] = h[i]
          /\ to = IF n = Len(h) THEN "body" ELSE h[n + 1]
    <3>1. PICK h \in Seq(Ctx), r \in Seq(Ctx) : h = shown[call[t].f] /\ r = call[t].ran
      BY <1>4, QuietCall
    <3>2. /\ Len(r) \in 1 .. Len(h) /\ Len(r) \in Nat
          /\ \A i \in 1 .. Len(r) : r[i] = h[i]
          /\ to = IF Len(r) = Len(h) THEN "body" ELSE h[Len(r) + 1]
      BY <1>1, <1>4, <3>1, QuietCall
    <3>. HIDE DEF to
    <3>. QED
      BY <3>1, <3>2
  <2>4. Len(h) \in Nat /\ n \in Nat
    BY <2>3
  <2>5. CASE n = Len(h)
    <3>1. pc = "body"
      BY <1>0, <1>2, <2>3, <2>5
    <3>2. /\ call'[t].ran = r /\ call'[t].pc = "body" /\ call'[t].body = 0 /\ call'[t].f = call[t].f
      BY <1>3, <2>2, <2>3, <3>1
    <3>3. Passed(t)'
      <4>1. shown'[call'[t].f] = h /\ Len(r) = Len(h) /\ \A i \in 1 .. Len(r) : r[i] = h[i]
        BY <2>1, <2>3, <2>5, <3>2
      <4>. QED
        BY <2>4, <3>2, <4>1 DEF Passed
    <3>. QED
      BY <2>1, <2>3, <2>5, <3>2, <3>3 DEF Quiet, CallPc
  <2>6. CASE n # Len(h)
    <3>1. n + 1 \in 1 .. Len(h) /\ h[n + 1] \in Ctx
      BY <2>3, <2>4, <2>6
    <3>2. pc = "replacement" /\ c = h[n + 1]
      BY <1>0, <1>2, <2>3, <2>6, <3>1
    <3>3. PICK k \in Seq(Ctx) : k = Append(r, c)
      <4>1. c \in Ctx /\ r \in Seq(Ctx)
        BY <2>3, <3>1, <3>2
      <4>2. Append(r, c) \in Seq(Ctx)
        BY <4>1, AppendProperties
      <4>. QED
        BY <4>2
    <3>4. Len(k) = n + 1 /\ k[n + 1] = c /\ (\A i \in 1 .. n : k[i] = r[i]) /\ k # <<>>
      <4>1. r \in Seq(Ctx) /\ Len(r) = n
        BY <2>3
      <4>. QED
        BY <2>3, <3>1, <3>2, <3>3, <4>1, Longer
    <3>5. /\ call'[t].ran = k /\ call'[t].pc = "replacement" /\ call'[t].c = c
          /\ call'[t].body = 0 /\ call'[t].f = call[t].f
      BY <1>3, <1>4, <2>2, <2>3, <3>2, <3>3
    <3>6. Passed(t)'
      <4>1. shown'[call'[t].f] = h
        BY <2>1, <2>3, <3>5
      <4>2. \A i \in 1 .. n + 1 : i \in 1 .. n \/ i = n + 1
        BY <2>4
      <4>3. n + 1 <= Len(h)
        BY <2>4, <3>1
      <4>. QED
        BY <2>3, <3>2, <3>4, <3>5, <4>1, <4>2, <4>3 DEF Passed
    <3>. QED
      BY <2>1, <3>4, <3>5, <3>6 DEF Quiet, CallPc
  <2>. QED
    BY <2>5, <2>6
<1>. QED
  BY <1>3, <1>4, CallerOnly

\* The function is performed, and the call ends.
LEMMA EndStep ==
  ASSUME IInv, OrderInv, NEW t \in Caller, RunBody(t) \/ Leave(t),
         UNCHANGED <<code, prot, ctx, job, faults, history>>
  PROVE  OrderInv'
<1>1. CASE RunBody(t)
  <2>1. call[t].pc = "body" /\ Go(t, "returned", NoCtx)
    BY <1>1 DEF RunBody
  <2>2. /\ call' = [call EXCEPT ![t] = call'[t]]
        /\ call'[t] \in CallRecord
        /\ call'[t].pc = "returned"
        /\ call'[t].f = call[t].f /\ call[t].f \in Func /\ call'[t].quiet = call[t].quiet
        /\ call'[t].ran = call[t].ran
        /\ call[t].quiet => call'[t].body = call[t].body + 1
    <3>1. "returned" \in CallPc \ {"out"}
      BY DEF CallPc
    <3>. QED
      BY <2>1, <3>1, Gone
  <2>3. ASSUME call[t].quiet PROVE Quiet(t)'
    <3>1. /\ call[t].f \in Func \ raced' /\ shown' = shown /\ Quiet(t)
          /\ \A p \in Patcher : ~Busy(p, call[t].f)'
      BY <2>2, <2>3, QuietAgain
    <3>2. call[t].body = 0 /\ Len(call[t].ran) = Len(shown[call[t].f]) /\ Passed(t)
      BY <2>1, <3>1 DEF Quiet
    <3>3. Passed(t)'
      BY <2>2, <3>1, <3>2 DEF Passed
    <3>. QED
      BY <2>2, <2>3, <3>1, <3>2, <3>3 DEF Quiet, CallPc
  <2>. QED
    BY <2>2, <2>3, CallerOnly
<1>2. CASE Leave(t)
  <2>1. call' = [call EXCEPT ![t] = NoCall]
    BY <1>2 DEF Leave
  <2>2. call'[t] = NoCall
    BY <2>1 DEF OrderInv, CallType
  <2>3. NoCall \in CallRecord /\ ~NoCall.quiet /\ NoCall.pc = "out"
    <3>1. <<>> \in Seq(Ctx)
      OBVIOUS
    <3>. QED
      BY <3>1 DEF NoCall, CallRecord, CallPc
  <2>. QED
    BY <2>1, <2>2, <2>3, CallerOnly
<1>. QED
  BY <1>1, <1>2

-----------------------------------------------------------------------------
\* Every step keeps what is known about the contexts and the calls.
LEMMA OrderStep ==
  ASSUME IInv, OrderInv, [Next]_vars
  PROVE  OrderInv'
<1>1. CASE vars' = vars
  <2>1. UNCHANGED <<code, ctx, job, call, stack, shown, raced>>
    BY <1>1 DEF vars, history
  <2>2. \A f \in Func \ raced' : Orderly(f)'
    <3>1. UNCHANGED <<code, ctx, job, stack, shown, raced>>
      BY <2>1
    <3>2. ASSUME NEW f \in Func \ raced' PROVE Orderly(f)'
      <4>1. Orderly(f)
        BY <3>1 DEF OrderInv
      <4>2. Stacked(f, stack[f], shown[f], ctx)'
        <5>1. Stacked(f, stack[f], shown[f], ctx)
          BY <4>1 DEF Orderly
        <5>2. stack'[f] = stack[f] /\ shown'[f] = shown[f] /\ ctx' = ctx
          BY <3>1
        <5>. QED
          BY <5>1, <5>2
      <4>3. ASSUME NEW p \in Patcher
            PROVE  (Busy(p, f)' <=> Busy(p, f)) /\ (Working(p, f)' <=> Working(p, f))
        <5>1. Busy(p, f)' <=> Busy(p, f)
          BY <3>1 DEF Busy
        <5>2. PatchBytes(p)' = PatchBytes(p) /\ Head1(f)' = Head1(f)
          BY <3>1 DEF PatchBytes, Head1
        <5>3. HalfWritten(p, f)' <=> HalfWritten(p, f)
          BY <3>1, <5>2 DEF HalfWritten
        <5>4. (Installing(p, f)' <=> Installing(p, f)) /\ (Removing(p, f)' <=> Removing(p, f))
          BY <3>1, <5>2 DEF Installing, Removing
        <5>. QED
          BY <3>1, <5>1, <5>2, <5>3, <5>4 DEF Working
      <4>4. Head1(f)' = Head1(f) /\ code'[f] = code[f]
        BY <3>1 DEF Head1
      <4>. QED
        BY <4>1, <4>2, <4>3, <4>4 DEF Orderly
    <3>. QED
      BY <3>2
  <2>3. CallType'
    BY <2>1 DEF OrderInv, CallType
  <2>4. \A t \in Caller : call'[t].quiet => Quiet(t)'
    BY <2>1 DEF OrderInv, Quiet, Passed, Busy
  <2>. QED
    BY <2>1, <2>2, <2>3, <2>4 DEF OrderInv
<1>2. ASSUME NEW p \in Patcher, NEW c \in Ctx, BeginInstall(p, c) \/ BeginUninstall(p, c)
      PROVE  OrderInv'
  BY <1>2, BeginStep
<1>3. ASSUME NEW p \in Patcher, PatcherStep(p) PROVE OrderInv'
  BY <1>3, CopySaveStep, CopyTooShortStep, OpenStep, DeniedStep, HalfStep, ReturnStep, ClearStep DEF PatcherStep
<1>4. ASSUME NEW t \in Caller, NEW f \in Func, Call(t, f) PROVE OrderInv'
  BY <1>4, CallStep
<1>5. ASSUME NEW t \in Caller, CallerStep(t) PROVE OrderInv'
  BY <1>5, EntryStep, SecondStep, EmitStep, RunProxyStep, EndStep DEF CallerStep
<1>. QED
  BY <1>1, <1>2, <1>3, <1>4, <1>5 DEF Next

\* Nothing is installed and nobody calls when the program starts.
LEMMA OrderInit == Init => OrderInv
<1>. SUFFICES ASSUME Init PROVE OrderInv
  OBVIOUS
<1>1. <<>> \in Seq(Ctx) /\ Len(<<>>) = 0
  OBVIOUS
<1>2. CallType /\ \A t \in Caller : ~call[t].quiet
  <2>1. NoCall \in CallRecord /\ ~NoCall.quiet /\ NoCall.pc = "out"
    BY <1>1 DEF NoCall, CallRecord, CallPc
  <2>. QED
    BY <2>1 DEF Init, CallType
<1>3. ASSUME NEW f \in Func PROVE Orderly(f)
  <2>1. stack[f] = <<>> /\ shown[f] = <<>> /\ code[f] = Original /\ \A p \in Patcher : ~Busy(p, f)
    BY DEF Init, Busy, NoJob
  <2>2. Stacked(f, stack[f], shown[f], ctx)
    BY <1>1, <2>1 DEF Stacked, After, Below
  <2>. QED
    BY <1>1, <2>1, <2>2 DEF Orderly, Head1, Below
<1>. QED
  BY <1>2, <1>3 DEF Init, OrderInv

\* The contexts are in order, where no two patchers met, in every state.
LEMMA OrderInductive == Spec => []OrderInv
<1>1. Init => OrderInv
  BY OrderInit
<1>2. IInv /\ OrderInv /\ [Next]_vars => OrderInv'
  BY OrderStep
<1>. QED
  BY <1>1, <1>2, Inductive, PTL DEF Spec

\* However many threads patch functions of the page, a call of a function that
\* nobody patches meanwhile passes the hooks installed there, newest first, and
\* performs the function once (hooklib.c 331-433).
THEOREM QuietCalls == Spec => []QuietCallPerforms
<1>1. ASSUME OrderInv PROVE QuietCallPerforms
  <2>1. ASSUME NEW t \in Caller, call[t].quiet
        PROVE  /\ call[t].pc # "fault"
               /\ call[t].pc = "returned" => call[t].ran = shown[call[t].f] /\ call[t].body = 1
    <3>1. Quiet(t) /\ call[t].ran \in Seq(Ctx)
      BY <1>1, <2>1 DEF OrderInv, CallType, CallRecord
    <3>2. shown[call[t].f] \in Seq(Ctx)
      BY <1>1, <3>1 DEF OrderInv, Quiet, Orderly, Stacked
    <3>3. ASSUME call[t].pc = "returned" PROVE call[t].ran = shown[call[t].f] /\ call[t].body = 1
      <4>1. /\ Len(call[t].ran) = Len(shown[call[t].f]) /\ call[t].body = 1
            /\ \A i \in 1 .. Len(call[t].ran) : call[t].ran[i] = shown[call[t].f][i]
        BY <3>1, <3>3 DEF Quiet, Passed
      <4>. QED
        BY <3>1, <3>2, <4>1, SeqEqual
    <3>. QED
      BY <3>1, <3>3 DEF Quiet
  <2>. QED
    BY <2>1 DEF QuietCallPerforms
<1>. QED
  BY <1>1, OrderInductive, PTL

=============================================================================
