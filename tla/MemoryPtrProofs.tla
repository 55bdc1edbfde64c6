--------------------------- MODULE MemoryPtrProofs ---------------------------
(***************************************************************************)
(* Checked accesses do not fault by themselves, for any number of threads, *)
(* pages and addresses.  What a visitor found out about its pages stays    *)
(* true until somebody disturbs it: other visitors only add rights.        *)
(*                                                                         *)
(* Nor is an update lost while no two of them are on the same bytes: what  *)
(* a thread has loaded is still there when it stores.                      *)
(*                                                                         *)
(* Addresses and ints are numbers modulo powers of two.  These, the value  *)
(* of a word and a pointer that goes byte by byte are recursive functions; *)
(* that there are such functions, and what they are, is shown number by    *)
(* number (UpTo, Recursion).                                               *)
(***************************************************************************)
EXTENDS MemoryPtr, NaturalsInduction, WellFoundedInduction, TLAPS

Updating(j) == j.pc \in {"open", "load", "store"}

\* What a visitor knows of the bytes it uses.
Knows(j) ==
  /\ Updating(j) => j.op \in Updates
  /\ j.pc # "idle" /\ ~j.disturbed =>
       /\ Mapped(Touched(j.op, j.a))
       /\ j.pc \in {"load", "store"} => Open(Touched(j.op, j.a))

Pc == {"idle", "open", "read", "load", "store"}
JobWith(o, a, l) == [pc : Pc, op : {o}, a : {a}, loaded : {l}, disturbed : BOOLEAN]
IsJob(j) == \E o, a, l : j \in JobWith(o, a, l)

IInv ==
  /\ prot \in [Pages -> {"free", "read", "execute_write"}]
  /\ job = [t \in Thread |-> job[t]]
  /\ \A t \in Thread : IsJob(job[t]) /\ Knows(job[t])
  /\ \A t \in faulted : t \in Thread /\ job[t].disturbed

\* The jobs that steps make.
At(j, pc) == [j EXCEPT !.pc = pc]
Loaded(j, pc, v) == [j EXCEPT !.pc = pc, !.loaded = v]
Disturbed(j) == [j EXCEPT !.disturbed = TRUE]
Visit(pc, op, a) == [NoJob EXCEPT !.pc = pc, !.op = op, !.a = a]

\* A job with some fields changed.
LEMMA Changed ==
  ASSUME NEW j, IsJob(j), NEW pc \in Pc, NEW v, NEW k \in {At(j, pc), Loaded(j, pc, v)}
  PROVE  /\ IsJob(k) /\ k.pc = pc /\ k.a = j.a /\ k.op = j.op /\ k.disturbed = j.disturbed
         /\ k = Loaded(j, pc, v) => k.loaded = v
<1>1. PICK o, a, l : j \in JobWith(o, a, l)
  BY DEF IsJob
<1>2. CASE k = At(j, pc) /\ k # Loaded(j, pc, v)
  <2>1. /\ k \in JobWith(o, a, l) /\ k.pc = pc
        /\ k.a = j.a /\ k.op = j.op /\ k.disturbed = j.disturbed
    BY <1>1, <1>2 DEF JobWith, At
  <2>. QED
    BY <1>2, <2>1 DEF IsJob
<1>3. CASE k = Loaded(j, pc, v)
  <2>1. /\ k \in JobWith(o, a, v) /\ k.pc = pc
        /\ k.a = j.a /\ k.op = j.op /\ k.disturbed = j.disturbed
        /\ k.loaded = v
    BY <1>1, <1>3 DEF JobWith, Loaded
  <2>. QED
    BY <2>1 DEF IsJob
<1>. QED
  BY <1>2, <1>3

\* A job that somebody disturbed.
LEMMA DisturbedJob ==
  ASSUME NEW j, IsJob(j)
  PROVE  /\ IsJob(Disturbed(j)) /\ Disturbed(j).disturbed
         /\ Disturbed(j).pc = j.pc /\ Disturbed(j).op = j.op
         /\ Disturbed(j).a = j.a /\ Disturbed(j).loaded = j.loaded
<1>1. PICK o, a, l : j \in JobWith(o, a, l)
  BY DEF IsJob
<1>2. PICK k : k = Disturbed(j)
  OBVIOUS
<1>3. /\ k \in JobWith(o, a, l) /\ k.disturbed
      /\ k.pc = j.pc /\ k.op = j.op /\ k.a = j.a /\ k.loaded = j.loaded
  BY <1>1, <1>2 DEF JobWith, Disturbed
<1>4. IsJob(k)
  BY <1>3 DEF IsJob
<1>. QED
  BY <1>2, <1>3, <1>4

\* A step of thread t that adds rights or leaves them: what others know stays.
LEMMA JobStep ==
  ASSUME IInv, faulted = {}, faulted' = {}, NEW t \in Thread, NEW new,
         job' = [job EXCEPT ![t] = new],
         prot' \in [Pages -> {"free", "read", "execute_write"}],
         \A g \in Pages : prot'[g] = prot[g] \/ (prot[g] # "free" /\ prot'[g] = "execute_write"),
         IsJob(new), Knows(new)'
  PROVE  IInv'
<1>1. job' = [u \in Thread |-> job'[u]] /\ job'[t] = new /\ \A u \in Thread : u # t => job'[u] = job[u]
  BY DEF IInv
<1>2. ASSUME NEW S, Mapped(S) PROVE Mapped(S)'
  BY <1>2 DEF Mapped, Bytes
<1>3. ASSUME NEW S, Mapped(S), Open(S) PROVE Open(S)'
  BY <1>3 DEF Mapped, Open, Bytes
<1>4. ASSUME NEW u \in Thread, u # t PROVE (IsJob(job[u]) /\ Knows(job[u]))'
  <2>1. job'[u] = job[u] /\ IsJob(job[u]) /\ Knows(job[u])
    BY <1>1, <1>4 DEF IInv
  <2>2. PICK j : j = job[u]
    OBVIOUS
  <2>3. Knows(j) => Knows(j)'
    <3>1. PICK S : S = Touched(j.op, j.a)
      OBVIOUS
    <3>. QED
      BY <1>2, <1>3, <3>1 DEF Knows
  <2>. QED
    BY <2>1, <2>2, <2>3
<1>. QED
  BY <1>1, <1>4 DEF IInv

\* The job of a thread that is in no visit.
LEMMA NoVisit == IsJob(NoJob) /\ NoJob.pc = "idle" /\ ~NoJob.disturbed
<1>1. NoJob \in JobWith("none", 0, 0)
  BY DEF NoJob, JobWith, Pc
<1>. QED
  BY <1>1 DEF NoJob, IsJob

\* The job of one that begins a visit.
LEMMA NewVisit ==
  ASSUME NEW pc \in Pc, NEW op, NEW a, NEW k, k = Visit(pc, op, a)
  PROVE  IsJob(k) /\ k.pc = pc /\ k.op = op /\ k.a = a /\ ~k.disturbed
<1>1. k = [pc |-> pc, op |-> op, a |-> a, loaded |-> 0, disturbed |-> FALSE]
  BY DEF NoJob, Visit
<1>2. k \in JobWith(op, a, 0)
  BY <1>1 DEF JobWith
<1>3. k.pc = pc /\ k.op = op /\ k.a = a /\ ~k.disturbed
  BY <1>1
<1>. QED
  BY <1>2, <1>3 DEF IsJob

\* An update checks, opens and touches the bytes of its element.
LEMMA ElementTouched ==
  ASSUME NEW op \in Updates, NEW a
  PROVE  Touched(op, a) = Element(a) /\ Covered(a, Size) = Element(a)
BY DEF Updates, Touched, Covered, Element

\* A visit begins where what it uses is mapped, or ends.
LEMMA BeginKeeps ==
  ASSUME IInv, NEW t \in Thread, NEW a,
         \/ \E op \in Updates : BeginUpdate(t, op, a)
         \/ \E op \in {"get", "deref"} : BeginRead(t, op, a)
  PROVE  IInv'
<1>1. PICK pc, op : /\ pc \in {"open", "read"} /\ (pc = "open" => op \in Updates)
                    /\ job' = [job EXCEPT ![t] = Visit(pc, op, a)]
                    /\ UNCHANGED <<prot, faulted>> /\ faulted = {}
                    /\ Mapped(Touched(op, a))
  <2>1. ASSUME NEW op \in Updates, BeginUpdate(t, op, a)
        PROVE  /\ job' = [job EXCEPT ![t] = Visit("open", op, a)]
               /\ UNCHANGED <<prot, faulted>> /\ faulted = {} /\ Mapped(Touched(op, a))
    BY <2>1, ElementTouched DEF BeginUpdate, Visit, Idle, Here, hook_is_readable, hook_is_writeable
  <2>2. ASSUME NEW op \in {"get", "deref"}, BeginRead(t, op, a)
        PROVE  /\ job' = [job EXCEPT ![t] = Visit("read", op, a)]
               /\ UNCHANGED <<prot, faulted>> /\ faulted = {} /\ Mapped(Touched(op, a))
    BY <2>2 DEF BeginRead, Visit, Idle, Here, hook_is_readable, Covered, Touched, Element
  <2>. QED
    BY <2>1, <2>2
<1>2. PICK new : new = Visit(pc, op, a)
  OBVIOUS
<1>3. IsJob(new) /\ new.pc = pc /\ new.a = a /\ new.op = op
  <2>1. pc \in Pc
    BY <1>1 DEF Pc
  <2>. QED
    BY <1>2, <2>1, NewVisit
<1>4. Mapped(Touched(op, a))'
  BY <1>1 DEF Mapped, Touched, Element
<1>5. Knows(new)'
  <2>1. pc \notin {"load", "store"} /\ (pc = "open" => op \in Updates)
    BY <1>1
  <2>. QED
    BY <1>3, <1>4, <2>1 DEF Knows, Updating
<1>6. job' = [job EXCEPT ![t] = new] /\ prot' \in [Pages -> {"free", "read", "execute_write"}]
  BY <1>1, <1>2 DEF IInv
<1>. QED
  BY <1>1, <1>3, <1>5, <1>6, JobStep

\* An access that is not allowed is one whose pages were disturbed.
LEMMA AccessKnows ==
  ASSUME IInv, NEW t \in Thread, job[t].pc \in {"read", "load", "store"}, ~job[t].disturbed
  PROVE  /\ MayRead(job[t].op, job[t].a)
         /\ job[t].pc = "store" => MayWrite(job[t].op, job[t].a)
<1>1. Knows(job[t])
  BY DEF IInv
<1>2. Mapped(Touched(job[t].op, job[t].a))
  BY <1>1 DEF Knows
<1>3. job[t].pc = "store" => Open(Touched(job[t].op, job[t].a))
  BY <1>1 DEF Knows
<1>. QED
  BY <1>2, <1>3 DEF MayRead, MayWrite

\* The access that is not allowed ends the process and changes no job.
LEMMA FaultKeeps ==
  ASSUME IInv, NEW t \in Thread, job[t].disturbed, faulted' = {t}, UNCHANGED <<prot, job>>
  PROVE  IInv'
BY DEF IInv, Knows, Updating, Mapped, Open, Touched, Element

\* Visits that end leave nothing to know.
LEMMA EndKeeps ==
  ASSUME IInv, faulted = {}, NEW t \in Thread, job' = [job EXCEPT ![t] = NoJob], UNCHANGED <<prot, faulted>>
  PROVE  IInv'
<1>1. IsJob(NoJob) /\ Knows(NoJob)' /\ prot' \in [Pages -> {"free", "read", "execute_write"}]
  BY NoVisit DEF Knows, Updating, IInv
<1>. QED
  BY <1>1, JobStep

\* The read of get_value or operator*.
LEMMA ReadKeeps ==
  ASSUME IInv, NEW t \in Thread, Read(t)
  PROVE  IInv'
<1>1. CASE MayRead(job[t].op, job[t].a)
  <2>1. job' = [job EXCEPT ![t] = NoJob] /\ UNCHANGED <<prot, faulted>> /\ faulted = {}
    BY <1>1 DEF Read, Access
  <2>. QED
    BY <2>1, EndKeeps
<1>2. CASE ~MayRead(job[t].op, job[t].a)
  <2>1. job[t].pc = "read" /\ faulted' = {t} /\ UNCHANGED <<prot, job>>
    BY <1>2 DEF Read, Access
  <2>2. job[t].disturbed
    BY <1>2, <2>1, AccessKnows DEF IInv
  <2>. QED
    BY <2>1, <2>2, FaultKeeps
<1>. QED
  BY <1>1, <1>2

\* The load of an update; its element stays open.
LEMMA LoadKeeps ==
  ASSUME IInv, NEW t \in Thread, Load(t)
  PROVE  IInv'
<1>1. CASE MayRead(job[t].op, job[t].a)
  <2>1. PICK v : v = Word(mem, job[t].a, Size)
    OBVIOUS
  <2>2. PICK old : old = job[t]
    OBVIOUS
  <2>3. PICK new : new = Loaded(old, "store", v)
    OBVIOUS
  <2>4. job' = [job EXCEPT ![t] = new] /\ UNCHANGED <<prot, faulted>> /\ faulted = {} /\ old.pc = "load"
    BY <1>1, <2>1, <2>2, <2>3 DEF Load, Access, Loaded
  <2>5. IsJob(old) /\ Knows(old) /\ Knows(old)'
    BY <2>2, <2>4 DEF IInv, Knows, Mapped, Open
  <2>6. /\ IsJob(new) /\ new.pc = "store" /\ new.a = old.a /\ new.op = old.op
        /\ new.disturbed = old.disturbed
    <3>1. "store" \in Pc
      BY DEF Pc
    <3>. QED
      BY <2>3, <2>5, <3>1, Changed
  <2>7. Knows(new)'
    BY <2>4, <2>5, <2>6 DEF Knows, Updating
  <2>8. prot' \in [Pages -> {"free", "read", "execute_write"}]
    BY <2>4 DEF IInv
  <2>. QED
    BY <2>4, <2>6, <2>7, <2>8, JobStep
<1>2. CASE ~MayRead(job[t].op, job[t].a)
  <2>1. job[t].pc = "load" /\ faulted' = {t} /\ UNCHANGED <<prot, job>>
    BY <1>2 DEF Load, Access
  <2>2. job[t].disturbed
    BY <1>2, <2>1, AccessKnows DEF IInv
  <2>. QED
    BY <2>1, <2>2, FaultKeeps
<1>. QED
  BY <1>1, <1>2

\* The store of an update.
LEMMA StoreKeeps ==
  ASSUME IInv, NEW t \in Thread, Store(t)
  PROVE  IInv'
<1>1. CASE MayWrite(job[t].op, job[t].a)
  <2>1. job' = [job EXCEPT ![t] = NoJob] /\ UNCHANGED <<prot, faulted>> /\ faulted = {}
    BY <1>1 DEF Store, Access
  <2>. QED
    BY <2>1, EndKeeps
<1>2. CASE ~MayWrite(job[t].op, job[t].a)
  <2>1. job[t].pc = "store" /\ faulted' = {t} /\ UNCHANGED <<prot, job>>
    BY <1>2 DEF Store, Access
  <2>2. job[t].disturbed
    BY <1>2, <2>1, AccessKnows DEF IInv
  <2>. QED
    BY <2>1, <2>2, FaultKeeps
<1>. QED
  BY <1>1, <1>2

\* Opening pages for writing adds rights to mapped pages only.
LEMMA OpenKeeps ==
  ASSUME IInv, NEW t \in Thread, hook_make_writeable(t)
  PROVE  IInv'
<1>1. PICK old : old = job[t]
  OBVIOUS
<1>2. PICK pc \in {"store", "load"} : pc = IF job[t].op = "set" THEN "store" ELSE "load"
  OBVIOUS
<1>3. PICK new : new = At(old, pc)
  OBVIOUS
<1>4. old.pc = "open" /\ old.op \in Updates
  BY <1>1 DEF hook_make_writeable, IInv, Knows, Updating
<1>5. PICK S : S = Touched(old.op, old.a) /\ S = Covered(old.a, Size)
  BY <1>4, ElementTouched
<1>6. /\ job' = [job EXCEPT ![t] = new] /\ UNCHANGED faulted /\ faulted = {}
      /\ Mapped(S)
      /\ prot' = [g \in Pages |-> IF \E b \in S : b \div PageBytes = g
                                   THEN "execute_write" ELSE prot[g]]
  BY <1>1, <1>2, <1>3, <1>5 DEF hook_make_writeable, Writeable, At
<1>7. IsJob(new) /\ new.pc = pc /\ new.a = old.a /\ new.op = old.op
  <2>1. IsJob(old)
    BY <1>1 DEF IInv
  <2>2. pc \in Pc
    BY DEF Pc
  <2>. QED
    BY <1>3, <2>1, <2>2, Changed
<1>8. \A b \in S : b \in Bytes /\ prot[b \div PageBytes] # "free" /\ b \div PageBytes \in Pages
  BY <1>6 DEF Mapped, Bytes
<1>9. \A b \in S : prot'[b \div PageBytes] = "execute_write"
  BY <1>6, <1>8
<1>10. Mapped(S)' /\ Open(S)'
  BY <1>8, <1>9 DEF Mapped, Open, Bytes
<1>11. Knows(new)'
  BY <1>4, <1>5, <1>7, <1>10 DEF Knows
<1>12. prot' \in [Pages -> {"free", "read", "execute_write"}]
  BY <1>6 DEF IInv
<1>13. \A g \in Pages : prot'[g] = prot[g] \/ (prot[g] # "free" /\ prot'[g] = "execute_write")
  BY <1>6, <1>8
<1>. QED
  BY <1>6, <1>7, <1>11, <1>12, <1>13, JobStep

\* The visits that a change of page g to p disturbs.
Hit(j, g, p) ==
  /\ j.pc # "idle" /\ (p = "free" \/ j.op \in Updates)
  /\ \E a \in Touched(j.op, j.a) : a \div PageBytes = g

\* Who takes rights away disturbs the visits of the page.
LEMMA ProtectKeeps ==
  ASSUME IInv, NEW g \in Pages, NEW p \in {"free", "read"}, Protect(g, p)
  PROVE  IInv'
<1>1. /\ prot' = [prot EXCEPT ![g] = p] /\ UNCHANGED faulted /\ faulted = {}
      /\ job' = [t \in Thread |-> IF Hit(job[t], g, p) THEN Disturbed(job[t]) ELSE job[t]]
  BY DEF Protect, Hit, Disturbed
<1>2. ASSUME NEW t \in Thread PROVE (IsJob(job[t]) /\ Knows(job[t]))'
  <2>1. PICK j : j = job[t]
    OBVIOUS
  <2>2. PICK k : k = Disturbed(j)
    OBVIOUS
  <2>3. IsJob(j) /\ Knows(j)
    BY <2>1 DEF IInv
  <2>4. IsJob(k) /\ k.disturbed /\ k.pc = j.pc /\ k.op = j.op
    BY <2>2, <2>3, DisturbedJob
  <2>5. CASE Hit(j, g, p)
    <3>1. job'[t] = k
      BY <1>1, <2>1, <2>2, <2>5
    <3>. QED
      BY <2>3, <2>4, <3>1 DEF Knows, Updating
  <2>6. CASE ~Hit(j, g, p)
    <3>1. job'[t] = j
      BY <1>1, <2>1, <2>6
    <3>2. PICK S : S = Touched(j.op, j.a)
      OBVIOUS
    <3>3. CASE j.pc # "idle" /\ \A a \in S : a \div PageBytes # g
      <4>1. \A a \in S : prot'[a \div PageBytes] = prot[a \div PageBytes]
        BY <1>1, <3>3 DEF IInv
      <4>2. (Mapped(S) => Mapped(S)') /\ (Open(S) => Open(S)')
        BY <4>1 DEF Mapped, Open, Bytes
      <4>. QED
        BY <2>3, <3>1, <3>2, <4>2 DEF Knows
    <3>4. CASE p # "free" /\ j.op \notin Updates
      <4>1. ~Updating(j)
        BY <2>3, <3>4 DEF Knows
      <4>2. \A a \in S : a \div PageBytes \in Pages => (prot[a \div PageBytes] # "free" => prot'[a \div PageBytes] # "free")
        BY <1>1, <3>4 DEF IInv
      <4>3. Mapped(S) => Mapped(S)'
        BY <4>2 DEF Mapped, Bytes
      <4>. QED
        BY <2>3, <3>1, <3>2, <4>1, <4>3 DEF Knows, Updating
    <3>5. CASE j.pc = "idle"
      BY <2>3, <3>1, <3>5 DEF Knows, Updating
    <3>. QED
      BY <2>6, <3>2, <3>3, <3>4, <3>5 DEF Hit
  <2>. QED
    BY <2>5, <2>6
<1>3. job' = [t \in Thread |-> job'[t]] /\ prot' \in [Pages -> {"free", "read", "execute_write"}]
  BY <1>1 DEF IInv
<1>. QED
  BY <1>1, <1>2, <1>3 DEF IInv

-----------------------------------------------------------------------------
\* Nobody visits anything in the beginning.
LEMMA Begins == Init => IInv
<1>. SUFFICES ASSUME Init PROVE IInv
  OBVIOUS
<1>1. \A t \in Thread : job[t] = NoJob
  BY DEF Init
<1>. QED
  BY <1>1, NoVisit DEF Init, IInv, Knows, Updating

\* Every step keeps the invariant.
LEMMA NextKeeps == IInv /\ [Next]_vars => IInv'
<1>. SUFFICES ASSUME IInv, [Next]_vars PROVE IInv'
  OBVIOUS
<1>1. ASSUME UNCHANGED <<prot, job, faulted>> PROVE IInv'
  BY <1>1 DEF IInv, Knows, Updating, Mapped, Open, Touched, Element
<1>2. ASSUME Move \/ DerefUnreadable \/ UNCHANGED vars PROVE IInv'
  BY <1>1, <1>2 DEF Move, DerefUnreadable, vars
<1>3. ASSUME NEW t \in Thread, MakeWriteableDenied(t) PROVE IInv'
  BY <1>3, EndKeeps DEF MakeWriteableDenied
<1>4. ASSUME NEW t \in Thread,
             \/ \E a \in Targets(t), op \in Updates : BeginUpdate(t, op, a)
             \/ \E a \in Targets(t), op \in {"get", "deref"} : BeginRead(t, op, a)
      PROVE  IInv'
  BY <1>4, BeginKeeps
<1>. QED
  BY <1>2, <1>3, <1>4, ReadKeeps, OpenKeeps, LoadKeeps, StoreKeeps, ProtectKeeps DEF Next

\* The access of a visitor faults only if somebody took one of its own pages away
\* between its check and its access, whatever other visitors do and whatever
\* happens to theirs, for any number of threads and pages
\* (value_visitor.inl 114-177, HooklibCPP.cpp 230-274).
THEOREM OnlyDisturbedFault == Spec => []CheckedAccessesNeverFault
<1>1. IInv => CheckedAccessesNeverFault
  BY DEF IInv, CheckedAccessesNeverFault
<1>. QED
  BY <1>1, Begins, NextKeeps, PTL DEF Spec

-----------------------------------------------------------------------------
(* Updates.  A thread that is to store knows what its element holds, since *)
(* nobody else may store there.                                            *)

\* Whether a job's result would be the same with the bytes m.
StoresRight(j, m) == j.pc = "store" /\ j.op # "set" => j.loaded = Word(m, j.a, Size)

\* A visit is of bytes there are, and has the kind its steps say.
Visiting(j) ==
  /\ j.pc # "idle" => Touched(j.op, j.a) \subseteq Bytes
  /\ j.pc = "read" => j.op \notin Updates
  /\ Updating(j) => j.op \in Updates

Apart(j, k) == Updating(j) /\ Updating(k) => Element(j.a) \cap Element(k.a) = {}

UpdateInv ==
  /\ mem = [b \in Bytes |-> mem[b]]
  /\ job = [t \in Thread |-> job[t]]
  /\ \A t \in Thread : Visiting(job[t])
  /\ ~raced => /\ mem = want
               /\ \A t \in Thread : StoresRight(job[t], mem)
               /\ \A t, u \in Thread : t # u => Apart(job[t], job[u])

\* An element's value is that of its bytes.
LEMMA SameBytes ==
  ASSUME NEW m, NEW w, NEW a, \A b \in Element(a) : m[b] = w[b]
  PROVE  Word(m, a, Size) = Word(w, a, Size)
<1>1. \A i \in 0 .. Size - 1 : m[ToAddress(a + i)] = w[ToAddress(a + i)]
  BY DEF Element, Span
<1>. QED
  BY <1>1 DEF Word

\* What a store leaves alone.
LEMMA StoredElsewhere ==
  ASSUME NEW m, NEW a, NEW v, NEW c, Element(c) \subseteq Bytes, Element(a) \cap Element(c) = {}
  PROVE  m = [b \in Bytes |-> m[b]] => Word(Stored(m, a, v), c, Size) = Word(m, c, Size)
<1>1. ASSUME NEW b \in Element(c) PROVE Stored(m, a, v)[b] = m[b]
  BY DEF Stored
<1>. QED
  BY <1>1, SameBytes

\* A step of one thread that stores nothing.
LEMMA OneJob ==
  ASSUME UpdateInv, NEW t \in Thread, NEW new, job' = [job EXCEPT ![t] = new],
         UNCHANGED <<mem, want>>, Visiting(new),
         ~raced' => ~raced,
         ~raced' => StoresRight(new, mem) /\ \A u \in Thread : u # t => Apart(new, job[u])
  PROVE  UpdateInv'
<1>1. job' = [u \in Thread |-> job'[u]] /\ job'[t] = new /\ \A u \in Thread : u # t => job'[u] = job[u]
  BY DEF UpdateInv
<1>2. \A u \in Thread : Visiting(job'[u])
  BY <1>1 DEF UpdateInv
<1>3. ASSUME ~raced'
      PROVE  /\ mem = want
             /\ \A u \in Thread : StoresRight(job'[u], mem)
             /\ \A u, v \in Thread : u # v => Apart(job'[u], job'[v])
  <2>1. /\ mem = want
        /\ \A u \in Thread : StoresRight(job'[u], mem)
    BY <1>1, <1>3 DEF UpdateInv
  <2>2. ASSUME NEW u \in Thread, NEW v \in Thread, u # v PROVE Apart(job'[u], job'[v])
    <3>1. CASE u # t /\ v # t
      BY <1>1, <1>3, <2>2, <3>1 DEF UpdateInv
    <3>2. CASE u = t
      BY <1>1, <1>3, <2>2, <3>2
    <3>3. CASE v = t
      <4>1. Apart(new, job[u])
        BY <1>3, <2>2, <3>3
      <4>2. Apart(job[u], new)
        BY <4>1 DEF Apart
      <4>. QED
        BY <1>1, <2>2, <3>3, <4>2
    <3>. QED
      BY <3>1, <3>2, <3>3
  <2>. QED
    BY <2>1, <2>2
<1>4. job' = [u \in Thread |-> job'[u]]
  BY <1>1
<1>. QED
  BY <1>2, <1>3, <1>4 DEF UpdateInv

\* A visit that ends, by itself or not.
LEMMA EndOfVisit ==
  ASSUME UpdateInv, NEW t \in Thread, job' = [job EXCEPT ![t] = NoJob], UNCHANGED <<mem, want, raced>>
  PROVE  UpdateInv'
<1>1. PICK new : new = NoJob
  OBVIOUS
<1>2. new.pc = "idle"
  BY <1>1, NoVisit
<1>3. Visiting(new) /\ StoresRight(new, mem) /\ \A k : Apart(new, k)
  BY <1>2 DEF Visiting, StoresRight, Apart, Updating
<1>. QED
  BY <1>1, <1>3, OneJob

\* A visit that begins is apart from the others, or there is a race.
LEMMA BeginsApart ==
  ASSUME IInv, UpdateInv, NEW t \in Thread, NEW a,
         \/ \E op \in Updates : BeginUpdate(t, op, a)
         \/ \E op \in {"get", "deref"} : BeginRead(t, op, a)
  PROVE  UpdateInv'
<1>1. ASSUME NEW op \in Updates, BeginUpdate(t, op, a) PROVE UpdateInv'
  <2>1. PICK new : new = Visit("open", op, a)
    OBVIOUS
  <2>2. /\ job' = [job EXCEPT ![t] = new] /\ UNCHANGED <<mem, want>> /\ ~raced
        /\ Mapped(Element(a)) /\ raced' = Overlap(t, a)
    BY <1>1, <2>1, ElementTouched DEF BeginUpdate, Visit, Idle, Here, hook_is_readable, hook_is_writeable
  <2>3. new.pc = "open" /\ new.op = op /\ new.a = a
    BY <2>1, NewVisit DEF Pc
  <2>4. Visiting(new) /\ StoresRight(new, mem)
    BY <1>1, <2>2, <2>3, ElementTouched DEF Visiting, StoresRight, Updating, Mapped
  <2>5. ASSUME ~Overlap(t, a), NEW u \in Thread, u # t PROVE Apart(new, job[u])
    <3>1. Visiting(job[u])
      BY DEF UpdateInv
    <3>2. Updating(job[u]) => Element(job[u].a) \cap Element(a) = {}
      BY <2>5, <3>1 DEF Visiting, Updating, Overlap
    <3>. QED
      BY <2>3, <3>2 DEF Apart
  <2>. QED
    BY <2>2, <2>4, <2>5, OneJob
<1>2. ASSUME NEW op \in {"get", "deref"}, BeginRead(t, op, a) PROVE UpdateInv'
  <2>1. PICK new : new = Visit("read", op, a)
    OBVIOUS
  <2>2. /\ job' = [job EXCEPT ![t] = new] /\ UNCHANGED <<mem, want, raced>>
        /\ Mapped(Touched(op, a))
    BY <1>2, <2>1 DEF BeginRead, Visit, hook_is_readable, Covered, Touched, Element
  <2>3. new.pc = "read" /\ new.op = op /\ new.a = a
    BY <2>1, NewVisit DEF Pc
  <2>4. Visiting(new) /\ StoresRight(new, mem) /\ \A k : Apart(new, k)
    BY <2>2, <2>3 DEF Visiting, StoresRight, Apart, Updating, Mapped, Updates
  <2>. QED
    BY <2>2, <2>4, OneJob
<1>. QED
  BY <1>1, <1>2

\* A step inside an update keeps it apart from the others.
LEMMA UpdateGoesOn ==
  ASSUME UpdateInv, NEW t \in Thread, NEW new, job' = [job EXCEPT ![t] = new],
         UNCHANGED <<mem, want, raced>>, Updating(job[t]), Updating(new),
         new.op = job[t].op, new.a = job[t].a, StoresRight(new, mem)
  PROVE  UpdateInv'
<1>1. Visiting(job[t]) /\ Element(new.a) = Element(job[t].a)
  BY DEF UpdateInv
<1>2. Visiting(new)
  BY <1>1 DEF Visiting, Updating
<1>3. ASSUME ~raced, NEW u \in Thread, u # t PROVE Apart(new, job[u])
  <2>1. Apart(job[t], job[u])
    BY <1>3 DEF UpdateInv
  <2>. QED
    BY <1>1, <2>1 DEF Apart
<1>. QED
  BY <1>2, <1>3, OneJob

\* Making the page writable.
LEMMA OpenUpdates ==
  ASSUME IInv, UpdateInv, NEW t \in Thread, hook_make_writeable(t)
  PROVE  UpdateInv'
<1>1. PICK old : old = job[t]
  OBVIOUS
<1>2. PICK pc \in {"store", "load"} : pc = IF job[t].op = "set" THEN "store" ELSE "load"
  OBVIOUS
<1>3. PICK new : new = At(old, pc)
  OBVIOUS
<1>4. /\ job' = [job EXCEPT ![t] = new] /\ UNCHANGED <<mem, want, raced>> /\ old.pc = "open"
  BY <1>1, <1>2, <1>3 DEF hook_make_writeable, At
<1>5. new.pc = pc /\ new.op = old.op /\ new.a = old.a
  <2>1. IsJob(old) /\ pc \in Pc
    BY <1>1 DEF IInv, Pc
  <2>. QED
    BY <1>3, <2>1, Changed
<1>6. StoresRight(new, mem)
  BY <1>1, <1>2, <1>5 DEF StoresRight
<1>7. Updating(old) /\ Updating(new)
  BY <1>4, <1>5 DEF Updating
<1>. QED
  BY <1>1, <1>4, <1>5, <1>6, <1>7, UpdateGoesOn

\* The load of an update.
LEMMA LoadUpdates ==
  ASSUME IInv, UpdateInv, NEW t \in Thread, Load(t)
  PROVE  UpdateInv'
<1>1. CASE MayRead(job[t].op, job[t].a)
  <2>1. PICK v : v = Word(mem, job[t].a, Size)
    OBVIOUS
  <2>2. PICK old : old = job[t]
    OBVIOUS
  <2>3. PICK new : new = Loaded(old, "store", v)
    OBVIOUS
  <2>4. job' = [job EXCEPT ![t] = new] /\ UNCHANGED <<mem, want, raced>> /\ old.pc = "load"
    BY <1>1, <2>1, <2>2, <2>3 DEF Load, Access, Loaded
  <2>5. new.pc = "store" /\ new.a = old.a /\ new.op = old.op /\ new.loaded = v
    <3>1. IsJob(old) /\ "store" \in Pc
      BY <2>2 DEF IInv, Pc
    <3>. QED
      BY <2>3, <3>1, Changed
  <2>6. StoresRight(new, mem)
    BY <2>1, <2>2, <2>5 DEF StoresRight
  <2>7. Updating(old) /\ Updating(new)
    BY <2>4, <2>5 DEF Updating
  <2>. QED
    BY <2>2, <2>4, <2>5, <2>6, <2>7, UpdateGoesOn
<1>2. CASE ~MayRead(job[t].op, job[t].a)
  <2>1. UNCHANGED <<mem, want, raced, job>>
    BY <1>2 DEF Load, Access
  <2>. QED
    BY <2>1 DEF UpdateInv
<1>. QED
  BY <1>1, <1>2

\* What the thread stores is what its update makes of memory as it is, and
\* other threads' elements stay as they are.
LEMMA StoreUpdates ==
  ASSUME IInv, UpdateInv, NEW t \in Thread, Store(t)
  PROVE  UpdateInv'
<1>1. CASE MayWrite(job[t].op, job[t].a)
  <2>. PICK j, v, w :
         /\ j = job[t] /\ v = Updated(j.op, j.loaded)
         /\ w = CASE j.op = "set" -> 1
                  [] j.op = "add" -> (Word(want, j.a, Size) + 1) % PowerOfTwo[Size]
                  [] j.op = "sub" -> (Word(want, j.a, Size) - 1) % PowerOfTwo[Size]
    OBVIOUS
  <2>1. /\ j.pc = "store" /\ raced' = raced
        /\ mem' = Stored(mem, j.a, v) /\ want' = Stored(want, j.a, w)
        /\ job' = [job EXCEPT ![t] = NoJob]
    BY <1>1 DEF Store, Access
  <2>2. job'[t] = NoJob /\ NoJob.pc = "idle" /\ \A u \in Thread : u # t => job'[u] = job[u]
    BY <2>1, NoVisit DEF UpdateInv
  <2>3. job' = [u \in Thread |-> job'[u]]
    BY <2>1 DEF UpdateInv
  <2>4. mem' = [b \in Bytes |-> mem'[b]]
    BY <2>1 DEF Stored
  <2>5. Visiting(NoJob)
    BY <2>2 DEF Visiting, Updating
  <2>6. ASSUME ~raced
        PROVE  /\ mem' = want'
               /\ \A u \in Thread : StoresRight(job'[u], mem')
               /\ \A u, x \in Thread : u # x => Apart(job'[u], job'[x])
    <3>1. mem = want /\ StoresRight(j, mem) /\ Visiting(j)
      BY <2>6 DEF UpdateInv
    <3>2. j.op \in Updates
      BY <2>1, <3>1 DEF Visiting, Updating
    <3>3. v = w
      BY <2>1, <3>1, <3>2 DEF StoresRight, Updated, Updates
    <3>4. mem' = want'
      BY <2>1, <3>1, <3>3
    <3>5. ASSUME NEW u \in Thread, u # t PROVE StoresRight(job[u], mem')
      <4>1. Apart(j, job[u]) /\ Visiting(job[u]) /\ StoresRight(job[u], mem)
        BY <2>6, <3>5 DEF UpdateInv
      <4>2. job[u].pc = "store" => /\ Element(j.a) \cap Element(job[u].a) = {}
                                  /\ Element(job[u].a) \subseteq Bytes
        BY <2>1, <4>1, ElementTouched DEF Apart, Updating, Visiting
      <4>3. job[u].pc = "store" => Word(mem', job[u].a, Size) = Word(mem, job[u].a, Size)
        BY <2>1, <4>2, StoredElsewhere DEF UpdateInv
      <4>. QED
        BY <4>1, <4>3 DEF StoresRight
    <3>6. StoresRight(NoJob, mem') /\ \A k : Apart(NoJob, k) /\ Apart(k, NoJob)
      BY <2>2 DEF StoresRight, Apart, Updating
    <3>7. \A u \in Thread : StoresRight(job'[u], mem')
      BY <2>2, <3>5, <3>6
    <3>8. \A u, x \in Thread : u # x => Apart(job'[u], job'[x])
      BY <2>2, <2>6, <3>6 DEF UpdateInv
    <3>. QED
      BY <3>4, <3>7, <3>8
  <2>7. \A u \in Thread : Visiting(job'[u])
    BY <2>2, <2>5 DEF UpdateInv
  <2>. QED
    BY <2>1, <2>3, <2>4, <2>6, <2>7 DEF UpdateInv
<1>2. CASE ~MayWrite(job[t].op, job[t].a)
  <2>1. UNCHANGED <<mem, want, raced, job>>
    BY <1>2 DEF Store, Access
  <2>. QED
    BY <2>1 DEF UpdateInv
<1>. QED
  BY <1>1, <1>2

\* Disturbing a visit changes nothing of its update.
LEMMA ProtectUpdates ==
  ASSUME IInv, UpdateInv, NEW g \in Pages, NEW p \in {"free", "read"}, Protect(g, p)
  PROVE  UpdateInv'
<1>1. /\ UNCHANGED <<mem, want, raced>>
      /\ job' = [t \in Thread |-> IF Hit(job[t], g, p) THEN Disturbed(job[t]) ELSE job[t]]
  BY DEF Protect, Hit, Disturbed
<1>2. ASSUME NEW t \in Thread
      PROVE  /\ job'[t].pc = job[t].pc /\ job'[t].op = job[t].op
             /\ job'[t].a = job[t].a /\ job'[t].loaded = job[t].loaded
  <2>1. IsJob(job[t]) /\ (job'[t] = job[t] \/ job'[t] = Disturbed(job[t]))
    BY <1>1 DEF IInv
  <2>. QED
    BY <2>1, DisturbedJob
<1>3. job' = [t \in Thread |-> job'[t]] /\ UpdateInv
  BY <1>1
<1>4. \A t \in Thread : Updating(job'[t]) <=> Updating(job[t])
  BY <1>2 DEF Updating
<1>5. \A t \in Thread : Visiting(job'[t]) /\ (StoresRight(job[t], mem) => StoresRight(job'[t], mem))
  BY <1>2, <1>3, <1>4 DEF UpdateInv, Visiting, StoresRight
<1>6. \A t, u \in Thread : Apart(job[t], job[u]) => Apart(job'[t], job'[u])
  BY <1>2, <1>4 DEF Apart
<1>. QED
  BY <1>1, <1>3, <1>5, <1>6 DEF UpdateInv

\* Nobody updates anything in the beginning.
LEMMA UpdatesBegin == Init => UpdateInv
<1>. SUFFICES ASSUME Init PROVE UpdateInv
  OBVIOUS
<1>1. \A t \in Thread : job[t] = NoJob
  BY DEF Init
<1>2. NoJob.pc = "idle"
  BY NoVisit
<1>3. Visiting(NoJob) /\ StoresRight(NoJob, mem) /\ Apart(NoJob, NoJob)
  BY <1>2 DEF Visiting, StoresRight, Apart, Updating
<1>. QED
  BY <1>1, <1>3 DEF Init, UpdateInv

\* Every step keeps updates apart until two of them race.
LEMMA UpdatesKept == IInv /\ UpdateInv /\ [Next]_vars => UpdateInv'
<1>. SUFFICES ASSUME IInv, UpdateInv, [Next]_vars PROVE UpdateInv'
  OBVIOUS
<1>1. ASSUME UNCHANGED <<mem, want, raced, job>> PROVE UpdateInv'
  BY <1>1 DEF UpdateInv
<1>2. ASSUME Move \/ DerefUnreadable \/ UNCHANGED vars PROVE UpdateInv'
  BY <1>1, <1>2 DEF Move, DerefUnreadable, vars
<1>3. ASSUME NEW t \in Thread, MakeWriteableDenied(t) PROVE UpdateInv'
  BY <1>3, EndOfVisit DEF MakeWriteableDenied
<1>4. ASSUME NEW t \in Thread,
             \/ \E a \in Targets(t), op \in Updates : BeginUpdate(t, op, a)
             \/ \E a \in Targets(t), op \in {"get", "deref"} : BeginRead(t, op, a)
      PROVE  UpdateInv'
  BY <1>4, BeginsApart
<1>5. ASSUME NEW t \in Thread, Read(t) PROVE UpdateInv'
  <2>1. UNCHANGED <<mem, want, raced>> /\ (job' = job \/ job' = [job EXCEPT ![t] = NoJob])
    BY <1>5 DEF Read, Access
  <2>. QED
    BY <1>1, <2>1, EndOfVisit
<1>. QED
  BY <1>2, <1>3, <1>4, <1>5, OpenUpdates, LoadUpdates, StoreUpdates, ProtectUpdates DEF Next

\* As long as no two updates of the same bytes are under way at a time, memory
\* is what the updates one after the other make of it, for any number of
\* threads, pages, addresses and sizes of an element
\* (value_visitor.inl 116-177).
THEOREM NoUpdateLost == Spec => []UpdatesNotLost
<1>1. UpdateInv => UpdatesNotLost
  BY DEF UpdateInv, UpdatesNotLost
<1>. QED
  BY <1>1, Begins, NextKeeps, UpdatesBegin, UpdatesKept, PTL DEF Spec

-----------------------------------------------------------------------------
(* Numbers: recursion over 0 .. N, powers of two and remainders.           *)

\* What holds of 0, and of a number if of the one before, holds up to N.
LEMMA UpTo ==
  ASSUME NEW N \in Nat, NEW S, 0 \in S, \A n \in 0 .. N - 1 : n \in S => n + 1 \in S
  PROVE  \A n \in 0 .. N : n \in S
<1>. SUFFICES ASSUME NEW k \in 0 .. N, k \notin S PROVE FALSE
  OBVIOUS
<1>1. PICK x \in Nat \ S : \A y \in Nat \ S : ~ (<<y, x>> \in OpToRel(<,Nat))
  <2>1. Nat \ S \subseteq Nat /\ Nat \ S # {}
    OBVIOUS
  <2>. QED
    BY <2>1, NatLessThanWellFounded, WFMin
<1>2. \A y \in Nat \ S : ~(y < x)
  BY <1>1 DEF OpToRel
<1>3. x # 0 /\ x <= N
  BY <1>2
<1>4. x - 1 \in 0 .. N - 1 /\ x - 1 < x /\ (x - 1) + 1 = x
  BY <1>3
<1>5. x - 1 \in S
  BY <1>2, <1>4
<1>. QED
  BY <1>4, <1>5

\* A function whose values follow one from the other.
Follows(N, a, G, f) == f[0] = a /\ \A i \in 1 .. N : f[i] = G[i][f[i - 1]]

LEMMA Recursion ==
  ASSUME NEW S, NEW a \in S, NEW N \in Nat, NEW G \in [1 .. N -> [S -> S]]
  PROVE  \E f \in [0 .. N -> S] : Follows(N, a, G, f)
<1>. DEFINE D == {n \in 0 .. N : \E f \in [0 .. n -> S] : Follows(n, a, G, f)}
<1>1. 0 \in D
  <2>1. PICK f : f = [i \in 0 .. 0 |-> a]
    OBVIOUS
  <2>2. f \in [0 .. 0 -> S] /\ Follows(0, a, G, f)
    BY <2>1 DEF Follows
  <2>. QED
    BY <2>2
<1>2. ASSUME NEW n \in 0 .. N - 1, n \in D PROVE n + 1 \in D
  <2>1. PICK f \in [0 .. n -> S] : Follows(n, a, G, f)
    BY <1>2
  <2>2. PICK x \in S : x = G[n + 1][f[n]]
    <3>1. n + 1 \in 1 .. N /\ f[n] \in S
      OBVIOUS
    <3>. QED
      BY <3>1
  <2>3. PICK g : g = [i \in 0 .. n + 1 |-> IF i = n + 1 THEN x ELSE f[i]]
    OBVIOUS
  <2>4. g \in [0 .. n + 1 -> S] /\ g[n + 1] = x /\ \A i \in 0 .. n : g[i] = f[i]
    BY <2>3
  <2>5. ASSUME NEW i \in 1 .. n + 1 PROVE g[i] = G[i][g[i - 1]]
    <3>1. CASE i = n + 1
      <4>1. i - 1 = n /\ g[n] = f[n]
        BY <2>4, <3>1
      <4>. QED
        BY <2>2, <2>4, <3>1, <4>1
    <3>2. CASE i # n + 1
      <4>1. i \in 1 .. n /\ i \in 0 .. n /\ i - 1 \in 0 .. n
        BY <3>2
      <4>2. f[i] = G[i][f[i - 1]]
        BY <2>1, <4>1 DEF Follows
      <4>. QED
        BY <2>4, <4>1, <4>2
    <3>. QED
      BY <3>1, <3>2
  <2>6. Follows(n + 1, a, G, g)
    BY <2>1, <2>4, <2>5 DEF Follows
  <2>7. n + 1 \in 0 .. N
    OBVIOUS
  <2>. QED
    BY <2>4, <2>6, <2>7
<1>. HIDE DEF D
<1>3. \A n \in 0 .. N : n \in D
  BY <1>1, <1>2, UpTo
<1>4. N \in D
  BY <1>3
<1>. QED
  BY <1>4 DEF D

LEMMA Powers ==
  /\ PowerOfTwo \in [0 .. AddressBits -> Nat \ {0}]
  /\ \A n \in 1 .. AddressBits : PowerOfTwo[n] = 2 * PowerOfTwo[n - 1]
<1>. PICK N \in Nat : N = AddressBits
  BY MemoryAssumption
<1>. DEFINE IsPower(f) == f = [n \in 0 .. N |-> IF n = 0 THEN 1 ELSE 2 * f[n - 1]]
<1>1. \E f : IsPower(f)
  <2>1. PICK G : G = [i \in 1 .. N |-> [x \in Nat |-> 2 * x]]
    OBVIOUS
  <2>2. G \in [1 .. N -> [Nat -> Nat]]
    BY <2>1
  <2>3. PICK f \in [0 .. N -> Nat] : Follows(N, 1, G, f)
    BY <2>2, Recursion
  <2>4. ASSUME NEW n \in 0 .. N PROVE f[n] = IF n = 0 THEN 1 ELSE 2 * f[n - 1]
    <3>1. CASE n # 0
      <4>1. n \in 1 .. N /\ n - 1 \in 0 .. N
        BY <3>1
      <4>2. f[n - 1] \in Nat
        BY <4>1
      <4>. QED
        BY <2>1, <2>3, <3>1, <4>1, <4>2 DEF Follows
    <3>2. CASE n = 0
      BY <2>3, <3>2 DEF Follows
    <3>. QED
      BY <3>1, <3>2
  <2>. QED
    BY <2>4
<1>2. IsPower(PowerOfTwo)
  <2>1. PowerOfTwo = CHOOSE f : IsPower(f)
    BY DEF PowerOfTwo
  <2>. HIDE DEF IsPower
  <2>. QED
    BY <1>1, <2>1
<1>3. \A n \in 0 .. N : PowerOfTwo[n] = IF n = 0 THEN 1 ELSE 2 * PowerOfTwo[n - 1]
  BY <1>2
<1>. DEFINE D == {n \in Nat : PowerOfTwo[n] \in Nat \ {0}}
<1>4. 0 \in D
  BY <1>3
<1>5. ASSUME NEW n \in 0 .. N - 1, n \in D PROVE n + 1 \in D
  <2>1. n + 1 \in 0 .. N /\ n + 1 # 0 /\ (n + 1) - 1 = n
    OBVIOUS
  <2>2. PowerOfTwo[n + 1] = 2 * PowerOfTwo[n]
    BY <1>3, <2>1
  <2>. QED
    BY <1>5, <2>1, <2>2
<1>. HIDE DEF D
<1>6. \A n \in 0 .. N : n \in D
  BY <1>4, <1>5, UpTo
<1>7. PowerOfTwo = [n \in 0 .. N |-> PowerOfTwo[n]]
  BY <1>2
<1>8. PowerOfTwo \in [0 .. N -> Nat \ {0}]
  BY <1>6, <1>7 DEF D
<1>9. \A n \in 1 .. N : PowerOfTwo[n] = 2 * PowerOfTwo[n - 1]
  BY <1>3
<1>. QED
  BY <1>8, <1>9

\* More bits give no fewer numbers.
LEMMA PowersGrow ==
  ASSUME NEW k \in 0 .. AddressBits
  PROVE  \A n \in k .. AddressBits : PowerOfTwo[k] <= PowerOfTwo[n]
<1>. PICK N \in Nat : N = AddressBits - k
  BY MemoryAssumption
<1>. DEFINE D == {i \in Nat : PowerOfTwo[k] <= PowerOfTwo[k + i]}
<1>1. 0 \in D
  BY Powers
<1>2. ASSUME NEW i \in 0 .. N - 1, i \in D PROVE i + 1 \in D
  <2>1. k + i \in 0 .. AddressBits /\ k + (i + 1) \in 1 .. AddressBits /\ (k + (i + 1)) - 1 = k + i
    BY MemoryAssumption
  <2>2. PowerOfTwo[k + (i + 1)] = 2 * PowerOfTwo[k + i] /\ PowerOfTwo[k + i] \in Nat /\ PowerOfTwo[k] \in Nat
    BY <2>1, Powers
  <2>. QED
    BY <1>2, <2>2
<1>. HIDE DEF D
<1>3. \A i \in 0 .. N : i \in D
  BY <1>1, <1>2, UpTo
<1>. SUFFICES ASSUME NEW n \in k .. AddressBits PROVE PowerOfTwo[k] <= PowerOfTwo[n]
  OBVIOUS
<1>4. n - k \in 0 .. N /\ k + (n - k) = n
  BY MemoryAssumption
<1>. QED
  BY <1>3, <1>4 DEF D

LEMMA Modulus == Addresses \in Nat \ {0} /\ Ints \in Nat \ {0} /\ PowerOfTwo[Size] \in 1 .. Addresses
<1>1. Size \in 0 .. AddressBits /\ IntBits \in 0 .. AddressBits /\ AddressBits \in Size .. AddressBits
  BY MemoryAssumption
<1>2. PowerOfTwo[Size] <= PowerOfTwo[AddressBits]
  BY <1>1, PowersGrow
<1>3. PowerOfTwo[Size] \in Nat \ {0} /\ Addresses \in Nat \ {0} /\ Ints \in Nat \ {0}
  BY <1>1, Powers, MemoryAssumption DEF Addresses, Ints
<1>. QED
  BY <1>2, <1>3 DEF Addresses

LEMMA Remainder ==
  ASSUME NEW M \in Nat \ {0}, NEW x \in Int
  PROVE  /\ x % M \in 0 .. M - 1
         /\ x = (x \div M) * M + (x % M) /\ x \div M \in Int
OBVIOUS

\* A remainder may be taken before or after something is added.
LEMMA RemainderOfSum ==
  ASSUME NEW M \in Nat \ {0}, NEW x \in Int, NEW y \in Int
  PROVE  ((x % M) + y) % M = (x + y) % M
<1>1. PICK q \in Int, z \in 0 .. M - 1 : x = q * M + z /\ z = x % M
  BY Remainder
<1>2. PICK p \in Int, r \in 0 .. M - 1 : x + y = p * M + r /\ r = (x + y) % M
  <2>1. x + y \in Int
    OBVIOUS
  <2>. QED
    BY Remainder, <2>1
<1>3. z + y = (p - q) * M + r
  BY <1>1, <1>2
<1>4. (z + y) % M = r
  <2>1. PICK s \in Int, u \in Int : s = p - q /\ u = z + y
    OBVIOUS
  <2>2. u = s * M + r
    BY <1>3, <2>1
  <2>3. u % M = r
    BY <2>2
  <2>. QED
    BY <2>1, <2>3
<1>. QED
  BY <1>1, <1>2, <1>4


LEMMA InAddress == \A x \in Int : ToAddress(x) \in Address
BY Modulus, Remainder DEF ToAddress, Address

LEMMA InInt == \A x \in Int : ToInt(x) \in Int
BY Modulus, Remainder DEF ToInt

LEMMA PlusInAddress == \A p \in Int, n \in Int : Scaled(n) \in Int /\ Plus(p, n) \in Address /\ Minus(p, n) \in Address
<1>. SUFFICES ASSUME NEW p \in Int, NEW n \in Int
              PROVE  Scaled(n) \in Int /\ Plus(p, n) \in Address /\ Minus(p, n) \in Address
  OBVIOUS
<1>1. Size * n \in Int /\ Address \subseteq Int
  BY MemoryAssumption, Modulus DEF Address
<1>2. Scaled(n) \in Int
  BY <1>1, InAddress, InInt DEF Scaled
<1>3. p + Scaled(n) \in Int /\ p - Scaled(n) \in Int
  BY <1>2
<1>. QED
  BY <1>2, <1>3, InAddress DEF Plus, Minus, add, sub

-----------------------------------------------------------------------------
(* Types: a word read from bytes fits in an element, and bytes stay bytes. *)

LEMMA NumberFits ==
  ASSUME NEW n \in 1 .. AddressBits, NEW bits \in [0 .. n - 1 -> {0, 1}]
  PROVE  Number(bits, n) \in 0 .. PowerOfTwo[n] - 1
<1>. PICK N \in Nat : N = n /\ N <= AddressBits
  BY MemoryAssumption
<1>. DEFINE IsLow(f) ==
  f = [i \in 0 .. n |-> IF i = 0 THEN 0 ELSE f[i - 1] + bits[i - 1] * PowerOfTwo[i - 1]]
<1>1. \A i \in 1 .. N : /\ i - 1 \in 0 .. n - 1
                        /\ bits[i - 1] * PowerOfTwo[i - 1] \in 0 .. PowerOfTwo[i - 1]
  <2>. SUFFICES ASSUME NEW i \in 1 .. N
                PROVE  i - 1 \in 0 .. n - 1 /\ bits[i - 1] * PowerOfTwo[i - 1] \in 0 .. PowerOfTwo[i - 1]
    OBVIOUS
  <2>1. i - 1 \in 0 .. n - 1 /\ i - 1 \in 0 .. AddressBits
    BY MemoryAssumption
  <2>2. PICK p \in Nat, b \in {0, 1} : p = PowerOfTwo[i - 1] /\ b = bits[i - 1]
    BY <2>1, Powers
  <2>3. b * p \in 0 .. p
    <3>1. 0 * p = 0 /\ 1 * p = p
      OBVIOUS
    <3>. QED
      BY <3>1
  <2>. QED
    BY <2>1, <2>2, <2>3
<1>2. \E f : IsLow(f)
  <2>1. PICK G : G = [i \in 1 .. N |-> [x \in Nat |-> x + bits[i - 1] * PowerOfTwo[i - 1]]]
    OBVIOUS
  <2>2. ASSUME NEW i \in 1 .. N PROVE G[i] \in [Nat -> Nat] /\ \A x \in Nat : G[i][x] = x + bits[i - 1] * PowerOfTwo[i - 1]
    <3>1. bits[i - 1] * PowerOfTwo[i - 1] \in Nat
      BY <1>1, Powers
    <3>2. G[i] = [x \in Nat |-> x + bits[i - 1] * PowerOfTwo[i - 1]]
      BY <2>1
    <3>. QED
      BY <3>1, <3>2, SMTT(30)
  <2>3. G = [i \in 1 .. N |-> G[i]]
    BY <2>1
  <2>4. G \in [1 .. N -> [Nat -> Nat]]
    BY <2>2, <2>3
  <2>5. PICK f \in [0 .. N -> Nat] : Follows(N, 0, G, f)
    BY <2>4, Recursion
  <2>6. ASSUME NEW i \in 0 .. N
        PROVE  f[i] = IF i = 0 THEN 0 ELSE f[i - 1] + bits[i - 1] * PowerOfTwo[i - 1]
    <3>1. CASE i # 0
      <4>1. i \in 1 .. N /\ i - 1 \in 0 .. N
        BY <3>1
      <4>2. f[i - 1] \in Nat
        BY <4>1
      <4>. QED
        BY <2>2, <2>5, <3>1, <4>1, <4>2 DEF Follows
    <3>2. CASE i = 0
      BY <2>5, <3>2 DEF Follows
    <3>. QED
      BY <3>1, <3>2
  <2>. QED
    BY <2>6
<1>3. PICK f : IsLow(f) /\ Number(bits, n) = f[N]
  <2>1. PICK f : f = CHOOSE g : IsLow(g)
    OBVIOUS
  <2>2. Number(bits, n) = f[N]
    BY <2>1 DEF Number
  <2>3. IsLow(f)
    <3>. HIDE DEF IsLow
    <3>. QED
      BY <1>2, <2>1
  <2>. QED
    BY <2>2, <2>3
<1>. DEFINE D == {i \in Nat : f[i] \in 0 .. PowerOfTwo[i] - 1}
<1>4. 0 \in D
  <2>1. f[0] = 0
    BY <1>3
  <2>2. PowerOfTwo[0] \in Nat \ {0}
    BY Powers, MemoryAssumption
  <2>. QED
    BY <2>1, <2>2
<1>5. ASSUME NEW i \in 0 .. N - 1, i \in D PROVE i + 1 \in D
  <2>1. i + 1 \in 1 .. N /\ i + 1 \in 0 .. n /\ i + 1 # 0 /\ (i + 1) - 1 = i
    OBVIOUS
  <2>2. f[i + 1] = f[i] + bits[i] * PowerOfTwo[i]
    BY <1>3, <2>1
  <2>3. bits[i] * PowerOfTwo[i] \in 0 .. PowerOfTwo[i]
    BY <1>1, <2>1
  <2>4. PowerOfTwo[i + 1] = 2 * PowerOfTwo[i] /\ PowerOfTwo[i] \in Nat
    <3>1. i \in 0 .. AddressBits /\ i + 1 \in 1 .. AddressBits
      BY MemoryAssumption
    <3>. QED
      BY <2>1, <3>1, Powers
  <2>5. PICK p \in Nat, d \in Nat, v \in Nat :
          /\ p = PowerOfTwo[i] /\ d = bits[i] * PowerOfTwo[i] /\ v = f[i]
          /\ d <= p /\ v < p
    BY <1>5, <2>3, <2>4
  <2>6. v + d \in 0 .. 2 * p - 1
    BY <2>5, SMTT(30)
  <2>. QED
    BY <2>1, <2>2, <2>4, <2>5, <2>6, SMTT(30)
<1>. HIDE DEF D
<1>6. \A i \in 0 .. N : i \in D
  BY <1>4, <1>5, UpTo
<1>7. N \in D
  BY <1>6
<1>. QED
  BY <1>3, <1>7 DEF D

LEMMA WordFits ==
  ASSUME NEW m \in [Bytes -> {0, 1}], NEW a, NEW n \in 1 .. AddressBits, Span(a, n) \subseteq Bytes
  PROVE  Word(m, a, n) \in 0 .. PowerOfTwo[n] - 1
<1>1. \A i \in 0 .. n - 1 : m[ToAddress(a + i)] \in {0, 1}
  BY DEF Span
<1>2. [i \in 0 .. n - 1 |-> m[ToAddress(a + i)]] \in [0 .. n - 1 -> {0, 1}]
  BY <1>1
<1>. QED
  BY <1>2, NumberFits DEF Word

\* An element is a value, and a pointer an address.
LEMMA ElementFits ==
  ASSUME NEW m \in [Bytes -> {0, 1}], NEW a, Element(a) \subseteq Bytes
  PROVE  Word(m, a, Size) \in Value
BY WordFits, MemoryAssumption DEF Element, Value

LEMMA PointerFits ==
  ASSUME NEW m \in [Bytes -> {0, 1}], NEW a, Span(a, AddressBits) \subseteq Bytes
  PROVE  Word(m, a, AddressBits) \in Address
<1>1. AddressBits \in 1 .. AddressBits
  BY MemoryAssumption
<1>. QED
  BY <1>1, WordFits DEF Address, Addresses

\* An address less than Size bytes on is at a place of the element.
LEMMA PlaceInElement ==
  ASSUME NEW a \in Int, NEW b \in Element(a)
  PROVE  PowerOfTwo[ToAddress(b - a)] \in Nat \ {0}
<1>1. PICK i \in 0 .. Size - 1 : b = (a + i) % Addresses
  BY DEF Element, Span, ToAddress
<1>2. ToAddress(b - a) = i % Addresses
  <2>1. PICK x \in Int, y \in Int : x = a + i /\ y = -a
    BY MemoryAssumption
  <2>2. ((x % Addresses) + y) % Addresses = (x + y) % Addresses
    BY Modulus, RemainderOfSum
  <2>3. (x % Addresses) + y = b - a /\ x + y = i
    BY <1>1, <2>1, Modulus, Remainder, MemoryAssumption
  <2>. QED
    BY <2>2, <2>3 DEF ToAddress
<1>3. i % Addresses \in 0 .. i
  BY Modulus, MemoryAssumption
<1>4. ToAddress(b - a) \in 0 .. AddressBits
  BY <1>2, <1>3, MemoryAssumption
<1>. QED
  BY <1>4, Powers

LEMMA StoredBytes ==
  ASSUME NEW m \in [Bytes -> {0, 1}], NEW a \in Int, NEW v \in Int
  PROVE  Stored(m, a, v) \in [Bytes -> {0, 1}]
<1>1. ASSUME NEW b \in Element(a) PROVE (v \div PowerOfTwo[ToAddress(b - a)]) % 2 \in {0, 1}
  <2>1. PICK p \in Nat \ {0} : p = PowerOfTwo[ToAddress(b - a)]
    BY <1>1, PlaceInElement
  <2>2. v \div p \in Int
    BY Remainder
  <2>3. (v \div p) % 2 \in {0, 1}
    BY <2>2
  <2>. QED
    BY <2>1, <2>3
<1>. QED
  BY <1>1 DEF Stored

\* Jobs have an address and a loaded value.
TypedJob(j) == j.a \in Address /\ j.loaded \in Value

\* Another job of one thread.
LEMMA JobTyped ==
  ASSUME IInv, TypeOK, NEW t \in Thread, NEW new, job' = [job EXCEPT ![t] = new], TypedJob(new),
         ptr' \in Address, prot' \in [Pages -> {"free", "read", "execute_write"}],
         mem' \in [Bytes -> {0, 1}], want' \in [Bytes -> {0, 1}],
         raced' \in BOOLEAN, faulted' \subseteq Thread
  PROVE  TypeOK'
<1>1. job'[t] = new /\ \A u \in Thread : u # t => job'[u] = job[u]
  BY DEF IInv
<1>2. \A u \in Thread : job'[u].a \in Address /\ job'[u].loaded \in Value
  BY <1>1 DEF TypeOK, TypedJob
<1>3. Bytes' = Bytes
  BY DEF Bytes
<1>. QED
  BY <1>2, <1>3 DEF TypeOK

LEMMA Zero == 0 \in Address /\ 0 \in Value /\ Value \subseteq Address
BY Modulus, Powers, MemoryAssumption, SMTT(30) DEF Address, Value

LEMMA NoJobTyped == TypedJob(NoJob)
<1>1. NoJob.a = 0 /\ NoJob.loaded = 0
  BY DEF NoJob
<1>. QED
  BY <1>1, Zero DEF TypedJob

LEMMA TargetsTyped ==
  ASSUME TypeOK, NEW t \in Thread, NEW a \in Targets(t)
  PROVE  a \in Address
<1>1. Address \subseteq Int /\ Steps \subseteq Int /\ Visited[t] \in Address
  BY MemoryAssumption, Modulus DEF Address
<1>2. \A n \in Steps : Plus(ptr, n) \in Address
  BY <1>1, PlusInAddress DEF TypeOK
<1>. QED
  BY <1>1, <1>2 DEF Targets, TypeOK

LEMMA MoveTyped ==
  ASSUME IInv, TypeOK, Move
  PROVE  TypeOK'
<1>1. Address \subseteq Int /\ Steps \subseteq Int
  BY MemoryAssumption, Modulus DEF Address
<1>2. ptr + 1 \in Int /\ ptr - 1 \in Int
  BY <1>1 DEF TypeOK
<1>3. add(ptr, 1) \in Address /\ sub(ptr, 1) \in Address
  BY <1>2, InAddress DEF add, sub
<1>4. \A n \in Steps : Plus(ptr, n) \in Address /\ Minus(ptr, n) \in Address
  BY <1>1, PlusInAddress DEF TypeOK
<1>5. ptr' \in Address
  BY <1>3, <1>4 DEF Move
<1>. QED
  BY <1>5 DEF TypeOK, Move, Bytes

LEMMA BeginTyped ==
  ASSUME IInv, TypeOK, NEW t \in Thread, NEW a \in Targets(t),
         \/ \E op \in Updates : BeginUpdate(t, op, a)
         \/ \E op \in {"get", "deref"} : BeginRead(t, op, a)
  PROVE  TypeOK'
<1>1. PICK pc, op : /\ job' = [job EXCEPT ![t] = Visit(pc, op, a)]
                    /\ UNCHANGED <<ptr, prot, mem, want, faulted>> /\ raced' \in BOOLEAN
  <2>1. ASSUME NEW op \in Updates, BeginUpdate(t, op, a)
        PROVE  /\ job' = [job EXCEPT ![t] = Visit("open", op, a)]
               /\ UNCHANGED <<ptr, prot, mem, want, faulted>> /\ raced' \in BOOLEAN
    BY <2>1 DEF BeginUpdate, Visit, Overlap
  <2>2. ASSUME NEW op, BeginRead(t, op, a)
        PROVE  /\ job' = [job EXCEPT ![t] = Visit("read", op, a)]
               /\ UNCHANGED <<ptr, prot, mem, want, faulted>> /\ raced' \in BOOLEAN
    BY <2>2 DEF BeginRead, Visit, TypeOK
  <2>. QED
    BY <2>1, <2>2
<1>2. PICK new : new = Visit(pc, op, a)
  OBVIOUS
<1>3. new.a = a /\ new.loaded = 0
  BY <1>2 DEF Visit, NoJob
<1>4. TypedJob(new)
  BY <1>3, TargetsTyped, Zero DEF TypedJob
<1>5. /\ ptr' \in Address /\ prot' \in [Pages -> {"free", "read", "execute_write"}]
      /\ mem' \in [Bytes -> {0, 1}] /\ want' \in [Bytes -> {0, 1}] /\ faulted' \subseteq Thread
  BY <1>1 DEF TypeOK
<1>. QED
  BY <1>1, <1>2, <1>4, <1>5, JobTyped

\* Faults, and steps that end a visit.
LEMMA FaultTyped ==
  ASSUME TypeOK, NEW t \in Thread, faulted' = {t}, UNCHANGED <<ptr, prot, mem, want, raced, job>>
  PROVE  TypeOK'
BY DEF TypeOK, Bytes

LEMMA ReadTyped ==
  ASSUME IInv, UpdateInv, TypeOK, NEW t \in Thread, Read(t)
  PROVE  TypeOK'
<1>1. CASE MayRead(job[t].op, job[t].a)
  <2>1. /\ job' = [job EXCEPT ![t] = NoJob] /\ UNCHANGED <<prot, mem, want, raced, faulted>>
        /\ ptr' = IF job[t].op = "deref" THEN Word(mem, job[t].a, AddressBits) ELSE ptr
    BY <1>1 DEF Read, Access
  <2>2. job[t].op = "deref" => Word(mem, job[t].a, AddressBits) \in Address
    <3>1. job[t].op = "deref" => Span(job[t].a, AddressBits) \subseteq Bytes
      BY <1>1 DEF MayRead, Mapped, Touched
    <3>. QED
      BY <3>1, PointerFits DEF TypeOK
  <2>3. /\ ptr' \in Address /\ prot' \in [Pages -> {"free", "read", "execute_write"}]
        /\ mem' \in [Bytes -> {0, 1}] /\ want' \in [Bytes -> {0, 1}]
        /\ raced' \in BOOLEAN /\ faulted' \subseteq Thread
    BY <2>1, <2>2, Zero DEF TypeOK
  <2>. QED
    BY <2>1, <2>3, NoJobTyped, JobTyped
<1>2. CASE ~MayRead(job[t].op, job[t].a)
  BY <1>2, FaultTyped DEF Read, Access
<1>. QED
  BY <1>1, <1>2

LEMMA LoadTyped ==
  ASSUME IInv, TypeOK, NEW t \in Thread, Load(t)
  PROVE  TypeOK'
<1>1. CASE MayRead(job[t].op, job[t].a)
  <2>1. PICK v : v = Word(mem, job[t].a, Size)
    OBVIOUS
  <2>2. PICK old : old = job[t]
    OBVIOUS
  <2>3. PICK new : new = Loaded(old, "store", v)
    OBVIOUS
  <2>4. job' = [job EXCEPT ![t] = new] /\ UNCHANGED <<ptr, prot, mem, want, raced, faulted>>
    BY <1>1, <2>1, <2>2, <2>3 DEF Load, Access, Loaded
  <2>5. v \in Value
    <3>1. old.op \in Updates
      <4>1. job[t].pc = "load"
        BY DEF Load
      <4>. QED
        BY <2>2, <4>1 DEF IInv, Knows, Updating
    <3>2. Element(job[t].a) \subseteq Bytes
      BY <1>1, <2>2, <3>1, ElementTouched DEF MayRead, Mapped
    <3>. QED
      BY <2>1, <3>2, ElementFits DEF TypeOK
  <2>6. new.a = old.a /\ new.loaded = v
    <3>1. IsJob(old) /\ "store" \in Pc
      BY <2>2 DEF IInv, Pc
    <3>. QED
      BY <2>3, <3>1, Changed
  <2>7. TypedJob(new)
    BY <2>2, <2>5, <2>6 DEF TypedJob, TypeOK
  <2>8. /\ ptr' \in Address /\ prot' \in [Pages -> {"free", "read", "execute_write"}]
        /\ mem' \in [Bytes -> {0, 1}] /\ want' \in [Bytes -> {0, 1}]
        /\ raced' \in BOOLEAN /\ faulted' \subseteq Thread
    BY <2>4 DEF TypeOK
  <2>. QED
    BY <2>4, <2>7, <2>8, JobTyped
<1>2. CASE ~MayRead(job[t].op, job[t].a)
  BY <1>2, FaultTyped DEF Load, Access
<1>. QED
  BY <1>1, <1>2

LEMMA StoreTyped ==
  ASSUME IInv, UpdateInv, TypeOK, NEW t \in Thread, Store(t)
  PROVE  TypeOK'
<1>1. CASE MayWrite(job[t].op, job[t].a)
  <2>1. PICK j : j = job[t]
    OBVIOUS
  <2>2. j.op \in Updates /\ j.loaded \in Int /\ j.a \in Int
    <3>1. j.pc = "store"
      BY <2>1 DEF Store
    <3>2. j.op \in Updates
      BY <2>1, <3>1 DEF UpdateInv, Visiting, Updating
    <3>3. Address \subseteq Int /\ Value \subseteq Int
      BY Zero, Modulus DEF Address
    <3>. QED
      BY <2>1, <3>2, <3>3 DEF TypeOK
  <2>3. Word(want, j.a, Size) \in Int
    <3>1. Element(j.a) \subseteq Bytes
      BY <1>1, <2>1, <2>2, ElementTouched DEF MayWrite, MayRead, Mapped
    <3>2. Word(want, j.a, Size) \in Value
      BY <3>1, ElementFits DEF TypeOK
    <3>. QED
      BY <3>2, Modulus DEF Value
  <2>4. ASSUME NEW x \in Int PROVE /\ (x + 1) % PowerOfTwo[Size] \in Int
                                   /\ (x - 1) % PowerOfTwo[Size] \in Int
    BY Modulus
  <2>5. PICK v, w :
          /\ v = Updated(j.op, j.loaded)
          /\ w = CASE j.op = "set" -> 1
                   [] j.op = "add" -> (Word(want, j.a, Size) + 1) % PowerOfTwo[Size]
                   [] j.op = "sub" -> (Word(want, j.a, Size) - 1) % PowerOfTwo[Size]
    OBVIOUS
  <2>6. v \in Int
    BY <2>2, <2>4, <2>5 DEF Updated, Updates
  <2>7. w \in Int
    BY <2>2, <2>3, <2>4, <2>5 DEF Updates
  <2>8. /\ mem' = Stored(mem, j.a, v) /\ want' = Stored(want, j.a, w)
        /\ job' = [job EXCEPT ![t] = NoJob] /\ UNCHANGED <<ptr, prot, raced, faulted>>
    BY <1>1, <2>1, <2>5 DEF Store, Access
  <2>9. mem' \in [Bytes -> {0, 1}] /\ want' \in [Bytes -> {0, 1}]
    BY <2>2, <2>6, <2>7, <2>8, StoredBytes DEF TypeOK
  <2>10. /\ ptr' \in Address /\ prot' \in [Pages -> {"free", "read", "execute_write"}]
         /\ raced' \in BOOLEAN /\ faulted' \subseteq Thread
    BY <2>8 DEF TypeOK
  <2>. QED
    BY <2>8, <2>9, <2>10, NoJobTyped, JobTyped
<1>2. CASE ~MayWrite(job[t].op, job[t].a)
  BY <1>2, FaultTyped DEF Store, Access
<1>. QED
  BY <1>1, <1>2

\* Steps that change a page's protection or end an update before it opens one.
LEMMA PagesTyped ==
  ASSUME IInv, IInv', TypeOK, NEW t \in Thread, hook_make_writeable(t) \/ MakeWriteableDenied(t)
  PROVE  TypeOK'
<1>1. CASE hook_make_writeable(t)
  <2>1. PICK old : old = job[t]
    OBVIOUS
  <2>2. PICK pc \in {"store", "load"} : pc = IF job[t].op = "set" THEN "store" ELSE "load"
    OBVIOUS
  <2>3. PICK new : new = At(old, pc)
    OBVIOUS
  <2>4. job' = [job EXCEPT ![t] = new] /\ UNCHANGED <<ptr, mem, want, raced, faulted>>
    BY <1>1, <2>1, <2>2, <2>3 DEF hook_make_writeable, At
  <2>5. new.a = old.a /\ new.loaded = old.loaded
    <3>1. PICK o, a, l : old \in JobWith(o, a, l)
      BY <2>1 DEF IInv, IsJob
    <3>. QED
      BY <2>3, <3>1 DEF JobWith, At
  <2>6. TypedJob(new)
    BY <2>1, <2>5 DEF TypedJob, TypeOK
  <2>7. /\ ptr' \in Address /\ prot' \in [Pages -> {"free", "read", "execute_write"}]
        /\ mem' \in [Bytes -> {0, 1}] /\ want' \in [Bytes -> {0, 1}]
        /\ raced' \in BOOLEAN /\ faulted' \subseteq Thread
    BY <2>4 DEF TypeOK, IInv
  <2>. QED
    BY <2>4, <2>6, <2>7, JobTyped
<1>2. CASE MakeWriteableDenied(t)
  <2>1. job' = [job EXCEPT ![t] = NoJob] /\ UNCHANGED <<ptr, prot, mem, want, raced, faulted>>
    BY <1>2 DEF MakeWriteableDenied
  <2>2. /\ ptr' \in Address /\ prot' \in [Pages -> {"free", "read", "execute_write"}]
        /\ mem' \in [Bytes -> {0, 1}] /\ want' \in [Bytes -> {0, 1}]
        /\ raced' \in BOOLEAN /\ faulted' \subseteq Thread
    BY <2>1 DEF TypeOK
  <2>. QED
    BY <2>1, <2>2, NoJobTyped, JobTyped
<1>. QED
  BY <1>1, <1>2

LEMMA ProtectTyped ==
  ASSUME IInv, IInv', TypeOK, NEW g \in Pages, NEW p \in {"free", "read"}, Protect(g, p)
  PROVE  TypeOK'
<1>1. /\ UNCHANGED <<ptr, mem, want, raced, faulted>>
      /\ job' = [t \in Thread |-> IF Hit(job[t], g, p) THEN Disturbed(job[t]) ELSE job[t]]
  BY DEF Protect, Hit, Disturbed
<1>2. ASSUME NEW t \in Thread PROVE job'[t].a \in Address /\ job'[t].loaded \in Value
  <2>1. PICK j : j = job[t]
    OBVIOUS
  <2>2. job'[t] = Disturbed(j) \/ job'[t] = j
    BY <1>1, <2>1 DEF Disturbed
  <2>3. Disturbed(j).a = j.a /\ Disturbed(j).loaded = j.loaded
    BY <2>1, DisturbedJob DEF IInv
  <2>. QED
    BY <2>1, <2>2, <2>3 DEF TypeOK
<1>. QED
  BY <1>1, <1>2 DEF TypeOK, IInv, Bytes

\* Every variable has its type: a word is read from bytes only, and bytes stay
\* bytes whatever is stored (HooklibCPP.h 150-258).
THEOREM TypesKept == Spec => []TypeOK
<1>1. Init => TypeOK
  <2>. SUFFICES ASSUME Init PROVE TypeOK
    OBVIOUS
  <2>1. \A t \in Thread : job[t].a \in Address /\ job[t].loaded \in Value
    BY NoJobTyped DEF Init, TypedJob
  <2>. QED
    BY <2>1, Zero DEF Init, TypeOK
<1>2. IInv /\ IInv' /\ UpdateInv /\ TypeOK /\ [Next]_vars => TypeOK'
  <2>. SUFFICES ASSUME IInv, IInv', UpdateInv, TypeOK, [Next]_vars PROVE TypeOK'
    OBVIOUS
  <2>1. CASE DerefUnreadable
    BY <2>1, Zero DEF DerefUnreadable, TypeOK, Bytes
  <2>2. CASE UNCHANGED vars
    BY <2>2 DEF vars, TypeOK, Bytes
  <2>3. ASSUME NEW t \in Thread,
               \/ \E a \in Targets(t), op \in Updates : BeginUpdate(t, op, a)
               \/ \E a \in Targets(t), op \in {"get", "deref"} : BeginRead(t, op, a)
        PROVE  TypeOK'
    BY <2>3, BeginTyped
  <2>. QED
    BY <2>1, <2>2, <2>3, MoveTyped, ReadTyped, LoadTyped, StoreTyped, PagesTyped, ProtectTyped DEF Next
<1>. QED
  BY <1>1, <1>2, Begins, NextKeeps, UpdatesBegin, UpdatesKept, PTL DEF Spec

-----------------------------------------------------------------------------
(* Arithmetic.                                                             *)

LEMMA ForthAndBack ==
  ASSUME NEW p \in Address, NEW n \in Int
  PROVE  Minus(Plus(p, n), n) = p /\ Plus(Minus(p, n), n) = p
<1>1. PICK s \in Int : s = Scaled(n)
  BY PlusInAddress, Zero, Modulus DEF Address
<1>2. p \in Int /\ p % Addresses = p
  BY Modulus DEF Address
<1>3. (((p + s) % Addresses) - s) % Addresses = p
  <2>1. PICK x \in Int, y \in Int : x = p + s /\ y = -s
    BY <1>2
  <2>2. ((x % Addresses) + y) % Addresses = (x + y) % Addresses
    BY Modulus, RemainderOfSum
  <2>3. (x % Addresses) + y = (x % Addresses) - s /\ x + y = p
    BY <1>2, <2>1, Modulus, Remainder
  <2>. QED
    BY <1>2, <2>1, <2>2, <2>3
<1>4. (((p - s) % Addresses) + s) % Addresses = p
  <2>1. PICK x \in Int : x = p - s
    BY <1>2
  <2>2. ((x % Addresses) + s) % Addresses = (x + s) % Addresses
    BY Modulus, RemainderOfSum
  <2>3. x + s = p
    BY <1>2, <2>1
  <2>. QED
    BY <1>2, <2>1, <2>2, <2>3
<1>. QED
  BY <1>1, <1>3, <1>4 DEF Plus, Minus, add, sub, ToAddress

LEMMA DistancesAdd ==
  ASSUME NEW p \in Address, NEW n \in Int, NEW k \in Int, FitsInt(n), FitsInt(k), FitsInt(n + k)
  PROVE  Plus(Plus(p, n), k) = Plus(p, n + k)
<1>1. p \in Int
  BY Modulus DEF Address
<1>2. PICK s \in Int, u \in Int : s = Scaled(n) /\ u = Scaled(k) /\ s + u = Scaled(n + k)
  <2>1. Size * (n + k) = Size * n + Size * k /\ Size * n \in Int /\ Size * k \in Int
    BY MemoryAssumption
  <2>. QED
    BY <2>1 DEF FitsInt
<1>3. PICK x \in Int : x = p + s
  BY <1>1
<1>4. ((x % Addresses) + u) % Addresses = (x + u) % Addresses
  BY Modulus, RemainderOfSum
<1>5. x + u = p + (s + u)
  BY <1>1, <1>3
<1>. QED
  BY <1>2, <1>3, <1>4, <1>5 DEF Plus, add, ToAddress

LEMMA BytesAdd ==
  ASSUME NEW p \in Address, FitsInt(1)
  PROVE  ByteByByte(p) = Plus(p, 1)
<1>. PICK N \in Nat : N = Size
  BY MemoryAssumption
<1>1. p \in Int /\ p % Addresses = p /\ Address \subseteq Int
  BY Modulus DEF Address
<1>. DEFINE IsUp(f) == f = [i \in 0 .. Size |-> IF i = 0 THEN p ELSE add(f[i - 1], 1)]
<1>2. \E f : IsUp(f)
  <2>1. PICK G : G = [i \in 1 .. N |-> [x \in Address |-> add(x, 1)]]
    OBVIOUS
  <2>2. \A x \in Address : add(x, 1) \in Address
    BY <1>1, InAddress DEF add
  <2>3. G \in [1 .. N -> [Address -> Address]]
    BY <2>1, <2>2
  <2>4. PICK f \in [0 .. N -> Address] : Follows(N, p, G, f)
    BY <2>3, Recursion
  <2>5. ASSUME NEW i \in 0 .. N PROVE f[i] = IF i = 0 THEN p ELSE add(f[i - 1], 1)
    <3>1. CASE i # 0
      <4>1. i \in 1 .. N /\ i - 1 \in 0 .. N
        BY <3>1
      <4>2. f[i - 1] \in Address
        BY <4>1
      <4>. QED
        BY <2>1, <2>4, <3>1, <4>1, <4>2 DEF Follows
    <3>2. CASE i = 0
      BY <2>4, <3>2 DEF Follows
    <3>. QED
      BY <3>1, <3>2
  <2>. QED
    BY <2>5
<1>3. PICK f : IsUp(f) /\ ByteByByte(p) = f[N]
  <2>1. PICK f : f = CHOOSE g : IsUp(g)
    OBVIOUS
  <2>2. ByteByByte(p) = f[N]
    BY <2>1 DEF ByteByByte
  <2>3. IsUp(f)
    <3>. HIDE DEF IsUp
    <3>. QED
      BY <1>2, <2>1
  <2>. QED
    BY <2>2, <2>3
<1>. DEFINE D == {i \in Nat : f[i] = (p + i) % Addresses}
<1>4. 0 \in D
  BY <1>1, <1>3
<1>5. ASSUME NEW i \in 0 .. N - 1, i \in D PROVE i + 1 \in D
  <2>1. i + 1 \in 0 .. Size /\ i + 1 # 0 /\ (i + 1) - 1 = i
    OBVIOUS
  <2>2. f[i + 1] = (f[i] + 1) % Addresses
    BY <1>3, <2>1 DEF add, ToAddress
  <2>3. PICK x \in Int : x = p + i
    BY <1>1
  <2>4. ((x % Addresses) + 1) % Addresses = (x + 1) % Addresses
    <3>1. \A y \in Int : ((x % Addresses) + y) % Addresses = (x + y) % Addresses
      BY Modulus, RemainderOfSum
    <3>. QED
      BY <3>1
  <2>5. x + 1 = p + (i + 1)
    BY <1>1, <2>3
  <2>. QED
    BY <1>5, <2>2, <2>3, <2>4, <2>5
<1>. HIDE DEF D
<1>6. \A i \in 0 .. N : i \in D
  BY <1>4, <1>5, UpTo
<1>7. f[N] = (p + N) % Addresses
  BY <1>6 DEF D
<1>8. Scaled(1) = N
  BY DEF FitsInt
<1>. QED
  BY <1>3, <1>7, <1>8 DEF Plus, add, ToAddress

\* Going forward and back leads where it started, however far and across the
\* end of the address space; distances that fit an int add up; and bytes add up
\* to elements, for every width of addresses, ints and elements
\* (value_visitor.inl 27-85, HooklibCPP.cpp 233-284).
THEOREM ArithmeticIsRight == Spec => []PointerArithmetic
<1>1. TypeOK => PointerArithmetic
  <2>. SUFFICES ASSUME TypeOK PROVE PointerArithmetic
    OBVIOUS
  <2>1. ptr \in Address /\ Steps \subseteq Int
    BY MemoryAssumption DEF TypeOK
  <2>. QED
    BY <2>1, ForthAndBack, DistancesAdd, BytesAdd DEF PointerArithmetic
<1>. QED
  BY <1>1, TypesKept, PTL

=============================================================================
