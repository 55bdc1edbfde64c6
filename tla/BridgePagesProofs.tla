------------------------- MODULE BridgePagesProofs -------------------------
(***************************************************************************)
(* What a jump through a bridge slot reads, for any number of threads,     *)
(* bridges, contexts and slots.                                            *)
(*                                                                         *)
(* The count of a page and the slot an install takes are read at different *)
(* times.  They agree because a page that is not shared is worked on by    *)
(* one thread at a time, and all jumps through it that exist use slots up  *)
(* to its count, and slots before it while an install has counted itself   *)
(* and not yet written its jump.                                           *)
(*                                                                         *)
(* Then where the pages are: in whole blocks outside the module, the       *)
(* nearest free one when a bridge is prepared, so that one in reach is     *)
(* found although the search looks beyond the reach of a displacement.     *)
(***************************************************************************)
EXTENDS BridgePages, WellFoundedInduction, TLAPS

Jump == [by : Ctx \cup {NoCtx}, page : Int, slot : Nat]
Pc == {"idle", "increment", "incremented", "counted", "taken", "saved", "filled", "fault"}

TypeInv ==
  /\ 0 \notin Allocated /\ Allocated \subseteq Int /\ Allocated \cap free = {} /\ free \subseteq Int
  /\ page \in [Allocated -> [count : Nat, val : [Slots -> Ctx \cup {NoCtx}]]]
  /\ bs \in [Bridge -> [bridgeslot : Int, m_modulehandle : {0, Handle}]]
  /\ entry \in [Func -> Jump]
  /\ ctx \in [Ctx -> [live : BOOLEAN, f : Func \cup {"none"}, saved : Jump]]
  /\ \A c \in Ctx : ~ctx[c].live => ctx[c].saved = NoJump
  /\ job \in [Thread -> [pc : Pc, c : Ctx \cup {NoCtx}, f : Func \cup {"none"}, page : Int, n : Nat]]
  /\ \A t \in Thread : IF job[t].page = 0 THEN job[t] = NoJob
                       ELSE job[t].pc # "idle" /\ job[t].c \in Ctx /\ job[t].f \in Func

\* A jump through a page that is not shared reads what its install wrote.
Reads(j) ==
  j.page # 0 => /\ j.page \in Allocated
                /\ j.page \notin shared =>
                     /\ j.slot \in Slots /\ j.slot <= page[j.page].count
                     /\ page[j.page].val[j.slot] = j.by

\* No jump through p uses the last slot that was counted.
LastSlotNew(p) ==
  /\ page[p].count >= 1
  /\ \A j \in Jumps : j.page = p => j.slot < page[p].count

\* What a thread knows of the page it installs through.
Knows(t) ==
  LET p == job[t].page
      n == job[t].n
  IN p # 0 =>
       /\ p \in Allocated
       /\ p \notin shared =>
            /\ \A u \in Thread : job[u].page = p => u = t
            /\ job[t].pc = "incremented" => n = page[p].count
            /\ job[t].pc = "counted" => LastSlotNew(p)
            /\ job[t].pc \in {"taken", "saved"} => n = page[p].count /\ LastSlotNew(p)
            /\ job[t].pc = "filled" =>
                 n = page[p].count /\ n \in Slots /\ page[p].val[n] = job[t].c
            /\ job[t].pc = "fault" => page[p].count > PageSlots

Sound == (\A j \in Jumps : Reads(j)) /\ \A t \in Thread : Knows(t)

IInv == TypeInv /\ (~misused => Sound)

-----------------------------------------------------------------------------
\* A set of natural numbers that is not empty has a least element.
LEMMA Least ==
  ASSUME NEW S, S \subseteq Nat, S # {}
  PROVE  Min(S) \in S
<1>1. \E x \in S : \A y \in S : ~ (<<y, x>> \in OpToRel(<,Nat))
  BY NatLessThanWellFounded, WFMin
<1>2. ASSUME NEW x \in Nat, NEW y \in Nat, y < x PROVE <<y, x>> \in OpToRel(<,Nat)
  BY <1>2 DEF OpToRel
<1>3. PICK x \in S : \A y \in S : ~(y < x)
  BY <1>1, <1>2
<1>4. \A y \in S : x =< y
  BY <1>3
<1>. QED
  BY <1>3, <1>4 DEF Min

\* The search finds a free block or nothing.
LEMMA SearchFree == Search = 0 \/ Search \in free
<1>. DEFINE below == Probed(Handle, -1)
            above == Probed(Handle + ModulePages + 1, 1)
<1>1. below \subseteq Nat /\ above \subseteq Nat
  BY BridgeAssumption DEF Probed
<1>2. ASSUME below # {} PROVE BlockOf(Handle - Min(below)) \in free
  <2>1. Min(below) \in below
    BY <1>1, <1>2, Least
  <2>2. Min(below) \in Nat /\ BlockOf(Handle + -1 * Min(below)) \in free
    BY <1>1, <2>1 DEF Probed
  <2>3. Handle + -1 * Min(below) = Handle - Min(below)
    BY <2>2, BridgeAssumption
  <2>. QED
    BY <2>2, <2>3
<1>3. ASSUME above # {} PROVE BlockOf(Handle + ModulePages + 1 + Min(above)) \in free
  <2>1. Min(above) \in above
    BY <1>1, <1>3, Least
  <2>2. Min(above) \in Nat /\ BlockOf(Handle + ModulePages + 1 + 1 * Min(above)) \in free
    BY <1>1, <2>1 DEF Probed
  <2>3. Handle + ModulePages + 1 + 1 * Min(above) = Handle + ModulePages + 1 + Min(above)
    BY <2>2, BridgeAssumption
  <2>. QED
    BY <2>2, <2>3
<1>. QED
  BY <1>2, <1>3 DEF Search

\* No jump is typed as one, and the jumps there are have the type.
LEMMA JumpTypes ==
  ASSUME TypeInv
  PROVE  Jumps \subseteq Jump /\ NoJump \in Jump /\ Slots \subseteq Nat /\ PageSlots \in Nat
BY BridgeAssumption DEF TypeInv, Jumps, Jump, NoJump, Slots

-----------------------------------------------------------------------------
\* Steps that leave alone every page through which a jump goes, or will.
LEMMA PagesLeftAlone ==
  ASSUME TypeInv, Sound, Jumps' \subseteq Jumps \cup {j \in Jump : j.page = 0},
         UNCHANGED <<job, shared>>,
         \A p \in Allocated :
           \/ p \in Allocated' /\ page'[p] = page[p]
           \/ (\A j \in Jumps' : j.page # p) /\ (\A t \in Thread : job[t].page # p)
  PROVE  Sound'
<1>1. ASSUME NEW j \in Jumps' PROVE Reads(j)'
  <2>1. CASE j.page = 0
    BY <2>1 DEF Reads
  <2>2. CASE j.page # 0
    <3>1. j \in Jumps /\ Reads(j) /\ j.page \in Allocated
      BY <1>1, <2>2 DEF Sound, Reads
    <3>2. j.page \in Allocated' /\ page'[j.page] = page[j.page]
      BY <1>1, <3>1
    <3>. QED
      BY <3>1, <3>2 DEF Reads
  <2>. QED
    BY <2>1, <2>2
<1>2. ASSUME NEW t \in Thread PROVE Knows(t)'
  <2>1. CASE job[t].page = 0
    BY <2>1 DEF Knows
  <2>2. CASE job[t].page # 0
    <3>. DEFINE p == job[t].page
    <3>1. Knows(t) /\ p \in Allocated /\ p # 0
      BY <2>2 DEF Sound, Knows
    <3>2. p \in Allocated' /\ page'[p] = page[p]
      BY <3>1
    <3>3. LastSlotNew(p) => LastSlotNew(p)'
      BY <3>1, <3>2 DEF LastSlotNew
    <3>. QED
      BY <3>1, <3>2, <3>3 DEF Knows
  <2>. QED
    BY <2>1, <2>2
<1>. QED
  BY <1>1, <1>2 DEF Sound

\* Thread t goes on with its install: only its page may change.
Working(t) ==
  /\ job[t].page # 0
  /\ shared' = shared
  /\ \A u \in Thread : u # t => job'[u] = job[u]
  /\ job'[t].page \in {0, job[t].page}
  /\ Allocated' = Allocated
  /\ \A p \in Allocated : p # job[t].page => page'[p] = page[p]
  /\ \A j \in Jumps' : j \in Jumps \/ j.page \in {0, job[t].page}

\* What other threads know, and other pages' jumps, are not affected.
LEMMA OthersUnaffected ==
  ASSUME TypeInv, Sound, NEW t \in Thread, Working(t)
  PROVE  /\ \A u \in Thread : u # t => Knows(u)'
         /\ \A j \in Jumps' : j.page # job[t].page => Reads(j)'
         /\ \A j \in Jumps' : j.page \in shared => Reads(j)'
         /\ job[t].page \in Allocated
<1>0. job[t].page \in Allocated
  BY DEF Working, Sound, Knows
<1>1. ASSUME NEW u \in Thread, u # t PROVE Knows(u)'
  <2>. DEFINE q == job[u].page
  <2>1. job'[u] = job[u] /\ Knows(u) /\ Knows(t)
    BY <1>1 DEF Working, Sound
  <2>2. CASE q = 0
    BY <2>1, <2>2 DEF Knows
  <2>3. CASE q # 0 /\ q = job[t].page
    <3>1. q \in shared'
      BY <1>1, <2>1, <2>3 DEF Knows, Working
    <3>2. q \in Allocated'
      BY <1>0, <2>3 DEF Working
    <3>. QED
      BY <2>1, <3>1, <3>2 DEF Knows
  <2>4. CASE q # 0 /\ q # job[t].page
    <3>1. q \in Allocated /\ q \in Allocated' /\ page'[q] = page[q] /\ shared' = shared
      BY <2>1, <2>4 DEF Knows, Working
    <3>2. \A w \in Thread : job'[w].page = q => job[w].page = q
      BY <2>4 DEF Working
    <3>3. LastSlotNew(q) => LastSlotNew(q)'
      BY <2>4, <3>1 DEF LastSlotNew, Working
    <3>. QED
      BY <2>1, <3>1, <3>2, <3>3 DEF Knows
  <2>. QED
    BY <2>2, <2>3, <2>4
<1>2. ASSUME NEW j \in Jumps', j.page # job[t].page PROVE Reads(j)'
  <2>1. CASE j.page = 0
    BY <2>1 DEF Reads
  <2>2. CASE j.page # 0
    <3>1. Reads(j)
      BY <1>2, <2>2 DEF Working, Sound
    <3>. QED
      BY <1>2, <2>2, <3>1 DEF Reads, Working
  <2>. QED
    BY <2>1, <2>2
<1>3. ASSUME NEW j \in Jumps', j.page \in shared PROVE Reads(j)'
  <2>1. CASE j.page = job[t].page
    BY <1>0, <1>3, <2>1 DEF Reads, Working
  <2>. QED
    BY <1>2, <2>1
<1>. QED
  BY <1>0, <1>1, <1>2, <1>3

\* So it is enough to look at the thread's page while it is not shared.
LEMMA OwnPage ==
  ASSUME TypeInv, Sound, NEW t \in Thread, Working(t),
         job[t].page \notin shared => \A j \in Jumps' : j.page = job[t].page => Reads(j)',
         job'[t].page # 0 /\ job[t].page \notin shared => Knows(t)'
  PROVE  Sound'
<1>1. \A j \in Jumps' : Reads(j)'
  BY OthersUnaffected
<1>2. Knows(t)'
  <2>1. CASE job'[t].page = 0
    BY <2>1 DEF Knows
  <2>2. CASE job'[t].page # 0 /\ job[t].page \in shared
    BY <2>2, OthersUnaffected DEF Knows, Working
  <2>. QED
    BY <2>1, <2>2
<1>. QED
  BY <1>1, <1>2, OthersUnaffected DEF Sound

-----------------------------------------------------------------------------
(* The steps, one by one.                                                  *)

\* A new page is none that was there, so no jump goes through it yet.
LEMMA PrepareKeeps ==
  ASSUME TypeInv, NEW t \in Thread, NEW b \in Bridge, PrepareHookBridge(t, b)
  PROVE  TypeInv' /\ (Sound => Sound')
<1>p. PICK p : p = Search
  OBVIOUS
<1>0. p = 0 \/ p \in free
  BY <1>p, SearchFree
<1>1. \/ UNCHANGED <<free, page>>
      \/ /\ p \in free /\ p # 0 /\ p \in Int
         /\ free' = free \ {p}
         /\ page' = [q \in Allocated \cup {p} |->
              IF q = p THEN [count |-> 0, val |-> [s \in Slots |-> NoCtx]] ELSE page[q]]
  BY <1>0, <1>p DEF PrepareHookBridge, Alloc, TypeInv
<1>2. bs' \in [Bridge -> [bridgeslot : Int, m_modulehandle : {0, Handle}]]
  <2>1. p \in Int
    <3>1. free \subseteq Int
      BY DEF TypeInv
    <3>2. ASSUME p \in free PROVE p \in Int
      BY <3>1, <3>2
    <3>3. ASSUME p = 0 PROVE p \in Int
      BY <3>3
    <3>. QED
      BY <1>0, <3>2, <3>3, Zenon
  <2>2. \/ bs' = [bs EXCEPT ![b] = [bridgeslot |-> p, m_modulehandle |-> Handle]]
        \/ bs' = [bs EXCEPT ![b].m_modulehandle = Handle]
    BY <1>p DEF PrepareHookBridge, Alloc
  <2>3. CASE bs' = [bs EXCEPT ![b] = [bridgeslot |-> p, m_modulehandle |-> Handle]]
    BY <2>1, <2>3 DEF TypeInv
  <2>4. CASE bs' = [bs EXCEPT ![b].m_modulehandle = Handle]
    BY <2>4 DEF TypeInv
  <2>. QED
    BY <2>2, <2>3, <2>4
<1>3. UNCHANGED <<isX64, entry, ctx, job, shared, misused>>
  BY DEF PrepareHookBridge
<1>4. TypeInv'
  <2>1. CASE UNCHANGED <<free, page>>
    BY <1>2, <1>3, <2>1 DEF TypeInv, Allocated
  <2>2. CASE page' # page
    BY <1>1, <1>2, <1>3, <2>2 DEF TypeInv, Allocated
  <2>. QED
    BY <1>1, <1>2, <1>3 DEF TypeInv, Allocated
<1>5. \A q \in Allocated : q \in Allocated' /\ page'[q] = page[q]
  BY <1>1 DEF TypeInv, Allocated
<1>6. Jumps' = Jumps
  BY <1>3 DEF Jumps
<1>. QED
  BY <1>3, <1>4, <1>5, <1>6, PagesLeftAlone

\* A page is freed without misuse only when nothing goes through it.
LEMMA FreeKeeps ==
  ASSUME TypeInv, NEW t \in Thread, NEW b \in Bridge, Free(t, b)
  PROVE  TypeInv' /\ (Sound /\ ~misused' => Sound')
<1>. DEFINE p == bs[b].bridgeslot
<1>1. TypeInv'
  BY DEF TypeInv, Free, Allocated
<1>2. ASSUME ~misused' PROVE ~InUse(p)
  BY <1>2 DEF Free
<1>3. \A q \in Allocated : q # p => q \in Allocated' /\ page'[q] = page[q]
  BY DEF Free, Allocated
<1>4. Jumps' = Jumps /\ UNCHANGED <<job, shared>>
  BY DEF Free, Jumps
<1>5. ASSUME ~misused', NEW j \in Jumps', j.page = p PROVE FALSE
  <2>1. p # 0 /\ NoJump.page = 0
    BY DEF Free, TypeInv, NoJump
  <2>2. CASE \E f \in Func : j = entry[f]
    BY <1>2, <1>5, <2>2 DEF InUse
  <2>3. CASE \E c \in Ctx : j = ctx[c].saved
    <3>1. PICK c \in Ctx : j = ctx[c].saved
      BY <2>3
    <3>2. ctx[c].live
      BY <1>5, <2>1, <3>1 DEF TypeInv
    <3>. QED
      BY <1>2, <1>5, <3>1, <3>2 DEF InUse
  <2>. QED
    BY <1>4, <1>5, <2>2, <2>3 DEF Jumps
<1>6. ASSUME ~misused', NEW u \in Thread, job[u].page = p PROVE FALSE
  BY <1>2, <1>6 DEF InUse
<1>. QED
  BY <1>1, <1>3, <1>4, <1>5, <1>6, PagesLeftAlone

\* An install without a bridge adds a jump without a page.
LEMMA DirectKeeps ==
  ASSUME TypeInv, NEW t \in Thread, NEW b \in Bridge, NEW c \in Ctx,
         NEW disable \in BOOLEAN, NEW short \in BOOLEAN, HookDirect(t, b, c, disable, short)
  PROVE  TypeInv' /\ (Sound => Sound')
<1>. DEFINE f == FuncOf[c]
<1>0. f \in Func /\ UNCHANGED <<free, page, bs, job, shared>> /\ Allocated' = Allocated
  BY BridgeAssumption DEF HookDirect, Allocated
<1>1. CASE UNCHANGED <<ctx, entry>>
  <2>1. TypeInv' /\ Jumps' = Jumps
    BY <1>0, <1>1 DEF TypeInv, Jumps
  <2>. QED
    BY <1>0, <2>1, PagesLeftAlone
<1>2. CASE /\ ctx' = [ctx EXCEPT ![c] = [live |-> TRUE, f |-> f, saved |-> entry[f]]]
           /\ entry' = [entry EXCEPT ![f] = [NoJump EXCEPT !.by = c]]
  <2>. DEFINE new == [NoJump EXCEPT !.by = c]
  <2>1. new \in Jump /\ new.page = 0
    BY DEF NoJump, Jump
  <2>. HIDE DEF new
  <2>2. ctx' \in [Ctx -> [live : BOOLEAN, f : Func \cup {"none"}, saved : Jump]]
    BY <1>0, <1>2 DEF TypeInv
  <2>3. entry' \in [Func -> Jump]
    BY <1>2, <2>1 DEF TypeInv, new
  <2>4. \A d \in Ctx : ~ctx'[d].live => ctx'[d].saved = NoJump
    BY <1>2 DEF TypeInv
  <2>5. TypeInv'
    BY <1>0, <2>2, <2>3, <2>4 DEF TypeInv
  <2>6. \A g \in Func : entry'[g] = entry[g] \/ entry'[g] = new
    BY <1>0, <1>2 DEF TypeInv, new
  <2>7. \A d \in Ctx : ctx'[d].saved = ctx[d].saved \/ ctx'[d].saved = entry[f]
    BY <1>0, <1>2 DEF TypeInv
  <2>8. Jumps' \subseteq Jumps \cup {j \in Jump : j.page = 0}
    BY <1>0, <2>1, <2>6, <2>7 DEF Jumps
  <2>. QED
    BY <1>0, <2>5, <2>8, PagesLeftAlone
<1>. QED
  BY <1>1, <1>2 DEF HookDirect

\* A removal puts back a jump that was saved.
LEMMA UnInstallKeeps ==
  ASSUME TypeInv, NEW t \in Thread, NEW c \in Ctx, UnInstall(t, c)
  PROVE  TypeInv' /\ (Sound => Sound')
<1>. DEFINE f == ctx[c].f
<1>0. UNCHANGED <<free, page, bs, job, shared>> /\ Allocated' = Allocated
  BY DEF UnInstall, Allocated
<1>1. /\ entry' = [entry EXCEPT ![f] = ctx[c].saved]
      /\ ctx' = [ctx EXCEPT ![c] = Unused]
  BY DEF UnInstall
<1>2. NoJump \in Jump /\ NoJump.page = 0 /\ Unused.saved = NoJump /\ Unused.live = FALSE /\ Unused.f = "none"
  BY DEF NoJump, Unused, Jump
<1>3. Unused \in [live : BOOLEAN, f : Func \cup {"none"}, saved : Jump]
  BY DEF NoJump, Unused, Jump
<1>4. TypeInv'
  BY <1>0, <1>1, <1>2, <1>3 DEF TypeInv
<1>5. \A g \in Func : entry'[g] = entry[g] \/ entry'[g] = ctx[c].saved
  BY <1>1 DEF TypeInv
<1>6. \A d \in Ctx : ctx'[d].saved = ctx[d].saved \/ ctx'[d].saved = NoJump
  BY <1>1, <1>2 DEF TypeInv
<1>7. Jumps' \subseteq Jumps \cup {j \in Jump : j.page = 0}
  BY <1>2, <1>5, <1>6 DEF Jumps
<1>. QED
  BY <1>0, <1>4, <1>7, PagesLeftAlone

-----------------------------------------------------------------------------
(* The steps of an install through a bridge.                               *)

JobType == [pc : Pc, c : Ctx \cup {NoCtx}, f : Func \cup {"none"}, page : Int, n : Nat]
JobInv == /\ job \in [Thread -> JobType]
          /\ \A t \in Thread : IF job[t].page = 0 THEN job[t] = NoJob
                               ELSE job[t].pc # "idle" /\ job[t].c \in Ctx /\ job[t].f \in Func

\* The thread goes to another step, or ends.
Advance(t, pc, n) ==
  /\ job'[t] = [job[t] EXCEPT !.pc = pc, !.n = n]
  /\ \A u \in Thread : u # t => job'[u] = job[u]
Ends(t) ==
  /\ job'[t] = NoJob
  /\ \A u \in Thread : u # t => job'[u] = job[u]

\* A thread that is not idle has a page, a context and a function.
LEMMA AtWork ==
  ASSUME TypeInv, NEW t \in Thread, job[t].pc # "idle"
  PROVE  /\ JobInv
         /\ job[t].page # 0 /\ job[t].page \in Int /\ job[t].n \in Nat
         /\ job[t].c \in Ctx /\ job[t].f \in Func /\ job[t] \in JobType
<1>1. JobInv
  BY DEF TypeInv, JobInv, JobType
<1>2. job[t].page # 0
  BY DEF TypeInv, NoJob
<1>. QED
  BY <1>1, <1>2 DEF JobInv, JobType

\* What going to another step leaves as it was.
LEMMA Advancing ==
  ASSUME TypeInv, NEW t \in Thread, job[t].pc # "idle", NEW pc \in Pc \ {"idle"}, NEW n \in Nat,
         job' = [job EXCEPT ![t].pc = pc, ![t].n = n]
  PROVE  /\ JobInv' /\ Advance(t, pc, n)
         /\ job'[t].pc = pc /\ job'[t].n = n /\ job'[t].page = job[t].page
         /\ job'[t].c = job[t].c /\ job'[t].f = job[t].f
<1>1. JobInv /\ job[t] \in JobType /\ job[t].page # 0
  BY AtWork
<1>2. job'[t] = [job[t] EXCEPT !.pc = pc, !.n = n] /\ \A u \in Thread : u # t => job'[u] = job[u]
  BY <1>1 DEF JobInv
<1>3. /\ job'[t] \in JobType
      /\ job'[t].pc = pc /\ job'[t].n = n /\ job'[t].page = job[t].page
      /\ job'[t].c = job[t].c /\ job'[t].f = job[t].f
  <2>1. PICK old \in JobType : old = job[t]
    BY <1>1
  <2>2. PICK new : new = [old EXCEPT !.pc = pc, !.n = n]
    OBVIOUS
  <2>3. new \in JobType
    BY <2>2 DEF JobType
  <2>4. new.pc = pc /\ new.n = n /\ new.page = old.page /\ new.c = old.c /\ new.f = old.f
    BY <2>2 DEF JobType
  <2>5. job'[t] = new
    BY <1>2, <2>1, <2>2
  <2>. QED
    BY <2>1, <2>3, <2>4, <2>5
<1>4. DOMAIN job' = Thread /\ job' = [u \in Thread |-> job'[u]]
  BY <1>1 DEF JobInv
<1>5. job' \in [Thread -> JobType]
  <2>1. \A u \in Thread : job[u] \in JobType
    BY <1>1 DEF JobInv
  <2>2. \A u \in Thread : job'[u] \in JobType
    BY <1>2, <1>3, <2>1
  <2>. QED
    BY <1>4, <2>2
<1>6. JobInv'
  BY <1>1, <1>2, <1>3, <1>5 DEF JobInv
<1>. QED
  BY <1>2, <1>3, <1>6 DEF Advance

\* What ending an install leaves.
LEMMA Ending ==
  ASSUME TypeInv, NEW t \in Thread, job[t].pc # "idle", job' = [job EXCEPT ![t] = NoJob]
  PROVE  JobInv' /\ Ends(t) /\ job'[t].page = 0
<1>1. JobInv
  BY AtWork
<1>2. NoJob \in JobType /\ NoJob.page = 0
  BY DEF NoJob, JobType, Pc
<1>3. job'[t] = NoJob /\ \A u \in Thread : u # t => job'[u] = job[u]
  BY <1>1 DEF JobInv
<1>4. job' \in [Thread -> JobType]
  BY <1>1, <1>2 DEF JobInv
<1>. QED
  BY <1>1, <1>2, <1>3, <1>4 DEF JobInv, Ends

\* Steps that change nothing but where the thread is.
LEMMA JobOnly ==
  ASSUME TypeInv, NEW t \in Thread, job[t].pc # "idle",
         UNCHANGED <<isX64, free, page, bs, entry, ctx, shared, misused>>,
         JobInv',
         \/ Ends(t)
         \/ \E pc \in Pc : \E n \in Nat : Advance(t, pc, n)
  PROVE  TypeInv' /\ Working(t) /\ Jumps' = Jumps /\ \A j \in Jumps : Reads(j) => Reads(j)'
<1>1. job[t].page # 0 /\ job[t] \in JobType
  BY AtWork
<1>2. job'[t].page \in {0, job[t].page}
  <2>1. CASE Ends(t)
    BY <2>1 DEF Ends, NoJob
  <2>2. CASE \E pc \in Pc : \E n \in Nat : Advance(t, pc, n)
    BY <1>1, <2>2 DEF Advance, JobType
  <2>. QED
    BY <2>1, <2>2
<1>3. Jumps' = Jumps /\ Allocated' = Allocated
  BY DEF Jumps, Allocated
<1>4. Working(t)
  BY <1>1, <1>2, <1>3 DEF Working, Ends, Advance
<1>5. \A j \in Jumps : Reads(j) => Reads(j)'
  BY <1>3 DEF Reads
<1>6. TypeInv'
  BY <1>3 DEF TypeInv, JobInv, JobType
<1>. QED
  BY <1>3, <1>4, <1>5, <1>6

ToFault(t) == job' = [job EXCEPT ![t].pc = "fault"]

\* Memory that is not there is touched only when what a thread knows is wrong.
LEMMA FaultKeeps ==
  ASSUME TypeInv, NEW t \in Thread, job[t].pc # "idle", ToFault(t),
         UNCHANGED <<isX64, free, page, bs, entry, ctx, shared, misused>>
  PROVE  /\ TypeInv' /\ Working(t) /\ Jumps' = Jumps /\ \A j \in Jumps : Reads(j) => Reads(j)'
         /\ Advance(t, "fault", job[t].n) /\ job'[t].page = job[t].page /\ job'[t].pc = "fault"
<1>1. PICK n \in Nat : n = job[t].n
  BY AtWork
<1>2. job' = [job EXCEPT ![t].pc = "fault", ![t].n = n]
  BY <1>1 DEF TypeInv, ToFault
<1>3. "fault" \in Pc \ {"idle"}
  BY DEF Pc
<1>4. JobInv' /\ Advance(t, "fault", n) /\ job'[t].page = job[t].page /\ job'[t].pc = "fault"
  BY <1>2, <1>3, Advancing
<1>. QED
  BY <1>1, <1>3, <1>4, JobOnly

\* The old count is read while nobody else changes it.
LEMMA ReadKeeps ==
  ASSUME TypeInv, NEW t \in Thread, ReadCount(t)
  PROVE  TypeInv' /\ (Sound => Sound')
<1>. DEFINE p == job[t].page
<1>0. job[t].pc = "increment" /\ UNCHANGED <<isX64, free, page, bs, entry, ctx, shared, misused>>
  BY DEF ReadCount
<1>1. p # 0 /\ job[t].n \in Nat
  BY <1>0, AtWork
<1>2. CASE p \in Allocated
  <2>1. PICK n \in Nat : n = page[p].count
    BY <1>2 DEF TypeInv
  <2>2. job' = [job EXCEPT ![t].pc = "incremented", ![t].n = n]
    BY <1>2, <2>1 DEF ReadCount
  <2>3. JobInv' /\ Advance(t, "incremented", n) /\ job'[t].pc = "incremented" /\ job'[t].n = n /\ job'[t].page = p
    BY <1>0, <2>2, Advancing DEF Pc
  <2>4. TypeInv' /\ Working(t) /\ Jumps' = Jumps /\ \A j \in Jumps : Reads(j) => Reads(j)'
    BY <1>0, <2>3, JobOnly DEF Pc
  <2>5. ASSUME Sound, p \notin shared PROVE Knows(t)'
    <3>1. \A u \in Thread : job'[u].page = p => u = t
      BY <1>1, <2>3, <2>5 DEF Sound, Knows, Advance
    <3>. QED
      BY <1>0, <1>2, <2>1, <2>3, <3>1 DEF Knows, Allocated
  <2>. QED
    BY <2>4, <2>5, OwnPage DEF Sound
<1>3. CASE p \notin Allocated
  <2>1. job' = [job EXCEPT ![t].pc = "fault"]
    BY <1>3 DEF ReadCount
  <2>2. ~Sound
    BY <1>1, <1>3 DEF Sound, Knows
  <2>. QED
    BY <1>0, <2>1, <2>2, FaultKeeps DEF ToFault
<1>. QED
  BY <1>2, <1>3

\* Counting a slot makes it newer than those of all jumps there are.
LEMMA WriteKeeps ==
  ASSUME TypeInv, NEW t \in Thread, WriteCount(t)
  PROVE  TypeInv' /\ (Sound => Sound')
<1>. DEFINE p == job[t].page
<1>0. job[t].pc = "incremented" /\ UNCHANGED <<isX64, free, bs, entry, ctx, shared, misused>>
  BY DEF WriteCount, Step
<1>1. p # 0 /\ p \in Int /\ job[t].n \in Nat
  BY <1>0, AtWork
<1>2. CASE p \in Allocated
  <2>1. PICK n \in Nat : n = job[t].n
    BY <1>1
  <2>2. job' = [job EXCEPT ![t].pc = "counted"] /\ page' = [page EXCEPT ![p].count = n + 1]
    BY <1>2, <2>1 DEF WriteCount, Step
  <2>3. job' = [job EXCEPT ![t].pc = "counted", ![t].n = n]
    BY <2>1, <2>2 DEF TypeInv
  <2>4. JobInv' /\ Advance(t, "counted", n) /\ job'[t].pc = "counted" /\ job'[t].page = p
    BY <1>0, <2>3, Advancing DEF Pc
  <2>5. Jumps' = Jumps /\ Allocated' = Allocated
    BY <1>0, <2>2 DEF Jumps, Allocated
  <2>6. /\ page' \in [Allocated -> [count : Nat, val : [Slots -> Ctx \cup {NoCtx}]]]
        /\ page'[p].count = n + 1 /\ page'[p].val = page[p].val
        /\ \A q \in Allocated : q # p => page'[q] = page[q]
    <3>1. PICK q \in Allocated : q = p
      BY <1>2
    <3>2. page' = [page EXCEPT ![q] = [page[q] EXCEPT !.count = n + 1]]
      BY <2>2, <3>1
    <3>3. PICK old \in [count : Nat, val : [Slots -> Ctx \cup {NoCtx}]] : old = page[q]
      BY DEF TypeInv
    <3>4. PICK new : new = [old EXCEPT !.count = n + 1]
      OBVIOUS
    <3>5. /\ new \in [count : Nat, val : [Slots -> Ctx \cup {NoCtx}]]
          /\ new.count = n + 1 /\ new.val = old.val
      BY <3>4
    <3>6. page' = [page EXCEPT ![q] = new]
      BY <3>2, <3>3, <3>4
    <3>7. /\ page' \in [Allocated -> [count : Nat, val : [Slots -> Ctx \cup {NoCtx}]]]
          /\ page'[q] = new /\ \A r \in Allocated : r # q => page'[r] = page[r]
      BY <3>5, <3>6 DEF TypeInv
    <3>. QED
      BY <3>1, <3>3, <3>5, <3>7
  <2>7. TypeInv'
    BY <1>0, <2>4, <2>5, <2>6 DEF TypeInv, JobInv, JobType
  <2>8. Working(t)
    BY <1>0, <1>1, <2>4, <2>5, <2>6 DEF Working, Advance
  <2>9. ASSUME Sound, p \notin shared PROVE Sound'
    <3>1. n = page[p].count
      BY <1>0, <1>1, <2>1, <2>9 DEF Sound, Knows
    <3>2. \A j \in Jumps : j.page = p => j.slot \in Slots /\ j.slot <= n /\ page[p].val[j.slot] = j.by
      BY <1>1, <2>9, <3>1 DEF Sound, Reads
    <3>3. \A j \in Jumps' : j.page = p => Reads(j)'
      BY <1>2, <2>5, <2>6, <3>2, JumpTypes DEF Reads
    <3>4. \A j \in Jumps' : j.page = p => j.slot < n + 1
      BY <2>5, <3>2, JumpTypes
    <3>5. LastSlotNew(p)'
      BY <2>4, <2>6, <3>4 DEF LastSlotNew
    <3>6. \A u \in Thread : job'[u].page = p => u = t
      BY <1>1, <2>4, <2>9 DEF Sound, Knows, Advance
    <3>7. Knows(t)'
      BY <1>2, <2>4, <2>5, <3>5, <3>6 DEF Knows
    <3>. QED
      BY <2>8, <2>9, <3>3, <3>7, OwnPage
  <2>10. ASSUME Sound, p \in shared PROVE Sound'
    BY <2>8, <2>10, OwnPage
  <2>. QED
    BY <2>7, <2>9, <2>10
<1>3. CASE p \notin Allocated
  <2>1. job' = [job EXCEPT ![t].pc = "fault"] /\ UNCHANGED page
    BY <1>3 DEF WriteCount, Step
  <2>2. ~Sound
    BY <1>1, <1>3 DEF Sound, Knows
  <2>. QED
    BY <1>0, <2>1, <2>2, FaultKeeps DEF ToFault
<1>. QED
  BY <1>2, <1>3

\* The slot that is taken is the one that was counted.
LEMMA TakeKeeps ==
  ASSUME TypeInv, NEW t \in Thread, TakeSlot(t)
  PROVE  TypeInv' /\ (Sound => Sound')
<1>. DEFINE p == job[t].page
<1>0. job[t].pc = "counted" /\ UNCHANGED <<isX64, free, page, bs, entry, ctx, shared, misused>>
  BY DEF TakeSlot
<1>1. p # 0 /\ job[t].n \in Nat
  BY <1>0, AtWork
<1>2. CASE p \in Allocated
  <2>1. PICK n \in Nat : n = page[p].count
    BY <1>2 DEF TypeInv
  <2>2. job' = [job EXCEPT ![t].pc = "taken", ![t].n = n]
    BY <1>2, <2>1 DEF TakeSlot, SlotTaken
  <2>3. JobInv' /\ Advance(t, "taken", n) /\ job'[t].pc = "taken" /\ job'[t].n = n /\ job'[t].page = p
    BY <1>0, <2>2, Advancing DEF Pc
  <2>4. TypeInv' /\ Working(t) /\ Jumps' = Jumps /\ \A j \in Jumps : Reads(j) => Reads(j)'
    BY <1>0, <2>3, JobOnly DEF Pc
  <2>5. ASSUME Sound, p \notin shared PROVE Knows(t)'
    <3>1. \A u \in Thread : job'[u].page = p => u = t
      BY <1>1, <2>3, <2>5 DEF Sound, Knows, Advance
    <3>2. LastSlotNew(p)
      BY <1>0, <1>1, <2>5 DEF Sound, Knows
    <3>3. LastSlotNew(p)'
      BY <1>0, <2>3, <2>4, <3>2 DEF LastSlotNew
    <3>. QED
      BY <1>0, <1>2, <2>1, <2>3, <3>1, <3>3 DEF Knows, Allocated
  <2>. QED
    BY <2>4, <2>5, OwnPage DEF Sound
<1>3. CASE p \notin Allocated
  <2>1. job' = [job EXCEPT ![t].pc = "fault"]
    BY <1>3 DEF TakeSlot
  <2>2. ~Sound
    BY <1>1, <1>3 DEF Sound, Knows
  <2>. QED
    BY <1>0, <2>1, <2>2, FaultKeeps DEF ToFault
<1>. QED
  BY <1>2, <1>3

\* An install that fails has only counted a slot.
LEMMA CannotKeeps ==
  ASSUME TypeInv, NEW t \in Thread, NEW short \in BOOLEAN, CannotBridge(t, short)
  PROVE  TypeInv' /\ (Sound => Sound')
<1>1. /\ job[t].pc = "taken" /\ job' = [job EXCEPT ![t] = NoJob]
      /\ UNCHANGED <<isX64, free, page, bs, entry, ctx, shared, misused>>
  BY DEF CannotBridge, Fails
<1>2. JobInv' /\ Ends(t) /\ job'[t].page = 0
  BY <1>1, Ending
<1>3. TypeInv' /\ Working(t) /\ Jumps' = Jumps /\ \A j \in Jumps : Reads(j) => Reads(j)'
  BY <1>1, <1>2, JobOnly
<1>. QED
  BY <1>2, <1>3, OwnPage DEF Sound

\* The saved jump was at the entry.
LEMMA SaveKeeps ==
  ASSUME TypeInv, NEW t \in Thread, SaveHead(t)
  PROVE  TypeInv' /\ (Sound => Sound')
<1>. DEFINE p == job[t].page
<1>0. job[t].pc = "taken" /\ UNCHANGED <<isX64, free, page, bs, entry, shared, misused>>
  BY DEF SaveHead, Step
<1>1. p # 0 /\ job[t].n \in Nat /\ job[t].c \in Ctx /\ job[t].f \in Func
  BY <1>0, AtWork
<1>2. PICK n \in Nat : n = job[t].n
  BY <1>1
<1>3. PICK c \in Ctx : c = job[t].c
  BY <1>1
<1>4. PICK f \in Func : f = job[t].f
  BY <1>1
<1>5. job' = [job EXCEPT ![t].pc = "saved"]
  BY DEF SaveHead, Step
<1>6. job' = [job EXCEPT ![t].pc = "saved", ![t].n = n]
  BY <1>2, <1>5 DEF TypeInv
<1>7. /\ JobInv' /\ Advance(t, "saved", n) /\ job'[t].pc = "saved"
      /\ job'[t].n = n /\ job'[t].page = p
  BY <1>0, <1>6, Advancing, ZenonT(20) DEF Pc
<1>8. ctx' = [ctx EXCEPT ![c] = [live |-> TRUE, f |-> f, saved |-> entry[f]]]
  BY <1>3, <1>4 DEF SaveHead
<1>9. /\ ctx' \in [Ctx -> [live : BOOLEAN, f : Func \cup {"none"}, saved : Jump]]
      /\ \A d \in Ctx : ~ctx'[d].live => ctx'[d].saved = NoJump
      /\ \A d \in Ctx : ctx'[d].saved = ctx[d].saved \/ ctx'[d].saved = entry[f]
  BY <1>8 DEF TypeInv
<1>10. Jumps' \subseteq Jumps /\ Allocated' = Allocated
  BY <1>0, <1>9 DEF Jumps, Allocated
<1>11. TypeInv'
  BY <1>0, <1>7, <1>9, <1>10 DEF TypeInv, JobInv, JobType
<1>12. Working(t)
  BY <1>0, <1>1, <1>7, <1>10 DEF Working, Advance
<1>13. ASSUME Sound PROVE Sound'
  <2>1. \A j \in Jumps' : Reads(j)'
    BY <1>0, <1>10, <1>13 DEF Sound, Reads
  <2>2. ASSUME p \notin shared PROVE Knows(t)'
    <3>1. \A u \in Thread : job'[u].page = p => u = t
      BY <1>1, <1>7, <1>13, <2>2 DEF Sound, Knows, Advance
    <3>2. p \in Allocated /\ n = page[p].count /\ LastSlotNew(p)
      BY <1>0, <1>1, <1>2, <1>13, <2>2 DEF Sound, Knows
    <3>3. LastSlotNew(p)'
      BY <1>0, <1>7, <1>10, <3>2 DEF LastSlotNew
    <3>. QED
      BY <1>0, <1>7, <1>10, <3>1, <3>2, <3>3 DEF Knows
  <2>. QED
    BY <1>12, <1>13, <2>1, <2>2, OwnPage
<1>. QED
  BY <1>11, <1>13

\* The slot that is filled is one no jump reads.
LEMMA FillKeeps ==
  ASSUME TypeInv, NEW t \in Thread, FillSlot(t)
  PROVE  TypeInv' /\ (Sound => Sound')
<1>. DEFINE p == job[t].page
<1>0. job[t].pc = "saved" /\ UNCHANGED <<isX64, free, bs, entry, ctx, shared, misused>>
  BY DEF FillSlot, Step
<1>1. p # 0 /\ p \in Int /\ job[t].n \in Nat /\ job[t].c \in Ctx
  BY <1>0, AtWork
<1>2. CASE p \in Allocated /\ job[t].n \in Slots
  <2>1. PICK n \in Nat : n = job[t].n
    BY <1>1
  <2>2. PICK c \in Ctx : c = job[t].c
    BY <1>1
  <2>3. job' = [job EXCEPT ![t].pc = "filled"] /\ page' = [page EXCEPT ![p].val[n] = c] /\ n \in Slots
    BY <1>2, <2>1, <2>2 DEF FillSlot, Step
  <2>4. job' = [job EXCEPT ![t].pc = "filled", ![t].n = n]
    BY <2>1, <2>3 DEF TypeInv
  <2>5. /\ JobInv' /\ Advance(t, "filled", n) /\ job'[t].pc = "filled"
        /\ job'[t].n = n /\ job'[t].page = p /\ job'[t].c = c
    BY <1>0, <2>2, <2>4, Advancing, ZenonT(20) DEF Pc
  <2>6. Jumps' = Jumps /\ Allocated' = Allocated
    BY <1>0, <2>3 DEF Jumps, Allocated
  <2>7. /\ page' \in [Allocated -> [count : Nat, val : [Slots -> Ctx \cup {NoCtx}]]]
        /\ page'[p].count = page[p].count /\ page'[p].val[n] = c
        /\ \A s \in Slots : s # n => page'[p].val[s] = page[p].val[s]
        /\ \A q \in Allocated : q # p => page'[q] = page[q]
    <3>1. PICK q \in Allocated : q = p
      BY <1>2
    <3>2. PICK old \in [count : Nat, val : [Slots -> Ctx \cup {NoCtx}]] : old = page[q]
      BY DEF TypeInv
    <3>3. PICK v : v = [old.val EXCEPT ![n] = c]
      OBVIOUS
    <3>4. PICK new : new = [old EXCEPT !.val = v]
      OBVIOUS
    <3>5. v \in [Slots -> Ctx \cup {NoCtx}] /\ v[n] = c /\ \A s \in Slots : s # n => v[s] = old.val[s]
      BY <2>3, <3>3
    <3>6. new \in [count : Nat, val : [Slots -> Ctx \cup {NoCtx}]] /\ new.count = old.count /\ new.val = v
      BY <3>4, <3>5
    <3>7. page' = [page EXCEPT ![q] = [page[q] EXCEPT !.val = [page[q].val EXCEPT ![n] = c]]]
      BY <2>3, <3>1
    <3>8. page' = [page EXCEPT ![q] = new]
      BY <3>2, <3>3, <3>4, <3>7
    <3>9. /\ page' \in [Allocated -> [count : Nat, val : [Slots -> Ctx \cup {NoCtx}]]]
          /\ page'[q] = new /\ \A r \in Allocated : r # q => page'[r] = page[r]
      BY <3>6, <3>8 DEF TypeInv
    <3>. QED
      BY <3>1, <3>2, <3>5, <3>6, <3>9
  <2>8. TypeInv'
    BY <1>0, <2>5, <2>6, <2>7 DEF TypeInv, JobInv, JobType
  <2>9. Working(t)
    BY <1>0, <1>1, <2>5, <2>6, <2>7 DEF Working, Advance
  <2>10. ASSUME Sound, p \notin shared PROVE Sound'
    <3>1. n = page[p].count /\ LastSlotNew(p)
      BY <1>0, <1>1, <2>1, <2>10 DEF Sound, Knows
    <3>2. ASSUME NEW j \in Jumps, j.page = p
          PROVE  j.slot \in Slots /\ j.slot < n /\ page[p].val[j.slot] = j.by
      BY <1>1, <2>10, <3>1, <3>2 DEF Sound, Reads, LastSlotNew
    <3>3. ASSUME NEW j \in Jumps', j.page = p PROVE Reads(j)'
      <4>1. j.slot \in Slots /\ j.slot < n /\ page[p].val[j.slot] = j.by /\ j.slot \in Nat
        BY <2>6, <3>2, <3>3, JumpTypes
      <4>2. page'[p].val[j.slot] = j.by /\ j.slot <= page'[p].count
        BY <2>7, <3>1, <4>1
      <4>. QED
        BY <1>2, <2>6, <3>3, <4>1, <4>2 DEF Reads
    <3>4. \A u \in Thread : job'[u].page = p => u = t
      BY <1>1, <2>5, <2>10 DEF Sound, Knows, Advance
    <3>5. Knows(t)'
      BY <1>2, <2>3, <2>5, <2>6, <2>7, <3>1, <3>4 DEF Knows
    <3>. QED
      BY <2>9, <2>10, <3>3, <3>5, OwnPage
  <2>11. ASSUME Sound, p \in shared PROVE Sound'
    BY <2>9, <2>11, OwnPage
  <2>. QED
    BY <2>8, <2>10, <2>11
<1>3. CASE ~(p \in Allocated /\ job[t].n \in Slots)
  <2>1. ToFault(t) /\ UNCHANGED page
    BY <1>3 DEF FillSlot, Step, ToFault
  <2>2. TypeInv' /\ Working(t) /\ Jumps' = Jumps /\ \A j \in Jumps : Reads(j) => Reads(j)'
    BY <1>0, <2>1, FaultKeeps
  <2>3. Advance(t, "fault", job[t].n) /\ job'[t].page = p /\ job'[t].pc = "fault"
    BY <1>0, <2>1, FaultKeeps
  <2>4. ASSUME Sound, p \notin shared PROVE Knows(t)'
    <3>1. p \in Allocated /\ job[t].n = page[p].count /\ page[p].count >= 1
      BY <1>0, <1>1, <2>4 DEF Sound, Knows, LastSlotNew
    <3>2. page[p].count > PageSlots
      BY <1>1, <1>3, <3>1, BridgeAssumption DEF Slots
    <3>3. \A u \in Thread : job'[u].page = p => u = t
      BY <1>1, <2>3, <2>4 DEF Sound, Knows, Advance
    <3>. QED
      BY <2>1, <2>3, <3>1, <3>2, <3>3 DEF Knows, Allocated
  <2>. QED
    BY <2>2, <2>3, <2>4, OwnPage DEF Sound
<1>. QED
  BY <1>2, <1>3

\* The jump that is written reads the slot that was filled.
LEMMA PatchKeeps ==
  ASSUME TypeInv, NEW t \in Thread, Patch(t)
  PROVE  TypeInv' /\ (Sound => Sound')
<1>. DEFINE p == job[t].page
<1>0. job[t].pc = "filled" /\ UNCHANGED <<isX64, free, page, bs, ctx, shared, misused>>
  BY DEF Patch
<1>1. p # 0 /\ p \in Int /\ job[t].n \in Nat /\ job[t].c \in Ctx /\ job[t].f \in Func
  BY <1>0, AtWork
<1>2. PICK new \in Jump : new = [by |-> job[t].c, page |-> p, slot |-> job[t].n]
  BY <1>1 DEF Jump
<1>3. JobInv' /\ Ends(t) /\ job'[t].page = 0
  BY <1>0, Ending DEF Patch
<1>4. entry' = [entry EXCEPT ![job[t].f] = new]
  BY <1>2 DEF Patch
<1>5. entry' \in [Func -> Jump] /\ \A g \in Func : entry'[g] = entry[g] \/ entry'[g] = new
  BY <1>1, <1>4 DEF TypeInv
<1>6. (\A j \in Jumps' : j \in Jumps \/ j = new) /\ Allocated' = Allocated
  BY <1>0, <1>5 DEF Jumps, Allocated
<1>7. TypeInv'
  BY <1>0, <1>3, <1>5, <1>6 DEF TypeInv, JobInv, JobType
<1>8. new.page = p /\ new.slot = job[t].n /\ new.by = job[t].c
  BY <1>2
<1>9. Working(t)
  BY <1>0, <1>1, <1>3, <1>6, <1>8 DEF Working, Ends
<1>10. ASSUME Sound, p \notin shared PROVE \A j \in Jumps' : j.page = p => Reads(j)'
  <2>1. /\ p \in Allocated /\ job[t].n = page[p].count /\ job[t].n \in Slots
        /\ page[p].val[job[t].n] = job[t].c
    BY <1>0, <1>1, <1>10 DEF Sound, Knows
  <2>2. Reads(new)'
    BY <1>0, <1>1, <1>6, <1>8, <2>1 DEF Reads
  <2>3. \A j \in Jumps : Reads(j)'
    BY <1>0, <1>6, <1>10 DEF Sound, Reads
  <2>. QED
    BY <1>6, <2>2, <2>3
<1>. QED
  BY <1>3, <1>7, <1>9, <1>10, OwnPage

\* A thread that begins is alone with its page, or the page counts as shared.
LEMMA BeginKeeps ==
  ASSUME TypeInv, NEW t \in Thread, NEW b \in Bridge, NEW c \in Ctx, BeginByBridgeslot(t, b, c)
  PROVE  TypeInv' /\ (Sound /\ ~misused' => Sound')
<1>1. PICK p \in Int : p = bs[b].bridgeslot /\ p # 0
  BY DEF TypeInv, BeginByBridgeslot
<1>2. PICK f \in Func : f = FuncOf[c]
  BY BridgeAssumption
<1>3. PICK new \in JobType : new = [pc |-> "increment", c |-> c, f |-> f, page |-> p, n |-> 0]
  BY DEF JobType, Pc
<1>4. new.pc = "increment" /\ new.c = c /\ new.f = f /\ new.page = p
  BY <1>3
<1>5. /\ job[t].pc = "idle" /\ shared = {}
      /\ job' = [job EXCEPT ![t] = new]
      /\ UNCHANGED <<isX64, free, page, bs, entry, ctx>>
  BY <1>1, <1>2, <1>3 DEF BeginByBridgeslot, MayHook, Idle
<1>6. job' \in [Thread -> JobType] /\ job'[t] = new /\ \A u \in Thread : u # t => job'[u] = job[u]
  BY <1>5 DEF TypeInv, JobType
<1>7. Jumps' = Jumps /\ Allocated' = Allocated
  BY <1>5 DEF Jumps, Allocated
<1>8. JobInv'
  BY <1>1, <1>4, <1>6 DEF TypeInv, JobInv, JobType
<1>9. TypeInv'
  BY <1>5, <1>7, <1>8 DEF TypeInv, JobInv, JobType
<1>10. ASSUME Sound, ~misused' PROVE Sound'
  <2>1. p \in Allocated
    BY <1>1, <1>10 DEF BeginByBridgeslot
  <2>2. p \in shared' \/ \A u \in Thread : job[u].page # p
    BY <1>1 DEF BeginByBridgeslot
  <2>3. \A j \in Jumps' : Reads(j)'
    BY <1>5, <1>7, <1>10 DEF Sound, Reads
  <2>4. Knows(t)'
    <3>1. p \notin shared' => \A u \in Thread : job'[u].page = p => u = t
      BY <1>6, <2>2
    <3>. QED
      BY <1>4, <1>6, <1>7, <2>1, <3>1 DEF Knows
  <2>5. ASSUME NEW u \in Thread, u # t PROVE Knows(u)'
    <3>1. PICK q \in Int : q = job[u].page
      BY DEF TypeInv
    <3>2. job'[u] = job[u] /\ Knows(u)
      BY <1>6, <1>10, <2>5 DEF Sound
    <3>3. CASE q = 0
      BY <3>1, <3>2, <3>3 DEF Knows
    <3>4. CASE q = p
      BY <1>7, <2>1, <2>2, <3>1, <3>2, <3>4 DEF Knows
    <3>5. CASE q # 0 /\ q # p
      <4>1. \A w \in Thread : job'[w].page = q => job[w].page = q
        BY <1>4, <1>6, <3>5
      <4>2. LastSlotNew(q) => LastSlotNew(q)'
        BY <1>5, <1>7 DEF LastSlotNew
      <4>. QED
        BY <1>5, <1>7, <3>1, <3>2, <3>5, <4>1, <4>2 DEF Knows
    <3>. QED
      BY <3>3, <3>4, <3>5
  <2>. QED
    BY <2>3, <2>4, <2>5 DEF Sound
<1>. QED
  BY <1>9, <1>10

-----------------------------------------------------------------------------
(* The invariant, and what follows from it.                                *)

\* In the beginning nothing is allocated and no jump is there.
LEMMA Begins == Init => IInv
<1>. SUFFICES ASSUME Init PROVE IInv
  OBVIOUS
<1>1. Allocated = {} /\ page \in [Allocated -> [count : Nat, val : [Slots -> Ctx \cup {NoCtx}]]]
  BY DEF Init, Allocated
<1>2. free \subseteq Int
  BY BridgeAssumption DEF Init
<1>3. NoJump \in Jump /\ NoJump.page = 0
  BY DEF NoJump, Jump
<1>4. /\ Unused \in [live : BOOLEAN, f : Func \cup {"none"}, saved : Jump]
      /\ Unused.saved = NoJump
  BY <1>3 DEF Unused
<1>5. NoJob \in JobType /\ NoJob.page = 0
  BY DEF NoJob, JobType, Pc
<1>6. TypeInv
  BY <1>1, <1>2, <1>3, <1>4, <1>5 DEF Init, TypeInv, JobType
<1>7. Jumps \subseteq {NoJump}
  BY <1>4 DEF Init, Jumps
<1>8. Sound
  BY <1>3, <1>5, <1>7 DEF Init, Sound, Reads, Knows
<1>. QED
  BY <1>6, <1>8 DEF IInv

\* Every step keeps it; a misuse is never forgotten.
LEMMA NextKeeps == IInv /\ [Next]_vars => IInv'
<1>. SUFFICES ASSUME IInv, [Next]_vars PROVE IInv'
  OBVIOUS
<1>0. TypeInv /\ (~misused => Sound)
  BY DEF IInv
<1>1. CASE UNCHANGED vars
  <2>1. TypeInv'
    BY <1>0, <1>1 DEF vars, TypeInv, Allocated
  <2>2. Sound => Sound'
    BY <1>1 DEF vars, Sound, Reads, Knows, LastSlotNew, Jumps, Allocated
  <2>. QED
    BY <1>0, <1>1, <2>1, <2>2 DEF vars, IInv
<1>2. CASE Next
  <2>1. PICK t \in Thread :
          \/ \E b \in Bridge :
               \/ PrepareHookBridge(t, b) \/ Free(t, b)
               \/ \E c \in Ctx :
                    \/ BeginByBridgeslot(t, b, c)
                    \/ \E disable, short \in BOOLEAN : HookDirect(t, b, c, disable, short)
          \/ \E c \in Ctx : UnInstall(t, c)
          \/ ReadCount(t) \/ WriteCount(t) \/ TakeSlot(t)
          \/ \E short \in BOOLEAN : CannotBridge(t, short)
          \/ SaveHead(t) \/ FillSlot(t) \/ Patch(t)
    BY <1>2, Zenon DEF Next
  <2>2. ASSUME NEW b \in Bridge, PrepareHookBridge(t, b) PROVE IInv'
    <3>1. misused' = misused
      BY <2>2 DEF PrepareHookBridge
    <3>. QED
      BY <1>0, <2>2, <3>1, PrepareKeeps DEF IInv
  <2>3. ASSUME NEW b \in Bridge, Free(t, b) PROVE IInv'
    <3>1. ~misused' => ~misused
      BY <2>3 DEF Free
    <3>. QED
      BY <1>0, <2>3, <3>1, FreeKeeps DEF IInv
  <2>4. ASSUME NEW b \in Bridge, NEW c \in Ctx, BeginByBridgeslot(t, b, c) PROVE IInv'
    <3>1. ~misused' => ~misused
      BY <2>4 DEF BeginByBridgeslot
    <3>. QED
      BY <1>0, <2>4, <3>1, BeginKeeps DEF IInv
  <2>5. ASSUME NEW b \in Bridge, NEW c \in Ctx, NEW disable \in BOOLEAN, NEW short \in BOOLEAN,
               HookDirect(t, b, c, disable, short)
        PROVE IInv'
    <3>1. misused' = misused
      BY <2>5 DEF HookDirect
    <3>. QED
      BY <1>0, <2>5, <3>1, DirectKeeps DEF IInv
  <2>6. ASSUME NEW c \in Ctx, UnInstall(t, c) PROVE IInv'
    <3>1. misused' = misused
      BY <2>6 DEF UnInstall
    <3>. QED
      BY <1>0, <2>6, <3>1, UnInstallKeeps DEF IInv
  <2>7. ASSUME ReadCount(t) \/ WriteCount(t) \/ TakeSlot(t) \/ SaveHead(t) \/ FillSlot(t) \/ Patch(t)
        PROVE IInv'
    <3>1. misused' = misused
      BY <2>7 DEF ReadCount, WriteCount, TakeSlot, SaveHead, FillSlot, Patch
    <3>2. TypeInv' /\ (Sound => Sound')
      BY <1>0, <2>7, ReadKeeps, WriteKeeps, TakeKeeps, SaveKeeps, FillKeeps, PatchKeeps
    <3>. QED
      BY <1>0, <3>1, <3>2 DEF IInv
  <2>8. ASSUME NEW short \in BOOLEAN, CannotBridge(t, short) PROVE IInv'
    <3>1. misused' = misused
      BY <2>8 DEF CannotBridge, Fails
    <3>. QED
      BY <1>0, <2>8, <3>1, CannotKeeps DEF IInv
  <2>. QED
    BY <2>1, <2>2, <2>3, <2>4, <2>5, <2>6, <2>7, <2>8, Zenon
<1>. QED
  BY <1>1, <1>2

\* So the invariant holds for ever.
LEMMA Inductive == Spec => []IInv
BY Begins, NextKeeps, PTL DEF Spec

\* For any number of threads, bridges and slots: while no two threads install
\* through one page at a time and no page is freed under its hooks, every jump
\* through a slot reads what its own install wrote there (hooklib.c 393-416).
THEOREM SlotsKeepOwners == Spec => []JumpsReadOwnSlot
<1>1. IInv => JumpsReadOwnSlot
  <2>. SUFFICES ASSUME IInv, ~misused, NEW j \in Jumps, j.page # 0, j.page \notin shared
                PROVE  j.page \in Allocated /\ j.slot \in Slots /\ page[j.page].val[j.slot] = j.by
    BY DEF JumpsReadOwnSlot
  <2>1. Reads(j)
    BY DEF IInv, Sound
  <2>. QED
    BY <2>1 DEF Reads
<1>. QED
  BY <1>1, Inductive, PTL

\* A thread runs into memory that is not there only after a misuse, in a page
\* two threads met in, or by installing more hooks than the page has slots
\* (hooklib.c 393-416).
THEOREM FaultsHaveCauses == Spec => []FaultsExplained
<1>1. IInv => FaultsExplained
  <2>. SUFFICES ASSUME IInv, ~misused, shared = {}, NEW t \in Thread, job[t].pc = "fault"
                PROVE  \E p \in Allocated : page[p].count > PageSlots
    BY DEF FaultsExplained, Faulted
  <2>1. job[t].page # 0
    BY AtWork DEF IInv
  <2>2. Knows(t)
    BY DEF IInv, Sound
  <2>. QED
    BY <2>1, <2>2 DEF Knows
<1>. QED
  BY <1>1, Inductive, PTL

-----------------------------------------------------------------------------
(* Where pages are.                                                        *)

\* VirtualAlloc reserves whole blocks, none of them in the module.
Outside(p) ==
  /\ p \in Nat \ {0} /\ BlockOf(p) = p
  /\ p + Block <= Handle \/ Handle + ModulePages <= p

Placed ==
  /\ isX64 \in BOOLEAN
  /\ \A p \in free \cup Allocated : Outside(p)
  /\ \A p \in Allocated : page[p].count <= PageSlots + 1
  /\ \A c \in Ctx : ctx[c].live => ctx[c].f \in Func

\* Pages are taken from the free blocks and given back to them.
LEMMA PlacedKept ==
  ASSUME TypeInv, TypeInv', Placed, [Next]_vars
  PROVE  Placed'
<1>1. CASE UNCHANGED vars
  BY <1>1 DEF vars, Placed, Allocated
<1>2. ASSUME NEW t \in Thread, NEW b \in Bridge, PrepareHookBridge(t, b) PROVE Placed'
  <2>1. CASE UNCHANGED <<free, page>>
    BY <1>2, <2>1 DEF PrepareHookBridge, Placed, Allocated
  <2>2. CASE Search # 0 /\ Alloc(b)
    <3>1. Search \in free
      BY <2>2, SearchFree
    <3>2. free' \subseteq free /\ Allocated' = Allocated \cup {Search}
      BY <2>2 DEF Alloc, Allocated
    <3>3. \A p \in Allocated' : page'[p].count = 0 \/ (page'[p] = page[p] /\ p \in Allocated)
      BY <2>2 DEF Alloc, Allocated
    <3>. QED
      BY <1>2, <3>1, <3>2, <3>3, BridgeAssumption DEF PrepareHookBridge, Placed
  <2>. QED
    BY <1>2, <2>1, <2>2 DEF PrepareHookBridge, Alloc
<1>3. ASSUME NEW t \in Thread, NEW b \in Bridge, Free(t, b) PROVE Placed'
  <2>1. /\ Allocated' \subseteq Allocated /\ free' \subseteq free \cup Allocated
        /\ \A p \in Allocated' : page'[p] = page[p]
    BY <1>3 DEF Free, Allocated
  <2>. QED
    BY <1>3, <2>1 DEF Free, Placed
<1>4. ASSUME NEW t \in Thread, WriteCount(t) PROVE Placed'
  <2>1. /\ Allocated' = Allocated
        /\ \A p \in Allocated : page'[p] = page[p] \/ page'[p].count = job[t].n + 1
    BY <1>4 DEF WriteCount, Allocated, TypeInv
  <2>2. job[t].n \in Nat /\ job[t].n <= PageSlots
    BY <1>4 DEF WriteCount, TypeInv
  <2>3. \A p \in Allocated : page'[p].count <= PageSlots + 1
    BY <2>1, <2>2, BridgeAssumption DEF Placed
  <2>. QED
    BY <1>4, <2>1, <2>3 DEF WriteCount, Placed
<1>5. ASSUME NEW t \in Thread, FillSlot(t) PROVE Placed'
  <2>1. Allocated' = Allocated /\ \A p \in Allocated : page'[p].count = page[p].count
    <3>1. PICK q, n, c : page' = page \/ page' = [page EXCEPT ![q].val[n] = c]
      BY <1>5 DEF FillSlot
    <3>2. page \in [Allocated -> [count : Nat, val : [Slots -> Ctx \cup {NoCtx}]]]
      BY DEF TypeInv
    <3>. QED
      BY <3>1, <3>2 DEF Allocated
  <2>. QED
    BY <1>5, <2>1 DEF FillSlot, Placed
<1>6. ASSUME NEW t \in Thread, SaveHead(t) PROVE Placed'
  <2>1. job[t].f \in Func
    BY <1>6 DEF SaveHead, Step, TypeInv, NoJob
  <2>2. \A c \in Ctx : ctx'[c] = ctx[c] \/ ctx'[c].f = job[t].f
    BY <1>6 DEF SaveHead, TypeInv
  <2>. QED
    BY <1>6, <2>1, <2>2 DEF SaveHead, Placed, Allocated
<1>7. ASSUME NEW t \in Thread, NEW b \in Bridge, NEW c \in Ctx, NEW d \in BOOLEAN, NEW s \in BOOLEAN,
             HookDirect(t, b, c, d, s)
      PROVE  Placed'
  <2>1. \A e \in Ctx : ctx'[e] = ctx[e] \/ ctx'[e].f = FuncOf[c]
    BY <1>7 DEF HookDirect, TypeInv
  <2>. QED
    BY <1>7, <2>1, BridgeAssumption DEF HookDirect, Placed, Allocated
<1>8. ASSUME NEW t \in Thread, NEW c \in Ctx, UnInstall(t, c) PROVE Placed'
  <2>1. \A e \in Ctx : ctx'[e] = ctx[e] \/ ~ctx'[e].live
    BY <1>8 DEF UnInstall, TypeInv, Unused
  <2>. QED
    BY <1>8, <2>1 DEF UnInstall, Placed, Allocated
<1>9. ASSUME UNCHANGED <<isX64, free, page, ctx>> PROVE Placed'
  BY <1>9 DEF Placed, Allocated
<1>10. ASSUME NEW t \in Thread, NEW b \in Bridge, NEW c \in Ctx, BeginByBridgeslot(t, b, c)
       PROVE  Placed'
  BY <1>9, <1>10 DEF BeginByBridgeslot
<1>11. ASSUME NEW t \in Thread, NEW s \in BOOLEAN, CannotBridge(t, s) PROVE Placed'
  BY <1>9, <1>11 DEF CannotBridge, Fails
<1>12. ASSUME NEW t \in Thread, ReadCount(t) \/ TakeSlot(t) \/ Patch(t) PROVE Placed'
  BY <1>9, <1>12 DEF ReadCount, TakeSlot, Patch
<1>. QED
  BY <1>1, <1>2, <1>3, <1>4, <1>5, <1>6, <1>7, <1>8, <1>10, <1>11, <1>12 DEF Next

\* At the beginning no page is allocated.
LEMMA PlacedFirst == Init => Placed
<1>. SUFFICES ASSUME Init PROVE Placed
  OBVIOUS
<1>1. Allocated = {}
  BY DEF Init, Allocated
<1>2. \A p \in free : Outside(p)
  BY BridgeAssumption DEF Init, Outside
<1>. QED
  BY <1>1, <1>2 DEF Init, Placed, Unused

\* So pages are where VirtualAlloc may put them, for ever.
LEMMA PlacedAlways == Spec => [](TypeInv /\ Placed)
<1>1. IInv => TypeInv
  BY DEF IInv
<1>. QED
  BY <1>1, Inductive, PlacedFirst, PlacedKept, PTL DEF Spec

\* The data of bridges keep their types, pages are blocks that are not free,
\* and no count goes beyond one attempt too many, for any number of threads,
\* bridges, contexts and slots (hooklib.c 381-419, HooklibCPP.cpp).
THEOREM TypesKept == Spec => []TypeOK
<1>1. TypeInv /\ Placed => TypeOK
  <2>. SUFFICES ASSUME TypeInv, Placed PROVE TypeOK
    OBVIOUS
  <2>1. ASSUME NEW p \in Allocated
        PROVE  BlockOf(p) = p /\ p \notin free /\ page[p].count \in 0 .. PageSlots + 1
    <3>1. page[p].count \in Nat
      BY DEF TypeInv
    <3>. QED
      BY <3>1, BridgeAssumption DEF TypeInv, Placed, Outside
  <2>. QED
    BY <2>1 DEF TypeInv, Placed, TypeOK, Jump
<1>. QED
  BY <1>1, PlacedAlways, PTL

-----------------------------------------------------------------------------
(* Where the search ends.                                                  *)

\* The multiple of b in front of x.
LEMMA Multiples ==
  ASSUME NEW b \in Nat, b > 0, NEW x \in Int
  PROVE  \E k \in Int : x - (x % b) = b * k /\ b * k <= x /\ x < b * k + b
<1>1. x % b \in 0 .. b - 1 /\ x = b * (x \div b) + (x % b) /\ x \div b \in Int
  OBVIOUS
<1>. QED
  BY <1>1

\* Two multiples of b differ by b or more.
LEMMA MultiplesApart ==
  ASSUME NEW b \in Nat, b > 0, NEW k \in Int, NEW m \in Int, k < m
  PROVE  b * k + b <= b * m
<1>1. PICK d \in Nat : m = k + 1 + d
  <2>1. m - k - 1 \in Nat /\ m = k + 1 + (m - k - 1)
    OBVIOUS
  <2>. QED
    BY <2>1
<1>2. b * m = b * k + b + b * d /\ b * d >= 0
  BY <1>1
<1>. QED
  BY <1>2

\* The block an address is in, and no other.
LEMMA BlockFacts ==
  ASSUME NEW x \in Int
  PROVE  /\ BlockOf(x) \in Int /\ BlockOf(x) <= x /\ x < BlockOf(x) + Block
         /\ \A p \in Int : BlockOf(p) = p /\ p <= x /\ x < p + Block => BlockOf(x) = p
         /\ \A p \in Int : BlockOf(p) = p /\ p < BlockOf(x) => p + Block <= BlockOf(x)
<1>0. Block \in Nat /\ Block > 0
  BY BridgeAssumption
<1>1. PICK k \in Int : BlockOf(x) = Block * k /\ Block * k <= x /\ x < Block * k + Block
  BY <1>0, Multiples DEF BlockOf
<1>2. Block * k \in Int
  BY <1>0
<1>3. ASSUME NEW p \in Int, BlockOf(p) = p
      PROVE  /\ p <= x /\ x < p + Block => BlockOf(x) = p
             /\ p < BlockOf(x) => p + Block <= BlockOf(x)
  <2>1. PICK m \in Int : p = Block * m
    BY <1>0, <1>3, Multiples DEF BlockOf
  <2>2. CASE k < m
    BY <1>0, <1>1, <1>2, <2>1, <2>2, MultiplesApart
  <2>3. CASE m < k
    BY <1>0, <1>1, <1>2, <2>1, <2>3, MultiplesApart
  <2>4. CASE m = k
    BY <1>0, <1>1, <1>2, <2>1, <2>4
  <2>. QED
    BY <2>2, <2>3, <2>4
<1>. QED
  BY <1>1, <1>2, <1>3

\* The greatest of a set that has one.
LEMMA Greatest ==
  ASSUME NEW S, S \subseteq Int, NEW m \in S, \A x \in S : x <= m
  PROVE  Max(S) = m
<1>1. Max(S) = CHOOSE x \in S : \A y \in S : x >= y
  BY DEF Max
<1>2. \A x \in S : (\A y \in S : x >= y) => x = m
  OBVIOUS
<1>3. \A y \in S : m >= y
  OBVIOUS
<1>. QED
  BY <1>1, <1>2, <1>3

\* The least of the addresses that were tried and found free.
LEMMA FirstProbe ==
  ASSUME NEW start \in Int, NEW step \in {1, -1}, Probed(start, step) # {}
  PROVE  LET i == Min(Probed(start, step))
         IN i \in Probed(start, step) /\ \A j \in Probed(start, step) : i <= j
<1>. DEFINE S == Probed(start, step)
<1>1. S \subseteq Nat
  BY BridgeAssumption DEF Probed
<1>. HIDE DEF S
<1>2. Min(S) \in S
  BY <1>1, Least DEF S
<1>3. PICK x \in S : \A y \in S : ~ (<<y, x>> \in OpToRel(<, Nat))
  <2>1. S \subseteq Nat /\ S # {}
    BY <1>1 DEF S
  <2>. QED
    BY <2>1, NatLessThanWellFounded, WFMin
<1>4. \A y \in S : x \in Nat /\ y \in Nat /\ ~(y < x)
  BY <1>1, <1>3 DEF OpToRel
<1>5. \A y \in S : x <= y
  BY <1>4
<1>6. Min(S) = CHOOSE z \in S : \A y \in S : z <= y
  BY DEF Min
<1>. QED
  BY <1>5, <1>6 DEF S

\* What lies below the module is found from the top.
LEMMA BelowFound ==
  ASSUME TypeInv, Placed, NothingHides(free), NEW p \in free, p < Handle
  PROVE  Search # 0 /\ ReachesAll(Search)
<1>. DEFINE S == {x \in free : x < Handle}
            low == Probed(Handle, -1)
<1>1. S \subseteq Nat /\ p \in S /\ Handle \in Nat
  BY BridgeAssumption DEF Placed, Outside
<1>2. \A x \in S : x + Block <= Handle /\ BlockOf(x) = x /\ x # 0
  BY BridgeAssumption DEF Placed, Outside
<1>3. PICK m \in S : \A x \in S : x <= m
  <2>. DEFINE D == {Handle - x : x \in S}
  <2>1. D \subseteq Nat /\ D # {}
    BY <1>1
  <2>2. PICK d \in D : \A e \in D : ~ (<<e, d>> \in OpToRel(<, Nat))
    <3>. HIDE DEF D
    <3>. QED
      BY <2>1, NatLessThanWellFounded, WFMin
  <2>3. PICK m \in S : d = Handle - m
    OBVIOUS
  <2>4. ASSUME NEW x \in S PROVE x <= m
    <3>1. Handle - x \in D /\ Handle - x \in Nat /\ d \in Nat
      BY <2>1
    <3>2. ~(Handle - x < d)
      BY <2>2, <3>1 DEF OpToRel
    <3>. QED
      BY <1>1, <2>3, <3>1, <3>2
  <2>. QED
    BY <2>4
<1>4. Max(S) = m
  BY <1>1, <1>3, Greatest
<1>5. ReachesAll(m)
  BY <1>1, <1>4 DEF NothingHides
<1>. DEFINE j == Handle - (m + Block - 1)
<1>6. j \in 1 .. Probes
  <2>1. PICK f \in Func : FuncPage[f] \in Int /\ FuncPage[f] >= Handle
    BY BridgeAssumption
  <2>2. Abs(m - FuncPage[f]) < ReachPages
    BY <1>5 DEF ReachesAll, Reaches
  <2>3. FuncPage[f] - m < ReachPages
    BY <1>1, <2>1, <2>2, BridgeAssumption DEF Abs
  <2>4. j >= 1
    BY <1>1, <1>2, BridgeAssumption
  <2>. QED
    BY <1>1, <2>1, <2>3, <2>4, BridgeAssumption
<1>7. BlockOf(Handle + (-1) * j) = m
  <2>1. Handle + (-1) * j = m + Block - 1 /\ m + Block - 1 \in Int
    BY <1>1, <1>6, BridgeAssumption
  <2>2. m <= m + Block - 1 /\ m + Block - 1 < m + Block /\ BlockOf(m) = m
    BY <1>1, <1>2, BridgeAssumption
  <2>. QED
    BY <1>1, <2>1, <2>2, BlockFacts
<1>8. j \in low
  BY <1>6, <1>7 DEF Probed
<1>9. /\ Min(low) \in low
      /\ Min(low) <= j
  BY <1>1, <1>8, FirstProbe
<1>. HIDE DEF j
<1>10. PICK i \in Nat : i = Min(low) /\ i >= 1 /\ i <= j /\ BlockOf(Handle + (-1) * i) \in free
  <2>1. Min(low) \in 1 .. Probes /\ BlockOf(Handle + (-1) * Min(low)) \in free
    BY <1>9, Zenon DEF Probed
  <2>2. Min(low) \in Nat /\ Min(low) >= 1 /\ Min(low) <= j
    BY <1>9, <2>1, BridgeAssumption
  <2>. QED
    BY <2>1, <2>2
<1>11. Handle + (-1) * i = Handle - i /\ Handle - i \in Int
  BY <1>1, <1>10
<1>12. BlockOf(Handle - i) \in S
  <2>1. BlockOf(Handle - i) <= Handle - i /\ BlockOf(Handle - i) \in Int
    BY <1>11, BlockFacts
  <2>. QED
    BY <1>1, <1>10, <1>11, <2>1
<1>13. Search = BlockOf(Handle - i)
  BY <1>8, <1>10 DEF Search
<1>14. m <= BlockOf(Handle - i)
  <2>1. Handle - i >= m + Block - 1
    BY <1>1, <1>10, <1>6, BridgeAssumption DEF j
  <2>2. Handle - i < BlockOf(Handle - i) + Block /\ BlockOf(Handle - i) \in Int
    BY <1>11, BlockFacts
  <2>. QED
    BY <1>1, <1>11, <2>1, <2>2, BridgeAssumption
<1>15. BlockOf(Handle - i) = m
  BY <1>1, <1>3, <1>12, <1>14
<1>. QED
  BY <1>2, <1>5, <1>13, <1>15

\* What is in reach above the module is found if there is nothing below.
LEMMA AboveFound ==
  ASSUME TypeInv, Placed, \A p \in free : ~(p < Handle),
         NEW q \in free, ReachesAll(q)
  PROVE  Search # 0 /\ ReachesAll(Search)
<1>. DEFINE start == Handle + ModulePages + 1
            low == Probed(Handle, -1)
            high == Probed(start, 1)
            j == IF q > start THEN q - start ELSE 1
<1>1. /\ Handle \in Nat /\ ModulePages \in Nat /\ start \in Nat
      /\ q \in Nat /\ q # 0 /\ BlockOf(q) = q /\ q >= Handle + ModulePages
      /\ Block \in Nat /\ Block >= 3
  BY BridgeAssumption DEF Placed, Outside
<1>2. low = {}
  <2>1. SUFFICES ASSUME NEW i \in 1 .. Probes, BlockOf(Handle + (-1) * i) \in free PROVE FALSE
    BY DEF Probed
  <2>2. Handle + (-1) * i \in Int /\ Handle + (-1) * i < Handle
    BY <1>1, BridgeAssumption
  <2>3. BlockOf(Handle + (-1) * i) \in Int /\ BlockOf(Handle + (-1) * i) <= Handle + (-1) * i
    BY <2>2, BlockFacts
  <2>. QED
    BY <1>1, <2>1, <2>2, <2>3
<1>3. j \in 1 .. Probes
  <2>1. PICK f \in Func : FuncPage[f] \in Int /\ FuncPage[f] <= Handle + ModulePages - 1
    BY BridgeAssumption
  <2>2. Abs(q - FuncPage[f]) < ReachPages
    BY DEF ReachesAll, Reaches
  <2>3. q - FuncPage[f] < ReachPages
    BY <1>1, <2>1, <2>2, BridgeAssumption DEF Abs
  <2>. QED
    BY <1>1, <2>1, <2>3, BridgeAssumption
<1>4. BlockOf(start + 1 * j) = q
  <2>1. q <= start + 1 * j /\ start + 1 * j < q + Block /\ start + 1 * j \in Int
    BY <1>1, <1>3
  <2>. QED
    BY <1>1, <2>1, BlockFacts
<1>5. j \in high
  BY <1>3, <1>4 DEF Probed
<1>6. Min(high) \in high /\ Min(high) <= j
  BY <1>1, <1>5, FirstProbe
<1>7. PICK i \in Nat : i = Min(high) /\ i >= 1 /\ i <= j /\ BlockOf(start + 1 * i) \in free
  <2>1. Min(high) \in 1 .. Probes /\ BlockOf(start + 1 * Min(high)) \in free
    BY <1>6, Zenon DEF Probed
  <2>. QED
    BY <1>6, <2>1, BridgeAssumption
<1>8. PICK a \in free : a = BlockOf(start + 1 * i)
  BY <1>7
<1>9. Search = a
  <2>1. start + 1 * i = Handle + ModulePages + 1 + i
    BY <1>1
  <2>. QED
    BY <1>2, <1>5, <1>7, <1>8, <2>1 DEF Search
<1>10. a <= start + 1 * i /\ start + 1 * i < a + Block /\ a \in Nat \ {0} /\ BlockOf(a) = a
       /\ a >= Handle + ModulePages
  <2>1. start + 1 * i \in Int
    BY <1>1
  <2>2. a <= start + 1 * i /\ start + 1 * i < a + Block
    BY <1>8, <2>1, BlockFacts
  <2>3. /\ a \in Nat \ {0} /\ BlockOf(a) = a
        /\ a + Block <= Handle \/ Handle + ModulePages <= a
    BY DEF Placed, Outside
  <2>. QED
    BY <1>1, <1>7, <2>2, <2>3
<1>11. a <= q
  <2>1. CASE q < a
    <3>1. start + 1 * j \in Int /\ start + 1 * i <= start + 1 * j /\ start + 1 * j < q + Block
      BY <1>1, <1>3, <1>7
    <3>2. q + Block <= a
      BY <1>1, <1>10, <2>1, BlockFacts
    <3>. QED
      BY <1>1, <1>10, <3>1, <3>2
  <2>. QED
    BY <1>1, <1>10, <2>1
<1>12. ASSUME NEW f \in Func PROVE Reaches(a, f)
  <2>1. FuncPage[f] \in Int /\ FuncPage[f] <= Handle + ModulePages - 1
    BY BridgeAssumption
  <2>2. Abs(q - FuncPage[f]) < ReachPages
    BY DEF ReachesAll, Reaches
  <2>. QED
    BY <1>1, <1>10, <1>11, <2>1, <2>2, BridgeAssumption DEF Abs, Reaches
<1>. QED
  BY <1>9, <1>10, <1>12 DEF ReachesAll

\* What is known of a bridge and the blocks it was prepared with.
Served(blocks, p) ==
  NothingHides(blocks) /\ (\E q \in blocks : ReachesAll(q)) => p \in blocks /\ ReachesAll(p)

SeenInv ==
  /\ seen = [b \in Bridge |-> seen[b]]
  /\ isX64 => \A b \in Bridge : Served(seen[b], bs[b].bridgeslot)

\* What a search returns serves the bridge it is made for.
LEMMA SearchServes ==
  ASSUME TypeInv, Placed
  PROVE  Served(free, Search)
<1>. SUFFICES ASSUME NothingHides(free), NEW q \in free, ReachesAll(q)
              PROVE  Search \in free /\ ReachesAll(Search)
  BY DEF Served
<1>1. Search # 0 /\ ReachesAll(Search)
  <2>1. CASE \E p \in free : p < Handle
    BY <2>1, BelowFound
  <2>2. CASE \A p \in free : ~(p < Handle)
    BY <2>2, AboveFound
  <2>. QED
    BY <2>1, <2>2
<1>. QED
  BY <1>1, SearchFree

LEMMA PrepareServes ==
  ASSUME TypeInv, Placed, SeenInv, NEW t \in Thread, NEW d \in Bridge, PrepareHookBridge(t, d)
  PROVE  SeenInv'
<1>1. seen' = [seen EXCEPT ![d] = free] /\ isX64' = isX64
  BY DEF PrepareHookBridge
<1>2. ASSUME isX64, NEW b \in Bridge PROVE Served(seen'[b], bs'[b].bridgeslot)
  <2>1. bs' = [bs EXCEPT ![d] = [bridgeslot |-> Search, m_modulehandle |-> Handle]]
    BY <1>2 DEF PrepareHookBridge, Alloc
  <2>2. CASE b = d
    <3>1. bs'[b].bridgeslot = Search /\ seen'[b] = free
      BY <1>1, <2>1, <2>2 DEF TypeInv, SeenInv
    <3>. QED
      BY <3>1, SearchServes
  <2>3. CASE b # d
    <3>1. bs'[b] = bs[b] /\ seen'[b] = seen[b]
      BY <1>1, <2>1, <2>3 DEF TypeInv, SeenInv
    <3>. QED
      BY <1>2, <3>1 DEF SeenInv
  <2>. QED
    BY <2>2, <2>3
<1>3. seen' = [b \in Bridge |-> seen'[b]]
  BY <1>1 DEF SeenInv
<1>. QED
  BY <1>1, <1>2, <1>3 DEF SeenInv, Served, NothingHides, ReachesAll, Reaches

\* Only the preparation of a bridge changes the pointer of one.
LEMMA PointersLeft ==
  ASSUME [Next]_vars
  PROVE  \/ \E t \in Thread, d \in Bridge : PrepareHookBridge(t, d)
         \/ UNCHANGED <<isX64, bs, seen>>
<1>. DEFINE Left == UNCHANGED <<isX64, bs, seen>>
<1>1. CASE UNCHANGED vars
  BY <1>1 DEF vars
<1>2. CASE Next
  <2>1. ASSUME NEW t \in Thread, NEW d \in Bridge
        PROVE  /\ Free(t, d) => Left
               /\ \A c \in Ctx : BeginByBridgeslot(t, d, c) => Left
               /\ \A c \in Ctx, x, s \in BOOLEAN : HookDirect(t, d, c, x, s) => Left
    BY DEF Free, BeginByBridgeslot, HookDirect
  <2>2. ASSUME NEW t \in Thread
        PROVE  /\ \A c \in Ctx : UnInstall(t, c) => Left
               /\ \A s \in BOOLEAN : CannotBridge(t, s) => Left
               /\ ReadCount(t) \/ WriteCount(t) \/ TakeSlot(t) => Left
               /\ SaveHead(t) \/ FillSlot(t) \/ Patch(t) => Left
    BY DEF UnInstall, ReadCount, WriteCount, TakeSlot, CannotBridge, Fails, SaveHead, FillSlot, Patch
  <2>. HIDE DEF Left
  <2>3. PICK t \in Thread :
          \/ \E d \in Bridge :
               \/ PrepareHookBridge(t, d) \/ Free(t, d)
               \/ \E c \in Ctx :
                    \/ BeginByBridgeslot(t, d, c)
                    \/ \E disable, short \in BOOLEAN : HookDirect(t, d, c, disable, short)
          \/ \E c \in Ctx : UnInstall(t, c)
          \/ ReadCount(t) \/ WriteCount(t) \/ TakeSlot(t)
          \/ \E short \in BOOLEAN : CannotBridge(t, short)
          \/ SaveHead(t) \/ FillSlot(t) \/ Patch(t)
    BY <1>2, Zenon DEF Next
  <2>4. (\E d \in Bridge : PrepareHookBridge(t, d)) \/ Left
    BY <2>1, <2>2, <2>3
  <2>. QED
    BY <2>4 DEF Left
<1>. QED
  BY <1>1, <1>2

\* Wherever blocks of the address space are free: if some block was in reach of
\* every function of the module when a bridge was prepared, the page it got is
\* one of those, unless the nearest block below the module is out of reach of
\* one of them and hides it.  A preparation that finds nothing is judged as
\* well, the first of a bridge included (hooklib.c 466-494).
THEOREM NearestFirst == Spec => []SearchFindsReach
<1>1. Init => SeenInv
  BY DEF Init, SeenInv, Served
<1>2. TypeInv /\ Placed /\ SeenInv /\ [Next]_vars => SeenInv'
  <2>. SUFFICES ASSUME TypeInv, Placed, SeenInv, [Next]_vars PROVE SeenInv'
    OBVIOUS
  <2>1. CASE \E t \in Thread, d \in Bridge : PrepareHookBridge(t, d)
    BY <2>1, PrepareServes
  <2>2. CASE UNCHANGED <<isX64, bs, seen>>
    BY <2>2 DEF SeenInv, Served, NothingHides, ReachesAll, Reaches
  <2>. QED
    BY <2>1, <2>2, PointersLeft
<1>3. SeenInv => SearchFindsReach
  BY DEF SeenInv, Served, SearchFindsReach
<1>. QED
  BY <1>1, <1>2, <1>3, PlacedAlways, PTL DEF Spec

=============================================================================
