---------------------------- MODULE BridgePages ----------------------------
(***************************************************************************)
(* Bridge slots: a page of pointers near a module, through which the six-  *)
(* byte jumps of its hooked functions go (hooklib.c 381-419, 455-497;      *)
(* HooklibCPP.cpp).  The first element of the page counts the slots given  *)
(* out.  Threads prepare bridges, hook functions through them, remove the  *)
(* hooks and free the page; the library has no lock, and the count is      *)
(* incremented and read again in steps of their own.                       *)
(*                                                                         *)
(* Addresses are numbers of pages.  The heads that are moved and the bytes *)
(* that are saved are HookContext's business: here the entry of a function *)
(* is the jump it holds.                                                   *)
(***************************************************************************)
EXTENDS Integers, FiniteSets, FiniteSetsExt

CONSTANTS
  Bridge,      \* CHookBridgeslot objects, all for one module
  Ctx, NoCtx,  \* hook contexts; nobody
  Func,        \* functions of the module
  FuncPage,    \* FuncPage[f]: the page f is on
  Thread,      \* threads
  OwnerOf,     \* OwnerOf[c]: the thread that uses context c
  FuncOf,      \* FuncOf[c]: the function it hooks
  Handle,      \* first page of the module
  ModulePages, \* SizeOfImage
  Block,       \* pages of the unit in which VirtualAlloc reserves addresses
  FreeBlocks,  \* sets of blocks that may be free at the beginning
  Probes,      \* 0x8ffff, the addresses tried on each side of the module
  ReachPages,  \* 2GB, what a 32-bit displacement spans
  PageSlots    \* slots of a page: 0x1000/sizeof(void*) - 1

Abs(n) == IF n < 0 THEN -n ELSE n
BlockOf(p) == p - (p % Block)

ASSUME BridgeAssumption ==
  /\ NoCtx \notin Ctx
  /\ Func # {} /\ FuncPage \in [Func -> Handle .. Handle + ModulePages - 1]
  /\ OwnerOf \in [Ctx -> Thread] /\ FuncOf \in [Ctx -> Func]
  /\ Handle \in Nat /\ ModulePages \in Nat /\ Block \in Nat /\ Block >= 3
  /\ Probes \in Nat /\ PageSlots \in Nat /\ ReachPages \in Nat /\ ReachPages <= Probes
  /\ BlockOf(Handle) = Handle /\ Handle > Probes
  /\ \A blocks \in FreeBlocks : \A p \in blocks :
       /\ p \in Nat \ {0} /\ BlockOf(p) = p
       /\ p + Block <= Handle \/ Handle + ModulePages <= p

VARIABLES
  isX64,  \* the build
  free,   \* free blocks of the address space
  page,   \* page[p]: the slots of an allocated page: their count and values
  bs,     \* bs[b]: the fields of a CHookBridgeslot
  entry,  \* entry[f]: the jump at the entry of f
  ctx,    \* ctx[c]: in use, at which function, with the entry it found
  job,    \* job[t]: what thread t does in hook_install_by_bridgeslot
  shared, \* pages through which two threads installed at a time (history)
  misused,\* a page was freed under its hooks, or used after that (history)
  seen    \* seen[b]: the blocks that were free when b was last prepared (history)

vars == <<isX64, free, page, bs, entry, ctx, job, shared, misused, seen>>

Slots == 1 .. PageSlots
NoJump == [by |-> NoCtx, page |-> 0, slot |-> 0]
Unused == [live |-> FALSE, f |-> "none", saved |-> NoJump]
NoJob == [pc |-> "idle", c |-> NoCtx, f |-> "none", page |-> 0, n |-> 0]

Init ==
  /\ isX64 \in BOOLEAN
  /\ free \in FreeBlocks
  /\ page = [p \in {} |-> <<>>]
  /\ bs = [b \in Bridge |-> [bridgeslot |-> 0, m_modulehandle |-> 0]]
  /\ entry = [f \in Func |-> NoJump]
  /\ ctx = [c \in Ctx |-> Unused]
  /\ job = [t \in Thread |-> NoJob]
  /\ shared = {} /\ misused = FALSE /\ seen = [b \in Bridge |-> {}]

Allocated == DOMAIN page

\* A thread that may begin something.  Bound of the model: after a misuse, or
\* when two threads have met in a page, nothing new is begun; what has been
\* begun goes on.
Idle(t) == job[t].pc = "idle" /\ ~misused /\ shared = {}

\* The thread uses freed memory, or memory behind the page.
Faulted == \E t \in Thread : job[t].pc = "fault"

\* A jump through page p is at an entry, or will be.
InUse(p) == \/ \E f \in Func : entry[f].page = p
            \/ \E c \in Ctx : ctx[c].live /\ ctx[c].saved.page = p
            \/ \E t \in Thread : job[t].page = p

-----------------------------------------------------------------------------
(* Pages.                                                                  *)

\* Both sides of the module, page by page; VirtualAlloc takes the block the
\* address is in, if it is free.
Probed(start, step) == {i \in 1 .. Probes : BlockOf(start + step * i) \in free}

\* What is above the module is not searched.
SearchBelow ==
  LET below == Probed(Handle, -1) IN IF below # {} THEN BlockOf(Handle - Min(below)) ELSE 0
\* The address that was tried, not the one VirtualAlloc returned.
SearchUnrounded ==
  LET below == Probed(Handle, -1) IN IF below # {} THEN Handle - Min(below) ELSE 0
\* hook_help_alloc_bridgeslot
Search ==
  LET below == Probed(Handle, -1)
      above == Probed(Handle + ModulePages + 1, 1)
  IN CASE below # {} -> BlockOf(Handle - Min(below))
       [] below = {} /\ above # {} -> BlockOf(Handle + ModulePages + 1 + Min(above))
       [] OTHER -> 0

\* CHookBridgeslot::alloc: a pointer it had is lost, not freed.
Alloc(b) ==
  LET p == Search IN
  /\ bs' = [bs EXCEPT ![b] = [bridgeslot |-> p, m_modulehandle |-> Handle]]
  /\ IF p = 0 THEN UNCHANGED <<free, page>>
     ELSE /\ free' = free \ {p}
          /\ page' = [q \in Allocated \cup {p} |->
               IF q = p THEN [count |-> 0, val |-> [s \in Slots |-> NoCtx]] ELSE page[q]]

\* On x86 every address is in reach and no page is needed.
PrepareHookBridge(t, b) ==
  /\ Idle(t) /\ ~Faulted
  /\ IF isX64 THEN Alloc(b)
     ELSE /\ bs' = [bs EXCEPT ![b].m_modulehandle = Handle]
          /\ UNCHANGED <<free, page>>
  /\ seen' = [seen EXCEPT ![b] = free]
  /\ UNCHANGED <<isX64, entry, ctx, job, shared, misused>>

\* The page goes, the pointer stays.
Free(t, b) ==
  LET p == bs[b].bridgeslot IN
  /\ Idle(t) /\ ~Faulted
  /\ p \in Allocated
  /\ page' = [q \in Allocated \ {p} |-> page[q]]
  /\ free' = free \cup {p}
  /\ misused' = (misused \/ InUse(p) \/ \E d \in Bridge \ {b} : bs[d].bridgeslot = p)
  /\ UNCHANGED <<isX64, bs, entry, ctx, job, shared, seen>>

-----------------------------------------------------------------------------
(* Hooks.                                                                  *)

\* hookModuleFunction reports success for a context in use, and does nothing.
MayHook(t, c) == Idle(t) /\ ~Faulted /\ OwnerOf[c] = t /\ ~ctx[c].live

\* hook_install: bridges are disabled, or the object has none.  A head that is
\* too short, or holds a jump through a slot, is not moved.
HookDirect(t, b, c, disable_jmp_bridge, short) ==
  LET f == FuncOf[c]
      fails == short \/ (isX64 /\ entry[f].page # 0) IN
  /\ MayHook(t, c)
  /\ disable_jmp_bridge \/ bs[b].bridgeslot = 0
  /\ IF fails THEN UNCHANGED <<ctx, entry>>
     ELSE /\ ctx' = [ctx EXCEPT ![c] = [live |-> TRUE, f |-> f, saved |-> entry[f]]]
          /\ entry' = [entry EXCEPT ![f] = [NoJump EXCEPT !.by = c]]
  /\ UNCHANGED <<isX64, free, page, bs, job, shared, misused, seen>>

\* hook_install_by_bridgeslot, from here to Patch.
BeginByBridgeslot(t, b, c) ==
  LET f == FuncOf[c]
      p == bs[b].bridgeslot IN
  /\ MayHook(t, c)
  /\ p # 0
  /\ job' = [job EXCEPT ![t] = [pc |-> "increment", c |-> c, f |-> f, page |-> p, n |-> 0]]
  /\ shared' = IF \E u \in Thread : job[u].page = p THEN shared \cup {p} ELSE shared
  /\ misused' = (misused \/ p \notin Allocated)
  /\ UNCHANGED <<isX64, free, page, bs, entry, ctx, seen>>

Step(t, from, to) == job[t].pc = from /\ ~Faulted /\ job' = [job EXCEPT ![t].pc = to]
Fails(t) ==
  /\ job' = [job EXCEPT ![t] = NoJob]
  /\ UNCHANGED <<isX64, free, page, bs, entry, ctx, shared, misused, seen>>

\* (*(int*)bridge_slot)++: the old value is read ...
ReadCount(t) ==
  LET p == job[t].page IN
  /\ job[t].pc = "increment" /\ ~Faulted
  /\ job' = IF p \in Allocated
              THEN [job EXCEPT ![t].pc = "incremented", ![t].n = page[p].count]
              ELSE [job EXCEPT ![t].pc = "fault"]
  /\ UNCHANGED <<isX64, free, page, bs, entry, ctx, shared, misused, seen>>

\* ... and the new one written.  The count is not compared with anything.
WriteCount(t) ==
  LET p == job[t].page IN
  /\ job[t].n <= PageSlots  \* bound of the model: one attempt beyond the page
  /\ IF p \in Allocated
       THEN /\ Step(t, "incremented", "counted")
            /\ page' = [page EXCEPT ![p].count = job[t].n + 1]
       ELSE Step(t, "incremented", "fault") /\ UNCHANGED page
  /\ UNCHANGED <<isX64, free, bs, entry, ctx, shared, misused, seen>>

\* The count is not added to the pointer.
SlotFirst(t) == 1
\* The count is taken for the index of the next free slot.
SlotBehind(t) == page[job[t].page].count + 1
\* bridge_slot += *(int*)bridge_slot
SlotTaken(t) == page[job[t].page].count

TakeSlot(t) ==
  LET p == job[t].page IN
  /\ job[t].pc = "counted" /\ ~Faulted
  /\ job' = IF p \in Allocated THEN [job EXCEPT ![t].pc = "taken", ![t].n = SlotTaken(t)]
                               ELSE [job EXCEPT ![t].pc = "fault"]
  /\ UNCHANGED <<isX64, free, page, bs, entry, ctx, shared, misused, seen>>

Reaches(p, f) == Abs(p - FuncPage[f]) < ReachPages

\* make_jmp_qword_disp, and the copy of the head: without effect if they fail.
CannotBridge(t, short) ==
  LET f == job[t].f IN
  /\ job[t].pc = "taken" /\ ~Faulted
  /\ short \/ (isX64 /\ (~Reaches(job[t].page, f) \/ entry[f].page # 0))
  /\ Fails(t)

SaveHead(t) ==
  LET f == job[t].f IN
  /\ Step(t, "taken", "saved")
  /\ ~isX64 \/ (Reaches(job[t].page, f) /\ entry[f].page = 0)
  /\ ctx' = [ctx EXCEPT ![job[t].c] = [live |-> TRUE, f |-> f, saved |-> entry[f]]]
  /\ UNCHANGED <<isX64, free, page, bs, entry, shared, misused, seen>>

\* *bridge_slot = newfunction
FillSlot(t) ==
  LET p == job[t].page IN
  /\ IF p \in Allocated /\ job[t].n \in Slots
       THEN /\ Step(t, "saved", "filled")
            /\ page' = [page EXCEPT ![p].val[job[t].n] = job[t].c]
       ELSE Step(t, "saved", "fault") /\ UNCHANGED page
  /\ UNCHANGED <<isX64, free, bs, entry, ctx, shared, misused, seen>>

Patch(t) ==
  /\ job[t].pc = "filled" /\ ~Faulted
  /\ job' = [job EXCEPT ![t] = NoJob]
  /\ entry' = [entry EXCEPT ![job[t].f] =
                 [by |-> job[t].c, page |-> job[t].page, slot |-> job[t].n]]
  /\ UNCHANGED <<isX64, free, page, bs, ctx, shared, misused, seen>>

\* A program removes the newest hook of a function; nobody else patches it at
\* that time.
UnInstall(t, c) ==
  LET f == ctx[c].f IN
  /\ Idle(t) /\ ~Faulted
  /\ OwnerOf[c] = t /\ ctx[c].live /\ entry[f].by = c
  /\ \A u \in Thread : job[u].f # f
  /\ entry' = [entry EXCEPT ![f] = ctx[c].saved]
  /\ ctx' = [ctx EXCEPT ![c] = Unused]
  /\ UNCHANGED <<isX64, free, page, bs, job, shared, misused, seen>>

Next ==
  \E t \in Thread :
    \/ \E b \in Bridge :
         \/ PrepareHookBridge(t, b) \/ Free(t, b)
         \/ \E c \in Ctx :
              \/ BeginByBridgeslot(t, b, c)
              \/ \E disable, short \in BOOLEAN : HookDirect(t, b, c, disable, short)
    \/ \E c \in Ctx : UnInstall(t, c)
    \/ ReadCount(t) \/ WriteCount(t) \/ TakeSlot(t)
    \/ \E short \in BOOLEAN : CannotBridge(t, short)
    \/ SaveHead(t) \/ FillSlot(t) \/ Patch(t)

Spec == Init /\ [][Next]_vars

-----------------------------------------------------------------------------
\* Every variable has the type of the data it stands for; a page has the address
\* VirtualAlloc returned.
TypeOK ==
  /\ isX64 \in BOOLEAN
  /\ \A p \in Allocated : BlockOf(p) = p /\ p \notin free /\ page[p].count \in 0 .. PageSlots + 1
  /\ \A b \in Bridge : bs[b].m_modulehandle \in {0, Handle}
  /\ \A f \in Func : entry[f].by \in Ctx \cup {NoCtx}
  /\ \A c \in Ctx : ctx[c].live => ctx[c].f \in Func

Jumps == {entry[f] : f \in Func} \cup {ctx[c].saved : c \in Ctx}

\* A jump through a slot, at an entry or saved by a context, reads in an
\* allocated page the slot its own install filled, whatever threads install
\* through other pages: the count's increment and its second reading agree
\* (hooklib.c 393-394, 416), as long as no two threads install through one
\* page at a time and no page is freed under its hooks or used after that.
JumpsReadOwnSlot ==
  ~misused => \A j \in Jumps :
     (j.page # 0 /\ j.page \notin shared) =>
        j.page \in Allocated /\ j.slot \in Slots /\ page[j.page].val[j.slot] = j.by

\* A thread touches memory that is not there only if a page was misused, or
\* two threads installed through one at a time, or more installs were tried
\* through it than it has slots (hooklib.c 393-416).
FaultsExplained ==
  Faulted => misused \/ shared # {} \/ \E p \in Allocated : page[p].count > PageSlots

ReachesAll(p) == \A f \in Func : Reaches(p, f)

\* A block below the module hides what is above it, even if it is too far.
NothingHides(blocks) ==
  LET below == {p \in blocks : p < Handle} IN below = {} \/ ReachesAll(Max(below))

\* Whenever a bridge was prepared while a page that every function of the module
\* reaches was free, it was given one: the search tries 2.25GB on each side and
\* a displacement spans 2GB, but the nearest is tried first.  All of what is
\* below is tried before what is above, so a block just out of reach below hides
\* one in reach above (hooklib.c 466-494).
SearchFindsReach ==
  isX64 => \A b \in Bridge :
    NothingHides(seen[b]) /\ (\E q \in seen[b] : ReachesAll(q))
      => bs[b].bridgeslot \in seen[b] /\ ReachesAll(bs[b].bridgeslot)

=============================================================================
