---------------------------- MODULE HookContext ----------------------------
(***************************************************************************)
(* The hook contexts of hooklib (src/hooklib/hooklib.c, 331-438): contexts *)
(* that overwrite the first bytes of a function with a jump, or an import  *)
(* slot with a pointer, keep the bytes they overwrote, and put them back.  *)
(*                                                                         *)
(* Memory is modelled byte by byte at the locations that are patched.  A   *)
(* byte is either a byte of the original image or a byte of one context's  *)
(* patch; what matters is whose it is, not its value.  The replacement     *)
(* function of a context ("newfunction") is identified with the context.   *)
(* Operations are those of one thread at a time.                           *)
(***************************************************************************)
EXTENDS Integers, FiniteSets

CONSTANTS
  Ctx,          \* struct _hook_context_ objects
  NoCtx,        \* owner of a byte that belongs to no patch
  Func,         \* functions that may be hooked
  ImportSlot,   \* import-table slots that may be hooked
  NoLoc,        \* the null pointer
  IsX64,        \* the build: x64 or x86
  Reach,        \* Reach[c][f]: form make_jmp_near picks from f to c's function
  BridgeReach,  \* functions the bridge slots are within 2GB of
  Ends,         \* Ends[f]: where the instructions hook_copy_code can move end
  CodeMax,      \* bytes of a location that are modelled
  MaxAttempts,  \* bound on the calls of hook_install_by_bridgeslot
  MaxFaults     \* bound on the failing VirtualProtect calls

Loc == Func \cup ImportSlot
Cells == 0 .. CodeMax - 1
JumpForm == {"short", "near", "far", "bridge"}
Form == JumpForm \cup {"ptr", "orig", "zero"}
Slots == 1 .. MaxAttempts
Null == "null"
Target == Ctx \cup {Null, "body", "external", "wild"}
Outcome == {"ok", "denied", "unrestored"}

\* The bytes a patch of this form occupies: make_jmp_short, make_jmp_near,
\* make_jmp_qword_disp, and sizeof(void*) for an import slot.
PatchLen(form) ==
  CASE form = "short"  -> 2
    [] form = "near"   -> 5
    [] form = "bridge" -> 6
    [] form = "far"    -> 14
    [] OTHER           -> IF IsX64 THEN 8 ELSE 4

ASSUME NamesAssumption ==
  /\ NoCtx \notin Ctx
  /\ NoLoc \notin Loc
  /\ Func \cap ImportSlot = {}
  /\ Ctx \cap {Null, "body", "external", "wild"} = {}
ASSUME LayoutAssumption ==
  /\ IsX64 \in BOOLEAN
  /\ Reach \in [Ctx -> [Func -> IF IsX64 THEN {"short", "near", "far"}
                                         ELSE {"short", "near"}]]
  /\ BridgeReach \subseteq Func
  /\ IsX64 \/ BridgeReach = Func
  /\ CodeMax \in 8 .. 32
  /\ Ends \in [Func -> SUBSET (1 .. CodeMax)]
ASSUME BoundAssumption ==
  MaxAttempts \in Nat /\ MaxFaults \in Nat

VARIABLES
  mem,     \* mem[l]: the bytes now at location l
  ctx,     \* ctx[c]: the fields of context c
  bridge,  \* the bridge slots: element 0 is the count, the others pointers
  faults,  \* VirtualProtect calls that have failed so far
  ret      \* what the last hook_install... or hook_uninstall returned

vars == <<mem, ctx, bridge, faults, ret>>

Byte == [by : Ctx \cup {NoCtx}, form : Form, slot : 0 .. MaxAttempts]
Orig == [by |-> NoCtx, form |-> "orig", slot |-> 0]
Zero == [by |-> NoCtx, form |-> "zero", slot |-> 0]
Image == [Cells -> Byte]
Pristine == [i \in Cells |-> Orig]
Zeroes == [i \in Cells |-> Zero]

\* struct _hook_context_, all zero
Cleared == [orginal_function_ptr |-> NoLoc, orginal_code_size |-> 0,
            orginal_code |-> Zeroes, proxy_function_ptr |-> Null]

Init ==
  /\ mem = [l \in Loc |-> Pristine]
  /\ ctx = [c \in Ctx |-> Cleared]
  /\ bridge = [count |-> 0, val |-> [s \in Slots |-> NoCtx]]
  /\ faults = 0
  /\ ret = 0

-----------------------------------------------------------------------------
Live(c) == ctx[c].orginal_code_size > 0

\* memcpy of n bytes of src over base
Overlay(base, src, n) == [i \in Cells |-> IF i < n THEN src[i] ELSE base[i]]

Patch(c, form, s) == [i \in Cells |-> [by |-> c, form |-> form, slot |-> s]]

\* port_write_memory: nothing is written when the page cannot be made
\* writable; the bytes are written, and an error returned, when only the
\* restoring VirtualProtect fails.
WriteMemory(l, src, n, w) ==
  /\ w = "ok" \/ faults < MaxFaults
  /\ faults' = IF w = "ok" THEN faults ELSE faults + 1
  /\ mem' = IF w = "denied" THEN mem
                             ELSE [mem EXCEPT ![l] = Overlay(@, src, n)]

\* The instruction ends of f that remnants of a patch do not disturb.
SureEnds(f, img) == {x \in Ends[f] : \A i \in Cells : i < x => img[i] = Orig}

\* What hook_copy_code may return for `need' bytes of the image img of f: on
\* the original code the first instruction end at or after need, or the last
\* one it can move; on the entry jump of another context the size of that jump
\* (0 when it is rip-relative); once it has to decode a mixture, anything.
CopySizes(f, img, need) ==
  LET sure == SureEnds(f, img)
      enough == {x \in sure : x >= need}
  IN CASE img[0].form = "orig" /\ enough # {} ->
            {x \in enough : \A y \in enough : x <= y}
       [] img[0].form = "orig" /\ enough = {} /\ img = Pristine ->
            {x \in sure \cup {0} : \A y \in sure : x >= y}
       [] img[0].form = "orig" /\ enough = {} /\ img # Pristine ->
            {0} \cup {x \in 0 .. CodeMax : \A y \in sure : x >= y}
       [] img[0].form \in {"near", "short"} -> {PatchLen(img[0].form)}
       [] img[0].form = "bridge" /\ ~IsX64 -> {PatchLen("bridge")}
       [] OTHER -> {0}

\* Where a call of this image ends up: the original body, or the replacement
\* function its first instruction jumps (or its pointer points) to.
EntryTarget(img) ==
  CASE img[0].form = "orig"   -> "body"
    [] img[0].form = "bridge" -> bridge.val[img[0].slot]
    [] OTHER                  -> img[0].by

\* A jump copied without adjusting its offset leads nowhere.
ProxyTargetNotRebased(f, img, size) ==
  IF img[0].form \in {"near", "short"} THEN "wild" ELSE EntryTarget(img)

\* Where the copy in proxy_function_code leads: the same place, unless it was
\* made of bytes that are not an instruction any more.
ProxyTarget(f, img, size) ==
  IF img[0].form = "orig" /\ size \notin SureEnds(f, img)
    THEN "wild" ELSE EntryTarget(img)


\* Only the size is reset, not the whole context.
ForgetSizeOnly(c) == ctx' = [ctx EXCEPT ![c].orginal_code_size = 0]
Forget(c) == ctx' = [ctx EXCEPT ![c] = Cleared]

\* One byte short.
SavedHeadShort(l, size) == Overlay(Zeroes, mem[l], size - 1)
\* memcpy( ctx->orginal_code,... )
SavedHead(l, size) == Overlay(Zeroes, mem[l], size)

\* Any progress of hook_copy_code is taken for success.
EnoughCopiedAny(size, need) == size > 0
EnoughCopied(size, need) == size >= need

\* The count is not added to the pointer: every install takes the first slot.
NextSlotFirst == 1
NextSlot == bridge.count + 1

\* The slot is read after it has been overwritten.
ImportedPointerLate(l) == EntryTarget(mem'[l])
ImportedPointer(l) == EntryTarget(mem[l])

\* The part hook_install and hook_install_by_bridgeslot share: move the head
\* of f into the proxy, save it, and write the jump over it.  The proxy is
\* taken to become executable: hook_make_executeable's result is ignored, and
\* its failing, which would leave a proxy nobody can call, is not modelled.
CopyAndPatch(c, f, form, s, w) ==
  \E size \in CopySizes(f, mem[f], PatchLen(form)) :
    \/ /\ ~EnoughCopied(size, PatchLen(form))
       /\ Forget(c)
       /\ ret' = -1
       /\ UNCHANGED <<mem, faults>>
    \/ /\ EnoughCopied(size, PatchLen(form))
       /\ ctx' = [ctx EXCEPT ![c] =
            [orginal_function_ptr |-> f,
             orginal_code_size    |-> size,
             orginal_code         |-> SavedHead(f, size),
             proxy_function_ptr   |-> ProxyTarget(f, mem[f], size)]]
       /\ WriteMemory(f, Patch(c, form, s), PatchLen(form), w)
       /\ ret' = 0

\* Calls that return before they touch anything.
InstallRefused(c, l) ==
  /\ \/ l = NoLoc /\ ret' = -1
     \/ l # NoLoc /\ Live(c) /\ ret' = 1
  /\ UNCHANGED <<mem, ctx, bridge, faults>>

HookInstall(c, f, w) ==
  /\ ~Live(c)
  /\ CopyAndPatch(c, f, Reach[c][f], 0, w)
  /\ UNCHANGED bridge

\* The count is advanced before anything is known to work, and never taken back.
HookInstallByBridgeslot(c, f, w) ==
  LET s == NextSlot IN
  /\ ~Live(c)
  /\ bridge.count < MaxAttempts
  /\ \/ /\ f \notin BridgeReach
        /\ Forget(c)
        /\ ret' = -1
        /\ bridge' = [bridge EXCEPT !.count = @ + 1]
        /\ UNCHANGED <<mem, faults>>
     \/ /\ f \in BridgeReach
        /\ CopyAndPatch(c, f, "bridge", s, w)
        /\ bridge' = IF ret' = 0
                       THEN [count |-> bridge.count + 1, val |-> [bridge.val EXCEPT ![s] = c]]
                       ELSE [bridge EXCEPT !.count = @ + 1]

\* l = NoLoc when port_get_import_slot does not find the import.
HookInstallImport(c, l, w) ==
  /\ ~Live(c)
  /\ UNCHANGED bridge
  /\ \/ /\ l = NoLoc
        /\ Forget(c)
        /\ ret' = -1
        /\ UNCHANGED <<mem, faults>>
     \/ /\ l # NoLoc
        /\ WriteMemory(l, Patch(c, "ptr", 0), PatchLen("ptr"), w)
        /\ ctx' = [ctx EXCEPT ![c] =
             [orginal_function_ptr |-> l,
              orginal_code_size    |-> PatchLen("ptr"),
              orginal_code         |-> SavedHead(l, PatchLen("ptr")),
              proxy_function_ptr   |-> ImportedPointer(l)]]
        /\ ret' = 0

\* The context is cleared, and the saved bytes with it, whether or not the
\* write took place.
HookUninstall(c, w) ==
  /\ UNCHANGED bridge
  /\ \/ /\ ~Live(c)
        /\ ret' = -1
        /\ UNCHANGED <<mem, ctx, faults>>
     \/ /\ Live(c)
        /\ WriteMemory(ctx[c].orginal_function_ptr, ctx[c].orginal_code,
                       ctx[c].orginal_code_size, w)
        /\ Forget(c)
        /\ ret' = IF w = "ok" THEN 1 ELSE 0

\* proxy_ws2_extern_function stores the pointer a provider handed out in a
\* context that has none yet.
SetProxyFunction(c) ==
  /\ ctx[c].proxy_function_ptr = Null
  /\ ctx' = [ctx EXCEPT ![c].proxy_function_ptr = "external"]
  /\ UNCHANGED <<mem, bridge, faults, ret>>

Next ==
  \E c \in Ctx :
    \/ \E l \in Loc \cup {NoLoc} : InstallRefused(c, l)
    \/ \E w \in Outcome :
         \/ \E f \in Func : HookInstall(c, f, w) \/ HookInstallByBridgeslot(c, f, w)
         \/ \E l \in ImportSlot \cup {NoLoc} : HookInstallImport(c, l, w)
         \/ HookUninstall(c, w)
    \/ SetProxyFunction(c)

Spec == Init /\ [][Next]_vars

-----------------------------------------------------------------------------
\* Every variable has the type of the data it stands for; a context that is in
\* use names a location and a size that fits the modelled bytes.
TypeOK ==
  /\ mem \in [Loc -> Image]
  /\ ctx \in [Ctx -> [orginal_function_ptr : Loc \cup {NoLoc},
                      orginal_code_size    : 0 .. CodeMax,
                      orginal_code         : Image,
                      proxy_function_ptr   : Target]]
  /\ \A c \in Ctx : Live(c) <=> ctx[c].orginal_function_ptr # NoLoc
  /\ bridge \in [count : 0 .. MaxAttempts, val : [Slots -> Ctx \cup {NoCtx}]]
  /\ faults \in 0 .. MaxFaults
  /\ ret \in {-1, 0, 1}

\* The first instruction at l: a whole original one, or a whole patch of one
\* context.
EntryWhole(l) ==
  IF mem[l][0].form = "orig"
    THEN \A i \in Cells : (l \in Func /\ (\A x \in Ends[l] : i < x)) => mem[l][i] = Orig
    ELSE \A i \in Cells : i < PatchLen(mem[l][0].form) => mem[l][i] = mem[l][0]

\* As long as every write succeeds, the entry of a function is one whole
\* instruction, in whatever order contexts are installed and removed: a caller
\* never decodes the head of one patch followed by the tail of another.  What
\* keeps it so is that a context saves a jump it finds whole, however short
\* its own, and writes it back whole (hooklib.c 347-354, 406-414, 428).
EntryNeverTorn == faults = 0 => \A l \in Loc : EntryWhole(l)

\* A jump through the bridge, in memory or among the bytes a context will
\* write back, reads the slot its own install filled: no later install or
\* failed attempt redirects it (hooklib.c 393-394, 416).
SlotsNeverRedirected ==
  LET images == {mem[l] : l \in Loc} \cup {ctx[c].orginal_code : c \in Ctx}
  IN \A img \in images, i \in Cells :
       img[i].form = "bridge" => bridge.val[img[i].slot] = img[i].by

=============================================================================
