------------------------- MODULE HookContextProofs -------------------------
(***************************************************************************)
(* The types of HookContext and the stability of bridge slots, for every   *)
(* set of contexts, functions and import slots and every layout.           *)
(*                                                                         *)
(* Types alone are not inductive: what an install stores as the proxy is   *)
(* what the bytes at the entry jump to, so one has to know that a byte in  *)
(* memory, or a saved byte that will be written back, is an original one   *)
(* or a byte of a context's patch, and that a bridge byte's slot is filled.*)
(***************************************************************************)
EXTENDS HookContext, WellFoundedInduction, TLAPS

\* A byte that may stand in memory when the bridge slots are br.
Sound(b, br) ==
  \/ b = Orig
  \/ b.by \in Ctx /\ b.form \in {"short", "near", "far", "ptr"}
  \/ /\ b.by \in Ctx
     /\ b.form = "bridge"
     /\ b.slot \in 1 .. br.count
     /\ br.val[b.slot] = b.by

BytesSound ==
  /\ \A l \in Loc, i \in Cells : Sound(mem[l][i], bridge)
  /\ \A c \in Ctx, i \in Cells :
       \/ Sound(ctx[c].orginal_code[i], bridge)
       \/ i >= ctx[c].orginal_code_size /\ ctx[c].orginal_code[i] = Zero

IInv == TypeOK /\ BytesSound

\* Laying bytes over an image gives an image (memcpy).
LEMMA OverlayType ==
  ASSUME NEW base \in Image, NEW src \in Image, NEW n
  PROVE  Overlay(base, src, n) \in Image
BY DEF Overlay, Image

\* The values the actions write have the types they should have.
LEMMA ConstantTypes ==
  /\ Orig \in Byte /\ Zero \in Byte
  /\ Pristine \in Image /\ Zeroes \in Image
  /\ 0 \in Cells
  /\ \A form \in Form : PatchLen(form) \in 1 .. 14
  /\ PatchLen("ptr") \in 1 .. CodeMax
BY LayoutAssumption, BoundAssumption
   DEF Orig, Zero, Byte, Pristine, Zeroes, Image, Cells, Form, JumpForm, PatchLen

\* hook_copy_code's result, as modelled, fits in the modelled bytes.
LEMMA CopySizesType ==
  ASSUME NEW f \in Func, NEW img \in Image, NEW need
  PROVE  CopySizes(f, img, need) \subseteq 0 .. CodeMax
<1>1. SureEnds(f, img) \subseteq 1 .. CodeMax
  BY LayoutAssumption DEF SureEnds
<1>2. PatchLen("near") \in 0 .. CodeMax /\ PatchLen("short") \in 0 .. CodeMax
      /\ PatchLen("bridge") \in 0 .. CodeMax
  BY LayoutAssumption DEF PatchLen
<1>3. 0 \in 0 .. CodeMax
  BY LayoutAssumption
<1>. QED
  BY <1>1, <1>2, <1>3 DEF CopySizes


\* The slots that were filled stay filled with the same pointers.
SlotsKept ==
  /\ bridge.count <= bridge'.count
  /\ bridge' \in [count : 0 .. MaxAttempts, val : [Slots -> Ctx \cup {NoCtx}]]
  /\ \A s \in 1 .. bridge.count : bridge'.val[s] = bridge.val[s]

\* A byte that was sound stays sound while the slots keep their pointers.
LEMMA SoundStays ==
  ASSUME TypeOK, SlotsKept, NEW b, Sound(b, bridge)
  PROVE  Sound(b, bridge')
BY DEF TypeOK, SlotsKept, Sound

\* A write of sound bytes leaves memory sound.
LEMMA WriteStep ==
  ASSUME IInv, SlotsKept, NEW l \in Loc, NEW src \in Image, NEW n, NEW w \in Outcome,
         \A i \in Cells : i < n => Sound(src[i], bridge'),
         WriteMemory(l, src, n, w)
  PROVE  /\ mem' \in [Loc -> Image]
         /\ faults' \in 0 .. MaxFaults
         /\ \A k \in Loc, i \in Cells : Sound(mem'[k][i], bridge')
<1>1. mem \in [Loc -> Image] /\ faults \in 0 .. MaxFaults
  BY DEF IInv, TypeOK
<1>2. faults' \in 0 .. MaxFaults
  BY <1>1, BoundAssumption DEF WriteMemory
<1>3. mem' \in [Loc -> Image]
  BY <1>1, OverlayType DEF WriteMemory
<1>4. ASSUME NEW k \in Loc, NEW i \in Cells
      PROVE  Sound(mem'[k][i], bridge')
  <2>1. Sound(mem[k][i], bridge')
    BY <1>4, SoundStays DEF IInv, BytesSound
  <2>2. mem'[k][i] = mem[k][i] \/ (i < n /\ mem'[k][i] = src[i])
    BY <1>1 DEF WriteMemory, Overlay
  <2>. QED
    BY <2>1, <2>2
<1>. QED
  BY <1>2, <1>3, <1>4

\* The contexts after one of them has been cleared or filled in.
LEMMA ContextStep ==
  ASSUME IInv, SlotsKept, NEW c \in Ctx,
         NEW new \in [orginal_function_ptr : Loc \cup {NoLoc},
                      orginal_code_size    : 0 .. CodeMax,
                      orginal_code         : Image,
                      proxy_function_ptr   : Target],
         new.orginal_code_size > 0 <=> new.orginal_function_ptr # NoLoc,
         \A i \in Cells : \/ Sound(new.orginal_code[i], bridge')
                          \/ i >= new.orginal_code_size /\ new.orginal_code[i] = Zero,
         ctx' = [ctx EXCEPT ![c] = new]
  PROVE  /\ ctx' \in [Ctx -> [orginal_function_ptr : Loc \cup {NoLoc},
                              orginal_code_size    : 0 .. CodeMax,
                              orginal_code         : Image,
                              proxy_function_ptr   : Target]]
         /\ \A d \in Ctx : Live(d)' <=> ctx'[d].orginal_function_ptr # NoLoc
         /\ \A d \in Ctx, i \in Cells :
              \/ Sound(ctx'[d].orginal_code[i], bridge')
              \/ i >= ctx'[d].orginal_code_size /\ ctx'[d].orginal_code[i] = Zero
<1>1. /\ ctx \in [Ctx -> [orginal_function_ptr : Loc \cup {NoLoc},
                          orginal_code_size    : 0 .. CodeMax,
                          orginal_code         : Image,
                          proxy_function_ptr   : Target]]
      /\ \A d \in Ctx : Live(d) <=> ctx[d].orginal_function_ptr # NoLoc
  BY DEF IInv, TypeOK
<1>2. \A d \in Ctx : d # c => ctx'[d] = ctx[d]
  BY <1>1
<1>3. ctx'[c] = new
  BY <1>1
<1>4. \A d \in Ctx : Live(d)' <=> ctx'[d].orginal_function_ptr # NoLoc
  BY <1>1, <1>2, <1>3 DEF Live
<1>5. ASSUME NEW d \in Ctx, NEW i \in Cells
      PROVE  \/ Sound(ctx'[d].orginal_code[i], bridge')
             \/ i >= ctx'[d].orginal_code_size /\ ctx'[d].orginal_code[i] = Zero
  <2>1. CASE d = c
    BY <2>1, <1>3, <1>5
  <2>2. CASE d # c
    <3>1. CASE Sound(ctx[d].orginal_code[i], bridge)
      <4>1. Sound(ctx[d].orginal_code[i], bridge')
        BY <3>1, SoundStays DEF IInv
      <4>. QED
        BY <4>1, <2>2, <1>2
    <3>2. CASE ~Sound(ctx[d].orginal_code[i], bridge)
      BY <3>2, <2>2, <1>2, <1>5 DEF IInv, BytesSound
    <3>. QED
      BY <3>1, <3>2
  <2>. QED
    BY <2>1, <2>2
<1>. QED
  BY <1>1, <1>4, <1>5

\* Clearing a context keeps the contexts typed and their saved bytes sound.
LEMMA ClearedStep ==
  ASSUME IInv, SlotsKept, NEW c \in Ctx, Forget(c)
  PROVE  /\ ctx' \in [Ctx -> [orginal_function_ptr : Loc \cup {NoLoc},
                              orginal_code_size    : 0 .. CodeMax,
                              orginal_code         : Image,
                              proxy_function_ptr   : Target]]
         /\ \A d \in Ctx : Live(d)' <=> ctx'[d].orginal_function_ptr # NoLoc
         /\ \A d \in Ctx, i \in Cells :
              \/ Sound(ctx'[d].orginal_code[i], bridge')
              \/ i >= ctx'[d].orginal_code_size /\ ctx'[d].orginal_code[i] = Zero
<1>1. Cleared \in [orginal_function_ptr : Loc \cup {NoLoc},
                   orginal_code_size    : 0 .. CodeMax,
                   orginal_code         : Image,
                   proxy_function_ptr   : Target]
  BY ConstantTypes, LayoutAssumption DEF Cleared, Target, Null
<1>2. \A i \in Cells : i >= Cleared.orginal_code_size /\ Cleared.orginal_code[i] = Zero
  BY LayoutAssumption DEF Cleared, Zeroes, Cells
<1>3. Cleared.orginal_code_size > 0 <=> Cleared.orginal_function_ptr # NoLoc
  BY DEF Cleared
<1>4. ctx' = [ctx EXCEPT ![c] = Cleared]
  BY DEF Forget
<1>. HIDE DEF Cleared
<1>. QED
  BY <1>1, <1>2, <1>3, <1>4, ContextStep


\* A call of a location leads to a replacement function or to the body.
LEMMA TargetType ==
  ASSUME IInv, NEW l \in Loc
  PROVE  EntryTarget(mem[l]) \in Target
<1>1. Sound(mem[l][0], bridge)
  BY ConstantTypes DEF IInv, BytesSound
<1>. QED
  BY <1>1 DEF Sound, EntryTarget, Target, Orig

\* The bytes an install saves are sound; the rest of orginal_code stays zero.
LEMMA SavedHeadType ==
  ASSUME IInv, SlotsKept, NEW l \in Loc, NEW size
  PROVE  /\ SavedHead(l, size) \in Image
         /\ \A i \in Cells : \/ Sound(SavedHead(l, size)[i], bridge')
                             \/ ~(i < size) /\ SavedHead(l, size)[i] = Zero
<1>1. mem[l] \in Image
  BY DEF IInv, TypeOK
<1>2. SavedHead(l, size) \in Image
  BY <1>1, ConstantTypes, OverlayType DEF SavedHead
<1>3. ASSUME NEW i \in Cells
      PROVE  \/ Sound(SavedHead(l, size)[i], bridge')
             \/ ~(i < size) /\ SavedHead(l, size)[i] = Zero
  <2>1. Sound(mem[l][i], bridge')
    BY SoundStays DEF IInv, BytesSound
  <2>2. SavedHead(l, size)[i] = IF i < size THEN mem[l][i] ELSE Zero
    BY DEF SavedHead, Overlay, Zeroes
  <2>. QED
    BY <2>1, <2>2
<1>. QED
  BY <1>2, <1>3

\* A context that has just been filled in, and the patch that goes with it.
LEMMA InstallStep ==
  ASSUME IInv, SlotsKept, NEW c \in Ctx, NEW l \in Loc, NEW w \in Outcome,
         NEW form \in Form, NEW s \in 0 .. MaxAttempts,
         NEW size \in 1 .. CodeMax, NEW proxy \in Target,
         Sound([by |-> c, form |-> form, slot |-> s], bridge'),
         WriteMemory(l, Patch(c, form, s), PatchLen(form), w),
         ctx' = [ctx EXCEPT ![c] = [orginal_function_ptr |-> l,
                                    orginal_code_size    |-> size,
                                    orginal_code         |-> SavedHead(l, size),
                                    proxy_function_ptr   |-> proxy]],
         ret' \in {-1, 0, 1}
  PROVE  IInv'
<1>. DEFINE new == [orginal_function_ptr |-> l,
                    orginal_code_size    |-> size,
                    orginal_code         |-> SavedHead(l, size),
                    proxy_function_ptr   |-> proxy]
<1>1. /\ mem' \in [Loc -> Image]
      /\ faults' \in 0 .. MaxFaults
      /\ \A k \in Loc, i \in Cells : Sound(mem'[k][i], bridge')
  <2>1. Patch(c, form, s) \in Image
    BY DEF Patch, Image, Byte
  <2>2. \A i \in Cells : Sound(Patch(c, form, s)[i], bridge')
    BY DEF Patch
  <2>. QED
    BY <2>1, <2>2, WriteStep
<1>2. new \in [orginal_function_ptr : Loc \cup {NoLoc},
               orginal_code_size    : 0 .. CodeMax,
               orginal_code         : Image,
               proxy_function_ptr   : Target]
  BY SavedHeadType, LayoutAssumption
<1>3. new.orginal_code_size > 0 <=> new.orginal_function_ptr # NoLoc
  BY NamesAssumption
<1>4. \A i \in Cells : \/ Sound(new.orginal_code[i], bridge')
                       \/ i >= new.orginal_code_size /\ new.orginal_code[i] = Zero
  BY SavedHeadType, LayoutAssumption DEF Cells
<1>5. ctx' = [ctx EXCEPT ![c] = new]
  OBVIOUS
<1>. HIDE DEF new
<1>6. /\ ctx' \in [Ctx -> [orginal_function_ptr : Loc \cup {NoLoc},
                           orginal_code_size    : 0 .. CodeMax,
                           orginal_code         : Image,
                           proxy_function_ptr   : Target]]
      /\ \A d \in Ctx : Live(d)' <=> ctx'[d].orginal_function_ptr # NoLoc
      /\ \A d \in Ctx, i \in Cells :
           \/ Sound(ctx'[d].orginal_code[i], bridge')
           \/ i >= ctx'[d].orginal_code_size /\ ctx'[d].orginal_code[i] = Zero
  BY <1>2, <1>3, <1>4, <1>5, ContextStep
<1>. QED
  BY <1>1, <1>6 DEF IInv, TypeOK, BytesSound, SlotsKept

\* An install that fails has only cleared the context.
LEMMA FailureStep ==
  ASSUME IInv, SlotsKept, NEW c \in Ctx, Forget(c), UNCHANGED <<mem, faults>>,
         ret' \in {-1, 0, 1}
  PROVE  IInv'
<1>1. \A l \in Loc, i \in Cells : Sound(mem'[l][i], bridge')
  BY SoundStays DEF IInv, BytesSound
<1>. QED
  BY <1>1, ClearedStep DEF IInv, TypeOK, BytesSound, SlotsKept

\* What hook_install and hook_install_by_bridgeslot share keeps the invariant.
LEMMA CopyAndPatchStep ==
  ASSUME IInv, SlotsKept, NEW c \in Ctx, NEW f \in Func, NEW w \in Outcome,
         NEW form \in JumpForm, NEW s \in 0 .. MaxAttempts,
         ret' = 0 => Sound([by |-> c, form |-> form, slot |-> s], bridge'),
         CopyAndPatch(c, f, form, s, w)
  PROVE  IInv'
<1>1. PICK size \in CopySizes(f, mem[f], PatchLen(form)) :
        \/ /\ ~EnoughCopied(size, PatchLen(form))
           /\ Forget(c)
           /\ ret' = -1
           /\ UNCHANGED <<mem, faults>>
        \/ /\ EnoughCopied(size, PatchLen(form))
           /\ ctx' = [ctx EXCEPT ![c] =
                [orginal_function_ptr |-> f,
                 orginal_code_size    |-> size,
                 orginal_code         |-> SavedHead(f, size),
                 proxy_function_ptr   |-> ProxyTarget(f, mem[f], size)]]
           /\ WriteMemory(f, Patch(c, form, s), PatchLen(form), w)
           /\ ret' = 0
  BY DEF CopyAndPatch
<1>2. CASE ~EnoughCopied(size, PatchLen(form))
  BY <1>1, <1>2, FailureStep
<1>3. CASE EnoughCopied(size, PatchLen(form))
  <2>1. f \in Loc /\ form \in Form
    BY DEF Loc, Form
  <2>2. size \in 1 .. CodeMax
    <3>1. size \in 0 .. CodeMax
      BY <1>1, CopySizesType DEF IInv, TypeOK, Loc
    <3>2. size >= PatchLen(form) /\ PatchLen(form) \in 1 .. 14
      BY <1>3, <2>1, ConstantTypes DEF EnoughCopied
    <3>. QED
      BY <3>1, <3>2, LayoutAssumption
  <2>3. ProxyTarget(f, mem[f], size) \in Target
    BY <2>1, TargetType DEF ProxyTarget, Target
  <2>. QED
    BY <1>1, <1>3, <2>1, <2>2, <2>3, InstallStep
<1>. QED
  BY <1>2, <1>3

-----------------------------------------------------------------------------
\* Nothing is hooked at first, so every byte is sound.
LEMMA Initially == Init => IInv
<1>. SUFFICES ASSUME Init PROVE IInv
  OBVIOUS
<1>1. TypeOK
  BY ConstantTypes, BoundAssumption, LayoutAssumption, NamesAssumption
     DEF Init, TypeOK, Cleared, Live, Target, Null, Slots
<1>2. BytesSound
  <2>1. \A l \in Loc, i \in Cells : Sound(mem[l][i], bridge)
    BY DEF Init, Pristine, Sound
  <2>2. \A c \in Ctx, i \in Cells :
          i >= ctx[c].orginal_code_size /\ ctx[c].orginal_code[i] = Zero
    BY LayoutAssumption DEF Init, Cleared, Zeroes, Cells
  <2>. QED
    BY <2>1, <2>2 DEF BytesSound
<1>. QED
  BY <1>1, <1>2 DEF IInv

\* Operations that do not touch the bridge keep its slots.
LEMMA SlotsUnchanged ==
  ASSUME IInv, UNCHANGED bridge
  PROVE  SlotsKept
BY DEF IInv, TypeOK, SlotsKept

\* Filling the next slot leaves the filled ones alone, and so does giving up on it.
LEMMA SlotTaken ==
  ASSUME IInv, NEW c \in Ctx, bridge.count < MaxAttempts,
         \/ bridge' = [count |-> bridge.count + 1,
                       val   |-> [bridge.val EXCEPT ![NextSlot] = c]]
         \/ bridge' = [bridge EXCEPT !.count = @ + 1]
  PROVE  SlotsKept /\ NextSlot \in 1 .. MaxAttempts
<1>1. bridge \in [count : 0 .. MaxAttempts, val : [Slots -> Ctx \cup {NoCtx}]]
  BY DEF IInv, TypeOK
<1>2. NextSlot \in 1 .. MaxAttempts /\ NextSlot = bridge.count + 1
  BY <1>1, BoundAssumption DEF NextSlot
<1>3. CASE bridge' = [count |-> bridge.count + 1,
                      val   |-> [bridge.val EXCEPT ![NextSlot] = c]]
  BY <1>1, <1>2, <1>3, BoundAssumption DEF SlotsKept, Slots
<1>4. CASE bridge' = [bridge EXCEPT !.count = @ + 1]
  BY <1>1, <1>2, <1>4, BoundAssumption DEF SlotsKept, Slots
<1>. QED
  BY <1>2, <1>3, <1>4

\* hook_install keeps the invariant.
LEMMA HookInstallStep ==
  ASSUME IInv, NEW c \in Ctx, NEW f \in Func, NEW w \in Outcome, HookInstall(c, f, w)
  PROVE  IInv'
<1>1. SlotsKept
  BY SlotsUnchanged DEF HookInstall
<1>2. Reach[c][f] \in {"short", "near", "far"}
  BY LayoutAssumption
<1>3. Reach[c][f] \in JumpForm
  BY <1>2 DEF JumpForm
<1>4. Sound([by |-> c, form |-> Reach[c][f], slot |-> 0], bridge')
  BY <1>2 DEF Sound
<1>. QED
  BY <1>1, <1>3, <1>4, CopyAndPatchStep, BoundAssumption DEF HookInstall

\* hook_install_by_bridgeslot keeps the invariant.
LEMMA HookInstallByBridgeslotStep ==
  ASSUME IInv, NEW c \in Ctx, NEW f \in Func, NEW w \in Outcome,
         HookInstallByBridgeslot(c, f, w)
  PROVE  IInv'
<1>1. bridge.count < MaxAttempts
  BY DEF HookInstallByBridgeslot
<1>2. CASE f \notin BridgeReach
  <2>1. Forget(c) /\ ret' = -1 /\ bridge' = [bridge EXCEPT !.count = @ + 1]
        /\ UNCHANGED <<mem, faults>>
    BY <1>2 DEF HookInstallByBridgeslot
  <2>2. SlotsKept
    BY <1>1, <2>1, SlotTaken
  <2>. QED
    BY <2>1, <2>2, FailureStep
<1>3. CASE f \in BridgeReach
  <2>1. /\ CopyAndPatch(c, f, "bridge", NextSlot, w)
        /\ bridge' = IF ret' = 0
                       THEN [count |-> bridge.count + 1,
                             val |-> [bridge.val EXCEPT ![NextSlot] = c]]
                       ELSE [bridge EXCEPT !.count = @ + 1]
    BY <1>3 DEF HookInstallByBridgeslot
  <2>2. SlotsKept /\ NextSlot \in 1 .. MaxAttempts
    BY <1>1, <2>1, SlotTaken
  <2>3. ret' = 0 => Sound([by |-> c, form |-> "bridge", slot |-> NextSlot], bridge')
    <3>1. bridge \in [count : 0 .. MaxAttempts, val : [Slots -> Ctx \cup {NoCtx}]]
      BY DEF IInv, TypeOK
    <3>2. NextSlot = bridge.count + 1 /\ NextSlot \in Slots
      BY <2>2 DEF NextSlot, Slots
    <3>3. ASSUME ret' = 0
          PROVE  NextSlot \in 1 .. bridge'.count /\ bridge'.val[NextSlot] = c
      BY <2>1, <3>1, <3>2, <3>3
    <3>. QED
      BY <3>3 DEF Sound
  <2>. QED
    BY <2>1, <2>2, <2>3, CopyAndPatchStep, BoundAssumption DEF JumpForm
<1>. QED
  BY <1>2, <1>3

\* hook_install_import keeps the invariant.
LEMMA HookInstallImportStep ==
  ASSUME IInv, NEW c \in Ctx, NEW l \in ImportSlot \cup {NoLoc}, NEW w \in Outcome,
         HookInstallImport(c, l, w)
  PROVE  IInv'
<1>1. SlotsKept
  BY SlotsUnchanged DEF HookInstallImport
<1>2. CASE l = NoLoc
  BY <1>1, <1>2, FailureStep DEF HookInstallImport
<1>3. CASE l # NoLoc
  <2>1. /\ ctx' = [ctx EXCEPT ![c] =
             [orginal_function_ptr |-> l,
              orginal_code_size    |-> PatchLen("ptr"),
              orginal_code         |-> SavedHead(l, PatchLen("ptr")),
              proxy_function_ptr   |-> ImportedPointer(l)]]
        /\ WriteMemory(l, Patch(c, "ptr", 0), PatchLen("ptr"), w)
        /\ ret' = 0
    BY <1>3 DEF HookInstallImport
  <2>2. l \in Loc
    BY <1>3 DEF Loc
  <2>3. Sound([by |-> c, form |-> "ptr", slot |-> 0], bridge')
    BY DEF Sound
  <2>4. ImportedPointer(l) \in Target
    BY <2>2, TargetType DEF ImportedPointer
  <2>5. PatchLen("ptr") \in 1 .. CodeMax
    BY ConstantTypes
  <2>6. "ptr" \in Form /\ 0 \in 0 .. MaxAttempts /\ ret' \in {-1, 0, 1}
    BY <2>1, BoundAssumption DEF Form
  <2>. HIDE DEF Sound, ImportedPointer
  <2>. QED
    BY <1>1, <2>1, <2>2, <2>3, <2>4, <2>5, <2>6, InstallStep
<1>. QED
  BY <1>2, <1>3

\* hook_uninstall keeps the invariant: the bytes it writes back were sound.
LEMMA HookUninstallStep ==
  ASSUME IInv, NEW c \in Ctx, NEW w \in Outcome, HookUninstall(c, w)
  PROVE  IInv'
<1>1. SlotsKept
  BY SlotsUnchanged DEF HookUninstall
<1>2. CASE ~Live(c)
  <2>1. UNCHANGED <<mem, ctx, bridge, faults>> /\ ret' = -1
    BY <1>2 DEF HookUninstall
  <2>. QED
    BY <2>1 DEF IInv, TypeOK, BytesSound, Live
<1>3. CASE Live(c)
  <2>. DEFINE l == ctx[c].orginal_function_ptr
              n == ctx[c].orginal_code_size
              src == ctx[c].orginal_code
  <2>1. WriteMemory(l, src, n, w) /\ Forget(c) /\ ret' = IF w = "ok" THEN 1 ELSE 0
    BY <1>3 DEF HookUninstall
  <2>2. l \in Loc /\ src \in Image /\ n \in 0 .. CodeMax
    BY <1>3 DEF IInv, TypeOK
  <2>3. ASSUME NEW i \in Cells, i < n
        PROVE  Sound(src[i], bridge')
    <3>1. Sound(src[i], bridge)
      BY <2>2, <2>3, LayoutAssumption DEF IInv, BytesSound, Cells
    <3>. QED
      BY <1>1, <3>1, SoundStays DEF IInv
  <2>. HIDE DEF l, n, src
  <2>4. /\ mem' \in [Loc -> Image]
        /\ faults' \in 0 .. MaxFaults
        /\ \A k \in Loc, i \in Cells : Sound(mem'[k][i], bridge')
    BY <1>1, <2>1, <2>2, <2>3, WriteStep
  <2>. QED
    BY <1>1, <2>1, <2>4, ClearedStep DEF IInv, TypeOK, BytesSound, SlotsKept
<1>. QED
  BY <1>2, <1>3

\* setProxyFunction keeps the invariant.
LEMMA SetProxyFunctionStep ==
  ASSUME IInv, NEW c \in Ctx, SetProxyFunction(c)
  PROVE  IInv'
<1>1. /\ ctx' = [ctx EXCEPT ![c].proxy_function_ptr = "external"]
      /\ UNCHANGED <<mem, bridge, faults, ret>>
  BY DEF SetProxyFunction
<1>2. "external" \in Target
  BY DEF Target
<1>3. ctx' \in [Ctx -> [orginal_function_ptr : Loc \cup {NoLoc},
                        orginal_code_size    : 0 .. CodeMax,
                        orginal_code         : Image,
                        proxy_function_ptr   : Target]]
  BY <1>1, <1>2 DEF IInv, TypeOK
<1>4. \A d \in Ctx : /\ ctx'[d].orginal_function_ptr = ctx[d].orginal_function_ptr
                     /\ ctx'[d].orginal_code_size = ctx[d].orginal_code_size
                     /\ ctx'[d].orginal_code = ctx[d].orginal_code
  BY <1>1 DEF IInv, TypeOK
<1>5. TypeOK'
  BY <1>1, <1>3, <1>4 DEF IInv, TypeOK, Live
<1>6. BytesSound'
  BY <1>1, <1>4 DEF IInv, BytesSound
<1>. QED
  BY <1>5, <1>6 DEF IInv

\* A refused call keeps the invariant.
LEMMA InstallRefusedStep ==
  ASSUME IInv, NEW c \in Ctx, NEW l, InstallRefused(c, l)
  PROVE  IInv'
BY DEF InstallRefused, IInv, TypeOK, BytesSound, Live

\* Every step keeps the invariant.
LEMMA Inductive == IInv /\ [Next]_vars => IInv'
<1>. SUFFICES ASSUME IInv, [Next]_vars PROVE IInv'
  OBVIOUS
<1>1. CASE UNCHANGED vars
  BY <1>1 DEF vars, IInv, TypeOK, BytesSound, Live
<1>2. CASE Next
  BY <1>2, InstallRefusedStep, HookInstallStep, HookInstallByBridgeslotStep,
     HookInstallImportStep, HookUninstallStep, SetProxyFunctionStep DEF Next
<1>. QED
  BY <1>1, <1>2

\* Every variable keeps its type; a context in use names what it patched.
THEOREM TypeCorrect == Spec => []TypeOK
<1>1. IInv => TypeOK
  BY DEF IInv
<1>. QED
  BY <1>1, Initially, Inductive, PTL DEF Spec

\* A jump through the bridge, installed or saved to be written back, reads for
\* ever the slot that its own install filled.
THEOREM BridgeStable == Spec => []SlotsNeverRedirected
<1>1. IInv => SlotsNeverRedirected
  BY DEF IInv, BytesSound, Sound, SlotsNeverRedirected, Orig, Zero
<1>. QED
  BY <1>1, Initially, Inductive, PTL DEF Spec

-----------------------------------------------------------------------------
(* Entries are whole.  What a context will write back begins with a whole  *)
(* instruction too, so it does not matter what is there when it does.      *)

\* The first n bytes of img begin with a whole instruction for location l.
WholeHead(l, img, n) ==
  IF img[0].form = "orig"
    THEN l \in Func => \A i \in Cells : (\A x \in Ends[l] : i < x) => i < n /\ img[i] = Orig
    ELSE /\ PatchLen(img[0].form) <= n
         /\ \A i \in Cells : i < PatchLen(img[0].form) => img[i] = img[0]

\* Only pointers are written to import slots.
EntryKind(l, img) == l \in ImportSlot => img[0].form \in {"orig", "ptr"}

WholeInv ==
  faults = 0 =>
    /\ \A l \in Loc : EntryWhole(l) /\ EntryKind(l, mem[l])
    /\ \A c \in Ctx : Live(c) =>
         LET l == ctx[c].orginal_function_ptr IN
         /\ WholeHead(l, ctx[c].orginal_code, ctx[c].orginal_code_size)
         /\ EntryKind(l, ctx[c].orginal_code)

\* A set of instruction ends has a first one.
LEMMA FirstEnd ==
  ASSUME NEW S, S \subseteq Nat, S # {}
  PROVE  \E x \in S : \A y \in S : x <= y
<1>1. PICK x \in S : \A y \in S : ~ (<<y, x>> \in OpToRel(<,Nat))
  BY NatLessThanWellFounded, WFMin
<1>2. \A y \in S : ~(y < x)
  BY <1>1 DEF OpToRel
<1>. QED
  BY <1>2

\* The head hook_copy_code moves is saved whole.
LEMMA HeadSavedWhole ==
  ASSUME IInv, NEW f \in Func, EntryWhole(f), NEW need \in Nat \ {0},
         NEW size \in CopySizes(f, mem[f], need), size >= need
  PROVE  WholeHead(f, SavedHead(f, size), size)
<1>. DEFINE img == mem[f]
            sure == SureEnds(f, img)
<1>1. f \in Loc /\ img \in Image /\ Ends[f] \subseteq 1 .. CodeMax /\ size \in 0 .. CodeMax /\ size > 0
  BY LayoutAssumption, CopySizesType DEF IInv, TypeOK, Loc
<1>2. \A i \in Cells : SavedHead(f, size)[i] = IF i < size THEN img[i] ELSE Zero
  BY DEF SavedHead, Overlay, Zeroes
<1>3. 0 \in Cells /\ SavedHead(f, size)[0] = img[0]
  BY <1>1, <1>2, ConstantTypes
<1>4. CASE img[0].form = "orig"
  <2>1. \A i \in Cells : (\A x \in Ends[f] : i < x) => img[i] = Orig
    BY <1>4 DEF EntryWhole
  <2>2. ASSUME NEW i \in Cells, \A x \in Ends[f] : i < x PROVE i < size
    <3>1. CASE size \in Ends[f]
      BY <2>2, <3>1
    <3>2. CASE img = Pristine /\ size \in sure
      BY <2>2, <3>2 DEF SureEnds
    <3>3. CASE img # Pristine /\ \A y \in sure : size >= y
      <4>1. Ends[f] # {}
        BY <1>1, <2>1, <3>3 DEF Pristine, Image
      <4>2. PICK e \in Ends[f] : \A x \in Ends[f] : e <= x
        BY <1>1, <4>1, FirstEnd
      <4>3. \A j \in Cells : j < e => img[j] = Orig
        BY <1>1, <2>1, <4>2, LayoutAssumption DEF Cells
      <4>4. e \in sure
        BY <4>3 DEF SureEnds
      <4>. QED
        BY <1>1, <2>2, <3>3, <4>2, <4>4, LayoutAssumption DEF Cells
    <3>4. \/ size \in Ends[f]
          \/ img = Pristine /\ size \in sure
          \/ img # Pristine /\ \A y \in sure : size >= y
      BY <1>1, <1>4, <2>1 DEF CopySizes, SureEnds
    <3>. QED
      BY <3>1, <3>2, <3>3, <3>4
  <2>. QED
    BY <1>2, <1>3, <1>4, <2>1, <2>2 DEF WholeHead
<1>5. CASE img[0].form # "orig"
  <2>1. size = PatchLen(img[0].form)
    BY <1>1, <1>5 DEF CopySizes
  <2>2. \A i \in Cells : i < size => img[i] = img[0]
    BY <1>5, <2>1 DEF EntryWhole
  <2>3. PICK saved : saved = SavedHead(f, size)
    OBVIOUS
  <2>4. saved[0].form = img[0].form /\ \A i \in Cells : i < size => saved[i] = saved[0]
    BY <1>2, <1>3, <2>2, <2>3
  <2>5. PatchLen(saved[0].form) <= size
    BY <1>1, <2>1, <2>4
  <2>6. WholeHead(f, saved, size)
    BY <1>5, <2>1, <2>4, <2>5 DEF WholeHead
  <2>. QED
    BY <2>3, <2>6
<1>. QED
  BY <1>4, <1>5

\* Writing a whole head makes a whole entry, whatever was there.
LEMMA WrittenWhole ==
  ASSUME IInv, faults = 0, faults' = 0, \A k \in Loc : EntryWhole(k) /\ EntryKind(k, mem[k]),
         NEW l \in Loc, NEW src \in Image, NEW n \in Nat \ {0}, NEW w \in Outcome,
         WholeHead(l, src, n), EntryKind(l, src), WriteMemory(l, src, n, w)
  PROVE  \A k \in Loc : EntryWhole(k)' /\ EntryKind(k, mem'[k])
<1>1. mem \in [Loc -> Image] /\ 0 \in Cells
  BY ConstantTypes DEF IInv, TypeOK
<1>2. mem' = [mem EXCEPT ![l] = Overlay(mem[l], src, n)]
  BY DEF WriteMemory
<1>3. \A k \in Loc : k # l => mem'[k] = mem[k]
  BY <1>1, <1>2
<1>4. /\ \A i \in Cells : i < n => mem'[l][i] = src[i]
      /\ mem'[l][0] = src[0]
  BY <1>1, <1>2 DEF Overlay
<1>5. EntryWhole(l)' /\ EntryKind(l, mem'[l])
  <2>1. CASE src[0].form = "orig"
    BY <1>4, <2>1 DEF WholeHead, EntryWhole, EntryKind
  <2>2. CASE src[0].form # "orig"
    <3>1. PICK m : m = PatchLen(src[0].form)
      OBVIOUS
    <3>2. m \in Nat /\ m <= n
      <4>1. src[0].form \in Form
        BY <1>1 DEF Image, Byte
      <4>2. m \in 1 .. 14
        BY <3>1, <4>1, ConstantTypes
      <4>3. m <= n
        BY <2>2, <3>1 DEF WholeHead
      <4>. QED
        BY <4>2, <4>3
    <3>3. \A i \in Cells : i < m => mem'[l][i] = src[0]
      BY <1>4, <2>2, <3>1, <3>2, LayoutAssumption DEF WholeHead, Cells
    <3>. QED
      BY <1>4, <2>2, <3>1, <3>3 DEF EntryWhole, EntryKind
  <2>. QED
    BY <2>1, <2>2
<1>6. ASSUME NEW k \in Loc, k # l PROVE EntryWhole(k)' /\ EntryKind(k, mem'[k])
  BY <1>3, <1>6 DEF EntryWhole
<1>. QED
  BY <1>5, <1>6

\* An install leaves whole entries, and a context that can be taken back.
LEMMA InstalledWhole ==
  ASSUME IInv, WholeInv, faults = 0, faults' = 0, NEW c \in Ctx, NEW l \in Loc, NEW w \in Outcome,
         NEW form \in Form \ {"orig"}, NEW s, Patch(c, form, s) \in Image,
         l \in ImportSlot => form = "ptr",
         NEW size \in Nat, NEW proxy, WholeHead(l, SavedHead(l, size), size), size > 0,
         WriteMemory(l, Patch(c, form, s), PatchLen(form), w),
         ctx' = [ctx EXCEPT ![c] = [orginal_function_ptr |-> l,
                                    orginal_code_size    |-> size,
                                    orginal_code         |-> SavedHead(l, size),
                                    proxy_function_ptr   |-> proxy]]
  PROVE  WholeInv'
<1>1. PICK n \in 1 .. 14 : n = PatchLen(form)
  BY ConstantTypes
<1>2. PICK src \in Image : src = Patch(c, form, s)
  OBVIOUS
<1>3. 0 \in Cells /\ src[0].form = form /\ \A i \in Cells : src[i] = src[0]
  BY <1>2, ConstantTypes DEF Patch
<1>4. WholeHead(l, src, n) /\ EntryKind(l, src)
  BY <1>1, <1>3 DEF WholeHead, EntryKind
<1>5. WriteMemory(l, src, n, w)
  BY <1>1, <1>2
<1>6. \A k \in Loc : EntryWhole(k)' /\ EntryKind(k, mem'[k])
  BY <1>4, <1>5, WrittenWhole DEF WholeInv
<1>7. PICK code : code = SavedHead(l, size)
  OBVIOUS
<1>8. code[0] = mem[l][0]
  BY <1>3, <1>7 DEF SavedHead, Overlay
<1>9. EntryKind(l, code)
  BY <1>8 DEF WholeInv, EntryKind
<1>10. PICK new : new = [orginal_function_ptr |-> l, orginal_code_size |-> size,
                         orginal_code |-> code, proxy_function_ptr |-> proxy]
  OBVIOUS
<1>11. ctx'[c] = new /\ \A d \in Ctx : d # c => ctx'[d] = ctx[d]
  BY <1>7, <1>10 DEF IInv, TypeOK
<1>12. /\ new.orginal_function_ptr = l /\ new.orginal_code_size = size /\ new.orginal_code = code
       /\ WholeHead(l, code, size)
  BY <1>7, <1>10
<1>13. ASSUME NEW d \in Ctx, Live(d)'
       PROVE  /\ WholeHead(ctx'[d].orginal_function_ptr, ctx'[d].orginal_code, ctx'[d].orginal_code_size)
              /\ EntryKind(ctx'[d].orginal_function_ptr, ctx'[d].orginal_code)
  <2>1. CASE d = c
    BY <1>9, <1>11, <1>12, <2>1
  <2>2. CASE d # c
    BY <1>11, <1>13, <2>2 DEF Live, WholeInv
  <2>. QED
    BY <2>1, <2>2
<1>. QED
  BY <1>6, <1>13 DEF WholeInv

\* An install that fails clears a context.
LEMMA FailedWhole ==
  ASSUME IInv, WholeInv, NEW c \in Ctx, Forget(c), UNCHANGED <<mem, faults>>
  PROVE  WholeInv'
<1>1. ~Live(c)' /\ \A d \in Ctx : d # c => ctx'[d] = ctx[d]
  BY DEF Forget, Live, Cleared, IInv, TypeOK
<1>. QED
  BY <1>1 DEF WholeInv, EntryWhole, Live

\* Both installs of a jump.
LEMMA CopyAndPatchWhole ==
  ASSUME IInv, WholeInv, faults' = 0, NEW c \in Ctx, NEW f \in Func, NEW w \in Outcome,
         NEW form \in JumpForm, NEW s \in 0 .. MaxAttempts, CopyAndPatch(c, f, form, s, w)
  PROVE  WholeInv'
<1>0. faults = 0 /\ f \in Loc /\ f \notin ImportSlot /\ form \in Form \ {"orig"}
  BY NamesAssumption DEF IInv, TypeOK, CopyAndPatch, WriteMemory, Loc, Form, JumpForm
<1>1. PICK size \in CopySizes(f, mem[f], PatchLen(form)) :
        \/ /\ ~EnoughCopied(size, PatchLen(form))
           /\ Forget(c)
           /\ UNCHANGED <<mem, faults>>
        \/ /\ EnoughCopied(size, PatchLen(form))
           /\ ctx' = [ctx EXCEPT ![c] =
                [orginal_function_ptr |-> f,
                 orginal_code_size    |-> size,
                 orginal_code         |-> SavedHead(f, size),
                 proxy_function_ptr   |-> ProxyTarget(f, mem[f], size)]]
           /\ WriteMemory(f, Patch(c, form, s), PatchLen(form), w)
  BY DEF CopyAndPatch
<1>2. CASE ~EnoughCopied(size, PatchLen(form))
  BY <1>1, <1>2, FailedWhole
<1>3. CASE EnoughCopied(size, PatchLen(form))
  <2>1. PICK need \in Nat \ {0} : need = PatchLen(form)
    BY <1>0, ConstantTypes
  <2>2. size \in CopySizes(f, mem[f], need) /\ size >= need
    BY <1>1, <1>3, <2>1 DEF EnoughCopied
  <2>3. size \in Nat /\ size > 0
    BY <1>0, <2>1, <2>2, CopySizesType DEF IInv, TypeOK
  <2>4. WholeHead(f, SavedHead(f, size), size)
    BY <1>0, <2>2, HeadSavedWhole DEF WholeInv
  <2>5. Patch(c, form, s) \in Image
    BY <1>0 DEF Patch, Image, Byte
  <2>. QED
    BY <1>0, <1>1, <1>3, <2>3, <2>4, <2>5, InstalledWhole
<1>. QED
  BY <1>2, <1>3

\* A pointer in an import slot is saved and written whole.
LEMMA ImportWhole ==
  ASSUME IInv, WholeInv, faults' = 0, NEW c \in Ctx, NEW l \in ImportSlot \cup {NoLoc}, NEW w \in Outcome,
         HookInstallImport(c, l, w)
  PROVE  WholeInv'
<1>1. CASE l = NoLoc
  BY <1>1, FailedWhole DEF HookInstallImport
<1>2. CASE l # NoLoc
  <2>0. /\ ctx' = [ctx EXCEPT ![c] =
             [orginal_function_ptr |-> l,
              orginal_code_size    |-> PatchLen("ptr"),
              orginal_code         |-> SavedHead(l, PatchLen("ptr")),
              proxy_function_ptr   |-> ImportedPointer(l)]]
        /\ WriteMemory(l, Patch(c, "ptr", 0), PatchLen("ptr"), w)
    BY <1>2 DEF HookInstallImport
  <2>1. faults = 0 /\ l \in Loc /\ l \in ImportSlot /\ l \notin Func
    BY <1>2, <2>0, NamesAssumption DEF IInv, TypeOK, WriteMemory, Loc
  <2>2. PICK size \in 1 .. CodeMax : size = PatchLen("ptr")
    BY ConstantTypes
  <2>3. 0 \in Cells /\ EntryWhole(l) /\ mem[l][0].form \in {"orig", "ptr"}
    BY <2>1, ConstantTypes DEF WholeInv, EntryKind
  <2>4. \A i \in Cells : i < size => SavedHead(l, size)[i] = mem[l][i]
    BY DEF SavedHead, Overlay
  <2>5. WholeHead(l, SavedHead(l, size), size)
    <3>1. PICK code : code = SavedHead(l, size)
      OBVIOUS
    <3>2. code[0] = mem[l][0] /\ \A i \in Cells : i < size => code[i] = mem[l][i]
      BY <2>3, <2>4, <3>1
    <3>3. CASE code[0].form = "orig"
      BY <2>1, <3>1, <3>3 DEF WholeHead
    <3>4. CASE code[0].form = "ptr"
      <4>1. PatchLen(code[0].form) = size /\ \A i \in Cells : i < size => code[i] = code[0]
        BY <2>2, <2>3, <3>2, <3>4 DEF EntryWhole
      <4>2. WholeHead(l, code, size)
        BY <3>4, <4>1 DEF WholeHead
      <4>. QED
        BY <3>1, <4>2
    <3>. QED
      BY <2>3, <3>2, <3>3, <3>4
  <2>6. Patch(c, "ptr", 0) \in Image /\ "ptr" \in Form \ {"orig"} /\ size \in Nat /\ size > 0
    BY BoundAssumption DEF Patch, Image, Byte, Form
  <2>. QED
    BY <2>0, <2>1, <2>2, <2>5, <2>6, InstalledWhole
<1>. QED
  BY <1>1, <1>2

\* A removal writes a whole head.
LEMMA UninstallWhole ==
  ASSUME IInv, WholeInv, faults' = 0, NEW c \in Ctx, NEW w \in Outcome, HookUninstall(c, w)
  PROVE  WholeInv'
<1>1. CASE ~Live(c)
  BY <1>1 DEF HookUninstall, WholeInv, EntryWhole, Live
<1>2. CASE Live(c)
  <2>1. PICK l \in Loc, src \in Image, n \in Nat \ {0} :
          /\ l = ctx[c].orginal_function_ptr
          /\ src = ctx[c].orginal_code
          /\ n = ctx[c].orginal_code_size
    BY <1>2 DEF IInv, TypeOK, Live
  <2>2. WriteMemory(l, src, n, w) /\ Forget(c)
    BY <1>2, <2>1 DEF HookUninstall
  <2>3. faults = 0
    BY <2>2 DEF IInv, TypeOK, WriteMemory
  <2>4. WholeHead(l, src, n) /\ EntryKind(l, src)
    BY <1>2, <2>1, <2>3 DEF WholeInv
  <2>5. \A k \in Loc : EntryWhole(k)' /\ EntryKind(k, mem'[k])
    BY <2>2, <2>3, <2>4, WrittenWhole DEF WholeInv
  <2>6. ~Live(c)' /\ \A d \in Ctx : d # c => ctx'[d] = ctx[d]
    BY <2>2 DEF Forget, Live, Cleared, IInv, TypeOK
  <2>. QED
    BY <2>3, <2>5, <2>6 DEF WholeInv, Live
<1>. QED
  BY <1>1, <1>2

\* Every step keeps entries whole.
LEMMA WholeInductive == IInv /\ WholeInv /\ [Next]_vars => WholeInv'
<1>. SUFFICES ASSUME IInv, WholeInv, [Next]_vars, faults' = 0 PROVE WholeInv'
  BY DEF WholeInv
<1>1. CASE UNCHANGED vars
  BY <1>1 DEF vars, WholeInv, EntryWhole, Live
<1>2. ASSUME NEW c \in Ctx, NEW l, InstallRefused(c, l) PROVE WholeInv'
  BY <1>2 DEF InstallRefused, WholeInv, EntryWhole, Live
<1>3. ASSUME NEW c \in Ctx, NEW f \in Func, NEW w \in Outcome, HookInstall(c, f, w) PROVE WholeInv'
  <2>1. Reach[c][f] \in JumpForm /\ 0 \in 0 .. MaxAttempts
    BY LayoutAssumption, BoundAssumption DEF JumpForm
  <2>. QED
    BY <1>3, <2>1, CopyAndPatchWhole DEF HookInstall
<1>4. ASSUME NEW c \in Ctx, NEW f \in Func, NEW w \in Outcome, HookInstallByBridgeslot(c, f, w)
      PROVE  WholeInv'
  <2>1. NextSlot \in 0 .. MaxAttempts /\ "bridge" \in JumpForm
    BY <1>4, BoundAssumption DEF HookInstallByBridgeslot, IInv, TypeOK, NextSlot, JumpForm
  <2>. QED
    BY <1>4, <2>1, CopyAndPatchWhole, FailedWhole DEF HookInstallByBridgeslot
<1>5. ASSUME NEW c \in Ctx, SetProxyFunction(c) PROVE WholeInv'
  <2>1. \A d \in Ctx : /\ ctx'[d].orginal_function_ptr = ctx[d].orginal_function_ptr
                       /\ ctx'[d].orginal_code_size = ctx[d].orginal_code_size
                       /\ ctx'[d].orginal_code = ctx[d].orginal_code
    BY <1>5 DEF SetProxyFunction, IInv, TypeOK
  <2>. QED
    BY <1>5, <2>1 DEF SetProxyFunction, WholeInv, EntryWhole, Live
<1>. QED
  BY <1>1, <1>2, <1>3, <1>4, <1>5, ImportWhole, UninstallWhole DEF Next

\* In whatever order any number of contexts are installed and removed: as long
\* as every write succeeds, the first instruction of a function is a whole
\* original one or a whole jump (hooklib.c 347-354, 406-414, 428).
THEOREM EntriesWhole == Spec => []EntryNeverTorn
<1>1. Init => WholeInv
  <2>. SUFFICES ASSUME Init PROVE WholeInv
    OBVIOUS
  <2>1. 0 \in Cells /\ \A l \in Loc, i \in Cells : mem[l][i] = Orig
    BY ConstantTypes DEF Init, Pristine
  <2>2. \A c \in Ctx : ~Live(c)
    BY DEF Init, Cleared, Live
  <2>. QED
    BY <2>1, <2>2 DEF WholeInv, EntryWhole, EntryKind, Orig
<1>2. WholeInv => EntryNeverTorn
  BY DEF WholeInv, EntryNeverTorn
<1>. QED
  BY <1>1, <1>2, Initially, Inductive, WholeInductive, PTL DEF Spec

=============================================================================
