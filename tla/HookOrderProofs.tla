-------------------------- MODULE HookOrderProofs --------------------------
(***************************************************************************)
(* What hook_uninstall writes back is what hook_install found, for every   *)
(* number of contexts, functions and import slots and every layout.        *)
(*                                                                         *)
(* RestoredWhenReleased speaks of locations nobody uses; to get there one  *)
(* needs the whole stack of a location: each context found the image the   *)
(* one below it left, and its saved bytes laid over the image it left give *)
(* the image it found.                                                     *)
(*                                                                         *)
(* From the same stack follows what a call does: the entry leads to the    *)
(* newest context whose jump was written, each proxy to what its context   *)
(* found, so that the functions that run are the stack, read downwards.    *)
(* That they are makes every step one of the abstract stack of hooks.      *)
(***************************************************************************)
EXTENDS HookOrder, HookContextProofs, FiniteSetTheorems, SequenceTheorems

RecordType ==
  /\ stack \in [Loc -> Seq(Ctx)]
  /\ before \in [Ctx -> Image]
  /\ after \in [Ctx -> Image]
  /\ clean \in [Loc -> BOOLEAN]

\* The stack of l: the contexts in use at l, each of them once.
Held(l) ==
  /\ \A c \in Ctx : ctx[c].orginal_function_ptr = l
                      <=> \E i \in 1 .. Len(stack[l]) : stack[l][i] = c
  /\ \A i, j \in 1 .. Len(stack[l]) : stack[l][i] = stack[l][j] => i = j

\* The image below the i-th context of l.
Below(l, i) == IF i = 1 THEN Pristine ELSE after[stack[l][i - 1]]

Founded(l) == \A i \in 1 .. Len(stack[l]) : before[stack[l][i]] = Below(l, i)

Current(l) == mem[l] = Below(l, Len(stack[l]) + 1)

Undoable(l) ==
  \A i \in 1 .. Len(stack[l]) :
    LET c == stack[l][i]
    IN Overlay(after[c], ctx[c].orginal_code, ctx[c].orginal_code_size) = before[c]

Stacked(l) == Held(l) /\ Founded(l) /\ Current(l) /\ Undoable(l)

OInv == RecordType /\ \A l \in Loc : clean[l] => Stacked(l)

-----------------------------------------------------------------------------
\* Laying n bytes over an image and then at least as many of its own bytes
\* gives the image back.
LEMMA Undo ==
  ASSUME NEW base \in Image, NEW src \in Image, NEW size \in Int, NEW n \in Int,
         n <= size
  PROVE  /\ Overlay(Overlay(base, src, n), Overlay(Zeroes, base, size), size) = base
         /\ Overlay(base, Overlay(Zeroes, base, size), size) = base
BY DEF Overlay, Image, Cells

\* Where a call of an image leads, seen from its bytes alone.
Owner(img) == IF img[0].form = "orig" THEN "body" ELSE img[0].by

\* What is not a patch is the original code, untouched.
Unmixed(img) == img[0].form = "orig" => img = Pristine

\* The bridge slots lead where the bytes say.
LEMMA TargetIsOwner ==
  ASSUME IInv, NEW l \in Loc
  PROVE  EntryTarget(mem[l]) = Owner(mem[l])
<1>1. Sound(mem[l][0], bridge)
  BY ConstantTypes DEF IInv, BytesSound
<1>. QED
  BY <1>1 DEF Sound, EntryTarget, Owner, Orig

\* The steps of Next as far as the bytes and the contexts' fields go: a context
\* is filled in, released, or nothing happens that matters here.
Fill(c, l) ==
  /\ ~Live(c)
  /\ \E size \in 1 .. CodeMax, n \in Nat \ {0}, src \in Image, proxy \in Target :
       /\ n <= size
       /\ src[0].form # "orig" /\ src[0].by = c
       /\ Unmixed(mem[l]) => proxy = Owner(mem[l])
       /\ ctx' = [ctx EXCEPT ![c] = [orginal_function_ptr |-> l,
                                     orginal_code_size    |-> size,
                                     orginal_code         |-> SavedHead(l, size),
                                     proxy_function_ptr   |-> proxy]]
       /\ mem' = mem \/ mem' = [mem EXCEPT ![l] = Overlay(@, src, n)]

Release(c, l) ==
  /\ Live(c)
  /\ l = ctx[c].orginal_function_ptr
  /\ Forget(c)
  /\ \/ mem' = mem
     \/ mem' = [mem EXCEPT ![l] =
                  Overlay(@, ctx[c].orginal_code, ctx[c].orginal_code_size)]

Quiet ==
  /\ mem' = mem
  /\ \A d \in Ctx :
       /\ ctx'[d].orginal_function_ptr = ctx[d].orginal_function_ptr
       /\ ctx'[d].orginal_code_size = ctx[d].orginal_code_size
       /\ Live(d) => ctx'[d].orginal_code = ctx[d].orginal_code
       /\ Live(d) /\ ctx[d].proxy_function_ptr # Null
            => ctx'[d].proxy_function_ptr = ctx[d].proxy_function_ptr

\* Clearing a context that is not in use changes nothing that matters here.
LEMMA ForgetIdle ==
  ASSUME TypeOK, NEW c \in Ctx, ~Live(c), Forget(c), mem' = mem
  PROVE  Quiet
<1>1. ctx[c].orginal_function_ptr = NoLoc /\ ctx[c].orginal_code_size = 0
  BY LayoutAssumption DEF TypeOK, Live
<1>2. Cleared.orginal_function_ptr = NoLoc /\ Cleared.orginal_code_size = 0
  BY DEF Cleared
<1>3. ctx'[c] = Cleared /\ \A d \in Ctx : d # c => ctx'[d] = ctx[d]
  BY DEF TypeOK, Forget
<1>. QED
  BY <1>1, <1>2, <1>3 DEF Quiet

\* A copy of the original code ends where an instruction does.
LEMMA PristineCopied ==
  ASSUME NEW f \in Func, NEW need \in Nat \ {0},
         NEW size \in CopySizes(f, Pristine, need), size >= need
  PROVE  size \in SureEnds(f, Pristine)
BY ConstantTypes, LayoutAssumption DEF CopySizes, SureEnds, Pristine, Orig

\* An install by a jump fails quietly or fills one context.
LEMMA CopyAndPatchShape ==
  ASSUME IInv, NEW c \in Ctx, NEW f \in Func, NEW w \in Outcome,
         NEW form \in JumpForm, NEW s \in 0 .. MaxAttempts,
         ~Live(c), CopyAndPatch(c, f, form, s, w)
  PROVE  Quiet \/ Fill(c, f)
<1>1. PICK size \in CopySizes(f, mem[f], PatchLen(form)) :
        \/ /\ ~EnoughCopied(size, PatchLen(form))
           /\ Forget(c)
           /\ ret' = -1
           /\ UNCHANGED <<mem, faults>>
        \/ /\ EnoughCopied(size, PatchLen(form))
           /\ ctx' = [ctx EXCEPT ![c] =
                [orginal_function_ptr |-> f,
                 orginal_code_size    |-> size,
                 orginal_code         |-> SavedHead(f, size),
                 proxy_function_ptr   |-> ProxyTarget(f, mem[f], size)]]
           /\ WriteMemory(f, Patch(c, form, s), PatchLen(form), w)
           /\ ret' = 0
  BY DEF CopyAndPatch
<1>2. CASE ~EnoughCopied(size, PatchLen(form))
  BY <1>1, <1>2, ForgetIdle DEF IInv
<1>3. CASE EnoughCopied(size, PatchLen(form))
  <2>1. f \in Loc /\ form \in Form
    BY DEF Loc, Form
  <2>2. size \in 0 .. CodeMax
    BY <1>1, <2>1, CopySizesType DEF IInv, TypeOK
  <2>3. PatchLen(form) \in 1 .. 14 /\ PatchLen(form) <= size
    BY <1>3, <2>1, <2>2, ConstantTypes DEF EnoughCopied
  <2>4. size \in 1 .. CodeMax
    BY <2>2, <2>3, LayoutAssumption
  <2>5. ProxyTarget(f, mem[f], size) \in Target
    BY <2>1, TargetType DEF ProxyTarget, Target
  <2>6. Patch(c, form, s) \in Image
    BY <2>1 DEF Patch, Image, Byte
  <2>8. Patch(c, form, s)[0].form # "orig" /\ Patch(c, form, s)[0].by = c
    BY ConstantTypes DEF Patch, JumpForm
  <2>9. Unmixed(mem[f]) => ProxyTarget(f, mem[f], size) = Owner(mem[f])
    <3>1. CASE mem[f] = Pristine
      <4>1. size \in SureEnds(f, Pristine)
        BY <1>1, <2>2, <2>3, <3>1, PristineCopied
      <4>. QED
        BY <2>1, <3>1, <4>1, TargetIsOwner DEF ProxyTarget
    <3>2. CASE mem[f][0].form # "orig"
      BY <2>1, <3>2, TargetIsOwner DEF ProxyTarget
    <3>. QED
      BY <3>1, <3>2 DEF Unmixed
  <2>10. PatchLen(form) \in Nat \ {0}
    BY <2>3
  <2>7. \/ mem' = mem
        \/ mem' = [mem EXCEPT ![f] = Overlay(@, Patch(c, form, s), PatchLen(form))]
    BY <1>1, <1>3 DEF WriteMemory
  <2>. QED
    BY <1>1, <1>3, <2>3, <2>4, <2>5, <2>6, <2>7, <2>8, <2>9, <2>10 DEF Fill
<1>. QED
  BY <1>2, <1>3

\* Every call is quiet, fills one context, or releases one.
LEMMA NextShape ==
  ASSUME IInv, Next
  PROVE  Quiet \/ \E c \in Ctx, l \in Loc : Fill(c, l) \/ Release(c, l)
<1>. PICK c \in Ctx :
       \/ \E l \in Loc \cup {NoLoc} : InstallRefused(c, l)
       \/ \E w \in Outcome :
            \/ \E f \in Func : HookInstall(c, f, w) \/ HookInstallByBridgeslot(c, f, w)
            \/ \E l \in ImportSlot \cup {NoLoc} : HookInstallImport(c, l, w)
            \/ HookUninstall(c, w)
       \/ SetProxyFunction(c)
  BY DEF Next
<1>1. ASSUME NEW l, InstallRefused(c, l)
      PROVE  Quiet
  BY <1>1 DEF InstallRefused, Quiet
<1>2. ASSUME NEW f \in Func, NEW w \in Outcome, HookInstall(c, f, w)
      PROVE  Quiet \/ Fill(c, f)
  <2>1. Reach[c][f] \in JumpForm
    BY LayoutAssumption DEF JumpForm
  <2>. QED
    BY <1>2, <2>1, CopyAndPatchShape, BoundAssumption DEF HookInstall
<1>3. ASSUME NEW f \in Func, NEW w \in Outcome, HookInstallByBridgeslot(c, f, w)
      PROVE  Quiet \/ Fill(c, f)
  <2>1. CASE f \notin BridgeReach
    BY <1>3, <2>1, ForgetIdle DEF HookInstallByBridgeslot, IInv
  <2>2. CASE f \in BridgeReach
    <3>1. NextSlot \in 0 .. MaxAttempts /\ "bridge" \in JumpForm
      BY <1>3, BoundAssumption
         DEF HookInstallByBridgeslot, IInv, TypeOK, NextSlot, JumpForm
    <3>2. ~Live(c) /\ CopyAndPatch(c, f, "bridge", NextSlot, w)
      BY <1>3, <2>2 DEF HookInstallByBridgeslot
    <3>. QED
      BY <3>1, <3>2, CopyAndPatchShape
  <2>. QED
    BY <2>1, <2>2
<1>4. ASSUME NEW l \in ImportSlot \cup {NoLoc}, NEW w \in Outcome,
             HookInstallImport(c, l, w)
      PROVE  Quiet \/ (l \in Loc /\ Fill(c, l))
  <2>1. CASE l = NoLoc
    BY <1>4, <2>1, ForgetIdle DEF HookInstallImport, IInv
  <2>2. CASE l # NoLoc
    <3>1. l \in Loc /\ ~Live(c)
      BY <1>4, <2>2 DEF Loc, HookInstallImport
    <3>2. /\ ctx' = [ctx EXCEPT ![c] =
               [orginal_function_ptr |-> l,
                orginal_code_size    |-> PatchLen("ptr"),
                orginal_code         |-> SavedHead(l, PatchLen("ptr")),
                proxy_function_ptr   |-> ImportedPointer(l)]]
          /\ WriteMemory(l, Patch(c, "ptr", 0), PatchLen("ptr"), w)
      BY <1>4, <2>2 DEF HookInstallImport
    <3>3. ImportedPointer(l) \in Target
      BY <3>1, TargetType DEF ImportedPointer
    <3>4. PatchLen("ptr") \in 1 .. CodeMax /\ PatchLen("ptr") \in Nat \ {0}
      BY ConstantTypes, LayoutAssumption
    <3>5. /\ Patch(c, "ptr", 0) \in Image
          /\ Patch(c, "ptr", 0)[0].form # "orig" /\ Patch(c, "ptr", 0)[0].by = c
      BY BoundAssumption, ConstantTypes DEF Patch, Image, Byte, Form
    <3>10. ImportedPointer(l) = Owner(mem[l])
      BY <3>1, TargetIsOwner DEF ImportedPointer
    <3>6. \/ mem' = mem
          \/ mem' = [mem EXCEPT ![l] = Overlay(@, Patch(c, "ptr", 0), PatchLen("ptr"))]
      BY <3>2 DEF WriteMemory
    <3>. DEFINE n == PatchLen("ptr")
                src == Patch(c, "ptr", 0)
                proxy == ImportedPointer(l)
    <3>7. /\ n \in 1 .. CodeMax /\ n \in Nat \ {0} /\ n <= n
          /\ src \in Image /\ proxy \in Target
          /\ src[0].form # "orig" /\ src[0].by = c /\ proxy = Owner(mem[l])
      BY <3>3, <3>4, <3>5, <3>10
    <3>8. ctx' = [ctx EXCEPT ![c] = [orginal_function_ptr |-> l,
                                     orginal_code_size    |-> n,
                                     orginal_code         |-> SavedHead(l, n),
                                     proxy_function_ptr   |-> proxy]]
      BY <3>2
    <3>9. mem' = mem \/ mem' = [mem EXCEPT ![l] = Overlay(@, src, n)]
      BY <3>6
    <3>. HIDE DEF n, src, proxy
    <3>. QED
      BY <3>1, <3>7, <3>8, <3>9 DEF Fill
  <2>. QED
    BY <2>1, <2>2
<1>5. ASSUME NEW w \in Outcome, HookUninstall(c, w)
      PROVE  Quiet \/ \E l \in Loc : Release(c, l)
  <2>1. CASE ~Live(c)
    BY <1>5, <2>1 DEF HookUninstall, Quiet
  <2>2. CASE Live(c)
    <3>1. ctx[c].orginal_function_ptr \in Loc
      BY <2>2 DEF IInv, TypeOK
    <3>. QED
      BY <1>5, <2>2, <3>1 DEF HookUninstall, WriteMemory, Release
  <2>. QED
    BY <2>1, <2>2
<1>6. ASSUME SetProxyFunction(c)
      PROVE  Quiet
  BY <1>6 DEF SetProxyFunction, Quiet, IInv, TypeOK
<1>. QED
  BY <1>1, <1>2, <1>3, <1>4, <1>5, <1>6 DEF Loc

-----------------------------------------------------------------------------
\* Nothing is installed at first, and every location is original.
LEMMA OInitially == OInit => OInv
<1>. SUFFICES ASSUME OInit PROVE OInv
  OBVIOUS
<1>1. RecordType
  BY ConstantTypes DEF OInit, RecordType
<1>2. ASSUME NEW l \in Loc
      PROVE  Stacked(l)
  <2>1. stack[l] = <<>> /\ Len(stack[l]) = 0 /\ mem[l] = Pristine
    BY DEF OInit, Init
  <2>2. \A c \in Ctx : ctx[c].orginal_function_ptr = NoLoc
    BY DEF OInit, Init, Cleared
  <2>3. l # NoLoc
    BY NamesAssumption
  <2>. QED
    BY <2>1, <2>2, <2>3 DEF Stacked, Held, Founded, Current, Undoable, Below
<1>. QED
  BY <1>1, <1>2 DEF OInv

\* A location that a step does not concern keeps its stack.
LEMMA Untouched ==
  ASSUME RecordType, NEW k \in Loc, Stacked(k),
         stack'[k] = stack[k], mem'[k] = mem[k],
         \A d \in Ctx : ctx'[d].orginal_function_ptr = k
                          <=> ctx[d].orginal_function_ptr = k,
         \A d \in Ctx : ctx[d].orginal_function_ptr = k =>
           /\ ctx'[d].orginal_code_size = ctx[d].orginal_code_size
           /\ ctx'[d].orginal_code = ctx[d].orginal_code
           /\ before'[d] = before[d]
           /\ after'[d] = after[d]
  PROVE  Stacked(k)'
<1>1. stack[k] \in Seq(Ctx) /\ Len(stack[k]) \in Nat
  BY DEF RecordType
<1>2. \A i \in 1 .. Len(stack[k]) :
        stack[k][i] \in Ctx /\ ctx[stack[k][i]].orginal_function_ptr = k
  BY <1>1 DEF Stacked, Held
<1>3. \A i \in 1 .. Len(stack[k]) + 1 : Below(k, i)' = Below(k, i)
  <2>. TAKE i \in 1 .. Len(stack[k]) + 1
  <2>1. CASE i = 1
    BY <2>1 DEF Below
  <2>2. CASE i # 1
    <3>1. i - 1 \in 1 .. Len(stack[k])
      BY <1>1, <2>2
    <3>. QED
      BY <2>2, <3>1, <1>2 DEF Below
  <2>. QED
    BY <2>1, <2>2
<1>4. Held(k)'
  BY DEF Stacked, Held
<1>5. Founded(k)'
  <2>1. \A i \in 1 .. Len(stack[k]) : i \in 1 .. Len(stack[k]) + 1
    BY <1>1
  <2>. QED
    BY <1>1, <1>2, <1>3, <2>1 DEF Stacked, Founded
<1>6. Current(k)'
  <2>1. Len(stack[k]) + 1 \in 1 .. Len(stack[k]) + 1
    BY <1>1
  <2>. QED
    BY <1>3, <2>1 DEF Stacked, Current
<1>7. Undoable(k)'
  BY <1>1, <1>2 DEF Stacked, Undoable
<1>. QED
  BY <1>4, <1>5, <1>6, <1>7 DEF Stacked

\* A quiet call keeps every location's stack founded.
LEMMA QuietStep ==
  ASSUME IInv, OInv, Quiet, RecordNothing
  PROVE  OInv'
<1>1. RecordType'
  BY DEF OInv, RecordType, RecordNothing
<1>2. ASSUME NEW k \in Loc, clean'[k]
      PROVE  Stacked(k)'
  <2>1. clean[k] /\ Stacked(k) /\ RecordType
    BY <1>2 DEF RecordNothing, OInv
  <2>2. \A d \in Ctx : ctx[d].orginal_function_ptr = k => Live(d)
    BY NamesAssumption DEF IInv, TypeOK
  <2>3. \A d \in Ctx : ctx'[d].orginal_function_ptr = k
                         <=> ctx[d].orginal_function_ptr = k
    BY DEF Quiet
  <2>. QED
    BY <2>1, <2>2, <2>3, Untouched DEF Quiet, RecordNothing
<1>. QED
  BY <1>1, <1>2 DEF OInv


\* An install puts a context on a stack whose newest it can undo.
LEMMA FillStep ==
  ASSUME IInv, OInv, NEW c \in Ctx, NEW l \in Loc, Fill(c, l), TypeOK',
         RecordInstall(c, l)
  PROVE  OInv'
<1>1. PICK size \in 1 .. CodeMax, n \in Nat \ {0}, src \in Image, proxy \in Target :
        /\ n <= size
        /\ ctx' = [ctx EXCEPT ![c] = [orginal_function_ptr |-> l,
                                      orginal_code_size    |-> size,
                                      orginal_code         |-> SavedHead(l, size),
                                      proxy_function_ptr   |-> proxy]]
        /\ mem' = mem \/ mem' = [mem EXCEPT ![l] = Overlay(@, src, n)]
  BY DEF Fill
<1>2. /\ ctx'[c].orginal_function_ptr = l
      /\ ctx'[c].orginal_code_size = size
      /\ ctx'[c].orginal_code = SavedHead(l, size)
      /\ \A d \in Ctx : d # c => ctx'[d] = ctx[d]
  BY <1>1 DEF IInv, TypeOK
<1>3. \A k \in Loc : ctx[c].orginal_function_ptr # k
  BY NamesAssumption DEF Fill, IInv, TypeOK
<1>4. \A k \in Loc : k # l => mem'[k] = mem[k]
  BY <1>1 DEF IInv, TypeOK
<1>5. RecordType /\ mem[l] \in Image /\ mem'[l] \in Image
  BY DEF OInv, IInv, TypeOK
<1>6. /\ stack' = [stack EXCEPT ![l] = IF clean[l] THEN Append(@, c) ELSE <<>>]
      /\ before' = [before EXCEPT ![c] = IF clean[l] THEN mem[l] ELSE Pristine]
      /\ after' = [after EXCEPT ![c] = IF clean[l] THEN mem'[l] ELSE Pristine]
      /\ clean' = clean
  BY <1>2 DEF RecordInstall
<1>7. RecordType'
  <2>1. Append(stack[l], c) \in Seq(Ctx) /\ <<>> \in Seq(Ctx)
    BY <1>5 DEF RecordType
  <2>. QED
    BY <2>1, <1>5, <1>6, ConstantTypes DEF RecordType
<1>8. ASSUME NEW k \in Loc, k # l, clean'[k]
      PROVE  Stacked(k)'
  <2>1. Stacked(k)
    BY <1>6, <1>8 DEF OInv
  <2>2. stack'[k] = stack[k] /\ mem'[k] = mem[k]
    BY <1>4, <1>5, <1>6, <1>8 DEF RecordType
  <2>3. \A d \in Ctx : ctx'[d].orginal_function_ptr = k
                         <=> ctx[d].orginal_function_ptr = k
    BY <1>2, <1>3, <1>8
  <2>4. \A d \in Ctx : ctx[d].orginal_function_ptr = k =>
          ctx'[d] = ctx[d] /\ before'[d] = before[d] /\ after'[d] = after[d]
    BY <1>2, <1>3, <1>5, <1>6 DEF RecordType
  <2>. QED
    BY <1>5, <2>1, <2>2, <2>3, <2>4, Untouched
<1>9. ASSUME clean[l]
      PROVE  Stacked(l)'
  <2>. PICK m \in Nat : m = Len(stack[l])
    BY <1>5 DEF RecordType
  <2>1. Stacked(l) /\ stack[l] \in Seq(Ctx) /\ m = Len(stack[l])
    BY <1>5, <1>9 DEF OInv, RecordType
  <2>2. /\ stack'[l] = Append(stack[l], c)
        /\ Len(stack'[l]) = m + 1
        /\ stack'[l][m + 1] = c
        /\ \A i \in 1 .. m : stack'[l][i] = stack[l][i] /\ stack[l][i] \in Ctx
    BY <1>5, <1>6, <1>9, <2>1 DEF RecordType
  <2>3. \A i \in 1 .. m : stack[l][i] # c
    BY <1>3, <2>1, <2>2 DEF Stacked, Held
  <2>4. /\ before'[c] = mem[l] /\ after'[c] = mem'[l]
        /\ \A d \in Ctx : d # c => before'[d] = before[d] /\ after'[d] = after[d]
    BY <1>5, <1>6, <1>9 DEF RecordType
  <2>5. \A i \in 1 .. m + 1 : Below(l, i)' = Below(l, i)
    <3>. TAKE i \in 1 .. m + 1
    <3>1. CASE i = 1
      BY <3>1 DEF Below
    <3>2. CASE i # 1
      <4>1. i - 1 \in 1 .. m
        BY <2>1, <3>2
      <4>. QED
        BY <3>2, <4>1, <2>2, <2>3, <2>4 DEF Below
    <3>. QED
      BY <3>1, <3>2
  <2>6. \A i \in 1 .. m + 1 : i \in 1 .. m \/ i = m + 1
    BY <2>1
  <2>7. m + 1 \in 1 .. m + 1 /\ \A i \in 1 .. m : i \in 1 .. m + 1 /\ i # m + 1
    BY <2>1
  <2>8. Held(l)'
    <3>1. \A d \in Ctx : ctx'[d].orginal_function_ptr = l
                           <=> \E i \in 1 .. Len(stack'[l]) : stack'[l][i] = d
      <4>. TAKE d \in Ctx
      <4>1. CASE d = c
        BY <4>1, <1>2, <2>2, <2>7
      <4>2. CASE d # c
        <5>1. ctx[d].orginal_function_ptr = l <=> \E i \in 1 .. m : stack[l][i] = d
          BY <2>1 DEF Stacked, Held
        <5>. QED
          BY <4>2, <5>1, <1>2, <2>2, <2>6, <2>7
      <4>. QED
        BY <4>1, <4>2
    <3>2. \A i, j \in 1 .. Len(stack'[l]) : stack'[l][i] = stack'[l][j] => i = j
      <4>1. \A i, j \in 1 .. m : stack[l][i] = stack[l][j] => i = j
        BY <2>1 DEF Stacked, Held
      <4>. QED
        BY <4>1, <2>2, <2>3, <2>6
    <3>. QED
      BY <3>1, <3>2 DEF Held
  <2>9. Founded(l)'
    <3>1. \A i \in 1 .. m : before'[stack'[l][i]] = Below(l, i)'
      BY <2>1, <2>2, <2>3, <2>4, <2>5, <2>7 DEF Stacked, Founded
    <3>2. before'[stack'[l][m + 1]] = Below(l, m + 1)'
      BY <2>1, <2>2, <2>4, <2>5, <2>7 DEF Stacked, Current
    <3>. QED
      BY <3>1, <3>2, <2>2, <2>6 DEF Founded
  <2>10. Current(l)'
    <3>1. Below(l, m + 1 + 1)' = after'[stack'[l][m + 1]]
      BY <2>1 DEF Below
    <3>. QED
      BY <3>1, <2>2, <2>4 DEF Current
  <2>11. Undoable(l)'
    <3>1. ASSUME NEW i \in 1 .. m
          PROVE  LET d == stack'[l][i]
                 IN Overlay(after'[d], ctx'[d].orginal_code, ctx'[d].orginal_code_size)
                      = before'[d]
      BY <1>2, <2>1, <2>2, <2>3, <2>4 DEF Stacked, Undoable
    <3>2. Overlay(mem'[l], SavedHead(l, size), size) = mem[l]
      BY <1>1, <1>5, Undo DEF SavedHead, IInv, TypeOK
    <3>. QED
      BY <3>1, <3>2, <1>2, <2>2, <2>4, <2>6 DEF Undoable
  <2>. QED
    BY <2>8, <2>9, <2>10, <2>11 DEF Stacked
<1>. QED
  BY <1>6, <1>7, <1>8, <1>9 DEF OInv


\* What every release does, in order or not.
LEMMA ReleaseFacts ==
  ASSUME IInv, NEW c \in Ctx, NEW l \in Loc, Release(c, l)
  PROVE  /\ \A k \in Loc : ctx'[c].orginal_function_ptr # k
         /\ \A d \in Ctx : d # c => ctx'[d] = ctx[d]
         /\ \A k \in Loc : k # l => mem'[k] = mem[k]
<1>1. Cleared.orginal_function_ptr = NoLoc
  BY DEF Cleared
<1>2. ctx'[c] = Cleared /\ \A d \in Ctx : d # c => ctx'[d] = ctx[d]
  BY DEF Release, Forget, IInv, TypeOK
<1>. QED
  BY <1>1, <1>2, NamesAssumption DEF Release, IInv, TypeOK

\* Taking the newest context off gives the image it had found.
LEMMA NewestUndone ==
  ASSUME OInv, NEW c \in Ctx, NEW l \in Loc, InOrder(c, l)
  PROVE  mem[l] = after[c] /\ mem'[l] = before[c]
<1>1. RecordType /\ clean[l] /\ Stacked(l)
  BY DEF OInv, InOrder
<1>2. PICK m \in Nat : m = Len(stack[l])
  BY <1>1 DEF RecordType
<1>3. m \in 1 .. m /\ stack[l][m] = c /\ m + 1 # 1 /\ m + 1 - 1 = m
  BY <1>1, <1>2 DEF RecordType, InOrder, Newest
<1>4. mem[l] = after[c]
  BY <1>1, <1>2, <1>3 DEF Stacked, Current, Below
<1>5. Overlay(after[c], ctx[c].orginal_code, ctx[c].orginal_code_size) = before[c]
  BY <1>1, <1>2, <1>3 DEF Stacked, Undoable
<1>. QED
  BY <1>4, <1>5 DEF InOrder

\* The newest context is released and its saved bytes are written back.
LEMMA InOrderStep ==
  ASSUME IInv, OInv, NEW c \in Ctx, NEW l \in Loc, Release(c, l), RecordInOrder(c, l)
  PROVE  OInv'
<1>0. /\ InOrder(c, l)
      /\ stack' = [stack EXCEPT ![l] = SubSeq(@, 1, Len(@) - 1)]
      /\ before' = [before EXCEPT ![c] = Pristine]
      /\ after' = [after EXCEPT ![c] = Pristine]
      /\ clean' = clean
  BY DEF RecordInOrder
<1>1. /\ \A k \in Loc : ctx'[c].orginal_function_ptr # k
      /\ \A d \in Ctx : d # c => ctx'[d] = ctx[d]
      /\ \A k \in Loc : k # l => mem'[k] = mem[k]
  BY ReleaseFacts
<1>2. RecordType /\ clean[l] /\ Stacked(l)
  BY <1>0 DEF OInv, InOrder
<1>3. /\ ctx[c].orginal_function_ptr = l
      /\ \A k \in Loc : ctx[c].orginal_function_ptr = k => k = l
  BY DEF Release
<1>. PICK m \in Nat : m = Len(stack[l])
  BY <1>2 DEF RecordType
<1>4. stack[l] \in Seq(Ctx) /\ stack[l] # <<>> /\ m \in 1 .. m /\ stack[l][m] = c
  BY <1>0, <1>2 DEF RecordType, InOrder, Newest
<1>5. /\ stack'[l] = SubSeq(stack[l], 1, m - 1)
      /\ stack'[l] \in Seq(Ctx)
      /\ Len(stack'[l]) = m - 1
      /\ \A i \in 1 .. m - 1 : stack'[l][i] = stack[l][i]
  BY <1>0, <1>2, <1>4 DEF RecordType
<1>6. RecordType'
  BY <1>0, <1>2, <1>5, ConstantTypes DEF RecordType
<1>7. ASSUME NEW k \in Loc, k # l, clean'[k]
      PROVE  Stacked(k)'
  <2>1. Stacked(k)
    BY <1>0, <1>7 DEF OInv
  <2>2. stack'[k] = stack[k] /\ mem'[k] = mem[k]
    BY <1>0, <1>1, <1>2, <1>7 DEF RecordType
  <2>3. \A d \in Ctx : ctx'[d].orginal_function_ptr = k
                         <=> ctx[d].orginal_function_ptr = k
    BY <1>1, <1>3, <1>7
  <2>4. \A d \in Ctx : ctx[d].orginal_function_ptr = k =>
          ctx'[d] = ctx[d] /\ before'[d] = before[d] /\ after'[d] = after[d]
    BY <1>0, <1>1, <1>2, <1>3, <1>7 DEF RecordType
  <2>. QED
    BY <1>2, <2>1, <2>2, <2>3, <2>4, Untouched
<1>8. Stacked(l)'
  <2>1. \A i \in 1 .. m - 1 : i \in 1 .. m /\ i # m /\ stack[l][i] \in Ctx
    BY <1>4
  <2>2. \A i \in 1 .. m : i \in 1 .. m - 1 \/ i = m
    OBVIOUS
  <2>3. \A i, j \in 1 .. m : stack[l][i] = stack[l][j] => i = j
    BY <1>2 DEF Stacked, Held
  <2>4. \A i \in 1 .. m - 1 : stack[l][i] # c
    BY <1>4, <2>1, <2>3
  <2>5. \A d \in Ctx : d # c => before'[d] = before[d] /\ after'[d] = after[d]
    BY <1>0, <1>2 DEF RecordType
  <2>6. \A i \in 1 .. m : Below(l, i)' = Below(l, i)
    <3>. TAKE i \in 1 .. m
    <3>1. CASE i = 1
      BY <3>1 DEF Below
    <3>2. CASE i # 1
      <4>1. i - 1 \in 1 .. m - 1
        BY <3>2
      <4>. QED
        BY <3>2, <4>1, <1>5, <2>1, <2>4, <2>5 DEF Below
    <3>. QED
      BY <3>1, <3>2
  <2>7. Held(l)'
    <3>1. \A d \in Ctx : ctx'[d].orginal_function_ptr = l
                           <=> \E i \in 1 .. m - 1 : stack[l][i] = d
      <4>. TAKE d \in Ctx
      <4>1. CASE d = c
        BY <4>1, <1>1, <2>4
      <4>2. CASE d # c
        <5>1. ctx[d].orginal_function_ptr = l <=> \E i \in 1 .. m : stack[l][i] = d
          BY <1>2 DEF Stacked, Held
        <5>. QED
          BY <4>2, <5>1, <1>1, <1>4, <2>1, <2>2
      <4>. QED
        BY <4>1, <4>2
    <3>. QED
      <4>1. Len(stack'[l]) = m - 1 /\ \A i \in 1 .. m - 1 : stack'[l][i] = stack[l][i]
        BY <1>5
      <4>2. \A d \in Ctx : ctx'[d].orginal_function_ptr = l
                           <=> \E i \in 1 .. Len(stack'[l]) : stack'[l][i] = d
        BY <3>1, <4>1
      <4>3. \A i, j \in 1 .. Len(stack'[l]) : stack'[l][i] = stack'[l][j] => i = j
        BY <4>1, <2>1, <2>3
      <4>. QED
        BY <4>2, <4>3 DEF Held
  <2>8. Founded(l)'
    <3>1. \A i \in 1 .. m - 1 : before[stack[l][i]] = Below(l, i)
      BY <1>2, <2>1 DEF Stacked, Founded
    <3>. QED
      BY <3>1, <1>5, <2>1, <2>4, <2>5, <2>6, SMTT(30) DEF Founded
  <2>9. Current(l)'
    <3>3. mem'[l] = before[c]
      BY <1>0, NewestUndone
    <3>4. mem'[l] = Below(l, m)'
      BY <3>3, <1>2, <1>4, <2>6 DEF Stacked, Founded
    <3>5. Len(stack'[l]) + 1 = m
      BY <1>5
    <3>. QED
      BY <3>4, <3>5 DEF Current
  <2>10. Undoable(l)'
    <3>1. ASSUME NEW i \in 1 .. m - 1
          PROVE  LET d == stack'[l][i]
                 IN Overlay(after'[d], ctx'[d].orginal_code, ctx'[d].orginal_code_size)
                      = before'[d]
      <4>. DEFINE d == stack[l][i]
      <4>1. d \in Ctx /\ d # c /\ stack'[l][i] = d
        BY <1>5, <2>1, <2>4
      <4>2. Overlay(after[d], ctx[d].orginal_code, ctx[d].orginal_code_size) = before[d]
        BY <1>2, <2>1 DEF Stacked, Undoable
      <4>. HIDE DEF d
      <4>. QED
        BY <4>1, <4>2, <1>1, <2>5
    <3>. QED
      BY <3>1, <1>5 DEF Undoable
  <2>. QED
    BY <2>7, <2>8, <2>9, <2>10 DEF Stacked
<1>. QED
  BY <1>6, <1>7, <1>8 DEF OInv

\* Any other release: nothing is claimed of its location from then on.
LEMMA OutOfOrderStep ==
  ASSUME IInv, OInv, NEW c \in Ctx, NEW l \in Loc, Release(c, l), RecordOutOfOrder(c, l)
  PROVE  OInv'
<1>0. /\ stack' = [stack EXCEPT ![l] = <<>>]
      /\ clean' = [clean EXCEPT ![l] = FALSE]
      /\ before' = [d \in Ctx |-> IF ctx[d].orginal_function_ptr = l
                                    THEN Pristine ELSE before[d]]
      /\ after' = [d \in Ctx |-> IF ctx[d].orginal_function_ptr = l
                                   THEN Pristine ELSE after[d]]
  BY DEF RecordOutOfOrder
<1>1. /\ \A k \in Loc : ctx'[c].orginal_function_ptr # k
      /\ \A d \in Ctx : d # c => ctx'[d] = ctx[d]
      /\ \A k \in Loc : k # l => mem'[k] = mem[k]
  BY ReleaseFacts
<1>2. RecordType
  BY DEF OInv
<1>3. \A k \in Loc : ctx[c].orginal_function_ptr = k => k = l
  BY DEF Release
<1>4. RecordType'
  <2>1. <<>> \in Seq(Ctx)
    OBVIOUS
  <2>. QED
    BY <2>1, <1>0, <1>2, ConstantTypes DEF RecordType
<1>5. ASSUME NEW k \in Loc, clean'[k]
      PROVE  Stacked(k)'
  <2>1. k # l /\ clean[k] /\ Stacked(k)
    BY <1>0, <1>2, <1>5 DEF RecordType, OInv
  <2>2. stack'[k] = stack[k] /\ mem'[k] = mem[k]
    BY <1>0, <1>1, <1>2, <2>1 DEF RecordType
  <2>3. \A d \in Ctx : ctx'[d].orginal_function_ptr = k
                         <=> ctx[d].orginal_function_ptr = k
    BY <1>1, <1>3, <2>1
  <2>4. \A d \in Ctx : ctx[d].orginal_function_ptr = k =>
          ctx'[d] = ctx[d] /\ before'[d] = before[d] /\ after'[d] = after[d]
    BY <1>0, <1>1, <1>2, <1>3, <2>1 DEF RecordType
  <2>. QED
    BY <1>2, <2>1, <2>2, <2>3, <2>4, Untouched
<1>. QED
  BY <1>4, <1>5 DEF OInv

\* Every step and its record: a quiet one, an install, or a removal in order
\* or out of order.
LEMMA StepCases ==
  ASSUME IInv, IInv', [ONext]_allvars
  PROVE  \/ Quiet /\ RecordNothing
         \/ \E c \in Ctx, l \in Loc :
              \/ Fill(c, l) /\ RecordInstall(c, l)
              \/ Release(c, l) /\ RecordInOrder(c, l)
              \/ Release(c, l) /\ RecordOutOfOrder(c, l)
<1>1. CASE UNCHANGED allvars
  BY <1>1 DEF allvars, vars, Quiet, RecordNothing, Installed, Removed, Live
<1>2. CASE Next /\ Record
  <2>1. CASE Quiet
    <3>1. \A d \in Ctx : ~Installed(d) /\ ~Removed(d)
      BY <2>1 DEF Quiet, Installed, Removed, Live
    <3>2. RecordNothing
      BY <1>2, <3>1 DEF Record, RecordInstall, RecordRemoval
    <3>. QED
      BY <2>1, <3>2
  <2>2. ASSUME NEW c \in Ctx, NEW l \in Loc, Fill(c, l)
        PROVE  RecordInstall(c, l)
    <3>1. /\ ctx'[c].orginal_function_ptr = l
          /\ \A d \in Ctx : d # c => ctx'[d] = ctx[d]
      BY <2>2 DEF Fill, IInv, TypeOK
    <3>2. Installed(c)
      BY <2>2, <3>1, NamesAssumption DEF Installed, Fill, IInv, TypeOK
    <3>3. \A d \in Ctx : ~Removed(d) /\ (Installed(d) => d = c)
      BY <3>1, <3>2 DEF Removed, Installed, Live
    <3>4. PICK d \in Ctx : RecordInstall(d, ctx'[d].orginal_function_ptr)
      BY <1>2, <3>2, <3>3 DEF Record, RecordRemoval, RecordNothing
    <3>5. d = c
      BY <3>3, <3>4 DEF RecordInstall
    <3>. QED
      BY <3>1, <3>4, <3>5, Zenon
  <2>3. ASSUME NEW c \in Ctx, NEW l \in Loc, Release(c, l)
        PROVE  RecordRemoval(c, l)
    <3>1. /\ ctx'[c].orginal_function_ptr \notin Loc
          /\ \A d \in Ctx : d # c => ctx'[d] = ctx[d]
      BY <2>3, ReleaseFacts
    <3>2. Removed(c)
      BY <2>3, <3>1 DEF Removed, Release, IInv, TypeOK
    <3>3. \A d \in Ctx : ~Installed(d) /\ (Removed(d) => d = c)
      BY <3>1, <3>2 DEF Removed, Installed, Live
    <3>. QED
      BY <1>2, <2>3, <3>2, <3>3
         DEF Record, RecordInstall, RecordRemoval, RecordNothing, Release
  <2>. QED
    BY <1>2, <2>1, <2>2, <2>3, NextShape DEF RecordRemoval
<1>. QED
  BY <1>1, <1>2 DEF ONext

\* Every step keeps the invariant.
LEMMA OInductive == IInv /\ IInv' /\ OInv /\ [ONext]_allvars => OInv'
<1>. SUFFICES ASSUME IInv, IInv', OInv, [ONext]_allvars PROVE OInv'
  OBVIOUS
<1>1. CASE Quiet /\ RecordNothing
  BY <1>1, QuietStep
<1>2. ASSUME NEW c \in Ctx, NEW l \in Loc, Fill(c, l), RecordInstall(c, l)
      PROVE  OInv'
  BY <1>2, FillStep DEF IInv
<1>3. ASSUME NEW c \in Ctx, NEW l \in Loc, Release(c, l),
             RecordInOrder(c, l) \/ RecordOutOfOrder(c, l)
      PROVE  OInv'
  BY <1>3, InOrderStep, OutOfOrderStep
<1>. QED
  BY <1>1, <1>2, <1>3, StepCases

\* The contexts keep their types when the order of calls is recorded.
LEMMA OTyped == OSpec => []IInv
<1>1. OInit => IInv
  BY Initially DEF OInit
<1>2. IInv /\ [ONext]_allvars => IInv'
  BY Inductive DEF ONext, allvars
<1>. QED
  BY <1>1, <1>2, PTL DEF OSpec

\* A location whose contexts were removed newest first, and that none uses any
\* more, holds the original bytes again.
THEOREM Restored == OSpec => []RestoredWhenReleased
<1>1. IInv /\ OInv => RestoredWhenReleased
  <2>. SUFFICES ASSUME IInv, OInv, NEW l \in Loc, clean[l],
                       \A c \in Ctx : ctx[c].orginal_function_ptr # l
                PROVE  mem[l] = Pristine
    BY DEF RestoredWhenReleased
  <2>1. Stacked(l) /\ stack[l] \in Seq(Ctx) /\ Len(stack[l]) \in Nat
    BY DEF OInv, RecordType
  <2>2. Len(stack[l]) = 0
    <3>. SUFFICES ASSUME Len(stack[l]) # 0 PROVE FALSE
      OBVIOUS
    <3>1. 1 \in 1 .. Len(stack[l]) /\ stack[l][1] \in Ctx
      BY <2>1
    <3>. QED
      BY <2>1, <3>1 DEF Stacked, Held
  <2>. QED
    BY <2>1, <2>2 DEF Stacked, Current, Below
<1>. QED
  BY <1>1, OInitially, OInductive, OTyped, PTL DEF OSpec

-----------------------------------------------------------------------------
(* Calls.  The jumps written at a location and the proxies behind them are *)
(* a linked list: the entry leads to the newest context shown, the proxy   *)
(* of each to the one below, and the last to the body.  To know that the   *)
(* rest of the list is what a call runs once the newest is taken off, one  *)
(* has to know where the images that will come back lead.                  *)

Used(c, l) == ctx[c].orginal_function_ptr = l

Linked(l) ==
  LET n == Len(shown[l]) IN
  /\ Owner(mem[l]) = Expected(l)[1]
  /\ Unmixed(mem[l])
  /\ \A c \in Ctx : Used(c, l) =>
       /\ Unmixed(before[c])
       /\ (\A i \in 1 .. n : shown[l][i] # c) => after[c] = before[c]
  /\ \A i \in 1 .. n :
       LET c == shown[l][i] IN
       /\ Used(c, l)
       /\ Owner(after[c]) = c
       /\ Owner(before[c]) = Expected(l)[i + 1]
       /\ ctx[c].proxy_function_ptr = Expected(l)[i + 1]
  /\ \A i, j \in 1 .. n : shown[l][i] = shown[l][j] => i = j

CInv == shown \in [Loc -> Seq(Ctx)] /\ \A l \in Loc : clean[l] => Linked(l)

\* Pushing and popping at the front of a sequence, and what follows its end.
LEMMA Pushed ==
  ASSUME NEW S, NEW h \in Seq(S), NEW c \in S
  PROVE  /\ <<c>> \o h \in Seq(S)
         /\ Len(<<c>> \o h) = Len(h) + 1
         /\ (<<c>> \o h)[1] = c
         /\ \A i \in 1 .. Len(h) : (<<c>> \o h)[i + 1] = h[i]
OBVIOUS

LEMMA Popped ==
  ASSUME NEW S, NEW h \in Seq(S), h # <<>>
  PROVE  /\ Tail(h) \in Seq(S)
         /\ Len(h) \in Nat \ {0} /\ Len(Tail(h)) = Len(h) - 1
         /\ Head(h) = h[1]
         /\ \A i \in 1 .. Len(h) - 1 : Tail(h)[i] = h[i + 1]
OBVIOUS

LEMMA Identical ==
  ASSUME NEW S, NEW s \in Seq(S), NEW t \in Seq(S), Len(s) = Len(t),
         \A i \in 1 .. Len(s) : s[i] = t[i]
  PROVE  s = t
OBVIOUS

LEMMA ThenBody ==
  ASSUME NEW S, NEW h \in Seq(S), NEW b
  PROVE  /\ \A i \in 1 .. Len(h) : Append(h, b)[i] = h[i]
         /\ Append(h, b)[Len(h) + 1] = b
         /\ Len(Append(h, b)) = Len(h) + 1
OBVIOUS

\* A location that a step does not concern keeps its list.
LEMMA LinkedStays ==
  ASSUME shown \in [Loc -> Seq(Ctx)], NEW k \in Loc, Linked(k),
         shown'[k] = shown[k], mem'[k] = mem[k],
         \A d \in Ctx : Used(d, k)' <=> Used(d, k),
         \A d \in Ctx : Used(d, k) =>
           /\ before'[d] = before[d]
           /\ after'[d] = after[d]
           /\ ctx[d].proxy_function_ptr # Null
                => ctx'[d].proxy_function_ptr = ctx[d].proxy_function_ptr
  PROVE  Linked(k)'
<1>1. PICK h \in Seq(Ctx), n \in Nat : h = shown[k] /\ n = Len(h)
  OBVIOUS
<1>2. Expected(k)' = Expected(k) /\ shown'[k] = h
  BY <1>1 DEF Expected
<1>3. \A i \in 1 .. n + 1 : Expected(k)[i] # Null
  <2>1. \A i \in 1 .. n + 1 : i \in 1 .. n \/ i = n + 1
    BY <1>1
  <2>2. \A i \in 1 .. n : Expected(k)[i] \in Ctx
    BY <1>1, ThenBody DEF Expected
  <2>3. Expected(k)[n + 1] = "body"
    BY <1>1, ThenBody DEF Expected
  <2>. QED
    BY <2>1, <2>2, <2>3, NamesAssumption DEF Null
<1>4. \A i \in 1 .. n : h[i] \in Ctx /\ i + 1 \in 1 .. n + 1
  BY <1>1
<1>5. Owner(mem[k])' = Expected(k)'[1] /\ Unmixed(mem[k])'
  BY <1>2 DEF Linked
<1>6. ASSUME NEW c \in Ctx, Used(c, k)'
      PROVE  /\ Unmixed(before[c])'
             /\ (\A i \in 1 .. n : h[i] # c) => (after[c] = before[c])'
  BY <1>1, <1>6 DEF Linked
<1>7. ASSUME NEW i \in 1 .. n
      PROVE  /\ Used(h[i], k)'
             /\ Owner(after[h[i]])' = h[i]
             /\ Owner(before[h[i]])' = Expected(k)'[i + 1]
             /\ ctx'[h[i]].proxy_function_ptr = Expected(k)'[i + 1]
  <2>1. h[i] \in Ctx /\ Used(h[i], k)
    BY <1>1, <1>4 DEF Linked
  <2>2. /\ Owner(after[h[i]]) = h[i]
        /\ Owner(before[h[i]]) = Expected(k)[i + 1]
        /\ ctx[h[i]].proxy_function_ptr = Expected(k)[i + 1]
    BY <1>1 DEF Linked
  <2>3. before'[h[i]] = before[h[i]] /\ after'[h[i]] = after[h[i]]
    BY <2>1
  <2>4. ctx'[h[i]].proxy_function_ptr = ctx[h[i]].proxy_function_ptr
    BY <1>3, <1>4, <2>1, <2>2
  <2>. QED
    BY <1>2, <2>1, <2>2, <2>3, <2>4
<1>8. \A i, j \in 1 .. n : h[i] = h[j] => i = j
  BY <1>1 DEF Linked
<1>. QED
  BY <1>1, <1>2, <1>5, <1>6, <1>7, <1>8 DEF Linked

\* Quiet calls keep every list.
LEMMA LinkedQuiet ==
  ASSUME IInv, CInv, Quiet, RecordNothing
  PROVE  CInv'
<1>1. shown' = shown /\ clean' = clean /\ before' = before /\ after' = after /\ mem' = mem
  BY DEF RecordNothing, Quiet
<1>2. ASSUME NEW k \in Loc, clean'[k]
      PROVE  Linked(k)'
  <2>1. \A d \in Ctx : Used(d, k)' <=> Used(d, k)
    BY DEF Quiet, Used
  <2>2. \A d \in Ctx : Used(d, k) => Live(d)
    BY NamesAssumption DEF IInv, TypeOK, Used
  <2>3. \A d \in Ctx : Used(d, k) =>
          (ctx[d].proxy_function_ptr # Null
             => ctx'[d].proxy_function_ptr = ctx[d].proxy_function_ptr)
    BY <2>2 DEF Quiet
  <2>. QED
    BY <1>1, <1>2, <2>1, <2>3, LinkedStays DEF CInv
<1>. QED
  BY <1>1, <1>2 DEF CInv

\* A context that is filled in is linked in front of the list, or stays out of
\* it when its jump was not written.
LEMMA LinkedFill ==
  ASSUME IInv, RecordType, CInv, NEW c \in Ctx, NEW l \in Loc, Fill(c, l), RecordInstall(c, l)
  PROVE  CInv'
<1>1. PICK size \in 1 .. CodeMax, n \in Nat \ {0}, src \in Image, proxy \in Target :
        /\ n <= size
        /\ src[0].form # "orig" /\ src[0].by = c
        /\ Unmixed(mem[l]) => proxy = Owner(mem[l])
        /\ ctx' = [ctx EXCEPT ![c] = [orginal_function_ptr |-> l,
                                      orginal_code_size    |-> size,
                                      orginal_code         |-> SavedHead(l, size),
                                      proxy_function_ptr   |-> proxy]]
        /\ mem' = mem \/ mem' = [mem EXCEPT ![l] = Overlay(@, src, n)]
  BY DEF Fill
<1>2. /\ ctx'[c].orginal_function_ptr = l
      /\ ctx'[c].proxy_function_ptr = proxy
      /\ \A d \in Ctx : d # c => ctx'[d] = ctx[d]
  BY <1>1 DEF IInv, TypeOK
<1>3. \A k \in Loc : ~Used(c, k)
  BY NamesAssumption DEF Fill, IInv, TypeOK, Used
<1>4. \A k \in Loc : k # l => mem'[k] = mem[k]
  BY <1>1 DEF IInv, TypeOK
<1>5. /\ clean' = clean
      /\ \A k \in Loc : k # l => shown'[k] = shown[k]
      /\ \A d \in Ctx : d # c => before'[d] = before[d] /\ after'[d] = after[d]
  BY DEF RecordInstall, CInv, RecordType
<1>6. ASSUME clean[l]
      PROVE  /\ shown'[l] = IF mem'[l] # mem[l] THEN <<c>> \o shown[l] ELSE shown[l]
             /\ before'[c] = mem[l] /\ after'[c] = mem'[l]
  BY <1>6 DEF RecordInstall, CInv, RecordType
<1>7. shown' \in [Loc -> Seq(Ctx)]
  <2>1. <<c>> \o shown[l] \in Seq(Ctx)
    BY Pushed DEF CInv
  <2>. QED
    BY <2>1 DEF RecordInstall, CInv
<1>8. ASSUME NEW k \in Loc, k # l, clean'[k]
      PROVE  Linked(k)'
  <2>1. \A d \in Ctx : Used(d, k)' <=> Used(d, k)
    BY <1>2, <1>3, <1>8 DEF Used
  <2>2. \A d \in Ctx : Used(d, k) => d # c
    BY <1>3
  <2>. QED
    BY <1>2, <1>4, <1>5, <1>8, <2>1, <2>2, LinkedStays DEF CInv
<1>9. ASSUME clean[l]
      PROVE  Linked(l)'
  <2>1. PICK h \in Seq(Ctx), m \in Nat : h = shown[l] /\ m = Len(h)
    BY DEF CInv
  <2>2. Linked(l) /\ proxy = Owner(mem[l]) /\ Unmixed(mem[l])
    BY <1>1, <1>9 DEF CInv, Linked
  <2>3. \A i \in 1 .. m : h[i] \in Ctx /\ Used(h[i], l) /\ h[i] # c
    BY <1>3, <2>1, <2>2 DEF Linked
  <2>4. \A d \in Ctx : d # c => (Used(d, l)' <=> Used(d, l))
    BY <1>2 DEF Used
  <2>5. Used(c, l)'
    BY <1>2 DEF Used
  <2>6. CASE mem'[l] = mem[l]
    <3>1. shown'[l] = h /\ Expected(l)' = Expected(l) /\ after'[c] = before'[c]
          /\ before'[c] = mem[l]
      BY <1>6, <1>9, <2>1, <2>6 DEF Expected
    <3>2. \A d \in Ctx : Used(d, l)' =>
            /\ Unmixed(before'[d])
            /\ (\A i \in 1 .. m : h[i] # d) => after'[d] = before'[d]
      BY <1>5, <2>1, <2>2, <2>4, <3>1 DEF Linked
    <3>3. \A i \in 1 .. m :
            /\ Used(h[i], l)'
            /\ Owner(after'[h[i]]) = h[i]
            /\ Owner(before'[h[i]]) = Expected(l)[i + 1]
            /\ ctx'[h[i]].proxy_function_ptr = Expected(l)[i + 1]
      BY <1>2, <1>5, <2>1, <2>2, <2>3, <2>4 DEF Linked
    <3>. QED
      BY <2>1, <2>2, <2>6, <3>1, <3>2, <3>3 DEF Linked
  <2>7. CASE mem'[l] # mem[l]
    <3>1. mem'[l] = Overlay(mem[l], src, n)
      BY <1>1, <2>7 DEF IInv, TypeOK
    <3>2. mem'[l][0] = src[0]
      BY <3>1, ConstantTypes DEF Overlay
    <3>3. Owner(mem'[l]) = c /\ Unmixed(mem'[l])
      BY <1>1, <3>2 DEF Owner, Unmixed
    <3>4. PICK g \in Seq(Ctx) : g = <<c>> \o h
      BY <2>1, Pushed
    <3>5. /\ shown'[l] = g /\ Len(g) = m + 1 /\ g[1] = c
          /\ \A i \in 1 .. m : g[i + 1] = h[i]
      BY <1>6, <1>9, <2>1, <2>7, <3>4, Pushed
    <3>6. /\ \A i \in 1 .. m : Expected(l)[i] = h[i]
          /\ Expected(l)[m + 1] = "body"
      BY <2>1, ThenBody DEF Expected
    <3>7. /\ \A i \in 1 .. m + 1 : Expected(l)'[i] = g[i]
          /\ Expected(l)'[m + 1 + 1] = "body"
      <4>1. Expected(l)' = Append(g, "body")
        BY <3>5 DEF Expected
      <4>. QED
        BY <3>5, <4>1, ThenBody
    <3>8. \A i \in 1 .. m + 1 : Expected(l)'[i + 1] = Expected(l)[i]
      <4>. TAKE i \in 1 .. m + 1
      <4>1. CASE i \in 1 .. m
        <5>1. i + 1 \in 1 .. m + 1
          BY <4>1
        <5>. QED
          BY <3>5, <3>6, <3>7, <4>1, <5>1
      <4>2. CASE i = m + 1
        BY <3>6, <3>7, <4>2
      <4>. QED
        BY <4>1, <4>2
    <3>9. \A i \in 1 .. m + 1 : i = 1 \/ (i - 1 \in 1 .. m /\ g[i] = h[i - 1])
      BY <3>5
    <3>10. before'[c] = mem[l] /\ after'[c] = mem'[l]
      BY <1>6, <1>9
    <3>11. \A d \in Ctx : Used(d, l)' =>
             /\ Unmixed(before'[d])
             /\ (\A i \in 1 .. m + 1 : g[i] # d) => after'[d] = before'[d]
      <4>. SUFFICES ASSUME NEW d \in Ctx, Used(d, l)'
                    PROVE  /\ Unmixed(before'[d])
                           /\ (\A i \in 1 .. m + 1 : g[i] # d) => after'[d] = before'[d]
        OBVIOUS
      <4>1. CASE d = c
        <5>1. 1 \in 1 .. m + 1
          OBVIOUS
        <5>. QED
          BY <2>2, <3>5, <3>10, <4>1, <5>1
      <4>2. CASE d # c
        <5>1. Used(d, l) /\ before'[d] = before[d] /\ after'[d] = after[d]
          BY <1>5, <2>4, <4>2
        <5>2. (\A i \in 1 .. m + 1 : g[i] # d) => \A i \in 1 .. m : h[i] # d
          <6>1. \A i \in 1 .. m : i + 1 \in 1 .. m + 1
            OBVIOUS
          <6>. QED
            BY <3>5, <6>1
        <5>. QED
          BY <2>1, <2>2, <5>1, <5>2 DEF Linked
      <4>. QED
        BY <4>1, <4>2
    <3>12. \A i \in 1 .. m + 1 :
             /\ Used(g[i], l)'
             /\ Owner(after'[g[i]]) = g[i]
             /\ Owner(before'[g[i]]) = Expected(l)'[i + 1]
             /\ ctx'[g[i]].proxy_function_ptr = Expected(l)'[i + 1]
      <4>. TAKE i \in 1 .. m + 1
      <4>1. CASE i = 1
        BY <1>2, <2>2, <2>5, <3>3, <3>5, <3>8, <3>10, <4>1 DEF Linked
      <4>2. CASE i - 1 \in 1 .. m /\ g[i] = h[i - 1]
        <5>1. PICK j \in 1 .. m : j = i - 1 /\ i = j + 1
          BY <4>2
        <5>2. g[i] = h[j] /\ h[j] \in Ctx /\ h[j] # c
          BY <2>3, <4>2, <5>1
        <5>3. /\ Used(h[j], l)
              /\ Owner(after[h[j]]) = h[j]
              /\ Owner(before[h[j]]) = Expected(l)[i]
              /\ ctx[h[j]].proxy_function_ptr = Expected(l)[i]
          BY <2>1, <2>2, <5>1 DEF Linked
        <5>. QED
          BY <1>2, <1>5, <2>4, <3>8, <5>2, <5>3
      <4>. QED
        BY <3>9, <4>1, <4>2
    <3>13. \A i, j \in 1 .. m + 1 : g[i] = g[j] => i = j
      <4>1. \A i, j \in 1 .. m : h[i] = h[j] => i = j
        BY <2>1, <2>2 DEF Linked
      <4>. QED
        BY <2>3, <3>5, <3>9, <4>1
    <3>14. Owner(mem'[l]) = Expected(l)'[1]
      <4>1. 1 \in 1 .. m + 1
        OBVIOUS
      <4>. QED
        BY <3>3, <3>5, <3>7, <4>1
    <3>. QED
      BY <3>3, <3>5, <3>11, <3>12, <3>13, <3>14 DEF Linked
  <2>. QED
    BY <2>6, <2>7
<1>. QED
  BY <1>5, <1>7, <1>8, <1>9 DEF CInv

\* The newest context is unlinked, or was not in the list.
LEMMA LinkedInOrder ==
  ASSUME IInv, OInv, CInv, NEW c \in Ctx, NEW l \in Loc, Release(c, l), RecordInOrder(c, l)
  PROVE  CInv'
<1>1. /\ \A k \in Loc : ~Used(c, k)'
      /\ \A d \in Ctx : d # c => ctx'[d] = ctx[d]
      /\ \A k \in Loc : k # l => mem'[k] = mem[k]
  BY ReleaseFacts DEF Used
<1>2. /\ clean[l] /\ clean' = clean
      /\ \A k \in Loc : k # l => shown'[k] = shown[k]
      /\ shown'[l] = IF shown[l] # <<>> /\ Head(shown[l]) = c THEN Tail(shown[l]) ELSE shown[l]
      /\ \A d \in Ctx : d # c => before'[d] = before[d] /\ after'[d] = after[d]
  BY DEF RecordInOrder, InOrder, CInv, OInv, RecordType
<1>3. \A k \in Loc : Used(c, k) => k = l
  BY DEF Release, Used
<1>4. Used(c, l)
  BY DEF Release, Used
<1>5. mem[l] = after[c] /\ mem'[l] = before[c]
  BY NewestUndone DEF RecordInOrder
<1>6. shown' \in [Loc -> Seq(Ctx)]
  <2>1. shown[l] # <<>> => Tail(shown[l]) \in Seq(Ctx)
    BY Popped DEF CInv
  <2>. QED
    BY <2>1 DEF RecordInOrder, CInv
<1>7. ASSUME NEW k \in Loc, k # l, clean'[k]
      PROVE  Linked(k)'
  <2>1. \A d \in Ctx : Used(d, k)' <=> Used(d, k)
    BY <1>1, <1>3, <1>7 DEF Used
  <2>2. \A d \in Ctx : Used(d, k) => d # c
    BY <1>3, <1>7
  <2>. QED
    BY <1>1, <1>2, <1>7, <2>1, <2>2, LinkedStays DEF CInv
<1>8. PICK h \in Seq(Ctx), m \in Nat : h = shown[l] /\ m = Len(h)
  BY DEF CInv
<1>9. Linked(l)
  BY <1>2 DEF CInv
<1>10. \A d \in Ctx : Used(d, l)' <=> Used(d, l) /\ d # c
  BY <1>1 DEF Used
<1>11. CASE h # <<>> /\ h[1] = c
  <2>1. PICK g \in Seq(Ctx) : g = Tail(h)
    BY <1>11, Popped
  <2>2. /\ shown'[l] = g /\ m # 0 /\ Len(g) = m - 1
        /\ \A i \in 1 .. m - 1 : g[i] = h[i + 1]
    BY <1>2, <1>8, <1>11, <2>1, Popped
  <2>3. /\ \A i \in 1 .. m : Expected(l)[i] = h[i]
        /\ Expected(l)[m + 1] = "body"
    BY <1>8, ThenBody DEF Expected
  <2>4. /\ \A i \in 1 .. m - 1 : Expected(l)'[i] = g[i]
        /\ Expected(l)'[m - 1 + 1] = "body"
    <3>1. Expected(l)' = Append(g, "body")
      BY <2>2 DEF Expected
    <3>. QED
      BY <2>2, <3>1, ThenBody
  <2>5. \A i \in 1 .. m : Expected(l)'[i] = Expected(l)[i + 1]
    <3>. TAKE i \in 1 .. m
    <3>1. CASE i \in 1 .. m - 1
      <4>1. i + 1 \in 1 .. m
        BY <3>1
      <4>. QED
        BY <2>2, <2>3, <2>4, <3>1, <4>1
    <3>2. CASE i = m
      BY <2>3, <2>4, <3>2
    <3>. QED
      BY <3>1, <3>2
  <2>6. /\ 1 \in 1 .. m
        /\ \A i \in 1 .. m - 1 : i + 1 \in 1 .. m /\ i + 1 # 1 /\ h[i + 1] \in Ctx
    BY <1>8, <2>2
  <2>7. \A i, j \in 1 .. m : h[i] = h[j] => i = j
    BY <1>8, <1>9 DEF Linked
  <2>8. \A i \in 1 .. m - 1 : g[i] # c
    BY <1>11, <2>2, <2>6, <2>7
  <2>9. Owner(mem'[l]) = Expected(l)'[1] /\ Unmixed(mem'[l])
    <3>1. Owner(before[c]) = Expected(l)[1 + 1]
      BY <1>8, <1>9, <1>11, <2>6 DEF Linked
    <3>2. Unmixed(before[c])
      BY <1>4, <1>9 DEF Linked
    <3>. QED
      BY <1>5, <2>5, <2>6, <3>1, <3>2
  <2>10. \A d \in Ctx : Used(d, l)' =>
           /\ Unmixed(before'[d])
           /\ (\A i \in 1 .. m - 1 : g[i] # d) => after'[d] = before'[d]
    <3>. SUFFICES ASSUME NEW d \in Ctx, Used(d, l), d # c
                  PROVE  /\ Unmixed(before'[d])
                         /\ (\A i \in 1 .. m - 1 : g[i] # d) => after'[d] = before'[d]
      BY <1>10
    <3>1. before'[d] = before[d] /\ after'[d] = after[d]
      BY <1>2
    <3>2. \A i \in 1 .. m : i = 1 \/ \E j \in 1 .. m - 1 : i = j + 1
      <4>1. \A i \in 1 .. m : i = 1 \/ (i - 1 \in 1 .. m - 1 /\ i = i - 1 + 1)
        OBVIOUS
      <4>. QED
        BY <4>1
    <3>3. (\A i \in 1 .. m - 1 : g[i] # d) => \A i \in 1 .. m : h[i] # d
      BY <1>11, <2>2, <3>2
    <3>. QED
      BY <1>8, <1>9, <3>1, <3>3 DEF Linked
  <2>11. \A i \in 1 .. m - 1 :
           /\ Used(g[i], l)'
           /\ Owner(after'[g[i]]) = g[i]
           /\ Owner(before'[g[i]]) = Expected(l)'[i + 1]
           /\ ctx'[g[i]].proxy_function_ptr = Expected(l)'[i + 1]
    <3>. TAKE i \in 1 .. m - 1
    <3>1. PICK j \in 1 .. m : j = i + 1
      BY <2>6
    <3>2. g[i] = h[j] /\ h[j] \in Ctx /\ h[j] # c
      BY <2>2, <2>6, <2>8, <3>1
    <3>3. /\ Used(h[j], l)
          /\ Owner(after[h[j]]) = h[j]
          /\ Owner(before[h[j]]) = Expected(l)[j + 1]
          /\ ctx[h[j]].proxy_function_ptr = Expected(l)[j + 1]
      BY <1>8, <1>9 DEF Linked
    <3>4. Expected(l)'[j] = Expected(l)[j + 1]
      BY <2>5
    <3>. QED
      BY <1>1, <1>2, <1>10, <3>1, <3>2, <3>3, <3>4
  <2>12. \A i, j \in 1 .. m - 1 : g[i] = g[j] => i = j
    <3>. TAKE i, j \in 1 .. m - 1
    <3>1. g[i] = h[i + 1] /\ g[j] = h[j + 1] /\ i + 1 \in 1 .. m /\ j + 1 \in 1 .. m
      BY <2>2, <2>6
    <3>2. g[i] = g[j] => i + 1 = j + 1
      BY <2>7, <3>1
    <3>. QED
      BY <3>2
  <2>13. Linked(l)'
    BY <2>2, <2>9, <2>10, <2>11, <2>12 DEF Linked
  <2>. QED
    BY <1>2, <1>6, <1>7, <2>13 DEF CInv
<1>12. CASE ~(h # <<>> /\ h[1] = c)
  <2>1. h # <<>> => Head(h) = h[1]
    BY Popped
  <2>2. shown'[l] = h
    BY <1>2, <1>8, <1>12, <2>1
  <2>3. \A i \in 1 .. m : h[i] # c
    <3>. SUFFICES ASSUME NEW i \in 1 .. m, h[i] = c PROVE FALSE
      OBVIOUS
    <3>1. Owner(mem[l]) = c /\ Owner(mem[l]) = Expected(l)[1]
      BY <1>5, <1>8, <1>9 DEF Linked
    <3>2. 1 \in 1 .. m /\ h # <<>>
      BY <1>8
    <3>3. Expected(l)[1] = h[1]
      BY <1>8, <3>2, ThenBody DEF Expected
    <3>. QED
      BY <1>12, <3>1, <3>2, <3>3
  <2>4. after[c] = before[c]
    BY <1>4, <1>8, <1>9, <2>3 DEF Linked
  <2>5. mem'[l] = mem[l]
    BY <1>5, <2>4
  <2>6. Expected(l)' = Expected(l)
    BY <1>8, <2>2 DEF Expected
  <2>7. \A d \in Ctx : Used(d, l)' =>
          /\ Unmixed(before'[d])
          /\ (\A i \in 1 .. m : h[i] # d) => after'[d] = before'[d]
    BY <1>2, <1>8, <1>9, <1>10 DEF Linked
  <2>8. \A i \in 1 .. m :
          /\ Used(h[i], l)'
          /\ Owner(after'[h[i]]) = h[i]
          /\ Owner(before'[h[i]]) = Expected(l)[i + 1]
          /\ ctx'[h[i]].proxy_function_ptr = Expected(l)[i + 1]
    <3>. TAKE i \in 1 .. m
    <3>1. h[i] \in Ctx /\ h[i] # c
      BY <1>8, <2>3
    <3>2. /\ Used(h[i], l)
          /\ Owner(after[h[i]]) = h[i]
          /\ Owner(before[h[i]]) = Expected(l)[i + 1]
          /\ ctx[h[i]].proxy_function_ptr = Expected(l)[i + 1]
      BY <1>8, <1>9 DEF Linked
    <3>. QED
      BY <1>1, <1>2, <1>10, <3>1, <3>2
  <2>9. Linked(l)'
    BY <1>8, <1>9, <2>2, <2>5, <2>6, <2>7, <2>8 DEF Linked
  <2>. QED
    BY <1>2, <1>6, <1>7, <2>9 DEF CInv
<1>. QED
  BY <1>11, <1>12

\* A removal out of order breaks off one location's list and no other.
LEMMA LinkedOutOfOrder ==
  ASSUME IInv, RecordType, CInv, NEW c \in Ctx, NEW l \in Loc, Release(c, l),
         RecordOutOfOrder(c, l)
  PROVE  CInv'
<1>1. /\ \A k \in Loc : ~Used(c, k)'
      /\ \A d \in Ctx : d # c => ctx'[d] = ctx[d]
      /\ \A k \in Loc : k # l => mem'[k] = mem[k]
  BY ReleaseFacts DEF Used
<1>2. /\ ~clean'[l]
      /\ \A k \in Loc : k # l => shown'[k] = shown[k] /\ clean'[k] = clean[k]
      /\ \A d \in Ctx : ~Used(d, l) => before'[d] = before[d] /\ after'[d] = after[d]
  BY DEF RecordOutOfOrder, CInv, RecordType, Used
<1>3. \A d \in Ctx, k \in Loc : Used(d, k) /\ k # l => ~Used(d, l)
  BY DEF Used
<1>4. Used(c, l)
  BY DEF Release, Used
<1>5. shown' \in [Loc -> Seq(Ctx)]
  BY DEF RecordOutOfOrder, CInv
<1>6. ASSUME NEW k \in Loc, clean'[k]
      PROVE  Linked(k)'
  <2>1. k # l /\ Linked(k)
    BY <1>2, <1>6 DEF CInv
  <2>2. \A d \in Ctx : Used(d, k) => d # c
    BY <1>3, <1>4, <2>1
  <2>3. \A d \in Ctx : Used(d, k)' <=> Used(d, k)
    BY <1>1, <2>2 DEF Used
  <2>. QED
    BY <1>1, <1>2, <1>3, <2>1, <2>2, <2>3, LinkedStays DEF CInv
<1>. QED
  BY <1>5, <1>6 DEF CInv

\* Every step keeps the lists.
LEMMA CInductive == IInv /\ IInv' /\ OInv /\ CInv /\ [ONext]_allvars => CInv'
<1>. SUFFICES ASSUME IInv, IInv', OInv, CInv, [ONext]_allvars PROVE CInv'
  OBVIOUS
<1>. RecordType
  BY DEF OInv
<1>. QED
  BY StepCases, LinkedQuiet, LinkedFill, LinkedInOrder, LinkedOutOfOrder

\* Nothing is linked at first.
LEMMA CInitially == OInit => CInv
<1>. SUFFICES ASSUME OInit PROVE CInv
  OBVIOUS
<1>1. shown \in [Loc -> Seq(Ctx)] /\ \A l \in Loc : shown[l] = <<>>
  BY DEF OInit
<1>2. ASSUME NEW l \in Loc PROVE Linked(l)
  <2>1. Len(shown[l]) = 0 /\ Expected(l)[1] = "body"
    BY <1>1 DEF Expected
  <2>2. mem[l] = Pristine /\ Owner(Pristine) = "body"
    BY ConstantTypes DEF OInit, Init, Owner, Pristine, Orig
  <2>3. \A c \in Ctx : ~Used(c, l)
    BY NamesAssumption DEF OInit, Init, Cleared, Used
  <2>. QED
    BY <2>1, <2>2, <2>3 DEF Linked, Unmixed
<1>. QED
  BY <1>1, <1>2 DEF CInv

-----------------------------------------------------------------------------
(* CallChain follows the list.  It is defined by recursion on the number   *)
(* of proxies; that such a function exists, and what it computes, is shown *)
(* by induction on that number.                                            *)

LEMMA NatSetInduction ==
  ASSUME NEW S, 0 \in S, \A n \in Nat : n \in S => n + 1 \in S
  PROVE  Nat \subseteq S
<1>. SUFFICES ASSUME NEW k \in Nat, k \notin S PROVE FALSE
  OBVIOUS
<1>1. PICK x \in Nat \ S : \A y \in Nat \ S : ~ (<<y, x>> \in OpToRel(<,Nat))
  <2>1. Nat \ S \subseteq Nat /\ Nat \ S # {}
    OBVIOUS
  <2>. QED
    BY <2>1, NatLessThanWellFounded, WFMin
<1>2. \A y \in Nat \ S : ~(y < x)
  BY <1>1 DEF OpToRel
<1>3. x - 1 \in Nat /\ x - 1 \notin S
  BY x # 0, x + 0 \in Nat
<1>. QED
  BY <1>2, <1>3

\* One more proxy in front of the runs r.
RunStep(n, r) ==
  [t \in Target \cup {NoCtx} |->
     IF n = 0 \/ t \notin Ctx THEN <<t>> ELSE <<t>> \o r[ctx[t].proxy_function_ptr]]

IsRun(N, run) == run = [n \in 0 .. N |-> RunStep(n, run[n - 1])]

LEMMA RunExists ==
  ASSUME NEW N \in Nat
  PROVE  \E run : IsRun(N, run)
<1>. DEFINE S == {n \in Nat : \E run : IsRun(n, run)}
<1>1. \A x, y : RunStep(0, x) = RunStep(0, y)
  BY DEF RunStep
<1>2. 0 \in S
  <2>. DEFINE f == [n \in 0 .. 0 |-> RunStep(0, 0)]
  <2>1. f = [n \in 0 .. 0 |-> RunStep(n, f[n - 1])]
    <3>. HIDE DEF f
    <3>1. \A n \in 0 .. 0 : RunStep(0, 0) = RunStep(n, f[n - 1])
      BY <1>1
    <3>. QED
      BY <3>1 DEF f
  <2>2. IsRun(0, f)
    BY <2>1 DEF IsRun
  <2>. QED
    BY <2>2
<1>3. ASSUME NEW n \in Nat, n \in S
      PROVE  n + 1 \in S
  <2>1. PICK run : IsRun(n, run)
    BY <1>3
  <2>2. \A i \in 0 .. n : run[i] = RunStep(i, run[i - 1])
    BY <2>1 DEF IsRun
  <2>. DEFINE g == [i \in 0 .. n + 1 |-> IF i = n + 1 THEN RunStep(i, run[n]) ELSE run[i]]
  <2>3. g[n] = run[n] /\ \A i \in 0 .. n : g[i] = run[i]
    OBVIOUS
  <2>4. \A i \in 0 .. n + 1 :
          (IF i = n + 1 THEN RunStep(i, run[n]) ELSE run[i]) = RunStep(i, g[i - 1])
    <3>. HIDE DEF g
    <3>. TAKE i \in 0 .. n + 1
    <3>1. CASE i = n + 1
      BY <2>3, <3>1
    <3>2. CASE i = 0
      BY <1>1, <2>2, <3>2
    <3>3. CASE i \in 1 .. n
      <4>1. i - 1 \in 0 .. n /\ i \in 0 .. n /\ i # n + 1
        BY <3>3
      <4>. QED
        BY <2>2, <2>3, <4>1
    <3>. QED
      BY <3>1, <3>2, <3>3
  <2>5. g = [i \in 0 .. n + 1 |-> RunStep(i, g[i - 1])]
    BY <2>4, Zenon
  <2>6. IsRun(n + 1, g)
    BY <2>5 DEF IsRun
  <2>. QED
    BY <2>6
<1>. HIDE DEF S
<1>4. Nat \subseteq S
  BY <1>2, <1>3, NatSetInduction
<1>. QED
  BY <1>4 DEF S

\* The function CallChain chooses is one.
LEMMA ChainIsRun ==
  ASSUME NEW l \in Loc
  PROVE  \E run : /\ IsRun(Cardinality(Ctx), run)
                  /\ CallChain(l) = run[Cardinality(Ctx)][EntryTarget(mem[l])]
<1>1. Cardinality(Ctx) \in Nat
  BY FiniteAssumption, FS_CardinalityType
<1>. DEFINE chosen == CHOOSE run : IsRun(Cardinality(Ctx), run)
<1>2. IsRun(Cardinality(Ctx), chosen)
  BY <1>1, RunExists
<1>3. CallChain(l) = chosen[Cardinality(Ctx)][EntryTarget(mem[l])]
  BY DEF CallChain, IsRun, RunStep
<1>. QED
  BY <1>2, <1>3

\* A sequence from one position on.
LEMMA Suffixes ==
  ASSUME NEW S, NEW e \in Seq(S), NEW i \in 1 .. Len(e)
  PROVE  /\ SubSeq(e, i, Len(e)) \in Seq(S)
         /\ i = Len(e) => SubSeq(e, i, Len(e)) = <<e[i]>>
         /\ i < Len(e) => SubSeq(e, i, Len(e)) = <<e[i]>> \o SubSeq(e, i + 1, Len(e))
         /\ SubSeq(e, 1, Len(e)) = e
<1>. PICK n \in Nat : n = Len(e)
  OBVIOUS
<1>1. SubSeq(e, 1, n) = e
  <2>1. SubSeq(e, 1, n) \in Seq(S) /\ Len(SubSeq(e, 1, n)) = n
    OBVIOUS
  <2>2. \A j \in 1 .. n : SubSeq(e, 1, n)[j] = e[j]
    OBVIOUS
  <2>. QED
    BY <2>1, <2>2
<1>2. /\ SubSeq(e, i, n) \in Seq(S)
      /\ Len(SubSeq(e, i, n)) = n - i + 1
      /\ \A j \in 1 .. n - i + 1 : SubSeq(e, i, n)[j] = e[j + i - 1]
  OBVIOUS
<1>3. ASSUME i = n PROVE SubSeq(e, i, n) = <<e[i]>>
  <2>1. <<e[i]>> \in Seq(S) /\ Len(<<e[i]>>) = 1 /\ <<e[i]>>[1] = e[i]
    OBVIOUS
  <2>2. PICK r \in Seq(S) : r = SubSeq(e, i, n)
    BY <1>2
  <2>3. Len(r) = 1 /\ r[1] = e[i]
    <3>1. n - i + 1 = 1 /\ 1 + i - 1 = i /\ 1 \in 1 .. n - i + 1
      BY <1>3
    <3>. QED
      BY <1>2, <2>2, <3>1
  <2>4. r = <<e[i]>>
    BY <2>1, <2>3
  <2>. QED
    BY <2>2, <2>4
<1>4. ASSUME i < n PROVE SubSeq(e, i, n) = <<e[i]>> \o SubSeq(e, i + 1, n)
  <2>0. \A j \in i + 1 .. n : e[j] \in S
    OBVIOUS
  <2>8. i + 1 \in Int /\ n \in Int
    OBVIOUS
  <2>1. PICK r \in Seq(S) : r = SubSeq(e, i + 1, n)
    BY <2>0, <2>8, SubSeqProperties
  <2>2. Len(r) = n - i /\ \A j \in 1 .. n - i : r[j] = e[j + i]
    BY <1>4, <2>1
  <2>3. e[i] \in S
    OBVIOUS
  <2>4. PICK q \in Seq(S) : q = <<e[i]>> \o r
    BY <2>1, <2>3, Pushed
  <2>5. Len(q) = n - i + 1 /\ q[1] = e[i] /\ \A j \in 1 .. n - i : q[j + 1] = e[j + i]
    BY <2>1, <2>2, <2>3, <2>4, Pushed
  <2>6. \A j \in 1 .. n - i + 1 : q[j] = SubSeq(e, i, n)[j]
    <3>. TAKE j \in 1 .. n - i + 1
    <3>1. CASE j = 1
      BY <1>2, <2>5, <3>1
    <3>2. CASE j # 1
      <4>1. j - 1 \in 1 .. n - i /\ j - 1 + 1 = j /\ j - 1 + i = j + i - 1
        BY <3>2
      <4>. QED
        BY <1>2, <2>5, <4>1
    <3>. QED
      BY <3>1, <3>2
  <2>7. q = SubSeq(e, i, n)
    <3>1. Len(q) = Len(SubSeq(e, i, n)) /\ \A j \in 1 .. Len(q) : q[j] = SubSeq(e, i, n)[j]
      BY <1>2, <2>5, <2>6
    <3>. QED
      BY <1>2, <3>1, Identical
  <2>. QED
    BY <2>1, <2>4, <2>7
<1>. QED
  BY <1>1, <1>2, <1>3, <1>4

\* A list of contexts without repetition is no longer than there are contexts.
LEMMA ListFits ==
  ASSUME NEW h \in Seq(Ctx), \A i, j \in 1 .. Len(h) : h[i] = h[j] => i = j
  PROVE  Len(h) <= Cardinality(Ctx)
<1>1. IsFiniteSet(1 .. Len(h)) /\ Cardinality(1 .. Len(h)) = Len(h)
  <2>1. PICK m \in Nat : m = Len(h)
    OBVIOUS
  <2>2. IsFiniteSet(1 .. m) /\ Cardinality(1 .. m) = IF 1 > m THEN 0 ELSE m - 1 + 1
    BY FS_Interval
  <2>. QED
    BY <2>1, <2>2
<1>2. Cardinality(Ctx) \in Nat /\ IsFiniteSet(Ctx)
  BY FiniteAssumption, FS_CardinalityType
<1>3. [i \in 1 .. Len(h) |-> h[i]] \in [1 .. Len(h) -> Ctx]
  OBVIOUS
<1>4. ASSUME Cardinality(Ctx) < Len(h) PROVE FALSE
  <2>1. PICK i, j \in 1 .. Len(h) : i # j /\ h[i] = h[j]
    BY <1>1, <1>2, <1>3, <1>4, FS_PigeonHole
  <2>. QED
    BY <2>1
<1>. QED
  BY <1>2, <1>4

\* A call of a linked location runs its list.
LEMMA ListIsCalled ==
  ASSUME IInv, shown \in [Loc -> Seq(Ctx)], NEW l \in Loc, Linked(l)
  PROVE  CallChain(l) = Expected(l)
<1>1. PICK h \in Seq(Ctx), m \in Nat : h = shown[l] /\ m = Len(h)
  OBVIOUS
<1>2. PICK N \in Nat : N = Cardinality(Ctx) /\ m <= N
  <2>1. Cardinality(Ctx) \in Nat
    BY FiniteAssumption, FS_CardinalityType
  <2>2. \A i, j \in 1 .. m : h[i] = h[j] => i = j
    BY <1>1 DEF Linked
  <2>. QED
    BY <1>1, <2>1, <2>2, ListFits
<1>3. PICK run : /\ IsRun(N, run)
                 /\ CallChain(l) = run[N][EntryTarget(mem[l])]
  BY <1>2, ChainIsRun
<1>. DEFINE TT == Target \cup {NoCtx}
<1>4. PICK e \in Seq(TT) : e = Expected(l)
  <2>1. h \in Seq(TT) /\ "body" \in TT
    BY DEF Target
  <2>. HIDE DEF TT
  <2>2. Append(h, "body") \in Seq(TT)
    BY <2>1
  <2>. QED
    BY <1>1, <2>2 DEF Expected
<1>5. /\ \A i \in 1 .. m : e[i] = h[i] /\ e[i] \in Ctx
      /\ e[m + 1] = "body" /\ Len(e) = m + 1
      /\ \A i \in 1 .. m + 1 : e[i] \in TT
  <2>1. /\ \A i \in 1 .. m : e[i] = h[i]
        /\ e[m + 1] = "body" /\ Len(e) = m + 1
    BY <1>1, <1>4, ThenBody DEF Expected
  <2>. QED
    BY <1>1, <2>1
<1>6. "body" \notin Ctx
  BY NamesAssumption
<1>7. \A i \in 1 .. m : ctx[e[i]].proxy_function_ptr = e[i + 1]
  BY <1>1, <1>4, <1>5 DEF Linked
<1>8. \A n \in 0 .. N : run[n] = RunStep(n, run[n - 1])
  BY <1>3 DEF IsRun
<1>. DEFINE Rest(i) == SubSeq(e, i, Len(e))
            P(n) == \A i \in 1 .. m + 1 : n <= N /\ m + 1 - i <= n => run[n][e[i]] = Rest(i)
            S == {n \in Nat : P(n)}
<1>9. Rest(m + 1) = <<"body">> /\ Rest(1) = e
  <2>1. m + 1 \in 1 .. Len(e)
    BY <1>5
  <2>. HIDE DEF TT
  <2>2. SubSeq(e, m + 1, Len(e)) = <<e[m + 1]>> /\ SubSeq(e, 1, Len(e)) = e
    BY <1>5, <2>1, Suffixes
  <2>. QED
    BY <1>5, <2>2
<1>10. \A i \in 1 .. m : Rest(i) = <<e[i]>> \o Rest(i + 1)
  <2>. TAKE i \in 1 .. m
  <2>1. i \in 1 .. Len(e) /\ i < Len(e)
    BY <1>5
  <2>. QED
    BY <2>1, Suffixes
<1>. HIDE DEF Rest
<1>11. 0 \in S
  <2>1. run[0] = RunStep(0, run[0 - 1])
    BY <1>8
  <2>2. "body" \in TT /\ run[0]["body"] = <<"body">>
    BY <2>1 DEF RunStep, Target
  <2>3. \A i \in 1 .. m + 1 : m + 1 - i <= 0 => i = m + 1
    OBVIOUS
  <2>. QED
    BY <1>5, <1>9, <2>2, <2>3
<1>12. ASSUME NEW n \in Nat, n \in S
       PROVE  n + 1 \in S
  <2>. SUFFICES ASSUME NEW i \in 1 .. m + 1, n + 1 <= N, m + 1 - i <= n + 1
                PROVE  run[n + 1][e[i]] = Rest(i)
    BY SMTT(20)
  <2>1. run[n + 1] = RunStep(n + 1, run[n])
    <3>1. n + 1 \in 0 .. N /\ n + 1 - 1 = n
      OBVIOUS
    <3>. QED
      BY <1>8, <3>1
  <2>2. e[i] \in TT
    BY <1>5
  <2>3. run[n + 1][e[i]] = IF e[i] \notin Ctx THEN <<e[i]>>
                           ELSE <<e[i]>> \o run[n][ctx[e[i]].proxy_function_ptr]
    BY <2>1, <2>2 DEF RunStep
  <2>4. CASE i = m + 1
    BY <1>5, <1>6, <1>9, <2>3, <2>4
  <2>5. CASE i \in 1 .. m
    <3>1. e[i] \in Ctx /\ ctx[e[i]].proxy_function_ptr = e[i + 1]
      BY <1>5, <1>7, <2>5
    <3>2. run[n][e[i + 1]] = Rest(i + 1)
      <4>1. i + 1 \in 1 .. m + 1 /\ n <= N /\ m + 1 - (i + 1) <= n
        BY <2>5
      <4>. QED
        BY <1>12, <4>1
    <3>. QED
      BY <1>10, <2>3, <2>5, <3>1, <3>2
  <2>. QED
    BY <2>4, <2>5
<1>. HIDE DEF S
<1>13. N \in S
  BY <1>11, <1>12, NatSetInduction
<1>14. run[N][e[1]] = e
  <2>1. 1 \in 1 .. m + 1 /\ N <= N /\ m + 1 - 1 <= N
    BY <1>2
  <2>. QED
    BY <1>9, <1>13, <2>1 DEF S
<1>15. EntryTarget(mem[l]) = e[1]
  BY <1>4, TargetIsOwner DEF Linked
<1>. QED
  BY <1>3, <1>4, <1>14, <1>15

\* While removals are newest first, every call of a location runs the contexts
\* whose jump was written there, the newest first, and then the original body,
\* for any number of contexts (hooklib.h 53).
THEOREM CallsReachOriginal == OSpec => []CallReachesOriginal
<1>1. IInv /\ CInv => CallReachesOriginal
  BY ListIsCalled DEF CInv, CallReachesOriginal
<1>. QED
  BY <1>1, OInitially, CInitially, OInductive, CInductive, OTyped, PTL DEF OSpec

-----------------------------------------------------------------------------
(* The stack of hooks.  In every state the chain a caller meets is the     *)
(* list, so the steps of the list are the steps of HookStack.              *)

\* A new front, or the loss of the front, leaves the end where it is.
LEMMA FrontAndEnd ==
  ASSUME NEW S, NEW h \in Seq(S), NEW c \in S, NEW b \in S
  PROVE  /\ Append(<<c>> \o h, b) = <<c>> \o Append(h, b)
         /\ Head(Append(<<c>> \o h, b)) = c
         /\ h # <<>> => /\ Append(Tail(h), b) = Tail(Append(h, b))
                         /\ Len(Append(h, b)) > 1
<1>1. Append(h, b) \in Seq(S) /\ <<c>> \o h \in Seq(S) /\ Len(h) \in Nat
  BY Pushed
<1>2. PICK p \in Seq(S) : p = Append(<<c>> \o h, b)
  <2>1. Append(<<c>> \o h, b) \in Seq(S)
    BY <1>1, AppendProperties
  <2>. QED
    BY <2>1
<1>3. PICK q \in Seq(S) : q = <<c>> \o Append(h, b)
  BY <1>1, Pushed
<1>4. PICK n \in Nat : n = Len(h)
  OBVIOUS
<1>5. /\ Len(p) = n + 2 /\ p[1] = c /\ p[n + 2] = b
      /\ \A i \in 1 .. n : p[i + 1] = h[i]
  <2>1. PICK g \in Seq(S) : g = <<c>> \o h
    BY <1>1
  <2>2. Len(g) = n + 1 /\ g[1] = c /\ \A i \in 1 .. n : g[i + 1] = h[i]
    BY <1>4, <2>1, Pushed
  <2>3. Len(p) = n + 2 /\ p[n + 2] = b /\ \A i \in 1 .. n + 1 : p[i] = g[i]
    BY <1>2, <2>1, <2>2, ThenBody
  <2>. QED
    BY <2>2, <2>3
<1>6. /\ Len(q) = n + 2 /\ q[1] = c /\ q[n + 2] = b
      /\ \A i \in 1 .. n : q[i + 1] = h[i]
  <2>1. PICK g \in Seq(S) : g = Append(h, b)
    BY <1>1
  <2>2. Len(g) = n + 1 /\ g[n + 1] = b /\ \A i \in 1 .. n : g[i] = h[i]
    BY <1>4, <2>1, ThenBody
  <2>3. Len(q) = n + 2 /\ q[1] = c /\ \A i \in 1 .. n + 1 : q[i + 1] = g[i]
    BY <1>3, <2>1, <2>2, Pushed
  <2>. QED
    BY <2>2, <2>3
<1>7. p = q
  <2>1. \A i \in 1 .. n + 2 : i = 1 \/ i = n + 2 \/ (i - 1 \in 1 .. n /\ i = i - 1 + 1)
    OBVIOUS
  <2>2. \A i \in 1 .. n + 2 : p[i] = q[i]
    BY <1>5, <1>6, <2>1
  <2>. QED
    BY <1>5, <1>6, <2>2, SeqEqual
<1>8. ASSUME h # <<>>
      PROVE  Append(Tail(h), b) = Tail(Append(h, b)) /\ Len(Append(h, b)) > 1
  <2>1. PICK g \in Seq(S) : g = Tail(h)
    BY <1>8, Popped
  <2>2. n # 0 /\ Len(g) = n - 1 /\ \A i \in 1 .. n - 1 : g[i] = h[i + 1]
    BY <1>4, <1>8, <2>1, Popped
  <2>3. PICK r \in Seq(S) : r = Append(g, b)
    <3>1. Append(g, b) \in Seq(S)
      BY AppendProperties
    <3>. QED
      BY <3>1
  <2>4. Len(r) = n /\ r[n] = b /\ \A i \in 1 .. n - 1 : r[i] = h[i + 1]
    BY <2>1, <2>2, <2>3, ThenBody
  <2>5. PICK e \in Seq(S) : e = Append(h, b)
    BY <1>1
  <2>6. Len(e) = n + 1 /\ e[n + 1] = b /\ \A i \in 1 .. n : e[i] = h[i]
    BY <1>4, <2>5, ThenBody
  <2>7. e # <<>>
    BY <2>2, <2>6
  <2>8. PICK t \in Seq(S) : t = Tail(e)
    BY <2>7, Popped
  <2>9. Len(t) = n /\ \A i \in 1 .. n : t[i] = e[i + 1]
    BY <2>6, <2>7, <2>8, Popped
  <2>10. \A i \in 1 .. n : r[i] = t[i]
    <3>. TAKE i \in 1 .. n
    <3>1. CASE i = n
      BY <2>4, <2>6, <2>9, <3>1
    <3>2. CASE i # n
      <4>1. i \in 1 .. n - 1 /\ i + 1 \in 1 .. n
        BY <3>2
      <4>. QED
        BY <2>4, <2>6, <2>9, <4>1
    <3>. QED
      BY <3>1, <3>2
  <2>11. r = t
    BY <2>4, <2>9, <2>10, SeqEqual
  <2>. QED
    BY <2>1, <2>2, <2>3, <2>5, <2>6, <2>8, <2>11
<1>. QED
  BY <1>1, <1>2, <1>3, <1>5, <1>7, <1>8, SMTT(30)

DInv == IInv /\ OInv /\ CInv /\ \A l \in Loc : clean[l]

Chains == [l \in Loc |-> CallChain(l)]

ChainsListed == \A l \in Loc : Chains[l] = Append(shown[l], "body")

LEMMA ChainsAreLists == DInv => ChainsListed
BY ListIsCalled DEF DInv, CInv, Chains, Expected, ChainsListed

LEMMA ChainsAreListsNext == DInv' => ChainsListed'
BY ChainsAreLists, PTL

\* What a context that is not in use is hooked to.
LEMMA UnusedNotHooked ==
  ASSUME DInv, NEW c \in Ctx, \A l \in Loc : ~Used(c, l)
  PROVE  ~Promise!Hooked(c)
<1>1. SUFFICES ASSUME NEW l \in Loc, NEW i \in DOMAIN Chains[l], Chains[l][i] = c
               PROVE  FALSE
  BY DEF Promise!Hooked, Chains
<1>2. PICK h \in Seq(Ctx), n \in Nat : h = shown[l] /\ n = Len(h)
  BY DEF DInv, CInv
<1>3. Chains[l] = Append(h, "body")
  BY <1>2, ChainsAreLists DEF ChainsListed
<1>4. i \in 1 .. n + 1
  <2>1. Append(h, "body") \in Seq(Ctx \cup {"body"}) /\ Len(Append(h, "body")) = n + 1
    BY <1>2
  <2>. QED
    BY <1>1, <1>3, <2>1
<1>5. CASE i \in 1 .. n
  <2>1. h[i] = c
    BY <1>1, <1>2, <1>3, <1>5, ThenBody
  <2>2. Used(h[i], l)
    BY <1>2, <1>5 DEF DInv, CInv, Linked
  <2>. QED
    BY <2>1, <2>2
<1>6. CASE i = n + 1
  <2>1. c = "body"
    BY <1>1, <1>2, <1>3, <1>6, ThenBody
  <2>. QED
    BY <2>1, NamesAssumption
<1>. QED
  BY <1>4, <1>5, <1>6

\* A chain that did not change.
LEMMA SameLists ==
  ASSUME DInv, DInv', shown' = shown
  PROVE  Chains' = Chains
<1>1. \A l \in Loc : Chains[l] = Append(shown[l], "body")
  BY ChainsAreLists DEF ChainsListed
<1>2. \A l \in Loc : Chains'[l] = Append(shown'[l], "body")
  BY ChainsAreListsNext DEF ChainsListed
<1>. QED
  BY <1>1, <1>2 DEF Chains

\* A context linked in front of a list is a push.
LEMMA FillPushes ==
  ASSUME DInv, DInv', NEW c \in Ctx, NEW l \in Loc, Fill(c, l), RecordInstall(c, l)
  PROVE  Promise!Install(c, l) \/ Chains' = Chains
<1>1. shown' = [shown EXCEPT ![l] = <<c>> \o @] \/ shown' = shown
  BY DEF RecordInstall, DInv, CInv
<1>2. CASE shown' = [shown EXCEPT ![l] = <<c>> \o @]
  <2>1. \A k \in Loc : ~Used(c, k)
    BY NamesAssumption DEF Fill, DInv, IInv, TypeOK, Used
  <2>2. ~Promise!Hooked(c)
    BY <2>1, UnusedNotHooked
  <2>. DEFINE S == Ctx \cup {"body"}
  <2>3. shown[l] \in Seq(S) /\ c \in S /\ "body" \in S
    BY DEF DInv, CInv
  <2>4. /\ Append(<<c>> \o shown[l], "body") = <<c>> \o Append(shown[l], "body")
        /\ Head(Append(<<c>> \o shown[l], "body")) = c
    BY <2>3, FrontAndEnd
  <2>5. \A k \in Loc : shown'[k] = IF k = l THEN <<c>> \o shown[l] ELSE shown[k]
    BY <1>2 DEF DInv, CInv
  <2>6. \A k \in Loc : Chains[k] = Append(shown[k], "body")
    BY ChainsAreLists DEF ChainsListed
  <2>7. \A k \in Loc : Chains'[k] = Append(shown'[k], "body")
    BY ChainsAreListsNext DEF ChainsListed
  <2>8. Chains'[l] = <<c>> \o Chains[l] /\ Head(Chains'[l]) = c
    BY <2>4, <2>5, <2>6, <2>7
  <2>9. \A k \in Loc : k # l => Chains'[k] = Chains[k]
    BY <2>5, <2>6, <2>7
  <2>10. Chains' = [Chains EXCEPT ![l] = <<c>> \o @]
    BY <2>8, <2>9 DEF Chains
  <2>. QED
    BY <2>2, <2>8, <2>10 DEF Promise!Install, Chains
<1>. QED
  BY <1>1, <1>2, SameLists

\* The newest context unlinked is a pop.
LEMMA InOrderPops ==
  ASSUME DInv, DInv', NEW c \in Ctx, NEW l \in Loc, RecordInOrder(c, l)
  PROVE  Promise!Remove(l) \/ Chains' = Chains
<1>1. \/ shown[l] # <<>> /\ shown' = [shown EXCEPT ![l] = Tail(@)]
      \/ shown' = shown
  BY DEF RecordInOrder, DInv, CInv
<1>2. CASE shown[l] # <<>> /\ shown' = [shown EXCEPT ![l] = Tail(@)]
  <2>1. /\ Append(Tail(shown[l]), "body") = Tail(Append(shown[l], "body"))
        /\ Len(Append(shown[l], "body")) > 1
    <3>. DEFINE S == Ctx \cup {"body"}
    <3>1. shown[l] \in Seq(S) /\ c \in S /\ "body" \in S
      BY DEF DInv, CInv
    <3>. QED
      BY <1>2, <3>1, FrontAndEnd
  <2>2. \A k \in Loc : shown'[k] = IF k = l THEN Tail(shown[l]) ELSE shown[k]
    BY <1>2 DEF DInv, CInv
  <2>3. \A k \in Loc : Chains[k] = Append(shown[k], "body")
    BY ChainsAreLists DEF ChainsListed
  <2>4. \A k \in Loc : Chains'[k] = Append(shown'[k], "body")
    BY ChainsAreListsNext DEF ChainsListed
  <2>5. Chains'[l] = Tail(Chains[l]) /\ Len(Chains[l]) > 1
    BY <2>1, <2>2, <2>3, <2>4
  <2>6. \A k \in Loc : k # l => Chains'[k] = Chains[k]
    BY <2>2, <2>3, <2>4
  <2>7. Chains' = [Chains EXCEPT ![l] = Tail(@)]
    BY <2>5, <2>6 DEF Chains
  <2>. QED
    BY <2>5, <2>7 DEF Promise!Remove, Chains
<1>. QED
  BY <1>1, <1>2, SameLists

\* Used newest first, the contexts of the library are a stack per location, for
\* any number of contexts, locations and failing writes: each call pushes one
\* replacement function, pops the newest, or changes no caller's path.
THEOREM ContextsAreStacks == DisciplinedSpec => IsHookStack
<1>1. OInit => DInv
  BY Initially, OInitially, CInitially DEF OInit, DInv
<1>2. DInv /\ [DNext]_allvars => DInv'
  <2>. SUFFICES ASSUME DInv, [DNext]_allvars PROVE DInv'
    OBVIOUS
  <2>1. [ONext]_allvars /\ clean' = clean
    BY DEF DNext, allvars
  <2>2. IInv'
    BY <2>1, Inductive DEF DInv, ONext, allvars
  <2>. QED
    BY <2>1, <2>2, OInductive, CInductive DEF DInv
<1>3. OInit => Promise!Init
  <2>. SUFFICES ASSUME OInit PROVE Promise!Init
    OBVIOUS
  <2>1. \A l \in Loc : Chains[l] = Append(shown[l], "body")
    BY <1>1, ChainsAreLists DEF ChainsListed
  <2>2. \A l \in Loc : shown[l] = <<>>
    BY DEF OInit
  <2>3. Append(<<>>, "body") = <<"body">>
    OBVIOUS
  <2>. QED
    BY <2>1, <2>2, <2>3 DEF Promise!Init, Chains
<1>4. DInv /\ DInv' /\ [DNext]_allvars => [Promise!Next]_Chains
  <2>. SUFFICES ASSUME DInv, DInv', [DNext]_allvars PROVE Promise!Next \/ Chains' = Chains
    OBVIOUS
  <2>1. [ONext]_allvars /\ clean' = clean
    BY DEF DNext, allvars
  <2>2. CASE Quiet /\ RecordNothing
    BY <2>2, SameLists DEF RecordNothing
  <2>3. ASSUME NEW c \in Ctx, NEW l \in Loc, Fill(c, l), RecordInstall(c, l)
        PROVE  Promise!Next \/ Chains' = Chains
    BY <2>3, FillPushes DEF Promise!Next
  <2>4. ASSUME NEW c \in Ctx, NEW l \in Loc, RecordInOrder(c, l)
        PROVE  Promise!Next \/ Chains' = Chains
    BY <2>4, InOrderPops DEF Promise!Next
  <2>5. ASSUME NEW c \in Ctx, NEW l \in Loc, RecordOutOfOrder(c, l)
        PROVE  FALSE
    BY <2>1, <2>5 DEF RecordOutOfOrder, DInv, OInv, RecordType
  <2>6. IInv /\ IInv'
    BY DEF DInv
  <2>. QED
    BY <2>1, <2>2, <2>3, <2>4, <2>5, <2>6, StepCases
<1>. QED
  BY <1>1, <1>2, <1>3, <1>4, PTL DEF DisciplinedSpec, IsHookStack, Promise!Spec, Chains

=============================================================================
