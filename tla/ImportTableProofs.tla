------------------------- MODULE ImportTableProofs -------------------------
(***************************************************************************)
(* The search for an import slot, for every image, every set of modules    *)
(* and functions and any number of contexts, installed and removed in any  *)
(* order.                                                                  *)
(*                                                                         *)
(* A slot holds what the loader put there or a replacement function, and   *)
(* so does what a context saved of it: no order of removals brings the     *)
(* address of one import into the slot of another.  So an address that is  *)
(* found in a slot says what the slot imports.                             *)
(***************************************************************************)
EXTENDS ImportTable, FiniteSetTheorems, WellFoundedInduction, TLAPS

IsSlot(d, i) == d \in Descriptors /\ i \in DOMAIN Thunks(d)

\* What may be in slot i of descriptor d, and in the contexts that hook it.
MayHold(d, i) == Ctx \cup {Imported(image, d, i)}

Slots ==
  /\ image \in Images
  /\ DOMAIN slot = Descriptors
  /\ \A d \in Descriptors : DOMAIN slot[d] = DOMAIN Thunks(d)
  /\ \A d, i : IsSlot(d, i) => slot[d][i] \in MayHold(d, i)

\* A context in use hooks a slot of the function it was installed for, in the
\* descriptor the search looks at.
Hooks(c) ==
  LET d == ctx[c].at[1]
      i == ctx[c].at[2]
  IN /\ ctx[c].at = <<d, i>> /\ IsSlot(d, i)
     /\ ctx[c].saved \in MayHold(d, i)
     /\ d = port_lookup_import_dscriptor(ctx[c].m)
     /\ Imported(image, d, i) = Address[ctx[c].m][ctx[c].f]

SlotInv ==
  /\ Slots
  /\ DOMAIN ctx = Ctx
  /\ \A c \in Ctx : ctx[c].live => Hooks(c)

-----------------------------------------------------------------------------
\* A set of positions that is not empty has a first one.
LEMMA FirstOf ==
  ASSUME NEW S, S \subseteq Nat \ {0}
  PROVE  /\ First(S) \in S \cup {0}
         /\ First(S) = 0 <=> S = {}
<1>1. CASE S = {}
  BY <1>1 DEF First
<1>2. CASE S # {}
  <2>1. PICK x \in S : \A y \in S : ~ (<<y, x>> \in OpToRel(<, Nat))
    <3>1. S \subseteq Nat /\ S # {}
      BY <1>2
    <3>. QED
      BY <3>1, NatLessThanWellFounded, WFMin
  <2>2. \A y \in S : x =< y
    <3>1. \A y \in S : x \in Nat /\ y \in Nat /\ ~(y < x)
      BY <2>1 DEF OpToRel
    <3>. QED
      BY <3>1
  <2>3. Min(S) \in S
    BY <2>2 DEF Min
  <2>. QED
    BY <1>2, <2>3 DEF First
<1>. QED
  BY <1>1, <1>2

\* The parts of an image.
LEMMA ImageParts ==
  ASSUME Slots
  PROVE  /\ image.covered \in Nat /\ image.covered <= Len(image.descriptors)
         /\ Len(image.descriptors) \in Nat
         /\ Descriptors = 1 .. Len(image.descriptors)
         /\ \A d \in Descriptors :
              /\ image.descriptors[d].name \in Module
              /\ image.descriptors[d].OriginalFirstThunk \in BOOLEAN
              /\ Len(Thunks(d)) \in Nat
              /\ DOMAIN Thunks(d) = 1 .. Len(Thunks(d))
              /\ \A i \in DOMAIN Thunks(d) : Thunks(d)[i] \in ThunkRecord
<1>1. /\ image \in [valid : BOOLEAN, covered : Nat, descriptors : Seq(DescriptorRecord)]
      /\ image.covered <= Len(image.descriptors)
  BY ImportAssumption DEF Slots
<1>2. image.covered \in Nat /\ image.descriptors \in Seq(DescriptorRecord)
  BY <1>1
<1>3. Len(image.descriptors) \in Nat /\ Descriptors = 1 .. Len(image.descriptors)
  BY <1>2 DEF Descriptors
<1>4. ASSUME NEW d \in Descriptors
      PROVE  /\ image.descriptors[d].name \in Module
             /\ image.descriptors[d].OriginalFirstThunk \in BOOLEAN
             /\ Thunks(d) \in Seq(ThunkRecord)
  <2>1. image.descriptors[d] \in DescriptorRecord
    BY <1>2, <1>3
  <2>. QED
    BY <2>1 DEF DescriptorRecord, Thunks
<1>5. ASSUME NEW d \in Descriptors
      PROVE  /\ Len(Thunks(d)) \in Nat
             /\ DOMAIN Thunks(d) = 1 .. Len(Thunks(d))
             /\ \A i \in DOMAIN Thunks(d) : Thunks(d)[i] \in ThunkRecord
  BY <1>4
<1>. QED
  BY <1>1, <1>2, <1>3, <1>4, <1>5

\* An image that stays is searched as before.
LEMMA ImageStays ==
  ASSUME image' = image
  PROVE  /\ Descriptors' = Descriptors
         /\ \A d : Thunks(d)' = Thunks(d)
         /\ \A d, i : (IsSlot(d, i)' <=> IsSlot(d, i)) /\ MayHold(d, i)' = MayHold(d, i)
         /\ \A d, i : Imported(image, d, i)' = Imported(image, d, i)
         /\ \A m : port_lookup_import_dscriptor(m)' = port_lookup_import_dscriptor(m)
BY DEF IsSlot, Descriptors, Thunks, MayHold, Imported, port_lookup_import_dscriptor

\* The descriptor that is searched is one of that module, or there is none.
LEMMA DescriptorFound ==
  ASSUME Slots, NEW m, port_lookup_import_dscriptor(m) # 0
  PROVE  LET d == port_lookup_import_dscriptor(m)
         IN d \in Descriptors /\ image.descriptors[d].name = m
<1>. DEFINE S == {d \in 1 .. image.covered : image.descriptors[d].name = m}
<1>1. S \subseteq Nat \ {0}
  BY ImageParts
<1>2. port_lookup_import_dscriptor(m) \in S
  BY <1>1, FirstOf DEF port_lookup_import_dscriptor
<1>3. S \subseteq Descriptors
  BY ImageParts
<1>. QED
  BY <1>2, <1>3

\* A slot that holds an export of the module imports it.
LEMMA HoldsImport ==
  ASSUME Slots, NEW d, NEW i, IsSlot(d, i), NEW m \in Module, NEW f \in Name,
         slot[d][i] = Address[m][f]
  PROVE  Imported(image, d, i) = Address[m][f]
BY ImportAssumption DEF Slots, MayHold

\* The walk over the slots of a descriptor meets no null pointer in them.
LEMMA NoSlotNull ==
  ASSUME Slots, NEW d \in Descriptors, NEW i \in DOMAIN slot[d]
  PROVE  \A j \in 1 .. i : slot[d][j] # "null"
<1>1. DOMAIN slot[d] = DOMAIN Thunks(d) /\ image \in Images
  BY DEF Slots
<1>2. ASSUME NEW j \in 1 .. i PROVE slot[d][j] # "null"
  <2>1. j \in DOMAIN Thunks(d)
    BY <1>1, ImageParts
  <2>2. slot[d][j] \in MayHold(d, j)
    BY <2>1 DEF Slots, IsSlot
  <2>3. Imported(image, d, j) # "null"
    BY <1>1, <2>1, LoaderAssumption DEF Thunks, Descriptors
  <2>. QED
    BY <2>2, <2>3, ImportAssumption DEF MayHold
<1>. QED
  BY <1>2

\* Where the search ends in a descriptor of module m.
LEMMA SearchedSlot ==
  ASSUME Slots, NEW m \in Module, NEW f \in Name, NEW d \in Descriptors,
         image.descriptors[d].name = m
  PROVE  /\ Found(d, m, f) # 0 => /\ IsSlot(d, Found(d, m, f))
                                  /\ Imported(image, d, Found(d, m, f)) = Address[m][f]
         /\ \A i \in DOMAIN Thunks(d) :
              /\ Address[m][f] # "null"
              /\ \/ slot[d][i] = Address[m][f]
                 \/ image.descriptors[d].OriginalFirstThunk /\ ThunkMatches(d, i, m, f)
              => Found(d, m, f) # 0
<1>. DEFINE N == {i \in DOMAIN Thunks(d) : ThunkMatches(d, i, m, f)}
            A == {i \in DOMAIN slot[d] : /\ slot[d][i] = Address[m][f]
                                         /\ \A j \in 1 .. i : slot[d][j] # "null"}
<1>1. DOMAIN slot[d] = DOMAIN Thunks(d)
  BY DEF Slots
<1>0. ASSUME NEW i \in DOMAIN slot[d], slot[d][i] = Address[m][f] PROVE i \in A
  BY <1>0, <1>1, NoSlotNull
<1>2. N \subseteq Nat \ {0} /\ A \subseteq Nat \ {0}
  BY <1>1, ImageParts
<1>3. \A i \in N : Imported(image, d, i) = Address[m][f]
  <2>1. ASSUME NEW i \in N PROVE Imported(image, d, i) = Address[m][f]
    <3>1. IsSlot(d, i) /\ Thunks(d)[i] \in ThunkRecord
      BY <2>1, ImageParts DEF IsSlot
    <3>2. Thunks(d)[i].by = "name" \/ Thunks(d)[i].by = "ordinal"
      BY <3>1 DEF ThunkRecord
    <3>3. CASE Thunks(d)[i].by = "ordinal"
      <4>1. slot[d][i] = Address[m][f]
        BY <2>1, <3>3 DEF ThunkMatches
      <4>. QED
        BY <3>1, <4>1, HoldsImport
    <3>4. CASE Thunks(d)[i].by = "name"
      <4>1. Thunks(d)[i].fn = f
        BY <2>1, <3>4 DEF ThunkMatches
      <4>. QED
        BY <4>1 DEF Imported, Thunks
    <3>. QED
      BY <3>2, <3>3, <3>4
  <2>. QED
    BY <2>1
<1>4. \A i \in A : IsSlot(d, i) /\ Imported(image, d, i) = Address[m][f]
  BY <1>1, HoldsImport DEF IsSlot
<1>5. \A i \in N : IsSlot(d, i)
  BY DEF IsSlot
<1>6. /\ port_lookup_import_thunk(d, m, f) \in N \cup {0}
      /\ LookupAddress(d, m, f) \in A \cup {0}
      /\ Address[m][f] # "null" =>
           /\ port_lookup_import_thunk(d, m, f) = 0 => N = {}
           /\ LookupAddress(d, m, f) = 0 => A = {}
  <2>1. First(N) \in N \cup {0} /\ (First(N) = 0 <=> N = {})
    BY <1>2, FirstOf
  <2>2. First(A) \in A \cup {0} /\ (First(A) = 0 <=> A = {})
    BY <1>2, FirstOf
  <2>. QED
    BY <2>1, <2>2 DEF port_lookup_import_thunk, LookupAddress
<1>7. 0 \notin N /\ 0 \notin A
  BY <1>2
<1>8. /\ Found(d, m, f) \in N \cup A \cup {0}
      /\ Address[m][f] # "null" /\ Found(d, m, f) = 0 =>
           /\ A = {}
           /\ image.descriptors[d].OriginalFirstThunk => N = {}
  BY <1>6, <1>7 DEF Found
<1>9. Found(d, m, f) # 0 => /\ IsSlot(d, Found(d, m, f))
                            /\ Imported(image, d, Found(d, m, f)) = Address[m][f]
  BY <1>3, <1>4, <1>5, <1>8
<1>10. ASSUME NEW i \in DOMAIN Thunks(d), Address[m][f] # "null",
              \/ slot[d][i] = Address[m][f]
              \/ image.descriptors[d].OriginalFirstThunk /\ ThunkMatches(d, i, m, f)
       PROVE  Found(d, m, f) # 0
  BY <1>0, <1>1, <1>8, <1>10
<1>. QED
  BY <1>9, <1>10

\* What the search returns.
LEMMA SlotReturned ==
  ASSUME Slots, NEW m \in Module, NEW f \in Name, port_get_import_slot(m, f) # NoSlot
  PROVE  \E i : LET d == port_lookup_import_dscriptor(m)
                IN /\ port_get_import_slot(m, f) = <<d, i>>
                   /\ IsSlot(d, i)
                   /\ Imported(image, d, i) = Address[m][f]
<1>. DEFINE d == port_lookup_import_dscriptor(m)
<1>1. d # 0 /\ Found(d, m, f) # 0 /\ port_get_import_slot(m, f) = <<d, Found(d, m, f)>>
  BY DEF port_get_import_slot
<1>2. d \in Descriptors /\ image.descriptors[d].name = m
  BY <1>1, DescriptorFound
<1>3. IsSlot(d, Found(d, m, f)) /\ Imported(image, d, Found(d, m, f)) = Address[m][f]
  BY <1>1, <1>2, SearchedSlot
<1>. QED
  BY <1>1, <1>3

-----------------------------------------------------------------------------
\* Writing what a slot may hold to it keeps the slots.
LEMMA SlotsKept ==
  ASSUME Slots, NEW d, NEW i, IsSlot(d, i), NEW v \in MayHold(d, i),
         image' = image, slot' = slot \/ slot' = [slot EXCEPT ![d] = [slot[d] EXCEPT ![i] = v]]
  PROVE  Slots'
<1>1. CASE slot' = slot
  BY <1>1, ImageStays DEF Slots
<1>2. CASE slot' = [slot EXCEPT ![d] = [slot[d] EXCEPT ![i] = v]]
  <2>1. d \in DOMAIN slot /\ i \in DOMAIN slot[d]
    BY DEF Slots, IsSlot
  <2>2. /\ DOMAIN slot' = DOMAIN slot
        /\ \A e \in DOMAIN slot : DOMAIN slot'[e] = DOMAIN slot[e]
    BY <1>2, <2>1
  <2>3. \A e \in DOMAIN slot : \A j \in DOMAIN slot[e] :
          slot'[e][j] = slot[e][j] \/ (e = d /\ j = i /\ slot'[e][j] = v)
    BY <1>2, <2>1
  <2>4. \A e, j : IsSlot(e, j) => slot'[e][j] \in MayHold(e, j)
    BY <2>3 DEF Slots, IsSlot
  <2>. QED
    BY <2>2, <2>4, ImageStays DEF Slots
<1>. QED
  BY <1>1, <1>2

\* The image stays, and with it what the contexts hook.
LEMMA HooksKept ==
  ASSUME NEW c, Hooks(c), image' = image, ctx'[c] = ctx[c]
  PROVE  Hooks(c)'
BY ImageStays DEF Hooks

\* An install hooks the slot the search returns and saves what it holds.
LEMMA InstallStep ==
  ASSUME SlotInv, NEW c \in Ctx, NEW m \in Module, NEW f \in Name, NEW w,
         HookInstallImport(c, m, f, w)
  PROVE  SlotInv'
<1>1. PICK d, i : /\ port_get_import_slot(m, f) = <<d, i>> /\ IsSlot(d, i)
                  /\ d = port_lookup_import_dscriptor(m)
                  /\ Imported(image, d, i) = Address[m][f]
  BY SlotReturned DEF SlotInv, HookInstallImport
<1>2. /\ ctx' = [ctx EXCEPT ![c] = [live |-> TRUE, m |-> m, f |-> f, at |-> <<d, i>>, saved |-> slot[d][i]]]
      /\ slot' = slot \/ slot' = [slot EXCEPT ![d] = [slot[d] EXCEPT ![i] = c]]
      /\ image' = image
  BY <1>1 DEF HookInstallImport
<1>3. Slots'
  <2>1. c \in MayHold(d, i)
    BY DEF MayHold
  <2>. QED
    BY <1>1, <1>2, <2>1, SlotsKept DEF SlotInv
<1>4. \A e \in Ctx : e # c => ctx'[e] = ctx[e]
  BY <1>2 DEF SlotInv
<1>5. ctx'[c] = [live |-> TRUE, m |-> m, f |-> f, at |-> <<d, i>>, saved |-> slot[d][i]]
  BY <1>2 DEF SlotInv
<1>6. Hooks(c)'
  <2>1. slot[d][i] \in MayHold(d, i)
    BY <1>1 DEF SlotInv, Slots
  <2>2. /\ IsSlot(d, i)' /\ slot[d][i] \in MayHold(d, i)'
        /\ d = port_lookup_import_dscriptor(m)'
        /\ Imported(image, d, i)' = Address[m][f]
    BY <1>1, <1>2, <2>1, ImageStays
  <2>3. /\ ctx'[c].at = <<d, i>> /\ ctx'[c].at[1] = d /\ ctx'[c].at[2] = i
        /\ ctx'[c].m = m /\ ctx'[c].f = f /\ ctx'[c].saved = slot[d][i]
    BY <1>5
  <2>. QED
    BY <2>2, <2>3 DEF Hooks
<1>7. \A e \in Ctx : ctx'[e].live => Hooks(e)'
  BY <1>2, <1>4, <1>6, HooksKept DEF SlotInv
<1>. QED
  BY <1>2, <1>3, <1>7 DEF SlotInv

\* A removal puts what was saved of a slot into that slot.
LEMMA UninstallStep ==
  ASSUME SlotInv, NEW c \in Ctx, NEW w, HookUninstall(c, w)
  PROVE  SlotInv'
<1>1. PICK d, i : ctx[c].at = <<d, i>> /\ IsSlot(d, i) /\ ctx[c].saved \in MayHold(d, i)
  BY DEF SlotInv, HookUninstall, Hooks
<1>2. /\ ctx' = [ctx EXCEPT ![c] = Unused]
      /\ slot' = slot \/ slot' = [slot EXCEPT ![d] = [slot[d] EXCEPT ![i] = ctx[c].saved]]
      /\ image' = image
  BY <1>1 DEF HookUninstall
<1>3. Slots'
  BY <1>1, <1>2, SlotsKept DEF SlotInv
<1>4. \A e \in Ctx : e # c => ctx'[e] = ctx[e]
  BY <1>2 DEF SlotInv
<1>5. ~ctx'[c].live
  BY <1>2 DEF SlotInv, Unused
<1>6. \A e \in Ctx : ctx'[e].live => Hooks(e)'
  BY <1>2, <1>4, <1>5, HooksKept DEF SlotInv
<1>. QED
  BY <1>2, <1>3, <1>6 DEF SlotInv

\* What the loader leaves.
LEMMA LoaderSlots == Init => SlotInv
<1>. SUFFICES ASSUME Init PROVE SlotInv
  OBVIOUS
<1>1. image \in Images /\ DOMAIN ctx = Ctx /\ \A c \in Ctx : ~ctx[c].live
  BY DEF Init, Unused
<1>2. /\ DOMAIN slot = Descriptors
      /\ \A d \in Descriptors : DOMAIN slot[d] = DOMAIN Thunks(d)
      /\ \A d \in Descriptors : \A i \in DOMAIN Thunks(d) : slot[d][i] = Imported(image, d, i)
  BY DEF Init, Descriptors, Thunks
<1>. QED
  BY <1>1, <1>2 DEF SlotInv, Slots, MayHold, IsSlot

\* No install or removal, denied or not, breaks the invariant.
LEMMA SlotsInductive == Spec => []SlotInv
<1>1. Init => SlotInv
  BY LoaderSlots
<1>2. ASSUME SlotInv, [Next]_vars PROVE SlotInv'
  <2>1. CASE vars' = vars
    <3>1. image' = image /\ slot' = slot /\ ctx' = ctx
      BY <2>1 DEF vars
    <3>. QED
      BY <1>2, <3>1, HooksKept, ImageStays DEF SlotInv, Slots
  <2>2. CASE Next
    BY <1>2, <2>2, InstallStep, UninstallStep DEF Next
  <2>. QED
    BY <1>2, <2>1, <2>2
<1>. QED
  BY <1>1, <1>2, PTL DEF Spec

-----------------------------------------------------------------------------
\* For every image and any number of contexts, the variables keep their types
\* (port_win32.c 99-193, hooklib.c 361-379).
THEOREM ImportTypes == Spec => []TypeOK
<1>1. SlotInv => TypeOK
  BY DEF SlotInv, Slots, Hooks, IsSlot, TypeOK
<1>. QED
  BY <1>1, SlotsInductive, PTL

\* Whatever was hooked and removed, in any order, a slot the search returns is
\* one into which the loader put the function asked for (port_win32.c 116-193).
THEOREM SearchIsRight == Spec => []SlotImportsFunction
<1>1. ASSUME SlotInv PROVE SlotImportsFunction
  <2>1. ASSUME NEW m \in Module, NEW f \in Name, port_get_import_slot(m, f) # NoSlot
        PROVE  LET s == port_get_import_slot(m, f) IN Imported(image, s[1], s[2]) = Address[m][f]
    <3>1. PICK d, i : port_get_import_slot(m, f) = <<d, i>> /\ Imported(image, d, i) = Address[m][f]
      BY <1>1, <2>1, SlotReturned DEF SlotInv
    <3>. QED
      BY <3>1
  <2>. QED
    BY <2>1 DEF SlotImportsFunction
<1>. QED
  BY <1>1, SlotsInductive, PTL

\* An import that has kept its name, or its address, is found in the first
\* descriptor of its module, whatever else is hooked (port_win32.c 106-190).
THEOREM SearchIsComplete == Spec => []ImportsAreFound
<1>1. ASSUME SlotInv PROVE ImportsAreFound
  <2>1. ASSUME NEW m \in Module, NEW f \in Name, NEW d \in Descriptors, NEW i \in DOMAIN Thunks(d),
               image.valid, port_lookup_import_dscriptor(m) = d, Address[m][f] # "null",
               \/ slot[d][i] = Address[m][f]
               \/ image.descriptors[d].OriginalFirstThunk /\ Thunks(d)[i] = [by |-> "name", fn |-> f]
        PROVE  port_get_import_slot(m, f) # NoSlot
    <3>1. d # 0 /\ d \in Nat
      BY <1>1, ImageParts DEF SlotInv
    <3>2. image.descriptors[d].name = m
      BY <1>1, <2>1, <3>1, DescriptorFound DEF SlotInv
    <3>3. Thunks(d)[i] = [by |-> "name", fn |-> f] => ThunkMatches(d, i, m, f)
      BY DEF ThunkMatches
    <3>4. Found(d, m, f) # 0
      BY <1>1, <2>1, <3>2, <3>3, SearchedSlot DEF SlotInv
    <3>5. port_get_import_slot(m, f) = <<d, Found(d, m, f)>>
      BY <2>1, <3>1, <3>4 DEF port_get_import_slot
    <3>. QED
      BY <3>1, <3>5 DEF NoSlot
  <2>. QED
    BY <2>1 DEF ImportsAreFound
<1>. QED
  BY <1>1, SlotsInductive, PTL

\* Contexts that hook a function the image imports once hook the same slot, in
\* whatever order they came (port_win32.c 132-146, 182-190).
THEOREM ContextsShareSlots == Spec => []SameImportSameSlot
<1>1. ASSUME SlotInv PROVE SameImportSameSlot
  <2>1. ASSUME NEW c \in Ctx, NEW e \in Ctx, ctx[c].live, ctx[e].live,
               ctx[c].m = ctx[e].m, ctx[c].f = ctx[e].f,
               Cardinality({i \in DOMAIN Thunks(ctx[c].at[1]) :
                              Imported(image, ctx[c].at[1], i) = Address[ctx[c].m][ctx[c].f]}) = 1
        PROVE  ctx[e].at = ctx[c].at
    <3>1. Hooks(c) /\ Hooks(e)
      BY <1>1, <2>1 DEF SlotInv
    <3>2. PICK d, i, j : /\ ctx[c].at = <<d, i>> /\ ctx[e].at = <<d, j>>
                         /\ IsSlot(d, i) /\ IsSlot(d, j)
                         /\ Imported(image, d, i) = Address[ctx[c].m][ctx[c].f]
                         /\ Imported(image, d, j) = Address[ctx[c].m][ctx[c].f]
      <4>. DEFINE d == ctx[c].at[1]
      <4>1. ctx[e].at[1] = d
        BY <2>1, <3>1 DEF Hooks
      <4>2. /\ ctx[c].at = <<d, ctx[c].at[2]>> /\ IsSlot(d, ctx[c].at[2])
            /\ Imported(image, d, ctx[c].at[2]) = Address[ctx[c].m][ctx[c].f]
        BY <3>1 DEF Hooks
      <4>3. /\ ctx[e].at = <<d, ctx[e].at[2]>> /\ IsSlot(d, ctx[e].at[2])
            /\ Imported(image, d, ctx[e].at[2]) = Address[ctx[c].m][ctx[c].f]
        BY <2>1, <3>1, <4>1 DEF Hooks
      <4>. QED
        BY <4>2, <4>3, Zenon
    <3>. DEFINE S == {k \in DOMAIN Thunks(d) : Imported(image, d, k) = Address[ctx[c].m][ctx[c].f]}
    <3>3. Cardinality(S) = 1
      BY <2>1, <3>2
    <3>4. IsFiniteSet(S)
      <4>1. Len(Thunks(d)) \in Nat /\ DOMAIN Thunks(d) = 1 .. Len(Thunks(d))
        BY <1>1, <3>2, ImageParts DEF SlotInv, IsSlot
      <4>2. IsFiniteSet(1 .. Len(Thunks(d)))
        BY <4>1, FS_Interval
      <4>. QED
        BY <4>1, <4>2, FS_Subset
    <3>5. PICK x : S = {x}
      BY <3>3, <3>4, FS_Singleton
    <3>6. i \in S /\ j \in S
      BY <3>2 DEF IsSlot
    <3>. QED
      BY <3>2, <3>5, <3>6
  <2>. QED
    BY <2>1 DEF SameImportSameSlot
<1>. QED
  BY <1>1, SlotsInductive, PTL

=============================================================================
