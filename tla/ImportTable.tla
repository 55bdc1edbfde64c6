---------------------------- MODULE ImportTable ----------------------------
(***************************************************************************)
(* The search for an import slot (port_win32.c 99-193) and the hooks that  *)
(* change what it looks at (hooklib.c 361-379, 421-433).  A module imports *)
(* functions by name or by ordinal; the loader has put their addresses in  *)
(* slots.  The search knows names only: ordinals, and images that did not  *)
(* keep the names, it recognises by the addresses in the slots, which      *)
(* hooks overwrite.                                                        *)
(***************************************************************************)
EXTENDS Naturals, Sequences, FiniteSets, FiniteSetsExt

CONSTANTS
  Ctx,      \* hook contexts
  Images,   \* images: [valid, covered, descriptors]; a descriptor is [name,
            \* OriginalFirstThunk, thunks], a thunk [by, fn]
  Module,   \* modules that may be imported from
  Name,     \* names of functions
  Address   \* Address[m][f]: GetProcAddress, "null" if m exports no f

ThunkRecord == [by : {"name", "ordinal"}, fn : Name]
DescriptorRecord == [name : Module, OriginalFirstThunk : BOOLEAN, thunks : Seq(ThunkRecord)]

\* The slots hold addresses of exports; a replacement function is none of them.
ASSUME ImportAssumption ==
  /\ Address \in [Module -> [Name -> STRING]]
  /\ \A m \in Module, f \in Name : Address[m][f] \notin Ctx
  /\ "null" \notin Ctx
  /\ Images \subseteq [valid : BOOLEAN, covered : Nat, descriptors : Seq(DescriptorRecord)]
  /\ \A g \in Images : g.covered <= Len(g.descriptors)

VARIABLES
  image, \* the image whose imports are hooked
  slot,  \* slot[d][i]: the pointer in slot i of descriptor d
  ctx    \* ctx[c]: what was asked for, the slot, the pointer found in it

vars == <<image, slot, ctx>>

\* A cleared context, with the flag left.
Used == [live |-> TRUE, m |-> "null", f |-> "null", at |-> <<0, 0>>, saved |-> "null"]
Unused == [live |-> FALSE, m |-> "null", f |-> "null", at |-> <<0, 0>>, saved |-> "null"]
NoSlot == <<0, 0>>

Descriptors == DOMAIN image.descriptors
Thunks(d) == image.descriptors[d].thunks

\* What the loader put into a slot.
Imported(g, d, i) == Address[g.descriptors[d].name][g.descriptors[d].thunks[i].fn]

\* An image one of whose imports does not exist is not loaded.
ASSUME LoaderAssumption ==
  \A g \in Images : \A d \in DOMAIN g.descriptors : \A i \in DOMAIN g.descriptors[d].thunks :
     Imported(g, d, i) # "null"

Init ==
  /\ image \in Images
  /\ slot = [d \in DOMAIN image.descriptors |->
               [i \in DOMAIN image.descriptors[d].thunks |-> Imported(image, d, i)]]
  /\ ctx = [c \in Ctx |-> Unused]

-----------------------------------------------------------------------------
First(S) == IF S = {} THEN 0 ELSE Min(S)

\* The first descriptor of that name inside the directory.
port_lookup_import_dscriptor(m) ==
  First({d \in 1 .. image.covered : image.descriptors[d].name = m})

\* A hooked slot is taken for the one asked for.
ThunkMatchesHooked(d, i, m, f) ==
  IF Thunks(d)[i].by = "ordinal" THEN slot[d][i] \in Ctx \cup {Address[m][f]} ELSE Thunks(d)[i].fn = f
\* An ordinal has no name to compare: its slot is compared with the address.
ThunkMatches(d, i, m, f) ==
  CASE Thunks(d)[i].by = "ordinal" -> slot[d][i] = Address[m][f]
    [] Thunks(d)[i].by = "name" -> Thunks(d)[i].fn = f

port_lookup_import_thunk(d, m, f) ==
  IF Address[m][f] = "null" THEN 0
  ELSE First({i \in DOMAIN Thunks(d) : ThunkMatches(d, i, m, f)})

\* Without the names, or when they did not help: the addresses in the slots, up
\* to the first slot that is null.
LookupAddress(d, m, f) ==
  IF Address[m][f] = "null" THEN 0
  ELSE First({i \in DOMAIN slot[d] : /\ slot[d][i] = Address[m][f]
                                     /\ \A j \in 1 .. i : slot[d][j] # "null"})

\* The names are looked for only.
FoundNamesOnly(d, m, f) == port_lookup_import_thunk(d, m, f)
\* Where the search ends in descriptor d.
Found(d, m, f) ==
  LET named == IF image.descriptors[d].OriginalFirstThunk
                 THEN port_lookup_import_thunk(d, m, f) ELSE 0
  IN IF named # 0 THEN named ELSE LookupAddress(d, m, f)

port_get_import_slot(m, f) ==
  LET d == port_lookup_import_dscriptor(m) IN
  IF ~image.valid \/ d = 0 THEN NoSlot
  ELSE IF Found(d, m, f) = 0 THEN NoSlot ELSE <<d, Found(d, m, f)>>

\* The new pointer is written; the old one is kept, even if the page could not
\* be made writable and nothing was written.
HookInstallImport(c, m, f, w) ==
  LET s == port_get_import_slot(m, f) IN
  /\ ~ctx[c].live
  /\ s # NoSlot
  /\ ctx' = [ctx EXCEPT ![c] = [live |-> TRUE, m |-> m, f |-> f, at |-> s, saved |-> slot[s[1]][s[2]]]]
  /\ slot' = IF w = "denied" THEN slot ELSE [slot EXCEPT ![s[1]][s[2]] = c]
  /\ UNCHANGED image

HookUninstall(c, w) ==
  LET s == ctx[c].at IN
  /\ ctx[c].live
  /\ slot' = IF w = "denied" THEN slot ELSE [slot EXCEPT ![s[1]][s[2]] = ctx[c].saved]
  /\ ctx' = [ctx EXCEPT ![c] = Unused]
  /\ UNCHANGED image

Next ==
  \E c \in Ctx, w \in {"ok", "denied"} :
    \/ \E m \in Module, f \in Name : HookInstallImport(c, m, f, w)
    \/ HookUninstall(c, w)

Spec == Init /\ [][Next]_vars

-----------------------------------------------------------------------------
\* Every variable has the type of the data it stands for.
TypeOK ==
  /\ image \in Images
  /\ DOMAIN slot = Descriptors
  /\ \A d \in Descriptors : DOMAIN slot[d] = DOMAIN Thunks(d)
  /\ \A c \in Ctx : ctx[c].live => ctx[c].at[1] \in Descriptors

\* Whatever has been hooked and removed before, in any order, the slot the
\* search returns is one into which the loader put the function asked for: the
\* address at the other end of an ordinal, or under another name, is compared,
\* and no replacement function can be taken for it (port_win32.c 116-193).
SlotImportsFunction ==
  \A m \in Module, f \in Name :
     LET s == port_get_import_slot(m, f) IN
     s # NoSlot => Imported(image, s[1], s[2]) = Address[m][f]

\* An import is found unless it is hidden: by another descriptor of the same
\* module in front of its own, behind the directory's size, or by a hook in a
\* slot that has no name to be recognised by (port_win32.c 106-112, 132-190).
ImportsAreFound ==
  \A m \in Module, f \in Name, d \in Descriptors :
     (image.valid /\ port_lookup_import_dscriptor(m) = d /\ Address[m][f] # "null") =>
       ((\E i \in DOMAIN Thunks(d) :
           /\ Imported(image, d, i) = Address[m][f]
           /\ \/ slot[d][i] = Address[m][f]
              \/ image.descriptors[d].OriginalFirstThunk /\ Thunks(d)[i] = [by |-> "name", fn |-> f])
        => port_get_import_slot(m, f) # NoSlot)

\* Contexts that hook the same function of an image that imports it once share
\* its slot, so that they stack; the second of an import by ordinal is refused
\* while the first is there (port_win32.c 132-146, 182-190).
SameImportSameSlot ==
  \A c, e \in Ctx :
     LET d == ctx[c].at[1] IN
     (/\ ctx[c].live /\ ctx[e].live
      /\ ctx[c].m = ctx[e].m /\ ctx[c].f = ctx[e].f
      /\ Cardinality({i \in DOMAIN Thunks(d) : Imported(image, d, i) = Address[ctx[c].m][ctx[c].f]}) = 1)
     => ctx[e].at = ctx[c].at

=============================================================================
