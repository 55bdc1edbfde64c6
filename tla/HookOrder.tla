----------------------------- MODULE HookOrder -----------------------------
(***************************************************************************)
(* HookContext with a record of the order of its calls: which contexts are *)
(* installed at a location, oldest first, the image each of them found and *)
(* the image it left, and whose jump was written.  The record is only for  *)
(* stating properties: what the code guarantees depends on the order in    *)
(* which contexts are removed, and the code does not look at it.           *)
(***************************************************************************)
EXTENDS HookContext, Sequences

\* Contexts are objects in the memory of one process.
ASSUME FiniteAssumption == IsFiniteSet(Ctx)

VARIABLES
  stack,   \* stack[l]: contexts in use at l, oldest first
  before,  \* before[c]: the image c found when it was installed
  after,   \* after[c]: the image c left
  shown,   \* shown[l]: those of stack[l] whose jump was written, newest first
  clean    \* clean[l]: so far every removal at l was of the newest context
           \* and did write the saved bytes back

allvars == <<vars, stack, before, after, shown, clean>>

OInit ==
  /\ Init
  /\ stack = [l \in Loc |-> <<>>]
  /\ before = [c \in Ctx |-> Pristine]
  /\ after = [c \in Ctx |-> Pristine]
  /\ shown = [l \in Loc |-> <<>>]
  /\ clean = [l \in Loc |-> TRUE]

Newest(c, l) == stack[l] # <<>> /\ stack[l][Len(stack[l])] = c

Installed(c) == ~Live(c) /\ Live(c)'
Removed(c) == Live(c) /\ ~Live(c)'

\* A removal is in order when it is of the newest context and is not denied.
InOrder(c, l) ==
  /\ clean[l]
  /\ Newest(c, l)
  /\ mem'[l] = Overlay(mem[l], ctx[c].orginal_code, ctx[c].orginal_code_size)

RecordInstall(c, l) ==
  /\ Installed(c)
  /\ stack' = [stack EXCEPT ![l] = IF clean[l] THEN Append(@, c) ELSE <<>>]
  /\ before' = [before EXCEPT ![c] = IF clean[l] THEN mem[l] ELSE Pristine]
  /\ after' = [after EXCEPT ![c] = IF clean[l] THEN mem'[l] ELSE Pristine]
  /\ shown' = [shown EXCEPT ![l] = IF clean[l] /\ mem'[l] # mem[l] THEN <<c>> \o @ ELSE @]
  /\ UNCHANGED clean

RecordInOrder(c, l) ==
  /\ InOrder(c, l)
  /\ stack' = [stack EXCEPT ![l] = SubSeq(@, 1, Len(@) - 1)]
  /\ before' = [before EXCEPT ![c] = Pristine]
  /\ after' = [after EXCEPT ![c] = Pristine]
  /\ shown' = [shown EXCEPT ![l] = IF @ # <<>> /\ Head(@) = c THEN Tail(@) ELSE @]
  /\ UNCHANGED clean

RecordOutOfOrder(c, l) ==
  /\ ~InOrder(c, l)
  /\ stack' = [stack EXCEPT ![l] = <<>>]
  /\ shown' = [shown EXCEPT ![l] = <<>>]
  /\ clean' = [clean EXCEPT ![l] = FALSE]
  /\ before' = [d \in Ctx |-> IF ctx[d].orginal_function_ptr = l
                                THEN Pristine ELSE before[d]]
  /\ after' = [d \in Ctx |-> IF ctx[d].orginal_function_ptr = l
                               THEN Pristine ELSE after[d]]

RecordRemoval(c, l) ==
  /\ Removed(c)
  /\ RecordInOrder(c, l) \/ RecordOutOfOrder(c, l)

RecordNothing ==
  /\ \A c \in Ctx : ~Installed(c) /\ ~Removed(c)
  /\ UNCHANGED <<stack, before, after, shown, clean>>

Record ==
  \/ \E c \in Ctx : RecordInstall(c, ctx'[c].orginal_function_ptr)
  \/ \E c \in Ctx : RecordRemoval(c, ctx[c].orginal_function_ptr)
  \/ RecordNothing

ONext == Next /\ Record

OSpec == OInit /\ [][ONext]_allvars

\* The contexts are used the way the sample program does: removed newest first.
DNext == ONext /\ UNCHANGED clean
DisciplinedSpec == OInit /\ [][DNext]_allvars

-----------------------------------------------------------------------------
\* Once no context is in use at a location where contexts were removed newest
\* first, its bytes are the original ones: what hook_install saved is what
\* hook_uninstall needs, also where hooks were stacked, where an install was
\* refused or its write denied (hooklib.c 354, 374, 414, 428).
RestoredWhenReleased ==
  \A l \in Loc :
    (clean[l] /\ \A c \in Ctx : ctx[c].orginal_function_ptr # l) => mem[l] = Pristine

\* Who runs when l is called: the entry, then proxy after proxy.
CallChain(l) ==
  LET run[n \in 0 .. Cardinality(Ctx)] ==
        [t \in Target \cup {NoCtx} |->
           IF n = 0 \/ t \notin Ctx
             THEN <<t>>
             ELSE <<t>> \o run[n - 1][ctx[t].proxy_function_ptr]]
  IN run[Cardinality(Ctx)][EntryTarget(mem[l])]

\* The contexts at l whose jump was written, newest first, then the body.
Expected(l) == Append(shown[l], "body")

\* While all removals are newest first, calling a location runs every
\* replacement function whose jump was written there, the newest first, and
\* then the original body, whichever jump forms lie on top of each other
\* (hooklib.h 53: the proxy performs the original function).
CallReachesOriginal ==
  (\A l \in Loc : clean[l]) => \A l \in Loc : CallChain(l) = Expected(l)

Promise == INSTANCE HookStack WITH chain <- [l \in Loc |-> CallChain(l)]

\* Used with that discipline, the contexts are a stack per location: every call
\* pushes one replacement function, pops the newest, or changes nothing that a
\* caller of a location could tell.
IsHookStack == Promise!Spec

=============================================================================
