--------------------------- MODULE WinsockProofs ---------------------------
(***************************************************************************)
(* What the program that hooks Winsock can rely on, for any number of      *)
(* threads, providers and times its modules are loaded and freed.          *)
(*                                                                         *)
(* The replacement of an extension function works because a thread that is *)
(* about to hand it out knows that the context's pointer is set, and what  *)
(* is set is replaced only by another provider's pointer.  Hooks stay      *)
(* because a module that is held is not unmapped, and a context remembers  *)
(* which mapping it hooked: an older one is never taken for the present.   *)
(***************************************************************************)
EXTENDS WinsockProgram, SequenceTheorems, TLAPS

ProxyInv == proxy \in [Extension -> Original \cup {NoPtr}]
            /\ \A x \in Extension : proxy[x] \in For(x) \cup {NoPtr}

\* What a thread inside myWSAIoctl knows.
CallInv ==
  /\ call \in [Thread -> [pc : {"idle", "pending", "steer", "set", "hand"},
                          x : Extension \cup {NoPtr}, out : Original \cup {NoPtr}]]
  /\ \A t \in Thread :
       /\ call[t].pc # "idle" => call[t].x \in Extension /\ call[t].out \in Answers(call[t].x)
       /\ call[t].pc \in {"set", "hand"} => call[t].x \in Proxied
       /\ call[t].pc = "set" => call[t].out \in For(call[t].x)
       /\ (call[t].pc = "hand" /\ call[t].out # NoPtr) => proxy[call[t].x] \in For(call[t].x)

GotInv ==
  /\ got \in [Thread -> [x : Extension \cup {NoPtr},
                         code : Original \cup {NoPtr} \cup {My(x) : x \in Extension},
                         how : {"none", "direct", "hooked", "empty"}]]
  /\ \A t \in Thread :
       /\ got[t].code = My(got[t].x) => got[t].x \in Proxied
       /\ (got[t].how = "hooked" /\ got[t].x \in Proxied)
            => got[t].code = My(got[t].x) /\ proxy[got[t].x] \in For(got[t].x)

PointerInv == ProxyInv /\ CallInv /\ GotInv

MapType ==
  /\ installer \in 0 .. Len(Steps)
  /\ ours \subseteq Module /\ theirs \subseteq Module /\ jumps \subseteq Function
  /\ base \in [Module -> 0 .. MaxLoads] /\ bridge \in [Module -> 0 .. MaxLoads]
  /\ context \in [Function -> [state : {"unused", "used", "unwritten"}, at : 0 .. MaxLoads]]

\* What is known of a function's hook.
HookInv(f) ==
  /\ context[f].at <= base[ModuleOf[f]]
  /\ (context[f].state = "used" /\ ModuleOf[f] = "ws2_32") => "ws2_32" \in ours /\ f \in jumps
  /\ (context[f].state = "used" /\ ModuleOf[f] \in ours /\ context[f].at = base[ModuleOf[f]])
       => f \in jumps

\* WSAStartup comes first.
MapInv ==
  /\ MapType
  /\ installer > 1 => "ws2_32" \in ours
  /\ \A f \in Function : HookInv(f)

IInv == MapInv /\ PointerInv

-----------------------------------------------------------------------------
\* The first step, and no other, is WSAStartup.
LEMMA StepsList ==
  /\ Len(Steps) \in Nat /\ DOMAIN Steps = 1 .. Len(Steps)
  /\ 1 \in DOMAIN Steps /\ Steps[1].op = "startup"
<1>. DEFINE R == [op : {"prepare", "hook"}, m : Module, f : Function \cup {NoPtr}]
            prepares == [i \in DOMAIN Modules |-> [op |-> "prepare", m |-> Modules[i], f |-> NoPtr]]
            hooks == [i \in DOMAIN Hooks |-> [op |-> "hook", m |-> Hooks[i][1], f |-> Hooks[i][2]]]
            first == [op |-> "startup", m |-> "ws2_32", f |-> NoPtr]
<1>1. Modules \in Seq(Module) /\ Hooks \in Seq(Module \X Function)
  BY TablesAssumption
<1>. HIDE DEF Module, Function, Modules, Hooks
<1>2. prepares \in Seq(R)
  <2>1. prepares \in [1 .. Len(Modules) -> R] /\ Len(Modules) \in Nat
    BY <1>1
  <2>. QED
    BY <2>1, SeqDef
<1>3. hooks \in Seq(R)
  <2>1. \A i \in 1 .. Len(Hooks) : Hooks[i][1] \in Module /\ Hooks[i][2] \in Function
    BY <1>1
  <2>2. hooks \in [1 .. Len(Hooks) -> R] /\ Len(Hooks) \in Nat
    BY <1>1, <2>1
  <2>. QED
    BY <2>2, SeqDef
<1>4. PrepareAndHook \in Seq(R)
  BY <1>2, <1>3 DEF PrepareAndHook
<1>5. Steps = <<first>> \o PrepareAndHook
  BY DEF Steps
<1>6. <<first>> \in Seq({first}) /\ Len(<<first>>) = 1 /\ <<first>>[1] = first
  OBVIOUS
<1>. HIDE DEF R, first
<1>7. Len(PrepareAndHook) \in Nat
  BY <1>4
<1>8. /\ Len(Steps) = 1 + Len(PrepareAndHook)
      /\ DOMAIN Steps = 1 .. Len(Steps)
      /\ Steps[1] = first
  BY <1>4, <1>5, <1>6, <1>7
<1>9. first.op = "startup"
  BY DEF first
<1>. QED
  BY <1>7, <1>8, <1>9

\* Preparing and hooking come later.
LEMMA LaterSteps ==
  ASSUME MapType, NEW op, NEW m, NEW f, Step(op, m, f)
  PROVE  /\ installer \in 1 .. Len(Steps)
         /\ op # "startup" => installer > 1
<1>1. installer \in DOMAIN Steps /\ Steps[installer].op = op
  BY DEF Step
<1>. QED
  BY <1>1, StepsList

\* Going on stays inside the list.
LEMMA GoOnType ==
  ASSUME installer \in 1 .. Len(Steps), GoOn
  PROVE  installer' \in 0 .. Len(Steps) /\ (installer' > 1 => installer >= 1)
<1>. PICK n \in Nat : n = Len(Steps)
  BY StepsList
<1>1. installer \in 1 .. n /\ installer' = IF installer = n THEN 0 ELSE installer + 1
  BY DEF GoOn
<1>2. installer' \in 0 .. n
  BY <1>1
<1>. QED
  BY <1>1, <1>2

\* Asking for modules maps each of them that was not mapped once more.
LEMMA BaseStep ==
  ASSUME MapType, NEW m \in Module, BaseWith({m})[m] <= MaxLoads
  PROVE  /\ BaseWith({m}) \in [Module -> 0 .. MaxLoads]
         /\ \A k \in Module : k # m => BaseWith({m})[k] = base[k]
         /\ BaseWith({m})[m] = IF m \in Mapped THEN base[m] ELSE base[m] + 1
<1>1. MaxLoads \in Nat
  BY WinsockAssumption
<1>2. \A k \in Module : BaseWith({m})[k] = IF k = m /\ m \notin Mapped THEN base[k] + 1 ELSE base[k]
  BY DEF BaseWith
<1>3. \A k \in Module : base[k] \in 0 .. MaxLoads
  BY DEF MapType
<1>4. \A k \in Module : BaseWith({m})[k] \in 0 .. MaxLoads
  BY <1>1, <1>2, <1>3
<1>5. DOMAIN BaseWith({m}) = Module /\ BaseWith({m}) = [k \in Module |-> BaseWith({m})[k]]
  BY DEF BaseWith
<1>. QED
  BY <1>2, <1>4, <1>5

-----------------------------------------------------------------------------
\* The functions of a module are functions, and its hooks are in it.
LEMMA InModule ==
  /\ ModuleOf \in [Function -> Module]
  /\ "ws2_32" \in Module
  /\ MaxLoads \in Nat
BY TablesAssumption, WinsockAssumption

\* A module that is asked for may be mapped once more.  Nothing is known of the
\* hooks of that mapping, and those of others are where they were.
LEMMA AskFor ==
  ASSUME MapInv, NEW m \in Module, BaseWith({m})[m] <= MaxLoads, base' = BaseWith({m}),
         UNCHANGED <<context, jumps>>,
         \/ ours' = ours
         \/ ours' = ours \cup {m} /\ (m \notin Mapped \/ m = "ws2_32")
  PROVE  \A f \in Function : HookInv(f)'
<1>. SUFFICES ASSUME NEW f \in Function PROVE HookInv(f)'
  OBVIOUS
<1>. HIDE DEF Module, Function, ModuleOf
<1>1. MapType /\ HookInv(f)
  BY DEF MapInv
<1>2. /\ \A k \in Module : k # m => base'[k] = base[k]
      /\ base'[m] = IF m \in Mapped THEN base[m] ELSE base[m] + 1
  BY <1>1, BaseStep
<1>3. ModuleOf[f] \in Module /\ context[f].at \in Nat /\ base[ModuleOf[f]] \in Nat
  BY <1>1, InModule DEF MapType
<1>4. base'[ModuleOf[f]] \in {base[ModuleOf[f]], base[ModuleOf[f]] + 1}
  BY <1>2, <1>3
<1>5. context[f].at <= base'[ModuleOf[f]]
  BY <1>1, <1>3, <1>4 DEF HookInv
<1>6. (context[f].state = "used" /\ ModuleOf[f] = "ws2_32") => "ws2_32" \in ours' /\ f \in jumps
  BY <1>1 DEF HookInv
<1>7. ASSUME context[f].state = "used", ModuleOf[f] \in ours', context[f].at = base'[ModuleOf[f]]
      PROVE  f \in jumps
  <2>1. CASE ModuleOf[f] = "ws2_32"
    BY <1>7, <2>1, <1>1 DEF HookInv
  <2>2. CASE ModuleOf[f] # "ws2_32" /\ ModuleOf[f] \in ours
    BY <1>1, <1>2, <1>3, <1>7, <2>2 DEF HookInv, Mapped
  <2>3. CASE ModuleOf[f] # "ws2_32" /\ ModuleOf[f] \notin ours
    <3>1. ModuleOf[f] = m /\ m \notin Mapped
      BY <1>7, <2>3
    <3>2. base'[ModuleOf[f]] = base[ModuleOf[f]] + 1
      BY <1>2, <3>1
    <3>. QED
      BY <1>1, <1>3, <1>7, <3>2 DEF HookInv
  <2>. QED
    BY <2>1, <2>2, <2>3
<1>. QED
  BY <1>5, <1>6, <1>7 DEF HookInv

\* Others load and free modules.
LEMMA OthersStep ==
  ASSUME MapInv, NEW m \in Module, OthersLoad(m) \/ OthersFree(m)
  PROVE  MapInv'
<1>. HIDE DEF Module, Function, ModuleOf
<1>1. CASE OthersLoad(m)
  <2>1. /\ base' = BaseWith({m}) /\ BaseWith({m})[m] <= MaxLoads
        /\ UNCHANGED <<installer, ours, bridge, context, jumps>> /\ theirs' = theirs \cup {m}
    BY <1>1 DEF OthersLoad
  <2>2. base' \in [Module -> 0 .. MaxLoads]
    BY <2>1, BaseStep DEF MapInv
  <2>3. \A f \in Function : HookInv(f)'
    BY <2>1, AskFor
  <2>. QED
    BY <2>1, <2>2, <2>3 DEF MapInv, MapType
<1>2. CASE OthersFree(m)
  <2>1. /\ UNCHANGED <<installer, ours, bridge, context, base>> /\ theirs' = theirs \ {m}
        /\ jumps' \subseteq jumps
        /\ \A f \in Function : f \in jumps /\ f \notin jumps' => ModuleOf[f] \notin ours
    BY <1>2 DEF OthersFree, FunctionsOf
  <2>2. \A f \in Function : HookInv(f)'
    BY <2>1 DEF MapInv, HookInv
  <2>. QED
    BY <2>1, <2>2 DEF MapInv, MapType
<1>. QED
  BY <1>1, <1>2

\* WSAStartup, and the preparation of a module's bridge, with a page or without.
LEMMA PrepareStep ==
  ASSUME MapInv,
         Startup \/ \E m \in Module : PrepareHookBridge(m) \/ PrepareWithoutPage(m)
  PROVE  MapInv'
<1>. HIDE DEF Module, Function, ModuleOf
<1>0. MapType /\ "ws2_32" \in Module
  BY InModule DEF MapInv
<1>1. CASE Startup
  <2>1. /\ BaseWith({"ws2_32"})["ws2_32"] <= MaxLoads /\ base' = BaseWith({"ws2_32"})
        /\ ours' = ours \cup {"ws2_32"} /\ GoOn
        /\ UNCHANGED <<theirs, bridge, context, jumps>>
        /\ Step("startup", "ws2_32", NoPtr)
    BY <1>1 DEF Startup, KeptByStartup
  <2>2. base' \in [Module -> 0 .. MaxLoads]
    BY <1>0, <2>1, BaseStep
  <2>3. installer' \in 0 .. Len(Steps)
    BY <1>0, <2>1, LaterSteps, GoOnType
  <2>4. \A f \in Function : HookInv(f)'
    BY <1>0, <2>1, AskFor
  <2>. QED
    BY <1>0, <2>1, <2>2, <2>3, <2>4 DEF MapInv, MapType
<1>2. ASSUME NEW m \in Module, PrepareHookBridge(m) \/ PrepareWithoutPage(m) PROVE MapInv'
  <2>1. /\ BaseWith({m})[m] <= MaxLoads /\ base' = BaseWith({m})
        /\ ours' = IF m \in Mapped THEN ours ELSE ours \cup {m}
        /\ bridge' = [bridge EXCEPT ![m] = base'[m]]
        /\ GoOn \/ installer' = 0
        /\ UNCHANGED <<theirs, context, jumps>>
        /\ Step("prepare", m, NoPtr)
    BY <1>2 DEF PrepareHookBridge, PrepareWithoutPage, Prepare
  <2>2. base' \in [Module -> 0 .. MaxLoads]
    BY <1>0, <2>1, BaseStep
  <2>3. installer' \in 0 .. Len(Steps) /\ "ws2_32" \in ours
    <3>1. installer \in 1 .. Len(Steps) /\ installer > 1 /\ 0 \in 0 .. Len(Steps)
      BY <1>0, <2>1, LaterSteps, StepsList
    <3>. QED
      BY <2>1, <3>1, GoOnType DEF MapInv
  <2>4. \A f \in Function : HookInv(f)'
    BY <2>1, <2>3, AskFor DEF Mapped
  <2>. QED
    BY <1>0, <2>1, <2>2, <2>3, <2>4 DEF MapInv, MapType
<1>. QED
  BY <1>1, <1>2

\* A function is hooked, or is not.
LEMMA HookStep ==
  ASSUME MapInv, NEW f \in Function, HookByName(f)
  PROVE  MapInv'
<1>. HIDE DEF Module, Function, ModuleOf
<1>1. /\ Step("hook", ModuleOf[f], f) /\ GoOn
      /\ UNCHANGED <<ours, theirs, base, bridge>>
      /\ MapType
  BY DEF HookByName, MapInv
<1>2. PICK w \in HookOutcomes(f) :
        /\ context' = [context EXCEPT ![f] = w]
        /\ jumps' = IF w # context[f] /\ w.state = "used" THEN jumps \cup {f} ELSE jumps
  BY DEF HookByName
<1>3. installer' \in 0 .. Len(Steps) /\ "ws2_32" \in ours
  <2>1. installer \in 1 .. Len(Steps) /\ installer > 1
    BY <1>1, LaterSteps
  <2>. QED
    BY <1>1, <2>1, GoOnType DEF MapInv
<1>4. base[ModuleOf[f]] \in 0 .. MaxLoads /\ MaxLoads \in Nat
  BY <1>1, InModule DEF MapType
<1>5. w = context[f] \/ w = Unused \/ (w.state \in {"used", "unwritten"} /\ w.at = base[ModuleOf[f]])
  BY DEF HookOutcomes
<1>6. w \in [state : {"unused", "used", "unwritten"}, at : 0 .. MaxLoads]
  BY <1>1, <1>4 DEF HookOutcomes, Unused, MapType
<1>7. HookInv(f)'
  <2>1. context'[f] = w
    BY <1>1, <1>2 DEF MapType
  <2>2. CASE w = context[f]
    BY <1>1, <1>2, <2>1, <2>2 DEF MapInv, HookInv
  <2>3. CASE w = Unused
    BY <1>1, <1>2, <1>4, <2>1, <2>3 DEF HookInv, Unused
  <2>4. CASE w # context[f] /\ w.state \in {"used", "unwritten"} /\ w.at = base[ModuleOf[f]]
    BY <1>1, <1>2, <1>3, <1>4, <2>1, <2>4 DEF HookInv
  <2>. QED
    BY <1>5, <2>2, <2>3, <2>4
<1>8. ASSUME NEW g \in Function, g # f PROVE HookInv(g)'
  <2>1. context'[g] = context[g] /\ (g \in jumps' <=> g \in jumps)
    BY <1>2, <1>8
  <2>. QED
    BY <1>1, <2>1 DEF MapInv, HookInv
<1>9. MapType'
  BY <1>1, <1>2, <1>3, <1>6 DEF MapType
<1>. QED
  BY <1>1, <1>3, <1>7, <1>8, <1>9 DEF MapInv

\* The installer begins or gives up.
LEMMA BeginStep ==
  ASSUME MapInv, InstallAll \/ StartupFails \/ \E m \in Module : PrepareWithoutModule(m)
  PROVE  MapInv'
<1>1. /\ installer' \in {0, 1}
      /\ UNCHANGED <<ours, theirs, base, bridge, context, jumps>>
  BY DEF InstallAll, StartupFails, PrepareWithoutModule, ReturnFalse
<1>2. installer' \in 0 .. Len(Steps)
  BY <1>1, StepsList
<1>. HIDE DEF Module, Function, ModuleOf
<1>. QED
  BY <1>1, <1>2 DEF MapInv, MapType, HookInv

-----------------------------------------------------------------------------
\* A replacement is not an original function, nor nothing.
LEMMA MyIsNew ==
  \A x : My(x) \notin Original /\ (NoPtr = My(x) => x # NoPtr)
BY WinsockAssumption DEF My

\* Every original function is one for some extension function.
LEMMA AnswerTypes ==
  ASSUME NEW x, NEW o \in Answers(x)
  PROVE  /\ o \in Original \cup {NoPtr}
         /\ o # NoPtr => x \in Extension /\ o \in For(x) /\ o # My(x)
BY WinsockAssumption, MyIsNew DEF Answers, For

LEMMA AskedTypes == Asked \subseteq Extension
BY WinsockAssumption DEF Asked

\* What a thread is given of an answer, if the function has no replacement or
\* the answer is not looked at.
LEMMA GivenTypes ==
  ASSUME NEW x \in Extension, NEW o \in Answers(x), NEW how \in {"direct", "hooked"},
         how = "direct" \/ x \notin Proxied, NEW g, g = Given(x, o, how)
  PROVE  /\ g \in [x : Extension \cup {NoPtr},
                   code : Original \cup {NoPtr} \cup {My(y) : y \in Extension},
                   how : {"none", "direct", "hooked", "empty"}]
         /\ g.code # My(g.x)
         /\ g.how = "hooked" => g.x \notin Proxied
<1>1. /\ o \in Original \cup {NoPtr}
      /\ o # NoPtr => o # My(x)
  BY AnswerTypes
<1>2. NoPtr # My(NoPtr)
  BY MyIsNew
<1>. HIDE DEF Extension, Proxied, My
<1>3. CASE o = NoPtr
  BY <1>2, <1>3 DEF Given, Nothing
<1>4. CASE o # NoPtr
  BY <1>1, <1>4 DEF Given
<1>. QED
  BY <1>3, <1>4

\* A thread that returns with it learns nothing of the replacements.
LEMMA ReturnOriginal ==
  ASSUME PointerInv, NEW t \in Thread, NEW x \in Extension, NEW o \in Answers(x),
         NEW how \in {"direct", "hooked"},
         Return(t, Given(x, o, how)), proxy' = proxy,
         how = "direct" \/ x \notin Proxied
  PROVE  PointerInv'
<1>. PICK g : g = Given(x, o, how)
  OBVIOUS
<1>1. /\ got' = [got EXCEPT ![t] = g]
      /\ call' = [call EXCEPT ![t] = NoCall]
  BY DEF Return
<1>2. /\ g \in [x : Extension \cup {NoPtr},
                code : Original \cup {NoPtr} \cup {My(y) : y \in Extension},
                how : {"none", "direct", "hooked", "empty"}]
      /\ g.code # My(g.x)
      /\ g.how = "hooked" => g.x \notin Proxied
  BY GivenTypes
<1>. HIDE DEF Extension, Proxied, My, For, Answers
<1>3. CallInv'
  BY <1>1 DEF PointerInv, CallInv, NoCall
<1>4. GotInv'
  <2>1. got' \in [Thread -> [x : Extension \cup {NoPtr},
                             code : Original \cup {NoPtr} \cup {My(y) : y \in Extension},
                             how : {"none", "direct", "hooked", "empty"}]]
    BY <1>1, <1>2 DEF PointerInv, GotInv
  <2>2. got'[t] = g /\ \A u \in Thread : u # t => got'[u] = got[u]
    BY <1>1 DEF PointerInv, GotInv
  <2>. QED
    BY <1>2, <2>1, <2>2 DEF PointerInv, GotInv
<1>. QED
  BY <1>3, <1>4 DEF PointerInv, ProxyInv

\* WSAIoctl is called: directly, or through the hook.
LEMMA AskStep ==
  ASSUME PointerInv, NEW t \in Thread, NEW x \in Asked,
         \/ \E o \in Answers(x) : IoctlDirect(t, x, o) \/ MyWSAIoctl(t, x, o)
         \/ MyWSAIoctlPending(t, x)
  PROVE  PointerInv'
<1>0. x \in Extension /\ NoPtr # My(NoPtr) /\ NoPtr \in Answers(x)
  BY AskedTypes, MyIsNew DEF Answers
<1>1. ASSUME NEW o \in Answers(x), IoctlDirect(t, x, o) PROVE PointerInv'
  BY <1>0, <1>1, ReturnOriginal DEF IoctlDirect
<1>2. ASSUME NEW o \in Answers(x), NEW pc \in {"pending", "steer"},
             call' = [call EXCEPT ![t] = [pc |-> pc, x |-> x, out |-> o]],
             got' = [got EXCEPT ![t] = Nothing], proxy' = proxy
      PROVE  PointerInv'
  <2>1. o \in Original \cup {NoPtr}
    BY AnswerTypes
  <2>. HIDE DEF Extension, Proxied, My, For, Answers
  <2>2. CallInv'
    BY <1>0, <1>2, <2>1 DEF PointerInv, CallInv
  <2>3. GotInv'
    BY <1>0, <1>2 DEF PointerInv, GotInv, Nothing
  <2>. QED
    BY <1>2, <2>2, <2>3 DEF PointerInv, ProxyInv
<1>3. ASSUME NEW o \in Answers(x), MyWSAIoctl(t, x, o) PROVE PointerInv'
  BY <1>2, <1>3 DEF MyWSAIoctl
<1>4. CASE MyWSAIoctlPending(t, x)
  BY <1>0, <1>2, <1>4 DEF MyWSAIoctlPending
<1>. QED
  BY <1>1, <1>3, <1>4

\* The answer of a pending call, and one that has no replacement.
LEMMA AnswerStep ==
  ASSUME PointerInv, NEW t \in Thread, Complete(t) \/ SteerNothing(t)
  PROVE  PointerInv'
<1>1. call[t].x \in Extension /\ call[t].out \in Answers(call[t].x) /\ proxy' = proxy
  BY DEF Complete, SteerNothing, Asking, PointerInv, CallInv
<1>2. CASE Complete(t)
  <2>1. PICK o \in Answers(call[t].x) : Return(t, Given(call[t].x, o, "direct"))
    BY <1>2 DEF Complete
  <2>. QED
    BY <1>1, <2>1, ReturnOriginal
<1>3. CASE SteerNothing(t)
  <2>1. Return(t, Given(call[t].x, call[t].out, "hooked")) /\ call[t].x \notin Proxied
    BY <1>3 DEF SteerNothing, Steered
  <2>. QED
    BY <1>1, <2>1, ReturnOriginal
<1>. QED
  BY <1>2, <1>3

\* The test of the context's pointer: who goes on without setting it has seen
\* that it is set.
LEMMA SteerStep ==
  ASSUME PointerInv, NEW t \in Thread, Steer(t)
  PROVE  PointerInv'
<1>1. /\ call[t].pc = "steer" /\ call[t].x \in Proxied /\ UNCHANGED <<proxy, got>>
      /\ call' = [call EXCEPT ![t].pc = IF call[t].out # NoPtr /\ NeedsProxy(call[t].x)
                                        THEN "set" ELSE "hand"]
  BY DEF Steer, Asking, Steered
<1>2. call[t].x \in Extension /\ call[t].out \in Answers(call[t].x)
  BY <1>1 DEF PointerInv, CallInv
<1>3. call[t].out # NoPtr => call[t].out \in For(call[t].x)
  BY <1>2 DEF Answers
<1>. HIDE DEF Extension, Proxied, My, For, Answers
<1>4. ~NeedsProxy(call[t].x) => proxy[call[t].x] \in For(call[t].x)
  BY <1>2 DEF NeedsProxy, PointerInv, ProxyInv
<1>5. CallInv'
  BY <1>1, <1>2, <1>3, <1>4 DEF PointerInv, CallInv
<1>. QED
  BY <1>1, <1>5 DEF PointerInv, ProxyInv, GotInv

\* What is set is a pointer to the function that was asked for.
LEMMA SetStep ==
  ASSUME PointerInv, NEW t \in Thread, SetProxy(t)
  PROVE  PointerInv'
<1>1. \A x : For(x) \subseteq Original
  BY DEF For
<1>. HIDE DEF Extension, Proxied, My, For
<1>2. /\ call[t].pc = "set" /\ got' = got
      /\ proxy' = [proxy EXCEPT ![call[t].x] = call[t].out]
      /\ call' = [call EXCEPT ![t].pc = "hand"]
  BY DEF SetProxy, Asking
<1>3. /\ call[t].x \in Extension /\ call[t].out \in For(call[t].x) /\ call[t].x \in Proxied
      /\ call[t].out \in Original /\ call[t].out \in Answers(call[t].x)
  BY <1>1, <1>2 DEF PointerInv, CallInv
<1>. HIDE DEF Answers
<1>4. /\ proxy'[call[t].x] \in For(call[t].x)
      /\ \A x \in Extension : x # call[t].x => proxy'[x] = proxy[x]
  BY <1>2, <1>3 DEF PointerInv, ProxyInv
<1>5. \A x \in Extension : proxy[x] \in For(x) => proxy'[x] \in For(x)
  BY <1>4
<1>6. ProxyInv'
  BY <1>2, <1>3, <1>4 DEF PointerInv, ProxyInv
<1>7. CallInv'
  BY <1>2, <1>3, <1>4, <1>5 DEF PointerInv, CallInv
<1>8. GotInv'
  <2>1. \A x \in Proxied : x \in Extension
    BY DEF Proxied
  <2>. QED
    BY <1>2, <1>5, <2>1 DEF PointerInv, GotInv
<1>. QED
  BY <1>6, <1>7, <1>8 DEF PointerInv

\* The replacement is handed out.
LEMMA HandOutStep ==
  ASSUME PointerInv, NEW t \in Thread, HandOut(t)
  PROVE  PointerInv'
<1>. HIDE DEF Extension, Proxied, My, For
<1>. DEFINE x == call[t].x
<1>. PICK how : how = IF call[t].out = NoPtr THEN "empty" ELSE "hooked"
  OBVIOUS
<1>1. /\ call[t].pc = "hand" /\ proxy' = proxy
      /\ got' = [got EXCEPT ![t] = [x |-> x, code |-> My(x), how |-> how]]
      /\ call' = [call EXCEPT ![t] = NoCall]
  BY DEF HandOut, Asking, Return
<1>2. /\ x \in Extension /\ x \in Proxied /\ how \in {"empty", "hooked"}
      /\ how = "hooked" => proxy[x] \in For(x)
  BY <1>1 DEF PointerInv, CallInv
<1>. HIDE DEF x
<1>3. CallInv'
  BY <1>1 DEF PointerInv, CallInv, NoCall
<1>4. GotInv'
  <2>1. got' \in [Thread -> [x : Extension \cup {NoPtr},
                             code : Original \cup {NoPtr} \cup {My(y) : y \in Extension},
                             how : {"none", "direct", "hooked", "empty"}]]
    BY <1>1, <1>2 DEF PointerInv, GotInv
  <2>2. got'[t] = [x |-> x, code |-> My(x), how |-> how]
        /\ \A u \in Thread : u # t => got'[u] = got[u]
    BY <1>1 DEF PointerInv, GotInv
  <2>. QED
    BY <1>1, <1>2, <2>1, <2>2 DEF PointerInv, GotInv
<1>. QED
  BY <1>1, <1>3, <1>4 DEF PointerInv, ProxyInv

-----------------------------------------------------------------------------
\* The initial states satisfy the invariant.
LEMMA InitStep == Init => IInv
<1>. SUFFICES ASSUME Init PROVE IInv
  OBVIOUS
<1>1. MaxLoads \in Nat \ {0} /\ 0 \in 0 .. Len(Steps)
  BY WinsockAssumption, StepsList
<1>2. NoPtr # My(NoPtr)
  BY MyIsNew
<1>3. ModuleOf \in [Function -> Module]
  BY InModule
<1>. HIDE DEF Module, Function, ModuleOf, Extension, Proxied, My, For
<1>4. MapType
  BY <1>1 DEF Init, MapType, Unused
<1>5. \A f \in Function : HookInv(f)
  <2>1. \A m \in Module : base[m] \in {0, 1}
    BY DEF Init
  <2>. QED
    BY <1>3, <2>1 DEF Init, HookInv, Unused
<1>6. PointerInv
  BY <1>2 DEF Init, PointerInv, ProxyInv, CallInv, GotInv, NoCall, Nothing
<1>. QED
  BY <1>4, <1>5, <1>6 DEF IInv, MapInv, Init

\* Loading, freeing and installing leave the pointers alone, asking for them
\* leaves the modules and the hooks alone.
LEMMA Separate ==
  ASSUME IInv
  PROVE  /\ UNCHANGED <<proxy, call, got>> => PointerInv'
         /\ UNCHANGED <<installer, ours, theirs, base, bridge, context, jumps>> => MapInv'
BY DEF IInv, PointerInv, ProxyInv, CallInv, GotInv, MapInv, MapType, HookInv

\* Every step keeps the invariant.
LEMMA NextKeeps ==
  ASSUME IInv, [Next]_vars
  PROVE  IInv'
<1>1. CASE UNCHANGED vars
  BY <1>1, Separate DEF vars, IInv
<1>2. CASE \/ \E m \in Module : \/ OthersLoad(m) \/ OthersFree(m) \/ PrepareHookBridge(m)
                                \/ PrepareWithoutPage(m) \/ PrepareWithoutModule(m)
           \/ InstallAll \/ Startup \/ StartupFails
           \/ \E f \in Function : HookByName(f)
  <2>1. MapInv'
    BY <1>2, OthersStep, PrepareStep, BeginStep, HookStep DEF IInv
  <2>2. UNCHANGED <<proxy, call, got>>
    BY <1>2 DEF OthersLoad, OthersFree, Prepare, PrepareHookBridge, PrepareWithoutPage,
                PrepareWithoutModule, InstallAll, Startup, StartupFails, HookByName, ReturnFalse
  <2>. QED
    BY <2>1, <2>2, Separate DEF IInv
<1>3. ASSUME NEW t \in Thread,
             \/ \E x \in Asked : \/ \E o \in Answers(x) : IoctlDirect(t, x, o) \/ MyWSAIoctl(t, x, o)
                                \/ MyWSAIoctlPending(t, x)
             \/ Complete(t) \/ Steer(t) \/ SteerNothing(t) \/ SetProxy(t) \/ HandOut(t)
      PROVE  IInv'
  <2>1. PointerInv'
    BY <1>3, AskStep, AnswerStep, SteerStep, SetStep, HandOutStep DEF IInv
  <2>2. UNCHANGED <<installer, ours, theirs, base, bridge, context, jumps>>
    BY <1>3 DEF IoctlDirect, MyWSAIoctl, MyWSAIoctlPending, Complete, Steer, SteerNothing, SetProxy, HandOut
  <2>. QED
    BY <2>1, <2>2, Separate DEF IInv
<1>. QED
  BY <1>1, <1>2, <1>3 DEF Next

\* The invariant holds in every state of the program.
LEMMA Inductive == Spec => []IInv
<1>1. Init => IInv
  BY InitStep
<1>2. IInv /\ [Next]_vars => IInv'
  BY NextKeeps
<1>. QED
  BY <1>1, <1>2, PTL DEF Spec

\* Every variable keeps its type, for any number of threads, providers and
\* loads, and only functions with a replacement get one.
THEOREM TypesKept == Spec => []TypeOK
<1>1. IInv => TypeOK
  BY DEF IInv, MapInv, MapType, PointerInv, ProxyInv, GotInv, TypeOK
<1>. QED
  BY <1>1, Inductive, PTL

\* Whichever threads ask for extension functions at a time, each replacement
\* the hooked WSAIoctl returns forwards to the function asked for
\* (hook_all.cpp 77-81, ws2_hook_info.cpp 55-66).
THEOREM PointersForward == Spec => []HandedOutPointersForward
<1>1. IInv => HandedOutPointersForward
  BY DEF IInv, PointerInv, GotInv, HandedOutPointersForward, Reached, For
<1>. QED
  BY <1>1, Inductive, PTL

\* However often the rest of the process loads and frees the modules, the hooks
\* in ws2_32, and those put into a mapping the library holds, stay
\* (hook_all.cpp 12-15, port_win32.c 84-89).
THEOREM HooksStay == Spec => []HooksStayMapped
<1>1. IInv => HooksStayMapped
  BY DEF IInv, MapInv, HookInv, HooksStayMapped
<1>. QED
  BY <1>1, Inductive, PTL

=============================================================================
