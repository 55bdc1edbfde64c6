--------------------------- MODULE WinsockProgram ---------------------------
(***************************************************************************)
(* The program of hooklib_test that hooks Winsock (hook_all.cpp, ws2_hook_ *)
(* *.cpp, iphlpapi_hook.cpp, kernel32_hook.cpp) with the parts of the C++  *)
(* wrappers it uses (HooklibCPP.cpp 12-154).  One thread runs              *)
(* install_ws2_all_functions, perhaps several times.  The rest of the      *)
(* process loads and frees the modules, asks WSAIoctl for extension        *)
(* functions, which no export table names, and calls what it was given.    *)
(*                                                                         *)
(* How an entry is patched is HookContext's and HookThreads' business:     *)
(* here a function is hooked in one step, which may fail.                  *)
(***************************************************************************)
EXTENDS Naturals, Sequences, FiniteSets, SequencesExt

CONSTANTS
  Chosen,    \* bound of the model: the modules and functions that are followed
  Original,  \* extension functions, [x, p]: each provider p has its own
  NoPtr,
  Thread,    \* threads that use sockets
  MaxLoads   \* bound of the model: how often a module is mapped

-----------------------------------------------------------------------------
(* What is hooked, file by file: the functions hooked by name.             *)

AcceptNames == <<"accept", "WSAAccept">>
ConnectNames == <<"connect", "WSAConnect", "WSAJoinLeaf">>
InfoNames ==
  <<"getpeername", "getsockname", "ioctlsocket", "setsockopt", "getsockopt", "WSAIoctl",
    "gethostname", "gethostbyname">>
EventNames == <<"WSAGetOverlappedResult">>
HandleNames == <<"socket", "WSASocketW", "closesocket", "bind">>
ReadNames == <<"recv", "recvfrom", "WSARecv", "WSARecvFrom">>
MswsockNames == <<"WSARecvEx">>
WriteNames == <<"send", "sendto", "WSASend", "WSASendTo">>
IphlpapiNames == <<"GetAdaptersInfo", "GetIpAddrTable", "GetAdaptersAddresses">>
Kernel32Names == <<"GetQueuedCompletionStatus">>

\* The extension functions whose GUIDs the program knows, and those of them it
\* replaces.
Extension ==
  {"AcceptEx", "ConnectEx", "DisconnectEx", "TransmitFile", "GetAcceptExSockaddrs", "WSARecvMsg", "WSASendMsg"}
Proxied == Extension \ {"TransmitFile"}

AllModules == <<"ws2_32", "mswsock", "iphlpapi", "kernel32">>
AllHooks ==
  LET of(m, names) == [i \in DOMAIN names |-> <<m, names[i]>>]
  IN of("ws2_32", AcceptNames \o ConnectNames \o InfoNames \o EventNames \o HandleNames
                    \o ReadNames \o WriteNames)
     \o of("mswsock", MswsockNames) \o of("iphlpapi", IphlpapiNames) \o of("kernel32", Kernel32Names)

Modules == SelectSeq(AllModules, LAMBDA m : m \in Chosen)
Hooks == SelectSeq(AllHooks, LAMBDA h : h[1] \in Chosen /\ h[2] \in Chosen)
Module == ToSet(Modules)
Function == {h[2] : h \in ToSet(Hooks)}
ModuleOf == [f \in Function |-> (CHOOSE h \in ToSet(Hooks) : h[2] = f)[1]]

ASSUME WinsockAssumption ==
  /\ "ws2_32" \in Module /\ "WSAIoctl" \in Function
  /\ \A o \in Original : o.x \in Extension /\ o.p # "my"
  /\ NoPtr # [x |-> NoPtr, p |-> "my"]
  /\ MaxLoads \in Nat \ {0}

\* What TLC computes of the tables and the proofs need to know.
ASSUME TablesAssumption ==
  /\ Modules \in Seq(Module) /\ Hooks \in Seq(Module \X Function)
  /\ ModuleOf \in [Function -> Module]

VARIABLES
  installer, \* the step of install_ws2_all_functions, 0 outside
  ours,      \* modules that the library's LoadLibraryA, or WSAStartup, holds
  theirs,    \* modules that somebody else holds
  base,      \* base[m]: how often m was mapped: its address changes with it
  bridge,    \* bridge[m]: the handle in m's CHookBridgeslot, 0 before
  context,   \* context[f]: the context hook_f: "unwritten" if the jump was denied;
             \* the mapping of the module in which it hooked f
  jumps,     \* functions whose entries, as mapped now, hold the jump
  proxy,     \* proxy[x]: the proxy pointer of hook_x
  call,      \* call[t]: the call of WSAIoctl that t is in
  got        \* got[t]: the pointer t was given for an extension function

vars == <<installer, ours, theirs, base, bridge, context, jumps, proxy, call, got>>

Unused == [state |-> "unused", at |-> 0]
\* What WSAIoctl may answer when it is asked for x: a provider's function, or,
\* though it reports success, no pointer.
For(x) == {o \in Original : o.x = x}
Answers(x) == For(x) \cup {NoPtr}
Asked == {o.x : o \in Original}

\* The replacement of extension function x.
My(x) == [x |-> x, p |-> "my"]
NoCall == [pc |-> "idle", x |-> NoPtr, out |-> NoPtr]
Nothing == [x |-> NoPtr, code |-> NoPtr, how |-> "none"]

Init ==
  /\ installer = 0
  /\ ours = {} /\ theirs \in SUBSET Module
  /\ base = [m \in Module |-> IF m \in theirs THEN 1 ELSE 0]
  /\ bridge = [m \in Module |-> 0]
  /\ context = [f \in Function |-> Unused]
  /\ jumps = {}
  /\ proxy = [x \in Extension |-> NoPtr]
  /\ call = [t \in Thread |-> NoCall]
  /\ got = [t \in Thread |-> Nothing]

-----------------------------------------------------------------------------
(* The modules *)

Mapped == ours \cup theirs
FunctionsOf(m) == {f \in Function : ModuleOf[f] = m}

\* base when the modules in S have been asked for.
BaseWith(S) == [m \in Module |-> IF m \in S \ Mapped THEN base[m] + 1 ELSE base[m]]

OthersLoad(m) ==
  /\ m \notin theirs /\ BaseWith({m})[m] <= MaxLoads
  /\ theirs' = theirs \cup {m} /\ base' = BaseWith({m})
  /\ UNCHANGED <<installer, ours, bridge, context, jumps, proxy, call, got>>

\* The last reference gone, the module is unmapped and its patches are lost.
OthersFree(m) ==
  /\ m \in theirs
  /\ theirs' = theirs \ {m}
  /\ jumps' = IF m \in ours THEN jumps ELSE jumps \ FunctionsOf(m)
  /\ UNCHANGED <<installer, ours, base, bridge, context, proxy, call, got>>

-----------------------------------------------------------------------------
(* install_ws2_all_functions *)

\* All bridges are prepared before the first function is hooked.
PrepareAndHook ==
  [i \in DOMAIN Modules |-> [op |-> "prepare", m |-> Modules[i], f |-> NoPtr]]
  \o [i \in DOMAIN Hooks |-> [op |-> "hook", m |-> Hooks[i][1], f |-> Hooks[i][2]]]

Steps == <<[op |-> "startup", m |-> "ws2_32", f |-> NoPtr]>> \o PrepareAndHook

Step(op, m, f) ==
  installer \in DOMAIN Steps /\ Steps[installer] = [op |-> op, m |-> m, f |-> f]

GoOn ==
  installer' = IF installer = Len(Steps) THEN 0 ELSE installer + 1

ReturnFalse ==
  /\ installer' = 0
  /\ UNCHANGED <<ours, theirs, base, bridge, context, jumps, proxy, call, got>>

InstallAll ==
  /\ installer = 0
  /\ installer' = 1
  /\ UNCHANGED <<ours, theirs, base, bridge, context, jumps, proxy, call, got>>

\* WSACleanup is called as well.
KeptNothing == {}
\* WSAStartup is not undone, to keep ws2_32 from being unloaded.
KeptByStartup == {"ws2_32"}

Startup ==
  /\ Step("startup", "ws2_32", NoPtr)
  /\ BaseWith(KeptByStartup)["ws2_32"] <= MaxLoads
  /\ ours' = ours \cup KeptByStartup
  /\ base' = BaseWith(KeptByStartup)
  /\ GoOn
  /\ UNCHANGED <<theirs, bridge, context, jumps, proxy, call, got>>

StartupFails == Step("startup", "ws2_32", NoPtr) /\ ReturnFalse

\* GetModuleHandleA takes no reference; LoadLibraryA, called when the module is
\* not there, takes one.  The bridge gets the handle before it gets a page.
Prepare(m) ==
  /\ Step("prepare", m, NoPtr)
  /\ BaseWith({m})[m] <= MaxLoads
  /\ ours' = IF m \in Mapped THEN ours ELSE ours \cup {m}
  /\ base' = BaseWith({m})
  /\ bridge' = [bridge EXCEPT ![m] = base'[m]]
  /\ UNCHANGED <<theirs, context, jumps, proxy, call, got>>

PrepareHookBridge(m) == Prepare(m) /\ GoOn

\* No page is to be had near the module, which stays loaded.
PrepareWithoutPage(m) == Prepare(m) /\ installer' = 0

\* The module is neither there nor can it be loaded.
PrepareWithoutModule(m) == Step("prepare", m, NoPtr) /\ m \notin Mapped /\ ReturnFalse

\* The handle is taken from the bridge: GetProcAddress finds nothing if the
\* module has been unmapped or mapped anew.
Found(m) == m \in Mapped /\ bridge[m] = base[m]

\* What hookModuleFunction may do to a context: a context in use is left alone;
\* the head may not be movable; the write may be denied.
HookOutcomes(f) ==
  IF ~Found(ModuleOf[f]) \/ context[f].state # "unused" THEN {context[f]}
  ELSE {Unused} \cup [state : {"used", "unwritten"}, at : {base[ModuleOf[f]]}]

\* Whatever comes of it, the next function is tried.
HookByName(f) ==
  /\ Step("hook", ModuleOf[f], f)
  /\ \E w \in HookOutcomes(f) :
       /\ context' = [context EXCEPT ![f] = w]
       /\ jumps' = IF w # context[f] /\ w.state = "used" THEN jumps \cup {f} ELSE jumps
  /\ GoOn
  /\ UNCHANGED <<ours, theirs, base, bridge, proxy, call, got>>

-----------------------------------------------------------------------------
(* WSAIoctl( SIO_GET_EXTENSION_FUNCTION_POINTER ) *)

Asking(t, pc) == call[t].pc = pc
Return(t, pointer) == got' = [got EXCEPT ![t] = pointer] /\ call' = [call EXCEPT ![t] = NoCall]

\* A provider's answer as the caller gets it; a null pointer is nothing.
Given(x, o, how) == IF o = NoPtr THEN Nothing ELSE [x |-> x, code |-> o, how |-> how]

\* Not hooked: the provider's answer is returned.
IoctlDirect(t, x, o) ==
  /\ Asking(t, "idle") /\ "ws2_32" \in Mapped /\ "WSAIoctl" \notin jumps
  /\ Return(t, Given(x, o, "direct"))
  /\ UNCHANGED <<installer, ours, theirs, base, bridge, context, jumps, proxy>>

\* myWSAIoctl has called the original through its context, which answered.
MyWSAIoctl(t, x, o) ==
  /\ Asking(t, "idle") /\ "ws2_32" \in Mapped /\ "WSAIoctl" \in jumps
  /\ call' = [call EXCEPT ![t] = [pc |-> "steer", x |-> x, out |-> o]]
  /\ got' = [got EXCEPT ![t] = Nothing]
  /\ UNCHANGED <<installer, ours, theirs, base, bridge, context, jumps, proxy>>

\* An overlapped call that is pending returned SOCKET_ERROR, and myWSAIoctl does
\* not look at it again.
MyWSAIoctlPending(t, x) ==
  /\ Asking(t, "idle") /\ "ws2_32" \in Mapped /\ "WSAIoctl" \in jumps
  /\ call' = [call EXCEPT ![t] = [pc |-> "pending", x |-> x, out |-> NoPtr]]
  /\ got' = [got EXCEPT ![t] = Nothing]
  /\ UNCHANGED <<installer, ours, theirs, base, bridge, context, jumps, proxy>>

\* The provider writes the caller's buffer later.
Complete(t) ==
  /\ Asking(t, "pending")
  /\ \E o \in Answers(call[t].x) : Return(t, Given(call[t].x, o, "direct"))
  /\ UNCHANGED <<installer, ours, theirs, base, bridge, context, jumps, proxy>>

\* There is a replacement for every GUID.
SteeredAll(x) == TRUE
\* proxy_ws2_extern_function knows the GUID.
Steered(x) == x \in Proxied

\* The context takes every pointer.
NeedsProxyAlways(x) == TRUE
\* The context takes a pointer when it has one already.
NeedsProxyInverted(x) == proxy[x] # NoPtr
\* The context takes the first pointer only.
NeedsProxy(x) == proxy[x] = NoPtr

\* The test of the pointer returned and of the context's: the latter is not
\* locked against SetProxy.
Steer(t) ==
  /\ Asking(t, "steer") /\ Steered(call[t].x)
  /\ call' = [call EXCEPT ![t].pc = IF call[t].out # NoPtr /\ NeedsProxy(call[t].x)
                                      THEN "set" ELSE "hand"]
  /\ UNCHANGED <<installer, ours, theirs, base, bridge, context, jumps, proxy, got>>

SteerNothing(t) ==
  /\ Asking(t, "steer") /\ ~Steered(call[t].x)
  /\ Return(t, Given(call[t].x, call[t].out, "hooked"))
  /\ UNCHANGED <<installer, ours, theirs, base, bridge, context, jumps, proxy>>

SetProxy(t) ==
  /\ Asking(t, "set")
  /\ proxy' = [proxy EXCEPT ![call[t].x] = call[t].out]
  /\ call' = [call EXCEPT ![t].pc = "hand"]
  /\ UNCHANGED <<installer, ours, theirs, base, bridge, context, jumps, got>>

\* The replacement is handed out for a null pointer, too.
HandOut(t) ==
  /\ Asking(t, "hand")
  /\ Return(t, [x |-> call[t].x, code |-> My(call[t].x),
                how |-> IF call[t].out = NoPtr THEN "empty" ELSE "hooked"])
  /\ UNCHANGED <<installer, ours, theirs, base, bridge, context, jumps, proxy>>

\* Where a call of the pointer t holds ends: at the pointer, or, from the
\* replacement, through THookContext::emit; nowhere, with the result 0, if the
\* context has no proxy.
Reached(t) == IF got[t].code = My(got[t].x) THEN proxy[got[t].x] ELSE got[t].code

Next ==
  \/ \E m \in Module :
       \/ OthersLoad(m) \/ OthersFree(m)
       \/ PrepareHookBridge(m) \/ PrepareWithoutPage(m) \/ PrepareWithoutModule(m)
  \/ InstallAll \/ Startup \/ StartupFails
  \/ \E f \in Function : HookByName(f)
  \/ \E t \in Thread :
       \/ \E x \in Asked :
            \/ \E o \in Answers(x) : IoctlDirect(t, x, o) \/ MyWSAIoctl(t, x, o)
            \/ MyWSAIoctlPending(t, x)
       \/ Complete(t) \/ Steer(t) \/ SteerNothing(t) \/ SetProxy(t) \/ HandOut(t)

Spec == Init /\ [][Next]_vars

-----------------------------------------------------------------------------
\* Every variable has the type of the data it stands for; only a function that
\* has a replacement gets one.
TypeOK ==
  /\ installer \in 0 .. Len(Steps)
  /\ ours \subseteq Module /\ theirs \subseteq Module /\ jumps \subseteq Function
  /\ base \in [Module -> 0 .. MaxLoads] /\ bridge \in [Module -> 0 .. MaxLoads]
  /\ context \in [Function -> [state : {"unused", "used", "unwritten"}, at : 0 .. MaxLoads]]
  /\ proxy \in [Extension -> Original \cup {NoPtr}]
  /\ \A t \in Thread : got[t].code = My(got[t].x) => got[t].x \in Proxied

\* The hooks in ws2_32 are there as long as their contexts are in use, whatever
\* the rest of the process frees.  So are those in another module while the
\* library itself holds the mapping they were put into (hook_all.cpp 12-15,
\* port_win32.c 84-89).
HooksStayMapped ==
  \A f \in Function :
     (/\ context[f].state = "used"
      /\ \/ ModuleOf[f] = "ws2_32"
         \/ ModuleOf[f] \in ours /\ context[f].at = base[ModuleOf[f]])
     => f \in jumps

\* What the hooked WSAIoctl returned at once, for a pointer of a provider, is
\* the replacement, and its call reaches the extension function asked for, of
\* some provider: the context has its proxy before the replacement is handed
\* out, whichever thread put it there (hook_all.cpp 77-81, ws2_hook_info.cpp
\* 55-66).
HandedOutPointersForward ==
  \A t \in Thread :
     (got[t].how = "hooked" /\ got[t].x \in Proxied) =>
       got[t].code = My(got[t].x) /\ Reached(t) \in For(got[t].x)

\* After finitely many calls the proxy of an extension function changes no more:
\* threads that found it empty together may each set it, but nobody replaces one
\* that was found (hook_all.cpp 80).
ProxiesSettle ==
  \A x \in Asked : \E o \in Original \cup {NoPtr} : <>[](proxy[x] = o)

=============================================================================
