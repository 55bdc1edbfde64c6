------------------------------ MODULE MemoryPtr ------------------------------
(***************************************************************************)
(* memory_ptr, type_ptr_t and value_visitor_t (HooklibCPP.h 150-258,       *)
(* HooklibCPP.cpp 197-284, value_visitor.inl): pointers that can be moved  *)
(* anywhere, and visitors that look whether memory may be used before they *)
(* use it.  One pointer is moved by the first thread, which visits what it *)
(* points at; other threads visit addresses of their own; anybody may free *)
(* pages or change their protection, also between a visitor's check and    *)
(* its access.                                                             *)
(*                                                                         *)
(* An address has AddressBits bits, an int IntBits: fewer on x64.  A byte  *)
(* is 0 or 1; an element has Size of them, sizeof(_type), and a stored     *)
(* pointer AddressBits, sizeof(void* ).                                    *)
(***************************************************************************)
EXTENDS Integers

CONSTANTS
  Thread, First, \* threads; the one that has the pointer
  Visited,       \* Visited[t]: where the other threads visit
  AddressBits, IntBits, Size,
  PageBytes,
  Pages,         \* pages that are mapped at times; all others never are
  Steps          \* numbers of elements by which the pointer is moved or indexed

\* PowerOfTwo[n] is 2 ^ n.
PowerOfTwo[n \in 0 .. AddressBits] == IF n = 0 THEN 1 ELSE 2 * PowerOfTwo[n - 1]

\* Numbers of addresses, and of ints.
Addresses == PowerOfTwo[AddressBits]
Ints == PowerOfTwo[IntBits]

Address == 0 .. Addresses - 1
Value == 0 .. PowerOfTwo[Size] - 1

ASSUME MemoryAssumption ==
  /\ First \in Thread /\ Visited \in [Thread -> Address]
  /\ AddressBits \in Nat /\ IntBits \in 2 .. AddressBits
  /\ Size \in 1 .. AddressBits /\ PageBytes \in Nat \ {0}
  /\ \A g \in Pages : g > 0 /\ (g + 1) * PageBytes <= Addresses
  /\ Steps \subseteq Int

VARIABLES
  ptr,  \* the address in the pointer
  prot, \* prot[g]: protection of page g; "free" is no access as well,
        \* "read" may be executed or not
  mem,  \* mem[a]: the byte at a
  want, \* the bytes, had every update been one step (history)
  raced,\* two visitors updated the same bytes at a time (history)
  job,  \* job[t]: the visitor call thread t is in
  faulted \* threads whose access was not allowed: the process ends

vars == <<ptr, prot, mem, want, raced, job, faulted>>

Bytes == {a \in Address : a \div PageBytes \in Pages}
NoJob == [pc |-> "idle", op |-> "none", a |-> 0, loaded |-> 0, disturbed |-> FALSE]

Init ==
  /\ ptr = 0
  /\ prot \in [Pages -> {"free", "read"}]
  /\ mem = [a \in Bytes |-> 0] /\ want = mem
  /\ raced = FALSE /\ faulted = {}
  /\ job = [t \in Thread |-> NoJob]

-----------------------------------------------------------------------------
(* Pointers *)

ToInt(n) == LET low == n % Ints IN IF 2 * low < Ints THEN low ELSE low - Ints
ToAddress(n) == n % Addresses

add(p, bytes) == ToAddress(p + bytes)
sub(p, bytes) == ToAddress(p - bytes)

\* sizeof(_type)*type_count is a size_t, passed as an int.
Scaled(n) == ToInt(ToAddress(Size * n))
Plus(p, n) == add(p, Scaled(n))
\* Only + passes the distance as an int.
MinusWide(p, n) == sub(p, ToAddress(Size * n))
Minus(p, n) == sub(p, Scaled(n))

Here(t) == job[t].pc = "idle" /\ faulted = {}
\* Bound of the model: after a race of two updates no visit is begun.
Idle(t) == Here(t) /\ ~raced

\* ++, --, += and -=: only the last two go by elements.
Move ==
  /\ Here(First)
  /\ ptr' \in {add(ptr, 1), sub(ptr, 1)} \cup {Plus(ptr, n) : n \in Steps} \cup {Minus(ptr, n) : n \in Steps}
  /\ UNCHANGED <<prot, mem, want, raced, job, faulted>>

-----------------------------------------------------------------------------
(* Visitors *)

\* The bytes of n from a on, across the end of the address space as well.
Span(a, n) == {ToAddress(a + i) : i \in 0 .. n - 1}
Element(a) == Span(a, Size)

Mapped(S) == \A a \in S : a \in Bytes /\ prot[a \div PageBytes] # "free"
Open(S) == \A b \in S : prot[b \div PageBytes] = "execute_write"

\* One byte is checked, whatever the size.
CoveredOne(a, size) == {a}
\* What a check of size bytes covers; a range that wraps ends in page 0, which is
\* never mapped.
Covered(a, size) == Span(a, size)

hook_is_readable(a, size) == Mapped(Covered(a, size))
hook_is_writeable(a, size) == Mapped(Covered(a, size)) /\ Open(Covered(a, size))

\* What the access itself touches: a void* or an element.
Touched(op, a) == IF op = "deref" THEN Span(a, AddressBits) ELSE Element(a)

\* What the processor allows.
MayRead(op, a) == Mapped(Touched(op, a))
MayWrite(op, a) == MayRead(op, a) /\ Open(Touched(op, a))

Number(bits, n) ==
  LET low[i \in 0 .. n] == IF i = 0 THEN 0 ELSE low[i - 1] + bits[i - 1] * PowerOfTwo[i - 1]
  IN low[n]
Word(m, a, n) == Number([i \in 0 .. n - 1 |-> m[ToAddress(a + i)]], n)
Stored(m, a, v) ==
  [b \in Bytes |-> IF b \in Element(a) THEN (v \div PowerOfTwo[ToAddress(b - a)]) % 2 ELSE m[b]]

\* The visited address: *p or p[n], or the thread's own.
Targets(t) == IF t = First THEN {ptr} \cup {Plus(ptr, n) : n \in Steps} ELSE {Visited[t]}

Updates == {"set", "add", "sub"}
Overlap(t, a) ==
  \E u \in Thread \ {t} : job[u].pc # "idle" /\ job[u].op \in Updates /\ Element(job[u].a) \cap Element(a) # {}

\* set_value, add_value, sub_value: a call whose check fails has no effect.
BeginUpdate(t, op, a) ==
  /\ Idle(t) /\ a \in Targets(t) /\ op \in Updates
  /\ hook_is_readable(a, Size) \/ hook_is_writeable(a, Size)
  /\ job' = [job EXCEPT ![t] = [NoJob EXCEPT !.pc = "open", !.op = op, !.a = a]]
  /\ raced' = Overlap(t, a)
  /\ UNCHANGED <<ptr, prot, mem, want, faulted>>

\* get_value, and operator* of memory_ptr, which replaces the pointer.
BeginRead(t, op, a) ==
  /\ Idle(t)
  /\ \/ op = "get" /\ a \in Targets(t) /\ hook_is_readable(a, Size)
     \/ op = "deref" /\ t = First /\ a = ptr /\ hook_is_readable(a, AddressBits)
  /\ job' = [job EXCEPT ![t] = [NoJob EXCEPT !.pc = "read", !.op = op, !.a = a]]
  /\ UNCHANGED <<ptr, prot, mem, want, raced, faulted>>

\* operator* of a pointer to unreadable memory is the invalid pointer.
DerefUnreadable ==
  /\ Here(First) /\ ~hook_is_readable(ptr, AddressBits)
  /\ ptr' = 0
  /\ UNCHANGED <<prot, mem, want, raced, job, faulted>>

\* The access, at the moment it is made.
Access(t, allowed, step) ==
  IF allowed THEN step /\ UNCHANGED faulted
  ELSE faulted' = {t} /\ UNCHANGED <<ptr, mem, want, job>>

Read(t) ==
  /\ job[t].pc = "read" /\ faulted = {}
  /\ Access(t, MayRead(job[t].op, job[t].a),
            /\ ptr' = IF job[t].op = "deref" THEN Word(mem, job[t].a, AddressBits) ELSE ptr
            /\ job' = [job EXCEPT ![t] = NoJob]
            /\ UNCHANGED <<mem, want>>)
  /\ UNCHANGED <<prot, raced>>

\* The page can be written and no longer executed.
WriteableData == "write"
\* PAGE_EXECUTE_READWRITE; the old protection is not restored.
Writeable == "execute_write"

hook_make_writeable(t) ==
  /\ job[t].pc = "open" /\ faulted = {} /\ Mapped(Covered(job[t].a, Size))
  /\ prot' = [g \in Pages |->
               IF \E b \in Covered(job[t].a, Size) : b \div PageBytes = g THEN Writeable ELSE prot[g]]
  /\ job' = [job EXCEPT ![t].pc = IF job[t].op = "set" THEN "store" ELSE "load"]
  /\ UNCHANGED <<ptr, mem, want, raced, faulted>>

\* VirtualProtect refuses, also for reasons outside the model: false is returned.
MakeWriteableDenied(t) ==
  /\ job[t].pc = "open" /\ faulted = {}
  /\ job' = [job EXCEPT ![t] = NoJob]
  /\ UNCHANGED <<ptr, prot, mem, want, raced, faulted>>

Load(t) ==
  /\ job[t].pc = "load" /\ faulted = {}
  /\ Access(t, MayRead(job[t].op, job[t].a),
            /\ job' = [job EXCEPT ![t].pc = "store", ![t].loaded = Word(mem, job[t].a, Size)]
            /\ UNCHANGED <<ptr, mem, want>>)
  /\ UNCHANGED <<prot, raced>>

\* The updates are by one.
\* sub_value adds.
UpdatedUp(op, old) == IF op = "set" THEN 1 ELSE (old + 1) % PowerOfTwo[Size]
Updated(op, old) ==
  CASE op = "set" -> 1
    [] op = "add" -> (old + 1) % PowerOfTwo[Size]
    [] op = "sub" -> (old - 1) % PowerOfTwo[Size]

Store(t) ==
  /\ job[t].pc = "store" /\ faulted = {}
  /\ Access(t, MayWrite(job[t].op, job[t].a),
            /\ mem' = Stored(mem, job[t].a, Updated(job[t].op, job[t].loaded))
            /\ want' = Stored(want, job[t].a,
                              CASE job[t].op = "set" -> 1
                                [] job[t].op = "add" -> (Word(want, job[t].a, Size) + 1) % PowerOfTwo[Size]
                                [] job[t].op = "sub" -> (Word(want, job[t].a, Size) - 1) % PowerOfTwo[Size])
            /\ job' = [job EXCEPT ![t] = NoJob]
            /\ UNCHANGED ptr)
  /\ UNCHANGED <<prot, raced>>

-----------------------------------------------------------------------------
\* Somebody else frees, maps or protects a page; the visits there that need what
\* is taken away are disturbed.
Protect(g, p) ==
  /\ faulted = {} /\ prot[g] # p
  /\ prot' = [prot EXCEPT ![g] = p]
  /\ job' = [t \in Thread |->
               IF /\ job[t].pc # "idle" /\ (p = "free" \/ job[t].op \in Updates)
                  /\ \E a \in Touched(job[t].op, job[t].a) : a \div PageBytes = g
                 THEN [job[t] EXCEPT !.disturbed = TRUE] ELSE job[t]]
  /\ UNCHANGED <<ptr, mem, want, raced, faulted>>

Next ==
  \/ Move \/ DerefUnreadable
  \/ \E t \in Thread :
       \/ \E a \in Targets(t), op \in Updates : BeginUpdate(t, op, a)
       \/ \E a \in Targets(t), op \in {"get", "deref"} : BeginRead(t, op, a)
       \/ Read(t) \/ hook_make_writeable(t) \/ MakeWriteableDenied(t) \/ Load(t) \/ Store(t)
  \/ \E g \in Pages, p \in {"free", "read"} : Protect(g, p)

Spec == Init /\ [][Next]_vars

-----------------------------------------------------------------------------
\* Every variable has the type of the data it stands for.  A page that a
\* visitor opened for writing can still be executed.
TypeOK ==
  /\ ptr \in Address
  /\ prot \in [Pages -> {"free", "read", "execute_write"}]
  /\ mem \in [Bytes -> {0, 1}] /\ want \in [Bytes -> {0, 1}]
  /\ raced \in BOOLEAN /\ faulted \subseteq Thread
  /\ \A t \in Thread : job[t].a \in Address /\ job[t].loaded \in Value

\* Wherever a pointer leads, beyond the end of the address space or across pages
\* of different protection, a visitor's access faults only if somebody took one of
\* the pages it needs from this very visit between its check and its access: what
\* is checked, and opened for writing, is all that is touched, and no other
\* visitor takes anything away (value_visitor.inl 114-177, HooklibCPP.cpp 230-274).
CheckedAccessesNeverFault == \A t \in faulted : job[t].disturbed

\* As long as no two updates of the same bytes were under way at a time, memory
\* is what the updates one after the other make of it, whatever else was
\* refused, freed or protected; their load and store are two steps
\* (value_visitor.inl 116-177).
UpdatesNotLost == raced \/ mem = want

\* The bytes of n elements are an int.
FitsInt(n) == Scaled(n) = Size * n

\* As many ++ as an element has bytes.
ByteByByte(p) == LET up[i \in 0 .. Size] == IF i = 0 THEN p ELSE add(up[i - 1], 1) IN up[Size]

\* From wherever the pointer is: going forward and back by any number of
\* elements, one whose size in bytes overflows the int included, returns to the
\* same address; distances that fit add up; and as many ++ as an element has
\* bytes are one +=1 (value_visitor.inl 27-85, HooklibCPP.cpp 233-284).
PointerArithmetic ==
  /\ \A n \in Steps : Minus(Plus(ptr, n), n) = ptr /\ Plus(Minus(ptr, n), n) = ptr
  /\ \A n, k \in Steps :
       FitsInt(n) /\ FitsInt(k) /\ FitsInt(n + k) => Plus(Plus(ptr, n), k) = Plus(ptr, n + k)
  /\ FitsInt(1) => ByteByByte(ptr) = Plus(ptr, 1)

=============================================================================
