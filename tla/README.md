# Verification of hooklib

hooklib (`src/hooklib`) redirects functions of a running Windows process: it writes a
jump over the first bytes of a function (*inline hook*), or a pointer into a module's
import table (*import hook*), and keeps what is needed to call the original and to put it
back. The library has 893 lines of C (`hooklib.c`), a small port layer (`port_win32.c`)
and C++ wrappers (`HooklibCPP.cpp`, templates in `callemit.h` and `value_visitor.inl`).
`hooklib_test` uses it to hook Winsock. diStorm3, the disassembler, is vendored.

This directory holds TLA+ models of that code, TLC runs that check them on small
instances, and theorems with proofs for TLAPS.

## Inventory

| Component | State | Operations | Who calls it |
|---|---|---|---|
| Hook contexts (`hooklib.c` 331-433) | `struct _hook_context_`: patched location, saved bytes and their number, proxy; the patched memory | `hook_install`, `hook_install_by_bridgeslot`, `hook_install_import`, `hook_uninstall` | the C++ wrappers, programs |
| Code relocation (`hooklib.c` 244-318) | read and write positions, the buffer | `hook_copy_code` | installs of hooks and filters |
| Jump encoders (`hooklib.c` 98-240) | none | `make_jmp_short`, `make_jmp_near`, `make_jmpc_near`, `make_jmp_qword_disp` | relocation, installs |
| Bridge slot page (`hooklib.c` 381-419, 455-498; `HooklibCPP.cpp` 6-144) | a page near the module: element 0 counts, the others are pointers that `jmp qword [slot]` reads | search, take a slot, free | x64 installs, through `CHookBridgeslot` |
| Filters (`hooklib.c` 515-892) | `struct _filter_context_`: saved bytes, register-saving stub, table of skip addresses | `filter_install`, `filter_uninstall`, `filter_skip_rip`, `filter_get_rsp` | `CFilterContext` |
| Page protection (`port_win32.c` 7-46) | protection of the page written | `port_write_memory`, `port_make_writeable`, `port_make_executeable` | every install and uninstall, visitors |
| Import lookup (`port_win32.c` 96-194) | none | `port_get_import_slot` | `hook_install_import` |
| Threads in hooked functions | entries, proxies and emitters as they are executed | the calls of a program | every thread of the process |
| Winsock program (`hooklib_test`) | one context per function, one bridge per module, the modules' reference counts | `install_ws2_all_functions`, `myWSAIoctl`, `proxy_ws2_extern_function` | the process |
| Call emitters (`callemit.h`, `macro_repeat.h`) | none of their own | `emit`, `operator()` for 0 to 15 arguments | replacement functions |
| Typed pointers (`HooklibCPP.cpp` 197-284, `value_visitor.inl`) | an address | arithmetic, checked reads and updates | programs |

**Interaction.** An install asks the encoders for a patch, relocation for a copy of the
function's head into the context's proxy (which tells how many bytes must be saved), and
the port layer to write the patch. Relocation asks the disassembler for one instruction
at a time and the encoders for the translation of each jump and call. Contexts do not know
each other: they interact through the bytes of the function they share, and through the
bridge page. Nothing is locked and no thread is stopped.

**What is hard.**

* *Order of calls.* Several contexts on one function, with patches of 2, 5, 6 or 14 bytes,
  removed in any order. Each knows only the bytes it found. A proxy made from another
  context's jump has to lead where that jump leads.
* *Failure in the middle.* A head that cannot be moved, a page that cannot be made
  writable at install or at uninstall, a protection that cannot be restored.
* *Limits.* Slots of a page, 24 and 32 bytes for a head, 64, 90 and 46 for its translation,
  the reach of 8-bit and 32-bit displacements, ints that hold distances.
* *Threads.* Callers in code being patched, two writers on a page, two installs in a page
  of slots, two answers for one extension function, a page freed between check and access.
* *Lifetime.* Modules unloaded and mapped again under their hooks, slot pages freed under
  the jumps that read them.

**What makes a component correct.** Contexts: entries are whole instructions, the original
bytes come back, a call passes every hook and reaches the body, slots keep their owners.
Relocation: the copy does what the head did and leaves where the head left, and copy and
saved bytes fit. Bridge page: found if there is one, in reach, a slot belongs to one context. Filters: the stub
saves and restores, skip addresses are instructions, nothing is overrun. Page protection:
the page stays executable and gets its protection back. Import lookup: the slot found is
the import's. Winsock: a pointer handed out forwards, a hook is where the program thinks.
Pointers: no access without a check that covers it, and no update undone by another's.

`PROJECT.json` lists the hazards with their lines, and which property covers each. Where
the code does go wrong, the model goes wrong in the same way and a property has that case
as its exception: such a hazard has no property, or a note that says what is left out.

## Modules

| Module | Models |
|---|---|
| `HookContext` | contexts, patched memory, bridge slots; one action per install, uninstall and refused call |
| `HookOrder` | `HookContext` with a history of who is installed where, and the properties that depend on the order of calls |
| `HookStack` | abstract specification: a stack of replacement functions per location |
| `HookThreads` | installs and removals step by step, under threads that execute the functions |
| `JumpEncoding` | the encoders, as the transfer that the written bytes make |
| `CopyCode` | `hook_copy_code`, one action per kind of instruction |
| `Filter` | filters: `CopyCode` with the stub around it, the skip table, filtered calls |
| `BridgePages` | the page of slots: search, concurrent installs, release |
| `ImportTable` | the search for an import's slot, and the hooks that change what it sees |
| `WinsockProgram` | the Winsock program with its modules and extension functions |
| `MemoryPtr` | typed pointers and their visitors |
| `MC...` | constants of the runs |
| `HookContextProofs`, `HookOrderProofs`, `MovedCodeProofs` (of `CopyCode` and `Filter`), `HookThreadsProofs`, `BridgePagesProofs`, `ImportTableProofs`, `WinsockProofs`, `MemoryPtrProofs` | theorems |

`HookOrder` extends `HookContext` and refines `HookStack`; `Filter` extends `CopyCode`,
which extends `JumpEncoding`. The others look at one mechanism each, in steps as small as
that mechanism's hazards need, and abstract the rest: a function is patched in one step in
`WinsockProgram`, byte by byte but atomically in `HookContext`, half by half in
`HookThreads`.

### HookContext

`mem[l]` is the image of location `l`, byte by byte. A byte is a record: the context whose
patch it belongs to (or none), the form of that patch, the bridge slot it refers to. The
value of a byte is left out; every property is about whose byte it is. `ctx[c]` has the
fields of `struct _hook_context_`, the proxy as the place a call of it leads to. `bridge`
is the slot page, `ret` the last result. The replacement function of a context is
identified with the context.

`HookInstall`, `HookInstallByBridgeslot`, `HookInstallImport` and `HookUninstall` are
whole calls. `CopyAndPatch` is the part two of them share (`hooklib.c` 340-358, 399-418):
the result of the relocation decides between clearing the context and saving, filling in
and writing. The proxy is taken to become executable: the result of
`hook_make_executeable` (344, 404) is ignored, and its failing is not modelled.
`CopySizes` is what that relocation can return for the image now at the
function. On original code this is the end of an instruction; on another context's jump,
the size of that jump or nothing when it is rip-relative. On a mixture of patches it may
be anything. `WriteMemory` has the outcomes of
`port_write_memory`: `ok`, `denied` (nothing written) and `unrestored` (written, an error
returned). `InstallRefused` covers the early returns on null arguments and on a context in
use. `SetProxyFunction` is the only other writer of a context, `proxy_ws2_extern_function`.

### HookOrder and HookStack

The code keeps no order, and what it guarantees depends on the order of its calls, so
`HookOrder` records it beside the model: `stack[l]`, `shown[l]` (those of the stack whose
jump was written, newest first), the image each context found and left (`before`,
`after`), and `clean[l]`, whether so far every removal at `l` was of the newest
context and was written. `OSpec` allows every order. `DisciplinedSpec` is the use that
removes newest first and whose uninstalls are not denied; it restricts the caller and
`VirtualProtect`, not the library. `HookStack` is what that use is promised; the refinement
maps `chain[l]` to the sequence of functions that run when `l` is called, computed by
following entry and proxies.

### HookThreads

Two threads may patch functions of one page while others call them. `port_write_memory`
is four steps: `VirtualProtect`, two halves of the memcpy in either order,
`VirtualProtect`; before them come the copy of the head, which may be shorter than the patch and end the
install, and its saving, which read the entry separately, and after them, for a removal, the memset of the context. A call fetches the entry, perhaps
the second original instruction, runs the replacement function, reads the proxy pointer in
`emit` and then executes the proxy. A head is two instructions and a patch one that covers
both, so every torn entry and every thread caught between the two instructions is there.
A fault ends the process. `stack`, `shown`, `raced` and `mixed` are history: what is
guaranteed differs for calls nobody disturbed, writers that met nobody, and functions with
a denied removal. A program removes its own hooks newest first.

### JumpEncoding, CopyCode and Filter

Code that is written is a sequence of pieces: kind, address, length, and the address to
which the *stored* displacement leads in the width it is stored in. The encoders are
operators from addresses to pieces. `CopyCode` has the positions `pfrom` and `pto`, the
pieces written (`out`) and the instructions counted (`head`), and one action per branch of
the loop. Which instruction the disassembler finds is a free choice in each step, so one
run covers every sequence of kinds the code tells apart. `GoOn` includes the exit of the
loop on an exhausted buffer, which advances twice. One call is modelled, so a behaviour
ends: the runs say `CHECK_DEADLOCK FALSE`. The build, the buffer, its size and
`mincopysize` are variables that `Init` chooses and no step changes, so that one run covers
all of them. `BufferExit` and `HeadExit` execute both versions of the head: they say where
control leaves, for a taken and for a not taken condition.

`Filter` places the buffer behind the stub (38 bytes on x86, 82 on x64, of 128) and has
what follows a head as a choice. `SkipTable` is `make_skip_array`: the walk through the
translated head (`HeadEntries`), which a jump, the end of the buffer or the disassembler
may stop, and then the code behind the original head (`BehindEntries`), which is left out
when the disassembler gave up. It may give up at an instruction the buffer's end cuts, and
at what a `7x` jump was turned into; whether it does is a choice. The stub is its pushes
and pops as sequences, and a filtered call loads each register from the word its pop
reaches. The filter function may store in any field of its structure, skip instructions
and, on x64, use the home space its caller should have left it. A call leaves nothing
behind that another meets, so one call of an install is followed. One context is installed
once, zeroed before, as `hooklib.h` 121 asks.

### BridgePages

Addresses are page numbers. `Search` looks on both sides of the module as
`hook_help_alloc_bridgeslot` does; `VirtualAlloc` takes the aligned block around an
address. An install reads the count, writes it, reads it again, saves the head, fills the
slot and patches, in six steps, with the count compared to nothing. `Free` releases the
page and leaves the pointer in the object. `seen` remembers the blocks that were free when
a bridge looked for a page, so that a search that found nothing is judged as well;
`misused` and `shared` record what the
properties exclude: a page freed under its hooks, or used by two installs at a time.

### ImportTable

An image is a list of descriptors with thunks, by name or by ordinal, with or without
`OriginalFirstThunk`; `slot` is the address table, which hooks overwrite. The operators are
the loops of `port_win32.c` as the choice of the first element they accept, including the
fallback that compares addresses, which ends at the first null slot.

### WinsockProgram

`install_ws2_all_functions` is a list of steps: `WSAStartup`, all bridges, all functions,
with its early returns. A bridge for which no page is found keeps the module's handle, and
the module stays loaded (`PrepareWithoutPage`). The tables of names come from the files
`ws2_hook_*.cpp`, `iphlpapi_hook.cpp` and `kernel32_hook.cpp`. Others load and free modules
at any time; a mapping has a number, which stands for its address. `WSAIoctl` is asked for
extension functions whose providers differ, at once or by a pending overlapped call, and
may answer with a null pointer; test and set of the context's pointer are two steps.

### MemoryPtr

Addresses, ints and elements have widths of their own: distances wrap in both of the
first. Powers of two, the number that some bytes are, and a walk byte by byte are recursive
functions, so that they can be proved about. A visitor's check, change of
protection, load and store are steps of their own; pages come, go and are protected between
them, and two visitors work at a time. What a check covers (`Covered`) and what an access
touches (`Touched`) are separate, and an access asks the processor (`MayRead`, `MayWrite`),
not the check. A visit one of whose pages somebody takes away is marked, that visit and no
other; `faulted` says whose access faulted. `want` is what memory would be had every update been
one step.

## Runs

| Run | Instance | What it shows |
|---|---|---|
| `orders_x64` | three functions (one with room for every jump, one whose head cannot be moved, one far from the replacements with room for a bridge jump only), three contexts with jumps of 2, 5, 14 and 6 bytes, 2 attempts at the bridge, every order, no failing write | entries stay whole (`EntryNeverTorn`), slots keep their owner (`SlotsNeverRedirected`), and where the order was newest first the bytes come back (`RestoredWhenReleased`) and calls pass every hook (`CallReachesOriginal`) |
| `stack_x86` | two functions (one of 5 movable bytes) and an import slot, three contexts, 2 bridge attempts, 1 failing `VirtualProtect`, newest first | `RestoredWhenReleased` and `CallReachesOriginal` with failures; the library implements `HookStack` (`IsHookStack`) |
| `copy` | both builds; patches of 2, 5, 6 and 14 bytes; buffers of 8, 46, 64 and 90 bytes, one 100 bytes below the function, one above, one out of scaled reach | heads and their translations fit (`SavedCodeFits`, `ProxyFits`), do what the head did (`HeadMoved`) and leave where it left (`LeavesAsHeadDoes`, `FarConditionalKept`) |
| `filter` | both builds; the same layouts; a filter entered by a near jump, a long one or a bridge slot; nothing, an epilogue, or 17 instructions behind the head; skip counts 0, 1, 2, 15, 16 | arrays are not overrun (`FilterFits`), calls resume at the instruction asked for (`FilteredCallResumes`), registers survive, whichever field the filter function stores in (`RegistersKept`) |
| `threads` | one thread stacks two hooks on a function, one patches another on the page, one calls both; 1 failing `VirtualProtect` | `PageStaysExecutable`, `QuietCallPerforms`, `LoneWriterNeverFaults`, `ProtectionRestored`, and that calls end (`EveryCallEnds`) |
| `bridges` | two threads, two bridge objects, pages of 2 slots, five layouts of free memory, both builds | `JumpsReadOwnSlot`, `FaultsExplained`, and that a page is found if one is in reach and none below hides it (`SearchFindsReach`) |
| `imports` | every table of up to two thunks by name and ordinal, one or two descriptors, valid or not; two modules, one with two names for a function; two contexts | `SlotImportsFunction`, `ImportsAreFound`, `SameImportSameSlot` |
| `winsock` | `ws2_32` with `WSAIoctl` and `mswsock` with `WSARecvEx`; two threads; each module mapped at most twice; the replaced, an unreplaced extension function and two providers, and answers without a pointer | `HooksStayMapped`, `HandedOutPointersForward`, and that proxies settle (`ProxiesSettle`) |
| `pointers` | two threads, 16 addresses, two mapped pages of three bytes, elements of two bytes, one thread's across the pages and the other's anywhere: beside it on either page, or on top of it; steps of -1 and 3 elements, of which 3 wraps in the int | `CheckedAccessesNeverFault`, `UpdatesNotLost`, `PointerArithmetic` |

*Bounds, and why they are enough.*

* `HookContext`: three contexts are the least for a removal from the middle of a stack, and
  give each jump form an owner; another function shows that locations do not interact and
  lets an install fail for lack of room or reach. `MaxAttempts` = 2 lets one attempt fail,
  or replace a context that has been removed. `MaxFaults` = 1 reaches the denied install,
  the denied uninstall and the unrestored protection. `Ends` places instruction ends so
  that some patches end on one and others do not. `CodeMax` covers the longest patch. The
  refinement is checked on x86; on x64 `orders_x64` checks `CallReachesOriginal`, which is
  its invariant half. Both are theorems for either build.
* `CopyCode` and `Filter`: the 32-bit reach is scaled to 1000 (`NearMax`); 8-bit
  displacements have their real width. Plain instructions have lengths 1, 3, 7 and 15 (2, 3
  and 15 for filters), the shortest, the longest and some that leave a remainder. 8 bytes
  is a buffer that is exhausted before enough is moved; 64 is what a hook context has
  (`Ample`), 90 and 46 what the x86 and the x64 filter leave. The layouts of the passing
  runs have no distances of 130 to 132 bytes, which `short_jump_edge` is about.
* `HookThreads`: three contexts are a stack of two and a neighbour on the page. One caller
  is enough, since callers change nothing that another sees.
* `BridgePages`: 13 pages of reach and 14 of search scale 2 GB and 2.25 GB; a block is four
  pages, so that the searched address and the block's differ. After a misuse, or once two
  installs have met in a page, nothing new begins (`Idle`), and the count stops one beyond
  the page (`WriteCount`).
* `WinsockProgram`: `Chosen` picks a function that is held by `WSAStartup`, and one in a
  module that others may free; `MaxLoads` = 2 is the least for a stale mapping. The tables
  hold all functions.
* `MemoryPtr`: an element of two bytes can lie across two pages and at the end of the
  address space, and six mapped bytes hold three elements, so that two threads can update
  at a time without and with a common byte; after two updates of the same bytes have met,
  no visit begins. An int of three bits holds one and two elements and not three.

What the passing runs show that is not obvious from the code:

* Whatever the order of installs and removals, the entry of a function is one whole
  instruction as long as every write succeeds, although an older context that is removed
  first writes its saved bytes over a newer one's jump. It holds because relocation takes
  another context's jump as one instruction, so that a context saves the whole of a jump it
  finds even when its own is shorter. Behind the first instruction bytes of a patch can
  remain; only newest-first removal gives every byte back.
* Slots are never taken back, and this is what makes it safe that saved bytes with an old
  bridge jump are written back late.
* The x64 filter's 46 bytes are exactly enough for a patch of six bytes without a
  conditional jump: two calls of 16 bytes and the jump of 14.
* A call that nobody patches under performs its function exactly, even while the rest of
  the page is being written; and one that was disturbed still ends, unless two patchers met
  at its function or a removal was denied there. In the last case the cleared context can
  be installed again over its own jump, and its proxy then leads to itself.
* A bridge gets a page in reach if one is free, above the module too; but a block just out of reach
  below hides one in reach above.
* Whichever of two threads sets an extension function's proxy last, both pointers handed
  out work, and the proxy changes no more once it is set and nobody is between test and
  set. The answer of a pending `WSAIoctl` is not replaced, and where the provider's answer is
  a null pointer the caller gets the replacement all the same.

### Disagreements between code and documentation

Each has a run of its own with one property that TLC violates.

| Run | Code | What it contradicts |
|---|---|---|
| `short_jump_edge` | the two-byte form is chosen for 130 to 132 bytes, where its offset wraps (`hooklib.c` 176) | `hooklib.h` 59: the copy ends in a jump to `from + copysize` |
| `conditional_jumps` | the six-byte conditional jump gets the displacement of a five-byte one, and a `7x` jump is not converted: no `0f` is written (222-231) | `hooklib.h` 53: the proxy performs the original function |
| `far_jump_overflow` | x64, 14 bytes to move: the translation does not fit (256, 312) | the 64 bytes declared at `hooklib.h` 53 |

Other things the models contain as the code has them, with no run of their own:

* `loop` and `jecxz` are counted though nothing is written for them (`hooklib.c` 293-310),
  and on an exhausted buffer the last length is added twice (308, 310). `LeavesAsHeadDoes`
  speaks of heads that end in another instruction and of `Ample` buffers.
* `hook_install` returns 0 though the write was denied (356); `hook_uninstall` forgets the
  saved bytes of a jump it could not remove (430).
* The slot count grows with failed attempts and is compared with nothing (393).
* Without a slot the x64 filter's jump leads to the pointer in front of the stub (683).
* Two installs in one slot page at a time can get the same slot (393-394).

## Fairness

Only `HookThreads` needs it, for `EveryCallEnds`: weak fairness of each caller's own steps,
`WF_vars(CallerStep(t))`. Windows schedules every thread that can run, and no step of a
call waits for a lock. Nothing is assumed of patchers, and nothing obliges a thread to call,
install or remove. `ProxiesSettle` of `WinsockProgram` holds
without fairness: only threads that saw the pointer empty set it, and there are finitely
many. All other specifications are of safety.

## Proofs

All theorems are checked by TLAPS from nothing but the assumptions named in the modules;
they hold for every value of the constants that satisfies these. TLC evaluates every
assumption on the instances of the runs.

| Theorem | Property | Argument |
|---|---|---|
| `HookContextProofs!TypeCorrect` | `HookContext!TypeOK` | inductive as it stands |
| `HookContextProofs!BridgeStable` | `SlotsNeverRedirected` | not inductive alone: it must also be known that a byte with a bridge form has a slot the count has passed, or the next install could fill that very slot. `BytesSound` says so of memory and of saved bytes, which is what an uninstall needs |
| `HookContextProofs!EntriesWhole` | `EntryNeverTorn` | `WholeInv`: every saved image, as well as every image in memory, begins with a whole instruction as far as it will be written back |
| `HookOrderProofs!Restored` | `RestoredWhenReleased` | `OInv`: at each clean location the contexts on the stack are those in use there, the oldest found the original image and each other what the one below it left, the newest left what is there now, and each can be undone. The key lemma, `Undo`: laying n bytes over an image and then at least as many of its own over the result gives it back |
| `HookOrderProofs!CallsReachOriginal` | `CallReachesOriginal` | `CInv`: at a clean location the entry leads to the newest shown context, and the proxy of each to the next (`Linked`). The bounded chase of entry and proxies that `CallChain` makes is then computed backwards from the body, and shown contexts are distinct, so there are enough steps for them (`FiniteAssumption`) |
| `HookOrderProofs!ContextsAreStacks` | `IsHookStack` | by the same invariant `CallChain(l)`, the refinement's `chain[l]`, is the shown list with the body behind it, so an install maps to a push, a removal to a pop, and everything else to a stutter |
| `MovedCodeProofs!SavedCodeAlwaysFits`, `ProxyAlwaysFits` | `SavedCodeFits`, `ProxyFits` | `CountInv`: `5 * pto <= 16 * pfrom`, since a call of 5 bytes grows to at most 16 and nothing grows more; on x86 nothing that is decoded further grows; while decoding `pfrom < mincopysize`. For a patch of six bytes at most 16 are written before the last instruction, 30 for it, 14 for the jump behind it. Buffers of 46 bytes or more (`Roomy`) are never exhausted |
| `MovedCodeProofs!FilterAlwaysFits` | `FilterFits` | `CountInv`, and `ShortTail`: six bytes that do not end in a conditional jump take at most 32, and 46 with the jump |
| `MovedCodeProofs!PiecesTyped` | `CopyCode!TypeOK` | every encoder writes pieces behind `There`, and the position it leaves is the end of the last |
| `MovedCodeProofs!HeadAlwaysMoved` | `HeadMoved` | `MoveInv`: the transfers of the pieces written so far are those of the instructions counted so far; a long call is one transfer, however many pieces it has, and jumps are none |
| `MovedCodeProofs!LeavesAsHead`, `FarConditionalsKept` | `LeavesAsHeadDoes`, `FarConditionalKept`, each where `Apart` holds | `LeaveInv`: while decoding, control flows through all that was written (`Flows`); behind the last instruction it flows on, or a jump in one of its three forms (`JumpsTo`), or the split of a conditional one (`SplitsAt`) is at the end of it, and what is written later is elsewhere (`MoreWritten`) |
| `MovedCodeProofs!FilterTyped` | `Filter!FTypeOK` | `TableInv`: the table is cut at `MAX_SKIP_RIP`, wherever the addresses in it come from |
| `MovedCodeProofs!RegistersAlwaysKept` | `RegistersKept` | `CallInv`: the pops reverse the pushes, names are distinct, so the word a pop reaches is the one its register was pushed to, with the filter function's store in it, whichever field that is |
| `MovedCodeProofs!FilteredCallAlwaysResumes` | `FilteredCallResumes` | `WalkInv`: as long as a head has plain instructions and calls only, its pieces lie one behind the other (`Laid`), control flows through all of them, and the one that may follow is a jump (`Ended`). `ResumeInv`: the table has the addresses of the first pieces and, behind these, of the instructions behind the head (`Tabled`). If the buffer leaves at the rest of the function, the pieces are all there is before that jump, they fit (`FilterAlwaysFits`), and so each entry is what `Follow` makes of the one before: inside the buffer, across the jump, and in the function, whose addresses the buffer shares with none |
| `HookThreadsProofs!TypesKept` | `HookThreads!TypeOK` | with `WriteInv` |
| `HookThreadsProofs!ExecutableThroughout` | `PageStaysExecutable` | the protections that writers remember are executable too |
| `HookThreadsProofs!LoneWriter`, `ProtectionComesBack` | `LoneWriterNeverFaults`, `ProtectionRestored` | as long as writes have not overlapped, at most one writer is in its write, the page is then writable, and what it remembers is the protection at rest |
| `HookThreadsProofs!QuietCalls` | `QuietCallPerforms` | `OrderInv`: at a function that was not raced for, the saved halves of the contexts chain from the original up (`Stacked`), the one patcher that is busy there knows what it found (`Working`), and when none is busy the entry is what the newest left; a quiet call has passed a beginning of the shown list (`Quiet`) |
| `BridgePagesProofs!TypesKept` | `BridgePages!TypeOK` | `TypeInv` and `Placed`: pages are aligned blocks outside the module, taken from the free ones, and a count stops one beyond the page |
| `BridgePagesProofs!SlotsKeepOwners`, `FaultsHaveCauses` | `JumpsReadOwnSlot`, `FaultsExplained` | a thread alone in a page knows its count between its steps, the last slot is new until it has filled it, and every slot a jump reads is below the count |
| `BridgePagesProofs!NearestFirst` | `SearchFindsReach` | `SeenInv`: each object holds what serves it best of the blocks that were free when it looked, nothing only if nothing does. The search goes outwards on each side, so its first hit is the nearest block there, and of two blocks on one side the nearer is in reach if the farther is; block and searched address differ by less than a block |
| `ImportTableProofs!ImportTypes`, `SearchIsRight`, `SearchIsComplete`, `ContextsShareSlots` | `TypeOK`, `SlotImportsFunction`, `ImportsAreFound`, `SameImportSameSlot` | `SlotInv`: a slot holds what the loader put there or a context, saved pointers are such pointers, and every context in use hooks a slot of its function in the descriptor the search looks at |
| `WinsockProofs!TypesKept` | `WinsockProgram!TypeOK` | `MapInv` and `PointerInv` |
| `WinsockProofs!PointersForward` | `HandedOutPointersForward` | a thread about to hand out the replacement has seen the proxy set, and a set proxy is never cleared |
| `WinsockProofs!HooksStay` | `HooksStayMapped` | a mapping is named by its count, a context remembers that in which it hooked, and a held module keeps its mapping and its jumps; `WSAStartup` holds `ws2_32`. Other modules are covered while the library holds the mapping the hook was written in: one that others alone hold is unmapped under its hooks, in the model as in the code |
| `MemoryPtrProofs!TypesKept` | `MemoryPtr!TypeOK` | a number made of `n` bytes is below `256^n`, taken apart again it gives bytes; nothing that a visit touches lies outside the pages it has checked |
| `MemoryPtrProofs!OnlyDisturbedFault` | `CheckedAccessesNeverFault` | what a visitor whose own pages nobody took has checked, or opened for writing, still holds of its pages, whatever happens to other visits: visitors only open pages |
| `MemoryPtrProofs!NoUpdateLost` | `UpdatesNotLost` | `UpdateInv`: until two updates of the same bytes meet, those under way touch different bytes, and the word each has loaded is still what is in memory |
| `MemoryPtrProofs!ArithmeticIsRight` | `PointerArithmetic` | addresses and ints are remainders of powers of two, the smaller dividing the larger: a sum may be reduced before or after, and a distance that fits is the only one with its remainder |

*Assumptions.* Constants are disjoint where the code's addresses are, and sizes are what the
callers pass. Those that say more:

* `HookOrder!FiniteAssumption`: a process has finitely many contexts.
* `BridgePages!BridgeAssumption`: the module begins at a block of the address space and
  lies above the span searched below it; free blocks are aligned, outside the module, and
  not at address 0; blocks have three pages or more.
* `Filter!FilterAssumption`: addresses are not negative, and a context is no part of the
  function it is for: where the code behind the head begins, at most `SavedMax` bytes from
  the function's first one, the buffer's 90 bytes end before or begin behind that code.
* `ImportTable!ImportAssumption`, `LoaderAssumption`: a replacement function is no module's
  export and not null, and the loader fills every slot with a pointer that is not null.
* `MemoryPtr!MemoryAssumption`: an int is no wider than an address, and a page ends within
  the address space.
* `WinsockProgram!TablesAssumption`: the tables name modules and functions. TLC computes it
  of the tables the program has.
* `Apart` is not an assumption but a hypothesis of two theorems. It says of buffers and
  targets that no distance is of the 130 to 132 bytes at which the two-byte jump is wrong,
  that no jump of the head leads into the buffer or the head, and that the buffer does not
  reach across the limit of 32-bit displacements. Without it the two properties are false:
  `short_jump_edge` shows one way. `MCCopyCode!LayoutsApart` evaluates it for the layouts
  of the runs.

*Induction.* The library's induction theorems take an operator, which the provers cannot
instantiate. Inductions are over sets of numbers instead: `NatSetInduction` (`UpTo` in
`MemoryPtrProofs`) says that a set with 0 and with the successor of each of its members
holds all numbers, and the set is what a proof chooses. That a recursive function exists
is proved in the same way, as a set of numbers up to which one does.

**Model-checked only.**

* `EveryCallEnds` and `ProxiesSettle` are liveness, out of the prover's reach, as is
  whatever is said with `ENABLED`.
* `LeavesAsHeadDoes` and `FarConditionalKept` where `Apart` fails.
* What the violated properties of the three disagreements say: they are false.

## Not modelled

* diStorm3 is vendored; its answers are the inputs of `CopyCode` and `Filter`.
* `DllMain` does nothing; `opcode_tables_x86.h` (2330 lines) is included by nothing.
* The straight-line demonstrations in `hooklib_test.cpp` and `x64Test.cpp` only use the API.
* The emitter for functions without a result (`callemit.h` 36 has no break): nothing
  instantiates it. `CFilterContext::install` takes the result of `filter_install` the wrong
  way round (`HooklibCPP.cpp` 170); its only caller ignores it.
* `hook_make_executeable` of a context's own page (`port_win32.c` 23-33) is taken to
  succeed. The installs ignore its result, and its failing would leave a proxy that faults
  when it is called.
* The macros of `macro_repeat.h` and `HooklibCPP.h` that write `operator()` and `emit` for 0
  to 15 parameters, and the call types: text the compiler expands, with no state to
  follow; a model of it would have to restate the tables it is meant to check.
* `memory_ptr` from a module's name, and the results of the visitors' postfix operators.
* Branches from elsewhere in a function into the bytes that are moved: nothing in the code
  looks for them, and the models have only the head.
* A second `filter_install` of a context in use, against `hooklib.h` 121.
* The rounding of the address behind a module (`hooklib.c` 481): a module's size is a
  multiple of a page, so that it moves nothing.
* The values of bytes and registers, the flushing of instruction caches, allocation at
  address 0, and the unloading of a provider's module while its function is in use.

## Running

    tlc -workers 2 -config orders_x64.cfg MCHookOrder
    tlc -workers 2 -config copy.cfg MCCopyCode
    tlc -workers 2 -config threads.cfg MCHookThreads
    tlapm BridgePagesProofs.tla

A cfg is named after its run; `stack_x86` goes with `MCHookOrder`, `filter` with
`MCFilter`, `bridges` with `MCBridgePages`, `imports` with `MCImportTable`, `winsock` with
`MCWinsockProgram`, `pointers` with `MCMemoryPtr`, the three disagreements with
`MCCopyCode`. Every run ends in about two minutes or less.
