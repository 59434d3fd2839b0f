# Verification of uGC

uGC is a garbage collector for .NET programs that run once, on one RISC-V hart,
inside a zkVM. It allocates, never frees and never collects. What it must get
right is therefore small and unforgiving: objects must not overlap, must be
aligned and must lie in real memory; and handles, the one resource it recycles,
must never be handed to two owners. The repository also publishes the library:
its release workflow and its signing script must not publish what was not listed
and signed. This directory holds TLA+ models of both, TLC runs on small
instances, and TLAPS proofs of the safety properties for every instance
(section 5 lists what only TLC checks).

## 1. Inventory

### Components

| Component | Source | State | Operations |
|---|---|---|---|
| Object allocator core | `ugc/core/ugc_core.c:19-124` | the allocation context of each thread (`alloc_ptr`, `alloc_limit`) | `ugc_core_alloc`: overflow test, direct path, bump path, refill path |
| Zeroing allocator | `ugc/core/ugc_zalloc.c` | the C heap | `ugc_zalloc` = `calloc` |
| Handle store core | `ugc/core/ugc_core.c:126-336` | four parallel arrays of `UGC_HANDLE_COUNT` slots, a count, a LIFO free stack | create (3), destroy, accessors, slot operations, reset |
| Handle manager and store interface | `ugc/uGCHandleManager.cpp`, `ugc/uGCHandleStore.cpp` | none of its own | the `IGCHandleManager`/`IGCHandleStore` methods, as calls of the core |
| Heap | `ugc/uGCHeap.cpp` | `allocatedBytes`, a frozen-segment counter | `Alloc` with accounting; some ninety methods that are constants or no-ops |
| Entry points | `ugc/uGC.cpp` | the heap and handle-manager pointers, the one handle store | `GC_Initialize`, `GC_VersionInfo`; the manager's `Initialize` |
| Signing script | `tools/sign_package.py` | files: packages, lists, signatures | `list-files`, `merge`, `files`, `check-files`, `list-nupkg`, `embed`, `nupkg` |
| Release workflow | `.github/workflows/release.yml` | jobs, artifacts, the release | build, sign, release, and running them again |
| Frama-C driver, tests, build, CI | `formal/`, `tests/`, `build.sh`, CMake and Docker files, `ci.yml` | none | none |

### Interactions

The runtime calls the C++ classes through the CLR's GC interface. They forward to
the C core. `uGCHeap::Alloc` adds accounting to `ugc_core_alloc`. Between calls
the runtime bumps `alloc_ptr` of a context on its own (the inline allocation
helpers): the context is state shared between the GC and code that is not here.
Handles are the addresses of slots, so the runtime also reads objects through
them without a call.

All handle stores are one: `CreateHandleStore` returns the global store, and
`DestroyHandleStore` does nothing.

The target has one hart, the core has no locks, and the code relies on it: a call
runs to its end before the next one starts. There are no messages, no timeouts
and nothing that is waited for, and the GC persists nothing. The hard behaviour
is in long sequences of calls, in boundaries (exactly full windows, full arrays,
wrap-around of `size_t`) and in failures of `calloc` in the middle of a sequence.

The signing script and the workflow are the opposite: short sequences, but on
files that survive a crash, a cancelled job and a rerun. The script writes a file
by emptying it first, and a package by overwriting its directory; the
workflow hands artifacts from job to job, and the attempts of one run share the
artifacts and the release.

### What makes each component correct

- **Allocator.** Objects are disjoint, header included; each lies in memory that
  `calloc` returned; each is 8-byte aligned although headers have 4 bytes on
  RV32; the window of a context stays inside one quantum; an enormous size fails
  rather than wraps; a failure changes nothing; the byte counters are exact.
- **Handle store.** A create returns a handle nobody holds, and fails only when
  all slots are live; a destroy frees one handle, a double destroy none; an
  access affects one handle; a recycled slot shows nothing of its previous
  owner; the array grows only to the peak number of live handles.
- **Heap interface.** What is reported as committed is held, and the reports
  agree; the handles of frozen segments differ.
- **Heap and handles together.** A handle in use refers to null or to an object
  that was served, and shows what its owner stored last, although all stores
  share one array.
- **Signing.** Files that were signed pass the check, and no file or line is lost
  between listing, merging and signing; a package with both entries holds the list
  of its own entries and nobody else's signature; a stopped command is safe to
  retry.
- **Release.** The files of a release are of one build, with their list and a
  trusted signature, whichever step failed and was run again.

The hazards, with the line where each bites and the properties that would catch
it, are listed in `PROJECT.json`.

## 2. Modules

| Module | What it is |
|---|---|
| `HandleCore` | the C handle store: one operator per function, on the arrays, the counters and the free stack |
| `HandleManager` | extends `HandleCore` with the C++ methods, one action each, and the runtime as their caller |
| `HandleCalls` | extends `HandleManager` with a record of the last call, and relates it to `HandleTable` |
| `HandleTable` | abstract specification: a table of handles without stack, counters or tags, and the answer it demands to each call |
| `HandleContract` | extends `HandleCore` with the weakest client the ACSL contracts of `ugc_core.h` admit |
| `HandleMisuse` | extends `HandleManager` with mistakes on slots that the C++ layer does not stop |
| `CoreAlloc` | the allocator core, `ugc_zalloc`, `uGCHeap::Alloc` and the runtime's inline bump |
| `ObjectHeap` | abstract specification of allocation: a growing set of disjoint objects |
| `GCHeap` | extends `CoreAlloc` with the rest of `IGCHeap` |
| `GCRuntime` | composes `CoreAlloc` (extended) and `HandleManager` (instance) behind `GC_Initialize` |
| `SignLists` | lists and signatures: the script's functions on them |
| `SignFiles`, `SignNupkg` | the script's commands on files and on packages |
| `Release` | the workflow, using `SignLists` |
| `MCHandleManager`, `MCCoreAlloc`, `MCGCHeap`, `MCGCRuntime`, `MCSignFiles`, `MCSignNupkg`, `MCRelease` | instances for TLC |
| `HandleManagerProofs`, `HandleContractProofs`, `HandleMisuseProofs`, `CoreAllocProofs`, `SignFilesProofs`, `SignNupkgProofs`, `ReleaseProofs` | theorems and proofs about the module of that name; the refinements of `HandleTable` and `ObjectHeap` are in the first and the fourth |
| `GCProofs` | theorems and proofs about `GCHeap` and `GCRuntime` |

### Correspondence with the code

**Handles.** The variables carry the names of the C statics. A pointer is a
number and `NULL` is 0; the address of slot `i` is `HandlesBase + i * PtrSize`,
and `ugc_handle_store_contains` and `ugc_handle_index` are the code's range test
and pointer subtraction on these numbers. `ret` holds what the last call returned
(`NULL` for a void function, 1 and 0 for a `bool`). `ugc_handle_types` is zero
initially and after a reset, as in C, so a slot never taken has type 0 and not
the free tag: `Live` needs both the count and the tag. `peak` in `HandleManager`
is a history variable, the most handles that were ever live at once. `HandleCalls`
adds another, `call`: the method called last and its arguments. The table judges a
step as the answer to that call, so a create that returned null with a slot free,
or a destroy that did nothing, could not pass for some other call.

*Who calls what.* In `HandleManager` the runtime dereferences live handles only,
and may destroy a live handle, a destroyed one, `NULL` or the address one past
the end of the array. `HandleContract` drops this discipline: any index the
`requires` clauses admit, so destroyed and never-taken slots may be read, written
and retyped, and the store may be reset at any time (as the unit tests do).

**Allocation.** Addresses are numbers below `HeapLimit`; `size_t` sums wrap at
`SIZE_MAX + 1`. `calloc` is external: it returns any aligned place that no block
holds, or fails, at every call. The object at `a` has its header before `a`; its
size pays for the header of the next object, and the refill path's plug skew
pays for the first. `Account` is the accounting of `uGCHeap::Alloc`.
`allocatedBytes` and the per-context counters are 64-bit in the code and
unbounded in the model. `FastAlloc`, the runtime's inline helper, is external and
modelled from the meaning of the context. `objects` is history. That memory
is zero when handed out is not a variable: it follows from disjointness, since
`calloc` zeroes a block and no byte of it is handed out twice.

`ObjectHeap` has no blocks, windows or paths. The refinement mapping keeps
address and size of every object, `allocatedBytes` and the result.

**Mistakes.** `HandleMisuse` keeps the methods as they are and lets the runtime
call them on slots where it must not: duplicates of destroyed handles (type -1 is
created), `SetExtraInfoForHandle` on slots that are not live, destroys of slots
never handed out (`uGCHandleStore.cpp:54` tests the bounds of the array, the
contract wants `idx < ugc_handle_count`), and writes to any slot. The pointers
are addresses of slots: an access through `NULL` or through a pointer outside the
array, which no method but `uDestroyHandle` and `ContainsHandle` tests for, is
undefined behaviour and not modelled. Two variables are history: `stale` counts
the stale duplicates, up to `MaxStale`, and `wild` tells whether an idle slot was
retyped or a slot never handed out destroyed.

**Heap interface.** The methods of `uGCHeap.cpp` that return a constant or do
nothing are a table of their results, grouped in the order of the source; each may
be called at any time. `registeredSegments` has the code's name; `segmentHandle`
is history. `answer` is the last method and what it returned.
`RegisterFrozenSegment` is bounded by `MaxRegistrations`.

**Heap and handles.** In `GCRuntime`, `GC_Initialize` comes first and the
manager's `Initialize` before any handle. The runtime passes objects it was served
or null. `stores` is what `GetGlobalHandleStore` and `CreateHandleStore` returned
to each owner. `ledger` is history: what the runtime believes of each slot; when a
store is dropped its handles become orphans, whose slots stay taken. The ledger
follows the runtime's calls and their results only, never the arrays. Extra info
is left to `HandleManager`.

**Signing script.** A list is a set of pairs of name and hash: `list_text` sorts
and writes one line for each, so equal texts are equal sets. A hash stands for
the content; a signature is the key and the list it was made for (openssl is
external). `merge` collects the lines in a dictionary (`Collected`), after it has
refused a list that is missing, one with a line that is none (a name of
`SplitNames`, which `splitlines` takes apart) and a name it has already. `proc`
is the running command; every command computes first, and then opens (which
empties) and writes one file after the other, each a step of its own. The
arguments may name built files and the directory's own list and signature, which
`file_hashes` does not refuse: they are hashed as they are found and written
afterwards. An entry of a package is begun and then filled. `Stop`, `Kill` and
`Interrupt` may come before any step; a kill during an append leaves a torn
archive, while an exception, between two calls or inside of `writestr`, closes
the entry and the archive on the way out, so that the entry is empty or cut (one
value, `EmptySignature`, for a signature that no key verifies). `Rebuild` changes
files between commands, `SignYml` signs lists, `Push` is NuGet.org adding its own
entry. The public keys are unset, set, or set and unreadable. Lists of packages
are kept by base name, as in the code: of two packages with one name `list-nupkg`
leaves the list of the second (`list-files` refuses such files), and
`SignedIsTrue` shows that `embed` does not sign the first with it.

**Workflow.** One run with its attempts: the state of each job, the next step of
the job that runs, its disk, the artifacts (a download takes the latest) and the
release. Any step may fail. `RerunAll`, `RerunFailed` and `RerunJob` are GitHub's
three ways to run again. The contents of a file are its path and the attempt that
built it. The release action deletes a file of the same name and uploads the new
one, file by file. `GhCanFail` says whether `gh release view` may fail for reasons
of its own.

## 3. Runs

| Run | Instance | Properties | What it shows |
|---|---|---|---|
| `handle_table` | 2 slots, 1 object or `NULL`, types 2 and 6 (dependent), 1 extra info or `NULL` | `IdleSlotsScrubbed`, `ImplementsTable` | every method, with every combination of fields, does and returns what the abstract table demands of that call |
| `handle_stack` | 4 slots, 1 type, no extra info | `TypeOK`, `FreeStackExact`, `HighWaterMark` | every order of creates, destroys and double destroys over a stack four deep |
| `handle_contract` | 2 slots, 1 pointer, 1 type | `StoreConsistent` | whatever the contracts admit, no index leaves the arrays |
| `handle_contract_alias` | the same | `NoIndexPushedTwice` (violated) | the first finding below |
| `handle_misuse` | 4 slots, 2 stale duplicates, only null stored | `ArraysInRange`, `LostBounded`, `LostExact`, `NoAliasing` | no mistake with a slot leads out of the arrays; each stale duplicate costs one slot for good; what it takes to alias |
| `core_alloc` | 2 contexts and none, quantum 40, heap of 152 bytes, 8-bit `size_t` | `TypeOK`, `ContextWindow`, `ObjectsInBlocks`, `ObjectsAligned`, `ObjectsDisjoint`, `CountersExact`, `BytesInUseExact`, `FailedAllocChangesNothing`, `ImplementsHeap` | slow and fast path in any order, with `calloc` placing blocks anywhere and failing anywhere |
| `gc_heap` | 1 context and none, heap of 88 bytes, 2 segments, 3 registrations | `ReportsBacked`, `SegmentHandlesDistinct` | every method of `IGCHeap` between allocations |
| `gc_runtime` | 1 context, 2 objects, 2 slots, the global store and a secondary one | `LedgerTrue`, `TargetsAllocated` | heap and handles together, from the entry point on |
| `sign_files` | 5 files (two of one name, one name with a line break, one with another separator), the directory's own two, 4 jobs whose lists are merged, 2 keys, 3 commands | `SignedFilesPass`, `OwnFilesNeverPass`, `MergedWhole`, `AllListed` | commands stopped anywhere and retried, with rebuilds in between and the directory's own files among the arguments |
| `sign_nupkg` | 2 packages of one base name, 4 builds, 2 keys, 3 commands | `SignedIsTrue`, `StopsBetween`, `SignedStays` | packages signed one after the other, torn, half signed, with entries cut, and retried |
| `release` | 2 builds (one with two files of one name), 2 keys, 4 attempts | `OneBuild`, `PublishedVerifies`, `SuccessIsWhole`, `AttemptsEnd` | failures at any step, and any rerun |
| `release_gh_fails` | the same with 2 attempts, `gh` may fail | `OneBuild` (violated) | the second finding below |

**Bounds.** No state constraint is used: arrays, heap and sizes are bounded by
constants, and what could go on for ever by `MaxStale`, `MaxRegistrations`,
`MaxRuns` and `MaxAttempts` in the guards. Two slots suffice for a full store, an
empty one, recycling with another handle live, and aliasing; four give free
stacks with several indices in any order. In `core_alloc` the heap holds three
blocks, so both contexts can be refilled and one of them again, or a direct block
can lie between two quanta; the sizes include the one that fills a quantum alone
with the skew, the one that fills it together with another, the first that
bypasses the context, and the two on either side of the overflow test. The
contexts are symmetric. `ObjHeaderSize` is 4, the harder case for alignment;
`PtrSize` is 8 in some handle runs and 4 in the others. In `gc_runtime` two
objects and two slots are enough for a compare-exchange that finds another
object, a recycled slot of another owner and an orphan beside a handle in use.
Three commands are enough for one that is stopped, a second that finds what it
left and a check; three registrations for a number to come back if unregistering
took it back; two attempts for a rerun, and four for reruns of different kinds
after each other. In `handle_misuse` the values stored are left out (`Objects` is
empty, so a stray write stores null) to afford four slots: no property of that
run reads them, and the theorems have them. What the bounds leave open is closed
by the theorems, except as listed in section 5.

**Deadlock** is checked in the runs of the collector and of the script: a failing
call is a step there. A workflow run is over when nobody runs it again: `release`
and `release_gh_fails` do not check it.

**Fairness.** The collector's modules assume none and state no liveness: every
operation is a synchronous call that ends, and nothing waits, retries or promises
anything later. Neither do those of the script: its commands are loops over their
arguments, which end. A job of the workflow (`JobStep`) is weakly fair: GitHub lets
a job that can go on go on, or ends it. Failing and running again are not fair:
nobody has to. `AttemptsEnd` then says that an attempt comes to an end although
uploads delete files and are repeated.

### Finding: retyping a destroyed slot defeats the double-destroy test

`ugc_handle_destroy_at` recognises a destroyed slot by its negative type
(`ugc_core.c:226`). `ugc_handle_set_type_at` may be called for any index in
range (`ugc_core.h:407`) and overwrites that tag. Create, destroy, set the type,
destroy again: the index is on the free stack twice, and two later creates return
the same handle, which the contract of destroy says must not happen
(`ugc_core.h:336-338`). It takes a `SetExtraInfoForHandle` on a destroyed handle;
a runtime that never uses a handle after its destroy does not meet it
(`HandleStoreFreeStackExact`). `StoreConsistent` holds even then: the full-stack
test of `ugc_core.c:227` keeps the stack inside its array.

### Finding: a failure of gh passes for the absence of a release

The step at `release.yml:47` is to stop an attempt whose release exists. It goes
on whenever `gh release view` fails, for whatever reason. With such a failure a
rerun builds again and replaces the files of the release one by one: the release
holds files of two builds in the meantime, and keeps them if the upload stops
there (`release_gh_fails`). Without it, `OneBuild` holds for every sequence of
failures and reruns (`release`).

## 4. Theorems

All are proved for every value of the constants that satisfies the named
assumptions of the modules.

| Theorem | Statement |
|---|---|
| `HandleStoreTypeOK`, `HandleStoreFreeStackExact`, `HandleStoreScrubbed`, `HandleStoreHighWaterMark` | `HandleManager!Spec` implies always `TypeOK`, `FreeStackExact`, `IdleSlotsScrubbed`, `HighWaterMark` |
| `HandleManagerImplementsTable` | `HandleCalls!CallSpec => Table!TableSpec` |
| `ContractStoreConsistent` | `HandleContract!Spec` implies always `StoreConsistent` |
| `AllocTypeOK`, `AllocContextWindow`, `AllocInBlocks`, `AllocAligned`, `AllocDisjoint` | the invariants of `CoreAlloc` |
| `AllocFailureHarmless` | `CoreAlloc!Spec => FailedAllocChangesNothing` |
| `AllocCountersExact`, `AllocBytesInUseExact` | the counters: `CoreAlloc!Spec` implies always `CountersExact`, `BytesInUseExact` |
| `AllocImplementsHeap` | `CoreAlloc!Spec => Heap!HeapSpec` |
| `MisuseArraysInRange`, `MisuseLostBounded`, `MisuseLostExact`, `MisuseNoAliasing` | `MisuseSpec` implies always `ArraysInRange`, `LostBounded`, `LostExact`, `NoAliasing` |
| `GCImplementsAlloc` | `GCSpec => CoreAlloc!Spec` |
| `GCReportsBacked`, `GCSegmentHandlesDistinct` | `GCSpec` implies always `ReportsBacked`, `SegmentHandlesDistinct` |
| `RuntimeImplementsAlloc` | `RuntimeSpec => CoreAlloc!Spec` |
| `RuntimeLedgerTrue`, `RuntimeTargetsAllocated` | `RuntimeSpec` implies always `LedgerTrue`, `TargetsAllocated` |
| `FilesSignedFilesPass`, `FilesMergedWhole`, `FilesAllListed` | `FilesSpec` implies always `SignedFilesPass`, `MergedWhole`, `AllListed` |
| `NupkgSignedIsTrue`, `NupkgStopsBetween` | `NupkgSpec` implies always `SignedIsTrue`, `StopsBetween` |
| `NupkgSignedStays` | `NupkgSpec => SignedStays` |
| `ReleasePublishedVerifies` | `ReleaseSpec => PublishedVerifies`, whether `gh` can fail or not |
| `ReleaseOneBuild`, `ReleaseSuccessIsWhole` | `~GhCanFail /\ ReleaseSpec` implies always `OneBuild`, `SuccessIsWhole` |

**Assumptions.** Handles: the capacity is positive, the array is not at address
0, a pointer has 4 or 8 bytes (`CapacityAssumption`, `LayoutAssumption`); objects
and extra infos are non-null, handle types are not negative (`ObjectsAssumption`,
`ExtrasAssumption`, `TypesAssumption`, `PointersAssumption`,
`LiveTypesAssumption`; the contracts demand the last as `type_live`). Allocation:
a header has 4 or 8 bytes; the quantum is a multiple of 8 with room for a header
and an object; sizes are multiples of 8, at least a header and at most
`SIZE_MAX`; `calloc` aligns to 8 or 16; the heap ends below `SIZE_MAX`
(`HeaderAssumption`, `QuantumAssumption`, `SizesAssumption`, `CallocAssumption`,
`AddressAssumption`); and the null context is none of the threads'
(`ContextAssumption`). The multiple of 8 is the runtime's rounding of base sizes;
the core does not check it. Heap and handles: the first two groups again, for the
instance of the store (`StoreAssumption`, `HandleTypesAssumption`), and the
ledger's marks are no names of load contexts (`OwnersAssumption`). Script: a file
has some content, which is not the mark for a missing file
(`ContentsAssumption`); the arguments are built files or the directory's list and
signature, which are two files and not built (`ArgumentsAssumption`,
`OwnAssumption`); the trusted keys are keys of signers and "no key" is none
(`SettingsAssumption`, `PackageKeysAssumption`); a command that works on packages
is given one at least, as `main` demands (`PackageArgsAssumption`); and what is
written, an empty entry included, is not the model's mark for a missing file or
entry, nor a set key its mark for an unreadable setting (`WrittenAssumption`,
`PackageEntriesAssumption`). Workflow: no file of a build has the base name of
the list or of the signature (`BuildsAssumption`), as the names in `release.yml`
are; the trusted key is one the sign job may have (`ReleaseAssumption`). Without
the assumption on names an upload of the list would replace a file of the build.

**Handle manager.** None of the properties is inductive alone. `IInv` conjoins
them with `LiveTypes` (a live slot has one of the runtime's types). A create is
safe because the index it pops is tagged free and on the stack once only
(`FreeStackSound`, `FreeStackNoDuplicate`); a destroy pushes within the array
because the slot is not yet on a stack without duplicates; and the high-water
mark is exact because, when the stack is empty, all slots taken are live
(`FreeStackComplete`), so growing means a new peak. Methods are grouped by what
they do to the store (create, free, write one live slot, return), each group has
a lemma, and each method is a case of one.

**Refinement.** `TableOf` maps a live slot to its four fields and any other to the
free entry. `TableWrite` says that changing one slot changes one entry; with
`IInv`, every call is the step that the table has for it (`CreateCallRefines`,
`DestroyCallRefines`, `AccessCallRefines`), and calls are steps of `HandleManager`
(`CallsAreSteps`), so its invariant is at hand. A create returns null in the table
only when all handles are in use, which again takes `FreeStackComplete`; and a
destroy of a live handle must release it, which the code does only when the stack
has room: `StackNotFull` is the pigeonhole argument that it has.

**Contract client.** `StoreConsistent` with the type of the stack is inductive,
by the code's full-stack test. `FreeStackExact` is not an invariant of this
client, which is the finding.

**Allocator.** `IInv` adds to the properties that blocks are apart and inside the
heap (`BlocksInHeap`), that the windows are aligned (`WindowsAligned`), that no
object reaches into a window (`WindowsFree`) and that windows of two
contexts do not overlap (`WindowsApart`). The last two carry the argument: a bump
takes the front of a window, which no object and no other window touches, and a
refill or a direct allocation takes a block that touches nothing.

**Counters.** `Bytes` counts the bytes that a set of objects owns, each byte once;
this is their sum of sizes exactly when they are disjoint, so `CountersExact` says
both that nothing is counted twice and that nothing counted overlaps. The proof
needs no induction over the set: a served object's extent is an interval of its
size, disjoint from the extents of the others by `IInv`, so the cardinality
grows by its size. `BytesInUseExact` and `ReportsBacked` follow because these
bytes are a subset of the blocks' bytes, which lie below `SIZE_MAX`.

**Abstract heap.** With `IInv`, the object each path adds is aligned, inside the
memory and apart from all others, so it is one of the abstract heap's `Places`;
the counter grows by its size on the slow path and not on the inline one; a failed
call changes the result only.

**Mistakes.** The range of the indices on the stack is inductive with the types of
the counters: a push writes an index of the array, whoever asked for it, and the
full-stack test keeps it inside. For `NoAliasing` the invariant is that the stack
holds destroyed slots only and none twice; a stale duplicate pops one and tags it
free again without pushing it, which leaves both facts alone. A retype would turn
a destroyed slot into one that can be destroyed again, and a foreign destroy
pushes a slot that growth hands out as well: hence `~wild`, which no step undoes
(`TameInv`). For the lost slots (`LostInv`) the argument follows the set
`LostSlots`: a step adds one slot to it at most, and only a stale duplicate does;
while the runtime is not wild no step takes one out, since a lost slot is not on
the stack and no destroy takes its tag.

**Heap interface.** Every method is a step of the allocator or leaves it alone
(`GCStep`), so `GCSpec` implements `CoreAlloc`'s specification and inherits its
theorems. Segment handles are at most the count, which nothing lowers
(`SegmentIInv`), so the next one is new.

**Heap and handles.** The composition implements the allocator, whose
theorems it inherits. `LedgerInv` conjoins `LedgerTrue` with the ledger's type
(its entries name objects that were served, and the set of those only grows) and
`StoreInv` (the stack holds destroyed slots only, none twice). The step that needs
care is a destroy: the code gives the slot up only if the stack has room
(`ugc_core.c:227`), and the ledger always does. `RoomToPush` is the pigeonhole
argument that there is room: a live slot is not among the distinct slots of the
stack. `TargetsAllocated` follows from the ledger and `ObjectsInBlocks`.

**Files.** `FilesInv` says that what a command has computed stays true of its files
while it runs (`DataOK`), that what it has written so far is what it computed
(`WrittenOK`), and where each command can be (`ControlOK`). What it computed is the
list of its built files (`OfFiles`), whatever it says of the directory's own, or
the union of the parts (`OfParts`): the dictionary of `merge` replaces nothing,
since a list that shares a name with another is refused (`MergedBoth`). A stop ends
the command, and nothing is said of what it left; the next success overwrites it.

**Packages.** `StageOK` describes the package at hand: it has neither entry until
the list is begun, and it is torn from then until it is closed; once the list is
filled it is that of its own entries. `TrueOK` is `SignedIsTrue` without the
condition that the archive can be read, which makes it inductive: closing an
archive, at the end or by an exception, then adds nothing to be proved. A package
that changes is never signed (`OthersStay`), so the packages before it stay
signed even where an argument list names one twice (`BatchOK`).

**Workflow.** `JobOrder` makes the three jobs sequential across reruns: what is run
again always includes the jobs that need it (`RerunClosed`), so a release job that
runs has seen a build and a sign job succeed, and nothing changes the artifacts
while it runs. `DownloadOK` keeps its workspace what it checked, a list that covers
the files and a trusted signature of it; hence `PublishedVerifies`, which is about
each file as it is added, with `gh` failing or not. That files added by different
attempts belong together is `OneBuild`. `PublishedOK` adds that once there
is a release no build gets past its first step (`BuildStops`) and the artifact with
the files stays (`FilesStay`); this needs `~GhCanFail`, which is the second finding.
`SentOK` says that what a job has sent is in the release, since a file is deleted
only under a name not yet sent and names are distinct.

## 5. Model-checked only

- Liveness (`AttemptsEnd`): fairness and `ENABLED` are out of the prover's reach.
- `OwnFilesNeverPass`: it holds because a list cannot contain a hash of itself or
  of a signature of itself. In the model that is the well-foundedness of sets and
  records, for which the prover has no induction.

Every other property of a passing run is stated by a theorem. The two violations
are TLC's counterexamples; `OneBuild` is proved only where `gh` cannot fail.

## 6. Not modelled

- `GC_VersionInfo`, which fills in constants.
- Object contents, and the runtime's reads through handles: only addresses and
  the values of slots matter to the properties.
- Accesses to handles through `NULL` or pointers outside the array: undefined
  behaviour, which the C++ methods do not test for.
- In the script: a package that cannot be opened (the command fails there, with the
  packages before it treated, as where it refuses one); a hash that openssl or the
  file system got wrong; and a name of which the rest after a line boundary other
  than those `list_text` refuses (U+2028, say) looks like a line of a list itself:
  `merge` takes it for a second line. Where the rest does not, `merge` refuses the
  list, and that is modelled.
- In the workflow: the test of the version's form, the build itself, which is a
  choice of files, and two runs at once, which have different versions and so
  different releases.
- The Frama-C driver `eva_main.c`: its fixed sequence of calls is one of those
  `HandleContract` and `CoreAlloc` explore. (It makes four creates against 65535
  slots: a create at capacity, which its comment announces, is not executed there;
  `handle_table` and `handle_contract` have it.)
- Build files, `ci.yml` and tests: no state of their own. The tests were read as a
  statement of what is intended.

## 7. Plan

Done, in this order: handle store, manager, abstract table; contract client;
allocator with accounting; mistakes of the runtime; abstract heap; the rest of
`IGCHeap`; heap and handles composed; signing; the workflow.

Then proofs, in the same order: the invariants and the refinements of the
collector's modules, the counters, the composition, the script and the workflow.

Left: the obvious extensions of what is proved are refinements of the script's
and the workflow's modules by abstract specifications (a directory that is either
signed or refused, a release that is published once), which would say more than
their invariants do.

## Running

    tlc -config MCHandleManager.cfg MCHandleManager
    tlc -config HandleStack.cfg HandleManager
    tlc -config HandleContract.cfg HandleContract
    tlc -config HandleContractAlias.cfg HandleContract    # finds the violation
    tlc -config HandleMisuse.cfg HandleMisuse
    tlc -config MCCoreAlloc.cfg MCCoreAlloc
    tlc -config MCGCHeap.cfg MCGCHeap
    tlc -config MCGCRuntime.cfg MCGCRuntime
    tlc -config MCSignFiles.cfg MCSignFiles
    tlc -config MCSignNupkg.cfg MCSignNupkg
    tlc -config MCRelease.cfg MCRelease
    tlc -config ReleaseGhFails.cfg MCRelease              # finds the violation
    tlapm HandleManagerProofs.tla                         # and the other seven
