# A TLA+ model of aubstream

aubstream turns the memory, page tables and submissions of a graphics driver
into a stream: an AUB file, a simulator behind a socket (TBX), simulator memory
that is shared (SHM), or two of these at once.  This directory holds a model of
the parts that keep state, TLC runs that check them on small instances, and
TLAPS proofs about the physical allocators and the GGTT that uses them, the
AUB file, the socket, groups of contexts, rings and the manager.

## 1. Inventory

| Part (source under `src/aub_mem_dump`) | State | Operations | Correct when |
|---|---|---|---|
| `SimpleAllocator` (`physical_address_allocator.h`) | `nextAddress`, used and free maps | `alignedAlloc`, `alignedFree` (each under a mutex) | blocks never overlap |
| `PhysicalAddressAllocatorSimple` | one allocator for system memory, one per bank | `reservePhysicalMemory`, `freePhysicalMemory` | no page has two holders, tables are aligned, banks stay apart |
| page tables (`page_table.h/.cpp`) | tree of nodes: address, bank, page size, `ps64`, `pendingWrite` | constructors, destructor, `getEntryValue` | memory is given back exactly once |
| `PageTableWalker` | locals of one walk, collected entries | `walkMemory` in modes Reserve, Clone, Expect, with or without a physical address | every entry the sinks need is collected, each range is consumed |
| GGTT (`page_table.h/.cpp`, walker) | graphics addresses, one level of entries, lock | `gfxAddressAllocator`, its own `walkMemory`, `writeMemory` | sinks find every object of a context through the entries they were told |
| `AubStream` | none of its own | `writeMemory`, `cloneMemory`, `mapGpuVa`, `readMemory`, `expectMemory`, `freeMemory` | the sinks' page tables are the tree |
| `AubTbxStream`, `AubShmStream` | pause and block flags | forward to two sinks | nothing is lost for good while a sink is muted; the sinks agree |
| `AubManagerImp`, memory | ppgtt per device | the same request on every ppgtt, `pause`, `blockMemWritesViaTbx` | all devices translate alike |
| `AubManagerImp`, life cycle | streams of its mode, CCS mode, list of contexts; the global `Settings` | `create`, `open`, `close`, `pause`, `setCCSMode`, destructor | everything used exists; a new file is told what the old one was |
| `AubManagerImp`, contexts | `hwContexts`, groups, group numbers | create (three calls), release, `open`, `close` | tables of groups hold live contexts, each in its slot |
| `HardwareContextImp` | `ringTail`, fence, image, ring | `submitBatchBuffer`, polls, `isActive`, `resubmit`, `initialize`, `release` | the engine runs each submission once, in order; the fence tells when |
| command streamers (`command_streamer_helper*`, per generation) | context image, ring data, exec-list registers | `initialize` of the image, `submit`, group submission | each load takes the list that was meant and restores what was meant |
| stolen memory (`gpu.h`, per generation) | bases and sizes per device | sizes from the options, registers that describe them | GGTT, DSM, WOPCM and flat CCS lie apart and are described as they lie |
| `TbxSocketsImp`, `TbxStream` | `transID`, socket, error state | request and answer per call | answers go to their requests, errors end polls |
| `TbxShmStream` | shared memory | copies; GGTT entries; `registerPoll` | entries are where the hardware looks |
| `AubFileStream`, `aub_services.h` | the file, the buffer for the time before `open` | a packet or several per call, retry on `EFAULT` | packets are as long as their headers say, the file is the trace |
| settings, options | `Settings` object, injected lists | read from environment and file | data; the life of the object matters |
| heap and SHM4 allocators | host memory | wrap the allocator | - |

How the parts interact: the manager and the contexts call the stream; the
stream calls the walker on a page table; the walker creates nodes, which
reserve memory in the allocator, and collects entries, which the stream writes
to its sinks.  `pendingWrite` connects the last two: it is set in the walker and
cleared by the stream.  Contexts share the GGTT and its lock, the lock of their
command streamer, and the groups of their engine; page tables, users and the
GGTT share the physical allocators.  `open` tells a new file the global registers, the
size of the banks, the CCS mode and the injected registers, and then initialises
every context.  The first file has also what `initialize` wrote before it was
opened (the memory pools); the base of the GGTT and PCI space are told only simulators.

What is hard: requests over ranges that mix page sizes; sinks muted between any
two requests; memory that is freed and handed out again; PS64 groups that are
completed and broken by parts; groups of contexts released in any order, through
close and open; a ring that wraps while the engine runs; registers of an exec list
written by two threads; a register read in two halves; packets at the limits of
their 16-bit length; writes that fail in the middle of a packet; a list of contexts
that changes under a loop; sizes of stolen memory at their limits.  `PROJECT.json`
lists these hazards with their lines.

## 2. Modules

| Module | Models |
|---|---|
| `SimpleAllocator` | one allocator, as operators on a record (no state of its own) |
| `PhysicalAllocator` | the allocators of all banks, and their clients |
| `Ggtt` | a GGTT among those clients, its entries, the sinks and the contexts' objects; composes with `PhysicalAllocator` (EXTENDS) |
| `GgttProofs` | the theorems about `PhysicalAllocator` and `Ggtt` |
| `PageTables` | page tables, walker, streams and sinks, manager's memory calls; uses `SimpleAllocator` for every bank |
| `PageTablesProofs` | the theorems about `PageTables` |
| `ContextGroups` | contexts, groups, open and close |
| `ContextGroupsProofs` | the theorems about `ContextGroups` |
| `HardwareContext` | ring, fence, polls and `isActive` of ungrouped contexts, with the engine |
| `HardwareContextProofs` | the theorems about `HardwareContext` |
| `CommandStreamer` | context image, ring data and exec lists, register by register, with two threads |
| `CommandStreamerProofs` | the theorems about `CommandStreamer` |
| `StolenMemory` | the layout of stolen memory and the registers that tell it, as operators |
| `AubManager` | life cycle of managers, streams per mode, open, close, CCS mode, list of contexts, `Settings`; uses `StolenMemory` |
| `AubManagerProofs` | the theorems about `AubManager` |
| `AubServices` | the packet structs: opcodes, lengths, `matchesHeader`, `getPacketSize` |
| `AubPackets` | each call of `AubFileStream` as the packets it writes |
| `AubFile` | the file behind them: `write`, `open` with `init`, `close`, faults; extends `AubPackets`, implements `AubTrace` |
| `AubTrace` | what an AUB file promises, with packets as numbers |
| `AubFileProofs` | the theorems about `AubPackets` and `AubFile`, and the refinement of `AubTrace` |
| `TbxSockets` | the socket shared by threads, TBX streams as sequences of its calls, and the simulator |
| `TbxSocketsProofs` | the theorems about `TbxSockets` |
| `MC*` | sets and requests for TLC; each `.cfg` is one run |

Definitions marked `mutant` are faulty variants of the definition that follows
them; no specification uses them.  Putting one in the place of its original
shows that a property depends on that line of code.

**PhysicalAllocator.**  A state of an allocator is its next address and the two
maps as sets of blocks (address and size in pages).  `CreatePageTable` and
`DestroyPageTable` are the constructor and destructor of `PageTable`,
`ReserveForUser` is `AubManagerImp::reservePhysicalMemory`.  The two allocator
calls hold the mutex throughout and are one step each.

**Ggtt.**  The pages of a GGTT are `PageTable` objects of the physical
allocators (`CreatePageTable`, `GgttPages`); other clients go on with their own
(`OtherClients`).  Graphics addresses come from a second `SimpleAllocator` with a
counter of 32 bits, which wraps (`GfxSpace`) and takes nothing back.  Contexts
are initialised in steps: one object is taken before the lock, the others under
it, and each walk makes the pages that are missing and tells both sinks their
entries.  `told` is what each sink knows: entries at the place it was given, data
at physical pages.  `open` is a loop over the contexts, one at a time
(`Reinitialize`).  `blockMemWritesViaTbx` is off and reads, which only look
entries up, are left out, as is the poll of a submission.

**PageTables.**  A node lives in a slot `<<tree, level, index>>`.  The code's
loop over a range is one action per level of the descent (`WalkPdp`,
`WalkPdeToPte`, `WalkExisting2MB`, `Walk2MBLeaf`, `WalkPte`, `WalkPtePs64`),
`Commit` writes what was collected and clears `pendingWrite`, `Free2MB`,
`FreePage`, `FreeReturn` and `FreeCommit` are `freeMemory`.  `NextTree` carries
the request to the next device.  Levels above the PDP repeat the PDP and are
left out; `PDP4`'s preallocated children too.  Entries are records of the bits
the properties tell apart.  Where the code asserts and goes on in a release
build (a read of an unmapped page), the model goes on.  A behaviour has one user out of
`Users`, who says which requests are made, how often, whether sinks are muted, and
whether only mapped ranges are freed and read.  A request names local banks only; the empty
mask is system memory.

**ContextGroups.**  One engine of one device.  A context keeps its slot
(`contextGroupId`), the group its pointer leads to, and the flags that are left
after the constructor.  `user` is what the user does and never changes: an orderly user
initializes each context at once and keeps the stream open.  `home` records which allocation of the vector the
pointer refers to; access through a stale one is undefined behaviour, and the
model keeps the outcome in which nothing crashes and no group changes.  `open`
and `close` are loops, one context per step; other calls wait for their end.
The constructor's assertion that the group has room guards creation.

**HardwareContext.**  One thread per context.  A submission is cut where the
code takes the GGTT lock and where it waits: `Prepare` (before the lock),
`LockRing` (with the wrap), `PollForCompletion`, `Submit`.  `Reopen` is
`release` and `initialize` of an idle context.  `pollForCompletion` is by the status
register; its branch that polls the fence in memory is for helpers whose
`memoryBasedPollForCompletion` says yes, which is so in a test only, and is left out.  The engine (`EngineLoad`,
`EngineRun`, `EngineUnload`, `StatusSays`) is external and modelled as the code
uses it: contexts run in the order of submission from the head to the tail of
their image.  `KeepsUp` assumes that the engine does not fall a whole lap behind
the tail: nothing in the code checks it, and without it `RingHoldsOutstanding`
fails.

**CommandStreamer.**  The image of a context is a function from the offset of a
register to its pair, laid out by the offsets of the source; ring data is the
same beside it.  `InitializeStep` writes image and ring data, a submission
updates a part of each and writes its list dword by dword (`WriteDword`) to the slots
or to the submit port, then loads it (`LoadList`).  `resubmit` does so without
a lock.  The engine is external and a load is one step: it takes the list,
restores each context from memory, runs it to its tail and saves the head.
Priority and the address-width field of a descriptor, and releases, are left out.

**StolenMemory and AubManager.**  `StolenMemory` has the bases, sizes and codes per
product as operators, with a unit of 1/16 MB; the default of the WOPCM is 16 MB on
nvlp and 8 MB on the others, and the DSM follows it.  `AubManager` keeps, for each sink, what it was last
told for each key (a register, the memory, the entries of the GGTT), so that two sinks can be compared.
`SinksAgree` compares what both are told (`Compared`): not the base of the GGTT (`gsm`) nor PCI
space (`pci`), which `initialize` and `AubFileStream` leave to simulators (`SimulatorOnly`), and of a
second file no more than what `open` writes, because nothing repeats the rest.
`create` ends in one of the ways the code has (`Outcome`), a second thread may
make and release contexts while `open` and `close` go through the list, and
what is undefined behaviour (a stream that is not there, deleted settings or contexts)
ends the behaviour and says which.

**AubServices, AubPackets, AubFile.**  A packet is a header with a length and
what follows it; the contents are places in the caller's memory.  `need`,
`pairs` and `placed` are the view of a reader that goes by the headers.  Every
action of `AubPackets` that writes is one call of `write()`, and `AubFile` says
what becomes of it: kept until `open`, passed to the file stream, repeated
after `EFAULT`, logged, or thrown.  `std::ofstream` is external: it may keep
what it is given up to a flush.  A write or flush that fails may have left in the file any
part of what it was to write or of what waited before it, and the stream may pass
that on once more: `disk` is the file apart from these bytes, and `scraps` says where in it they lie.
The retry takes nothing back and repeats its whole buffer, so a file with scraps has bytes of
it twice, and a reader of the file as it is, who does not know of them, is lost at the first one:
`ReadsAsWritten` and `FileIsTrace` speak of the file without its scraps.  `errno` is whatever the last failure
left: a stream that is bad since an earlier error, and takes nothing, may find `EFAULT` in it, and then
clears the error and goes on in the middle of the trace (`gap`, "torn" in `AubTrace`).  A close of a bad stream
may lose what it had in its buffer.  A reopen that fails leaves a packet cut in two (`severed`, "lost").

**TbxSockets.**  A call of the socket is a record that says what the function
does: whether it looks at the error state first, whether `transID++` is under the
mutex, how many buffers it sends and receives (`ReadMMIO`, `WriteMemory`, ...).
The actions `Enter`, `Lock`, `StoreTransID`, `SendWriteData`, `GetResponseData`
and `ReceiveFails` carry out such a record; `transID++` is a load and a store,
because nothing makes it atomic.  Functions of the streams are sequences of
calls (`Program`), polls repeat theirs.  `Close` is `closeSocket`, which takes no
mutex.  The simulator answers in order and its connection may break at any time.
`connectToServer` may end connected, in the error state, or, when the host is not found, with
neither (`ConnectToServer`).  Attempts to connect that are repeated change nothing and are left out.

## 3. Runs

All `expect: pass` unless marked.

| Run | Checks | Shows |
|---|---|---|
| `ggtt` | `NoSharedMemory`, `NodesAligned`, `BanksDisjoint`, `TranslatesApart`, `EngineFindsObjects`, `FileHasObjects`, `ObjectsApart` | allocators under any use; contexts on a GGTT with 4KB or 64KB pages, in system or local memory, with either simulator beside the file, through pauses and new files |
| `page_tables` | `TypeOK`, `TreesAgree`, `SinksMatchTree`, `MemoryAccounted`, `Pages64KBReserved`, `CommittedIsSent`, `Ps64OnlyInCompleteGroups`, `NothingLeftPending`, `StepsForward` | five users: pages of every size on one device; two sinks muted and resumed; two devices and pages shared out among two local banks; maps that meet other page sizes; PS64 groups mapped, remapped and freed in part |
| `groups` | `SlotsHoldLiveContexts`, `ReleasedGroupIsEmpty`, `MembersInTheirSlots` | three contexts, two groups; users that make all calls in any order, and orderly ones |
| `ring` | `RingHoldsOutstanding`, `FenceMeansDone`, `IsActiveCorrect`, `PollsEnd` | one context with all calls but `isActive`; two contexts on one engine; fairness |
| `aub_file` | `TypeOK`, `WellFramed`, `DataWhereRequested`, `ReadsAsWritten`, `FileIsTrace` | tables of pages at and past the limits of a packet; faults at any point; `FileIsTrace` is the refinement of `AubTrace` |
| `manager` | `OnlyLiveUsed`, `SinksAgree`, `ContextsInFile`, `CcsModeKept`, `StolenLayout` | managers of every mode made, shared, opened, paused and deleted; sizes of stolen memory at their limits; a second thread |
| `execlists` | `SubmissionsSeen`, `LoadsOwnList`, `ImageRestores` | two threads submit and resubmit a single context and those of a group |
| `tbx_sockets` | `WellFramed`, `AnswersToAskers`, `NoGarbageSent`, `AllCallsEnd` | two threads on one socket, errors, close, fairness |
| `pt_free_gap` (violation) | `SinksMatchTree` | `freeMemory` over a hole drops the entries it collected |
| `pt_pause_2mb` (violation) | `NothingLeftPending` | a 2MB page written during a pause never reaches the file |
| `ggtt_shm` (violation) | `EngineFindsObjects` | on the second device the entries in shared memory lie 16MB behind where the hardware was told to look |
| `groups_reopen` (violation) | `SlotFreeAtInitialize` | after close and open two contexts get slot 0 |

The type invariant of a module is a conjunct of the first invariant its run
checks, or that invariant itself; that of `PhysicalAllocator` is a part of `IInv`, which is proved.

Four more disagreements are known and have no run of their own (see the hazards
in `PROJECT.json`): PS64 is promised for pages that then come from the free list
and are not consecutive (`Ps64OnlyInCompleteGroups` fails for plain writes with PS64 on); a 64KB page
written during a pause is never reserved in the file (`Pages64KBReserved` fails
without its exception for users that pause); contexts created before
the vector of groups grows past its reserve keep pointers into storage it has
left (`MembersInTheirSlots` and `SlotsHoldLiveContexts` fail with `Capacity = 1`);
a context created with two flags keeps one the constructor handled.

Some properties name an exception, because the code makes no attempt at the case:
`expectMemoryTable` with an entry larger than a packet (`Oversized`); a reopen that
fails in the middle of a packet (`severed`), a file that goes on behind an error (`gap`) and the bytes of failed writes (`scraps`); exec lists written during a `resubmit` of another
thread (`raced`, `races`); a manager whose `Settings` object is deleted before the
others (`lifo`); graphics addresses after the 32-bit counter wrapped (`wrapped`);
contexts made or released by another thread during `open` or `close` (`raced`, and
`skipped` for a `close` that may have left a context initialised).  Two of
these cases are not in a run at all: no table of `aub_file` has an oversized compare
packet (the largest is exactly at the limit), and the two managers of the plan `share`
are deleted in order.  The others happen, and the property says nothing of them.

The two contexts that share an engine in `ring` do not `resubmit`: a user that
resubmits for ever keeps the engine busy, and a wrap that waits for it then never ends.

**Bounds.**  Page tables: page sizes are scaled (64KB to 2 or 4 pages, 2MB to 4 or
8), which keeps that a 64KB page is a proper part of a 2MB page and a group has a
first, a last and, with 4, inner slots.  Requests are four or five per behaviour
out of a set of about ten that overlap at page and table borders: enough to map,
free, reuse and map again, and to pause, write, resume and write.  `PdpSlots = 1`
and two PDE slots let a PDE lose its last entry.  GGTT: a 64KB page is two 4KB
pages; 40 pages of graphics addresses hold two or three initialisations, so that
the plan with five calls wraps; the plan of the allocators alone has three pages
per allocator, so that a bank of two runs over.  `Capacity = 2` with two groups
stands for `reserve(4)` with four.  The ring holds two or three submissions and
the fence wraps after a few more than a ring can hold, so every combination of a
wrapped ring and a wrapped fence is reached; `MaxQueue` bounds what `resubmit`
adds.  AUB file: the length field holds 25, the longest fixed packet, and a token
two entries, so that tables of three and four entries end a token by number, by
length and by address space; faults come in behaviours of three calls, two
opens and two faults.  Manager: three to five calls, two opens, two managers, two
contexts.  Exec lists: two threads, three calls, two slots with registers for
groups of two or three.  On the socket each of two threads calls one
function of the stream, which is up to two requests, after the three of `init`;
transaction numbers wrap at three, so that they repeat.

**Fairness.**  `HardwareContext`: weak fairness of the
engine and of a thread that is inside a call and not blocked; no fairness of
new calls, nor of taking the lock.  `TbxSockets`: weak fairness of a thread inside
a call and of a simulator that is there; new calls, breaks and `close` need not
happen.  Waiting for a mutex is weakly fair only, which is enough because the
calls of a behaviour are bounded and polls end.  The simulator must make progress for the
polls to end, which is what the code relies on.  The other modules state no
fairness; that requests on page tables end is shown without it: each step lowers
a measure (`StepsForward`), and a request that could not go on would be a deadlock.

**Deadlock** is checked for page tables, groups and rings.  It is not checked where
a behaviour ends at the bound on its calls or with undefined behaviour: `ggtt`,
`aub_file`, `manager`, `execlists`, `tbx_sockets`.

**Symmetry.**  Contexts of `groups` and threads of `execlists` are interchangeable:
`Init`, `Next` and the properties treat them alike, and no liveness is checked there.

## 4. Proofs

`GgttProofs` proves of `PhysicalAllocator`, for every number of banks, bank size, set of
page sizes and set of user sizes:

- `Invariance`: `Spec => []IInv`;
- `MemoryNeverShared`: `Spec => []NoSharedMemory`;
- `NodesAlwaysAligned`: `Spec => []NodesAligned`;
- `BanksStayDisjoint`: `Spec => []BanksDisjoint`.

Assumptions: `PhysicalAllocatorAssumption` and `MinAlignmentAssumption` (page
sizes are at least the minimal alignment, sizes are not zero).  Powers of two
are not needed, because `AlignUp` is defined by remainders.

`NoSharedMemory` says that holders share no page and that nothing a later call
may hand out, free or fresh, is held.  It is not inductive: it must be known that
the maps of an allocator hold disjoint blocks below the next address
(`AllocatorsDisjoint`), that every holder's block is a used one
(`HoldersAreUsed`) and that no block has two holders (`NoDoubleOwner`); then a
fresh block lies above all others, a reused one comes out of the free map, and a
destructor frees only its own block.  Alignment rests on one more part: every
free block is aligned to its size (`FreeAligned`), because only tables, whose
alignment is their size, give blocks back.  Lemmas about `AlignUp`,
`AlignedAlloc` and `AlignedFree` carry the steps.

Of `Ggtt` it proves, for every set of contexts, size of the graphics address
space and set of plans:

- `GgttMemoryNeverShared`: `IInv` and `NoSharedMemory` hold with a GGTT among the
  clients;
- `EntriesNeverShareMemory`: `GgttSpec => []TranslatesApart`, no two entries
  translate to the same memory and none to memory given back;
- `FileIsReplayable`: `GgttSpec => []FileHasObjects`, the open file contains what
  is needed to find the objects of each context initialised for it;
- `SimulatorFindsObjects`: `EngineFindsObjects` holds, except where run `ggtt_shm` shows
  that it does not: with shared memory and a bank other than the first;
- `ObjectsNeverShareMemory`: `GgttSpec => []ObjectsApart`, no two objects of contexts
  that are ready share a page.

They rest on `GgttAssumption` (the plan's bank and page size are among those of
the allocators, 4KB is a page size, every context has HWSP, fence, ring and an LRCA of two pages or more).  `TranslatesApart` alone is not
inductive: that a new page lies apart from those of the table needs the
allocators' invariant, that the pages of the table stay held needs that other
clients free only their own, and both need a plan that does not change and
entries whose addresses are numbers (`Apart`).

What the sinks find needs a history of the whole initialisation (`ToldUntilWrapped`).
The objects of all contexts lie apart on pages below the allocator's next address
(`PlacesAligned`, `PlacesApart`), and so does the table (`TablePages`); hence no page of an
object is there before it is written (`PagesToMake`), and the walk, which
collects only the entries of pages it makes, collects all of them (`WalkCollects`, `PagesMade`).
Sinks know only what is in the table (`ToldOfTable`), and an entry there never changes.  A sink
that heard of a context when it was initialised knows the entries and contents of all
that was written (`ObjectsTold`); contents of two objects are never mixed up, because
entries translate apart.  None of this survives the wrap of the addresses, and the
properties do not claim it.  TLC checked the invariant on the instance of `ggtt` first.

`TbxSocketsProofs` proves, for every set of threads, programs of calls and wrap of
the transaction numbers:

- `RequestsAreWhole`: `Spec => []WellFramed`;
- `AnswersReachAskers`: `Spec => []AnswersToAskers`;
- `GarbageIsNotSent`: `Spec => []NoGarbageSent`.

The inductive invariant `Inv` has four parts.  `ThreadsInv`: types, and a thread that
sends or receives has the mutex and something left to send or receive.
`FramingInv`: every buffer on its way to the simulator is in turn, and as long as buffers
can be sent, data is due exactly while a thread is between a header and its data.
`AnswersInv`: only the thread that waits for an answer has a request or an answer
on the wire, its own, so that numbers that repeat do no harm.  `GarbageInv`:
a thread holds a value that no read gave it only after an error, and then nothing is sent.

`ContextGroupsProofs` proves, for every set of contexts, number of slots and
users, under the hypothesis `MaxGroups <= Capacity`:

- `TablesHoldLiveContexts`: `Spec => []SlotsHoldLiveContexts`;
- `EmptyGroupsAreNew`: `Spec => []ReleasedGroupIsEmpty`;
- `OrderlyMembersInSlots`: `Spec => []MembersInTheirSlots`.

The hypothesis is that the vector of groups never outgrows its `reserve(4)`; TLC
shows that without it the first and the third fail.  `Inv` says in
addition that the list has living contexts, each once, and what a loop has left lives too
(`ListInv`), that a table shows initialised contexts that hold the slot
(`TableInv`), that slots are handed out only while somebody holds the first
(`FirstInv`), and, for orderly users, that a slot has one holder and a number below
the counter (`OrderlyInv`).

`HardwareContextProofs` proves, for every ring size, fence width and set of contexts:

- `IsActiveIsTrue`: `Spec => []IsActiveCorrect`, from `TypesHold`;
- `RingKeepsSubmissions`: `Spec => []RingHoldsOutstanding`;
- `FenceTellsCompletion`: `Spec => []FenceMeansDone`.

The last two have the hypothesis `KeepsUp` (section 2).  `RingHoldsOutstanding`
says what the engine finds from its head to the tail of the image.  It is not
inductive.  `Inv` knows in addition that the fences of the outstanding submissions
follow each other from the value in memory to the context's (`FencesOf`), that their
commands follow each other in the ring, with a gap of no-ops where it wraps (`RingOf`), that
the context's tail is the image's unless it was taken back to 0 and waits for the engine
(`TailOf`), and that the engine is on its way to a tail of the image, or will be
loaded again (`EngineOf`).  Then a new submission overwrites nothing outstanding, and
the value in memory is the context's only when all have run.

`CommandStreamerProofs` proves, for every set of threads and contexts, number of slots, ring
size and set of setups (a product with or without ring data and submit port, any page
tables, any group at least as large as the number of slots):

- `SubmissionsAreSeen`: `Spec => []SubmissionsSeen`;
- `LoadsTakeOwnList`: `Spec => LoadsOwnList`;
- `ContextsAreRestored`: `Spec => ImageRestores`.

`CommandStreamerAssumption` says what a setup is; products with ring data have page tables of
57 bits (`xe3p_core`), and a group has no fewer members than there are slots.  The inductive
invariant `Inv` has nine parts.  `ContextsOK` says of an image that was built that it is
as it was made but for head and tail (`LikeMade`), and where these are: in the image the places of the
last submission, in the ring data the same unless a submission is between the two (`Updating`), of which
it is known then what the host still has to write.  That an engine restores it right is
a lemma about the layout (`MadeImageIs`, `MadeDataIs`, `RestoredIs`): every register that matters is the
last pair of its name among those the loads reach, and a write of head and tail, of the tail alone
(`WrittenIs`) or of the head by the engine (`SavedIs`) touches no other pair.  `GroupOK` and
`RegistersOK` say that groups, lists and registers name contexts that are ready only: the image is
written before the context joins its group, and hence whatever a load takes, also a list
mixed from two, can be restored.  `ListsOK` says that a thread that nobody raced with has written the
dwords it has come to (`HasWritten`) and that nobody else is writing, which needs both locks to
belong together (`LocksOK`, `OneThread`).  `SeenOrWaiting` says that a submission the engine has not seen
is still being updated or is in a list that will be loaded.

`AubManagerProofs` proves, for every set of managers, contexts, plans, options and
injected lists, with any number of threads that make and release contexts:

- `FileAndSimulatorAgree`: `Spec => []SinksAgree`;
- `ModeOfEveryFile`: `Spec => []CcsModeKept`;
- `OpenPlacesContexts`: `Spec => []ContextsInFile`;
- `LiveObjectsUsed`: `Spec => []OnlyLiveUsed`, if in plans of orderly users no create
  ends with an exception or without a Gpu.  That is the exception the property
  names; the options of the run meet it.

`AubManagerAssumption` says that "none" is no manager or context and what fields a
plan has.  `ManagersInv` and `ContextsInv` are one inductive invariant.  Of a manager
it says what the sinks will have when the work under way is done: `CcsKept`
(setCCSMode stores the mode before it writes it, open has yet to tell the new file)
and `Agree` (a file that is not open yet will have what is held for it, then the
global registers, then the injected ones: `InFile`).  Of contexts: a list has
exactly the live contexts of its manager but for the one being deleted
(`ListInv`), a loop that has not raced goes over the list as it is
(`LoopInv`), and each context of a list is in the file it should be in, up to where
the loop has come (`PlacedInv`).  `SettingsInv` ties settings to the managers that
own them.  One lemma per operation shows that it keeps a single manager (`Kept`)
and what it spares its contexts (`Passes`); the lemmas about the whole state use only that.

The proof corrected the model and a property.  `initialize` injects registers into the
simulator after it tells the pools, not before.  And
`ContextsInFile` was false for three contexts and seven calls, beyond the bounds of the
run: a `close` that races may skip a context, which is then in an older file when the
next `open` ends.  It now excepts such managers (`skipped`).

`AubFileProofs` proves, for every table of every call, limit of the length field and
of the entries of a token, for every plan and whatever fails:

- `CountersInBounds`: `Spec => []TypeOK`;
- `PacketsAreFramed`: `Spec => []WellFramed`;
- `DataIsWhereRequested`: `Spec => []DataWhereRequested`;
- `FileReadsAsWritten`: `Spec => []ReadsAsWritten`;
- `FileImplementsTrace`: `Spec => FileIsTrace`, the refinement of `AubTrace`.

`AubPacketsAssumption` says that the field holds the longest fixed packet and the
addresses of a full token, and what a call is (`IsCall`: `writeContiguousPages` has one
block, an entry of a page table has 8 bytes); `AubFileAssumption` says what fields a plan
has.  The last two theorems assume `Fitting`: no entry of `expectMemoryTable` outgrows the
length field.  `WellFramed` names that exception itself.

`PacketInv` is the invariant of a call in progress.  `Pointers` says that the pointers into
the caller's memory stand where the entries at `cur` and `dump` begin; `Token`
that the token holds the entries between the two, and as many dwords as their data;
`Drain` and `Frame` that the reader waits for exactly what is still to be written;
`Chunk` where in its entry the next chunk lies; `Placed` that the reader has
put the bytes so far where they belong.  Then a packet ends with nothing left to wait for, and
a call that has come to its end (`Ended`) has placed everything.

The last two speak of the file apart from its scraps (section 2): that failed writes leave bytes in it
is part of the model, that a reader knows to skip them is not claimed.

`StreamInv` is that of the file.  `Sinks` says that the pieces written so far are
packets one behind the other, and that the reader of the one that is written to, the buffer
of the time before `open` (`Waiting`) or the file without scraps (`InFile`), waits for what the call has
yet to write; the buffer holds whole packets whenever a file is open, which is what lets `init` append it.
`Errors` says that exceptions come with badbit: what a call leaves half written is then
never continued unless a stale `EFAULT` clears it, and then the file is torn.  The refinement maps a
step that writes the last piece of a packet to `Record`, a fault to `Fault`, an exception in the middle of a
packet to a packet that is in no file, and whatever the file goes on behind to `Tear`;
`WholesJoin` (the packets of two sequences are those of one, then those of the other) carries it.

Where entries begin (`StartOf`) and which packets are whole (`WholeTo`) are recursive
functions over sequences of any length.  That their equations have a solution, and
what follows from them for every length, is shown from the least length for
which it would fail (`LeastNumber`).

`PageTablesProofs` proves, for every number of trees, slots and banks, every size of groups
and tables, and any requests:

- `RequestsStepForward`: `Spec => StepsForward`, for all users;
- `MemoryIsAccounted`: `MemoryAccounted`, for users that do not map;
- `CommittedWasSent`: `CommittedIsSent`, for users that neither map nor use PS64, whatever
  is muted when;
- `SinksHaveTheTree`: `SinksMatchTree`, for those of them that mute nothing and free and read only
  what is mapped;
- `NothingHeldBack`: `NothingLeftPending`, for users that neither map nor use PS64,
  on products without 2MB pages, whatever is muted when;
- `SystemPagesReserved`: `Pages64KBReserved`, for users whose requests go to one device
  each, with PS64 or without;
- `DevicesTranslateAlike`: `TreesAgree`, for users that do not map, with PS64 or without.

`PageTablesAssumption` says that addresses are counted in the pages of 4KB that
`alignedAlloc` aligns to at least, that a bank is left by the user as an allocator leaves it, with
free blocks aligned to their size (`FreeAligned` of `PhysicalAllocator`),
that each tree has a root of its own among the user's blocks, and that a page of 64KB holds
more than one page and a table is a multiple of it; `RequestsOf` says what a request is.
The conditions on the users are of three kinds.  Two are shown necessary by a
run: `pt_free_gap` frees what is not mapped, `pt_pause_2mb` has 2MB pages.  A few are the
properties' own (`SinksMatchTree` and `Pages64KBReserved` except users that pause).  The
others, `~Maps`, `~Ps64` and one device per request, leave out what is only model-checked: a
map remaps what is there, which gives a node a new address without a new block, PS64
rewrites entries of a group beside the walk, and a clone reserves on the first device for all.

Nine invariants build on each other.  `Shape` says where a walker may be: its page is in the
range, and the tables above its level are there (`TablesMet`); with the least number that
makes a rank (`RankExists`) it gives the measure.  `MemoryKept` says that a node has its
table above it (`Tree`), that blocks and owners are the same and lie apart
(`Accounted`), and that nodes that share a clone's memory are of a later tree (`SharedAbove`).  One
lemma (`WalkGrows`) reduces every turn of a walk to "the tree stays, or one node is
hung into it", another (`Free2MBFrees`, `FreePageFrees`) every turn of a free to "at most a
page and its table go", so that each further invariant is shown against those few cases.
`Sends` adds what the walker collected: a node that waits no longer is in the sinks
(`SentTo`), or will be by what is collected (`Gathered`, `Awaited`); a free collects no
entry of what stays (`Avoided`).  It needs that entries of two nodes never have one
address, which is where memory that is accounted for comes in: a table's
address belongs to it alone.  `Fits` says of sinks with all that is collected for them that they
are the tree (`Matches`), and that what a free has still before it is mapped (`RestMapped`),
so that it never returns early.  `Visits` says that the tables and pages behind a write were
met and wait at most for the request that goes on (`Settled`).  `Noted` says that a page of
64KB in system memory is reserved in the file, or on the list of the walker that will.

`TreesAgree` compares states a whole request apart.  `View` is what walkers of a tree can
see, by place instead of slot, and `Way` where a walker stands, with what it does not share left out.
A turn of a walk is then a function of the two (`After`, `GoesOn`): a write on the first tree
tells a story (`Story`), the sequence of its views and places, and records each page in
`infos`; the clone on the next tree starts from the same view, and by `Follows` every turn of it
takes it to the next chapter.  Reads and what waits to be sent change no view.  `Alike` says so in every state, from
the last chapter of one tree to the first of the next.  A clone rounds the address it is given down to
its page size, which is why blocks must be aligned (`BlocksAligned`).

The proofs changed the model of page tables once: requests named bank 0 in their mask, which no
mask can say.

Only model-checked: of `PageTables`, `TypeOK`, `Ps64OnlyInCompleteGroups`, and users that map; the layout of `StolenMemory` (its sizes are tables per product, and the instance
has them all); and liveness (`PollsEnd`, `AllCallsEnd`): fairness is out of the prover's reach.

## 5. Not modelled

- Heap and SHM4 allocators: they wrap the allocator with host memory.
- The levels above the PDP, which repeat it; the payload of PPGTT pages (only
  page tables are followed to the sinks there; `Ggtt` and `AubPackets` follow data).
- The copies of `TbxShmStream` to and from shared memory, and the pool of mode
  tbxShm3.
- The values of MOCS and other register tables per generation: data without a
  protocol.
- Reading of settings from the environment and files; log messages.
- `reserveOnlyPhysicalSpace` and the translation of system memory.
- Requests on one ppgtt by two threads: no lock guards it, so callers must
  serialise them.

## 6. Plan

1. An abstract `AddressSpace` (a function from pages to physical pages, and what
   a sink knows of it), implemented by `PageTables` through a refinement
   mapping.
2. `MemoryBankHelper` and the other pure helpers against reference definitions
   with 32-bit masks.
3. Two threads on one context, in `HardwareContext`.
4. Theorems about `PageTables` for users that map.
