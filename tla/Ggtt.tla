-------------------------------- MODULE Ggtt --------------------------------
(***************************************************************************)
(* The GGTT of a device: its graphics addresses, its one level of entries,  *)
(* the physical memory behind them, and what the sinks are told of both     *)
(* when hardware contexts are initialised, submitted, released and taken    *)
(* through a new file.                                                      *)
(*                                                                          *)
(*   page_table.h, page_table.cpp   struct GGTT                             *)
(*   page_table_walker.cpp          PageTableWalker::walkMemory (GGTT)      *)
(*   aub_stream.cpp                 writeMemory (GGTT)                      *)
(*   hardware_context_imp.cpp       initialize, submitBatchBuffer, release  *)
(*                                                                          *)
(* The pages of a GGTT are PageTable objects of the physical allocators, of *)
(* which other clients make use at the same time.  Addresses are counted in *)
(* 4KB pages and entries; the engine is external: it translates with the    *)
(* entries its sink was told.                                               *)
(***************************************************************************)
EXTENDS PhysicalAllocator, Sequences

CONSTANTS
    Contexts,   \* of one device, each with a thread of its own
    GfxSpace,   \* pages of the 32-bit graphics addresses, entries of a GGTT (2^20)
    Plans       \* the product, the device, its sinks and the bounds:
                \*   bank      of the GGTT: none for system memory, or the device's
                \*   page      64KB where the bank supports it, else 4KB
                \*   sizes     pages of each object of a context; no ring data: 0
                \*   file, sim the sinks; sim is "none", "tbx" or "shm"
                \*   users     the contexts that are used
                \*   calls     bound on the calls
                \*   others    other clients do anything, not only make tables
                \*   pages     bound on what an allocator hands out to them

ASSUME GgttAssumption ==
    /\ GfxSpace \in Nat \ {0}
    /\ MinAlignment \in PageSizes
    /\ \A p \in Plans :
         /\ p.bank \in MemoryBanks /\ Cardinality(p.bank) <= 1
         /\ p.page \in PageSizes /\ GfxSpace % p.page = 0
         /\ p.sim \in {"none", "tbx", "shm"}
         /\ {p.file, p.others} \subseteq BOOLEAN
         /\ p.sizes \in [{"hwsp", "fence", "ring", "lrca", "data"} -> Nat]
         /\ \A o \in {"hwsp", "fence", "ring"} : p.sizes[o] > 0
         /\ p.sizes["lrca"] > 1   \* head and tail are on its second page
         /\ p.users \subseteq Contexts
         /\ {p.calls, p.pages} \subseteq Nat

None == "none"

VARIABLES
    plan, calls,
    gfx,        \* gfxAddressAllocator
    wrapped,    \* its 32-bit counter has wrapped
    table,      \* GGTT::table: entry -> the page it holds
    told,       \* what each sink was told: entries, and the data of pages
    paused,     \* isAubFileStreamPaused
    ctx,        \* the contexts, and how far their threads are
    ggttLock    \* GGTT::mutex

ggttVars == <<calls, gfx, wrapped, table, told, paused, ctx, ggttLock>>
allVars == <<vars, plan, ggttVars>>

-----------------------------------------------------------------------------
(* Graphics addresses *)

GfxAlignment == plan.page

SizeOf(o) == plan.sizes[o]

(* alignedAlloc with a counter of 32 bits *)
Fresh(size) == AllocatedBlock(gfx, size, GfxAlignment).addr % GfxSpace

(* mutant: the counter is not moved over what alignment left out *)
AllocateFromGap(size) ==
    /\ gfx' = [AlignedAlloc(gfx, size, GfxAlignment) EXCEPT !.next = (gfx.next + size) % GfxSpace]
    /\ wrapped' = (wrapped \/ gfx.next + size >= GfxSpace)

AllocateGfx(size) ==
    LET after == AlignedAlloc(gfx, size, GfxAlignment)
    IN /\ gfx' = [after EXCEPT !.next = @ % GfxSpace]
       /\ wrapped' = (wrapped \/ after.next >= GfxSpace)

-----------------------------------------------------------------------------
(* Entries *)

Indices == 0 .. GfxSpace - 1

(* The constructor's loop: 16MB for each bank below the GGTT's, twice the size of a GGTT. *)
EntryOffset == IF plan.bank = {} THEN 0 ELSE LowestBit(plan.bank) * 2 * GfxSpace

Entry(pa) == [pa |-> pa, local |-> plan.bank # {}]

(* mutant: a large page has one entry *)
FirstEntryOnly(index, pa) == [i \in {index} |-> Entry(pa)]

(* mutant: the address is not advanced *)
SameAddress(index, pa) == [i \in index .. index + plan.page - 1 |-> Entry(pa)]

(* The entries of a page: a large one has one for each 4KB. *)
NewEntries(index, pa) == [i \in index .. index + plan.page - 1 |-> Entry(pa + (i - index))]

Join(f, g) == [x \in DOMAIN f \cup DOMAIN g |-> IF x \in DOMAIN g THEN g[x] ELSE f[x]]

(* Where a sink is told an entry: relative to the GSM if it lies in shared memory. *)
ToldAt(index) == EntryOffset + index

ToldEntries(writes) ==
    [a \in {ToldAt(i) : i \in DOMAIN writes} |-> writes[a - EntryOffset]]

NothingTold == [entries |-> << >>, data |-> << >>]

(* A sink that is not there, or the file while it is paused, is told nothing. *)
Listens(s) == IF s = "file" THEN plan.file /\ ~paused ELSE plan.sim # "none"

Tell(writes, data) ==
    told' = [s \in DOMAIN told |->
              IF ~Listens(s) THEN told[s]
              ELSE [entries |-> Join(told[s].entries, ToldEntries(writes)),
                    data |-> Join(told[s].data, data)]]

-----------------------------------------------------------------------------
(* Contexts *)

(* What initialize does with the lock, in its order; only some products have ring data. *)
Steps ==
    <<<<"write", "hwsp">>,
      <<"alloc", "fence">>, <<"write", "fence">>,
      <<"alloc", "ring">>, <<"write", "ring">>,
      <<"alloc", "lrca">>>>
    \o (IF plan.sizes["data"] > 0 THEN <<<<"alloc", "data">>, <<"write", "data">>>> ELSE << >>)
    \o <<<<"write", "lrca">>>>

Objects == {o \in DOMAIN plan.sizes : plan.sizes[o] > 0}

(* Objects that initialize writes with contents. *)
Filled == {"fence", "data", "lrca"}

NoContext == [state |-> "none", again |-> FALSE, inFile |-> FALSE, addr |-> << >>,
              at |-> 0, page |-> 0, writes |-> << >>]

GgttInit ==
    /\ Init
    /\ plan \in Plans
    /\ calls = plan.calls
    /\ gfx = NewAllocator(0)
    /\ wrapped = FALSE
    /\ table = << >>
    /\ told = [s \in {"file", "sim"} |-> NothingTold]
    /\ paused = FALSE
    /\ ctx = [c \in Contexts |-> NoContext]
    /\ ggttLock = None

Call == calls > 0 /\ calls' = calls - 1

NoneInside == \A c \in Contexts : ctx[c].state \in {"none", "ready"}

(* initialize: the address of the HWSP is taken without the lock ... *)
TakeHWSP(c) ==
    /\ AllocateGfx(SizeOf("hwsp"))
    /\ ctx' = [ctx EXCEPT ![c].state = "waiting",
                          ![c].addr = [o \in {"hwsp"} |-> Fresh(SizeOf(o))]]
    /\ UNCHANGED <<table, told, paused, ggttLock, vars, plan>>

(* ... by the thread of a new context, or by the loop of open, one at a time ... *)
Initialize(c) ==
    /\ Call
    /\ c \in plan.users
    /\ ctx[c].state = "none"
    /\ TakeHWSP(c)

Reinitialize(c) ==
    /\ ctx[c].state = "closed"
    /\ \A d \in Contexts : ctx[d].again => ctx[d].state \in {"closed", "ready"}
    /\ TakeHWSP(c)
    /\ UNCHANGED calls

(* ... which it then holds to the end. *)
LockGgtt(c) ==
    /\ ctx[c].state = "waiting"
    /\ ggttLock = None
    /\ ggttLock' = c
    /\ ctx' = [ctx EXCEPT ![c].state = "inside", ![c].at = 1, ![c].inFile = ~paused]
    /\ UNCHANGED <<calls, gfx, wrapped, table, told, paused, vars, plan>>

Doing(c, what) == ctx[c].state = "inside" /\ Steps[ctx[c].at][1] = what
Current(c) == Steps[ctx[c].at][2]

AllocateObject(c) ==
    /\ Doing(c, "alloc")
    /\ AllocateGfx(SizeOf(Current(c)))
    /\ LET new == [o \in {Current(c)} |-> Fresh(SizeOf(o))]
       IN ctx' = [ctx EXCEPT ![c].addr = Join(@, new), ![c].at = @ + 1]
    /\ UNCHANGED <<calls, table, told, paused, ggttLock, vars, plan>>

(* The entry of a page of an object. *)
IndexOf(c, o, page) == (ctx[c].addr[o] + page) % GfxSpace

PageStart(index) == index - (index % plan.page)

(* The memory of an entry, as the walk records it: of its page, and on from there. *)
Physical(index) == table[PageStart(index)].pa + (index % plan.page)

(* The page the allocator gives next. *)
NextPage == AllocatedBlock(allocator[AllocatorIndex(plan.bank)], plan.page, plan.page).addr

(***************************************************************************)
(* A step of the walk: an entry that is there is kept, a page that is not   *)
(* is made, with its entries.                                               *)
(***************************************************************************)
WalkPage(c) ==
    /\ Doing(c, "write")
    /\ ctx[c].page < plan.sizes[Current(c)]
    /\ \E index \in Indices :
         LET new == NewEntries(index, NextPage)
             next == ctx[c].page + plan.page - (IndexOf(c, Current(c), ctx[c].page) % plan.page)
         IN /\ index = PageStart(IndexOf(c, Current(c), ctx[c].page))
            /\ IF index \in DOMAIN table
               THEN /\ ctx' = [ctx EXCEPT ![c].page = next]
                    /\ UNCHANGED <<table, vars>>
               ELSE /\ CreatePageTable(plan.bank, plan.page)
                    /\ table' = Join(table, new)
                    /\ ctx' = [ctx EXCEPT ![c].page = next, ![c].writes = Join(@, new)]
    /\ UNCHANGED <<calls, gfx, wrapped, told, paused, ggttLock, plan>>

(* The physical pages that get the contents of some pages of an object. *)
Contents(c, o, pages) ==
    [pa \in {Physical(IndexOf(c, o, i)) : i \in pages} |-> <<c, o>>]

(* The end of a writeMemory, and of initialize after the last one. *)
WriteObject(c) ==
    /\ Doing(c, "write")
    /\ ctx[c].page >= plan.sizes[Current(c)]
    /\ LET o == Current(c)
       IN Tell(ctx[c].writes,
               Contents(c, o, IF o \in Filled THEN 0 .. plan.sizes[o] - 1 ELSE {}))
    /\ LET last == ctx[c].at = Len(Steps)
       IN /\ ctx' = [ctx EXCEPT ![c].state = IF last THEN "ready" ELSE @,
                                ![c].at = IF last THEN 0 ELSE @ + 1,
                                ![c].page = 0, ![c].writes = << >>]
          /\ ggttLock' = IF last THEN None ELSE ggttLock
    /\ UNCHANGED <<calls, gfx, wrapped, table, paused, vars, plan>>

(***************************************************************************)
(* submitBatchBuffer, with the lock: commands to the ring, head and tail to *)
(* the second page of the LRCA and to the ring data.  All entries exist.    *)
(***************************************************************************)
Submit(c) ==
    /\ Call
    /\ ctx[c].state = "ready" /\ ggttLock = None
    /\ LET data == IF "data" \in Objects THEN Contents(c, "data", {0}) ELSE << >>
       IN Tell(<< >>, Join(Join(Contents(c, "ring", {0}), Contents(c, "lrca", {1})), data))
    /\ UNCHANGED <<gfx, wrapped, table, paused, ctx, ggttLock, vars, plan>>

(* mutant: release gives the graphics addresses back *)
GivenBack(freed) ==
    LET blocks == {b \in gfx.used : \E c \in freed, o \in Objects : ctx[c].addr[o] = b.addr}
    IN [gfx EXCEPT !.used = @ \ blocks, !.free = @ \cup blocks]

(* release leaves the GGTT as it is: its addresses are never used again. *)
Kept(freed) == gfx

Ready == {c \in Contexts : ctx[c].state = "ready"}

Release(c) ==
    /\ Call
    /\ c \in Ready
    /\ gfx' = Kept({c})
    /\ ctx' = [ctx EXCEPT ![c] = NoContext]
    /\ UNCHANGED <<wrapped, table, told, paused, ggttLock, vars, plan>>

(***************************************************************************)
(* close and open of the manager: contexts are released, what is written    *)
(* from now on goes to another file, and open initialises them again.       *)
(***************************************************************************)
NewFile ==
    /\ Call
    /\ plan.file /\ NoneInside
    /\ gfx' = Kept(Ready)
    /\ ctx' = [c \in Contexts |->
                 IF c \in Ready THEN [NoContext EXCEPT !.state = "closed", !.again = TRUE]
                 ELSE ctx[c]]
    /\ told' = [told EXCEPT !["file"] = NothingTold]
    /\ UNCHANGED <<wrapped, table, paused, ggttLock, vars, plan>>

Pause ==
    /\ Call
    /\ plan.file /\ plan.sim # "none" /\ NoneInside
    /\ paused' = ~paused
    /\ UNCHANGED <<gfx, wrapped, table, told, ctx, ggttLock, vars, plan>>

-----------------------------------------------------------------------------
(* The other clients of the physical memory *)

Holds(n, pa) ==
    n.allocator = AllocatorIndex(plan.bank) /\ n.addr <= pa /\ pa < n.addr + n.size

GgttPages == {n \in nodes : \E i \in DOMAIN table : Holds(n, table[i].pa)}

OtherClients ==
    /\ plan.others
    /\ \/ \E bank \in MemoryBanks, p \in PageSizes : CreatePageTable(bank, p)
       \/ \E n \in nodes \ GgttPages : DestroyPageTable(n)
       \/ \E bank \in MemoryBanks, s \in UserSizes, p \in PageSizes :
             \E gfxOffset \in 0 .. p - 1 : ReserveForUser(bank, gfxOffset, s, p)
    /\ \A a \in Allocators : allocator'[a].next <= FirstAddress(a) + plan.pages
    /\ UNCHANGED <<plan, ggttVars>>

OtherTable ==
    /\ ~plan.others
    /\ Call
    /\ CreatePageTable(plan.bank, MinAlignment)
    /\ UNCHANGED <<gfx, wrapped, table, told, paused, ctx, ggttLock, plan>>

GgttNext ==
    \/ \E c \in Contexts :
         \/ Initialize(c) \/ Reinitialize(c) \/ LockGgtt(c) \/ AllocateObject(c) \/ WalkPage(c) \/ WriteObject(c)
         \/ Submit(c) \/ Release(c)
    \/ NewFile \/ Pause \/ OtherClients \/ OtherTable

GgttSpec == GgttInit /\ [][GgttNext]_allVars

-----------------------------------------------------------------------------
(* Properties *)

(* Each entry points into a page that is held, and no two to the same place. *)
EntriesHeld == \A i \in DOMAIN table : \E n \in nodes : Holds(n, table[i].pa)

EntriesApart == \A i, j \in DOMAIN table : i # j => table[i].pa # table[j].pa

(***************************************************************************)
(* No two entries of the GGTT translate to the same memory, and none to     *)
(* memory that was given back, whoever else reserves and frees pages, and   *)
(* also after the graphics addresses have wrapped: a large page has entries *)
(* for which only its first one owns memory.                                *)
(***************************************************************************)
TranslatesApart == EntriesHeld /\ EntriesApart

(* Where the hardware of a device looks for an entry: in shared memory from gttBaseAddress on. *)
LooksAt(s, index) == IF s = "sim" /\ plan.sim = "shm" THEN index ELSE EntryOffset + index

(* With nothing but what it was told, a sink finds each object of a context. *)
Finds(s, c) ==
    \A o \in Objects : \A i \in 0 .. plan.sizes[o] - 1 :
        LET at == LooksAt(s, IndexOf(c, o, i))
            pa == Physical(IndexOf(c, o, i))
        IN /\ at \in DOMAIN told[s].entries
           /\ told[s].entries[at] = Entry(pa)
           /\ o \in Filled => pa \in DOMAIN told[s].data /\ told[s].data[pa] = <<c, o>>

(***************************************************************************)
(* The simulator finds the objects of every initialised context through the *)
(* entries it was told, until the 32-bit counter wraps.                     *)
(***************************************************************************)
EngineFindsObjects ==
    ~wrapped /\ plan.sim # "none" => \A c \in Ready : Finds("sim", c)

(***************************************************************************)
(* A file can be replayed by itself: the objects of a context initialised   *)
(* for it are found through the entries in it.  The entries of a page are   *)
(* told only when it is made, so this rests on graphics addresses that are  *)
(* never used again.  A context that was initialised while the file was     *)
(* paused is not in it.                                                     *)
(***************************************************************************)
FileHasObjects ==
    ~wrapped /\ plan.file => \A c \in Ready : ctx[c].inFile => Finds("file", c)

(* The memory of an object of a context that is ready, by its first page and on. *)
PagesOf(c, o) ==
    {table[PageStart(IndexOf(c, o, i))].pa : i \in 0 .. plan.sizes[o] - 1}

(***************************************************************************)
(* No two objects share a page, of one context or of several: what an       *)
(* engine saves to its status page and ring, which initialize writes        *)
(* nothing to, is read back by no other.  A context takes the address of    *)
(* its status page before it has the lock and those of its other objects    *)
(* with it, while other contexts take theirs, and addresses are aligned to  *)
(* a page.  Until the 32-bit counter wraps.                                 *)
(***************************************************************************)
ObjectsApart ==
    ~wrapped => \A c, d \in Ready : \A o, p \in Objects :
        c # d \/ o # p => PagesOf(c, o) \cap PagesOf(d, p) = {}
=============================================================================
