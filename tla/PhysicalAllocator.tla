------------------------- MODULE PhysicalAllocator -------------------------
(***************************************************************************)
(* PhysicalAddressAllocatorSimple (physical_address_allocator.cpp): one     *)
(* SimpleAllocator for system memory and one for each bank of local memory, *)
(* and its two kinds of client:                                             *)
(*                                                                          *)
(*   - PageTable objects reserve their own memory in the constructor, with  *)
(*     the alignment equal to the size, and give it back in the destructor; *)
(*   - AubManagerImp::reservePhysicalMemory hands blocks to the user, with  *)
(*     the page size as the alignment of a multiple of it; there is no call *)
(*     that gives such a block back.                                        *)
(*                                                                          *)
(* A memory bank is the set of the bits of the mask the code passes.        *)
(***************************************************************************)
EXTENDS SimpleAllocator, FiniteSets

CONSTANTS
    NumberOfAllocators,  \* numberOfAllocators, the banks of local memory
    AllocatorSize,       \* allocatorSize, the pages of one bank
    LocalMemorySupport,  \* localMemorySupport of the constructor
    ReservedGGTTSpace,   \* reservedGGTTSpace, where the main allocator starts
    PageSizes,           \* the page sizes the hardware supports, in pages
    UserSizes,           \* the sizes users ask for, in pages
    PagesBound           \* bound of the exploration: pages an allocator may hand out

ASSUME PhysicalAllocatorAssumption ==
    /\ NumberOfAllocators \in Nat
    /\ AllocatorSize \in Nat
    /\ LocalMemorySupport \in BOOLEAN
    /\ ReservedGGTTSpace \in Nat
    /\ PageSizes \subseteq Nat \ {0}
    /\ \A p \in PageSizes : MinAlignment <= p
    /\ UserSizes \subseteq Nat \ {0}
    /\ PagesBound \in Nat

VARIABLES
    allocator,  \* mainAllocator at 0, allocators[i] at i + 1
    nodes,      \* the memory live PageTable objects own
    reserved    \* the memory users hold

vars == <<allocator, nodes, reserved>>

Main == 0

Allocators == 0 .. NumberOfAllocators

(* Bank masks: no bit for system memory, or any set of the banks there are. *)
MemoryBanks == SUBSET (0 .. NumberOfAllocators - 1)

(* The loop that shifts the mask until its lowest bit is set. *)
LowestBit(bank) == CHOOSE i \in bank : \A j \in bank : i <= j

AllocatorIndex(bank) ==
    IF bank = {} \/ NumberOfAllocators = 0 THEN Main ELSE LowestBit(bank) + 1

(* startAddress in the constructor's loop, raised to one page. *)
SharedStart(i) == IF LocalMemorySupport THEN AllocatorSize \div 256 ELSE 0  \* mutant

StartAddress(i) ==
    (IF LocalMemorySupport THEN AllocatorSize \div 256 ELSE 0) + i * AllocatorSize

FirstAddress(a) ==
    IF a = Main THEN ReservedGGTTSpace ELSE MaxOf(StartAddress(a - 1), MinAlignment)

Owned(a, block) == [allocator |-> a, addr |-> block.addr, size |-> block.size]

Init ==
    /\ allocator = [a \in Allocators |-> NewAllocator(FirstAddress(a))]
    /\ nodes = {}
    /\ reserved = {}

-----------------------------------------------------------------------------
(* reservePhysicalMemory(memoryBank, size, alignment): the allocator it changes. *)
ReservePhysicalMemory(a, size, alignment) ==
    /\ AlignedAlloc(allocator[a], size, alignment).next <= FirstAddress(a) + PagesBound
    /\ allocator' = [allocator EXCEPT ![a] = AlignedAlloc(@, size, alignment)]

(* The PageTable constructor with a size: a page, a table or a 2MB page. *)
CreatePageTable(bank, pageSize) ==
    LET a == AllocatorIndex(bank)
        size == MaxOf(pageSize, MinAlignment)
    IN  /\ ReservePhysicalMemory(a, size, size)
        /\ nodes' = nodes \cup {Owned(a, AllocatedBlock(allocator[a], size, size))}
        /\ UNCHANGED reserved

(***************************************************************************)
(* ~PageTable: freePhysicalMemory(memoryBank, physicalAddress), for a       *)
(* PageTable whose address is the one its constructor reserved.  (mapGpuVa  *)
(* may have given it another one: module PageTables has that case.)         *)
(***************************************************************************)
DestroyPageTable(n) ==
    /\ allocator' = [allocator EXCEPT ![n.allocator] = AlignedFree(@, n.addr)]
    /\ nodes' = nodes \ {n}
    /\ UNCHANGED reserved

(***************************************************************************)
(* AubManagerImp::reservePhysicalMemory: a size of zero and a mask of more  *)
(* than one bank are refused; the size, counted from the start of the page  *)
(* the graphics address lies in, is rounded up to whole pages.              *)
(***************************************************************************)
ReserveForUser(bank, gfxOffset, size, pageSize) ==
    LET a == AllocatorIndex(bank)
        aligned == AlignUp(gfxOffset + size, pageSize)
    IN  /\ Cardinality(bank) <= 1
        /\ ReservePhysicalMemory(a, aligned, pageSize)
        /\ reserved' = reserved \cup
              {Owned(a, AllocatedBlock(allocator[a], aligned, pageSize))}
        /\ UNCHANGED nodes

Next ==
    \/ \E bank \in MemoryBanks, p \in PageSizes : CreatePageTable(bank, p)
    \/ \E n \in nodes : DestroyPageTable(n)
    \/ \E bank \in MemoryBanks, s \in UserSizes, p \in PageSizes :
          \E gfxOffset \in 0 .. p - 1 : ReserveForUser(bank, gfxOffset, s, p)

Spec == Init /\ [][Next]_vars

-----------------------------------------------------------------------------
OwnedType == [allocator : Allocators, addr : Nat, size : Nat]

(* The state has the types of the C++ members it stands for. *)
TypeOK ==
    /\ allocator \in [Allocators -> AllocatorState]
    /\ nodes \subseteq OwnedType
    /\ reserved \subseteq OwnedType

(* No block is given to two owners at once, a table and a user. *)
NoDoubleOwner == nodes \cap reserved = {}

(* Two holders of memory of one allocator share no page. *)
HoldersDisjoint ==
    \A m, n \in nodes \cup reserved :
        m.allocator = n.allocator /\ m # n => Disjoint(m, n)

(* What alignedAlloc may hand out next, from the free map or fresh, nobody holds. *)
NothingHeldIsFree ==
    \A n \in nodes \cup reserved :
        /\ n.addr + n.size <= allocator[n.allocator].next
        /\ \A b \in allocator[n.allocator].free : Disjoint(n, b)

(***************************************************************************)
(* However PageTable objects come and go, alignedAlloc never hands out      *)
(* memory that a live PageTable or a user still holds.                      *)
(***************************************************************************)
NoSharedMemory == NoDoubleOwner /\ HoldersDisjoint /\ NothingHeldIsFree

(***************************************************************************)
(* A PageTable's memory is aligned to its size although alignedAlloc picks  *)
(* a free block by its size alone: Page2MB::getEntryValue asserts it for    *)
(* 2MB pages, and the PTE of a 64KB page cannot express anything else.      *)
(***************************************************************************)
NodesAligned == \A n \in nodes : n.addr % n.size = 0

(***************************************************************************)
(* Memory of two local banks overlaps only after the lower bank ran past    *)
(* allocatorSize: alignedAlloc has no upper limit of its own.               *)
(***************************************************************************)
Overrun(a) == allocator[a].next > StartAddress(a - 1) + AllocatorSize

BanksDisjoint ==
    \A m, n \in nodes \cup reserved :
        (Main < m.allocator /\ m.allocator < n.allocator /\ ~Overrun(m.allocator))
            => Disjoint(m, n)

-----------------------------------------------------------------------------
(* The blocks of the allocators, which NoSharedMemory rests on. *)
AllocatorsDisjoint ==
    \A a \in Allocators :
        /\ BlocksDisjoint(allocator[a])
        /\ BlocksBelowNext(allocator[a], FirstAddress(a))

(* Every holder's block is in the used map of its allocator, and only once. *)
HoldersAreUsed ==
    \A n \in nodes \cup reserved :
        [addr |-> n.addr, size |-> n.size] \in allocator[n.allocator].used

(* What freed blocks are known to be: blocks of PageTable objects. *)
FreeAligned ==
    \A a \in Allocators : \A b \in allocator[a].free : b.addr % b.size = 0

(***************************************************************************)
(* The inductive invariant: the maps of every allocator hold disjoint       *)
(* blocks below nextAddress, whoever holds memory holds a used block that   *)
(* nobody else holds, and every block that can be handed out again is       *)
(* aligned to its size, because only PageTable objects give blocks back.    *)
(***************************************************************************)
IInv ==
    /\ TypeOK
    /\ AllocatorsDisjoint
    /\ HoldersAreUsed
    /\ NoDoubleOwner
    /\ NodesAligned
    /\ FreeAligned

=============================================================================
