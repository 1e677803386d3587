-------------------------- MODULE SimpleAllocator --------------------------
(***************************************************************************)
(* struct SimpleAllocator (physical_address_allocator.h): the allocator     *)
(* behind every physical page, page table and graphics address.  A state    *)
(* of one allocator is a record                                             *)
(*                                                                          *)
(*   next   nextAddress, the first address never handed out                 *)
(*   used   usedAllocationsMap, the blocks handed out                       *)
(*   free   freeAllocationsMap, the blocks given back                       *)
(*                                                                          *)
(* Addresses and sizes are counted in 4KB pages, so the 4096 every          *)
(* alignment is raised to is MinAlignment = 1 in the runs.  alignedAlloc    *)
(* and alignedFree hold the allocator's mutex from start to end, so each is *)
(* one operator.                                                            *)
(***************************************************************************)
EXTENDS Integers

CONSTANT MinAlignment

ASSUME MinAlignmentAssumption == MinAlignment \in Nat \ {0}

(* An element of one of the two multimaps. *)
Block == [addr : Nat, size : Nat]

AllocatorState == [next : Nat, used : SUBSET Block, free : SUBSET Block]

(* The allocator as its constructor leaves it. *)
NewAllocator(firstAddress) == [next |-> firstAddress, used |-> {}, free |-> {}]

(* The two assignments "next += a - 1; next &= ~(a - 1)"; a is a power of two. *)
AlignUp(x, a) == (x + a - 1) - ((x + a - 1) % a)

MaxOf(x, y) == IF x < y THEN y ELSE x

(***************************************************************************)
(* A free block is taken by SIZE alone, the lowest address first: the       *)
(* requested alignment is not looked at.                                    *)
(***************************************************************************)
Fitting(al, size) == {b \in al.free : b.size = size}

Lowest(blocks) == CHOOSE b \in blocks : \A c \in blocks : b.addr <= c.addr

UnalignedAddress(al, alignment) == al.next  \* mutant

FreshAddress(al, alignment) == AlignUp(al.next, MaxOf(alignment, MinAlignment))

(* The block alignedAlloc(size, alignment) returns. *)
AllocatedBlock(al, size, alignment) ==
    IF Fitting(al, size) # {}
    THEN Lowest(Fitting(al, size))
    ELSE [addr |-> FreshAddress(al, alignment), size |-> size]

(* mutant: the block taken is not erased from the free map *)
AlignedAllocKeepingFree(al, size, alignment) ==
    LET b == AllocatedBlock(al, size, alignment)
    IN  [next |-> IF b \in al.free THEN al.next ELSE b.addr + size,
         used |-> al.used \cup {b},
         free |-> al.free]

(* The allocator after alignedAlloc(size, alignment). *)
AlignedAlloc(al, size, alignment) ==
    LET b == AllocatedBlock(al, size, alignment)
    IN  [next |-> IF b \in al.free THEN al.next ELSE b.addr + size,
         used |-> al.used \cup {b},
         free |-> al.free \ {b}]

(***************************************************************************)
(* The allocator after alignedFree(address): the used block that starts at  *)
(* the address moves to the free map, any other address is ignored.  No two *)
(* blocks start at one address, so the map's find has one block to find.    *)
(***************************************************************************)
StartingAt(al, address) == {b \in al.used : b.addr = address}

AlignedFree(al, address) ==
    [al EXCEPT !.used = @ \ StartingAt(al, address),
               !.free = @ \cup StartingAt(al, address)]

(***************************************************************************)
(* What an allocator must never lose.                                       *)
(***************************************************************************)
Disjoint(b, c) == b.addr + b.size <= c.addr \/ c.addr + c.size <= b.addr

BlocksDisjoint(al) ==
    /\ al.used \cap al.free = {}
    /\ \A b, c \in al.used \cup al.free : b # c => Disjoint(b, c)

BlocksBelowNext(al, first) ==
    /\ first <= al.next
    /\ \A b \in al.used \cup al.free :
          first <= b.addr /\ 0 < b.size /\ b.addr + b.size <= al.next
=============================================================================
