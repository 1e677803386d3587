----------------------------- MODULE GgttProofs -----------------------------
(***************************************************************************)
(* Proofs about the physical allocators and about Ggtt, which uses them.    *)
(* First PhysicalAllocator, for every number of banks, every set of page    *)
(* sizes and every sequence of reservations and frees.  Then Ggtt, for any  *)
(* number of contexts, calls, devices and other clients: what is proved of  *)
(* the allocators holds of it, its entries translate to memory of their     *)
(* own, the objects of contexts lie apart, and the sinks find them through  *)
(* what they were told.                                                     *)
(***************************************************************************)
EXTENDS Ggtt, TLAPS, WellFoundedInduction

-----------------------------------------------------------------------------
(* The physical allocators *)

(* A non-empty set of naturals has a least element. *)
LEMMA LeastNatural ==
    ASSUME NEW S \in SUBSET Nat, S # {}
    PROVE  \E m \in S : \A n \in S : m <= n
<1> DEFINE R == OpToRel(<, Nat)
<1>1. IsWellFoundedOn(R, Nat)
  BY NatLessThanWellFounded
<1>2. PICK m \in S : \A n \in S : ~(<<n, m>> \in R)
  BY <1>1, WFMin, Zenon
<1>3. \A n \in S : ~(n < m)
  BY <1>2 DEF OpToRel
<1> QED
  BY <1>3

(* Raising an address to an alignment never lowers it. *)
LEMMA AlignUpRaises ==
    ASSUME NEW x \in Nat, NEW a \in Nat \ {0}
    PROVE  AlignUp(x, a) \in Nat /\ x <= AlignUp(x, a)
<1>1. (x + a - 1) % a \in 0 .. a - 1
  OBVIOUS
<1> QED
  BY <1>1 DEF AlignUp

(* MaxOf is a maximum. *)
LEMMA MaxOfNat ==
    ASSUME NEW x \in Nat, NEW y \in Nat
    PROVE  MaxOf(x, y) \in Nat /\ x <= MaxOf(x, y) /\ y <= MaxOf(x, y)
BY DEF MaxOf

(* The search of the free map finds a block of the map. *)
LEMMA LowestIsMember ==
    ASSUME NEW S \in SUBSET Block, S # {}
    PROVE  Lowest(S) \in S
<1> DEFINE A == {b.addr : b \in S}
<1>1. A \in SUBSET Nat /\ A # {}
  BY DEF Block
<1>2. PICK m \in A : \A n \in A : m <= n
  BY <1>1, LeastNatural
<1>3. PICK b \in S : b.addr = m
  BY <1>2
<1>4. \A c \in S : b.addr <= c.addr
  BY <1>2, <1>3
<1> QED
  BY <1>3, <1>4 DEF Lowest

(***************************************************************************)
(* What alignedAlloc returns: a block of the requested size that overlaps   *)
(* no used block.                                                           *)
(***************************************************************************)
LEMMA AllocatedBlockIsNew ==
    ASSUME NEW al \in AllocatorState, NEW first \in Nat,
           BlocksDisjoint(al), BlocksBelowNext(al, first),
           NEW size \in Nat \ {0}, NEW alignment \in Nat
    PROVE  LET b == AllocatedBlock(al, size, alignment)
           IN  /\ b \in Block
               /\ b.size = size
               /\ first <= b.addr
               /\ b \notin al.used
               /\ \A c \in (al.used \cup al.free) \ {b} : Disjoint(b, c)
               /\ b \in al.free => b.addr + b.size <= al.next
               /\ b \notin al.free => al.next <= b.addr
<1> DEFINE b == AllocatedBlock(al, size, alignment)
<1>0. al.next \in Nat /\ al.used \in SUBSET Block /\ al.free \in SUBSET Block
  BY DEF AllocatorState
<1>1. CASE Fitting(al, size) # {}
  <2>1. Fitting(al, size) \in SUBSET Block
    BY <1>0 DEF Fitting
  <2>2. b \in Fitting(al, size)
    BY <1>1, <2>1, LowestIsMember DEF AllocatedBlock
  <2>3. b \in al.free /\ b.size = size /\ b \in Block
    BY <1>0, <2>2 DEF Fitting
  <2> QED
    BY <2>3 DEF BlocksDisjoint, BlocksBelowNext
<1>2. CASE Fitting(al, size) = {}
  <2>1. b = [addr |-> FreshAddress(al, alignment), size |-> size]
    BY <1>2 DEF AllocatedBlock
  <2>2. FreshAddress(al, alignment) \in Nat /\ al.next <= FreshAddress(al, alignment)
    <3>1. MaxOf(alignment, MinAlignment) \in Nat \ {0}
      BY MinAlignmentAssumption DEF MaxOf
    <3> QED
      BY <1>0, <3>1, AlignUpRaises DEF FreshAddress
  <2>3. \A c \in al.used \cup al.free :
           /\ c.addr \in Nat /\ c.size \in Nat /\ 0 < c.size
           /\ c.addr + c.size <= al.next
    BY <1>0 DEF BlocksBelowNext, Block
  <2>4. \A c \in al.used \cup al.free : c # b /\ Disjoint(b, c)
    BY <2>1, <2>2, <2>3, <1>0 DEF Disjoint
  <2>5. first <= al.next
    BY DEF BlocksBelowNext
  <2> QED
    BY <1>0, <2>1, <2>2, <2>4, <2>5 DEF Block
<1> QED
  BY <1>1, <1>2

(* alignedAlloc keeps the blocks of an allocator disjoint and below next. *)
LEMMA AlignedAllocKeepsDisjoint ==
    ASSUME NEW al \in AllocatorState, NEW first \in Nat,
           BlocksDisjoint(al), BlocksBelowNext(al, first),
           NEW size \in Nat \ {0}, NEW alignment \in Nat
    PROVE  LET new == AlignedAlloc(al, size, alignment)
           IN  /\ new \in AllocatorState
               /\ BlocksDisjoint(new)
               /\ BlocksBelowNext(new, first)
               /\ new.used = al.used \cup {AllocatedBlock(al, size, alignment)}
<1> DEFINE b == AllocatedBlock(al, size, alignment)
           new == AlignedAlloc(al, size, alignment)
<1> HIDE DEF b
<1>0. al.next \in Nat /\ al.used \in SUBSET Block /\ al.free \in SUBSET Block
  BY DEF AllocatorState
<1>1. /\ b \in Block
      /\ b.size = size
      /\ first <= b.addr
      /\ b \notin al.used
      /\ \A c \in (al.used \cup al.free) \ {b} : Disjoint(b, c)
      /\ b \in al.free => b.addr + b.size <= al.next
      /\ b \notin al.free => al.next <= b.addr
  BY AllocatedBlockIsNew DEF b
<1>2. b.addr \in Nat /\ b.size \in Nat
  BY <1>1 DEF Block
<1>3. new = [next |-> IF b \in al.free THEN al.next ELSE b.addr + size,
             used |-> al.used \cup {b},
             free |-> al.free \ {b}]
  BY DEF AlignedAlloc, b
<1>4. new \in AllocatorState
  BY <1>0, <1>1, <1>2, <1>3 DEF AllocatorState
<1>5. BlocksDisjoint(new)
  <2>1. new.used \cap new.free = {}
    BY <1>3 DEF BlocksDisjoint
  <2>2. new.used \cup new.free = al.used \cup al.free \cup {b}
    BY <1>3
  <2>3. \A c \in (al.used \cup al.free) \ {b} : Disjoint(b, c) /\ Disjoint(c, b)
    BY <1>1 DEF Disjoint
  <2> QED
    BY <2>1, <2>2, <2>3 DEF BlocksDisjoint
<1>6. BlocksBelowNext(new, first)
  <2>1. new.used \cup new.free = al.used \cup al.free \cup {b}
    BY <1>3
  <2>2. al.next <= new.next /\ b.addr + b.size <= new.next /\ new.next \in Nat
    BY <1>0, <1>1, <1>2, <1>3
  <2>3. \A c \in al.used \cup al.free : c.addr \in Nat /\ c.size \in Nat
    BY <1>0 DEF Block
  <2> QED
    BY <1>0, <1>1, <1>2, <2>1, <2>2, <2>3 DEF BlocksBelowNext
<1> QED
  BY <1>3, <1>4, <1>5, <1>6 DEF b

(* alignedFree keeps them too, and takes only the block at the address from used. *)
LEMMA AlignedFreeKeepsDisjoint ==
    ASSUME NEW al \in AllocatorState, NEW first \in Nat,
           BlocksDisjoint(al), BlocksBelowNext(al, first),
           NEW address \in Nat
    PROVE  LET new == AlignedFree(al, address)
           IN  /\ new \in AllocatorState
               /\ BlocksDisjoint(new)
               /\ BlocksBelowNext(new, first)
               /\ \A b \in al.used : b.addr # address => b \in new.used
<1> DEFINE new == AlignedFree(al, address)
<1>1. /\ new.next = al.next
      /\ new.used = al.used \ StartingAt(al, address)
      /\ new.free = al.free \cup StartingAt(al, address)
      /\ new \in AllocatorState
  BY DEF AlignedFree, AllocatorState, StartingAt
<1>2. StartingAt(al, address) \subseteq al.used
  BY DEF StartingAt
<1>3. new.used \cup new.free = al.used \cup al.free
  BY <1>1, <1>2
<1>4. new.used \cap new.free = {}
  BY <1>1, <1>2 DEF BlocksDisjoint
<1> HIDE DEF new
<1> QED
  BY <1>1, <1>3, <1>4 DEF BlocksDisjoint, BlocksBelowNext, StartingAt, new

-----------------------------------------------------------------------------
(* The bank mask of a request selects an existing allocator. *)
LEMMA AllocatorIndexInRange ==
    ASSUME NEW bank \in MemoryBanks
    PROVE  AllocatorIndex(bank) \in Allocators
<1>1. CASE bank = {} \/ NumberOfAllocators = 0
  BY <1>1, PhysicalAllocatorAssumption DEF AllocatorIndex, Allocators, Main
<1>2. CASE ~(bank = {} \/ NumberOfAllocators = 0)
  <2>1. bank \in SUBSET Nat /\ bank # {} /\ bank \subseteq 0 .. NumberOfAllocators - 1
    BY <1>2, PhysicalAllocatorAssumption DEF MemoryBanks
  <2>2. \E i \in bank : \A j \in bank : i <= j
    BY <2>1, LeastNatural
  <2>3. LowestBit(bank) \in bank
    BY <2>2 DEF LowestBit
  <2>4. LowestBit(bank) \in 0 .. NumberOfAllocators - 1
    BY <2>1, <2>3
  <2>5. AllocatorIndex(bank) = LowestBit(bank) + 1
    BY <1>2 DEF AllocatorIndex
  <2> QED
    BY <2>4, <2>5, PhysicalAllocatorAssumption DEF Allocators
<1> QED
  BY <1>1, <1>2

(* The constructor starts every allocator at a natural number. *)
LEMMA FirstAddressType == \A a \in Allocators : FirstAddress(a) \in Nat
<1> SUFFICES ASSUME NEW a \in Allocators
             PROVE  FirstAddress(a) \in Nat
  OBVIOUS
<1>1. CASE a = Main
  BY <1>1, PhysicalAllocatorAssumption DEF FirstAddress
<1>2. CASE a # Main
  <2>1. a - 1 \in Nat
    BY <1>2, PhysicalAllocatorAssumption DEF Allocators, Main
  <2>2. (a - 1) * AllocatorSize \in Nat
    BY <2>1, PhysicalAllocatorAssumption
  <2>3. AllocatorSize \div 256 \in Nat
    BY PhysicalAllocatorAssumption
  <2>4. StartAddress(a - 1) \in Nat
    BY <2>2, <2>3 DEF StartAddress
  <2> QED
    BY <1>2, <2>4, MaxOfNat, MinAlignmentAssumption DEF FirstAddress
<1> QED
  BY <1>1, <1>2

(* Raising an address to an alignment aligns it. *)
LEMMA AlignUpAligns ==
    ASSUME NEW x \in Nat, NEW a \in Nat \ {0}
    PROVE  AlignUp(x, a) % a = 0
<1> DEFINE y == x + a - 1
<1>0. y \in Nat
  OBVIOUS
<1> HIDE DEF y
<1>1. y = a * (y \div a) + (y % a)
  BY <1>0
<1>2. y \div a \in Int /\ y % a \in 0 .. a - 1
  BY <1>0
<1>3. AlignUp(x, a) = a * (y \div a)
  BY <1>0, <1>1, <1>2 DEF AlignUp, y
<1>4. ASSUME NEW q \in Int
      PROVE  (a * q) % a = 0
  OBVIOUS
<1> QED
  BY <1>2, <1>3, <1>4

(***************************************************************************)
(* A page's block is aligned to its size, whether it is fresh or reused.    *)
(***************************************************************************)
LEMMA AllocatedNodeAligned ==
    ASSUME NEW al \in AllocatorState,
           \A b \in al.free : b.addr % b.size = 0,
           NEW size \in Nat \ {0}, MinAlignment <= size
    PROVE  AllocatedBlock(al, size, size).addr % size = 0
<1> DEFINE b == AllocatedBlock(al, size, size)
<1>1. CASE Fitting(al, size) # {}
  <2>1. Fitting(al, size) \in SUBSET Block
    BY DEF Fitting, AllocatorState
  <2>2. b \in Fitting(al, size)
    BY <1>1, <2>1, LowestIsMember DEF AllocatedBlock
  <2> QED
    BY <2>2 DEF Fitting
<1>2. CASE Fitting(al, size) = {}
  <2>1. b.addr = AlignUp(al.next, MaxOf(size, MinAlignment))
    BY <1>2 DEF AllocatedBlock, FreshAddress
  <2>2. MaxOf(size, MinAlignment) = size
    BY MinAlignmentAssumption DEF MaxOf
  <2>3. al.next \in Nat
    BY DEF AllocatorState
  <2> QED
    BY <2>1, <2>2, <2>3, AlignUpAligns
<1> QED
  BY <1>1, <1>2

-----------------------------------------------------------------------------
(* The constructors establish the inductive invariant. *)
LEMMA InitIInv == Init => IInv
<1> SUFFICES ASSUME Init
             PROVE  IInv
  OBVIOUS
<1>1. ASSUME NEW a \in Allocators
      PROVE  /\ allocator[a].next = FirstAddress(a)
             /\ allocator[a].used = {}
             /\ allocator[a].free = {}
  BY DEF Init, NewAllocator
<1>2. TypeOK
  BY FirstAddressType DEF Init, NewAllocator, TypeOK, AllocatorState
<1>3. AllocatorsDisjoint
  BY <1>1, FirstAddressType DEF AllocatorsDisjoint, BlocksDisjoint, BlocksBelowNext
<1>4. HoldersAreUsed /\ NoDoubleOwner /\ NodesAligned
  BY DEF Init, HoldersAreUsed, NoDoubleOwner, NodesAligned
<1>5. FreeAligned
  BY <1>1 DEF FreeAligned
<1> QED
  BY <1>2, <1>3, <1>4, <1>5 DEF IInv

(***************************************************************************)
(* A reservation by anyone: the new block joins the used map and nothing    *)
(* else about the allocators that the invariant states is lost.             *)
(***************************************************************************)
LEMMA ReserveKeeps ==
    ASSUME IInv, NEW a \in Allocators, NEW size \in Nat \ {0}, NEW alignment \in Nat,
           ReservePhysicalMemory(a, size, alignment)
    PROVE  LET b == AllocatedBlock(allocator[a], size, alignment)
           IN  /\ allocator' \in [Allocators -> AllocatorState]
               /\ AllocatorsDisjoint'
               /\ FreeAligned'
               /\ Owned(a, b) \in OwnedType
               /\ Owned(a, b) \notin nodes \cup reserved
               /\ \A n \in nodes \cup reserved \cup {Owned(a, b)} :
                     [addr |-> n.addr, size |-> n.size] \in allocator'[n.allocator].used
<1> DEFINE b == AllocatedBlock(allocator[a], size, alignment)
           al == allocator[a]
           new == AlignedAlloc(al, size, alignment)
<1>1. /\ al \in AllocatorState
      /\ BlocksDisjoint(al)
      /\ BlocksBelowNext(al, FirstAddress(a))
      /\ FirstAddress(a) \in Nat
  BY FirstAddressType DEF IInv, TypeOK, AllocatorsDisjoint
<1>2. /\ b \in Block
      /\ b.size = size
      /\ b \notin al.used
  BY <1>1, AllocatedBlockIsNew
<1>3. /\ new \in AllocatorState
      /\ BlocksDisjoint(new)
      /\ BlocksBelowNext(new, FirstAddress(a))
      /\ new.used = al.used \cup {b}
  BY <1>1, AlignedAllocKeepsDisjoint
<1>4. new.free \subseteq al.free
  BY DEF AlignedAlloc
<1>5. allocator' = [allocator EXCEPT ![a] = new]
  BY DEF ReservePhysicalMemory
<1> HIDE DEF b, new
<1>6. allocator' \in [Allocators -> AllocatorState]
  BY <1>3, <1>5 DEF IInv, TypeOK
<1>7. /\ allocator'[a] = new
      /\ \A i \in Allocators : i # a => allocator'[i] = allocator[i]
  BY <1>5 DEF IInv, TypeOK
<1>8. AllocatorsDisjoint'
  BY <1>3, <1>7, FirstAddressType DEF IInv, AllocatorsDisjoint
<1>9. FreeAligned'
  BY <1>4, <1>7 DEF IInv, FreeAligned
<1>10. /\ Owned(a, b) = [allocator |-> a, addr |-> b.addr, size |-> b.size]
       /\ b = [addr |-> b.addr, size |-> b.size]
  BY <1>2 DEF Owned, Block
<1>11. Owned(a, b) \in OwnedType
  BY <1>2, <1>10 DEF OwnedType, Block
<1>12. Owned(a, b) \notin nodes \cup reserved
  BY <1>2, <1>10 DEF IInv, HoldersAreUsed
<1>13. ASSUME NEW n \in nodes \cup reserved
       PROVE  [addr |-> n.addr, size |-> n.size] \in allocator'[n.allocator].used
  <2>1. n.allocator \in Allocators
    BY DEF IInv, TypeOK, OwnedType
  <2>2. [addr |-> n.addr, size |-> n.size] \in allocator[n.allocator].used
    BY DEF IInv, HoldersAreUsed
  <2> QED
    BY <1>3, <1>7, <2>1, <2>2
<1>14. [addr |-> b.addr, size |-> b.size] \in allocator'[a].used
  BY <1>3, <1>7, <1>10
<1> QED
  BY <1>6, <1>8, <1>9, <1>10, <1>11, <1>12, <1>13, <1>14 DEF b

(* The constructor of a PageTable keeps the invariant. *)
LEMMA CreateKeeps ==
    ASSUME IInv, NEW bank \in MemoryBanks, NEW p \in PageSizes,
           CreatePageTable(bank, p)
    PROVE  IInv'
<1> DEFINE a == AllocatorIndex(bank)
           size == MaxOf(p, MinAlignment)
           b == AllocatedBlock(allocator[a], size, size)
<1>1. a \in Allocators
  BY AllocatorIndexInRange
<1>2. size \in Nat \ {0} /\ MinAlignment <= size
  BY PhysicalAllocatorAssumption, MinAlignmentAssumption DEF MaxOf
<1>3. /\ ReservePhysicalMemory(a, size, size)
      /\ nodes' = nodes \cup {Owned(a, b)}
      /\ reserved' = reserved
  BY DEF CreatePageTable
<1> HIDE DEF a, size
<1>4. /\ allocator' \in [Allocators -> AllocatorState]
      /\ AllocatorsDisjoint'
      /\ FreeAligned'
      /\ Owned(a, b) \in OwnedType
      /\ Owned(a, b) \notin nodes \cup reserved
      /\ \A n \in nodes \cup reserved \cup {Owned(a, b)} :
            [addr |-> n.addr, size |-> n.size] \in allocator'[n.allocator].used
  BY <1>1, <1>2, <1>3, ReserveKeeps
<1>5. b.addr % b.size = 0
  <2>1. /\ allocator[a] \in AllocatorState
        /\ BlocksDisjoint(allocator[a])
        /\ BlocksBelowNext(allocator[a], FirstAddress(a))
        /\ FirstAddress(a) \in Nat
        /\ \A c \in allocator[a].free : c.addr % c.size = 0
    BY <1>1, FirstAddressType DEF IInv, TypeOK, AllocatorsDisjoint, FreeAligned
  <2>2. b.size = size
    BY <1>2, <2>1, AllocatedBlockIsNew
  <2> QED
    BY <1>2, <2>1, <2>2, AllocatedNodeAligned
<1>6. Owned(a, b).addr = b.addr /\ Owned(a, b).size = b.size
  BY DEF Owned
<1> HIDE DEF b
<1>7. TypeOK'
  BY <1>3, <1>4 DEF IInv, TypeOK
<1>8. HoldersAreUsed' /\ NoDoubleOwner' /\ NodesAligned'
  BY <1>3, <1>4, <1>5, <1>6 DEF IInv, HoldersAreUsed, NoDoubleOwner, NodesAligned
<1> QED
  BY <1>4, <1>7, <1>8 DEF IInv

(* A reservation by the user keeps the invariant. *)
LEMMA ReserveForUserKeeps ==
    ASSUME IInv, NEW bank \in MemoryBanks, NEW s \in UserSizes, NEW p \in PageSizes,
           NEW g \in 0 .. p - 1, ReserveForUser(bank, g, s, p)
    PROVE  IInv'
<1> DEFINE a == AllocatorIndex(bank)
           size == AlignUp(g + s, p)
           b == AllocatedBlock(allocator[a], size, p)
<1>1. a \in Allocators
  BY AllocatorIndexInRange
<1>2. size \in Nat \ {0} /\ p \in Nat
  <2>1. p \in Nat \ {0} /\ g + s \in Nat \ {0}
    BY PhysicalAllocatorAssumption
  <2> QED
    BY <2>1, AlignUpRaises
<1>3. /\ ReservePhysicalMemory(a, size, p)
      /\ reserved' = reserved \cup {Owned(a, b)}
      /\ nodes' = nodes
  BY DEF ReserveForUser
<1> HIDE DEF a, size
<1>4. /\ allocator' \in [Allocators -> AllocatorState]
      /\ AllocatorsDisjoint'
      /\ FreeAligned'
      /\ Owned(a, b) \in OwnedType
      /\ Owned(a, b) \notin nodes \cup reserved
      /\ \A n \in nodes \cup reserved \cup {Owned(a, b)} :
            [addr |-> n.addr, size |-> n.size] \in allocator'[n.allocator].used
  BY <1>1, <1>2, <1>3, ReserveKeeps
<1> HIDE DEF b
<1>5. TypeOK'
  BY <1>3, <1>4 DEF IInv, TypeOK
<1>6. HoldersAreUsed' /\ NoDoubleOwner' /\ NodesAligned'
  BY <1>3, <1>4 DEF IInv, HoldersAreUsed, NoDoubleOwner, NodesAligned
<1> QED
  BY <1>4, <1>5, <1>6 DEF IInv

(***************************************************************************)
(* The destructor of a PageTable keeps the invariant: the address it frees  *)
(* is the start of its own block and of no other holder's.                  *)
(***************************************************************************)
LEMMA DestroyKeeps ==
    ASSUME IInv, NEW n \in nodes, DestroyPageTable(n)
    PROVE  IInv'
<1> DEFINE a == n.allocator
           al == allocator[a]
           new == AlignedFree(al, n.addr)
<1>1. n \in OwnedType /\ a \in Allocators /\ n.addr \in Nat /\ n.size \in Nat
  BY DEF IInv, TypeOK, OwnedType
<1>2. /\ al \in AllocatorState
      /\ BlocksDisjoint(al)
      /\ BlocksBelowNext(al, FirstAddress(a))
      /\ FirstAddress(a) \in Nat
  BY <1>1, FirstAddressType DEF IInv, TypeOK, AllocatorsDisjoint
<1>3. /\ new \in AllocatorState
      /\ BlocksDisjoint(new)
      /\ BlocksBelowNext(new, FirstAddress(a))
      /\ \A b \in al.used : b.addr # n.addr => b \in new.used
  BY <1>1, <1>2, AlignedFreeKeepsDisjoint
<1>4. /\ allocator' = [allocator EXCEPT ![a] = new]
      /\ nodes' = nodes \ {n}
      /\ reserved' = reserved
  BY DEF DestroyPageTable
<1>5. [addr |-> n.addr, size |-> n.size] \in al.used
  BY DEF IInv, HoldersAreUsed
<1>6. \A b \in al.used : b.addr = n.addr => b = [addr |-> n.addr, size |-> n.size]
  <2> SUFFICES ASSUME NEW b \in al.used, b.addr = n.addr,
                      b # [addr |-> n.addr, size |-> n.size]
               PROVE  FALSE
    OBVIOUS
  <2>1. Disjoint(b, [addr |-> n.addr, size |-> n.size])
    BY <1>2, <1>5 DEF BlocksDisjoint
  <2>2. 0 < b.size /\ 0 < n.size /\ b.size \in Nat
    BY <1>2, <1>5 DEF BlocksBelowNext, AllocatorState, Block
  <2> QED
    BY <1>1, <2>1, <2>2 DEF Disjoint
<1>7. \A b \in new.free : b \in al.free \/ b = [addr |-> n.addr, size |-> n.size]
  BY <1>6 DEF AlignedFree, StartingAt
<1> HIDE DEF new
<1>8. /\ allocator' \in [Allocators -> AllocatorState]
      /\ allocator'[a] = new
      /\ \A i \in Allocators : i # a => allocator'[i] = allocator[i]
  BY <1>1, <1>3, <1>4 DEF IInv, TypeOK
<1>9. TypeOK' /\ NoDoubleOwner' /\ NodesAligned'
  BY <1>4, <1>8 DEF IInv, TypeOK, NoDoubleOwner, NodesAligned
<1>10. AllocatorsDisjoint'
  BY <1>3, <1>8 DEF IInv, AllocatorsDisjoint
<1>11. FreeAligned'
  BY <1>7, <1>8 DEF IInv, FreeAligned, NodesAligned
<1>12. HoldersAreUsed'
  <2> SUFFICES ASSUME NEW m \in nodes' \cup reserved'
               PROVE  [addr |-> m.addr, size |-> m.size] \in allocator'[m.allocator].used
    BY DEF HoldersAreUsed
  <2>1. m \in nodes \cup reserved /\ m # n
    BY <1>4 DEF IInv, NoDoubleOwner
  <2>2. [addr |-> m.addr, size |-> m.size] \in allocator[m.allocator].used
    BY <2>1 DEF IInv, HoldersAreUsed
  <2>3. m \in OwnedType /\ m.allocator \in Allocators
    BY <2>1 DEF IInv, TypeOK, OwnedType
  <2>4. CASE m.allocator # a
    BY <1>8, <2>2, <2>3, <2>4
  <2>5. CASE m.allocator = a
    <3>1. m.addr # n.addr
      <4> SUFFICES ASSUME m.addr = n.addr
                   PROVE  FALSE
        OBVIOUS
      <4>1. m.size = n.size
        BY <1>6, <2>2, <2>5
      <4> QED
        BY <1>1, <2>1, <2>3, <2>5, <4>1 DEF OwnedType
    <3> QED
      BY <1>3, <1>8, <2>2, <2>5, <3>1
  <2> QED
    BY <2>4, <2>5
<1> QED
  BY <1>9, <1>10, <1>11, <1>12 DEF IInv

(* Every behaviour of the allocators keeps the inductive invariant. *)
THEOREM Invariance == Spec => []IInv
<1>1. IInv /\ [Next]_vars => IInv'
  <2> SUFFICES ASSUME IInv, [Next]_vars
               PROVE  IInv'
    OBVIOUS
  <2>1. CASE \E bank \in MemoryBanks, p \in PageSizes : CreatePageTable(bank, p)
    BY <2>1, CreateKeeps
  <2>2. CASE \E n \in nodes : DestroyPageTable(n)
    BY <2>2, DestroyKeeps
  <2>3. CASE \E bank \in MemoryBanks, s \in UserSizes, p \in PageSizes :
                \E g \in 0 .. p - 1 : ReserveForUser(bank, g, s, p)
    BY <2>3, ReserveForUserKeeps
  <2>4. CASE UNCHANGED vars
    BY <2>4 DEF vars, IInv, TypeOK, AllocatorsDisjoint, HoldersAreUsed,
                NoDoubleOwner, NodesAligned, FreeAligned
  <2> QED
    BY <2>1, <2>2, <2>3, <2>4 DEF Next
<1> QED
  BY InitIInv, <1>1, PTL DEF Spec

(***************************************************************************)
(* SimpleAllocator never hands out memory that a PageTable or a user still  *)
(* holds (alignedAlloc and alignedFree, for any page sizes and banks).      *)
(***************************************************************************)
THEOREM MemoryNeverShared == Spec => []NoSharedMemory
<1>1. IInv => HoldersDisjoint
  <2> SUFFICES ASSUME IInv,
                      NEW m \in nodes \cup reserved, NEW n \in nodes \cup reserved,
                      m.allocator = n.allocator, m # n
               PROVE  Disjoint(m, n)
    BY DEF HoldersDisjoint
  <2> DEFINE bm == [addr |-> m.addr, size |-> m.size]
             bn == [addr |-> n.addr, size |-> n.size]
  <2>1. m \in OwnedType /\ n \in OwnedType
    BY DEF IInv, TypeOK
  <2>2. bm \in allocator[m.allocator].used /\ bn \in allocator[m.allocator].used
    BY DEF IInv, HoldersAreUsed
  <2>3. bm # bn
    BY <2>1 DEF OwnedType
  <2>4. Disjoint(bm, bn)
    BY <2>1, <2>2, <2>3 DEF IInv, AllocatorsDisjoint, BlocksDisjoint, OwnedType
  <2> QED
    BY <2>4 DEF Disjoint
<1>2. IInv => NothingHeldIsFree
  <2> SUFFICES ASSUME IInv, NEW n \in nodes \cup reserved
               PROVE  /\ n.addr + n.size <= allocator[n.allocator].next
                      /\ \A b \in allocator[n.allocator].free : Disjoint(n, b)
    BY DEF NothingHeldIsFree
  <2> DEFINE bn == [addr |-> n.addr, size |-> n.size]
  <2>1. n \in OwnedType /\ n.allocator \in Allocators
    BY DEF IInv, TypeOK, OwnedType
  <2>2. bn \in allocator[n.allocator].used
    BY DEF IInv, HoldersAreUsed
  <2>3. bn.addr + bn.size <= allocator[n.allocator].next
    BY <2>1, <2>2 DEF IInv, AllocatorsDisjoint, BlocksBelowNext
  <2>4. ASSUME NEW b \in allocator[n.allocator].free PROVE Disjoint(n, b)
    <3>1. bn # b
      BY <2>1, <2>2 DEF IInv, AllocatorsDisjoint, BlocksDisjoint
    <3>2. Disjoint(bn, b)
      BY <2>1, <2>2, <3>1 DEF IInv, AllocatorsDisjoint, BlocksDisjoint
    <3> QED
      BY <3>2 DEF Disjoint
  <2> QED
    BY <2>3, <2>4
<1>3. IInv => NoSharedMemory
  BY <1>1, <1>2 DEF IInv, NoSharedMemory
<1> QED
  BY <1>3, Invariance, PTL

(***************************************************************************)
(* The memory of every PageTable is aligned to its size, although free      *)
(* blocks are matched by size only: what Page2MB::getEntryValue asserts.    *)
(***************************************************************************)
THEOREM NodesAlwaysAligned == Spec => []NodesAligned
BY Invariance, PTL DEF IInv

(***************************************************************************)
(* Two local banks hand out overlapping memory only after the lower one     *)
(* handed out more than allocatorSize.                                      *)
(***************************************************************************)
THEOREM BanksStayDisjoint == Spec => []BanksDisjoint
<1>1. IInv => BanksDisjoint
  <2> SUFFICES ASSUME IInv,
                      NEW m \in nodes \cup reserved, NEW n \in nodes \cup reserved,
                      Main < m.allocator, m.allocator < n.allocator,
                      ~Overrun(m.allocator)
               PROVE  Disjoint(m, n)
    BY DEF BanksDisjoint
  <2> DEFINE i == m.allocator
             j == n.allocator
  <2>1. /\ i \in Nat /\ j \in Nat /\ i \in Allocators /\ j \in Allocators
        /\ m.addr \in Nat /\ m.size \in Nat /\ n.addr \in Nat /\ n.size \in Nat
    BY PhysicalAllocatorAssumption DEF IInv, TypeOK, OwnedType, Allocators
  <2>2. m.addr + m.size <= allocator[i].next
    <3>1. [addr |-> m.addr, size |-> m.size] \in allocator[i].used
      BY DEF IInv, HoldersAreUsed
    <3>2. BlocksBelowNext(allocator[i], FirstAddress(i))
      BY <2>1 DEF IInv, AllocatorsDisjoint
    <3> QED
      BY <3>1, <3>2 DEF BlocksBelowNext
  <2>3. FirstAddress(j) <= n.addr
    <3>1. [addr |-> n.addr, size |-> n.size] \in allocator[j].used
      BY DEF IInv, HoldersAreUsed
    <3>2. BlocksBelowNext(allocator[j], FirstAddress(j))
      BY <2>1 DEF IInv, AllocatorsDisjoint
    <3> QED
      BY <3>1, <3>2 DEF BlocksBelowNext
  <2>4. /\ i * AllocatorSize <= (j - 1) * AllocatorSize
        /\ i * AllocatorSize = (i - 1) * AllocatorSize + AllocatorSize
    BY <2>1, PhysicalAllocatorAssumption
  <2>5. /\ StartAddress(i) <= StartAddress(j - 1)
        /\ StartAddress(i - 1) + AllocatorSize = StartAddress(i)
        /\ StartAddress(i) \in Nat /\ StartAddress(j - 1) \in Nat
    <3>1. AllocatorSize \div 256 \in Nat
      BY PhysicalAllocatorAssumption
    <3>2. /\ i * AllocatorSize \in Nat /\ (j - 1) * AllocatorSize \in Nat
          /\ (i - 1) * AllocatorSize \in Nat
      BY <2>1, PhysicalAllocatorAssumption DEF Main
    <3> QED
      BY <2>4, <3>1, <3>2, PhysicalAllocatorAssumption DEF StartAddress
  <2>6. StartAddress(j - 1) <= FirstAddress(j)
    BY <2>1, <2>5, MinAlignmentAssumption DEF FirstAddress, MaxOf, Main
  <2>7. allocator[i].next <= StartAddress(i)
    BY <2>1, <2>5 DEF Overrun, IInv, TypeOK, AllocatorState
  <2>8. FirstAddress(j) \in Nat /\ allocator[i].next \in Nat
    BY <2>1, FirstAddressType DEF IInv, TypeOK, AllocatorState
  <2> QED
    BY <2>1, <2>2, <2>3, <2>5, <2>6, <2>7, <2>8 DEF Disjoint
<1> QED
  BY <1>1, Invariance, PTL

-----------------------------------------------------------------------------
(* The GGTT *)

(* The plan is one of the plans from the first state on. *)
PlanKept == plan \in Plans

(* The bank and the page size of a plan are ones the allocators know. *)
LEMMA PlanIsClient ==
    ASSUME PlanKept
    PROVE  plan.bank \in MemoryBanks /\ plan.page \in PageSizes
BY GgttAssumption DEF PlanKept

(* Each step of the GGTT is a step of the allocators, or none. *)
LEMMA StepOfAllocators ==
    ASSUME PlanKept, [GgttNext]_allVars
    PROVE  [Next]_vars /\ PlanKept'
<1>1. CASE UNCHANGED allVars
  BY <1>1 DEF allVars, vars, PlanKept
<1>2. ASSUME NEW c \in Contexts,
             \/ Initialize(c) \/ Reinitialize(c) \/ LockGgtt(c) \/ AllocateObject(c)
             \/ WriteObject(c) \/ Submit(c) \/ Release(c)
      PROVE  UNCHANGED <<vars, plan>>
  BY <1>2 DEF Initialize, Reinitialize, TakeHWSP, LockGgtt, AllocateObject, WriteObject,
              Submit, Release
<1>3. CASE NewFile \/ Pause
  BY <1>3 DEF NewFile, Pause, PlanKept
<1>4. ASSUME NEW c \in Contexts, WalkPage(c)
      PROVE  [Next]_vars /\ plan' = plan
  <2>1. /\ UNCHANGED vars \/ CreatePageTable(plan.bank, plan.page)
        /\ plan' = plan
    BY <1>4 DEF WalkPage
  <2> QED
    BY <2>1, PlanIsClient DEF Next
<1>5. CASE OtherClients
  <2>1. Next
    BY <1>5 DEF OtherClients, Next
  <2> QED
    BY <1>5, <2>1 DEF OtherClients, PlanKept
<1>6. CASE OtherTable
  <2>1. CreatePageTable(plan.bank, MinAlignment) /\ plan' = plan
    BY <1>6 DEF OtherTable
  <2> QED
    BY <2>1, PlanIsClient, GgttAssumption DEF Next, PlanKept
<1> QED
  BY <1>1, <1>2, <1>3, <1>4, <1>5, <1>6 DEF GgttNext, PlanKept

(* What the allocators keep, whoever uses them, they keep for the GGTT as well. *)
LEMMA AllocatorsAreUsed == GgttSpec => Spec
<1>1. GgttInit => Init /\ PlanKept
  BY DEF GgttInit, PlanKept
<1>2. PlanKept /\ [GgttNext]_allVars => [Next]_vars /\ PlanKept'
  BY StepOfAllocators
<1> QED
  BY <1>1, <1>2, PTL DEF GgttSpec, Spec

(***************************************************************************)
(* The invariant of the allocators, and with it that no two holders of      *)
(* memory share a page, holds while a GGTT is among them.                   *)
(***************************************************************************)
THEOREM GgttMemoryNeverShared == GgttSpec => [](IInv /\ NoSharedMemory)
BY AllocatorsAreUsed, Invariance, MemoryNeverShared, PTL

-----------------------------------------------------------------------------
(***************************************************************************)
(* TranslatesApart is not inductive by itself: it rests on the allocators,  *)
(* whose invariant says that a page just reserved lies apart from all that  *)
(* are held, and on a client that frees no page of the GGTT.                *)
(***************************************************************************)
Apart ==
    /\ PlanKept
    /\ IInv
    /\ \A i \in DOMAIN table : table[i].pa \in Nat
    /\ TranslatesApart

(* A PageTable just made holds a block no live one overlaps. *)
LEMMA NewPageIsApart ==
    ASSUME IInv, NEW bank \in MemoryBanks, NEW p \in PageSizes, CreatePageTable(bank, p)
    PROVE  LET a == AllocatorIndex(bank)
               b == AllocatedBlock(allocator[a], p, p)
           IN  /\ b.addr \in Nat /\ b.size = p /\ p \in Nat
               /\ nodes' = nodes \cup {Owned(a, b)}
               /\ \A n \in nodes : n.allocator = a => Disjoint(n, Owned(a, b))
<1> DEFINE a == AllocatorIndex(bank)
           al == allocator[a]
           b == AllocatedBlock(al, p, p)
<1>1. p \in Nat \ {0} /\ MinAlignment \in Nat /\ MaxOf(p, MinAlignment) = p
  BY PhysicalAllocatorAssumption, MinAlignmentAssumption DEF MaxOf
<1>2. a \in Allocators /\ FirstAddress(a) \in Nat
  BY AllocatorIndexInRange, FirstAddressType
<1>3. al \in AllocatorState /\ BlocksDisjoint(al) /\ BlocksBelowNext(al, FirstAddress(a))
  BY <1>2 DEF IInv, TypeOK, AllocatorsDisjoint
<1> HIDE DEF al
<1>4. /\ b \in Block /\ b.size = p /\ b \notin al.used
      /\ \A c \in (al.used \cup al.free) \ {b} : Disjoint(b, c)
  BY <1>1, <1>2, <1>3, AllocatedBlockIsNew
<1>5. nodes' = nodes \cup {Owned(a, b)}
  BY <1>1 DEF CreatePageTable, al
<1> HIDE DEF b
<1>6. ASSUME NEW n \in nodes, n.allocator = a
      PROVE  Disjoint(n, Owned(a, b))
  <2> DEFINE d == [addr |-> n.addr, size |-> n.size]
  <2>1. d \in al.used
    BY <1>6 DEF IInv, HoldersAreUsed, al
  <2>2. Disjoint(b, d)
    BY <2>1, <1>4
  <2> QED
    BY <2>2 DEF Disjoint, Owned
<1> QED
  BY <1>1, <1>4, <1>5, <1>6 DEF Block, b, al

(* What other pages are made or user blocks reserved takes nothing from the entries. *)
LEMMA MoreNodesKeep ==
    ASSUME Apart, UNCHANGED <<table, plan>>, nodes \ nodes' \subseteq nodes \ GgttPages, IInv'
    PROVE  Apart'
<1>1. ASSUME NEW i \in DOMAIN table
      PROVE  \E n \in nodes' : Holds(n, table[i].pa)
  <2>1. PICK n \in nodes : Holds(n, table[i].pa)
    BY DEF Apart, TranslatesApart, EntriesHeld
  <2>2. n \in GgttPages
    BY <2>1 DEF GgttPages
  <2> QED
    BY <2>1, <2>2
<1>2. EntriesHeld'
  BY <1>1 DEF EntriesHeld, Holds
<1> QED
  BY <1>2 DEF Apart, PlanKept, TranslatesApart, EntriesApart

(* The entries of a new page point into it, each to a place of its own. *)
LEMMA NewEntriesKeep ==
    ASSUME Apart, IInv', NEW index \in Indices,
           CreatePageTable(plan.bank, plan.page), plan' = plan,
           table' = Join(table, NewEntries(index, NextPage))
    PROVE  Apart'
<1> DEFINE a == AllocatorIndex(plan.bank)
           b == AllocatedBlock(allocator[a], plan.page, plan.page)
           last == index + plan.page - 1
<1>1. plan.bank \in MemoryBanks /\ plan.page \in PageSizes
  BY PlanIsClient DEF Apart
<1>2. /\ b.addr \in Nat /\ b.size = plan.page /\ plan.page \in Nat
      /\ nodes' = nodes \cup {Owned(a, b)}
      /\ \A n \in nodes : n.allocator = a => Disjoint(n, Owned(a, b))
  BY <1>1, NewPageIsApart DEF Apart
<1>3. index \in Int /\ NextPage = b.addr
  BY GgttAssumption DEF Indices, NextPage
<1> HIDE DEF b
<1>4. /\ DOMAIN table' = DOMAIN table \cup index .. last
      /\ \A i \in index .. last : table'[i].pa = b.addr + (i - index)
      /\ \A i \in DOMAIN table' : i \notin index .. last => table'[i] = table[i]
  BY <1>3 DEF Join, NewEntries, Entry
<1>5. ASSUME NEW i \in index .. last
      PROVE  table'[i].pa \in Nat /\ Holds(Owned(a, b), table'[i].pa)
  BY <1>2, <1>3, <1>4 DEF Holds, Owned
<1>6. ASSUME NEW i \in DOMAIN table, NEW j \in index .. last
      PROVE  table[i].pa # table'[j].pa
  <2>1. PICK n \in nodes : Holds(n, table[i].pa)
    BY DEF Apart, TranslatesApart, EntriesHeld
  <2>2. Disjoint(n, Owned(a, b)) /\ n.addr <= table[i].pa /\ table[i].pa < n.addr + n.size
    BY <2>1, <1>2 DEF Holds
  <2>3. n.addr \in Nat /\ n.size \in Nat /\ table[i].pa \in Nat
    BY DEF Apart, IInv, TypeOK, OwnedType
  <2>4. /\ Owned(a, b).addr = b.addr /\ Owned(a, b).size = b.size
        /\ b.addr <= table'[j].pa /\ table'[j].pa < b.addr + b.size
    BY <1>5 DEF Holds, Owned
  <2>5. table'[j].pa \in Nat
    BY <1>5
  <2> QED
    BY <2>2, <2>3, <2>4, <2>5, <1>2 DEF Disjoint
<1>7. EntriesHeld'
  <2>1. ASSUME NEW i \in DOMAIN table'
        PROVE  \E n \in nodes' : Holds(n, table'[i].pa)
    <3>1. CASE i \in index .. last
      BY <3>1, <1>2, <1>5
    <3>2. CASE i \notin index .. last
      BY <3>2, <1>2, <1>4 DEF Apart, TranslatesApart, EntriesHeld
    <3> QED
      BY <3>1, <3>2
  <2> QED
    BY <2>1 DEF EntriesHeld, Holds
<1>8. EntriesApart'
  <2>1. ASSUME NEW i \in DOMAIN table', NEW j \in DOMAIN table', i # j
        PROVE  table'[i].pa # table'[j].pa
    <3>1. CASE i \in index .. last /\ j \in index .. last
      BY <3>1, <2>1, <1>2, <1>3, <1>4
    <3>2. CASE i \in index .. last /\ j \notin index .. last
      BY <3>2, <1>4, <1>6
    <3>3. CASE i \notin index .. last /\ j \in index .. last
      BY <3>3, <1>4, <1>6
    <3>4. CASE i \notin index .. last /\ j \notin index .. last
      BY <3>4, <2>1, <1>4 DEF Apart, TranslatesApart, EntriesApart
    <3> QED
      BY <3>1, <3>2, <3>3, <3>4
  <2> QED
    BY <2>1 DEF EntriesApart
<1>9. \A i \in DOMAIN table' : table'[i].pa \in Nat
  BY <1>4, <1>5 DEF Apart
<1> QED
  BY <1>7, <1>8, <1>9 DEF Apart, PlanKept, TranslatesApart

(* A page the GGTT had, or makes. *)
LEMMA WalkKeeps ==
    ASSUME Apart, NEW c \in Contexts, WalkPage(c), IInv'
    PROVE  Apart'
<1>1. PICK index \in Indices :
        \/ UNCHANGED <<table, vars>>
        \/ /\ CreatePageTable(plan.bank, plan.page)
           /\ table' = Join(table, NewEntries(index, NextPage))
  BY DEF WalkPage
<1>2. plan' = plan
  BY DEF WalkPage
<1>3. CASE UNCHANGED <<table, vars>>
  BY <1>2, <1>3, MoreNodesKeep DEF vars
<1>4. CASE /\ CreatePageTable(plan.bank, plan.page)
           /\ table' = Join(table, NewEntries(index, NextPage))
  BY <1>2, <1>4, NewEntriesKeep
<1> QED
  BY <1>1, <1>3, <1>4

(* Apart holds from the first state on. *)
LEMMA ApartAlways == GgttSpec => []Apart
<1>1. GgttInit => Apart
  <2> SUFFICES ASSUME GgttInit
               PROVE  Apart
    OBVIOUS
  <2>1. DOMAIN table = {}
    BY DEF GgttInit
  <2>2. IInv
    BY InitIInv DEF GgttInit
  <2> QED
    BY <2>1, <2>2 DEF GgttInit, Apart, PlanKept, TranslatesApart, EntriesHeld, EntriesApart
<1>2. Apart /\ [GgttNext]_allVars /\ IInv' => Apart'
  <2> SUFFICES ASSUME Apart, [GgttNext]_allVars, IInv'
               PROVE  Apart'
    OBVIOUS
  <2>1. CASE UNCHANGED allVars
    <3>1. UNCHANGED <<table, plan, nodes>>
      BY <2>1 DEF allVars, vars, ggttVars
    <3> QED
      BY <3>1, MoreNodesKeep
  <2>2. ASSUME NEW c \in Contexts,
               \/ Initialize(c) \/ Reinitialize(c) \/ LockGgtt(c) \/ AllocateObject(c)
               \/ WriteObject(c) \/ Submit(c) \/ Release(c)
        PROVE  Apart'
    <3>1. UNCHANGED <<table, plan, nodes>>
      BY <2>2 DEF Initialize, Reinitialize, TakeHWSP, LockGgtt, AllocateObject, WriteObject,
                  Submit, Release, vars
    <3> QED
      BY <3>1, MoreNodesKeep
  <2>3. CASE NewFile \/ Pause
    <3>1. UNCHANGED <<table, plan, nodes>>
      BY <2>3 DEF NewFile, Pause, vars
    <3> QED
      BY <3>1, MoreNodesKeep
  <2>4. ASSUME NEW c \in Contexts, WalkPage(c)
        PROVE  Apart'
    BY <2>4, WalkKeeps
  <2>5. CASE OtherClients \/ OtherTable
    <3>1. UNCHANGED <<table, plan>> /\ nodes \ nodes' \subseteq nodes \ GgttPages
      BY <2>5 DEF OtherClients, OtherTable, CreatePageTable, DestroyPageTable,
                  ReserveForUser, ggttVars
    <3> QED
      BY <3>1, MoreNodesKeep
  <2> QED
    BY <2>1, <2>2, <2>3, <2>4, <2>5 DEF GgttNext
<1>3. IInv /\ NoSharedMemory => IInv
  OBVIOUS
<1> QED
  BY <1>1, <1>2, <1>3, GgttMemoryNeverShared, PTL DEF GgttSpec

(***************************************************************************)
(* No two entries of the GGTT ever translate to the same memory, or one to  *)
(* memory that was given back: walkMemory makes a page only where there is  *)
(* no entry, and other clients free only what they own.                     *)
(***************************************************************************)
THEOREM EntriesNeverShareMemory == GgttSpec => []TranslatesApart
<1>1. Apart => TranslatesApart
  BY DEF Apart
<1> QED
  BY <1>1, ApartAlways, PTL

-----------------------------------------------------------------------------
(* Pages and offsets *)

(* What is left of a number below a multiple of a page is its offset. *)
LEMMA Offset ==
    ASSUME NEW a \in Nat \ {0}, NEW x \in Nat
    PROVE  /\ x % a \in 0 .. a - 1
           /\ x - (x % a) \in Nat
           /\ (x - (x % a)) % a = 0
<1>1. /\ x = a * (x \div a) + (x % a)
      /\ x \div a \in Int /\ x % a \in 0 .. a - 1
  OBVIOUS
<1>2. ASSUME NEW q \in Int
      PROVE  (a * q) % a = 0
  OBVIOUS
<1>3. x - (x % a) = a * (x \div a)
  BY <1>1
<1>4. x % a <= x
  <2>1. CASE x < a
    BY <2>1, <1>1
  <2>2. CASE a <= x
    BY <2>2, <1>1
  <2> QED
    BY <2>1, <2>2
<1> QED
  BY <1>1, <1>2, <1>3, <1>4

(* A number inside the first page is its own offset. *)
LEMMA SmallOffset ==
    ASSUME NEW a \in Nat, NEW x \in Nat, x < a
    PROVE  x % a = x
OBVIOUS

(* A multiple of a, and what follows it. *)
LEMMA Multiple ==
    ASSUME NEW a \in Nat \ {0}, NEW x \in Nat, x % a = 0
    PROVE  \E q \in Nat : x = a * q
<1>1. x = a * (x \div a) + (x % a) /\ x \div a \in Int
  OBVIOUS
<1>2. x \div a \in Nat
  OBVIOUS
<1> QED
  BY <1>1, <1>2

(* An offset, added to the start of a page. *)
LEMMA OffsetIn ==
    ASSUME NEW a \in Nat \ {0}, NEW x \in Nat, x % a = 0, NEW k \in 0 .. a - 1
    PROVE  (x + k) % a = k
<1>1. PICK q \in Nat : x = a * q
  BY Multiple
<1>2. (a * q + k) % a = k
  OBVIOUS
<1> QED
  BY <1>1, <1>2

(* Multiples add up to multiples. *)
LEMMA NextMultiple ==
    ASSUME NEW a \in Nat \ {0}, NEW x \in Nat, x % a = 0, NEW y \in Nat, y % a = 0
    PROVE  (x + y) % a = 0
<1>1. PICK q \in Nat : x = a * q
  BY Multiple
<1>2. PICK p \in Nat : y = a * p
  BY Multiple
<1>3. a * q + a * p = a * (q + p) /\ q + p \in Nat
  OBVIOUS
<1>4. ASSUME NEW r \in Nat
      PROVE  (a * r) % a = 0
  OBVIOUS
<1> QED
  BY <1>1, <1>2, <1>3, <1>4

(* No multiple lies inside a page. *)
LEMMA MultiplesApart ==
    ASSUME NEW a \in Nat \ {0}, NEW x \in Nat, x % a = 0, NEW y \in Nat, y % a = 0, x < y
    PROVE  x + a <= y
<1>1. PICK q \in Nat : x = a * q
  BY Multiple
<1>2. PICK p \in Nat : y = a * p
  BY Multiple
<1>3. q < p
  <2>1. ASSUME p <= q
        PROVE  FALSE
    <3>1. PICK d \in Nat : q = p + d
      BY <2>1
    <3>2. a * q = a * p + a * d /\ a * d \in Nat
      BY <3>1
    <3> QED
      BY <3>2, <1>1, <1>2
  <2> QED
    BY <2>1
<1>4. PICK d \in Nat : p = q + 1 + d
  BY <1>3
<1>5. a * p = a * q + a + a * d /\ a * d \in Nat
  BY <1>4
<1> QED
  BY <1>1, <1>2, <1>5

(* The page of a number is the last one that starts before it. *)
LEMMA PageBefore ==
    ASSUME NEW a \in Nat \ {0}, NEW x \in Nat, x % a = 0, NEW y \in Nat, x <= y
    PROVE  x <= y - (y % a)
<1> DEFINE z == y - (y % a)
<1>1. z \in Nat /\ z % a = 0 /\ y < z + a
  BY Offset
<1> HIDE DEF z
<1>2. ASSUME z < x
      PROVE  FALSE
  <2>1. z + a <= x
    BY <1>1, <1>2, MultiplesApart
  <2> QED
    BY <1>1, <2>1
<1>3. x <= z
  BY <1>1, <1>2
<1> QED
  BY <1>3 DEF z
-----------------------------------------------------------------------------
(***************************************************************************)
(* What the sinks find rests on graphics addresses that are used once: the  *)
(* pages of an object are made while the object is written, so the entries  *)
(* of all of them are collected, and told.                                  *)
(***************************************************************************)
ObjectNames == {"hwsp", "fence", "ring", "lrca", "data"}

Addresses == UNION {[O -> Nat] : O \in SUBSET ObjectNames}

EntryMaps == UNION {[I -> [pa : Nat, local : BOOLEAN]] : I \in SUBSET Nat}

ContextType ==
    [state : {"none", "waiting", "inside", "ready", "closed"}, again : BOOLEAN,
     inFile : BOOLEAN, addr : Addresses, at : Nat, page : Nat,
     writes : EntryMaps]

GgttTypes ==
    /\ plan \in Plans
    /\ gfx.next \in Nat /\ gfx.free = {}
    /\ wrapped \in BOOLEAN /\ paused \in BOOLEAN
    /\ ctx \in [Contexts -> ContextType]
    /\ table \in EntryMaps
    /\ DOMAIN told = {"file", "sim"}

(* The objects initialize has written, and has addresses for, before its n-th step. *)
WrittenBy(n) == {Steps[m][2] : m \in {k \in 1 .. n - 1 : Steps[k][1] = "write"}}
AllocatedBy(n) ==
    {"hwsp"} \cup {Steps[m][2] : m \in {k \in 1 .. n - 1 : Steps[k][1] = "alloc"}}

Written(c) ==
    IF ctx[c].state = "ready" THEN Objects
    ELSE IF ctx[c].state = "inside" THEN WrittenBy(ctx[c].at)
    ELSE {}

Placed(c) == DOMAIN ctx[c].addr

(* A context has addresses for what its thread came to. *)
PlacesKnown ==
    \A c \in Contexts :
        /\ ctx[c].state \in {"none", "closed"} => Placed(c) = {}
        /\ ctx[c].state = "waiting" => Placed(c) = {"hwsp"}
        /\ ctx[c].state = "inside" =>
              ctx[c].at \in 1 .. Len(Steps) /\ Placed(c) = AllocatedBy(ctx[c].at)
        /\ ctx[c].state = "ready" => Placed(c) = Objects

(* The objects lie on pages of their own, below what the allocator gives next. *)
PlacesAligned ==
    /\ gfx.next < GfxSpace
    /\ \A c \in Contexts : \A o \in Placed(c) :
          ctx[c].addr[o] % plan.page = 0 /\ ctx[c].addr[o] + plan.sizes[o] <= gfx.next

PlacesApart ==
    \A c, d \in Contexts : \A o \in Placed(c), p \in Placed(d) :
        c # d \/ o # p =>
            \/ ctx[c].addr[o] + plan.sizes[o] <= ctx[d].addr[p]
            \/ ctx[d].addr[p] + plan.sizes[p] <= ctx[c].addr[o]

(* A page of the table has all its entries, and lies below the allocator's next address. *)
TablePages ==
    \A i \in DOMAIN table :
        /\ PageStart(i) < gfx.next
        /\ \A k \in 0 .. plan.page - 1 :
              PageStart(i) + k \in DOMAIN table
                  /\ table[PageStart(i) + k] = Entry(table[PageStart(i)].pa + k)

Indexes(o) == 0 .. plan.sizes[o] - 1

(* The pages of an object are there when it is written, and not before. *)
PagesMade ==
    \A c \in Contexts : \A o \in Written(c) : \A i \in Indexes(o) :
        ctx[c].addr[o] + i \in DOMAIN table

PagesToMake ==
    \A c \in Contexts : \A o \in Placed(c) \ Written(c) : \A i \in Indexes(o) :
        ctx[c].page <= i \/ ~(Doing(c, "write") /\ Current(c) = o)
            => ctx[c].addr[o] + i \notin DOMAIN table

(* The walk goes from page to page and collects the entries of each. *)
WalkCollects ==
    \A c \in Contexts :
        /\ ctx[c].page % plan.page = 0
        /\ \A i \in DOMAIN ctx[c].writes : i \in DOMAIN table /\ ctx[c].writes[i] = table[i]
        /\ IF Doing(c, "write")
           THEN \A i \in Indexes(Current(c)) :
                   i < ctx[c].page => ctx[c].addr[Current(c)] + i \in DOMAIN ctx[c].writes
           ELSE ctx[c].page = 0

(* Sinks know no entries but those of the table. *)
ToldOfTable ==
    \A s \in {"file", "sim"} : \A a \in DOMAIN told[s].entries :
        \E i \in DOMAIN table : a = ToldAt(i) /\ told[s].entries[a] = table[i]

(* The sinks that were told of a context when it was initialised. *)
Heard(s, c) == IF s = "file" THEN plan.file /\ ctx[c].inFile ELSE plan.sim # "none"

FileNotPaused ==
    \A c \in Contexts : ctx[c].state = "inside" /\ ctx[c].inFile => ~paused

ToldData(s, c, o, i) ==
    LET pa == table[ctx[c].addr[o] + i].pa
    IN pa \in DOMAIN told[s].data /\ told[s].data[pa] = <<c, o>>

ObjectsTold ==
    \A s \in {"file", "sim"}, c \in Contexts : Heard(s, c) =>
        \A o \in Written(c) : \A i \in Indexes(o) :
            /\ ToldAt(ctx[c].addr[o] + i) \in DOMAIN told[s].entries
            /\ o \in Filled => ToldData(s, c, o, i)

(* Until the addresses wrap. *)
ToldInv ==
    /\ PlacesKnown /\ PlacesAligned /\ PlacesApart
    /\ TablePages /\ PagesMade /\ PagesToMake
    /\ WalkCollects /\ ToldOfTable /\ FileNotPaused /\ ObjectsTold

(***************************************************************************)
(* The inductive invariant, beside Apart.  Once the 32-bit counter wraps,   *)
(* addresses are given again, and an object may lie on the pages of another.*)
(***************************************************************************)
ToldUntilWrapped == ~wrapped => GgttTypes /\ ToldInv

-----------------------------------------------------------------------------
(* What a plan is known to be. *)
LEMMA PlanFacts ==
    ASSUME plan \in Plans
    PROVE  /\ plan.page \in Nat \ {0} /\ MaxOf(plan.page, MinAlignment) = plan.page
           /\ plan.sizes \in [ObjectNames -> Nat] /\ plan.sizes["lrca"] > 1
           /\ Objects \subseteq ObjectNames
           /\ \A o \in Objects : plan.sizes[o] \in Nat \ {0}
           /\ ObjectNames \ {"data"} \subseteq Objects
<1>1. plan.page \in PageSizes
  BY GgttAssumption
<1>2. plan.page \in Nat \ {0} /\ MaxOf(plan.page, MinAlignment) = plan.page
  <2>1. plan.page \in Nat \ {0} /\ MinAlignment <= plan.page
    BY <1>1, PhysicalAllocatorAssumption
  <2>2. MinAlignment \in Nat
    BY MinAlignmentAssumption
  <2> QED
    BY <2>1, <2>2 DEF MaxOf
<1>3. /\ plan.sizes \in [ObjectNames -> Nat]
      /\ \A o \in {"hwsp", "fence", "ring"} : plan.sizes[o] > 0
      /\ plan.sizes["lrca"] > 1
  BY GgttAssumption DEF ObjectNames
<1>4. /\ Objects \subseteq ObjectNames
      /\ \A o \in Objects : plan.sizes[o] \in Nat \ {0}
  BY <1>3 DEF Objects
<1>5. ObjectNames \ {"data"} \subseteq Objects
  BY <1>3 DEF Objects, ObjectNames
<1> QED
  BY <1>2, <1>3, <1>4, <1>5

(* The entries of a GGTT start at an address. *)
LEMMA EntryOffsetType ==
    ASSUME plan \in Plans
    PROVE  EntryOffset \in Nat
<1>1. CASE plan.bank = {}
  BY <1>1 DEF EntryOffset
<1>2. CASE plan.bank # {}
  <2>1. plan.bank \in SUBSET Nat
    BY GgttAssumption DEF MemoryBanks
  <2>2. LowestBit(plan.bank) \in plan.bank
    BY <1>2, <2>1, LeastNatural DEF LowestBit
  <2>3. LowestBit(plan.bank) \in Nat
    BY <2>1, <2>2
  <2>4. ASSUME NEW n \in Nat
        PROVE  n * 2 * GfxSpace \in Nat
    BY GgttAssumption
  <2> QED
    BY <1>2, <2>3, <2>4 DEF EntryOffset
<1> QED
  BY <1>1, <1>2

(* The steps are these nine, or seven. *)
LEMMA StepsWithData ==
    ASSUME plan.sizes["data"] > 0
    PROVE  /\ Len(Steps) = 9
           /\ Steps[1] = <<"write", "hwsp">> /\ Steps[2] = <<"alloc", "fence">>
           /\ Steps[3] = <<"write", "fence">> /\ Steps[4] = <<"alloc", "ring">>
           /\ Steps[5] = <<"write", "ring">> /\ Steps[6] = <<"alloc", "lrca">>
           /\ Steps[7] = <<"alloc", "data">> /\ Steps[8] = <<"write", "data">>
           /\ Steps[9] = <<"write", "lrca">>
BY DEF Steps

(* Products without ring data. *)
LEMMA StepsWithoutData ==
    ASSUME ~(plan.sizes["data"] > 0)
    PROVE  /\ Len(Steps) = 7
           /\ Steps[1] = <<"write", "hwsp">> /\ Steps[2] = <<"alloc", "fence">>
           /\ Steps[3] = <<"write", "fence">> /\ Steps[4] = <<"alloc", "ring">>
           /\ Steps[5] = <<"write", "ring">> /\ Steps[6] = <<"alloc", "lrca">>
           /\ Steps[7] = <<"write", "lrca">>
BY DEF Steps

(***************************************************************************)
(* initialize gives each object an address before it writes it, does both   *)
(* once, and has done so with all at its end.                               *)
(***************************************************************************)
LEMMA StepFacts ==
    ASSUME plan \in Plans
    PROVE  /\ Len(Steps) \in Nat
           /\ \A n \in 1 .. Len(Steps) :
                \E o \in Objects :
                   \/ /\ Steps[n] = <<"write", o>>
                      /\ o \in AllocatedBy(n) \ WrittenBy(n)
                   \/ /\ Steps[n] = <<"alloc", o>>
                      /\ o \notin AllocatedBy(n) /\ n < Len(Steps)
           /\ Len(Steps) > 0
           /\ WrittenBy(1) = {} /\ AllocatedBy(1) = {"hwsp"}
           /\ WrittenBy(Len(Steps) + 1) = Objects
           /\ AllocatedBy(Len(Steps)) = Objects
           /\ \A n \in 1 .. Len(Steps) : WrittenBy(n) \subseteq AllocatedBy(n) /\ AllocatedBy(n) \subseteq Objects
<1>0. /\ plan.sizes \in [ObjectNames -> Nat] /\ plan.sizes["lrca"] > 1
      /\ ObjectNames \ {"data"} \subseteq Objects /\ Objects \subseteq ObjectNames
  BY PlanFacts
<1>1. CASE plan.sizes["data"] > 0
  <2>1. Objects = ObjectNames
    BY <1>0, <1>1 DEF Objects, ObjectNames
  <2>2. Len(Steps) = 9
    BY <1>1, StepsWithData
  <2>3. ASSUME NEW n \in 1 .. 9, NEW o \in Objects, Steps[n] = <<"write", o>>
        PROVE  o \in AllocatedBy(n) \ WrittenBy(n)
    BY <1>1, <2>1, <2>3, StepsWithData DEF AllocatedBy, WrittenBy, ObjectNames
  <2>4. ASSUME NEW n \in 1 .. 9, NEW o \in Objects, Steps[n] = <<"alloc", o>>
        PROVE  o \notin AllocatedBy(n) /\ n < 9
    BY <1>1, <2>1, <2>4, StepsWithData DEF AllocatedBy, ObjectNames
  <2>5. ASSUME NEW n \in 1 .. 9
        PROVE  \E o \in Objects : Steps[n] = <<"write", o>> \/ Steps[n] = <<"alloc", o>>
    BY <1>1, <2>1, StepsWithData DEF ObjectNames
  <2>6. WrittenBy(1) = {} /\ AllocatedBy(1) = {"hwsp"}
    BY DEF WrittenBy, AllocatedBy
  <2>7. WrittenBy(10) = Objects
    BY <1>1, <2>1, StepsWithData DEF WrittenBy, ObjectNames
  <2>8. AllocatedBy(9) = Objects
    BY <1>1, <2>1, StepsWithData DEF AllocatedBy, ObjectNames
  <2>9. ASSUME NEW n \in 1 .. 9
        PROVE  WrittenBy(n) \subseteq AllocatedBy(n) /\ AllocatedBy(n) \subseteq Objects
    BY <1>1, <2>1, StepsWithData DEF WrittenBy, AllocatedBy, ObjectNames
  <2> QED
    BY <2>2, <2>3, <2>4, <2>5, <2>6, <2>7, <2>8, <2>9
<1>2. CASE ~(plan.sizes["data"] > 0)
  <2>1. Objects = ObjectNames \ {"data"}
    BY <1>0, <1>2 DEF Objects, ObjectNames
  <2>2. Len(Steps) = 7
    BY <1>2, StepsWithoutData
  <2>3. ASSUME NEW n \in 1 .. 7, NEW o \in Objects, Steps[n] = <<"write", o>>
        PROVE  o \in AllocatedBy(n) \ WrittenBy(n)
    BY <1>2, <2>1, <2>3, StepsWithoutData DEF AllocatedBy, WrittenBy, ObjectNames
  <2>4. ASSUME NEW n \in 1 .. 7, NEW o \in Objects, Steps[n] = <<"alloc", o>>
        PROVE  o \notin AllocatedBy(n) /\ n < 7
    BY <1>2, <2>1, <2>4, StepsWithoutData DEF AllocatedBy, ObjectNames
  <2>5. ASSUME NEW n \in 1 .. 7
        PROVE  \E o \in Objects : Steps[n] = <<"write", o>> \/ Steps[n] = <<"alloc", o>>
    BY <1>2, <2>1, StepsWithoutData DEF ObjectNames
  <2>6. WrittenBy(1) = {} /\ AllocatedBy(1) = {"hwsp"}
    BY DEF WrittenBy, AllocatedBy
  <2>7. WrittenBy(8) = Objects
    BY <1>2, <2>1, StepsWithoutData DEF WrittenBy, ObjectNames
  <2>8. AllocatedBy(7) = Objects
    BY <1>2, <2>1, StepsWithoutData DEF AllocatedBy, ObjectNames
  <2>9. ASSUME NEW n \in 1 .. 7
        PROVE  WrittenBy(n) \subseteq AllocatedBy(n) /\ AllocatedBy(n) \subseteq Objects
    BY <1>2, <2>1, StepsWithoutData DEF WrittenBy, AllocatedBy, ObjectNames
  <2> QED
    BY <2>2, <2>3, <2>4, <2>5, <2>6, <2>7, <2>8, <2>9
<1> QED
  BY <1>1, <1>2

(* A step adds its object to those written, or to those with an address. *)
LEMMA StepAdds ==
    ASSUME NEW n \in Nat, n > 0, NEW o
    PROVE  /\ Steps[n] = <<"write", o>> =>
                 WrittenBy(n + 1) = WrittenBy(n) \cup {o} /\ AllocatedBy(n + 1) = AllocatedBy(n)
           /\ Steps[n] = <<"alloc", o>> =>
                 WrittenBy(n + 1) = WrittenBy(n) /\ AllocatedBy(n + 1) = AllocatedBy(n) \cup {o}
<1>1. 1 .. (n + 1) - 1 = (1 .. n - 1) \cup {n}
  OBVIOUS
<1> QED
  BY <1>1 DEF WrittenBy, AllocatedBy

(* What does not change while the plan does not. *)
LEMMA PlanSame ==
    ASSUME plan' = plan
    PROVE  /\ Steps' = Steps /\ Objects' = Objects /\ EntryOffset' = EntryOffset
           /\ \A n : WrittenBy(n)' = WrittenBy(n) /\ AllocatedBy(n)' = AllocatedBy(n)
           /\ \A i : PageStart(i)' = PageStart(i) /\ ToldAt(i)' = ToldAt(i) /\ Entry(i)' = Entry(i)
           /\ \A o : Indexes(o)' = Indexes(o)
<1>1. Steps' = Steps /\ Objects' = Objects /\ EntryOffset' = EntryOffset
  BY DEF Steps, Objects, EntryOffset
<1> QED
  BY <1>1 DEF WrittenBy, AllocatedBy, PageStart, ToldAt, Entry, Indexes

(* A context's address for an object it has not met is new, and the objects stay below. *)
LEMMA FreshPlace ==
    ASSUME GgttTypes, NEW size \in Nat \ {0}, AllocateGfx(size)
    PROVE  /\ Fresh(size) \in Nat
           /\ gfx'.next \in Nat /\ gfx'.free = {} /\ wrapped' \in BOOLEAN
           /\ wrapped => wrapped'
           /\ ~wrapped' =>
                /\ Fresh(size) % plan.page = 0
                /\ gfx.next <= Fresh(size)
                /\ gfx'.next = Fresh(size) + size
                /\ gfx'.next < GfxSpace
<1> DEFINE b == AllocatedBlock(gfx, size, plan.page)
           f == AlignUp(gfx.next, plan.page)
<1>1. plan.page \in Nat \ {0} /\ MaxOf(plan.page, MinAlignment) = plan.page
  BY PlanFacts DEF GgttTypes
<1>2. gfx.next \in Nat /\ gfx.free = {}
  BY DEF GgttTypes
<1>3. b = [addr |-> f, size |-> size]
  BY <1>1, <1>2 DEF AllocatedBlock, Fitting, FreshAddress
<1>4. f \in Nat /\ gfx.next <= f /\ f % plan.page = 0
  BY <1>1, <1>2, AlignUpRaises, AlignUpAligns
<1>5. AlignedAlloc(gfx, size, plan.page) =
        [next |-> f + size, used |-> gfx.used \cup {b}, free |-> gfx.free \ {b}]
  BY <1>2, <1>3 DEF AlignedAlloc
<1> HIDE DEF b, f
<1>6. /\ gfx'.next = (f + size) % GfxSpace
      /\ gfx'.free = {}
      /\ wrapped' = (wrapped \/ f + size >= GfxSpace)
  BY <1>2, <1>5 DEF AllocateGfx, GfxAlignment
<1>7. GfxSpace \in Nat \ {0}
  BY GgttAssumption
<1>8. Fresh(size) = f % GfxSpace
  BY <1>3 DEF Fresh, GfxAlignment, b
<1>9. wrapped \in BOOLEAN
  BY DEF GgttTypes
<1>10. f % GfxSpace \in Nat /\ (f + size) % GfxSpace \in Nat
  BY <1>4, <1>7
<1>11. ASSUME ~wrapped'
       PROVE  f % GfxSpace = f /\ (f + size) % GfxSpace = f + size /\ f + size < GfxSpace
  <2>0. ~(f + size >= GfxSpace)
    BY <1>6, <1>11
  <2>1. f + size < GfxSpace /\ f + size \in Nat /\ f < GfxSpace
    BY <2>0, <1>4, <1>7
  <2> QED
    BY <2>1, <1>4, <1>7, SmallOffset
<1> QED
  BY <1>4, <1>6, <1>8, <1>9, <1>10, <1>11

(* An index of an object lies where the object does. *)
LEMMA IndexIs ==
    ASSUME GgttTypes, PlacesKnown, PlacesAligned, NEW c \in Contexts, NEW o \in Placed(c),
           NEW i \in Indexes(o)
    PROVE  /\ i \in Nat /\ i < plan.sizes[o] /\ plan.sizes[o] \in Nat
           /\ ctx[c].addr[o] \in Nat
           /\ ctx[c].addr[o] + i \in Nat
           /\ ctx[c].addr[o] + i < gfx.next
           /\ IndexOf(c, o, i) = ctx[c].addr[o] + i
<1>1. ctx[c].addr \in Addresses
  BY DEF GgttTypes, ContextType
<1>2. ctx[c].addr[o] \in Nat /\ o \in ObjectNames
  BY <1>1 DEF Addresses, Placed
<1>3. plan.sizes[o] \in Nat
  BY <1>2, PlanFacts DEF GgttTypes
<1>4. i \in Nat /\ i < plan.sizes[o]
  BY <1>3 DEF Indexes
<1>5. ctx[c].addr[o] + i < gfx.next /\ gfx.next < GfxSpace /\ gfx.next \in Nat
  BY <1>2, <1>3, <1>4 DEF PlacesAligned, GgttTypes
<1>6. GfxSpace \in Nat
  BY GgttAssumption
<1>7. (ctx[c].addr[o] + i) % GfxSpace = ctx[c].addr[o] + i
  <2>1. ctx[c].addr[o] + i \in Nat /\ ctx[c].addr[o] + i < GfxSpace
    BY <1>2, <1>4, <1>5, <1>6
  <2> QED
    BY <2>1, <1>6, SmallOffset
<1> QED
  BY <1>2, <1>3, <1>4, <1>5, <1>7 DEF IndexOf

(* The memory of an entry that is there. *)
LEMMA PhysicalIs ==
    ASSUME GgttTypes, TablePages, NEW i \in DOMAIN table
    PROVE  i \in Nat /\ Physical(i) = table[i].pa /\ table[i] = Entry(Physical(i))
<1> DEFINE k == i % plan.page
<1>1. plan.page \in Nat \ {0}
  BY PlanFacts DEF GgttTypes
<1>2. i \in Nat
  BY DEF GgttTypes, EntryMaps
<1>3. k \in 0 .. plan.page - 1 /\ PageStart(i) + k = i
  <2>1. i % plan.page \in 0 .. plan.page - 1 /\ i - (i % plan.page) \in Nat
    BY <1>1, <1>2, Offset
  <2> QED
    BY <1>1, <1>2, <2>1 DEF PageStart
<1> HIDE DEF k
<1>4. table[i] = Entry(table[PageStart(i)].pa + k)
  BY <1>3 DEF TablePages
<1> QED
  BY <1>2, <1>4 DEF Physical, Entry, k

(* Objects do not lie on the same page. *)
LEMMA PagesApart ==
    ASSUME GgttTypes, PlacesKnown, PlacesAligned, PlacesApart,
           NEW c \in Contexts, NEW o \in Placed(c), NEW i \in Indexes(o),
           NEW d \in Contexts, NEW p \in Placed(d), NEW j \in Indexes(p), c # d \/ o # p
    PROVE  /\ PageStart(ctx[c].addr[o] + i) # PageStart(ctx[d].addr[p] + j)
           /\ ctx[c].addr[o] + i # ctx[d].addr[p] + j
<1> DEFINE x == ctx[c].addr[o]
           y == ctx[d].addr[p]
<1>1. plan.page \in Nat \ {0}
  BY PlanFacts DEF GgttTypes
<1>2. x \in Nat /\ i \in Nat /\ i < plan.sizes[o] /\ plan.sizes[o] \in Nat
  BY IndexIs
<1>3. y \in Nat /\ j \in Nat /\ j < plan.sizes[p] /\ plan.sizes[p] \in Nat
  BY IndexIs
<1>4. x % plan.page = 0 /\ y % plan.page = 0
  BY DEF PlacesAligned
<1>5. x + plan.sizes[o] <= y \/ y + plan.sizes[p] <= x
  BY DEF PlacesApart
<1> HIDE DEF x, y
<1>6. /\ x <= PageStart(x + i) /\ PageStart(x + i) <= x + i
      /\ y <= PageStart(y + j) /\ PageStart(y + j) <= y + j
      /\ PageStart(x + i) \in Nat /\ PageStart(y + j) \in Nat
  <2>1. x + i \in Nat /\ x <= x + i /\ y + j \in Nat /\ y <= y + j
    BY <1>2, <1>3
  <2>2. /\ x <= (x + i) - ((x + i) % plan.page) /\ (x + i) - ((x + i) % plan.page) \in Nat
        /\ (x + i) % plan.page \in 0 .. plan.page - 1
    BY <1>1, <1>2, <1>4, <2>1, PageBefore, Offset
  <2>3. /\ y <= (y + j) - ((y + j) % plan.page) /\ (y + j) - ((y + j) % plan.page) \in Nat
        /\ (y + j) % plan.page \in 0 .. plan.page - 1
    BY <1>1, <1>3, <1>4, <2>1, PageBefore, Offset
  <2> QED
    BY <1>1, <2>1, <2>2, <2>3 DEF PageStart
<1>7. PageStart(x + i) # PageStart(y + j) /\ x + i # y + j
  BY <1>2, <1>3, <1>5, <1>6
<1> QED
  BY <1>7 DEF x, y

(* Nothing lies in the table from the allocator's next address on. *)
LEMMA NothingAbove ==
    ASSUME GgttTypes, TablePages, NEW x \in Nat, x % plan.page = 0, gfx.next <= x,
           NEW i \in Nat
    PROVE  x + i \notin DOMAIN table
<1>1. plan.page \in Nat \ {0}
  BY PlanFacts DEF GgttTypes
<1>2. x <= PageStart(x + i)
  <2>1. x + i \in Nat /\ x <= x + i
    OBVIOUS
  <2> QED
    BY <1>1, <2>1, PageBefore DEF PageStart
<1>3. PageStart(x + i) \in Nat /\ gfx.next \in Nat
  <2>1. x + i \in Nat
    OBVIOUS
  <2>2. (x + i) - ((x + i) % plan.page) \in Nat
    BY <1>1, <2>1, Offset
  <2> QED
    BY <2>2 DEF PageStart, GgttTypes
<1> QED
  BY <1>2, <1>3 DEF TablePages

(* What two maps have in common they have together. *)
LEMMA JoinType ==
    ASSUME NEW S, NEW R, NEW f \in UNION {[D -> R] : D \in SUBSET S},
           NEW g \in UNION {[D -> R] : D \in SUBSET S}
    PROVE  Join(f, g) \in UNION {[D -> R] : D \in SUBSET S}
<1>1. PICK D \in SUBSET S : f \in [D -> R]
  OBVIOUS
<1>2. PICK E \in SUBSET S : g \in [E -> R]
  OBVIOUS
<1>3. Join(f, g) \in [D \cup E -> R]
  BY <1>1, <1>2 DEF Join
<1>4. D \cup E \in SUBSET S
  OBVIOUS
<1> QED
  BY <1>3, <1>4

(* An object is written after it has an address. *)
LEMMA WrittenPlaced ==
    ASSUME GgttTypes, PlacesKnown, NEW c \in Contexts
    PROVE  /\ Placed(c) \subseteq ObjectNames /\ Written(c) \subseteq Placed(c)
           /\ Written(c) \subseteq Objects
<1>1. Placed(c) \subseteq ObjectNames
  BY DEF GgttTypes, ContextType, Addresses, Placed
<1>2. ctx[c].state = "inside" =>
        WrittenBy(ctx[c].at) \subseteq AllocatedBy(ctx[c].at)
            /\ AllocatedBy(ctx[c].at) \subseteq Objects
  BY StepFacts DEF PlacesKnown, GgttTypes
<1> QED
  BY <1>1, <1>2 DEF PlacesKnown, Written

(* Where the new object is, and where the others are. *)
NewAddress(c, x) ==
    /\ Placed(c)' = Placed(c) \cup {x}
    /\ ctx'[c].addr[x] = Fresh(plan.sizes[x])
    /\ \A o \in Placed(c) \ {x} : ctx'[c].addr[o] = ctx[c].addr[o]

(***************************************************************************)
(* An object that gets an address lies on pages no object had, which the    *)
(* GGTT does not have yet.                                                  *)
(***************************************************************************)
LEMMA NewPlaceKeeps ==
    ASSUME GgttTypes, ToldInv, PlacesKnown', NEW c \in Contexts, NEW x \in Objects,
           x \notin Placed(c), x \notin Written(c), ~Doing(c, "write"),
           AllocateGfx(plan.sizes[x]), ~wrapped', UNCHANGED <<plan, table, told, paused>>,
           \A d \in Contexts \ {c} : ctx'[d] = ctx[d],
           NewAddress(c, x), Written(c)' = Written(c),
           ctx'[c].page = ctx[c].page, ctx'[c].writes = ctx[c].writes,
           ctx'[c].inFile = ctx[c].inFile,
           ctx'[c].state = "inside" => ctx[c].state = "inside"
    PROVE  ToldInv'
<1> DEFINE f == Fresh(plan.sizes[x])
<1>1. plan.page \in Nat \ {0} /\ plan.sizes[x] \in Nat \ {0} /\ x \in ObjectNames
  BY PlanFacts DEF GgttTypes
<1>2. /\ f \in Nat /\ f % plan.page = 0 /\ gfx.next <= f
      /\ gfx'.next = f + plan.sizes[x] /\ gfx'.next < GfxSpace
  BY <1>1, FreshPlace
<1> HIDE DEF f
<1>3. gfx.next \in Nat
  BY DEF GgttTypes
<1>4. ctx'[c].addr[x] = f /\ Placed(c)' = Placed(c) \cup {x}
  BY DEF NewAddress, f
<1>5. \A d \in Contexts \ {c} : Placed(d)' = Placed(d) /\ Written(d)' = Written(d)
  BY PlanSame DEF Placed, Written
<1>6. \A d \in Contexts : Written(d)' = Written(d)
  BY <1>5
<1>7. \A d \in Contexts, o \in ObjectNames :
        o \in Placed(d)' => \/ d = c /\ o = x
                            \/ o \in Placed(d) /\ ctx'[d].addr[o] = ctx[d].addr[o]
  BY <1>4, <1>5 DEF NewAddress
<1>8. \A d \in Contexts : Placed(d)' \subseteq ObjectNames /\ Placed(d) \subseteq ObjectNames
  <2>1. \A d \in Contexts : Placed(d) \subseteq ObjectNames
    BY WrittenPlaced DEF ToldInv
  <2> QED
    BY <2>1, <1>1, <1>4, <1>5
<1>9. \A d \in Contexts : \A o \in Placed(d) :
        /\ ctx[d].addr[o] \in Nat /\ plan.sizes[o] \in Nat
        /\ ctx[d].addr[o] % plan.page = 0
        /\ ctx[d].addr[o] + plan.sizes[o] <= gfx.next
  <2> SUFFICES ASSUME NEW d \in Contexts, NEW o \in Placed(d)
               PROVE  /\ ctx[d].addr[o] \in Nat /\ plan.sizes[o] \in Nat
                      /\ ctx[d].addr[o] % plan.page = 0
                      /\ ctx[d].addr[o] + plan.sizes[o] <= gfx.next
    OBVIOUS
  <2>1. ctx[d].addr[o] \in Nat
    BY DEF GgttTypes, ContextType, Addresses, Placed
  <2>2. plan.sizes[o] \in Nat
    BY <1>8, PlanFacts DEF GgttTypes
  <2> QED
    BY <2>1, <2>2 DEF ToldInv, PlacesAligned
<1>10. PlacesAligned'
  <2> SUFFICES ASSUME NEW d \in Contexts, NEW o \in Placed(d)'
               PROVE  /\ ctx'[d].addr[o] % plan.page = 0
                      /\ ctx'[d].addr[o] + plan.sizes[o] <= gfx'.next
    BY <1>2 DEF PlacesAligned
  <2>1. CASE d = c /\ o = x
    BY <2>1, <1>1, <1>2, <1>4
  <2>2. CASE o \in Placed(d) /\ ctx'[d].addr[o] = ctx[d].addr[o]
    BY <2>2, <1>1, <1>2, <1>3, <1>9
  <2> QED
    BY <2>1, <2>2, <1>7, <1>8
<1>11. PlacesApart'
  <2> SUFFICES ASSUME NEW d \in Contexts, NEW o \in Placed(d)',
                      NEW e \in Contexts, NEW p \in Placed(e)', d # e \/ o # p
               PROVE  \/ ctx'[d].addr[o] + plan.sizes[o] <= ctx'[e].addr[p]
                      \/ ctx'[e].addr[p] + plan.sizes[p] <= ctx'[d].addr[o]
    BY DEF PlacesApart
  <2>1. CASE d = c /\ o = x
    <3>1. p \in Placed(e) /\ ctx'[e].addr[p] = ctx[e].addr[p]
      BY <2>1, <1>7, <1>8
    <3> QED
      BY <2>1, <3>1, <1>2, <1>3, <1>4, <1>9
  <2>2. CASE e = c /\ p = x
    <3>1. o \in Placed(d) /\ ctx'[d].addr[o] = ctx[d].addr[o]
      BY <2>2, <1>7, <1>8
    <3> QED
      BY <2>2, <3>1, <1>2, <1>3, <1>4, <1>9
  <2>3. CASE ~(d = c /\ o = x) /\ ~(e = c /\ p = x)
    <3>1. /\ o \in Placed(d) /\ ctx'[d].addr[o] = ctx[d].addr[o]
          /\ p \in Placed(e) /\ ctx'[e].addr[p] = ctx[e].addr[p]
      BY <2>3, <1>7, <1>8
    <3> QED
      BY <3>1 DEF ToldInv, PlacesApart
  <2> QED
    BY <2>1, <2>2, <2>3
<1>12. TablePages'
  <2> SUFFICES ASSUME NEW i \in DOMAIN table
               PROVE  /\ PageStart(i) < gfx'.next
                      /\ \A k \in 0 .. plan.page - 1 :
                            PageStart(i) + k \in DOMAIN table
                                /\ table[PageStart(i) + k] = Entry(table[PageStart(i)].pa + k)
    BY PlanSame DEF TablePages, PageStart, Entry
  <2>1. i \in Nat
    BY DEF GgttTypes, EntryMaps
  <2>2. PageStart(i) \in Nat
    BY <2>1, <1>1, Offset DEF PageStart
  <2>3. PageStart(i) < gfx.next
    BY DEF ToldInv, TablePages
  <2> QED
    BY <2>2, <2>3, <1>1, <1>2, <1>3 DEF ToldInv, TablePages
<1>13. PagesMade'
  <2> SUFFICES ASSUME NEW d \in Contexts, NEW o \in Written(d), NEW i \in Indexes(o)
               PROVE  ctx'[d].addr[o] + i \in DOMAIN table
    BY <1>6, PlanSame DEF PagesMade
  <2>1. o \in Placed(d) /\ ~(d = c /\ o = x)
    BY WrittenPlaced DEF ToldInv
  <2>2. ctx'[d].addr[o] = ctx[d].addr[o]
    BY <2>1, <1>5 DEF NewAddress
  <2> QED
    BY <2>2 DEF ToldInv, PagesMade
<1>14. PagesToMake'
  <2> SUFFICES ASSUME NEW d \in Contexts, NEW o \in Placed(d)', o \notin Written(d),
                      NEW i \in Indexes(o),
                      ctx'[d].page <= i \/ ~(Doing(d, "write")' /\ Current(d)' = o)
               PROVE  ctx'[d].addr[o] + i \notin DOMAIN table
    BY <1>6, PlanSame DEF PagesToMake
  <2>1. CASE d = c /\ o = x
    <3>1. i \in Nat
      BY <2>1, <1>1 DEF Indexes
    <3> QED
      BY <2>1, <3>1, <1>2, <1>4, NothingAbove DEF ToldInv
  <2>2. CASE d = c /\ o # x
    <3>1. o \in Placed(c) /\ ctx'[c].addr[o] = ctx[c].addr[o]
      BY <2>2, <1>7, <1>8
    <3> QED
      BY <2>2, <3>1 DEF ToldInv, PagesToMake
  <2>3. CASE d # c
    <3>1. ctx'[d] = ctx[d] /\ o \in Placed(d)
      BY <2>3, <1>5
    <3>2. ctx[d].page <= i \/ ~(Doing(d, "write") /\ Current(d) = o)
      BY <3>1, PlanSame DEF Doing, Current
    <3> QED
      BY <3>1, <3>2 DEF ToldInv, PagesToMake
  <2> QED
    BY <2>1, <2>2, <2>3
<1>15. WalkCollects'
  <2>1. ctx[c].page = 0
    BY DEF ToldInv, WalkCollects
  <2>2. ASSUME NEW d \in Contexts, d # c
        PROVE  /\ ctx'[d] = ctx[d] /\ Doing(d, "write")' = Doing(d, "write")
               /\ Current(d)' = Current(d)
    BY <2>2, PlanSame DEF Doing, Current
  <2>3. ASSUME NEW d \in Contexts
        PROVE  /\ ctx'[d].page % plan.page = 0
               /\ \A i \in DOMAIN ctx'[d].writes :
                     i \in DOMAIN table /\ ctx'[d].writes[i] = table[i]
    <3>1. ctx'[d].page = ctx[d].page /\ ctx'[d].writes = ctx[d].writes
      BY <2>2
    <3> QED
      BY <3>1 DEF ToldInv, WalkCollects
  <2>4. ASSUME NEW d \in Contexts, Doing(d, "write")', NEW i \in Indexes(Current(d)'),
               i < ctx'[d].page
        PROVE  ctx'[d].addr[Current(d)'] + i \in DOMAIN ctx'[d].writes
    <3>1. CASE d = c
      <4>1. i \in Nat
        BY DEF Indexes
      <4> QED
        BY <2>1, <2>4, <3>1, <4>1
    <3>2. CASE d # c
      BY <2>2, <2>4, <3>2 DEF ToldInv, WalkCollects
    <3> QED
      BY <3>1, <3>2
  <2>5. ASSUME NEW d \in Contexts, ~Doing(d, "write")'
        PROVE  ctx'[d].page = 0
    BY <2>1, <2>2, <2>5 DEF ToldInv, WalkCollects
  <2> QED
    BY <2>3, <2>4, <2>5, PlanSame DEF WalkCollects
<1>16. ToldOfTable'
  BY PlanSame DEF ToldInv, ToldOfTable
<1>17. FileNotPaused'
  BY DEF ToldInv, FileNotPaused
<1>18. ObjectsTold'
  <2> SUFFICES ASSUME NEW s \in {"file", "sim"}, NEW d \in Contexts, Heard(s, d)',
                      NEW o \in Written(d), NEW i \in Indexes(o)
               PROVE  /\ ToldAt(ctx'[d].addr[o] + i) \in DOMAIN told[s].entries
                      /\ o \in Filled => ToldData(s, d, o, i)'
    BY <1>6, PlanSame DEF ObjectsTold
  <2>1. o \in Placed(d) /\ ~(d = c /\ o = x)
    BY WrittenPlaced DEF ToldInv
  <2>2. ctx'[d].addr[o] = ctx[d].addr[o]
    BY <2>1, <1>5 DEF NewAddress
  <2>3. Heard(s, d)
    BY DEF Heard
  <2>4. /\ ToldAt(ctx[d].addr[o] + i) \in DOMAIN told[s].entries
        /\ o \in Filled => ToldData(s, d, o, i)
    BY <2>3 DEF ToldInv, ObjectsTold
  <2>5. ToldData(s, d, o, i)' = ToldData(s, d, o, i)
    BY <2>2 DEF ToldData
  <2> QED
    BY <2>2, <2>4, <2>5
<1> QED
  BY <1>10, <1>11, <1>12, <1>13, <1>14, <1>15, <1>16, <1>17, <1>18 DEF ToldInv

(* The object a thread writes has an address, and was not written before. *)
LEMMA WritesPlaced ==
    ASSUME GgttTypes, PlacesKnown, NEW c \in Contexts, Doing(c, "write")
    PROVE  /\ ctx[c].state = "inside" /\ ctx[c].at \in 1 .. Len(Steps)
           /\ Steps[ctx[c].at] = <<"write", Current(c)>>
           /\ Current(c) \in Placed(c) \ Written(c) /\ Current(c) \in Objects
<1>1. ctx[c].state = "inside" /\ Steps[ctx[c].at][1] = "write"
  BY DEF Doing
<1>2. ctx[c].at \in 1 .. Len(Steps) /\ Placed(c) = AllocatedBy(ctx[c].at)
      /\ Written(c) = WrittenBy(ctx[c].at)
  BY <1>1 DEF PlacesKnown, Written
<1>3. PICK o \in Objects :
        \/ /\ Steps[ctx[c].at] = <<"write", o>>
           /\ o \in AllocatedBy(ctx[c].at) \ WrittenBy(ctx[c].at)
        \/ Steps[ctx[c].at] = <<"alloc", o>>
  BY <1>2, StepFacts DEF GgttTypes
<1>4. /\ Steps[ctx[c].at] = <<"write", o>>
      /\ o \in AllocatedBy(ctx[c].at) \ WrittenBy(ctx[c].at)
  BY <1>1, <1>3
<1>5. Current(c) = o
  BY <1>4 DEF Current
<1> QED
  BY <1>1, <1>2, <1>3, <1>4, <1>5

(***************************************************************************)
(* A step of the walk finds no entry where it is, since no object was there *)
(* before: it makes a page, whose entries are new, and keeps them to tell.  *)
(***************************************************************************)
LEMMA WalkMakesPage ==
    ASSUME Apart, GgttTypes, ToldInv, NEW c \in Contexts, WalkPage(c)
    PROVE  LET y == ctx[c].addr[Current(c)] + ctx[c].page
               last == y + plan.page - 1
           IN  /\ y \in Nat /\ y % plan.page = 0 /\ y < gfx.next
               /\ NextPage \in Nat
               /\ \A i \in y .. last : i \notin DOMAIN table /\ PageStart(i) = y
               /\ table' = Join(table, NewEntries(y, NextPage))
               /\ ctx' = [ctx EXCEPT ![c].page = @ + plan.page,
                                     ![c].writes = Join(@, NewEntries(y, NextPage))]
<1> DEFINE o == Current(c)
           page == ctx[c].page
           y == ctx[c].addr[o] + page
           p == plan.page
<1>1. p \in Nat \ {0} /\ page \in Nat /\ page < plan.sizes[o]
  BY PlanFacts DEF GgttTypes, ContextType, WalkPage
<1>2. o \in Placed(c) /\ o \notin Written(c) /\ o \in Objects
  BY WritesPlaced DEF WalkPage, ToldInv
<1>3. plan.sizes[o] \in Nat
  BY <1>2, PlanFacts DEF GgttTypes
<1>4. page \in Indexes(o)
  BY <1>1, <1>3 DEF Indexes
<1>5. ctx[c].addr[o] \in Nat /\ y \in Nat /\ y < gfx.next /\ IndexOf(c, o, page) = y
  BY <1>2, <1>4, IndexIs DEF ToldInv
<1>6. ctx[c].addr[o] % p = 0 /\ page % p = 0
  BY <1>2 DEF ToldInv, PlacesAligned, WalkCollects
<1>7. y % p = 0
  BY <1>1, <1>5, <1>6, NextMultiple
<1>8. y \notin DOMAIN table
  BY <1>1, <1>2, <1>4 DEF ToldInv, PagesToMake
<1>9. PageStart(y) = y
  BY <1>5, <1>7 DEF PageStart
<1> HIDE DEF y
<1>10. ASSUME NEW i \in y .. y + p - 1
       PROVE  i \notin DOMAIN table /\ PageStart(i) = y
  <2>1. PICK k \in 0 .. p - 1 : i = y + k
    <3>1. i - y \in 0 .. p - 1 /\ i = y + (i - y)
      BY <1>1, <1>5
    <3> QED
      BY <3>1
  <2>2. i % p = k
    BY <1>1, <1>5, <1>7, <2>1, OffsetIn
  <2>3. PageStart(i) = y
    BY <1>5, <2>1, <2>2 DEF PageStart
  <2>4. ASSUME i \in DOMAIN table
        PROVE  FALSE
    <3>1. y + 0 \in DOMAIN table
      BY <1>1, <2>3, <2>4 DEF ToldInv, TablePages
    <3> QED
      BY <3>1, <1>5, <1>8
  <2> QED
    BY <2>3, <2>4
<1>11. /\ ctx' = [ctx EXCEPT ![c].page = page + p - (y % p),
                             ![c].writes = Join(@, NewEntries(y, NextPage))]
       /\ CreatePageTable(plan.bank, plan.page)
       /\ table' = Join(table, NewEntries(y, NextPage))
  <2>1. PICK index \in Indices :
          /\ index = PageStart(IndexOf(c, o, page))
          /\ index \notin DOMAIN table =>
               /\ CreatePageTable(plan.bank, plan.page)
               /\ table' = Join(table, NewEntries(index, NextPage))
               /\ ctx' = [ctx EXCEPT
                             ![c].page = page + p - (IndexOf(c, o, page) % p),
                             ![c].writes = Join(@, NewEntries(index, NextPage))]
    BY DEF WalkPage
  <2>2. index = y
    BY <2>1, <1>5, <1>9
  <2> QED
    BY <2>1, <2>2, <1>5, <1>8
<1>12. page + p - (y % p) = page + p
  BY <1>1, <1>7
<1>13. NextPage \in Nat
  <2>1. plan.bank \in MemoryBanks /\ plan.page \in PageSizes
    BY PlanIsClient DEF Apart
  <2> QED
    BY <2>1, <1>11, NewPageIsApart DEF Apart, NextPage
<1> QED
  BY <1>1, <1>5, <1>7, <1>10, <1>11, <1>12, <1>13 DEF y

(* A step of the walk. *)
LEMMA WalkToldKeeps ==
    ASSUME Apart, GgttTypes, ToldInv, NEW c \in Contexts, WalkPage(c)
    PROVE  ToldInv'
<1> DEFINE o == Current(c)
           page == ctx[c].page
           x == ctx[c].addr[o]
           y == x + page
           p == plan.page
           new == NewEntries(y, NextPage)
<1>0. UNCHANGED <<plan, told, paused, gfx>> /\ Doing(c, "write") /\ page < plan.sizes[o]
  BY DEF WalkPage
<1>1. p \in Nat \ {0} /\ page \in Nat
  BY PlanFacts DEF GgttTypes, ContextType
<1>2. /\ y \in Nat /\ y % p = 0 /\ y < gfx.next /\ NextPage \in Nat
      /\ \A i \in y .. y + p - 1 : i \notin DOMAIN table /\ PageStart(i) = y
      /\ table' = Join(table, new)
      /\ ctx' = [ctx EXCEPT ![c].page = @ + p, ![c].writes = Join(@, new)]
  BY WalkMakesPage
<1>3. o \in Placed(c) /\ o \notin Written(c) /\ o \in Objects
  BY <1>0, WritesPlaced DEF ToldInv
<1>4. plan.sizes[o] \in Nat /\ x \in Nat
  <2>1. page \in Indexes(o)
    <3>1. plan.sizes[o] \in Nat
      BY <1>3, PlanFacts DEF GgttTypes
    <3> QED
      BY <3>1, <1>0, <1>1 DEF Indexes
  <2> QED
    BY <1>3, <2>1, IndexIs DEF ToldInv
<1>5. /\ DOMAIN new = y .. y + p - 1
      /\ \A k \in 0 .. p - 1 : y + k \in DOMAIN new /\ new[y + k] = Entry(NextPage + k)
  <2>1. DOMAIN new = y .. y + p - 1
    BY DEF NewEntries
  <2>2. ASSUME NEW k \in 0 .. p - 1
        PROVE  y + k \in y .. y + p - 1 /\ (y + k) - y = k
    BY <1>1, <1>2
  <2> QED
    BY <2>1, <2>2 DEF NewEntries
<1> HIDE DEF new
<1>6. /\ DOMAIN table' = DOMAIN table \cup DOMAIN new
      /\ \A i \in DOMAIN table : table'[i] = table[i]
      /\ \A i \in DOMAIN new : table'[i] = new[i]
  BY <1>2, <1>5 DEF Join
<1>7. ctx[c] \in ContextType
  BY DEF GgttTypes
<1>8. /\ ctx'[c].page = page + p /\ ctx'[c].writes = Join(ctx[c].writes, new)
      /\ ctx'[c].addr = ctx[c].addr /\ ctx'[c].state = ctx[c].state
      /\ ctx'[c].at = ctx[c].at /\ ctx'[c].inFile = ctx[c].inFile
      /\ \A d \in Contexts \ {c} : ctx'[d] = ctx[d]
  BY <1>2, <1>7 DEF GgttTypes, ContextType
<1>9. /\ \A d \in Contexts : /\ ctx'[d].addr = ctx[d].addr /\ ctx'[d].state = ctx[d].state
                             /\ ctx'[d].at = ctx[d].at /\ ctx'[d].inFile = ctx[d].inFile
  BY <1>8
<1>10. \A d \in Contexts : /\ Placed(d)' = Placed(d) /\ Written(d)' = Written(d)
                           /\ Doing(d, "write")' = Doing(d, "write")
                           /\ Current(d)' = Current(d)
  BY <1>0, <1>9, PlanSame DEF Placed, Written, Doing, Current
<1>11. PlacesKnown' /\ PlacesAligned' /\ PlacesApart'
  <2>1. PlacesKnown'
    BY <1>0, <1>9, <1>10, PlanSame DEF ToldInv, PlacesKnown
  <2>2. PlacesAligned'
    BY <1>0, <1>9, <1>10 DEF ToldInv, PlacesAligned
  <2>3. PlacesApart'
    BY <1>0, <1>9, <1>10 DEF ToldInv, PlacesApart
  <2> QED
    BY <2>1, <2>2, <2>3
<1>12. TablePages'
  <2> SUFFICES ASSUME NEW i \in DOMAIN table'
               PROVE  /\ PageStart(i) < gfx.next
                      /\ \A k \in 0 .. p - 1 :
                            PageStart(i) + k \in DOMAIN table'
                                /\ table'[PageStart(i) + k] = Entry(table'[PageStart(i)].pa + k)
    BY <1>0, PlanSame DEF TablePages
  <2>1. CASE i \in DOMAIN table
    <3>1. /\ PageStart(i) < gfx.next
          /\ \A k \in 0 .. p - 1 :
                PageStart(i) + k \in DOMAIN table
                    /\ table[PageStart(i) + k] = Entry(table[PageStart(i)].pa + k)
      BY <2>1 DEF ToldInv, TablePages
    <3>2. PageStart(i) \in DOMAIN table
      <4>1. PageStart(i) + 0 \in DOMAIN table
        BY <1>1, <3>1
      <4>2. i \in Nat /\ i - (i % p) \in Nat
        BY <2>1, <1>1, Offset DEF GgttTypes, EntryMaps
      <4> QED
        BY <4>1, <4>2 DEF PageStart
    <3> QED
      BY <3>1, <3>2, <1>6
  <2>2. CASE i \in DOMAIN new
    <3>1. PageStart(i) = y
      BY <2>2, <1>2, <1>5
    <3>2. table'[y].pa = NextPage
      <4>1. y + 0 \in DOMAIN new /\ new[y + 0] = Entry(NextPage + 0)
        BY <1>1, <1>5
      <4> QED
        BY <4>1, <1>2, <1>6 DEF Entry
    <3> QED
      BY <3>1, <3>2, <1>2, <1>5, <1>6
  <2> QED
    BY <2>1, <2>2, <1>6
<1>13. PagesMade'
  BY <1>0, <1>6, <1>9, <1>10, PlanSame DEF ToldInv, PagesMade
<1>14. PagesToMake'
  <2> SUFFICES ASSUME NEW d \in Contexts, NEW q \in Placed(d), q \notin Written(d),
                      NEW i \in Indexes(q),
                      ctx'[d].page <= i \/ ~(Doing(d, "write") /\ Current(d) = q)
               PROVE  ctx[d].addr[q] + i \notin DOMAIN table'
    BY <1>0, <1>9, <1>10, PlanSame DEF PagesToMake
  <2>1. CASE d = c /\ q = o
    <3>1. page + p <= i /\ i \in Nat
      BY <2>1, <1>0, <1>8, <1>4 DEF Indexes
    <3>2. x + i \notin DOMAIN table
      BY <2>1, <3>1, <1>1 DEF ToldInv, PagesToMake
    <3>3. x + i \notin y .. y + p - 1
      BY <3>1, <1>1, <1>4
    <3> QED
      BY <2>1, <3>2, <3>3, <1>5, <1>6
  <2>2. CASE ~(d = c /\ q = o)
    <3>1. ctx[d].page <= i \/ ~(Doing(d, "write") /\ Current(d) = q)
      BY <2>2, <1>8
    <3>2. ctx[d].addr[q] + i \notin DOMAIN table
      BY <3>1 DEF ToldInv, PagesToMake
    <3>3. page \in Indexes(o)
      BY <1>0, <1>1, <1>4 DEF Indexes
    <3>4. PageStart(ctx[d].addr[q] + i) # PageStart(y)
      BY <2>2, <3>3, <1>3, PagesApart DEF ToldInv
    <3>5. PageStart(y) = y
      BY <1>1, <1>2
    <3> QED
      BY <3>2, <3>4, <3>5, <1>2, <1>5, <1>6
  <2> QED
    BY <2>1, <2>2
<1>15. WalkCollects'
  <2>1. ASSUME NEW d \in Contexts, d # c
        PROVE  /\ ctx'[d] = ctx[d]
               /\ \A i \in DOMAIN ctx[d].writes : i \in DOMAIN table' /\ ctx[d].writes[i] = table'[i]
    BY <2>1, <1>6, <1>8 DEF ToldInv, WalkCollects
  <2>2. ctx'[c].page % p = 0
    <3>1. p % p = 0 /\ page % p = 0
      BY <1>1 DEF ToldInv, WalkCollects
    <3> QED
      BY <3>1, <1>1, <1>8, NextMultiple
  <2>3. \A i \in DOMAIN ctx'[c].writes : i \in DOMAIN table' /\ ctx'[c].writes[i] = table'[i]
    BY <1>6, <1>8 DEF ToldInv, WalkCollects, Join
  <2>4. ASSUME NEW i \in Indexes(o), i < page + p
        PROVE  x + i \in DOMAIN ctx'[c].writes
    <3>1. DOMAIN ctx'[c].writes = DOMAIN ctx[c].writes \cup DOMAIN new
      BY <1>8 DEF Join
    <3>2. i \in Nat
      BY <1>4 DEF Indexes
    <3>3. CASE i < page
      BY <3>1, <3>3, <1>0 DEF ToldInv, WalkCollects
    <3>4. CASE page <= i
      <4>1. x + i \in y .. y + p - 1
        BY <2>4, <3>2, <3>4, <1>1, <1>4
      <4> QED
        BY <4>1, <3>1, <1>5
    <3> QED
      BY <3>2, <3>3, <3>4, <1>1
  <2>5. ASSUME NEW d \in Contexts, Doing(d, "write"), NEW i \in Indexes(Current(d)),
               i < ctx'[d].page
        PROVE  ctx[d].addr[Current(d)] + i \in DOMAIN ctx'[d].writes
    <3>1. CASE d = c
      BY <2>4, <2>5, <3>1, <1>8
    <3>2. CASE d # c
      BY <2>1, <2>5, <3>2 DEF ToldInv, WalkCollects
    <3> QED
      BY <3>1, <3>2
  <2>6. ASSUME NEW d \in Contexts, ~Doing(d, "write")
        PROVE  ctx'[d].page = 0
    BY <2>1, <2>6, <1>0 DEF ToldInv, WalkCollects
  <2>7. \A d \in Contexts : ctx'[d].page % p = 0
    BY <2>1, <2>2 DEF ToldInv, WalkCollects
  <2>8. \A d \in Contexts : \A i \in DOMAIN ctx'[d].writes :
           i \in DOMAIN table' /\ ctx'[d].writes[i] = table'[i]
    BY <2>1, <2>3
  <2> QED
    BY <2>5, <2>6, <2>7, <2>8, <1>0, <1>9, <1>10, PlanSame DEF WalkCollects
<1>16. ToldOfTable'
  BY <1>0, <1>6, PlanSame DEF ToldInv, ToldOfTable
<1>17. FileNotPaused'
  BY <1>0, <1>9 DEF ToldInv, FileNotPaused
<1>18. ObjectsTold'
  <2> SUFFICES ASSUME NEW s \in {"file", "sim"}, NEW d \in Contexts, Heard(s, d)',
                      NEW q \in Written(d), NEW i \in Indexes(q)
               PROVE  /\ ToldAt(ctx[d].addr[q] + i) \in DOMAIN told[s].entries
                      /\ q \in Filled => ToldData(s, d, q, i)'
    BY <1>0, <1>9, <1>10, PlanSame DEF ObjectsTold
  <2>1. Heard(s, d)
    BY <1>0, <1>9 DEF Heard
  <2>2. /\ ToldAt(ctx[d].addr[q] + i) \in DOMAIN told[s].entries
        /\ q \in Filled => ToldData(s, d, q, i)
    BY <2>1 DEF ToldInv, ObjectsTold
  <2>3. ctx[d].addr[q] + i \in DOMAIN table
    BY DEF ToldInv, PagesMade
  <2>4. ToldData(s, d, q, i)' = ToldData(s, d, q, i)
    BY <2>3, <1>0, <1>6, <1>9 DEF ToldData
  <2> QED
    BY <2>2, <2>4
<1> QED
  BY <1>11, <1>12, <1>13, <1>14, <1>15, <1>16, <1>17, <1>18 DEF ToldInv

(* Contents are where the entries of their own object say. *)
OwnContents(data) ==
    \A d \in Contexts : \A q \in Placed(d) : \A i \in Indexes(q) :
        LET at == ctx[d].addr[q] + i
        IN at \in DOMAIN table /\ table[at].pa \in DOMAIN data => data[table[at].pa] = <<d, q>>

(* No two objects have a page of memory in common. *)
LEMMA ContentsOwn ==
    ASSUME Apart, GgttTypes, ToldInv, NEW c \in Contexts, NEW o \in Placed(c),
           NEW pages \in SUBSET Indexes(o),
           \A i \in pages : ctx[c].addr[o] + i \in DOMAIN table
    PROVE  /\ OwnContents(Contents(c, o, pages))
           /\ DOMAIN Contents(c, o, pages) = {table[ctx[c].addr[o] + i].pa : i \in pages}
           /\ \A pa \in DOMAIN Contents(c, o, pages) : Contents(c, o, pages)[pa] = <<c, o>>
<1>1. \A i \in pages : Physical(IndexOf(c, o, i)) = table[ctx[c].addr[o] + i].pa
  BY IndexIs, PhysicalIs DEF ToldInv
<1>2. /\ DOMAIN Contents(c, o, pages) = {table[ctx[c].addr[o] + i].pa : i \in pages}
      /\ \A pa \in DOMAIN Contents(c, o, pages) : Contents(c, o, pages)[pa] = <<c, o>>
  BY <1>1 DEF Contents
<1>3. ASSUME NEW d \in Contexts, NEW q \in Placed(d), NEW i \in Indexes(q),
             ctx[d].addr[q] + i \in DOMAIN table,
             table[ctx[d].addr[q] + i].pa \in DOMAIN Contents(c, o, pages)
      PROVE  c = d /\ o = q
  <2>1. PICK j \in pages : table[ctx[c].addr[o] + j].pa = table[ctx[d].addr[q] + i].pa
    BY <1>2, <1>3
  <2>2. ctx[c].addr[o] + j = ctx[d].addr[q] + i
    BY <2>1, <1>3 DEF Apart, TranslatesApart, EntriesApart
  <2> QED
    BY <2>2, PagesApart DEF ToldInv
<1> QED
  BY <1>2, <1>3 DEF OwnContents

(* Contents join to contents. *)
LEMMA JoinOwn ==
    ASSUME NEW f, NEW g, OwnContents(f), OwnContents(g)
    PROVE  OwnContents(Join(f, g))
BY DEF OwnContents, Join

(* What a sink told t knows of a page of an object. *)
Knows(t, d, q, i) ==
    /\ ToldAt(ctx[d].addr[q] + i) \in DOMAIN t.entries
    /\ q \in Filled => /\ table[ctx[d].addr[q] + i].pa \in DOMAIN t.data
                       /\ t.data[table[ctx[d].addr[q] + i].pa] = <<d, q>>

(***************************************************************************)
(* What sinks are told adds to what they know: entries of the table, and    *)
(* contents where only their own object has its memory.                     *)
(***************************************************************************)
LEMMA TellAdds ==
    ASSUME GgttTypes, ToldInv, NEW writes, NEW data, Tell(writes, data),
           UNCHANGED <<plan, table>>,
           \A i \in DOMAIN writes : i \in DOMAIN table /\ writes[i] = table[i],
           OwnContents(data)
    PROVE  /\ ToldOfTable' /\ DOMAIN told' = {"file", "sim"}
           /\ \A s \in {"file", "sim"} : Listens(s) =>
                 /\ \A i \in DOMAIN writes : ToldAt(i) \in DOMAIN told'[s].entries
                 /\ \A pa \in DOMAIN data :
                       pa \in DOMAIN told'[s].data /\ told'[s].data[pa] = data[pa]
           /\ \A s \in {"file", "sim"}, d \in Contexts : Heard(s, d) =>
                 \A q \in Written(d) : \A i \in Indexes(q) : Knows(told'[s], d, q, i)
<1>1. DOMAIN told = {"file", "sim"}
  BY DEF GgttTypes
<1>2. /\ DOMAIN told' = {"file", "sim"}
      /\ \A s \in {"file", "sim"} :
            /\ ~Listens(s) => told'[s] = told[s]
            /\ Listens(s) => /\ told'[s].entries = Join(told[s].entries, ToldEntries(writes))
                             /\ told'[s].data = Join(told[s].data, data)
  BY <1>1 DEF Tell
<1>3. EntryOffset \in Nat
  BY EntryOffsetType DEF GgttTypes
<1>4. \A i \in DOMAIN table : i \in Nat
  BY DEF GgttTypes, EntryMaps
<1>5. /\ DOMAIN ToldEntries(writes) = {ToldAt(i) : i \in DOMAIN writes}
      /\ \A i \in DOMAIN writes : ToldEntries(writes)[ToldAt(i)] = writes[i]
  <2>1. \A i \in DOMAIN writes : ToldAt(i) - EntryOffset = i
    BY <1>3, <1>4 DEF ToldAt
  <2> QED
    BY <2>1 DEF ToldEntries
<1>6. ToldOfTable'
  <2> SUFFICES ASSUME NEW s \in {"file", "sim"}, NEW a \in DOMAIN told'[s].entries
               PROVE  \E i \in DOMAIN table : a = ToldAt(i) /\ told'[s].entries[a] = table[i]
    BY PlanSame DEF ToldOfTable
  <2>1. CASE ~Listens(s)
    BY <2>1, <1>2 DEF ToldInv, ToldOfTable
  <2>2. CASE Listens(s)
    <3>1. told'[s].entries = Join(told[s].entries, ToldEntries(writes))
      BY <2>2, <1>2
    <3>2. CASE a \in DOMAIN ToldEntries(writes)
      <4>1. PICK i \in DOMAIN writes : a = ToldAt(i)
        BY <3>2, <1>5
      <4>2. told'[s].entries[a] = writes[i]
        BY <3>1, <3>2, <4>1, <1>5 DEF Join
      <4> QED
        BY <4>1, <4>2
    <3>3. CASE a \notin DOMAIN ToldEntries(writes)
      <4>1. a \in DOMAIN told[s].entries /\ told'[s].entries[a] = told[s].entries[a]
        BY <3>1, <3>3 DEF Join
      <4> QED
        BY <4>1 DEF ToldInv, ToldOfTable
    <3> QED
      BY <3>2, <3>3
  <2> QED
    BY <2>1, <2>2
<1>7. ASSUME NEW s \in {"file", "sim"}, Listens(s)
      PROVE  /\ \A i \in DOMAIN writes : ToldAt(i) \in DOMAIN told'[s].entries
             /\ \A pa \in DOMAIN data :
                   pa \in DOMAIN told'[s].data /\ told'[s].data[pa] = data[pa]
  BY <1>2, <1>5, <1>7 DEF Join
<1>8. ASSUME NEW s \in {"file", "sim"}, NEW d \in Contexts, Heard(s, d),
             NEW q \in Written(d), NEW i \in Indexes(q)
      PROVE  Knows(told'[s], d, q, i)
  <2> DEFINE at == ctx[d].addr[q] + i
  <2>1. Knows(told[s], d, q, i)
    BY <1>8 DEF ToldInv, ObjectsTold, ToldData, Knows
  <2>2. at \in DOMAIN table /\ q \in Placed(d)
    BY WrittenPlaced DEF ToldInv, PagesMade
  <2>3. table[at].pa \in DOMAIN data => data[table[at].pa] = <<d, q>>
    BY <2>2 DEF OwnContents
  <2>4. CASE ~Listens(s)
    BY <2>1, <2>4, <1>2
  <2>5. CASE Listens(s)
    <3>1. told'[s].entries = Join(told[s].entries, ToldEntries(writes))
          /\ told'[s].data = Join(told[s].data, data)
      BY <2>5, <1>2
    <3> QED
      BY <3>1, <2>1, <2>3 DEF Join, Knows
  <2> QED
    BY <2>4, <2>5
<1> QED
  BY <1>2, <1>6, <1>7, <1>8

(* What a submission writes it writes to objects of its context, which are all there. *)
LEMMA SubmitToldKeeps ==
    ASSUME Apart, GgttTypes, ToldInv, NEW c \in Contexts, Submit(c)
    PROVE  ToldInv'
<1> DEFINE ring == Contents(c, "ring", {0})
           lrca == Contents(c, "lrca", {1})
           data == IF "data" \in Objects THEN Contents(c, "data", {0}) ELSE << >>
           all == Join(Join(ring, lrca), data)
<1>1. /\ ctx[c].state = "ready" /\ Tell(<< >>, all)
      /\ UNCHANGED <<plan, gfx, table, paused, ctx>>
  BY DEF Submit
<1>2. Placed(c) = Objects /\ Written(c) = Objects
  BY <1>1 DEF ToldInv, PlacesKnown, Written
<1>3. ASSUME NEW o \in Objects, NEW pages \in SUBSET Indexes(o)
      PROVE  OwnContents(Contents(c, o, pages))
  <2>1. \A i \in pages : ctx[c].addr[o] + i \in DOMAIN table
    BY <1>2 DEF ToldInv, PagesMade
  <2> QED
    BY <2>1, <1>2, ContentsOwn
<1>4. /\ "ring" \in Objects /\ {0} \in SUBSET Indexes("ring")
      /\ "lrca" \in Objects /\ {1} \in SUBSET Indexes("lrca")
      /\ "data" \in Objects => {0} \in SUBSET Indexes("data")
  <2>1. /\ "ring" \in Objects /\ "lrca" \in Objects /\ plan.sizes["lrca"] > 1
        /\ \A o \in Objects : plan.sizes[o] \in Nat \ {0}
    BY PlanFacts DEF GgttTypes, ObjectNames
  <2> QED
    BY <2>1 DEF Indexes
<1>5. OwnContents(ring) /\ OwnContents(lrca)
  BY <1>3, <1>4
<1>6. OwnContents(data)
  <2>1. CASE "data" \in Objects
    BY <2>1, <1>3, <1>4
  <2>2. CASE "data" \notin Objects
    BY <2>2 DEF OwnContents
  <2> QED
    BY <2>1, <2>2
<1>7. OwnContents(all)
  <2> HIDE DEF ring, lrca, data
  <2> QED
    BY <1>5, <1>6, JoinOwn
<1> HIDE DEF all
<1>8. /\ ToldOfTable'
      /\ \A s \in {"file", "sim"}, d \in Contexts : Heard(s, d) =>
            \A q \in Written(d) : \A i \in Indexes(q) : Knows(told'[s], d, q, i)
  <2>1. \A i \in DOMAIN << >> : i \in DOMAIN table /\ << >>[i] = table[i]
    OBVIOUS
  <2> QED
    BY <2>1, <1>1, <1>7, TellAdds
<1>9. ObjectsTold'
  <2>1. \A s \in {"file", "sim"}, d \in Contexts :
           Heard(s, d)' = Heard(s, d) /\ Written(d)' = Written(d)
    BY <1>1, PlanSame DEF Heard, Written
  <2> SUFFICES ASSUME NEW s \in {"file", "sim"}, NEW d \in Contexts, Heard(s, d)',
                      NEW o \in Written(d), NEW i \in Indexes(o)
               PROVE  /\ ToldAt(ctx[d].addr[o] + i) \in DOMAIN told'[s].entries
                      /\ o \in Filled => ToldData(s, d, o, i)'
    BY <1>1, <2>1, PlanSame DEF ObjectsTold
  <2>2. Knows(told'[s], d, o, i)
    BY <1>8, <2>1
  <2> QED
    BY <2>2, <1>1 DEF Knows, ToldData
<1>10. /\ PlacesKnown' /\ PlacesAligned' /\ PlacesApart' /\ TablePages' /\ PagesMade'
       /\ PagesToMake' /\ WalkCollects' /\ FileNotPaused'
  <2>1. \A d \in Contexts : /\ Written(d)' = Written(d) /\ Placed(d)' = Placed(d)
                            /\ Doing(d, "write")' = Doing(d, "write") /\ Current(d)' = Current(d)
    BY <1>1, PlanSame DEF Written, Placed, Doing, Current
  <2>2. PlacesKnown' /\ PlacesAligned' /\ PlacesApart'
    BY <2>1, <1>1, PlanSame DEF ToldInv, PlacesKnown, PlacesAligned, PlacesApart
  <2>3. TablePages' /\ PagesMade' /\ PagesToMake'
    BY <2>1, <1>1, PlanSame DEF ToldInv, TablePages, PagesMade, PagesToMake
  <2>4. WalkCollects' /\ FileNotPaused'
    BY <2>1, <1>1, PlanSame DEF ToldInv, WalkCollects, FileNotPaused
  <2> QED
    BY <2>2, <2>3, <2>4
<1> QED
  BY <1>8, <1>9, <1>10 DEF ToldInv

(* The end of a write: the object is written, and its entries and contents are told. *)
LEMMA WriteToldKeeps ==
    ASSUME Apart, GgttTypes, ToldInv, NEW c \in Contexts, WriteObject(c)
    PROVE  ToldInv'
<1> DEFINE o == Current(c)
           x == ctx[c].addr[o]
           last == ctx[c].at = Len(Steps)
           pages == IF o \in Filled THEN 0 .. plan.sizes[o] - 1 ELSE {}
           data == Contents(c, o, pages)
<1>1. /\ Doing(c, "write") /\ ctx[c].page >= plan.sizes[o]
      /\ Tell(ctx[c].writes, data)
      /\ UNCHANGED <<plan, gfx, table, paused>>
      /\ ctx' = [ctx EXCEPT ![c].state = IF last THEN "ready" ELSE @,
                            ![c].at = IF last THEN 0 ELSE @ + 1,
                            ![c].page = 0, ![c].writes = << >>]
  BY DEF WriteObject
<1>u. UNCHANGED <<plan, gfx, table, paused>>
  BY <1>1
<1>2. /\ ctx[c].state = "inside" /\ ctx[c].at \in 1 .. Len(Steps)
      /\ Steps[ctx[c].at] = <<"write", o>>
      /\ o \in Placed(c) \ Written(c) /\ o \in Objects
  BY <1>1, WritesPlaced DEF ToldInv
<1>3. plan.sizes[o] \in Nat /\ ctx[c].page \in Nat
  BY <1>2, PlanFacts DEF GgttTypes, ContextType
<1>4. \A i \in Indexes(o) : x + i \in DOMAIN ctx[c].writes /\ x + i \in DOMAIN table
  <2> SUFFICES ASSUME NEW i \in Indexes(o)
               PROVE  x + i \in DOMAIN ctx[c].writes /\ x + i \in DOMAIN table
    OBVIOUS
  <2>1. i < ctx[c].page
    BY <1>1, <1>3 DEF Indexes
  <2>2. x + i \in DOMAIN ctx[c].writes
    BY <2>1, <1>1 DEF ToldInv, WalkCollects
  <2> QED
    BY <2>2 DEF ToldInv, WalkCollects
<1>5. pages \in SUBSET Indexes(o)
  BY DEF Indexes
<1>6. /\ OwnContents(data)
      /\ DOMAIN data = {table[x + i].pa : i \in pages}
      /\ \A pa \in DOMAIN data : data[pa] = <<c, o>>
  BY <1>2, <1>4, <1>5, ContentsOwn
<1> HIDE DEF data
<1>7. /\ ToldOfTable' /\ DOMAIN told' = {"file", "sim"}
      /\ \A s \in {"file", "sim"} : Listens(s) =>
            /\ \A i \in DOMAIN ctx[c].writes : ToldAt(i) \in DOMAIN told'[s].entries
            /\ \A pa \in DOMAIN data :
                  pa \in DOMAIN told'[s].data /\ told'[s].data[pa] = data[pa]
      /\ \A s \in {"file", "sim"}, d \in Contexts : Heard(s, d) =>
            \A q \in Written(d) : \A i \in Indexes(q) : Knows(told'[s], d, q, i)
  <2>1. \A i \in DOMAIN ctx[c].writes : i \in DOMAIN table /\ ctx[c].writes[i] = table[i]
    BY DEF ToldInv, WalkCollects
  <2> QED
    BY <2>1, <1>1, <1>6, TellAdds
<1>8. /\ \A d \in Contexts \ {c} : ctx'[d] = ctx[d]
      /\ ctx'[c].state = IF last THEN "ready" ELSE "inside"
      /\ ctx'[c].at = IF last THEN 0 ELSE ctx[c].at + 1
      /\ ctx'[c].page = 0 /\ ctx'[c].writes = << >>
      /\ ctx'[c].addr = ctx[c].addr /\ ctx'[c].inFile = ctx[c].inFile
  <2>1. ctx[c] \in ContextType
    BY DEF GgttTypes
  <2> QED
    BY <2>1, <1>1, <1>2 DEF GgttTypes, ContextType
<1>9. /\ Written(c)' = Written(c) \cup {o}
      /\ ctx'[c].state = "inside" =>
            ctx'[c].at \in 1 .. Len(Steps) /\ Placed(c)' = AllocatedBy(ctx'[c].at)
      /\ ctx'[c].state = "ready" => Placed(c)' = Objects
  <2>1. /\ WrittenBy(ctx[c].at + 1) = WrittenBy(ctx[c].at) \cup {o}
        /\ AllocatedBy(ctx[c].at + 1) = AllocatedBy(ctx[c].at)
    BY <1>2, StepAdds DEF GgttTypes
  <2>2. Written(c) = WrittenBy(ctx[c].at) /\ Placed(c) = AllocatedBy(ctx[c].at)
    BY <1>2 DEF Written, ToldInv, PlacesKnown
  <2>3. Placed(c)' = Placed(c)
    BY <1>8 DEF Placed
  <2>4. CASE last
    <3>1. WrittenBy(ctx[c].at + 1) = Objects /\ AllocatedBy(ctx[c].at) = Objects
      BY <2>4, StepFacts DEF GgttTypes
    <3> QED
      BY <3>1, <2>1, <2>2, <2>3, <2>4, <1>1, <1>8, PlanSame DEF Written
  <2>5. CASE ~last
    <3>1. ctx[c].at + 1 \in 1 .. Len(Steps)
      BY <2>5, <1>2, StepFacts DEF GgttTypes
    <3>2. Written(c)' = WrittenBy(ctx[c].at + 1)
      BY <2>5, <1>1, <1>8, PlanSame DEF Written
    <3> QED
      BY <3>1, <3>2, <2>1, <2>2, <2>3, <2>5, <1>8
  <2> QED
    BY <2>4, <2>5
<1>10. \A d \in Contexts : /\ ctx'[d].addr = ctx[d].addr /\ ctx'[d].inFile = ctx[d].inFile
                           /\ Placed(d)' = Placed(d)
  <2>1. \A d \in Contexts : ctx'[d].addr = ctx[d].addr /\ ctx'[d].inFile = ctx[d].inFile
    BY <1>8
  <2> QED
    BY <2>1 DEF Placed
<1>11. \A d \in Contexts \ {c} :
          /\ Written(d)' = Written(d) /\ Doing(d, "write")' = Doing(d, "write")
          /\ Current(d)' = Current(d)
  BY <1>u, <1>8, PlanSame DEF Written, Doing, Current
<1>12. PlacesKnown' /\ PlacesAligned' /\ PlacesApart' /\ TablePages'
  <2>1. PlacesKnown'
    <3>1. ctx'[c].state \in {"inside", "ready"}
      BY <1>8
    <3> QED
      BY <3>1, <1>u, <1>8, <1>9, <1>10, PlanSame DEF ToldInv, PlacesKnown
  <2>2. PlacesAligned' /\ PlacesApart'
    BY <1>u, <1>10 DEF ToldInv, PlacesAligned, PlacesApart
  <2>3. TablePages'
    BY <1>u, PlanSame DEF ToldInv, TablePages
  <2> QED
    BY <2>1, <2>2, <2>3
<1>13. PagesMade'
  <2> SUFFICES ASSUME NEW d \in Contexts, NEW q \in Written(d)', NEW i \in Indexes(q)
               PROVE  ctx[d].addr[q] + i \in DOMAIN table
    BY <1>u, <1>10, PlanSame DEF PagesMade
  <2> QED
    BY <1>4, <1>9, <1>11 DEF ToldInv, PagesMade
<1>14. PagesToMake'
  <2> SUFFICES ASSUME NEW d \in Contexts, NEW q \in Placed(d) \ Written(d)', NEW i \in Indexes(q),
                      ctx'[d].page <= i \/ ~(Doing(d, "write")' /\ Current(d)' = q)
               PROVE  ctx[d].addr[q] + i \notin DOMAIN table
    BY <1>u, <1>10, PlanSame DEF PagesToMake
  <2>1. CASE d = c
    BY <2>1, <1>9 DEF ToldInv, PagesToMake
  <2>2. CASE d # c
    BY <2>2, <1>8, <1>11 DEF ToldInv, PagesToMake
  <2> QED
    BY <2>1, <2>2
<1>15. WalkCollects'
  <2>1. plan.page \in Nat \ {0}
    BY PlanFacts DEF GgttTypes
  <2>2. \A d \in Contexts : ctx'[d].page % plan.page = 0
    BY <2>1, <1>8 DEF ToldInv, WalkCollects
  <2>3. \A d \in Contexts : \A i \in DOMAIN ctx'[d].writes :
           i \in DOMAIN table /\ ctx'[d].writes[i] = table[i]
    BY <1>8 DEF ToldInv, WalkCollects
  <2>4. ASSUME NEW d \in Contexts, Doing(d, "write")', NEW i \in Indexes(Current(d)'),
               i < ctx'[d].page
        PROVE  ctx[d].addr[Current(d)'] + i \in DOMAIN ctx'[d].writes
    <3>1. CASE d = c
      <4>1. i \in Nat
        BY DEF Indexes
      <4> QED
        BY <2>4, <3>1, <4>1, <1>8
    <3>2. CASE d # c
      BY <2>4, <3>2, <1>8, <1>11 DEF ToldInv, WalkCollects
    <3> QED
      BY <3>1, <3>2
  <2>5. ASSUME NEW d \in Contexts, ~Doing(d, "write")'
        PROVE  ctx'[d].page = 0
    BY <2>5, <1>8, <1>11 DEF ToldInv, WalkCollects
  <2> QED
    BY <2>2, <2>3, <2>4, <2>5, <1>u, <1>10, PlanSame DEF WalkCollects
<1>16. FileNotPaused'
  BY <1>u, <1>2, <1>8 DEF ToldInv, FileNotPaused
<1>17. ObjectsTold'
  <2> SUFFICES ASSUME NEW s \in {"file", "sim"}, NEW d \in Contexts, Heard(s, d)',
                      NEW q \in Written(d)', NEW i \in Indexes(q)
               PROVE  /\ ToldAt(ctx[d].addr[q] + i) \in DOMAIN told'[s].entries
                      /\ q \in Filled => ToldData(s, d, q, i)'
    BY <1>u, <1>10, PlanSame DEF ObjectsTold
  <2>1. Heard(s, d)
    BY <1>u, <1>10 DEF Heard
  <2>2. CASE d = c /\ q = o
    <3>1. Listens(s)
      BY <2>1, <2>2, <1>2 DEF Heard, Listens, ToldInv, FileNotPaused
    <3>2. ToldAt(x + i) \in DOMAIN told'[s].entries
      BY <2>2, <3>1, <1>4, <1>7
    <3>3. ASSUME q \in Filled
          PROVE  /\ table[x + i].pa \in DOMAIN told'[s].data
                 /\ told'[s].data[table[x + i].pa] = <<c, o>>
      <4>1. i \in pages
        BY <2>2, <3>3 DEF Indexes
      <4>2. table[x + i].pa \in DOMAIN data
        BY <4>1, <1>6
      <4> QED
        BY <4>2, <3>1, <1>6, <1>7
    <3> QED
      BY <2>2, <3>2, <3>3, <1>u, <1>10 DEF ToldData
  <2>3. CASE ~(d = c /\ q = o)
    <3>1. q \in Written(d)
      BY <2>3, <1>9, <1>11
    <3>2. Knows(told'[s], d, q, i)
      BY <2>1, <3>1, <1>7
    <3> QED
      BY <3>2, <1>u, <1>10 DEF Knows, ToldData
  <2> QED
    BY <2>2, <2>3
<1> QED
  BY <1>7, <1>12, <1>13, <1>14, <1>15, <1>16, <1>17 DEF ToldInv

(* The address of the HWSP is the first a context has. *)
LEMMA TakeToldKeeps ==
    ASSUME GgttTypes, ToldInv, NEW c \in Contexts, ctx[c].state \in {"none", "closed"},
           TakeHWSP(c), ~wrapped'
    PROVE  ToldInv'
<1>1. /\ AllocateGfx(plan.sizes["hwsp"]) /\ UNCHANGED <<plan, table, told, paused>>
      /\ ctx' = [ctx EXCEPT ![c].state = "waiting",
                            ![c].addr = [o \in {"hwsp"} |-> Fresh(SizeOf(o))]]
  BY DEF TakeHWSP, SizeOf
<1>2. "hwsp" \in Objects
  BY PlanFacts DEF GgttTypes, ObjectNames
<1>3. Placed(c) = {} /\ Written(c) = {} /\ ~Doing(c, "write")
  BY DEF ToldInv, PlacesKnown, Written, Doing
<1>4. /\ \A d \in Contexts \ {c} : ctx'[d] = ctx[d]
      /\ ctx'[c].state = "waiting" /\ ctx'[c].page = ctx[c].page
      /\ ctx'[c].writes = ctx[c].writes /\ ctx'[c].inFile = ctx[c].inFile
      /\ ctx'[c].addr = [o \in {"hwsp"} |-> Fresh(plan.sizes[o])]
  <2>1. ctx[c] \in ContextType
    BY DEF GgttTypes
  <2> QED
    BY <2>1, <1>1 DEF GgttTypes, ContextType, SizeOf
<1>u. UNCHANGED <<plan, table, told, paused>>
  BY <1>1
<1>5. NewAddress(c, "hwsp") /\ Placed(c)' = {"hwsp"}
  BY <1>3, <1>4 DEF NewAddress, Placed
<1>6. Written(c)' = Written(c)
  BY <1>3, <1>4 DEF Written
<1>7. PlacesKnown'
  <2>1. \A d \in Contexts \ {c} : Placed(d)' = Placed(d)
    BY <1>4 DEF Placed
  <2> QED
    BY <2>1, <1>u, <1>4, <1>5, PlanSame DEF ToldInv, PlacesKnown
<1>8. AllocateGfx(plan.sizes["hwsp"])
  BY <1>1
<1> QED
  BY <1>u, <1>2, <1>3, <1>4, <1>5, <1>6, <1>7, <1>8, NewPlaceKeeps

(* The addresses of the other objects follow, with the lock. *)
LEMMA AllocateToldKeeps ==
    ASSUME GgttTypes, ToldInv, NEW c \in Contexts, AllocateObject(c), ~wrapped'
    PROVE  ToldInv'
<1> DEFINE x == Current(c)
<1>1. /\ Doing(c, "alloc") /\ AllocateGfx(plan.sizes[x])
      /\ ctx' = [ctx EXCEPT ![c].addr = Join(@, [o \in {x} |-> Fresh(plan.sizes[o])]),
                            ![c].at = @ + 1]
  BY DEF AllocateObject, SizeOf
<1>u. UNCHANGED <<plan, table, told, paused>>
  BY DEF AllocateObject
<1>2. /\ ctx[c].state = "inside" /\ ctx[c].at \in 1 .. Len(Steps)
      /\ Steps[ctx[c].at][1] = "alloc" /\ x = Steps[ctx[c].at][2]
  BY <1>1 DEF Doing, Current, ToldInv, PlacesKnown
<1>3. /\ Steps[ctx[c].at] = <<"alloc", x>> /\ x \in Objects
      /\ x \notin AllocatedBy(ctx[c].at) /\ ctx[c].at < Len(Steps)
  <2>1. PICK o \in Objects :
          \/ Steps[ctx[c].at] = <<"write", o>>
          \/ /\ Steps[ctx[c].at] = <<"alloc", o>>
             /\ o \notin AllocatedBy(ctx[c].at) /\ ctx[c].at < Len(Steps)
    BY <1>2, StepFacts DEF GgttTypes
  <2> QED
    BY <2>1, <1>2
<1>4. /\ Placed(c) = AllocatedBy(ctx[c].at) /\ Written(c) = WrittenBy(ctx[c].at)
      /\ x \notin Placed(c) /\ x \notin Written(c) /\ ~Doing(c, "write")
  <2>1. Placed(c) = AllocatedBy(ctx[c].at) /\ Written(c) = WrittenBy(ctx[c].at)
    BY <1>2 DEF ToldInv, PlacesKnown, Written
  <2>2. Written(c) \subseteq Placed(c)
    BY WrittenPlaced DEF ToldInv
  <2> QED
    BY <2>1, <2>2, <1>2, <1>3 DEF Doing
<1> HIDE DEF x
<1>5. /\ \A d \in Contexts \ {c} : ctx'[d] = ctx[d]
      /\ ctx'[c].state = "inside" /\ ctx'[c].page = ctx[c].page
      /\ ctx'[c].writes = ctx[c].writes /\ ctx'[c].inFile = ctx[c].inFile
      /\ ctx'[c].at = ctx[c].at + 1
      /\ ctx'[c].addr = Join(ctx[c].addr, [o \in {x} |-> Fresh(plan.sizes[o])])
  <2>1. ctx[c] \in ContextType
    BY DEF GgttTypes
  <2> QED
    BY <2>1, <1>1, <1>2 DEF GgttTypes, ContextType
<1>6. NewAddress(c, x) /\ Placed(c)' = Placed(c) \cup {x}
  BY <1>5 DEF NewAddress, Placed, Join
<1>7. /\ WrittenBy(ctx[c].at + 1) = WrittenBy(ctx[c].at)
      /\ AllocatedBy(ctx[c].at + 1) = AllocatedBy(ctx[c].at) \cup {x}
      /\ ctx[c].at + 1 \in 1 .. Len(Steps)
  BY <1>2, <1>3, StepAdds, StepFacts DEF GgttTypes
<1>8. Written(c)' = Written(c)
  BY <1>4, <1>5, <1>7, <1>u, PlanSame DEF Written
<1>9. PlacesKnown'
  <2>1. \A d \in Contexts \ {c} : Placed(d)' = Placed(d)
    BY <1>5 DEF Placed
  <2>2. Placed(c)' = AllocatedBy(ctx'[c].at) /\ ctx'[c].at \in 1 .. Len(Steps)
    BY <1>4, <1>5, <1>6, <1>7
  <2> QED
    BY <2>1, <2>2, <1>u, <1>5, PlanSame DEF ToldInv, PlacesKnown
<1>10. AllocateGfx(plan.sizes[x])
  BY <1>1
<1> QED
  BY <1>u, <1>2, <1>3, <1>4, <1>5, <1>6, <1>8, <1>9, <1>10, NewPlaceKeeps

(* With the lock a thread begins to write. *)
LEMMA LockToldKeeps ==
    ASSUME GgttTypes, ToldInv, NEW c \in Contexts, LockGgtt(c)
    PROVE  ToldInv'
<1>1. /\ ctx[c].state = "waiting"
      /\ ctx' = [ctx EXCEPT ![c].state = "inside", ![c].at = 1, ![c].inFile = ~paused]
  BY DEF LockGgtt
<1>u. UNCHANGED <<plan, gfx, table, told, paused>>
  BY DEF LockGgtt
<1>2. /\ \A d \in Contexts \ {c} : ctx'[d] = ctx[d]
      /\ ctx'[c].state = "inside" /\ ctx'[c].at = 1 /\ ctx'[c].inFile = ~paused
      /\ ctx'[c].page = ctx[c].page /\ ctx'[c].writes = ctx[c].writes
      /\ ctx'[c].addr = ctx[c].addr
  <2>1. ctx[c] \in ContextType
    BY DEF GgttTypes
  <2> QED
    BY <2>1, <1>1 DEF GgttTypes, ContextType
<1>3. \A d \in Contexts : /\ ctx'[d].addr = ctx[d].addr /\ ctx'[d].page = ctx[d].page
                          /\ ctx'[d].writes = ctx[d].writes /\ Placed(d)' = Placed(d)
  BY <1>2 DEF Placed
<1>4. Len(Steps) \in Nat \ {0} /\ WrittenBy(1) = {} /\ AllocatedBy(1) = {"hwsp"}
  BY StepFacts DEF GgttTypes
<1>5. /\ Written(c) = {} /\ ~Doing(c, "write") /\ Placed(c) = {"hwsp"} /\ ctx[c].page = 0
  BY <1>1 DEF ToldInv, Written, Doing, PlacesKnown, WalkCollects
<1>6. Written(c)' = {}
  BY <1>2, <1>4, <1>u, PlanSame DEF Written
<1>7. \A d \in Contexts \ {c} :
          /\ Written(d)' = Written(d) /\ Doing(d, "write")' = Doing(d, "write")
          /\ Current(d)' = Current(d)
  BY <1>2, <1>u, PlanSame DEF Written, Doing, Current
<1>8. PlacesKnown'
  <2>1. ctx'[c].at \in 1 .. Len(Steps)
    BY <1>2, <1>4
  <2>2. Placed(c)' = AllocatedBy(ctx'[c].at)
    BY <1>2, <1>3, <1>4, <1>5
  <2> QED
    BY <2>1, <2>2, <1>2, <1>3, <1>u, PlanSame DEF ToldInv, PlacesKnown
<1>9. PlacesAligned' /\ PlacesApart' /\ TablePages' /\ ToldOfTable'
  <2>1. PlacesAligned' /\ PlacesApart'
    BY <1>3, <1>u DEF ToldInv, PlacesAligned, PlacesApart
  <2>2. TablePages' /\ ToldOfTable'
    BY <1>u, PlanSame DEF ToldInv, TablePages, ToldOfTable
  <2> QED
    BY <2>1, <2>2
<1>10. PagesMade'
  BY <1>3, <1>6, <1>7, <1>u, PlanSame DEF ToldInv, PagesMade
<1>11. PagesToMake'
  <2> SUFFICES ASSUME NEW d \in Contexts, NEW q \in Placed(d) \ Written(d)', NEW i \in Indexes(q),
                      ctx[d].page <= i \/ ~(Doing(d, "write")' /\ Current(d)' = q)
               PROVE  ctx[d].addr[q] + i \notin DOMAIN table
    BY <1>3, <1>u, PlanSame DEF PagesToMake
  <2>1. CASE d = c
    BY <2>1, <1>5 DEF ToldInv, PagesToMake
  <2>2. CASE d # c
    BY <2>2, <1>7 DEF ToldInv, PagesToMake
  <2> QED
    BY <2>1, <2>2
<1>12. WalkCollects'
  <2>1. ASSUME NEW d \in Contexts
        PROVE  /\ ctx[d].page % plan.page = 0
               /\ \A i \in DOMAIN ctx[d].writes : i \in DOMAIN table /\ ctx[d].writes[i] = table[i]
    BY DEF ToldInv, WalkCollects
  <2>2. ASSUME NEW d \in Contexts, Doing(d, "write")', NEW i \in Indexes(Current(d)'),
               i < ctx[d].page
        PROVE  ctx[d].addr[Current(d)'] + i \in DOMAIN ctx[d].writes
    <3>1. CASE d = c
      <4>1. i \in Nat
        BY DEF Indexes
      <4> QED
        BY <2>2, <3>1, <4>1, <1>5
    <3>2. CASE d # c
      BY <2>2, <3>2, <1>7 DEF ToldInv, WalkCollects
    <3> QED
      BY <3>1, <3>2
  <2>3. ASSUME NEW d \in Contexts, ~Doing(d, "write")'
        PROVE  ctx[d].page = 0
    BY <2>3, <1>5, <1>7 DEF ToldInv, WalkCollects
  <2> QED
    BY <2>1, <2>2, <2>3, <1>3, <1>u, PlanSame DEF WalkCollects
<1>13. FileNotPaused'
  BY <1>2, <1>u DEF ToldInv, FileNotPaused
<1>14. ObjectsTold'
  <2> SUFFICES ASSUME NEW s \in {"file", "sim"}, NEW d \in Contexts, Heard(s, d)',
                      NEW q \in Written(d)', NEW i \in Indexes(q)
               PROVE  /\ ToldAt(ctx[d].addr[q] + i) \in DOMAIN told[s].entries
                      /\ q \in Filled => ToldData(s, d, q, i)'
    BY <1>3, <1>u, PlanSame DEF ObjectsTold
  <2>1. d # c
    BY <1>6
  <2>2. Heard(s, d) /\ q \in Written(d)
    BY <2>1, <1>2, <1>7, <1>u DEF Heard
  <2>3. /\ ToldAt(ctx[d].addr[q] + i) \in DOMAIN told[s].entries
        /\ q \in Filled => ToldData(s, d, q, i)
    BY <2>2 DEF ToldInv, ObjectsTold
  <2>4. ToldData(s, d, q, i)' = ToldData(s, d, q, i)
    BY <1>3, <1>u DEF ToldData
  <2> QED
    BY <2>3, <2>4
<1> QED
  BY <1>8, <1>9, <1>10, <1>11, <1>12, <1>13, <1>14 DEF ToldInv

(* Contexts that are released leave the table, and other contexts, as they are. *)
LEMMA ForgetToldKeeps ==
    ASSUME GgttTypes, ToldInv, NEW gone \in SUBSET Contexts,
           UNCHANGED <<plan, gfx, table, paused>>,
           \A d \in Contexts \ gone : ctx'[d] = ctx[d],
           \A d \in gone : /\ ctx'[d].state \in {"none", "closed"} /\ ctx'[d].addr = << >>
                           /\ ctx'[d].page = 0 /\ ctx'[d].writes = << >>,
           \/ told' = told
           \/ /\ told' = [told EXCEPT !["file"] = NothingTold]
              /\ \A d \in Contexts : ctx'[d].state \in {"none", "closed"}
    PROVE  ToldInv'
<1>1. \A d \in gone : /\ Placed(d)' = {} /\ Written(d)' = {} /\ ~Doing(d, "write")'
  BY DEF Placed, Written, Doing
<1>2. \A d \in Contexts \ gone :
          /\ Placed(d)' = Placed(d) /\ Written(d)' = Written(d)
          /\ Doing(d, "write")' = Doing(d, "write") /\ Current(d)' = Current(d)
  BY PlanSame DEF Placed, Written, Doing, Current
<1>3. PlacesKnown'
  BY <1>1, <1>2, PlanSame DEF ToldInv, PlacesKnown
<1>4. PlacesAligned' /\ PlacesApart'
  BY <1>1, <1>2 DEF ToldInv, PlacesAligned, PlacesApart
<1>5. TablePages'
  BY PlanSame DEF ToldInv, TablePages
<1>6. PagesMade' /\ PagesToMake'
  <2>1. PagesMade'
    BY <1>1, <1>2, PlanSame DEF ToldInv, PagesMade
  <2>2. PagesToMake'
    BY <1>1, <1>2, PlanSame DEF ToldInv, PagesToMake
  <2> QED
    BY <2>1, <2>2
<1>7. WalkCollects'
  <2>1. plan.page \in Nat \ {0}
    BY PlanFacts DEF GgttTypes
  <2>2. \A d \in Contexts : ctx'[d].page % plan.page = 0
    BY <2>1 DEF ToldInv, WalkCollects
  <2>3. \A d \in Contexts : \A i \in DOMAIN ctx'[d].writes :
           i \in DOMAIN table /\ ctx'[d].writes[i] = table[i]
    BY DEF ToldInv, WalkCollects
  <2>4. ASSUME NEW d \in Contexts, Doing(d, "write")', NEW i \in Indexes(Current(d)'),
               i < ctx'[d].page
        PROVE  ctx'[d].addr[Current(d)'] + i \in DOMAIN ctx'[d].writes
    BY <2>4, <1>1, <1>2 DEF ToldInv, WalkCollects
  <2>5. ASSUME NEW d \in Contexts, ~Doing(d, "write")'
        PROVE  ctx'[d].page = 0
    BY <2>5, <1>2 DEF ToldInv, WalkCollects
  <2> QED
    BY <2>2, <2>3, <2>4, <2>5, PlanSame DEF WalkCollects
<1>8. FileNotPaused'
  BY DEF ToldInv, FileNotPaused
<1>9. CASE told' = told
  <2>1. ToldOfTable'
    BY <1>9, PlanSame DEF ToldInv, ToldOfTable
  <2>2. ObjectsTold'
    <3> SUFFICES ASSUME NEW s \in {"file", "sim"}, NEW d \in Contexts, Heard(s, d)',
                        NEW q \in Written(d)', NEW i \in Indexes(q)
                 PROVE  /\ ToldAt(ctx'[d].addr[q] + i) \in DOMAIN told[s].entries
                        /\ q \in Filled => ToldData(s, d, q, i)'
      BY <1>9, PlanSame DEF ObjectsTold
    <3>1. ctx'[d] = ctx[d] /\ Heard(s, d) /\ q \in Written(d)
      BY <1>1, <1>2 DEF Heard
    <3>2. /\ ToldAt(ctx[d].addr[q] + i) \in DOMAIN told[s].entries
          /\ q \in Filled => ToldData(s, d, q, i)
      BY <3>1 DEF ToldInv, ObjectsTold
    <3>3. ToldData(s, d, q, i)' = ToldData(s, d, q, i)
      BY <3>1, <1>9 DEF ToldData
    <3> QED
      BY <3>1, <3>2, <3>3
  <2> QED
    BY <2>1, <2>2, <1>3, <1>4, <1>5, <1>6, <1>7, <1>8 DEF ToldInv
<1>10. CASE /\ told' = [told EXCEPT !["file"] = NothingTold]
            /\ \A d \in Contexts : ctx'[d].state \in {"none", "closed"}
  <2>1. told'["file"] = NothingTold /\ told'["sim"] = told["sim"]
    BY <1>10 DEF GgttTypes
  <2>2. ToldOfTable'
    <3>1. DOMAIN NothingTold.entries = {}
      BY DEF NothingTold
    <3> QED
      BY <2>1, <3>1, PlanSame DEF ToldInv, ToldOfTable
  <2>3. \A d \in Contexts : Written(d)' = {}
    BY <1>10 DEF Written
  <2>4. ObjectsTold'
    BY <2>3 DEF ObjectsTold
  <2> QED
    BY <2>2, <2>4, <1>3, <1>4, <1>5, <1>6, <1>7, <1>8 DEF ToldInv
<1> QED
  BY <1>9, <1>10

(* The empty function belongs to every set of maps. *)
LEMMA EmptyMap ==
    ASSUME NEW S, NEW R
    PROVE  << >> \in UNION {[D -> R] : D \in SUBSET S}
<1>1. << >> \in [{} -> R]
  OBVIOUS
<1> QED
  BY <1>1

(* The object of a thread's step is one of the context's. *)
LEMMA CurrentKnown ==
    ASSUME GgttTypes, ToldInv, NEW c \in Contexts
    PROVE  /\ Doing(c, "write") => Current(c) \in Placed(c)
           /\ Doing(c, "alloc") => Current(c) \in Objects
<1>1. SUFFICES ASSUME ctx[c].state = "inside"
               PROVE  /\ Doing(c, "write") => Current(c) \in Placed(c)
                      /\ Doing(c, "alloc") => Current(c) \in Objects
  BY DEF Doing
<1>2. ctx[c].at \in 1 .. Len(Steps) /\ Placed(c) = AllocatedBy(ctx[c].at)
  BY <1>1 DEF ToldInv, PlacesKnown
<1>3. PICK o \in Objects :
        \/ Steps[ctx[c].at] = <<"write", o>> /\ o \in AllocatedBy(ctx[c].at)
        \/ Steps[ctx[c].at] = <<"alloc", o>>
  BY <1>2, StepFacts DEF GgttTypes
<1> QED
  BY <1>2, <1>3 DEF Doing, Current

(* Addresses are numbers. *)
LEMMA AddressType ==
    ASSUME GgttTypes, NEW c \in Contexts, NEW o \in Placed(c)
    PROVE  ctx[c].addr[o] \in Nat
BY DEF GgttTypes, ContextType, Addresses, Placed

(* The state keeps its types. *)
LEMMA TypesOfSteps ==
    ASSUME Apart, GgttTypes, ToldInv, [GgttNext]_allVars
    PROVE  GgttTypes'
<1>0. /\ plan \in Plans /\ DOMAIN told = {"file", "sim"}
      /\ gfx.next \in Nat /\ gfx.free = {} /\ wrapped \in BOOLEAN /\ paused \in BOOLEAN
      /\ ctx \in [Contexts -> ContextType] /\ table \in EntryMaps
  BY DEF GgttTypes
<1>1. CASE UNCHANGED allVars
  BY <1>1 DEF GgttTypes, allVars, ggttVars
<1>2. << >> \in Addresses /\ << >> \in EntryMaps
  BY EmptyMap DEF Addresses, EntryMaps
<1>3. ASSUME NEW c \in Contexts, TakeHWSP(c)
      PROVE  GgttTypes'
  <2>1. "hwsp" \in ObjectNames /\ plan.sizes["hwsp"] \in Nat \ {0}
    BY <1>0, PlanFacts DEF ObjectNames
  <2>2. /\ Fresh(plan.sizes["hwsp"]) \in Nat
        /\ gfx'.next \in Nat /\ gfx'.free = {} /\ wrapped' \in BOOLEAN
    BY <2>1, <1>3, FreshPlace DEF TakeHWSP, SizeOf
  <2>3. [o \in {"hwsp"} |-> Fresh(SizeOf(o))] \in Addresses
    <3>1. [o \in {"hwsp"} |-> Fresh(SizeOf(o))] \in [{"hwsp"} -> Nat]
      BY <2>2 DEF SizeOf
    <3>2. {"hwsp"} \in SUBSET ObjectNames
      BY <2>1
    <3> QED
      BY <3>1, <3>2 DEF Addresses
  <2> DEFINE hwsp == [o \in {"hwsp"} |-> Fresh(SizeOf(o))]
  <2>4. ctx' = [ctx EXCEPT ![c] = [ctx[c] EXCEPT !.state = "waiting", !.addr = hwsp]]
    BY <1>0, <1>3 DEF TakeHWSP
  <2>6. hwsp \in Addresses /\ ctx[c] \in ContextType
    BY <2>3, <1>0
  <2> HIDE DEF hwsp
  <2>7. [ctx[c] EXCEPT !.state = "waiting", !.addr = hwsp] \in ContextType
    BY <2>6 DEF ContextType
  <2>5. ctx' \in [Contexts -> ContextType]
    BY <2>4, <2>7, <1>0
  <2> QED
    BY <2>2, <2>5, <1>0, <1>3 DEF TakeHWSP, GgttTypes
<1>4. ASSUME NEW c \in Contexts, Initialize(c) \/ Reinitialize(c)
      PROVE  GgttTypes'
  BY <1>3, <1>4 DEF Initialize, Reinitialize
<1>5. ASSUME NEW c \in Contexts, LockGgtt(c)
      PROVE  GgttTypes'
  <2>1. ctx' = [ctx EXCEPT ![c] = [ctx[c] EXCEPT !.state = "inside", !.at = 1, !.inFile = ~paused]]
    BY <1>0, <1>5 DEF LockGgtt
  <2>2. ctx[c] \in ContextType /\ 1 \in Nat
    BY <1>0
  <2>3. ASSUME NEW b \in BOOLEAN, NEW n \in Nat
        PROVE  [ctx[c] EXCEPT !.state = "inside", !.at = n, !.inFile = b] \in ContextType
    BY <2>2 DEF ContextType
  <2>4. [ctx[c] EXCEPT !.state = "inside", !.at = 1, !.inFile = ~paused] \in ContextType
    BY <2>2, <2>3
  <2>5. ctx' \in [Contexts -> ContextType]
    BY <2>1, <2>4, <1>0
  <2> QED
    BY <2>5, <1>0, <1>5 DEF LockGgtt, GgttTypes
<1>6. ASSUME NEW c \in Contexts, AllocateObject(c)
      PROVE  GgttTypes'
  <2> DEFINE x == Current(c)
             new == [o \in {x} |-> Fresh(SizeOf(o))]
  <2>1. x \in ObjectNames /\ plan.sizes[x] \in Nat \ {0}
    <3>1. Doing(c, "alloc")
      BY <1>6 DEF AllocateObject
    <3>2. x \in Objects
      BY <3>1, CurrentKnown
    <3> QED
      BY <1>0, <3>2, PlanFacts
  <2>2. /\ Fresh(plan.sizes[x]) \in Nat
        /\ gfx'.next \in Nat /\ gfx'.free = {} /\ wrapped' \in BOOLEAN
    BY <2>1, <1>6, FreshPlace DEF AllocateObject, SizeOf
  <2>3. new \in Addresses
    <3>1. new \in [{x} -> Nat] /\ {x} \in SUBSET ObjectNames
      BY <2>1, <2>2 DEF SizeOf
    <3> QED
      BY <3>1 DEF Addresses
  <2>4. ctx[c].addr \in Addresses
    BY <1>0 DEF ContextType
  <2>5. Join(ctx[c].addr, new) \in Addresses
    BY <2>3, <2>4, JoinType DEF Addresses
  <2>6. /\ ctx' = [ctx EXCEPT ![c].addr = Join(@, new), ![c].at = @ + 1]
        /\ UNCHANGED <<plan, table, told, paused>>
    BY <1>6 DEF AllocateObject
  <2> HIDE DEF new
  <2>7. ctx[c].at + 1 \in Nat
    BY <1>0 DEF ContextType
  <2>8. ASSUME NEW a \in Addresses, NEW n \in Nat
        PROVE  [ctx[c] EXCEPT !.addr = a, !.at = n] \in ContextType
    <3>1. ctx[c] \in ContextType
      BY <1>0
    <3> QED
      BY <3>1 DEF ContextType
  <2>9. ctx' = [ctx EXCEPT ![c] = [ctx[c] EXCEPT !.addr = Join(ctx[c].addr, new), !.at = ctx[c].at + 1]]
    BY <2>6, <1>0
  <2>10. ctx' \in [Contexts -> ContextType]
    BY <2>5, <2>7, <2>8, <2>9, <1>0
  <2> QED
    BY <2>10, <2>2, <2>6, <1>0 DEF GgttTypes
<1>7. ASSUME NEW c \in Contexts, WalkPage(c)
      PROVE  GgttTypes'
  <2>1. PICK index \in Indices, next \in Nat :
          \/ ctx' = [ctx EXCEPT ![c].page = next] /\ UNCHANGED table
          \/ /\ CreatePageTable(plan.bank, plan.page)
             /\ table' = Join(table, NewEntries(index, NextPage))
             /\ ctx' = [ctx EXCEPT ![c].page = next, ![c].writes = Join(@, NewEntries(index, NextPage))]
    <3> DEFINE n == ctx[c].page + plan.page - (IndexOf(c, Current(c), ctx[c].page) % plan.page)
    <3>1. PICK index \in Indices :
          /\ index = PageStart(IndexOf(c, Current(c), ctx[c].page))
          /\ \/ ctx' = [ctx EXCEPT ![c].page = n] /\ UNCHANGED table
             \/ /\ CreatePageTable(plan.bank, plan.page)
                /\ table' = Join(table, NewEntries(index, NextPage))
                /\ ctx' = [ctx EXCEPT ![c].page = n, ![c].writes = Join(@, NewEntries(index, NextPage))]
      BY <1>7 DEF WalkPage
    <3>2. n \in Nat
      <4>1. plan.page \in Nat \ {0} /\ ctx[c].page \in Nat
        BY <1>0, PlanFacts DEF ContextType
      <4>2. IndexOf(c, Current(c), ctx[c].page) \in Int
        <5>1. Doing(c, "write")
          BY <1>7 DEF WalkPage
        <5>2. Current(c) \in Placed(c)
          BY <5>1, CurrentKnown
        <5>3. ctx[c].addr[Current(c)] \in Nat
          BY <5>2, AddressType
        <5> QED
          BY <5>3, <4>1, GgttAssumption DEF IndexOf
      <4>3. IndexOf(c, Current(c), ctx[c].page) % plan.page \in 0 .. plan.page - 1
        BY <4>1, <4>2
      <4> QED
        BY <4>1, <4>3
    <3> HIDE DEF n
    <3> QED
      BY <3>1, <3>2
  <2>2. UNCHANGED <<gfx, wrapped, told, paused, plan>>
    BY <1>7 DEF WalkPage
  <2>3. CASE ctx' = [ctx EXCEPT ![c].page = next] /\ UNCHANGED table
    <3>1. ctx' \in [Contexts -> ContextType]
      BY <2>3, <1>0 DEF ContextType
    <3> QED
      BY <3>1, <2>2, <2>3, <1>0 DEF GgttTypes
  <2>4. CASE /\ CreatePageTable(plan.bank, plan.page)
             /\ table' = Join(table, NewEntries(index, NextPage))
             /\ ctx' = [ctx EXCEPT ![c].page = next, ![c].writes = Join(@, NewEntries(index, NextPage))]
    <3> DEFINE new == NewEntries(index, NextPage)
    <3>1. NextPage \in Nat
      <4>1. plan.bank \in MemoryBanks /\ plan.page \in PageSizes
        BY PlanIsClient DEF Apart
      <4> QED
        BY <4>1, <2>4, NewPageIsApart DEF Apart, NextPage
    <3>2. index \in Nat /\ plan.page \in Nat
      BY <1>0, PlanFacts DEF Indices
    <3>3. new \in EntryMaps
      <4>1. new \in [index .. index + plan.page - 1 -> [pa : Nat, local : BOOLEAN]]
        BY <3>1, <3>2 DEF NewEntries, Entry
      <4>2. index .. index + plan.page - 1 \in SUBSET Nat
        BY <3>2
      <4> QED
        BY <4>1, <4>2 DEF EntryMaps
    <3> HIDE DEF new
    <3>4. Join(table, new) \in EntryMaps
      <4>1. table \in EntryMaps
        BY <1>0
      <4> QED
        BY <3>3, <4>1, JoinType DEF EntryMaps
    <3>5. Join(ctx[c].writes, new) \in EntryMaps
      <4>1. ctx[c].writes \in EntryMaps
        BY <1>0 DEF ContextType
      <4> QED
        BY <4>1, <3>3, JoinType DEF EntryMaps
    <3>6. ctx' = [ctx EXCEPT ![c].page = next, ![c].writes = Join(@, new)]
      BY <2>4 DEF new
    <3>7. ctx' \in [Contexts -> ContextType]
      <4>1. ASSUME NEW w \in EntryMaps
            PROVE  [ctx[c] EXCEPT !.page = next, !.writes = w] \in ContextType
        <5>1. ctx[c] \in ContextType
          BY <1>0
        <5> QED
          BY <5>1 DEF ContextType
      <4>2. ctx' = [ctx EXCEPT ![c] = [ctx[c] EXCEPT !.page = next, !.writes = Join(ctx[c].writes, new)]]
        BY <3>6, <1>0
      <4>3. [ctx[c] EXCEPT !.page = next, !.writes = Join(ctx[c].writes, new)] \in ContextType
        BY <3>5, <4>1
      <4> QED
        BY <4>2, <4>3, <1>0
    <3>8. table' \in EntryMaps
      BY <3>4, <2>4 DEF new
    <3> QED
      BY <3>7, <3>8, <2>2, <1>0 DEF GgttTypes
  <2> QED
    BY <2>1, <2>3, <2>4
<1>8. ASSUME NEW c \in Contexts, WriteObject(c)
      PROVE  GgttTypes'
  <2>1. /\ UNCHANGED <<plan, gfx, wrapped, table, paused>>
        /\ DOMAIN told' = DOMAIN told
        /\ ctx' = [ctx EXCEPT ![c].state = IF ctx[c].at = Len(Steps) THEN "ready" ELSE @,
                              ![c].at = IF ctx[c].at = Len(Steps) THEN 0 ELSE @ + 1,
                              ![c].page = 0, ![c].writes = << >>]
    BY <1>8 DEF WriteObject, Tell
  <2> DEFINE s == IF ctx[c].at = Len(Steps) THEN "ready" ELSE ctx[c].state
             n == IF ctx[c].at = Len(Steps) THEN 0 ELSE ctx[c].at + 1
             new == [ctx[c] EXCEPT !.state = s, !.at = n, !.page = 0, !.writes = << >>]
  <2>3. ctx' = [ctx EXCEPT ![c] = new]
    BY <2>1, <1>0
  <2>4. ctx[c] \in ContextType
    BY <1>0
  <2>5. s \in {"none", "waiting", "inside", "ready", "closed"} /\ n \in Nat /\ 0 \in Nat
    BY <2>4 DEF ContextType
  <2> HIDE DEF s, n
  <2>6. ASSUME NEW p \in Nat
        PROVE  [ctx[c] EXCEPT !.state = s, !.at = n, !.page = p, !.writes = << >>] \in ContextType
    BY <2>4, <2>5, <1>2 DEF ContextType
  <2>7. new \in ContextType
    BY <2>5, <2>6
  <2> HIDE DEF new
  <2>2. ctx' \in [Contexts -> ContextType]
    BY <2>3, <2>7, <1>0
  <2> QED
    BY <2>1, <2>2, <1>0 DEF GgttTypes
<1>9. ASSUME NEW c \in Contexts, Submit(c)
      PROVE  GgttTypes'
  <2>1. UNCHANGED <<plan, gfx, wrapped, table, paused, ctx>> /\ DOMAIN told' = DOMAIN told
    BY <1>9 DEF Submit, Tell
  <2> QED
    BY <2>1, <1>0 DEF GgttTypes
<1>10. NoContext \in ContextType
  BY <1>2 DEF NoContext, ContextType
<1>11. ASSUME NEW c \in Contexts, Release(c)
       PROVE  GgttTypes'
  <2>1. UNCHANGED <<plan, gfx, wrapped, table, told, paused>> /\ ctx' = [ctx EXCEPT ![c] = NoContext]
    BY <1>11 DEF Release, Kept
  <2>2. ctx' \in [Contexts -> ContextType]
    BY <2>1, <1>0, <1>10
  <2> QED
    BY <2>1, <2>2, <1>0 DEF GgttTypes
<1>12. CASE NewFile
  <2>1. /\ UNCHANGED <<plan, gfx, wrapped, table, paused>>
        /\ told' = [told EXCEPT !["file"] = NothingTold]
        /\ ctx' = [c \in Contexts |->
                     IF c \in Ready THEN [NoContext EXCEPT !.state = "closed", !.again = TRUE]
                     ELSE ctx[c]]
    BY <1>12 DEF NewFile, Kept
  <2>2. [NoContext EXCEPT !.state = "closed", !.again = TRUE] \in ContextType
    BY <1>10 DEF ContextType
  <2>3. ctx' \in [Contexts -> ContextType]
    BY <2>1, <2>2, <1>0
  <2> QED
    BY <2>1, <2>3, <1>0 DEF GgttTypes
<1>13. CASE Pause
  BY <1>0, <1>13 DEF Pause, GgttTypes
<1>14. CASE OtherClients \/ OtherTable
  BY <1>0, <1>14 DEF OtherClients, OtherTable, ggttVars, GgttTypes
<1> QED
  BY <1>1, <1>4, <1>5, <1>6, <1>7, <1>8, <1>9, <1>11, <1>12, <1>13, <1>14 DEF GgttNext

(* A context that is released leaves its entries behind. *)
LEMMA ReleaseToldKeeps ==
    ASSUME GgttTypes, ToldInv, NEW c \in Contexts, Release(c)
    PROVE  ToldInv'
<1>1. /\ UNCHANGED <<plan, gfx, table, paused>> /\ told' = told
      /\ ctx' = [ctx EXCEPT ![c] = NoContext]
  BY DEF Release, Kept
<1>u. UNCHANGED <<plan, gfx, table, paused>>
  BY <1>1
<1>2. ctx'[c] = NoContext /\ \A d \in Contexts \ {c} : ctx'[d] = ctx[d]
  BY <1>1 DEF GgttTypes
<1>3. /\ NoContext.state = "none" /\ NoContext.addr = << >>
      /\ NoContext.page = 0 /\ NoContext.writes = << >>
  BY DEF NoContext
<1>4. {c} \in SUBSET Contexts
  OBVIOUS
<1> QED
  BY <1>u, <1>1, <1>2, <1>3, <1>4, ForgetToldKeeps

(* A new file is empty, and no context is in it yet. *)
LEMMA NewFileToldKeeps ==
    ASSUME GgttTypes, ToldInv, NewFile
    PROVE  ToldInv'
<1> DEFINE closed == [NoContext EXCEPT !.state = "closed", !.again = TRUE]
<1>1. /\ NoneInside /\ told' = [told EXCEPT !["file"] = NothingTold]
      /\ ctx' = [d \in Contexts |-> IF d \in Ready THEN closed ELSE ctx[d]]
  BY DEF NewFile
<1>u. UNCHANGED <<plan, gfx, table, paused>>
  BY DEF NewFile, Kept
<1>2. /\ \A d \in Ready : ctx'[d] = closed
      /\ \A d \in Contexts \ Ready : ctx'[d] = ctx[d] /\ ctx[d].state = "none"
  BY <1>1 DEF Ready, NoneInside
<1>3. /\ closed.state = "closed" /\ closed.addr = << >>
      /\ closed.page = 0 /\ closed.writes = << >>
  BY DEF NoContext
<1>4. Ready \in SUBSET Contexts
  BY DEF Ready
<1> HIDE DEF closed
<1>5. \A d \in Contexts : ctx'[d].state \in {"none", "closed"}
  BY <1>2, <1>3
<1>6. /\ \A d \in Contexts \ Ready : ctx'[d] = ctx[d]
      /\ \A d \in Ready : /\ ctx'[d].state \in {"none", "closed"} /\ ctx'[d].addr = << >>
                          /\ ctx'[d].page = 0 /\ ctx'[d].writes = << >>
  BY <1>2, <1>3
<1>7. told' = [told EXCEPT !["file"] = NothingTold]
  BY <1>1
<1> QED
  BY <1>u, <1>4, <1>5, <1>6, <1>7, ForgetToldKeeps

(* Whatever leaves the table, the contexts and what was told of them as they are. *)
LEMMA SameToldKeeps ==
    ASSUME ToldInv, UNCHANGED <<plan, gfx, table, told, ctx>>,
           paused' = paused \/ NoneInside
    PROVE  ToldInv'
<1>1. \A d \in Contexts :
          /\ Placed(d)' = Placed(d) /\ Written(d)' = Written(d)
          /\ Doing(d, "write")' = Doing(d, "write") /\ Current(d)' = Current(d)
  BY PlanSame DEF Placed, Written, Doing, Current
<1>2. PlacesKnown' /\ PlacesAligned' /\ PlacesApart'
  <2>1. PlacesKnown'
    BY <1>1, PlanSame DEF ToldInv, PlacesKnown
  <2>2. PlacesAligned' /\ PlacesApart'
    BY <1>1 DEF ToldInv, PlacesAligned, PlacesApart
  <2> QED
    BY <2>1, <2>2
<1>3. TablePages' /\ ToldOfTable'
  BY PlanSame DEF ToldInv, TablePages, ToldOfTable
<1>4. PagesMade' /\ PagesToMake'
  BY <1>1, PlanSame DEF ToldInv, PagesMade, PagesToMake
<1>5. WalkCollects'
  BY <1>1, PlanSame DEF ToldInv, WalkCollects
<1>6. FileNotPaused'
  BY DEF ToldInv, FileNotPaused, NoneInside
<1>7. ObjectsTold'
  <2> SUFFICES ASSUME NEW s \in {"file", "sim"}, NEW d \in Contexts, Heard(s, d)',
                      NEW q \in Written(d)', NEW i \in Indexes(q)
               PROVE  /\ ToldAt(ctx[d].addr[q] + i) \in DOMAIN told[s].entries
                      /\ q \in Filled => ToldData(s, d, q, i)'
    BY PlanSame DEF ObjectsTold
  <2>1. Heard(s, d) /\ q \in Written(d)
    BY <1>1 DEF Heard
  <2>2. ToldData(s, d, q, i)' = ToldData(s, d, q, i)
    BY DEF ToldData
  <2> QED
    BY <2>1, <2>2 DEF ToldInv, ObjectsTold
<1> QED
  BY <1>2, <1>3, <1>4, <1>5, <1>6, <1>7 DEF ToldInv

(* Nothing is placed, and nothing told, at first. *)
LEMMA StartTold ==
    ASSUME GgttInit
    PROVE  GgttTypes /\ ToldInv
<1>1. /\ plan \in Plans /\ gfx = NewAllocator(0) /\ wrapped = FALSE /\ table = << >>
      /\ told = [s \in {"file", "sim"} |-> NothingTold] /\ paused = FALSE
      /\ ctx = [c \in Contexts |-> NoContext]
  BY DEF GgttInit
<1>2. gfx.next \in Nat /\ gfx.free = {} /\ gfx.next < GfxSpace
  BY <1>1, GgttAssumption DEF NewAllocator
<1>3. << >> \in Addresses /\ << >> \in EntryMaps
  BY EmptyMap DEF Addresses, EntryMaps
<1>4. NoContext \in ContextType
  BY <1>3 DEF NoContext, ContextType
<1>5. GgttTypes
  BY <1>1, <1>2, <1>3, <1>4 DEF GgttTypes
<1>6. \A c \in Contexts :
        /\ ctx[c].state = "none" /\ ctx[c].page = 0 /\ DOMAIN ctx[c].writes = {}
        /\ Placed(c) = {} /\ Written(c) = {} /\ ~Doing(c, "write")
  BY <1>1 DEF NoContext, Placed, Written, Doing
<1>7. PlacesKnown /\ PlacesAligned /\ PlacesApart
  BY <1>2, <1>6 DEF PlacesKnown, PlacesAligned, PlacesApart
<1>8. DOMAIN table = {} /\ \A s \in {"file", "sim"} : DOMAIN told[s].entries = {}
  BY <1>1 DEF NothingTold
<1>9. TablePages /\ PagesMade /\ PagesToMake /\ ToldOfTable /\ ObjectsTold
  BY <1>6, <1>8 DEF TablePages, PagesMade, PagesToMake, ToldOfTable, ObjectsTold
<1>10. WalkCollects
  <2>1. plan.page \in Nat \ {0}
    BY <1>1, PlanFacts
  <2>2. 0 % plan.page = 0
    BY <2>1
  <2> QED
    BY <2>2, <1>6 DEF WalkCollects
<1>11. FileNotPaused
  BY <1>6 DEF FileNotPaused
<1> QED
  BY <1>5, <1>7, <1>9, <1>10, <1>11 DEF ToldInv

(* Until the graphics addresses wrap, every step keeps the invariant. *)
LEMMA ToldStep ==
    ASSUME Apart, ToldUntilWrapped, [GgttNext]_allVars, ~wrapped'
    PROVE  GgttTypes' /\ ToldInv'
<1>1. ~wrapped
  <2>1. CASE UNCHANGED wrapped
    BY <2>1
  <2>2. CASE ~UNCHANGED wrapped
    <3>1. PICK size : AllocateGfx(size)
      BY <2>2 DEF GgttNext, Initialize, Reinitialize, TakeHWSP, LockGgtt, AllocateObject,
                  WalkPage, WriteObject, Submit, Release, NewFile, Pause, OtherClients,
                  OtherTable, ggttVars, allVars
    <3> QED
      BY <3>1, Zenon DEF AllocateGfx
  <2> QED
    BY <2>1, <2>2
<1>2. GgttTypes /\ ToldInv
  BY <1>1 DEF ToldUntilWrapped
<1>3. GgttTypes'
  BY <1>2, TypesOfSteps
<1>4. ToldInv'
  <2>1. ASSUME NEW c \in Contexts, Initialize(c) \/ Reinitialize(c)
        PROVE  ToldInv'
    BY <2>1, <1>2, TakeToldKeeps DEF Initialize, Reinitialize
  <2>2. ASSUME NEW c \in Contexts, LockGgtt(c)
        PROVE  ToldInv'
    BY <2>2, <1>2, LockToldKeeps
  <2>3. ASSUME NEW c \in Contexts, AllocateObject(c)
        PROVE  ToldInv'
    BY <2>3, <1>2, AllocateToldKeeps
  <2>4. ASSUME NEW c \in Contexts, WalkPage(c)
        PROVE  ToldInv'
    BY <2>4, <1>2, WalkToldKeeps
  <2>5. ASSUME NEW c \in Contexts, WriteObject(c)
        PROVE  ToldInv'
    BY <2>5, <1>2, WriteToldKeeps
  <2>6. ASSUME NEW c \in Contexts, Submit(c)
        PROVE  ToldInv'
    BY <2>6, <1>2, SubmitToldKeeps
  <2>7. ASSUME NEW c \in Contexts, Release(c)
        PROVE  ToldInv'
    BY <2>7, <1>2, ReleaseToldKeeps
  <2>8. CASE NewFile
    BY <2>8, <1>2, NewFileToldKeeps
  <2>9. CASE Pause
    <3>1. NoneInside /\ UNCHANGED <<plan, gfx, table, told, ctx>>
      BY <2>9 DEF Pause
    <3> QED
      BY <3>1, <1>2, SameToldKeeps
  <2>10. CASE OtherClients \/ OtherTable \/ UNCHANGED allVars
    <3>1. UNCHANGED <<plan, gfx, table, told, ctx>> /\ paused' = paused
      BY <2>10 DEF OtherClients, OtherTable, allVars, ggttVars
    <3> QED
      BY <3>1, <1>2, SameToldKeeps
  <2> QED
    BY <2>1, <2>2, <2>3, <2>4, <2>5, <2>6, <2>7, <2>8, <2>9, <2>10 DEF GgttNext
<1> QED
  BY <1>3, <1>4

(* What a context was told of is found where the sink's hardware looks. *)
LEMMA ToldIsFound ==
    ASSUME GgttTypes, ToldInv, NEW s \in {"file", "sim"}, NEW c \in Ready, Heard(s, c),
           s = "sim" /\ plan.sim = "shm" => EntryOffset = 0
    PROVE  Finds(s, c)
<1> SUFFICES ASSUME NEW o \in Objects, NEW i \in Indexes(o)
             PROVE  LET at == LooksAt(s, IndexOf(c, o, i))
                        pa == Physical(IndexOf(c, o, i))
                    IN /\ at \in DOMAIN told[s].entries
                       /\ told[s].entries[at] = Entry(pa)
                       /\ o \in Filled => pa \in DOMAIN told[s].data /\ told[s].data[pa] = <<c, o>>
  BY DEF Finds, Indexes
<1> DEFINE index == ctx[c].addr[o] + i
<1>1. c \in Contexts /\ ctx[c].state = "ready" /\ Placed(c) = Objects /\ Written(c) = Objects
  BY DEF Ready, ToldInv, PlacesKnown, Written
<1>2. IndexOf(c, o, i) = index /\ index \in Nat
  BY <1>1, IndexIs DEF ToldInv
<1>3. index \in DOMAIN table
  BY <1>1 DEF ToldInv, PagesMade
<1>4. /\ ToldAt(index) \in DOMAIN told[s].entries
      /\ o \in Filled => ToldData(s, c, o, i)
  BY <1>1 DEF ToldInv, ObjectsTold
<1> HIDE DEF index
<1>5. EntryOffset \in Nat
  BY EntryOffsetType DEF GgttTypes
<1>6. LooksAt(s, index) = ToldAt(index)
  BY <1>2, <1>5 DEF LooksAt, ToldAt
<1>7. PICK j \in DOMAIN table : ToldAt(index) = ToldAt(j) /\ told[s].entries[ToldAt(index)] = table[j]
  BY <1>4 DEF ToldInv, ToldOfTable
<1>8. j = index
  <2>1. j \in Nat
    BY <1>7, PhysicalIs DEF ToldInv
  <2> QED
    BY <2>1, <1>2, <1>5, <1>7 DEF ToldAt
<1>9. Physical(index) = table[index].pa /\ table[index] = Entry(Physical(index))
  BY <1>3, PhysicalIs DEF ToldInv
<1>10. o \in Filled =>
          Physical(index) \in DOMAIN told[s].data /\ told[s].data[Physical(index)] = <<c, o>>
  BY <1>4, <1>9 DEF ToldData, index
<1> QED
  BY <1>2, <1>4, <1>6, <1>7, <1>8, <1>9, <1>10

(***************************************************************************)
(* Until the addresses wrap, objects lie apart, their pages are made while  *)
(* they are written, and each sink that listens is told all their entries.  *)
(***************************************************************************)
LEMMA ToldAlways == GgttSpec => []ToldUntilWrapped
<1>1. GgttInit => ToldUntilWrapped
  BY StartTold DEF ToldUntilWrapped
<1>2. Apart /\ ToldUntilWrapped /\ [GgttNext]_allVars => ToldUntilWrapped'
  BY ToldStep DEF ToldUntilWrapped
<1> QED
  BY <1>1, <1>2, ApartAlways, PTL DEF GgttSpec

(***************************************************************************)
(* A file can be replayed by itself: it holds the entries and the contents  *)
(* of every object of a context that was initialised for it.  No page of an *)
(* object is there before the object is written: release gives no graphics  *)
(* addresses back, so initialize makes the pages of each context anew.      *)
(***************************************************************************)
THEOREM FileIsReplayable == GgttSpec => []FileHasObjects
<1>1. ToldUntilWrapped => FileHasObjects
  <2> SUFFICES ASSUME GgttTypes, ToldInv, plan.file, NEW c \in Ready, ctx[c].inFile
               PROVE  Finds("file", c)
    BY DEF FileHasObjects, ToldUntilWrapped
  <2> QED
    BY ToldIsFound DEF Heard
<1> QED
  BY <1>1, ToldAlways, PTL

(***************************************************************************)
(* The simulator finds every object of every initialised context.  The one  *)
(* case left out is a simulator in shared memory and a GGTT in a bank other *)
(* than the first: writeGttPages adds the base of the device's table to an  *)
(* address that contains the offset of its bank already.                    *)
(***************************************************************************)
THEOREM SimulatorFindsObjects ==
    GgttSpec => []((plan.sim = "shm" => plan.bank \subseteq {0}) => EngineFindsObjects)
<1>1. ToldUntilWrapped => ((plan.sim = "shm" => plan.bank \subseteq {0}) => EngineFindsObjects)
  <2> SUFFICES ASSUME GgttTypes, ToldInv, plan.sim = "shm" => plan.bank \subseteq {0},
                      plan.sim # "none", NEW c \in Ready
               PROVE  Finds("sim", c)
    BY DEF EngineFindsObjects, ToldUntilWrapped
  <2>1. plan.sim = "shm" => EntryOffset = 0
    <3> SUFFICES ASSUME plan.sim = "shm", plan.bank # {}
                 PROVE  EntryOffset = 0
      BY DEF EntryOffset
    <3>1. plan.bank = {0}
      OBVIOUS
    <3>2. LowestBit({0}) = 0
      BY DEF LowestBit
    <3> QED
      BY <3>1, <3>2, GgttAssumption DEF EntryOffset
  <2> QED
    BY <2>1, ToldIsFound DEF Heard
<1> QED
  BY <1>1, ToldAlways, PTL

(* The memory of an object, by its pages: of entries the table has for them. *)
LEMMA PagesOfObject ==
    ASSUME GgttTypes, ToldInv, NEW c \in Ready, NEW o \in Objects, NEW pa \in PagesOf(c, o)
    PROVE  \E i \in Indexes(o) : LET first == PageStart(ctx[c].addr[o] + i)
                                 IN  first \in DOMAIN table /\ table[first].pa = pa
<1>1. c \in Contexts /\ ctx[c].state = "ready" /\ Placed(c) = Objects /\ Written(c) = Objects
  BY DEF Ready, ToldInv, PlacesKnown, Written
<1>2. PICK i \in Indexes(o) : pa = table[PageStart(IndexOf(c, o, i))].pa
  BY DEF PagesOf, Indexes
<1> DEFINE index == ctx[c].addr[o] + i
<1>3. IndexOf(c, o, i) = index /\ index \in Nat
  BY <1>1, IndexIs DEF ToldInv
<1>4. index \in DOMAIN table
  BY <1>1 DEF ToldInv, PagesMade
<1> HIDE DEF index
<1>5. plan.page \in Nat \ {0}
  BY PlanFacts DEF GgttTypes
<1>6. PageStart(index) \in Nat
  <2>1. index - (index % plan.page) \in Nat
    BY <1>3, <1>5, Offset
  <2> QED
    BY <2>1 DEF PageStart
<1>7. PageStart(index) + 0 \in DOMAIN table
  <2>1. 0 \in 0 .. plan.page - 1
    BY <1>5
  <2> QED
    BY <1>4, <2>1 DEF ToldInv, TablePages
<1>8. PageStart(index) \in DOMAIN table
  BY <1>6, <1>7
<1> QED
  BY <1>2, <1>3, <1>8 DEF index

(***************************************************************************)
(* No two objects of the contexts share memory.  The graphics addresses lie *)
(* apart by whole pages, although the one of the status page is taken       *)
(* without the lock; each page is reserved for itself, and no other client  *)
(* holds or frees it.                                                       *)
(***************************************************************************)
THEOREM ObjectsNeverShareMemory == GgttSpec => []ObjectsApart
<1>1. Apart /\ ToldUntilWrapped => ObjectsApart
  <2> SUFFICES ASSUME Apart, GgttTypes, ToldInv, NEW c \in Ready, NEW d \in Ready,
                      NEW o \in Objects, NEW p \in Objects, c # d \/ o # p,
                      NEW pa \in PagesOf(c, o), pa \in PagesOf(d, p)
               PROVE  FALSE
    BY DEF ObjectsApart, ToldUntilWrapped
  <2>1. PICK i \in Indexes(o) : /\ PageStart(ctx[c].addr[o] + i) \in DOMAIN table
                                /\ table[PageStart(ctx[c].addr[o] + i)].pa = pa
    BY PagesOfObject
  <2>2. PICK j \in Indexes(p) : /\ PageStart(ctx[d].addr[p] + j) \in DOMAIN table
                                /\ table[PageStart(ctx[d].addr[p] + j)].pa = pa
    BY PagesOfObject
  <2>3. /\ c \in Contexts /\ Placed(c) = Objects
        /\ d \in Contexts /\ Placed(d) = Objects
    BY DEF Ready, ToldInv, PlacesKnown
  <2>4. PageStart(ctx[c].addr[o] + i) # PageStart(ctx[d].addr[p] + j)
    BY <2>3, PagesApart DEF ToldInv
  <2> QED
    BY <2>1, <2>2, <2>4 DEF Apart, TranslatesApart, EntriesApart
<1> QED
  BY <1>1, ToldAlways, ApartAlways, PTL
=============================================================================
