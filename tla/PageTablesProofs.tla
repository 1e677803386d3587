-------------------------- MODULE PageTablesProofs --------------------------
(***************************************************************************)
(* Theorems about PageTables: every step of a request brings it nearer to   *)
(* its end, the physical memory and the page tables agree, what a node does *)
(* not wait to send was sent, the sinks have the tree, and the devices      *)
(* translate alike.                                                         *)
(***************************************************************************)
EXTENDS PageTables, TLAPS, FiniteSetTheorems, WellFoundedInduction

-----------------------------------------------------------------------------
(* Numbers and the allocator *)

(* A non-empty set of naturals has a least element. *)
LEMMA LeastNatural ==
    ASSUME NEW S \in SUBSET Nat, S # {}
    PROVE  \E m \in S : \A n \in S : m <= n
<1> DEFINE R == OpToRel(<, Nat)
<1>1. IsWellFoundedOn(R, Nat)
  BY NatLessThanWellFounded
<1>2. PICK m \in S : \A n \in S : ~(<<n, m>> \in R)
  BY <1>1, WFMin, Zenon
<1>3. \A n \in S : ~(n < m)
  BY <1>2 DEF OpToRel
<1> QED
  BY <1>3

(* Raising an address to an alignment never lowers it. *)
LEMMA AlignUpRaises ==
    ASSUME NEW x \in Nat, NEW a \in Nat \ {0}
    PROVE  AlignUp(x, a) \in Nat /\ x <= AlignUp(x, a)
<1>1. (x + a - 1) % a \in 0 .. a - 1
  OBVIOUS
<1> QED
  BY <1>1 DEF AlignUp

(* MaxOf is a maximum. *)
LEMMA MaxOfNat ==
    ASSUME NEW x \in Nat, NEW y \in Nat
    PROVE  MaxOf(x, y) \in Nat /\ x <= MaxOf(x, y) /\ y <= MaxOf(x, y)
BY DEF MaxOf

(* The search of the free map finds a block of the map. *)
LEMMA LowestIsMember ==
    ASSUME NEW S \in SUBSET Block, S # {}
    PROVE  Lowest(S) \in S
<1> DEFINE A == {b.addr : b \in S}
<1>1. A \in SUBSET Nat /\ A # {}
  BY DEF Block
<1>2. PICK m \in A : \A n \in A : m <= n
  BY <1>1, LeastNatural
<1>3. PICK b \in S : b.addr = m
  BY <1>2
<1>4. \A c \in S : b.addr <= c.addr
  BY <1>2, <1>3
<1> QED
  BY <1>3, <1>4 DEF Lowest

(***************************************************************************)
(* What alignedAlloc returns: a block of the requested size that overlaps   *)
(* no used block.                                                           *)
(***************************************************************************)
LEMMA AllocatedBlockIsNew ==
    ASSUME NEW al \in AllocatorState, NEW first \in Nat,
           BlocksDisjoint(al), BlocksBelowNext(al, first),
           NEW size \in Nat \ {0}, NEW alignment \in Nat
    PROVE  LET b == AllocatedBlock(al, size, alignment)
           IN  /\ b \in Block
               /\ b.size = size
               /\ first <= b.addr
               /\ b \notin al.used
               /\ \A c \in (al.used \cup al.free) \ {b} : Disjoint(b, c)
               /\ b \in al.free => b.addr + b.size <= al.next
               /\ b \notin al.free => al.next <= b.addr
<1> DEFINE b == AllocatedBlock(al, size, alignment)
<1>0. al.next \in Nat /\ al.used \in SUBSET Block /\ al.free \in SUBSET Block
  BY DEF AllocatorState
<1>1. CASE Fitting(al, size) # {}
  <2>1. Fitting(al, size) \in SUBSET Block
    BY <1>0 DEF Fitting
  <2>2. b \in Fitting(al, size)
    BY <1>1, <2>1, LowestIsMember DEF AllocatedBlock
  <2>3. b \in al.free /\ b.size = size /\ b \in Block
    BY <1>0, <2>2 DEF Fitting
  <2> QED
    BY <2>3 DEF BlocksDisjoint, BlocksBelowNext
<1>2. CASE Fitting(al, size) = {}
  <2>1. b = [addr |-> FreshAddress(al, alignment), size |-> size]
    BY <1>2 DEF AllocatedBlock
  <2>2. FreshAddress(al, alignment) \in Nat /\ al.next <= FreshAddress(al, alignment)
    <3>1. MaxOf(alignment, MinAlignment) \in Nat \ {0}
      BY MinAlignmentAssumption DEF MaxOf
    <3> QED
      BY <1>0, <3>1, AlignUpRaises DEF FreshAddress
  <2>3. \A c \in al.used \cup al.free :
           /\ c.addr \in Nat /\ c.size \in Nat /\ 0 < c.size
           /\ c.addr + c.size <= al.next
    BY <1>0 DEF BlocksBelowNext, Block
  <2>4. \A c \in al.used \cup al.free : c # b /\ Disjoint(b, c)
    BY <2>1, <2>2, <2>3, <1>0 DEF Disjoint
  <2>5. first <= al.next
    BY DEF BlocksBelowNext
  <2> QED
    BY <1>0, <2>1, <2>2, <2>4, <2>5 DEF Block
<1> QED
  BY <1>1, <1>2

(* alignedAlloc keeps the blocks of an allocator disjoint and below next. *)
LEMMA AlignedAllocKeepsDisjoint ==
    ASSUME NEW al \in AllocatorState, NEW first \in Nat,
           BlocksDisjoint(al), BlocksBelowNext(al, first),
           NEW size \in Nat \ {0}, NEW alignment \in Nat
    PROVE  LET new == AlignedAlloc(al, size, alignment)
           IN  /\ new \in AllocatorState
               /\ BlocksDisjoint(new)
               /\ BlocksBelowNext(new, first)
               /\ new.used = al.used \cup {AllocatedBlock(al, size, alignment)}
<1> DEFINE b == AllocatedBlock(al, size, alignment)
           new == AlignedAlloc(al, size, alignment)
<1> HIDE DEF b
<1>0. al.next \in Nat /\ al.used \in SUBSET Block /\ al.free \in SUBSET Block
  BY DEF AllocatorState
<1>1. /\ b \in Block
      /\ b.size = size
      /\ first <= b.addr
      /\ b \notin al.used
      /\ \A c \in (al.used \cup al.free) \ {b} : Disjoint(b, c)
      /\ b \in al.free => b.addr + b.size <= al.next
      /\ b \notin al.free => al.next <= b.addr
  BY AllocatedBlockIsNew DEF b
<1>2. b.addr \in Nat /\ b.size \in Nat
  BY <1>1 DEF Block
<1>3. new = [next |-> IF b \in al.free THEN al.next ELSE b.addr + size,
             used |-> al.used \cup {b},
             free |-> al.free \ {b}]
  BY DEF AlignedAlloc, b
<1>4. new \in AllocatorState
  BY <1>0, <1>1, <1>2, <1>3 DEF AllocatorState
<1>5. BlocksDisjoint(new)
  <2>1. new.used \cap new.free = {}
    BY <1>3 DEF BlocksDisjoint
  <2>2. new.used \cup new.free = al.used \cup al.free \cup {b}
    BY <1>3
  <2>3. \A c \in (al.used \cup al.free) \ {b} : Disjoint(b, c) /\ Disjoint(c, b)
    BY <1>1 DEF Disjoint
  <2> QED
    BY <2>1, <2>2, <2>3 DEF BlocksDisjoint
<1>6. BlocksBelowNext(new, first)
  <2>1. new.used \cup new.free = al.used \cup al.free \cup {b}
    BY <1>3
  <2>2. al.next <= new.next /\ b.addr + b.size <= new.next /\ new.next \in Nat
    BY <1>0, <1>1, <1>2, <1>3
  <2>3. \A c \in al.used \cup al.free : c.addr \in Nat /\ c.size \in Nat
    BY <1>0 DEF Block
  <2> QED
    BY <1>0, <1>1, <1>2, <2>1, <2>2, <2>3 DEF BlocksBelowNext
<1> QED
  BY <1>3, <1>4, <1>5, <1>6 DEF b

(* alignedFree keeps them too, and takes only the block at the address from used. *)
LEMMA AlignedFreeKeepsDisjoint ==
    ASSUME NEW al \in AllocatorState, NEW first \in Nat,
           BlocksDisjoint(al), BlocksBelowNext(al, first),
           NEW address \in Nat
    PROVE  LET new == AlignedFree(al, address)
           IN  /\ new \in AllocatorState
               /\ BlocksDisjoint(new)
               /\ BlocksBelowNext(new, first)
               /\ \A b \in al.used : b.addr # address => b \in new.used
<1> DEFINE new == AlignedFree(al, address)
<1>1. /\ new.next = al.next
      /\ new.used = al.used \ StartingAt(al, address)
      /\ new.free = al.free \cup StartingAt(al, address)
      /\ new \in AllocatorState
  BY DEF AlignedFree, AllocatorState, StartingAt
<1>2. StartingAt(al, address) \subseteq al.used
  BY DEF StartingAt
<1>3. new.used \cup new.free = al.used \cup al.free
  BY <1>1, <1>2
<1>4. new.used \cap new.free = {}
  BY <1>1, <1>2 DEF BlocksDisjoint
<1> HIDE DEF new
<1> QED
  BY <1>1, <1>3, <1>4 DEF BlocksDisjoint, BlocksBelowNext, StartingAt, new

(* What is left of a number below a multiple of a page is its offset. *)
LEMMA Offset ==
    ASSUME NEW a \in Nat \ {0}, NEW x \in Nat
    PROVE  /\ x % a \in 0 .. a - 1
           /\ x - (x % a) \in Nat
           /\ (x - (x % a)) % a = 0
<1>1. /\ x = a * (x \div a) + (x % a)
      /\ x \div a \in Int /\ x % a \in 0 .. a - 1
  OBVIOUS
<1>2. ASSUME NEW q \in Int
      PROVE  (a * q) % a = 0
  OBVIOUS
<1>3. x - (x % a) = a * (x \div a)
  BY <1>1
<1>4. x % a <= x
  <2>1. CASE x < a
    BY <2>1, <1>1
  <2>2. CASE a <= x
    BY <2>2, <1>1
  <2> QED
    BY <2>1, <2>2
<1> QED
  BY <1>1, <1>2, <1>3, <1>4

(* A number inside the first page is its own offset. *)
LEMMA SmallOffset ==
    ASSUME NEW a \in Nat, NEW x \in Nat, x < a
    PROVE  x % a = x
OBVIOUS

(* A multiple of a, and what follows it. *)
LEMMA Multiple ==
    ASSUME NEW a \in Nat \ {0}, NEW x \in Nat, x % a = 0
    PROVE  \E q \in Nat : x = a * q
<1>1. x = a * (x \div a) + (x % a) /\ x \div a \in Int
  OBVIOUS
<1>2. x \div a \in Nat
  OBVIOUS
<1> QED
  BY <1>1, <1>2

(* An offset, added to the start of a page. *)
LEMMA OffsetIn ==
    ASSUME NEW a \in Nat \ {0}, NEW x \in Nat, x % a = 0, NEW k \in 0 .. a - 1
    PROVE  (x + k) % a = k
<1>1. PICK q \in Nat : x = a * q
  BY Multiple
<1>2. (a * q + k) % a = k
  OBVIOUS
<1> QED
  BY <1>1, <1>2

(* Multiples add up to multiples. *)
LEMMA NextMultiple ==
    ASSUME NEW a \in Nat \ {0}, NEW x \in Nat, x % a = 0, NEW y \in Nat, y % a = 0
    PROVE  (x + y) % a = 0
<1>1. PICK q \in Nat : x = a * q
  BY Multiple
<1>2. PICK p \in Nat : y = a * p
  BY Multiple
<1>3. a * q + a * p = a * (q + p) /\ q + p \in Nat
  OBVIOUS
<1>4. ASSUME NEW r \in Nat
      PROVE  (a * r) % a = 0
  OBVIOUS
<1> QED
  BY <1>1, <1>2, <1>3, <1>4

(* No multiple lies inside a page. *)
LEMMA MultiplesApart ==
    ASSUME NEW a \in Nat \ {0}, NEW x \in Nat, x % a = 0, NEW y \in Nat, y % a = 0, x < y
    PROVE  x + a <= y
<1>1. PICK q \in Nat : x = a * q
  BY Multiple
<1>2. PICK p \in Nat : y = a * p
  BY Multiple
<1>3. q < p
  <2>1. ASSUME p <= q
        PROVE  FALSE
    <3>1. PICK d \in Nat : q = p + d
      BY <2>1
    <3>2. a * q = a * p + a * d /\ a * d \in Nat
      BY <3>1
    <3> QED
      BY <3>2, <1>1, <1>2
  <2> QED
    BY <2>1
<1>4. PICK d \in Nat : p = q + 1 + d
  BY <1>3
<1>5. a * p = a * q + a + a * d /\ a * d \in Nat
  BY <1>4
<1> QED
  BY <1>1, <1>2, <1>5

(* The page of a number is the last one that starts before it. *)
LEMMA PageBefore ==
    ASSUME NEW a \in Nat \ {0}, NEW x \in Nat, x % a = 0, NEW y \in Nat, x <= y
    PROVE  x <= y - (y % a)
<1> DEFINE z == y - (y % a)
<1>1. z \in Nat /\ z % a = 0 /\ y < z + a
  BY Offset
<1> HIDE DEF z
<1>2. ASSUME z < x
      PROVE  FALSE
  <2>1. z + a <= x
    BY <1>1, <1>2, MultiplesApart
  <2> QED
    BY <1>1, <2>1
<1>3. x <= z
  BY <1>1, <1>2
<1> QED
  BY <1>3 DEF z

(* A quotient below a bound. *)
LEMMA Quotient ==
    ASSUME NEW a \in Nat \ {0}, NEW x \in Nat
    PROVE  /\ x \div a \in Nat
           /\ x = a * (x \div a) + (x % a)
           /\ \A b \in Nat : x < b * a => x \div a < b
<1>1. x = a * (x \div a) + (x % a) /\ x \div a \in Int /\ x % a \in 0 .. a - 1
  OBVIOUS
<1>2. x \div a \in Nat
  OBVIOUS
<1>3. ASSUME NEW b \in Nat, x < b * a
      PROVE  x \div a < b
  <2> DEFINE q == x \div a
  <2>1. q \in Nat /\ a * q <= x
    BY <1>1, <1>2
  <2> HIDE DEF q
  <2>2. SUFFICES ASSUME b <= q
                 PROVE  FALSE
    BY <2>1 DEF q
  <2>3. PICK d \in Nat : q = b + d
    BY <2>1, <2>2
  <2>4. a * q = b * a + a * d /\ a * d \in Nat /\ b * a \in Nat
    BY <2>3
  <2> QED
    BY <1>3, <2>1, <2>4
<1> QED
  BY <1>1, <1>2, <1>3

(* The quotient and the offset tell a number. *)
LEMMA QuotientIs ==
    ASSUME NEW a \in Nat \ {0}, NEW q \in Nat, NEW k \in 0 .. a - 1
    PROVE  (a * q + k) \div a = q /\ (a * q + k) % a = k
OBVIOUS

(* Numbers on one page have one page start. *)
LEMMA SamePage ==
    ASSUME NEW a \in Nat \ {0}, NEW x \in Nat, NEW y \in Nat,
           x - (x % a) <= y, y < x - (x % a) + a
    PROVE  /\ y - (y % a) = x - (x % a)
           /\ y \div a = x \div a
<1> DEFINE q == x \div a
           k == y - a * q
<1>1. q \in Nat /\ x - (x % a) = a * q
  BY Quotient
<1>2. a * q \in Nat
  BY <1>1
<1>3. k \in 0 .. a - 1 /\ y = a * q + k
  BY <1>1, <1>2
<1> HIDE DEF q, k
<1>4. (a * q + k) \div a = q /\ (a * q + k) % a = k
  BY <1>1, <1>3, QuotientIs
<1> QED
  BY <1>1, <1>2, <1>3, <1>4 DEF q

-----------------------------------------------------------------------------
(* Users and slots *)

(* What is known of a user. *)
LEMMA UserFacts ==
    ASSUME user \in DOMAIN Users
    PROVE  /\ Group \in Nat \ {0, 1} /\ PteSpan \in Nat \ {0} /\ Group < PteSpan
           /\ PteSpan % Group = 0 /\ PdeSlots \in Nat \ {0}
           /\ PdpSlots \in Nat \ {0} /\ Trees \in Nat \ {0}
           /\ PdpSlots * PdeSlots \in Nat \ {0} /\ PdeSlots * PteSpan \in Nat \ {0}
           /\ VaPages = (PdpSlots * PdeSlots) * PteSpan
           /\ VaPages = PdpSlots * (PdeSlots * PteSpan)
           /\ VaPages \in Nat \ {0}
           /\ {CanPause, CanBlock, CarefulUser, Supports2MB, Ps64} \subseteq BOOLEAN
           /\ MaxRequests \in Nat
<1>1. /\ Group \in Nat \ {0, 1} /\ PteSpan \in Nat /\ Group < PteSpan
      /\ PteSpan % Group = 0 /\ PdeSlots \in Nat \ {0}
      /\ PdpSlots \in Nat \ {0} /\ Trees \in Nat \ {0}
  BY PageTablesAssumption DEF Group, PteSpan, PdeSlots
<1>2. /\ {CanPause, CanBlock, CarefulUser, Supports2MB, Ps64} \subseteq BOOLEAN
      /\ MaxRequests \in Nat
  BY PageTablesAssumption DEF CanPause, CanBlock, CarefulUser, Supports2MB, Ps64, MaxRequests
<1>3. PteSpan \in Nat \ {0}
  BY <1>1
<1>4. ASSUME NEW a \in Nat \ {0}, NEW b \in Nat \ {0}
      PROVE  a * b \in Nat \ {0}
  OBVIOUS
<1>5. PdpSlots * PdeSlots \in Nat \ {0} /\ PdeSlots * PteSpan \in Nat \ {0}
  BY <1>1, <1>3, <1>4
<1>6. ASSUME NEW a \in Nat, NEW b \in Nat, NEW c \in Nat
      PROVE  a * b * c = (a * b) * c /\ a * b * c = a * (b * c)
  OBVIOUS
<1>7. VaPages = (PdpSlots * PdeSlots) * PteSpan /\ VaPages = PdpSlots * (PdeSlots * PteSpan)
  BY <1>1, <1>6 DEF VaPages
<1>8. VaPages \in Nat \ {0}
  BY <1>3, <1>4, <1>5, <1>7
<1> QED
  BY <1>1, <1>2, <1>3, <1>5, <1>7, <1>8

(* A request is one of the user's. *)
LEMMA RequestFacts ==
    ASSUME user \in DOMAIN Users, NEW r \in Requests
    PROVE  /\ r.kind \in {"write", "map", "read", "free"}
           /\ r.va \in Nat /\ r.size \in Nat \ {0} /\ r.va + r.size <= VaPages
           /\ r.pageSize \in {1, Group, PteSpan}
           /\ r.banks \subseteq DOMAIN InitialMemory \ {0}
           /\ r.pa \in Nat \cup {NoPa} /\ (r.kind = "map" <=> r.pa # NoPa)
           /\ r.flags \in Nat
           /\ r.first \in 1 .. Trees /\ r.last \in 1 .. Trees /\ r.first <= r.last
<1>1. r \in RequestsOf(Users[user])
  BY PageTablesAssumption DEF Requests
<1> QED
  BY <1>1 DEF RequestsOf, VaPages, Group, PteSpan, PdeSlots

Pages == 0 .. VaPages - 1

(* The slots of an address. *)
LEMMA SlotsOfPage ==
    ASSUME user \in DOMAIN Users, NEW t \in 1 .. Trees, NEW va \in Pages
    PROVE  /\ PdeAt(t, va) \in Slots /\ PdeAt(t, va)[1] = t /\ PdeAt(t, va)[2] = "Pdp"
           /\ PteAt(t, va) \in Slots /\ PteAt(t, va)[1] = t /\ PteAt(t, va)[2] = "Pde"
           /\ \A s \in Nat \ {0} :
                 /\ PageAt(t, va, s) \in Slots
                 /\ PageAt(t, va, s)[1] = t /\ PageAt(t, va, s)[2] = "Pte"
<1>1. va \in Nat /\ va < VaPages
  BY UserFacts DEF Pages
<1>2. PdeAt(t, va) \in Slots
  <2>1. va \div (PdeSlots * PteSpan) \in Nat /\ va \div (PdeSlots * PteSpan) < PdpSlots
    BY <1>1, UserFacts, Quotient
  <2>2. va \div (PdeSlots * PteSpan) \in 0 .. PdpSlots - 1
    BY <2>1, UserFacts
  <2> QED
    BY <2>2 DEF PdeAt, Slots
<1>3. PteAt(t, va) \in Slots
  <2>1. va \div PteSpan \in Nat /\ va \div PteSpan < PdpSlots * PdeSlots
    BY <1>1, UserFacts, Quotient
  <2>2. va \div PteSpan \in 0 .. PdpSlots * PdeSlots - 1
    BY <2>1, UserFacts
  <2> QED
    BY <2>2 DEF PteAt, Slots
<1>4. ASSUME NEW s \in Nat \ {0}
      PROVE  PageAt(t, va, s) \in Slots
  <2>1. va % s \in 0 .. s - 1 /\ va - (va % s) \in Nat
    BY <1>1, Offset
  <2>2. va - (va % s) \in 0 .. VaPages - 1
    BY <1>1, <2>1, UserFacts
  <2> QED
    BY <2>2 DEF PageAt, Slots, AlignDown
<1> QED
  BY <1>2, <1>3, <1>4 DEF PdeAt, PteAt, PageAt

-----------------------------------------------------------------------------
(* The walker's locals *)

WalkFields == {"req", "tree", "va", "left", "pa", "level", "infos", "pageNumber",
               "pendingNodes", "writes", "pages64KB"}

(* Where a walker may be. *)
WalkState(o) ==
    /\ DOMAIN o = WalkFields
    /\ o.req \in Requests
    /\ o.tree \in o.req.first .. o.req.last
    /\ o.va \in Nat /\ o.left \in Nat /\ o.req.va <= o.va
    /\ o.va + o.left = o.req.va + o.req.size
    /\ o.level \in {"Pdp", "Pde", "Pte", "Commit", "Free", "FreeCommit"}
    /\ o.level \in {"Pdp", "Pde", "Pte", "Free"} => o.left > 0
    /\ o.level \in {"Free", "FreeCommit"} <=> o.req.kind = "free"
    /\ o.level \in {"Commit", "FreeCommit"} => o.left = 0 \/ o.req.kind = "read"

NodeFields == {"present", "pa", "bank", "owned", "size", "flags", "ps64", "pending"}

(* The tables on the way down are there, and have a page size. *)
TablesMet(o) ==
    /\ o.level \in {"Pde", "Pte"} => node[PdeAt(o.tree, o.va)].present
    /\ o.level = "Pte" => Pte(o).present /\ Pte(o).size \in {1, Group}

NodeShape ==
    /\ DOMAIN node = Slots
    /\ \A k \in Slots :
         /\ DOMAIN node[k] = NodeFields
         /\ node[k].present \in BOOLEAN
         /\ k[2] = "Pde" /\ node[k].present => node[k].size \in {1, Group, PteSpan}

Shape ==
    /\ user \in DOMAIN Users
    /\ NodeShape
    /\ op = Idle \/ (WalkState(op) /\ TablesMet(op))

(* Idle is no walk. *)
LEMMA WalkIsNotIdle ==
    ASSUME NEW o, WalkState(o)
    PROVE  o # Idle
BY DEF WalkState, Idle, WalkFields

(* The page a walker is at. *)
LEMMA WalkerPage ==
    ASSUME user \in DOMAIN Users, NEW o, WalkState(o)
    PROVE  /\ o.tree \in 1 .. Trees
           /\ o.left > 0 => o.va \in Pages
<1>1. /\ o.req.va \in Nat /\ o.req.size \in Nat /\ o.req.va + o.req.size <= VaPages
      /\ o.req.first \in 1 .. Trees /\ o.req.last \in 1 .. Trees
  BY RequestFacts DEF WalkState
<1>2. o.tree \in 1 .. Trees
  BY <1>1, UserFacts DEF WalkState
<1>3. o.left > 0 => o.va \in Pages
  BY <1>1, UserFacts DEF WalkState, Pages
<1> QED
  BY <1>2, <1>3

(* A new walk, on the first tree or on the next one. *)
LEMMA NewWalkStarts ==
    ASSUME user \in DOMAIN Users, NEW r \in Requests, NEW t \in r.first .. r.last, NEW infos
    PROVE  LET o == NewWalk(r, t, infos)
           IN  /\ WalkState(o) /\ o.level \in {"Free", "Pdp"}
               /\ o.req = r /\ o.tree = t /\ o.va = r.va /\ o.left = r.size /\ o.pa = r.pa
               /\ o.writes = << >> /\ o.pendingNodes = {} /\ o.pages64KB = {}
               /\ o.infos = infos /\ o.pageNumber = 1
<1> DEFINE o == NewWalk(r, t, infos)
<1>1. /\ DOMAIN o = WalkFields
      /\ o.req = r /\ o.tree = t /\ o.va = r.va /\ o.left = r.size /\ o.pa = r.pa
      /\ o.writes = << >> /\ o.pendingNodes = {} /\ o.pages64KB = {}
      /\ o.infos = infos /\ o.pageNumber = 1
      /\ o.level = IF r.kind = "free" THEN "Free" ELSE "Pdp"
  BY DEF NewWalk, WalkFields
<1> HIDE DEF o
<1>2. r.va \in Nat /\ r.size \in Nat \ {0}
  BY RequestFacts
<1>3. WalkState(o)
  BY <1>1, <1>2 DEF WalkState
<1> QED
  BY <1>1, <1>3 DEF o

(* How far the rest of a page, or of the range, reaches. *)
Stride(o, pageSize) == MinOf(o.left, pageSize - (o.va % pageSize))

(* A turn goes on by at least a page of 4KB, and to the end of its page unless the range
   ends before. *)
LEMMA StrideFacts ==
    ASSUME NEW o, WalkState(o), o.left > 0, NEW pageSize \in Nat \ {0}
    PROVE  /\ Stride(o, pageSize) \in Nat \ {0} /\ Stride(o, pageSize) <= o.left
           /\ o.va + Stride(o, pageSize) <= o.va - (o.va % pageSize) + pageSize
           /\ Stride(o, pageSize) = o.left
                \/ o.va + Stride(o, pageSize) = o.va - (o.va % pageSize) + pageSize
<1>1. o.va \in Nat /\ o.left \in Nat
  BY DEF WalkState
<1>2. o.va % pageSize \in 0 .. pageSize - 1
  BY <1>1, Offset
<1> QED
  BY <1>1, <1>2 DEF Stride, MinOf

(* A turn of the walk ends. *)
LEMMA AdvanceFacts ==
    ASSUME user \in DOMAIN Users, NEW o, WalkState(o), o.left > 0, o.req.kind # "free",
           NEW pageSize \in Nat \ {0}, NEW childPa
    PROVE  LET a == Advance(o, pageSize, childPa)
           IN  /\ WalkState(a) /\ a.level \in {"Commit", "Pdp"}
               /\ a.va = o.va + Stride(o, pageSize) /\ a.left = o.left - Stride(o, pageSize)
               /\ a.req = o.req /\ a.tree = o.tree
               /\ a.writes = o.writes /\ a.pendingNodes = o.pendingNodes
               /\ a.pages64KB = o.pages64KB /\ a.pageNumber = o.pageNumber + 1
               /\ a.pa = NextPa(o, pageSize, Stride(o, pageSize))
<1> DEFINE a == Advance(o, pageSize, childPa)
           n == Stride(o, pageSize)
<1>1. DOMAIN o = WalkFields
  BY DEF WalkState
<1>2. /\ DOMAIN a = WalkFields
      /\ a.va = o.va + n /\ a.left = o.left - n
      /\ a.req = o.req /\ a.tree = o.tree
      /\ a.writes = o.writes /\ a.pendingNodes = o.pendingNodes
      /\ a.pages64KB = o.pages64KB /\ a.pageNumber = o.pageNumber + 1
      /\ a.pa = NextPa(o, pageSize, n)
      /\ a.level = IF o.left = n THEN "Commit" ELSE "Pdp"
  BY <1>1 DEF Advance, WalkFields, Stride
<1> HIDE DEF a
<1>3. n \in Nat \ {0} /\ n <= o.left
  BY StrideFacts
<1> HIDE DEF n
<1>4. WalkState(a)
  BY <1>2, <1>3, RequestFacts DEF WalkState
<1> QED
  BY <1>2, <1>4 DEF a, n

(* A turn of the loop of freeMemory ends. *)
LEMMA AdvanceFreeFacts ==
    ASSUME user \in DOMAIN Users, NEW o, WalkState(o), o.left > 0, o.req.kind = "free",
           NEW pageSize \in Nat \ {0}
    PROVE  LET a == AdvanceFree(o, pageSize)
           IN  /\ WalkState(a) /\ a.level \in {"FreeCommit", "Free"}
               /\ a.va = o.va + Stride(o, pageSize) /\ a.left = o.left - Stride(o, pageSize)
               /\ a.req = o.req /\ a.tree = o.tree
               /\ a.writes = o.writes /\ a.pendingNodes = o.pendingNodes
               /\ a.pages64KB = o.pages64KB
<1> DEFINE a == AdvanceFree(o, pageSize)
           n == Stride(o, pageSize)
<1>1. DOMAIN o = WalkFields
  BY DEF WalkState
<1>2. /\ DOMAIN a = WalkFields
      /\ a.va = o.va + n /\ a.left = o.left - n
      /\ a.req = o.req /\ a.tree = o.tree
      /\ a.writes = o.writes /\ a.pendingNodes = o.pendingNodes
      /\ a.pages64KB = o.pages64KB
      /\ a.level = IF o.left = n THEN "FreeCommit" ELSE "Free"
  BY <1>1 DEF AdvanceFree, WalkFields, Stride
<1> HIDE DEF a
<1>3. n \in Nat \ {0} /\ n <= o.left
  BY StrideFacts
<1> HIDE DEF n
<1>4. WalkState(a)
  BY <1>2, <1>3, RequestFacts DEF WalkState
<1> QED
  BY <1>2, <1>4 DEF a, n

(* What differs between two walkers at most in what they collected. *)
SameWalk(a, o) ==
    /\ DOMAIN a = WalkFields
    /\ a.req = o.req /\ a.tree = o.tree /\ a.va = o.va /\ a.left = o.left
    /\ a.level = o.level /\ a.infos = o.infos /\ a.pageNumber = o.pageNumber

(* What a walker collected has no part in where it may be. *)
LEMMA SameWalkState ==
    ASSUME NEW o, WalkState(o), NEW a, SameWalk(a, o)
    PROVE  WalkState(a)
BY DEF SameWalk, WalkState

(* Collecting entries and noting 64KB pages leave a walker where it is. *)
LEMMA EmitSame ==
    ASSUME NEW o, DOMAIN o = WalkFields, NEW k, NEW n
    PROVE  /\ SameWalk(EmitIfNeeded(o, k, n), o) /\ SameWalk(Emit(o, k, n), o)
           /\ SameWalk(Note64KB(o, k, n), o)
           /\ SameWalk(RoundedUp(o), o)
<1>1. SameWalk(Emit(o, k, n), o)
  BY DEF Emit, SameWalk, WalkFields
<1>2. SameWalk(EmitIfNeeded(o, k, n), o)
  BY <1>1 DEF EmitIfNeeded, SameWalk
<1>3. SameWalk(Note64KB(o, k, n), o)
  BY DEF Note64KB, SameWalk, WalkFields
<1>4. SameWalk(RoundedUp(o), o)
  BY DEF RoundedUp, SameWalk, WalkFields
<1> QED
  BY <1>1, <1>2, <1>3, <1>4

(* Walkers that differ in what they collected, twice. *)
LEMMA SameWalkChain ==
    ASSUME NEW a, NEW b, NEW c, SameWalk(a, b), SameWalk(b, c)
    PROVE  SameWalk(a, c)
BY DEF SameWalk

(* Nodes that differ in no more than PS64 and whether they wait. *)
SameTree(new, old) ==
    /\ DOMAIN new = Slots
    /\ \A k \in Slots :
         /\ DOMAIN new[k] = NodeFields
         /\ new[k].present = old[k].present /\ new[k].pa = old[k].pa
         /\ new[k].bank = old[k].bank /\ new[k].owned = old[k].owned
         /\ new[k].size = old[k].size /\ new[k].flags = old[k].flags

(* What is done with a PS64 group leaves the walker where it is and the tree as it is. *)
LEMMA Ps64GroupSame ==
    ASSUME NEW o, DOMAIN o = WalkFields, NEW k \in Slots, NEW nodes, DOMAIN nodes = Slots,
           \A j \in Slots : DOMAIN nodes[j] = NodeFields
    PROVE  /\ SameWalk(Ps64Group(o, k, nodes).op, o)
           /\ SameTree(Ps64Group(o, k, nodes).nodes, nodes)
<1> DEFINE group == GroupSlots(o.tree, o.va)
           full == CompleteGroup(o, group, nodes)
           broken == BreakGroup(o, group, nodes)
           part == PartialGroup(o, k, nodes)
<1>1. \/ Ps64Group(o, k, nodes) = full
      \/ Ps64Group(o, k, nodes) = broken
      \/ Ps64Group(o, k, nodes) = part
  BY Zenon DEF Ps64Group
<1>2. ASSUME NEW ks, NEW new
      PROVE  SameWalk(EmitAll(o, ks, new), o)
  BY DEF EmitAll, SameWalk, WalkFields
<1>3. SameWalk(full.op, o) /\ SameTree(full.nodes, nodes)
  BY <1>2 DEF CompleteGroup, SameTree, NodeFields
<1>4. SameWalk(broken.op, o) /\ SameTree(broken.nodes, nodes)
  BY <1>2 DEF BreakGroup, SameTree, NodeFields
<1>5. SameWalk(part.op, o) /\ SameTree(part.nodes, nodes)
  BY EmitSame DEF PartialGroup, SameTree, NodeFields
<1> QED
  BY <1>1, <1>3, <1>4, <1>5

(* New nodes have all fields. *)
LEMMA NewNodes ==
    ASSUME NEW pa, NEW bank, NEW owned, NEW size, NEW flags
    PROVE  LET n == Node(pa, bank, owned, size, flags)
           IN  /\ DOMAIN n = NodeFields /\ n.present = TRUE /\ n.pa = pa /\ n.bank = bank
               /\ n.owned = owned /\ n.size = size /\ n.flags = flags
               /\ n.ps64 = FALSE /\ n.pending = TRUE
BY DEF Node, NodeFields

(* An empty slot. *)
LEMMA NoNodeIs ==
    /\ DOMAIN NoNode = NodeFields /\ NoNode.present = FALSE /\ NoNode.owned = FALSE
    /\ NoNode.size = 0 /\ NoNode.pending = FALSE /\ NoNode.ps64 = FALSE
BY DEF NoNode, NodeFields

(* The modes of walkMemory, and the requests they stand for. *)
LEMMA ModeIs ==
    ASSUME NEW o
    PROVE  /\ o.req.kind = "read" <=> Mode(o) = "Expect"
           /\ Mode(o) \in {"Expect", "Clone", "Reserve"}
           /\ Mode(o) = "Clone" <=> o.req.kind = "write" /\ o.tree > o.req.first
<1>1. CASE o.req.kind = "read"
  BY <1>1, Zenon DEF Mode
<1>2. CASE o.req.kind = "write" /\ o.tree > o.req.first
  BY <1>2, Zenon DEF Mode
<1>3. CASE o.req.kind # "read" /\ ~(o.req.kind = "write" /\ o.tree > o.req.first)
  BY <1>3, Zenon DEF Mode
<1> QED
  BY <1>1, <1>2, <1>3

(* A leaf of a walk, new or met. *)
LEMMA LeafMet ==
    ASSUME NEW o, NEW k, DOMAIN node[k] = NodeFields, node[k].present = TRUE, NEW size
    PROVE  LET n == LeafAfter(o, k, size)
           IN  /\ DOMAIN n = NodeFields /\ n.present = TRUE
               /\ n.size = node[k].size /\ n.owned = node[k].owned
BY DEF LeafAfter, Remap, NodeFields

(* A new leaf: a clone or at a given address without memory of its own, or in reserved
   memory. *)
LEMMA LeafCreated ==
    ASSUME NEW o, NEW size
    PROVE  LET bank == PageMemoryBank(o)
               n == NewLeaf(o, size)
           IN  /\ Mode(o) = "Clone" \/ HasPa(o) =>
                    \E pa, b : n = Node(pa, b, FALSE, size, o.req.flags)
               /\ Mode(o) # "Clone" /\ ~HasPa(o) =>
                    n = Node(Reserve(bank, size), bank, TRUE, size, o.req.flags)
<1>1. CASE Mode(o) = "Clone"
  BY <1>1, Zenon DEF NewLeaf
<1>2. CASE Mode(o) # "Clone" /\ HasPa(o)
  BY <1>2, Zenon DEF NewLeaf
<1>3. CASE Mode(o) # "Clone" /\ ~HasPa(o)
  BY <1>3, Zenon DEF NewLeaf
<1> QED
  BY <1>1, <1>2, <1>3

(* A leaf of a walk is there, with a size of its slot. *)
LEMMA LeafFacts ==
    ASSUME NEW o, NEW k, DOMAIN node[k] = NodeFields, node[k].present \in BOOLEAN, NEW size
    PROVE  LET n == LeafAfter(o, k, size)
           IN  /\ DOMAIN n = NodeFields /\ n.present = TRUE
               /\ n.size \in {node[k].size, size}
               /\ ~node[k].present => n.size = size
<1>1. CASE node[k].present
  BY <1>1, LeafMet
<1>2. CASE ~node[k].present
  <2> DEFINE n == NewLeaf(o, size)
  <2>1. LeafAfter(o, k, size) = n
    BY <1>2 DEF LeafAfter
  <2>2. \E pa, b, owned, flags : n = Node(pa, b, owned, size, flags)
    BY LeafCreated
  <2> HIDE DEF n
  <2>3. DOMAIN n = NodeFields /\ n.present = TRUE /\ n.size = size
    BY <2>2 DEF Node, NodeFields
  <2> QED
    BY <1>2, <2>1, <2>3
<1> QED
  BY <1>1, <1>2

(* The levels, as numbers. *)
LEMMA DepthIs ==
    /\ Depth("Pdp") = 3 /\ Depth("Pde") = 2 /\ Depth("Pte") = 1 /\ Depth("Free") = 1
    /\ Depth("Commit") = 0 /\ Depth("FreeCommit") = 0
<1>1. Depth("Pdp") = 3 /\ Depth("Pde") = 2 /\ Depth("Pte") = 1 /\ Depth("Free") = 1
  BY Zenon DEF Depth
<1>2. Depth("Commit") = 0 /\ Depth("FreeCommit") = 0
  BY Zenon DEF Depth
<1> QED
  BY <1>1, <1>2

(* Nearer to the end of the request on this tree, or on to the next tree. *)
Nearer(a, o) ==
    /\ a.req = o.req
    /\ \/ /\ a.tree = o.tree
          /\ a.left < o.left \/ (a.left = o.left /\ Depth(a.level) < Depth(o.level))
       \/ a.tree = o.tree + 1 /\ a.left = o.req.size /\ o.level \in {"Commit", "FreeCommit", "Free"}

(* What is nearer to the end has less before it. *)
LEMMA NearerRemains ==
    ASSUME user \in DOMAIN Users, NEW a, NEW o, WalkState(a), WalkState(o), Nearer(a, o),
           o.level \in {"Commit", "FreeCommit"} => a.tree = o.tree + 1
    PROVE  Remaining(a) < Remaining(o)
<1>1. /\ a.tree \in Nat /\ o.tree \in Nat /\ a.left \in Nat /\ o.left \in Nat /\ VaPages \in Nat
      /\ o.req.last \in Nat /\ a.tree <= o.req.last /\ o.req.size < VaPages + 1
      /\ o.req.size \in Nat
  <2>1. /\ o.req.last \in Nat /\ o.req.size < VaPages + 1 /\ o.req.size \in Nat
        /\ o.req.first \in Nat
    BY RequestFacts, UserFacts DEF WalkState
  <2> QED
    BY <2>1, UserFacts DEF WalkState, Nearer
<1>2. /\ Depth(a.level) \in 0 .. 3 /\ Depth(o.level) \in 0 .. 3
      /\ o.level \notin {"Commit", "FreeCommit"} => Depth(o.level) > 0
  BY DepthIs DEF WalkState
<1> DEFINE V == VaPages + 1
           d == o.req.last - o.tree
<1>3. CASE /\ a.tree = o.tree /\ a.req = o.req
           /\ a.left < o.left \/ (a.left = o.left /\ Depth(a.level) < Depth(o.level))
  <2>1. Depth(o.level) > 0
    BY <1>1, <1>2, <1>3
  <2>2. d * V \in Int
    BY <1>1
  <2>3. /\ Remaining(a) = (d * V + a.left) * 4 + Depth(a.level)
        /\ Remaining(o) = (d * V + o.left) * 4 + Depth(o.level)
    BY <1>3 DEF Remaining
  <2> HIDE DEF d, V
  <2> QED
    BY <1>1, <1>2, <1>3, <2>1, <2>2, <2>3
<1>4. CASE a.tree = o.tree + 1 /\ a.left = o.req.size /\ a.req = o.req
  <2>1. /\ Remaining(a) = ((d - 1) * V + o.req.size) * 4 + Depth(a.level)
        /\ Remaining(o) = (d * V + o.left) * 4 + Depth(o.level)
    BY <1>1, <1>4 DEF Remaining
  <2>2. d \in Nat /\ V \in Nat /\ o.req.size + 1 <= V
    BY <1>1, <1>4
  <2> HIDE DEF d, V
  <2>3. d * V \in Nat /\ (d - 1) * V = d * V - V
    BY <2>2
  <2> QED
    BY <1>1, <1>2, <2>1, <2>2, <2>3
<1> QED
  BY <1>3, <1>4 DEF Nearer

(* The step from one tree to the next, or to the end. *)
LEMMA NextTreeFacts ==
    ASSUME user \in DOMAIN Users, NEW o, WalkState(o)
    PROVE  LET a == NextTree(o)
           IN  \/ a = Idle /\ o.tree = o.req.last
               \/ /\ WalkState(a) /\ a.level \in {"Free", "Pdp"}
                  /\ a = NewWalk(o.req, o.tree + 1, o.infos)
                  /\ a.req = o.req /\ a.tree = o.tree + 1 /\ a.left = o.req.size
                  /\ o.tree < o.req.last
<1>1. CASE o.tree < o.req.last
  <2>1. o.req \in Requests /\ o.tree + 1 \in o.req.first .. o.req.last
    BY <1>1, RequestFacts DEF WalkState
  <2> QED
    BY <1>1, <2>1, NewWalkStarts DEF NextTree
<1>2. CASE ~(o.tree < o.req.last)
  BY <1>2, RequestFacts DEF NextTree, WalkState
<1> QED
  BY <1>1, <1>2

(* The address stays on its way down. *)
LEMMA LevelDown ==
    ASSUME NEW o, WalkState(o), o.level \in {"Pdp", "Pde"}, NEW e, SameWalk(e, o),
           NEW level \in {"Pde", "Pte"}, NEW a, a = [e EXCEPT !.level = level]
    PROVE  /\ WalkState(a) /\ a.level = level /\ a.va = o.va /\ a.left = o.left
           /\ a.req = o.req /\ a.tree = o.tree /\ a.pa = e.pa
           /\ a.writes = e.writes /\ a.pendingNodes = e.pendingNodes
           /\ a.pages64KB = e.pages64KB
           /\ a.infos = o.infos /\ a.pageNumber = o.pageNumber
<1>1. /\ DOMAIN a = WalkFields /\ a.level = level /\ a.va = o.va /\ a.left = o.left
      /\ a.req = o.req /\ a.tree = o.tree /\ a.pa = e.pa
      /\ a.writes = e.writes /\ a.pendingNodes = e.pendingNodes
      /\ a.pages64KB = e.pages64KB
      /\ a.infos = o.infos /\ a.pageNumber = o.pageNumber
  BY DEF SameWalk, WalkFields
<1>2. WalkState(a)
  BY <1>1 DEF WalkState
<1> QED
  BY <1>1, <1>2

(* A read that gives up goes to its end, where it is. *)
LEMMA GiveUpFacts ==
    ASSUME NEW o, WalkState(o), o.req.kind = "read"
    PROVE  LET a == GiveUp(o)
           IN  /\ WalkState(a) /\ a.level = "Commit" /\ a.va = o.va /\ a.left = o.left
               /\ a.req = o.req /\ a.tree = o.tree /\ a.infos = o.infos
               /\ a.writes = o.writes /\ a.pendingNodes = o.pendingNodes
               /\ a.pages64KB = o.pages64KB
<1> DEFINE a == GiveUp(o)
<1>1. /\ DOMAIN a = WalkFields /\ a.level = "Commit" /\ a.va = o.va /\ a.left = o.left
      /\ a.req = o.req /\ a.tree = o.tree /\ a.infos = o.infos
      /\ a.writes = o.writes /\ a.pendingNodes = o.pendingNodes
      /\ a.pages64KB = o.pages64KB
  BY DEF GiveUp, WalkState, WalkFields
<1> HIDE DEF a
<1>2. WalkState(a)
  BY <1>1 DEF WalkState
<1> QED
  BY <1>1, <1>2 DEF a

-----------------------------------------------------------------------------
(* Every step keeps the shape, and brings a request nearer to its end. *)

(* A step of a request: where the walker is then. *)
StepsTo(a) ==
    /\ WalkState(a)
    /\ Nearer(a, op) /\ (op.level \in {"Commit", "FreeCommit"} => a.tree = op.tree + 1)

(* The end of a turn of a walk is a step of the request. *)
LEMMA AdvanceStepsTo ==
    ASSUME user \in DOMAIN Users, WalkState(op), op.left > 0, op.req.kind # "free",
           op.level \in {"Pde", "Pte"}, NEW e, SameWalk(e, op), NEW s \in Nat \ {0}, NEW pa
    PROVE  StepsTo(Advance(e, s, pa)) /\ Advance(e, s, pa).level \in {"Commit", "Pdp"}
<1>1. WalkState(e) /\ e.left = op.left /\ e.req = op.req /\ e.tree = op.tree
  BY SameWalkState DEF SameWalk
<1> DEFINE a == Advance(e, s, pa)
<1>2. /\ WalkState(a) /\ a.level \in {"Commit", "Pdp"}
      /\ a.left = e.left - Stride(e, s) /\ a.req = e.req /\ a.tree = e.tree
  BY <1>1, AdvanceFacts
<1>3. Stride(e, s) \in Nat \ {0} /\ op.left \in Nat
  BY <1>1, StrideFacts DEF WalkState
<1> HIDE DEF a
<1>4. a.left < op.left /\ a.req = op.req /\ a.tree = op.tree
  BY <1>1, <1>2, <1>3
<1>5. StepsTo(a)
  BY <1>2, <1>4 DEF StepsTo, Nearer
<1> QED
  BY <1>2, <1>5 DEF a

(* The end of a turn of a free is a step of the request. *)
LEMMA AdvanceFreeStepsTo ==
    ASSUME user \in DOMAIN Users, WalkState(op), op.level = "Free", NEW e, SameWalk(e, op),
           NEW s \in Nat \ {0}
    PROVE  StepsTo(AdvanceFree(e, s)) /\ AdvanceFree(e, s).level \in {"FreeCommit", "Free"}
<1>1. /\ WalkState(e) /\ e.left = op.left /\ e.req = op.req /\ e.tree = op.tree
      /\ e.left > 0 /\ e.req.kind = "free"
  BY SameWalkState DEF SameWalk, WalkState
<1> DEFINE a == AdvanceFree(e, s)
<1>2. /\ WalkState(a) /\ a.level \in {"FreeCommit", "Free"}
      /\ a.left = e.left - Stride(e, s) /\ a.req = e.req /\ a.tree = e.tree
  BY <1>1, AdvanceFreeFacts
<1>3. Stride(e, s) \in Nat \ {0} /\ op.left \in Nat
  BY <1>1, StrideFacts DEF WalkState
<1> HIDE DEF a
<1>4. a.left < op.left /\ a.req = op.req /\ a.tree = op.tree
  BY <1>1, <1>2, <1>3
<1>5. StepsTo(a)
  BY <1>2, <1>4 DEF StepsTo, Nearer
<1> QED
  BY <1>2, <1>5 DEF a

(* A read that meets a missing node is a step of the request. *)
LEMMA MissingStep ==
    ASSUME Shape, UNCHANGED user, op # Idle, op.level \in {"Pdp", "Pde", "Pte"},
           NEW k, WalkMissing(k)
    PROVE  NodeShape' /\ StepsTo(op') /\ op'.level = "Commit"
<1>1. WalkState(op) /\ op.req.kind = "read" /\ op' = GiveUp(op) /\ node' = node
  BY ModeIs DEF Shape, WalkMissing
<1>u. UNCHANGED node
  BY <1>1
<1>2. /\ WalkState(op') /\ op'.level = "Commit" /\ op'.left = op.left
      /\ op'.req = op.req /\ op'.tree = op.tree
  BY <1>1, GiveUpFacts
<1>3. Depth(op'.level) < Depth(op.level)
  BY <1>2, DepthIs
<1>4. StepsTo(op')
  BY <1>1, <1>2, <1>3 DEF StepsTo, Nearer
<1>5. NodeShape'
  BY <1>u DEF NodeShape, Shape, PteSpan, Group, Slots, PdeSlots, VaPages
<1> QED
  BY <1>2, <1>4, <1>5

(* The user stays who it is, and so do the sizes of its product. *)
LEMMA SameUser ==
    ASSUME UNCHANGED user
    PROVE  /\ PteSpan' = PteSpan /\ Group' = Group /\ PdeSlots' = PdeSlots
           /\ VaPages' = VaPages /\ Slots' = Slots /\ Requests' = Requests
           /\ Maps' = Maps /\ Ps64' = Ps64 /\ CanPause' = CanPause /\ CanBlock' = CanBlock
           /\ CarefulUser' = CarefulUser /\ Supports2MB' = Supports2MB
           /\ \A o : WalkState(o)' <=> WalkState(o)
           /\ \A t, va : PdeAt(t, va)' = PdeAt(t, va) /\ PteAt(t, va)' = PteAt(t, va)
<1>1. /\ PteSpan' = PteSpan /\ Group' = Group /\ PdeSlots' = PdeSlots
      /\ Requests' = Requests /\ Ps64' = Ps64 /\ CanPause' = CanPause /\ CanBlock' = CanBlock
      /\ CarefulUser' = CarefulUser /\ Supports2MB' = Supports2MB
  BY DEF PteSpan, Group, PdeSlots, Requests, Ps64, CanPause, CanBlock, CarefulUser, Supports2MB
<1>2. VaPages' = VaPages
  BY <1>1 DEF VaPages
<1>3. Slots' = Slots
  BY <1>1, <1>2 DEF Slots
<1>4. Maps' = Maps
  BY <1>1 DEF Maps
<1>5. \A o : WalkState(o)' <=> WalkState(o)
  BY <1>1 DEF WalkState
<1>6. \A t, va : PdeAt(t, va)' = PdeAt(t, va) /\ PteAt(t, va)' = PteAt(t, va)
  BY <1>1 DEF PdeAt, PteAt
<1> QED
  BY <1>1, <1>2, <1>3, <1>4, <1>5, <1>6

(* The shape of the nodes after a step, in terms of the state before. *)
LEMMA NodeShapePrime ==
    ASSUME UNCHANGED user, DOMAIN node' = Slots,
           \A k \in Slots :
             /\ DOMAIN node'[k] = NodeFields
             /\ node'[k].present \in BOOLEAN
             /\ k[2] = "Pde" /\ node'[k].present => node'[k].size \in {1, Group, PteSpan}
    PROVE  NodeShape'
BY SameUser DEF NodeShape

(* A turn that ends leaves no table to be met. *)
LEMMA ShapeStep ==
    ASSUME Shape, UNCHANGED user, NodeShape', WalkState(op'), op'.level \notin {"Pde", "Pte"}
    PROVE  Shape'
<1>1. TablesMet(op)'
  BY DEF TablesMet
<1>2. user' \in DOMAIN Users /\ WalkState(op)'
  BY SameUser DEF Shape
<1> QED
  BY <1>1, <1>2 DEF Shape

(* The page size of a request is one there is. *)
LEMMA RequestedSizes ==
    ASSUME user \in DOMAIN Users, NEW o, WalkState(o)
    PROVE  /\ RequestedPageSize(o) \in {1, Group, PteSpan}
           /\ RequestedPageSize(o) = PteSpan => Supports2MB
<1>1. o.req.pageSize \in {1, Group, PteSpan}
  BY RequestFacts DEF WalkState
<1>2. Group # PteSpan /\ 1 # PteSpan
  BY UserFacts
<1> QED
  BY <1>1, <1>2 DEF RequestedPageSize

(* The table a walk visits is there afterwards, with its page size. *)
LEMMA VisitFacts ==
    ASSUME Shape, UNCHANGED user, op # Idle, op.level \in {"Pdp", "Pde"},
           NEW k \in Slots, NEW size, k[2] = "Pde" => size \in {1, Group, PteSpan},
           NEW level \in {"Pde", "Pte"}, VisitTable(k, size, level)
    PROVE  /\ NodeShape' /\ WalkState(op') /\ op'.level = level
           /\ op'.va = op.va /\ op'.left = op.left /\ op'.tree = op.tree /\ op'.req = op.req
           /\ op'.infos = op.infos /\ op'.pageNumber = op.pageNumber
           /\ node'[k] = IF node[k].present THEN node[k] ELSE NewTable(size)
           /\ \A l \in Slots \ {k} : node'[l] = node[l]
           /\ node'[k].present
           /\ DOMAIN NewTable(size) = NodeFields /\ NewTable(size).size = size
<1> DEFINE n == IF node[k].present THEN node[k] ELSE NewTable(size)
           e == EmitIfNeeded(op, k, n)
<1>1. node' = [node EXCEPT ![k] = n] /\ op' = [e EXCEPT !.level = level]
  BY DEF VisitTable
<1>2. /\ DOMAIN NewTable(size) = NodeFields /\ NewTable(size).present = TRUE
      /\ NewTable(size).size = size
  BY DEF NewTable, Node, NodeFields
<1>3. WalkState(op) /\ DOMAIN op = WalkFields
  BY DEF Shape, WalkState
<1>4. SameWalk(e, op)
  BY <1>3, EmitSame
<1> HIDE DEF e
<1>5. /\ WalkState(op') /\ op'.level = level /\ op'.va = op.va /\ op'.left = op.left
      /\ op'.req = op.req /\ op'.tree = op.tree
      /\ op'.infos = op.infos /\ op'.pageNumber = op.pageNumber
  <2>1. op' = [e EXCEPT !.level = level]
    BY <1>1
  <2>2. WalkState(op')
    BY <2>1, <1>3, <1>4, LevelDown
  <2>3. /\ op'.level = level /\ op'.va = op.va /\ op'.left = op.left
        /\ op'.req = op.req /\ op'.tree = op.tree
        /\ op'.infos = op.infos /\ op'.pageNumber = op.pageNumber
    BY <2>1, <1>4 DEF SameWalk, WalkFields
  <2> QED
    BY <2>2, <2>3
<1>6. DOMAIN node = Slots
  BY DEF Shape, NodeShape
<1>7. node'[k] = n /\ DOMAIN node' = Slots /\ \A l \in Slots \ {k} : node'[l] = node[l]
  BY <1>1, <1>6
<1>8. DOMAIN n = NodeFields /\ n.present = TRUE /\ (k[2] = "Pde" => n.size \in {1, Group, PteSpan})
  BY <1>2 DEF Shape, NodeShape
<1>9. NodeShape'
  <2>1. SUFFICES ASSUME NEW l \in Slots
                 PROVE  /\ DOMAIN node'[l] = NodeFields
                        /\ node'[l].present \in BOOLEAN
                        /\ l[2] = "Pde" /\ node'[l].present => node'[l].size \in {1, Group, PteSpan}
    BY <1>7, NodeShapePrime
  <2>2. CASE l = k
    BY <1>7, <1>8, <2>2
  <2>3. CASE l # k
    BY <1>7, <2>3 DEF Shape, NodeShape
  <2> QED
    BY <2>2, <2>3
<1> HIDE DEF n
<1> QED
  BY <1>2, <1>5, <1>7, <1>8, <1>9 DEF n

(* What holds of a walker at a level. *)
LEMMA AtLevel ==
    ASSUME Shape, op.level \in {"Pdp", "Pde", "Pte", "Commit", "Free", "FreeCommit"}
    PROVE  /\ op # Idle /\ WalkState(op) /\ TablesMet(op) /\ DOMAIN op = WalkFields
           /\ op.tree \in 1 .. Trees /\ user \in DOMAIN Users
           /\ op.level \in {"Pdp", "Pde", "Pte", "Free"} => op.left > 0 /\ op.va \in Pages
           /\ op.level \in {"Pdp", "Pde", "Pte", "Commit"} => op.req.kind # "free"
           /\ op.level \in {"Free", "FreeCommit"} => op.req.kind = "free"
<1>1. op # Idle
  BY DEF Idle
<1>2. WalkState(op) /\ TablesMet(op) /\ user \in DOMAIN Users
  BY <1>1 DEF Shape
<1>3. op.tree \in 1 .. Trees /\ (op.left > 0 => op.va \in Pages)
  BY <1>2, WalkerPage
<1>4. op.level \in {"Pdp", "Pde", "Pte", "Free"} => op.left > 0
  BY <1>2 DEF WalkState
<1>5. /\ op.level \in {"Pdp", "Pde", "Pte", "Commit"} => op.req.kind # "free"
      /\ op.level \in {"Free", "FreeCommit"} => op.req.kind = "free"
      /\ DOMAIN op = WalkFields
  BY <1>2 DEF WalkState
<1> QED
  BY <1>1, <1>2, <1>3, <1>4, <1>5

(* The descent from the PDP is a step of the request. *)
LEMMA WalkPdpSteps ==
    ASSUME Shape, UNCHANGED user, WalkPdp
    PROVE  Shape' /\ StepsTo(op')
<1>1. op.level = "Pdp"
  BY DEF WalkPdp, Walking
<1>2. /\ op # Idle /\ WalkState(op) /\ op.tree \in 1 .. Trees /\ user \in DOMAIN Users
      /\ op.left > 0 /\ op.va \in Pages /\ op.req.kind # "free"
  BY <1>1, AtLevel
<1> DEFINE k == PdeAt(op.tree, op.va)
<1>3. k \in Slots /\ k[2] = "Pdp"
  BY <1>2, SlotsOfPage
<1>4. CASE WalkMissing(k)
  <2>1. NodeShape' /\ StepsTo(op') /\ op'.level = "Commit"
    BY <1>1, <1>2, <1>4, MissingStep
  <2> QED
    BY <2>1, ShapeStep DEF StepsTo
<1>5. CASE VisitTable(k, 0, "Pde")
  <2> HIDE DEF k
  <2>1. /\ NodeShape' /\ WalkState(op') /\ op'.level = "Pde"
        /\ op'.va = op.va /\ op'.left = op.left /\ op'.tree = op.tree /\ op'.req = op.req
        /\ node'[k].present
    BY <1>1, <1>2, <1>3, <1>5, VisitFacts
  <2>2. StepsTo(op')
    BY <1>1, <2>1, DepthIs DEF StepsTo, Nearer
  <2>3. TablesMet(op)'
    BY <2>1, SameUser DEF TablesMet, k
  <2>4. user' \in DOMAIN Users /\ WalkState(op)'
    BY <1>2, <2>1, SameUser
  <2> QED
    BY <2>1, <2>2, <2>3, <2>4 DEF Shape
<1> QED
  BY <1>4, <1>5 DEF WalkPdp

(* The descent from the PDE is a step of the request. *)
LEMMA WalkPdeToPteSteps ==
    ASSUME Shape, UNCHANGED user, WalkPdeToPte
    PROVE  Shape' /\ StepsTo(op')
<1>1. op.level = "Pde"
  BY DEF WalkPdeToPte, Walking
<1>2. /\ op # Idle /\ WalkState(op) /\ op.tree \in 1 .. Trees /\ user \in DOMAIN Users
      /\ op.left > 0 /\ op.va \in Pages /\ op.req.kind # "free" /\ TablesMet(op)
  BY <1>1, AtLevel
<1> DEFINE k == PteAt(op.tree, op.va)
           d == PdeAt(op.tree, op.va)
           p == RequestedPageSize(op)
<1>3. k \in Slots /\ k[2] = "Pde" /\ d \in Slots /\ d[2] = "Pdp"
  BY <1>2, SlotsOfPage
<1>4. CASE WalkMissing(k)
  <2>1. NodeShape' /\ StepsTo(op') /\ op'.level = "Commit"
    BY <1>1, <1>2, <1>4, MissingStep
  <2> QED
    BY <2>1, ShapeStep DEF StepsTo
<1>5. CASE /\ IF node[k].present THEN ~Is2MB(k, node[k]) ELSE p # PteSpan
           /\ VisitTable(k, p, "Pte")
  <2>1. p \in {1, Group, PteSpan}
    BY <1>2, RequestedSizes
  <2> HIDE DEF k, p, d
  <2>2. /\ NodeShape' /\ WalkState(op') /\ op'.level = "Pte"
        /\ op'.va = op.va /\ op'.left = op.left /\ op'.tree = op.tree /\ op'.req = op.req
        /\ node'[k].present /\ node'[k] = (IF node[k].present THEN node[k] ELSE NewTable(p))
        /\ \A l \in Slots \ {k} : node'[l] = node[l]
        /\ NewTable(p).size = p
    BY <1>1, <1>2, <1>3, <1>5, <2>1, VisitFacts
  <2>3. StepsTo(op')
    BY <1>1, <2>2, DepthIs DEF StepsTo, Nearer
  <2>4. node'[k].size \in {1, Group}
    <3>1. CASE node[k].present
      BY <1>3, <1>5, <2>2, <3>1 DEF Is2MB, Shape, NodeShape
    <3>2. CASE ~node[k].present
      BY <1>5, <2>1, <2>2, <3>2
    <3> QED
      BY <3>1, <3>2
  <2>5. node'[d].present
    <3>1. d # k
      BY <1>3
    <3>2. node[d].present
      BY <1>1, <1>2 DEF TablesMet, d
    <3> QED
      BY <1>3, <2>2, <3>1, <3>2
  <2>6. TablesMet(op)'
    BY <2>2, <2>4, <2>5, SameUser DEF TablesMet, Pte, k, d
  <2>7. user' \in DOMAIN Users /\ WalkState(op)'
    BY <1>2, <2>2, SameUser
  <2> QED
    BY <2>2, <2>3, <2>6, <2>7 DEF Shape
<1> QED
  BY <1>4, <1>5 DEF WalkPdeToPte

(* A turn that ends at a 2MB page that is there is a step of the request. *)
LEMMA WalkExisting2MBSteps ==
    ASSUME Shape, UNCHANGED user, WalkExisting2MB
    PROVE  Shape' /\ StepsTo(op')
<1>1. op.level = "Pde"
  BY DEF WalkExisting2MB, Walking
<1>2. /\ op # Idle /\ WalkState(op) /\ op.tree \in 1 .. Trees /\ user \in DOMAIN Users
      /\ op.left > 0 /\ op.va \in Pages /\ op.req.kind # "free" /\ DOMAIN op = WalkFields
  BY <1>1, AtLevel
<1> DEFINE k == PteAt(op.tree, op.va)
<1>3. op' = Advance(op, PteSpan, node[k].pa) /\ UNCHANGED node
  BY DEF WalkExisting2MB
<1>4. SameWalk(op, op) /\ PteSpan \in Nat \ {0}
  BY <1>2, UserFacts DEF SameWalk
<1>5. StepsTo(op') /\ op'.level \in {"Commit", "Pdp"}
  BY <1>1, <1>2, <1>3, <1>4, AdvanceStepsTo
<1>6. NodeShape'
  BY <1>3, SameUser DEF Shape, NodeShape
<1> QED
  BY <1>5, <1>6, ShapeStep DEF StepsTo

(* A turn that creates or remaps a 2MB page is a step of the request. *)
LEMMA Walk2MBLeafSteps ==
    ASSUME Shape, UNCHANGED user, Walk2MBLeaf
    PROVE  Shape' /\ StepsTo(op')
<1>1. op.level = "Pde"
  BY DEF Walk2MBLeaf, Walking
<1>2. /\ op # Idle /\ WalkState(op) /\ op.tree \in 1 .. Trees /\ user \in DOMAIN Users
      /\ op.left > 0 /\ op.va \in Pages /\ op.req.kind # "free" /\ DOMAIN op = WalkFields
  BY <1>1, AtLevel
<1> DEFINE k == PteAt(op.tree, op.va)
           o == RoundedUp(op)
           n == LeafAfter(o, k, PteSpan)
           e == EmitIfNeeded(o, k, n)
<1>3. k \in Slots /\ k[2] = "Pde"
  BY <1>2, SlotsOfPage
<1>4. CASE WalkMissing(k)
  <2>1. NodeShape' /\ StepsTo(op') /\ op'.level = "Commit"
    BY <1>1, <1>2, <1>4, MissingStep
  <2> QED
    BY <2>1, ShapeStep DEF StepsTo
<1>5. CASE ~WalkMissing(k)
  <2>1. /\ node' = [node EXCEPT ![k] = n]
        /\ op' = Advance(e, PteSpan, n.pa)
    BY <1>5 DEF Walk2MBLeaf
  <2> HIDE DEF k
  <2>2. /\ DOMAIN node[k] = NodeFields /\ node[k].present \in BOOLEAN /\ DOMAIN node = Slots
        /\ node[k].present => node[k].size \in {1, Group, PteSpan}
    BY <1>3 DEF Shape, NodeShape
  <2>3. SameWalk(o, op)
    BY <1>2, EmitSame
  <2> HIDE DEF o
  <2>4. /\ DOMAIN n = NodeFields /\ n.present = TRUE
        /\ n.size \in {node[k].size, PteSpan} /\ (~node[k].present => n.size = PteSpan)
    BY <2>2, LeafFacts
  <2> HIDE DEF n
  <2>5. SameWalk(e, o)
    <3>1. DOMAIN o = WalkFields
      BY <2>3 DEF SameWalk
    <3> QED
      BY <3>1, EmitSame
  <2> HIDE DEF e
  <2>6. SameWalk(e, op)
    BY <2>3, <2>5, SameWalkChain
  <2>7. StepsTo(op') /\ op'.level \in {"Commit", "Pdp"}
    BY <1>1, <1>2, <2>1, <2>6, UserFacts, AdvanceStepsTo
  <2>8. node'[k] = n /\ DOMAIN node' = Slots /\ \A l \in Slots \ {k} : node'[l] = node[l]
    BY <1>3, <2>1, <2>2
  <2>9. NodeShape'
    <3>1. SUFFICES ASSUME NEW l \in Slots
                   PROVE  /\ DOMAIN node'[l] = NodeFields
                          /\ node'[l].present \in BOOLEAN
                          /\ l[2] = "Pde" /\ node'[l].present => node'[l].size \in {1, Group, PteSpan}
      BY <2>8, NodeShapePrime
    <3>2. CASE l = k
      BY <2>2, <2>4, <2>8, <3>2
    <3>3. CASE l # k
      BY <2>8, <3>3 DEF Shape, NodeShape
    <3> QED
      BY <3>2, <3>3
  <2> QED
    BY <2>7, <2>9, ShapeStep DEF StepsTo
<1> QED
  BY <1>4, <1>5

(* The page at the lowest level lies in a table that is there. *)
LEMMA AtPte ==
    ASSUME Shape, op.level = "Pte"
    PROVE  /\ PageSlot(op) \in Slots /\ PageSlot(op)[1] = op.tree /\ PageSlot(op)[2] = "Pte"
           /\ PteAt(op.tree, op.va) \in Slots
           /\ Pte(op).present /\ Pte(op).size \in {1, Group} /\ Pte(op).size \in Nat \ {0}
           /\ node[PdeAt(op.tree, op.va)].present
<1>1. /\ op.tree \in 1 .. Trees /\ op.va \in Pages /\ TablesMet(op) /\ user \in DOMAIN Users
  BY AtLevel
<1>2. Pte(op).present /\ Pte(op).size \in {1, Group} /\ node[PdeAt(op.tree, op.va)].present
  BY <1>1 DEF TablesMet
<1>3. Pte(op).size \in Nat \ {0}
  BY <1>1, <1>2, UserFacts
<1> QED
  BY <1>1, <1>2, <1>3, SlotsOfPage DEF PageSlot

(* A turn at the lowest level is a step of the request. *)
LEMMA WalkPteSteps ==
    ASSUME Shape, UNCHANGED user, WalkPte
    PROVE  Shape' /\ StepsTo(op')
<1>1. op.level = "Pte"
  BY DEF WalkPte, Walking
<1>2. /\ op # Idle /\ WalkState(op) /\ user \in DOMAIN Users
      /\ op.left > 0 /\ op.req.kind # "free" /\ DOMAIN op = WalkFields
  BY <1>1, AtLevel
<1> DEFINE k == PageSlot(op)
           s == Pte(op).size
           n == LeafAfter(op, k, s)
           w == Note64KB(op, k, n)
           e == EmitIfNeeded(w, k, n)
<1>3. k \in Slots /\ k[2] = "Pte" /\ s \in Nat \ {0}
  BY <1>1, AtPte
<1>4. CASE WalkMissing(k)
  <2>1. NodeShape' /\ StepsTo(op') /\ op'.level = "Commit"
    BY <1>1, <1>2, <1>4, MissingStep
  <2> QED
    BY <2>1, ShapeStep DEF StepsTo
<1>5. CASE ~WalkMissing(k)
  <2>1. /\ node' = [node EXCEPT ![k] = n]
        /\ op' = Advance(e, s, n.pa)
    BY <1>5 DEF WalkPte
  <2> HIDE DEF k, s
  <2>2. DOMAIN node[k] = NodeFields /\ node[k].present \in BOOLEAN /\ DOMAIN node = Slots
    BY <1>3 DEF Shape, NodeShape
  <2>3. DOMAIN n = NodeFields /\ n.present = TRUE
    BY <2>2, LeafFacts
  <2> HIDE DEF n
  <2>4. SameWalk(w, op)
    BY <1>2, EmitSame
  <2> HIDE DEF w
  <2>5. SameWalk(e, w)
    <3>1. DOMAIN w = WalkFields
      BY <2>4 DEF SameWalk
    <3> QED
      BY <3>1, EmitSame
  <2> HIDE DEF e
  <2>6. SameWalk(e, op)
    BY <2>4, <2>5, SameWalkChain
  <2>7. StepsTo(op') /\ op'.level \in {"Commit", "Pdp"}
    BY <1>1, <1>2, <1>3, <2>1, <2>6, AdvanceStepsTo
  <2>8. node'[k] = n /\ DOMAIN node' = Slots /\ \A l \in Slots \ {k} : node'[l] = node[l]
    BY <1>3, <2>1, <2>2
  <2>9. NodeShape'
    <3>1. SUFFICES ASSUME NEW l \in Slots
                   PROVE  /\ DOMAIN node'[l] = NodeFields
                          /\ node'[l].present \in BOOLEAN
                          /\ l[2] = "Pde" /\ node'[l].present => node'[l].size \in {1, Group, PteSpan}
      BY <2>8, NodeShapePrime
    <3>2. CASE l = k
      BY <1>3, <2>3, <2>8, <3>2
    <3>3. CASE l # k
      BY <2>8, <3>3 DEF Shape, NodeShape
    <3> QED
      BY <3>2, <3>3
  <2> QED
    BY <2>7, <2>9, ShapeStep DEF StepsTo
<1> QED
  BY <1>4, <1>5

(* And so it is with PS64. *)
LEMMA WalkPtePs64Steps ==
    ASSUME Shape, UNCHANGED user, WalkPtePs64
    PROVE  Shape' /\ StepsTo(op')
<1>1. op.level = "Pte"
  BY DEF WalkPtePs64, Walking
<1>2. /\ op # Idle /\ WalkState(op) /\ user \in DOMAIN Users
      /\ op.left > 0 /\ op.req.kind # "free" /\ DOMAIN op = WalkFields
  BY <1>1, AtLevel
<1> DEFINE k == PageSlot(op)
           n == LeafAfter(op, k, 1)
           nodes == [node EXCEPT ![k] = n]
           r == Ps64Group(op, k, nodes)
<1>3. k \in Slots /\ k[2] = "Pte"
  BY <1>1, AtPte
<1>4. /\ node' = r.nodes
      /\ op' = Advance(r.op, 1, n.pa)
  BY DEF WalkPtePs64
<1> HIDE DEF k
<1>5. DOMAIN node[k] = NodeFields /\ node[k].present \in BOOLEAN /\ DOMAIN node = Slots
  BY <1>3 DEF Shape, NodeShape
<1>6. DOMAIN n = NodeFields /\ n.present = TRUE
  BY <1>5, LeafFacts
<1> HIDE DEF n
<1>7. nodes[k] = n /\ DOMAIN nodes = Slots /\ \A l \in Slots \ {k} : nodes[l] = node[l]
  BY <1>3, <1>5
<1> HIDE DEF nodes
<1>8. \A l \in Slots : DOMAIN nodes[l] = NodeFields
  BY <1>6, <1>7 DEF Shape, NodeShape
<1>9. SameWalk(r.op, op) /\ SameTree(r.nodes, nodes)
  BY <1>2, <1>3, <1>7, <1>8, Ps64GroupSame
<1> HIDE DEF r
<1>10. StepsTo(op') /\ op'.level \in {"Commit", "Pdp"}
  BY <1>1, <1>2, <1>4, <1>9, AdvanceStepsTo
<1>11. NodeShape'
  <2>1. DOMAIN node' = Slots
    BY <1>4, <1>9 DEF SameTree
  <2>2. SUFFICES ASSUME NEW l \in Slots
                 PROVE  /\ DOMAIN node'[l] = NodeFields
                        /\ node'[l].present \in BOOLEAN
                        /\ l[2] = "Pde" /\ node'[l].present => node'[l].size \in {1, Group, PteSpan}
    BY <2>1, NodeShapePrime
  <2>3. /\ DOMAIN node'[l] = NodeFields /\ node'[l].present = nodes[l].present
        /\ node'[l].size = nodes[l].size
    BY <1>4, <1>9 DEF SameTree
  <2>4. CASE l = k
    BY <1>3, <1>6, <1>7, <2>3, <2>4
  <2>5. CASE l # k
    BY <1>7, <2>3, <2>5 DEF Shape, NodeShape
  <2> QED
    BY <2>4, <2>5
<1> QED
  BY <1>10, <1>11, ShapeStep DEF StepsTo

(* A walk, or a free, that goes on to the next tree. *)
LEMMA NextTreeSteps ==
    ASSUME Shape, UNCHANGED user, op.level \in {"Commit", "Free", "FreeCommit"}, NodeShape',
           op' = NextTree(op)
    PROVE  Shape' /\ (op' = Idle \/ StepsTo(op'))
<1>1. WalkState(op) /\ user \in DOMAIN Users
  BY AtLevel
<1>2. \/ op' = Idle
      \/ /\ WalkState(op') /\ op'.level \in {"Free", "Pdp"}
         /\ op'.req = op.req /\ op'.tree = op.tree + 1 /\ op'.left = op.req.size
  BY <1>1, NextTreeFacts
<1>3. CASE op' = Idle
  BY <1>1, <1>3 DEF Shape
<1>4. CASE op' # Idle
  <2>1. StepsTo(op')
    BY <1>2, <1>4 DEF StepsTo, Nearer
  <2> QED
    BY <1>2, <1>4, <2>1, ShapeStep
<1> QED
  BY <1>3, <1>4

(* The end of a request on one tree is a step to the next, or its end. *)
LEMMA CommitSteps ==
    ASSUME Shape, UNCHANGED user, Commit \/ EndRead \/ FreeReturn \/ FreeCommit
    PROVE  Shape' /\ (op' = Idle \/ StepsTo(op'))
<1>1. op.level \in {"Commit", "Free", "FreeCommit"} /\ op' = NextTree(op)
  BY DEF Commit, EndRead, FreeReturn, FreeCommit, Walking
<1>2. NodeShape'
  <2>1. CASE Commit
    <3>1. node' = [k \in Slots |-> IF FullyCommitted /\ k \in op.pendingNodes
                                   THEN [node[k] EXCEPT !.pending = FALSE]
                                   ELSE node[k]]
      BY <2>1 DEF Commit
    <3>2. ASSUME NEW k \in Slots
          PROVE  /\ DOMAIN node'[k] = NodeFields
                 /\ node'[k].present \in BOOLEAN
                 /\ k[2] = "Pde" /\ node'[k].present => node'[k].size \in {1, Group, PteSpan}
      BY <3>1 DEF Shape, NodeShape, NodeFields
    <3>3. DOMAIN node' = Slots
      BY <3>1
    <3> QED
      BY <3>2, <3>3, NodeShapePrime
  <2>2. CASE EndRead \/ FreeReturn \/ FreeCommit
    <3>1. UNCHANGED node
      BY <2>2 DEF EndRead, FreeReturn, FreeCommit
    <3> QED
      BY <3>1, SameUser DEF Shape, NodeShape
  <2> QED
    BY <2>1, <2>2
<1> QED
  BY <1>1, <1>2, NextTreeSteps

(* What freeing a page does to the nodes. *)
LEMMA NodesFreed ==
    ASSUME Shape, UNCHANGED user, NEW gone, NEW lose,
           node' = [k \in Slots |-> IF k \in gone THEN NoNode
                                    ELSE IF k \in lose THEN [node[k] EXCEPT !.ps64 = FALSE]
                                    ELSE node[k]]
    PROVE  NodeShape'
<1>1. ASSUME NEW k \in Slots
      PROVE  /\ DOMAIN node'[k] = NodeFields
             /\ node'[k].present \in BOOLEAN
             /\ k[2] = "Pde" /\ node'[k].present => node'[k].size \in {1, Group, PteSpan}
  <2>1. CASE k \in gone
    BY <2>1, NoNodeIs
  <2>2. CASE k \notin gone
    BY <2>2 DEF Shape, NodeShape, NodeFields
  <2> QED
    BY <2>1, <2>2
<1>2. DOMAIN node' = Slots
  OBVIOUS
<1> QED
  BY <1>1, <1>2, NodeShapePrime

(* A walker is where it is whatever it collected. *)
LEMMA WithWrites ==
    ASSUME NEW o, DOMAIN o = WalkFields, NEW w
    PROVE  SameWalk([o EXCEPT !.writes = w], o) /\ [o EXCEPT !.writes = w].writes = w
BY DEF SameWalk, WalkFields

(* Freeing a 2MB page is a step of the request. *)
LEMMA Free2MBSteps ==
    ASSUME Shape, UNCHANGED user, Free2MB
    PROVE  Shape' /\ StepsTo(op')
<1>1. op.level = "Free"
  BY DEF Free2MB, Walking
<1>2. WalkState(op) /\ DOMAIN op = WalkFields /\ user \in DOMAIN Users
  BY <1>1, AtLevel
<1>3. PICK gone, w : /\ node' = [k \in Slots |-> IF k \in gone THEN NoNode ELSE node[k]]
                     /\ op' = AdvanceFree([op EXCEPT !.writes = w], PteSpan)
  BY DEF Free2MB
<1>4. StepsTo(op') /\ op'.level \in {"FreeCommit", "Free"}
  BY <1>1, <1>2, <1>3, WithWrites, UserFacts, AdvanceFreeStepsTo
<1>5. NodeShape'
  <2>1. node' = [k \in Slots |-> IF k \in gone THEN NoNode
                                 ELSE IF k \in {} THEN [node[k] EXCEPT !.ps64 = FALSE]
                                 ELSE node[k]]
    BY <1>3
  <2> QED
    BY <2>1, NodesFreed
<1> QED
  BY <1>4, <1>5, ShapeStep DEF StepsTo

(* Freeing a small page is a step of the request. *)
LEMMA FreePageSteps ==
    ASSUME Shape, UNCHANGED user, FreePage
    PROVE  Shape' /\ StepsTo(op')
<1>1. op.level = "Free"
  BY DEF FreePage, Walking
<1>2. /\ WalkState(op) /\ DOMAIN op = WalkFields /\ user \in DOMAIN Users
      /\ op.tree \in 1 .. Trees /\ op.va \in Pages
  BY <1>1, AtLevel
<1> DEFINE slot == PteAt(op.tree, op.va)
           pte == node[slot]
           page == PageSlot(op)
           lose == IF node[page].ps64 THEN LosePs64(op, page) ELSE {}
           last == \A i \in 0 .. VaPages - 1 :
                      LET k == <<op.tree, "Pte", i>>
                      IN  i \div PteSpan = slot[3] /\ k # page => ~node[k].present
           gone == (IF node[page].present THEN {page} ELSE {}) \cup (IF last THEN {slot} ELSE {})
           new == [k \in Slots |-> IF k \in gone THEN NoNode
                                   ELSE IF k \in lose THEN [node[k] EXCEPT !.ps64 = FALSE]
                                   ELSE node[k]]
           w == Overlay(Overlay(op.writes, Zeros(gone)), Entries(lose, new))
<1>3. /\ node' = new /\ op' = AdvanceFree([op EXCEPT !.writes = w], pte.size)
      /\ pte.present /\ ~Is2MB(slot, pte)
  BY Zenon DEF FreePage
<1> HIDE DEF page, lose, gone, w
<1>4. slot \in Slots /\ slot[2] = "Pde"
  BY <1>2, SlotsOfPage
<1>5. pte.size \in Nat \ {0}
  BY <1>2, <1>3, <1>4, UserFacts DEF Shape, NodeShape, Is2MB
<1> HIDE DEF slot, pte
<1>6. StepsTo(op') /\ op'.level \in {"FreeCommit", "Free"}
  BY <1>1, <1>2, <1>3, <1>5, WithWrites, AdvanceFreeStepsTo
<1>7. NodeShape'
  BY <1>3, NodesFreed
<1> QED
  BY <1>6, <1>7, ShapeStep DEF StepsTo

(* A request that begins. *)
LEMMA BeginShape ==
    ASSUME Shape, UNCHANGED user, NEW r \in Requests, Begin(r)
    PROVE  Shape'
<1>1. op' = NewWalk(r, r.first, << >>) /\ UNCHANGED node /\ user \in DOMAIN Users
  BY DEF Begin, Shape
<1>2. r.first \in r.first .. r.last
  BY <1>1, RequestFacts
<1>3. WalkState(op') /\ op'.level \in {"Free", "Pdp"}
  BY <1>1, <1>2, NewWalkStarts
<1>4. NodeShape'
  BY <1>1, SameUser DEF Shape, NodeShape
<1> QED
  BY <1>3, <1>4, ShapeStep

(* A step that leaves the walker and the nodes alone. *)
LEMMA StutterShape ==
    ASSUME Shape, UNCHANGED <<node, op, user>>
    PROVE  Shape'
<1>1. NodeShape'
  BY SameUser DEF Shape, NodeShape
<1>2. CASE op = Idle
  BY <1>1, <1>2 DEF Shape
<1>3. CASE op # Idle
  <2>1. WalkState(op)' /\ TablesMet(op)'
    BY <1>3, SameUser DEF Shape, TablesMet, Pte
  <2> QED
    BY <1>1, <2>1 DEF Shape
<1> QED
  BY <1>2, <1>3

(* The steps of a request, whoever makes it. *)
LEMMA WorkSteps ==
    ASSUME Shape, UNCHANGED user, Work
    PROVE  Shape' /\ (op' = Idle \/ StepsTo(op'))
BY WalkPdpSteps, WalkPdeToPteSteps, WalkExisting2MBSteps, Walk2MBLeafSteps, WalkPteSteps,
   WalkPtePs64Steps, CommitSteps, Free2MBSteps, FreePageSteps DEF Work, Walk, Free

(* Every step keeps the shape. *)
LEMMA NextKeepsShape ==
    ASSUME Shape, [Next]_vars
    PROVE  Shape'
<1>1. CASE Next
  <2>1. UNCHANGED user
    BY <1>1 DEF Next
  <2>2. CASE Work
    BY <2>1, <2>2, WorkSteps
  <2>3. CASE \E r \in Requests : Begin(r)
    BY <2>1, <2>3, BeginShape
  <2>4. CASE Finished \/ \E onoff \in BOOLEAN : Pause(onoff) \/ BlockMemWritesViaTbx(onoff)
    <3>1. UNCHANGED <<node, op, user>>
      BY <2>1, <2>4 DEF Finished, Pause, BlockMemWritesViaTbx
    <3> QED
      BY <3>1, StutterShape
  <2> QED
    BY <1>1, <2>2, <2>3, <2>4 DEF Next
<1>2. CASE UNCHANGED vars
  <2>1. UNCHANGED <<node, op, user>>
    BY <1>2 DEF vars
  <2> QED
    BY <2>1, StutterShape
<1> QED
  BY <1>1, <1>2

(* The initial state has the shape. *)
LEMMA InitShape ==
    ASSUME Init
    PROVE  Shape
<1>1. NodeShape
  BY NoNodeIs DEF Init, NodeShape
<1> QED
  BY <1>1 DEF Init, Shape

(* Every state has the shape. *)
LEMMA ShapeAlways == Spec => []Shape
<1> QED
  BY InitShape, NextKeepsShape, PTL DEF Spec

(* A step from one place of a request to another brings it nearer to its end. *)
LEMMA StepNearer ==
    ASSUME Shape, Next, op # Idle, op' # Idle
    PROVE  op' = op \/ Remaining(op') < Remaining(op)
<1>1. UNCHANGED user /\ user \in DOMAIN Users /\ WalkState(op)
  BY DEF Next, Shape
<1>2. CASE Work
  <2>1. StepsTo(op')
    BY <1>1, <1>2, WorkSteps
  <2> QED
    BY <1>1, <2>1, NearerRemains DEF StepsTo
<1>3. CASE ~Work
  BY <1>3 DEF Next, Finished, Begin, Pause, BlockMemWritesViaTbx
<1> QED
  BY <1>2, <1>3

(* Every step of a request brings it nearer to its end. *)
THEOREM RequestsStepForward == Spec => StepsForward
<1>1. Shape /\ [Next]_vars => [op # Idle /\ op' # Idle => Remaining(op') < Remaining(op)]_op
  <2>1. SUFFICES ASSUME Shape, [Next]_vars, op' # op, op # Idle, op' # Idle
                 PROVE  Remaining(op') < Remaining(op)
    OBVIOUS
  <2>2. Next
    BY <2>1 DEF vars
  <2> QED
    BY <2>1, <2>2, StepNearer
<1> QED
  BY <1>1, ShapeAlways, PTL DEF Spec, StepsForward

-----------------------------------------------------------------------------
(* The tree that the nodes form *)

(* The slot of the table a slot lies in. *)
Parent(k) ==
    IF k[2] = "Pde" THEN <<k[1], "Pdp", k[3] \div PdeSlots>> ELSE <<k[1], "Pde", k[3] \div PteSpan>>

(* A quotient of a quotient. *)
LEMMA QuotientTwice ==
    ASSUME NEW a \in Nat \ {0}, NEW b \in Nat \ {0}, NEW x \in Nat, a * b \in Nat \ {0}
    PROVE  x \div (a * b) = (x \div b) \div a
<1> DEFINE q == x \div b
           Q == q \div a
<1>1. q \in Nat /\ x = b * q + (x % b) /\ x % b \in 0 .. b - 1
  BY Quotient, Offset
<1>2. Q \in Nat /\ q = a * Q + (q % a) /\ q % a \in 0 .. a - 1
  BY <1>1, Quotient, Offset
<1> DEFINE r == q % a
           s == x % b
           k == b * r + s
<1> HIDE DEF q, Q, r, s
<1>3. b * (a * Q + r) = (a * b) * Q + b * r
  BY <1>2 DEF r
<1>4. x = (a * b) * Q + k
  BY <1>1, <1>2, <1>3 DEF r, s
<1>5. k \in 0 .. (a * b) - 1
  <2>1. b * r \in Nat /\ b * r <= b * (a - 1) /\ b * (a - 1) = a * b - b
    BY <1>2 DEF r
  <2> QED
    BY <1>1, <2>1 DEF s
<1> HIDE DEF k
<1>6. ((a * b) * Q + k) \div (a * b) = Q
  BY <1>2, <1>5, QuotientIs
<1> QED
  BY <1>4, <1>6 DEF Q, q

(* A slot is its tree, level and place. *)
LEMMA SlotIs ==
    ASSUME NEW k \in Slots
    PROVE  /\ k = <<k[1], k[2], k[3]>> /\ k[1] \in 1 .. Trees /\ k[2] \in {"Pdp", "Pde", "Pte"}
           /\ k[2] = "Pdp" => k[3] \in 0 .. PdpSlots - 1
           /\ k[2] = "Pde" => k[3] \in 0 .. PdpSlots * PdeSlots - 1
           /\ k[2] = "Pte" => k[3] \in 0 .. VaPages - 1
BY DEF Slots

(* The table of a slot is in a slot. *)
LEMMA ParentIsSlot ==
    ASSUME user \in DOMAIN Users, NEW k \in Slots
    PROVE  /\ k[2] = "Pde" => Parent(k) \in Slots /\ Parent(k)[2] = "Pdp"
           /\ k[2] = "Pte" => Parent(k) \in Slots /\ Parent(k)[2] = "Pde"
           /\ k[2] # "Pdp" => Parent(k) # k /\ Parent(k)[1] = k[1]
<1>1. CASE k[2] = "Pde"
  <2>1. k[3] \in Nat /\ k[3] < PdpSlots * PdeSlots
    BY <1>1, SlotIs, UserFacts
  <2>2. k[3] \div PdeSlots \in Nat /\ k[3] \div PdeSlots < PdpSlots
    BY <2>1, UserFacts, Quotient
  <2>3. k[3] \div PdeSlots \in 0 .. PdpSlots - 1
    BY <2>2, UserFacts
  <2> QED
    BY <1>1, <2>3, SlotIs DEF Parent, Slots
<1>2. CASE k[2] = "Pte"
  <2>1. k[3] \in Nat /\ k[3] < (PdpSlots * PdeSlots) * PteSpan
    BY <1>2, SlotIs, UserFacts
  <2>2. k[3] \div PteSpan \in Nat /\ k[3] \div PteSpan < PdpSlots * PdeSlots
    BY <2>1, UserFacts, Quotient
  <2>3. k[3] \div PteSpan \in 0 .. PdpSlots * PdeSlots - 1
    BY <2>2, UserFacts
  <2> QED
    BY <1>2, <2>3, SlotIs DEF Parent, Slots
<1> QED
  BY <1>1, <1>2, SlotIs

(* A page lies in one table: its size divides what a table covers. *)
LEMMA PageInSpan ==
    ASSUME NEW s \in Nat \ {0}, NEW S \in Nat \ {0}, S % s = 0, NEW x \in Nat
    PROVE  /\ x - (x % s) \in Nat /\ (x - (x % s)) % s = 0
           /\ x - (x % s) <= x /\ x < x - (x % s) + s
           /\ (x - (x % s)) \div S = x \div S
<1> DEFINE p == x - (x % s)
           q == x \div S
           b == S * q
<1>1. p \in Nat /\ p % s = 0 /\ x % s \in 0 .. s - 1
  BY Offset
<1>2. p <= x /\ x < p + s
  BY <1>1
<1>3. q \in Nat /\ x = b + (x % S) /\ x % S \in 0 .. S - 1
  BY Quotient, Offset
<1>4. PICK m \in Nat : S = s * m
  BY Multiple
<1>5. b % s = 0
  <2> HIDE DEF q
  <2>1. m * q \in Nat /\ b = s * (m * q) + 0 /\ 0 \in 0 .. s - 1
    BY <1>3, <1>4
  <2> HIDE DEF b
  <2>2. (s * (m * q) + 0) % s = 0
    BY <2>1, QuotientIs
  <2> QED
    BY <2>1, <2>2
<1>6. b \in Nat
  BY <1>3
<1>7. x % S = x - b /\ b <= x /\ x < b + S
  <2> HIDE DEF q, b
  <2> QED
    BY <1>3, <1>6
<1>8. b <= p
  <2> HIDE DEF b
  <2> QED
    BY <1>5, <1>6, <1>7, PageBefore
<1>9. p \div S = x \div S
  <2>1. x - (x % S) <= p /\ p < x - (x % S) + S
    BY <1>1, <1>2, <1>6, <1>7, <1>8
  <2> HIDE DEF p
  <2> QED
    BY <1>1, <2>1, SamePage
<1> QED
  BY <1>1, <1>2, <1>9

(* A page of 4KB or 64KB lies in one table. *)
LEMMA PageInTable ==
    ASSUME user \in DOMAIN Users, NEW s \in {1, Group}, NEW va \in Nat
    PROVE  /\ AlignDown(va, s) \in Nat /\ AlignDown(va, s) % s = 0
           /\ AlignDown(va, s) <= va /\ va < AlignDown(va, s) + s
           /\ AlignDown(va, s) \div PteSpan = va \div PteSpan
<1>1. s \in Nat \ {0} /\ PteSpan \in Nat \ {0} /\ PteSpan % s = 0
  <2>1. PteSpan % 1 = 0
    BY UserFacts
  <2> QED
    BY <2>1, UserFacts
<1> QED
  BY <1>1, PageInSpan DEF AlignDown

(* The tables of an address. *)
LEMMA ParentsOfPage ==
    ASSUME user \in DOMAIN Users, NEW t \in 1 .. Trees, NEW va \in Pages
    PROVE  /\ Parent(PteAt(t, va)) = PdeAt(t, va)
           /\ \A s \in {1, Group} :
                 Parent(PageAt(t, va, s)) = PteAt(t, va) /\ PageAt(t, va, s)[3] % s = 0
<1>1. va \in Nat
  BY DEF Pages
<1>2. va \div (PdeSlots * PteSpan) = (va \div PteSpan) \div PdeSlots
  BY <1>1, UserFacts, QuotientTwice
<1>3. ASSUME NEW s \in {1, Group}
      PROVE  Parent(PageAt(t, va, s)) = PteAt(t, va) /\ PageAt(t, va, s)[3] % s = 0
  BY <1>1, PageInTable DEF Parent, PageAt, PteAt
<1> QED
  BY <1>2, <1>3 DEF Parent, PteAt, PdeAt

-----------------------------------------------------------------------------
(* The bank of a page is one of the request's *)

Below(B, b) == {c \in B : c < b}

(* A set of n numbers has one with i below it, for each i < n. *)
HasRank(i) ==
    \A B \in SUBSET Nat :
        IsFiniteSet(B) /\ i < Cardinality(B) => \E b \in B : Cardinality(Below(B, b)) = i

(* The least number of a set has none below it. *)
LEMMA RankZero == HasRank(0)
<1>1. SUFFICES ASSUME NEW B \in SUBSET Nat, IsFiniteSet(B), 0 < Cardinality(B)
               PROVE  \E b \in B : Cardinality(Below(B, b)) = 0
  BY DEF HasRank
<1>2. B # {}
  BY <1>1, FS_EmptySet
<1>3. PICK b \in B : \A c \in B : b <= c
  BY <1>2, LeastNatural
<1>4. ASSUME NEW c \in B, c < b
      PROVE  FALSE
  <2>1. c \in Nat /\ b \in Nat /\ b <= c
    BY <1>3
  <2> QED
    BY <1>4, <2>1
<1>5. Below(B, b) = {}
  BY <1>4 DEF Below
<1> QED
  BY <1>5, FS_EmptySet

(* From one rank to the next. *)
LEMMA RankNext ==
    ASSUME NEW i \in Nat, HasRank(i)
    PROVE  HasRank(i + 1)
<1>1. SUFFICES ASSUME NEW B \in SUBSET Nat, IsFiniteSet(B), i + 1 < Cardinality(B)
               PROVE  \E b \in B : Cardinality(Below(B, b)) = i + 1
  BY DEF HasRank
<1>2. Cardinality(B) \in Nat
  BY <1>1, FS_CardinalityType
<1>3. B # {}
  BY <1>1, <1>2, FS_EmptySet
<1>4. PICK m \in B : \A c \in B : m <= c
  BY <1>3, LeastNatural
<1> DEFINE C == B \ {m}
<1>5. IsFiniteSet(C) /\ Cardinality(C) = Cardinality(B) - 1 /\ C \in SUBSET Nat
  BY <1>1, <1>4, FS_RemoveElement
<1>6. i < Cardinality(C)
  BY <1>1, <1>2, <1>5
<1>7. PICK b \in C : Cardinality(Below(C, b)) = i
  BY <1>5, <1>6 DEF HasRank
<1>8. Below(B, b) = Below(C, b) \cup {m} /\ m \notin Below(C, b)
  BY <1>4, <1>7 DEF Below
<1>9. IsFiniteSet(Below(C, b))
  <2>1. Below(C, b) \in SUBSET C
    BY DEF Below
  <2> QED
    BY <1>5, <2>1, FS_Subset
<1>10. Cardinality(Below(B, b)) = i + 1
  BY <1>7, <1>8, <1>9, FS_AddElement
<1> QED
  BY <1>7, <1>10

(* Every rank below the size of a set is taken. *)
LEMMA RankExists ==
    ASSUME NEW i \in Nat
    PROVE  HasRank(i)
<1> DEFINE bad == {j \in Nat : ~HasRank(j)}
<1>1. SUFFICES bad = {}
  OBVIOUS
<1>2. SUFFICES ASSUME bad # {} PROVE FALSE
  OBVIOUS
<1>3. PICK m \in bad : \A n \in bad : m <= n
  <2>1. bad \in SUBSET Nat
    OBVIOUS
  <2> HIDE DEF bad
  <2> QED
    BY <1>2, <2>1, LeastNatural
<1>4. m # 0
  BY <1>3, RankZero
<1>5. m - 1 \in Nat /\ m = (m - 1) + 1
  BY <1>3, <1>4
<1>6. HasRank(m - 1)
  BY <1>3, <1>5
<1>7. HasRank(m)
  <2> DEFINE j == m - 1
  <2>1. j \in Nat /\ HasRank(j) /\ m = j + 1
    BY <1>5, <1>6
  <2> HIDE DEF j
  <2>2. HasRank(j + 1)
    BY <2>1, RankNext
  <2> QED
    BY <2>1, <2>2
<1> QED
  BY <1>3, <1>7

(* MemoryBankHelper returns banks of the mask. *)
LEMMA BankNumberIn ==
    ASSUME NEW B \in SUBSET Nat, IsFiniteSet(B), NEW i \in Nat, i < Cardinality(B)
    PROVE  BankNumber(B, i) \in B
<1>1. \E b \in B : Cardinality(Below(B, b)) = i
  BY RankExists DEF HasRank
<1>2. \E b \in B : Cardinality({c \in B : c < b}) = i
  BY <1>1 DEF Below
<1> QED
  BY <1>2 DEF BankNumber

(* Wherever its walk is, the bank of a request's page has an allocator. *)
LEMMA PageBank ==
    ASSUME user \in DOMAIN Users, NEW o, WalkState(o)
    PROVE  /\ PageMemoryBank(o) \in DOMAIN InitialMemory
           /\ PageMemoryBank(o) = 0 => o.req.banks = {}
<1> DEFINE banks == o.req.banks
           n == Cardinality(banks)
           p == RequestedPageSize(o)
           alignedStart == AlignDown(o.req.va, p)
           alignedEnd == AlignUp(o.req.va + o.req.size, p)
           x == ((o.va - alignedStart) * n) \div (alignedEnd - alignedStart)
<1>1. banks \subseteq DOMAIN InitialMemory \ {0} /\ o.req.va \in Nat /\ o.req.size \in Nat \ {0}
  BY RequestFacts DEF WalkState
<1>2. banks \in SUBSET Nat /\ IsFiniteSet(banks) /\ 0 \in DOMAIN InitialMemory
  BY <1>1, PageTablesAssumption, FS_Subset
<1>3. n \in Nat /\ (n = 0 <=> banks = {})
  BY <1>2, FS_CardinalityType, FS_EmptySet
<1>4. p \in Nat \ {0}
  BY RequestedSizes, UserFacts
<1>5. CASE n = 0
  BY <1>2, <1>3, <1>5 DEF PageMemoryBank
<1>6. CASE n # 0 /\ (HasPa(o) \/ n = 1)
  <2>1. BankNumber(banks, 0) \in banks
    BY <1>2, <1>3, <1>6, BankNumberIn
  <2> QED
    BY <1>1, <1>6, <2>1 DEF PageMemoryBank
<1>7. CASE n # 0 /\ ~(HasPa(o) \/ n = 1)
  <2>1. alignedStart \in Nat /\ alignedStart <= o.req.va
    <3>1. o.req.va % p \in 0 .. p - 1 /\ o.req.va - (o.req.va % p) \in Nat
      BY <1>1, <1>4, Offset
    <3> HIDE DEF p
    <3> QED
      BY <1>1, <1>4, <3>1 DEF AlignDown
  <2>2. alignedEnd \in Nat /\ o.req.va + o.req.size <= alignedEnd
    BY <1>1, <1>4, AlignUpRaises
  <2>3. o.va \in Nat /\ o.req.va <= o.va
    BY DEF WalkState
  <2> HIDE DEF alignedStart, alignedEnd, n, p, banks
  <2>4. (o.va - alignedStart) * n \in Nat
    <3>1. o.va - alignedStart \in Nat
      BY <1>1, <2>1, <2>3
    <3> QED
      BY <1>3, <3>1
  <2>5. alignedEnd - alignedStart \in Nat \ {0}
    BY <1>1, <2>1, <2>2
  <2>6. x \in Nat
    BY <2>4, <2>5, Quotient
  <2> HIDE DEF x
  <2>7. x % n \in 0 .. n - 1
    BY <1>3, <1>7, <2>6, Offset
  <2>8. x % n \in Nat /\ x % n < n
    BY <1>3, <2>7
  <2>9. BankNumber(banks, x % n) \in banks
    BY <1>2, <2>8, BankNumberIn DEF n
  <2>10. PageMemoryBank(o) = BankNumber(banks, x % n)
    BY <1>7 DEF PageMemoryBank, x, n, p, banks, alignedStart, alignedEnd
  <2> QED
    BY <1>1, <2>9, <2>10
<1> QED
  BY <1>5, <1>6, <1>7

-----------------------------------------------------------------------------
(* Physical memory and its owners *)

Owner(n) == n.present /\ n.owned

(* The block of a node. *)
BlockOf(k, n) == [addr |-> n.pa, size |-> IF IsLeaf(k, n) THEN n.size ELSE 1]

SoundMemory(mem) ==
    /\ DOMAIN mem = DOMAIN InitialMemory
    /\ \A b \in DOMAIN InitialMemory :
         /\ mem[b] \in AllocatorState
         /\ BlocksDisjoint(mem[b]) /\ BlocksBelowNext(mem[b], 0)

(* What the user reserved stays reserved. *)
UserKeeps(mem) ==
    \A b \in DOMAIN InitialMemory : InitialMemory[b].used \subseteq mem[b].used

OwnersHold(mem, nodes) ==
    \A k \in Slots : Owner(nodes[k]) =>
        /\ nodes[k].bank \in DOMAIN InitialMemory
        /\ BlockOf(k, nodes[k]) \in mem[nodes[k].bank].used
        /\ BlockOf(k, nodes[k]) \notin InitialMemory[nodes[k].bank].used

UsedIsOwned(mem, nodes) ==
    \A b \in DOMAIN InitialMemory : \A blk \in mem[b].used :
        \/ blk \in InitialMemory[b].used
        \/ \E k \in Slots : Owner(nodes[k]) /\ nodes[k].bank = b /\ blk = BlockOf(k, nodes[k])

OwnersApart(nodes) ==
    \A k, l \in Slots :
        Owner(nodes[k]) /\ Owner(nodes[l]) /\ nodes[k].bank = nodes[l].bank /\ k # l =>
            BlockOf(k, nodes[k]) # BlockOf(l, nodes[l])

(* Used blocks are the user's or a node's, and no node's is another's. *)
Accounted(mem, nodes) ==
    /\ SoundMemory(mem) /\ UserKeeps(mem)
    /\ OwnersHold(mem, nodes) /\ UsedIsOwned(mem, nodes) /\ OwnersApart(nodes)

(* Blocks that start at one address are one block. *)
LEMMA OneBlockStarts ==
    ASSUME NEW al \in AllocatorState, BlocksDisjoint(al), BlocksBelowNext(al, 0),
           NEW b \in al.used, NEW c \in al.used, b.addr = c.addr
    PROVE  b = c
<1>1. b \in Block /\ c \in Block /\ 0 < b.size /\ 0 < c.size
  BY DEF AllocatorState, BlocksBelowNext
<1>2. ~Disjoint(b, c)
  BY <1>1 DEF Disjoint, Block
<1> QED
  BY <1>2 DEF BlocksDisjoint

(* Nodes that differ only in PS64 and in whether they wait own the same. *)
LEMMA OwnersSame ==
    ASSUME NEW mem, NEW nodes, Accounted(mem, nodes), NEW new, SameTree(new, nodes)
    PROVE  Accounted(mem, new)
<1>1. \A k \in Slots :
         /\ Owner(new[k]) <=> Owner(nodes[k])
         /\ BlockOf(k, new[k]) = BlockOf(k, nodes[k]) /\ new[k].bank = nodes[k].bank
  BY DEF SameTree, Owner, BlockOf, IsLeaf, Is2MB
<1>2. OwnersHold(mem, new)
  BY <1>1 DEF Accounted, OwnersHold
<1>3. UsedIsOwned(mem, new)
  BY <1>1 DEF Accounted, UsedIsOwned
<1>4. OwnersApart(new)
  BY <1>1 DEF Accounted, OwnersApart
<1> QED
  BY <1>2, <1>3, <1>4 DEF Accounted

(* A new owner of a new block: memory stays accounted for. *)
LEMMA OwnerAdded ==
    ASSUME NEW mem, NEW nodes, Accounted(mem, nodes),
           NEW k \in Slots, ~Owner(nodes[k]), NEW n, Owner(n), NEW new, new[k] = n,
           \A l \in Slots \ {k} : new[l] = nodes[l],
           NEW b \in DOMAIN InitialMemory, n.bank = b, BlockOf(k, n).size \in Nat \ {0},
           n.pa = AllocatedBlock(mem[b], BlockOf(k, n).size, BlockOf(k, n).size).addr,
           NEW mem2,
           mem2 = [mem EXCEPT ![b] = AlignedAlloc(@, BlockOf(k, n).size, BlockOf(k, n).size)]
    PROVE  Accounted(mem2, new)
<1> DEFINE s == BlockOf(k, n).size
           blk == AllocatedBlock(mem[b], s, s)
           al == AlignedAlloc(mem[b], s, s)
<1>1. mem[b] \in AllocatorState /\ BlocksDisjoint(mem[b]) /\ BlocksBelowNext(mem[b], 0)
  BY DEF Accounted, SoundMemory
<1> HIDE DEF s
<1>2. blk \in Block /\ blk.size = s /\ blk \notin mem[b].used
  BY <1>1, AllocatedBlockIsNew DEF s
<1>3. /\ al \in AllocatorState /\ BlocksDisjoint(al) /\ BlocksBelowNext(al, 0)
      /\ al.used = mem[b].used \cup {blk}
  BY <1>1, AlignedAllocKeepsDisjoint DEF s
<1> HIDE DEF blk, al
<1>4. BlockOf(k, n) = blk
  BY <1>2 DEF BlockOf, Block, s, blk
<1>5. DOMAIN mem = DOMAIN InitialMemory
  BY DEF Accounted, SoundMemory
<1>6. /\ DOMAIN mem2 = DOMAIN InitialMemory /\ mem2[b] = al
      /\ \A c \in DOMAIN InitialMemory \ {b} : mem2[c] = mem[c]
  BY <1>5 DEF s, al
<1>7. SoundMemory(mem2)
  BY <1>3, <1>6 DEF SoundMemory, Accounted
<1>8. \A c \in DOMAIN InitialMemory : \A x :
         x \in mem2[c].used <=> x \in mem[c].used \/ (c = b /\ x = blk)
  BY <1>3, <1>6
<1>9. UserKeeps(mem2)
  BY <1>8 DEF Accounted, UserKeeps
<1>0. OwnersHold(mem, nodes) /\ UsedIsOwned(mem, nodes) /\ OwnersApart(nodes) /\ UserKeeps(mem)
  BY DEF Accounted
<1>10. ASSUME NEW l \in Slots, Owner(new[l])
       PROVE  /\ new[l].bank \in DOMAIN InitialMemory
              /\ BlockOf(l, new[l]) \in mem2[new[l].bank].used
              /\ BlockOf(l, new[l]) \notin InitialMemory[new[l].bank].used
  <2>1. CASE l = k
    BY <1>0, <1>2, <1>4, <1>8, <2>1 DEF UserKeeps
  <2>2. CASE l # k
    BY <1>0, <1>8, <1>10, <2>2 DEF OwnersHold
  <2> QED
    BY <2>1, <2>2
<1>11. ASSUME NEW c \in DOMAIN InitialMemory, NEW x \in mem2[c].used,
              x \notin InitialMemory[c].used
       PROVE  \E l \in Slots : Owner(new[l]) /\ new[l].bank = c /\ x = BlockOf(l, new[l])
  <2>1. CASE c = b /\ x = blk
    BY <1>4, <2>1
  <2>2. CASE ~(c = b /\ x = blk)
    <3>1. x \in mem[c].used
      BY <1>8, <2>2
    <3>2. PICK l \in Slots : Owner(nodes[l]) /\ nodes[l].bank = c /\ x = BlockOf(l, nodes[l])
      BY <1>0, <1>11, <3>1 DEF UsedIsOwned
    <3>3. l # k
      BY <3>2
    <3> QED
      BY <3>2, <3>3
  <2> QED
    BY <2>1, <2>2
<1>12. ASSUME NEW l \in Slots, NEW m \in Slots, Owner(new[l]), Owner(new[m]),
              new[l].bank = new[m].bank, l # m
       PROVE  BlockOf(l, new[l]) # BlockOf(m, new[m])
  <2>1. CASE l # k /\ m # k
    BY <1>0, <1>12, <2>1 DEF OwnersApart
  <2>2. CASE l = k
    <3>1. BlockOf(m, new[m]) \in mem[b].used
      BY <1>0, <1>12, <2>2 DEF OwnersHold
    <3> QED
      BY <1>2, <1>4, <2>2, <3>1
  <2>3. CASE m = k
    <3>1. BlockOf(l, new[l]) \in mem[b].used
      BY <1>0, <1>12, <2>3 DEF OwnersHold
    <3> QED
      BY <1>2, <1>4, <2>3, <3>1
  <2> QED
    BY <2>1, <2>2, <2>3
<1>13. OwnersHold(mem2, new)
  BY <1>10 DEF OwnersHold
<1>14. UsedIsOwned(mem2, new)
  BY <1>11 DEF UsedIsOwned
<1>15. OwnersApart(new)
  BY <1>12 DEF OwnersApart
<1> QED
  BY <1>7, <1>9, <1>13, <1>14, <1>15 DEF Accounted

(* An owner gives its block back: memory stays accounted for. *)
LEMMA OwnerDropped ==
    ASSUME NEW mem, NEW nodes, Accounted(mem, nodes),
           NEW k \in Slots, NEW new, ~Owner(new[k]),
           \A l \in Slots \ {k} : new[l] = nodes[l],
           NEW mem2,
           mem2 = IF Owner(nodes[k])
                  THEN [mem EXCEPT ![nodes[k].bank] = AlignedFree(@, nodes[k].pa)]
                  ELSE mem
    PROVE  Accounted(mem2, new)
<1>1. CASE ~Owner(nodes[k])
  <2>1. mem2 = mem
    BY <1>1
  <2>2. \A l \in Slots :
           /\ Owner(new[l]) <=> Owner(nodes[l])
           /\ Owner(new[l]) => new[l] = nodes[l]
    BY <1>1
  <2>3. OwnersHold(mem, new)
    BY <2>2 DEF Accounted, OwnersHold
  <2>4. UsedIsOwned(mem, new)
    BY <1>1 DEF Accounted, UsedIsOwned
  <2>5. OwnersApart(new)
    BY <2>2 DEF Accounted, OwnersApart
  <2> QED
    BY <2>1, <2>3, <2>4, <2>5 DEF Accounted
<1>0. OwnersHold(mem, nodes) /\ UsedIsOwned(mem, nodes) /\ OwnersApart(nodes) /\ UserKeeps(mem)
      /\ SoundMemory(mem)
  BY DEF Accounted
<1>2. CASE Owner(nodes[k])
  <2> DEFINE b == nodes[k].bank
             blk == BlockOf(k, nodes[k])
             al == AlignedFree(mem[b], nodes[k].pa)
  <2>1. b \in DOMAIN InitialMemory /\ blk \in mem[b].used /\ blk \notin InitialMemory[b].used
    BY <1>0, <1>2 DEF OwnersHold
  <2>2. mem[b] \in AllocatorState /\ BlocksDisjoint(mem[b]) /\ BlocksBelowNext(mem[b], 0)
    BY <1>0, <2>1 DEF SoundMemory
  <2>3. blk.addr = nodes[k].pa /\ nodes[k].pa \in Nat
    <3>1. blk \in Block
      BY <2>1, <2>2 DEF AllocatorState
    <3>2. blk.addr = nodes[k].pa
      BY DEF BlockOf
    <3> HIDE DEF blk
    <3> QED
      BY <3>1, <3>2 DEF Block
  <2> HIDE DEF blk
  <2>4. StartingAt(mem[b], nodes[k].pa) = {blk}
    <3>1. \A c \in mem[b].used : c.addr = nodes[k].pa => c = blk
      BY <2>1, <2>2, <2>3, OneBlockStarts
    <3> QED
      BY <2>1, <2>3, <3>1 DEF StartingAt
  <2>5. al \in AllocatorState /\ BlocksDisjoint(al) /\ BlocksBelowNext(al, 0)
    BY <2>2, <2>3, AlignedFreeKeepsDisjoint
  <2>6. al.used = mem[b].used \ {blk}
    <3>1. al.used = mem[b].used \ StartingAt(mem[b], nodes[k].pa)
      BY <2>2 DEF AlignedFree, AllocatorState
    <3> QED
      BY <2>4, <3>1
  <2>7. /\ DOMAIN mem2 = DOMAIN InitialMemory /\ mem2[b] = al
        /\ \A c \in DOMAIN InitialMemory \ {b} : mem2[c] = mem[c]
    BY <1>0, <1>2, <2>1 DEF SoundMemory
  <2> HIDE DEF al
  <2>8. SoundMemory(mem2)
    BY <1>0, <2>5, <2>7 DEF SoundMemory
  <2>9. \A c \in DOMAIN InitialMemory : \A x :
           x \in mem2[c].used <=> x \in mem[c].used /\ ~(c = b /\ x = blk)
    BY <2>6, <2>7
  <2> HIDE DEF b
  <2>10. UserKeeps(mem2)
    BY <1>0, <2>1, <2>9 DEF UserKeeps
  <2>11. ASSUME NEW l \in Slots, Owner(new[l])
         PROVE  l # k /\ new[l] = nodes[l] /\ Owner(nodes[l])
    BY <2>11
  <2>12. ASSUME NEW l \in Slots, Owner(new[l])
         PROVE  /\ new[l].bank \in DOMAIN InitialMemory
                /\ BlockOf(l, new[l]) \in mem2[new[l].bank].used
                /\ BlockOf(l, new[l]) \notin InitialMemory[new[l].bank].used
    <3>1. l # k /\ new[l] = nodes[l] /\ Owner(nodes[l])
      BY <2>11, <2>12
    <3>2. nodes[l].bank = b => BlockOf(l, nodes[l]) # blk
      BY <1>0, <1>2, <3>1 DEF OwnersApart, blk, b
    <3> QED
      BY <1>0, <2>9, <3>1, <3>2 DEF OwnersHold
  <2>13. ASSUME NEW c \in DOMAIN InitialMemory, NEW x \in mem2[c].used,
                x \notin InitialMemory[c].used
         PROVE  \E l \in Slots : Owner(new[l]) /\ new[l].bank = c /\ x = BlockOf(l, new[l])
    <3>1. x \in mem[c].used /\ ~(c = b /\ x = blk)
      BY <2>9, <2>13
    <3>2. PICK l \in Slots : Owner(nodes[l]) /\ nodes[l].bank = c /\ x = BlockOf(l, nodes[l])
      BY <1>0, <2>13, <3>1 DEF UsedIsOwned
    <3>3. l # k
      BY <3>1, <3>2 DEF blk, b
    <3> QED
      BY <3>2, <3>3
  <2>14. ASSUME NEW l \in Slots, NEW m \in Slots, Owner(new[l]), Owner(new[m]),
                new[l].bank = new[m].bank, l # m
         PROVE  BlockOf(l, new[l]) # BlockOf(m, new[m])
    <3>1. new[l] = nodes[l] /\ Owner(nodes[l]) /\ new[m] = nodes[m] /\ Owner(nodes[m])
      BY <2>11, <2>14
    <3> QED
      BY <1>0, <2>14, <3>1 DEF OwnersApart
  <2>15. OwnersHold(mem2, new)
    BY <2>12 DEF OwnersHold
  <2>16. UsedIsOwned(mem2, new)
    BY <2>13 DEF UsedIsOwned
  <2>17. OwnersApart(new)
    BY <2>14 DEF OwnersApart
  <2> QED
    BY <2>8, <2>10, <2>15, <2>16, <2>17 DEF Accounted
<1> QED
  BY <1>1, <1>2

-----------------------------------------------------------------------------
(* The tree of the nodes *)

(* A node that is there hangs in a table that is there, of its page size; the
   tables are in memory of their own. *)
Placed(nodes, k) ==
    /\ k[2] = "Pde" => /\ nodes[Parent(k)].present
                       /\ nodes[k].size \in {1, Group, PteSpan}
    /\ k[2] = "Pte" => /\ nodes[Parent(k)].present /\ nodes[Parent(k)].size \in {1, Group}
                       /\ nodes[k].size = nodes[Parent(k)].size
                       /\ k[3] % nodes[k].size = 0
    /\ ~IsLeaf(k, nodes[k]) => nodes[k].owned /\ nodes[k].bank = TableBank

Tree(nodes) ==
    /\ DOMAIN nodes = Slots
    /\ \A k \in Slots :
         /\ DOMAIN nodes[k] = NodeFields
         /\ nodes[k].present \in BOOLEAN /\ nodes[k].owned \in BOOLEAN
         /\ nodes[k].present => Placed(nodes, k)
         /\ ~nodes[k].present => ~nodes[k].owned /\ nodes[k].size = 0

(* A tree stays one when only PS64 and what waits change. *)
LEMMA TreeSame ==
    ASSUME user \in DOMAIN Users, NEW nodes, Tree(nodes), NEW new, SameTree(new, nodes)
    PROVE  Tree(new)
<1>1. ASSUME NEW k \in Slots, new[k].present
      PROVE  Placed(new, k)
  <2>1. nodes[k].present /\ Placed(nodes, k)
    BY <1>1 DEF SameTree, Tree
  <2>2. k[2] # "Pdp" => /\ new[Parent(k)].present = nodes[Parent(k)].present
                        /\ new[Parent(k)].size = nodes[Parent(k)].size
    BY ParentIsSlot, SlotIs DEF SameTree
  <2>3. new[k].size = nodes[k].size /\ new[k].owned = nodes[k].owned /\ new[k].bank = nodes[k].bank
    BY DEF SameTree
  <2> QED
    BY <2>1, <2>2, <2>3 DEF Placed, IsLeaf, Is2MB
<1>2. DOMAIN new = Slots
  BY DEF SameTree
<1>3. ASSUME NEW k \in Slots
      PROVE  /\ DOMAIN new[k] = NodeFields
             /\ new[k].present = nodes[k].present /\ new[k].owned = nodes[k].owned
             /\ new[k].size = nodes[k].size
  BY DEF SameTree
<1> QED
  BY <1>1, <1>2, <1>3 DEF Tree

(* A tree stays one when a node is hung into a table that is there. *)
LEMMA TreeAdded ==
    ASSUME user \in DOMAIN Users, NEW nodes, Tree(nodes),
           NEW k \in Slots, ~nodes[k].present, NEW new, DOMAIN new = Slots,
           \A l \in Slots \ {k} : new[l] = nodes[l],
           DOMAIN new[k] = NodeFields, new[k].present = TRUE, new[k].owned \in BOOLEAN,
           k[2] = "Pde" => /\ nodes[Parent(k)].present
                           /\ new[k].size \in {1, Group, PteSpan},
           k[2] = "Pte" => /\ nodes[Parent(k)].present /\ nodes[Parent(k)].size \in {1, Group}
                           /\ new[k].size = nodes[Parent(k)].size
                           /\ k[3] % new[k].size = 0,
           ~IsLeaf(k, new[k]) => new[k].owned /\ new[k].bank = TableBank
    PROVE  Tree(new)
<1>1. ASSUME NEW l \in Slots, new[l].present
      PROVE  Placed(new, l)
  <2>1. CASE l = k
    <3>1. k[2] # "Pdp" => new[Parent(k)] = nodes[Parent(k)]
      BY ParentIsSlot, SlotIs
    <3> QED
      BY <2>1, <3>1, SlotIs DEF Placed
  <2>2. CASE l # k
    <3>1. new[l] = nodes[l] /\ Placed(nodes, l)
      BY <1>1, <2>2 DEF Tree
    <3>2. l[2] # "Pdp" => Parent(l) \in Slots /\ nodes[Parent(l)].present
      BY <3>1, ParentIsSlot, SlotIs DEF Placed
    <3>3. l[2] # "Pdp" => new[Parent(l)] = nodes[Parent(l)]
      BY <3>2
    <3> QED
      BY <3>1, <3>3, SlotIs DEF Placed
  <2> QED
    BY <2>1, <2>2
<1>2. ASSUME NEW l \in Slots
      PROVE  /\ DOMAIN new[l] = NodeFields
             /\ new[l].present \in BOOLEAN /\ new[l].owned \in BOOLEAN
             /\ ~new[l].present => ~new[l].owned /\ new[l].size = 0
  BY DEF Tree
<1> QED
  BY <1>1, <1>2 DEF Tree

(* A node without children can go. *)
LEMMA TreeDropped ==
    ASSUME user \in DOMAIN Users, NEW nodes, Tree(nodes),
           NEW k \in Slots, NEW new, DOMAIN new = Slots, new[k] = NoNode,
           \A l \in Slots \ {k} : new[l] = nodes[l],
           \A l \in Slots : l[2] # "Pdp" /\ nodes[l].present => Parent(l) # k
    PROVE  Tree(new)
<1>1. ASSUME NEW l \in Slots, new[l].present
      PROVE  Placed(new, l)
  <2>1. l # k
    BY <1>1, NoNodeIs
  <2>2. new[l] = nodes[l] /\ nodes[l].present /\ Placed(nodes, l)
    BY <1>1, <2>1 DEF Tree
  <2>3. l[2] # "Pdp" => new[Parent(l)] = nodes[Parent(l)]
    BY <2>2, ParentIsSlot, SlotIs
  <2> QED
    BY <2>2, <2>3, SlotIs DEF Placed
<1>2. ASSUME NEW l \in Slots
      PROVE  /\ DOMAIN new[l] = NodeFields
             /\ new[l].present \in BOOLEAN /\ new[l].owned \in BOOLEAN
             /\ ~new[l].present => ~new[l].owned /\ new[l].size = 0
  BY NoNodeIs DEF Tree
<1> QED
  BY <1>1, <1>2 DEF Tree

-----------------------------------------------------------------------------
(* What a turn of a walk does, for users that do not map *)

SameNodes == DOMAIN node' = Slots /\ \A k \in Slots : node'[k] = node[k]

(* Nothing is collected. *)
Quiet ==
    /\ SameNodes /\ memory' = memory
    /\ op'.writes = op.writes /\ op'.pendingNodes = op.pendingNodes

Collects(k, n) ==
    /\ op'.writes = EmitIfNeeded(op, k, n).writes
    /\ op'.pendingNodes = EmitIfNeeded(op, k, n).pendingNodes

(* A node is met. *)
Meets(k) ==
    /\ k \in Slots /\ node[k].present
    /\ SameNodes /\ memory' = memory
    /\ Collects(k, node[k])

(* What a new node is, and the allocators behind it. *)
IsNew(k, n) ==
    /\ DOMAIN n = NodeFields /\ n.present = TRUE /\ n.owned \in BOOLEAN /\ n.pending = TRUE
    /\ n.ps64 = FALSE
    /\ n.owned =>
         /\ n.bank \in DOMAIN InitialMemory /\ BlockOf(k, n).size \in Nat \ {0}
         /\ n.pa = Reserve(n.bank, BlockOf(k, n).size)
         /\ memory' = MemoryAfterReserve(n.bank, BlockOf(k, n).size)
    /\ ~n.owned => k[1] > 1 /\ memory' = memory
    /\ k[2] = "Pde" => node[Parent(k)].present /\ n.size \in {1, Group, PteSpan}
    /\ k[2] = "Pte" => /\ node[Parent(k)].present /\ node[Parent(k)].size \in {1, Group}
                       /\ n.size = node[Parent(k)].size /\ k[3] % n.size = 0
    /\ ~IsLeaf(k, n) => n.owned /\ n.bank = TableBank

(* A node is made. *)
Makes(k, n) ==
    /\ k \in Slots /\ ~node[k].present /\ op.req.kind # "read"
    /\ DOMAIN node' = Slots /\ node'[k] = n /\ \A l \in Slots \ {k} : node'[l] = node[l]
    /\ IsNew(k, n)
    /\ Collects(k, n)

(* The walker has no address of the user's choosing. *)
Unmapped(o) == ~Maps /\ o.pa = NoPa

(* A new table. *)
LEMMA TableIsNew ==
    ASSUME Shape, NEW k \in Slots, k[2] \in {"Pdp", "Pde"}, NEW size \in {0, 1, Group},
           k[2] = "Pde" => node[Parent(k)].present /\ size # 0,
           memory' = MemoryAfterReserve(TableBank, 1)
    PROVE  IsNew(k, NewTable(size))
<1> DEFINE n == NewTable(size)
<1>1. /\ DOMAIN n = NodeFields /\ n.present = TRUE /\ n.pa = Reserve(TableBank, 1)
      /\ n.bank = TableBank /\ n.owned = TRUE /\ n.size = size /\ n.pending = TRUE
      /\ n.ps64 = FALSE
  BY DEF NewTable, Node, NodeFields
<1> HIDE DEF n
<1>2. size # PteSpan /\ Group \in Nat \ {0}
  BY UserFacts DEF Shape
<1>3. ~IsLeaf(k, n)
  BY <1>1, <1>2 DEF IsLeaf, Is2MB
<1>4. BlockOf(k, n).size = 1
  BY <1>3 DEF BlockOf
<1>5. TableBank \in DOMAIN InitialMemory
  BY PageTablesAssumption
<1>6. k[2] = "Pde" => n.size \in {1, Group, PteSpan}
  BY <1>1
<1>7. /\ n.bank \in DOMAIN InitialMemory /\ BlockOf(k, n).size \in Nat \ {0}
      /\ n.pa = Reserve(n.bank, BlockOf(k, n).size)
      /\ memory' = MemoryAfterReserve(n.bank, BlockOf(k, n).size)
  BY <1>1, <1>4, <1>5
<1>8. k[2] # "Pte" /\ (k[2] = "Pde" => node[Parent(k)].present)
  OBVIOUS
<1>9. DOMAIN n = NodeFields /\ n.present = TRUE /\ n.owned = TRUE /\ n.pending = TRUE /\ n.ps64 = FALSE
      /\ n.bank = TableBank
  BY <1>1
<1> QED
  BY <1>3, <1>6, <1>7, <1>8, <1>9 DEF IsNew, n

(* A new leaf: in memory of its own, or the clone of a leaf of the first tree. *)
LEMMA LeafIsNew ==
    ASSUME Shape, op # Idle, Unmapped(op), NEW k \in Slots, k[1] = op.tree,
           NEW size \in {1, Group, PteSpan},
           \/ k[2] = "Pde" /\ size = PteSpan /\ node[Parent(k)].present
           \/ /\ k[2] = "Pte" /\ node[Parent(k)].present /\ node[Parent(k)].size = size
              /\ size \in {1, Group} /\ k[3] % size = 0,
           memory' = MemoryAfterLeaf(op, size)
    PROVE  IsNew(k, NewLeaf(op, size)) /\ NewLeaf(op, size).size = size
<1> DEFINE n == NewLeaf(op, size)
           bank == PageMemoryBank(op)
<1>1. WalkState(op) /\ user \in DOMAIN Users
  BY DEF Shape
<1>2. bank \in DOMAIN InitialMemory /\ size \in Nat \ {0}
  BY <1>1, PageBank, UserFacts
<1>3. ~HasPa(op)
  BY DEF Unmapped, HasPa
<1> HIDE DEF bank
<1>4. CASE Mode(op) = "Clone"
  <2>1. PICK pa, b : n = Node(pa, b, FALSE, size, op.req.flags)
    BY <1>4, LeafCreated
  <2> HIDE DEF n
  <2>2. /\ DOMAIN n = NodeFields /\ n.present = TRUE
        /\ n.owned = FALSE /\ n.size = size /\ n.pending = TRUE /\ n.ps64 = FALSE
    BY <2>1 DEF Node, NodeFields
  <2>3. IsLeaf(k, n)
    BY <2>2 DEF IsLeaf, Is2MB
  <2>4. memory' = memory
    BY <1>4 DEF MemoryAfterLeaf
  <2>5. k[1] > 1
    BY <1>1, <1>4, ModeIs, RequestFacts DEF WalkState
  <2> QED
    BY <2>2, <2>3, <2>4, <2>5 DEF IsNew, n
<1>5. CASE Mode(op) # "Clone"
  <2>1. n = Node(Reserve(bank, size), bank, TRUE, size, op.req.flags)
    BY <1>3, <1>5, LeafCreated DEF bank
  <2> HIDE DEF n
  <2>2. /\ DOMAIN n = NodeFields /\ n.present = TRUE /\ n.pa = Reserve(bank, size)
        /\ n.bank = bank /\ n.owned = TRUE /\ n.size = size /\ n.pending = TRUE /\ n.ps64 = FALSE
    BY <2>1 DEF Node, NodeFields
  <2>3. IsLeaf(k, n)
    BY <2>2 DEF IsLeaf, Is2MB
  <2>4. memory' = MemoryAfterReserve(bank, size)
    BY <1>3, <1>5 DEF MemoryAfterLeaf, bank
  <2>5. BlockOf(k, n).size = size
    BY <2>2, <2>3 DEF BlockOf
  <2> QED
    BY <1>2, <2>2, <2>3, <2>4, <2>5 DEF IsNew, n
<1> QED
  BY <1>4, <1>5

(* Collecting an entry leaves the address of a map alone. *)
LEMMA EmitPa ==
    ASSUME NEW o, DOMAIN o = WalkFields, NEW k, NEW n
    PROVE  /\ EmitIfNeeded(o, k, n).pa = o.pa /\ Note64KB(o, k, n).pa = o.pa
           /\ EmitIfNeeded(Note64KB(o, k, n), k, n).pa = o.pa
           /\ EmitIfNeeded(Note64KB(o, k, n), k, n).writes = EmitIfNeeded(o, k, n).writes
           /\ EmitIfNeeded(Note64KB(o, k, n), k, n).pendingNodes = EmitIfNeeded(o, k, n).pendingNodes
<1>1. ASSUME NEW a, DOMAIN a = WalkFields
      PROVE  /\ Emit(a, k, n).pa = a.pa
             /\ Emit(a, k, n).writes = Overlay(a.writes, [x \in {EntryAddress(k)} |-> EntryValue(k, n)])
             /\ Emit(a, k, n).pendingNodes =
                  IF n.pending THEN a.pendingNodes \cup {k} ELSE a.pendingNodes
  BY <1>1 DEF Emit, WalkFields
<1> DEFINE w == Note64KB(o, k, n)
<1>2. /\ w.pa = o.pa /\ w.writes = o.writes /\ w.pendingNodes = o.pendingNodes
      /\ DOMAIN w = WalkFields
  BY DEF Note64KB, WalkFields
<1>3. HasPa(w) <=> HasPa(o)
  BY <1>2 DEF HasPa
<1> HIDE DEF w
<1>4. EmitIfNeeded(o, k, n).pa = o.pa /\ EmitIfNeeded(w, k, n).pa = w.pa
  BY <1>1, <1>2 DEF EmitIfNeeded
<1>5. CASE HasPa(o) \/ (n.pending /\ k \notin o.pendingNodes)
  <2>1. EmitIfNeeded(o, k, n) = Emit(o, k, n) /\ EmitIfNeeded(w, k, n) = Emit(w, k, n)
    BY <1>2, <1>3, <1>5 DEF EmitIfNeeded
  <2>2. Emit(w, k, n).writes = Emit(o, k, n).writes
    BY <1>1, <1>2
  <2>3. Emit(w, k, n).pendingNodes = Emit(o, k, n).pendingNodes
    BY <1>1, <1>2
  <2> QED
    BY <1>2, <1>4, <2>1, <2>2, <2>3 DEF w
<1>6. CASE ~(HasPa(o) \/ (n.pending /\ k \notin o.pendingNodes))
  <2>1. EmitIfNeeded(o, k, n) = o /\ EmitIfNeeded(w, k, n) = w
    BY <1>2, <1>3, <1>6 DEF EmitIfNeeded
  <2> QED
    BY <1>2, <1>4, <2>1 DEF w
<1> QED
  BY <1>5, <1>6

(* Without an address of the user's choosing a leaf that is there stays as it is. *)
LEMMA LeafStays ==
    ASSUME NEW o, ~HasPa(o), NEW k, node[k].present, NEW size
    PROVE  LeafAfter(o, k, size) = node[k]
BY DEF LeafAfter, Remap

StreamsStay == UNCHANGED <<sink, reserved64, paused, blocked, requests>>

(* A missing node ends a read. *)
LEMMA MissingDoes ==
    ASSUME Shape, UNCHANGED user, op.level \in {"Pdp", "Pde", "Pte"}, NEW k, WalkMissing(k)
    PROVE  /\ Quiet /\ op.req.kind = "read" /\ op'.pa = op.pa /\ StreamsStay
           /\ op'.pages64KB = op.pages64KB
<1>1. WalkState(op) /\ DOMAIN op = WalkFields
  BY AtLevel
<1>2. op' = GiveUp(op) /\ op.req.kind = "read" /\ node' = node /\ memory' = memory /\ StreamsStay
  BY ModeIs DEF WalkMissing, StreamsUnchanged, StreamsStay
<1>3. /\ op'.writes = op.writes /\ op'.pendingNodes = op.pendingNodes /\ op'.pa = op.pa
      /\ op'.pages64KB = op.pages64KB
  BY <1>1, <1>2 DEF GiveUp, WalkFields
<1>4. SameNodes
  BY <1>2 DEF SameNodes, Shape, NodeShape
<1> QED
  BY <1>2, <1>3, <1>4 DEF Quiet

(* Visiting a table meets it or makes it. *)
LEMMA VisitDoes ==
    ASSUME Shape, UNCHANGED user, Unmapped(op), op.level \in {"Pdp", "Pde"},
           NEW k \in Slots, k[2] \in {"Pdp", "Pde"}, NEW size \in {0, 1, Group, PteSpan},
           k[2] = "Pde" => node[Parent(k)].present,
           k[2] = "Pde" => node[k].present \/ size \in {1, Group},
           k[2] = "Pdp" => size = 0,
           NEW level \in {"Pde", "Pte"}, VisitTable(k, size, level)
    PROVE  /\ Meets(k) \/ Makes(k, NewTable(size))
           /\ op'.pa = op.pa /\ op'.level = level /\ StreamsStay
           /\ op'.pages64KB = op.pages64KB
<1> DEFINE n == IF node[k].present THEN node[k] ELSE NewTable(size)
           e == EmitIfNeeded(op, k, n)
<1>1. /\ node[k].present \/ Mode(op) # "Expect"
      /\ node' = [node EXCEPT ![k] = n] /\ op' = [e EXCEPT !.level = level]
      /\ memory' = IF node[k].present THEN memory ELSE MemoryAfterReserve(TableBank, 1)
      /\ StreamsStay
  BY DEF VisitTable, StreamsUnchanged, StreamsStay
<1>2. DOMAIN op = WalkFields /\ user \in DOMAIN Users
  BY AtLevel
<1>3. SameWalk(e, op) /\ e.pa = op.pa
  BY <1>2, EmitSame, EmitPa
<1>4. e.pages64KB = op.pages64KB
  BY <1>2 DEF EmitIfNeeded, Emit, WalkFields
<1> HIDE DEF e
<1>5. DOMAIN e = WalkFields
  BY <1>3 DEF SameWalk
<1>6. /\ op'.writes = e.writes /\ op'.pendingNodes = e.pendingNodes /\ op'.pa = op.pa
      /\ op'.level = level /\ op'.pages64KB = op.pages64KB
  BY <1>1, <1>3, <1>4, <1>5 DEF WalkFields
<1>7. Collects(k, n)
  BY <1>6 DEF Collects, e
<1> HIDE DEF n
<1>8. DOMAIN node = Slots
  BY DEF Shape, NodeShape
<1>9. DOMAIN node' = Slots /\ node'[k] = n /\ \A l \in Slots \ {k} : node'[l] = node[l]
  BY <1>1, <1>8
<1>10. CASE node[k].present
  <2>1. n = node[k] /\ memory' = memory
    BY <1>1, <1>10 DEF n
  <2> QED
    BY <1>1, <1>6, <1>7, <1>9, <1>10, <2>1 DEF Meets, SameNodes
<1>11. CASE ~node[k].present
  <2>1. n = NewTable(size) /\ memory' = MemoryAfterReserve(TableBank, 1)
    BY <1>1, <1>11 DEF n
  <2>2. size \in {0, 1, Group} /\ (k[2] = "Pde" => size # 0)
    BY <1>2, <1>11, UserFacts
  <2>3. IsNew(k, NewTable(size))
    BY <2>1, <2>2, TableIsNew
  <2>4. op.req.kind # "read"
    BY <1>1, <1>11, ModeIs
  <2> QED
    BY <1>1, <1>6, <1>7, <1>9, <1>11, <2>1, <2>3, <2>4 DEF Makes
<1> QED
  BY <1>10, <1>11

(* The descent from the PDP meets a PDE or makes it, or ends a read. *)
LEMMA WalkPdpDoes ==
    ASSUME Shape, UNCHANGED user, Unmapped(op), WalkPdp
    PROVE  LET k == PdeAt(op.tree, op.va)
           IN  /\ \/ Quiet /\ op.req.kind = "read"
                  \/ op'.level = "Pde" /\ (Meets(k) \/ \E n : Makes(k, n))
               /\ op'.pa = op.pa /\ StreamsStay /\ op'.pages64KB = op.pages64KB
<1> DEFINE k == PdeAt(op.tree, op.va)
<1>1. op.level = "Pdp"
  BY DEF WalkPdp, Walking
<1>2. op.tree \in 1 .. Trees /\ op.va \in Pages /\ user \in DOMAIN Users
  BY <1>1, AtLevel
<1>3. k \in Slots /\ k[2] = "Pdp"
  BY <1>2, SlotsOfPage
<1>4. WalkMissing(k) \/ VisitTable(k, 0, "Pde")
  BY DEF WalkPdp
<1> HIDE DEF k
<1>5. CASE WalkMissing(k)
  BY <1>1, <1>5, MissingDoes
<1>6. CASE VisitTable(k, 0, "Pde")
  <2>1. /\ Meets(k) \/ Makes(k, NewTable(0))
        /\ op'.pa = op.pa /\ op'.level = "Pde" /\ StreamsStay
        /\ op'.pages64KB = op.pages64KB
    BY <1>1, <1>3, <1>6, VisitDoes
  <2> QED
    BY <2>1 DEF k
<1> QED
  BY <1>4, <1>5, <1>6 DEF k

(* The descent from the PDE meets a PTE or makes it, or ends a read. *)
LEMMA WalkPdeToPteDoes ==
    ASSUME Shape, UNCHANGED user, Unmapped(op), WalkPdeToPte
    PROVE  LET k == PteAt(op.tree, op.va)
           IN  /\ \/ Quiet /\ op.req.kind = "read"
                  \/ op'.level = "Pte" /\ (Meets(k) \/ \E n : Makes(k, n))
               /\ op'.pa = op.pa /\ StreamsStay /\ op'.pages64KB = op.pages64KB
<1> DEFINE k == PteAt(op.tree, op.va)
           p == RequestedPageSize(op)
<1>1. op.level = "Pde"
  BY DEF WalkPdeToPte, Walking
<1>2. /\ op.tree \in 1 .. Trees /\ op.va \in Pages /\ user \in DOMAIN Users
      /\ TablesMet(op) /\ WalkState(op)
  BY <1>1, AtLevel
<1>3. k \in Slots /\ k[2] = "Pde" /\ node[Parent(k)].present
  BY <1>1, <1>2, SlotsOfPage, ParentsOfPage DEF TablesMet
<1>4. p \in {1, Group, PteSpan}
  BY <1>2, RequestedSizes
<1>5. \/ WalkMissing(k)
      \/ /\ IF node[k].present THEN ~Is2MB(k, node[k]) ELSE p # PteSpan
         /\ VisitTable(k, p, "Pte")
  BY DEF WalkPdeToPte
<1> HIDE DEF k, p
<1>6. CASE WalkMissing(k)
  BY <1>1, <1>6, MissingDoes
<1>7. CASE /\ IF node[k].present THEN ~Is2MB(k, node[k]) ELSE p # PteSpan
           /\ VisitTable(k, p, "Pte")
  <2>1. node[k].present \/ p \in {1, Group}
    BY <1>4, <1>7
  <2>2. /\ Meets(k) \/ Makes(k, NewTable(p))
        /\ op'.pa = op.pa /\ op'.level = "Pte" /\ StreamsStay
        /\ op'.pages64KB = op.pages64KB
    BY <1>1, <1>3, <1>4, <1>7, <2>1, VisitDoes
  <2> QED
    BY <2>2 DEF k
<1> QED
  BY <1>5, <1>6, <1>7 DEF k

(* The end of a turn, for a walker that collected what e did. *)
LEMMA AdvanceDoes ==
    ASSUME Shape, op.level \in {"Pde", "Pte"}, op.pa = NoPa, NEW e, SameWalk(e, op), e.pa = op.pa,
           NEW s \in Nat \ {0}, NEW pa, op' = Advance(e, s, pa)
    PROVE  /\ op'.pa = NoPa /\ op'.writes = e.writes /\ op'.pendingNodes = e.pendingNodes
           /\ op'.pages64KB = e.pages64KB
           /\ op'.va = op.va + Stride(op, s) /\ op'.level \in {"Commit", "Pdp"}
<1>1. /\ WalkState(op) /\ user \in DOMAIN Users /\ op.left > 0 /\ op.req.kind # "free"
  BY AtLevel
<1>2. WalkState(e) /\ e.left > 0 /\ e.req.kind # "free" /\ e.va = op.va /\ e.left = op.left
  BY <1>1, SameWalkState DEF SameWalk
<1>3. ~HasPa(e)
  BY DEF HasPa
<1>4. /\ op'.pa = NextPa(e, s, Stride(e, s)) /\ op'.writes = e.writes
      /\ op'.pendingNodes = e.pendingNodes /\ op'.va = e.va + Stride(e, s)
      /\ op'.pages64KB = e.pages64KB /\ op'.level \in {"Commit", "Pdp"}
  BY <1>1, <1>2, AdvanceFacts
<1>5. NextPa(e, s, Stride(e, s)) = NoPa
  BY <1>3 DEF NextPa
<1>6. Stride(e, s) = Stride(op, s)
  BY <1>2 DEF Stride
<1> QED
  BY <1>2, <1>4, <1>5, <1>6

(* A 2MB page that is there is passed by. *)
LEMMA WalkExisting2MBDoes ==
    ASSUME Shape, UNCHANGED user, Unmapped(op), WalkExisting2MB
    PROVE  /\ Quiet /\ op'.pa = op.pa /\ StreamsStay /\ op'.pages64KB = op.pages64KB
           /\ op'.va = op.va + Stride(op, PteSpan) /\ op'.level \in {"Commit", "Pdp"}
<1>1. op.level = "Pde" /\ op.pa = NoPa
  BY DEF WalkExisting2MB, Walking, Unmapped
<1>2. DOMAIN op = WalkFields /\ user \in DOMAIN Users
  BY <1>1, AtLevel
<1>3. /\ op' = Advance(op, PteSpan, node[PteAt(op.tree, op.va)].pa)
      /\ node' = node /\ memory' = memory /\ StreamsStay
  BY DEF WalkExisting2MB, StreamsUnchanged, StreamsStay
<1>4. SameWalk(op, op) /\ PteSpan \in Nat \ {0}
  BY <1>2, UserFacts DEF SameWalk
<1>5. /\ op'.pa = NoPa /\ op'.writes = op.writes /\ op'.pendingNodes = op.pendingNodes
      /\ op'.pages64KB = op.pages64KB
      /\ op'.va = op.va + Stride(op, PteSpan) /\ op'.level \in {"Commit", "Pdp"}
  BY <1>1, <1>3, <1>4, AdvanceDoes
<1>6. SameNodes
  BY <1>3 DEF SameNodes, Shape, NodeShape
<1> QED
  BY <1>1, <1>3, <1>5, <1>6 DEF Quiet

(* A 2MB page is made, or a read ends. *)
LEMMA Walk2MBLeafDoes ==
    ASSUME Shape, UNCHANGED user, Unmapped(op), Walk2MBLeaf
    PROVE  LET k == PteAt(op.tree, op.va)
           IN  /\ \/ Quiet /\ op.req.kind = "read"
                  \/ /\ \E n : Makes(k, n) /\ n.size = PteSpan
                     /\ op'.va = op.va + Stride(op, PteSpan) /\ op'.level \in {"Commit", "Pdp"}
                     /\ Supports2MB
               /\ op'.pa = op.pa /\ StreamsStay /\ op'.pages64KB = op.pages64KB
<1> DEFINE k == PteAt(op.tree, op.va)
           n == NewLeaf(op, PteSpan)
           e == EmitIfNeeded(op, k, n)
<1>1. op.level = "Pde" /\ op.pa = NoPa /\ ~HasPa(op)
  BY DEF Walk2MBLeaf, Walking, Unmapped, HasPa
<1>2. /\ op.tree \in 1 .. Trees /\ op.va \in Pages /\ user \in DOMAIN Users /\ op # Idle
      /\ TablesMet(op) /\ WalkState(op) /\ DOMAIN op = WalkFields
  BY <1>1, AtLevel
<1>3. k \in Slots /\ k[1] = op.tree /\ k[2] = "Pde" /\ node[Parent(k)].present
  BY <1>1, <1>2, SlotsOfPage, ParentsOfPage DEF TablesMet
<1>4. CASE WalkMissing(k)
  BY <1>1, <1>4, MissingDoes
<1>5. CASE ~WalkMissing(k)
  <2>1. RoundedUp(op) = op
    BY <1>1 DEF RoundedUp
  <2>2. /\ ~node[k].present /\ Mode(op) # "Expect"
        /\ node' = [node EXCEPT ![k] = LeafAfter(op, k, PteSpan)]
        /\ memory' = MemoryAfterLeaf(op, PteSpan)
        /\ op' = Advance(EmitIfNeeded(op, k, LeafAfter(op, k, PteSpan)), PteSpan,
                         LeafAfter(op, k, PteSpan).pa)
        /\ StreamsStay /\ RequestedPageSize(op) = PteSpan
    BY <1>1, <1>5, <2>1 DEF Walk2MBLeaf, StreamsUnchanged, StreamsStay
  <2>3. LeafAfter(op, k, PteSpan) = n
    BY <2>2 DEF LeafAfter
  <2> HIDE DEF k
  <2>4. IsNew(k, n) /\ n.size = PteSpan
    BY <1>2, <1>3, <2>2, LeafIsNew
  <2> HIDE DEF n
  <2>5. SameWalk(e, op) /\ e.pa = op.pa
    BY <1>2, EmitSame, EmitPa
  <2>6. e.pages64KB = op.pages64KB
    BY <1>2 DEF EmitIfNeeded, Emit, WalkFields
  <2>7. op' = Advance(e, PteSpan, n.pa)
    BY <2>2, <2>3
  <2>8. Collects(k, n) <=> op'.writes = e.writes /\ op'.pendingNodes = e.pendingNodes
    BY DEF Collects
  <2> HIDE DEF e
  <2>9. /\ op'.pa = NoPa /\ op'.writes = e.writes /\ op'.pendingNodes = e.pendingNodes
        /\ op'.pages64KB = e.pages64KB
        /\ op'.va = op.va + Stride(op, PteSpan) /\ op'.level \in {"Commit", "Pdp"}
    BY <1>1, <1>2, <2>5, <2>7, UserFacts, AdvanceDoes
  <2>10. DOMAIN node = Slots
    BY DEF Shape, NodeShape
  <2>11. DOMAIN node' = Slots /\ node'[k] = n /\ \A l \in Slots \ {k} : node'[l] = node[l]
    BY <1>3, <2>2, <2>3, <2>10
  <2>12. op.req.kind # "read"
    BY <2>2, ModeIs
  <2>13. Makes(k, n)
    BY <1>3, <2>2, <2>4, <2>8, <2>9, <2>11, <2>12 DEF Makes
  <2>14. Supports2MB
    BY <1>2, <2>2, RequestedSizes
  <2> QED
    BY <1>1, <2>2, <2>4, <2>6, <2>9, <2>13, <2>14 DEF k
<1> QED
  BY <1>4, <1>5

(* The slot of a small page, in its PTE. *)
LEMMA PageSlotIs ==
    ASSUME Shape, op.level = "Pte"
    PROVE  LET k == PageSlot(op)
           IN  /\ k \in Slots /\ k[1] = op.tree /\ k[2] = "Pte"
               /\ Parent(k) = PteAt(op.tree, op.va) /\ node[Parent(k)] = Pte(op)
               /\ Pte(op).present /\ Pte(op).size \in {1, Group} /\ k[3] % Pte(op).size = 0
<1>1. /\ op.tree \in 1 .. Trees /\ op.va \in Pages /\ user \in DOMAIN Users
  BY AtLevel
<1>2. Pte(op).present /\ Pte(op).size \in {1, Group}
  BY AtPte
<1>3. /\ Parent(PageSlot(op)) = PteAt(op.tree, op.va)
      /\ PageSlot(op)[3] % Pte(op).size = 0
  BY <1>1, <1>2, ParentsOfPage DEF PageSlot
<1> QED
  BY <1>2, <1>3, AtPte DEF Pte

(* A small page is met or made, or a read ends. *)
LEMMA WalkPteDoes ==
    ASSUME Shape, UNCHANGED user, Unmapped(op), WalkPte
    PROVE  LET k == PageSlot(op)
           IN  /\ \/ Quiet /\ op.req.kind = "read" /\ op'.pages64KB = op.pages64KB
                  \/ /\ \/ Meets(k) /\ op'.pages64KB = op.pages64KB
                        \/ \E n : /\ Makes(k, n)
                                  /\ op'.pages64KB = Note64KB(op, k, n).pages64KB
                     /\ op'.va = op.va + Stride(op, Pte(op).size)
                     /\ op'.level \in {"Commit", "Pdp"}
               /\ op'.pa = op.pa /\ StreamsStay
<1> DEFINE k == PageSlot(op)
           s == Pte(op).size
           n == LeafAfter(op, k, s)
           w == Note64KB(op, k, n)
           e == EmitIfNeeded(w, k, n)
<1>1. op.level = "Pte" /\ op.pa = NoPa /\ ~HasPa(op)
  BY DEF WalkPte, Walking, Unmapped, HasPa
<1>2. /\ user \in DOMAIN Users /\ op # Idle /\ WalkState(op) /\ DOMAIN op = WalkFields
  BY <1>1, AtLevel
<1>3. /\ k \in Slots /\ k[1] = op.tree /\ k[2] = "Pte" /\ node[Parent(k)].present
      /\ node[Parent(k)].size = s /\ s \in {1, Group} /\ k[3] % s = 0
  BY <1>1, PageSlotIs
<1>4. CASE WalkMissing(k)
  BY <1>1, <1>4, MissingDoes
<1>5. CASE ~WalkMissing(k)
  <2>1. /\ node[k].present \/ Mode(op) # "Expect"
        /\ node' = [node EXCEPT ![k] = n]
        /\ memory' = IF node[k].present THEN memory ELSE MemoryAfterLeaf(op, s)
        /\ op' = Advance(e, s, n.pa)
        /\ StreamsStay
    BY <1>5 DEF WalkPte, StreamsUnchanged, StreamsStay
  <2> HIDE DEF k, s
  <2>2. /\ e.pa = op.pa /\ e.writes = EmitIfNeeded(op, k, n).writes
        /\ e.pendingNodes = EmitIfNeeded(op, k, n).pendingNodes
    BY <1>2, EmitPa
  <2> HIDE DEF n
  <2>3. SameWalk(w, op)
    BY <1>2, EmitSame
  <2> HIDE DEF w
  <2>4. DOMAIN w = WalkFields
    BY <2>3 DEF SameWalk
  <2>5. SameWalk(e, w) /\ e.pages64KB = w.pages64KB
    <3>1. e.pages64KB = w.pages64KB
      BY <2>4 DEF EmitIfNeeded, Emit, WalkFields
    <3> QED
      BY <2>4, <3>1, EmitSame
  <2> HIDE DEF e
  <2>6. SameWalk(e, op)
    BY <2>3, <2>5, SameWalkChain
  <2>7. s \in Nat \ {0}
    BY <1>2, <1>3, UserFacts
  <2>8. /\ op'.pa = NoPa /\ op'.writes = e.writes /\ op'.pendingNodes = e.pendingNodes
        /\ op'.pages64KB = e.pages64KB
        /\ op'.va = op.va + Stride(op, s) /\ op'.level \in {"Commit", "Pdp"}
    BY <1>1, <2>1, <2>2, <2>6, <2>7, AdvanceDoes
  <2>9. Collects(k, n)
    BY <2>2, <2>8 DEF Collects
  <2>10. DOMAIN node = Slots
    BY DEF Shape, NodeShape
  <2>11. DOMAIN node' = Slots /\ node'[k] = n /\ \A l \in Slots \ {k} : node'[l] = node[l]
    BY <1>3, <2>1, <2>10
  <2>12. op'.pages64KB = Note64KB(op, k, n).pages64KB
    BY <2>5, <2>8 DEF w
  <2>13. CASE node[k].present
    <3>1. n = node[k]
      BY <1>1, <2>13, LeafStays DEF n
    <3>2. Meets(k)
      BY <1>3, <2>1, <2>9, <2>11, <2>13, <3>1 DEF Meets, SameNodes
    <3>3. op'.pages64KB = op.pages64KB
      BY <2>12, <2>13 DEF Note64KB
    <3> QED
      BY <1>1, <2>1, <2>8, <3>2, <3>3 DEF k, s
  <2>14. CASE ~node[k].present
    <3>1. n = NewLeaf(op, s)
      BY <2>14 DEF LeafAfter, n
    <3>2. memory' = MemoryAfterLeaf(op, s)
      BY <2>1, <2>14
    <3>3. IsNew(k, NewLeaf(op, s))
      BY <1>2, <1>3, <3>2, LeafIsNew
    <3>4. op.req.kind # "read"
      BY <2>1, <2>14, ModeIs
    <3>5. Makes(k, n)
      BY <1>3, <2>9, <2>11, <2>14, <3>1, <3>3, <3>4 DEF Makes
    <3> QED
      BY <1>1, <2>1, <2>8, <2>12, <3>5 DEF k, s
  <2> QED
    BY <2>13, <2>14
<1> QED
  BY <1>4, <1>5

(* A PS64 group leaves the address of a map alone. *)
LEMMA Ps64GroupPa ==
    ASSUME NEW o, DOMAIN o = WalkFields, NEW k, NEW nodes
    PROVE  Ps64Group(o, k, nodes).op.pa = o.pa
<1> DEFINE group == GroupSlots(o.tree, o.va)
           full == CompleteGroup(o, group, nodes)
           broken == BreakGroup(o, group, nodes)
           part == PartialGroup(o, k, nodes)
<1>1. \/ Ps64Group(o, k, nodes) = full
      \/ Ps64Group(o, k, nodes) = broken
      \/ Ps64Group(o, k, nodes) = part
  BY Zenon DEF Ps64Group
<1>2. ASSUME NEW ks, NEW new
      PROVE  EmitAll(o, ks, new).pa = o.pa
  BY DEF EmitAll, WalkFields
<1>3. ASSUME NEW n
      PROVE  Emit(o, k, n).pa = o.pa
  BY DEF Emit, WalkFields
<1>4. full.op.pa = o.pa
  BY <1>2 DEF CompleteGroup
<1>5. broken.op.pa = o.pa
  BY <1>2 DEF BreakGroup
<1>6. part.op.pa = o.pa
  BY <1>3 DEF PartialGroup
<1> QED
  BY <1>1, <1>4, <1>5, <1>6

(* Nodes that are the same form the same tree. *)
LEMMA SameNodesSameTree ==
    ASSUME Shape, NEW new, DOMAIN new = Slots, \A k \in Slots : new[k] = node[k]
    PROVE  SameTree(new, node)
BY DEF SameTree, Shape, NodeShape

(* A turn of a walk, as far as memory and the tree go: nothing but the bits of
   nodes changes, or one new node is hung into the tree. *)
Grows ==
    \/ SameTree(node', node) /\ memory' = memory
    \/ \E k \in Slots : \E n, mid :
         /\ ~node[k].present
         /\ DOMAIN mid = Slots /\ mid[k] = n /\ \A l \in Slots \ {k} : mid[l] = node[l]
         /\ IsNew(k, n)
         /\ SameTree(node', mid)

(* A turn that makes nothing leaves the tree as it is. *)
LEMMA QuietGrows ==
    ASSUME Shape, Quiet \/ \E k : Meets(k)
    PROVE  Grows
<1>1. SameNodes /\ memory' = memory
  BY DEF Quiet, Meets
<1> QED
  BY <1>1, SameNodesSameTree DEF SameNodes, Grows

(* A turn that makes a node hangs it into the tree. *)
LEMMA MakesGrows ==
    ASSUME Shape, NEW k, NEW n, Makes(k, n)
    PROVE  Grows
<1>1. /\ k \in Slots /\ ~node[k].present
      /\ DOMAIN node' = Slots /\ node'[k] = n /\ \A l \in Slots \ {k} : node'[l] = node[l]
      /\ IsNew(k, n)
  BY DEF Makes
<1>2. SameTree(node', node')
  <2>1. \A l \in Slots : DOMAIN node'[l] = NodeFields
    BY <1>1 DEF IsNew, Shape, NodeShape
  <2> QED
    BY <1>1, <2>1 DEF SameTree
<1> QED
  BY <1>1, <1>2 DEF Grows

(* With PS64 a turn makes at most the page it is at. *)
LEMMA WalkPtePs64Grows ==
    ASSUME Shape, UNCHANGED user, Unmapped(op), WalkPtePs64
    PROVE  Grows /\ op'.pa = op.pa
<1> DEFINE k == PageSlot(op)
           n == LeafAfter(op, k, 1)
           nodes == [node EXCEPT ![k] = n]
           r == Ps64Group(op, k, nodes)
<1>1. op.level = "Pte" /\ op.pa = NoPa /\ ~HasPa(op) /\ Pte(op).size = 1
  BY DEF WalkPtePs64, Walking, Unmapped, HasPa, CheckPs64
<1>2. /\ user \in DOMAIN Users /\ op # Idle /\ WalkState(op) /\ DOMAIN op = WalkFields
  BY <1>1, AtLevel
<1>3. /\ k \in Slots /\ k[1] = op.tree /\ k[2] = "Pte" /\ node[Parent(k)].present
      /\ node[Parent(k)].size = 1 /\ k[3] % 1 = 0
  BY <1>1, PageSlotIs
<1>4. /\ node' = r.nodes
      /\ op' = Advance(r.op, 1, n.pa)
      /\ memory' = IF node[k].present THEN memory ELSE MemoryAfterLeaf(op, 1)
  BY DEF WalkPtePs64
<1> HIDE DEF k
<1>5. DOMAIN node = Slots /\ DOMAIN node[k] = NodeFields /\ node[k].present \in BOOLEAN
  BY <1>3 DEF Shape, NodeShape
<1>6. DOMAIN n = NodeFields
  BY <1>5, LeafFacts
<1> HIDE DEF n
<1>7. nodes[k] = n /\ DOMAIN nodes = Slots /\ \A l \in Slots \ {k} : nodes[l] = node[l]
  BY <1>3, <1>5
<1> HIDE DEF nodes
<1>8. \A l \in Slots : DOMAIN nodes[l] = NodeFields
  BY <1>6, <1>7 DEF Shape, NodeShape
<1>9. SameWalk(r.op, op) /\ SameTree(r.nodes, nodes) /\ r.op.pa = op.pa
  BY <1>2, <1>3, <1>7, <1>8, Ps64GroupSame, Ps64GroupPa
<1> HIDE DEF r
<1>10. op'.pa = op.pa
  BY <1>1, <1>4, <1>9, AdvanceDoes
<1>11. CASE node[k].present
  <2>1. n = node[k]
    BY <1>1, <1>11, LeafStays DEF n
  <2>2. \A l \in Slots : nodes[l] = node[l]
    BY <1>7, <2>1
  <2>3. SameTree(node', node)
    BY <1>4, <1>9, <2>2 DEF SameTree
  <2> QED
    BY <1>4, <1>10, <1>11, <2>3 DEF Grows
<1>12. CASE ~node[k].present
  <2>1. n = NewLeaf(op, 1) /\ memory' = MemoryAfterLeaf(op, 1)
    BY <1>4, <1>12 DEF LeafAfter, n
  <2>2. IsNew(k, n)
    BY <1>2, <1>3, <2>1, LeafIsNew
  <2>3. SameTree(node', nodes)
    BY <1>4, <1>9
  <2> QED
    BY <1>3, <1>7, <1>10, <1>12, <2>2, <2>3 DEF Grows
<1> QED
  BY <1>11, <1>12

(* Every turn of a walk leaves the tree as it is, or hangs one node into it. *)
LEMMA WalkGrows ==
    ASSUME Shape, UNCHANGED user, Unmapped(op), Walk
    PROVE  Grows /\ op'.pa = op.pa
<1>1. CASE WalkPdp
  BY <1>1, WalkPdpDoes, QuietGrows, MakesGrows
<1>2. CASE WalkPdeToPte
  BY <1>2, WalkPdeToPteDoes, QuietGrows, MakesGrows
<1>3. CASE WalkExisting2MB
  BY <1>3, WalkExisting2MBDoes, QuietGrows
<1>4. CASE Walk2MBLeaf
  BY <1>4, Walk2MBLeafDoes, QuietGrows, MakesGrows
<1>5. CASE WalkPte
  BY <1>5, WalkPteDoes, QuietGrows, MakesGrows
<1>6. CASE WalkPtePs64
  BY <1>6, WalkPtePs64Grows
<1> QED
  BY <1>1, <1>2, <1>3, <1>4, <1>5, <1>6 DEF Walk

-----------------------------------------------------------------------------
(* What is shared with the first tree is in the others. *)
SharedAbove(nodes) ==
    \A k \in Slots : nodes[k].present /\ ~nodes[k].owned => k[1] > 1

Kept(mem, nodes) == Tree(nodes) /\ Accounted(mem, nodes) /\ SharedAbove(nodes)

(* What is kept does not depend on PS64 and on what waits. *)
LEMMA KeptSame ==
    ASSUME user \in DOMAIN Users, NEW mem, NEW nodes, Kept(mem, nodes), NEW new,
           SameTree(new, nodes)
    PROVE  Kept(mem, new)
<1>1. Tree(new) /\ Accounted(mem, new)
  BY TreeSame, OwnersSame DEF Kept
<1>2. SharedAbove(new)
  BY DEF SharedAbove, SameTree, Kept
<1> QED
  BY <1>1, <1>2 DEF Kept

(* A tree that grows by a node keeps its memory accounted for. *)
LEMMA GrowsKeeps ==
    ASSUME Shape, Kept(memory, node), Grows
    PROVE  Kept(memory', node')
<1>0. user \in DOMAIN Users
  BY DEF Shape
<1>1. CASE SameTree(node', node) /\ memory' = memory
  BY <1>0, <1>1, KeptSame
<1>2. ASSUME NEW k \in Slots, NEW n, NEW mid, ~node[k].present,
             DOMAIN mid = Slots, mid[k] = n, \A l \in Slots \ {k} : mid[l] = node[l],
             IsNew(k, n), SameTree(node', mid)
      PROVE  Kept(memory', node')
  <2>1. Tree(node) /\ Accounted(memory, node) /\ SharedAbove(node)
    BY DEF Kept
  <2>2. ~Owner(node[k])
    BY <1>2 DEF Owner
  <2>3. Tree(mid)
    <3>1. /\ DOMAIN mid[k] = NodeFields /\ mid[k].present = TRUE /\ mid[k].owned \in BOOLEAN
          /\ k[2] = "Pde" => node[Parent(k)].present /\ mid[k].size \in {1, Group, PteSpan}
          /\ k[2] = "Pte" => /\ node[Parent(k)].present /\ node[Parent(k)].size \in {1, Group}
                             /\ mid[k].size = node[Parent(k)].size
                             /\ k[3] % mid[k].size = 0
          /\ ~IsLeaf(k, mid[k]) => mid[k].owned /\ mid[k].bank = TableBank
      BY <1>2 DEF IsNew
    <3> QED
      BY <1>0, <1>2, <2>1, <3>1, TreeAdded
  <2>4. SharedAbove(mid)
    <3>1. ASSUME NEW l \in Slots, mid[l].present, ~mid[l].owned
          PROVE  l[1] > 1
      <4>1. CASE l = k
        BY <1>2, <3>1, <4>1 DEF IsNew
      <4>2. CASE l # k
        BY <1>2, <2>1, <3>1, <4>2 DEF SharedAbove
      <4> QED
        BY <4>1, <4>2
    <3> QED
      BY <3>1 DEF SharedAbove
  <2>5. Accounted(memory', mid)
    <3>1. CASE n.owned
      <4> DEFINE b == n.bank
                 s == BlockOf(k, n).size
      <4>1. /\ b \in DOMAIN InitialMemory /\ s \in Nat \ {0} /\ Owner(n)
            /\ n.pa = AllocatedBlock(memory[b], s, s).addr
            /\ memory' = [memory EXCEPT ![b] = AlignedAlloc(@, s, s)]
        BY <1>2, <3>1 DEF IsNew, Reserve, MemoryAfterReserve, Owner
      <4> QED
        BY <1>2, <2>1, <2>2, <4>1, OwnerAdded
    <3>2. CASE ~n.owned
      <4>1. memory' = memory /\ ~Owner(mid[k])
        BY <1>2, <3>2 DEF IsNew, Owner
      <4>2. memory' = IF Owner(node[k])
                      THEN [memory EXCEPT ![node[k].bank] = AlignedFree(@, node[k].pa)]
                      ELSE memory
        BY <2>2, <4>1
      <4> QED
        BY <1>2, <2>1, <4>1, <4>2, OwnerDropped
    <3> QED
      BY <3>1, <3>2
  <2>6. Kept(memory', mid)
    BY <2>3, <2>4, <2>5 DEF Kept
  <2> QED
    BY <1>0, <1>2, <2>6, KeptSame
<1> QED
  BY <1>1, <1>2 DEF Grows

(* No node that is there lies in the table in slot k. *)
Childless(nodes, k) == \A l \in Slots : l[2] # "Pdp" /\ nodes[l].present => Parent(l) # k

(* A node without children gives back its memory and goes. *)
LEMMA KeptDropped ==
    ASSUME user \in DOMAIN Users, NEW mem, NEW nodes, Kept(mem, nodes),
           NEW k \in Slots, Childless(nodes, k), NEW new, DOMAIN new = Slots, new[k] = NoNode,
           \A l \in Slots \ {k} : new[l] = nodes[l],
           NEW mem2, mem2 = Delete(mem, nodes[k])
    PROVE  Kept(mem2, new)
<1>1. Tree(nodes) /\ Accounted(mem, nodes) /\ SharedAbove(nodes)
  BY DEF Kept
<1>2. nodes[k].owned => nodes[k].present
  BY <1>1 DEF Tree
<1>3. Tree(new)
  BY <1>1, TreeDropped DEF Childless
<1>4. mem2 = IF Owner(nodes[k])
             THEN [mem EXCEPT ![nodes[k].bank] = AlignedFree(@, nodes[k].pa)]
             ELSE mem
  BY <1>2 DEF Delete, Owner
<1>5. ~Owner(new[k])
  BY NoNodeIs DEF Owner
<1>6. Accounted(mem2, new)
  BY <1>1, <1>4, <1>5, OwnerDropped
<1>7. SharedAbove(new)
  BY <1>1, NoNodeIs DEF SharedAbove
<1> QED
  BY <1>3, <1>6, <1>7 DEF Kept

(* Nodes go that are there, and with a table goes what lies in it; others may lose PS64. *)
Frees(gone, lose) ==
    /\ gone \subseteq Slots /\ \A k \in gone : node[k].present
    /\ \A l \in Slots : l[2] # "Pdp" /\ Parent(l) \in gone /\ node[l].present => l \in gone
    /\ node' = [k \in Slots |-> IF k \in gone THEN NoNode
                                ELSE IF k \in lose THEN [node[k] EXCEPT !.ps64 = FALSE]
                                ELSE node[k]]

(* Freeing a 2MB page keeps memory accounted for, and takes at most the page and its PDE. *)
LEMMA Free2MBFrees ==
    ASSUME Shape, Kept(memory, node), Free2MB
    PROVE  /\ Kept(memory', node') /\ op'.pa = op.pa
           /\ \E gone : /\ Frees(gone, {}) /\ op'.writes = Overlay(op.writes, Zeros(gone))
                        /\ gone \subseteq {PteAt(op.tree, op.va), PdeAt(op.tree, op.va)}
<1> DEFINE pde == PdeAt(op.tree, op.va)
           page == PteAt(op.tree, op.va)
           last == \A i \in 0 .. PdpSlots * PdeSlots - 1 :
                      LET k == <<op.tree, "Pde", i>>
                      IN  i \div PdeSlots = pde[3] /\ k # page => ~node[k].present
           gone == IF last THEN {page, pde} ELSE {page}
           m == Delete(memory, node[page])
           w == Overlay(op.writes, Zeros(gone))
<1>1. /\ op.level = "Free" /\ node[page].present /\ Is2MB(page, node[page]) /\ node[pde].present
      /\ node' = [k \in Slots |-> IF k \in gone THEN NoNode ELSE node[k]]
      /\ memory' = IF last THEN Delete(m, node[pde]) ELSE m
      /\ op' = AdvanceFree([op EXCEPT !.writes = w], PteSpan)
  BY DEF Free2MB, Walking
<1>2. WalkState(op) /\ DOMAIN op = WalkFields /\ user \in DOMAIN Users
      /\ op.tree \in 1 .. Trees /\ op.va \in Pages
  BY <1>1, AtLevel
<1>3. /\ page \in Slots /\ page[1] = op.tree /\ page[2] = "Pde" /\ node[page].size = PteSpan
      /\ pde \in Slots /\ pde[1] = op.tree /\ pde[2] = "Pdp" /\ Parent(page) = pde
  BY <1>1, <1>2, SlotsOfPage, ParentsOfPage DEF Is2MB
<1>4. op'.pa = op.pa /\ op'.writes = w
  <2> HIDE DEF w
  <2> QED
    BY <1>1, <1>2 DEF AdvanceFree, WalkFields
<1> HIDE DEF w, page, pde
<1>5. Tree(node)
  BY DEF Kept
<1>6. Childless(node, page)
  <2>1. ASSUME NEW l \in Slots, l[2] # "Pdp", node[l].present, Parent(l) = page
        PROVE  FALSE
    <3>1. l[2] = "Pte"
      BY <1>3, <2>1, ParentIsSlot, SlotIs, <1>2
    <3>2. node[page].size \in {1, Group}
      BY <1>5, <2>1, <3>1 DEF Tree, Placed
    <3> QED
      BY <1>2, <1>3, <3>2, UserFacts
  <2> QED
    BY <2>1 DEF Childless
<1> DEFINE mid == [k \in Slots |-> IF k = page THEN NoNode ELSE node[k]]
<1>7. Kept(m, mid)
  BY <1>2, <1>3, <1>6, KeptDropped
<1>8. CASE last
  <2>1. ASSUME NEW l \in Slots, l[2] # "Pdp", node[l].present, Parent(l) = pde
        PROVE  l = page
    <3>1. l[2] = "Pde" /\ l[1] = op.tree
      BY <1>3, <2>1, ParentIsSlot, SlotIs, <1>2
    <3>2. l = <<op.tree, "Pde", l[3]>> /\ l[3] \in 0 .. PdpSlots * PdeSlots - 1
      BY <3>1, SlotIs
    <3>3. l[3] \div PdeSlots = pde[3]
      BY <2>1, <3>1 DEF Parent
    <3> QED
      BY <1>8, <2>1, <3>2, <3>3
  <2>2. Childless(mid, pde)
    <3>1. ASSUME NEW l \in Slots, l[2] # "Pdp", mid[l].present, Parent(l) = pde
          PROVE  FALSE
      <4>1. l # page /\ node[l].present
        BY <3>1, NoNodeIs
      <4> QED
        BY <2>1, <3>1, <4>1
    <3> QED
      BY <3>1 DEF Childless
  <2>3. pde # page /\ mid[pde] = node[pde]
    BY <1>3
  <2>4. /\ DOMAIN node' = Slots /\ node'[pde] = NoNode
        /\ \A l \in Slots \ {pde} : node'[l] = mid[l]
    BY <1>1, <1>3, <1>8
  <2>5. memory' = Delete(m, mid[pde])
    BY <1>1, <1>8, <2>3
  <2> HIDE DEF mid, m
  <2>6. Kept(memory', node')
    BY <1>2, <1>3, <1>7, <2>2, <2>4, <2>5, KeptDropped
  <2>7. \A l \in Slots : l[2] # "Pdp" /\ Parent(l) \in gone /\ node[l].present => l \in gone
    BY <1>6, <1>8, <2>1 DEF Childless
  <2>8. gone \subseteq Slots /\ \A k \in gone : node[k].present
    BY <1>1, <1>3
  <2>9. node' = [k \in Slots |-> IF k \in gone THEN NoNode
                                 ELSE IF k \in {} THEN [node[k] EXCEPT !.ps64 = FALSE]
                                 ELSE node[k]]
    BY <1>1
  <2>10. Frees(gone, {})
    BY <2>7, <2>8, <2>9 DEF Frees
  <2> QED
    BY <1>4, <2>6, <2>10 DEF w, page, pde
<1>9. CASE ~last
  <2>1. gone = {page}
    BY <1>9
  <2>2. node' = mid /\ memory' = m
    BY <1>1, <1>9
  <2> HIDE DEF mid, m, last
  <2>3. \A l \in Slots : l[2] # "Pdp" /\ Parent(l) \in gone /\ node[l].present => l \in gone
    BY <1>6, <2>1 DEF Childless
  <2>4. gone \subseteq Slots /\ \A k \in gone : node[k].present
    BY <1>1, <1>3, <2>1
  <2>5. node' = [k \in Slots |-> IF k \in gone THEN NoNode
                                 ELSE IF k \in {} THEN [node[k] EXCEPT !.ps64 = FALSE]
                                 ELSE node[k]]
    BY <1>1
  <2>6. Frees(gone, {})
    BY <2>3, <2>4, <2>5 DEF Frees
  <2> QED
    BY <1>4, <1>7, <2>1, <2>2, <2>6 DEF w, page, pde
<1> QED
  BY <1>8, <1>9

(* What a turn of freeMemory at a small page does. *)
LosesAt(page) == IF node[page].ps64 THEN LosePs64(op, page) ELSE {}

(* Freeing a small page keeps memory accounted for, and takes at most the page and its PTE. *)
LEMMA FreePageFrees ==
    ASSUME Shape, Kept(memory, node), FreePage
    PROVE  /\ Kept(memory', node') /\ op'.pa = op.pa
           /\ \E gone :
                /\ Frees(gone, LosesAt(PageSlot(op)))
                /\ op'.writes = Overlay(Overlay(op.writes, Zeros(gone)),
                                        Entries(LosesAt(PageSlot(op)), node'))
                /\ gone \subseteq {PageSlot(op), PteAt(op.tree, op.va)}
           /\ PageSlot(op) \in Slots
<1> DEFINE slot == PteAt(op.tree, op.va)
           page == PageSlot(op)
           lose == LosesAt(page)
           last == \A i \in 0 .. VaPages - 1 :
                      LET k == <<op.tree, "Pte", i>>
                      IN  i \div PteSpan = slot[3] /\ k # page => ~node[k].present
           gone == (IF node[page].present THEN {page} ELSE {}) \cup (IF last THEN {slot} ELSE {})
           new == [k \in Slots |-> IF k \in gone THEN NoNode
                                   ELSE IF k \in lose THEN [node[k] EXCEPT !.ps64 = FALSE]
                                   ELSE node[k]]
           w == Overlay(Overlay(op.writes, Zeros(gone)), Entries(lose, new))
           m == Delete(memory, node[page])
           mid == [k \in Slots |-> IF k = page THEN NoNode ELSE node[k]]
           mid2 == [k \in Slots |-> IF k \in gone THEN NoNode ELSE node[k]]
<1>1. /\ op.level = "Free" /\ node[slot].present /\ ~Is2MB(slot, node[slot])
      /\ node' = new
      /\ memory' = IF last THEN Delete(m, node[slot]) ELSE m
      /\ op' = AdvanceFree([op EXCEPT !.writes = w], node[slot].size)
  BY Zenon DEF FreePage, Walking, LosesAt
<1>2. WalkState(op) /\ DOMAIN op = WalkFields /\ user \in DOMAIN Users
      /\ op.tree \in 1 .. Trees /\ op.va \in Pages
  BY <1>1, AtLevel
<1>3. slot \in Slots /\ slot[1] = op.tree /\ slot[2] = "Pde"
  BY <1>2, SlotsOfPage
<1>4. node[slot].size \in {1, Group}
  BY <1>1, <1>3 DEF Is2MB, Shape, NodeShape
<1>5. node[slot].size \in Nat \ {0}
  BY <1>2, <1>4, UserFacts
<1>6. page = PageAt(op.tree, op.va, node[slot].size)
  BY DEF PageSlot, Pte
<1>7. page \in Slots /\ page[1] = op.tree /\ page[2] = "Pte" /\ Parent(page) = slot
  BY <1>2, <1>4, <1>5, <1>6, SlotsOfPage, ParentsOfPage
<1>8. op'.pa = op.pa /\ op'.writes = w
  <2> HIDE DEF w
  <2> QED
    BY <1>1, <1>2 DEF AdvanceFree, WalkFields
<1>9. w = Overlay(Overlay(op.writes, Zeros(gone)), Entries(lose, node'))
  BY <1>1
<1> HIDE DEF w, page, slot, lose
<1>10. Tree(node)
  BY DEF Kept
<1>11. Childless(node, page)
  <2>1. ASSUME NEW l \in Slots, l[2] # "Pdp", Parent(l) = page
        PROVE  FALSE
    BY <1>2, <1>7, <2>1, ParentIsSlot, SlotIs
  <2> QED
    BY <2>1 DEF Childless
<1>12. Kept(m, mid)
  BY <1>2, <1>7, <1>11, KeptDropped
<1>13. ASSUME last, NEW l \in Slots, l[2] # "Pdp", node[l].present, Parent(l) = slot
       PROVE  l = page
  <2>1. l[2] = "Pte" /\ l[1] = op.tree
    BY <1>3, <1>13, ParentIsSlot, SlotIs, <1>2
  <2>2. l = <<op.tree, "Pte", l[3]>> /\ l[3] \in 0 .. VaPages - 1
    BY <2>1, SlotIs
  <2>3. l[3] \div PteSpan = slot[3]
    BY <1>13, <2>1 DEF Parent
  <2> QED
    BY <1>13, <2>2, <2>3
<1>14. page # slot
  BY <1>3, <1>7
<1>15. node[page].present \in BOOLEAN
  BY <1>7 DEF Shape, NodeShape
<1>16. \A l \in Slots : l[2] # "Pdp" /\ Parent(l) \in gone /\ node[l].present => l \in gone
  <2>1. ASSUME NEW l \in Slots, l[2] # "Pdp", Parent(l) \in gone, node[l].present
        PROVE  l \in gone
    <3>1. Parent(l) # page
      BY <1>11, <2>1 DEF Childless
    <3>2. last /\ Parent(l) = slot
      BY <2>1, <3>1
    <3>3. l = page
      BY <1>13, <2>1, <3>2
    <3> QED
      BY <2>1, <3>3
  <2> QED
    BY <2>1
<1>17. gone \subseteq Slots /\ \A k \in gone : node[k].present
  BY <1>1, <1>3, <1>7
<1>18. Frees(gone, lose)
  BY <1>1, <1>16, <1>17 DEF Frees
<1>19. node[page].present \/ node[page].owned = FALSE
  BY <1>7, <1>10 DEF Tree
<1>20. Kept(memory', mid2)
  <2>2. Kept(m, mid) => mid[slot] = node[slot]
    BY <1>3, <1>14
  <2>3. CASE last
    <3>1. Childless(mid, slot)
      <4>1. ASSUME NEW l \in Slots, l[2] # "Pdp", mid[l].present, Parent(l) = slot
            PROVE  FALSE
        <5>1. l # page /\ node[l].present
          BY <4>1, NoNodeIs
        <5> QED
          BY <1>13, <2>3, <4>1, <5>1
      <4> QED
        BY <4>1 DEF Childless
    <3> DEFINE end == [k \in Slots |-> IF k \in {page, slot} THEN NoNode ELSE node[k]]
    <3>2. /\ DOMAIN end = Slots /\ end[slot] = NoNode
          /\ \A l \in Slots \ {slot} : end[l] = mid[l]
      BY <1>3
    <3>3. memory' = Delete(m, mid[slot])
      BY <1>1, <1>12, <2>2, <2>3
    <3>4. Kept(memory', end)
      <4> HIDE DEF mid, m, end
      <4> QED
        BY <1>2, <1>3, <1>12, <3>1, <3>2, <3>3, KeptDropped
    <3>5. CASE node[page].present
      <4>1. mid2 = end
        BY <2>3, <3>5
      <4> QED
        BY <3>4, <4>1
    <3>6. CASE ~node[page].present
      <4>1. /\ DOMAIN mid2 = Slots /\ mid2[slot] = NoNode
            /\ \A l \in Slots \ {slot} : mid2[l] = node[l]
        BY <1>3, <2>3, <3>6
      <4>2. Childless(node, slot)
        BY <1>13, <2>3, <3>6 DEF Childless
      <4>3. m = memory
        BY <1>19, <3>6 DEF Delete
      <4>4. memory' = Delete(memory, node[slot])
        BY <1>1, <2>3, <4>3
      <4> HIDE DEF mid2
      <4> QED
        BY <1>2, <1>3, <4>1, <4>2, <4>4, KeptDropped
    <3> QED
      BY <3>5, <3>6
  <2>4. CASE ~last
    <3>1. CASE node[page].present
      <4>1. mid2 = mid
        BY <2>4, <3>1
      <4> QED
        BY <1>1, <1>12, <2>4, <4>1
    <3>2. CASE ~node[page].present
      <4>1. m = memory
        BY <1>19, <3>2 DEF Delete
      <4>2. DOMAIN mid2 = Slots /\ \A k \in Slots : mid2[k] = node[k]
        BY <2>4, <3>2
      <4>3. memory' = memory
        BY <1>1, <2>4, <4>1
      <4> HIDE DEF mid2
      <4>4. SameTree(mid2, node)
        BY <4>2, SameNodesSameTree
      <4> QED
        BY <1>2, <4>3, <4>4, KeptSame
    <3> QED
      BY <3>1, <3>2
  <2> QED
    BY <2>3, <2>4
<1>21. SameTree(node', mid2)
  <2> HIDE DEF gone
  <2>1. ASSUME NEW k \in Slots
        PROVE  /\ DOMAIN node'[k] = NodeFields
               /\ node'[k].present = mid2[k].present /\ node'[k].pa = mid2[k].pa
               /\ node'[k].bank = mid2[k].bank /\ node'[k].owned = mid2[k].owned
               /\ node'[k].size = mid2[k].size /\ node'[k].flags = mid2[k].flags
    <3>1. DOMAIN node[k] = NodeFields
      BY DEF Shape, NodeShape
    <3>2. CASE k \in gone
      BY <1>1, <3>2, NoNodeIs
    <3>3. CASE k \notin gone /\ k \in lose
      BY <1>1, <3>1, <3>3 DEF NodeFields
    <3>4. CASE k \notin gone /\ k \notin lose
      BY <1>1, <3>1, <3>4
    <3> QED
      BY <3>2, <3>3, <3>4
  <2> QED
    BY <1>1, <2>1 DEF SameTree
<1>22. Kept(memory', node')
  <2> HIDE DEF mid2
  <2> QED
    BY <1>2, <1>20, <1>21, KeptSame
<1>23. /\ Frees(gone, lose) /\ gone \subseteq {page, slot}
       /\ op'.writes = Overlay(Overlay(op.writes, Zeros(gone)), Entries(lose, node'))
  BY <1>8, <1>9, <1>18
<1> HIDE DEF gone
<1> QED
  BY <1>7, <1>8, <1>22, <1>23 DEF page, slot, lose

-----------------------------------------------------------------------------
(* Users that do not map: memory is accounted for at every step *)
MemoryKept == ~Maps => Kept(memory, node) /\ (op = Idle \/ op.pa = NoPa)

(* The user stays, and with it what is meant by the tree and its owners. *)
LEMMA KeptPrime ==
    ASSUME UNCHANGED user, Kept(memory', node')
    PROVE  Kept(memory, node)'
<1>1. /\ Slots' = Slots /\ Group' = Group /\ PteSpan' = PteSpan /\ PdeSlots' = PdeSlots
  BY SameUser
<1>2. ASSUME NEW k, NEW n
      PROVE  /\ (IsLeaf(k, n) <=> (k[2] = "Pte" \/ (k[2] = "Pde" /\ n.size = PteSpan)))
             /\ IsLeaf(k, n)' = IsLeaf(k, n)
             /\ BlockOf(k, n)' = BlockOf(k, n)
             /\ Owner(n)' = Owner(n)
             /\ Parent(k)' = Parent(k)
  BY <1>1 DEF IsLeaf, Is2MB, BlockOf, Parent, Owner
<1>3. Tree(node)'
  BY <1>1, <1>2 DEF Kept, Tree, Placed
<1>4. SharedAbove(node)'
  BY <1>1 DEF Kept, SharedAbove
<1>5. Accounted(memory, node)'
  <2>1. SoundMemory(memory)' /\ UserKeeps(memory)'
    BY DEF Kept, Accounted, SoundMemory, UserKeeps
  <2>2. OwnersHold(memory, node)'
    BY <1>1, <1>2 DEF Kept, Accounted, OwnersHold
  <2>3. UsedIsOwned(memory, node)'
    BY <1>1, <1>2 DEF Kept, Accounted, UsedIsOwned
  <2>4. OwnersApart(node)'
    BY <1>1, <1>2 DEF Kept, Accounted, OwnersApart
  <2> QED
    BY <2>1, <2>2, <2>3, <2>4 DEF Accounted
<1> QED
  BY <1>3, <1>4, <1>5 DEF Kept

(* A request of a user that does not map has no address of its choosing. *)
LEMMA NoMapPa ==
    ASSUME user \in DOMAIN Users, ~Maps, NEW r \in Requests
    PROVE  r.pa = NoPa
BY RequestFacts DEF Maps

(* Nor has what it asks of the next tree. *)
LEMMA NextTreePa ==
    ASSUME user \in DOMAIN Users, ~Maps, NEW o, WalkState(o)
    PROVE  NextTree(o) = Idle \/ NextTree(o).pa = NoPa
<1>1. o.req \in Requests
  BY DEF WalkState
<1>2. CASE o.tree < o.req.last
  <2>1. NextTree(o) = NewWalk(o.req, o.tree + 1, o.infos)
    BY <1>2 DEF NextTree
  <2>2. NextTree(o).pa = o.req.pa
    BY <2>1 DEF NewWalk
  <2> QED
    BY <1>1, <2>2, NoMapPa
<1>3. CASE ~(o.tree < o.req.last)
  BY <1>3 DEF NextTree
<1> QED
  BY <1>2, <1>3

(* What ends a walk leaves the tree as it is. *)
LEMMA CommitSame ==
    ASSUME Shape, Commit \/ EndRead \/ FreeReturn \/ FreeCommit
    PROVE  SameTree(node', node) /\ memory' = memory /\ op' = NextTree(op) /\ WalkState(op)
<1>1. op.level \in {"Commit", "Free", "FreeCommit"} /\ op' = NextTree(op) /\ memory' = memory
  BY DEF Commit, EndRead, FreeReturn, FreeCommit, Walking
<1>2. WalkState(op)
  BY <1>1, AtLevel
<1>3. CASE Commit
  <2>1. node' = [k \in Slots |-> IF FullyCommitted /\ k \in op.pendingNodes
                                 THEN [node[k] EXCEPT !.pending = FALSE]
                                 ELSE node[k]]
    BY <1>3 DEF Commit
  <2>2. SameTree(node', node)
    BY <2>1 DEF SameTree, Shape, NodeShape, NodeFields
  <2> QED
    BY <1>1, <1>2, <2>2
<1>4. CASE EndRead \/ FreeReturn \/ FreeCommit
  <2>1. node' = node
    BY <1>4 DEF EndRead, FreeReturn, FreeCommit
  <2>2. SameTree(node', node)
    BY <2>1, SameNodesSameTree DEF Shape, NodeShape
  <2> QED
    BY <1>1, <1>2, <2>2
<1> QED
  BY <1>3, <1>4

(* Every step of a request keeps memory accounted for. *)
LEMMA WorkKeepsMemory ==
    ASSUME Shape, UNCHANGED user, ~Maps, Kept(memory, node), op = Idle \/ op.pa = NoPa, Work
    PROVE  Kept(memory', node') /\ (op' = Idle \/ op'.pa = NoPa)
<1>0. user \in DOMAIN Users
  BY DEF Shape
<1>1. CASE Walk
  <2>1. op.level \in {"Pdp", "Pde", "Pte"}
    BY <1>1 DEF Walk, WalkPdp, WalkPdeToPte, WalkExisting2MB, Walk2MBLeaf, WalkPte, WalkPtePs64,
                Walking
  <2>2. op # Idle
    BY <2>1, AtLevel
  <2>3. Unmapped(op)
    BY <2>2 DEF Unmapped
  <2> QED
    BY <1>1, <2>3, WalkGrows, GrowsKeeps DEF Unmapped
<1>2. CASE Commit \/ EndRead \/ FreeReturn \/ FreeCommit
  BY <1>0, <1>2, CommitSame, NextTreePa, KeptSame
<1>3. CASE Free2MB \/ FreePage
  <2>1. op.level = "Free"
    BY <1>3 DEF Free2MB, FreePage, Walking
  <2>2. op # Idle
    BY <2>1, AtLevel
  <2> QED
    BY <1>3, <2>2, Free2MBFrees, FreePageFrees
<1> QED
  BY <1>1, <1>2, <1>3 DEF Work, Free

(* At first the memory is the one the user left. *)
LEMMA InitKeepsMemory ==
    ASSUME Init
    PROVE  MemoryKept
<1>1. Tree(node)
  BY NoNodeIs DEF Init, Tree
<1>2. \A k \in Slots : ~Owner(node[k])
  BY NoNodeIs DEF Init, Owner
<1>3. memory = InitialMemory
  BY DEF Init
<1>4. SoundMemory(memory) /\ UserKeeps(memory)
  BY <1>3, PageTablesAssumption DEF SoundMemory, UserKeeps
<1>5. OwnersHold(memory, node) /\ UsedIsOwned(memory, node) /\ OwnersApart(node)
  BY <1>2, <1>3 DEF OwnersHold, UsedIsOwned, OwnersApart
<1>6. SharedAbove(node)
  BY NoNodeIs DEF Init, SharedAbove
<1> QED
  BY <1>1, <1>4, <1>5, <1>6 DEF MemoryKept, Kept, Accounted, Init

(* And so does every step. *)
LEMMA NextKeepsMemory ==
    ASSUME Shape, MemoryKept, [Next]_vars
    PROVE  MemoryKept'
<1>1. UNCHANGED user
  BY DEF Next, vars
<1>2. SUFFICES ASSUME ~Maps PROVE Kept(memory, node)' /\ (op' = Idle \/ op'.pa = NoPa)
  BY <1>1, SameUser DEF MemoryKept
<1>3. Kept(memory, node) /\ (op = Idle \/ op.pa = NoPa) /\ user \in DOMAIN Users
  BY <1>2 DEF MemoryKept, Shape
<1>4. Kept(memory', node') /\ (op' = Idle \/ op'.pa = NoPa)
  <2>1. CASE Work
    BY <1>1, <1>2, <1>3, <2>1, WorkKeepsMemory
  <2>2. CASE \E r \in Requests : Begin(r)
    <3>1. PICK r \in Requests : Begin(r)
      BY <2>2
    <3>2. op' = NewWalk(r, r.first, << >>) /\ node' = node /\ memory' = memory
      BY <3>1 DEF Begin
    <3>3. op'.pa = r.pa
      BY <3>2 DEF NewWalk
    <3> QED
      BY <1>2, <1>3, <3>2, <3>3, NoMapPa
  <2>3. CASE Finished \/ \E onoff \in BOOLEAN : Pause(onoff) \/ BlockMemWritesViaTbx(onoff)
    BY <1>3, <2>3 DEF Finished, Pause, BlockMemWritesViaTbx
  <2>4. CASE UNCHANGED vars
    BY <1>3, <2>4 DEF vars
  <2> QED
    BY <2>1, <2>2, <2>3, <2>4 DEF Next
<1> QED
  BY <1>1, <1>4, KeptPrime

(* Memory is accounted for in every state. *)
LEMMA MemoryKeptAlways == Spec => []MemoryKept
<1>1. Init => Shape /\ MemoryKept
  BY InitShape, InitKeepsMemory
<1>2. (Shape /\ MemoryKept) /\ [Next]_vars => (Shape /\ MemoryKept)'
  BY NextKeepsShape, NextKeepsMemory
<1> QED
  BY <1>1, <1>2, PTL DEF Spec

(* For every user that does not map, whatever it writes, reads and frees, in
   whichever page sizes and banks: physical memory and page tables agree. *)
THEOREM MemoryIsAccounted == Spec => [](~Maps => MemoryAccounted)
<1>1. MemoryKept => (~Maps => MemoryAccounted)
  <2>1. SUFFICES ASSUME ~Maps, Kept(memory, node) PROVE MemoryAccounted
    BY DEF MemoryKept
  <2>2. SoundMemory(memory) /\ UserKeeps(memory) /\ OwnersHold(memory, node)
        /\ UsedIsOwned(memory, node) /\ OwnersApart(node) /\ Tree(node) /\ SharedAbove(node)
    BY <2>1 DEF Kept, Accounted
  <2>3. DOMAIN memory = DOMAIN InitialMemory
    BY <2>2 DEF SoundMemory
  <2>4. \A k : OwnBlock(k) = BlockOf(k, node[k])
    BY DEF OwnBlock, BlockOf
  <2>5. \A b, k : k \in OwnersOf(b) <=> k \in Slots /\ Owner(node[k]) /\ node[k].bank = b
    BY DEF OwnersOf, Present, Owner
  <2>6. ASSUME NEW b \in DOMAIN memory
        PROVE  memory[b].used = InitialMemory[b].used \cup {OwnBlock(k) : k \in OwnersOf(b)}
    <3>1. ASSUME NEW x, x \in memory[b].used
          PROVE  x \in InitialMemory[b].used \cup {OwnBlock(k) : k \in OwnersOf(b)}
      <4>1. CASE x \in InitialMemory[b].used
        BY <4>1
      <4>2. CASE x \notin InitialMemory[b].used
        <5>1. PICK k \in Slots : Owner(node[k]) /\ node[k].bank = b /\ x = BlockOf(k, node[k])
          BY <2>2, <2>3, <3>1, <4>2 DEF UsedIsOwned
        <5> QED
          BY <2>4, <2>5, <5>1
      <4> QED
        BY <4>1, <4>2
    <3>2. ASSUME NEW k \in OwnersOf(b)
          PROVE  OwnBlock(k) \in memory[b].used
      BY <2>2, <2>4, <2>5, <3>2 DEF OwnersHold
    <3>3. InitialMemory[b].used \subseteq memory[b].used
      BY <2>2, <2>3 DEF UserKeeps
    <3> QED
      BY <3>1, <3>2, <3>3
  <2>7. ASSUME NEW b \in DOMAIN memory, NEW k \in OwnersOf(b), NEW l \in OwnersOf(b), k # l
        PROVE  Disjoint(OwnBlock(k), OwnBlock(l))
    <3>1. OwnBlock(k) \in memory[b].used /\ OwnBlock(l) \in memory[b].used
      BY <2>6
    <3>2. OwnBlock(k) # OwnBlock(l)
      BY <2>2, <2>4, <2>5, <2>7 DEF OwnersApart
    <3>3. BlocksDisjoint(memory[b])
      BY <2>2, <2>3 DEF SoundMemory
    <3> QED
      BY <3>1, <3>2, <3>3 DEF BlocksDisjoint
  <2>8. \A k \in Present : ~(~node[k].owned /\ k[1] = 1)
    <3>1. ASSUME NEW k \in Slots
          PROVE  ~(k[1] = 1 /\ k[1] > 1)
      OBVIOUS
    <3> QED
      BY <2>2, <3>1 DEF SharedAbove, Present
  <2> QED
    BY <2>6, <2>7, <2>8 DEF MemoryAccounted
<1> QED
  BY <1>1, MemoryKeptAlways, PTL

-----------------------------------------------------------------------------
(* Where entries lie *)

(* The address of the entry of slot k among given nodes. *)
EntryOf(nodes, k) ==
    IF k[2] = "Pdp" THEN <<RootPa[k[1]], k[3]>>
    ELSE IF k[2] = "Pde" THEN <<nodes[Parent(k)].pa, k[3] % PdeSlots>>
    ELSE <<nodes[Parent(k)].pa, (k[3] % PteSpan) \div nodes[Parent(k)].size>>

(* The address of an entry, without cases. *)
LEMMA EntryAddressIs ==
    ASSUME NEW k \in Slots
    PROVE  EntryAddress(k) = EntryOf(node, k)
<1>1. CASE k[2] = "Pdp"
  BY <1>1, Zenon DEF EntryAddress, EntryOf
<1>2. CASE k[2] = "Pde"
  BY <1>2, Zenon DEF EntryAddress, EntryOf, Parent
<1>3. CASE k[2] = "Pte"
  <2>1. PteAt(k[1], k[3]) = Parent(k)
    BY <1>3 DEF PteAt, Parent
  <2>2. EntryAddress(k) = <<node[PteAt(k[1], k[3])].pa,
                            (k[3] % PteSpan) \div node[PteAt(k[1], k[3])].size>>
    BY <1>3, Zenon DEF EntryAddress
  <2> QED
    BY <1>3, <2>1, <2>2 DEF EntryOf
<1> QED
  BY <1>1, <1>2, <1>3, SlotIs

(* The address of an entry after a step. *)
LEMMA EntryAddressPrime ==
    ASSUME UNCHANGED user, NEW k \in Slots
    PROVE  EntryAddress(k)' = EntryOf(node', k)
<1>0. PteSpan' = PteSpan /\ PdeSlots' = PdeSlots /\ PteAt(k[1], k[3])' = PteAt(k[1], k[3])
  BY SameUser
<1>1. CASE k[2] = "Pdp"
  BY <1>1, Zenon DEF EntryAddress, EntryOf
<1>2. CASE k[2] = "Pde"
  <2>1. EntryAddress(k)' = <<node'[<<k[1], "Pdp", k[3] \div PdeSlots'>>].pa, k[3] % PdeSlots'>>
    BY <1>2, Zenon DEF EntryAddress
  <2> QED
    BY <1>0, <1>2, <2>1 DEF EntryOf, Parent
<1>3. CASE k[2] = "Pte"
  <2>1. PteAt(k[1], k[3]) = Parent(k)
    BY <1>3 DEF PteAt, Parent
  <2>2. EntryAddress(k)' = <<node'[PteAt(k[1], k[3])'].pa,
                            (k[3] % PteSpan') \div node'[PteAt(k[1], k[3])'].size>>
    BY <1>3, Zenon DEF EntryAddress
  <2> QED
    BY <1>0, <1>3, <2>1, <2>2 DEF EntryOf
<1> QED
  BY <1>1, <1>2, <1>3, SlotIs

(* A number from its place in a page and the page. *)
LEMMA FromPlace ==
    ASSUME NEW S \in Nat \ {0}, NEW x \in Nat, NEW y \in Nat,
           x \div S = y \div S, x % S = y % S
    PROVE  x = y
<1>1. /\ x \div S \in Nat /\ x = S * (x \div S) + (x % S) /\ x % S \in 0 .. S - 1
  BY Quotient, Offset
<1>2. /\ y \div S \in Nat /\ y = S * (y \div S) + (y % S) /\ y % S \in 0 .. S - 1
  BY Quotient, Offset
<1> QED
  BY <1>1, <1>2

(* A number from its unit in a page and the page. *)
LEMMA FromUnit ==
    ASSUME NEW S \in Nat \ {0}, NEW s \in Nat \ {0}, S % s = 0, NEW x \in Nat, NEW y \in Nat,
           x % s = 0, y % s = 0, x \div S = y \div S,
           (x % S) \div s = (y % S) \div s
    PROVE  x = y
<1>1. ASSUME NEW z \in Nat, z % s = 0
      PROVE  z % S \in Nat /\ (z % S) % s = 0
  <2>1. PICK m \in Nat : S = s * m
    BY Multiple
  <2>2. PICK n \in Nat : z = s * n
    BY <1>1, Multiple
  <2>3. z \div S \in Nat /\ z = S * (z \div S) + (z % S) /\ z % S \in 0 .. S - 1
    BY Quotient, Offset
  <2> DEFINE q == z \div S
             r == z % S
  <2> HIDE DEF q, r
  <2>4. q \in Nat /\ z = S * q + r /\ r \in Nat
    BY <2>3 DEF q, r
  <2>5. S * q = s * (m * q) /\ m * q \in Int
    BY <2>1, <2>4
  <2>6. r = s * n - s * (m * q)
    BY <2>2, <2>4, <2>5
  <2>7. r = s * (n - m * q) /\ n - m * q \in Int
    BY <2>5, <2>6
  <2> DEFINE d == n - m * q
  <2> HIDE DEF d
  <2>8. d \in Int /\ r = s * d
    BY <2>7 DEF d
  <2>9. d >= 0
    <3>1. ASSUME d < 0 PROVE FALSE
      <4>1. s * d <= s * (-1)
        BY <2>8, <3>1
      <4> QED
        BY <2>4, <2>8, <4>1
    <3> QED
      BY <2>8, <3>1
  <2>10. (s * d + 0) % s = 0
    BY <2>8, <2>9, QuotientIs
  <2>11. r % s = 0
    BY <2>8, <2>10
  <2> QED
    BY <2>4, <2>11 DEF r
<1>2. x % S \in Nat /\ (x % S) % s = 0 /\ y % S \in Nat /\ (y % S) % s = 0
  BY <1>1
<1>3. x % S = y % S
  BY <1>2, FromPlace
<1> QED
  BY <1>3, FromPlace

(* A table that holds a node is in a block of its own. *)
LEMMA TableOf ==
    ASSUME user \in DOMAIN Users, NEW mem, NEW nodes, Kept(mem, nodes),
           NEW k \in Slots, nodes[k].present, k[2] # "Pdp"
    PROVE  LET p == Parent(k)
           IN  /\ p \in Slots /\ Owner(nodes[p]) /\ nodes[p].bank = TableBank
               /\ BlockOf(p, nodes[p]) = [addr |-> nodes[p].pa, size |-> 1]
               /\ k[2] = "Pte" => /\ nodes[p].size \in {1, Group}
                                  /\ k[3] % nodes[p].size = 0
<1> DEFINE p == Parent(k)
<1>0. Placed(nodes, k)
  BY DEF Kept, Tree
<1>2. k[2] \in {"Pde", "Pte"}
  BY SlotIs
<1>1. Placed(nodes, k) /\ p \in Slots /\ (k[2] = "Pde" => p[2] = "Pdp") /\ (k[2] = "Pte" => p[2] = "Pde")
  BY <1>0, <1>2, ParentIsSlot
<1>3. /\ nodes[p].present
      /\ k[2] = "Pte" => nodes[p].size \in {1, Group} /\ k[3] % nodes[p].size = 0
  BY <1>1, <1>2 DEF Placed
<1>4. ~IsLeaf(p, nodes[p])
  BY <1>1, <1>2, <1>3, UserFacts DEF IsLeaf, Is2MB
<1>5. Placed(nodes, p)
  BY <1>1, <1>3 DEF Kept, Tree
<1> HIDE DEF p
<1>6. Owner(nodes[p]) /\ nodes[p].bank = TableBank
  BY <1>3, <1>4, <1>5 DEF Placed, Owner
<1> QED
  BY <1>1, <1>3, <1>4, <1>6 DEF BlockOf, p

(* No two nodes have their entries at one address. *)
LEMMA EntriesApart ==
    ASSUME user \in DOMAIN Users, NEW mem, NEW nodes, Kept(mem, nodes),
           NEW k \in Slots, nodes[k].present, NEW l \in Slots, nodes[l].present,
           EntryOf(nodes, k) = EntryOf(nodes, l)
    PROVE  k = l
<1>1. /\ k[1] \in 1 .. Trees /\ l[1] \in 1 .. Trees
      /\ k[2] \in {"Pdp", "Pde", "Pte"} /\ l[2] \in {"Pdp", "Pde", "Pte"}
      /\ k = <<k[1], k[2], k[3]>> /\ l = <<l[1], l[2], l[3]>>
      /\ k[3] \in Nat /\ l[3] \in Nat
  BY SlotIs, UserFacts
<1>2. \A t \in 1 .. Trees :
         /\ [addr |-> RootPa[t], size |-> 1] \in InitialMemory[TableBank].used
         /\ \A u \in 1 .. Trees \ {t} : RootPa[t] # RootPa[u]
  BY PageTablesAssumption
<1>3. OwnersHold(mem, nodes) /\ OwnersApart(nodes)
  BY DEF Kept, Accounted
<1>4. ASSUME NEW i \in Slots, NEW j \in Slots, nodes[j].present, i[2] = "Pdp", j[2] # "Pdp",
             EntryOf(nodes, i) = EntryOf(nodes, j)
      PROVE  FALSE
  <2>1. RootPa[i[1]] = nodes[Parent(j)].pa /\ i[1] \in 1 .. Trees
    BY <1>4, SlotIs DEF EntryOf
  <2>2. /\ Parent(j) \in Slots /\ Owner(nodes[Parent(j)]) /\ nodes[Parent(j)].bank = TableBank
        /\ BlockOf(Parent(j), nodes[Parent(j)]) = [addr |-> nodes[Parent(j)].pa, size |-> 1]
    BY <1>4, TableOf
  <2> QED
    BY <1>2, <1>3, <2>1, <2>2 DEF OwnersHold
<1>5. CASE k[2] = "Pdp" /\ l[2] = "Pdp"
  BY <1>1, <1>2, <1>5 DEF EntryOf
<1>6. CASE k[2] # "Pdp" /\ l[2] # "Pdp"
  <2>1. /\ Parent(k) \in Slots /\ Owner(nodes[Parent(k)]) /\ nodes[Parent(k)].bank = TableBank
        /\ BlockOf(Parent(k), nodes[Parent(k)]) = [addr |-> nodes[Parent(k)].pa, size |-> 1]
        /\ k[2] = "Pte" => /\ nodes[Parent(k)].size \in {1, Group}
                           /\ k[3] % nodes[Parent(k)].size = 0
    BY <1>6, TableOf
  <2>2. /\ Parent(l) \in Slots /\ Owner(nodes[Parent(l)]) /\ nodes[Parent(l)].bank = TableBank
        /\ BlockOf(Parent(l), nodes[Parent(l)]) = [addr |-> nodes[Parent(l)].pa, size |-> 1]
        /\ l[2] = "Pte" => /\ nodes[Parent(l)].size \in {1, Group}
                           /\ l[3] % nodes[Parent(l)].size = 0
    BY <1>6, TableOf
  <2>3. nodes[Parent(k)].pa = nodes[Parent(l)].pa
    BY <1>6 DEF EntryOf
  <2>4. Parent(k) = Parent(l)
    BY <1>3, <2>1, <2>2, <2>3 DEF OwnersApart
  <2>5. k[2] = l[2] /\ k[1] = l[1]
    BY <1>1, <1>6, <2>4, ParentIsSlot
  <2>6. CASE k[2] = "Pde"
    <3>1. k[3] \div PdeSlots = l[3] \div PdeSlots /\ k[3] % PdeSlots = l[3] % PdeSlots
      BY <1>6, <2>4, <2>5, <2>6 DEF Parent, EntryOf
    <3>2. k[3] = l[3]
      BY <1>1, <3>1, UserFacts, FromPlace
    <3> QED
      BY <1>1, <2>5, <3>2
  <2>7. CASE k[2] = "Pte"
    <3> DEFINE s == nodes[Parent(k)].size
    <3>1. /\ k[3] \div PteSpan = l[3] \div PteSpan
          /\ (k[3] % PteSpan) \div s = (l[3] % PteSpan) \div s
      BY <1>6, <2>4, <2>5, <2>7 DEF Parent, EntryOf
    <3>2. s \in {1, Group} /\ k[3] % s = 0 /\ l[3] % s = 0
      BY <2>1, <2>2, <2>4, <2>5, <2>7
    <3> HIDE DEF s
    <3>3. s \in Nat \ {0} /\ PteSpan % s = 0 /\ PteSpan \in Nat \ {0}
      <4>1. PteSpan % 1 = 0
        BY UserFacts
      <4> QED
        BY <3>2, <4>1, UserFacts
    <3>4. k[3] = l[3]
      BY <1>1, <3>1, <3>2, <3>3, FromUnit
    <3> QED
      BY <1>1, <2>5, <3>4
  <2> QED
    BY <1>1, <1>6, <2>6, <2>7
<1> QED
  BY <1>4, <1>5, <1>6

(* Where the tables stay, so do the entries. *)
LEMMA EntryStays ==
    ASSUME NEW nodes, NEW new, NEW k \in Slots,
           k[2] # "Pdp" => /\ new[Parent(k)].pa = nodes[Parent(k)].pa
                           /\ new[Parent(k)].size = nodes[Parent(k)].size
    PROVE  EntryOf(new, k) = EntryOf(nodes, k)
BY DEF EntryOf

-----------------------------------------------------------------------------
(* What the sinks were given, for users that neither map nor use PS64 *)

StoredIn(content, a) == IF a \in DOMAIN content THEN content[a] ELSE Zero

NoBits(nodes) == \A k \in Slots : nodes[k].ps64 = FALSE

(* A node that does not wait has its value among what a sink was given. *)
SentTo(content, nodes) ==
    \A k \in Slots : nodes[k].present /\ ~nodes[k].pending =>
        StoredIn(content, EntryOf(nodes, k)) = EntryValue(k, nodes[k])

(* What was collected at the address of a node is its value. *)
Gathered(w, nodes) ==
    \A k \in Slots : nodes[k].present /\ EntryOf(nodes, k) \in DOMAIN w =>
        w[EntryOf(nodes, k)] = EntryValue(k, nodes[k])

(* What is to wait no more was collected. *)
Awaited(w, p, nodes) ==
    \A k \in p : k \in Slots /\ nodes[k].present /\ EntryOf(nodes, k) \in DOMAIN w

(* Nothing was collected at the address of a node. *)
Avoided(w, nodes) ==
    \A k \in Slots : nodes[k].present => EntryOf(nodes, k) \notin DOMAIN w

(* What a sink will have been given once what was collected is sent. *)
GivenIn(w, content, a) == IF a \in DOMAIN w THEN w[a] ELSE StoredIn(content, a)

Matches(w, content, nodes) ==
    /\ \A k \in Slots : nodes[k].present =>
          GivenIn(w, content, EntryOf(nodes, k)) = EntryValue(k, nodes[k])
    /\ \A a : GivenIn(w, content, a).present =>
          \E k \in Slots : nodes[k].present /\ a = EntryOf(nodes, k)

(* An entry is present. *)
LEMMA EntryValueIs ==
    ASSUME NEW k, NEW n
    PROVE  EntryValue(k, n).present = TRUE
BY DEF EntryValue

(* A zero is not. *)
LEMMA ZeroIs == Zero.present = FALSE
BY DEF Zero

(* What a turn collects at a node. *)
LEMMA CollectsFacts ==
    ASSUME DOMAIN op = WalkFields, ~HasPa(op), NEW k \in Slots, NEW n, Collects(k, n)
    PROVE  \/ /\ n.pending /\ k \notin op.pendingNodes
              /\ op'.pendingNodes = op.pendingNodes \cup {k}
              /\ \A a : a \in DOMAIN op'.writes <=> a \in DOMAIN op.writes \/ a = EntryOf(node, k)
              /\ op'.writes[EntryOf(node, k)] = EntryValue(k, n)
              /\ \A a \in DOMAIN op.writes : a # EntryOf(node, k) => op'.writes[a] = op.writes[a]
           \/ /\ ~(n.pending /\ k \notin op.pendingNodes)
              /\ op'.writes = op.writes /\ op'.pendingNodes = op.pendingNodes
<1>1. CASE n.pending /\ k \notin op.pendingNodes
  <2>1. op'.writes = Emit(op, k, n).writes /\ op'.pendingNodes = Emit(op, k, n).pendingNodes
    BY <1>1 DEF Collects, EmitIfNeeded
  <2>2. /\ op'.writes = Overlay(op.writes, [a \in {EntryAddress(k)} |-> EntryValue(k, n)])
        /\ op'.pendingNodes = op.pendingNodes \cup {k}
    BY <1>1, <2>1 DEF Emit, WalkFields
  <2> DEFINE g == [a \in {EntryOf(node, k)} |-> EntryValue(k, n)]
  <2>3. op'.writes = Overlay(op.writes, g)
    BY <2>2, EntryAddressIs
  <2>4. DOMAIN g = {EntryOf(node, k)} /\ g[EntryOf(node, k)] = EntryValue(k, n)
    OBVIOUS
  <2> HIDE DEF g
  <2> QED
    BY <1>1, <2>2, <2>3, <2>4 DEF Overlay
<1>2. CASE ~(n.pending /\ k \notin op.pendingNodes)
  BY <1>2 DEF Collects, EmitIfNeeded
<1> QED
  BY <1>1, <1>2

(* A node is met. *)
LEMMA MeetsGathers ==
    ASSUME Shape, Unmapped(op), op # Idle, Kept(memory, node), NEW k, Meets(k),
           Gathered(op.writes, node), Awaited(op.writes, op.pendingNodes, node)
    PROVE  /\ Gathered(op'.writes, node) /\ Awaited(op'.writes, op'.pendingNodes, node)
           /\ \A c : Matches(op.writes, c, node) => Matches(op'.writes, c, node)
<1>1. user \in DOMAIN Users /\ DOMAIN op = WalkFields /\ ~HasPa(op)
  BY DEF Shape, WalkState, Unmapped, HasPa
<1>2. k \in Slots /\ node[k].present /\ Collects(k, node[k])
  BY DEF Meets
<1> DEFINE a0 == EntryOf(node, k)
           v == EntryValue(k, node[k])
<1>3. CASE /\ op'.pendingNodes = op.pendingNodes \cup {k}
           /\ \A a : a \in DOMAIN op'.writes <=> a \in DOMAIN op.writes \/ a = a0
           /\ op'.writes[a0] = v
           /\ \A a \in DOMAIN op.writes : a # a0 => op'.writes[a] = op.writes[a]
  <2>1. ASSUME NEW l \in Slots, node[l].present, EntryOf(node, l) \in DOMAIN op'.writes
        PROVE  op'.writes[EntryOf(node, l)] = EntryValue(l, node[l])
    <3>1. CASE l = k
      BY <1>3, <3>1
    <3>2. CASE l # k
      <4>1. EntryOf(node, l) # a0
        BY <1>1, <1>2, <2>1, <3>2, EntriesApart
      <4> HIDE DEF a0, v
      <4> QED
        BY <1>3, <2>1, <4>1 DEF Gathered
    <3> QED
      BY <3>1, <3>2
  <2>2. Gathered(op'.writes, node)
    BY <2>1 DEF Gathered
  <2>3. Awaited(op'.writes, op'.pendingNodes, node)
    BY <1>2, <1>3 DEF Awaited
  <2>4. ASSUME NEW c, Matches(op.writes, c, node)
        PROVE  Matches(op'.writes, c, node)
    <3>0. v.present = TRUE
      BY EntryValueIs
    <3>1. \A a : GivenIn(op'.writes, c, a) = IF a = a0 THEN v ELSE GivenIn(op.writes, c, a)
      <4> HIDE DEF a0, v
      <4> QED
        BY <1>3 DEF GivenIn
    <3>2. ASSUME NEW l \in Slots, node[l].present
          PROVE  GivenIn(op'.writes, c, EntryOf(node, l)) = EntryValue(l, node[l])
      <4>1. EntryOf(node, l) = a0 => l = k
        BY <1>1, <1>2, <3>2, EntriesApart
      <4>2. GivenIn(op.writes, c, EntryOf(node, l)) = EntryValue(l, node[l])
        BY <2>4, <3>2 DEF Matches
      <4> QED
        BY <3>1, <4>1, <4>2
    <3>3. ASSUME NEW a, GivenIn(op'.writes, c, a).present
          PROVE  \E l \in Slots : node[l].present /\ a = EntryOf(node, l)
      <4>1. CASE a = a0
        BY <1>2, <4>1
      <4>2. CASE a # a0
        BY <2>4, <3>1, <3>3, <4>2 DEF Matches
      <4> QED
        BY <4>1, <4>2
    <3> QED
      BY <3>2, <3>3 DEF Matches
  <2> QED
    BY <2>2, <2>3, <2>4
<1>4. CASE op'.writes = op.writes /\ op'.pendingNodes = op.pendingNodes
  BY <1>4
<1> QED
  BY <1>1, <1>2, <1>3, <1>4, CollectsFacts

(* A node is made: where the others have their entries, it has none. *)
LEMMA MadeEntries ==
    ASSUME user \in DOMAIN Users, NEW mem, Kept(memory, node), NEW nodes, Kept(mem, nodes),
           NEW k \in Slots, ~node[k].present, nodes[k].present,
           \A l \in Slots \ {k} : nodes[l] = node[l]
    PROVE  /\ EntryOf(nodes, k) = EntryOf(node, k)
           /\ \A l \in Slots : node[l].present =>
                /\ nodes[l] = node[l] /\ l # k
                /\ EntryOf(nodes, l) = EntryOf(node, l)
                /\ EntryOf(node, l) # EntryOf(node, k)
           /\ \A l \in Slots : nodes[l].present => l = k \/ node[l].present
<1>1. k[2] # "Pdp" => Parent(k) \in Slots /\ Parent(k) # k
  BY ParentIsSlot, SlotIs
<1>2. EntryOf(nodes, k) = EntryOf(node, k)
  BY <1>1, EntryStays
<1>3. ASSUME NEW l \in Slots, node[l].present
      PROVE  /\ nodes[l] = node[l] /\ l # k
             /\ EntryOf(nodes, l) = EntryOf(node, l)
             /\ EntryOf(node, l) # EntryOf(node, k)
  <2>1. l # k /\ nodes[l] = node[l] /\ nodes[l].present
    BY <1>3
  <2>2. l[2] # "Pdp" => Parent(l) \in Slots /\ Parent(l) # k
    <3>1. l[2] # "Pdp" => Parent(l) \in Slots /\ Owner(node[Parent(l)])
      BY <1>3, TableOf
    <3> QED
      BY <3>1 DEF Owner
  <2>3. EntryOf(nodes, l) = EntryOf(node, l)
    BY <2>2, EntryStays
  <2>4. EntryOf(nodes, l) # EntryOf(nodes, k)
    BY <2>1, EntriesApart
  <2> QED
    BY <1>2, <2>1, <2>3, <2>4
<1> QED
  BY <1>2, <1>3

(* A node is made: what is collected is what the nodes are worth. *)
LEMMA MakesGathers ==
    ASSUME Shape, Unmapped(op), op # Idle, Kept(memory, node), Kept(memory', node'),
           NEW k, NEW n, Makes(k, n),
           Gathered(op.writes, node), Awaited(op.writes, op.pendingNodes, node)
    PROVE  /\ Gathered(op'.writes, node') /\ Awaited(op'.writes, op'.pendingNodes, node')
           /\ \A c : Matches(op.writes, c, node) => Matches(op'.writes, c, node')
           /\ \A c : SentTo(c, node) => SentTo(c, node')
           /\ k \in op'.pendingNodes
<1>1. user \in DOMAIN Users /\ DOMAIN op = WalkFields /\ ~HasPa(op)
  BY DEF Shape, WalkState, Unmapped, HasPa
<1>2. /\ k \in Slots /\ ~node[k].present /\ Collects(k, n)
      /\ node'[k] = n /\ \A l \in Slots \ {k} : node'[l] = node[l]
      /\ n.present = TRUE /\ n.pending = TRUE
  BY DEF Makes, IsNew
<1> DEFINE a0 == EntryOf(node, k)
           v == EntryValue(k, n)
           nodes == node'
           mem == memory'
<1>3. nodes[k].present /\ Kept(mem, nodes)
  BY <1>2
<1>4. /\ EntryOf(nodes, k) = a0
      /\ \A l \in Slots : node[l].present =>
           /\ nodes[l] = node[l] /\ l # k
           /\ EntryOf(nodes, l) = EntryOf(node, l)
           /\ EntryOf(node, l) # a0
      /\ \A l \in Slots : nodes[l].present => l = k \/ node[l].present
  <2>1. \A l \in Slots \ {k} : nodes[l] = node[l]
    BY <1>2
  <2> HIDE DEF nodes, mem
  <2> QED
    BY <1>1, <1>2, <1>3, <2>1, MadeEntries
<1>5. k \notin op.pendingNodes
  BY <1>2 DEF Awaited
<1>6. /\ op'.pendingNodes = op.pendingNodes \cup {k}
      /\ \A a : a \in DOMAIN op'.writes <=> a \in DOMAIN op.writes \/ a = a0
      /\ op'.writes[a0] = v
      /\ \A a \in DOMAIN op.writes : a # a0 => op'.writes[a] = op.writes[a]
  BY <1>1, <1>2, <1>5, CollectsFacts
<1>n. nodes[k] = n
  BY <1>2
<1>v. v.present = TRUE
  BY EntryValueIs
<1>u. v = EntryValue(k, nodes[k])
  BY <1>n
<1> HIDE DEF a0, v, nodes
<1>7. Gathered(op'.writes, nodes)
  <2>1. ASSUME NEW l \in Slots, nodes[l].present, EntryOf(nodes, l) \in DOMAIN op'.writes
        PROVE  op'.writes[EntryOf(nodes, l)] = EntryValue(l, nodes[l])
    <3>1. CASE l = k
      BY <1>4, <1>6, <1>u, <3>1
    <3>2. CASE l # k
      BY <1>4, <1>6, <2>1, <3>2 DEF Gathered
    <3> QED
      BY <3>1, <3>2
  <2> QED
    BY <2>1 DEF Gathered
<1>8. Awaited(op'.writes, op'.pendingNodes, nodes)
  <2>1. ASSUME NEW l \in op'.pendingNodes
        PROVE  l \in Slots /\ nodes[l].present /\ EntryOf(nodes, l) \in DOMAIN op'.writes
    <3>1. CASE l = k
      BY <1>2, <1>3, <1>4, <1>6, <3>1
    <3>2. CASE l # k
      BY <1>4, <1>6, <2>1, <3>2 DEF Awaited
    <3> QED
      BY <3>1, <3>2
  <2> QED
    BY <2>1 DEF Awaited
<1>9. ASSUME NEW c, Matches(op.writes, c, node)
      PROVE  Matches(op'.writes, c, nodes)
  <2>1. \A a : GivenIn(op'.writes, c, a) = IF a = a0 THEN v ELSE GivenIn(op.writes, c, a)
    BY <1>6 DEF GivenIn
  <2>2. ASSUME NEW l \in Slots, nodes[l].present
        PROVE  GivenIn(op'.writes, c, EntryOf(nodes, l)) = EntryValue(l, nodes[l])
    <3>1. CASE l = k
      BY <1>4, <1>u, <2>1, <3>1
    <3>2. CASE l # k
      BY <1>4, <1>9, <2>1, <2>2, <3>2 DEF Matches
    <3> QED
      BY <3>1, <3>2
  <2>3. ASSUME NEW a, GivenIn(op'.writes, c, a).present
        PROVE  \E l \in Slots : nodes[l].present /\ a = EntryOf(nodes, l)
    <3>1. CASE a = a0
      BY <1>2, <1>3, <1>4, <3>1
    <3>2. CASE a # a0
      <4>1. PICK l \in Slots : node[l].present /\ a = EntryOf(node, l)
        BY <1>9, <2>1, <2>3, <3>2 DEF Matches
      <4> QED
        BY <1>4, <4>1
    <3> QED
      BY <3>1, <3>2
  <2> QED
    BY <2>2, <2>3 DEF Matches
<1>10. ASSUME NEW c, SentTo(c, node)
       PROVE  SentTo(c, nodes)
  <2>1. ASSUME NEW l \in Slots, nodes[l].present, ~nodes[l].pending
        PROVE  StoredIn(c, EntryOf(nodes, l)) = EntryValue(l, nodes[l])
    <3>1. l # k
      BY <1>2, <1>n, <2>1
    <3> QED
      BY <1>4, <1>10, <2>1, <3>1 DEF SentTo
  <2> QED
    BY <2>1 DEF SentTo
<1> QED
  BY <1>6, <1>7, <1>8, <1>9, <1>10 DEF nodes

(* Nodes that are the same have the same entries. *)
LEMMA SameNodesSameEntries ==
    ASSUME user \in DOMAIN Users, NEW nodes, NEW new, \A k \in Slots : new[k] = nodes[k]
    PROVE  /\ \A k \in Slots : EntryOf(new, k) = EntryOf(nodes, k)
           /\ NoBits(nodes) => NoBits(new)
           /\ \A c : SentTo(c, nodes) => SentTo(c, new)
           /\ \A w : Gathered(w, nodes) => Gathered(w, new)
           /\ \A w, p : Awaited(w, p, nodes) => Awaited(w, p, new)
           /\ \A w : Avoided(w, nodes) => Avoided(w, new)
           /\ \A w, c : Matches(w, c, nodes) => Matches(w, c, new)
<1>1. ASSUME NEW k \in Slots
      PROVE  EntryOf(new, k) = EntryOf(nodes, k)
  <2>1. k[2] # "Pdp" => Parent(k) \in Slots
    BY ParentIsSlot, SlotIs
  <2> QED
    BY <2>1, EntryStays
<1>2. NoBits(nodes) => NoBits(new)
  BY DEF NoBits
<1>3. \A c : SentTo(c, nodes) => SentTo(c, new)
  BY <1>1 DEF SentTo
<1>4. \A w : Gathered(w, nodes) => Gathered(w, new)
  BY <1>1 DEF Gathered
<1>5. \A w, p : Awaited(w, p, nodes) => Awaited(w, p, new)
  BY <1>1 DEF Awaited
<1>6. \A w : Avoided(w, nodes) => Avoided(w, new)
  BY <1>1 DEF Avoided
<1>7. ASSUME NEW w, NEW c, Matches(w, c, nodes)
      PROVE  Matches(w, c, new)
  <2>1. \A k \in Slots : new[k].present =>
           GivenIn(w, c, EntryOf(new, k)) = EntryValue(k, new[k])
    BY <1>1, <1>7 DEF Matches
  <2>2. \A a : GivenIn(w, c, a).present => \E k \in Slots : new[k].present /\ a = EntryOf(new, k)
    BY <1>1, <1>7 DEF Matches
  <2> QED
    BY <2>1, <2>2 DEF Matches
<1> QED
  BY <1>1, <1>2, <1>3, <1>4, <1>5, <1>6, <1>7

(* A turn of a walk without PS64. *)
Turn == Quiet \/ (\E k : Meets(k)) \/ (\E k, n : Makes(k, n))

(* Every turn of such a walk is one. *)
LEMMA WalkTurns ==
    ASSUME Shape, UNCHANGED user, Unmapped(op), ~Ps64, Walk
    PROVE  Turn /\ StreamsStay /\ op'.pa = op.pa
<1>1. CASE WalkPdp
  BY <1>1, WalkPdpDoes DEF Turn
<1>2. CASE WalkPdeToPte
  BY <1>2, WalkPdeToPteDoes DEF Turn
<1>3. CASE WalkExisting2MB
  BY <1>3, WalkExisting2MBDoes DEF Turn
<1>4. CASE Walk2MBLeaf
  BY <1>4, Walk2MBLeafDoes DEF Turn
<1>5. CASE WalkPte
  BY <1>5, WalkPteDoes DEF Turn
<1>6. CASE WalkPtePs64
  BY <1>6 DEF WalkPtePs64, CheckPs64
<1> QED
  BY <1>1, <1>2, <1>3, <1>4, <1>5, <1>6 DEF Walk

(* What a turn collects is what the nodes are worth. *)
LEMMA TurnGathers ==
    ASSUME Shape, Unmapped(op), op # Idle, Kept(memory, node), Kept(memory', node'), Turn,
           NoBits(node), Gathered(op.writes, node), Awaited(op.writes, op.pendingNodes, node)
    PROVE  /\ NoBits(node')
           /\ Gathered(op'.writes, node') /\ Awaited(op'.writes, op'.pendingNodes, node')
           /\ \A c : SentTo(c, node) => SentTo(c, node')
           /\ \A c : Matches(op.writes, c, node) => Matches(op'.writes, c, node')
           /\ op.req.kind = "read" => \A k \in Slots : node'[k] = node[k]
<1>0. user \in DOMAIN Users
  BY DEF Shape
<1>1. CASE Quiet
  <2>1. \A k \in Slots : node'[k] = node[k]
    BY <1>1 DEF Quiet, SameNodes
  <2>2. op'.writes = op.writes /\ op'.pendingNodes = op.pendingNodes
    BY <1>1 DEF Quiet
  <2> QED
    BY <1>0, <2>1, <2>2, SameNodesSameEntries
<1>2. ASSUME NEW k, Meets(k)
      PROVE  /\ NoBits(node')
             /\ Gathered(op'.writes, node') /\ Awaited(op'.writes, op'.pendingNodes, node')
             /\ \A c : SentTo(c, node) => SentTo(c, node')
             /\ \A c : Matches(op.writes, c, node) => Matches(op'.writes, c, node')
             /\ \A l \in Slots : node'[l] = node[l]
  <2>1. \A l \in Slots : node'[l] = node[l]
    BY <1>2 DEF Meets, SameNodes
  <2>2. /\ Gathered(op'.writes, node) /\ Awaited(op'.writes, op'.pendingNodes, node)
        /\ \A c : Matches(op.writes, c, node) => Matches(op'.writes, c, node)
    BY <1>2, MeetsGathers
  <2> QED
    BY <1>0, <2>1, <2>2, SameNodesSameEntries
<1>3. ASSUME NEW k, NEW n, Makes(k, n)
      PROVE  /\ NoBits(node')
             /\ Gathered(op'.writes, node') /\ Awaited(op'.writes, op'.pendingNodes, node')
             /\ \A c : SentTo(c, node) => SentTo(c, node')
             /\ \A c : Matches(op.writes, c, node) => Matches(op'.writes, c, node')
             /\ op.req.kind # "read"
  <2>1. NoBits(node')
    BY <1>3 DEF Makes, IsNew, NoBits
  <2>2. op.req.kind # "read"
    BY <1>3 DEF Makes
  <2> QED
    BY <1>3, <2>1, <2>2, MakesGathers
<1> QED
  BY <1>1, <1>2, <1>3 DEF Turn

-----------------------------------------------------------------------------
(* Sending *)

(* A sink has what it had or was sent last. *)
LEMMA StoreIs ==
    ASSUME NEW content, NEW w, NEW a
    PROVE  StoredIn(Store(content, w), a).present => StoredIn(Store(content, w), a) = GivenIn(w, content, a)
<1> DEFINE new == Overlay(content, w)
           d == {x \in DOMAIN new : new[x].present}
           st == [x \in d |-> new[x]]
<1>1. Store(content, w) = st
  BY DEF Store
<1>2. CASE a \in d
  <2>1. StoredIn(st, a) = new[a]
    BY <1>2 DEF StoredIn
  <2>2. a \in DOMAIN new /\ (a \in DOMAIN w \/ a \in DOMAIN content)
    BY <1>2 DEF Overlay
  <2>3. new[a] = GivenIn(w, content, a)
    BY <2>2 DEF Overlay, GivenIn, StoredIn
  <2> QED
    BY <1>1, <2>1, <2>3
<1>3. CASE a \notin d
  BY <1>1, <1>3, ZeroIs DEF StoredIn
<1> QED
  BY <1>2, <1>3

(* What is present in the end, a sink has. *)
LEMMA StoreGives ==
    ASSUME NEW content, NEW w, NEW a, GivenIn(w, content, a).present
    PROVE  StoredIn(Store(content, w), a) = GivenIn(w, content, a)
<1> DEFINE new == Overlay(content, w)
           d == {x \in DOMAIN new : new[x].present}
           st == [x \in d |-> new[x]]
<1>1. Store(content, w) = st
  BY DEF Store
<1>2. a \in DOMAIN w \/ a \in DOMAIN content
  BY ZeroIs DEF GivenIn, StoredIn
<1>3. a \in DOMAIN new /\ new[a] = GivenIn(w, content, a)
  BY <1>2 DEF Overlay, GivenIn, StoredIn
<1> HIDE DEF new
<1>4. a \in d
  BY <1>3
<1> QED
  BY <1>1, <1>3, <1>4 DEF StoredIn

(* Once what was collected is sent, a sink has what the nodes are worth. *)
LEMMA SendSends ==
    ASSUME NEW content, NEW nodes, NEW w, SentTo(content, nodes),
           Gathered(w, nodes) \/ Avoided(w, nodes)
    PROVE  SentTo(Store(content, w), nodes)
<1>1. ASSUME NEW k \in Slots, nodes[k].present, ~nodes[k].pending
      PROVE  StoredIn(Store(content, w), EntryOf(nodes, k)) = EntryValue(k, nodes[k])
  <2>1. GivenIn(w, content, EntryOf(nodes, k)) = EntryValue(k, nodes[k])
    BY <1>1 DEF GivenIn, SentTo, Gathered, Avoided
  <2> QED
    BY <2>1, EntryValueIs, StoreGives
<1> QED
  BY <1>1 DEF SentTo

(* What waited and was sent waits no more. *)
LEMMA CommitSends ==
    ASSUME NEW content, NEW nodes, NEW w, NEW p, SentTo(content, nodes), Gathered(w, nodes),
           Awaited(w, p, nodes), user \in DOMAIN Users,
           NEW new, \A k \in Slots : /\ new[k].present = nodes[k].present
                                     /\ EntryOf(new, k) = EntryOf(nodes, k)
                                     /\ EntryValue(k, new[k]) = EntryValue(k, nodes[k])
                                     /\ k \notin p => new[k].pending = nodes[k].pending
    PROVE  SentTo(Store(content, w), new)
<1>1. ASSUME NEW k \in Slots, new[k].present, ~new[k].pending
      PROVE  StoredIn(Store(content, w), EntryOf(new, k)) = EntryValue(k, new[k])
  <2>1. CASE k \in p
    <3>1. EntryOf(nodes, k) \in DOMAIN w /\ nodes[k].present
      BY <2>1 DEF Awaited
    <3>2. GivenIn(w, content, EntryOf(nodes, k)) = EntryValue(k, nodes[k])
      BY <3>1 DEF GivenIn, Gathered
    <3> QED
      BY <3>2, EntryValueIs, StoreGives
  <2>2. CASE k \notin p
    <3>1. nodes[k].present /\ ~nodes[k].pending
      BY <1>1, <2>2
    <3>2. GivenIn(w, content, EntryOf(nodes, k)) = EntryValue(k, nodes[k])
      BY <3>1 DEF GivenIn, SentTo, Gathered
    <3> QED
      BY <3>2, EntryValueIs, StoreGives
  <2> QED
    BY <2>1, <2>2
<1> QED
  BY <1>1 DEF SentTo

(* The nodes that go are those at the address. *)
FreesAt(gone) ==
    \/ Free2MB /\ gone \subseteq {PteAt(op.tree, op.va), PdeAt(op.tree, op.va)}
    \/ FreePage /\ gone \subseteq {PageSlot(op), PteAt(op.tree, op.va)}

(* A turn of freeMemory, for nodes without PS64. *)
LEMMA FreeDoes ==
    ASSUME Shape, Kept(memory, node), NoBits(node), Free2MB \/ FreePage
    PROVE  \E gone :
             /\ Frees(gone, {}) /\ FreesAt(gone)
             /\ \A a : a \in DOMAIN op'.writes <=>
                         \/ a \in DOMAIN op.writes
                         \/ \E k \in gone : a = EntryOf(node, k)
             /\ \A a \in DOMAIN op'.writes :
                  IF \E k \in gone : a = EntryOf(node, k)
                  THEN op'.writes[a] = Zero ELSE op'.writes[a] = op.writes[a]
<1>1. \E gone, none :
        /\ Frees(gone, {}) /\ FreesAt(gone) /\ DOMAIN none = {}
        /\ op'.writes = Overlay(Overlay(op.writes, Zeros(gone)), none)
           \/ op'.writes = Overlay(op.writes, Zeros(gone))
  <2>1. CASE Free2MB
    <3>1. PICK gone : /\ Frees(gone, {}) /\ op'.writes = Overlay(op.writes, Zeros(gone))
                      /\ gone \subseteq {PteAt(op.tree, op.va), PdeAt(op.tree, op.va)}
      BY <2>1, Free2MBFrees
    <3>2. DOMAIN [a \in {} |-> a] = {}
      OBVIOUS
    <3> QED
      BY <2>1, <3>1, <3>2 DEF FreesAt
  <2>2. CASE FreePage
    <3> DEFINE lose == LosesAt(PageSlot(op))
    <3>1. PICK gone : /\ Frees(gone, lose)
                      /\ op'.writes = Overlay(Overlay(op.writes, Zeros(gone)), Entries(lose, node'))
                      /\ gone \subseteq {PageSlot(op), PteAt(op.tree, op.va)}
      BY <2>2, FreePageFrees
    <3>2. PageSlot(op) \in Slots
      BY <2>2, FreePageFrees
    <3>3. lose = {}
      BY <3>2 DEF NoBits, LosesAt
    <3>4. DOMAIN Entries(lose, node') = {}
      BY <3>3 DEF Entries
    <3> QED
      BY <2>2, <3>1, <3>3, <3>4 DEF FreesAt
  <2> QED
    BY <2>1, <2>2
<1>2. PICK gone, none :
        /\ Frees(gone, {}) /\ FreesAt(gone) /\ DOMAIN none = {}
        /\ op'.writes = Overlay(Overlay(op.writes, Zeros(gone)), none)
           \/ op'.writes = Overlay(op.writes, Zeros(gone))
  BY <1>1
<1> DEFINE z == Zeros(gone)
<1>3. /\ \A a : a \in DOMAIN z <=> \E k \in gone : a = EntryOf(node, k)
      /\ \A a \in DOMAIN z : z[a] = Zero
  BY <1>2, EntryAddressIs DEF Zeros, Frees
<1> HIDE DEF z
<1>4. DOMAIN op'.writes = DOMAIN op.writes \cup DOMAIN z
  BY <1>2 DEF Overlay, z
<1>5. \A a \in DOMAIN op'.writes :
         IF a \in DOMAIN z THEN op'.writes[a] = Zero ELSE op'.writes[a] = op.writes[a]
  <2>1. CASE op'.writes = Overlay(op.writes, z)
    BY <1>3, <2>1 DEF Overlay
  <2>2. CASE op'.writes = Overlay(Overlay(op.writes, z), none)
    BY <1>2, <1>3, <2>2 DEF Overlay
  <2> QED
    BY <1>2, <2>1, <2>2 DEF z
<1> QED
  BY <1>2, <1>3, <1>4, <1>5

(* Nodes go: the entries of the others stay where they are. *)
LEMMA FreedEntries ==
    ASSUME user \in DOMAIN Users, NEW mem, Kept(mem, node), NEW gone, Frees(gone, {})
    PROVE  /\ \A k \in Slots : node'[k].present =>
                /\ k \notin gone /\ node'[k] = node[k] /\ node[k].present
                /\ EntryOf(node', k) = EntryOf(node, k)
                /\ \A l \in gone : EntryOf(node, k) # EntryOf(node, l)
           /\ \A k \in Slots : node[k].present /\ k \notin gone => node'[k] = node[k]
           /\ \A k \in gone : k \in Slots /\ node[k].present
           /\ NoBits(node) => NoBits(node')
<1>1. \A k \in Slots : node'[k] = IF k \in gone THEN NoNode ELSE node[k]
  BY DEF Frees
<1>2. \A k \in gone : k \in Slots /\ node[k].present
  BY DEF Frees
<1>3. ASSUME NEW k \in Slots, node'[k].present
      PROVE  /\ k \notin gone /\ node'[k] = node[k] /\ node[k].present
             /\ EntryOf(node', k) = EntryOf(node, k)
             /\ \A l \in gone : EntryOf(node, k) # EntryOf(node, l)
  <2>1. k \notin gone /\ node'[k] = node[k] /\ node[k].present
    BY <1>1, <1>3, NoNodeIs
  <2>2. k[2] # "Pdp" => Parent(k) \in Slots /\ Parent(k) \notin gone
    BY <2>1, ParentIsSlot, SlotIs DEF Frees
  <2>3. k[2] # "Pdp" => node'[Parent(k)] = node[Parent(k)]
    BY <1>1, <2>2
  <2>4. EntryOf(node', k) = EntryOf(node, k)
    BY <2>3, EntryStays
  <2>5. \A l \in gone : EntryOf(node, k) # EntryOf(node, l)
    BY <1>2, <2>1, EntriesApart
  <2> QED
    BY <2>1, <2>4, <2>5
<1>4. NoBits(node) => NoBits(node')
  BY <1>1, NoNodeIs DEF NoBits
<1> QED
  BY <1>1, <1>2, <1>3, <1>4

(* A turn of freeMemory collects zeros where no node has its entry. *)
LEMMA FreeGathers ==
    ASSUME Shape, Kept(memory, node), NoBits(node), Free2MB \/ FreePage
    PROVE  /\ NoBits(node')
           /\ \A c : SentTo(c, node) => SentTo(c, node')
           /\ Avoided(op.writes, node) => Avoided(op'.writes, node')
           /\ \A c : Matches(op.writes, c, node) => Matches(op'.writes, c, node')
<1>1. PICK gone :
        /\ Frees(gone, {})
        /\ \A a : a \in DOMAIN op'.writes <=>
                    \/ a \in DOMAIN op.writes
                    \/ \E k \in gone : a = EntryOf(node, k)
        /\ \A a \in DOMAIN op'.writes :
             IF \E k \in gone : a = EntryOf(node, k)
             THEN op'.writes[a] = Zero ELSE op'.writes[a] = op.writes[a]
  BY FreeDoes
<1>2. user \in DOMAIN Users
  BY DEF Shape
<1>3. /\ \A k \in Slots : node'[k].present =>
           /\ k \notin gone /\ node'[k] = node[k] /\ node[k].present
           /\ EntryOf(node', k) = EntryOf(node, k)
           /\ \A l \in gone : EntryOf(node, k) # EntryOf(node, l)
      /\ \A k \in Slots : node[k].present /\ k \notin gone => node'[k] = node[k]
      /\ \A k \in gone : k \in Slots /\ node[k].present
      /\ NoBits(node')
  BY <1>1, <1>2, FreedEntries
<1> DEFINE nodes == node'
           w == op'.writes
<1> HIDE DEF nodes, w
<1>4. ASSUME NEW c, SentTo(c, node)
      PROVE  SentTo(c, nodes)
  BY <1>3, <1>4 DEF SentTo, nodes
<1>5. ASSUME Avoided(op.writes, node)
      PROVE  Avoided(w, nodes)
  BY <1>1, <1>3, <1>5 DEF Avoided, nodes, w
<1>6. ASSUME NEW c, Matches(op.writes, c, node)
      PROVE  Matches(w, c, nodes)
  <2>1. ASSUME NEW a
        PROVE  /\ (\E k \in gone : a = EntryOf(node, k)) => GivenIn(w, c, a) = Zero
               /\ ~(\E k \in gone : a = EntryOf(node, k)) => GivenIn(w, c, a) = GivenIn(op.writes, c, a)
    BY <1>1 DEF GivenIn, w
  <2>2. ASSUME NEW k \in Slots, nodes[k].present
        PROVE  GivenIn(w, c, EntryOf(nodes, k)) = EntryValue(k, nodes[k])
    BY <1>3, <1>6, <2>1, <2>2 DEF Matches, nodes
  <2>3. ASSUME NEW a, GivenIn(w, c, a).present
        PROVE  \E k \in Slots : nodes[k].present /\ a = EntryOf(nodes, k)
    <3>1. ~(\E k \in gone : a = EntryOf(node, k))
      BY <2>1, <2>3, ZeroIs
    <3>2. PICK k \in Slots : node[k].present /\ a = EntryOf(node, k)
      BY <1>6, <2>1, <2>3, <3>1 DEF Matches
    <3>3. k \notin gone /\ nodes[k] = node[k]
      BY <1>3, <3>1, <3>2 DEF nodes
    <3> QED
      BY <1>3, <3>2, <3>3 DEF nodes
  <2> QED
    BY <2>2, <2>3 DEF Matches
<1> QED
  BY <1>3, <1>4, <1>5, <1>6 DEF nodes, w

-----------------------------------------------------------------------------
(* What is pending, collected and sent, step by step *)
Sends ==
    ~Maps /\ ~Ps64 =>
        /\ NoBits(node)
        /\ \A s \in Sinks : SentTo(sink[s], node)
        /\ op # Idle /\ op.req.kind # "free" =>
             Gathered(op.writes, node) /\ Awaited(op.writes, op.pendingNodes, node)
        /\ op # Idle /\ op.req.kind = "free" => Avoided(op.writes, node)

(* The user stays, and with it the addresses and values of the entries. *)
LEMMA EntriesPrime ==
    ASSUME UNCHANGED user
    PROVE  /\ NoBits(node') => NoBits(node)'
           /\ \A c : SentTo(c, node') => SentTo(c, node)'
           /\ \A w : Gathered(w, node') => Gathered(w, node)'
           /\ \A w, p : Awaited(w, p, node') => Awaited(w, p, node)'
           /\ \A w : Avoided(w, node') => Avoided(w, node)'
           /\ \A w, c : Matches(w, c, node') => Matches(w, c, node)'
<1>1. /\ Slots' = Slots /\ Group' = Group /\ PteSpan' = PteSpan /\ PdeSlots' = PdeSlots
  BY SameUser
<1>2. \A k : Parent(k)' = Parent(k)
  BY <1>1 DEF Parent
<1>3. \A k : EntryOf(node, k)' = EntryOf(node', k)
  BY <1>1, <1>2 DEF EntryOf
<1>4. \A k, n : EntryValue(k, n)' = EntryValue(k, n)
  BY <1>1 DEF EntryValue, IsLeaf, Is2MB
<1>5. \A w, c, a : GivenIn(w, c, a)' = GivenIn(w, c, a) /\ StoredIn(c, a)' = StoredIn(c, a)
  BY DEF GivenIn, StoredIn, Zero
<1>6. NoBits(node') => NoBits(node)'
  BY <1>1 DEF NoBits
<1>7. \A c : SentTo(c, node') => SentTo(c, node)'
  BY <1>1, <1>3, <1>4, <1>5 DEF SentTo
<1>8. \A w : Gathered(w, node') => Gathered(w, node)'
  BY <1>1, <1>3, <1>4 DEF Gathered
<1>9. \A w, p : Awaited(w, p, node') => Awaited(w, p, node)'
  BY <1>1, <1>3 DEF Awaited
<1>10. \A w : Avoided(w, node') => Avoided(w, node)'
  BY <1>1, <1>3 DEF Avoided
<1>11. \A w, c : Matches(w, c, node') => Matches(w, c, node)'
  BY <1>1, <1>3, <1>4, <1>5 DEF Matches
<1> QED
  BY <1>6, <1>7, <1>8, <1>9, <1>10, <1>11

(* Every turn of a walk goes on with the request. *)
LEMMA WalkGoesOn ==
    ASSUME Shape, UNCHANGED user, Walk
    PROVE  StepsTo(op') /\ op' # Idle /\ op'.req = op.req
<1>1. StepsTo(op')
  BY WalkPdpSteps, WalkPdeToPteSteps, WalkExisting2MBSteps, Walk2MBLeafSteps, WalkPteSteps,
     WalkPtePs64Steps DEF Walk
<1> QED
  BY <1>1, WalkIsNotIdle DEF StepsTo, Nearer

(* And so does every turn of a free. *)
LEMMA FreeGoesOn ==
    ASSUME Shape, UNCHANGED user, Free2MB \/ FreePage
    PROVE  StepsTo(op') /\ op' # Idle /\ op'.req = op.req
<1>1. StepsTo(op')
  BY Free2MBSteps, FreePageSteps
<1> QED
  BY <1>1, WalkIsNotIdle DEF StepsTo, Nearer

(* What a walk is to begin with. *)
LEMMA NothingCollected ==
    ASSUME NEW nodes
    PROVE  Gathered(<< >>, nodes) /\ Awaited(<< >>, {}, nodes) /\ Avoided(<< >>, nodes)
<1>1. DOMAIN << >> = {}
  OBVIOUS
<1> QED
  BY <1>1 DEF Gathered, Awaited, Avoided

(* On the next tree nothing is collected yet. *)
LEMMA NextTreeStarts ==
    ASSUME user \in DOMAIN Users, NEW o, WalkState(o), NextTree(o) # Idle
    PROVE  NextTree(o).writes = << >> /\ NextTree(o).pendingNodes = {} /\ NextTree(o).req = o.req
<1>1. NextTree(o) = NewWalk(o.req, o.tree + 1, o.infos)
  BY DEF NextTree
<1> QED
  BY <1>1 DEF NewWalk

(* Nodes of one tree and the same PS64 have the same entries. *)
LEMMA SameTreeSameEntries ==
    ASSUME user \in DOMAIN Users, NEW nodes, NEW new, SameTree(new, nodes),
           \A k \in Slots : new[k].ps64 = nodes[k].ps64
    PROVE  \A k \in Slots : /\ new[k].present = nodes[k].present
                            /\ EntryOf(new, k) = EntryOf(nodes, k)
                            /\ EntryValue(k, new[k]) = EntryValue(k, nodes[k])
<1>1. SUFFICES ASSUME NEW k \in Slots
               PROVE  /\ new[k].present = nodes[k].present
                      /\ EntryOf(new, k) = EntryOf(nodes, k)
                      /\ EntryValue(k, new[k]) = EntryValue(k, nodes[k])
  OBVIOUS
<1>2. k[2] # "Pdp" => Parent(k) \in Slots
  BY ParentIsSlot, SlotIs
<1>3. EntryOf(new, k) = EntryOf(nodes, k)
  BY <1>2, EntryStays DEF SameTree
<1>4. EntryValue(k, new[k]) = EntryValue(k, nodes[k])
  BY DEF SameTree, EntryValue, IsLeaf, Is2MB
<1> QED
  BY <1>3, <1>4 DEF SameTree

(* The end of a walk changes nothing of the nodes but what waits. *)
LEMMA CommitNodes ==
    ASSUME Shape, Commit
    PROVE  /\ SameTree(node', node)
           /\ \A k \in Slots : /\ node'[k].ps64 = node[k].ps64
                               /\ FullyCommitted /\ k \in op.pendingNodes => ~node'[k].pending
                               /\ ~FullyCommitted \/ k \notin op.pendingNodes =>
                                     node'[k] = node[k]
<1>1. node' = [k \in Slots |-> IF FullyCommitted /\ k \in op.pendingNodes
                               THEN [node[k] EXCEPT !.pending = FALSE]
                               ELSE node[k]]
  BY DEF Commit
<1>2. \A k \in Slots : DOMAIN node[k] = NodeFields
  BY DEF Shape, NodeShape
<1>3. SameTree(node', node)
  BY CommitSame
<1> QED
  BY <1>1, <1>2, <1>3 DEF NodeFields

(* The end of a walk sends what no longer waits. *)
LEMMA CommitKeepsSent ==
    ASSUME Shape, Commit, Gathered(op.writes, node), Awaited(op.writes, op.pendingNodes, node),
           NEW s \in Sinks, SentTo(sink[s], node)
    PROVE  SentTo(sink'[s], node')
<1>0. user \in DOMAIN Users
  BY DEF Shape
<1>1. sink'[s] = IF Receives(s) THEN Store(sink[s], op.writes) ELSE sink[s]
  BY DEF Commit, Send
<1>2. /\ SameTree(node', node)
      /\ \A k \in Slots : /\ node'[k].ps64 = node[k].ps64
                          /\ FullyCommitted /\ k \in op.pendingNodes => ~node'[k].pending
                          /\ ~FullyCommitted \/ k \notin op.pendingNodes => node'[k] = node[k]
  BY CommitNodes
<1>3. \A k \in Slots : /\ node'[k].present = node[k].present
                       /\ EntryOf(node', k) = EntryOf(node, k)
                       /\ EntryValue(k, node'[k]) = EntryValue(k, node[k])
  BY <1>0, <1>2, SameTreeSameEntries
<1>4. CASE FullyCommitted
  <2>1. sink'[s] = Store(sink[s], op.writes)
    BY <1>1, <1>4 DEF FullyCommitted, Receives
  <2>2. \A k \in Slots : k \notin op.pendingNodes => node'[k].pending = node[k].pending
    BY <1>2
  <2> DEFINE nodes == node'
  <2>3. \A k \in Slots : /\ nodes[k].present = node[k].present
                         /\ EntryOf(nodes, k) = EntryOf(node, k)
                         /\ EntryValue(k, nodes[k]) = EntryValue(k, node[k])
                         /\ k \notin op.pendingNodes => nodes[k].pending = node[k].pending
    BY <1>3, <2>2
  <2>4. SentTo(Store(sink[s], op.writes), nodes)
    <3> HIDE DEF nodes
    <3> QED
      BY <1>0, <2>3, CommitSends
  <2> QED
    BY <2>1, <2>4
<1>5. CASE ~FullyCommitted
  <2>1. \A k \in Slots : node'[k] = node[k]
    BY <1>2, <1>5
  <2>2. SentTo(sink'[s], node)
    BY <1>1, SendSends
  <2> QED
    BY <1>0, <2>1, <2>2, SameNodesSameEntries
<1> QED
  BY <1>4, <1>5

(* What a step does to the nodes, the walker and the sinks of such a user. *)
SendsThen ==
    /\ NoBits(node')
    /\ \A s \in Sinks : SentTo(sink'[s], node')
    /\ op' # Idle /\ op'.req.kind # "free" =>
         Gathered(op'.writes, node') /\ Awaited(op'.writes, op'.pendingNodes, node')
    /\ op' # Idle /\ op'.req.kind = "free" => Avoided(op'.writes, node')

(* A turn of a walk. *)
LEMMA WalkSends ==
    ASSUME Shape, MemoryKept, Sends, Kept(memory', node'), UNCHANGED user, ~Maps, ~Ps64, Walk
    PROVE  SendsThen
<1>1. op.level \in {"Pdp", "Pde", "Pte"}
  BY DEF Walk, WalkPdp, WalkPdeToPte, WalkExisting2MB, Walk2MBLeaf, WalkPte, WalkPtePs64, Walking
<1>2. op # Idle /\ op.req.kind # "free"
  BY <1>1, AtLevel
<1>3. Kept(memory, node) /\ Unmapped(op)
  BY <1>2 DEF MemoryKept, Unmapped
<1>4. Turn /\ sink' = sink
  BY <1>3, WalkTurns DEF StreamsStay
<1>5. /\ NoBits(node) /\ \A s \in Sinks : SentTo(sink[s], node)
      /\ Gathered(op.writes, node) /\ Awaited(op.writes, op.pendingNodes, node)
  BY <1>2 DEF Sends
<1>6. /\ NoBits(node')
      /\ Gathered(op'.writes, node') /\ Awaited(op'.writes, op'.pendingNodes, node')
      /\ \A c : SentTo(c, node) => SentTo(c, node')
  BY <1>2, <1>3, <1>4, <1>5, TurnGathers
<1>7. op'.req = op.req
  BY WalkGoesOn
<1> QED
  BY <1>2, <1>4, <1>5, <1>6, <1>7 DEF SendsThen

(* A turn of freeMemory. *)
LEMMA FreeSends ==
    ASSUME Shape, MemoryKept, Sends, UNCHANGED user, ~Maps, ~Ps64, Free2MB \/ FreePage
    PROVE  SendsThen
<1>1. op.level = "Free"
  BY DEF Free2MB, FreePage, Walking
<1>2. op # Idle /\ op.req.kind = "free"
  BY <1>1, AtLevel
<1>3. Kept(memory, node) /\ NoBits(node) /\ Avoided(op.writes, node)
      /\ \A s \in Sinks : SentTo(sink[s], node)
  BY <1>2 DEF MemoryKept, Sends
<1>4. sink' = sink
  BY DEF Free2MB, FreePage, StreamsUnchanged
<1>5. op'.req = op.req
  BY FreeGoesOn
<1>6. /\ NoBits(node') /\ Avoided(op'.writes, node')
      /\ \A c : SentTo(c, node) => SentTo(c, node')
  BY <1>3, FreeGathers
<1> QED
  BY <1>2, <1>3, <1>4, <1>5, <1>6 DEF SendsThen

(* The end of a request on one tree. *)
LEMMA CommitStepSends ==
    ASSUME Shape, MemoryKept, Sends, UNCHANGED user, ~Maps, ~Ps64,
           Commit \/ EndRead \/ FreeReturn \/ FreeCommit
    PROVE  SendsThen
<1>0. user \in DOMAIN Users
  BY DEF Shape
<1>1. op.level \in {"Commit", "Free", "FreeCommit"}
  BY DEF Commit, EndRead, FreeReturn, FreeCommit, Walking
<1>2. op # Idle /\ WalkState(op)
  BY <1>1, AtLevel
<1>3. NoBits(node) /\ \A s \in Sinks : SentTo(sink[s], node)
  BY DEF Sends
<1>4. op' = NextTree(op)
  BY DEF Commit, EndRead, FreeReturn, FreeCommit
<1>5. op' # Idle => op'.writes = << >> /\ op'.pendingNodes = {}
  BY <1>0, <1>2, <1>4, NextTreeStarts
<1>6. op' # Idle => /\ Gathered(op'.writes, node') /\ Awaited(op'.writes, op'.pendingNodes, node')
                    /\ Avoided(op'.writes, node')
  BY <1>5, NothingCollected
<1>7. NoBits(node') /\ \A s \in Sinks : SentTo(sink'[s], node')
  <2>1. CASE Commit
    <3>1. op.req.kind # "free"
      BY <2>1, AtLevel DEF Commit, Walking
    <3>2. Gathered(op.writes, node) /\ Awaited(op.writes, op.pendingNodes, node)
      BY <1>2, <3>1 DEF Sends
    <3>3. NoBits(node')
      BY <1>3, <2>1, CommitNodes DEF NoBits
    <3> QED
      BY <1>3, <2>1, <3>2, <3>3, CommitKeepsSent
  <2>2. CASE EndRead \/ FreeReturn
    <3>1. node' = node /\ sink' = sink
      BY <2>2 DEF EndRead, FreeReturn, StreamsUnchanged
    <3> QED
      BY <1>3, <3>1
  <2>3. CASE FreeCommit
    <3>1. op.req.kind = "free"
      BY <2>3, AtLevel DEF FreeCommit, Walking
    <3>2. Avoided(op.writes, node)
      BY <1>2, <3>1 DEF Sends
    <3>3. node' = node
      BY <2>3 DEF FreeCommit
    <3>4. ASSUME NEW s \in Sinks
          PROVE  SentTo(sink'[s], node)
      <4>1. sink'[s] = IF Receives(s) THEN Store(sink[s], op.writes) ELSE sink[s]
        BY <2>3 DEF FreeCommit, Send
      <4> QED
        BY <1>3, <3>2, <4>1, SendSends
    <3> QED
      BY <1>3, <3>3, <3>4
  <2> QED
    BY <2>1, <2>2, <2>3
<1> QED
  BY <1>6, <1>7 DEF SendsThen

(* Every step of such a user. *)
LEMMA NextSends ==
    ASSUME Shape, MemoryKept, MemoryKept', Sends, [Next]_vars
    PROVE  Sends'
<1>1. UNCHANGED user
  BY DEF Next, vars
<1>2. SUFFICES ASSUME ~Maps, ~Ps64
               PROVE  /\ NoBits(node)'
                      /\ \A s \in Sinks : SentTo(sink[s], node)'
                      /\ op' # Idle /\ op'.req.kind # "free" =>
                           Gathered(op.writes, node)' /\ Awaited(op.writes, op.pendingNodes, node)'
                      /\ op' # Idle /\ op'.req.kind = "free" => Avoided(op.writes, node)'
  BY <1>1, SameUser DEF Sends
<1>3. /\ NoBits(node) /\ \A s \in Sinks : SentTo(sink[s], node)
      /\ op # Idle /\ op.req.kind # "free" =>
           Gathered(op.writes, node) /\ Awaited(op.writes, op.pendingNodes, node)
      /\ op # Idle /\ op.req.kind = "free" => Avoided(op.writes, node)
  BY <1>2 DEF Sends
<1>4. Kept(memory, node)
  BY <1>2 DEF MemoryKept
<1>5. SendsThen
  <2>1. CASE Walk
    <3>1. op.level \in {"Pdp", "Pde", "Pte"}
      BY <2>1 DEF Walk, WalkPdp, WalkPdeToPte, WalkExisting2MB, Walk2MBLeaf, WalkPte, WalkPtePs64,
                  Walking
    <3>2. op # Idle
      BY <3>1, AtLevel
    <3>3. Unmapped(op)
      BY <1>2, <3>2 DEF MemoryKept, Unmapped
    <3>4. Kept(memory', node')
      BY <1>1, <1>4, <2>1, <3>3, WalkGrows, GrowsKeeps
    <3> QED
      BY <1>1, <1>2, <2>1, <3>4, WalkSends
  <2>2. CASE Free2MB \/ FreePage
    BY <1>1, <1>2, <2>2, FreeSends
  <2>3. CASE Commit \/ EndRead \/ FreeReturn \/ FreeCommit
    BY <1>1, <1>2, <2>3, CommitStepSends
  <2>4. CASE \E r \in Requests : Begin(r)
    <3>1. PICK r \in Requests : Begin(r)
      BY <2>4
    <3>2. op' = NewWalk(r, r.first, << >>) /\ node' = node /\ sink' = sink
      BY <3>1 DEF Begin
    <3>3. op'.writes = << >> /\ op'.pendingNodes = {}
      BY <3>2 DEF NewWalk
    <3> QED
      BY <1>3, <3>2, <3>3, NothingCollected DEF SendsThen
  <2>5. CASE Finished \/ \E onoff \in BOOLEAN : Pause(onoff) \/ BlockMemWritesViaTbx(onoff)
    BY <1>3, <2>5 DEF Finished, Pause, BlockMemWritesViaTbx, SendsThen
  <2>6. CASE UNCHANGED vars
    BY <1>3, <2>6 DEF vars, SendsThen
  <2> QED
    BY <2>1, <2>2, <2>3, <2>4, <2>5, <2>6 DEF Next, Work, Free
<1> QED
  BY <1>1, <1>5, EntriesPrime DEF SendsThen

(* At first nothing is sent and nothing is there. *)
LEMMA InitSends ==
    ASSUME Init
    PROVE  Sends
<1>1. NoBits(node)
  BY NoNodeIs DEF Init, NoBits
<1>2. \A s \in Sinks : SentTo(sink[s], node)
  BY NoNodeIs DEF Init, SentTo
<1> QED
  BY <1>1, <1>2 DEF Sends, Init

(* In every state the sinks have what does not wait. *)
LEMMA SendsAlways == Spec => []Sends
<1>1. Init => Sends
  BY InitSends
<1>2. Shape /\ MemoryKept /\ MemoryKept' /\ Sends /\ [Next]_vars => Sends'
  BY NextSends
<1> QED
  BY <1>1, <1>2, ShapeAlways, MemoryKeptAlways, PTL DEF Spec

(* For every user that neither maps nor uses PS64, whatever was muted when. *)
THEOREM CommittedWasSent == Spec => [](~Maps /\ ~Ps64 => CommittedIsSent)
<1>1. Sends => (~Maps /\ ~Ps64 => CommittedIsSent)
  <2>1. SUFFICES ASSUME \A s \in Sinks : SentTo(sink[s], node), NEW k \in Present,
                        NEW s \in Sinks, ~node[k].pending
                 PROVE  Stored(s, EntryAddress(k)) = EntryValue(k, node[k])
    BY DEF Sends, CommittedIsSent
  <2>2. k \in Slots /\ node[k].present
    BY DEF Present
  <2>3. StoredIn(sink[s], EntryOf(node, k)) = EntryValue(k, node[k])
    BY <2>1, <2>2 DEF SentTo
  <2> QED
    BY <2>2, <2>3, EntryAddressIs DEF Stored, StoredIn
<1> QED
  BY <1>1, SendsAlways, PTL

-----------------------------------------------------------------------------
(* What is mapped stays mapped while other pages are freed *)

(* The leaf that translates a page, among given nodes. *)
LeafIn(nodes, t, va) ==
    IF Is2MB(PteAt(t, va), nodes[PteAt(t, va)])
    THEN PteAt(t, va)
    ELSE PageAt(t, va, MaxOf(nodes[PteAt(t, va)].size, 1))

MappedIn(nodes, t, va) == nodes[LeafIn(nodes, t, va)].present

(* The pages a request has still to visit. *)
RestMapped(nodes, o) ==
    /\ \A va \in o.va .. o.va + o.left - 1 : MappedIn(nodes, o.tree, va)
    /\ \A t \in o.tree + 1 .. o.req.last, va \in PagesOf(o.req) : MappedIn(nodes, t, va)

(* A page that is mapped lies in tables that are there. *)
LEMMA MappedPath ==
    ASSUME user \in DOMAIN Users, NEW nodes, Tree(nodes), NEW t \in 1 .. Trees, NEW va \in Pages,
           MappedIn(nodes, t, va)
    PROVE  LET l == LeafIn(nodes, t, va)
               p == PteAt(t, va)
           IN  /\ l \in Slots /\ p \in Slots /\ nodes[l].present /\ nodes[p].present
               /\ nodes[PdeAt(t, va)].present
               /\ \/ l = p /\ Is2MB(p, nodes[p])
                  \/ /\ ~Is2MB(p, nodes[p]) /\ nodes[p].size \in {1, Group}
                     /\ l = PageAt(t, va, nodes[p].size) /\ l[2] = "Pte" /\ Parent(l) = p
<1> DEFINE l == LeafIn(nodes, t, va)
           p == PteAt(t, va)
<1>1. p \in Slots /\ p[2] = "Pde" /\ Parent(p) = PdeAt(t, va)
  BY SlotsOfPage, ParentsOfPage
<1>2. nodes[p].present => Placed(nodes, p)
  BY <1>1 DEF Tree
<1>3. nodes[p].present => nodes[PdeAt(t, va)].present /\ nodes[p].size \in {1, Group, PteSpan}
  BY <1>1, <1>2 DEF Placed
<1>4. ~nodes[p].present => nodes[p].size = 0
  BY <1>1 DEF Tree
<1>5. nodes[l].present
  BY DEF MappedIn
<1>6. CASE Is2MB(p, nodes[p])
  <2>1. l = p
    BY <1>6 DEF LeafIn
  <2> QED
    BY <1>1, <1>3, <1>5, <1>6, <2>1
<1>7. CASE ~Is2MB(p, nodes[p])
  <2> DEFINE s == MaxOf(nodes[p].size, 1)
  <2>1. nodes[p].present \in BOOLEAN
    BY <1>1 DEF Tree
  <2>2. nodes[p].size # PteSpan
    BY <1>1, <1>7 DEF Is2MB
  <2>3. s \in {1, Group} /\ (nodes[p].present => s = nodes[p].size /\ nodes[p].size \in {1, Group})
    <3>1. nodes[p].size = 0 \/ nodes[p].size = 1 \/ nodes[p].size = Group
      BY <1>3, <1>4, <2>1, <2>2
    <3> QED
      BY <1>3, <2>2, <3>1, UserFacts DEF MaxOf
  <2>4. s \in Nat \ {0}
    BY <2>3, UserFacts
  <2>5. l = PageAt(t, va, s)
    BY <1>7 DEF LeafIn
  <2> HIDE DEF s
  <2>6. l \in Slots /\ l[2] = "Pte" /\ Parent(l) = p
    BY <2>3, <2>4, <2>5, SlotsOfPage, ParentsOfPage
  <2> HIDE DEF l
  <2>7. Placed(nodes, l)
    BY <1>5, <2>6 DEF Tree
  <2>8. nodes[p].present
    BY <2>6, <2>7 DEF Placed
  <2> QED
    BY <1>1, <1>3, <1>5, <1>7, <2>3, <2>5, <2>6, <2>8 DEF l
<1> QED
  BY <1>6, <1>7

(* Freeing other pages leaves it mapped. *)
LEMMA StaysMapped ==
    ASSUME user \in DOMAIN Users, Tree(node), NEW gone, Frees(gone, {}),
           NEW t \in 1 .. Trees, NEW va \in Pages, MappedIn(node, t, va),
           LeafIn(node, t, va) \notin gone
    PROVE  MappedIn(node', t, va)
<1> DEFINE l == LeafIn(node, t, va)
           p == PteAt(t, va)
<1>1. /\ l \in Slots /\ p \in Slots /\ node[l].present /\ node[p].present
      /\ \/ l = p
         \/ l[2] = "Pte" /\ Parent(l) = p
  BY MappedPath
<1>2. p \notin gone
  BY <1>1 DEF Frees
<1>3. \A k \in Slots \ gone : node'[k] = node[k]
  BY DEF Frees
<1>4. node'[p] = node[p] /\ node'[l] = node[l]
  BY <1>1, <1>2, <1>3
<1>5. LeafIn(node', t, va) = l
  BY <1>4 DEF LeafIn
<1> QED
  BY <1>1, <1>4, <1>5 DEF MappedIn

(* An address behind the turn is in another page. *)
LEMMA BehindPage ==
    ASSUME NEW S \in Nat \ {0}, NEW x \in Nat, NEW y \in Nat, x - (x % S) + S <= y
    PROVE  x \div S # y \div S /\ x - (x % S) # y - (y % S)
<1>1. x \div S \in Nat /\ x = S * (x \div S) + (x % S) /\ x % S \in 0 .. S - 1
  BY Quotient, Offset
<1>2. y \div S \in Nat /\ y = S * (y \div S) + (y % S) /\ y % S \in 0 .. S - 1
  BY Quotient, Offset
<1>3. x - (x % S) # y - (y % S)
  BY <1>1, <1>2
<1> QED
  BY <1>1, <1>2, <1>3

(* Where freeMemory goes on: behind the page it is at, or at the end of the range. *)
LEMMA FreeAdvances ==
    ASSUME Shape, Free2MB \/ FreePage
    PROVE  /\ op'.req = op.req /\ op'.tree = op.tree
           /\ \E s \in Nat \ {0} :
                /\ op'.va = op.va + Stride(op, s) /\ op'.left = op.left - Stride(op, s)
                /\ Free2MB => s = PteSpan /\ Is2MB(PteAt(op.tree, op.va), Pte(op))
                /\ ~Free2MB => /\ s = Pte(op).size /\ s \in {1, Group}
                               /\ ~Is2MB(PteAt(op.tree, op.va), Pte(op))
<1>1. op.level = "Free"
  BY DEF Free2MB, FreePage, Walking
<1>2. /\ WalkState(op) /\ DOMAIN op = WalkFields /\ user \in DOMAIN Users /\ op.left > 0
      /\ op.req.kind = "free" /\ op.tree \in 1 .. Trees /\ op.va \in Pages
  BY <1>1, AtLevel
<1>3. ASSUME NEW s \in Nat \ {0}, NEW w, op' = AdvanceFree([op EXCEPT !.writes = w], s)
      PROVE  /\ op'.req = op.req /\ op'.tree = op.tree
             /\ op'.va = op.va + Stride(op, s) /\ op'.left = op.left - Stride(op, s)
  BY <1>2, <1>3 DEF AdvanceFree, WalkFields, Stride
<1>4. CASE Free2MB
  <2>1. PICK w : op' = AdvanceFree([op EXCEPT !.writes = w], PteSpan)
    BY <1>4 DEF Free2MB
  <2>2. Is2MB(PteAt(op.tree, op.va), Pte(op))
    BY <1>4 DEF Free2MB, Pte
  <2>3. PteSpan \in Nat \ {0}
    BY <1>2, UserFacts
  <2> QED
    BY <1>3, <1>4, <2>1, <2>2, <2>3
<1>5. CASE ~Free2MB
  <2>0. FreePage
    BY <1>5
  <2>1. /\ Pte(op).present /\ ~Is2MB(PteAt(op.tree, op.va), Pte(op))
        /\ \E w : op' = AdvanceFree([op EXCEPT !.writes = w], Pte(op).size)
    BY <2>0, Zenon DEF FreePage, Pte
  <2>2. PteAt(op.tree, op.va) \in Slots /\ PteAt(op.tree, op.va)[2] = "Pde"
    BY <1>2, SlotsOfPage
  <2>3. Pte(op).size \in {1, Group} /\ Pte(op).size \in Nat \ {0}
    BY <1>2, <2>1, <2>2, UserFacts DEF Shape, NodeShape, Is2MB, Pte
  <2> QED
    BY <1>3, <1>5, <2>1, <2>3
<1> QED
  BY <1>4, <1>5

(* The rest of the range stays mapped. *)
LEMMA FreeKeepsRest ==
    ASSUME Shape, Kept(memory, node), NEW gone, Frees(gone, {}), FreesAt(gone), RestMapped(node, op)
    PROVE  RestMapped(node', op')
<1>0. Free2MB \/ FreePage
  BY DEF FreesAt
<1>1. op.level = "Free"
  BY <1>0 DEF Free2MB, FreePage, Walking
<1>2. /\ WalkState(op) /\ user \in DOMAIN Users /\ op.left > 0 /\ op.left \in Nat
      /\ op.tree \in 1 .. Trees /\ op.va \in Pages /\ Tree(node)
      /\ op.va \in Nat /\ op.va + op.left = op.req.va + op.req.size
  BY <1>1, AtLevel DEF Kept, WalkState
<1>3. /\ op.req.va \in Nat /\ op.req.size \in Nat /\ op.req.va + op.req.size <= VaPages
      /\ op.req.last \in 1 .. Trees
  BY <1>2, RequestFacts DEF WalkState
<1>4. op'.req = op.req /\ op'.tree = op.tree
  BY <1>0, FreeAdvances
<1>5. PICK s \in Nat \ {0} :
        /\ op'.va = op.va + Stride(op, s) /\ op'.left = op.left - Stride(op, s)
        /\ Free2MB => s = PteSpan /\ Is2MB(PteAt(op.tree, op.va), Pte(op))
        /\ ~Free2MB => /\ s = Pte(op).size /\ s \in {1, Group}
                       /\ ~Is2MB(PteAt(op.tree, op.va), Pte(op))
  BY <1>0, FreeAdvances
<1>6. /\ Stride(op, s) \in Nat \ {0} /\ Stride(op, s) <= op.left
      /\ Stride(op, s) = op.left \/ op.va + Stride(op, s) = op.va - (op.va % s) + s
  BY <1>2, StrideFacts
<1> DEFINE p0 == PteAt(op.tree, op.va)
           d0 == PdeAt(op.tree, op.va)
<1>7. /\ p0 \in Slots /\ p0[1] = op.tree /\ p0[2] = "Pde" /\ p0 = <<op.tree, "Pde", op.va \div PteSpan>>
      /\ d0[2] = "Pdp"
  BY <1>2, SlotsOfPage DEF PteAt
<1>8. ASSUME ~Free2MB
      PROVE  /\ PageSlot(op)[2] = "Pte" /\ Parent(PageSlot(op)) = p0
             /\ PageSlot(op)[3] = op.va - (op.va % s)
  <2>1. s = Pte(op).size /\ s \in {1, Group}
    BY <1>5, <1>8
  <2>2. PageSlot(op) = PageAt(op.tree, op.va, s)
    BY <2>1 DEF PageSlot
  <2>3. Parent(PageAt(op.tree, op.va, s)) = p0
    BY <1>2, <2>1, ParentsOfPage
  <2>4. PageAt(op.tree, op.va, s) = <<op.tree, "Pte", op.va - (op.va % s)>>
    BY DEF PageAt, AlignDown
  <2> QED
    BY <2>2, <2>3, <2>4
<1>9. ASSUME NEW t \in 1 .. Trees, NEW va \in Pages, MappedIn(node, t, va),
             t # op.tree \/ op.va - (op.va % s) + s <= va
      PROVE  LeafIn(node, t, va) \notin gone
  <2> DEFINE l == LeafIn(node, t, va)
             p == PteAt(t, va)
  <2>1. /\ l \in Slots /\ p \in Slots
        /\ \/ l = p /\ Is2MB(p, node[p])
           \/ /\ ~Is2MB(p, node[p]) /\ node[p].size \in {1, Group}
              /\ l = PageAt(t, va, node[p].size) /\ l[2] = "Pte" /\ Parent(l) = p
    BY <1>2, <1>9, MappedPath
  <2>2. p[2] = "Pde" /\ p = <<t, "Pde", va \div PteSpan>>
    BY DEF PteAt
  <2>3. va \in Nat /\ op.va \in Nat
    BY <1>2 DEF Pages
  <2> HIDE DEF l
  <2>4. CASE Free2MB
    <3>1. gone \subseteq {p0, d0, PageSlot(op)} /\ s = PteSpan /\ Is2MB(p0, node[p0])
      BY <1>5, <2>4 DEF FreesAt, Pte
    <3>2. p # p0
      <4>1. op.va - (op.va % s) + s <= va => op.va \div s # va \div s
        BY <2>3, BehindPage
      <4> QED
        BY <1>7, <1>9, <2>2, <3>1, <4>1
    <3>3. ~FreePage
      BY <2>4, <3>1, Zenon DEF FreePage, Pte
    <3>4. gone \subseteq {p0, d0}
      BY <3>3 DEF FreesAt
    <3>5. l # d0
      BY <1>7, <2>1, <2>2
    <3>6. l # p0
      BY <1>7, <2>1, <2>2, <3>2
    <3> QED
      BY <3>4, <3>5, <3>6 DEF l
  <2>5. CASE ~Free2MB
    <3>1. /\ gone \subseteq {p0, PageSlot(op)} /\ s = node[p0].size /\ ~Is2MB(p0, node[p0])
      BY <1>5, <2>5 DEF FreesAt, Pte
    <3>2. l # p0
      BY <1>7, <2>1, <2>2, <3>1
    <3>3. l # PageSlot(op)
      <4>1. SUFFICES ASSUME l = PageSlot(op) PROVE FALSE
        OBVIOUS
      <4>2. p = p0 /\ l = PageAt(t, va, node[p].size)
        BY <1>8, <2>1, <2>2, <2>5, <4>1
      <4>3. t = op.tree
        BY <1>7, <2>2, <4>2
      <4>4. l[3] = va - (va % s)
        BY <3>1, <4>2 DEF PageAt, AlignDown
      <4>5. op.va - (op.va % s) # va - (va % s)
        BY <1>9, <2>3, <4>3, BehindPage
      <4> QED
        BY <1>8, <2>5, <4>1, <4>4, <4>5
    <3> QED
      BY <3>1, <3>2, <3>3 DEF l
  <2> QED
    BY <2>4, <2>5
<1>10. ASSUME NEW va \in op'.va .. op'.va + op'.left - 1
       PROVE  MappedIn(node', op.tree, va)
  <2>0. op.va % s \in 0 .. s - 1
    BY <1>2, Offset
  <2> DEFINE n == Stride(op, s)
  <2>a. /\ n \in Nat \ {0} /\ n <= op.left
        /\ n = op.left \/ op.va + n = op.va - (op.va % s) + s
        /\ op'.va = op.va + n /\ op'.left = op.left - n
    BY <1>5, <1>6
  <2> HIDE DEF n
  <2>b. op'.va \in Nat /\ op'.left \in Nat /\ op'.va + op'.left = op.va + op.left /\ op.va <= op'.va
    BY <1>2, <2>a
  <2>c. va \in Nat /\ op'.va <= va /\ va <= op.va + op.left - 1
    BY <1>2, <1>10, <2>b
  <2>d. n # op.left
    BY <1>2, <2>a, <2>b, <2>c
  <2>e. op.va - (op.va % s) + s <= va
    BY <2>a, <2>c, <2>d
  <2>f. va < VaPages /\ VaPages \in Nat
    BY <1>2, <1>3, <2>c, UserFacts
  <2>1. va \in op.va .. op.va + op.left - 1 /\ op.va - (op.va % s) + s <= va /\ va \in Pages
    BY <1>2, <2>b, <2>c, <2>e, <2>f DEF Pages
  <2>2. MappedIn(node, op.tree, va)
    BY <2>1 DEF RestMapped
  <2>3. LeafIn(node, op.tree, va) \notin gone
    BY <1>2, <1>9, <2>1, <2>2
  <2> QED
    BY <1>2, <2>1, <2>2, <2>3, StaysMapped
<1>11. ASSUME NEW t \in op.tree + 1 .. op.req.last, NEW va \in PagesOf(op.req)
       PROVE  MappedIn(node', t, va)
  <2>1. t \in 1 .. Trees /\ t # op.tree /\ va \in Pages
    <3>1. Trees \in Nat /\ VaPages \in Nat
      BY <1>2, UserFacts
    <3>2. t \in 1 .. Trees /\ t # op.tree
      <4> DEFINE a == op.tree
                 b == op.req.last
      <4>1. a \in Nat /\ b \in Nat /\ b <= Trees
        BY <1>2, <1>3, <3>1
      <4>2. t \in a + 1 .. b
        OBVIOUS
      <4> HIDE DEF a, b
      <4>3. t \in 1 .. Trees /\ t # a
        BY <3>1, <4>1, <4>2
      <4> QED
        BY <4>3 DEF a
    <3>3. va \in op.req.va .. op.req.va + op.req.size - 1
      BY DEF PagesOf
    <3>4. va \in 0 .. VaPages - 1
      BY <1>3, <3>1, <3>3
    <3> QED
      BY <3>2, <3>4 DEF Pages
  <2>2. MappedIn(node, t, va)
    BY DEF RestMapped
  <2>3. LeafIn(node, t, va) \notin gone
    BY <1>9, <2>1, <2>2
  <2> QED
    BY <1>2, <2>1, <2>2, <2>3, StaysMapped
<1> QED
  BY <1>4, <1>10, <1>11 DEF RestMapped

-----------------------------------------------------------------------------
(* Streams that are never muted: the sinks have the tree *)

(* The users this is about: free and read only what is mapped, mute nothing. *)
Plain == ~Maps /\ ~Ps64 /\ CarefulUser /\ ~CanPause /\ ~CanBlock

(* A sink keeps no zeros. *)
NoZerosIn(content) == \A a \in DOMAIN content : content[a].present

(* What the sinks have, with what was collected for them, is the tree. *)
Fits ==
    Plain =>
        /\ ~paused /\ ~blocked
        /\ \A s \in Sinks : NoZerosIn(sink[s])
        /\ op = Idle \/ op.req.kind = "read" => \A s \in Sinks : Matches(<< >>, sink[s], node)
        /\ op # Idle /\ op.req.kind # "read" => \A s \in Sinks : Matches(op.writes, sink[s], node)
        /\ op # Idle /\ op.req.kind = "free" => RestMapped(node, op)

(* Nothing that is sent is kept as a zero. *)
LEMMA StoreNoZeros ==
    ASSUME NEW content, NEW w
    PROVE  NoZerosIn(Store(content, w))
<1> DEFINE new == Overlay(content, w)
<1>1. Store(content, w) = [a \in {x \in DOMAIN new : new[x].present} |-> new[a]]
  BY DEF Store
<1> HIDE DEF new
<1> QED
  BY <1>1 DEF NoZerosIn

(* What matched together with what was collected matches once that is sent. *)
LEMMA SentMatches ==
    ASSUME NEW content, NEW w, NEW nodes, Matches(w, content, nodes)
    PROVE  Matches(<< >>, Store(content, w), nodes)
<1> DEFINE c == Store(content, w)
<1>1. \A a : GivenIn(<< >>, c, a) = StoredIn(c, a)
  <2>1. DOMAIN << >> = {}
    OBVIOUS
  <2> QED
    BY <2>1 DEF GivenIn
<1>2. ASSUME NEW k \in Slots, nodes[k].present
      PROVE  StoredIn(c, EntryOf(nodes, k)) = EntryValue(k, nodes[k])
  <2>1. GivenIn(w, content, EntryOf(nodes, k)) = EntryValue(k, nodes[k])
    BY <1>2 DEF Matches
  <2> QED
    BY <2>1, EntryValueIs, StoreGives
<1>3. ASSUME NEW a, StoredIn(c, a).present
      PROVE  \E k \in Slots : nodes[k].present /\ a = EntryOf(nodes, k)
  <2>1. GivenIn(w, content, a).present
    BY <1>3, StoreIs
  <2> QED
    BY <2>1 DEF Matches
<1> HIDE DEF c
<1>4. \A k \in Slots : nodes[k].present =>
         GivenIn(<< >>, c, EntryOf(nodes, k)) = EntryValue(k, nodes[k])
  BY <1>1, <1>2
<1>5. \A a : GivenIn(<< >>, c, a).present =>
         \E k \in Slots : nodes[k].present /\ a = EntryOf(nodes, k)
  BY <1>1, <1>3
<1> QED
  BY <1>4, <1>5 DEF Matches, c

(* Nodes with the same entries match the same. *)
LEMMA SameEntriesMatch ==
    ASSUME NEW nodes, NEW new,
           \A k \in Slots : /\ new[k].present = nodes[k].present
                            /\ EntryOf(new, k) = EntryOf(nodes, k)
                            /\ EntryValue(k, new[k]) = EntryValue(k, nodes[k]),
           NEW w, NEW content, Matches(w, content, nodes)
    PROVE  Matches(w, content, new)
<1>1. ASSUME NEW k \in Slots, new[k].present
      PROVE  GivenIn(w, content, EntryOf(new, k)) = EntryValue(k, new[k])
  BY <1>1 DEF Matches
<1>2. ASSUME NEW a, GivenIn(w, content, a).present
      PROVE  \E k \in Slots : new[k].present /\ a = EntryOf(new, k)
  BY <1>2 DEF Matches
<1> QED
  BY <1>1, <1>2 DEF Matches

(* A walk that has just begun has the range before it as its user left it. *)
LEMMA RestBegins ==
    ASSUME user \in DOMAIN Users, NEW r \in Requests, NEW t \in r.first .. r.last, NEW infos,
           NEW nodes, \A u \in t .. r.last, va \in PagesOf(r) : MappedIn(nodes, u, va)
    PROVE  RestMapped(nodes, NewWalk(r, t, infos))
<1> DEFINE o == NewWalk(r, t, infos)
<1>1. o.req = r /\ o.tree = t /\ o.va = r.va /\ o.left = r.size
  BY NewWalkStarts
<1>2. r.first \in Int /\ r.last \in Int /\ t \in Int
  <2>1. Trees \in Nat
    BY UserFacts
  <2>2. r.first \in 1 .. Trees /\ r.last \in 1 .. Trees
    BY RequestFacts
  <2> DEFINE a == r.first
             b == r.last
  <2>3. t \in a .. b /\ a \in 1 .. Trees /\ b \in 1 .. Trees
    BY <2>2
  <2> HIDE DEF a, b
  <2>4. a \in Int /\ b \in Int /\ t \in Int
    BY <2>1, <2>3
  <2> QED
    BY <2>4 DEF a, b
<1>3. t \in t .. r.last /\ \A u \in t + 1 .. r.last : u \in t .. r.last
  <2> DEFINE a == r.first
             b == r.last
  <2>1. t \in a .. b /\ a \in Int /\ b \in Int /\ t \in Int
    BY <1>2
  <2> HIDE DEF a, b
  <2>2. t \in t .. b /\ \A u \in t + 1 .. b : u \in t .. b
    BY <2>1
  <2> QED
    BY <2>2 DEF b
<1> HIDE DEF o
<1>4. \A va \in o.va .. o.va + o.left - 1 : MappedIn(nodes, o.tree, va)
  BY <1>1, <1>3 DEF PagesOf
<1>5. \A u \in o.tree + 1 .. o.req.last, va \in PagesOf(o.req) : MappedIn(nodes, u, va)
  BY <1>1, <1>3
<1> QED
  BY <1>4, <1>5 DEF RestMapped, o

(* The user stays, and with it what is mapped. *)
LEMMA RestPrime ==
    ASSUME UNCHANGED user, RestMapped(node', op')
    PROVE  RestMapped(node, op)'
<1>1. \A t, va : PteAt(t, va)' = PteAt(t, va)
  BY SameUser
<1>2. PteSpan' = PteSpan
  BY SameUser
<1>3. \A t, va : LeafIn(node, t, va)' = LeafIn(node', t, va)
  BY <1>1, <1>2 DEF LeafIn, Is2MB
<1>4. \A t, va : MappedIn(node, t, va)' <=> MappedIn(node', t, va)
  BY <1>3 DEF MappedIn
<1> QED
  BY <1>4 DEF RestMapped, PagesOf

(* What a step does to the nodes, the walker and the sinks of such a user. *)
FitsThen ==
    /\ ~paused' /\ ~blocked'
    /\ \A s \in Sinks : NoZerosIn(sink'[s])
    /\ op' = Idle \/ op'.req.kind = "read" => \A s \in Sinks : Matches(<< >>, sink'[s], node')
    /\ op' # Idle /\ op'.req.kind # "read" => \A s \in Sinks : Matches(op'.writes, sink'[s], node')
    /\ op' # Idle /\ op'.req.kind = "free" => RestMapped(node', op')

(* A turn of a walk. *)
LEMMA WalkFits ==
    ASSUME Shape, MemoryKept, Sends, Fits, UNCHANGED user, Plain, Walk
    PROVE  FitsThen
<1>0. user \in DOMAIN Users /\ ~Maps /\ ~Ps64
  BY DEF Shape, Plain
<1>1. op.level \in {"Pdp", "Pde", "Pte"}
  BY DEF Walk, WalkPdp, WalkPdeToPte, WalkExisting2MB, Walk2MBLeaf, WalkPte, WalkPtePs64, Walking
<1>2. op # Idle /\ op.req.kind # "free"
  BY <1>1, AtLevel
<1>3. Kept(memory, node) /\ Unmapped(op)
  BY <1>0, <1>2 DEF MemoryKept, Unmapped
<1>4. Kept(memory', node')
  BY <1>3, WalkGrows, GrowsKeeps
<1>5. Turn /\ sink' = sink /\ paused' = paused /\ blocked' = blocked
  BY <1>0, <1>3, WalkTurns DEF StreamsStay
<1>6. NoBits(node) /\ Gathered(op.writes, node) /\ Awaited(op.writes, op.pendingNodes, node)
  BY <1>0, <1>2 DEF Sends
<1>7. /\ \A c : Matches(op.writes, c, node) => Matches(op'.writes, c, node')
      /\ op.req.kind = "read" => \A k \in Slots : node'[k] = node[k]
  BY <1>2, <1>3, <1>4, <1>5, <1>6, TurnGathers
<1>8. op' # Idle /\ op'.req = op.req
  BY WalkGoesOn
<1>9. ~paused /\ ~blocked /\ \A s \in Sinks : NoZerosIn(sink[s])
  BY DEF Fits
<1>10. CASE op.req.kind = "read"
  <2>1. \A s \in Sinks : Matches(<< >>, sink[s], node)
    BY <1>10 DEF Fits
  <2>2. \A s \in Sinks : Matches(<< >>, sink[s], node')
    BY <1>0, <1>7, <1>10, <2>1, SameNodesSameEntries
  <2> QED
    BY <1>5, <1>8, <1>9, <1>10, <2>2 DEF FitsThen
<1>11. CASE op.req.kind # "read"
  <2>1. \A s \in Sinks : Matches(op.writes, sink[s], node)
    BY <1>2, <1>11 DEF Fits
  <2>2. \A s \in Sinks : Matches(op'.writes, sink[s], node')
    BY <1>7, <2>1
  <2> QED
    BY <1>2, <1>5, <1>8, <1>9, <1>11, <2>2 DEF FitsThen
<1> QED
  BY <1>10, <1>11

(* A turn of freeMemory. *)
LEMMA FreeFits ==
    ASSUME Shape, MemoryKept, Sends, Fits, UNCHANGED user, Plain, Free2MB \/ FreePage
    PROVE  FitsThen
<1>0. user \in DOMAIN Users /\ ~Maps /\ ~Ps64
  BY DEF Shape, Plain
<1>1. op.level = "Free"
  BY DEF Free2MB, FreePage, Walking
<1>2. op # Idle /\ op.req.kind = "free"
  BY <1>1, AtLevel
<1>3. Kept(memory, node) /\ NoBits(node)
  BY <1>0, <1>2 DEF MemoryKept, Sends
<1>4. sink' = sink /\ paused' = paused /\ blocked' = blocked
  BY DEF Free2MB, FreePage, StreamsUnchanged
<1>5. op' # Idle /\ op'.req = op.req
  BY FreeGoesOn
<1>6. /\ ~paused /\ ~blocked /\ \A s \in Sinks : NoZerosIn(sink[s])
      /\ \A s \in Sinks : Matches(op.writes, sink[s], node)
      /\ RestMapped(node, op)
  BY <1>2 DEF Fits
<1>7. \A c : Matches(op.writes, c, node) => Matches(op'.writes, c, node')
  BY <1>3, FreeGathers
<1>8. RestMapped(node', op')
  <2>1. PICK gone : Frees(gone, {}) /\ FreesAt(gone)
    BY <1>3, FreeDoes
  <2> QED
    BY <1>3, <1>6, <2>1, FreeKeepsRest
<1> QED
  BY <1>2, <1>4, <1>5, <1>6, <1>7, <1>8 DEF FitsThen

(* The tables of what is to be freed are there: the call does not return early. *)
LEMMA FreeIsComplete ==
    ASSUME Shape, MemoryKept, Fits, Plain, FreeReturn
    PROVE  FALSE
<1>1. op.level = "Free"
  BY DEF FreeReturn, Walking
<1>2. /\ op # Idle /\ op.req.kind = "free" /\ WalkState(op) /\ op.left > 0
      /\ op.tree \in 1 .. Trees /\ op.va \in Pages /\ user \in DOMAIN Users
  BY <1>1, AtLevel
<1>3. Tree(node) /\ RestMapped(node, op)
  BY <1>2 DEF MemoryKept, Kept, Fits, Plain
<1>4. op.va \in op.va .. op.va + op.left - 1
  <2> DEFINE a == op.va
             b == op.left
  <2>1. a \in Nat /\ b \in Nat /\ b > 0
    BY <1>2 DEF WalkState
  <2> HIDE DEF a, b
  <2>2. a \in a .. a + b - 1
    BY <2>1
  <2> QED
    BY <2>2 DEF a, b
<1>5. MappedIn(node, op.tree, op.va)
  BY <1>3, <1>4 DEF RestMapped
<1>6. node[PteAt(op.tree, op.va)].present /\ node[PdeAt(op.tree, op.va)].present
  BY <1>2, <1>3, <1>5, MappedPath
<1> QED
  BY <1>6 DEF FreeReturn

(* On the next tree the range is mapped as it was on this one. *)
LEMMA NextTreeRest ==
    ASSUME Shape, op # Idle, RestMapped(node, op), NextTree(op) # Idle
    PROVE  RestMapped(node, NextTree(op))
<1>1. user \in DOMAIN Users /\ WalkState(op)
  BY DEF Shape
<1>2. NextTree(op) = NewWalk(op.req, op.tree + 1, op.infos) /\ op.tree < op.req.last
  BY DEF NextTree
<1>3. op.req \in Requests /\ op.tree \in op.req.first .. op.req.last
  BY <1>1 DEF WalkState
<1>4. op.tree + 1 \in op.req.first .. op.req.last
  <2>1. op.req.first \in 1 .. Trees /\ op.req.last \in 1 .. Trees /\ Trees \in Nat
    BY <1>1, <1>3, RequestFacts, UserFacts
  <2> DEFINE a == op.req.first
             b == op.req.last
             t == op.tree
  <2>2. a \in 1 .. Trees /\ b \in 1 .. Trees /\ Trees \in Nat /\ t \in a .. b /\ t < b
    BY <1>2, <1>3, <2>1
  <2> HIDE DEF a, b, t
  <2>3. t + 1 \in a .. b
    BY <2>2
  <2> QED
    BY <2>3 DEF a, b, t
<1>5. \A u \in op.tree + 1 .. op.req.last, va \in PagesOf(op.req) : MappedIn(node, u, va)
  BY DEF RestMapped
<1> QED
  BY <1>1, <1>2, <1>3, <1>4, <1>5, RestBegins

(* A request on one tree ends. *)
LEMMA CommitFits ==
    ASSUME Shape, MemoryKept, Sends, Fits, UNCHANGED user, Plain,
           Commit \/ EndRead \/ FreeReturn \/ FreeCommit
    PROVE  FitsThen
<1>0. user \in DOMAIN Users
  BY DEF Shape
<1>1. op.level \in {"Commit", "Free", "FreeCommit"}
  BY DEF Commit, EndRead, FreeReturn, FreeCommit, Walking
<1>2. op # Idle /\ WalkState(op)
  BY <1>1, AtLevel
<1>3. ~paused /\ ~blocked /\ \A s \in Sinks : NoZerosIn(sink[s])
  BY DEF Fits
<1>4. op' = NextTree(op) /\ ~FreeReturn
  BY FreeIsComplete DEF Commit, EndRead, FreeCommit
<1>5. op' # Idle => op'.writes = << >> /\ op'.req = op.req
  BY <1>0, <1>2, <1>4, NextTreeStarts
<1>6. /\ ~paused' /\ ~blocked'
      /\ \A s \in Sinks : NoZerosIn(sink'[s]) /\ Matches(<< >>, sink'[s], node')
  <2>1. CASE EndRead
    <3>1. node' = node /\ sink' = sink /\ paused' = paused /\ blocked' = blocked
      BY <2>1 DEF EndRead, StreamsUnchanged
    <3>2. op.req.kind = "read"
      BY <2>1, ModeIs DEF EndRead
    <3>3. \A s \in Sinks : Matches(<< >>, sink[s], node)
      BY <3>2 DEF Fits
    <3> QED
      BY <1>3, <3>1, <3>3
  <2>2. CASE Commit \/ FreeCommit
    <3>1. op.req.kind # "read"
      BY <1>2, <2>2, AtLevel, ModeIs DEF Commit, FreeCommit, Walking
    <3>2. paused' = paused /\ blocked' = blocked
      BY <2>2 DEF Commit, FreeCommit
    <3>3. \A s \in Sinks : sink'[s] = Store(sink[s], op.writes)
      <4>1. \A s \in Sinks : Receives(s)
        BY <1>3 DEF Receives, Sinks
      <4> QED
        BY <2>2, <4>1 DEF Commit, FreeCommit, Send
    <3>4. \A s \in Sinks : Matches(op.writes, sink[s], node)
      BY <1>2, <3>1 DEF Fits
    <3>5. \A s \in Sinks : NoZerosIn(sink'[s]) /\ Matches(<< >>, sink'[s], node)
      BY <3>3, <3>4, StoreNoZeros, SentMatches
    <3>6. \A k \in Slots : /\ node'[k].present = node[k].present
                           /\ EntryOf(node', k) = EntryOf(node, k)
                           /\ EntryValue(k, node'[k]) = EntryValue(k, node[k])
      <4>1. CASE Commit
        BY <1>0, <4>1, CommitNodes, SameTreeSameEntries
      <4>2. CASE FreeCommit
        BY <4>2 DEF FreeCommit
      <4> QED
        BY <2>2, <4>1, <4>2
    <3> DEFINE new == node'
    <3>7. \A s \in Sinks : Matches(<< >>, sink'[s], new)
      <4>1. \A k \in Slots : /\ new[k].present = node[k].present
                             /\ EntryOf(new, k) = EntryOf(node, k)
                             /\ EntryValue(k, new[k]) = EntryValue(k, node[k])
        BY <3>6
      <4> HIDE DEF new
      <4> QED
        BY <3>5, <4>1, SameEntriesMatch
    <3> QED
      BY <1>3, <3>2, <3>5, <3>7
  <2> QED
    BY <1>4, <2>1, <2>2
<1>7. op' # Idle /\ op'.req.kind = "free" => RestMapped(node', op')
  <2>1. SUFFICES ASSUME op' # Idle, op'.req.kind = "free" PROVE RestMapped(node', op')
    OBVIOUS
  <2>2. op.req.kind = "free"
    BY <1>5, <2>1
  <2>3. RestMapped(node, op)
    BY <1>2, <2>2 DEF Fits
  <2>4. op.level = "FreeCommit" \/ op.level = "Free"
    BY <1>1, <2>2, AtLevel
  <2>5. FreeCommit
    BY <1>4, <2>4 DEF Commit, EndRead, Walking
  <2>6. node' = node
    BY <2>5 DEF FreeCommit
  <2> QED
    BY <1>2, <1>4, <2>1, <2>3, <2>6, NextTreeRest
<1> QED
  BY <1>5, <1>6, <1>7 DEF FitsThen

(* A request begins: what it frees is mapped, and nothing is collected yet. *)
LEMMA BeginFits ==
    ASSUME Shape, Fits, Plain, NEW r \in Requests, Begin(r)
    PROVE  FitsThen
<1>0. user \in DOMAIN Users
  BY DEF Shape
<1>1. /\ op = Idle /\ op' = NewWalk(r, r.first, << >>)
      /\ node' = node /\ sink' = sink /\ paused' = paused /\ blocked' = blocked
  BY DEF Begin
<1>2. /\ ~paused /\ ~blocked
      /\ \A s \in Sinks : NoZerosIn(sink[s]) /\ Matches(<< >>, sink[s], node)
  BY <1>1 DEF Fits
<1>3. r.first \in r.first .. r.last
  <2> DEFINE a == r.first
             b == r.last
  <2>1. a \in 1 .. Trees /\ b \in 1 .. Trees /\ a <= b /\ Trees \in Nat
    BY <1>0, RequestFacts, UserFacts
  <2> HIDE DEF a, b
  <2>2. a \in a .. b
    BY <2>1
  <2> QED
    BY <2>2 DEF a, b
<1>4. op'.writes = << >> /\ op'.req = r
  BY <1>0, <1>1, <1>3, NewWalkStarts
<1>5. r.kind = "free" => RestMapped(node, op')
  <2>1. SUFFICES ASSUME r.kind = "free" PROVE RestMapped(node, NewWalk(r, r.first, << >>))
    BY <1>1
  <2>2. \A t \in r.first .. r.last, va \in PagesOf(r) : Mapped(t, va)
    BY <2>1 DEF Begin, Plain
  <2>3. \A t, va : Mapped(t, va) <=> MappedIn(node, t, va)
    BY DEF Mapped, MappedIn, LeafSlot, LeafIn
  <2>4. \A t \in r.first .. r.last, va \in PagesOf(r) : MappedIn(node, t, va)
    BY <2>2, <2>3
  <2> QED
    BY <1>0, <1>3, <2>4, RestBegins
<1> QED
  BY <1>1, <1>2, <1>4, <1>5 DEF FitsThen

(* A step that leaves all of it alone. *)
LEMMA StutterFits ==
    ASSUME Fits, Plain, UNCHANGED <<node, sink, paused, blocked, op>>
    PROVE  FitsThen
BY DEF Fits, FitsThen

(* Every step of such a user. *)
LEMMA NextFits ==
    ASSUME Shape, MemoryKept, Sends, Fits, [Next]_vars
    PROVE  Fits'
<1>1. UNCHANGED user
  BY DEF Next, vars
<1>2. SUFFICES ASSUME Plain
               PROVE  /\ ~paused' /\ ~blocked'
                      /\ \A s \in Sinks : NoZerosIn(sink[s])'
                      /\ op' = Idle \/ op'.req.kind = "read" =>
                            \A s \in Sinks : Matches(<< >>, sink[s], node)'
                      /\ op' # Idle /\ op'.req.kind # "read" =>
                            \A s \in Sinks : Matches(op.writes, sink[s], node)'
                      /\ op' # Idle /\ op'.req.kind = "free" => RestMapped(node, op)'
  BY <1>1, SameUser DEF Fits, Plain, Sinks
<1>3. FitsThen
  <2>1. CASE Walk
    BY <1>1, <1>2, <2>1, WalkFits
  <2>2. CASE Free2MB \/ FreePage
    BY <1>1, <1>2, <2>2, FreeFits
  <2>3. CASE Commit \/ EndRead \/ FreeReturn \/ FreeCommit
    BY <1>1, <1>2, <2>3, CommitFits
  <2>4. CASE \E r \in Requests : Begin(r)
    BY <1>2, <2>4, BeginFits
  <2>5. CASE \E onoff \in BOOLEAN : Pause(onoff) \/ BlockMemWritesViaTbx(onoff)
    BY <1>2, <2>5 DEF Pause, BlockMemWritesViaTbx, Plain
  <2>6. CASE Finished
    BY <1>2, <2>6, StutterFits DEF Finished
  <2>7. CASE UNCHANGED vars
    BY <1>2, <2>7, StutterFits DEF vars
  <2> QED
    BY <2>1, <2>2, <2>3, <2>4, <2>5, <2>6, <2>7 DEF Next, Work, Free
<1>4. \A s \in Sinks : NoZerosIn(sink[s])'
  BY <1>3 DEF FitsThen, NoZerosIn
<1>5. \A w, c : Matches(w, c, node') => Matches(w, c, node)'
  BY <1>1, EntriesPrime
<1>6. op' = Idle \/ op'.req.kind = "read" => \A s \in Sinks : Matches(<< >>, sink[s], node)'
  BY <1>3, <1>5 DEF FitsThen
<1>7. op' # Idle /\ op'.req.kind # "read" => \A s \in Sinks : Matches(op.writes, sink[s], node)'
  BY <1>3, <1>5 DEF FitsThen
<1>8. op' # Idle /\ op'.req.kind = "free" => RestMapped(node, op)'
  BY <1>1, <1>3, RestPrime DEF FitsThen
<1>9. ~paused' /\ ~blocked'
  BY <1>3 DEF FitsThen
<1> QED
  BY <1>4, <1>6, <1>7, <1>8, <1>9

(* At first the sinks are empty, and so are the trees. *)
LEMMA InitFits ==
    ASSUME Init
    PROVE  Fits
<1>1. \A k \in Slots : node[k].present = FALSE
  BY NoNodeIs DEF Init
<1>2. op = Idle /\ ~paused /\ ~blocked /\ \A s \in Sinks : sink[s] = << >>
  BY DEF Init
<1>3. DOMAIN << >> = {}
  OBVIOUS
<1>4. \A a : GivenIn(<< >>, << >>, a) = Zero
  BY <1>3 DEF GivenIn, StoredIn
<1>5. Matches(<< >>, << >>, node)
  BY <1>1, <1>4, ZeroIs DEF Matches
<1>6. NoZerosIn(<< >>)
  BY <1>3 DEF NoZerosIn
<1> QED
  BY <1>2, <1>5, <1>6 DEF Fits

(* In every state the sinks have the tree, but for what is collected. *)
LEMMA FitsAlways == Spec => []Fits
<1>1. Init => Fits
  BY InitFits
<1>2. Shape /\ MemoryKept /\ Sends /\ Fits /\ [Next]_vars => Fits'
  BY NextFits
<1> QED
  BY <1>1, <1>2, ShapeAlways, MemoryKeptAlways, SendsAlways, PTL DEF Spec

(* For every user that neither maps nor uses PS64, frees and reads only what is
   mapped, and mutes no stream: the page tables in the sinks are the tree. *)
THEOREM SinksHaveTheTree ==
    Spec => [](~Maps /\ ~Ps64 /\ CarefulUser /\ ~CanPause /\ ~CanBlock => SinksMatchTree)
<1>1. Fits => (~Maps /\ ~Ps64 /\ CarefulUser /\ ~CanPause /\ ~CanBlock => SinksMatchTree)
  <2>1. SUFFICES ASSUME NEW s \in Sinks, NoZerosIn(sink[s]), Matches(<< >>, sink[s], node)
                 PROVE  {<<EntryAddress(k), EntryValue(k, node[k])>> : k \in Present}
                          = {<<a, sink[s][a]>> : a \in DOMAIN sink[s]}
    BY DEF Fits, Plain, SinksMatchTree
  <2> DEFINE c == sink[s]
  <2>2. \A a : GivenIn(<< >>, c, a) = StoredIn(c, a)
    <3>1. DOMAIN << >> = {}
      OBVIOUS
    <3> QED
      BY <3>1 DEF GivenIn
  <2>3. ASSUME NEW k \in Present
        PROVE  EntryAddress(k) \in DOMAIN c /\ c[EntryAddress(k)] = EntryValue(k, node[k])
    <3>1. k \in Slots /\ node[k].present
      BY DEF Present
    <3>2. StoredIn(c, EntryOf(node, k)) = EntryValue(k, node[k])
      BY <2>1, <2>2, <3>1 DEF Matches
    <3>3. EntryOf(node, k) \in DOMAIN c
      BY <3>2, EntryValueIs, ZeroIs DEF StoredIn
    <3> QED
      BY <3>1, <3>2, <3>3, EntryAddressIs DEF StoredIn
  <2>4. ASSUME NEW a \in DOMAIN c
        PROVE  \E k \in Present : a = EntryAddress(k)
    <3>1. StoredIn(c, a).present
      BY <2>1 DEF NoZerosIn, StoredIn
    <3>2. PICK k \in Slots : node[k].present /\ a = EntryOf(node, k)
      BY <2>1, <2>2, <3>1 DEF Matches
    <3> QED
      BY <3>2, EntryAddressIs DEF Present
  <2> HIDE DEF c
  <2>5. {<<EntryAddress(k), EntryValue(k, node[k])>> : k \in Present} \subseteq {<<a, c[a]>> : a \in DOMAIN c}
    BY <2>3
  <2>6. {<<a, c[a]>> : a \in DOMAIN c} \subseteq {<<EntryAddress(k), EntryValue(k, node[k])>> : k \in Present}
    BY <2>3, <2>4
  <2> QED
    BY <2>5, <2>6 DEF c
<1> QED
  BY <1>1, FitsAlways, PTL

-----------------------------------------------------------------------------
(* Products without 2MB pages: a write leaves nothing of its range waiting *)

(* The nodes that translate a page, among given nodes. *)
PathIn(nodes, t, va) == {PdeAt(t, va), PteAt(t, va), LeafIn(nodes, t, va)}

(* A node that was met: it is there, and is sent at the end if it waits. *)
Settled(nodes, p, k) == nodes[k].present /\ (nodes[k].pending => k \in p)

(* The pages behind a walker were met from the PDE down. *)
Visited(nodes, o) ==
    /\ \A va \in o.req.va .. o.va - 1 : \A k \in PathIn(nodes, o.tree, va) :
          Settled(nodes, o.pendingNodes, k)
    /\ o.level \in {"Pde", "Pte"} => Settled(nodes, o.pendingNodes, PdeAt(o.tree, o.va))
    /\ o.level = "Pte" => Settled(nodes, o.pendingNodes, PteAt(o.tree, o.va))

No2MB(nodes) == \A k \in Slots : k[2] = "Pde" => nodes[k].size # PteSpan

(* The users this is about. *)
SmallPages == ~Maps /\ ~Ps64 /\ ~Supports2MB

Visits ==
    SmallPages =>
        /\ No2MB(node)
        /\ op # Idle /\ op.req.kind = "write" => Visited(node, op)

(* What a user that does not map asks for. *)
LEMMA KindIs ==
    ASSUME user \in DOMAIN Users, ~Maps, NEW r \in Requests
    PROVE  r.kind \in {"write", "read", "free"}
BY RequestFacts DEF Maps

(* Without 2MB pages the pages of a path are slots. *)
LEMMA PathSlots ==
    ASSUME user \in DOMAIN Users, NEW nodes, Tree(nodes), No2MB(nodes),
           NEW t \in 1 .. Trees, NEW va \in Pages
    PROVE  /\ PathIn(nodes, t, va) \subseteq Slots
           /\ LeafIn(nodes, t, va) = PageAt(t, va, MaxOf(nodes[PteAt(t, va)].size, 1))
           /\ nodes[PteAt(t, va)].present =>
                /\ nodes[PteAt(t, va)].size \in {1, Group}
                /\ LeafIn(nodes, t, va) = PageAt(t, va, nodes[PteAt(t, va)].size)
<1> DEFINE p == PteAt(t, va)
<1>1. /\ p \in Slots /\ p[2] = "Pde" /\ PdeAt(t, va) \in Slots
      /\ \A s \in Nat \ {0} : PageAt(t, va, s) \in Slots
  BY SlotsOfPage
<1> HIDE DEF p
<1>2. nodes[p].size # PteSpan
  BY <1>1 DEF No2MB
<1>3. nodes[p].present => nodes[p].size \in {1, Group}
  BY <1>1, <1>2 DEF Tree, Placed
<1>4. nodes[p].present \in BOOLEAN /\ (~nodes[p].present => nodes[p].size = 0)
  BY <1>1 DEF Tree
<1>5. /\ MaxOf(nodes[p].size, 1) \in Nat \ {0}
      /\ nodes[p].present => MaxOf(nodes[p].size, 1) = nodes[p].size
  BY <1>3, <1>4, UserFacts DEF MaxOf
<1>6. LeafIn(nodes, t, va) = PageAt(t, va, MaxOf(nodes[p].size, 1))
  BY <1>2 DEF LeafIn, Is2MB, p
<1>7. LeafIn(nodes, t, va) \in Slots
  BY <1>1, <1>5, <1>6
<1> QED
  BY <1>1, <1>3, <1>5, <1>6, <1>7 DEF PathIn, p

(* A turn at a node: what was settled stays so, and the node is settled. *)
LEMMA TurnSettles ==
    ASSUME Shape, Unmapped(op), op # Idle, NEW k, Meets(k) \/ \E n : Makes(k, n)
    PROVE  /\ \A l \in Slots : node[l].present => node'[l] = node[l]
           /\ \A l \in Slots : Settled(node, op.pendingNodes, l) =>
                                 Settled(node', op'.pendingNodes, l)
           /\ Settled(node', op'.pendingNodes, k)
<1>1. DOMAIN op = WalkFields /\ ~HasPa(op)
  BY DEF Shape, WalkState, Unmapped, HasPa
<1>2. ASSUME NEW n, k \in Slots, Collects(k, n)
      PROVE  /\ \A l \in op.pendingNodes : l \in op'.pendingNodes
             /\ n.pending => k \in op'.pendingNodes
  <2>1. \/ op'.pendingNodes = op.pendingNodes \cup {k}
        \/ ~(n.pending /\ k \notin op.pendingNodes) /\ op'.pendingNodes = op.pendingNodes
    BY <1>1, <1>2, CollectsFacts
  <2> QED
    BY <2>1
<1>3. CASE Meets(k)
  <2>1. k \in Slots /\ node[k].present /\ Collects(k, node[k]) /\ \A l \in Slots : node'[l] = node[l]
    BY <1>3 DEF Meets, SameNodes
  <2> QED
    BY <1>2, <2>1 DEF Settled
<1>4. ASSUME NEW n, Makes(k, n)
      PROVE  /\ \A l \in Slots : node[l].present => node'[l] = node[l]
             /\ \A l \in Slots : Settled(node, op.pendingNodes, l) =>
                                   Settled(node', op'.pendingNodes, l)
             /\ Settled(node', op'.pendingNodes, k)
  <2>1. /\ k \in Slots /\ ~node[k].present /\ Collects(k, n) /\ node'[k] = n
        /\ \A l \in Slots \ {k} : node'[l] = node[l]
        /\ n.present = TRUE /\ n.pending = TRUE
    BY <1>4 DEF Makes, IsNew
  <2> QED
    BY <1>2, <2>1 DEF Settled
<1> QED
  BY <1>3, <1>4

(* The pages that were visited are visited still. *)
LEMMA PathsStay ==
    ASSUME user \in DOMAIN Users, NEW nodes, Tree(nodes), No2MB(nodes), NEW new, NEW p, NEW q,
           NEW t \in 1 .. Trees, NEW va \in Pages,
           \A l \in Slots : nodes[l].present => new[l] = nodes[l],
           \A l \in Slots : Settled(nodes, p, l) => Settled(new, q, l),
           \A k \in PathIn(nodes, t, va) : Settled(nodes, p, k)
    PROVE  \A k \in PathIn(new, t, va) : Settled(new, q, k)
<1>1. PathIn(nodes, t, va) \subseteq Slots /\ PteAt(t, va) \in Slots
  BY PathSlots, SlotsOfPage
<1>2. nodes[PteAt(t, va)].present
  BY DEF PathIn, Settled
<1>3. new[PteAt(t, va)] = nodes[PteAt(t, va)]
  BY <1>1, <1>2
<1>4. PathIn(new, t, va) = PathIn(nodes, t, va)
  BY <1>3 DEF PathIn, LeafIn
<1> QED
  BY <1>1, <1>4

(* On such a product no walk makes a 2MB page. *)
LEMMA WalkNo2MB ==
    ASSUME Shape, UNCHANGED user, Unmapped(op), ~Ps64, ~Supports2MB, No2MB(node), Walk
    PROVE  No2MB(node')
<1>0. user \in DOMAIN Users
  BY DEF Shape
<1>1. ASSUME NEW k, WalkMissing(k)
      PROVE  No2MB(node')
  BY <1>1 DEF WalkMissing
<1>2. ASSUME SameNodes
      PROVE  No2MB(node')
  BY <1>2 DEF SameNodes, No2MB
<1>3. ASSUME NEW k \in Slots, NEW size, k[2] # "Pde" \/ size \in {1, Group}, op.level \in {"Pdp", "Pde"},
             NEW level \in {"Pde", "Pte"}, VisitTable(k, size, level)
      PROVE  No2MB(node')
  <2>1. op # Idle
    BY <1>3, AtLevel
  <2>2. /\ node'[k] = IF node[k].present THEN node[k] ELSE NewTable(size)
        /\ \A l \in Slots \ {k} : node'[l] = node[l]
        /\ NewTable(size).size = size
    BY <1>3, <2>1, VisitFacts
  <2>3. size # PteSpan \/ k[2] # "Pde"
    BY <1>0, <1>3, UserFacts
  <2> QED
    BY <2>2, <2>3 DEF No2MB
<1>4. CASE WalkPdp
  <2>1. op.level = "Pdp"
    BY <1>4 DEF WalkPdp, Walking
  <2>2. op.tree \in 1 .. Trees /\ op.va \in Pages
    BY <2>1, AtLevel
  <2>3. PdeAt(op.tree, op.va) \in Slots /\ PdeAt(op.tree, op.va)[2] = "Pdp"
    BY <1>0, <2>2, SlotsOfPage
  <2> QED
    BY <1>1, <1>3, <1>4, <2>1, <2>3 DEF WalkPdp
<1>5. CASE WalkPdeToPte
  <2>1. op.level = "Pde"
    BY <1>5 DEF WalkPdeToPte, Walking
  <2>2. op.tree \in 1 .. Trees /\ op.va \in Pages /\ WalkState(op)
    BY <2>1, AtLevel
  <2>3. PteAt(op.tree, op.va) \in Slots
    BY <1>0, <2>2, SlotsOfPage
  <2>4. RequestedPageSize(op) \in {1, Group}
    BY <1>0, <2>2, RequestedSizes
  <2> QED
    BY <1>1, <1>3, <1>5, <2>1, <2>3, <2>4 DEF WalkPdeToPte
<1>6. CASE WalkExisting2MB
  BY <1>6 DEF WalkExisting2MB
<1>7. CASE Walk2MBLeaf
  <2>1. Quiet
    BY <1>7, Walk2MBLeafDoes
  <2> QED
    BY <1>2, <2>1 DEF Quiet
<1>8. CASE WalkPte
  <2>1. op.level = "Pte"
    BY <1>8 DEF WalkPte, Walking
  <2>2. PageSlot(op)[2] = "Pte"
    BY <2>1, PageSlotIs
  <2>3. Quiet \/ Meets(PageSlot(op)) \/ \E n : Makes(PageSlot(op), n)
    BY <1>8, WalkPteDoes
  <2>4. ASSUME NEW n, Makes(PageSlot(op), n)
        PROVE  No2MB(node')
    BY <2>2, <2>4 DEF Makes, No2MB
  <2> QED
    BY <1>2, <2>3, <2>4 DEF Quiet, Meets
<1>9. CASE WalkPtePs64
  BY <1>9 DEF WalkPtePs64, CheckPs64
<1> QED
  BY <1>4, <1>5, <1>6, <1>7, <1>8, <1>9 DEF Walk

(* A turn of a write that goes down a level. *)
LEMMA DownVisits ==
    ASSUME Shape, MemoryKept, UNCHANGED user, SmallPages, No2MB(node), op.req.kind = "write",
           op.level \in {"Pdp", "Pde"}, Visited(node, op), NEW k \in Slots,
           Meets(k) \/ \E n : Makes(k, n),
           op'.va = op.va, op'.tree = op.tree, op'.req = op.req,
           \/ op.level = "Pdp" /\ op'.level = "Pde" /\ k = PdeAt(op.tree, op.va)
           \/ op.level = "Pde" /\ op'.level = "Pte" /\ k = PteAt(op.tree, op.va)
    PROVE  Visited(node', op')
<1>1. /\ op # Idle /\ WalkState(op) /\ op.tree \in 1 .. Trees /\ op.va \in Pages
      /\ user \in DOMAIN Users
  BY AtLevel
<1>2. Unmapped(op) /\ Tree(node)
  BY <1>1 DEF Unmapped, MemoryKept, SmallPages, Kept
<1>3. /\ \A l \in Slots : node[l].present => node'[l] = node[l]
      /\ \A l \in Slots : Settled(node, op.pendingNodes, l) => Settled(node', op'.pendingNodes, l)
      /\ Settled(node', op'.pendingNodes, k)
  BY <1>1, <1>2, TurnSettles
<1>4. ASSUME NEW va \in op'.req.va .. op'.va - 1
      PROVE  \A l \in PathIn(node', op'.tree, va) : Settled(node', op'.pendingNodes, l)
  <2>1. va \in op.req.va .. op.va - 1
    OBVIOUS
  <2>2. va \in Pages
    <3> DEFINE a == op.req.va
               b == op.va
    <3>1. a \in Nat /\ b \in 0 .. VaPages - 1 /\ va \in a .. b - 1 /\ VaPages \in Nat
      BY <1>1, <2>1, RequestFacts, UserFacts DEF WalkState, Pages
    <3> HIDE DEF a, b
    <3>2. va \in 0 .. VaPages - 1
      BY <3>1
    <3> QED
      BY <3>2 DEF Pages
  <2>3. \A l \in PathIn(node, op.tree, va) : Settled(node, op.pendingNodes, l)
    BY <2>1 DEF Visited
  <2> DEFINE new == node'
             q == op'.pendingNodes
  <2>4. \A l \in Slots : node[l].present => new[l] = node[l]
    BY <1>3
  <2>5. \A l \in Slots : Settled(node, op.pendingNodes, l) => Settled(new, q, l)
    BY <1>3
  <2> HIDE DEF new, q
  <2>6. \A l \in PathIn(new, op.tree, va) : Settled(new, q, l)
    BY <1>1, <1>2, <2>2, <2>3, <2>4, <2>5, PathsStay
  <2> QED
    BY <2>6 DEF new, q
<1>5. PdeAt(op.tree, op.va) \in Slots
  BY <1>1, SlotsOfPage
<1>6. Settled(node', op'.pendingNodes, PdeAt(op.tree, op.va))
  BY <1>3, <1>5 DEF Visited
<1>7. op'.level = "Pte" => Settled(node', op'.pendingNodes, PteAt(op.tree, op.va))
  BY <1>3
<1> QED
  BY <1>4, <1>6, <1>7 DEF Visited

(* Addresses of one page have one path. *)
LEMMA SamePageSamePath ==
    ASSUME user \in DOMAIN Users, NEW nodes, Tree(nodes), No2MB(nodes), NEW t \in 1 .. Trees,
           NEW x \in Pages, NEW y \in Pages, nodes[PteAt(t, x)].present,
           NEW s, s = nodes[PteAt(t, x)].size, x - (x % s) <= y, y < x - (x % s) + s
    PROVE  PathIn(nodes, t, y) = PathIn(nodes, t, x)
<1>1. x \in Nat /\ y \in Nat
  BY DEF Pages
<1>2. s \in {1, Group} /\ LeafIn(nodes, t, x) = PageAt(t, x, s)
  BY PathSlots
<1>3. s \in Nat \ {0} /\ PteSpan \in Nat \ {0} /\ PteSpan % s = 0
  <2>1. PteSpan % 1 = 0
    BY UserFacts
  <2> QED
    BY <1>2, <2>1, UserFacts
<1>4. y - (y % s) = x - (x % s)
  BY <1>1, <1>3, SamePage
<1>5. x \div PteSpan = y \div PteSpan
  <2>1. (x - (x % s)) \div PteSpan = x \div PteSpan
    BY <1>1, <1>3, PageInSpan
  <2>2. (y - (y % s)) \div PteSpan = y \div PteSpan
    BY <1>1, <1>3, PageInSpan
  <2> QED
    BY <1>4, <2>1, <2>2
<1>6. x \div (PdeSlots * PteSpan) = y \div (PdeSlots * PteSpan)
  BY <1>1, <1>5, UserFacts, QuotientTwice
<1>7. PteAt(t, y) = PteAt(t, x) /\ PdeAt(t, y) = PdeAt(t, x)
  BY <1>5, <1>6 DEF PteAt, PdeAt
<1>8. LeafIn(nodes, t, y) = PageAt(t, y, s)
  BY <1>7, PathSlots
<1>9. PageAt(t, y, s) = PageAt(t, x, s)
  BY <1>4 DEF PageAt, AlignDown
<1> QED
  BY <1>2, <1>7, <1>8, <1>9 DEF PathIn

(* A turn of a write that ends at its page. *)
LEMMA PageVisits ==
    ASSUME Shape, MemoryKept, Kept(memory', node'), UNCHANGED user, SmallPages, No2MB(node),
           No2MB(node'), op.req.kind = "write", op.level = "Pte", Visited(node, op),
           Meets(PageSlot(op)) \/ \E n : Makes(PageSlot(op), n),
           op'.va = op.va + Stride(op, Pte(op).size), op'.tree = op.tree, op'.req = op.req,
           op'.level \in {"Commit", "Pdp"}
    PROVE  Visited(node', op')
<1> DEFINE k == PageSlot(op)
           s == Pte(op).size
           p0 == PteAt(op.tree, op.va)
           new == node'
           q == op'.pendingNodes
<1>1. /\ op # Idle /\ WalkState(op) /\ op.tree \in 1 .. Trees /\ op.va \in Pages
      /\ user \in DOMAIN Users /\ op.left > 0
  BY AtLevel
<1>2. Unmapped(op) /\ Tree(node)
  BY <1>1 DEF Unmapped, MemoryKept, SmallPages, Kept
<1>3. /\ \A l \in Slots : node[l].present => new[l] = node[l]
      /\ \A l \in Slots : Settled(node, op.pendingNodes, l) => Settled(new, q, l)
      /\ Settled(new, q, k)
  BY <1>1, <1>2, TurnSettles
<1>4. /\ k \in Slots /\ s \in {1, Group} /\ Pte(op).present /\ s \in Nat \ {0}
      /\ p0 \in Slots /\ PdeAt(op.tree, op.va) \in Slots
  BY <1>1, PageSlotIs, SlotsOfPage, UserFacts
<1>5. Settled(new, q, PdeAt(op.tree, op.va)) /\ Settled(new, q, p0)
  BY <1>3, <1>4 DEF Visited
<1>6. Tree(new)
  BY DEF Kept
<1>7. new[p0].present /\ new[p0].size = s /\ PageSlot(op) = PageAt(op.tree, op.va, s)
  BY <1>3, <1>4 DEF Pte, PageSlot
<1>8. \A l \in PathIn(new, op.tree, op.va) : Settled(new, q, l)
  <2>1. LeafIn(new, op.tree, op.va) = k
    BY <1>1, <1>6, <1>7, PathSlots
  <2> QED
    BY <1>3, <1>5, <2>1 DEF PathIn
<1>9. /\ Stride(op, s) \in Nat \ {0}
      /\ op.va + Stride(op, s) <= op.va - (op.va % s) + s
  BY <1>1, <1>4, StrideFacts
<1>10. op.va \in Nat /\ op.req.va \in Nat /\ VaPages \in Nat /\ op.va % s \in 0 .. s - 1
       /\ op.va + Stride(op, s) <= VaPages
  <2> DEFINE a == op.req.va
             b == op.req.size
             c == op.va
             d == op.left
             n == Stride(op, s)
  <2>1. /\ a \in Nat /\ b \in Nat /\ a + b <= VaPages /\ c \in Nat /\ d \in Nat
        /\ c + d = a + b /\ n \in Nat /\ n <= d /\ VaPages \in Nat
    BY <1>1, <1>4, RequestFacts, UserFacts, StrideFacts DEF WalkState
  <2>2. c % s \in 0 .. s - 1
    BY <1>4, <2>1, Offset
  <2> HIDE DEF a, b, c, d, n, s
  <2>3. c + n <= VaPages
    BY <2>1
  <2> QED
    BY <2>1, <2>2, <2>3 DEF a, c, n
<1>11. ASSUME NEW va \in op.req.va .. (op.va + Stride(op, s)) - 1
       PROVE  \A l \in PathIn(new, op.tree, va) : Settled(new, q, l)
  <2> DEFINE c == op.va
             a == op.req.va
             n == Stride(op, s)
  <2>1. va \in a .. (c + n) - 1 /\ a \in Nat /\ c \in Nat /\ n \in Nat /\ c + n <= VaPages
        /\ VaPages \in Nat
    BY <1>9, <1>10
  <2>2. va \in Pages /\ va \in Nat
    <3> HIDE DEF a, c, n
    <3> QED
      BY <2>1 DEF Pages
  <2>3. CASE va < op.va
    <3>1. va \in op.req.va .. op.va - 1
      <4>1. va \in a .. c - 1
        <5>1. va < c
          BY <2>3
        <5> HIDE DEF a, c, n
        <5> QED
          BY <2>1, <5>1
      <4> QED
        BY <4>1
    <3>2. \A l \in PathIn(node, op.tree, va) : Settled(node, op.pendingNodes, l)
      BY <3>1 DEF Visited
    <3>3. /\ \A l \in Slots : node[l].present => new[l] = node[l]
          /\ \A l \in Slots : Settled(node, op.pendingNodes, l) => Settled(new, q, l)
      BY <1>3
    <3> HIDE DEF new, q
    <3> QED
      BY <1>1, <1>2, <2>2, <3>2, <3>3, PathsStay
  <2>4. CASE ~(va < op.va)
    <3>1. c - (c % s) <= va /\ va < c - (c % s) + s
      <4>1. c + n <= c - (c % s) + s /\ ~(va < c) /\ c % s \in 0 .. s - 1 /\ s \in Nat
        BY <1>4, <1>9, <1>10, <2>4
      <4> DEFINE m == c % s
      <4>2. c + n <= c - m + s /\ m \in 0 .. s - 1
        BY <4>1
      <4> HIDE DEF a, c, n, s, m
      <4>3. c - m <= va /\ va < c - m + s
        BY <2>1, <2>2, <4>1, <4>2
      <4> QED
        BY <4>3 DEF m
    <3> HIDE DEF new, q, s
    <3>2. PathIn(new, op.tree, va) = PathIn(new, op.tree, op.va)
      BY <1>1, <1>6, <1>7, <2>2, <3>1, SamePageSamePath DEF new
    <3> QED
      BY <1>8, <3>2
  <2> QED
    BY <2>3, <2>4
<1>12. /\ op'.req.va .. op'.va - 1 = op.req.va .. (op.va + Stride(op, s)) - 1
       /\ op'.tree = op.tree
  OBVIOUS
<1> HIDE DEF new, q, s
<1>13. ASSUME NEW va \in op'.req.va .. op'.va - 1
       PROVE  \A l \in PathIn(new, op'.tree, va) : Settled(new, q, l)
  <2>1. va \in op.req.va .. (op.va + Stride(op, s)) - 1
    BY <1>12, <1>13, Zenon
  <2> QED
    BY <1>11, <1>12, <2>1
<1>14. op'.level \notin {"Pde", "Pte"}
  OBVIOUS
<1> QED
  BY <1>13, <1>14 DEF Visited, new, q

(* A turn of a write meets the node of its level. *)
LEMMA WalkVisits ==
    ASSUME Shape, MemoryKept, Kept(memory', node'), UNCHANGED user, SmallPages, No2MB(node),
           No2MB(node'), op # Idle, op.req.kind = "write", Visited(node, op), Walk, op' # Idle
    PROVE  Visited(node', op')
<1>1. Unmapped(op) /\ op.req.kind # "read" /\ ~Ps64 /\ ~Supports2MB
  BY DEF Unmapped, MemoryKept, SmallPages
<1>2. op'.req = op.req
  BY WorkSteps DEF Work, StepsTo, Nearer
<1>4. CASE WalkPdp
  <2>1. op.level = "Pdp"
    BY <1>4 DEF WalkPdp, Walking
  <2>2. op.tree \in 1 .. Trees /\ op.va \in Pages /\ user \in DOMAIN Users
    BY <2>1, AtLevel
  <2> DEFINE k == PdeAt(op.tree, op.va)
  <2>3. k \in Slots /\ k[2] = "Pdp"
    BY <2>2, SlotsOfPage
  <2>4. Meets(k) \/ \E n : Makes(k, n)
    BY <1>1, <1>4, WalkPdpDoes
  <2>5. VisitTable(k, 0, "Pde")
    BY <1>1, <1>4, <2>1, MissingDoes DEF WalkPdp
  <2> HIDE DEF k
  <2>6. op'.va = op.va /\ op'.tree = op.tree /\ op'.level = "Pde"
    BY <2>1, <2>3, <2>5, VisitFacts
  <2>7. k = PdeAt(op.tree, op.va)
    BY DEF k
  <2> QED
    BY <1>2, <2>1, <2>3, <2>4, <2>6, <2>7, DownVisits
<1>5. CASE WalkPdeToPte
  <2>1. op.level = "Pde"
    BY <1>5 DEF WalkPdeToPte, Walking
  <2>2. op.tree \in 1 .. Trees /\ op.va \in Pages /\ user \in DOMAIN Users /\ WalkState(op)
    BY <2>1, AtLevel
  <2> DEFINE k == PteAt(op.tree, op.va)
             size == RequestedPageSize(op)
  <2>3. k \in Slots /\ size \in {1, Group}
    BY <1>1, <2>2, SlotsOfPage, RequestedSizes
  <2>4. Meets(k) \/ \E n : Makes(k, n)
    BY <1>1, <1>5, WalkPdeToPteDoes
  <2>5. VisitTable(k, size, "Pte")
    BY <1>1, <1>5, <2>1, MissingDoes DEF WalkPdeToPte
  <2>7. k = PteAt(op.tree, op.va)
    OBVIOUS
  <2> HIDE DEF k, size
  <2>6. op'.va = op.va /\ op'.tree = op.tree /\ op'.level = "Pte"
    BY <2>1, <2>3, <2>5, VisitFacts
  <2> QED
    BY <1>2, <2>1, <2>3, <2>4, <2>6, <2>7, DownVisits
<1>6. CASE WalkExisting2MB
  <2>1. op.level = "Pde"
    BY <1>6 DEF WalkExisting2MB, Walking
  <2>2. op.tree \in 1 .. Trees /\ op.va \in Pages /\ user \in DOMAIN Users
    BY <2>1, AtLevel
  <2>3. PteAt(op.tree, op.va) \in Slots
    BY <2>2, SlotsOfPage
  <2> QED
    BY <1>6, <2>3 DEF WalkExisting2MB, Is2MB, No2MB
<1>7. CASE Walk2MBLeaf
  BY <1>1, <1>7, Walk2MBLeafDoes
<1>8. CASE WalkPte
  <2>1. op.level = "Pte"
    BY <1>8 DEF WalkPte, Walking
  <2>2. /\ Meets(PageSlot(op)) \/ \E n : Makes(PageSlot(op), n)
        /\ op'.va = op.va + Stride(op, Pte(op).size) /\ op'.level \in {"Commit", "Pdp"}
    BY <1>1, <1>8, WalkPteDoes
  <2>3. op'.tree = op.tree
    BY <2>1, WorkSteps DEF Work, StepsTo, Nearer
  <2> QED
    BY <1>2, <2>1, <2>2, <2>3, PageVisits
<1>9. CASE WalkPtePs64
  BY <1>1, <1>9 DEF WalkPtePs64, CheckPs64
<1> QED
  BY <1>4, <1>5, <1>6, <1>7, <1>8, <1>9 DEF Walk

(* The user stays, and with it the way to a page. *)
LEMMA VisitedPrime ==
    ASSUME UNCHANGED user
    PROVE  /\ Visited(node', op') => Visited(node, op)'
           /\ No2MB(node') => No2MB(node)'
           /\ SmallPages' => SmallPages
<1>1. /\ Slots' = Slots /\ PteSpan' = PteSpan /\ PdeSlots' = PdeSlots
      /\ Supports2MB' = Supports2MB /\ Maps' = Maps /\ Ps64' = Ps64
  BY SameUser
<1>2. \A t, va : PdeAt(t, va)' = PdeAt(t, va) /\ PteAt(t, va)' = PteAt(t, va)
  BY SameUser
<1>3. \A t, va : PathIn(node, t, va)' = PathIn(node', t, va)
  <2>1. \A t, va : LeafIn(node, t, va)' = LeafIn(node', t, va)
    BY <1>1, <1>2 DEF LeafIn, Is2MB
  <2> QED
    BY <1>2, <2>1 DEF PathIn
<1>4. \A p, k : Settled(node, p, k)' <=> Settled(node', p, k)
  BY DEF Settled
<1>5. Visited(node', op') => Visited(node, op)'
  BY <1>2, <1>3, <1>4 DEF Visited
<1> QED
  BY <1>1, <1>5 DEF No2MB, SmallPages

(* A walk that begins has nothing behind it. *)
LEMMA NewVisited ==
    ASSUME user \in DOMAIN Users, NEW r \in Requests, NEW t \in r.first .. r.last, NEW infos,
           NEW nodes
    PROVE  Visited(nodes, NewWalk(r, t, infos))
<1> DEFINE o == NewWalk(r, t, infos)
<1>1. o.level \notin {"Pde", "Pte"} /\ o.va = o.req.va /\ o.req.va \in Nat
  BY NewWalkStarts, RequestFacts
<1> HIDE DEF o
<1>2. o.req.va .. o.va - 1 = {}
  <2> DEFINE a == o.va
             b == o.req.va
  <2>1. a = b /\ a \in Nat
    BY <1>1
  <2> HIDE DEF a, b
  <2>2. b .. a - 1 = {}
    BY <2>1
  <2> QED
    BY <2>2 DEF a, b
<1>3. Visited(nodes, o)
  BY <1>1, <1>2 DEF Visited
<1> QED
  BY <1>3 DEF o

(* What is to hold after a step, of its nodes and its walker. *)
VisitsThen ==
    /\ No2MB(node')
    /\ op' # Idle /\ op'.req.kind = "write" => Visited(node', op')

(* The step after the last page of a tree. *)
LEMMA CommitVisits ==
    ASSUME Shape, UNCHANGED user, No2MB(node), Commit \/ EndRead \/ FreeReturn \/ FreeCommit
    PROVE  VisitsThen
<1>1. op.level \in {"Commit", "Free", "FreeCommit"} /\ op' = NextTree(op)
  BY DEF Commit, EndRead, FreeReturn, FreeCommit, Walking
<1>2. WalkState(op) /\ user \in DOMAIN Users
  BY <1>1, AtLevel
<1>3. op.req \in Requests /\ op.tree + 1 \in Nat /\ op.req.first \in Nat /\ op.req.last \in Nat
      /\ op.tree \in op.req.first .. op.req.last
  BY <1>2, RequestFacts, UserFacts DEF WalkState
<1>4. ASSUME op' # Idle
      PROVE  Visited(node', op')
  <2>1. op' = NewWalk(op.req, op.tree + 1, op.infos) /\ op.tree < op.req.last
    BY <1>1, <1>2, <1>4, NextTreeFacts
  <2>2. op.tree + 1 \in op.req.first .. op.req.last
    <3> DEFINE t == op.tree
               a == op.req.first
               b == op.req.last
    <3>1. t \in a .. b /\ a \in Nat /\ b \in Nat /\ t < b
      BY <1>3, <2>1
    <3> HIDE DEF t, a, b
    <3>2. t + 1 \in a .. b
      BY <3>1
    <3> QED
      BY <3>2 DEF t, a, b
  <2> QED
    BY <1>2, <1>3, <2>1, <2>2, NewVisited
<1>5. No2MB(node')
  <2>1. CASE Commit
    BY <2>1, CommitNodes DEF SameTree, No2MB
  <2>2. CASE EndRead \/ FreeReturn \/ FreeCommit
    BY <2>2 DEF EndRead, FreeReturn, FreeCommit, No2MB
  <2> QED
    BY <2>1, <2>2
<1> QED
  BY <1>4, <1>5 DEF VisitsThen

(* What freeMemory takes away makes no 2MB page. *)
LEMMA FreeNo2MB ==
    ASSUME Shape, Kept(memory, node), NoBits(node), No2MB(node), Free2MB \/ FreePage
    PROVE  No2MB(node')
<1>0. user \in DOMAIN Users
  BY DEF Shape
<1>1. PICK gone : Frees(gone, {})
  BY FreeDoes
<1>2. ASSUME NEW k \in Slots, k[2] = "Pde"
      PROVE  node'[k].size # PteSpan
  <2>1. node'[k] = NoNode \/ node'[k] = node[k]
    BY <1>1 DEF Frees
  <2> QED
    BY <1>0, <1>2, <2>1, UserFacts DEF No2MB, NoNode
<1> QED
  BY <1>2 DEF No2MB

(* Every step keeps what the walker visited. *)
LEMMA NextVisits ==
    ASSUME Shape, MemoryKept, Sends, Visits, [Next]_vars
    PROVE  Visits'
<1>1. UNCHANGED user /\ user \in DOMAIN Users
  BY DEF Next, vars, Shape
<1>2. SUFFICES ASSUME SmallPages
               PROVE  VisitsThen
  <2>1. SmallPages /\ VisitsThen => (No2MB(node)' /\ (op' # Idle /\ op'.req.kind = "write" => Visited(node, op)'))
    BY <1>1, VisitedPrime DEF VisitsThen
  <2>2. SmallPages' => SmallPages
    BY <1>1, VisitedPrime
  <2> QED
    BY <1>2, <2>1, <2>2 DEF Visits
<1>3. /\ No2MB(node) /\ ~Maps /\ ~Ps64 /\ ~Supports2MB
      /\ op # Idle /\ op.req.kind = "write" => Visited(node, op)
  BY <1>2 DEF Visits, SmallPages
<1>4. Kept(memory, node) /\ NoBits(node)
  BY <1>3 DEF MemoryKept, Sends
<1>5. CASE Walk
  <2>0. op.level \in {"Pdp", "Pde", "Pte"}
    BY <1>5 DEF Walk, WalkPdp, WalkPdeToPte, WalkExisting2MB, Walk2MBLeaf, WalkPte, WalkPtePs64, Walking
  <2>1. op # Idle /\ Unmapped(op)
    BY <1>3, <2>0, AtLevel DEF MemoryKept, Unmapped
  <2>2. No2MB(node')
    BY <1>1, <1>3, <1>5, <2>1, WalkNo2MB
  <2>3. Kept(memory', node')
    BY <1>1, <1>3, <1>4, <1>5, <2>1, WorkKeepsMemory DEF Work, Unmapped
  <2>4. ASSUME op' # Idle, op'.req.kind = "write"
        PROVE  Visited(node', op')
    <3>1. op'.req = op.req
      BY <1>1, <1>5, <2>4, WorkSteps DEF Work, StepsTo, Nearer
    <3> QED
      BY <1>1, <1>2, <1>3, <1>5, <2>1, <2>2, <2>3, <2>4, <3>1, WalkVisits
  <2> QED
    BY <2>2, <2>4 DEF VisitsThen
<1>6. CASE Free2MB \/ FreePage
  <2>1. No2MB(node')
    BY <1>3, <1>4, <1>6, FreeNo2MB
  <2>2. op.level = "Free"
    BY <1>6 DEF Free2MB, FreePage, Walking
  <2>3. op.req.kind = "free"
    BY <2>2, AtLevel
  <2>4. op' = Idle \/ op'.req = op.req
    BY <1>1, <1>6, WorkSteps DEF Work, Free, StepsTo, Nearer
  <2> QED
    BY <2>1, <2>3, <2>4 DEF VisitsThen
<1>7. CASE Commit \/ EndRead \/ FreeReturn \/ FreeCommit
  BY <1>1, <1>3, <1>7, CommitVisits
<1>8. CASE \E r \in Requests : Begin(r)
  <2>1. PICK r \in Requests : Begin(r)
    BY <1>8
  <2>2. op' = NewWalk(r, r.first, << >>) /\ node' = node
    BY <2>1 DEF Begin
  <2>3. r.first \in r.first .. r.last
    <3> DEFINE a == r.first
               b == r.last
    <3>1. a \in 1 .. Trees /\ b \in 1 .. Trees /\ a <= b /\ Trees \in Nat
      BY <1>1, RequestFacts, UserFacts
    <3> HIDE DEF a, b
    <3>2. a \in a .. b
      BY <3>1
    <3> QED
      BY <3>2 DEF a, b
  <2> QED
    BY <1>1, <1>3, <2>2, <2>3, NewVisited DEF VisitsThen
<1>9. CASE Finished \/ \E onoff \in BOOLEAN : Pause(onoff) \/ BlockMemWritesViaTbx(onoff)
  BY <1>3, <1>9 DEF Finished, Pause, BlockMemWritesViaTbx, VisitsThen
<1>10. CASE UNCHANGED vars
  BY <1>3, <1>10 DEF vars, VisitsThen
<1> QED
  BY <1>5, <1>6, <1>7, <1>8, <1>9, <1>10 DEF Next, Work, Free

(* At first nothing is visited. *)
LEMMA InitVisits ==
    ASSUME Init
    PROVE  Visits
<1>1. user \in DOMAIN Users /\ op = Idle
  BY DEF Init
<1>2. \A k \in Slots : node[k] = NoNode
  BY DEF Init
<1> QED
  BY <1>1, <1>2, UserFacts DEF Visits, No2MB, NoNode

(* In every state a write has met the nodes of the pages behind it. *)
LEMMA VisitsAlways == Spec => []Visits
<1>1. Init => Visits
  BY InitVisits
<1>2. Shape /\ MemoryKept /\ Sends /\ Visits /\ [Next]_vars => Visits'
  BY NextVisits
<1> QED
  BY <1>1, <1>2, ShapeAlways, MemoryKeptAlways, SendsAlways, PTL DEF Spec

(* For every user that neither maps nor uses PS64, on products without 2MB
   pages, and whatever was muted when: what a write to the end of a request
   reached is not held back any longer. *)
THEOREM NothingHeldBack ==
    Spec => (~Maps /\ ~Ps64 /\ ~Supports2MB => NothingLeftPending)
<1> DEFINE Sent == \A va \in PagesOf(op.req) : \A k \in Path(op.tree, va) : ~node'[k].pending
<1>1. ASSUME Shape, MemoryKept, Visits, SmallPages, Commit, FullyCommitted
      PROVE  Sent
  <2>1. op.level = "Commit" /\ Mode(op) # "Expect"
    BY <1>1 DEF Commit, Walking
  <2>2. op # Idle /\ WalkState(op) /\ user \in DOMAIN Users /\ op.tree \in 1 .. Trees
    BY <1>1, <2>1, AtLevel
  <2>3. op.req.kind = "write"
    <3>1. op.req \in Requests /\ op.req.kind # "free"
      BY <1>1, <2>1, <2>2, AtLevel DEF WalkState
    <3> QED
      BY <1>1, <2>1, <2>2, <3>1, ModeIs, KindIs DEF SmallPages
  <2>4. No2MB(node) /\ Visited(node, op) /\ Tree(node)
    BY <1>1, <2>2, <2>3 DEF Visits, MemoryKept, Kept, SmallPages
  <2>5. ASSUME NEW va \in PagesOf(op.req)
        PROVE  va \in op.req.va .. op.va - 1 /\ va \in Pages
    <3> DEFINE a == op.req.va
               b == op.req.size
               c == op.va
               d == op.left
    <3>1. /\ a \in Nat /\ b \in Nat /\ a + b <= VaPages /\ VaPages \in Nat
          /\ d = 0 /\ c \in Nat /\ c + d = a + b
      BY <1>1, <2>1, <2>2, <2>3, RequestFacts, UserFacts DEF WalkState
    <3>2. va \in a .. (a + b) - 1
      BY <2>5, <3>1 DEF PagesOf
    <3> HIDE DEF a, b, c, d
    <3>3. va \in a .. c - 1 /\ va \in 0 .. VaPages - 1
      BY <3>1, <3>2
    <3> QED
      BY <3>3 DEF a, c, Pages
  <2>6. ASSUME NEW va \in PagesOf(op.req), NEW k \in Path(op.tree, va)
        PROVE  ~node'[k].pending
    <3>1. k \in PathIn(node, op.tree, va)
      BY <2>6 DEF Path, PathIn, LeafSlot, LeafIn
    <3>2. Settled(node, op.pendingNodes, k)
      BY <2>4, <2>5, <3>1 DEF Visited
    <3>3. k \in Slots
      BY <2>2, <2>4, <2>5, <3>1, PathSlots
    <3>4. /\ k \in op.pendingNodes => ~node'[k].pending
          /\ k \notin op.pendingNodes => node'[k] = node[k]
      BY <1>1, <3>3, CommitNodes
    <3> QED
      BY <3>2, <3>4 DEF Settled
  <2> QED
    BY <2>6
<1>2. Shape /\ MemoryKept /\ Visits /\ SmallPages /\ [Next]_vars
        => [Commit /\ FullyCommitted => Sent]_vars
  BY <1>1
<1>3. SmallPages /\ [Next]_vars => SmallPages'
  <2>1. [Next]_vars => UNCHANGED user
    BY DEF Next, vars
  <2> QED
    BY <2>1, SameUser DEF SmallPages
<1>4. SmallPages <=> ~Maps /\ ~Ps64 /\ ~Supports2MB
  BY DEF SmallPages
<1> QED
  BY <1>2, <1>3, <1>4, ShapeAlways, MemoryKeptAlways, VisitsAlways, PTL DEF Spec, NothingLeftPending

-----------------------------------------------------------------------------
(* Every request on one tree: pages of 64KB in system memory are noted *)

(* Calls of a context, or a product with one device: nothing is cloned. *)
OneTree == \A r \in Requests : r.first = r.last

(* A page of 64KB in system memory. *)
System64(k, n) == n.present /\ k[2] = "Pte" /\ n.size = Group /\ n.bank = 0

(* What the walk of a write has noted for the end of its request. *)
NotedBy(o) == IF o # Idle /\ o.req.kind = "write" THEN o.pages64KB ELSE {}

Noted ==
    ~Maps /\ ~CanPause /\ OneTree =>
        /\ ~paused
        /\ \A k \in Slots : System64(k, node[k]) => node[k].pa \in reserved64 \cup NotedBy(op)

(* What a step does to such pages while a request goes on: they stay, go, or are noted. *)
Notes ==
    /\ op.pages64KB \subseteq op'.pages64KB
    /\ \A k \in Slots : System64(k, node'[k]) =>
          \/ System64(k, node[k]) /\ node'[k].pa = node[k].pa
          \/ op.req.kind # "read" /\ node'[k].pa \in op'.pages64KB

(* Without clones a new leaf is in the bank of its page. *)
LEMMA OwnLeaf ==
    ASSUME user \in DOMAIN Users, OneTree, NEW o, WalkState(o), ~HasPa(o), o.req.kind # "read",
           NEW size
    PROVE  /\ Mode(o) = "Reserve"
           /\ NewLeaf(o, size).bank = PageMemoryBank(o) /\ NewLeaf(o, size).size = size
           /\ NewLeaf(o, size).pa = Reserve(PageMemoryBank(o), size)
<1>1. o.req \in Requests /\ o.tree \in o.req.first .. o.req.last
  BY DEF WalkState
<1>2. o.tree = o.req.first
  <2> DEFINE t == o.tree
             a == o.req.first
             b == o.req.last
  <2>1. a = b /\ a \in 1 .. Trees /\ t \in a .. b
    BY <1>1, RequestFacts DEF OneTree
  <2>2. Trees \in Nat
    BY UserFacts
  <2> HIDE DEF t, a, b
  <2>3. t = a
    BY <2>1, <2>2
  <2> QED
    BY <2>3 DEF t, a
<1>3. Mode(o) = "Reserve"
  <2>1. o.tree \in Nat /\ o.req.first \in Nat
    BY <1>1, <1>2, RequestFacts
  <2>2. ~(o.tree > o.req.first)
    BY <1>2, <2>1
  <2> QED
    BY <2>2, ModeIs
<1>4. NewLeaf(o, size) = Node(Reserve(PageMemoryBank(o), size), PageMemoryBank(o), TRUE, size, o.req.flags)
  BY <1>3, Zenon DEF NewLeaf
<1> QED
  BY <1>3, <1>4 DEF Node

(* What collects nothing and makes nothing notes nothing. *)
LEMMA SameNotes ==
    ASSUME SameNodes, op'.pages64KB = op.pages64KB
    PROVE  Notes
BY DEF SameNodes, Notes

(* A node of a higher level is no such page. *)
LEMMA TableNotes ==
    ASSUME NEW k \in Slots, k[2] # "Pte", NEW n, Makes(k, n), op'.pages64KB = op.pages64KB
    PROVE  Notes
BY DEF Makes, Notes, System64

(* A new page of 64KB in system memory is noted. *)
LEMMA WalkPteNotes ==
    ASSUME Shape, UNCHANGED user, Unmapped(op), OneTree, WalkPte
    PROVE  Notes
<1> DEFINE k == PageSlot(op)
           s == Pte(op).size
<1>1. op.level = "Pte"
  BY DEF WalkPte, Walking
<1>2. /\ user \in DOMAIN Users /\ op # Idle /\ WalkState(op) /\ DOMAIN op = WalkFields
  BY <1>1, AtLevel
<1>3. k \in Slots /\ ~HasPa(op)
  BY <1>1, PageSlotIs DEF Unmapped, HasPa
<1>4. CASE (Quiet \/ Meets(k)) /\ op'.pages64KB = op.pages64KB
  BY <1>4, SameNotes DEF Quiet, Meets
<1>5. ASSUME NEW n, Makes(k, n), op'.pages64KB = Note64KB(op, k, n).pages64KB
      PROVE  Notes
  <2>1. ~node[k].present /\ op.req.kind # "read" /\ node'[k] = n
        /\ \A l \in Slots \ {k} : node'[l] = node[l]
    BY <1>5 DEF Makes
  <2>2. n = NewLeaf(op, s)
    <3>1. ~WalkMissing(k)
      BY <1>1, <2>1, MissingDoes
    <3>2. node' = [node EXCEPT ![k] = LeafAfter(op, k, s)]
      BY <3>1 DEF WalkPte
    <3>3. DOMAIN node = Slots
      BY DEF Shape, NodeShape
    <3> QED
      BY <1>3, <2>1, <3>2, <3>3 DEF LeafAfter
  <2>3. Mode(op) = "Reserve" /\ n.bank = PageMemoryBank(op) /\ n.size = s
    BY <1>2, <1>3, <2>1, <2>2, OwnLeaf
  <2>4. n.bank = 0 => op.req.banks = {}
    BY <1>2, <2>3, PageBank
  <2>5. n.bank = 0 /\ n.size = Group => n.pa \in op'.pages64KB
    <3>1. ASSUME n.bank = 0, n.size = Group
          PROVE  n.pa \in op'.pages64KB
      <4>1. Note64KB(op, k, n) = [op EXCEPT !.pages64KB = @ \cup {n.pa}]
        BY <2>1, <2>3, <2>4, <3>1 DEF Note64KB
      <4> QED
        BY <1>2, <1>5, <4>1 DEF WalkFields
    <3> QED
      BY <3>1
  <2>6. op.pages64KB \subseteq op'.pages64KB
    BY <1>2, <1>5 DEF Note64KB, WalkFields
  <2> HIDE DEF k
  <2> QED
    BY <1>3, <2>1, <2>5, <2>6 DEF Notes, System64
<1> QED
  BY <1>4, <1>5, WalkPteDoes

(* A PS64 group notes nothing. *)
LEMMA Ps64GroupNotes ==
    ASSUME NEW o, DOMAIN o = WalkFields, NEW k, NEW nodes
    PROVE  Ps64Group(o, k, nodes).op.pages64KB = o.pages64KB
<1> DEFINE group == GroupSlots(o.tree, o.va)
           full == CompleteGroup(o, group, nodes)
           broken == BreakGroup(o, group, nodes)
           part == PartialGroup(o, k, nodes)
<1>1. \/ Ps64Group(o, k, nodes) = full
      \/ Ps64Group(o, k, nodes) = broken
      \/ Ps64Group(o, k, nodes) = part
  BY Zenon DEF Ps64Group
<1>2. ASSUME NEW ks, NEW new
      PROVE  EmitAll(o, ks, new).pages64KB = o.pages64KB
  BY DEF EmitAll, WalkFields
<1>3. ASSUME NEW n
      PROVE  Emit(o, k, n).pages64KB = o.pages64KB
  BY DEF Emit, WalkFields
<1>4. full.op.pages64KB = o.pages64KB
  BY <1>2 DEF CompleteGroup
<1>5. broken.op.pages64KB = o.pages64KB
  BY <1>2 DEF BreakGroup
<1>6. part.op.pages64KB = o.pages64KB
  BY <1>3 DEF PartialGroup
<1> QED
  BY <1>1, <1>4, <1>5, <1>6

(* With PS64 a turn notes the page of 64KB it makes. *)
LEMMA WalkPtePs64Notes ==
    ASSUME Shape, UNCHANGED user, Unmapped(op), WalkPtePs64
    PROVE  Notes
<1> DEFINE k == PageSlot(op)
           n == LeafAfter(op, k, 1)
           nodes == [node EXCEPT ![k] = n]
           r == Ps64Group(op, k, nodes)
<1>1. op.level = "Pte" /\ op.pa = NoPa /\ ~HasPa(op)
  BY DEF WalkPtePs64, Walking, Unmapped, HasPa
<1>2. /\ user \in DOMAIN Users /\ op # Idle /\ DOMAIN op = WalkFields
  BY <1>1, AtLevel
<1>3. k \in Slots
  BY <1>1, PageSlotIs
<1>4. node' = r.nodes /\ op' = Advance(r.op, 1, n.pa)
  BY DEF WalkPtePs64
<1> HIDE DEF k
<1>5. DOMAIN node = Slots /\ DOMAIN node[k] = NodeFields /\ node[k].present \in BOOLEAN
  BY <1>3 DEF Shape, NodeShape
<1>6. DOMAIN n = NodeFields /\ (~node[k].present => n.size = 1) /\ (node[k].present => n = node[k])
  BY <1>1, <1>5, LeafFacts, LeafStays
<1> HIDE DEF n
<1>7. nodes[k] = n /\ DOMAIN nodes = Slots /\ \A l \in Slots \ {k} : nodes[l] = node[l]
  BY <1>3, <1>5
<1> HIDE DEF nodes
<1>8. \A l \in Slots : DOMAIN nodes[l] = NodeFields
  BY <1>6, <1>7 DEF Shape, NodeShape
<1>9. SameWalk(r.op, op) /\ SameTree(r.nodes, nodes) /\ r.op.pa = op.pa
      /\ r.op.pages64KB = op.pages64KB
  BY <1>2, <1>3, <1>7, <1>8, Ps64GroupSame, Ps64GroupPa, Ps64GroupNotes
<1> HIDE DEF r
<1>10. op'.pages64KB = op.pages64KB
  <2> DEFINE e == r.op
             pa == n.pa
  <2>1. /\ op.level \in {"Pde", "Pte"} /\ op.pa = NoPa /\ SameWalk(e, op) /\ e.pa = op.pa
        /\ op' = Advance(e, 1, pa) /\ e.pages64KB = op.pages64KB /\ 1 \in Nat \ {0}
    BY <1>1, <1>4, <1>9
  <2> HIDE DEF e, pa
  <2>2. op'.pages64KB = e.pages64KB
    BY <2>1, AdvanceDoes
  <2> QED
    BY <2>1, <2>2
<1>11. Group # 1
  BY <1>2, UserFacts
<1> QED
  BY <1>4, <1>6, <1>7, <1>9, <1>10, <1>11 DEF Notes, System64, SameTree

(* A turn of a walk notes the pages of 64KB it makes. *)
LEMMA WalkNotes ==
    ASSUME Shape, UNCHANGED user, Unmapped(op), OneTree, Walk
    PROVE  Notes /\ StreamsStay
<1>1. op.level \in {"Pdp", "Pde", "Pte"}
  BY DEF Walk, WalkPdp, WalkPdeToPte, WalkExisting2MB, Walk2MBLeaf, WalkPte, WalkPtePs64, Walking
<1>2. op.tree \in 1 .. Trees /\ op.va \in Pages /\ user \in DOMAIN Users
  BY <1>1, AtLevel
<1> DEFINE p == PdeAt(op.tree, op.va)
           q == PteAt(op.tree, op.va)
<1>3. p \in Slots /\ p[2] = "Pdp" /\ q \in Slots /\ q[2] = "Pde"
  BY <1>2, SlotsOfPage
<1>4. CASE WalkPdp
  <2>1. Quiet \/ Meets(p) \/ \E n : Makes(p, n)
    BY <1>4, WalkPdpDoes
  <2>2. op'.pages64KB = op.pages64KB /\ StreamsStay
    BY <1>4, WalkPdpDoes
  <2> HIDE DEF p
  <2> QED
    BY <1>3, <2>1, <2>2, SameNotes, TableNotes DEF Quiet, Meets
<1>5. CASE WalkPdeToPte
  <2>1. Quiet \/ Meets(q) \/ \E n : Makes(q, n)
    BY <1>5, WalkPdeToPteDoes
  <2>2. op'.pages64KB = op.pages64KB /\ StreamsStay
    BY <1>5, WalkPdeToPteDoes
  <2> HIDE DEF q
  <2> QED
    BY <1>3, <2>1, <2>2, SameNotes, TableNotes DEF Quiet, Meets
<1>6. CASE WalkExisting2MB
  BY <1>6, WalkExisting2MBDoes, SameNotes DEF Quiet
<1>7. CASE Walk2MBLeaf
  <2>1. Quiet \/ \E n : Makes(q, n)
    BY <1>7, Walk2MBLeafDoes
  <2>2. op'.pages64KB = op.pages64KB /\ StreamsStay
    BY <1>7, Walk2MBLeafDoes
  <2> HIDE DEF q
  <2> QED
    BY <1>3, <2>1, <2>2, SameNotes, TableNotes DEF Quiet
<1>8. CASE WalkPte
  BY <1>8, WalkPteNotes, WalkPteDoes
<1>9. CASE WalkPtePs64
  BY <1>9, WalkPtePs64Notes DEF WalkPtePs64, StreamsUnchanged, StreamsStay
<1> QED
  BY <1>4, <1>5, <1>6, <1>7, <1>8, <1>9 DEF Walk

(* What is to hold after a step. *)
NotedThen ==
    /\ ~paused'
    /\ \A k \in Slots : System64(k, node'[k]) => node'[k].pa \in reserved64' \cup NotedBy(op')

(* The end of a request reserves what was noted. *)
LEMMA CommitNotes ==
    ASSUME Shape, Noted, ~Maps, ~CanPause, OneTree, Commit \/ EndRead \/ FreeReturn \/ FreeCommit
    PROVE  NotedThen
<1>1. SameTree(node', node)
  BY CommitSame
<1>2. /\ ~paused
      /\ \A k \in Slots : System64(k, node[k]) => node[k].pa \in reserved64 \cup NotedBy(op)
  BY DEF Noted
<1>3. \A k \in Slots : System64(k, node'[k]) =>
                         System64(k, node[k]) /\ node'[k].pa = node[k].pa
  BY <1>1 DEF SameTree, System64
<1>4. CASE Commit
  <2>1. reserved64' = reserved64 \cup op.pages64KB /\ paused' = paused
    BY <1>2, <1>4 DEF Commit
  <2>2. NotedBy(op) \subseteq op.pages64KB
    BY DEF NotedBy
  <2> QED
    BY <1>2, <1>3, <2>1, <2>2 DEF NotedThen
<1>5. CASE EndRead \/ FreeReturn \/ FreeCommit
  <2>1. reserved64' = reserved64 /\ paused' = paused
    BY <1>5 DEF EndRead, FreeReturn, FreeCommit, StreamsUnchanged
  <2>2. (op.level = "Commit" /\ Mode(op) = "Expect") \/ op.level \in {"Free", "FreeCommit"}
    BY <1>5 DEF EndRead, FreeReturn, FreeCommit, Walking
  <2>3. op.req.kind # "write"
    BY <2>2, ModeIs, AtLevel
  <2>4. NotedBy(op) = {}
    BY <2>3 DEF NotedBy
  <2> QED
    BY <1>2, <1>3, <2>1, <2>4 DEF NotedThen
<1> QED
  BY <1>4, <1>5

(* Freed pages need not be noted. *)
LEMMA FreeNotes ==
    ASSUME Shape, Kept(memory, node), Noted, ~Maps, ~CanPause, OneTree, UNCHANGED user,
           Free2MB \/ FreePage
    PROVE  NotedThen
<1>1. op.level = "Free" /\ reserved64' = reserved64 /\ paused' = paused
  BY DEF Free2MB, FreePage, Walking, StreamsUnchanged
<1>2. op.req.kind = "free"
  BY <1>1, AtLevel
<1>3. \E gone, lose : Frees(gone, lose)
  BY Free2MBFrees, FreePageFrees
<1>4. PICK gone, lose : Frees(gone, lose)
  BY <1>3
<1>5. \A k \in Slots : System64(k, node'[k]) =>
                         System64(k, node[k]) /\ node'[k].pa = node[k].pa
  <2>1. ASSUME NEW k \in Slots, System64(k, node'[k])
        PROVE  System64(k, node[k]) /\ node'[k].pa = node[k].pa
    <3>1. node'[k] = IF k \in gone THEN NoNode
                     ELSE IF k \in lose THEN [node[k] EXCEPT !.ps64 = FALSE] ELSE node[k]
      BY <1>4 DEF Frees
    <3>2. DOMAIN node[k] = NodeFields
      BY DEF Shape, NodeShape
    <3> QED
      BY <2>1, <3>1, <3>2 DEF System64, NoNode, NodeFields
  <2> QED
    BY <2>1
<1>6. NotedBy(op) = {}
  BY <1>2 DEF NotedBy
<1>7. /\ ~paused
      /\ \A k \in Slots : System64(k, node[k]) => node[k].pa \in reserved64
  BY <1>6 DEF Noted
<1> QED
  BY <1>1, <1>5, <1>7 DEF NotedThen

(* Every step keeps the pages of 64KB noted. *)
LEMMA NextNoted ==
    ASSUME Shape, MemoryKept, Noted, [Next]_vars
    PROVE  Noted'
<1>1. UNCHANGED user /\ user \in DOMAIN Users
  BY DEF Next, vars, Shape
<1>2. SUFFICES ASSUME ~Maps, ~CanPause, OneTree
               PROVE  NotedThen
  <2>1. /\ Slots' = Slots /\ Group' = Group /\ Maps' = Maps /\ CanPause' = CanPause
        /\ Requests' = Requests
    BY <1>1, SameUser
  <2>2. OneTree' => OneTree
    BY <2>1 DEF OneTree
  <2>3. \A k, n : System64(k, n)' <=> System64(k, n)
    BY <2>1 DEF System64
  <2>4. NotedBy(op)' = NotedBy(op')
    BY DEF NotedBy
  <2>5. NotedThen => (~paused' /\ \A k \in Slots' : System64(k, node[k])' => node'[k].pa \in reserved64' \cup NotedBy(op)')
    BY <2>1, <2>4 DEF NotedThen, System64
  <2> QED
    BY <1>2, <2>1, <2>2, <2>5 DEF Noted
<1>3. /\ Kept(memory, node) /\ (op = Idle \/ op.pa = NoPa)
      /\ ~paused
      /\ \A k \in Slots : System64(k, node[k]) => node[k].pa \in reserved64 \cup NotedBy(op)
  BY <1>2 DEF MemoryKept, Noted
<1>4. CASE Walk
  <2>1. op.level \in {"Pdp", "Pde", "Pte"}
    BY <1>4 DEF Walk, WalkPdp, WalkPdeToPte, WalkExisting2MB, Walk2MBLeaf, WalkPte, WalkPtePs64, Walking
  <2>2. op # Idle /\ WalkState(op) /\ Unmapped(op)
    BY <1>2, <1>3, <2>1, AtLevel DEF Unmapped
  <2>3. Notes /\ StreamsStay
    BY <1>1, <1>2, <1>4, <2>2, WalkNotes
  <2>4. op' # Idle /\ op'.req = op.req
    BY <1>1, <1>4, WalkGoesOn
  <2>5. CASE op.req.kind = "write"
    <3>1. NotedBy(op) = op.pages64KB /\ NotedBy(op') = op'.pages64KB
      BY <2>2, <2>4, <2>5 DEF NotedBy
    <3> QED
      BY <1>3, <2>3, <3>1 DEF NotedThen, Notes, StreamsStay
  <2>6. CASE op.req.kind # "write"
    <3>1. op.req.kind = "read" /\ NotedBy(op) = {}
      BY <1>1, <1>2, <2>1, <2>2, <2>6, AtLevel, KindIs DEF NotedBy, WalkState
    <3> QED
      BY <1>3, <2>3, <3>1 DEF Notes, NotedThen, StreamsStay
  <2> QED
    BY <2>5, <2>6
<1>5. CASE Commit \/ EndRead \/ FreeReturn \/ FreeCommit
  BY <1>2, <1>5, CommitNotes
<1>6. CASE Free2MB \/ FreePage
  BY <1>1, <1>2, <1>3, <1>6, FreeNotes
<1>7. CASE \E r \in Requests : Begin(r)
  <2>1. op = Idle /\ node' = node /\ reserved64' = reserved64 /\ paused' = paused
    BY <1>7 DEF Begin
  <2> QED
    BY <1>3, <2>1 DEF NotedThen, NotedBy
<1>8. CASE \E onoff \in BOOLEAN : Pause(onoff) \/ BlockMemWritesViaTbx(onoff)
  BY <1>2, <1>3, <1>8 DEF Pause, BlockMemWritesViaTbx, NotedThen
<1>9. CASE Finished \/ UNCHANGED vars
  BY <1>3, <1>9 DEF Finished, vars, NotedThen
<1> QED
  BY <1>4, <1>5, <1>6, <1>7, <1>8, <1>9 DEF Next, Work, Free

(* At first nothing is noted. *)
LEMMA InitNoted ==
    ASSUME Init
    PROVE  Noted
<1>1. \A k \in Slots : node[k].present = FALSE
  BY NoNodeIs DEF Init
<1> QED
  BY <1>1 DEF Init, Noted, System64

(* In every state a page of 64KB in system memory is reserved or noted. *)
LEMMA NotedAlways == Spec => []Noted
<1>1. Init => Noted
  BY InitNoted
<1>2. Shape /\ MemoryKept /\ Noted /\ [Next]_vars => Noted'
  BY NextNoted
<1> QED
  BY <1>1, <1>2, ShapeAlways, MemoryKeptAlways, PTL DEF Spec

(* For every user that does not map and whose requests are on one device each:
   no page of 64KB in system memory is in the file unreserved. *)
THEOREM SystemPagesReserved ==
    Spec => []((\A r \in Requests : r.first = r.last) => Pages64KBReserved)
<1>1. Noted => ((\A r \in Requests : r.first = r.last) => Pages64KBReserved)
  <2>1. SUFFICES ASSUME Noted, OneTree, op = Idle, ~CanPause, ~Maps, NEW k \in Present,
                        k[2] = "Pte", node[k].size = Group, node[k].bank = 0
                 PROVE  node[k].pa \in reserved64
    BY DEF Pages64KBReserved, OneTree
  <2>2. k \in Slots /\ System64(k, node[k])
    BY <2>1 DEF Present, System64
  <2>3. NotedBy(op) = {}
    BY <2>1 DEF NotedBy
  <2> QED
    BY <2>1, <2>2, <2>3 DEF Noted
<1> QED
  BY <1>1, NotedAlways, PTL

-----------------------------------------------------------------------------
(* Alignment *)

(* What is handed out for nodes and comes back from them is aligned to its size. *)
AlignedBlocks(mem) ==
    \A b \in DOMAIN InitialMemory : \A x \in mem[b].used \cup mem[b].free :
        x \in InitialMemory[b].used \/ x.addr % x.size = 0

(* A new block of an allocator is aligned to its size. *)
LEMMA ReserveAligned ==
    ASSUME NEW mem, SoundMemory(mem), UserKeeps(mem), AlignedBlocks(mem),
           NEW b \in DOMAIN InitialMemory, NEW size \in Nat \ {0}
    PROVE  LET x == AllocatedBlock(mem[b], size, size)
           IN  x.addr \in Nat /\ x.size = size /\ x.addr % size = 0
<1> DEFINE x == AllocatedBlock(mem[b], size, size)
<1>1. mem[b] \in AllocatorState /\ BlocksDisjoint(mem[b]) /\ BlocksBelowNext(mem[b], 0)
  BY DEF SoundMemory
<1>2. x \in Block /\ x.size = size
  BY <1>1, AllocatedBlockIsNew
<1>3. CASE Fitting(mem[b], size) # {}
  <2>1. Fitting(mem[b], size) \in SUBSET Block /\ Fitting(mem[b], size) \subseteq mem[b].free
    BY <1>1 DEF Fitting, AllocatorState
  <2>2. x \in mem[b].free
    BY <1>3, <2>1, LowestIsMember DEF AllocatedBlock
  <2>3. x \notin InitialMemory[b].used
    BY <1>1, <2>2 DEF UserKeeps, BlocksDisjoint
  <2> QED
    BY <1>2, <2>2, <2>3 DEF AlignedBlocks, Block
<1>4. CASE Fitting(mem[b], size) = {}
  <2>1. x.addr = AlignUp(mem[b].next, MaxOf(size, MinAlignment))
    BY <1>4 DEF AllocatedBlock, FreshAddress
  <2>2. MaxOf(size, MinAlignment) = size
    BY PageTablesAssumption DEF MaxOf
  <2>3. mem[b].next + size - 1 \in Nat
    BY <1>1 DEF AllocatorState
  <2>4. ((mem[b].next + size - 1) - ((mem[b].next + size - 1) % size)) % size = 0
    <3> DEFINE y == mem[b].next + size - 1
    <3>1. y \in Nat
      BY <2>3
    <3> HIDE DEF y
    <3>2. (y - (y % size)) % size = 0
      BY <3>1, Offset
    <3> QED
      BY <3>2 DEF y
  <2>5. x.addr % size = 0
    BY <2>1, <2>2, <2>4 DEF AlignUp
  <2> QED
    BY <1>2, <2>5 DEF Block
<1> QED
  BY <1>3, <1>4

(* Taking a block keeps blocks aligned. *)
LEMMA AllocKeepsAligned ==
    ASSUME NEW mem, SoundMemory(mem), UserKeeps(mem), AlignedBlocks(mem),
           NEW b \in DOMAIN InitialMemory, NEW size \in Nat \ {0},
           NEW mem2, mem2 = [mem EXCEPT ![b] = AlignedAlloc(@, size, size)]
    PROVE  AlignedBlocks(mem2)
<1> DEFINE x == AllocatedBlock(mem[b], size, size)
<1>1. x.addr % x.size = 0
  BY ReserveAligned
<1> HIDE DEF x
<1>2. /\ mem2[b].used = mem[b].used \cup {x} /\ mem2[b].free = mem[b].free \ {x}
      /\ \A c \in DOMAIN InitialMemory \ {b} : mem2[c] = mem[c]
  <2>1. mem2[b] = AlignedAlloc(mem[b], size, size)
    BY DEF SoundMemory
  <2> QED
    BY <2>1 DEF AlignedAlloc, x, SoundMemory
<1>3. ASSUME NEW c \in DOMAIN InitialMemory, NEW y \in mem2[c].used \cup mem2[c].free
      PROVE  y \in InitialMemory[c].used \/ y.addr % y.size = 0
  <2>1. y \in mem[c].used \cup mem[c].free \/ y = x
    BY <1>2, <1>3
  <2> QED
    BY <1>1, <2>1 DEF AlignedBlocks
<1> QED
  BY <1>3 DEF AlignedBlocks

(* A deleted node moves a block at most. *)
LEMMA DeleteKeepsAligned ==
    ASSUME NEW mem, AlignedBlocks(mem), DOMAIN mem = DOMAIN InitialMemory,
           \A b \in DOMAIN InitialMemory : DOMAIN mem[b] = {"next", "used", "free"}, NEW n
    PROVE  /\ AlignedBlocks(Delete(mem, n))
           /\ DOMAIN Delete(mem, n) = DOMAIN InitialMemory
           /\ \A b \in DOMAIN InitialMemory : DOMAIN Delete(mem, n)[b] = {"next", "used", "free"}
<1>1. CASE ~n.owned
  BY <1>1 DEF Delete
<1>2. CASE n.owned
  <2> DEFINE new == [mem EXCEPT ![n.bank] = AlignedFree(@, n.pa)]
  <2>1. Delete(mem, n) = new /\ DOMAIN new = DOMAIN InitialMemory
    BY <1>2 DEF Delete
  <2>2. ASSUME NEW b \in DOMAIN InitialMemory
        PROVE  /\ DOMAIN new[b] = {"next", "used", "free"}
               /\ new[b].used \cup new[b].free \subseteq mem[b].used \cup mem[b].free
    <3>1. CASE b = n.bank
      <4>1. new[b] = AlignedFree(mem[b], n.pa)
        BY <3>1
      <4>2. StartingAt(mem[b], n.pa) \subseteq mem[b].used
        BY DEF StartingAt
      <4> QED
        BY <4>1, <4>2 DEF AlignedFree
    <3>2. CASE b # n.bank
      BY <3>2
    <3> QED
      BY <3>1, <3>2
  <2> HIDE DEF new
  <2>3. AlignedBlocks(new)
    BY <2>2 DEF AlignedBlocks
  <2> QED
    BY <2>1, <2>2, <2>3
<1> QED
  BY <1>1, <1>2

(* Allocators are records of three fields. *)
LEMMA MemoryFields ==
    ASSUME NEW mem, SoundMemory(mem)
    PROVE  /\ DOMAIN mem = DOMAIN InitialMemory
           /\ \A b \in DOMAIN InitialMemory : DOMAIN mem[b] = {"next", "used", "free"}
BY DEF SoundMemory, AllocatorState

(* A turn of a walk keeps blocks aligned. *)
LEMMA GrowsAligned ==
    ASSUME Shape, Kept(memory, node), AlignedBlocks(memory), Grows
    PROVE  AlignedBlocks(memory')
<1>1. CASE memory' = memory
  BY <1>1
<1>2. CASE memory' # memory
  <2>1. PICK k \in Slots : \E n : IsNew(k, n)
    BY <1>2 DEF Grows
  <2>2. PICK n : IsNew(k, n)
    BY <2>1
  <2>3. /\ n.bank \in DOMAIN InitialMemory /\ BlockOf(k, n).size \in Nat \ {0}
        /\ memory' = MemoryAfterReserve(n.bank, BlockOf(k, n).size)
    BY <1>2, <2>2 DEF IsNew
  <2>4. SoundMemory(memory) /\ UserKeeps(memory)
    BY DEF Kept, Accounted
  <2> QED
    BY <2>3, <2>4, AllocKeepsAligned DEF MemoryAfterReserve
<1> QED
  BY <1>1, <1>2

(* A turn of a free keeps blocks aligned. *)
LEMMA FreeAligned ==
    ASSUME Shape, Kept(memory, node), AlignedBlocks(memory), Free2MB \/ FreePage
    PROVE  AlignedBlocks(memory')
<1>1. PICK n, m : memory' \in {Delete(memory, n), Delete(Delete(memory, n), m)}
  BY DEF Free2MB, FreePage
<1>2. SoundMemory(memory)
  BY DEF Kept, Accounted
<1>3. /\ AlignedBlocks(Delete(memory, n)) /\ DOMAIN Delete(memory, n) = DOMAIN InitialMemory
      /\ \A b \in DOMAIN InitialMemory : DOMAIN Delete(memory, n)[b] = {"next", "used", "free"}
  BY <1>2, DeleteKeepsAligned, MemoryFields
<1>4. AlignedBlocks(Delete(Delete(memory, n), m))
  BY <1>3, DeleteKeepsAligned
<1> QED
  BY <1>1, <1>3, <1>4

BlocksAligned == ~Maps => AlignedBlocks(memory)

(* Every step keeps blocks aligned. *)
LEMMA NextKeepsAligned ==
    ASSUME Shape, MemoryKept, BlocksAligned, [Next]_vars
    PROVE  BlocksAligned'
<1>1. UNCHANGED user
  BY DEF Next, vars
<1>2. SUFFICES ASSUME ~Maps PROVE AlignedBlocks(memory')
  BY <1>1, SameUser DEF BlocksAligned, AlignedBlocks
<1>3. AlignedBlocks(memory) /\ Kept(memory, node) /\ (op = Idle \/ op.pa = NoPa)
  BY <1>2 DEF BlocksAligned, MemoryKept
<1>4. CASE Walk
  <2>1. op.level \in {"Pdp", "Pde", "Pte"}
    BY <1>4 DEF Walk, WalkPdp, WalkPdeToPte, WalkExisting2MB, Walk2MBLeaf, WalkPte, WalkPtePs64, Walking
  <2>2. Unmapped(op)
    BY <1>2, <1>3, <2>1, AtLevel DEF Unmapped
  <2> QED
    BY <1>1, <1>3, <1>4, <2>2, WalkGrows, GrowsAligned
<1>5. CASE Free2MB \/ FreePage
  BY <1>3, <1>5, FreeAligned
<1>6. CASE memory' = memory
  BY <1>3, <1>6
<1>7. Walk \/ Free2MB \/ FreePage \/ memory' = memory
  BY DEF Next, vars, Work, Free, Commit, EndRead, FreeReturn, FreeCommit, Finished, Begin, Pause,
         BlockMemWritesViaTbx
<1> QED
  BY <1>4, <1>5, <1>6, <1>7

(* At first all free blocks are aligned. *)
LEMMA InitAligned ==
    ASSUME Init
    PROVE  BlocksAligned
BY PageTablesAssumption DEF Init, BlocksAligned, AlignedBlocks

(* Every state has aligned blocks. *)
LEMMA AlignedAlways == Spec => []BlocksAligned
<1>1. Init => BlocksAligned
  BY InitAligned
<1>2. Shape /\ MemoryKept /\ BlocksAligned /\ [Next]_vars => BlocksAligned'
  BY NextKeepsAligned
<1> QED
  BY <1>1, <1>2, ShapeAlways, MemoryKeptAlways, PTL DEF Spec

-----------------------------------------------------------------------------
(* What there is to see of one tree, whichever it is *)

Places == {<<k[2], k[3]>> : k \in Slots}

SlotOf(t, p) == <<t, p[1], p[2]>>

PlaceOf(k) == <<k[2], k[3]>>

(* A table is seen by its page size, a page by its memory too. *)
Seen(k, n) ==
    [present |-> n.present, size |-> n.size,
     pa |-> IF n.present /\ IsLeaf(k, n) THEN n.pa ELSE 0]

View(nodes, t) == [p \in Places |-> Seen(SlotOf(t, p), nodes[SlotOf(t, p)])]

(* A slot is a place in a tree. *)
LEMMA PlacesAreSlots ==
    /\ \A k \in Slots : PlaceOf(k) \in Places /\ k[1] \in 1 .. Trees /\ SlotOf(k[1], PlaceOf(k)) = k
    /\ \A t \in 1 .. Trees, p \in Places :
          /\ SlotOf(t, p) \in Slots /\ PlaceOf(SlotOf(t, p)) = p /\ SlotOf(t, p)[1] = t
          /\ SlotOf(t, p)[2] = p[1] /\ SlotOf(t, p)[3] = p[2]
<1>1. ASSUME NEW k \in Slots
      PROVE  k[1] \in 1 .. Trees /\ SlotOf(k[1], PlaceOf(k)) = k /\ PlaceOf(k) = <<k[2], k[3]>>
  BY <1>1 DEF Slots, SlotOf, PlaceOf
<1>2. ASSUME NEW k \in Slots, NEW t \in 1 .. Trees
      PROVE  <<t, k[2], k[3]>> \in Slots
  BY <1>2 DEF Slots
<1>3. ASSUME NEW t \in 1 .. Trees, NEW p \in Places
      PROVE  /\ SlotOf(t, p) \in Slots /\ PlaceOf(SlotOf(t, p)) = p /\ SlotOf(t, p)[1] = t
             /\ SlotOf(t, p)[2] = p[1] /\ SlotOf(t, p)[3] = p[2]
  <2>1. PICK k \in Slots : p = <<k[2], k[3]>>
    BY DEF Places
  <2>2. p[1] = k[2] /\ p[2] = k[3]
    BY <2>1
  <2> QED
    BY <1>2, <2>1, <2>2 DEF SlotOf, PlaceOf
<1> QED
  BY <1>1, <1>3 DEF Places

(* What is seen at a place. *)
LEMMA ViewIs ==
    ASSUME NEW nodes, NEW k \in Slots
    PROVE  View(nodes, k[1])[PlaceOf(k)] = Seen(k, nodes[k])
BY PlacesAreSlots DEF View

(* A tree whose slots look the same looks the same. *)
LEMMA ViewSame ==
    ASSUME NEW old, NEW new, NEW t \in 1 .. Trees,
           \A k \in Slots : k[1] = t => Seen(k, new[k]) = Seen(k, old[k])
    PROVE  View(new, t) = View(old, t)
<1>1. \A p \in Places : Seen(SlotOf(t, p), new[SlotOf(t, p)]) = Seen(SlotOf(t, p), old[SlotOf(t, p)])
  BY PlacesAreSlots
<1> QED
  BY <1>1 DEF View

(* PS64 and what waits is not seen. *)
LEMMA SeenSame ==
    ASSUME NEW new, NEW old, SameTree(new, old), NEW k \in Slots
    PROVE  Seen(k, new[k]) = Seen(k, old[k])
BY DEF SameTree, Seen, IsLeaf, Is2MB

(* Nor is it in the view of a tree. *)
LEMMA ViewOfSameTree ==
    ASSUME NEW new, NEW old, SameTree(new, old), NEW t \in 1 .. Trees
    PROVE  View(new, t) = View(old, t)
BY SeenSame, ViewSame

(* What was missing at one place is there. *)
Met(at, p, seen) == [q \in Places |-> IF q = p /\ ~at[q].present THEN seen ELSE at[q]]

(* One slot is new, the others are as they were; PS64 and what waits aside. *)
Puts(new, old, k, n) == SameTree(new, [old EXCEPT ![k] = n])

(* What was missing at one place of one tree is seen. *)
MetIn(new, old, k, seen) ==
    /\ View(new, k[1]) = Met(View(old, k[1]), PlaceOf(k), seen)
    /\ \A t \in 1 .. Trees : t # k[1] => View(new, t) = View(old, t)

(* A turn of a walk adds to the view of its tree what is missing at one place. *)
LEMMA ViewMet ==
    ASSUME NEW old, NEW new, NEW k \in Slots, NEW n, NEW seen,
           DOMAIN old = Slots, Puts(new, old, k, n),
           old[k].present => Seen(k, n) = Seen(k, old[k]),
           ~old[k].present => Seen(k, n) = seen
    PROVE  MetIn(new, old, k, seen)
<1> DEFINE mid == [old EXCEPT ![k] = n]
<1>8. SameTree(new, mid)
  BY DEF Puts
<1>9. mid[k] = n /\ \A l \in Slots \ {k} : mid[l] = old[l]
  OBVIOUS
<1>10. Seen(k, mid[k]) = IF old[k].present THEN Seen(k, old[k]) ELSE seen
  BY <1>9
<1> HIDE DEF mid
<1> DEFINE t0 == k[1]
<1>1. \A t \in 1 .. Trees : View(new, t) = View(mid, t)
  BY <1>8, ViewOfSameTree
<1>2. ASSUME NEW t \in 1 .. Trees, t # t0
      PROVE  View(mid, t) = View(old, t)
  BY <1>2, <1>9, ViewSame
<1>3. t0 \in 1 .. Trees /\ PlaceOf(k) \in Places /\ SlotOf(t0, PlaceOf(k)) = k
  BY PlacesAreSlots
<1> DEFINE at == View(old, t0)
<1>4. \A p \in Places : at[p] = Seen(SlotOf(t0, p), old[SlotOf(t0, p)])
  BY DEF View
<1> HIDE DEF at
<1>5. ASSUME NEW p \in Places
      PROVE  Seen(SlotOf(t0, p), mid[SlotOf(t0, p)])
               = IF p = PlaceOf(k) /\ ~at[p].present THEN seen ELSE at[p]
  <2>1. SlotOf(t0, p) \in Slots /\ (SlotOf(t0, p) = k <=> p = PlaceOf(k))
    BY <1>3, PlacesAreSlots
  <2>2. at[p] = Seen(SlotOf(t0, p), old[SlotOf(t0, p)])
    BY <1>4
  <2>3. CASE p = PlaceOf(k)
    <3>1. at[p] = Seen(k, old[k])
      BY <1>3, <2>2, <2>3
    <3>2. at[p].present = old[k].present
      BY <3>1 DEF Seen
    <3> QED
      BY <1>3, <1>10, <2>3, <3>1, <3>2
  <2>4. CASE p # PlaceOf(k)
    BY <1>9, <2>1, <2>2, <2>4
  <2> QED
    BY <2>3, <2>4
<1>6. View(mid, t0) = Met(at, PlaceOf(k), seen)
  BY <1>5 DEF View, Met
<1> QED
  BY <1>1, <1>2, <1>3, <1>6 DEF at, MetIn

(* All trees but one look as before. *)
OthersStay == \A t \in 1 .. Trees : t # op.tree => View(node', t) = View(node, t)

-----------------------------------------------------------------------------
(* The way of a walker through the view of its tree: what every tree does alike *)

WayAt(o, at) ==
    [level |-> o.level, va |-> o.va, left |-> o.left, page |-> o.pageNumber, at |-> at]

Way(nodes, o) == WayAt(o, View(nodes, o.tree))

PdePlace(va) == <<"Pdp", va \div (PdeSlots * PteSpan)>>
PtePlace(va) == <<"Pde", va \div PteSpan>>
PagePlace(va, size) == <<"Pte", AlignDown(va, size)>>

Looks(size, pa) == [present |-> TRUE, size |-> size, pa |-> pa]

Nothing == [present |-> FALSE, size |-> 0, pa |-> 0]

Asked(r) == IF r.pageSize = PteSpan /\ ~Supports2MB THEN Group ELSE r.pageSize

(* The end of a turn of a walk, or of a free. *)
Turned(w, at, size) ==
    LET n == MinOf(w.left, size - (w.va % size))
    IN  [level |-> IF w.left = n THEN "Commit" ELSE "Pdp", va |-> w.va + n, left |-> w.left - n,
         page |-> w.page + 1, at |-> at]

TurnedFree(w, at, size) ==
    LET n == MinOf(w.left, size - (w.va % size))
    IN  [level |-> IF w.left = n THEN "FreeCommit" ELSE "Free", va |-> w.va + n,
         left |-> w.left - n, page |-> w.page, at |-> at]

(* The page that the first tree's walk recorded for this turn. *)
Copied(infos, w, size) == Looks(size, AlignDown(infos[w.page].pa, size))

AfterPdp(w) ==
    [level |-> "Pde", va |-> w.va, left |-> w.left, page |-> w.page,
     at |-> Met(w.at, PdePlace(w.va), Looks(0, 0))]

GoesToPte(r, w) ==
    LET pte == w.at[PtePlace(w.va)]
    IN  IF pte.present THEN pte.size # PteSpan ELSE Asked(r) # PteSpan

AfterPde(r, infos, w) ==
    IF GoesToPte(r, w)
    THEN [level |-> "Pte", va |-> w.va, left |-> w.left, page |-> w.page,
          at |-> Met(w.at, PtePlace(w.va), Looks(Asked(r), 0))]
    ELSE Turned(w, Met(w.at, PtePlace(w.va), Copied(infos, w, PteSpan)), PteSpan)

AfterPte(infos, w) ==
    LET size == w.at[PtePlace(w.va)].size
    IN  Turned(w, Met(w.at, PagePlace(w.va, size), Copied(infos, w, size)), size)

(* The page a free is at, and its table. *)
FreedPlace(w) ==
    LET size == w.at[PtePlace(w.va)].size
    IN  IF size = PteSpan THEN PtePlace(w.va) ELSE PagePlace(w.va, size)

ParentPlace(p) ==
    IF p[1] = "Pde" THEN <<"Pdp", p[2] \div PdeSlots>> ELSE <<"Pde", p[2] \div PteSpan>>

AloneIn(at, p) ==
    \A q \in Places : q[1] = p[1] /\ ParentPlace(q) = ParentPlace(p) /\ q # p => ~at[q].present

(* What was seen at a page, and at its table if there was no other, is gone. *)
Without(at, p) ==
    [q \in Places |->
       IF q = p \/ (q = ParentPlace(p) /\ AloneIn(at, p)) THEN Nothing ELSE at[q]]

AfterFree(w) == TurnedFree(w, Without(w.at, FreedPlace(w)), w.at[PtePlace(w.va)].size)

After(r, infos, w) ==
    IF w.level = "Pdp" THEN AfterPdp(w)
    ELSE IF w.level = "Pde" THEN AfterPde(r, infos, w)
    ELSE IF w.level = "Pte" THEN AfterPte(infos, w)
    ELSE AfterFree(w)

(* The request is done with the tree. *)
Ends(w) ==
    \/ w.level \in {"Commit", "FreeCommit"}
    \/ /\ w.level = "Free"
       /\ ~w.at[PdePlace(w.va)].present \/ ~w.at[PtePlace(w.va)].present

(* Calls of the manager on several devices. *)
Devices == ~Maps /\ Trees > 1 /\ \A r \in Requests : r.first = 1 /\ r.last = Trees

PageInfo == [pa : Nat, bank : DOMAIN InitialMemory]

(* Only the first tree's walk records pages, one for each turn. *)
Records ==
    \/ op'.infos = op.infos /\ (op.tree = 1 => op'.pageNumber = op.pageNumber)
    \/ /\ op.tree = 1 /\ op'.pageNumber = op.pageNumber + 1
       /\ \E x \in PageInfo : op'.infos = Append(op.infos, x)

Recorded == op.infos \in Seq(PageInfo) /\ (op.tree = 1 => op.pageNumber = Len(op.infos) + 1)

(* A step goes the way of its tree. *)
GoesOn ==
    /\ op'.req = op.req /\ op'.tree = op.tree /\ Records /\ OthersStay
    /\ ~Ends(Way(node, op)) /\ Way(node', op') = After(op.req, op'.infos, Way(node, op))

(* What is seen of the tables and pages of an address. *)
LEMMA PlacesOfPage ==
    ASSUME user \in DOMAIN Users, NEW t \in 1 .. Trees, NEW va \in Pages, NEW nodes
    PROVE  /\ PlaceOf(PdeAt(t, va)) = PdePlace(va) /\ PlaceOf(PteAt(t, va)) = PtePlace(va)
           /\ \A s : PlaceOf(PageAt(t, va, s)) = PagePlace(va, s)
           /\ PdePlace(va) \in Places /\ PtePlace(va) \in Places
           /\ View(nodes, t)[PdePlace(va)] = Seen(PdeAt(t, va), nodes[PdeAt(t, va)])
           /\ View(nodes, t)[PtePlace(va)] = Seen(PteAt(t, va), nodes[PteAt(t, va)])
<1>1. /\ PlaceOf(PdeAt(t, va)) = PdePlace(va) /\ PlaceOf(PteAt(t, va)) = PtePlace(va)
      /\ \A s : PlaceOf(PageAt(t, va, s)) = PagePlace(va, s)
  BY DEF PlaceOf, PdeAt, PteAt, PageAt, PdePlace, PtePlace, PagePlace
<1>2. /\ PdeAt(t, va) \in Slots /\ PdeAt(t, va)[1] = t
      /\ PteAt(t, va) \in Slots /\ PteAt(t, va)[1] = t
  BY SlotsOfPage
<1> QED
  BY <1>1, <1>2, ViewIs, PlacesAreSlots

(* A walker with the view of its tree. *)
LEMMA WayIs ==
    ASSUME NEW o, NEW at
    PROVE  LET w == WayAt(o, at)
           IN  /\ w.level = o.level /\ w.va = o.va /\ w.left = o.left
               /\ w.page = o.pageNumber /\ w.at = at
BY DEF WayAt

(* A turn of a walk ends as its view does. *)
LEMMA AdvanceTurns ==
    ASSUME user \in DOMAIN Users, WalkState(op), op.left > 0, op.req.kind = "write",
           NEW e, SameWalk(e, op), NEW size \in Nat \ {0}, NEW childPa, NEW old, NEW at
    PROVE  LET a == Advance(e, size, childPa)
           IN  /\ WayAt(a, at) = Turned(WayAt(op, old), at, size)
               /\ a.req = op.req /\ a.tree = op.tree /\ a.pageNumber = op.pageNumber + 1
               /\ a.infos = IF Mode(op) = "Clone" \/ op.req.last = op.req.first THEN op.infos
                            ELSE Append(op.infos, [pa |-> childPa + (op.va % size),
                                                   bank |-> PageMemoryBank(e)])
<1> DEFINE a == Advance(e, size, childPa)
           n == Stride(op, size)
<1>1. DOMAIN e = WalkFields /\ e.req = op.req /\ e.tree = op.tree /\ e.va = op.va
      /\ e.left = op.left /\ e.infos = op.infos /\ e.pageNumber = op.pageNumber
  BY DEF SameWalk
<1>2. Mode(e) = Mode(op)
  BY <1>1, Zenon DEF Mode
<1>3. /\ a.va = op.va + n /\ a.left = op.left - n /\ a.req = op.req /\ a.tree = op.tree
      /\ a.pageNumber = op.pageNumber + 1
      /\ a.level = IF op.left = n THEN "Commit" ELSE "Pdp"
      /\ a.infos = IF Mode(e) = "Clone" \/ op.req.last = op.req.first THEN op.infos
                   ELSE Append(op.infos, [pa |-> childPa + (op.va % size),
                                          bank |-> PageMemoryBank(e)])
  BY <1>1 DEF Advance, WalkFields, Stride
<1> HIDE DEF a
<1>4. WayAt(a, at) = Turned(WayAt(op, old), at, size)
  BY <1>3 DEF WayAt, Turned, Stride
<1> QED
  BY <1>2, <1>3, <1>4 DEF a

(* One slot is new, the others are as before. *)
LEMMA PutSameTree ==
    ASSUME Shape, NEW k \in Slots, NEW n, DOMAIN n = NodeFields
    PROVE  Puts([node EXCEPT ![k] = n], node, k, n)
BY DEF Puts, SameTree, Shape, NodeShape

(* A table is met or made. *)
LEMMA VisitGoes ==
    ASSUME Shape, UNCHANGED user, op.level \in {"Pdp", "Pde"}, op.req.kind = "write",
           NEW k \in Slots, k[1] = op.tree, k[2] \in {"Pdp", "Pde"},
           NEW size, node[k].present \/ size \in {0, 1, Group},
           NEW level \in {"Pde", "Pte"}, VisitTable(k, size, level)
    PROVE  /\ op'.req = op.req /\ op'.tree = op.tree /\ Records /\ OthersStay
           /\ Way(node', op') = [level |-> level, va |-> op.va, left |-> op.left,
                                 page |-> op.pageNumber,
                                 at |-> Met(View(node, op.tree), PlaceOf(k), Looks(size, 0))]
<1> DEFINE n == IF node[k].present THEN node[k] ELSE NewTable(size)
           e == EmitIfNeeded(op, k, n)
           t0 == op.tree
<1>1. /\ node' = [node EXCEPT ![k] = n] /\ op' = [e EXCEPT !.level = level]
  BY DEF VisitTable
<1>2. user \in DOMAIN Users /\ DOMAIN op = WalkFields /\ WalkState(op) /\ t0 \in 1 .. Trees
  BY AtLevel
<1>3. DOMAIN node = Slots /\ DOMAIN node[k] = NodeFields
  BY DEF Shape, NodeShape
<1>4. DOMAIN n = NodeFields
  BY <1>3 DEF NewTable, Node, NodeFields
<1>5. ~node[k].present => Seen(k, n) = Looks(size, 0)
  <2>1. ASSUME ~node[k].present
        PROVE  n.present = TRUE /\ n.size = size
    BY <2>1 DEF NewTable, Node
  <2>2. ASSUME ~node[k].present
        PROVE  size # PteSpan
    BY <1>2, <2>2, UserFacts
  <2> QED
    BY <2>1, <2>2 DEF Seen, Looks, IsLeaf, Is2MB
<1>6. node[k].present => Seen(k, n) = Seen(k, node[k])
  OBVIOUS
<1>7. SameWalk(e, op)
  BY <1>2, EmitSame
<1> HIDE DEF n, e
<1>8. Puts(node', node, k, n)
  BY <1>1, <1>4, PutSameTree
<1> DEFINE seen == Looks(size, 0)
<1> HIDE DEF seen
<1>9. MetIn(node', node, k, seen)
  <2>1. ~node[k].present => Seen(k, n) = seen
    BY <1>5 DEF seen
  <2> QED
    BY <1>3, <1>6, <1>8, <2>1, ViewMet
<1>10. /\ op'.level = level /\ op'.va = op.va /\ op'.left = op.left /\ op'.req = op.req
       /\ op'.tree = op.tree /\ op'.infos = op.infos /\ op'.pageNumber = op.pageNumber
  BY <1>1, <1>7 DEF SameWalk, WalkFields
<1> QED
  BY <1>9, <1>10 DEF Way, WayAt, Records, OthersStay, MetIn, seen

(* A page of the first tree has its own memory. *)
LEMMA FirstOwns ==
    ASSUME Kept(memory, node), NEW k \in Slots, k[1] = 1, node[k].present
    PROVE  node[k].pa \in Nat
<1>1. Owner(node[k])
  BY DEF Kept, SharedAbove, Owner
<1>2. /\ node[k].bank \in DOMAIN InitialMemory
      /\ BlockOf(k, node[k]) \in memory[node[k].bank].used
      /\ memory[node[k].bank] \in AllocatorState
  BY <1>1 DEF Kept, Accounted, OwnersHold, SoundMemory
<1>3. BlockOf(k, node[k]) \in Block
  BY <1>2 DEF AllocatorState
<1> QED
  BY <1>3 DEF BlockOf, Block

(* A clone is where its original is, rounded to its size. *)
LEMMA LeafCloned ==
    ASSUME NEW o, NEW size, Mode(o) = "Clone"
    PROVE  NewLeaf(o, size) = Node(AlignDown(o.infos[o.pageNumber].pa, size),
                                   o.infos[o.pageNumber].bank, FALSE, size, o.req.flags)
BY Zenon DEF NewLeaf

(* An address within a page, rounded down to the page. *)
LEMMA RoundedBack ==
    ASSUME NEW a \in Nat \ {0}, NEW x \in Nat, x % a = 0, NEW y \in Nat
    PROVE  AlignDown(x + (y % a), a) = x /\ x + (y % a) \in Nat
<1>1. y % a \in 0 .. a - 1
  BY Offset
<1>2. (x + (y % a)) % a = y % a
  BY <1>1, OffsetIn
<1> QED
  BY <1>1, <1>2 DEF AlignDown

(* A page is met, made or copied at the end of a turn. *)
LEMMA LeafGoes ==
    ASSUME Shape, Kept(memory, node), AlignedBlocks(memory), Unmapped(op), Devices, Recorded,
           op.req.kind = "write", op.level \in {"Pde", "Pte"},
           NEW k \in Slots, k[1] = op.tree, NEW size \in {1, Group, PteSpan},
           k[2] = "Pte" \/ (k[2] = "Pde" /\ size = PteSpan),
           node[k].present => node[k].size = size,
           NEW e, SameWalk(e, op), op' = Advance(e, size, LeafAfter(op, k, size).pa),
           Puts(node', node, k, LeafAfter(op, k, size))
    PROVE  LET w == Way(node, op)
           IN  /\ op'.req = op.req /\ op'.tree = op.tree /\ Records /\ OthersStay
               /\ Way(node', op') =
                    Turned(w, Met(w.at, PlaceOf(k), Copied(op'.infos, w, size)), size)
<1> DEFINE n == LeafAfter(op, k, size)
           w == Way(node, op)
           offset == op.va % size
           bank == PageMemoryBank(op)
           x == [pa |-> n.pa + offset, bank |-> PageMemoryBank(e)]
<1>1. /\ user \in DOMAIN Users /\ DOMAIN op = WalkFields /\ WalkState(op) /\ op.tree \in 1 .. Trees
      /\ op.left > 0 /\ op.va \in Nat
  BY AtLevel DEF WalkState
<1>2. DOMAIN node = Slots /\ DOMAIN node[k] = NodeFields /\ node[k].present \in BOOLEAN
  BY DEF Shape, NodeShape
<1>3. size \in Nat \ {0} /\ ~HasPa(op)
  BY <1>1, UserFacts DEF Unmapped, HasPa
<1>4. op.req.first = 1 /\ op.req.last = Trees /\ op.req.last # op.req.first /\ op.tree \in Nat
  BY <1>1 DEF Devices, WalkState
<1>5. Mode(op) = "Clone" <=> op.tree # 1
  BY <1>1, <1>4, ModeIs
<1>6. SoundMemory(memory) /\ UserKeeps(memory)
  BY DEF Kept, Accounted
<1>7. w.at = View(node, op.tree) /\ w.page = op.pageNumber
  BY WayIs DEF Way
<1>8. /\ \A at : WayAt(op', at) = Turned(w, at, size)
      /\ op'.req = op.req /\ op'.tree = op.tree /\ op'.pageNumber = op.pageNumber + 1
      /\ op'.infos = IF Mode(op) = "Clone" THEN op.infos ELSE Append(op.infos, x)
  <2>1. /\ \A at : WayAt(op', at) = Turned(WayAt(op, View(node, op.tree)), at, size)
        /\ op'.req = op.req /\ op'.tree = op.tree /\ op'.pageNumber = op.pageNumber + 1
        /\ op'.infos = IF Mode(op) = "Clone" \/ op.req.last = op.req.first THEN op.infos
                       ELSE Append(op.infos, x)
    BY <1>1, <1>3, AdvanceTurns
  <2> QED
    BY <1>4, <2>1 DEF Way
<1>9. node[k].present => n = node[k]
  BY <1>3 DEF LeafAfter, Remap
<1>10. ~node[k].present => n = NewLeaf(op, size)
  BY DEF LeafAfter
<1>11. ASSUME op.tree = 1
       PROVE  n.pa \in Nat /\ (~node[k].present => n.pa % size = 0)
  <2>1. CASE node[k].present
    BY <1>9, <1>11, <2>1, FirstOwns
  <2>2. CASE ~node[k].present
    <3>1. n = Node(Reserve(bank, size), bank, TRUE, size, op.req.flags)
      BY <1>3, <1>5, <1>10, <1>11, <2>2, LeafCreated
    <3>2. bank \in DOMAIN InitialMemory
      BY <1>1, PageBank
    <3>3. n.pa = AllocatedBlock(memory[bank], size, size).addr
      <4> DEFINE pa == Reserve(bank, size)
                 flags == op.req.flags
      <4> HIDE DEF pa, flags, n, bank
      <4>1. n = Node(pa, bank, TRUE, size, flags)
        BY <3>1 DEF pa, flags
      <4>2. n.pa = pa
        BY <4>1 DEF Node
      <4> QED
        BY <4>2 DEF pa, Reserve
    <3> HIDE DEF n, bank
    <3> QED
      BY <1>3, <1>6, <2>2, <3>2, <3>3, ReserveAligned
  <2> QED
    BY <2>1, <2>2
<1>12. /\ n.present = TRUE
       /\ ~node[k].present => n.size = size
  BY <1>9, <1>10 DEF NewLeaf, Node
<1>13. op.tree = 1 => x \in PageInfo /\ op'.infos = Append(op.infos, x)
                      /\ op'.infos[op.pageNumber] = x
  <2>1. SUFFICES ASSUME op.tree = 1
                 PROVE  /\ x \in PageInfo /\ op'.infos = Append(op.infos, x)
                        /\ op'.infos[op.pageNumber] = x
    OBVIOUS
  <2>2. PageMemoryBank(e) \in DOMAIN InitialMemory
    BY <1>1, SameWalkState, PageBank
  <2> HIDE DEF n
  <2>3. n.pa \in Nat /\ offset \in Nat
    <3>1. n.pa \in Nat
      BY <1>11, <2>1
    <3>2. op.va % size \in 0 .. size - 1
      BY <1>1, <1>3, Offset
    <3> QED
      BY <3>1, <3>2
  <2> HIDE DEF offset
  <2>4. x \in PageInfo
    BY <2>2, <2>3 DEF PageInfo
  <2>5. op'.infos = Append(op.infos, x)
    BY <1>5, <1>8, <2>1
  <2>6. op.infos \in Seq(PageInfo) /\ op.pageNumber = Len(op.infos) + 1
    BY <2>1 DEF Recorded
  <2> HIDE DEF x
  <2> QED
    BY <2>4, <2>5, <2>6
<1>14. ASSUME ~node[k].present
       PROVE  n.pa = AlignDown(op'.infos[op.pageNumber].pa, size)
  <2>1. CASE op.tree = 1
    <3>1. op'.infos[op.pageNumber].pa = n.pa + offset
      BY <1>13, <2>1
    <3>2. n.pa \in Nat /\ n.pa % size = 0
      BY <1>11, <1>14, <2>1
    <3> HIDE DEF n
    <3> DEFINE pa == n.pa
               va == op.va
    <3>3. AlignDown(pa + (va % size), size) = pa
      <4>1. pa \in Nat /\ pa % size = 0 /\ va \in Nat
        BY <1>1, <3>2
      <4> HIDE DEF pa, va
      <4> QED
        BY <1>3, <4>1, RoundedBack
    <3> QED
      BY <3>1, <3>3
  <2>2. CASE op.tree # 1
    <3>1. op'.infos = op.infos
      BY <1>5, <1>8, <2>2
    <3>2. n = Node(AlignDown(op.infos[op.pageNumber].pa, size),
                   op.infos[op.pageNumber].bank, FALSE, size, op.req.flags)
      BY <1>5, <1>10, <1>14, <2>2, LeafCloned
    <3> HIDE DEF n
    <3> QED
      BY <3>1, <3>2 DEF Node
  <2> QED
    BY <2>1, <2>2
<1>15. ~node[k].present => Seen(k, n) = Copied(op'.infos, w, size)
  <2>1. IsLeaf(k, n) \/ node[k].present
    BY <1>12 DEF IsLeaf, Is2MB
  <2> HIDE DEF n, w
  <2> QED
    BY <1>7, <1>12, <1>14, <2>1 DEF Seen, Copied, Looks
<1> HIDE DEF n, w
<1> DEFINE seen == Copied(op'.infos, w, size)
<1> HIDE DEF seen
<1>16. /\ View(node', op.tree) = Met(w.at, PlaceOf(k), seen)
       /\ OthersStay
  <2>1. ~node[k].present => Seen(k, n) = seen
    BY <1>15 DEF seen
  <2>2. node[k].present => Seen(k, n) = Seen(k, node[k])
    BY <1>9
  <2>3. Puts(node', node, k, n)
    BY DEF n
  <2>4. MetIn(node', node, k, seen)
    BY <1>2, <2>1, <2>2, <2>3, ViewMet
  <2> QED
    BY <1>7, <2>4 DEF OthersStay, MetIn
<1>17. Way(node', op') = Turned(w, Met(w.at, PlaceOf(k), Copied(op'.infos, w, size)), size)
  BY <1>8, <1>16 DEF Way, seen
<1>18. Records
  BY <1>5, <1>8, <1>13 DEF Records
<1> QED
  BY <1>8, <1>16, <1>17, <1>18 DEF w

(* What a write on all devices needs before a step. *)
Writes ==
    /\ Shape /\ Kept(memory, node) /\ AlignedBlocks(memory) /\ Unmapped(op) /\ Devices /\ Recorded
    /\ op.req.kind = "write"

(* A write looks at no missing page. *)
LEMMA WriteMeetsAll ==
    ASSUME op.req.kind = "write", NEW k
    PROVE  Mode(op) # "Expect" /\ ~WalkMissing(k)
BY Zenon, ModeIs DEF WalkMissing

(* What a walker sees of its tables. *)
LEMMA WalkerSees ==
    ASSUME Shape, op.level \in {"Pdp", "Pde", "Pte", "Free"}
    PROVE  LET w == Way(node, op)
               pde == PdeAt(op.tree, op.va)
               pte == PteAt(op.tree, op.va)
           IN  /\ w.level = op.level /\ w.va = op.va /\ w.left = op.left
               /\ w.page = op.pageNumber /\ w.at = View(node, op.tree)
               /\ pde \in Slots /\ pde[1] = op.tree /\ pde[2] = "Pdp" /\ PlaceOf(pde) = PdePlace(w.va)
               /\ pte \in Slots /\ pte[1] = op.tree /\ pte[2] = "Pde" /\ PlaceOf(pte) = PtePlace(w.va)
               /\ w.at[PdePlace(w.va)].present = node[pde].present
               /\ w.at[PtePlace(w.va)].present = node[pte].present
               /\ w.at[PtePlace(w.va)].size = node[pte].size
<1> DEFINE w == Way(node, op)
           pde == PdeAt(op.tree, op.va)
           pte == PteAt(op.tree, op.va)
<1>1. op.tree \in 1 .. Trees /\ user \in DOMAIN Users /\ op.va \in Pages
  BY AtLevel
<1>2. /\ w.level = op.level /\ w.va = op.va /\ w.left = op.left
      /\ w.page = op.pageNumber /\ w.at = View(node, op.tree)
  BY WayIs DEF Way
<1>3. /\ pde \in Slots /\ pde[1] = op.tree /\ pde[2] = "Pdp"
      /\ pte \in Slots /\ pte[1] = op.tree /\ pte[2] = "Pde"
  BY <1>1, SlotsOfPage
<1>4. /\ PlaceOf(pde) = PdePlace(op.va) /\ PlaceOf(pte) = PtePlace(op.va)
      /\ View(node, op.tree)[PdePlace(op.va)] = Seen(pde, node[pde])
      /\ View(node, op.tree)[PtePlace(op.va)] = Seen(pte, node[pte])
  BY <1>1, PlacesOfPage
<1> HIDE DEF w, pde, pte
<1>5. /\ w.at[PdePlace(w.va)].present = node[pde].present
      /\ w.at[PtePlace(w.va)].present = node[pte].present
      /\ w.at[PtePlace(w.va)].size = node[pte].size
  BY <1>2, <1>4 DEF Seen
<1> QED
  BY <1>2, <1>3, <1>4, <1>5 DEF w, pde, pte

(* The PDE of a page is met or made. *)
LEMMA WalkPdpGoes ==
    ASSUME Writes, UNCHANGED user, WalkPdp
    PROVE  GoesOn
<1> DEFINE k == PdeAt(op.tree, op.va)
           w == Way(node, op)
<1>1. Shape /\ op.level = "Pdp" /\ op.req.kind = "write"
  BY DEF Writes, WalkPdp, Walking
<1>2. VisitTable(k, 0, "Pde")
  BY <1>1, WriteMeetsAll DEF WalkPdp
<1>3. /\ k \in Slots /\ k[1] = op.tree /\ k[2] = "Pdp" /\ PlaceOf(k) = PdePlace(w.va)
      /\ w.level = "Pdp" /\ w.va = op.va /\ w.left = op.left /\ w.page = op.pageNumber
      /\ w.at = View(node, op.tree)
  BY <1>1, WalkerSees
<1> HIDE DEF k, w
<1>4. /\ op'.req = op.req /\ op'.tree = op.tree /\ Records /\ OthersStay
      /\ Way(node', op') = [level |-> "Pde", va |-> op.va, left |-> op.left,
                            page |-> op.pageNumber,
                            at |-> Met(View(node, op.tree), PlaceOf(k), Looks(0, 0))]
  BY <1>1, <1>2, <1>3, VisitGoes
<1>5. Way(node', op') = AfterPdp(w)
  BY <1>3, <1>4 DEF AfterPdp
<1>6. ~Ends(w) /\ After(op.req, op'.infos, w) = AfterPdp(w)
  BY <1>3 DEF Ends, After
<1> QED
  BY <1>4, <1>5, <1>6 DEF GoesOn, w

(* The PTE of a page is met or made. *)
LEMMA WalkPdeToPteGoes ==
    ASSUME Writes, UNCHANGED user, WalkPdeToPte
    PROVE  GoesOn
<1> DEFINE k == PteAt(op.tree, op.va)
           w == Way(node, op)
           asked == RequestedPageSize(op)
<1>1. Shape /\ op.level = "Pde" /\ op.req.kind = "write"
  BY DEF Writes, WalkPdeToPte, Walking
<1>2. /\ VisitTable(k, asked, "Pte")
      /\ IF node[k].present THEN ~Is2MB(k, node[k]) ELSE asked # PteSpan
  BY <1>1, WriteMeetsAll DEF WalkPdeToPte
<1>3. /\ k \in Slots /\ k[1] = op.tree /\ k[2] = "Pde" /\ PlaceOf(k) = PtePlace(w.va)
      /\ w.level = "Pde" /\ w.va = op.va /\ w.left = op.left /\ w.page = op.pageNumber
      /\ w.at = View(node, op.tree) /\ w.at[PtePlace(w.va)].present = node[k].present
      /\ w.at[PtePlace(w.va)].size = node[k].size
  BY <1>1, WalkerSees
<1>4. asked = Asked(op.req) /\ asked \in {1, Group, PteSpan}
  BY <1>1, AtLevel, RequestedSizes DEF RequestedPageSize, Asked
<1> HIDE DEF k, w, asked
<1>5. GoesToPte(op.req, w)
  BY <1>2, <1>3, <1>4 DEF GoesToPte, Is2MB
<1>6. node[k].present \/ asked \in {0, 1, Group}
  BY <1>2, <1>4
<1>7. /\ op'.req = op.req /\ op'.tree = op.tree /\ Records /\ OthersStay
      /\ Way(node', op') = [level |-> "Pte", va |-> op.va, left |-> op.left,
                            page |-> op.pageNumber,
                            at |-> Met(View(node, op.tree), PlaceOf(k), Looks(asked, 0))]
  BY <1>1, <1>2, <1>3, <1>6, VisitGoes
<1>8. Way(node', op') = AfterPde(op.req, op'.infos, w)
  BY <1>3, <1>4, <1>5, <1>7 DEF AfterPde
<1>9. ~Ends(w) /\ After(op.req, op'.infos, w) = AfterPde(op.req, op'.infos, w)
  BY <1>3 DEF Ends, After
<1> QED
  BY <1>7, <1>8, <1>9 DEF GoesOn, w

(* A page of a 2MB table is where the walker is. *)
LEMMA Leaf2MBGoes ==
    ASSUME Writes, op.level = "Pde",
           NEW k, k = PteAt(op.tree, op.va), node[k].present => node[k].size = PteSpan,
           ~node[k].present => RequestedPageSize(op) = PteSpan,
           NEW e, SameWalk(e, op), op' = Advance(e, PteSpan, LeafAfter(op, k, PteSpan).pa),
           Puts(node', node, k, LeafAfter(op, k, PteSpan))
    PROVE  GoesOn
<1> DEFINE w == Way(node, op)
           size == PteSpan
           n == LeafAfter(op, k, PteSpan)
           pte == PteAt(op.tree, op.va)
<1>1. Shape /\ op.req.kind = "write" /\ user \in DOMAIN Users /\ WalkState(op)
  BY AtLevel DEF Writes
<1>2. /\ pte \in Slots /\ pte[1] = op.tree /\ pte[2] = "Pde" /\ PlaceOf(pte) = PtePlace(w.va)
      /\ w.level = "Pde" /\ w.at[PtePlace(w.va)].present = node[pte].present
      /\ w.at[PtePlace(w.va)].size = node[pte].size
  BY <1>1, WalkerSees
<1>3. Asked(op.req) = RequestedPageSize(op)
  BY DEF RequestedPageSize, Asked
<1> HIDE DEF w, pte
<1>4. ~GoesToPte(op.req, w)
  BY <1>2, <1>3 DEF GoesToPte, pte
<1>5. k = pte
  BY DEF pte
<1>6. k \in Slots /\ k[1] = op.tree /\ k[2] = "Pde" /\ PlaceOf(k) = PtePlace(w.va)
  BY <1>2, <1>5
<1>7. /\ op'.req = op.req /\ op'.tree = op.tree /\ Records /\ OthersStay
      /\ Way(node', op') = Turned(w, Met(w.at, PlaceOf(k), Copied(op'.infos, w, size)), size)
  <2>1. size \in {1, Group, PteSpan}
    OBVIOUS
  <2>2. op' = Advance(e, size, n.pa) /\ Puts(node', node, k, n)
    OBVIOUS
  <2>3. node[k].present => node[k].size = size
    OBVIOUS
  <2>4. k[2] = "Pde" /\ size = PteSpan
    BY <1>6
  <2> QED
    BY <1>6, <2>1, <2>2, <2>3, <2>4, LeafGoes DEF Writes, w
<1>8. Way(node', op') = AfterPde(op.req, op'.infos, w)
  BY <1>4, <1>6, <1>7 DEF AfterPde
<1>9. ~Ends(w) /\ After(op.req, op'.infos, w) = AfterPde(op.req, op'.infos, w)
  BY <1>2 DEF Ends, After
<1> QED
  BY <1>7, <1>8, <1>9 DEF GoesOn, w

(* At a 2MB page that is there the walk goes on as what the walker sees says. *)
LEMMA WalkExisting2MBGoes ==
    ASSUME Writes, UNCHANGED user, WalkExisting2MB
    PROVE  GoesOn
<1> DEFINE k == PteAt(op.tree, op.va)
           n == LeafAfter(op, k, PteSpan)
<1>1. Shape /\ op.level = "Pde" /\ DOMAIN op = WalkFields /\ ~HasPa(op)
  BY AtLevel DEF Writes, WalkExisting2MB, Walking
<1>2. /\ node[k].present /\ Is2MB(k, node[k]) /\ op' = Advance(op, PteSpan, node[k].pa)
      /\ node' = node
  BY DEF WalkExisting2MB
<1>3. n = node[k]
  BY <1>1, <1>2, LeafStays
<1>4. node[k].size = PteSpan
  BY <1>2 DEF Is2MB
<1>5. k \in Slots /\ DOMAIN node = Slots
  BY <1>1, WalkerSees DEF Shape, NodeShape
<1>6. SameWalk(op, op)
  BY <1>1 DEF SameWalk
<1>7. op' = Advance(op, PteSpan, n.pa)
  BY <1>2, <1>3
<1>8. Puts(node', node, k, n)
  <2> HIDE DEF n, k
  <2> DEFINE mid == [node EXCEPT ![k] = n]
  <2>1. \A l \in Slots : mid[l] = node[l]
    BY <1>3, <1>5
  <2> HIDE DEF mid
  <2>2. SameTree(node, mid)
    BY <1>1, <2>1 DEF Shape, NodeShape, SameTree
  <2> QED
    BY <1>2, <2>2 DEF Puts, mid
<1> QED
  BY <1>1, <1>2, <1>4, <1>6, <1>7, <1>8, Leaf2MBGoes

(* And where it makes a 2MB page. *)
LEMMA Walk2MBLeafGoes ==
    ASSUME Writes, UNCHANGED user, Walk2MBLeaf
    PROVE  GoesOn
<1> DEFINE k == PteAt(op.tree, op.va)
           n == LeafAfter(op, k, PteSpan)
           e == EmitIfNeeded(op, k, n)
<1>1. Shape /\ op.level = "Pde" /\ DOMAIN op = WalkFields /\ ~HasPa(op) /\ op.req.kind = "write"
  BY AtLevel DEF Writes, Walk2MBLeaf, Walking, Unmapped, HasPa
<1>2. RoundedUp(op) = op
  BY <1>1 DEF RoundedUp
<1>3. /\ ~node[k].present /\ RequestedPageSize(op) = PteSpan
      /\ node' = [node EXCEPT ![k] = n] /\ op' = Advance(e, PteSpan, n.pa)
  BY <1>1, <1>2, WriteMeetsAll DEF Walk2MBLeaf
<1>4. SameWalk(e, op)
  BY <1>1, EmitSame
<1>5. k \in Slots
  BY <1>1, WalkerSees
<1>6. DOMAIN n = NodeFields
  BY <1>1, <1>5, LeafFacts DEF Shape, NodeShape
<1>7. Puts(node', node, k, n)
  BY <1>1, <1>3, <1>5, <1>6, PutSameTree
<1> QED
  BY <1>1, <1>3, <1>4, <1>7, Leaf2MBGoes

(* A page of a PTE is where the walker is. *)
LEMMA LeafOfPteGoes ==
    ASSUME Writes, op.level = "Pte",
           NEW k, k = PageSlot(op), NEW size, size = Pte(op).size,
           NEW e, SameWalk(e, op), op' = Advance(e, size, LeafAfter(op, k, size).pa),
           Puts(node', node, k, LeafAfter(op, k, size))
    PROVE  GoesOn
<1> DEFINE w == Way(node, op)
           n == LeafAfter(op, k, size)
           pte == PteAt(op.tree, op.va)
<1>1. Shape /\ op.req.kind = "write" /\ user \in DOMAIN Users /\ WalkState(op)
      /\ op.tree \in 1 .. Trees /\ op.va \in Pages
  BY AtLevel DEF Writes
<1>2. w.level = "Pte" /\ w.at[PtePlace(w.va)].size = node[pte].size /\ w.va = op.va
  BY <1>1, WalkerSees
<1>3. /\ k \in Slots /\ k[1] = op.tree /\ k[2] = "Pte" /\ Parent(k) = pte
      /\ node[pte] = Pte(op) /\ size \in {1, Group}
  BY <1>1, PageSlotIs
<1>4. PlaceOf(k) = PagePlace(op.va, size)
  BY <1>1, PlacesOfPage DEF PageSlot
<1>5. node[k].present => node[k].size = size
  <2>1. Tree(node)
    BY DEF Writes, Kept
  <2> QED
    BY <1>3, <2>1 DEF Tree, Placed
<1> HIDE DEF w, pte, n
<1>6. /\ op'.req = op.req /\ op'.tree = op.tree /\ Records /\ OthersStay
      /\ Way(node', op') = Turned(w, Met(w.at, PlaceOf(k), Copied(op'.infos, w, size)), size)
  <2>1. op' = Advance(e, size, n.pa) /\ Puts(node', node, k, n)
    BY DEF n
  <2>2. size \in {1, Group, PteSpan}
    BY <1>3
  <2> QED
    BY <1>3, <1>5, <2>1, <2>2, LeafGoes DEF Writes, w, n
<1>7. Way(node', op') = AfterPte(op'.infos, w)
  BY <1>2, <1>3, <1>4, <1>6 DEF AfterPte
<1>8. ~Ends(w) /\ After(op.req, op'.infos, w) = AfterPte(op'.infos, w)
  BY <1>2 DEF Ends, After
<1> QED
  BY <1>6, <1>7, <1>8 DEF GoesOn, w

(* And at the lowest level. *)
LEMMA WalkPteGoes ==
    ASSUME Writes, UNCHANGED user, WalkPte
    PROVE  GoesOn
<1> DEFINE k == PageSlot(op)
           size == Pte(op).size
           n == LeafAfter(op, k, size)
           e == EmitIfNeeded(Note64KB(op, k, n), k, n)
<1>1. Shape /\ op.level = "Pte" /\ DOMAIN op = WalkFields /\ op.req.kind = "write"
  BY AtLevel DEF Writes, WalkPte, Walking
<1>2. node' = [node EXCEPT ![k] = n] /\ op' = Advance(e, size, n.pa)
  BY <1>1, WriteMeetsAll DEF WalkPte
<1>3. SameWalk(e, op)
  <2>1. SameWalk(Note64KB(op, k, n), op)
    BY <1>1, EmitSame
  <2>2. SameWalk(e, Note64KB(op, k, n))
    BY <2>1, EmitSame DEF SameWalk
  <2> QED
    BY <2>1, <2>2, SameWalkChain
<1>4. k \in Slots
  BY <1>1, PageSlotIs
<1>5. DOMAIN n = NodeFields
  BY <1>1, <1>4, LeafFacts DEF Shape, NodeShape
<1>6. Puts(node', node, k, n)
  BY <1>1, <1>2, <1>4, <1>5, PutSameTree
<1> QED
  BY <1>1, <1>2, <1>3, <1>6, LeafOfPteGoes

(* And so with PS64. *)
LEMMA WalkPtePs64Goes ==
    ASSUME Writes, UNCHANGED user, WalkPtePs64
    PROVE  GoesOn
<1> DEFINE k == PageSlot(op)
           n == LeafAfter(op, k, 1)
           mid == [node EXCEPT ![k] = n]
           r == Ps64Group(op, k, mid)
           e == r.op
<1>1. Shape /\ op.level = "Pte" /\ DOMAIN op = WalkFields
  BY AtLevel DEF Writes, WalkPtePs64, Walking
<1>2. node' = r.nodes /\ op' = Advance(e, 1, n.pa) /\ Pte(op).size = 1
  BY DEF WalkPtePs64, CheckPs64
<1>3. k \in Slots
  BY <1>1, PageSlotIs
<1>4. DOMAIN n = NodeFields
  BY <1>1, <1>3, LeafFacts DEF Shape, NodeShape
<1> HIDE DEF n
<1>5. DOMAIN mid = Slots /\ \A j \in Slots : DOMAIN mid[j] = NodeFields
  BY <1>1, <1>3, <1>4 DEF Shape, NodeShape
<1> HIDE DEF mid
<1>6. SameWalk(e, op) /\ SameTree(node', mid)
  BY <1>1, <1>2, <1>3, <1>5, Ps64GroupSame
<1>7. Puts(node', node, k, n)
  BY <1>6 DEF Puts, mid
<1> QED
  BY <1>1, <1>2, <1>6, <1>7, LeafOfPteGoes DEF n

(* A step of a write goes the way of its tree. *)
LEMMA WriteGoesOn ==
    ASSUME Writes, UNCHANGED user, Walk
    PROVE  GoesOn
BY WalkPdpGoes, WalkPdeToPteGoes, WalkExisting2MBGoes, Walk2MBLeafGoes, WalkPteGoes,
   WalkPtePs64Goes DEF Walk

(* Nothing is seen of what is not there. *)
LEMMA AbsentSeen ==
    ASSUME NEW nodes, Tree(nodes), NEW k \in Slots
    PROVE  /\ ~nodes[k].present => Seen(k, nodes[k]) = Nothing
           /\ Seen(k, NoNode) = Nothing
<1>1. ~nodes[k].present => nodes[k].size = 0 /\ nodes[k].present = FALSE
  BY DEF Tree
<1>2. NoNode.present = FALSE /\ NoNode.size = 0
  BY NoNodeIs
<1> QED
  BY <1>1, <1>2 DEF Seen, Nothing

(* The table of a place. *)
LEMMA ParentPlaces ==
    ASSUME user \in DOMAIN Users, NEW k \in Slots, k[2] # "Pdp"
    PROVE  PlaceOf(Parent(k)) = ParentPlace(PlaceOf(k)) /\ Parent(k) \in Slots /\ Parent(k)[1] = k[1]
<1>1. PlaceOf(Parent(k)) = ParentPlace(PlaceOf(k))
  BY DEF PlaceOf, Parent, ParentPlace
<1> QED
  BY <1>1, ParentIsSlot, SlotIs

(* Whether a table has another entry is seen in its tree. *)
LEMMA AloneSeen ==
    ASSUME user \in DOMAIN Users, NEW k \in Slots, k[2] # "Pdp", NEW nodes
    PROVE  AloneIn(View(nodes, k[1]), PlaceOf(k)) <=>
             \A l \in Slots : l[2] = k[2] /\ Parent(l) = Parent(k) /\ l # k => ~nodes[l].present
<1> DEFINE t == k[1]
           p == PlaceOf(k)
           at == View(nodes, t)
<1>1. t \in 1 .. Trees /\ p \in Places /\ SlotOf(t, p) = k /\ p[1] = k[2]
  BY PlacesAreSlots DEF PlaceOf
<1>2. ASSUME NEW q \in Places
      PROVE  LET l == SlotOf(t, q)
             IN  /\ l \in Slots /\ PlaceOf(l) = q /\ l[1] = t /\ l[2] = q[1]
                 /\ at[q].present = nodes[l].present
  BY <1>1, <1>2, PlacesAreSlots DEF View, Seen
<1>3. ASSUME NEW l \in Slots, l[2] = k[2], Parent(l) = Parent(k)
      PROVE  l[1] = t /\ PlaceOf(l) \in Places /\ SlotOf(t, PlaceOf(l)) = l
             /\ PlaceOf(l)[1] = p[1] /\ ParentPlace(PlaceOf(l)) = ParentPlace(p)
  <2>1. Parent(l)[1] = l[1] /\ Parent(k)[1] = t
    BY <1>3, ParentPlaces
  <2>2. l[1] = t
    BY <1>3, <2>1
  <2>3. PlaceOf(l) \in Places /\ SlotOf(t, PlaceOf(l)) = l
    BY <2>2, PlacesAreSlots
  <2>4. ParentPlace(PlaceOf(l)) = ParentPlace(p)
    BY <1>3, ParentPlaces
  <2>5. PlaceOf(l)[1] = p[1]
    BY <1>1, <1>3 DEF PlaceOf
  <2> QED
    BY <2>2, <2>3, <2>4, <2>5
<1>4. ASSUME NEW q \in Places, q[1] = p[1], ParentPlace(q) = ParentPlace(p)
      PROVE  SlotOf(t, q)[2] = k[2] /\ Parent(SlotOf(t, q)) = Parent(k)
  <2> DEFINE l == SlotOf(t, q)
  <2>1. l \in Slots /\ PlaceOf(l) = q /\ l[1] = t /\ l[2] = k[2]
    BY <1>1, <1>2, <1>4
  <2> HIDE DEF l
  <2>2. PlaceOf(Parent(l)) = PlaceOf(Parent(k)) /\ Parent(l)[1] = Parent(k)[1]
        /\ Parent(l) \in Slots /\ Parent(k) \in Slots
    BY <1>4, <2>1, ParentPlaces
  <2>3. Parent(l) = Parent(k)
    BY <2>2, PlacesAreSlots
  <2> QED
    BY <2>1, <2>3 DEF l
<1> HIDE DEF at, t, p
<1>5. ASSUME AloneIn(at, p), NEW l \in Slots, l[2] = k[2], Parent(l) = Parent(k), l # k
      PROVE  ~nodes[l].present
  <2> DEFINE q == PlaceOf(l)
  <2>1. q \in Places /\ SlotOf(t, q) = l /\ q[1] = p[1] /\ ParentPlace(q) = ParentPlace(p)
    BY <1>3, <1>5
  <2> HIDE DEF q
  <2>2. q # p
    BY <1>1, <1>5, <2>1
  <2>3. ~at[q].present
    BY <1>5, <2>1, <2>2 DEF AloneIn
  <2> QED
    BY <1>2, <2>1, <2>3
<1>6. ASSUME \A l \in Slots : l[2] = k[2] /\ Parent(l) = Parent(k) /\ l # k => ~nodes[l].present,
             NEW q \in Places, q[1] = p[1], ParentPlace(q) = ParentPlace(p), q # p
      PROVE  ~at[q].present
  <2> DEFINE l == SlotOf(t, q)
  <2>1. l \in Slots /\ PlaceOf(l) = q /\ at[q].present = nodes[l].present
    BY <1>2
  <2>2. l[2] = k[2] /\ Parent(l) = Parent(k)
    BY <1>4, <1>6
  <2> HIDE DEF l
  <2>3. l # k
    BY <1>6, <2>1 DEF p
  <2> QED
    BY <1>6, <2>1, <2>2, <2>3
<1>7. AloneIn(at, p) <=>
         \A l \in Slots : l[2] = k[2] /\ Parent(l) = Parent(k) /\ l # k => ~nodes[l].present
  <2>1. (\A l \in Slots : l[2] = k[2] /\ Parent(l) = Parent(k) /\ l # k => ~nodes[l].present)
           => AloneIn(at, p)
    BY <1>6 DEF AloneIn
  <2> QED
    BY <1>5, <2>1
<1> QED
  BY <1>7 DEF at, t, p

(* The page in a slot is the last entry of its table. *)
IsLast(nodes, k) ==
    \A l \in Slots : l[2] = k[2] /\ Parent(l) = Parent(k) /\ l # k => ~nodes[l].present

(* A page goes, and its table if that was its last entry. *)
Gone(new, old, k) ==
    \A l \in Slots : Seen(l, new[l]) = IF l = k \/ (l = Parent(k) /\ IsLast(old, k))
                                       THEN Nothing ELSE Seen(l, old[l])

GoneIn(new, old, k) ==
    /\ View(new, k[1]) = Without(View(old, k[1]), PlaceOf(k))
    /\ \A t \in 1 .. Trees : t # k[1] => View(new, t) = View(old, t)

(* A node that is gone from the tree is gone from its view. *)
LEMMA ViewFreed ==
    ASSUME user \in DOMAIN Users, NEW old, NEW new, NEW k \in Slots, k[2] # "Pdp",
           Gone(new, old, k)
    PROVE  GoneIn(new, old, k)
<1> DEFINE t == k[1]
           p == PlaceOf(k)
           table == Parent(k)
           at == View(old, t)
<1>1. /\ t \in 1 .. Trees /\ p \in Places /\ SlotOf(t, p) = k
      /\ table \in Slots /\ table[1] = t /\ PlaceOf(table) = ParentPlace(p)
  BY PlacesAreSlots, ParentPlaces
<1> DEFINE last == IsLast(old, k)
<1>2. AloneIn(at, p) <=> last
  BY AloneSeen DEF IsLast
<1>8. \A l \in Slots : Seen(l, new[l]) = IF l = k \/ (l = table /\ last)
                                          THEN Nothing ELSE Seen(l, old[l])
  BY DEF Gone
<1>3. ASSUME NEW q \in Places
      PROVE  LET l == SlotOf(t, q)
             IN  /\ l \in Slots /\ PlaceOf(l) = q /\ (l = k <=> q = p)
                 /\ (l = table <=> q = ParentPlace(p))
  BY <1>1, <1>3, PlacesAreSlots
<1>4. ASSUME NEW q \in Places
      PROVE  at[q] = Seen(SlotOf(t, q), old[SlotOf(t, q)])
  BY <1>4 DEF View
<1> HIDE DEF at, t, p, table, last
<1>5. ASSUME NEW q \in Places
      PROVE  Seen(SlotOf(t, q), new[SlotOf(t, q)])
               = IF q = p \/ (q = ParentPlace(p) /\ AloneIn(at, p)) THEN Nothing ELSE at[q]
  <2> DEFINE l == SlotOf(t, q)
  <2>1. l \in Slots /\ (l = k <=> q = p) /\ (l = table <=> q = ParentPlace(p))
    BY <1>3
  <2>2. at[q] = Seen(l, old[l])
    BY <1>4
  <2> HIDE DEF l
  <2>3. Seen(l, new[l]) = IF l = k \/ (l = table /\ last) THEN Nothing ELSE Seen(l, old[l])
    BY <1>8, <2>1
  <2> QED
    BY <1>2, <2>1, <2>2, <2>3 DEF l
<1>6. View(new, t) = Without(at, p)
  BY <1>5 DEF View, Without
<1>7. ASSUME NEW u \in 1 .. Trees, u # t
      PROVE  View(new, u) = View(old, u)
  <2>1. ASSUME NEW l \in Slots, l[1] = u
        PROVE  Seen(l, new[l]) = Seen(l, old[l])
    <3>1. l # k /\ l # table
      BY <1>1, <1>7, <2>1 DEF t
    <3> QED
      BY <1>8, <3>1
  <2> QED
    BY <2>1, ViewSame
<1> QED
  BY <1>6, <1>7 DEF at, t, p, GoneIn

(* A turn of a free ends as its view does. *)
LEMMA AdvanceFreeTurns ==
    ASSUME user \in DOMAIN Users, WalkState(op), op.left > 0,
           NEW e, SameWalk(e, op), NEW size \in Nat \ {0}, NEW old, NEW at
    PROVE  LET a == AdvanceFree(e, size)
           IN  /\ WayAt(a, at) = TurnedFree(WayAt(op, old), at, size)
               /\ a.req = op.req /\ a.tree = op.tree /\ a.pageNumber = op.pageNumber
               /\ a.infos = op.infos
<1> DEFINE a == AdvanceFree(e, size)
           n == Stride(op, size)
<1>1. DOMAIN e = WalkFields /\ e.req = op.req /\ e.tree = op.tree /\ e.va = op.va
      /\ e.left = op.left /\ e.infos = op.infos /\ e.pageNumber = op.pageNumber
  BY DEF SameWalk
<1>2. /\ a.va = op.va + n /\ a.left = op.left - n /\ a.req = op.req /\ a.tree = op.tree
      /\ a.pageNumber = op.pageNumber
      /\ a.level = IF op.left = n THEN "FreeCommit" ELSE "Free"
      /\ a.infos = op.infos
  BY <1>1 DEF AdvanceFree, WalkFields, Stride
<1> HIDE DEF a
<1>3. WayAt(a, at) = TurnedFree(WayAt(op, old), at, size)
  BY <1>2 DEF WayAt, TurnedFree, Stride
<1> QED
  BY <1>2, <1>3 DEF a

(* The free of a page goes the way of its tree. *)
LEMMA FreedGoes ==
    ASSUME Shape, op.level = "Free",
           node[PdeAt(op.tree, op.va)].present, node[PteAt(op.tree, op.va)].present,
           NEW size \in Nat \ {0}, size = Pte(op).size,
           NEW k \in Slots, k[1] = op.tree, k[2] # "Pdp", PlaceOf(k) = FreedPlace(Way(node, op)),
           Gone(node', node, k),
           NEW e, SameWalk(e, op), op' = AdvanceFree(e, size)
    PROVE  GoesOn
<1> DEFINE w == Way(node, op)
           pde == PdeAt(op.tree, op.va)
           pte == PteAt(op.tree, op.va)
<1>1. user \in DOMAIN Users /\ WalkState(op) /\ op.left > 0
  BY AtLevel
<1>2. /\ w.level = "Free" /\ w.at = View(node, op.tree)
      /\ w.at[PdePlace(w.va)].present = node[pde].present
      /\ w.at[PtePlace(w.va)].present = node[pte].present
      /\ w.at[PtePlace(w.va)].size = node[pte].size
  BY WalkerSees
<1>3. /\ View(node', op.tree) = Without(View(node, op.tree), PlaceOf(k))
      /\ OthersStay
  <2>1. GoneIn(node', node, k)
    BY <1>1, ViewFreed
  <2> QED
    BY <2>1 DEF OthersStay, GoneIn
<1>4. /\ \A at : WayAt(op', at) = TurnedFree(w, at, size)
      /\ op'.req = op.req /\ op'.tree = op.tree /\ op'.pageNumber = op.pageNumber
      /\ op'.infos = op.infos
  BY <1>1, AdvanceFreeTurns DEF Way
<1>5. size = node[pte].size
  BY DEF Pte
<1> HIDE DEF w, pde, pte
<1>6. Way(node', op') = AfterFree(w)
  <2>1. Way(node', op') = TurnedFree(w, View(node', op.tree), size)
    BY <1>4 DEF Way
  <2> QED
    BY <1>2, <1>3, <1>5, <2>1 DEF AfterFree, w
<1>7. ~Ends(w)
  BY <1>2 DEF Ends, pde, pte
<1>8. After(op.req, op'.infos, w) = AfterFree(w)
  BY <1>2 DEF After
<1>9. Records
  BY <1>4 DEF Records
<1> QED
  BY <1>3, <1>4, <1>6, <1>7, <1>8, <1>9 DEF GoesOn, w

(* A 2MB page goes, and its PDE with it if that was the last entry. *)
LEMMA Free2MBGoes ==
    ASSUME Shape, Kept(memory, node), Free2MB
    PROVE  GoesOn
<1> DEFINE pde == PdeAt(op.tree, op.va)
           page == PteAt(op.tree, op.va)
           last == \A i \in 0 .. PdpSlots * PdeSlots - 1 :
                      LET k == <<op.tree, "Pde", i>>
                      IN  i \div PdeSlots = pde[3] /\ k # page => ~node[k].present
           gone == IF last THEN {page, pde} ELSE {page}
           e == [op EXCEPT !.writes = Overlay(op.writes, Zeros(gone))]
<1>1. /\ op.level = "Free" /\ node[page].present /\ Is2MB(page, node[page]) /\ node[pde].present
      /\ node' = [k \in Slots |-> IF k \in gone THEN NoNode ELSE node[k]]
      /\ op' = AdvanceFree(e, PteSpan)
  BY DEF Free2MB, Walking
<1>2. WalkState(op) /\ DOMAIN op = WalkFields /\ user \in DOMAIN Users
      /\ op.tree \in 1 .. Trees /\ op.va \in Pages
  BY <1>1, AtLevel
<1>3. /\ page \in Slots /\ page[1] = op.tree /\ page[2] = "Pde" /\ node[page].size = PteSpan
      /\ pde \in Slots /\ pde[1] = op.tree /\ pde[2] = "Pdp" /\ Parent(page) = pde
  BY <1>1, <1>2, SlotsOfPage, ParentsOfPage DEF Is2MB
<1>4. SameWalk(e, op)
  BY <1>2, WithWrites
<1>5. PlaceOf(page) = FreedPlace(Way(node, op))
  <2>1. /\ PlaceOf(page) = PtePlace(Way(node, op).va)
        /\ Way(node, op).at[PtePlace(Way(node, op).va)].size = node[page].size
    BY <1>1, WalkerSees
  <2> QED
    BY <1>3, <2>1 DEF FreedPlace
<1>6. PteSpan \in Nat \ {0} /\ Pte(op).size = PteSpan
  BY <1>2, <1>3, UserFacts DEF Pte
<1> HIDE DEF e, page, pde
<1>7. last <=> IsLast(node, page)
  <2>1. ASSUME last, NEW l \in Slots, l[2] = "Pde", Parent(l) = pde, l # page
        PROVE  ~node[l].present
    <3>1. l[1] = op.tree
      BY <1>2, <1>3, <2>1, ParentIsSlot
    <3>2. l = <<op.tree, "Pde", l[3]>> /\ l[3] \in 0 .. PdpSlots * PdeSlots - 1
      BY <2>1, <3>1, SlotIs
    <3>3. l[3] \div PdeSlots = pde[3]
      BY <2>1 DEF Parent
    <3> QED
      BY <2>1, <3>2, <3>3
  <2>2. ASSUME \A l \in Slots : l[2] = "Pde" /\ Parent(l) = pde /\ l # page => ~node[l].present,
               NEW i \in 0 .. PdpSlots * PdeSlots - 1, i \div PdeSlots = pde[3],
               <<op.tree, "Pde", i>> # page
        PROVE  ~node[<<op.tree, "Pde", i>>].present
    <3> DEFINE l == <<op.tree, "Pde", i>>
    <3>1. l \in Slots
      BY <1>2 DEF Slots
    <3>2. pde = <<op.tree, "Pdp", pde[3]>>
      BY <1>3, SlotIs
    <3>3. l[2] = "Pde" /\ Parent(l) = <<op.tree, "Pdp", i \div PdeSlots>>
      BY DEF Parent
    <3>4. Parent(l) = pde
      BY <2>2, <3>2, <3>3
    <3> HIDE DEF l
    <3> QED
      BY <2>2, <3>1, <3>3, <3>4 DEF l
  <2> QED
    BY <1>3, <2>1, <2>2 DEF IsLast
<1> HIDE DEF last
<1>8. Gone(node', node, page)
  <2>1. ASSUME NEW l \in Slots
        PROVE  Seen(l, node'[l]) = IF l = page \/ (l = Parent(page) /\ last)
                                   THEN Nothing ELSE Seen(l, node[l])
    <3>1. node'[l] = IF l = page \/ (l = Parent(page) /\ last) THEN NoNode ELSE node[l]
      BY <1>1, <1>3
    <3>2. Seen(l, NoNode) = Nothing
      BY AbsentSeen DEF Kept
    <3> QED
      BY <3>1, <3>2
  <2> QED
    BY <1>7, <2>1 DEF Gone
<1>9. op' = AdvanceFree(e, PteSpan)
  BY <1>1
<1>10. /\ node[PdeAt(op.tree, op.va)].present /\ node[PteAt(op.tree, op.va)].present
       /\ op.level = "Free"
  BY <1>1 DEF page, pde
<1>11. page[2] # "Pdp"
  BY <1>3
<1> HIDE DEF gone
<1> QED
  BY <1>3, <1>4, <1>5, <1>6, <1>8, <1>9, <1>10, <1>11, FreedGoes

(* A small page goes if there is one, and its PTE if that was the last entry. *)
LEMMA FreePageGoes ==
    ASSUME Shape, Kept(memory, node), FreePage
    PROVE  GoesOn
<1> DEFINE slot == PteAt(op.tree, op.va)
           page == PageSlot(op)
           lose == LosesAt(page)
           last == \A i \in 0 .. VaPages - 1 :
                      LET k == <<op.tree, "Pte", i>>
                      IN  i \div PteSpan = slot[3] /\ k # page => ~node[k].present
           gone == (IF node[page].present THEN {page} ELSE {}) \cup (IF last THEN {slot} ELSE {})
           new == [k \in Slots |-> IF k \in gone THEN NoNode
                                   ELSE IF k \in lose THEN [node[k] EXCEPT !.ps64 = FALSE]
                                   ELSE node[k]]
           e == [op EXCEPT !.writes = Overlay(Overlay(op.writes, Zeros(gone)), Entries(lose, new))]
           size == node[slot].size
           w == Way(node, op)
<1>1. /\ op.level = "Free" /\ node[slot].present /\ ~Is2MB(slot, node[slot])
      /\ node' = new /\ node[PdeAt(op.tree, op.va)].present
      /\ op' = AdvanceFree(e, size)
  BY Zenon DEF FreePage, Walking, LosesAt
<1>2. WalkState(op) /\ DOMAIN op = WalkFields /\ user \in DOMAIN Users
      /\ op.tree \in 1 .. Trees /\ op.va \in Pages
  BY <1>1, AtLevel
<1>3. slot \in Slots /\ slot[1] = op.tree /\ slot[2] = "Pde"
  BY <1>2, SlotsOfPage
<1>4. size \in {1, Group} /\ size # PteSpan
  BY <1>1, <1>3 DEF Is2MB, Shape, NodeShape
<1>5. size \in Nat \ {0}
  BY <1>2, <1>4, UserFacts
<1>6. page = PageAt(op.tree, op.va, size)
  BY DEF PageSlot, Pte
<1>7. page \in Slots /\ page[1] = op.tree /\ page[2] = "Pte" /\ Parent(page) = slot
  BY <1>2, <1>4, <1>5, <1>6, SlotsOfPage, ParentsOfPage
<1>8. SameWalk(e, op)
  BY <1>2, WithWrites
<1>9. PlaceOf(page) = FreedPlace(w)
  <2>1. PlaceOf(page) = PagePlace(op.va, size)
    BY <1>2, <1>6, PlacesOfPage
  <2>2. w.va = op.va /\ w.at[PtePlace(w.va)].size = size
    BY <1>1, WalkerSees
  <2> QED
    BY <1>4, <2>1, <2>2 DEF FreedPlace
<1>10. Pte(op).size = size
  BY DEF Pte
<1> HIDE DEF e, w
<1>11. /\ op' = AdvanceFree(e, size) /\ node[PdeAt(op.tree, op.va)].present
       /\ node[PteAt(op.tree, op.va)].present /\ op.level = "Free"
  BY <1>1
<1> HIDE DEF page, slot, lose
<1>12. last <=> IsLast(node, page)
  <2>1. ASSUME last, NEW l \in Slots, l[2] = "Pte", Parent(l) = slot, l # page
        PROVE  ~node[l].present
    <3>1. l[1] = op.tree
      BY <1>2, <1>3, <2>1, ParentIsSlot
    <3>2. l = <<op.tree, "Pte", l[3]>> /\ l[3] \in 0 .. VaPages - 1
      BY <2>1, <3>1, SlotIs
    <3>3. l[3] \div PteSpan = slot[3]
      BY <2>1 DEF Parent
    <3> QED
      BY <2>1, <3>2, <3>3
  <2>2. ASSUME \A l \in Slots : l[2] = "Pte" /\ Parent(l) = slot /\ l # page => ~node[l].present,
               NEW i \in 0 .. VaPages - 1, i \div PteSpan = slot[3],
               <<op.tree, "Pte", i>> # page
        PROVE  ~node[<<op.tree, "Pte", i>>].present
    <3> DEFINE l == <<op.tree, "Pte", i>>
    <3>1. l \in Slots
      BY <1>2 DEF Slots
    <3>2. slot = <<op.tree, "Pde", slot[3]>>
      BY <1>3, SlotIs
    <3>3. l[2] = "Pte" /\ Parent(l) = <<op.tree, "Pde", i \div PteSpan>>
      BY DEF Parent
    <3>4. Parent(l) = slot
      BY <2>2, <3>2, <3>3
    <3> HIDE DEF l
    <3> QED
      BY <2>2, <3>1, <3>3, <3>4 DEF l
  <2> QED
    BY <1>3, <1>7, <2>1, <2>2 DEF IsLast
<1> HIDE DEF last
<1>13. Gone(node', node, page)
  <2>1. ASSUME NEW l \in Slots
        PROVE  Seen(l, node'[l]) = IF l = page \/ (l = Parent(page) /\ last)
                                   THEN Nothing ELSE Seen(l, node[l])
    <3>1. Seen(l, NoNode) = Nothing /\ (~node[l].present => Seen(l, node[l]) = Nothing)
      BY AbsentSeen DEF Kept
    <3>2. DOMAIN node[l] = NodeFields
      BY DEF Shape, NodeShape
    <3>3. l \in gone <=> (l = page /\ node[page].present) \/ (l = Parent(page) /\ last)
      BY <1>7
    <3>4. CASE l \in gone
      <4>1. node'[l] = NoNode
        BY <1>1, <3>4
      <4> QED
        BY <3>1, <3>3, <3>4, <4>1
    <3>5. CASE l \notin gone
      <4>1. node'[l] = IF l \in lose THEN [node[l] EXCEPT !.ps64 = FALSE] ELSE node[l]
        BY <1>1, <3>5
      <4>2. /\ node'[l].present = node[l].present /\ node'[l].size = node[l].size
            /\ node'[l].pa = node[l].pa
        BY <3>2, <4>1 DEF NodeFields
      <4>3. Seen(l, node'[l]) = Seen(l, node[l])
        BY <4>2 DEF Seen, IsLeaf, Is2MB
      <4> QED
        BY <3>1, <3>3, <3>5, <4>3
    <3> QED
      BY <3>4, <3>5
  <2> QED
    BY <1>12, <2>1 DEF Gone
<1>14. page[2] # "Pdp"
  BY <1>7
<1> HIDE DEF gone, new, size
<1> QED
  BY <1>5, <1>7, <1>8, <1>9, <1>10, <1>11, <1>13, <1>14, FreedGoes DEF w

(* freeMemory goes on as what it sees says, too. *)
LEMMA FreeGoes ==
    ASSUME Shape, Kept(memory, node), Free2MB \/ FreePage
    PROVE  GoesOn
BY Free2MBGoes, FreePageGoes

(* All trees look as before. *)
AllStay == \A t \in 1 .. Trees : View(node', t) = View(node, t)

(* What changes no node changes no view. *)
LEMMA SameNodesStay ==
    ASSUME SameNodes
    PROVE  AllStay
<1>1. ASSUME NEW t \in 1 .. Trees
      PROVE  View(node', t) = View(node, t)
  <2>1. \A k \in Slots : k[1] = t => Seen(k, node'[k]) = Seen(k, node[k])
    BY DEF SameNodes
  <2> HIDE DEF SameNodes
  <2> DEFINE new == node'
  <2>2. \A k \in Slots : k[1] = t => Seen(k, new[k]) = Seen(k, node[k])
    BY <2>1
  <2> HIDE DEF new
  <2>3. View(new, t) = View(node, t)
    BY <2>2, ViewSame
  <2> QED
    BY <2>3 DEF new
<1> QED
  BY <1>1 DEF AllStay

(* Nor does what changes only PS64 and what waits. *)
LEMMA SameTreeStays ==
    ASSUME SameTree(node', node)
    PROVE  AllStay
BY ViewOfSameTree DEF AllStay

(* A read with PS64 groups to keep changes nothing that is seen. *)
LEMMA ReadPs64Stays ==
    ASSUME Shape, UNCHANGED user, Unmapped(op), op # Idle, op.req.kind = "read", WalkPtePs64
    PROVE  AllStay
<1> DEFINE k == PageSlot(op)
           n == LeafAfter(op, k, 1)
           mid == [node EXCEPT ![k] = n]
           r == Ps64Group(op, k, mid)
<1>1. op.level = "Pte" /\ DOMAIN op = WalkFields
  BY AtLevel DEF WalkPtePs64, Walking
<1>2. node' = r.nodes /\ node[k].present
  BY ModeIs DEF WalkPtePs64
<1>3. k \in Slots
  BY <1>1, PageSlotIs
<1>4. n = node[k]
  BY <1>2, LeafStays DEF Unmapped, HasPa
<1> HIDE DEF n
<1>5. DOMAIN mid = Slots /\ \A j \in Slots : mid[j] = node[j] /\ DOMAIN mid[j] = NodeFields
  BY <1>3, <1>4 DEF Shape, NodeShape
<1> HIDE DEF mid, k
<1>6. SameTree(node', mid)
  BY <1>1, <1>2, <1>3, <1>5, Ps64GroupSame
<1>7. SameTree(node', node)
  BY <1>5, <1>6 DEF SameTree
<1> QED
  BY <1>7, SameTreeStays

(* A read changes nothing that is seen. *)
LEMMA ReadStays ==
    ASSUME Shape, UNCHANGED user, Unmapped(op), op # Idle, op.req.kind = "read", Walk
    PROVE  AllStay
<1>1. (\A k, n : ~Makes(k, n)) /\ (\A k : Meets(k) => SameNodes) /\ (Quiet => SameNodes)
  BY DEF Makes, Meets, Quiet
<1>2. CASE WalkPdp
  BY <1>1, <1>2, WalkPdpDoes, SameNodesStay
<1>3. CASE WalkPdeToPte
  BY <1>1, <1>3, WalkPdeToPteDoes, SameNodesStay
<1>4. CASE WalkExisting2MB
  BY <1>1, <1>4, WalkExisting2MBDoes, SameNodesStay
<1>5. CASE Walk2MBLeaf
  BY <1>1, <1>5, Walk2MBLeafDoes, SameNodesStay
<1>6. CASE WalkPte
  BY <1>1, <1>6, WalkPteDoes, SameNodesStay
<1>7. CASE WalkPtePs64
  BY <1>7, ReadPs64Stays
<1> QED
  BY <1>2, <1>3, <1>4, <1>5, <1>6, <1>7 DEF Walk

(* A step does not look at pages that are recorded in it. *)
LEMMA AfterIsOld ==
    ASSUME NEW r, NEW infos \in Seq(PageInfo), NEW x \in PageInfo, NEW w,
           w.page \in Nat \ {0}, After(r, infos, w).page <= Len(infos) + 1
    PROVE  After(r, Append(infos, x), w) = After(r, infos, w)
<1> DEFINE more == Append(infos, x)
           pde == Turned(w, Met(w.at, PtePlace(w.va), Copied(infos, w, PteSpan)), PteSpan)
           size == w.at[PtePlace(w.va)].size
<1>1. w.page <= Len(infos) => more[w.page] = infos[w.page]
  <2> DEFINE p == w.page
  <2>1. p \in Nat \ {0}
    OBVIOUS
  <2> HIDE DEF p
  <2>2. p <= Len(infos) => more[p] = infos[p]
    BY <2>1
  <2> QED
    BY <2>2 DEF p
<1>2. \A at, s : Turned(w, at, s).page = w.page + 1
  BY DEF Turned
<1>3. w.page + 1 <= Len(infos) + 1 => w.page <= Len(infos)
  <2> DEFINE p == w.page
             l == Len(infos)
  <2>1. p \in Nat \ {0} /\ l \in Nat
    OBVIOUS
  <2> HIDE DEF p, l
  <2>2. p + 1 <= l + 1 => p <= l
    BY <2>1
  <2> QED
    BY <2>2 DEF p, l
<1>4. more[w.page] = infos[w.page] => \A s : Copied(more, w, s) = Copied(infos, w, s)
  BY DEF Copied
<1> HIDE DEF more
<1>5. CASE w.level = "Pdp"
  BY <1>5 DEF After
<1>6. CASE w.level = "Pde"
  <2>1. \A i : After(r, i, w) = AfterPde(r, i, w)
    BY <1>6 DEF After
  <2>2. CASE GoesToPte(r, w)
    BY <2>1, <2>2 DEF AfterPde
  <2>3. CASE ~GoesToPte(r, w)
    <3>1. After(r, infos, w) = pde
      BY <2>1, <2>3 DEF AfterPde
    <3>2. more[w.page] = infos[w.page]
      BY <1>1, <1>2, <1>3, <3>1
    <3>3. After(r, more, w) = pde
      BY <1>4, <2>1, <2>3, <3>2 DEF AfterPde
    <3> QED
      BY <3>1, <3>3 DEF more
  <2> QED
    BY <2>2, <2>3 DEF more
<1>7. CASE w.level = "Pte"
  <2>1. \A i : After(r, i, w) = AfterPte(i, w)
    BY <1>7 DEF After
  <2>2. After(r, infos, w) = Turned(w, Met(w.at, PagePlace(w.va, size), Copied(infos, w, size)), size)
    BY <2>1 DEF AfterPte
  <2>3. more[w.page] = infos[w.page]
    BY <1>1, <1>2, <1>3, <2>2
  <2> QED
    BY <1>4, <2>1, <2>3 DEF AfterPte, more
<1>8. CASE w.level \notin {"Pdp", "Pde", "Pte"}
  BY <1>8 DEF After
<1> QED
  BY <1>5, <1>6, <1>7, <1>8

-----------------------------------------------------------------------------
(* What the first tree's walk did, every tree does: the story of a request *)

Start(r, at) ==
    [level |-> IF r.kind = "free" THEN "Free" ELSE "Pdp", va |-> r.va, left |-> r.size,
     page |-> 1, at |-> at]

(* Steps 0 to n of a request, from where it starts. *)
Story(r, infos, h, n) ==
    /\ n \in Nat /\ h[0] = Start(r, h[0].at)
    /\ \A i \in 0 .. n : h[i].page \in Nat \ {0} /\ h[i].page <= Len(infos) + 1
    /\ \A i \in Nat : i < n => ~Ends(h[i]) /\ h[i + 1] = After(r, infos, h[i])

(* A story of no steps. *)
LEMMA StoryStarts ==
    ASSUME NEW r, NEW at
    PROVE  Story(r, << >>, [i \in Nat |-> Start(r, at)], 0)
<1> DEFINE w == Start(r, at)
           h == [i \in Nat |-> w]
<1>1. w.at = at /\ w.page = 1
  BY DEF Start
<1>2. h[0] = w
  OBVIOUS
<1>3. h[0] = Start(r, h[0].at)
  BY <1>1, <1>2
<1>4. \A i \in 0 .. 0 : h[i].page \in Nat \ {0} /\ h[i].page <= Len(<< >>) + 1
  BY <1>1, <1>2
<1>5. \A i \in Nat : ~(i < 0)
  OBVIOUS
<1> HIDE DEF h, w
<1>6. Story(r, << >>, h, 0)
  BY <1>3, <1>4, <1>5 DEF Story
<1> QED
  BY <1>6 DEF h, w

(* The story holds when another page is recorded. *)
LEMMA StoryWithPage ==
    ASSUME NEW r, NEW infos \in Seq(PageInfo), NEW x \in PageInfo, NEW h, NEW n,
           Story(r, infos, h, n)
    PROVE  Story(r, Append(infos, x), h, n)
<1> DEFINE more == Append(infos, x)
<1>1. Len(more) = Len(infos) + 1 /\ Len(infos) \in Nat
  OBVIOUS
<1>2. n \in Nat /\ h[0] = Start(r, h[0].at)
  BY DEF Story
<1>3. \A i \in 0 .. n : h[i].page \in Nat \ {0} /\ h[i].page <= Len(infos) + 1
  BY DEF Story
<1>4. ASSUME NEW i \in Nat, i < n
      PROVE  ~Ends(h[i]) /\ h[i + 1] = After(r, more, h[i])
  <2>1. ~Ends(h[i]) /\ h[i + 1] = After(r, infos, h[i])
    BY <1>4 DEF Story
  <2>2. i \in 0 .. n /\ i + 1 \in 0 .. n
    BY <1>2, <1>4
  <2>3. h[i].page \in Nat \ {0} /\ h[i + 1].page <= Len(infos) + 1
    BY <1>3, <2>2
  <2> DEFINE w == h[i]
  <2>4. w.page \in Nat \ {0} /\ After(r, infos, w).page <= Len(infos) + 1
    BY <2>1, <2>3
  <2> HIDE DEF w
  <2>5. After(r, more, w) = After(r, infos, w)
    BY <2>4, AfterIsOld
  <2> QED
    BY <2>1, <2>5 DEF w
<1>5. ASSUME NEW i \in 0 .. n
      PROVE  h[i].page \in Nat \ {0} /\ h[i].page <= Len(more) + 1
  <2> DEFINE p == h[i].page
             l == Len(infos)
  <2>1. p \in Nat \ {0} /\ p <= l + 1 /\ l \in Nat /\ Len(more) = l + 1
    BY <1>1, <1>3
  <2> HIDE DEF p, l, more
  <2>2. p <= Len(more) + 1
    BY <2>1
  <2> QED
    BY <2>1, <2>2 DEF p
<1> HIDE DEF more
<1>6. Story(r, more, h, n)
  BY <1>2, <1>4, <1>5 DEF Story
<1> QED
  BY <1>6 DEF more

(* The story of one step more. *)
Told(h, n, w) == [i \in Nat |-> IF i = n + 1 THEN w ELSE h[i]]

(* The story of a walk is longer by a turn. *)
LEMMA StoryGoesOn ==
    ASSUME NEW r, NEW infos, NEW h, NEW n, Story(r, infos, h, n), ~Ends(h[n]),
           NEW w, w = After(r, infos, h[n]), w.page \in Nat \ {0}, w.page <= Len(infos) + 1
    PROVE  Story(r, infos, Told(h, n, w), n + 1) /\ Told(h, n, w)[n + 1] = w
           /\ Told(h, n, w)[0] = h[0]
<1> DEFINE g == Told(h, n, w)
<1>1. n \in Nat /\ h[0] = Start(r, h[0].at)
  BY DEF Story
<1>2. g[n + 1] = w /\ \A i \in 0 .. n : g[i] = h[i]
  BY <1>1 DEF Told
<1> HIDE DEF g
<1>3. g[0] = h[0]
  BY <1>1, <1>2
<1>4. ASSUME NEW i \in 0 .. n + 1
      PROVE  g[i].page \in Nat \ {0} /\ g[i].page <= Len(infos) + 1
  <2>1. CASE i = n + 1
    BY <1>2, <2>1
  <2>2. CASE i # n + 1
    <3>1. i \in 0 .. n
      BY <1>1, <1>4, <2>2
    <3> QED
      BY <1>2, <3>1 DEF Story
  <2> QED
    BY <2>1, <2>2
<1>5. ASSUME NEW i \in Nat, i < n + 1
      PROVE  ~Ends(g[i]) /\ g[i + 1] = After(r, infos, g[i])
  <2>1. i \in 0 .. n
    BY <1>1, <1>5
  <2>2. g[i] = h[i]
    BY <1>2, <2>1
  <2>3. CASE i = n
    BY <1>2, <2>2, <2>3
  <2>4. CASE i # n
    <3>1. i < n /\ i + 1 \in 0 .. n
      BY <1>1, <2>1, <2>4
    <3>2. g[i + 1] = h[i + 1]
      BY <1>2, <3>1
    <3> QED
      BY <2>2, <3>1, <3>2 DEF Story
  <2> QED
    BY <2>3, <2>4
<1>6. n + 1 \in Nat
  BY <1>1
<1>7. Story(r, infos, g, n + 1)
  <2>1. g[0] = Start(r, g[0].at)
    BY <1>1, <1>3
  <2> QED
    BY <1>4, <1>5, <1>6, <2>1 DEF Story
<1> QED
  BY <1>2, <1>3, <1>7 DEF g

(* A story ends only at its end. *)
LEMMA StoryEnds ==
    ASSUME NEW r, NEW infos, NEW h, NEW n, Story(r, infos, h, n), NEW i \in 0 .. n, Ends(h[i])
    PROVE  i = n
<1>1. n \in Nat
  BY DEF Story
<1>2. i \in Nat /\ ~(i < n)
  BY <1>1 DEF Story
<1> QED
  BY <1>1, <1>2

(* All trees look alike. *)
SameViews(nodes) == \A t, u \in 1 .. Trees : View(nodes, t) = View(nodes, u)

(* Where the trees are in the story of a request. *)
Follows(nodes, o, h, n) ==
    /\ Story(o.req, o.infos, h, n)
    /\ o.tree = 1 => h[n] = Way(nodes, o) /\ o.pageNumber = Len(o.infos) + 1
    /\ o.tree # 1 => Ends(h[n]) /\ \E i \in 0 .. n : h[i] = Way(nodes, o)
    /\ \A t \in 1 .. Trees : /\ t < o.tree => View(nodes, t) = h[n].at
                             /\ t > o.tree => View(nodes, t) = h[0].at

AlikeIn(nodes, o) ==
    /\ o = Idle \/ o.req.kind = "read" => SameViews(nodes)
    /\ o # Idle /\ o.req.kind # "read" =>
         o.infos \in Seq(PageInfo) /\ \E h, n : Follows(nodes, o, h, n)

Alike == Devices => AlikeIn(node, op)

(* What the views and their story say is said of one user. *)
LEMMA AlikePrime ==
    ASSUME UNCHANGED user, AlikeIn(node', op')
    PROVE  AlikeIn(node, op)'
<1>1. /\ Slots' = Slots /\ Group' = Group /\ PteSpan' = PteSpan /\ PdeSlots' = PdeSlots
      /\ Supports2MB' = Supports2MB
  BY SameUser
<1>2. Places' = Places
  BY <1>1 DEF Places
<1>3. \A k, n : Seen(k, n)' = Seen(k, n)
  BY <1>1 DEF Seen, IsLeaf, Is2MB
<1>4. \A t : View(node, t)' = View(node', t)
  BY <1>2, <1>3 DEF View
<1>5. \A at, p, seen : Met(at, p, seen)' = Met(at, p, seen)
  BY <1>2 DEF Met
<1>6. \A va : PdePlace(va)' = PdePlace(va) /\ PtePlace(va)' = PtePlace(va)
  BY <1>1 DEF PdePlace, PtePlace
<1>7. \A r : Asked(r)' = Asked(r)
  BY <1>1 DEF Asked
<1>8. \A p : ParentPlace(p)' = ParentPlace(p)
  BY <1>1 DEF ParentPlace
<1>9. \A at, p : AloneIn(at, p)' <=> AloneIn(at, p)
  BY <1>2, <1>8 DEF AloneIn
<1>10. \A at, p : Without(at, p)' = Without(at, p)
  BY <1>2, <1>8, <1>9 DEF Without
<1>11. \A w : Ends(w)' <=> Ends(w)
  BY <1>6 DEF Ends
<1>12. \A r, infos, w : After(r, infos, w)' = After(r, infos, w)
  <2>1. \A w : AfterPdp(w)' = AfterPdp(w)
    BY <1>5, <1>6 DEF AfterPdp
  <2>2. \A r, w : GoesToPte(r, w)' <=> GoesToPte(r, w)
    BY <1>1, <1>6, <1>7 DEF GoesToPte
  <2>3. \A r, infos, w : AfterPde(r, infos, w)' = AfterPde(r, infos, w)
    BY <1>1, <1>5, <1>6, <1>7, <2>2 DEF AfterPde
  <2>4. \A infos, w : AfterPte(infos, w)' = AfterPte(infos, w)
    BY <1>5, <1>6 DEF AfterPte
  <2>5. \A w : FreedPlace(w)' = FreedPlace(w)
    BY <1>1, <1>6 DEF FreedPlace
  <2>6. \A w : AfterFree(w)' = AfterFree(w)
    BY <1>6, <1>10, <2>5 DEF AfterFree
  <2> QED
    BY <2>1, <2>3, <2>4, <2>6 DEF After
<1>13. \A r, infos, h, n : Story(r, infos, h, n)' <=> Story(r, infos, h, n)
  BY <1>11, <1>12 DEF Story
<1>14. Way(node, op)' = Way(node', op')
  BY <1>4 DEF Way
<1>15. ASSUME NEW h, NEW n, Follows(node', op', h, n)
       PROVE  Follows(node, op, h, n)'
  BY <1>4, <1>11, <1>13, <1>14, <1>15 DEF Follows
<1> QED
  BY <1>4, <1>15 DEF AlikeIn, SameViews

(* A walker at the start of a request. *)
LEMMA NewWay ==
    ASSUME user \in DOMAIN Users, NEW r \in Requests, NEW t \in r.first .. r.last, NEW infos,
           NEW nodes
    PROVE  Way(nodes, NewWalk(r, t, infos)) = Start(r, View(nodes, t))
BY DEF NewWalk, Way, WayAt, Start

(* A request begins at the first tree, and all look alike. *)
LEMMA BeginAlike ==
    ASSUME Shape, Devices, AlikeIn(node, op), NEW r \in Requests, Begin(r)
    PROVE  AlikeIn(node', op')
<1> DEFINE at == View(node, 1)
           h == [i \in Nat |-> Start(r, at)]
<1>1. user \in DOMAIN Users /\ op = Idle /\ r.first = 1 /\ r.last = Trees /\ Trees > 1 /\ Trees \in Nat
  BY UserFacts DEF Shape, Devices, Begin
<1>2. op' = NewWalk(r, 1, << >>) /\ node' = node
  BY <1>1 DEF Begin
<1>3. 1 \in r.first .. r.last /\ 1 \in 1 .. Trees
  BY <1>1
<1>4. op'.req = r /\ op'.tree = 1 /\ op'.infos = << >> /\ op'.pageNumber = 1 /\ op' # Idle
  BY <1>1, <1>2, <1>3, NewWalkStarts, WalkIsNotIdle
<1>5. SameViews(node)
  BY <1>1 DEF AlikeIn
<1>6. Way(node', op') = Start(r, at)
  BY <1>1, <1>2, <1>3, NewWay
<1>7. h[0] = Start(r, at) /\ h[0].at = at
  BY DEF Start
<1>8. Story(r, << >>, h, 0)
  BY StoryStarts
<1> HIDE DEF h, at
<1>9. \A t \in 1 .. Trees : View(node', t) = at /\ ~(t < 1)
  BY <1>2, <1>3, <1>5 DEF SameViews, at
<1>10. Follows(node', op', h, 0)
  <2>1. op'.pageNumber = Len(op'.infos) + 1
    BY <1>4
  <2> QED
    BY <1>4, <1>6, <1>7, <1>8, <1>9, <2>1 DEF Follows
<1>11. << >> \in Seq(PageInfo)
  OBVIOUS
<1>12. SameViews(node')
  BY <1>2, <1>5
<1> QED
  BY <1>4, <1>10, <1>11, <1>12 DEF AlikeIn

(* A step of a request leaves the trees before it and behind it as they are. *)
LEMMA OthersFollow ==
    ASSUME NEW at, OthersStay, op'.tree = op.tree, op.tree \in 1 .. Trees, Trees \in Nat
    PROVE  /\ (\A t \in 1 .. Trees : t < op.tree => View(node, t) = at) =>
                (\A t \in 1 .. Trees : t < op'.tree => View(node', t) = at)
           /\ (\A t \in 1 .. Trees : t > op.tree => View(node, t) = at) =>
                (\A t \in 1 .. Trees : t > op'.tree => View(node', t) = at)
BY DEF OthersStay

(* A step of the first tree's walk tells the story further. *)
LEMMA FirstTreeAlike ==
    ASSUME Shape, op # Idle, op.req.kind # "read", op.tree = 1, AlikeIn(node, op), GoesOn,
           op' # Idle
    PROVE  AlikeIn(node', op')
<1>1. op.infos \in Seq(PageInfo) /\ \E h, n : Follows(node, op, h, n)
  BY DEF AlikeIn
<1>2. PICK h, n : Follows(node, op, h, n)
  BY <1>1
<1>3. /\ op'.req = op.req /\ op'.tree = op.tree /\ Records /\ OthersStay
      /\ ~Ends(Way(node, op)) /\ Way(node', op') = After(op.req, op'.infos, Way(node, op))
  BY DEF GoesOn
<1>4. Story(op.req, op.infos, h, n) /\ h[n] = Way(node, op) /\ op.pageNumber = Len(op.infos) + 1
  BY <1>2 DEF Follows
<1>5. /\ Story(op.req, op'.infos, h, n) /\ op'.infos \in Seq(PageInfo)
      /\ op'.pageNumber = Len(op'.infos) + 1
  <2>1. CASE op'.infos = op.infos /\ (op.tree = 1 => op'.pageNumber = op.pageNumber)
    BY <1>1, <1>4, <2>1
  <2>2. CASE /\ op.tree = 1 /\ op'.pageNumber = op.pageNumber + 1
             /\ \E x \in PageInfo : op'.infos = Append(op.infos, x)
    <3>1. PICK x \in PageInfo : op'.infos = Append(op.infos, x)
      BY <2>2
    <3>2. Story(op.req, Append(op.infos, x), h, n)
      BY <1>1, <1>4, StoryWithPage
    <3> DEFINE infos == op.infos
    <3>3. Append(infos, x) \in Seq(PageInfo) /\ Len(Append(infos, x)) = Len(infos) + 1
      <4>1. infos \in Seq(PageInfo)
        BY <1>1
      <4> HIDE DEF infos
      <4> QED
        BY <4>1
    <3> QED
      BY <1>4, <2>2, <3>1, <3>2, <3>3
  <2> QED
    BY <1>3, <2>1, <2>2 DEF Records
<1> DEFINE w == Way(node', op')
           g == Told(h, n, w)
<1>6. w.page = op'.pageNumber
  BY WayIs DEF Way
<1>7. w.page \in Nat \ {0} /\ w.page <= Len(op'.infos) + 1
  <2> DEFINE l == Len(op'.infos)
             p == w.page
  <2>1. l \in Nat
    BY <1>5
  <2>2. p = l + 1
    BY <1>5, <1>6
  <2> HIDE DEF l, p
  <2>3. p \in Nat \ {0} /\ p <= l + 1
    BY <2>1, <2>2
  <2> QED
    BY <2>3 DEF l, p
<1>8. w = After(op.req, op'.infos, h[n])
  BY <1>3, <1>4
<1>9. ~Ends(h[n])
  BY <1>3, <1>4
<1> HIDE DEF w
<1>10. Story(op.req, op'.infos, g, n + 1) /\ g[n + 1] = w /\ g[0] = h[0]
  BY <1>5, <1>7, <1>8, <1>9, StoryGoesOn
<1> HIDE DEF g
<1>11. op.tree \in 1 .. Trees /\ Trees \in Nat
  BY UserFacts, WalkerPage DEF Shape
<1>12. \A t \in 1 .. Trees : ~(t < op'.tree)
  BY <1>3
<1>13. \A t \in 1 .. Trees : t > op'.tree => View(node', t) = g[0].at
  <2>1. \A t \in 1 .. Trees : t > op.tree => View(node, t) = h[0].at
    BY <1>2 DEF Follows
  <2> DEFINE at == h[0].at
  <2>2. \A t \in 1 .. Trees : t > op.tree => View(node, t) = at
    BY <2>1
  <2> HIDE DEF at
  <2>3. \A t \in 1 .. Trees : t > op'.tree => View(node', t) = at
    BY <1>3, <1>11, <2>2, OthersFollow
  <2> QED
    BY <1>10, <2>3 DEF at
<1>14. Follows(node', op', g, n + 1)
  BY <1>3, <1>5, <1>10, <1>12, <1>13 DEF Follows, w
<1> QED
  BY <1>3, <1>5, <1>14 DEF AlikeIn

(* A step on a later tree is the next one of the story. *)
LEMMA LaterTreeAlike ==
    ASSUME Shape, op # Idle, op.req.kind # "read", op.tree # 1, AlikeIn(node, op), GoesOn,
           op' # Idle
    PROVE  AlikeIn(node', op')
<1>1. op.infos \in Seq(PageInfo) /\ \E h, n : Follows(node, op, h, n)
  BY DEF AlikeIn
<1>2. PICK h, n : Follows(node, op, h, n)
  BY <1>1
<1>3. /\ op'.req = op.req /\ op'.tree = op.tree /\ Records /\ OthersStay
      /\ ~Ends(Way(node, op)) /\ Way(node', op') = After(op.req, op'.infos, Way(node, op))
  BY DEF GoesOn
<1>4. op'.infos = op.infos
  BY <1>3 DEF Records
<1>5. Story(op.req, op.infos, h, n) /\ Ends(h[n])
  BY <1>2 DEF Follows
<1>6. PICK i \in 0 .. n : h[i] = Way(node, op)
  BY <1>2 DEF Follows
<1>7. n \in Nat /\ i # n /\ i \in Nat /\ i < n /\ i + 1 \in 0 .. n
  <2>1. n \in Nat
    BY <1>5 DEF Story
  <2>2. i # n
    BY <1>3, <1>5, <1>6
  <2> QED
    BY <1>6, <2>1, <2>2
<1>8. h[i + 1] = Way(node', op')
  BY <1>3, <1>4, <1>5, <1>6, <1>7 DEF Story
<1>9. op.tree \in 1 .. Trees /\ Trees \in Nat
  BY UserFacts, WalkerPage DEF Shape
<1>10. /\ \A t \in 1 .. Trees : t < op'.tree => View(node', t) = h[n].at
       /\ \A t \in 1 .. Trees : t > op'.tree => View(node', t) = h[0].at
  <2> DEFINE end == h[n].at
             start == h[0].at
  <2>1. /\ \A t \in 1 .. Trees : t < op.tree => View(node, t) = end
        /\ \A t \in 1 .. Trees : t > op.tree => View(node, t) = start
    BY <1>2 DEF Follows
  <2> HIDE DEF end, start
  <2>2. \A t \in 1 .. Trees : t < op'.tree => View(node', t) = end
    BY <1>3, <1>9, <2>1, OthersFollow
  <2>3. \A t \in 1 .. Trees : t > op'.tree => View(node', t) = start
    BY <1>3, <1>9, <2>1, OthersFollow
  <2> QED
    BY <2>2, <2>3 DEF end, start
<1>11. Follows(node', op', h, n)
  BY <1>3, <1>4, <1>5, <1>7, <1>8, <1>10 DEF Follows
<1> QED
  BY <1>1, <1>3, <1>4, <1>11 DEF AlikeIn

(* A request goes on to the next tree where the story ends. *)
LEMMA LeavesAtEnd ==
    ASSUME Shape, op.req.kind # "read", Commit \/ EndRead \/ FreeReturn \/ FreeCommit
    PROVE  Ends(Way(node, op))
<1>1. Way(node, op).level = op.level
  BY WayIs DEF Way
<1>2. CASE Commit \/ FreeCommit
  BY <1>1, <1>2 DEF Commit, FreeCommit, Walking, Ends
<1>3. CASE EndRead
  BY <1>3, ModeIs DEF EndRead
<1>4. CASE FreeReturn
  <2>1. op.level = "Free"
    BY <1>4 DEF FreeReturn, Walking
  <2>2. LET w == Way(node, op)
        IN  /\ w.at[PdePlace(w.va)].present = node[PdeAt(op.tree, op.va)].present
            /\ w.at[PtePlace(w.va)].present = node[PteAt(op.tree, op.va)].present
    BY <2>1, WalkerSees
  <2> QED
    BY <1>1, <1>4, <2>1, <2>2 DEF FreeReturn, Ends
<1> QED
  BY <1>2, <1>3, <1>4

(* The tree that is left looks as the story ends, the next one as it starts. *)
LEMMA NextTreeAlike ==
    ASSUME Shape, Devices, AlikeIn(node, op), Commit \/ EndRead \/ FreeReturn \/ FreeCommit
    PROVE  AlikeIn(node', op')
<1>1. SameTree(node', node) /\ op' = NextTree(op) /\ WalkState(op) /\ op # Idle
  BY CommitSame, WalkIsNotIdle
<1>2. \A t \in 1 .. Trees : View(node', t) = View(node, t)
  BY <1>1, SameTreeStays DEF AllStay
<1>3. /\ user \in DOMAIN Users /\ op.tree \in 1 .. Trees /\ Trees \in Nat /\ op.req \in Requests
      /\ op.req.first = 1 /\ op.req.last = Trees /\ Trees > 1
  BY <1>1, UserFacts, WalkerPage DEF Shape, Devices, WalkState
<1>4. \/ op' = Idle /\ op.tree = Trees
      \/ /\ op' = NewWalk(op.req, op.tree + 1, op.infos) /\ op' # Idle
         /\ op'.req = op.req /\ op'.tree = op.tree + 1 /\ op.tree < Trees
  BY <1>1, <1>3, NextTreeFacts, WalkIsNotIdle
<1>5. CASE op.req.kind = "read"
  <2>1. SameViews(node')
    BY <1>1, <1>2, <1>5 DEF AlikeIn, SameViews
  <2>2. op' = Idle \/ op'.req.kind = "read"
    BY <1>4, <1>5
  <2> QED
    BY <2>1, <2>2 DEF AlikeIn
<1>6. CASE op.req.kind # "read"
  <2>1. op.infos \in Seq(PageInfo) /\ \E h, n : Follows(node, op, h, n)
    BY <1>1, <1>6 DEF AlikeIn
  <2>2. PICK h, n : Follows(node, op, h, n)
    BY <2>1
  <2>3. Story(op.req, op.infos, h, n) /\ n \in Nat /\ h[0] = Start(op.req, h[0].at)
    BY <2>2 DEF Follows, Story
  <2>4. Ends(Way(node, op))
    BY <1>6, LeavesAtEnd
  <2>5. h[n] = Way(node, op)
    <3>1. CASE op.tree = 1
      BY <2>2, <3>1 DEF Follows
    <3>2. CASE op.tree # 1
      <4>1. PICK i \in 0 .. n : h[i] = Way(node, op)
        BY <2>2, <3>2 DEF Follows
      <4>2. i = n
        BY <2>3, <2>4, <4>1, StoryEnds
      <4> QED
        BY <4>1, <4>2
    <3> QED
      BY <3>1, <3>2
  <2>6. View(node, op.tree) = h[n].at
    BY <2>5, WayIs DEF Way
  <2> DEFINE end == h[n].at
             start == h[0].at
  <2>7. /\ \A t \in 1 .. Trees : t < op.tree => View(node, t) = end
        /\ \A t \in 1 .. Trees : t > op.tree => View(node, t) = start
        /\ View(node, op.tree) = end
    BY <2>2, <2>6 DEF Follows
  <2>8. h[0] = Start(op.req, start)
    BY <2>3
  <2> HIDE DEF end, start
  <2>9. CASE op' = Idle
    <3>1. \A t \in 1 .. Trees : View(node', t) = end
      BY <1>2, <1>3, <1>4, <2>7, <2>9
    <3> QED
      BY <2>9, <3>1 DEF AlikeIn, SameViews
  <2>10. CASE op' # Idle
    <3> DEFINE next == op.tree + 1
    <3>1. next \in 1 .. Trees /\ next > op.tree /\ next # 1
      BY <1>3, <1>4, <2>10
    <3>2. /\ op' = NewWalk(op.req, next, op.infos) /\ op'.req = op.req /\ op'.tree = next
      BY <1>4, <2>10
    <3>3. \A t \in 1 .. Trees : /\ t < next => View(node', t) = end
                                /\ t > next => View(node', t) = start
      <4>1. ASSUME NEW t \in 1 .. Trees, t < next
            PROVE  View(node', t) = end
        <5>1. t < op.tree \/ t = op.tree
          BY <1>3, <4>1
        <5> QED
          BY <1>2, <2>7, <4>1, <5>1
      <4>2. ASSUME NEW t \in 1 .. Trees, t > next
            PROVE  View(node', t) = start
        <5>1. t > op.tree
          BY <1>3, <4>2
        <5> QED
          BY <1>2, <2>7, <4>2, <5>1
      <4> QED
        BY <4>1, <4>2
    <3>4. next \in op.req.first .. op.req.last
      BY <1>3, <3>1
    <3>5. View(node', next) = start
      BY <1>2, <2>7, <3>1
    <3> HIDE DEF next
    <3>6. Way(node', op') = Start(op.req, View(node', next))
      BY <1>3, <3>2, <3>4, NewWay
    <3>7. h[0] = Way(node', op') /\ 0 \in 0 .. n
      BY <2>3, <2>8, <3>5, <3>6
    <3>8. op'.infos = op.infos
      BY <1>3, <3>2, <3>4, NewWalkStarts
    <3>9. Ends(h[n])
      BY <2>4, <2>5
    <3>10. Follows(node', op', h, n)
      BY <2>3, <3>1, <3>2, <3>3, <3>7, <3>8, <3>9 DEF Follows, end, start
    <3> QED
      BY <1>6, <2>1, <2>10, <3>2, <3>8, <3>10 DEF AlikeIn
  <2> QED
    BY <2>9, <2>10
<1> QED
  BY <1>5, <1>6

(* A step of a walk or of a free keeps the trees alike. *)
LEMMA GoesOnAlike ==
    ASSUME Shape, op # Idle, op.req.kind # "read", AlikeIn(node, op), GoesOn, op' # Idle
    PROVE  AlikeIn(node', op')
BY FirstTreeAlike, LaterTreeAlike

(* What was told of a write so far. *)
LEMMA WriteRecorded ==
    ASSUME AlikeIn(node, op), op # Idle, op.req.kind # "read"
    PROVE  Recorded
BY DEF AlikeIn, Follows, Recorded

(* A turn of a walk keeps the trees alike: it tells the story, or repeats it. *)
LEMMA WalkAlike ==
    ASSUME Shape, MemoryKept, BlocksAligned, Devices, AlikeIn(node, op), UNCHANGED user, Walk
    PROVE  AlikeIn(node', op')
<1>1. op.level \in {"Pdp", "Pde", "Pte"}
  BY DEF Walk, WalkPdp, WalkPdeToPte, WalkExisting2MB, Walk2MBLeaf, WalkPte, WalkPtePs64, Walking
<1>2. op # Idle /\ op.req.kind # "free" /\ user \in DOMAIN Users /\ op.req \in Requests /\ ~Maps
  BY <1>1, AtLevel DEF Devices, WalkState
<1>3. Unmapped(op) /\ Kept(memory, node) /\ AlignedBlocks(memory)
  BY <1>2 DEF MemoryKept, BlocksAligned, Unmapped
<1>4. op' # Idle /\ op'.req = op.req
  BY WalkGoesOn
<1>5. op.req.kind \in {"write", "read"}
  BY <1>2, KindIs
<1>6. CASE op.req.kind = "write"
  <2>1. Recorded
    BY <1>2, <1>6, WriteRecorded
  <2>2. Writes
    BY <1>3, <1>6, <2>1 DEF Writes
  <2>3. GoesOn
    BY <2>2, WriteGoesOn
  <2> QED
    BY <1>2, <1>4, <1>6, <2>3, GoesOnAlike
<1>7. CASE op.req.kind = "read"
  <2>1. AllStay
    BY <1>2, <1>3, <1>7, ReadStays
  <2>2. SameViews(node')
    BY <1>7, <2>1 DEF AlikeIn, SameViews, AllStay
  <2> QED
    BY <1>4, <1>7, <2>2 DEF AlikeIn
<1> QED
  BY <1>5, <1>6, <1>7

(* And so does a turn of freeMemory. *)
LEMMA FreeAlike ==
    ASSUME Shape, MemoryKept, Devices, AlikeIn(node, op), UNCHANGED user, Free2MB \/ FreePage
    PROVE  AlikeIn(node', op')
<1>1. op.level = "Free"
  BY DEF Free2MB, FreePage, Walking
<1>2. op # Idle /\ op.req.kind = "free"
  BY <1>1, AtLevel
<1>3. Kept(memory, node)
  BY DEF MemoryKept, Devices
<1>4. op' # Idle
  BY FreeGoesOn
<1>5. GoesOn
  BY <1>3, FreeGoes
<1> QED
  BY <1>2, <1>4, <1>5, GoesOnAlike

(* Every step keeps the trees alike. *)
LEMMA NextAlike ==
    ASSUME Shape, MemoryKept, BlocksAligned, Alike, [Next]_vars
    PROVE  Alike'
<1>1. UNCHANGED user
  BY DEF Next, vars
<1>2. Devices' => Devices
  BY <1>1, SameUser DEF Devices
<1>3. SUFFICES ASSUME Devices
               PROVE  AlikeIn(node', op')
  BY <1>1, <1>2, AlikePrime DEF Alike
<1>4. AlikeIn(node, op)
  BY <1>3 DEF Alike
<1>5. CASE Walk
  BY <1>1, <1>3, <1>4, <1>5, WalkAlike
<1>6. CASE Free2MB \/ FreePage
  BY <1>1, <1>3, <1>4, <1>6, FreeAlike
<1>7. CASE Commit \/ EndRead \/ FreeReturn \/ FreeCommit
  BY <1>3, <1>4, <1>7, NextTreeAlike
<1>8. CASE \E r \in Requests : Begin(r)
  BY <1>3, <1>4, <1>8, BeginAlike
<1>9. CASE Finished \/ \E onoff \in BOOLEAN : Pause(onoff) \/ BlockMemWritesViaTbx(onoff)
  <2>1. node' = node /\ op' = op
    BY <1>9 DEF Finished, Pause, BlockMemWritesViaTbx
  <2> QED
    BY <1>4, <2>1
<1>10. CASE UNCHANGED vars
  <2>1. node' = node /\ op' = op
    BY <1>10 DEF vars
  <2> QED
    BY <1>4, <2>1
<1> QED
  BY <1>5, <1>6, <1>7, <1>8, <1>9, <1>10 DEF Next, Work, Free

(* At first all trees are empty. *)
LEMMA InitAlike ==
    ASSUME Init
    PROVE  Alike
<1>1. op = Idle /\ \A k \in Slots : node[k] = NoNode
  BY DEF Init
<1>2. ASSUME NEW t \in 1 .. Trees, NEW u \in 1 .. Trees
      PROVE  View(node, t) = View(node, u)
  <2>1. ASSUME NEW p \in Places
        PROVE  Seen(SlotOf(t, p), node[SlotOf(t, p)]) = Seen(SlotOf(u, p), node[SlotOf(u, p)])
    <3>1. node[SlotOf(t, p)] = NoNode /\ node[SlotOf(u, p)] = NoNode
      BY <1>1, <2>1, PlacesAreSlots
    <3>2. \A k : Seen(k, NoNode) = Nothing
      BY NoNodeIs DEF Seen, Nothing
    <3> QED
      BY <3>1, <3>2
  <2> QED
    BY <2>1 DEF View
<1>3. SameViews(node)
  BY <1>2 DEF SameViews
<1> QED
  BY <1>1, <1>3 DEF Alike, AlikeIn

(* In every state the trees are alike, up to the request that is carried out. *)
LEMMA AlikeAlways == Spec => []Alike
<1>1. Init => Alike
  BY InitAlike
<1>2. Shape /\ MemoryKept /\ BlocksAligned /\ Alike /\ [Next]_vars => Alike'
  BY NextAlike
<1> QED
  BY <1>1, <1>2, ShapeAlways, MemoryKeptAlways, AlignedAlways, PTL DEF Spec

(* Trees that look alike translate alike. *)
LEMMA TranslatesAlike ==
    ASSUME user \in DOMAIN Users, Tree(node), NEW t \in 1 .. Trees, NEW u \in 1 .. Trees,
           View(node, t) = View(node, u), NEW va \in Pages
    PROVE  Translation(t, va) = Translation(u, va)
<1> DEFINE at == View(node, t)
           pte == at[PtePlace(va)]
           place == IF pte.size = PteSpan THEN PtePlace(va)
                    ELSE PagePlace(va, MaxOf(pte.size, 1))
           seen == at[place]
<1>1. ASSUME NEW v \in {t, u}
      PROVE  LET l == LeafSlot(v, va)
             IN  /\ node[l].present = seen.present
                 /\ node[l].present => node[l].pa = seen.pa /\ node[l].size = seen.size
  <2> DEFINE k == PteAt(v, va)
             s == MaxOf(node[k].size, 1)
             l == LeafSlot(v, va)
  <2>1. v \in 1 .. Trees /\ View(node, v) = at
    BY <1>1
  <2>2. k \in Slots /\ k[1] = v /\ k[2] = "Pde" /\ PlaceOf(k) = PtePlace(va)
        /\ at[PtePlace(va)] = Seen(k, node[k])
    BY <2>1, SlotsOfPage, PlacesOfPage
  <2>3. pte.size = node[k].size
    BY <2>2 DEF Seen
  <2>4. node[k].size \in {0, 1, Group, PteSpan}
    BY <2>2 DEF Tree, Placed
  <2>5. s \in Nat \ {0}
    BY <2>4, UserFacts DEF MaxOf
  <2>6. /\ PageAt(v, va, s) \in Slots /\ PageAt(v, va, s)[1] = v /\ PageAt(v, va, s)[2] = "Pte"
        /\ PlaceOf(PageAt(v, va, s)) = PagePlace(va, s)
    BY <2>1, <2>5, SlotsOfPage, PlacesOfPage
  <2>7. l = IF node[k].size = PteSpan THEN k ELSE PageAt(v, va, s)
    BY <2>2 DEF LeafSlot, Is2MB
  <2>8. l \in Slots /\ l[1] = v /\ PlaceOf(l) = place /\ IsLeaf(l, node[l])
    BY <2>2, <2>3, <2>6, <2>7 DEF IsLeaf, Is2MB
  <2> HIDE DEF at, l, place, s, k
  <2>9. View(node, v)[PlaceOf(l)] = Seen(l, node[l])
    BY <2>8, ViewIs
  <2>10. seen = Seen(l, node[l])
    BY <2>1, <2>8, <2>9
  <2>11. node[l].present = seen.present /\ (node[l].present => node[l].pa = seen.pa /\ node[l].size = seen.size)
    BY <2>8, <2>10 DEF Seen
  <2> QED
    BY <2>11 DEF l
<1> HIDE DEF seen
<1>2. \A v \in {t, u} : Translation(v, va) = IF seen.present THEN seen.pa + (va % seen.size) ELSE NoPa
  BY <1>1 DEF Translation, Mapped
<1> QED
  BY <1>2

(* The manager's calls keep the ppgtts of all devices alike.  Every device's
   walk goes the way of the first one's, page by page: writeMemory records
   where the first one put each page, cloneMemory puts it there too, and what
   freeMemory does is seen in the tree it is at. *)
THEOREM DevicesTranslateAlike == Spec => [](~Maps => TreesAgree)
<1>1. Shape /\ MemoryKept /\ Alike => (~Maps => TreesAgree)
  <2> SUFFICES ASSUME Shape, MemoryKept, Alike, ~Maps, op = Idle,
                      \A r \in Requests : r.first = 1 /\ r.last = Trees,
                      NEW t \in 1 .. Trees, NEW u \in 1 .. Trees, NEW va \in 0 .. VaPages - 1
               PROVE  Translation(t, va) = Translation(u, va)
    BY DEF TreesAgree
  <2>1. user \in DOMAIN Users /\ Tree(node) /\ va \in Pages
    BY DEF Shape, MemoryKept, Kept, Pages
  <2>2. CASE Trees > 1
    <3>1. Devices
      BY <2>2 DEF Devices
    <3>2. View(node, t) = View(node, u)
      BY <3>1 DEF Alike, AlikeIn, SameViews
    <3> QED
      BY <2>1, <3>2, TranslatesAlike
  <2>3. CASE ~(Trees > 1)
    <3>1. t = u
      BY <2>1, <2>3, UserFacts
    <3> QED
      BY <3>1
  <2> QED
    BY <2>2, <2>3
<1> QED
  BY <1>1, ShapeAlways, MemoryKeptAlways, AlikeAlways, PTL
=============================================================================
