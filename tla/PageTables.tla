----------------------------- MODULE PageTables -----------------------------
(***************************************************************************)
(* The per-process page tables and what the streams are told of them:       *)
(*                                                                          *)
(*   page_table.h, page_table.cpp     the nodes and their physical memory   *)
(*   page_table_walker.cpp            PageTableWalker::walkMemory (PPGTT)   *)
(*   aub_stream.cpp                   writeMemory, cloneMemory, mapGpuVa,   *)
(*                                    readMemory, freeMemory and the write  *)
(*                                    of the collected entries              *)
(*   aub_tbx_stream.h, aub_shm_stream.h   one stream feeding two sinks, of  *)
(*                                    which either may be muted             *)
(*   aub_manager_imp.cpp              the same request on every ppgtt       *)
(*                                                                          *)
(* Addresses are counted in 4KB pages.  The levels above the PDP repeat     *)
(* what the PDP does, so a tree starts at a PDP that always exists:         *)
(* PDP -> PDE -> { 2MB page | PTE -> page }, with every fan-out a constant. *)
(*                                                                          *)
(* The code runs a request as a loop over the pages of a range, descending  *)
(* one level at a time; so does the model, one action per level.  Requests  *)
(* on the page tables do not overlap: no lock guards a ppgtt, the callers   *)
(* serialise them.                                                          *)
(***************************************************************************)
EXTENDS SimpleAllocator, Sequences, FiniteSets, TLC

CONSTANTS
    PdpSlots,       \* entries of a PDP (512)
    Trees,          \* number of ppgtts, one per device
    RootPa,         \* physical page of the PDP of each tree
    TableBank,      \* bank of the page tables, 0 for system memory
    InitialMemory,  \* the allocators once the roots and the user's blocks exist
    Users           \* what users do and on which product, by their names; a record of
                    \*   requests  what the user asks for
                    \*   pause     the stream feeds two sinks, and the user pauses the file
                    \*   block     and blocks the other one
                    \*   careful   frees and reads only ranges mapped from end to end
                    \*   bound     requests and switches in a behaviour
                    \*   group     4KB pages of a 64KB page (16)
                    \*   pteSpan   4KB pages of a 2MB page: what one PTE covers (512)
                    \*   pdeSlots  entries of a PDE (512)
                    \*   large     gpu.isMemorySupported(banks, 2MB)
                    \*   ps64      EnablePs64 and five levels

NoPa == -1

(* What a user may ask for: some pages of the address space, in sizes there are.
   A mask of banks names local ones only; system memory is the empty mask. *)
RequestsOf(U) ==
    {r \in [kind : {"write", "map", "read", "free"}, va : Nat, size : Nat \ {0},
            pageSize : {1, U.group, U.pteSpan}, banks : SUBSET (DOMAIN InitialMemory \ {0}),
            pa : Nat \cup {NoPa}, flags : Nat, first : 1 .. Trees, last : 1 .. Trees] :
        /\ r.va + r.size <= PdpSlots * U.pdeSlots * U.pteSpan
        /\ r.kind = "map" <=> r.pa # NoPa
        /\ r.first <= r.last}

ASSUME PageTablesAssumption ==
    /\ MinAlignment = 1
    /\ PdpSlots \in Nat \ {0} /\ Trees \in Nat \ {0}
    /\ {0, TableBank} \subseteq DOMAIN InitialMemory
    /\ DOMAIN InitialMemory \subseteq Nat /\ IsFiniteSet(DOMAIN InitialMemory)
    /\ \A b \in DOMAIN InitialMemory :
         /\ InitialMemory[b] \in AllocatorState
         /\ BlocksDisjoint(InitialMemory[b]) /\ BlocksBelowNext(InitialMemory[b], 0)
         /\ \A f \in InitialMemory[b].free : f.addr % f.size = 0
    /\ RootPa \in [1 .. Trees -> Nat]
    /\ \A t \in 1 .. Trees :
         /\ [addr |-> RootPa[t], size |-> 1] \in InitialMemory[TableBank].used
         /\ \A u \in 1 .. Trees \ {t} : RootPa[t] # RootPa[u]
    /\ \A u \in DOMAIN Users : LET U == Users[u] IN
         /\ {U.pause, U.block, U.careful, U.large, U.ps64} \subseteq BOOLEAN
         /\ U.group \in Nat \ {0, 1} /\ U.pdeSlots \in Nat \ {0}
         /\ U.pteSpan \in Nat /\ U.group < U.pteSpan /\ U.pteSpan % U.group = 0
         /\ U.bound \in Nat
         /\ \A r \in U.requests : r \in RequestsOf(U)

VARIABLES
    node,        \* the PageTable object in each slot of each table
    memory,      \* the physical allocators, one per bank
    sink,        \* the non-zero page table entries each sink was given
    reserved64,  \* 64KB regions reserved in the AUB file
    paused,      \* isAubFileStreamPaused
    blocked,     \* isTbxStreamBlockedForMemWrites
    op,          \* the request being carried out and the walker's locals
    requests,    \* requests made so far
    user         \* the user of this behaviour

vars == <<node, memory, sink, reserved64, paused, blocked, op, requests, user>>

Group == Users[user].group
PteSpan == Users[user].pteSpan
PdeSlots == Users[user].pdeSlots
Supports2MB == Users[user].large
Ps64 == Users[user].ps64

-----------------------------------------------------------------------------
(* Slots: <<tree, level, i>>, where i is the PDE, the PTE or the first page of
   the slot, counted from address zero.  The level is the parent's. *)
VaPages == PdpSlots * PdeSlots * PteSpan

AlignDown(x, a) == x - (x % a)

MinOf(x, y) == IF x < y THEN x ELSE y

Slots == {<<t, "Pdp", i>> : t \in 1 .. Trees, i \in 0 .. PdpSlots - 1}
    \cup {<<t, "Pde", i>> : t \in 1 .. Trees, i \in 0 .. PdpSlots * PdeSlots - 1}
    \cup {<<t, "Pte", i>> : t \in 1 .. Trees, i \in 0 .. VaPages - 1}

PdeAt(t, va) == <<t, "Pdp", va \div (PdeSlots * PteSpan)>>
PteAt(t, va) == <<t, "Pde", va \div PteSpan>>
PageAt(t, va, pageSize) == <<t, "Pte", AlignDown(va, pageSize)>>

(***************************************************************************)
(* A PageTable object.  size is what getPageSize() of a PTE or a 2MB page   *)
(* returns, and the page's own size for a page; owned tells whether the     *)
(* destructor has an allocator to give the memory back to.                  *)
(***************************************************************************)
Node(pa, bank, owned, size, flags) ==
    [present |-> TRUE, pa |-> pa, bank |-> bank, owned |-> owned, size |-> size,
     flags |-> flags, ps64 |-> FALSE, pending |-> TRUE]

NoNode == [present |-> FALSE, pa |-> 0, bank |-> 0, owned |-> FALSE, size |-> 0,
           flags |-> 0, ps64 |-> FALSE, pending |-> FALSE]

Is2MB(k, n) == k[2] = "Pde" /\ n.size = PteSpan

IsLeaf(k, n) == k[2] = "Pte" \/ Is2MB(k, n)

(***************************************************************************)
(* getEntryValue: tables carry their address and page size, leaves also the *)
(* local-memory bit, PS64 and the bits of the allocation's parameters.      *)
(***************************************************************************)
EntryValue(k, n) ==
    [present |-> TRUE, pa |-> n.pa,
     size |-> IF k[2] = "Pte" THEN 0 ELSE n.size,
     local |-> IsLeaf(k, n) /\ n.bank # 0,
     ps64 |-> n.ps64,
     flags |-> IF IsLeaf(k, n) THEN n.flags ELSE 0]

Zero == [present |-> FALSE, pa |-> 0, size |-> 0, local |-> FALSE, ps64 |-> FALSE,
         flags |-> 0]

(* Where the entry of a slot lies: physical page of the parent, getIndex. *)
EntryAddress(k) ==
    LET t == k[1]
        i == k[3]
    IN  CASE k[2] = "Pdp" -> <<RootPa[t], i>>
          [] k[2] = "Pde" -> <<node[<<t, "Pdp", i \div PdeSlots>>].pa, i % PdeSlots>>
          [] k[2] = "Pte" -> LET pte == node[PteAt(t, i)]
                             IN  <<pte.pa, (i % PteSpan) \div pte.size>>

(* Entries collected or stored later replace earlier ones at the same address. *)
Overlay(f, g) ==
    [a \in DOMAIN f \cup DOMAIN g |-> IF a \in DOMAIN g THEN g[a] ELSE f[a]]

Store(content, writes) ==
    LET new == Overlay(content, writes)
    IN  [a \in {x \in DOMAIN new : new[x].present} |-> new[a]]

Stored(s, address) ==
    IF address \in DOMAIN sink[s] THEN sink[s][address] ELSE Zero

-----------------------------------------------------------------------------
(* Requests and the walker's locals. *)

(***************************************************************************)
(* kind "write" (writeMemory and, on the trees after the first, Clone),     *)
(* "map" (mapGpuVa), "read" (readMemory, expectMemory) or "free"; pa is the *)
(* first physical page of a map.  The manager's calls run over every tree,  *)
(* first = 1 and last = Trees; a context's calls over its own.              *)
(***************************************************************************)
Idle == [level |-> "Idle"]

NewWalk(r, tree, infos) ==
    [req |-> r, tree |-> tree, va |-> r.va, left |-> r.size, pa |-> r.pa,
     level |-> IF r.kind = "free" THEN "Free" ELSE "Pdp",
     infos |-> infos, pageNumber |-> 1, pendingNodes |-> {}, writes |-> << >>,
     pages64KB |-> {}]

(* The request on the next tree, or the end of it. *)
NextTree(o) ==
    IF o.tree < o.req.last
    THEN NewWalk(o.req, o.tree + 1, o.infos)
    ELSE Idle

Mode(o) ==
    CASE o.req.kind = "read" -> "Expect"
      [] o.req.kind = "write" /\ o.tree > o.req.first -> "Clone"
      [] OTHER -> "Reserve"

HasPa(o) == o.pa # NoPa

(* adjustPageSizeForHardwareSupport *)
RequestedPageSize(o) ==
    IF o.req.pageSize = PteSpan /\ ~Supports2MB THEN Group ELSE o.req.pageSize

(***************************************************************************)
(* MemoryBankHelper: the banks of the mask share the pages of the range in  *)
(* equal runs, in ascending order.  No bank at all is system memory, 0.     *)
(***************************************************************************)
BankNumber(banks, i) == CHOOSE b \in banks : Cardinality({c \in banks : c < b}) = i

PageMemoryBank(o) ==
    LET banks == o.req.banks
        n == Cardinality(banks)
        p == RequestedPageSize(o)
        alignedStart == AlignDown(o.req.va, p)
        alignedEnd == AlignUp(o.req.va + o.req.size, p)
    IN  IF n = 0 THEN 0
        ELSE IF HasPa(o) \/ n = 1 THEN BankNumber(banks, 0)
        ELSE BankNumber(banks,
                (((o.va - alignedStart) * n) \div (alignedEnd - alignedStart)) % n)

(* An entry pushed to pageWalkEntries; the node joins pendingNodes if it waits. *)
Emit(o, k, n) ==
    [o EXCEPT !.writes = Overlay(@, [a \in {EntryAddress(k)} |-> EntryValue(k, n)]),
              !.pendingNodes = IF n.pending THEN @ \cup {k} ELSE @]

(* mutant: only new nodes are sent, not those that wait *)
EmitIfNew(o, k, n) == IF HasPa(o) \/ ~node[k].present THEN Emit(o, k, n) ELSE o

(* Without PS64: every entry of a map, otherwise each waiting node once per walk. *)
EmitIfNeeded(o, k, n) ==
    IF HasPa(o) \/ (n.pending /\ k \notin o.pendingNodes) THEN Emit(o, k, n) ELSE o

(* mutant: the PageInfo of a page met twice in a row is recorded once *)
AdvanceMergingInfos(o, pageSize, childPa) ==
    LET offset == o.va % pageSize
        n == MinOf(o.left, pageSize - offset)
    IN  [o EXCEPT
            !.va = @ + n,
            !.left = @ - n,
            !.pa = IF HasPa(o) THEN @ + n ELSE NoPa,
            !.pageNumber = @ + 1,
            !.infos = IF Mode(o) = "Clone" \/ o.req.last = o.req.first \/ Len(@) = 1 THEN @
                      ELSE Append(@, [pa |-> childPa + offset, bank |-> PageMemoryBank(o)]),
            !.level = IF o.left = n THEN "Commit" ELSE "Pdp"]

(* Where a map goes on: behind a 2MB page, or n pages further. *)
NextPa(o, pageSize, n) ==
    IF ~HasPa(o) THEN NoPa
    ELSE IF pageSize = PteSpan THEN AlignDown(o.pa, PteSpan) + PteSpan
    ELSE o.pa + n

(***************************************************************************)
(* The end of one turn of the loop: what is left of the range after a page  *)
(* of the given size, and the PageInfo kept for cloning.                    *)
(***************************************************************************)
Advance(o, pageSize, childPa) ==
    LET offset == o.va % pageSize
        n == MinOf(o.left, pageSize - offset)
    IN  [o EXCEPT
            !.va = @ + n,
            !.left = @ - n,
            !.pa = NextPa(o, pageSize, n),
            !.pageNumber = @ + 1,
            !.infos = IF Mode(o) = "Clone" \/ o.req.last = o.req.first THEN @
                      ELSE Append(@, [pa |-> childPa + offset, bank |-> PageMemoryBank(o)]),
            !.level = IF o.left = n THEN "Commit" ELSE "Pdp"]

(* The break of a release build where the debug build asserts. *)
GiveUp(o) == [o EXCEPT !.level = "Commit"]

-----------------------------------------------------------------------------
(* Creating nodes. *)

Reserve(bank, size) == AllocatedBlock(memory[bank], size, size).addr

MemoryAfterReserve(bank, size) ==
    [memory EXCEPT ![bank] = AlignedAlloc(@, size, size)]

DeleteKeepingMemory(mem, n) == mem  \* mutant

(* ~PageTable: what the allocators are after a node is deleted. *)
Delete(mem, n) ==
    IF n.owned THEN [mem EXCEPT ![n.bank] = AlignedFree(@, n.pa)] ELSE mem

(* A PDE or a PTE: memory of its own in the bank of its parent. *)
NewTable(pageSize) == Node(Reserve(TableBank, 1), TableBank, TRUE, pageSize, 0)

(* mutant: the trees after the first get memory of their own *)
NewLeafOfItsOwn(o, size) ==
    LET bank == PageMemoryBank(o)
    IN  IF HasPa(o) THEN Node(o.pa, bank, FALSE, size, o.req.flags)
        ELSE Node(Reserve(bank, size), bank, TRUE, size, o.req.flags)

(***************************************************************************)
(* A page or a 2MB page: at the address of the cloned page, at the reserved *)
(* address of a map, or in memory of its own.                               *)
(***************************************************************************)
NewLeaf(o, size) ==
    LET info == o.infos[o.pageNumber]
        bank == PageMemoryBank(o)
    IN  CASE Mode(o) = "Clone" -> Node(AlignDown(info.pa, size), info.bank, FALSE, size, o.req.flags)
          [] Mode(o) # "Clone" /\ HasPa(o) -> Node(o.pa, bank, FALSE, size, o.req.flags)
          [] OTHER -> Node(Reserve(bank, size), bank, TRUE, size, o.req.flags)

MemoryAfterLeaf(o, size) ==
    IF Mode(o) = "Clone" \/ HasPa(o) THEN memory
    ELSE MemoryAfterReserve(PageMemoryBank(o), size)

(* A map overrides the address and the bank of a page that is there already. *)
Remap(o, n) ==
    IF HasPa(o) /\ (n.pa # o.pa \/ n.bank # PageMemoryBank(o))
    THEN [n EXCEPT !.pa = o.pa, !.bank = PageMemoryBank(o), !.pending = TRUE]
    ELSE n

(* The leaf in slot k once this turn created or remapped it. *)
LeafAfter(o, k, size) ==
    IF node[k].present THEN Remap(o, node[k]) ELSE NewLeaf(o, size)


-----------------------------------------------------------------------------
(* PageTableWalker::walkMemory, one action per level and case. *)

Walking(level) == op.level = level

StreamsUnchanged == UNCHANGED <<sink, reserved64, paused, blocked, requests>>

(* Expect mode meets a missing node: the loop ends with what it has. *)
WalkMissing(k) ==
    /\ ~node[k].present
    /\ Mode(op) = "Expect"
    /\ op' = GiveUp(op)
    /\ UNCHANGED <<node, memory>>
    /\ StreamsUnchanged

(* A table is visited on the way down and created if it is not there. *)
VisitTable(k, pageSize, nextLevel) ==
    LET n == IF node[k].present THEN node[k] ELSE NewTable(pageSize)
    IN  /\ node[k].present \/ Mode(op) # "Expect"
        /\ node' = [node EXCEPT ![k] = n]
        /\ memory' = IF node[k].present THEN memory ELSE MemoryAfterReserve(TableBank, 1)
        /\ op' = [EmitIfNeeded(op, k, n) EXCEPT !.level = nextLevel]
        /\ StreamsUnchanged

WalkPdp ==
    /\ Walking("Pdp")
    /\ LET k == PdeAt(op.tree, op.va)
       IN  WalkMissing(k) \/ VisitTable(k, 0, "Pde")

(***************************************************************************)
(* A PTE is on the way: one is there already, whatever page size was asked  *)
(* for (hasExistingPageTableConflict), or a small page is asked for.        *)
(***************************************************************************)
WalkPdeToPte ==
    /\ Walking("Pde")
    /\ LET k == PteAt(op.tree, op.va)
       IN  \/ RequestedPageSize(op) # PteSpan /\ WalkMissing(k)
           \/ /\ IF node[k].present THEN ~Is2MB(k, node[k])
                 ELSE RequestedPageSize(op) # PteSpan
              /\ VisitTable(k, RequestedPageSize(op), "Pte")

(* A 2MB page is there already and this is no map: the descent breaks off. *)
WalkExisting2MB ==
    /\ Walking("Pde")
    /\ ~HasPa(op)
    /\ LET k == PteAt(op.tree, op.va)
       IN  /\ node[k].present /\ Is2MB(k, node[k])
           /\ op' = Advance(op, PteSpan, node[k].pa)
    /\ UNCHANGED <<node, memory>>
    /\ StreamsUnchanged

(* The address of a map that reaches a 2MB page is rounded up to 2MB. *)
RoundedUp(o) ==
    IF HasPa(o) /\ o.pa % PteSpan # 0
    THEN [o EXCEPT !.pa = AlignDown(@, PteSpan) + PteSpan]
    ELSE o

(* A 2MB page is created, or remapped by a map of any page size. *)
Walk2MBLeaf ==
    /\ Walking("Pde")
    /\ LET k == PteAt(op.tree, op.va)
           o == RoundedUp(op)
           n == LeafAfter(o, k, PteSpan)
       IN  \/ RequestedPageSize(op) = PteSpan /\ WalkMissing(k)
           \/ /\ IF node[k].present THEN Is2MB(k, node[k]) /\ HasPa(op)
                 ELSE RequestedPageSize(op) = PteSpan /\ Mode(op) # "Expect"
              /\ node' = [node EXCEPT ![k] = n]
              /\ memory' = IF node[k].present THEN memory ELSE MemoryAfterLeaf(o, PteSpan)
              /\ op' = Advance(EmitIfNeeded(o, k, n), PteSpan, n.pa)
              /\ StreamsUnchanged

(* The page size at the lowest level is the one of the PTE that is there. *)
Pte(o) == node[PteAt(o.tree, o.va)]

PageSlot(o) == PageAt(o.tree, o.va, Pte(o).size)

(* mutant: by the page size that was asked for *)
Note64KBAsked(o, k, n) ==
    IF ~node[k].present /\ Mode(o) = "Reserve" /\ o.req.banks = {} /\ o.req.pageSize = Group
    THEN [o EXCEPT !.pages64KB = @ \cup {n.pa}]
    ELSE o

(* New 64KB pages of system memory are to be reserved in the stream. *)
Note64KB(o, k, n) ==
    IF ~node[k].present /\ Mode(o) = "Reserve" /\ o.req.banks = {} /\ Pte(o).size = Group
    THEN [o EXCEPT !.pages64KB = @ \cup {n.pa}]
    ELSE o

CheckPs64(o) == Ps64 /\ RequestedPageSize(o) = 1 /\ Pte(o).size = 1

WalkPte ==
    /\ Walking("Pte")
    /\ LET k == PageSlot(op)
           n == LeafAfter(op, k, Pte(op).size)
       IN  \/ WalkMissing(k)
           \/ /\ node[k].present \/ Mode(op) # "Expect"
              /\ ~CheckPs64(op)
              /\ node' = [node EXCEPT ![k] = n]
              /\ memory' = IF node[k].present THEN memory ELSE MemoryAfterLeaf(op, Pte(op).size)
              /\ op' = Advance(EmitIfNeeded(Note64KB(op, k, n), k, n), Pte(op).size, n.pa)
              /\ StreamsUnchanged

-----------------------------------------------------------------------------
(* The same page with PS64: a naturally aligned group of 4KB pages that the
   hardware may treat as one 64KB page. *)

GroupSlots(t, va) == {<<t, "Pte", AlignDown(va, Group) + i>> : i \in 0 .. Group - 1}

Ps64Flags(n) == <<n.bank # 0, n.flags>>

(* isPs64GroupComplete *)
GroupComplete(nodes, t, va) ==
    LET base == AlignDown(va, Group)
        c0 == nodes[<<t, "Pte", base>>]
    IN  /\ c0.present
        /\ c0.pa % Group = 0
        /\ \A i \in 1 .. Group - 1 :
              LET ci == nodes[<<t, "Pte", base + i>>]
              IN  ci.present /\ ci.pa = c0.pa + i /\ Ps64Flags(ci) = Ps64Flags(c0)

(* The entries of several slots of one PTE, pushed one after the other. *)
Entries(ks, nodes) ==
    LET slotOf(a) == CHOOSE k \in ks : EntryAddress(k) = a
    IN  [a \in {EntryAddress(k) : k \in ks} |-> EntryValue(slotOf(a), nodes[slotOf(a)])]

EmitAll(o, ks, nodes) ==
    [o EXCEPT !.writes = Overlay(@, Entries(ks, nodes)),
              !.pendingNodes = @ \cup {k \in ks : nodes[k].pending}]

(* The group is complete: every slot becomes PS64 and is sent if that is news. *)
CompleteGroup(o, group, nodes) ==
    LET new == [k \in Slots |->
                  IF k \in group /\ ~nodes[k].ps64
                  THEN [nodes[k] EXCEPT !.ps64 = TRUE, !.pending = TRUE]
                  ELSE nodes[k]]
        news == {k \in group : ~nodes[k].ps64 \/ (new[k].pending /\ k \notin o.pendingNodes)}
    IN  [nodes |-> new, op |-> EmitAll(o, news, new)]

(* mutant: only the page that was remapped loses the bit *)
BreakGroupPageOnly(o, group, nodes) ==
    LET page == <<o.tree, "Pte", o.va>>
        new == [nodes EXCEPT ![page].ps64 = FALSE, ![page].pending = TRUE]
    IN  [nodes |-> new, op |-> EmitAll(o, {page}, new)]

(* The group was PS64 and is broken now: no slot keeps the bit. *)
BreakGroup(o, group, nodes) ==
    LET new == [k \in Slots |->
                  IF k \in group
                  THEN [nodes[k] EXCEPT !.ps64 = FALSE, !.pending = TRUE]
                  ELSE nodes[k]]
    IN  [nodes |-> new, op |-> EmitAll(o, group, new)]

(***************************************************************************)
(* willComplete: the rest of the range reaches the end of the group, so the *)
(* page gets PS64 before the group has all its pages.                       *)
(***************************************************************************)
WillComplete(o, n) ==
    LET k == o.va % Group
        expectedBase == n.pa - k
        c0 == node[<<o.tree, "Pte", AlignDown(o.va, Group)>>]
    IN  /\ expectedBase % Group = 0
        /\ o.left >= Group - k
        /\ \/ k = 0
           \/ c0.present /\ c0.pa = expectedBase /\ Ps64Flags(c0) = Ps64Flags(n)

PartialGroup(o, k, nodes) ==
    LET n == IF WillComplete(o, nodes[k])
             THEN [nodes[k] EXCEPT !.ps64 = TRUE, !.pending = TRUE]
             ELSE nodes[k]
    IN  [nodes |-> [nodes EXCEPT ![k] = n], op |-> Emit(o, k, n)]

Ps64Group(o, k, nodes) ==
    LET group == GroupSlots(o.tree, o.va)
        c0 == node[<<o.tree, "Pte", AlignDown(o.va, Group)>>]
        wasPs64Group == c0.present /\ c0.ps64 /\ GroupComplete(node, o.tree, o.va)
    IN  CASE GroupComplete(nodes, o.tree, o.va) -> CompleteGroup(o, group, nodes)
          [] ~GroupComplete(nodes, o.tree, o.va) /\ wasPs64Group -> BreakGroup(o, group, nodes)
          [] OTHER -> PartialGroup(o, k, nodes)

WalkPtePs64 ==
    /\ Walking("Pte")
    /\ LET k == PageSlot(op)
           n == LeafAfter(op, k, 1)
           r == Ps64Group(op, k, [node EXCEPT ![k] = n])
       IN  /\ node[k].present \/ Mode(op) # "Expect"
           /\ CheckPs64(op)
           /\ node' = r.nodes
           /\ memory' = IF node[k].present THEN memory ELSE MemoryAfterLeaf(op, 1)
           /\ op' = Advance(r.op, 1, n.pa)
           /\ StreamsUnchanged

-----------------------------------------------------------------------------
(* AubStream::writePages: what was collected goes to the sinks. *)

Sinks == {"aub", "tbx"}

Receives(s) == IF s = "aub" THEN ~paused ELSE ~blocked

AubFileCommitted == ~paused  \* mutant

(* arePageTableWritesFullyCommitted *)
FullyCommitted == ~paused /\ ~blocked

Send(writes) ==
    sink' = [s \in Sinks |-> IF Receives(s) THEN Store(sink[s], writes) ELSE sink[s]]

(* writePages and writePageWalkEntries at the end of a walk that is no read. *)
Commit ==
    /\ Walking("Commit")
    /\ Mode(op) # "Expect"
    /\ reserved64' = IF paused THEN reserved64 ELSE reserved64 \cup op.pages64KB
    /\ Send(op.writes)
    /\ node' = [k \in Slots |->
                  IF FullyCommitted /\ k \in op.pendingNodes
                  THEN [node[k] EXCEPT !.pending = FALSE]
                  ELSE node[k]]
    /\ op' = NextTree(op)
    /\ UNCHANGED <<memory, paused, blocked, requests>>

(* expectMemory and readMemory drop what the walker collected. *)
EndRead ==
    /\ Walking("Commit")
    /\ Mode(op) = "Expect"
    /\ op' = NextTree(op)
    /\ UNCHANGED <<node, memory>>
    /\ StreamsUnchanged

-----------------------------------------------------------------------------
(* AubStream::freeMemory, one action per turn of its loop. *)

(* mutant: the distance to the last page of the table, not to its end *)
AdvanceFreeShort(o, pageSize) ==
    LET n == MinOf(o.left, pageSize - 1 - (o.va % pageSize))
    IN  [o EXCEPT !.va = @ + n,
                  !.left = @ - n,
                  !.level = IF o.left = n THEN "FreeCommit" ELSE "Free"]

AdvanceFree(o, pageSize) ==
    LET n == MinOf(o.left, pageSize - (o.va % pageSize))
    IN  [o EXCEPT !.va = @ + n,
                  !.left = @ - n,
                  !.level = IF o.left = n THEN "FreeCommit" ELSE "Free"]

NoZeros(ks) == << >>  \* mutant

Zeros(ks) == [a \in {EntryAddress(k) : k \in ks} |-> Zero]

(* A table on the way is missing: the call returns, with all it collected. *)
FreeReturn ==
    /\ Walking("Free")
    /\ \/ ~node[PdeAt(op.tree, op.va)].present
       \/ ~node[PteAt(op.tree, op.va)].present
    /\ op' = NextTree(op)
    /\ UNCHANGED <<node, memory>>
    /\ StreamsUnchanged

(* A 2MB page goes, and its PDE with it if that was the last entry. *)
Free2MB ==
    /\ Walking("Free")
    /\ node[PdeAt(op.tree, op.va)].present
    /\ LET pde == PdeAt(op.tree, op.va)
           page == PteAt(op.tree, op.va)
           pdeEmpty == \A i \in 0 .. PdpSlots * PdeSlots - 1 :
                          LET k == <<op.tree, "Pde", i>>
                          IN  i \div PdeSlots = pde[3] /\ k # page => ~node[k].present
           gone == IF pdeEmpty THEN {page, pde} ELSE {page}
       IN  /\ node[page].present /\ Is2MB(page, node[page])
           /\ node' = [k \in Slots |-> IF k \in gone THEN NoNode ELSE node[k]]
           /\ memory' = LET m == Delete(memory, node[page])
                        IN  IF pdeEmpty THEN Delete(m, node[pde]) ELSE m
           /\ op' = AdvanceFree([op EXCEPT !.writes = Overlay(@, Zeros(gone))], PteSpan)
    /\ StreamsUnchanged

(***************************************************************************)
(* The slots of a broken PS64 group that stay mapped: before the start of   *)
(* the range at its first page, after its end at its last page.             *)
(***************************************************************************)
LosePs64(o, k) ==
    {g \in GroupSlots(o.tree, o.va) :
        /\ node[g].present
        /\ \/ g[3] < k[3] /\ o.va = o.req.va /\ o.req.va % Group # 0
           \/ g[3] > k[3] /\ o.left <= 1 /\ (o.req.va + o.req.size) % Group # 0}

(* A page goes if there is one, and its PTE with it if that was the last entry. *)
FreePage ==
    /\ Walking("Free")
    /\ node[PdeAt(op.tree, op.va)].present
    /\ LET pteSlot == PteAt(op.tree, op.va)
           pte == node[pteSlot]
           page == PageSlot(op)
           lose == IF node[page].ps64 THEN LosePs64(op, page) ELSE {}
           pteEmpty == \A i \in 0 .. VaPages - 1 :
                          LET k == <<op.tree, "Pte", i>>
                          IN  i \div PteSpan = pteSlot[3] /\ k # page => ~node[k].present
           gone == (IF node[page].present THEN {page} ELSE {})
                      \cup (IF pteEmpty THEN {pteSlot} ELSE {})
           new == [k \in Slots |-> IF k \in gone THEN NoNode
                                   ELSE IF k \in lose THEN [node[k] EXCEPT !.ps64 = FALSE]
                                   ELSE node[k]]
           o == [op EXCEPT !.writes = Overlay(Overlay(@, Zeros(gone)), Entries(lose, new))]
       IN  /\ pte.present /\ ~Is2MB(pteSlot, pte)
           /\ node' = new
           /\ memory' = LET m == Delete(memory, node[page])
                        IN  IF pteEmpty THEN Delete(m, pte) ELSE m
           /\ op' = AdvanceFree(o, pte.size)
    /\ StreamsUnchanged

(* The collected zeros and corrections go to the sinks. *)
FreeCommit ==
    /\ Walking("FreeCommit")
    /\ Send(op.writes)
    /\ op' = NextTree(op)
    /\ UNCHANGED <<node, memory, reserved64, paused, blocked, requests>>

-----------------------------------------------------------------------------
(* The leaf that translates a page: a 2MB page, a 64KB page or a 4KB page. *)
LeafSlot(t, va) ==
    IF Is2MB(PteAt(t, va), node[PteAt(t, va)])
    THEN PteAt(t, va)
    ELSE PageAt(t, va, MaxOf(node[PteAt(t, va)].size, 1))

Mapped(t, va) == node[LeafSlot(t, va)].present

CanPause == Users[user].pause
CanBlock == Users[user].block
Requests == Users[user].requests
CarefulUser == Users[user].careful
Maps == \E r \in Requests : r.kind = "map"
MaxRequests == Users[user].bound

PagesOf(r) == r.va .. r.va + r.size - 1

Begin(r) ==
    /\ op = Idle
    /\ requests < MaxRequests
    /\ r.kind \in {"free", "read"} /\ CarefulUser =>
          \A t \in r.first .. r.last, va \in PagesOf(r) : Mapped(t, va)
    /\ op' = NewWalk(r, r.first, << >>)
    /\ requests' = requests + 1
    /\ UNCHANGED <<node, memory, sink, reserved64, paused, blocked>>

(* AubManagerImp::pause *)
Pause(onoff) ==
    /\ CanPause
    /\ op = Idle
    /\ requests < MaxRequests
    /\ paused # onoff
    /\ paused' = onoff
    /\ requests' = requests + 1
    /\ UNCHANGED <<node, memory, sink, reserved64, blocked, op>>

(* AubManagerImp::blockMemWritesViaTbx *)
BlockMemWritesViaTbx(onoff) ==
    /\ CanBlock
    /\ op = Idle
    /\ requests < MaxRequests
    /\ blocked # onoff
    /\ blocked' = onoff
    /\ requests' = requests + 1
    /\ UNCHANGED <<node, memory, sink, reserved64, paused, op>>

Init ==
    /\ user \in DOMAIN Users
    /\ node = [k \in Slots |-> NoNode]
    /\ memory = InitialMemory
    /\ sink = [s \in Sinks |-> << >>]
    /\ reserved64 = {}
    /\ paused = FALSE
    /\ blocked = FALSE
    /\ op = Idle
    /\ requests = 0

Walk == WalkPdp \/ WalkPdeToPte \/ WalkExisting2MB \/ Walk2MBLeaf \/ WalkPte \/ WalkPtePs64

Free == FreeReturn \/ Free2MB \/ FreePage

Work == Walk \/ Commit \/ EndRead \/ Free \/ FreeCommit

(* The user makes no more requests. *)
Finished ==
    /\ op = Idle
    /\ requests = MaxRequests
    /\ UNCHANGED <<node, memory, sink, reserved64, paused, blocked, op, requests>>

Next ==
    /\ \/ Work \/ Finished
       \/ \E r \in Requests : Begin(r)
       \/ \E onoff \in BOOLEAN : Pause(onoff) \/ BlockMemWritesViaTbx(onoff)
    /\ UNCHANGED user

Spec == Init /\ [][Next]_vars

-----------------------------------------------------------------------------
NodeType ==
    [present : BOOLEAN, pa : Nat, bank : DOMAIN InitialMemory, owned : BOOLEAN,
     size : {0, 1, Group, PteSpan}, flags : Nat, ps64 : BOOLEAN, pending : BOOLEAN]

(***************************************************************************)
(* The state has the types of the members it stands for; in particular the  *)
(* assertion of Page2MB holds through conflicts with smaller pages and      *)
(* remaps, and cloneMemory never reads past the pages the first walk        *)
(* recorded.                                                                *)
(***************************************************************************)
TypeOK ==
    /\ node \in [Slots -> NodeType]
    /\ memory \in [DOMAIN InitialMemory -> AllocatorState]
    /\ DOMAIN sink = Sinks
    /\ reserved64 \subseteq Nat
    /\ {paused, blocked} \subseteq BOOLEAN
    /\ requests \in 0 .. MaxRequests
    /\ \A k \in Slots : node[k].present /\ Is2MB(k, node[k]) => node[k].pa % PteSpan = 0
    /\ op # Idle /\ op.level \in {"Pdp", "Pde", "Pte"} /\ Mode(op) = "Clone" =>
          op.pageNumber <= Len(op.infos)

Present == {k \in Slots : node[k].present}

(***************************************************************************)
(* Between requests the sink's page tables are the tree: it was given the   *)
(* entry of every node, and no table or freed page has another entry left.  *)
(* (For streams that are never muted.)                                      *)
(***************************************************************************)
SinksMatchTree ==
    op = Idle /\ ~CanPause =>
        \A s \in Sinks :
            {<<EntryAddress(k), EntryValue(k, node[k])>> : k \in Present}
                = {<<a, sink[s][a]>> : a \in DOMAIN sink[s]}

(***************************************************************************)
(* pendingWrite means what it says, whatever was muted when: a node that is *)
(* not waiting has its present value in both sinks.                         *)
(***************************************************************************)
CommittedIsSent ==
    op = Idle =>
        \A k \in Present, s \in Sinks :
            ~node[k].pending => Stored(s, EntryAddress(k)) = EntryValue(k, node[k])

(* The nodes that translate a page, from the PDE down to the leaf. *)
Path(t, va) == {PdeAt(t, va), PteAt(t, va), LeafSlot(t, va)}

(***************************************************************************)
(* A write or a map that ends while no sink is muted leaves no node of its  *)
(* range waiting: the entries held back while a sink was muted are sent.    *)
(***************************************************************************)
NothingLeftPending ==
    [][(Commit /\ FullyCommitted) =>
          \A va \in PagesOf(op.req) : \A k \in Path(op.tree, va) : ~node'[k].pending]_vars

(***************************************************************************)
(* PS64 is set only in groups that have all their pages, consecutive and    *)
(* with equal permissions: the condition isPs64GroupComplete checks.        *)
(***************************************************************************)
Ps64OnlyInCompleteGroups ==
    op = Idle =>
        \A k \in Present : node[k].ps64 => GroupComplete(node, k[1], k[3])

(* The block a node's destructor gives back. *)
OwnBlock(k) == [addr |-> node[k].pa, size |-> IF IsLeaf(k, node[k]) THEN node[k].size ELSE 1]

OwnersOf(b) == {k \in Present : node[k].owned /\ node[k].bank = b}

(***************************************************************************)
(* Physical memory and page tables agree: every used block that is not the  *)
(* user's belongs to exactly one node, so nothing leaks and nothing is      *)
(* freed under a node that still uses it, for users that do not map.  A     *)
(* page at an address of its user's choosing lies in the block the user     *)
(* reserved, whatever page sizes the walk met on its way.                   *)
(***************************************************************************)
MemoryAccounted ==
    /\ ~Maps =>
         \A b \in DOMAIN memory :
           /\ memory[b].used = InitialMemory[b].used \cup {OwnBlock(k) : k \in OwnersOf(b)}
           /\ \A k, l \in OwnersOf(b) : k # l => Disjoint(OwnBlock(k), OwnBlock(l))
    /\ \A k \in Present :
         IsLeaf(k, node[k]) /\ ~node[k].owned /\ k[1] = 1 =>
           \E b \in InitialMemory[node[k].bank].used :
             b.addr <= node[k].pa /\ node[k].pa + node[k].size <= b.addr + b.size

(***************************************************************************)
(* A 64KB page of system memory was reserved in the AUB file before its     *)
(* entry was written there.  (For streams that are never muted, and users   *)
(* that do not map.)                                                        *)
(***************************************************************************)
Pages64KBReserved ==
    op = Idle /\ ~CanPause /\ ~Maps =>
        \A k \in Present :
            LET n == node[k]
            IN  (k[2] = "Pte" /\ n.size = Group /\ n.bank = 0
                    /\ Stored("aub", EntryAddress(k)) = EntryValue(k, n))
                 => n.pa \in reserved64

(* The pages of one address space translate alike on every device. *)
Translation(t, va) ==
    IF Mapped(t, va)
    THEN LET n == node[LeafSlot(t, va)] IN n.pa + (va % n.size)
    ELSE NoPa

(***************************************************************************)
(* The manager's calls keep the ppgtts of all devices alike: the same page  *)
(* is mapped to the same physical page everywhere.                          *)
(***************************************************************************)
TreesAgree ==
    op = Idle /\ (\A r \in Requests : r.first = 1 /\ r.last = Trees) =>
        \A t, u \in 1 .. Trees, va \in 0 .. VaPages - 1 :
            Translation(t, va) = Translation(u, va)

(* What a request has before it: trees, pages of the range, levels. *)
Depth(level) ==
    CASE level = "Pdp" -> 3 [] level = "Pde" -> 2 [] level \in {"Pte", "Free"} -> 1 [] OTHER -> 0

Remaining(o) == ((o.req.last - o.tree) * (VaPages + 1) + o.left) * 4 + Depth(o.level)

(***************************************************************************)
(* Every step of a request brings it nearer to its end, whatever page sizes *)
(* its range begins in, ends in and meets: no turn of the loops of          *)
(* walkMemory and freeMemory repeats a page.  A request that could not take *)
(* a step would be a deadlock (only Finished may stop): so each one ends.   *)
(***************************************************************************)
StepsForward == [][op # Idle /\ op' # Idle => Remaining(op') < Remaining(op)]_op
=============================================================================
