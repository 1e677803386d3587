---------------------------- MODULE MCPageTables ----------------------------
(***************************************************************************)
(* Instances of PageTables.  Page 1 (and 2) hold the roots, the user holds  *)
(* blocks the maps point to, and the allocator goes on behind them.         *)
(***************************************************************************)
EXTENDS PageTables

Write(va, size, pageSize) ==
    [kind |-> "write", va |-> va, size |-> size, pageSize |-> pageSize, banks |-> {},
     pa |-> NoPa, flags |-> 0, first |-> 1, last |-> Trees]

WriteTo(banks, va, size, pageSize) == [Write(va, size, pageSize) EXCEPT !.banks = banks]

MapTo(pa, va, size, pageSize) ==
    [Write(va, size, pageSize) EXCEPT !.kind = "map", !.pa = pa]

Read(va, size, pageSize) == [Write(va, size, pageSize) EXCEPT !.kind = "read"]

FreeOf(va, size) == [Write(va, size, 1) EXCEPT !.kind = "free"]

(* On the first device only: a context's own calls. *)
OnFirst(S) == {[r EXCEPT !.last = 1] : r \in S}

Block1(a, n) == [addr |-> a, size |-> n]

Roots == [t \in 1 .. Trees |-> t]

OneBank == 0 :> [next |-> 20, used |-> {Block1(1, 1), Block1(2, 1), Block1(4, 4), Block1(8, 8)},
                 free |-> {}]

LocalBank(next) == [next |-> next, used |-> {}, free |-> {}]

ThreeBanks == OneBank @@ 1 :> LocalBank(3) @@ 2 :> LocalBank(5)

(* Writes of every page size, frees and reads; two PDE entries of four pages. *)
PageRequests == OnFirst(
    {Write(0, 1, 1), Write(2, 4, 1), Write(1, 4, 2), Write(0, 8, 4), Write(5, 1, 4),
     WriteTo({1}, 4, 2, 1),
     Read(2, 4, 2), FreeOf(0, 1), FreeOf(2, 2), FreeOf(4, 2), FreeOf(0, 8)})

(* Two sinks, either of them muted at times. *)
PauseRequests == OnFirst(
    {Write(0, 2, 1), Write(1, 4, 2), Write(4, 1, 1), MapTo(8, 0, 2, 1), MapTo(10, 4, 2, 2),
     Read(0, 8, 4), FreeOf(0, 1), FreeOf(0, 8)})

(* The same with a 2MB page. *)
Pause2MBRequests == {Write(0, 1, 1), Write(4, 4, 4)}

(* Groups of four pages, mapped and remapped whole, freed in parts, read. *)
Ps64Requests == OnFirst(
    {MapTo(8, 0, 8, 1), MapTo(4, 0, 4, 1), MapTo(4, 4, 4, 1), MapTo(9, 4, 4, 1), Read(0, 4, 1),
     Read(4, 2, 8), FreeOf(0, 1), FreeOf(2, 4), FreeOf(7, 1), FreeOf(0, 8)})

(* Two devices and the calls of the manager, with mixed page sizes and two banks. *)
TreeRequests ==
    {Write(0, 2, 1), WriteTo({1, 2}, 1, 4, 1), Write(2, 3, 2), Write(0, 8, 4), MapTo(8, 0, 4, 4),
     FreeOf(0, 2), FreeOf(0, 8)}

(* Maps at reserved addresses, 2MB pages that meet tables of smaller ones. *)
MapRequests ==
    {Write(0, 1, 2), Write(5, 1, 1), Write(4, 4, 4), MapTo(8, 0, 8, 4), MapTo(8, 0, 4, 2),
     MapTo(12, 4, 4, 4), MapTo(8, 4, 4, 1), MapTo(8, 2, 6, 4),
     FreeOf(0, 4), FreeOf(4, 4)}

User(S, bound) ==
    [requests |-> S, pause |-> FALSE, block |-> FALSE, careful |-> TRUE, bound |-> bound,
     group |-> 2, pteSpan |-> 4, pdeSlots |-> 2, large |-> TRUE, ps64 |-> FALSE]

ManyUsers ==
    [pages   |-> User(PageRequests, 4),
     pauses  |-> [User(PauseRequests, 5) EXCEPT !.pause = TRUE, !.block = TRUE, !.careful = FALSE],
     devices |-> User(TreeRequests, 4),
     maps    |-> User(MapRequests, 4),
     groups  |-> [User(Ps64Requests, 5) EXCEPT !.group = 4, !.pteSpan = 8, !.pdeSlots = 1,
                                               !.large = FALSE, !.ps64 = TRUE]]

CarelessUser == [careless |-> [User(PageRequests, 4) EXCEPT !.careful = FALSE]]

LargePageUser == [pauses |-> [User(Pause2MBRequests, 4) EXCEPT !.pause = TRUE]]
=============================================================================
