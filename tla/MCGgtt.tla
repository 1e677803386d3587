------------------------------- MODULE MCGgtt -------------------------------
(***************************************************************************)
(* Instances of Ggtt.  A 64KB page is two 4KB pages.  The allocators alone: *)
(* room for three pages in every allocator, so that a bank of two may run   *)
(* past its end and a freed block of either size may be reused.             *)
(***************************************************************************)
EXTENDS Ggtt

CONSTANTS c1, c2

Sizes(lrca, data) == [hwsp |-> 1, fence |-> 1, ring |-> 1, lrca |-> lrca, data |-> data]

SmallPages ==
    [bank |-> {}, page |-> 1, sizes |-> Sizes(2, 0), file |-> TRUE, sim |-> "tbx",
     users |-> {c1, c2}, calls |-> 3, others |-> FALSE, pages |-> 0]

LargePages ==
    [SmallPages EXCEPT !.bank = {1}, !.page = 2, !.sizes = Sizes(3, 1),
                       !.calls = 4]

Shared == [SmallPages EXCEPT !.bank = {0}, !.sim = "shm", !.page = 2]

(* Several opens of one context, to where its addresses come to an end. *)
Reopens == [LargePages EXCEPT !.users = {c1}, !.calls = 5]

AllocatorsOnly == [SmallPages EXCEPT !.users = {}, !.calls = 0, !.others = TRUE,
                                        !.pages = 3]

GgttPlans == {SmallPages, LargePages, Shared, Reopens, AllocatorsOnly}

SecondDevice == {[Shared EXCEPT !.bank = {1}, !.users = {c1}]}
=============================================================================
