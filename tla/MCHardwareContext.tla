------------------------- MODULE MCHardwareContext -------------------------
(***************************************************************************)
(* Instances of HardwareContext for TLC: one context, or two that share an  *)
(* engine; a ring that holds three submissions, and fences that wrap.       *)
(***************************************************************************)
EXTENDS HardwareContext

CONSTANTS c1, c2

TwoContexts == {c1, c2}

RingPlans ==
    [shared |-> [ringSize |-> 5, fenceMod |-> 4, used |-> TwoContexts,
                 calls |-> {"isActive", "poll"}],
     alone |-> [ringSize |-> 8, fenceMod |-> 7, used |-> {c1},
                calls |-> {"override", "poll", "resubmit", "reopen"}]]
=============================================================================
