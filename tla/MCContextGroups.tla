-------------------------- MODULE MCContextGroups --------------------------
(***************************************************************************)
(* Instances of ContextGroups for TLC: three contexts, groups of two or     *)
(* three, and the sets of flags below.                                      *)
(***************************************************************************)
EXTENDS ContextGroups, TLC

CONSTANTS c1, c2, c3

ThreeContexts == {c1, c2, c3}

GroupOrNot == {{}, {"contextGroup"}}

GroupOnly == {{"contextGroup"}}

User(closes, initAtOnce) == [closes |-> closes, initAtOnce |-> initAtOnce]

(* Users that do everything in any order, and orderly ones. *)
FreeAndOrderly == {User(TRUE, FALSE), User(FALSE, TRUE)}

(* Users that initialize at once, but close and open the stream. *)
ClosingUser == {User(TRUE, TRUE)}

SymContexts == Permutations(ThreeContexts)
=============================================================================
