------------------------- MODULE MCCommandStreamer -------------------------
(***************************************************************************)
(* Instances of CommandStreamer: two slots with registers, groups of two or *)
(* of three contexts, a context on its own.                                 *)
(***************************************************************************)
EXTENDS CommandStreamer

S(gpu, submitPort, ringData, bits, members) ==
    [gpu |-> gpu, port |-> submitPort, ringData |-> ringData, bits |-> bits,
     members |-> members, fresh |-> {"g2"}, calls |-> 3,
     callers |-> {"g2", "s1", members[Len(members)], members[1]}]

Pair == <<"g1", "g2">>
Three == <<"g1", "g2", "g3">>

ManySetups ==
    {S("gen12lp", FALSE, FALSE, 32, Pair), S("xeHpg", TRUE, FALSE, 48, Pair),
     S("xe", FALSE, FALSE, 48, Pair)}
    \cup {[S("xe3p", p, r, 57, Three) EXCEPT !.callers = {"g2", "g3", "s1"}] :
             p \in BOOLEAN, r \in BOOLEAN}

Alike == Permutations(Threads)
=============================================================================
