----------------------------- MODULE MCAubFile ------------------------------
(***************************************************************************)
(* Instances of AubFile: a field that holds 25, the longest of the fixed     *)
(* packets: a contiguous packet has room for 80 bytes, a token for two      *)
(* entries and 72 bytes.                                                    *)
(***************************************************************************)
EXTENDS AubFile

E(size, addr, local) == [size |-> size, addr |-> addr, local |-> local]
C(name, t) == [name |-> name, table |-> t]

(* unaligned sizes and addresses, two spaces, at and past the limits *)
Kinds == {E(3, 64, FALSE), E(4, 64, FALSE), E(36, 64, FALSE), E(16, 66, FALSE),
          E(8, 64, TRUE), E(72, 64, FALSE), E(76, 64, FALSE), E(161, 64, FALSE)}

Spread(t) == [i \in DOMAIN t |-> [t[i] EXCEPT !.addr = @ + 256 * i]]

Pte == E(8, 64, FALSE)

Few == {E(4, 64, FALSE), E(40, 64, FALSE), E(16, 66, FALSE)}

Tables(S, n) == UNION {[1 .. k -> S] : k \in 1 .. n}

None(n) == [i \in 1 .. n |-> E(0, 0, FALSE)]

TableCalls ==
    {C("disc", Spread(t)) : t \in Tables(Kinds, 3) \cup Tables(Few, 4)}
    \cup {C("ptes", Spread([i \in 1 .. n |-> Pte])) : n \in 0 .. 5}
    \cup {C("compare", Spread(t)) : t \in Tables({E(3, 64, FALSE), E(83, 64, TRUE)}, 2)}
    \cup {C("comment", <<E(n, 0, FALSE)>>) : n \in {1, 96, 97, 193}}
    \cup {C(name, None(1)) : name \in FixedCalls \ {"init"}}
    \cup {C("reserveContiguousPages", None(n)) : n \in {0, 2}}

(* short calls, for the faults: one packet; a token, a chunk and its padding *)
FileCalls ==
    {C("dumpSurface", None(1)),
     C("disc", <<E(4, 64, FALSE), E(8, 96, FALSE), E(3, 128, TRUE)>>)}

AllCalls == TableCalls \cup FileCalls

BothPlans == {[name |-> "tables", calls |-> 1, opens |-> 1, faults |-> 0, dumps |-> TRUE],
              [name |-> "faults", calls |-> 3, opens |-> 2, faults |-> 2, dumps |-> TRUE]}

CallsOfPlan == [tables |-> TableCalls, faults |-> FileCalls]
=============================================================================
