---------------------------- MODULE MCAubManager ----------------------------
(***************************************************************************)
(* Instances of AubManager, with 16 units to a megabyte.                    *)
(***************************************************************************)
EXTENDS AubManager

Opts(mode) ==
    [mode |-> mode, throw |-> FALSE, gpu |-> "lnl", sysMem |-> mode \in ShmModes,
     localMem |-> FALSE, bank |-> 256 * MB, dsm |-> 0, wopcm |-> 0, devices |-> 1, l3 |-> 1]

(* Creates that end in every way. *)
CreateOptions ==
    {[Opts(mode) EXCEPT !.throw = t, !.sysMem = s, !.gpu = g] :
        mode \in Modes, t \in BOOLEAN, s \in BOOLEAN, g \in {None, "gen12lp", "lnl"}}

(* Sizes of the memory; several devices are for banks of whole gigabytes. *)
OneDevice ==
    {[Opts(mode) EXCEPT !.gpu = g, !.bank = b, !.dsm = d, !.wopcm = w, !.l3 = l] :
        mode \in {"tbx", "aubFile"}, g \in {"gen12lp", "lnl", "bmg", "nvlp", "cri"}, l \in {0, 4},
        b \in {17 * MB, 25 * MB, 25 * MB + 1, 40 * MB + 3, 256 * MB, 513 * MB},
        d \in {0, 4 * MB, 8 * MB, 9 * MB, 16 * MB + 1, 256 * MB},
        w \in {0, 4 * MB, 5 * MB, 16 * MB}}

SeveralDevices ==
    {[Opts("tbx") EXCEPT !.gpu = "cri", !.bank = b, !.dsm = d, !.devices = n, !.l3 = l] :
        b \in {GB, 3 * GB, 127 * GB}, d \in {0, 128 * MB}, n \in 2 .. 4, l \in {0, 2}}

SizeOptions == OneDevice \cup SeveralDevices

(* Sharing: managers of different kinds, some not created. *)
ShareOptions == {Opts("tbx"), Opts("null"), [Opts("aubFile") EXCEPT !.dsm = 5 * MB],
                 [Opts("tbxShm") EXCEPT !.sysMem = FALSE]}

(* Files and injected lists on several products; one product at length. *)
ListOptions ==
    {[Opts("aubFileAndTbx") EXCEPT !.gpu = "cri", !.bank = GB, !.devices = 2],
     [Opts("aubFileAndShm4") EXCEPT !.throw = TRUE],
     [Opts("aubFileAndTbx") EXCEPT !.gpu = "gen12lp"]}

FileOptions == {Opts("aubFileAndTbx")}

ThreadOptions == {Opts("aubFileAndShm"), Opts("tbxShm3")}

AllOptions == [create |-> CreateOptions, sizes |-> SizeOptions, share |-> ShareOptions,
               lists |-> ListOptions, file |-> FileOptions, thread |-> ThreadOptions]

NoList == {<< >>}
Lists == {<< >>, [global |-> "injected", other |-> "injected"], [ccs |-> "injected"]}

P(name, calls, opens, lists) ==
    [name |-> name, calls |-> calls, opens |-> opens, lifo |-> FALSE, thread |-> FALSE,
     lists |-> lists, managers |-> {"m1"}]

ManyPlans ==
    {P("create", 3, 0, NoList),
     P("sizes", 1, 0, NoList),
     [P("share", 5, 0, NoList) EXCEPT !.lifo = TRUE, !.managers = {"m1", "m2"}],
     P("lists", 4, 2, Lists),
     P("file", 5, 2, {<< >>, [ccs |-> "injected"]}),
     [P("thread", 5, 1, NoList) EXCEPT !.thread = TRUE]}
=============================================================================
