---------------------------- MODULE StolenMemory ----------------------------
(***************************************************************************)
(* The memory a Gpu takes from the top of each device's bank, the sizes it   *)
(* accepts, and what it tells the hardware of them.  From the bottom: the    *)
(* flat CCS, the GSM with the GGTT, and the DSM, whose top is the WOPCM.     *)
(*                                                                          *)
(* A length is a number of units; MB is the number of units to a megabyte.  *)
(* An option of 0 leaves the default; l3 is the number of L3 banks that     *)
(* register 0x9118 reports.  The products: "gen12lp" has no pools; "lnl"    *)
(* and "bmg" are of Xe2, bmg with local memory; "nvlp" and "cri" are of     *)
(* Xe3p, cri with local memory, several devices and no flat CCS.            *)
(***************************************************************************)
EXTENDS Integers, FiniteSetsExt

CONSTANT MB

ASSUME MBAssumption == MB \in Nat \ {0} /\ MB % 16 = 0

GB == 1024 * MB

Xe3p(o) == o.gpu \in {"nvlp", "cri"}
LocalMemory(o) == o.gpu \in {"bmg", "cri"}

alignDown(x) == (x \div MB) * MB
alignUp(x) == alignDown(x + MB - 1)

getWOPCMDefaultSize(o) == IF o.gpu = "nvlp" THEN 16 * MB ELSE 8 * MB
getWOPCMSize(o) == IF o.wopcm # 0 THEN o.wopcm ELSE getWOPCMDefaultSize(o)
getDSMSize(o) == IF o.dsm # 0 THEN o.dsm ELSE getWOPCMSize(o)
getGSMSize == 8 * MB

getFlatCCSSize(o) == alignUp(o.bank \div 256)

(* mutant: the DSM is not counted *)
WithoutDSM(o) == getFlatCCSSize(o) + getGSMSize

getStolenMemorySize(o) == getFlatCCSSize(o) + getGSMSize + getDSMSize(o)

(* The codes of the GMS field and of PAVPC, in the order of their tables, and their MB. *)
GmsTable == [c \in (0 .. 4) \cup (240 .. 254) |-> IF c <= 4 THEN 32 * c ELSE 4 * (c - 239)]
PavpcTable == [c \in {0, 1, 2, 3, 5, 6} |-> IF c <= 3 THEN 2 ^ c ELSE 2 ^ (c - 1)]

NoCode == 255

CodeOf(table, size) ==
    LET found == {c \in DOMAIN table : table[c] * MB = size}
    IN IF found = {} THEN NoCode ELSE Min(found)

sizeToGMS(size) == CodeOf(GmsTable, size)
sizeToPAVPC(size) == CodeOf(PavpcTable, size)

isValidDataStolenMemorySize(o) ==
    IF o.gpu = "gen12lp" THEN getDSMSize(o) % MB = 0 /\ getDSMSize(o) <= 2048 * MB
    ELSE sizeToGMS(getDSMSize(o)) # NoCode

isValidWOPCMSize(o) == Xe3p(o) => sizeToPAVPC(getWOPCMSize(o)) # NoCode

CreateStolenMemory(o) == o.bank >= getStolenMemorySize(o)

(* What initialize() of the manager looks at before anything else. *)
ValidSizes(o) ==
    /\ CreateStolenMemory(o)
    /\ isValidDataStolenMemorySize(o)
    /\ isValidWOPCMSize(o)

(* The base address in static storage: every mode but tbxShm3. *)
getBaseAddress(o, device) == alignDown(o.bank * (device + 1) - getStolenMemorySize(o))

getDSMBaseAddress(o, device) ==
    getBaseAddress(o, device) + getStolenMemorySize(o) - getDSMSize(o)

getGSMBaseAddress(o, device) ==
    IF o.gpu = "gen12lp" THEN 0 ELSE getDSMBaseAddress(o, device) - getGSMSize

-----------------------------------------------------------------------------
(* What the hardware is told *)

Devices(o) == 0 .. o.devices - 1

(* setGGTTBaseAddresses drops the low 20 bits; Gen12lp tells nothing. *)
setGGTTBaseAddresses(o) ==
    [d \in IF o.gpu = "gen12lp" THEN {} ELSE Devices(o) |-> alignDown(getGSMBaseAddress(o, d))]

(* Ranges of whole gigabytes, if there are several devices; Gen12lp writes an empty one. *)
setMemoryBankSize(o) ==
    LET gb == IF o.gpu = "gen12lp" THEN 0 ELSE o.bank \div GB
        told == IF o.devices = 1 /\ o.gpu # "gen12lp" THEN {} ELSE Devices(o)
    IN [d \in told |-> [from |-> d * gb, size |-> gb]]

CcsUnit == MB \div 8    \* 128 KB

initializeFlatCcsBaseAddressMmio(base, size) ==
    [base |-> base, size |-> Min({size \div CcsUnit, 1023})]

L3Banks(o) == IF LocalMemory(o) THEN o.l3 ELSE 1

(* The share of each L3 bank; the size is divided once more for every device. *)
FlatCcs(o, d) ==
    initializeFlatCcsBaseAddressMmio(getBaseAddress(o, d) \div L3Banks(o),
                                     (o.bank \div 512) \div L3Banks(o) ^ (d + 1))

TellsCcs(o) == o.mode # "aubFile" /\ L3Banks(o) # 0 /\ o.gpu # "cri"

(* The devices reached: without L3 banks the function returns at the first one. *)
Reached(o) == IF L3Banks(o) = 0 /\ o.mode # "aubFile" THEN {0} ELSE Devices(o)

(* Only Xe3p tells the size of the WOPCM; Xe2 always says 8 MB. *)
initializeDefaultMemoryPools(o) ==
    [d \in Reached(o) |->
        [dsm |-> getDSMBaseAddress(o, d),
         gms |-> sizeToGMS(getDSMSize(o)),
         wopcm |-> o.bank - getWOPCMSize(o),
         pavpc |-> IF Xe3p(o) THEN sizeToPAVPC(getWOPCMSize(o)) ELSE 3,
         ccs |-> IF TellsCcs(o) THEN FlatCcs(o, d) ELSE << >>]]

-----------------------------------------------------------------------------
(* What a layout of valid sizes has to be. *)

Region(from, size) == [from |-> from, size |-> size]

Regions(o, device) ==
    [ccs |-> Region(getBaseAddress(o, device), getFlatCCSSize(o)),
     gsm |-> Region(getGSMBaseAddress(o, device), getGSMSize),
     dsm |-> Region(getDSMBaseAddress(o, device), getDSMSize(o))]

Apart(r, s) == r.from + r.size <= s.from \/ s.from + s.size <= r.from
Within(r, s) == s.from <= r.from /\ r.from + r.size <= s.from + s.size

SoundLayout(o) ==
    /\ \A d, e \in Devices(o) : \A k, l \in {"ccs", "gsm", "dsm"} :
         <<d, k>> = <<e, l>> \/ Apart(Regions(o, d)[k], Regions(o, e)[l])
    /\ o.bank % MB = 0
         => \A d \in Devices(o) : \A k \in {"ccs", "gsm", "dsm"} :
              Within(Regions(o, d)[k], Region(o.bank * d, o.bank))

(* The WOPCM leaves the GGTT alone, unless it was asked to be larger than the DSM. *)
WopcmInDsm(o) ==
    getWOPCMSize(o) <= getDSMSize(o) /\ o.bank % MB = 0
        => Apart(Region(o.bank - getWOPCMSize(o), getWOPCMSize(o)), Regions(o, 0).gsm)

(* The flat CCS of a device, over all L3 banks. *)
CcsTold(o, p) == Region(p.ccs.base * L3Banks(o), p.ccs.size * CcsUnit * L3Banks(o))

(* 1/512 of the bank, if it can be told exactly. *)
CcsNeeded(o, p) ==
    IF (o.bank \div 512) % (CcsUnit * L3Banks(o)) # 0 \/ p.ccs.size = 1023 THEN 0
    ELSE o.bank \div 512

DescribesLayout(o) ==
    LET pools == initializeDefaultMemoryPools(o)
    IN \A d \in DOMAIN pools : LET p == pools[d] IN
        /\ Region(p.dsm, GmsTable[p.gms] * MB) = Regions(o, d).dsm
        /\ Xe3p(o) \/ o.wopcm = 0 => PavpcTable[p.pavpc] * MB = o.bank - p.wopcm
        /\ p.ccs # << >> => /\ Within(CcsTold(o, p), Regions(o, d).ccs)
                            /\ CcsTold(o, p).size >= CcsNeeded(o, p)

BasesDescribeLayout(o) ==
    /\ \A d \in DOMAIN setGGTTBaseAddresses(o) : setGGTTBaseAddresses(o)[d] = Regions(o, d).gsm.from
    /\ o.bank % GB = 0
         => \A d \in DOMAIN setMemoryBankSize(o) :
              LET r == setMemoryBankSize(o)[d]
              IN Region(r.from * GB, r.size * GB) = Region(o.bank * d, o.bank)
=============================================================================
