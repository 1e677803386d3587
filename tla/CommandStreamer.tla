--------------------------- MODULE CommandStreamer ---------------------------
(***************************************************************************)
(* CommandStreamerHelper and the part of HardwareContextImp that uses it:   *)
(* the context image (LRCA) and the ring state beside it (ring data), what  *)
(* a submission updates of them, and the exec lists of single contexts and  *)
(* groups, written a register at a time, through the registers of the slots *)
(* or through the submit port.                                              *)
(*                                                                          *)
(* A dword pair "register, value" is <<register, value>> at the offset of   *)
(* its first dword; the loads (LRI) the engine executes to restore a context *)
(* are their offset and number of pairs.  A value is a pair of what it is   *)
(* and which one.  Positions in the ring count submissions.  The engine is  *)
(* external: a load takes the list, restores each context from memory, runs *)
(* it to its tail and saves the head.  Rings, fences and polls are in       *)
(* HardwareContext, releases in ContextGroups.                              *)
(***************************************************************************)
EXTENDS Integers, Sequences, SequencesExt, FiniteSetsExt

CONSTANTS
    Threads, Contexts,
    Slots,      \* the slots of the exec list that have registers
    RingSize,   \* bound: the submissions that fit in a ring, and one
    Setups      \* the product, its settings, and the bound on the calls

None == "none"
Mixed == "mixed"

SetupFields == {"port", "ringData", "bits", "members", "fresh", "calls", "callers"}

ASSUME CommandStreamerAssumption ==
    /\ None \notin Threads /\ {None, Mixed} \cap Contexts = {}
    /\ Slots \in Nat \ {0} /\ RingSize \in Nat /\ RingSize > 1
    /\ \A s \in Setups :
         /\ SetupFields \subseteq DOMAIN s
         /\ {s.port, s.ringData} \subseteq BOOLEAN
         /\ s.bits \in IF s.ringData THEN {57} ELSE {32, 48, 57}
         /\ s.members \in Seq(Contexts) \* of the group, by their numbers; not all in use
         /\ Len(s.members) >= Slots
         /\ s.fresh \subseteq Contexts   \* not yet initialised
         /\ s.calls \in Nat /\ s.callers \subseteq Contexts    \* bounds

VARIABLES
    setup,      \* one of Setups, with the calls left
    ctx,        \* the contexts
    contexts,   \* contextGroup->contexts
    thread,     \* what each thread is doing
    ggttLock, csLock,
    slots,      \* registers 0x2510..: the two dwords of each slot
    port,       \* what was written to 0x2230 since the last load
    races       \* two threads have written lists at the same time

vars == <<setup, ctx, contexts, thread, ggttLock, csLock, slots, port, races>>

-----------------------------------------------------------------------------
(* The image of a context *)

offsetLRI0 == 1
numRegsLRI0 == 14
offsetLRI1 == offsetLRI0 + 1 + numRegsLRI0 * 2 + 3
numRegsLRI1 == 9
offsetLRI2 == offsetLRI1 + 1 + numRegsLRI1 * 2 + 13
numRegsLRI2 == 1

offsetRingRegisters == offsetLRI0 + 3
offsetRing == [head |-> 0, tail |-> 2, base |-> 4, ctrl |-> 6, bb |-> 8]
offsetPageTableRegisters == offsetLRI1 + 3
offsetPDP == <<12, 8, 4, 0>>
PdpLow == <<"pdp0", "pdp1", "pdp2", "pdp3">>
PdpHigh == <<"pdp0High", "pdp1High", "pdp2High", "pdp3High">>

LRI(at, n) == {at + 1 + 2 * i : i \in 0 .. n - 1}

SetPair(image, at, register, v) ==
    [o \in DOMAIN image \cup {at} |-> IF o = at THEN <<register, v>> ELSE image[o]]

setRing(image, register, v) ==
    SetPair(image, offsetRingRegisters + offsetRing[register], register, v)

setBbCurrentHeadReg(image) ==
    SetPair(setRing(image, "bb", <<"zero", 0>>),
            offsetRingRegisters + offsetRing.bb + 2, "bbHigh", <<"zero", 0>>)

(* setPDP0 to setPDP3: the high half before the low one *)
setPDP(image, k, v) ==
    LET at == offsetPageTableRegisters + offsetPDP[k + 1]
    IN SetPair(SetPair(image, at, PdpHigh[k + 1], v), at + 2, PdpLow[k + 1], v)

At(n) == <<"at", n>>
RingOf(c) == <<"ring", c>>
CtrlOf(c) == <<"ctrl", c>>
Table(k) == <<"table", k>>      \* the root of the page tables, or its child

(* CTXT_SR_CTL says whether the ring state is in the image or beside it. *)
getInitialContextSaveRestoreCtrlValue(s) == <<"indirect", IF s.ringData THEN 1 ELSE 0>>

Blank(s) ==
    LET lri0 == LRI(offsetLRI0, numRegsLRI0)
        lri1 == LRI(offsetLRI1, numRegsLRI1)
        lri2 == LRI(offsetLRI2, numRegsLRI2)
    IN [o \in lri0 \cup lri1 \cup lri2 |->
          IF o \in lri0 THEN <<"ctxtSr", getInitialContextSaveRestoreCtrlValue(s)>>
          ELSE IF o \in lri1 THEN <<"debugMode", <<"zero", 0>>>>
          ELSE <<"nopId", <<"zero", 0>>>>]

(* Page tables of 48 bits and more have one root, PDP4 four children. *)
PageTableOf(s, image) ==
    IF s.bits >= 48 THEN setPDP(image, 0, Table(0))
    ELSE setPDP(setPDP(setPDP(setPDP(image, 0, Table(0)), 1, Table(1)), 2, Table(2)), 3, Table(3))

(* initialize(), and the ring registers HardwareContextImp::initialize sets *)
initialize(s, c) ==
    LET ring == setRing(setRing(Blank(s), "head", At(0)), "tail", At(0))
    IN PageTableOf(s, setBbCurrentHeadReg(setRing(setRing(ring, "base", RingOf(c)),
                                                  "ctrl", CtrlOf(c))))

getRingDataOffset == 2

setRingData(data, register, v) == SetPair(data, getRingDataOffset + offsetRing[register], register, v)

(* initializeRingData: a second place for the ring state, and where it is *)
PointTo(s, image, c) ==
    IF s.ringData THEN SetPair(image, offsetLRI1 + 5, "indirectRingState", <<"data", c>>) ELSE image

initializeRingData(c) ==
    LET data == setRingData(setRingData(setRingData(<< >>, "head", At(0)), "tail", At(0)),
                            "base", RingOf(c))
    IN SetPair(SetPair(data, getRingDataOffset + offsetRing.base + 2, "reg2048", <<"zero", 0>>),
               getRingDataOffset + offsetRing.ctrl + 2, "ctrl", CtrlOf(c))

-----------------------------------------------------------------------------
(* Descriptors and exec lists *)

Descriptor(c) == [lo |-> c, hi |-> c]
Empty == Descriptor(None)

(* mutant: the list of a single context has one element *)
OnlyOne(c) == <<Descriptor(c)>>

(* submit() of one context: as many descriptors as slots, all others empty *)
SingleList(c) == [i \in 1 .. Slots |-> IF i = 1 THEN Descriptor(c) ELSE Empty]

InGroup(c) == c \in ToSet(setup.members)

(* submit() of the group: whoever is in contextGroup->contexts now *)
List(c) ==
    IF InGroup(c) THEN [i \in DOMAIN contexts |-> Descriptor(contexts[i])] ELSE SingleList(c)

(* The context each slot should have. *)
Wanted(c) ==
    IF InGroup(c) THEN contexts ELSE [i \in 1 .. Slots |-> IF i = 1 THEN c ELSE None]

(* submitContext: two dwords for each slot, or each element through the port *)
Dwords(list) == 2 * (IF setup.port THEN Len(list) ELSE Min({Len(list), Slots}))

-----------------------------------------------------------------------------
(* The engine *)

ImageLoads == {<<offsetLRI0, numRegsLRI0>>, <<offsetLRI1, numRegsLRI1>>, <<offsetLRI2, numRegsLRI2>>}
RingDataLoads == {<<1, 5>>}

Executed(loads) == UNION {LRI(l[1], l[2]) : l \in loads}

(* The value a register has after the loads. *)
Value(image, loads, register) ==
    LET at == {o \in Executed(loads) \cap DOMAIN image : image[o][1] = register}
    IN IF at = {} THEN <<None, 0>> ELSE image[Max(at)][2]

RingRegisters == {"head", "tail", "base", "ctrl"}
PdpRegisters == ToSet(PdpLow) \cup ToSet(PdpHigh)

Restored(c) ==
    LET im == ctx[c].image
        outside == Value(im, ImageLoads, "ctxtSr") = <<"indirect", 1>>
        from == IF outside THEN ctx[Value(im, ImageLoads, "indirectRingState")[2]].data ELSE im
        loads == IF outside THEN RingDataLoads ELSE ImageLoads
    IN [r \in RingRegisters \cup PdpRegisters |->
          IF r \in RingRegisters THEN Value(from, loads, r) ELSE Value(im, ImageLoads, r)]

(* What the engine writes back when it has run a context to its tail. *)
Saved(image, v) == [o \in DOMAIN image |-> IF image[o][1] = "head" THEN <<"head", v>> ELSE image[o]]

(* The list a load takes: a slot whose halves do not belong together is "mixed". *)
Taken ==
    LET dwords == IF setup.port THEN port ELSE slots
    IN [i \in 1 .. Len(dwords) \div 2 |->
          LET lo == dwords[2 * i - 1]
              hi == dwords[2 * i]
          IN IF lo[1] = "lo" /\ hi[1] = "hi" /\ lo[2] = hi[2] THEN hi[2] ELSE Mixed]

(* The contexts a load restores. *)
Loaded == Contexts \cap ToSet(Taken)

-----------------------------------------------------------------------------
(* Contexts *)

Idle == [op |-> "idle"]

NewContext(c) ==
    [ready |-> FALSE, tail |-> 0, seen |-> 0,
     host |-> << >>, hostData |-> << >>, image |-> << >>, data |-> << >>]

(* The images are made and written: ring data first, then the LRCA. *)
WithImages(s, x, c) ==
    LET host == PointTo(s, initialize(s, c), c)
        data == IF s.ringData THEN initializeRingData(c) ELSE << >>
    IN [x EXCEPT !.host = host, !.hostData = data, !.image = host, !.data = data]

Joined(g, c) == [i \in DOMAIN g |-> IF setup.members[i] = c THEN c ELSE g[i]]

InitializeSteps == <<"image", "register">>

Init ==
    /\ setup \in Setups
    /\ ctx = [c \in Contexts |-> IF c \in setup.fresh THEN NewContext(c)
                                 ELSE [WithImages(setup, NewContext(c), c) EXCEPT !.ready = TRUE]]
    /\ contexts = [i \in DOMAIN setup.members |->
                     IF setup.members[i] \in setup.fresh THEN None ELSE setup.members[i]]
    /\ thread = [t \in Threads |-> Idle]
    /\ ggttLock = None /\ csLock = None
    /\ slots = [i \in 1 .. 2 * Slots |-> IF i % 2 = 1 THEN <<"lo", None>> ELSE <<"hi", None>>]
    /\ port = << >>
    /\ races = FALSE

Busy(c) == \E t \in Threads : thread[t] # Idle /\ thread[t].of = c

Call(t, c) ==
    /\ thread[t] = Idle /\ ~Busy(c)
    /\ setup.calls > 0 /\ c \in setup.callers
    /\ setup' = [setup EXCEPT !.calls = @ - 1]

Initialize(t, c) ==
    /\ Call(t, c)
    /\ ~ctx[c].ready
    /\ thread' = [thread EXCEPT ![t] = [op |-> "initialize", of |-> c, at |-> 1]]
    /\ UNCHANGED <<ctx, contexts, ggttLock, csLock, slots, port, races>>

(* No lock is held: the group may be submitted between the steps. *)
InitializeStep(t) ==
    /\ thread[t].op = "initialize"
    /\ LET c == thread[t].of
           step == InitializeSteps[thread[t].at]
           last == thread[t].at = Len(InitializeSteps)
           x == IF step = "image" THEN WithImages(setup, ctx[c], c) ELSE ctx[c]
       IN /\ ctx' = [ctx EXCEPT ![c] = [x EXCEPT !.ready = last]]
          /\ contexts' = IF step = "register" THEN Joined(contexts, c) ELSE contexts
          /\ thread' = [thread EXCEPT ![t] = IF last THEN Idle ELSE [thread[t] EXCEPT !.at = @ + 1]]
    /\ UNCHANGED <<setup, ggttLock, csLock, slots, port, races>>

-----------------------------------------------------------------------------
(* submitBatchBuffer: the ring, the image, the list *)

(* Where the commands go: at the start of the ring, if they reach its end. *)
StartOf(tail) == IF tail + 1 >= RingSize THEN 0 ELSE tail

(* mutant: head and tail are always written *)
BothPairs(override) == [from |-> "head", size |-> 4]

(* What is written of the image: head and tail, or the tail alone. *)
Update(override) ==
    IF override THEN [from |-> "head", size |-> 4] ELSE [from |-> "tail", size |-> 2]

(* writeMemory of size dwords from an offset *)
Written(image, host, offset, size) ==
    [o \in DOMAIN image |-> IF o \in offset .. offset + size - 1 THEN host[o] ELSE image[o]]

(***************************************************************************)
(* Under the GGTT lock.  The image of the host gets the head only if it is  *)
(* overridden: the head in memory belongs to the engine.                    *)
(***************************************************************************)
SubmitBatchBuffer(t, c, override) ==
    /\ Call(t, c)
    /\ ctx[c].ready
    /\ ggttLock = None
    /\ ggttLock' = t
    /\ LET x == ctx[c]
           head == StartOf(x.tail)
           tail == head + 1
           host == setRing(IF override THEN setRing(x.host, "head", At(head)) ELSE x.host,
                           "tail", At(tail))
           data == setRingData(IF override THEN setRingData(x.hostData, "head", At(head))
                               ELSE x.hostData, "tail", At(tail))
           u == Update(override)
       IN ctx' = [ctx EXCEPT ![c] =
                    [x EXCEPT !.tail = tail, !.host = host,
                              !.hostData = IF setup.ringData THEN data ELSE @,
                              !.seen = IF override THEN head ELSE @,
                              !.image = Written(@, host, offsetRingRegisters + offsetRing[u.from],
                                                u.size)]]
    /\ thread' = [thread EXCEPT ![t] = [op |-> "update", of |-> c, override |-> override]]
    /\ UNCHANGED <<contexts, csLock, slots, port, races>>

(* mutant: the ring data in memory stays as it is *)
LRCAOnly(x, override) == x.data

UpdatedData(x, override) ==
    LET u == Update(override)
    IN Written(x.data, x.hostData, getRingDataOffset + offsetRing[u.from], u.size)

Writing(t) == thread[t].op = "write"

(* The list is made, and will be written; whoever writes meanwhile races. *)
StartList(t, c, locked) ==
    LET others == {u \in Threads : u # t /\ Writing(u)}
    IN /\ thread' = [u \in Threads |->
            IF u = t THEN [op |-> "write", of |-> c, at |-> 1, list |-> List(c),
                           wanted |-> Wanted(c), locked |-> locked, raced |-> others # {}]
            ELSE IF u \in others THEN [thread[u] EXCEPT !.raced = TRUE]
            ELSE thread[u]]
       /\ races' = (races \/ others # {})

(* The ring data, then the lock of the command streamer and the list. *)
SubmitList(t) ==
    /\ thread[t].op = "update"
    /\ csLock = None
    /\ csLock' = t
    /\ LET c == thread[t].of
           x == ctx[c]
           override == thread[t].override
       IN /\ ctx' = [ctx EXCEPT ![c] =
                IF setup.ringData
                THEN [x EXCEPT !.data = UpdatedData(x, override),
                               !.seen = IF override THEN x.tail - 1 ELSE @]
                ELSE x]
          /\ StartList(t, c, TRUE)
    /\ UNCHANGED <<setup, contexts, ggttLock, slots, port>>

(* resubmit takes neither lock. *)
Resubmit(t, c) ==
    /\ Call(t, c)
    /\ ctx[c].ready
    /\ StartList(t, c, FALSE)
    /\ UNCHANGED <<ctx, contexts, ggttLock, csLock, slots, port>>

(* writeMMIO of one dword *)
WriteDword(t) ==
    /\ Writing(t)
    /\ thread[t].at <= Dwords(thread[t].list)
    /\ LET i == thread[t].at
           d == thread[t].list[(i + 1) \div 2]
           dword == IF i % 2 = 1 THEN <<"lo", d.lo>> ELSE <<"hi", d.hi>>
       IN IF setup.port THEN port' = Append(port, dword) /\ UNCHANGED slots
          ELSE slots' = [slots EXCEPT ![i] = dword] /\ UNCHANGED port
    /\ thread' = [thread EXCEPT ![t].at = @ + 1]
    /\ UNCHANGED <<setup, ctx, contexts, ggttLock, csLock, races>>

(* 0x2550 = 1: the engine runs the list, and the call returns. *)
LoadList(t) ==
    /\ Writing(t)
    /\ thread[t].at > Dwords(thread[t].list)
    /\ ctx' = [c \in Contexts |->
                IF c \notin Loaded THEN ctx[c]
                ELSE LET tail == Restored(c).tail
                     IN [ctx[c] EXCEPT !.image = Saved(@, tail), !.data = Saved(@, tail),
                                       !.seen = tail[2]]]
    /\ port' = << >>
    /\ thread' = [thread EXCEPT ![t] = Idle]
    /\ ggttLock' = IF thread[t].locked THEN None ELSE ggttLock
    /\ csLock' = IF thread[t].locked THEN None ELSE csLock
    /\ UNCHANGED <<setup, contexts, slots, races>>

Next ==
    \E t \in Threads :
        \/ \E c \in Contexts : \/ Initialize(t, c) \/ Resubmit(t, c)
                               \/ \E o \in BOOLEAN : SubmitBatchBuffer(t, c, o)
        \/ InitializeStep(t) \/ SubmitList(t) \/ WriteDword(t) \/ LoadList(t)

Spec == Init /\ [][Next]_vars

-----------------------------------------------------------------------------
(* Properties *)

TypeOK ==
    /\ \A c \in Contexts : ctx[c].tail \in 0 .. RingSize - 1 /\ ctx[c].seen \in 0 .. RingSize - 1
    /\ {ggttLock, csLock} \subseteq Threads \cup {None}
    /\ \A t \in Threads : csLock = t => Writing(t) /\ ggttLock = t
    /\ (\A t \in Threads : ~Writing(t)) => port = << >>

Loads(t) == Writing(t) /\ thread'[t] = Idle

(***************************************************************************)
(* A load takes the list of the thread that makes it: its own context in    *)
(* the first slot and nothing in the others, or the contexts of the group,  *)
(* each in its slot, whatever was loaded before.  The exceptions are a      *)
(* resubmit, which takes no lock, that writes its list at the same time,    *)
(* and the members of a group that the registers have no slots for.         *)
(***************************************************************************)
LoadsOwnList ==
    [][\A t \in Threads : Loads(t) /\ ~thread[t].raced =>
         LET wanted == thread[t].wanted
         IN Taken = SubSeq(wanted, 1, IF setup.port THEN Len(wanted) ELSE Slots)]_vars

(* The ring and the page tables, as the program means them to be *)
Meant(c) ==
    [head |-> At(ctx[c].seen), tail |-> At(ctx[c].tail), base |-> RingOf(c), ctrl |-> CtrlOf(c)]

UsedTables == IF setup.bits >= 48 THEN {0} ELSE 0 .. 3

Updating(c) == \E u \in Threads : thread[u].op = "update" /\ thread[u].of = c

(***************************************************************************)
(* What the engine restores of a context is what the program means: its     *)
(* ring and page tables, the tail of the last submission and the head where *)
(* the engine left it, unless a submission overrides it.  So it is even     *)
(* when a group is loaded while one of its contexts is initialised, and     *)
(* wherever the ring state is; only a resubmit in the middle of an update   *)
(* may see the half of it.                                                  *)
(***************************************************************************)
ImageRestores ==
    [][(\E t \in Threads : Loads(t))
         => \A c \in Loaded : ~Updating(c) =>
              /\ \A r \in RingRegisters : Restored(c)[r] = Meant(c)[r]
              /\ \A k \in UsedTables : /\ Restored(c)[PdpLow[k + 1]] = Table(k)
                                       /\ Restored(c)[PdpHigh[k + 1]] = Table(k)]_vars

(***************************************************************************)
(* When no call is under way the engine has seen the last submission of     *)
(* every context, those of a group that no register has a slot for and      *)
(* those after a race with resubmit apart.  Tails are places of the ring,   *)
(* and registers are written under both locks.                              *)
(***************************************************************************)
HasSlot(c) ==
    ~InGroup(c) \/ setup.port \/ \E i \in 1 .. Slots : setup.members[i] = c

SubmissionsSeen ==
    /\ TypeOK
    /\ ~races /\ (\A t \in Threads : thread[t] = Idle)
        => \A c \in Contexts : ctx[c].ready /\ HasSlot(c) => ctx[c].seen = ctx[c].tail
=============================================================================
