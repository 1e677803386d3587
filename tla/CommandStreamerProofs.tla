------------------------ MODULE CommandStreamerProofs ------------------------
(***************************************************************************)
(* Theorems about CommandStreamer, for any threads, contexts, groups and    *)
(* numbers of slots.                                                        *)
(***************************************************************************)
EXTENDS CommandStreamer, TLAPS

-----------------------------------------------------------------------------
(* The inductive invariant *)

(* What a setup is, whatever calls are left. *)
SetupOK ==
    /\ SetupFields \subseteq DOMAIN setup
    /\ {setup.port, setup.ringData} \subseteq BOOLEAN
    /\ setup.bits \in IF setup.ringData THEN {57} ELSE {32, 48, 57}
    /\ setup.members \in Seq(Contexts) /\ Len(setup.members) >= Slots

(* A thread that initialises a context has made its images, or not yet. *)
Initializing(t) == thread[t].op = "initialize"

Built(c) == ctx[c].ready \/ \E t \in Threads : Initializing(t) /\ thread[t].of = c /\ thread[t].at = 2

(* The thread is in the middle of a submission: the ring data is not updated yet. *)
Submitting(t) == thread[t].op = "update"

ContextOrNone == Contexts \cup {None}

AtInitialize == [op : {"initialize"}, of : Contexts, at : {1, 2}]
AtUpdate == [op : {"update"}, of : Contexts, override : BOOLEAN]
AtWrite == [op : {"write"}, of : Contexts, at : Nat, list : Seq([lo : ContextOrNone, hi : ContextOrNone]),
            wanted : Seq(ContextOrNone), locked : BOOLEAN, raced : BOOLEAN]

ThreadsOK ==
    /\ DOMAIN thread = Threads
    /\ \A t \in Threads :
         \/ thread[t] = Idle
         \/ thread[t] \in AtInitialize /\ ~ctx[thread[t].of].ready
         \/ thread[t] \in AtUpdate /\ ctx[thread[t].of].ready /\ ggttLock = t
         \/ thread[t] \in AtWrite /\ ctx[thread[t].of].ready

ReadyOrNone == {c \in Contexts : ctx[c].ready} \cup {None}

(* A context is with one thread at most. *)
OneThread ==
    \A t, u \in Threads : thread[t] # Idle /\ thread[u] # Idle /\ thread[t].of = thread[u].of => t = u

(* The locks are those of the thread that writes a list under them. *)
LocksOK ==
    /\ {ggttLock, csLock} \subseteq Threads \cup {None}
    /\ \A t \in Threads : csLock = t => Writing(t) /\ thread[t].locked /\ ggttLock = t
    /\ \A t \in Threads : Writing(t) /\ thread[t].locked => csLock = t

(* The list of a thread, and how much of it the hardware has. *)
DwordOf(list, i) ==
    LET d == list[(i + 1) \div 2] IN IF i % 2 = 1 THEN <<"lo", d.lo>> ELSE <<"hi", d.hi>>

ListOK(t) ==
    LET w == thread[t]
    IN /\ w.wanted \in Seq(ReadyOrNone) /\ Len(w.wanted) >= Slots
       /\ w.list = [i \in 1 .. Len(w.wanted) |-> Descriptor(w.wanted[i])]
       /\ w.at \in 1 .. Dwords(w.list) + 1

HasWritten(t) ==
    LET w == thread[t]
    IN IF setup.port THEN Len(port) = w.at - 1 /\ \A i \in 1 .. w.at - 1 : port[i] = DwordOf(w.list, i)
       ELSE \A i \in 1 .. w.at - 1 : slots[i] = DwordOf(w.list, i)

ListsOK ==
    \A t \in Threads :
      Writing(t) => /\ ListOK(t)
                    /\ ~thread[t].raced => /\ HasWritten(t)
                                           /\ \A u \in Threads : Writing(u) => u = t
                    /\ thread[t].raced => races

(* Whatever a load takes was initialised before. *)
Dword == {"lo", "hi"} \X ReadyOrNone

RegistersOK ==
    /\ slots \in Seq(Dword) /\ Len(slots) = 2 * Slots
    /\ port \in Seq(Dword) /\ (setup.port \/ port = << >>)
    /\ (\A t \in Threads : ~Writing(t)) => port = << >>
    /\ races \in BOOLEAN

(* The group has the contexts that are ready, each in its place. *)
GroupOK ==
    /\ contexts \in Seq(ReadyOrNone) /\ Len(contexts) = Len(setup.members)
    /\ \A i \in 1 .. Len(contexts) :
         \/ contexts[i] = setup.members[i]
         \/ contexts[i] = None /\ ~ctx[setup.members[i]].ready

(* Apart from head and tail an image is as it was made. *)
MadeImage(c) == PointTo(setup, initialize(setup, c), c)

LikeMade(image, made, head, tail) ==
    /\ DOMAIN image = DOMAIN made
    /\ \A o \in DOMAIN made : /\ image[o][1] = made[o][1]
                              /\ o \notin {head, tail} => image[o] = made[o]

HeadAt == offsetRingRegisters + offsetRing["head"]
TailAt == offsetRingRegisters + offsetRing["tail"]
DataHead == getRingDataOffset + offsetRing["head"]
DataTail == getRingDataOffset + offsetRing["tail"]

Place == 0 .. RingSize - 1

UpdatingWith(c, o) == \E u \in Threads : Submitting(u) /\ thread[u].of = c /\ thread[u].override = o

ImageOK(c) ==
    /\ LikeMade(ctx[c].image, MadeImage(c), HeadAt, TailAt)
    /\ ~setup.ringData => ctx[c].image[HeadAt][2] = At(ctx[c].seen)
                          /\ ctx[c].image[TailAt][2] = At(ctx[c].tail)

DataOK(c) ==
    LET data == ctx[c].data
        host == ctx[c].hostData
    IN /\ LikeMade(data, initializeRingData(c), DataHead, DataTail)
       /\ \E n \in Place : data[DataTail][2] = At(n)
       /\ ~Updating(c) => data[DataTail][2] = At(ctx[c].tail)
       /\ ~UpdatingWith(c, TRUE) => data[DataHead][2] = At(ctx[c].seen)
       /\ Updating(c) => host[DataTail] = <<"tail", At(ctx[c].tail)>>
       /\ UpdatingWith(c, TRUE) => host[DataHead] = <<"head", At(ctx[c].tail - 1)>> /\ ctx[c].tail # 0

Fields == {"ready", "tail", "seen", "host", "hostData", "image", "data"}

ContextOK(c) ==
    /\ DOMAIN ctx[c] = Fields
    /\ ctx[c].ready \in BOOLEAN /\ ctx[c].tail \in Place /\ ctx[c].seen \in Place
    /\ ~ctx[c].ready => ctx[c].tail = 0 /\ ctx[c].seen = 0
    /\ Built(c) => ImageOK(c) /\ (setup.ringData => DataOK(c))

ContextsOK == DOMAIN ctx = Contexts /\ \A c \in Contexts : ContextOK(c)

(* A submission was seen, or its list will be loaded. *)
WillLoad(c) ==
    \E t \in Threads : Writing(t) /\ c \in {thread[t].wanted[i] : i \in 1 .. IF setup.port THEN Len(thread[t].wanted) ELSE Slots}

SeenOrWaiting ==
    ~races => \A c \in Contexts : ctx[c].ready /\ HasSlot(c) =>
                ctx[c].seen = ctx[c].tail \/ Updating(c) \/ WillLoad(c)

Inv ==
    /\ SetupOK /\ ThreadsOK /\ OneThread /\ LocksOK /\ ListsOK /\ RegistersOK /\ GroupOK
    /\ ContextsOK /\ SeenOrWaiting

-----------------------------------------------------------------------------
(* Images *)

(* The greatest of a set of numbers. *)
LEMMA MaxIs ==
    ASSUME NEW S \in SUBSET Int, NEW m \in S, \A n \in S : n <= m
    PROVE  Max(S) = m
<1>1. \A n \in S : m >= n
  OBVIOUS
<1>2. \A x \in S : (\A n \in S : x >= n) => x = m
  <2> SUFFICES ASSUME NEW x \in S, \A n \in S : x >= n PROVE x = m
    OBVIOUS
  <2>1. x >= m /\ x <= m
    OBVIOUS
  <2> QED
    BY <2>1
<1>3. \E x \in S : \A n \in S : x >= n
  BY <1>1
<1> DEFINE M == CHOOSE x \in S : \A n \in S : x >= n
<1>4. M \in S /\ \A n \in S : M >= n
  BY <1>3
<1>5. M = m
  BY <1>2, <1>4
<1> QED
  BY <1>5 DEF Max

(* A pair in an image. *)
LEMMA PairSet ==
    ASSUME NEW f, NEW at \in DOMAIN f, NEW r, NEW v
    PROVE  /\ DOMAIN SetPair(f, at, r, v) = DOMAIN f
           /\ SetPair(f, at, r, v)[at] = <<r, v>>
           /\ \A o \in DOMAIN f : o # at => SetPair(f, at, r, v)[o] = f[o]
BY DEF SetPair

Lri0 == {2, 4, 6, 8, 10, 12, 14, 16, 18, 20, 22, 24, 26, 28}
Lri1 == {34, 36, 38, 40, 42, 44, 46, 48, 50}
Lri2 == {66}
Offsets == Lri0 \cup Lri1 \cup Lri2

(* Where the loads have their pairs. *)
LEMMA OffsetsAre ==
    /\ LRI(offsetLRI0, numRegsLRI0) = Lri0 /\ LRI(offsetLRI1, numRegsLRI1) = Lri1
    /\ LRI(offsetLRI2, numRegsLRI2) = Lri2 /\ LRI(1, 5) = {2, 4, 6, 8, 10}
    /\ Executed(ImageLoads) = Offsets /\ Executed(RingDataLoads) = {2, 4, 6, 8, 10}
<1>1. offsetLRI0 = 1 /\ numRegsLRI0 = 14 /\ offsetLRI1 = 33 /\ numRegsLRI1 = 9 /\ offsetLRI2 = 65 /\ numRegsLRI2 = 1
  BY DEF offsetLRI0, numRegsLRI0, offsetLRI1, numRegsLRI1, offsetLRI2, numRegsLRI2
<1>2. LRI(1, 14) = Lri0
  <2>1. 0 .. 14 - 1 = {0, 1, 2, 3, 4, 5, 6, 7, 8, 9, 10, 11, 12, 13}
    OBVIOUS
  <2> QED
    BY <2>1 DEF LRI, Lri0
<1>3. LRI(33, 9) = Lri1
  <2>1. 0 .. 9 - 1 = {0, 1, 2, 3, 4, 5, 6, 7, 8}
    OBVIOUS
  <2> QED
    BY <2>1 DEF LRI, Lri1
<1>4. LRI(65, 1) = Lri2
  <2>1. 0 .. 1 - 1 = {0}
    OBVIOUS
  <2> QED
    BY <2>1 DEF LRI, Lri2
<1>5. LRI(1, 5) = {2, 4, 6, 8, 10}
  <2>1. 0 .. 5 - 1 = {0, 1, 2, 3, 4}
    OBVIOUS
  <2> QED
    BY <2>1 DEF LRI
<1>6. Executed(ImageLoads) = LRI(1, 14) \cup LRI(33, 9) \cup LRI(65, 1)
  BY <1>1 DEF Executed, ImageLoads
<1>7. Executed(RingDataLoads) = LRI(1, 5)
  BY DEF Executed, RingDataLoads
<1> QED
  BY <1>1, <1>2, <1>3, <1>4, <1>5, <1>6, <1>7 DEF Offsets

(* The places of the ring and of the page tables. *)
LEMMA PlacesAre ==
    /\ offsetRingRegisters = 4 /\ offsetPageTableRegisters = 36 /\ offsetLRI1 = 33
    /\ offsetRing["head"] = 0 /\ offsetRing["tail"] = 2 /\ offsetRing["base"] = 4
    /\ offsetRing["ctrl"] = 6 /\ offsetRing["bb"] = 8 /\ getRingDataOffset = 2
    /\ offsetPDP[1] = 12 /\ offsetPDP[2] = 8 /\ offsetPDP[3] = 4 /\ offsetPDP[4] = 0
    /\ HeadAt = 4 /\ TailAt = 6 /\ DataHead = 2 /\ DataTail = 4
BY DEF offsetRingRegisters, offsetPageTableRegisters, offsetLRI0, offsetLRI1, numRegsLRI0, offsetRing,
       offsetPDP, getRingDataOffset, HeadAt, TailAt, DataHead, DataTail

(* A context without page tables. *)
LEMMA BlankIs ==
    /\ DOMAIN Blank(setup) = Offsets
    /\ \A o \in Lri0 : Blank(setup)[o] = <<"ctxtSr", <<"indirect", IF setup.ringData THEN 1 ELSE 0>>>>
    /\ \A o \in Lri1 : Blank(setup)[o] = <<"debugMode", <<"zero", 0>>>>
    /\ \A o \in Lri2 : Blank(setup)[o] = <<"nopId", <<"zero", 0>>>>
<1> DEFINE B == [o \in Lri0 \cup Lri1 \cup Lri2 |->
                   IF o \in Lri0 THEN <<"ctxtSr", <<"indirect", IF setup.ringData THEN 1 ELSE 0>>>>
                   ELSE IF o \in Lri1 THEN <<"debugMode", <<"zero", 0>>>>
                   ELSE <<"nopId", <<"zero", 0>>>>]
<1>1. Blank(setup) = B
  BY OffsetsAre DEF Blank, getInitialContextSaveRestoreCtrlValue
<1>2. Lri1 \cap Lri0 = {} /\ Lri2 \cap (Lri0 \cup Lri1) = {}
  BY DEF Lri0, Lri1, Lri2
<1> QED
  BY <1>1, <1>2 DEF Offsets

RingImage(c) ==
    LET ring == setRing(setRing(Blank(setup), "head", At(0)), "tail", At(0))
    IN setBbCurrentHeadReg(setRing(setRing(ring, "base", RingOf(c)), "ctrl", CtrlOf(c)))

(* The registers of the ring. *)
LEMMA RingImageIs ==
    ASSUME NEW c
    PROVE  LET f == RingImage(c)
           IN /\ DOMAIN f = Offsets
              /\ f[4] = <<"head", At(0)>> /\ f[6] = <<"tail", At(0)>>
              /\ f[8] = <<"base", RingOf(c)>> /\ f[10] = <<"ctrl", CtrlOf(c)>>
              /\ f[12][1] = "bb" /\ f[14][1] = "bbHigh"
              /\ \A o \in Offsets \ {4, 6, 8, 10, 12, 14} : f[o] = Blank(setup)[o]
<1> DEFINE f0 == Blank(setup)
           f1 == SetPair(f0, 4, "head", At(0))
           f2 == SetPair(f1, 6, "tail", At(0))
           f3 == SetPair(f2, 8, "base", RingOf(c))
           f4 == SetPair(f3, 10, "ctrl", CtrlOf(c))
           f5 == SetPair(f4, 12, "bb", <<"zero", 0>>)
           f6 == SetPair(f5, 14, "bbHigh", <<"zero", 0>>)
<1>1. RingImage(c) = f6
  BY PlacesAre DEF RingImage, setBbCurrentHeadReg, setRing
<1> HIDE DEF f0, f1, f2, f3, f4, f5, f6
<1>2. {4, 6, 8, 10, 12, 14} \subseteq Offsets
  BY DEF Offsets, Lri0
<1>3. DOMAIN f0 = Offsets
  BY BlankIs DEF f0
<1>4. /\ DOMAIN f1 = Offsets /\ f1[4] = <<"head", At(0)>>
      /\ \A o \in Offsets : o # 4 => f1[o] = f0[o]
  BY <1>2, <1>3, PairSet DEF f1
<1>5. /\ DOMAIN f2 = Offsets /\ f2[6] = <<"tail", At(0)>>
      /\ \A o \in Offsets : o # 6 => f2[o] = f1[o]
  BY <1>2, <1>4, PairSet DEF f2
<1>6. /\ DOMAIN f3 = Offsets /\ f3[8] = <<"base", RingOf(c)>>
      /\ \A o \in Offsets : o # 8 => f3[o] = f2[o]
  BY <1>2, <1>5, PairSet DEF f3
<1>7. /\ DOMAIN f4 = Offsets /\ f4[10] = <<"ctrl", CtrlOf(c)>>
      /\ \A o \in Offsets : o # 10 => f4[o] = f3[o]
  BY <1>2, <1>6, PairSet DEF f4
<1>8. /\ DOMAIN f5 = Offsets /\ f5[12] = <<"bb", <<"zero", 0>>>>
      /\ \A o \in Offsets : o # 12 => f5[o] = f4[o]
  BY <1>2, <1>7, PairSet DEF f5
<1>9. /\ DOMAIN f6 = Offsets /\ f6[14] = <<"bbHigh", <<"zero", 0>>>>
      /\ \A o \in Offsets : o # 14 => f6[o] = f5[o]
  BY <1>2, <1>8, PairSet DEF f6
<1>10. /\ f6[4] = <<"head", At(0)>> /\ f6[6] = <<"tail", At(0)>>
       /\ f6[8] = <<"base", RingOf(c)>> /\ f6[10] = <<"ctrl", CtrlOf(c)>>
       /\ f6[12][1] = "bb" /\ f6[14][1] = "bbHigh"
  BY <1>2, <1>4, <1>5, <1>6, <1>7, <1>8, <1>9
<1>11. \A o \in Offsets \ {4, 6, 8, 10, 12, 14} : f6[o] = f0[o]
  BY <1>4, <1>5, <1>6, <1>7, <1>8, <1>9
<1> QED
  BY <1>1, <1>9, <1>10, <1>11 DEF f0

(* The page tables, from one root or four children: PDP3 is first in the image. *)
LEMMA PageTableIs ==
    ASSUME SetupOK, NEW c
    PROVE  LET f == initialize(setup, c)
           IN /\ DOMAIN f = Offsets
              /\ \A k \in UsedTables : /\ f[48 - 4 * k] = <<PdpHigh[k + 1], Table(k)>>
                                       /\ f[50 - 4 * k] = <<PdpLow[k + 1], Table(k)>>
              /\ \A o \in Offsets : (\A k \in UsedTables : o # 48 - 4 * k /\ o # 50 - 4 * k)
                                      => f[o] = RingImage(c)[o]
<1> DEFINE f == RingImage(c)
           P(g, k) == SetPair(SetPair(g, 48 - 4 * k, PdpHigh[k + 1], Table(k)), 50 - 4 * k, PdpLow[k + 1], Table(k))
<1>1. initialize(setup, c) = PageTableOf(setup, f)
  BY DEF initialize, RingImage
<1>2. \A g : \A k \in {0, 1, 2, 3} : setPDP(g, k, Table(k)) = P(g, k)
  <2> SUFFICES ASSUME NEW g, NEW k \in {0, 1, 2, 3} PROVE setPDP(g, k, Table(k)) = P(g, k)
    OBVIOUS
  <2> DEFINE at == offsetPageTableRegisters + offsetPDP[k + 1]
  <2>1. at = 48 - 4 * k /\ at + 2 = 50 - 4 * k
    BY PlacesAre
  <2> HIDE DEF at
  <2>2. setPDP(g, k, Table(k)) = SetPair(SetPair(g, at, PdpHigh[k + 1], Table(k)), at + 2, PdpLow[k + 1], Table(k))
    BY DEF setPDP, at
  <2> QED
    BY <2>1, <2>2
<1>3. ASSUME NEW g, DOMAIN g = Offsets, NEW k \in {0, 1, 2, 3}
      PROVE  /\ DOMAIN P(g, k) = Offsets
             /\ P(g, k)[48 - 4 * k] = <<PdpHigh[k + 1], Table(k)>>
             /\ P(g, k)[50 - 4 * k] = <<PdpLow[k + 1], Table(k)>>
             /\ \A o \in Offsets : o # 48 - 4 * k /\ o # 50 - 4 * k => P(g, k)[o] = g[o]
  <2> DEFINE a == 48 - 4 * k
             b == 50 - 4 * k
             h == SetPair(g, a, PdpHigh[k + 1], Table(k))
  <2>1. a \in Offsets /\ b \in Offsets /\ a # b
    BY DEF Offsets, Lri1
  <2> HIDE DEF a, b, h
  <2>2. /\ DOMAIN h = Offsets /\ h[a] = <<PdpHigh[k + 1], Table(k)>>
        /\ \A o \in Offsets : o # a => h[o] = g[o]
    BY <1>3, <2>1, PairSet DEF h
  <2> DEFINE i == SetPair(h, b, PdpLow[k + 1], Table(k))
  <2>3. /\ DOMAIN i = Offsets /\ i[b] = <<PdpLow[k + 1], Table(k)>>
        /\ \A o \in Offsets : o # b => i[o] = h[o]
    BY <2>1, <2>2, PairSet
  <2>4. i = P(g, k)
    BY DEF i, h, a, b
  <2> HIDE DEF i, P
  <2>5. /\ DOMAIN P(g, k) = Offsets
        /\ P(g, k)[a] = <<PdpHigh[k + 1], Table(k)>> /\ P(g, k)[b] = <<PdpLow[k + 1], Table(k)>>
        /\ \A o \in Offsets : o # a /\ o # b => P(g, k)[o] = g[o]
    BY <2>1, <2>2, <2>3, <2>4
  <2> QED
    BY <2>5 DEF a, b
<1> HIDE DEF P
<1>4. DOMAIN f = Offsets
  BY RingImageIs
<1> HIDE DEF f
<1>5. CASE setup.bits >= 48
  <2>1. UsedTables = {0}
    BY <1>5 DEF UsedTables
  <2>2. initialize(setup, c) = P(f, 0)
    BY <1>1, <1>2, <1>5 DEF PageTableOf
  <2> QED
    BY <1>3, <1>4, <2>1, <2>2 DEF f
<1>6. CASE ~(setup.bits >= 48)
  <2>1. UsedTables = {0, 1, 2, 3}
    BY <1>6 DEF UsedTables
  <2> DEFINE g1 == P(f, 0)
             g2 == P(g1, 1)
             g3 == P(g2, 2)
             g4 == P(g3, 3)
  <2>2. initialize(setup, c) = g4
    BY <1>1, <1>2, <1>6 DEF PageTableOf
  <2> HIDE DEF g1, g2, g3, g4
  <2>3. /\ DOMAIN g1 = Offsets /\ g1[48] = <<PdpHigh[1], Table(0)>> /\ g1[50] = <<PdpLow[1], Table(0)>>
        /\ \A o \in Offsets : o # 48 /\ o # 50 => g1[o] = f[o]
    BY <1>3, <1>4 DEF g1
  <2>4. /\ DOMAIN g2 = Offsets /\ g2[44] = <<PdpHigh[2], Table(1)>> /\ g2[46] = <<PdpLow[2], Table(1)>>
        /\ \A o \in Offsets : o # 44 /\ o # 46 => g2[o] = g1[o]
    BY <1>3, <2>3 DEF g2
  <2>5. /\ DOMAIN g3 = Offsets /\ g3[40] = <<PdpHigh[3], Table(2)>> /\ g3[42] = <<PdpLow[3], Table(2)>>
        /\ \A o \in Offsets : o # 40 /\ o # 42 => g3[o] = g2[o]
    BY <1>3, <2>4 DEF g3
  <2>6. /\ DOMAIN g4 = Offsets /\ g4[36] = <<PdpHigh[4], Table(3)>> /\ g4[38] = <<PdpLow[4], Table(3)>>
        /\ \A o \in Offsets : o # 36 /\ o # 38 => g4[o] = g3[o]
    BY <1>3, <2>5 DEF g4
  <2>7. {36, 38, 40, 42, 44, 46, 48, 50} \subseteq Offsets
    BY DEF Offsets, Lri1
  <2>8. \A k \in UsedTables : /\ g4[48 - 4 * k] = <<PdpHigh[k + 1], Table(k)>>
                              /\ g4[50 - 4 * k] = <<PdpLow[k + 1], Table(k)>>
    BY <2>1, <2>3, <2>4, <2>5, <2>6, <2>7
  <2>9. \A o \in Offsets : (\A k \in UsedTables : o # 48 - 4 * k /\ o # 50 - 4 * k) => g4[o] = f[o]
    <3> SUFFICES ASSUME NEW o \in Offsets, \A k \in UsedTables : o # 48 - 4 * k /\ o # 50 - 4 * k
                 PROVE  g4[o] = f[o]
      OBVIOUS
    <3>1. o # 36 /\ o # 38 /\ o # 40 /\ o # 42 /\ o # 44 /\ o # 46 /\ o # 48 /\ o # 50
      BY <2>1
    <3> QED
      BY <2>3, <2>4, <2>5, <2>6, <3>1
  <2> QED
    BY <2>2, <2>6, <2>8, <2>9 DEF f
<1> QED
  BY <1>5, <1>6

(* What initialize() leaves in memory: where each register is, and that it is nowhere else. *)
LEMMA MadeImageIs ==
    ASSUME SetupOK, NEW c
    PROVE  LET f == MadeImage(c)
           IN /\ DOMAIN f = Offsets
              /\ f[4] = <<"head", At(0)>> /\ f[6] = <<"tail", At(0)>>
              /\ f[8] = <<"base", RingOf(c)>> /\ f[10] = <<"ctrl", CtrlOf(c)>>
              /\ \A k \in UsedTables : /\ f[48 - 4 * k] = <<PdpHigh[k + 1], Table(k)>>
                                       /\ f[50 - 4 * k] = <<PdpLow[k + 1], Table(k)>>
              /\ f[28] = <<"ctxtSr", <<"indirect", IF setup.ringData THEN 1 ELSE 0>>>>
              /\ setup.ringData => f[38] = <<"indirectRingState", <<"data", c>>>>
              /\ \A o \in Offsets :
                   /\ f[o][1] = "head" => o = 4
                   /\ f[o][1] = "tail" => o = 6
                   /\ f[o][1] = "base" => o = 8
                   /\ f[o][1] = "ctrl" => o = 10
                   /\ f[o][1] = "ctxtSr" => o <= 28
                   /\ f[o][1] = "indirectRingState" => o = 38
                   /\ \A k \in UsedTables : /\ f[o][1] = PdpHigh[k + 1] => o = 48 - 4 * k
                                            /\ f[o][1] = PdpLow[k + 1] => o = 50 - 4 * k
<1> DEFINE f == MadeImage(c)
           g == initialize(setup, c)
           R == {4, 6, 8, 10, 12, 14}
           T == {48 - 4 * k : k \in UsedTables} \cup {50 - 4 * k : k \in UsedTables}
           P == IF setup.ringData THEN {38} ELSE {}
           N == RingRegisters \cup {"bb", "bbHigh", "indirectRingState", "ctxtSr", "debugMode", "nopId"}
<1>1. UsedTables = {0} \/ (UsedTables = {0, 1, 2, 3} /\ ~setup.ringData)
  BY DEF UsedTables, SetupOK
<1>2. T \subseteq {36, 38, 40, 42, 44, 46, 48, 50} /\ (setup.ringData => T \subseteq {48, 50})
  BY <1>1
<1>3. /\ DOMAIN g = Offsets
      /\ \A k \in UsedTables : /\ g[48 - 4 * k] = <<PdpHigh[k + 1], Table(k)>>
                               /\ g[50 - 4 * k] = <<PdpLow[k + 1], Table(k)>>
      /\ \A o \in Offsets \ T : g[o] = RingImage(c)[o]
  BY PageTableIs
<1>4. /\ DOMAIN f = Offsets
      /\ setup.ringData => f[38] = <<"indirectRingState", <<"data", c>>>>
      /\ \A o \in Offsets \ P : f[o] = g[o]
  <2>1. CASE setup.ringData
    <3>1. f = SetPair(g, 38, "indirectRingState", <<"data", c>>)
      BY <2>1, PlacesAre DEF MadeImage, PointTo
    <3>2. 38 \in Offsets
      BY DEF Offsets, Lri1
    <3> HIDE DEF f, g
    <3> QED
      BY <2>1, <3>1, <3>2, <1>3, PairSet
  <2>2. CASE ~setup.ringData
    <3>1. f = g
      BY <2>2 DEF MadeImage, PointTo
    <3> QED
      BY <2>2, <3>1, <1>3
  <2> QED
    BY <2>1, <2>2
<1>5. /\ RingImage(c)[4] = <<"head", At(0)>> /\ RingImage(c)[6] = <<"tail", At(0)>>
      /\ RingImage(c)[8] = <<"base", RingOf(c)>> /\ RingImage(c)[10] = <<"ctrl", CtrlOf(c)>>
      /\ RingImage(c)[12][1] = "bb" /\ RingImage(c)[14][1] = "bbHigh"
      /\ \A o \in Offsets \ R : RingImage(c)[o] = Blank(setup)[o]
  BY RingImageIs
<1> HIDE DEF f, g
<1>6. R \cup {28, 38} \subseteq Offsets /\ R \cap (T \cup P) = {} /\ 28 \notin R \cup T \cup P
  BY <1>2 DEF Offsets, Lri0, Lri1
<1>7. /\ f[4] = <<"head", At(0)>> /\ f[6] = <<"tail", At(0)>>
      /\ f[8] = <<"base", RingOf(c)>> /\ f[10] = <<"ctrl", CtrlOf(c)>>
      /\ f[12][1] = "bb" /\ f[14][1] = "bbHigh"
  <2> HIDE DEF T, P
  <2>1. \A o \in R : o \in Offsets \ T /\ o \in Offsets \ P
    BY <1>6
  <2>2. \A o \in R : f[o] = RingImage(c)[o]
    BY <2>1, <1>3, <1>4
  <2> QED
    BY <2>2, <1>5
<1>8. f[28] = <<"ctxtSr", <<"indirect", IF setup.ringData THEN 1 ELSE 0>>>>
  BY <1>3, <1>4, <1>5, <1>6, BlankIs DEF Lri0
<1>9. T \cap P = {} /\ T \subseteq Offsets
  BY <1>2 DEF Offsets, Lri1
<1>10. \A k \in UsedTables : /\ f[48 - 4 * k] = <<PdpHigh[k + 1], Table(k)>>
                             /\ f[50 - 4 * k] = <<PdpLow[k + 1], Table(k)>>
  <2> SUFFICES ASSUME NEW k \in UsedTables
               PROVE  /\ f[48 - 4 * k] = <<PdpHigh[k + 1], Table(k)>>
                      /\ f[50 - 4 * k] = <<PdpLow[k + 1], Table(k)>>
    OBVIOUS
  <2>1. 48 - 4 * k \in T /\ 50 - 4 * k \in T
    OBVIOUS
  <2> HIDE DEF T, P
  <2>2. /\ 48 - 4 * k \in Offsets \ P /\ 50 - 4 * k \in Offsets \ P
    BY <2>1, <1>9
  <2>3. f[48 - 4 * k] = g[48 - 4 * k] /\ f[50 - 4 * k] = g[50 - 4 * k]
    BY <2>2, <1>4
  <2> QED
    BY <2>3, <1>3
(* Everywhere else: what the blank image has. *)
<1>11. \A o \in Offsets \ (R \cup T \cup P) :
         /\ f[o][1] \in {"ctxtSr", "debugMode", "nopId"}
         /\ f[o][1] = "ctxtSr" => o <= 28
  <2> SUFFICES ASSUME NEW o \in Offsets \ (R \cup T \cup P)
               PROVE  /\ f[o][1] \in {"ctxtSr", "debugMode", "nopId"}
                      /\ f[o][1] = "ctxtSr" => o <= 28
    OBVIOUS
  <2>1. f[o] = Blank(setup)[o]
    BY <1>3, <1>4, <1>5
  <2>2. CASE o \in Lri0
    BY <2>1, <2>2, BlankIs DEF Lri0
  <2>3. CASE o \in Lri1
    BY <2>1, <2>3, BlankIs
  <2>4. CASE o \in Lri2
    BY <2>1, <2>4, BlankIs
  <2> QED
    BY <2>2, <2>3, <2>4 DEF Offsets
<1>12. \A o \in T : \E k \in UsedTables : (o = 48 - 4 * k /\ f[o][1] = PdpHigh[k + 1]) \/ (o = 50 - 4 * k /\ f[o][1] = PdpLow[k + 1])
  BY <1>10
<1> DEFINE H == PdpHigh
           L == PdpLow
<1>13. /\ L[1] = "pdp0" /\ L[2] = "pdp1" /\ L[3] = "pdp2" /\ L[4] = "pdp3"
       /\ H[1] = "pdp0High" /\ H[2] = "pdp1High" /\ H[3] = "pdp2High" /\ H[4] = "pdp3High"
  BY DEF PdpLow, PdpHigh
<1> HIDE DEF H, L, T, P
<1>14. ASSUME NEW o \in T
       PROVE  /\ f[o][1] \notin {"head", "tail", "base", "ctrl", "ctxtSr", "indirectRingState"}
              /\ \A k \in UsedTables : /\ f[o][1] = H[k + 1] => o = 48 - 4 * k
                                       /\ f[o][1] = L[k + 1] => o = 50 - 4 * k
  <2>1. PICK k \in UsedTables : (o = 48 - 4 * k /\ f[o][1] = H[k + 1]) \/ (o = 50 - 4 * k /\ f[o][1] = L[k + 1])
    BY <1>12, <1>14 DEF H, L
  <2>2. k \in {0, 1, 2, 3} /\ UsedTables \subseteq {0, 1, 2, 3}
    BY <1>1
  <2>3. H[k + 1] \notin {"head", "tail", "base", "ctrl", "ctxtSr", "indirectRingState"}
        /\ L[k + 1] \notin {"head", "tail", "base", "ctrl", "ctxtSr", "indirectRingState"}
    BY <2>2, <1>13
  <2>4. \A j \in {0, 1, 2, 3} : /\ H[k + 1] = H[j + 1] => k = j
                                /\ L[k + 1] = L[j + 1] => k = j
                                /\ H[k + 1] # L[j + 1] /\ L[k + 1] # H[j + 1]
    BY <2>2, <1>13
  <2> QED
    BY <2>1, <2>2, <2>3, <2>4
<1>15. ASSUME NEW o \in Offsets \ T
       PROVE  /\ f[o][1] = "head" => o = 4
              /\ f[o][1] = "tail" => o = 6
              /\ f[o][1] = "base" => o = 8
              /\ f[o][1] = "ctrl" => o = 10
              /\ f[o][1] = "ctxtSr" => o <= 28
              /\ f[o][1] = "indirectRingState" => o = 38
              /\ \A k \in UsedTables : f[o][1] # H[k + 1] /\ f[o][1] # L[k + 1]
  <2>1. UsedTables \subseteq {0, 1, 2, 3}
    BY <1>1
  <2> DEFINE Others == {"head", "tail", "base", "ctrl", "bb", "bbHigh", "ctxtSr", "indirectRingState", "debugMode", "nopId"}
  <2>2. f[o][1] \in Others => \A k \in UsedTables : f[o][1] # H[k + 1] /\ f[o][1] # L[k + 1]
    <3>1. \A k \in {0, 1, 2, 3} : H[k + 1] \notin Others /\ L[k + 1] \notin Others
      BY <1>13
    <3> HIDE DEF Others
    <3> QED
      BY <2>1, <3>1
  <2>3. CASE o \in R
    <3>1. \/ (o = 4 /\ f[o][1] = "head") \/ (o = 6 /\ f[o][1] = "tail")
          \/ (o = 8 /\ f[o][1] = "base") \/ (o = 10 /\ f[o][1] = "ctrl")
          \/ (o = 12 /\ f[o][1] = "bb") \/ (o = 14 /\ f[o][1] = "bbHigh")
      BY <2>3, <1>7
    <3> QED
      BY <2>2, <3>1
  <2>4. CASE o \in P
    <3>1. o = 38 /\ f[o][1] = "indirectRingState"
      BY <2>4, <1>4 DEF P
    <3> QED
      BY <2>2, <3>1
  <2>5. CASE o \notin R \cup T \cup P
    BY <2>1, <2>2, <2>5, <1>11, <1>15
  <2> QED
    BY <2>3, <2>4, <2>5, <1>15
<1>16. \A o \in Offsets :
         /\ f[o][1] = "head" => o = 4
         /\ f[o][1] = "tail" => o = 6
         /\ f[o][1] = "base" => o = 8
         /\ f[o][1] = "ctrl" => o = 10
         /\ f[o][1] = "ctxtSr" => o <= 28
         /\ f[o][1] = "indirectRingState" => o = 38
         /\ \A k \in UsedTables : /\ f[o][1] = PdpHigh[k + 1] => o = 48 - 4 * k
                                  /\ f[o][1] = PdpLow[k + 1] => o = 50 - 4 * k
  <2> SUFFICES ASSUME NEW o \in Offsets
               PROVE  /\ f[o][1] = "head" => o = 4
                      /\ f[o][1] = "tail" => o = 6
                      /\ f[o][1] = "base" => o = 8
                      /\ f[o][1] = "ctrl" => o = 10
                      /\ f[o][1] = "ctxtSr" => o <= 28
                      /\ f[o][1] = "indirectRingState" => o = 38
                      /\ \A k \in UsedTables : /\ f[o][1] = PdpHigh[k + 1] => o = 48 - 4 * k
                                               /\ f[o][1] = PdpLow[k + 1] => o = 50 - 4 * k
    OBVIOUS
  <2>1. CASE o \in T
    BY <2>1, <1>14 DEF H, L
  <2>2. CASE o \notin T
    BY <2>2, <1>15 DEF H, L
  <2> QED
    BY <2>1, <2>2
<1> QED
  BY <1>4, <1>7, <1>8, <1>10, <1>16 DEF f

(* The ring state beside the image. *)
LEMMA MadeDataIs ==
    ASSUME NEW c
    PROVE  LET f == initializeRingData(c)
           IN /\ DOMAIN f = {2, 4, 6, 8, 10}
              /\ f[2] = <<"head", At(0)>> /\ f[4] = <<"tail", At(0)>> /\ f[6] = <<"base", RingOf(c)>>
              /\ f[8][1] = "reg2048" /\ f[10] = <<"ctrl", CtrlOf(c)>>
<1> DEFINE f0 == << >>
           f1 == SetPair(f0, 2, "head", At(0))
           f2 == SetPair(f1, 4, "tail", At(0))
           f3 == SetPair(f2, 6, "base", RingOf(c))
           f4 == SetPair(f3, 8, "reg2048", <<"zero", 0>>)
           f5 == SetPair(f4, 10, "ctrl", CtrlOf(c))
<1>1. initializeRingData(c) = f5
  BY PlacesAre DEF initializeRingData, setRingData
<1>3. DOMAIN f0 = {}
  OBVIOUS
<1>4. DOMAIN f1 = {2} /\ f1[2] = <<"head", At(0)>>
  <2> HIDE DEF f0
  <2> QED
    BY <1>3 DEF SetPair
<1> HIDE DEF f1
<1>5. DOMAIN f2 = {2, 4} /\ f2[2] = f1[2] /\ f2[4] = <<"tail", At(0)>>
  BY <1>4 DEF SetPair
<1> HIDE DEF f2
<1>6. DOMAIN f3 = {2, 4, 6} /\ f3[2] = f2[2] /\ f3[4] = f2[4] /\ f3[6] = <<"base", RingOf(c)>>
  BY <1>5 DEF SetPair
<1> HIDE DEF f3
<1>7. /\ DOMAIN f4 = {2, 4, 6, 8} /\ f4[2] = f3[2] /\ f4[4] = f3[4] /\ f4[6] = f3[6]
      /\ f4[8] = <<"reg2048", <<"zero", 0>>>>
  BY <1>6 DEF SetPair
<1> HIDE DEF f4
<1>8. /\ DOMAIN f5 = {2, 4, 6, 8, 10} /\ f5[2] = f4[2] /\ f5[4] = f4[4] /\ f5[6] = f4[6]
      /\ f5[8] = f4[8] /\ f5[10] = <<"ctrl", CtrlOf(c)>>
  BY <1>7 DEF SetPair
<1> HIDE DEF f5
<1> QED
  BY <1>1, <1>4, <1>5, <1>6, <1>7, <1>8

(* A register that is in one place, or last in this one, gets the value there. *)
LEMMA ValueIs ==
    ASSUME NEW image, NEW loads, NEW S \in SUBSET Int, Executed(loads) \cap DOMAIN image = S,
           NEW r, NEW m \in S, image[m][1] = r, \A o \in S : image[o][1] = r => o <= m
    PROVE  Value(image, loads, r) = image[m][2]
<1> DEFINE at == {o \in Executed(loads) \cap DOMAIN image : image[o][1] = r}
<1>1. at \in SUBSET Int /\ m \in at /\ at # {} /\ \A n \in at : n <= m
  OBVIOUS
<1>2. Value(image, loads, r) = IF at = {} THEN <<None, 0>> ELSE image[Max(at)][2]
  BY DEF Value
<1> HIDE DEF at
<1>3. Max(at) = m
  BY <1>1, MaxIs
<1> QED
  BY <1>1, <1>2, <1>3

(* What the engine restores of an image that is as it was made, but for head and tail. *)
LEMMA RestoredIs ==
    ASSUME SetupOK, NEW c,
           LikeMade(ctx[c].image, MadeImage(c), HeadAt, TailAt),
           setup.ringData => LikeMade(ctx[c].data, initializeRingData(c), DataHead, DataTail)
    PROVE  /\ \A k \in UsedTables : /\ Restored(c)[PdpLow[k + 1]] = Table(k)
                                    /\ Restored(c)[PdpHigh[k + 1]] = Table(k)
           /\ Restored(c)["base"] = RingOf(c) /\ Restored(c)["ctrl"] = CtrlOf(c)
           /\ Restored(c)["head"] = IF setup.ringData THEN ctx[c].data[DataHead][2]
                                    ELSE ctx[c].image[HeadAt][2]
           /\ Restored(c)["tail"] = IF setup.ringData THEN ctx[c].data[DataTail][2]
                                    ELSE ctx[c].image[TailAt][2]
<1> DEFINE im == ctx[c].image
           d == ctx[c].data
           made == MadeImage(c)
           md == initializeRingData(c)
<1>1. /\ DOMAIN im = Offsets /\ DOMAIN made = Offsets
      /\ \A o \in Offsets : im[o][1] = made[o][1] /\ (o # 4 /\ o # 6 => im[o] = made[o])
  BY PlacesAre, MadeImageIs DEF LikeMade
<1>2. /\ Executed(ImageLoads) = Offsets /\ Executed(ImageLoads) \cap DOMAIN im = Offsets
      /\ Offsets \subseteq Int
  BY <1>1, OffsetsAre DEF Offsets, Lri0, Lri1, Lri2
<1>3. {4, 6, 8, 10, 28, 38} \subseteq Offsets
  BY DEF Offsets, Lri0, Lri1
<1>4. UsedTables \subseteq {0, 1, 2, 3} /\ \A k \in UsedTables : 48 - 4 * k \in Offsets /\ 50 - 4 * k \in Offsets
  BY DEF UsedTables, Offsets, Lri1
<1>5. /\ made[4] = <<"head", At(0)>> /\ made[6] = <<"tail", At(0)>>
      /\ made[8] = <<"base", RingOf(c)>> /\ made[10] = <<"ctrl", CtrlOf(c)>>
      /\ \A k \in UsedTables : /\ made[48 - 4 * k] = <<PdpHigh[k + 1], Table(k)>>
                               /\ made[50 - 4 * k] = <<PdpLow[k + 1], Table(k)>>
      /\ made[28] = <<"ctxtSr", <<"indirect", IF setup.ringData THEN 1 ELSE 0>>>>
      /\ setup.ringData => made[38] = <<"indirectRingState", <<"data", c>>>>
      /\ \A o \in Offsets :
           /\ made[o][1] = "head" => o = 4
           /\ made[o][1] = "tail" => o = 6
           /\ made[o][1] = "base" => o = 8
           /\ made[o][1] = "ctrl" => o = 10
           /\ made[o][1] = "ctxtSr" => o <= 28
           /\ made[o][1] = "indirectRingState" => o = 38
           /\ \A k \in UsedTables : /\ made[o][1] = PdpHigh[k + 1] => o = 48 - 4 * k
                                    /\ made[o][1] = PdpLow[k + 1] => o = 50 - 4 * k
  BY MadeImageIs
<1>6. setup.ringData =>
        /\ DOMAIN d = {2, 4, 6, 8, 10}
        /\ d[2][1] = "head" /\ d[4][1] = "tail" /\ d[6] = <<"base", RingOf(c)>>
        /\ d[8][1] = "reg2048" /\ d[10] = <<"ctrl", CtrlOf(c)>>
  BY PlacesAre, MadeDataIs DEF LikeMade
<1> HIDE DEF im, d, made, md
<1> DEFINE V(r) == Value(im, ImageLoads, r)
           W(r) == Value(d, RingDataLoads, r)
<1>7. ASSUME NEW m \in Offsets, NEW r, im[m][1] = r, \A o \in Offsets : im[o][1] = r => o <= m
      PROVE  V(r) = im[m][2]
  <2>1. Value(im, ImageLoads, r) = im[m][2]
    BY <1>2, <1>7, ValueIs
  <2> QED
    BY <2>1
<1> HIDE DEF V
<1>8. V("ctxtSr") = <<"indirect", IF setup.ringData THEN 1 ELSE 0>>
  <2>1. im[28] = made[28]
    BY <1>1, <1>3
  <2>2. \A o \in Offsets : im[o][1] = "ctxtSr" => o <= 28
    BY <1>1, <1>5
  <2> QED
    BY <1>3, <1>5, <1>7, <2>1, <2>2
<1>9. setup.ringData => V("indirectRingState") = <<"data", c>>
  <2> SUFFICES ASSUME setup.ringData PROVE V("indirectRingState") = <<"data", c>>
    OBVIOUS
  <2>1. im[38] = made[38]
    BY <1>1, <1>3
  <2>2. \A o \in Offsets : im[o][1] = "indirectRingState" => o <= 38
    BY <1>1, <1>5
  <2> QED
    BY <1>3, <1>5, <1>7, <2>1, <2>2
<1>10. \A k \in UsedTables : V(PdpLow[k + 1]) = Table(k) /\ V(PdpHigh[k + 1]) = Table(k)
  <2> SUFFICES ASSUME NEW k \in UsedTables PROVE V(PdpLow[k + 1]) = Table(k) /\ V(PdpHigh[k + 1]) = Table(k)
    OBVIOUS
  <2> DEFINE a == 48 - 4 * k
             b == 50 - 4 * k
  <2>1. a \in Offsets /\ b \in Offsets /\ a # 4 /\ a # 6 /\ b # 4 /\ b # 6 /\ a \in Int /\ b \in Int
    BY <1>4
  <2>2. /\ made[a] = <<PdpHigh[k + 1], Table(k)>> /\ made[b] = <<PdpLow[k + 1], Table(k)>>
        /\ \A o \in Offsets : /\ made[o][1] = PdpHigh[k + 1] => o = a
                              /\ made[o][1] = PdpLow[k + 1] => o = b
    BY <1>5
  <2> HIDE DEF a, b
  <2>3. im[a] = made[a] /\ im[b] = made[b]
    BY <1>1, <2>1
  <2>4. /\ \A o \in Offsets : im[o][1] = PdpHigh[k + 1] => o <= a
        /\ \A o \in Offsets : im[o][1] = PdpLow[k + 1] => o <= b
    BY <1>1, <2>1, <2>2
  <2>5. V(PdpHigh[k + 1]) = im[a][2]
    BY <1>7, <2>1, <2>2, <2>3, <2>4
  <2>6. V(PdpLow[k + 1]) = im[b][2]
    BY <1>7, <2>1, <2>2, <2>3, <2>4
  <2> QED
    BY <2>2, <2>3, <2>5, <2>6
<1>11. V("head") = im[4][2] /\ V("tail") = im[6][2] /\ V("base") = RingOf(c) /\ V("ctrl") = CtrlOf(c)
  <2>1. im[4][1] = "head" /\ im[6][1] = "tail" /\ im[8] = made[8] /\ im[10] = made[10]
    BY <1>1, <1>3, <1>5
  <2>2. /\ \A o \in Offsets : im[o][1] = "head" => o <= 4
        /\ \A o \in Offsets : im[o][1] = "tail" => o <= 6
        /\ \A o \in Offsets : im[o][1] = "base" => o <= 8
        /\ \A o \in Offsets : im[o][1] = "ctrl" => o <= 10
    BY <1>1, <1>5
  <2>3. V("head") = im[4][2]
    BY <1>3, <1>7, <2>1, <2>2
  <2>4. V("tail") = im[6][2]
    BY <1>3, <1>7, <2>1, <2>2
  <2>5. V("base") = im[8][2]
    BY <1>3, <1>5, <1>7, <2>1, <2>2
  <2>6. V("ctrl") = im[10][2]
    BY <1>3, <1>5, <1>7, <2>1, <2>2
  <2> QED
    BY <1>5, <2>1, <2>3, <2>4, <2>5, <2>6
<1>12. setup.ringData => /\ W("head") = d[2][2] /\ W("tail") = d[4][2]
                         /\ W("base") = RingOf(c) /\ W("ctrl") = CtrlOf(c)
  <2> SUFFICES ASSUME setup.ringData
               PROVE  /\ W("head") = d[2][2] /\ W("tail") = d[4][2]
                      /\ W("base") = RingOf(c) /\ W("ctrl") = CtrlOf(c)
    OBVIOUS
  <2> DEFINE D == {2, 4, 6, 8, 10}
  <2>1. Executed(RingDataLoads) = D /\ Executed(RingDataLoads) \cap DOMAIN d = D /\ D \subseteq Int
    BY <1>6, OffsetsAre
  <2>2. ASSUME NEW m \in D, NEW r, d[m][1] = r, \A o \in D : d[o][1] = r => o <= m
        PROVE  W(r) = d[m][2]
    <3> HIDE DEF D
    <3>1. Value(d, RingDataLoads, r) = d[m][2]
      BY <2>1, <2>2, ValueIs
    <3> QED
      BY <3>1
  <2> HIDE DEF W
  <2>3. /\ \A o \in D : d[o][1] = "head" => o <= 2
        /\ \A o \in D : d[o][1] = "tail" => o <= 4
        /\ \A o \in D : d[o][1] = "base" => o <= 6
        /\ \A o \in D : d[o][1] = "ctrl" => o <= 10
    BY <1>6
  <2>4. 2 \in D /\ 4 \in D /\ 6 \in D /\ 10 \in D
    OBVIOUS
  <2> HIDE DEF D
  <2>5. W("head") = d[2][2]
    BY <1>6, <2>2, <2>3, <2>4
  <2>6. W("tail") = d[4][2]
    BY <1>6, <2>2, <2>3, <2>4
  <2>7. W("base") = d[6][2]
    BY <1>6, <2>2, <2>3, <2>4
  <2>8. W("ctrl") = d[10][2]
    BY <1>6, <2>2, <2>3, <2>4
  <2> QED
    BY <1>6, <2>5, <2>6, <2>7, <2>8
<1> DEFINE outside == V("ctxtSr") = <<"indirect", 1>>
           from == IF outside THEN ctx[V("indirectRingState")[2]].data ELSE im
           loads == IF outside THEN RingDataLoads ELSE ImageLoads
<1>13. Restored(c) = [r \in RingRegisters \cup PdpRegisters |->
                        IF r \in RingRegisters THEN Value(from, loads, r) ELSE V(r)]
  BY DEF Restored, im, V
<1>14. outside <=> setup.ringData
  BY <1>8
<1>15. /\ setup.ringData => from = d /\ loads = RingDataLoads
       /\ ~setup.ringData => from = im /\ loads = ImageLoads
  <2>1. CASE setup.ringData
    <3>1. V("indirectRingState")[2] = c
      BY <1>9, <2>1
    <3>2. outside
      BY <1>14, <2>1
    <3> QED
      BY <2>1, <3>1, <3>2 DEF d
  <2>2. CASE ~setup.ringData
    <3>1. ~outside
      BY <1>14, <2>2
    <3> QED
      BY <2>2, <3>1
  <2> QED
    BY <2>1, <2>2
<1> HIDE DEF from, loads, outside
<1>16. {"head", "tail", "base", "ctrl"} = RingRegisters
  BY DEF RingRegisters
<1>17. \A k \in UsedTables : /\ PdpLow[k + 1] \in PdpRegisters \ RingRegisters
                             /\ PdpHigh[k + 1] \in PdpRegisters \ RingRegisters
  BY <1>4 DEF PdpLow, PdpHigh, PdpRegisters, RingRegisters, ToSet
<1>18. \A k \in UsedTables : /\ Restored(c)[PdpLow[k + 1]] = Table(k)
                             /\ Restored(c)[PdpHigh[k + 1]] = Table(k)
  BY <1>10, <1>13, <1>17
<1>19. \A r \in RingRegisters : Restored(c)[r] = IF setup.ringData THEN W(r) ELSE V(r)
  BY <1>13, <1>15 DEF V
<1> QED
  BY <1>11, <1>12, <1>16, <1>18, <1>19, PlacesAre DEF im, d

-----------------------------------------------------------------------------
(* What stays *)

SameSetup ==
    /\ setup'.port = setup.port /\ setup'.ringData = setup.ringData
    /\ setup'.bits = setup.bits /\ setup'.members = setup.members

(* A call is one less that may be made; the product and the group stay. *)
LEMMA CallKeepsSetup ==
    ASSUME SetupOK, NEW t, NEW c, Call(t, c)
    PROVE  SameSetup /\ SetupOK'
<1>1. setup' = [setup EXCEPT !.calls = @ - 1]
  BY DEF Call
<1>2. SetupFields \subseteq DOMAIN setup /\ {"port", "ringData", "bits", "members", "calls"} \subseteq SetupFields
  BY DEF SetupOK, SetupFields
<1>3. SameSetup /\ DOMAIN setup' = DOMAIN setup
  BY <1>1, <1>2 DEF SameSetup
<1> QED
  BY <1>3 DEF SameSetup, SetupOK

(* A step that is no call leaves the setup alone. *)
LEMMA NoCallKeepsSetup ==
    ASSUME SetupOK, setup' = setup
    PROVE  SameSetup /\ SetupOK'
BY DEF SameSetup, SetupOK

(* So an image is made as before. *)
LEMMA MadeImageSame ==
    ASSUME SameSetup, NEW c
    PROVE  MadeImage(c)' = MadeImage(c)
BY DEF SameSetup, MadeImage, PointTo, initialize, PageTableOf, Blank, getInitialContextSaveRestoreCtrlValue

(* Which contexts have a slot is up to the setup. *)
LEMMA HasSlotSame ==
    ASSUME SameSetup, NEW c
    PROVE  HasSlot(c)' <=> HasSlot(c)
BY DEF SameSetup, HasSlot, InGroup

(* A context that no step is about *)
SameContext(c) ==
    /\ ctx'[c] = ctx[c] /\ (Built(c)' <=> Built(c)) /\ (Updating(c)' <=> Updating(c))
    /\ UpdatingWith(c, TRUE)' <=> UpdatingWith(c, TRUE)

(* A context that no step is about stays as it should be. *)
LEMMA SameContextOK ==
    ASSUME SameSetup, NEW c, SameContext(c), ContextOK(c)
    PROVE  ContextOK(c)'
<1>1. MadeImage(c)' = MadeImage(c) /\ setup'.ringData = setup.ringData
  BY MadeImageSame DEF SameSetup
<1>2. ImageOK(c) => ImageOK(c)'
  BY <1>1 DEF ImageOK, SameContext, LikeMade
<1>3. DataOK(c) => DataOK(c)'
  BY DEF DataOK, SameContext, LikeMade
<1> QED
  BY <1>1, <1>2, <1>3 DEF ContextOK, SameContext

(* What threads are doing, by the operation alone *)
LEMMA OperationsAre ==
    ASSUME ThreadsOK, NEW t \in Threads
    PROVE  /\ thread[t] = Idle <=> thread[t].op = "idle"
           /\ thread[t] = Idle => ~Initializing(t) /\ ~Submitting(t) /\ ~Writing(t)
           /\ Initializing(t) => thread[t] \in AtInitialize /\ ~ctx[thread[t].of].ready
           /\ Submitting(t) => thread[t] \in AtUpdate /\ ctx[thread[t].of].ready /\ ggttLock = t
           /\ Writing(t) => thread[t] \in AtWrite /\ ctx[thread[t].of].ready
           /\ thread[t] # Idle => Initializing(t) \/ Submitting(t) \/ Writing(t)
<1>1. Idle.op = "idle"
  BY DEF Idle
<1>2. /\ thread[t] \in AtInitialize => thread[t].op = "initialize"
      /\ thread[t] \in AtUpdate => thread[t].op = "update"
      /\ thread[t] \in AtWrite => thread[t].op = "write"
  BY DEF AtInitialize, AtUpdate, AtWrite
<1> QED
  BY <1>1, <1>2 DEF ThreadsOK, Initializing, Submitting, Writing

(* An idle thread, or a call of another context: nobody is at this one. *)
LEMMA NotBusy ==
    ASSUME ThreadsOK, NEW c \in Contexts, ~Busy(c)
    PROVE  ~Updating(c) /\ ~UpdatingWith(c, TRUE) /\ (Built(c) <=> ctx[c].ready)
<1>1. \A t \in Threads : ~(thread[t] # Idle /\ thread[t].of = c)
  BY DEF Busy
<1>2. \A t \in Threads : Submitting(t) \/ Initializing(t) => thread[t] # Idle
  BY OperationsAre
<1> QED
  BY <1>1, <1>2 DEF Updating, UpdatingWith, Built, Submitting

(* A step of one thread about one context leaves the others as they are. *)
StepAbout(t, c) ==
    /\ thread[t] = Idle \/ thread[t].of = c
    /\ thread'[t].op = "idle" \/ thread'[t].of = c
    /\ \A u \in Threads \ {t} : \/ thread'[u] = thread[u]
                                \/ Writing(u) /\ Writing(u)'
    /\ \A d \in Contexts \ {c} : ctx'[d] = ctx[d]

(* A step of one thread about one context is not about the others. *)
LEMMA OthersSame ==
    ASSUME ThreadsOK, NEW t \in Threads, NEW c, StepAbout(t, c), NEW d \in Contexts \ {c}
    PROVE  SameContext(d)
<1>1. \A u \in Threads : /\ Initializing(u)' /\ thread'[u].of = d => Initializing(u) /\ thread'[u] = thread[u]
                         /\ Initializing(u) /\ thread[u].of = d => Initializing(u)' /\ thread'[u] = thread[u]
  <2> SUFFICES ASSUME NEW u \in Threads
               PROVE  /\ Initializing(u)' /\ thread'[u].of = d => Initializing(u) /\ thread'[u] = thread[u]
                      /\ Initializing(u) /\ thread[u].of = d => Initializing(u)' /\ thread'[u] = thread[u]
    OBVIOUS
  <2>1. CASE u = t
    BY <2>1, OperationsAre DEF StepAbout, Initializing
  <2>2. CASE u # t
    BY <2>2 DEF StepAbout, Initializing, Writing
  <2> QED
    BY <2>1, <2>2
<1>2. \A u \in Threads : /\ Submitting(u)' /\ thread'[u].of = d => Submitting(u) /\ thread'[u] = thread[u]
                         /\ Submitting(u) /\ thread[u].of = d => Submitting(u)' /\ thread'[u] = thread[u]
  <2> SUFFICES ASSUME NEW u \in Threads
               PROVE  /\ Submitting(u)' /\ thread'[u].of = d => Submitting(u) /\ thread'[u] = thread[u]
                      /\ Submitting(u) /\ thread[u].of = d => Submitting(u)' /\ thread'[u] = thread[u]
    OBVIOUS
  <2>1. CASE u = t
    BY <2>1, OperationsAre DEF StepAbout, Submitting
  <2>2. CASE u # t
    BY <2>2 DEF StepAbout, Submitting, Writing
  <2> QED
    BY <2>1, <2>2
<1>3. ctx'[d] = ctx[d]
  BY DEF StepAbout
<1> QED
  BY <1>1, <1>2, <1>3 DEF SameContext, Built, Updating, UpdatingWith, Submitting

-----------------------------------------------------------------------------
(* Contexts *)

(* initialize() and initializeRingData() make the images, and nothing else. *)
LEMMA ImagesMade ==
    ASSUME NEW c, NEW x, DOMAIN x = Fields
    PROVE  LET y == WithImages(setup, x, c)
           IN /\ DOMAIN y = Fields /\ y.ready = x.ready /\ y.tail = x.tail /\ y.seen = x.seen
              /\ y.image = MadeImage(c)
              /\ setup.ringData => y.data = initializeRingData(c)
<1> DEFINE host == PointTo(setup, initialize(setup, c), c)
           data == IF setup.ringData THEN initializeRingData(c) ELSE << >>
           y == [x EXCEPT !.host = host, !.hostData = data, !.image = host, !.data = data]
<1>1. WithImages(setup, x, c) = y
  BY DEF WithImages
<1>2. host = MadeImage(c)
  BY DEF MadeImage
<1>3. setup.ringData => data = initializeRingData(c)
  OBVIOUS
<1> HIDE DEF host, data
<1>4. /\ DOMAIN y = Fields /\ y.ready = x.ready /\ y.tail = x.tail /\ y.seen = x.seen
      /\ y.image = host /\ y.data = data
  BY DEF Fields
<1> QED
  BY <1>1, <1>2, <1>3, <1>4

(* An image that was just made. *)
LEMMA MadeIsOK ==
    ASSUME SetupOK, NEW c, ctx[c].image = MadeImage(c),
           setup.ringData => ctx[c].data = initializeRingData(c),
           ctx[c].tail = 0, ctx[c].seen = 0, ~Updating(c), ~UpdatingWith(c, TRUE)
    PROVE  ImageOK(c) /\ (setup.ringData => DataOK(c))
<1>1. MadeImage(c)[4] = <<"head", At(0)>> /\ MadeImage(c)[6] = <<"tail", At(0)>>
  BY MadeImageIs
<1>2. ImageOK(c)
  BY <1>1, PlacesAre DEF ImageOK, LikeMade
<1>3. initializeRingData(c)[2] = <<"head", At(0)>> /\ initializeRingData(c)[4] = <<"tail", At(0)>>
  BY MadeDataIs
<1>4. 0 \in Place
  BY CommandStreamerAssumption DEF Place
<1>5. setup.ringData => DataOK(c)
  <2> SUFFICES ASSUME setup.ringData PROVE DataOK(c)
    OBVIOUS
  <2>1. LikeMade(ctx[c].data, initializeRingData(c), DataHead, DataTail)
    BY DEF LikeMade
  <2>2. ctx[c].data[DataTail][2] = At(0) /\ ctx[c].data[DataHead][2] = At(0)
    BY <1>3, PlacesAre
  <2> QED
    BY <1>4, <2>1, <2>2 DEF DataOK
<1> QED
  BY <1>2, <1>5

(* What a submission writes of an image or of the ring data: the tail, or the head and the tail. *)
LEMMA WrittenIs ==
    ASSUME NEW image, NEW made, NEW host, NEW base \in Nat, NEW next, next = base + 2, NEW override \in BOOLEAN,
           LikeMade(image, made, base, next),
           DOMAIN made \subseteq Nat, {base, next} \subseteq DOMAIN made,
           base + 1 \notin DOMAIN made, base + 3 \notin DOMAIN made,
           made[base][1] = "head", made[next][1] = "tail",
           host[next][1] = "tail", override => host[base][1] = "head"
    PROVE  LET new == Written(image, host, base + offsetRing[Update(override).from], Update(override).size)
           IN /\ LikeMade(new, made, base, next)
              /\ new[next] = host[next]
              /\ new[base] = IF override THEN host[base] ELSE image[base]
<1> DEFINE from == base + offsetRing[Update(override).from]
           size == Update(override).size
           new == Written(image, host, from, size)
<1>1. /\ override => from = base /\ size = 4
      /\ ~override => from = base + 2 /\ size = 2
  BY PlacesAre DEF Update
<1>2. DOMAIN image = DOMAIN made /\ DOMAIN new = DOMAIN image
      /\ \A o \in DOMAIN image : new[o] = IF o \in from .. from + size - 1 THEN host[o] ELSE image[o]
  BY DEF Written, LikeMade
<1> HIDE DEF from, size, new
<1>3. \A o \in DOMAIN made : o \in from .. from + size - 1 => o = base + 2 \/ (o = base /\ override)
  BY <1>1
<1>4. base + 2 \in from .. from + size - 1 /\ (override => base \in from .. from + size - 1)
      /\ (~override => base \notin from .. from + size - 1)
  BY <1>1
<1>5. new[next] = host[next] /\ new[base] = IF override THEN host[base] ELSE image[base]
  BY <1>2, <1>4
<1>6. \A o \in DOMAIN made : o # base /\ o # base + 2 => new[o] = image[o]
  BY <1>2, <1>3
<1>7. image[base][1] = "head"
  BY DEF LikeMade
<1>8. LikeMade(new, made, base, next)
  BY <1>2, <1>5, <1>6, <1>7 DEF LikeMade
<1> QED
  BY <1>5, <1>8 DEF new, from, size

UpdatedImage(image, host, override) ==
    Written(image, host, offsetRingRegisters + offsetRing[Update(override).from], Update(override).size)

(* The image of a context after the first half of a submission *)
LEMMA ImageWritten ==
    ASSUME SetupOK, NEW c, NEW image, NEW host, NEW override \in BOOLEAN,
           LikeMade(image, MadeImage(c), HeadAt, TailAt),
           host[TailAt][1] = "tail", override => host[HeadAt][1] = "head"
    PROVE  /\ LikeMade(UpdatedImage(image, host, override), MadeImage(c), HeadAt, TailAt)
           /\ UpdatedImage(image, host, override)[TailAt] = host[TailAt]
           /\ UpdatedImage(image, host, override)[HeadAt] = IF override THEN host[HeadAt] ELSE image[HeadAt]
<1> DEFINE made == MadeImage(c)
<1>1. /\ DOMAIN made = Offsets /\ made[4][1] = "head" /\ made[6][1] = "tail"
  BY MadeImageIs
<1>2. Offsets \subseteq Nat /\ 4 \in Offsets /\ 6 \in Offsets /\ 5 \notin Offsets /\ 7 \notin Offsets
  BY DEF Offsets, Lri0, Lri1, Lri2
<1>3. HeadAt = 4 /\ TailAt = 6 /\ offsetRingRegisters = 4
  BY PlacesAre
<1> HIDE DEF made
<1>4. LikeMade(image, made, 4, 6) /\ host[6][1] = "tail" /\ (override => host[4][1] = "head")
  BY <1>3 DEF made
<1>5. {4, 6} \subseteq DOMAIN made /\ 4 + 1 \notin DOMAIN made /\ 4 + 3 \notin DOMAIN made
      /\ made[4][1] = "head" /\ made[6][1] = "tail" /\ DOMAIN made \subseteq Nat /\ 4 \in Nat /\ 6 = 4 + 2
  BY <1>1, <1>2
<1>6. LET new == Written(image, host, 4 + offsetRing[Update(override).from], Update(override).size)
      IN /\ LikeMade(new, made, 4, 6)
         /\ new[6] = host[6]
         /\ new[4] = IF override THEN host[4] ELSE image[4]
  BY <1>4, <1>5, WrittenIs
<1> QED
  BY <1>3, <1>6 DEF made, UpdatedImage

(* And the ring data after the second *)
LEMMA DataWritten ==
    ASSUME NEW c, NEW x, NEW override \in BOOLEAN,
           LikeMade(x.data, initializeRingData(c), DataHead, DataTail),
           x.hostData[DataTail][1] = "tail", override => x.hostData[DataHead][1] = "head"
    PROVE  /\ LikeMade(UpdatedData(x, override), initializeRingData(c), DataHead, DataTail)
           /\ UpdatedData(x, override)[DataTail] = x.hostData[DataTail]
           /\ UpdatedData(x, override)[DataHead] = IF override THEN x.hostData[DataHead] ELSE x.data[DataHead]
<1> DEFINE made == initializeRingData(c)
           image == x.data
           host == x.hostData
<1>1. /\ DOMAIN made = {2, 4, 6, 8, 10} /\ made[2][1] = "head" /\ made[4][1] = "tail"
  BY MadeDataIs
<1>3. DataHead = 2 /\ DataTail = 4 /\ getRingDataOffset = 2
  BY PlacesAre
<1> HIDE DEF made, image, host
<1>4. LikeMade(image, made, 2, 4) /\ host[4][1] = "tail" /\ (override => host[2][1] = "head")
  BY <1>3 DEF made, image, host
<1>5. {2, 4} \subseteq DOMAIN made /\ 2 + 1 \notin DOMAIN made /\ 2 + 3 \notin DOMAIN made
      /\ made[2][1] = "head" /\ made[4][1] = "tail" /\ DOMAIN made \subseteq Nat /\ 2 \in Nat /\ 4 = 2 + 2
  BY <1>1
<1>6. LET new == Written(image, host, 2 + offsetRing[Update(override).from], Update(override).size)
      IN /\ LikeMade(new, made, 2, 4)
         /\ new[4] = host[4]
         /\ new[2] = IF override THEN host[2] ELSE image[2]
  BY <1>4, <1>5, WrittenIs
<1> QED
  BY <1>3, <1>6 DEF made, image, host, UpdatedData

(* What the engine writes back *)
LEMMA SavedIs ==
    ASSUME NEW image, NEW made, NEW head, NEW tail, NEW v, LikeMade(image, made, head, tail),
           head \in DOMAIN made, tail \in DOMAIN made, made[head][1] = "head", made[tail][1] = "tail",
           \A o \in DOMAIN made : made[o][1] = "head" => o = head
    PROVE  /\ LikeMade(Saved(image, v), made, head, tail)
           /\ Saved(image, v)[head][2] = v /\ Saved(image, v)[tail] = image[tail]
<1>1. DOMAIN image = DOMAIN made /\ \A o \in DOMAIN made : image[o][1] = made[o][1]
  BY DEF LikeMade
<1>2. DOMAIN Saved(image, v) = DOMAIN image
      /\ \A o \in DOMAIN image : Saved(image, v)[o] = IF image[o][1] = "head" THEN <<"head", v>> ELSE image[o]
  BY DEF Saved
<1>3. \A o \in DOMAIN made : o # head => Saved(image, v)[o] = image[o]
  BY <1>1, <1>2
<1>4. Saved(image, v)[head] = <<"head", v>>
  BY <1>1, <1>2
<1>5. head # tail
  OBVIOUS
<1> QED
  BY <1>1, <1>2, <1>3, <1>4, <1>5 DEF LikeMade

-----------------------------------------------------------------------------
(* Threads, lists and registers *)

(* Sequences over a set are sequences over a larger one. *)
LEMMA SeqWider ==
    ASSUME NEW A, NEW B, A \subseteq B
    PROVE  Seq(A) \subseteq Seq(B)
<1> SUFFICES ASSUME NEW s \in Seq(A) PROVE s \in Seq(B)
  OBVIOUS
<1>1. Len(s) \in Nat /\ s = [i \in 1 .. Len(s) |-> s[i]] /\ \A i \in 1 .. Len(s) : s[i] \in B
  OBVIOUS
<1> QED
  BY <1>1

(* What is ready stays ready: lists stay lists of such contexts. *)
ReadyStays == \A c \in Contexts : ctx[c].ready => ctx'[c].ready

(* So lists and registers stay what they are. *)
LEMMA ReadyStaysIs ==
    ASSUME ReadyStays
    PROVE  /\ Seq(ReadyOrNone) \subseteq Seq(ReadyOrNone)'
           /\ Seq(Dword) \subseteq Seq(Dword)'
<1>1. ReadyOrNone \subseteq ReadyOrNone'
  BY DEF ReadyStays, ReadyOrNone
<1>2. Dword \subseteq Dword'
  BY <1>1 DEF Dword
<1> QED
  BY <1>1, <1>2, SeqWider

(* A step about one context takes the images of no other away. *)
LEMMA OthersReady ==
    ASSUME NEW t, NEW c, StepAbout(t, c), ctx[c].ready => ctx'[c].ready
    PROVE  ReadyStays
BY DEF StepAbout, ReadyStays

(* What a step that writes no list leaves alone *)
Quiet(t, c) ==
    /\ StepAbout(t, c) /\ ~Writing(t) /\ ~Writing(t)'
    /\ \A u \in Threads \ {t} : thread'[u] = thread[u]
    /\ UNCHANGED <<csLock, slots, port, races>>

(* The list of a thread that does nothing stays a list of ready contexts. *)
LEMMA ListSame ==
    ASSUME SameSetup, ReadyStays, NEW t, thread'[t] = thread[t], ListOK(t)
    PROVE  ListOK(t)'
<1>1. thread[t].wanted \in Seq(ReadyOrNone)'
  BY ReadyStaysIs DEF ListOK
<1>2. Dwords(thread[t].list)' = Dwords(thread[t].list)
  BY DEF SameSetup, Dwords
<1> QED
  BY <1>1, <1>2 DEF ListOK

(* A step that writes no list leaves lists and registers alone. *)
LEMMA QuietKeepsLists ==
    ASSUME SameSetup, ReadyStays, ListsOK, RegistersOK, NEW t \in Threads, NEW c, Quiet(t, c)
    PROVE  ListsOK' /\ RegistersOK'
<1>1. \A u \in Threads : Writing(u)' => Writing(u) /\ thread'[u] = thread[u]
  BY DEF Quiet, Writing
<1>2. \A u \in Threads : Writing(u) => Writing(u)'
  BY DEF Quiet, Writing
<1>3. ListsOK'
  <2> SUFFICES ASSUME NEW u \in Threads, Writing(u)'
               PROVE  /\ ListOK(u)'
                      /\ ~thread'[u].raced => /\ HasWritten(u)'
                                              /\ \A v \in Threads : Writing(v)' => v = u
                      /\ thread'[u].raced => races'
    BY DEF ListsOK
  <2>1. /\ ListOK(u)
        /\ ~thread[u].raced => /\ HasWritten(u)
                               /\ \A v \in Threads : Writing(v) => v = u
        /\ thread[u].raced => races
    BY <1>1 DEF ListsOK
  <2>2. ListOK(u)'
    BY <1>1, <2>1, ListSame
  <2>3. HasWritten(u) => HasWritten(u)'
    BY <1>1 DEF HasWritten, Quiet, SameSetup
  <2> QED
    BY <1>1, <2>1, <2>2, <2>3 DEF Quiet
<1>4. RegistersOK'
  <2>1. slots \in Seq(Dword)' /\ port \in Seq(Dword)'
    BY ReadyStaysIs DEF RegistersOK
  <2>2. (\A u \in Threads : ~Writing(u)') => \A u \in Threads : ~Writing(u)
    BY <1>2
  <2> QED
    BY <2>1, <2>2 DEF RegistersOK, Quiet, SameSetup
<1> QED
  BY <1>3, <1>4

(* And of what was seen *)
LEMMA QuietKeepsSeen ==
    ASSUME SameSetup, ThreadsOK, SeenOrWaiting, NEW t \in Threads, NEW c \in Contexts, Quiet(t, c),
           ctx'[c].ready /\ ctx'[c].seen # ctx'[c].tail /\ ~Updating(c)' =>
             ctx[c].ready /\ ctx[c].seen # ctx[c].tail /\ ~Updating(c)
    PROVE  SeenOrWaiting'
<1> SUFFICES ASSUME ~races', NEW d \in Contexts, ctx'[d].ready, HasSlot(d)'
             PROVE  ctx'[d].seen = ctx'[d].tail \/ Updating(d)' \/ WillLoad(d)'
  BY DEF SeenOrWaiting
<1>1. ~races /\ HasSlot(d)
  BY HasSlotSame DEF Quiet
<1>2. WillLoad(d) => WillLoad(d)'
  BY DEF WillLoad, Quiet, Writing, SameSetup
<1>3. CASE d = c
  BY <1>1, <1>2, <1>3 DEF SeenOrWaiting
<1>4. CASE d # c
  <2>1. SameContext(d)
    BY <1>4, OthersSame DEF Quiet
  <2> QED
    BY <1>1, <1>2, <2>1 DEF SeenOrWaiting, SameContext
<1> QED
  BY <1>3, <1>4

(* The group stays as it is. *)
LEMMA GroupSame ==
    ASSUME SameSetup, ReadyStays, GroupOK, contexts' = contexts,
           \A d \in Contexts : ctx'[d].ready => ctx[d].ready, SetupOK
    PROVE  GroupOK'
<1>1. contexts \in Seq(ReadyOrNone)'
  BY ReadyStaysIs DEF GroupOK
<1>2. \A i \in 1 .. Len(setup.members) : setup.members[i] \in Contexts
  BY DEF SetupOK
<1>3. \A i \in 1 .. Len(contexts) : contexts[i] = setup.members[i] \/ (contexts[i] = None /\ ~ctx[setup.members[i]].ready)
  BY DEF GroupOK
<1> QED
  BY <1>1, <1>2, <1>3 DEF GroupOK, SameSetup

(* The contexts a step is not about *)
LEMMA ContextsStep ==
    ASSUME SameSetup, ThreadsOK, ContextsOK, NEW t \in Threads, NEW c \in Contexts, StepAbout(t, c),
           DOMAIN ctx' = Contexts, ContextOK(c)'
    PROVE  ContextsOK'
<1> SUFFICES ASSUME NEW d \in Contexts PROVE ContextOK(d)'
  BY DEF ContextsOK
<1>1. CASE d = c
  BY <1>1
<1>2. CASE d # c
  BY <1>2, OthersSame, SameContextOK DEF ContextsOK
<1> QED
  BY <1>1, <1>2

-----------------------------------------------------------------------------
(* The actions *)

(* A thread starts to initialise a context. *)
LEMMA InitializeKeeps ==
    ASSUME Inv, NEW t \in Threads, NEW c \in Contexts, Initialize(t, c)
    PROVE  Inv'
<1>1. SameSetup /\ SetupOK'
  BY CallKeepsSetup DEF Inv, Initialize
<1>2. thread[t] = Idle /\ ~Busy(c) /\ ~ctx[c].ready /\ ctx' = ctx
  BY DEF Initialize, Call
<1>3. ThreadsOK /\ OneThread /\ LocksOK /\ ListsOK /\ RegistersOK /\ GroupOK /\ ContextsOK /\ SeenOrWaiting /\ SetupOK
  BY DEF Inv
<1>4. /\ DOMAIN thread' = Threads
      /\ thread'[t] = [op |-> "initialize", of |-> c, at |-> 1]
      /\ \A u \in Threads \ {t} : thread'[u] = thread[u]
  BY <1>3 DEF Initialize, ThreadsOK
<1>5. /\ thread'[t].op = "initialize" /\ thread'[t].of = c /\ thread'[t].at = 1 /\ thread'[t] \in AtInitialize
      /\ thread'[t] # Idle /\ thread[t].op = "idle"
  BY <1>2, <1>4 DEF AtInitialize, Idle
<1>6. StepAbout(t, c)
  BY <1>2, <1>4, <1>5 DEF StepAbout
<1>7. Quiet(t, c)
  BY <1>4, <1>5, <1>6 DEF Quiet, Writing, Initialize
<1>8. ReadyStays
  BY <1>2, <1>6, OthersReady
<1>9. ThreadsOK'
  BY <1>2, <1>3, <1>4, <1>5 DEF ThreadsOK, Initialize
<1>10. OneThread'
  BY <1>2, <1>3, <1>4, <1>5 DEF OneThread, Busy
<1>11. LocksOK'
  BY <1>2, <1>3, <1>4, <1>5 DEF LocksOK, Initialize, Writing
<1>12. ListsOK' /\ RegistersOK'
  BY <1>1, <1>3, <1>7, <1>8, QuietKeepsLists
<1>13. GroupOK'
  BY <1>1, <1>2, <1>3, <1>8, GroupSame DEF Initialize
<1>14. SameContext(c)
  <2>1. ~Updating(c) /\ ~UpdatingWith(c, TRUE) /\ (Built(c) <=> ctx[c].ready)
    BY <1>2, <1>3, NotBusy
  <2>2. \A u \in Threads \ {t} : thread[u] # Idle => thread[u].of # c
    BY <1>2 DEF Busy
  <2>3. \A u \in Threads \ {t} : ~(Submitting(u)' /\ thread'[u].of = c) /\ ~(Initializing(u)' /\ thread'[u].of = c)
    BY <1>3, <1>4, <2>2, OperationsAre DEF Submitting, Initializing
  <2>4. ~Submitting(t)' /\ thread'[t].at # 2
    BY <1>5 DEF Submitting
  <2>5. ~Updating(c)' /\ ~UpdatingWith(c, TRUE)'
    BY <2>3, <2>4 DEF Updating, UpdatingWith, Submitting
  <2>6. Built(c)' <=> ctx'[c].ready
    BY <2>3, <2>4 DEF Built
  <2> QED
    BY <1>2, <2>1, <2>5, <2>6 DEF SameContext
<1>15. ContextsOK'
  <2>1. ContextOK(c)'
    BY <1>1, <1>3, <1>14, SameContextOK DEF ContextsOK
  <2> QED
    BY <1>1, <1>2, <1>3, <1>6, <2>1, ContextsStep DEF ContextsOK
<1>16. SeenOrWaiting'
  BY <1>1, <1>2, <1>3, <1>7, QuietKeepsSeen
<1> QED
  BY <1>1, <1>9, <1>10, <1>11, <1>12, <1>13, <1>15, <1>16 DEF Inv

(* The images are made; nobody has the context yet. *)
LEMMA ImageStepKeeps ==
    ASSUME Inv, NEW t \in Threads, NEW c \in Contexts, InitializeStep(t),
           thread[t].of = c, thread[t].at = 1
    PROVE  Inv'
<1>1. ThreadsOK /\ OneThread /\ LocksOK /\ ListsOK /\ RegistersOK /\ GroupOK /\ ContextsOK /\ SeenOrWaiting /\ SetupOK
  BY DEF Inv
<1>2. SameSetup /\ SetupOK' /\ setup' = setup
  BY <1>1, NoCallKeepsSetup DEF InitializeStep
<1>3. Initializing(t) /\ thread[t] \in AtInitialize /\ ~ctx[c].ready
  BY <1>1, OperationsAre DEF InitializeStep, Initializing, AtInitialize
<1>4. InitializeSteps[1] = "image" /\ Len(InitializeSteps) = 2
  BY DEF InitializeSteps
<1> DEFINE x == WithImages(setup, ctx[c], c)
           at == thread[t].at
<1>5. /\ ctx' = [ctx EXCEPT ![c] = [x EXCEPT !.ready = FALSE]]
      /\ contexts' = contexts
      /\ thread' = [thread EXCEPT ![t] = [thread[t] EXCEPT !.at = @ + 1]]
      /\ UNCHANGED <<setup, ggttLock, csLock, slots, port, races>>
  <2>1. InitializeSteps[at] = "image" /\ at # Len(InitializeSteps)
    BY <1>4
  <2>2. /\ ctx' = [ctx EXCEPT ![c] = [(IF InitializeSteps[at] = "image" THEN x ELSE ctx[c]) EXCEPT !.ready = (at = Len(InitializeSteps))]]
        /\ contexts' = IF InitializeSteps[at] = "register" THEN Joined(contexts, c) ELSE contexts
        /\ thread' = [thread EXCEPT ![t] = IF at = Len(InitializeSteps) THEN Idle ELSE [thread[t] EXCEPT !.at = @ + 1]]
        /\ UNCHANGED <<setup, ggttLock, csLock, slots, port, races>>
    BY DEF InitializeStep
  <2> HIDE DEF x, at
  <2>3. (at = Len(InitializeSteps)) = FALSE
    BY <2>1
  <2>4. ctx' = [ctx EXCEPT ![c] = [x EXCEPT !.ready = FALSE]]
    BY <2>1, <2>2, <2>3, Zenon
  <2>5. thread' = [thread EXCEPT ![t] = [thread[t] EXCEPT !.at = @ + 1]]
    BY <2>1, <2>2, <2>3, Zenon
  <2>6. contexts' = contexts
    BY <2>1, <2>2
  <2> QED
    BY <2>2, <2>4, <2>5, <2>6, Zenon
<1>6. DOMAIN ctx = Contexts /\ DOMAIN ctx[c] = Fields /\ ContextOK(c)
  BY <1>1, <1>3 DEF ContextsOK, ContextOK
<1>7. /\ DOMAIN x = Fields /\ x.tail = ctx[c].tail /\ x.seen = ctx[c].seen
      /\ x.image = MadeImage(c) /\ (setup.ringData => x.data = initializeRingData(c))
  BY <1>6, ImagesMade
<1> HIDE DEF x
<1>8. /\ DOMAIN ctx' = Contexts /\ DOMAIN ctx'[c] = Fields /\ ctx'[c].ready = FALSE
      /\ ctx'[c].tail = ctx[c].tail /\ ctx'[c].seen = ctx[c].seen
      /\ ctx'[c].image = MadeImage(c) /\ (setup.ringData => ctx'[c].data = initializeRingData(c))
      /\ \A d \in Contexts \ {c} : ctx'[d] = ctx[d]
  BY <1>3, <1>5, <1>6, <1>7 DEF Fields
<1>9. /\ DOMAIN thread' = Threads
      /\ thread'[t] \in AtInitialize /\ thread'[t].op = "initialize" /\ thread'[t].of = c /\ thread'[t].at = 2
      /\ \A u \in Threads \ {t} : thread'[u] = thread[u]
  <2>1. DOMAIN thread = Threads /\ thread' = [thread EXCEPT ![t] = [thread[t] EXCEPT !.at = @ + 1]]
    BY <1>1, <1>5 DEF ThreadsOK
  <2>2. thread'[t] = [thread[t] EXCEPT !.at = @ + 1] /\ DOMAIN thread' = Threads
        /\ \A u \in Threads \ {t} : thread'[u] = thread[u]
    BY <2>1
  <2> QED
    BY <1>3, <2>2 DEF AtInitialize
<1>10. thread[t] # Idle /\ thread'[t] # Idle
  BY <1>3, <1>9 DEF Idle, Initializing
<1>11. StepAbout(t, c)
  BY <1>8, <1>9 DEF StepAbout
<1>12. Quiet(t, c)
  BY <1>3, <1>5, <1>9, <1>11 DEF Quiet, Writing, Initializing
<1>13. Built(c)'
  BY <1>9 DEF Built, Initializing
<1>14. ReadyStays
  BY <1>3, <1>11, OthersReady
<1>15. \A u \in Threads \ {t} : thread[u] # Idle => thread[u].of # c
  BY <1>1, <1>10 DEF OneThread
<1>16. ThreadsOK'
  <2>1. ASSUME NEW u \in Threads
        PROVE  \/ thread'[u] = Idle
               \/ thread'[u] \in AtInitialize /\ ~ctx'[thread'[u].of].ready
               \/ thread'[u] \in AtUpdate /\ ctx'[thread'[u].of].ready /\ ggttLock' = u
               \/ thread'[u] \in AtWrite /\ ctx'[thread'[u].of].ready
    <3>1. CASE u = t
      BY <3>1, <1>8, <1>9
    <3>2. CASE u # t
      <4>1. thread'[u] = thread[u]
        BY <1>9, <3>2
      <4>2. thread[u] # Idle => ctx'[thread[u].of] = ctx[thread[u].of]
        BY <1>1, <1>8, <1>15, <3>2 DEF ThreadsOK, AtInitialize, AtUpdate, AtWrite
      <4> QED
        BY <1>1, <1>5, <4>1, <4>2 DEF ThreadsOK
    <3> QED
      BY <3>1, <3>2
  <2> QED
    BY <1>9, <2>1 DEF ThreadsOK
<1>17. OneThread'
  BY <1>1, <1>9, <1>15 DEF OneThread
<1>18. LocksOK'
  BY <1>1, <1>3, <1>5, <1>9 DEF LocksOK, Writing, Initializing
<1>19. ListsOK' /\ RegistersOK'
  BY <1>1, <1>2, <1>12, <1>14, QuietKeepsLists
<1>20. GroupOK'
  <2>1. \A d \in Contexts : ctx'[d].ready => ctx[d].ready
    BY <1>3, <1>8
  <2> QED
    BY <1>1, <1>2, <1>5, <1>14, <2>1, GroupSame
<1>21. ContextsOK'
  <2>2. ctx'[c].tail = 0 /\ ctx'[c].seen = 0
    BY <1>3, <1>6, <1>8 DEF ContextOK
  <2>3. ~Updating(c)' /\ ~UpdatingWith(c, TRUE)'
    <3>1. \A u \in Threads \ {t} : ~(Submitting(u)' /\ thread'[u].of = c)
      BY <1>1, <1>9, <1>15, OperationsAre DEF Submitting
    <3>2. ~Submitting(t)'
      BY <1>9 DEF Submitting
    <3> QED
      BY <3>1, <3>2 DEF Updating, UpdatingWith, Submitting
  <2>4. MadeImage(c)' = MadeImage(c) /\ setup'.ringData = setup.ringData
    BY <1>2, MadeImageSame DEF SameSetup
  <2>5. ImageOK(c)' /\ (setup'.ringData => DataOK(c)')
    <3>1. MadeImage(c)[4] = <<"head", At(0)>> /\ MadeImage(c)[6] = <<"tail", At(0)>>
      BY <1>1, MadeImageIs
    <3>2. ImageOK(c)'
      BY <1>8, <2>2, <2>4, <3>1, PlacesAre DEF ImageOK, LikeMade
    <3>3. initializeRingData(c)[2] = <<"head", At(0)>> /\ initializeRingData(c)[4] = <<"tail", At(0)>>
      BY MadeDataIs
    <3>4. 0 \in Place
      BY CommandStreamerAssumption DEF Place
    <3>5. ASSUME setup.ringData PROVE DataOK(c)'
      <4>1. LikeMade(ctx'[c].data, initializeRingData(c), DataHead, DataTail)
        BY <1>8, <3>5 DEF LikeMade
      <4>2. ctx'[c].data[DataTail][2] = At(0) /\ ctx'[c].data[DataHead][2] = At(0)
        BY <1>8, <3>3, <3>5, PlacesAre
      <4> QED
        BY <2>2, <2>3, <3>4, <4>1, <4>2 DEF DataOK
    <3> QED
      BY <2>4, <3>2, <3>5
  <2>6. ContextOK(c)'
    <3>1. 0 \in Place /\ ctx'[c].ready \in BOOLEAN
      <4>1. 0 \in Place
        BY CommandStreamerAssumption DEF Place
      <4> QED
        BY <1>8, <4>1, Zenon
    <3> QED
      BY <1>8, <1>13, <2>2, <2>5, <3>1 DEF ContextOK
  <2> QED
    BY <1>1, <1>2, <1>3, <1>8, <1>11, <2>6, ContextsStep
<1>22. SeenOrWaiting'
  BY <1>1, <1>2, <1>3, <1>8, <1>12, QuietKeepsSeen
<1> QED
  BY <1>2, <1>16, <1>17, <1>18, <1>19, <1>20, <1>21, <1>22 DEF Inv

(* The context is ready, and in its group. *)
LEMMA RegisterStepKeeps ==
    ASSUME Inv, NEW t \in Threads, NEW c \in Contexts, InitializeStep(t),
           thread[t].of = c, thread[t].at = 2
    PROVE  Inv'
<1>1. ThreadsOK /\ OneThread /\ LocksOK /\ ListsOK /\ RegistersOK /\ GroupOK /\ ContextsOK /\ SeenOrWaiting /\ SetupOK
  BY DEF Inv
<1>2. SameSetup /\ SetupOK' /\ setup' = setup
  BY <1>1, NoCallKeepsSetup DEF InitializeStep
<1>3. Initializing(t) /\ thread[t] \in AtInitialize /\ ~ctx[c].ready
  BY <1>1, OperationsAre DEF InitializeStep, Initializing, AtInitialize
<1>4. InitializeSteps[2] = "register" /\ Len(InitializeSteps) = 2
  BY DEF InitializeSteps
<1> DEFINE at == thread[t].at
<1>5. /\ ctx' = [ctx EXCEPT ![c] = [ctx[c] EXCEPT !.ready = TRUE]]
      /\ contexts' = Joined(contexts, c)
      /\ thread' = [thread EXCEPT ![t] = Idle]
      /\ UNCHANGED <<setup, ggttLock, csLock, slots, port, races>>
  <2>1. InitializeSteps[at] # "image" /\ InitializeSteps[at] = "register" /\ at = Len(InitializeSteps)
    BY <1>4
  <2>2. /\ ctx' = [ctx EXCEPT ![c] = [(IF InitializeSteps[at] = "image" THEN WithImages(setup, ctx[c], c) ELSE ctx[c]) EXCEPT !.ready = (at = Len(InitializeSteps))]]
        /\ contexts' = IF InitializeSteps[at] = "register" THEN Joined(contexts, c) ELSE contexts
        /\ thread' = [thread EXCEPT ![t] = IF at = Len(InitializeSteps) THEN Idle ELSE [thread[t] EXCEPT !.at = @ + 1]]
        /\ UNCHANGED <<setup, ggttLock, csLock, slots, port, races>>
    BY DEF InitializeStep
  <2> HIDE DEF at
  <2>3. (at = Len(InitializeSteps)) = TRUE
    BY <2>1
  <2>4. ctx' = [ctx EXCEPT ![c] = [ctx[c] EXCEPT !.ready = TRUE]]
    BY <2>1, <2>2, <2>3, Zenon
  <2>5. thread' = [thread EXCEPT ![t] = Idle]
    BY <2>1, <2>2, Zenon
  <2>6. contexts' = Joined(contexts, c)
    BY <2>1, <2>2, Zenon
  <2> QED
    BY <2>2, <2>4, <2>5, <2>6, Zenon
<1>6. DOMAIN ctx = Contexts /\ DOMAIN ctx[c] = Fields /\ ContextOK(c)
  BY <1>1 DEF ContextsOK, ContextOK
<1>8. /\ DOMAIN ctx' = Contexts /\ DOMAIN ctx'[c] = Fields /\ ctx'[c].ready = TRUE
      /\ ctx'[c].tail = ctx[c].tail /\ ctx'[c].seen = ctx[c].seen /\ ctx'[c].image = ctx[c].image
      /\ ctx'[c].data = ctx[c].data /\ ctx'[c].hostData = ctx[c].hostData
      /\ \A d \in Contexts \ {c} : ctx'[d] = ctx[d]
  BY <1>5, <1>6 DEF Fields
<1>9. DOMAIN thread' = Threads /\ thread'[t] = Idle /\ \A u \in Threads \ {t} : thread'[u] = thread[u]
  BY <1>1, <1>5 DEF ThreadsOK
<1>10. thread[t] # Idle /\ thread'[t].op = "idle"
  BY <1>3, <1>9 DEF Idle, Initializing
<1>11. StepAbout(t, c)
  BY <1>8, <1>9, <1>10 DEF StepAbout
<1>12. Quiet(t, c)
  BY <1>3, <1>5, <1>9, <1>10, <1>11 DEF Quiet, Writing, Initializing
<1>13. ReadyStays
  BY <1>3, <1>11, OthersReady
<1>14. \A u \in Threads \ {t} : thread[u] # Idle => thread[u].of # c
  BY <1>1, <1>10 DEF OneThread
<1>15. ThreadsOK'
  <2>1. ASSUME NEW u \in Threads
        PROVE  \/ thread'[u] = Idle
               \/ thread'[u] \in AtInitialize /\ ~ctx'[thread'[u].of].ready
               \/ thread'[u] \in AtUpdate /\ ctx'[thread'[u].of].ready /\ ggttLock' = u
               \/ thread'[u] \in AtWrite /\ ctx'[thread'[u].of].ready
    <3>1. CASE u = t
      BY <3>1, <1>9
    <3>2. CASE u # t
      <4>1. thread'[u] = thread[u]
        BY <1>9, <3>2
      <4>2. thread[u] # Idle => ctx'[thread[u].of] = ctx[thread[u].of]
        BY <1>1, <1>8, <1>14, <3>2 DEF ThreadsOK, AtInitialize, AtUpdate, AtWrite
      <4> QED
        BY <1>1, <1>5, <4>1, <4>2 DEF ThreadsOK
    <3> QED
      BY <3>1, <3>2
  <2> QED
    BY <1>9, <2>1 DEF ThreadsOK
<1>16. OneThread'
  BY <1>1, <1>9, <1>14 DEF OneThread
<1>17. LocksOK'
  BY <1>1, <1>3, <1>5, <1>9, <1>10 DEF LocksOK, Writing, Initializing
<1>18. ListsOK' /\ RegistersOK'
  BY <1>1, <1>2, <1>12, <1>13, QuietKeepsLists
<1>19. GroupOK'
  <2>1. /\ contexts \in Seq(ReadyOrNone)' /\ Len(contexts) = Len(setup.members) /\ Len(contexts) \in Nat
        /\ DOMAIN contexts = 1 .. Len(contexts)
        /\ \A i \in 1 .. Len(contexts) : contexts[i] \in ReadyOrNone'
    <3>1. contexts \in Seq(ReadyOrNone)'
      BY <1>1, <1>13, ReadyStaysIs DEF GroupOK
    <3> QED
      BY <1>1, <3>1 DEF GroupOK
  <2>2. contexts' = [i \in 1 .. Len(contexts) |-> IF setup.members[i] = c THEN c ELSE contexts[i]]
    BY <1>5, <2>1 DEF Joined
  <2>3. c \in ReadyOrNone'
    BY <1>8 DEF ReadyOrNone
  <2>4. /\ contexts' \in Seq(ReadyOrNone)' /\ Len(contexts') = Len(contexts)
        /\ \A i \in 1 .. Len(contexts) : contexts'[i] = IF setup.members[i] = c THEN c ELSE contexts[i]
    BY <2>1, <2>2, <2>3
  <2>5. \A i \in 1 .. Len(contexts) : \/ contexts[i] = setup.members[i]
                                      \/ contexts[i] = None /\ ~ctx[setup.members[i]].ready
    BY <1>1 DEF GroupOK
  <2>6. \A i \in 1 .. Len(contexts) : setup.members[i] \in Contexts
    BY <1>1, <2>1 DEF SetupOK
  <2>7. \A i \in 1 .. Len(contexts') : \/ contexts'[i] = setup.members[i]
                                       \/ contexts'[i] = None /\ ~ctx'[setup.members[i]].ready
    BY <1>8, <2>4, <2>5, <2>6
  <2> QED
    BY <1>2, <2>1, <2>4, <2>7 DEF GroupOK
<1>21. ContextsOK'
  <2>1. Built(c) /\ Built(c)'
    BY <1>3, <1>8 DEF Built
  <2>2. \A u \in Threads : ~(Submitting(u) /\ thread[u].of = c) /\ ~(Submitting(u)' /\ thread'[u].of = c)
    BY <1>1, <1>3, <1>9, <1>10, <1>14, OperationsAre DEF Submitting, Initializing
  <2>3. ~Updating(c) /\ ~UpdatingWith(c, TRUE) /\ ~Updating(c)' /\ ~UpdatingWith(c, TRUE)'
    BY <2>2 DEF Updating, UpdatingWith, Submitting
  <2>4. MadeImage(c)' = MadeImage(c) /\ setup'.ringData = setup.ringData
    BY <1>2, MadeImageSame DEF SameSetup
  <2>5. ImageOK(c) /\ (setup.ringData => DataOK(c))
    BY <1>6, <2>1 DEF ContextOK
  <2>6. ImageOK(c)'
    BY <1>8, <2>4, <2>5 DEF ImageOK
  <2>7. setup.ringData => DataOK(c)'
    BY <1>8, <2>3, <2>5 DEF DataOK
  <2>8. ctx'[c].tail \in Place /\ ctx'[c].seen \in Place
    BY <1>6, <1>8 DEF ContextOK
  <2>9. ContextOK(c)'
    BY <1>8, <2>4, <2>6, <2>7, <2>8 DEF ContextOK
  <2> QED
    BY <1>1, <1>2, <1>3, <1>8, <1>11, <2>9, ContextsStep
<1>22. SeenOrWaiting'
  <2>1. ctx'[c].seen = ctx'[c].tail
    BY <1>3, <1>6, <1>8 DEF ContextOK
  <2> QED
    BY <1>1, <1>2, <1>12, <2>1, QuietKeepsSeen
<1> QED
  BY <1>2, <1>15, <1>16, <1>17, <1>18, <1>19, <1>21, <1>22 DEF Inv

(* A submission takes the GGTT lock, and updates the ring and the image. *)
LEMMA SubmitBatchBufferKeeps ==
    ASSUME Inv, NEW t \in Threads, NEW c \in Contexts, NEW override \in BOOLEAN,
           SubmitBatchBuffer(t, c, override)
    PROVE  Inv'
<1>1. ThreadsOK /\ OneThread /\ LocksOK /\ ListsOK /\ RegistersOK /\ GroupOK /\ ContextsOK /\ SeenOrWaiting /\ SetupOK
  BY DEF Inv
<1>2. SameSetup /\ SetupOK'
  BY <1>1, CallKeepsSetup DEF SubmitBatchBuffer
<1>3. thread[t] = Idle /\ ~Busy(c) /\ ctx[c].ready /\ ggttLock = None /\ ggttLock' = t
  BY DEF SubmitBatchBuffer, Call
<1> DEFINE x == ctx[c]
           head == StartOf(x.tail)
           tail == head + 1
           host == setRing(IF override THEN setRing(x.host, "head", At(head)) ELSE x.host, "tail", At(tail))
           data == setRingData(IF override THEN setRingData(x.hostData, "head", At(head)) ELSE x.hostData,
                               "tail", At(tail))
           u == Update(override)
           image == Written(x.image, host, offsetRingRegisters + offsetRing[u.from], u.size)
<1>4. ctx' = [ctx EXCEPT ![c] = [x EXCEPT !.tail = tail, !.host = host,
                                          !.hostData = IF setup.ringData THEN data ELSE @,
                                          !.seen = IF override THEN head ELSE @,
                                          !.image = Written(@, host, offsetRingRegisters + offsetRing[u.from], u.size)]]
  BY DEF SubmitBatchBuffer
<1>5. /\ thread' = [thread EXCEPT ![t] = [op |-> "update", of |-> c, override |-> override]]
      /\ UNCHANGED <<contexts, csLock, slots, port, races>>
  BY DEF SubmitBatchBuffer
<1>6. DOMAIN ctx = Contexts /\ DOMAIN x = Fields /\ ContextOK(c)
  BY <1>1 DEF ContextsOK, ContextOK
<1>7. head \in Nat /\ tail \in Place /\ head \in Place /\ tail # 0 /\ tail - 1 = head
  <2>1. x.tail \in 0 .. RingSize - 1 /\ RingSize \in Nat /\ RingSize > 1
    BY <1>6, CommandStreamerAssumption DEF ContextOK, Place
  <2> HIDE DEF x
  <2> QED
    BY <2>1 DEF StartOf, Place
<1>8. host[TailAt] = <<"tail", At(tail)>> /\ (override => host[HeadAt] = <<"head", At(head)>>)
  <2>1. \A g, v : SetPair(g, 4, "head", v)[4] = <<"head", v>> /\ SetPair(g, 6, "tail", v)[6] = <<"tail", v>>
    BY DEF SetPair
  <2>2. \A g, v : 4 \in DOMAIN g => SetPair(g, 6, "tail", v)[4] = g[4]
    BY DEF SetPair
  <2>3. \A g, v : 4 \in DOMAIN SetPair(g, 4, "head", v)
    BY DEF SetPair
  <2>4. \A g, v : setRing(g, "head", v) = SetPair(g, 4, "head", v) /\ setRing(g, "tail", v) = SetPair(g, 6, "tail", v)
    BY PlacesAre DEF setRing
  <2> QED
    BY <2>1, <2>2, <2>3, <2>4, PlacesAre
<1>9. data[DataTail] = <<"tail", At(tail)>> /\ (override => data[DataHead] = <<"head", At(head)>>)
  <2>1. \A g, v : SetPair(g, 2, "head", v)[2] = <<"head", v>> /\ SetPair(g, 4, "tail", v)[4] = <<"tail", v>>
    BY DEF SetPair
  <2>2. \A g, v : 2 \in DOMAIN g => SetPair(g, 4, "tail", v)[2] = g[2]
    BY DEF SetPair
  <2>3. \A g, v : 2 \in DOMAIN SetPair(g, 2, "head", v)
    BY DEF SetPair
  <2>4. \A g, v : setRingData(g, "head", v) = SetPair(g, 2, "head", v) /\ setRingData(g, "tail", v) = SetPair(g, 4, "tail", v)
    BY PlacesAre DEF setRingData
  <2> QED
    BY <2>1, <2>2, <2>3, <2>4, PlacesAre
<1> HIDE DEF head, tail, host, data, u, image
<1>10. /\ DOMAIN ctx' = Contexts /\ DOMAIN ctx'[c] = Fields /\ ctx'[c].ready = x.ready
       /\ ctx'[c].tail = tail /\ ctx'[c].seen = IF override THEN head ELSE x.seen
       /\ ctx'[c].data = x.data /\ (setup.ringData => ctx'[c].hostData = data)
       /\ ctx'[c].image = image
       /\ \A d \in Contexts \ {c} : ctx'[d] = ctx[d]
  <2> DEFINE y == [x EXCEPT !.tail = tail, !.host = host,
                            !.hostData = IF setup.ringData THEN data ELSE @,
                            !.seen = IF override THEN head ELSE @,
                            !.image = Written(@, host, offsetRingRegisters + offsetRing[u.from], u.size)]
  <2>1. /\ DOMAIN y = Fields /\ y.ready = x.ready /\ y.tail = tail /\ y.seen = IF override THEN head ELSE x.seen
        /\ y.data = x.data /\ (setup.ringData => y.hostData = data)
        /\ y.image = Written(x.image, host, offsetRingRegisters + offsetRing[u.from], u.size)
    <3> HIDE DEF x
    <3> QED
      BY <1>6 DEF Fields
  <2> HIDE DEF y
  <2>2. ctx' = [ctx EXCEPT ![c] = y]
    BY <1>4 DEF y
  <2> QED
    BY <1>6, <2>1, <2>2 DEF image
<1>11. /\ DOMAIN thread' = Threads
       /\ thread'[t] = [op |-> "update", of |-> c, override |-> override]
       /\ \A v \in Threads \ {t} : thread'[v] = thread[v]
  BY <1>1, <1>5 DEF ThreadsOK
<1>12. /\ thread'[t].op = "update" /\ thread'[t].of = c /\ thread'[t].override = override
       /\ thread'[t] \in AtUpdate /\ thread'[t] # Idle /\ thread[t].op = "idle"
  BY <1>3, <1>11 DEF AtUpdate, Idle
<1>13. StepAbout(t, c)
  BY <1>3, <1>10, <1>11, <1>12 DEF StepAbout
<1>14. Quiet(t, c)
  BY <1>5, <1>11, <1>12, <1>13 DEF Quiet, Writing
<1>15. ReadyStays
  BY <1>10, <1>13, OthersReady
<1>16. \A v \in Threads \ {t} : thread[v] # Idle => thread[v].of # c
  BY <1>3 DEF Busy
<1>17. \A v \in Threads : csLock # v /\ ~Submitting(v) /\ None # v
  BY <1>1, <1>3, OperationsAre, CommandStreamerAssumption DEF LocksOK
<1>18. ThreadsOK'
  <2>1. ASSUME NEW v \in Threads
        PROVE  \/ thread'[v] = Idle
               \/ thread'[v] \in AtInitialize /\ ~ctx'[thread'[v].of].ready
               \/ thread'[v] \in AtUpdate /\ ctx'[thread'[v].of].ready /\ ggttLock' = v
               \/ thread'[v] \in AtWrite /\ ctx'[thread'[v].of].ready
    <3>1. CASE v = t
      BY <3>1, <1>3, <1>10, <1>12
    <3>2. CASE v # t
      <4>1. thread'[v] = thread[v]
        BY <1>11, <3>2
      <4>2. thread[v] # Idle => ctx'[thread[v].of] = ctx[thread[v].of]
        BY <1>1, <1>10, <1>16, <3>2 DEF ThreadsOK, AtInitialize, AtUpdate, AtWrite
      <4>3. thread[v] \notin AtUpdate
        BY <1>17 DEF Submitting, AtUpdate
      <4> QED
        BY <1>1, <4>1, <4>2, <4>3 DEF ThreadsOK
    <3> QED
      BY <3>1, <3>2
  <2> QED
    BY <1>11, <2>1 DEF ThreadsOK
<1>19. OneThread'
  BY <1>1, <1>11, <1>12, <1>16 DEF OneThread
<1>20. LocksOK'
  BY <1>1, <1>3, <1>5, <1>11, <1>12, <1>17 DEF LocksOK, Writing
<1>21. ListsOK' /\ RegistersOK'
  BY <1>1, <1>2, <1>14, <1>15, QuietKeepsLists
<1>22. GroupOK'
  <2>1. \A d \in Contexts : ctx'[d].ready => ctx[d].ready
    BY <1>10
  <2> QED
    BY <1>1, <1>2, <1>5, <1>15, <2>1, GroupSame
<1>23. Updating(c)' /\ (UpdatingWith(c, TRUE)' <=> override)
  <2>1. Updating(c)'
    BY <1>12 DEF Updating
  <2>2. \A v \in Threads : Submitting(v)' /\ thread'[v].of = c => v = t
    BY <1>11, <1>17 DEF Submitting
  <2>3. Submitting(t)' /\ thread'[t].of = c /\ thread'[t].override = override
    BY <1>12 DEF Submitting
  <2>4. CASE override
    <3>1. override = TRUE
      BY <2>4
    <3> QED
      BY <2>1, <2>3, <2>4, <3>1 DEF UpdatingWith
  <2>5. CASE ~override
    <3>1. override = FALSE
      BY <2>5
    <3>2. \A v \in Threads : Submitting(v)' /\ thread'[v].of = c => thread'[v].override # TRUE
      BY <2>2, <2>3, <3>1
    <3> QED
      BY <2>1, <2>5, <3>2 DEF UpdatingWith
  <2> QED
    BY <2>4, <2>5
<1>24. ContextsOK'
  <2>1. Built(c) /\ ~Updating(c) /\ ~UpdatingWith(c, TRUE)
    BY <1>1, <1>3, NotBusy
  <2>2. MadeImage(c)' = MadeImage(c) /\ setup'.ringData = setup.ringData
    BY <1>2, MadeImageSame DEF SameSetup
  <2>3. ImageOK(c) /\ (setup.ringData => DataOK(c))
    BY <1>6, <2>1 DEF ContextOK
  <2>4. ImageOK(c)'
    <3>1. /\ LikeMade(image, MadeImage(c), HeadAt, TailAt)
          /\ image[TailAt][2] = At(tail)
          /\ image[HeadAt][2] = IF override THEN At(head) ELSE x.image[HeadAt][2]
      <4>1. LikeMade(x.image, MadeImage(c), HeadAt, TailAt)
        BY <2>3 DEF ImageOK
      <4> HIDE DEF x
      <4> DEFINE new == UpdatedImage(x.image, host, override)
      <4>0. host[TailAt][1] = "tail" /\ (override => host[HeadAt][1] = "head")
        BY <1>8
      <4>2. /\ LikeMade(new, MadeImage(c), HeadAt, TailAt)
            /\ new[TailAt] = host[TailAt]
            /\ new[HeadAt] = IF override THEN host[HeadAt] ELSE x.image[HeadAt]
        <5>1. SetupOK
          BY <1>1
        <5> QED
          BY <5>1, <4>0, <4>1, ImageWritten
      <4>3. new = image
        BY DEF image, u, UpdatedImage
      <4> HIDE DEF new
      <4> QED
        BY <1>8, <4>2, <4>3
    <3>2. ~setup.ringData => x.image[HeadAt][2] = At(x.seen)
      BY <2>3 DEF ImageOK
    <3> QED
      BY <1>10, <2>2, <3>1, <3>2 DEF ImageOK
  <2>5. ASSUME setup.ringData PROVE DataOK(c)'
    <3>1. /\ LikeMade(x.data, initializeRingData(c), DataHead, DataTail)
          /\ \E n \in Place : x.data[DataTail][2] = At(n)
          /\ x.data[DataHead][2] = At(x.seen)
      BY <2>1, <2>3, <2>5 DEF DataOK
    <3>2. ctx'[c].hostData = data /\ ctx'[c].data = x.data
      BY <1>10, <2>5
    <3>3. ~override => ctx'[c].seen = x.seen
      BY <1>10
    <3> HIDE DEF x
    <3> QED
      BY <1>7, <1>9, <1>10, <1>23, <3>1, <3>2, <3>3 DEF DataOK
  <2>6. ctx'[c].tail \in Place /\ ctx'[c].seen \in Place
    BY <1>6, <1>7, <1>10 DEF ContextOK
  <2>7. ctx'[c].ready \in BOOLEAN /\ ctx'[c].ready
    BY <1>3, <1>6, <1>10 DEF ContextOK
  <2>8. ContextOK(c)'
    BY <1>10, <2>2, <2>4, <2>5, <2>6, <2>7 DEF ContextOK
  <2> QED
    BY <1>1, <1>2, <1>3, <1>10, <1>13, <2>8, ContextsStep
<1>25. SeenOrWaiting'
  BY <1>1, <1>2, <1>14, <1>23, QuietKeepsSeen
<1> QED
  BY <1>2, <1>18, <1>19, <1>20, <1>21, <1>22, <1>24, <1>25 DEF Inv

(* The lesser of two numbers *)
LEMMA MinIs ==
    ASSUME NEW m \in Int, NEW n \in Int, n <= m
    PROVE  Min({m, n}) = n
<1> DEFINE S == {m, n}
           M == CHOOSE x \in S : \A y \in S : x =< y
<1>1. n \in S /\ (\A y \in S : n =< y) /\ S \subseteq Int
  OBVIOUS
<1>2. M \in S /\ \A y \in S : M =< y
  BY <1>1
<1>3. M = n
  BY <1>1, <1>2
<1> QED
  BY <1>3 DEF Min

(* The dwords of a list that fills the slots *)
LEMMA DwordsAre ==
    ASSUME NEW list, Len(list) \in Nat, Len(list) >= Slots
    PROVE  Dwords(list) = 2 * (IF setup.port THEN Len(list) ELSE Slots)
<1>1. Slots \in Nat
  BY CommandStreamerAssumption
<1>2. Min({Len(list), Slots}) = Slots
  BY <1>1, MinIs
<1> QED
  BY <1>2 DEF Dwords

(* A list has the contexts that are wanted, and they are ready. *)
LEMMA ListIs ==
    ASSUME SetupOK, GroupOK, NEW c \in Contexts, ctx[c].ready
    PROVE  /\ Wanted(c) \in Seq(ReadyOrNone) /\ Len(Wanted(c)) >= Slots
           /\ List(c) = [i \in 1 .. Len(Wanted(c)) |-> Descriptor(Wanted(c)[i])]
           /\ HasSlot(c) => c \in {Wanted(c)[i] : i \in 1 .. IF setup.port THEN Len(Wanted(c)) ELSE Slots}
<1>1. Slots \in Nat /\ Slots > 0
  BY CommandStreamerAssumption
<1>2. setup.members \in Seq(Contexts) /\ Len(setup.members) >= Slots
  BY DEF SetupOK
<1>3. contexts \in Seq(ReadyOrNone) /\ Len(contexts) = Len(setup.members)
  BY DEF GroupOK
<1>4. c \in ReadyOrNone /\ None \in ReadyOrNone
  BY DEF ReadyOrNone
<1>5. CASE InGroup(c)
  <2>1. Wanted(c) = contexts /\ List(c) = [i \in DOMAIN contexts |-> Descriptor(contexts[i])]
    BY <1>5 DEF Wanted, List
  <2>2. DOMAIN contexts = 1 .. Len(contexts)
    BY <1>3
  <2>3. ASSUME HasSlot(c)
        PROVE  \E i \in 1 .. IF setup.port THEN Len(contexts) ELSE Slots : setup.members[i] = c
    <3>1. DOMAIN setup.members = 1 .. Len(contexts)
      BY <1>2, <1>3
    <3> QED
      BY <1>1, <1>2, <1>3, <1>5, <2>3, <3>1 DEF HasSlot, InGroup, ToSet
  <2>4. \A i \in 1 .. Len(contexts) : setup.members[i] = c => contexts[i] = c
    BY DEF GroupOK
  <2>5. HasSlot(c) => \E i \in 1 .. IF setup.port THEN Len(contexts) ELSE Slots : contexts[i] = c
    <3>1. Len(contexts) \in Nat /\ Len(contexts) >= Slots
      BY <1>2, <1>3
    <3> QED
      BY <1>1, <2>3, <2>4, <3>1
  <2> QED
    BY <1>2, <1>3, <2>1, <2>2, <2>5
<1>6. CASE ~InGroup(c)
  <2> DEFINE w == [i \in 1 .. Slots |-> IF i = 1 THEN c ELSE None]
  <2>1. Wanted(c) = w /\ List(c) = [i \in 1 .. Slots |-> IF i = 1 THEN Descriptor(c) ELSE Empty]
    BY <1>6 DEF Wanted, List, SingleList
  <2>2. w \in Seq(ReadyOrNone) /\ Len(w) = Slots /\ w[1] = c
    BY <1>1, <1>4
  <2>3. \A i \in 1 .. Slots : Descriptor(w[i]) = IF i = 1 THEN Descriptor(c) ELSE Empty
    <3>1. \A i \in 1 .. Slots : i = 1 => w[i] = c
      OBVIOUS
    <3>2. \A i \in 1 .. Slots : i # 1 => w[i] = None
      OBVIOUS
    <3> HIDE DEF w
    <3>3. \A i \in 1 .. Slots : i = 1 => Descriptor(w[i]) = Descriptor(c)
      BY <3>1, Zenon
    <3>4. \A i \in 1 .. Slots : i # 1 => Descriptor(w[i]) = Empty
      BY <3>2, Zenon DEF Empty
    <3> QED
      BY <3>3, <3>4
  <2>4. List(c) = [i \in 1 .. Len(w) |-> Descriptor(w[i])]
    <3>1. List(c) = [i \in 1 .. Slots |-> IF i = 1 THEN Descriptor(c) ELSE Empty]
      BY <2>1
    <3>2. Len(w) = Slots
      BY <2>2
    <3> HIDE DEF w
    <3>3. [i \in 1 .. Slots |-> Descriptor(w[i])] = [i \in 1 .. Slots |-> IF i = 1 THEN Descriptor(c) ELSE Empty]
      BY <2>3, Zenon
    <3> QED
      BY <3>1, <3>2, <3>3, Zenon
  <2>5. 1 \in 1 .. IF setup.port THEN Len(w) ELSE Slots
    BY <1>1, <2>2
  <2> HIDE DEF w
  <2> QED
    BY <1>1, <2>1, <2>2, <2>4, <2>5
<1> QED
  BY <1>5, <1>6

(* A list that a thread starts, and what becomes of the others' *)
LEMMA StartedIs ==
    ASSUME NEW t \in Threads, NEW c, NEW locked, StartList(t, c, locked)
    PROVE  /\ DOMAIN thread' = Threads
           /\ thread'[t].op = "write" /\ thread'[t].of = c /\ thread'[t].at = 1
           /\ thread'[t].list = List(c) /\ thread'[t].wanted = Wanted(c) /\ thread'[t].locked = locked
           /\ thread'[t].raced \in BOOLEAN
           /\ thread'[t].raced <=> \E u \in Threads : u # t /\ Writing(u)
           /\ thread'[t] = [op |-> "write", of |-> c, at |-> 1, list |-> List(c), wanted |-> Wanted(c),
                            locked |-> locked, raced |-> thread'[t].raced]
           /\ \A u \in Threads \ {t} : /\ ~Writing(u) => thread'[u] = thread[u]
                                       /\ Writing(u) => thread'[u] = [thread[u] EXCEPT !.raced = TRUE]
           /\ (\E u \in Threads : u # t /\ Writing(u)) => races' = TRUE
           /\ ~(\E u \in Threads : u # t /\ Writing(u)) => races' \in BOOLEAN /\ (races' <=> races)
<1> DEFINE others == {u \in Threads : u # t /\ Writing(u)}
           some == others # {}
           w == [op |-> "write", of |-> c, at |-> 1, list |-> List(c),
                 wanted |-> Wanted(c), locked |-> locked, raced |-> some]
<1>1. /\ thread' = [u \in Threads |-> IF u = t THEN w
                                      ELSE IF u \in others THEN [thread[u] EXCEPT !.raced = TRUE]
                                      ELSE thread[u]]
      /\ races' = (races \/ some)
  BY Zenon DEF StartList
<1>2. some <=> \E u \in Threads : u # t /\ Writing(u)
  OBVIOUS
<1>3. some \in BOOLEAN
  BY Zenon
<1>4. w.op = "write" /\ w.of = c /\ w.at = 1 /\ w.list = List(c) /\ w.wanted = Wanted(c) /\ w.locked = locked
      /\ w.raced = some
  BY Zenon
<1>5. \A u \in Threads : u # t => (u \in others <=> Writing(u))
  OBVIOUS
<1>6. w = [op |-> "write", of |-> c, at |-> 1, list |-> List(c), wanted |-> Wanted(c),
           locked |-> locked, raced |-> w.raced]
  BY <1>4, Zenon
<1>7. some => races' = TRUE
  <2> SUFFICES ASSUME some PROVE races' = TRUE
    OBVIOUS
  <2>1. (races \/ some) = TRUE
    BY Zenon
  <2> QED
    BY <1>1, <2>1, Zenon
<1>8. ~some => races' \in BOOLEAN /\ (races' <=> races)
  BY <1>1, Zenon
<1> HIDE DEF w, others, some
<1>9. thread'[t] = w /\ DOMAIN thread' = Threads
  BY <1>1, Zenon
<1>10. \A u \in Threads \ {t} : /\ ~Writing(u) => thread'[u] = thread[u]
                                /\ Writing(u) => thread'[u] = [thread[u] EXCEPT !.raced = TRUE]
  BY <1>1, <1>5, Zenon
<1>11. w.raced \in BOOLEAN /\ (w.raced <=> some)
  BY <1>3, <1>4, Zenon
<1>12. /\ thread'[t].op = "write" /\ thread'[t].of = c /\ thread'[t].at = 1
       /\ thread'[t].list = List(c) /\ thread'[t].wanted = Wanted(c) /\ thread'[t].locked = locked
       /\ thread'[t].raced \in BOOLEAN
       /\ thread'[t].raced <=> some
       /\ thread'[t] = [op |-> "write", of |-> c, at |-> 1, list |-> List(c), wanted |-> Wanted(c),
                        locked |-> locked, raced |-> thread'[t].raced]
  BY <1>4, <1>6, <1>9, <1>11, Zenon
<1> QED
  BY <1>2, <1>7, <1>8, <1>9, <1>10, <1>12, Zenon

(* What a thread that starts a list keeps, of whatever call it is *)
LEMMA StartListKeeps ==
    ASSUME SetupOK, SameSetup, ThreadsOK, OneThread, ListsOK, RegistersOK, GroupOK, SeenOrWaiting,
           NEW t \in Threads, NEW c \in Contexts, NEW locked \in BOOLEAN, StartList(t, c, locked),
           ctx[c].ready, ~Writing(t), thread[t] = Idle \/ thread[t].of = c,
           \A u \in Threads \ {t} : thread[u] # Idle => thread[u].of # c,
           \A d \in Contexts : ctx'[d].ready = ctx[d].ready,
           \A d \in Contexts \ {c} : ctx'[d] = ctx[d],
           UNCHANGED <<contexts, slots, port, ggttLock>>
    PROVE  /\ StepAbout(t, c)
           /\ ThreadsOK' /\ OneThread' /\ ListsOK' /\ RegistersOK' /\ GroupOK' /\ SeenOrWaiting'
           /\ Writing(t)' /\ ~Updating(c)' /\ ~UpdatingWith(c, TRUE)' /\ (Built(c)' <=> Built(c))
           /\ thread'[t].locked = locked
           /\ \A u \in Threads \ {t} : /\ Writing(u)' <=> Writing(u)
                                       /\ Writing(u) => thread'[u].locked = thread[u].locked
<1>1. /\ DOMAIN thread' = Threads
      /\ thread'[t].op = "write" /\ thread'[t].of = c /\ thread'[t].at = 1
      /\ thread'[t].list = List(c) /\ thread'[t].wanted = Wanted(c) /\ thread'[t].locked = locked
      /\ thread'[t].raced \in BOOLEAN
      /\ thread'[t].raced <=> \E u \in Threads : u # t /\ Writing(u)
      /\ thread'[t] = [op |-> "write", of |-> c, at |-> 1, list |-> List(c), wanted |-> Wanted(c),
                       locked |-> locked, raced |-> thread'[t].raced]
      /\ \A u \in Threads \ {t} : /\ ~Writing(u) => thread'[u] = thread[u]
                                  /\ Writing(u) => thread'[u] = [thread[u] EXCEPT !.raced = TRUE]
      /\ (\E u \in Threads : u # t /\ Writing(u)) => races' = TRUE
      /\ ~(\E u \in Threads : u # t /\ Writing(u)) => races' \in BOOLEAN /\ (races' <=> races)
  BY StartedIs
<1>2. /\ Wanted(c) \in Seq(ReadyOrNone) /\ Len(Wanted(c)) >= Slots
      /\ List(c) = [i \in 1 .. Len(Wanted(c)) |-> Descriptor(Wanted(c)[i])]
      /\ HasSlot(c) => c \in {Wanted(c)[i] : i \in 1 .. IF setup.port THEN Len(Wanted(c)) ELSE Slots}
  BY ListIs
<1>3. \A u \in Threads \ {t} :
        Writing(u) => /\ thread'[u] \in AtWrite /\ thread'[u].op = "write" /\ thread'[u].of = thread[u].of
                      /\ thread'[u].at = thread[u].at /\ thread'[u].list = thread[u].list
                      /\ thread'[u].wanted = thread[u].wanted /\ thread'[u].locked = thread[u].locked
                      /\ thread'[u].raced = TRUE
  <2> SUFFICES ASSUME NEW u \in Threads \ {t}, Writing(u)
               PROVE  /\ thread'[u] \in AtWrite /\ thread'[u].op = "write" /\ thread'[u].of = thread[u].of
                      /\ thread'[u].at = thread[u].at /\ thread'[u].list = thread[u].list
                      /\ thread'[u].wanted = thread[u].wanted /\ thread'[u].locked = thread[u].locked
                      /\ thread'[u].raced = TRUE
    OBVIOUS
  <2>1. thread[u] \in AtWrite
    BY OperationsAre
  <2>2. thread'[u] = [thread[u] EXCEPT !.raced = TRUE]
    BY <1>1
  <2> QED
    BY <2>1, <2>2 DEF AtWrite
<1>4. ReadyStays
  BY DEF ReadyStays
<1>5. Writing(t)' /\ thread'[t] # Idle
  BY <1>1 DEF Writing, Idle
<1>6. \A u \in Threads \ {t} : /\ thread'[u].of = thread[u].of \/ thread'[u] = thread[u]
                               /\ thread'[u] # Idle => thread[u] # Idle
                               /\ Writing(u)' <=> Writing(u)
  <2> SUFFICES ASSUME NEW u \in Threads \ {t}
               PROVE  /\ thread'[u].of = thread[u].of \/ thread'[u] = thread[u]
                      /\ thread'[u] # Idle => thread[u] # Idle
                      /\ Writing(u)' <=> Writing(u)
    OBVIOUS
  <2>1. CASE Writing(u)
    BY <1>3, <2>1, OperationsAre DEF Writing
  <2>2. CASE ~Writing(u)
    BY <1>1, <2>2 DEF Writing
  <2> QED
    BY <2>1, <2>2
<1>7. StepAbout(t, c)
  <2>1. \A u \in Threads \ {t} : thread'[u] = thread[u] \/ (Writing(u) /\ Writing(u)')
    BY <1>1, <1>6
  <2> QED
    BY <1>1, <2>1 DEF StepAbout
<1>8. List(c) \in Seq([lo : ContextOrNone, hi : ContextOrNone]) /\ Wanted(c) \in Seq(ContextOrNone)
      /\ Len(List(c)) = Len(Wanted(c)) /\ Len(Wanted(c)) \in Nat
  <2>1. ReadyOrNone \subseteq ContextOrNone
    BY DEF ReadyOrNone, ContextOrNone
  <2>2. Wanted(c) \in Seq(ContextOrNone)
    BY <1>2, <2>1, SeqWider
  <2>3. \A i \in 1 .. Len(Wanted(c)) : Descriptor(Wanted(c)[i]) \in [lo : ContextOrNone, hi : ContextOrNone]
    BY <2>2 DEF Descriptor
  <2> QED
    BY <1>2, <2>2, <2>3
<1>9. thread'[t] \in AtWrite
  <2>1. 1 \in Nat /\ "write" \in {"write"}
    OBVIOUS
  <2>2. thread'[t].raced \in BOOLEAN
    BY <1>1
  <2>3. thread'[t] = [op |-> "write", of |-> c, at |-> 1, list |-> List(c), wanted |-> Wanted(c),
                      locked |-> locked, raced |-> thread'[t].raced]
    BY <1>1
  <2> DEFINE w == thread'[t]
             r == thread'[t].raced
  <2>4. w = [op |-> "write", of |-> c, at |-> 1, list |-> List(c), wanted |-> Wanted(c),
             locked |-> locked, raced |-> r] /\ r \in BOOLEAN
    BY <2>2, <2>3
  <2> HIDE DEF w, r
  <2>5. w \in AtWrite
    BY <1>8, <2>1, <2>4 DEF AtWrite
  <2> QED
    BY <2>5 DEF w
<1>10. ThreadsOK'
  <2>1. ASSUME NEW v \in Threads
        PROVE  \/ thread'[v] = Idle
               \/ thread'[v] \in AtInitialize /\ ~ctx'[thread'[v].of].ready
               \/ thread'[v] \in AtUpdate /\ ctx'[thread'[v].of].ready /\ ggttLock' = v
               \/ thread'[v] \in AtWrite /\ ctx'[thread'[v].of].ready
    <3>1. CASE v = t
      BY <3>1, <1>1, <1>9
    <3>2. CASE v # t /\ Writing(v)
      <4>1. thread[v] \in AtWrite /\ ctx[thread[v].of].ready
        BY <3>2, OperationsAre
      <4>2. thread[v].of \in Contexts
        BY <4>1 DEF AtWrite
      <4> QED
        BY <1>3, <3>2, <4>1, <4>2
    <3>3. CASE v # t /\ ~Writing(v)
      <4>1. thread'[v] = thread[v]
        BY <1>1, <3>3
      <4>2. thread[v] # Idle => thread[v].of \in Contexts
        BY DEF ThreadsOK, AtInitialize, AtUpdate, AtWrite
      <4> QED
        BY <4>1, <4>2 DEF ThreadsOK
    <3> QED
      BY <3>1, <3>2, <3>3
  <2> QED
    BY <1>1, <2>1 DEF ThreadsOK
<1>11. OneThread'
  <2> SUFFICES ASSUME NEW u \in Threads, NEW v \in Threads, thread'[u] # Idle, thread'[v] # Idle,
                      thread'[u].of = thread'[v].of
               PROVE  u = v
    BY DEF OneThread
  <2>1. CASE u = t
    BY <2>1, <1>1, <1>6
  <2>2. CASE v = t
    BY <2>2, <1>1, <1>6
  <2>3. CASE u # t /\ v # t
    BY <2>3, <1>6 DEF OneThread
  <2> QED
    BY <2>1, <2>2, <2>3
<1>12. ListsOK'
  <2> SUFFICES ASSUME NEW u \in Threads, Writing(u)'
               PROVE  /\ ListOK(u)'
                      /\ ~thread'[u].raced => /\ HasWritten(u)'
                                              /\ \A v \in Threads : Writing(v)' => v = u
                      /\ thread'[u].raced => races'
    BY DEF ListsOK
  <2>1. CASE u = t
    <3>1. Dwords(List(c)) \in Nat
      <4>1. Dwords(List(c)) = 2 * (IF setup.port THEN Len(List(c)) ELSE Slots)
        BY <1>2, <1>8, DwordsAre
      <4>2. Slots \in Nat
        BY CommandStreamerAssumption
      <4> QED
        BY <1>8, <4>1, <4>2
    <3>2. Dwords(thread[t].list)' = Dwords(List(c))
      BY <1>1 DEF SameSetup, Dwords
    <3>3. Wanted(c) \in Seq(ReadyOrNone)'
      BY <1>2, <1>4, ReadyStaysIs
    <3>4. ListOK(t)'
      BY <1>1, <1>2, <3>1, <3>2, <3>3 DEF ListOK
    <3>5. ~thread'[t].raced => port' = << >> /\ \A v \in Threads : Writing(v)' => v = t
      BY <1>1, <1>6 DEF RegistersOK
    <3>6. ~thread'[t].raced => HasWritten(t)'
      BY <1>1, <3>5 DEF HasWritten
    <3> QED
      BY <2>1, <1>1, <3>4, <3>5, <3>6
  <2>2. CASE u # t
    <3>1. Writing(u) /\ ListOK(u)
      BY <2>2, <1>6 DEF ListsOK
    <3>2. ListOK(u)'
      <4>1. thread[u].wanted \in Seq(ReadyOrNone)'
        BY <1>4, <3>1, ReadyStaysIs DEF ListOK
      <4>2. Dwords(thread[u].list)' = Dwords(thread[u].list)
        BY <1>3, <2>2, <3>1 DEF SameSetup, Dwords
      <4> QED
        BY <1>3, <2>2, <3>1, <4>1, <4>2 DEF ListOK
    <3>3. thread'[u].raced /\ races'
      BY <1>1, <1>3, <2>2, <3>1
    <3> QED
      BY <3>2, <3>3
  <2> QED
    BY <2>1, <2>2
<1>13. RegistersOK'
  <2>1. slots \in Seq(Dword)' /\ port \in Seq(Dword)'
    BY <1>4, ReadyStaysIs DEF RegistersOK
  <2>2. races' \in BOOLEAN
    BY <1>1
  <2> QED
    BY <1>5, <2>1, <2>2 DEF RegistersOK, SameSetup
<1>14. GroupOK'
  BY <1>4, GroupSame
<1>15. SeenOrWaiting'
  <2> SUFFICES ASSUME ~races', NEW d \in Contexts, ctx'[d].ready, HasSlot(d)'
               PROVE  ctx'[d].seen = ctx'[d].tail \/ Updating(d)' \/ WillLoad(d)'
    BY DEF SeenOrWaiting
  <2>1. ~races /\ HasSlot(d) /\ \A u \in Threads : ~Writing(u)
    BY <1>1, HasSlotSame
  <2>2. CASE d = c
    <3>1. c \in {Wanted(c)[i] : i \in 1 .. IF setup.port THEN Len(Wanted(c)) ELSE Slots}
      BY <1>2, <2>1, <2>2
    <3>2. WillLoad(d)'
      BY <1>1, <1>5, <2>2, <3>1 DEF WillLoad, SameSetup
    <3> QED
      BY <3>2
  <2>3. CASE d # c
    <3>1. ctx'[d] = ctx[d] /\ ctx[d].ready
      BY <2>3
    <3>2. ~WillLoad(d)
      BY <2>1 DEF WillLoad
    <3>3. Updating(d) => Updating(d)'
      <4>1. \A u \in Threads : thread[u].op = "update" /\ thread[u].of = d => thread'[u] = thread[u]
        <5>1. thread[t].op = "update" => thread[t].of = c
          BY OperationsAre DEF Idle
        <5> QED
          BY <1>1, <2>1, <2>3, <5>1
      <4> QED
        BY <4>1 DEF Updating
    <3> QED
      BY <2>1, <3>1, <3>2, <3>3 DEF SeenOrWaiting
  <2> QED
    BY <2>2, <2>3
<1>16. ~Updating(c)' /\ ~UpdatingWith(c, TRUE)'
  <2>1. \A u \in Threads \ {t} : thread'[u].op = "update" => thread[u] # Idle /\ thread'[u] = thread[u]
    BY <1>1, <1>3, OperationsAre
  <2>2. \A u \in Threads : ~(thread'[u].op = "update" /\ thread'[u].of = c)
    BY <1>1, <2>1
  <2> QED
    BY <2>2 DEF Updating, UpdatingWith, Submitting
<1>17. Built(c)' <=> Built(c)
  BY DEF Built
<1>18. /\ thread'[t].locked = locked
       /\ \A u \in Threads \ {t} : /\ Writing(u)' <=> Writing(u)
                                   /\ Writing(u) => thread'[u].locked = thread[u].locked
  BY <1>1, <1>3, <1>6
<1> QED
  BY <1>18, <1>5, <1>7, <1>10, <1>11, <1>12, <1>13, <1>14, <1>15, <1>16, <1>17

(* The ring data, then the list, under the lock of the command streamer *)
LEMMA SubmitListKeeps ==
    ASSUME Inv, NEW t \in Threads, NEW c \in Contexts, SubmitList(t), thread[t].of = c
    PROVE  Inv'
<1>1. ThreadsOK /\ OneThread /\ LocksOK /\ ListsOK /\ RegistersOK /\ GroupOK /\ ContextsOK /\ SeenOrWaiting /\ SetupOK
  BY DEF Inv
<1>2. SameSetup /\ SetupOK' /\ setup' = setup
  BY <1>1, NoCallKeepsSetup DEF SubmitList
<1>3. Submitting(t) /\ thread[t] \in AtUpdate /\ ctx[c].ready /\ ggttLock = t /\ ~Writing(t) /\ thread[t] # Idle
  BY <1>1, OperationsAre DEF SubmitList, Submitting, Writing
<1> DEFINE override == thread[t].override
           x == ctx[c]
<1>4. override \in BOOLEAN
  BY <1>3 DEF AtUpdate
<1>5. /\ csLock = None /\ csLock' = t
      /\ ctx' = [ctx EXCEPT ![c] = IF setup.ringData
                                   THEN [x EXCEPT !.data = UpdatedData(x, override),
                                                  !.seen = IF override THEN x.tail - 1 ELSE @]
                                   ELSE x]
      /\ StartList(t, c, TRUE)
      /\ UNCHANGED <<setup, contexts, ggttLock, slots, port>>
  BY DEF SubmitList
<1>6. DOMAIN ctx = Contexts /\ DOMAIN x = Fields /\ ContextOK(c)
  BY <1>1 DEF ContextsOK, ContextOK
<1>7. /\ DOMAIN ctx' = Contexts /\ DOMAIN ctx'[c] = Fields /\ ctx'[c].ready = x.ready /\ ctx'[c].tail = x.tail
      /\ ctx'[c].image = x.image /\ ctx'[c].hostData = x.hostData
      /\ ~setup.ringData => ctx'[c].seen = x.seen
      /\ setup.ringData => /\ ctx'[c].data = UpdatedData(x, override)
                           /\ ctx'[c].seen = IF override THEN x.tail - 1 ELSE x.seen
      /\ \A d \in Contexts \ {c} : ctx'[d] = ctx[d]
  <2> DEFINE o == override
             y == [x EXCEPT !.data = UpdatedData(x, o), !.seen = IF o THEN x.tail - 1 ELSE @]
             z == IF setup.ringData THEN y ELSE x
  <2>1. /\ DOMAIN y = Fields /\ y.ready = x.ready /\ y.tail = x.tail /\ y.image = x.image
        /\ y.hostData = x.hostData /\ y.data = UpdatedData(x, o) /\ y.seen = IF o THEN x.tail - 1 ELSE x.seen
    <3> HIDE DEF x, o
    <3> QED
      BY <1>6 DEF Fields
  <2>2. ctx' = [ctx EXCEPT ![c] = z]
    BY <1>5
  <2> HIDE DEF y
  <2>3. ctx'[c] = z /\ DOMAIN ctx' = Contexts /\ \A d \in Contexts \ {c} : ctx'[d] = ctx[d]
    BY <1>6, <2>2
  <2> QED
    BY <1>6, <2>1, <2>3
<1>8. \A u \in Threads \ {t} : thread[u] # Idle => thread[u].of # c
  BY <1>1, <1>3 DEF OneThread
<1>9. \A d \in Contexts : ctx'[d].ready = ctx[d].ready
  BY <1>7
<1>10. /\ StepAbout(t, c)
       /\ ThreadsOK' /\ OneThread' /\ ListsOK' /\ RegistersOK' /\ GroupOK' /\ SeenOrWaiting'
       /\ Writing(t)' /\ ~Updating(c)' /\ ~UpdatingWith(c, TRUE)' /\ (Built(c)' <=> Built(c))
       /\ thread'[t].locked = TRUE
       /\ \A u \in Threads \ {t} : /\ Writing(u)' <=> Writing(u)
                                   /\ Writing(u) => thread'[u].locked = thread[u].locked
  <2>1. TRUE \in BOOLEAN
    OBVIOUS
  <2> QED
    BY <1>1, <1>2, <1>3, <1>5, <1>7, <1>8, <1>9, <2>1, StartListKeeps
<1>11. LocksOK'
  <2>2. \A u \in Threads \ {t} : Writing(u) => ~thread[u].locked
    BY <1>1, <1>5, CommandStreamerAssumption DEF LocksOK
  <2>3. \A u \in Threads \ {t} : Writing(u)' => ~thread'[u].locked
    BY <1>10, <2>2
  <2> QED
    BY <1>1, <1>3, <1>5, <1>10, <2>3 DEF LocksOK
<1>12. Built(c) /\ Updating(c) /\ (UpdatingWith(c, TRUE) <=> override)
  <2>1. Built(c) /\ Updating(c)
    BY <1>3 DEF Built, Updating, Submitting
  <2>2. \A u \in Threads : Submitting(u) /\ thread[u].of = c => u = t
    BY <1>1, <1>8, OperationsAre
  <2>3. UpdatingWith(c, TRUE) <=> override = TRUE
    BY <1>3, <2>2 DEF UpdatingWith
  <2>4. override <=> override = TRUE
    BY <1>4
  <2> QED
    BY <2>1, <2>3, <2>4
<1>13. ContextsOK'
  <2>1. MadeImage(c)' = MadeImage(c) /\ setup'.ringData = setup.ringData
    BY <1>2, MadeImageSame
  <2>2. ImageOK(c) /\ (setup.ringData => DataOK(c))
    BY <1>6, <1>12 DEF ContextOK
  <2>3. ImageOK(c)'
    BY <1>7, <2>1, <2>2 DEF ImageOK
  <2>4. ASSUME setup.ringData PROVE DataOK(c)' /\ ctx'[c].seen \in Place
    <3>1. /\ LikeMade(x.data, initializeRingData(c), DataHead, DataTail)
          /\ x.hostData[DataTail] = <<"tail", At(x.tail)>>
          /\ override => x.hostData[DataHead] = <<"head", At(x.tail - 1)>> /\ x.tail # 0
          /\ ~override => x.data[DataHead][2] = At(x.seen)
      BY <1>12, <2>2, <2>4 DEF DataOK
    <3>2. x.hostData[DataTail][1] = "tail" /\ (override => x.hostData[DataHead][1] = "head")
      BY <3>1
    <3>3. /\ LikeMade(UpdatedData(x, override), initializeRingData(c), DataHead, DataTail)
          /\ UpdatedData(x, override)[DataTail] = x.hostData[DataTail]
          /\ UpdatedData(x, override)[DataHead] = IF override THEN x.hostData[DataHead] ELSE x.data[DataHead]
      BY <1>4, <3>1, <3>2, DataWritten
    <3>4. x.tail \in Place /\ x.seen \in Place /\ (override => x.tail - 1 \in Place)
      <4>1. x.tail \in Place /\ x.seen \in Place
        BY <1>6 DEF ContextOK
      <4>2. x.tail # 0 => x.tail - 1 \in Place
        BY <4>1, CommandStreamerAssumption DEF Place
      <4> QED
        BY <3>1, <4>1, <4>2
    <3>5. ctx'[c].data = UpdatedData(x, override) /\ ctx'[c].seen = IF override THEN x.tail - 1 ELSE x.seen
      BY <1>7, <2>4
    <3> DEFINE data == UpdatedData(x, override)
               host == x.hostData
    <3> HIDE DEF x, override, data, host
    <3>6. data[DataTail][2] = At(x.tail)
      BY <3>1, <3>3 DEF data, host
    <3>7. data[DataHead][2] = At(ctx'[c].seen)
      BY <3>1, <3>3, <3>5 DEF data, host
    <3>8. LikeMade(ctx'[c].data, initializeRingData(c), DataHead, DataTail) /\ ctx'[c].data = data /\ ctx'[c].tail = x.tail
      BY <1>7, <3>3, <3>5 DEF data
    <3>9. ctx'[c].seen \in Place
      BY <3>4, <3>5
    <3> QED
      BY <1>10, <3>4, <3>6, <3>7, <3>8, <3>9 DEF DataOK
  <2>5. ctx'[c].tail \in Place /\ ctx'[c].seen \in Place
    BY <1>6, <1>7, <2>4 DEF ContextOK
  <2>6. ctx'[c].ready \in BOOLEAN /\ ctx'[c].ready
    BY <1>3, <1>6, <1>7 DEF ContextOK
  <2>7. ContextOK(c)'
    BY <1>7, <2>1, <2>3, <2>4, <2>5, <2>6 DEF ContextOK
  <2> QED
    BY <1>1, <1>2, <1>7, <1>10, <2>7, ContextsStep
<1> QED
  BY <1>2, <1>10, <1>11, <1>13 DEF Inv

(* A list that is submitted again *)
LEMMA ResubmitKeeps ==
    ASSUME Inv, NEW t \in Threads, NEW c \in Contexts, Resubmit(t, c)
    PROVE  Inv'
<1>1. ThreadsOK /\ OneThread /\ LocksOK /\ ListsOK /\ RegistersOK /\ GroupOK /\ ContextsOK /\ SeenOrWaiting /\ SetupOK
  BY DEF Inv
<1>2. SameSetup /\ SetupOK'
  BY <1>1, CallKeepsSetup DEF Resubmit
<1>3. /\ thread[t] = Idle /\ ~Busy(c) /\ ctx[c].ready /\ StartList(t, c, FALSE)
      /\ UNCHANGED <<ctx, contexts, ggttLock, csLock, slots, port>>
  BY DEF Resubmit, Call
<1>4. \A u \in Threads \ {t} : thread[u] # Idle => thread[u].of # c
  BY <1>3 DEF Busy
<1>5. ~Writing(t)
  BY <1>1, <1>3, OperationsAre
<1>6. /\ StepAbout(t, c)
      /\ ThreadsOK' /\ OneThread' /\ ListsOK' /\ RegistersOK' /\ GroupOK' /\ SeenOrWaiting'
      /\ Writing(t)' /\ ~Updating(c)' /\ ~UpdatingWith(c, TRUE)' /\ (Built(c)' <=> Built(c))
      /\ thread'[t].locked = FALSE
      /\ \A u \in Threads \ {t} : /\ Writing(u)' <=> Writing(u)
                                  /\ Writing(u) => thread'[u].locked = thread[u].locked
  <2>1. FALSE \in BOOLEAN
    OBVIOUS
  <2> QED
    BY <1>1, <1>2, <1>3, <1>4, <1>5, <2>1, StartListKeeps
<1>7. LocksOK'
  BY <1>1, <1>3, <1>5, <1>6 DEF LocksOK
<1>8. ContextsOK'
  <2>1. SameContext(c)
    <3>1. ~Updating(c) /\ ~UpdatingWith(c, TRUE)
      BY <1>1, <1>3, NotBusy
    <3> QED
      BY <1>3, <1>6, <3>1 DEF SameContext
  <2>2. ContextOK(c)'
    BY <1>1, <1>2, <2>1, SameContextOK DEF ContextsOK
  <2> QED
    BY <1>1, <1>2, <1>3, <1>6, <2>2, ContextsStep DEF ContextsOK
<1> QED
  BY <1>2, <1>6, <1>7, <1>8 DEF Inv

(* A dword of a list is a half of one of its descriptors. *)
LEMMA DwordOfIs ==
    ASSUME NEW wanted \in Seq(ReadyOrNone), NEW list, list = [i \in 1 .. Len(wanted) |-> Descriptor(wanted[i])],
           NEW n \in Nat, n <= Len(wanted), NEW i \in 1 .. 2 * n
    PROVE  /\ (i + 1) \div 2 \in 1 .. n
           /\ DwordOf(list, i) = IF i % 2 = 1 THEN <<"lo", wanted[(i + 1) \div 2]>> ELSE <<"hi", wanted[(i + 1) \div 2]>>
           /\ DwordOf(list, i) \in Dword
<1>1. (i + 1) \div 2 \in 1 .. n
  OBVIOUS
<1>2. Len(wanted) \in Nat
  OBVIOUS
<1> DEFINE k == (i + 1) \div 2
<1>3. k \in 1 .. Len(wanted)
  BY <1>1, <1>2
<1>4. DwordOf(list, i) = IF i % 2 = 1 THEN <<"lo", list[k].lo>> ELSE <<"hi", list[k].hi>>
  BY DEF DwordOf
<1> HIDE DEF k
<1>5. list[k].lo = wanted[k] /\ list[k].hi = wanted[k] /\ wanted[k] \in ReadyOrNone
  BY <1>3 DEF Descriptor
<1>6. DwordOf(list, i) = IF i % 2 = 1 THEN <<"lo", wanted[k]>> ELSE <<"hi", wanted[k]>>
  BY <1>4, <1>5
<1>7. DwordOf(list, i) \in Dword
  <2>1. CASE i % 2 = 1
    BY <1>5, <1>6, <2>1 DEF Dword
  <2>2. CASE i % 2 # 1
    BY <1>5, <1>6, <2>2 DEF Dword
  <2> QED
    BY <2>1, <2>2
<1> QED
  BY <1>1, <1>6, <1>7 DEF k

(* The list of a thread that writes, whole *)
LEMMA WritingIs ==
    ASSUME ThreadsOK, ListsOK, NEW t \in Threads, Writing(t)
    PROVE  /\ thread[t] \in AtWrite
           /\ thread[t].wanted \in Seq(ReadyOrNone) /\ Len(thread[t].wanted) \in Nat
           /\ Len(thread[t].wanted) >= Slots
           /\ thread[t].list = [i \in 1 .. Len(thread[t].wanted) |-> Descriptor(thread[t].wanted[i])]
           /\ Len(thread[t].list) = Len(thread[t].wanted)
           /\ Dwords(thread[t].list) = 2 * (IF setup.port THEN Len(thread[t].wanted) ELSE Slots)
           /\ thread[t].at \in 1 .. Dwords(thread[t].list) + 1
<1>1. thread[t] \in AtWrite /\ ListOK(t)
  BY OperationsAre DEF ListsOK
<1>2. Len(thread[t].wanted) \in Nat /\ Len(thread[t].list) = Len(thread[t].wanted)
  BY <1>1 DEF ListOK
<1>3. Dwords(thread[t].list) = 2 * (IF setup.port THEN Len(thread[t].list) ELSE Slots)
  BY <1>1, <1>2, DwordsAre DEF ListOK
<1> QED
  BY <1>1, <1>2, <1>3 DEF ListOK

(* A dword is written. *)
LEMMA WriteDwordKeeps ==
    ASSUME Inv, NEW t \in Threads, NEW c, WriteDword(t), thread[t].of = c
    PROVE  Inv'
<1>1. ThreadsOK /\ OneThread /\ LocksOK /\ ListsOK /\ RegistersOK /\ GroupOK /\ ContextsOK /\ SeenOrWaiting /\ SetupOK
  BY DEF Inv
<1>2. SameSetup /\ SetupOK' /\ setup' = setup
  BY <1>1, NoCallKeepsSetup DEF WriteDword
<1> DEFINE i == thread[t].at
           w == thread[t].wanted
           list == thread[t].list
           n == IF setup.port THEN Len(w) ELSE Slots
<1>3. Writing(t) /\ i <= Dwords(list)
  BY DEF WriteDword
<1>4. /\ thread[t] \in AtWrite
      /\ w \in Seq(ReadyOrNone) /\ Len(w) \in Nat /\ Len(w) >= Slots
      /\ list = [k \in 1 .. Len(w) |-> Descriptor(w[k])]
      /\ Len(list) = Len(w) /\ Dwords(list) = 2 * n /\ i \in 1 .. Dwords(list) + 1
  BY <1>1, <1>3, WritingIs
<1>5. Slots \in Nat /\ n \in Nat /\ n <= Len(w)
  BY <1>4, CommandStreamerAssumption
<1>6. /\ thread' = [thread EXCEPT ![t].at = @ + 1]
      /\ UNCHANGED <<setup, ctx, contexts, ggttLock, csLock, races>>
      /\ setup.port => port' = Append(port, DwordOf(list, i)) /\ slots' = slots
      /\ ~setup.port => slots' = [slots EXCEPT ![i] = DwordOf(list, i)] /\ port' = port
  BY DEF WriteDword, DwordOf
<1>7. i \in 1 .. 2 * n
  BY <1>3, <1>4, <1>5
<1> HIDE DEF n
<1>8. DwordOf(list, i) \in Dword
  BY <1>4, <1>5, <1>7, DwordOfIs
<1>9. /\ DOMAIN thread' = Threads
      /\ thread'[t] \in AtWrite /\ thread'[t].op = "write" /\ thread'[t].of = c /\ thread'[t].at = i + 1
      /\ thread'[t].list = list /\ thread'[t].wanted = w /\ thread'[t].locked = thread[t].locked
      /\ thread'[t].raced = thread[t].raced
      /\ \A u \in Threads \ {t} : thread'[u] = thread[u]
  <2>1. DOMAIN thread = Threads
    BY <1>1 DEF ThreadsOK
  <2>2. thread'[t] = [thread[t] EXCEPT !.at = @ + 1] /\ DOMAIN thread' = Threads
        /\ \A u \in Threads \ {t} : thread'[u] = thread[u]
    BY <1>6, <2>1
  <2> DEFINE y == thread[t]
             z == thread'[t]
  <2>3. y \in AtWrite /\ z = [y EXCEPT !.at = @ + 1] /\ y.at + 1 \in Nat
    BY <1>4, <2>2
  <2> HIDE DEF y, z
  <2>4. /\ z \in AtWrite /\ z.op = "write" /\ z.of = y.of /\ z.at = y.at + 1 /\ z.list = y.list /\ z.wanted = y.wanted
        /\ z.locked = y.locked /\ z.raced = y.raced
    BY <2>3 DEF AtWrite
  <2> QED
    BY <2>2, <2>4 DEF y, z
<1> HIDE DEF i, w, list
<1>10. Writing(t)' /\ \A u \in Threads : Writing(u)' <=> Writing(u)
  BY <1>3, <1>9 DEF Writing
<1>11. ReadyStays
  BY <1>6 DEF ReadyStays
<1>12. ThreadsOK'
  <2>1. thread[t] # Idle /\ ctx[c].ready
    BY <1>1, <1>3, OperationsAre
  <2> QED
    BY <1>1, <1>6, <1>9, <2>1 DEF ThreadsOK
<1>13. OneThread'
  <2>1. thread[t] # Idle
    BY <1>1, <1>3, OperationsAre
  <2> QED
    BY <1>1, <1>9, <2>1 DEF OneThread
<1>14. LocksOK'
  <2>1. \A u \in Threads : Writing(u) => thread'[u].locked = thread[u].locked
    BY <1>9
  <2> QED
    BY <1>1, <1>6, <1>10, <2>1 DEF LocksOK
<1>15. ListsOK'
  <2> SUFFICES ASSUME NEW u \in Threads, Writing(u)'
               PROVE  /\ ListOK(u)'
                      /\ ~thread'[u].raced => /\ HasWritten(u)'
                                              /\ \A v \in Threads : Writing(v)' => v = u
                      /\ thread'[u].raced => races'
    BY DEF ListsOK
  <2>1. Writing(u) /\ thread'[u].raced = thread[u].raced
    BY <1>9, <1>10
  <2>2. (thread'[u].raced => races') /\ (~thread'[u].raced => \A v \in Threads : Writing(v)' => v = u)
    BY <1>1, <1>6, <1>10, <2>1 DEF ListsOK
  <2>3. CASE u = t
    <3>1. Dwords(thread[t].list)' = Dwords(list)
      BY <1>2, <1>9 DEF SameSetup, Dwords
    <3>2. ListOK(t)'
      <4>1. w \in Seq(ReadyOrNone)'
        BY <1>4, <1>11, ReadyStaysIs
      <4>2. i + 1 \in 1 .. Dwords(list) + 1
        BY <1>3, <1>4, <1>5, <1>7
      <4> QED
        BY <1>4, <1>9, <3>1, <4>1, <4>2 DEF ListOK
    <3>3. ASSUME ~thread'[t].raced PROVE HasWritten(t)'
      <4>1. HasWritten(t)
        BY <1>1, <1>3, <1>9, <3>3 DEF ListsOK
      <4>2. CASE setup.port
        <5>1. Len(port) = i - 1 /\ \A k \in 1 .. i - 1 : port[k] = DwordOf(list, k)
          BY <4>1, <4>2 DEF HasWritten, i, list
        <5>2. port' = Append(port, DwordOf(list, i)) /\ port \in Seq(Dword)
          BY <1>1, <1>6, <4>2 DEF RegistersOK
        <5>3. Len(port') = i /\ port'[i] = DwordOf(list, i) /\ \A k \in 1 .. i - 1 : port'[k] = port[k]
          BY <1>7, <1>5, <1>8, <5>1, <5>2
        <5>4. \A k \in 1 .. i : port'[k] = DwordOf(list, k)
          BY <1>7, <1>5, <5>1, <5>3
        <5>5. thread'[t].at - 1 = i /\ Len(port') = thread'[t].at - 1
          BY <1>7, <1>5, <1>9, <5>3
        <5>6. \A k \in 1 .. thread'[t].at - 1 : port'[k] = DwordOf(thread'[t].list, k)
          BY <1>9, <5>4, <5>5
        <5> QED
          BY <5>5, <5>6, <1>2, <4>2 DEF HasWritten, DwordOf
      <4>3. CASE ~setup.port
        <5>1. \A k \in 1 .. i - 1 : slots[k] = DwordOf(list, k)
          BY <4>1, <4>3 DEF HasWritten, i, list
        <5>2. slots' = [slots EXCEPT ![i] = DwordOf(list, i)] /\ i \in DOMAIN slots
          <6>1. n = Slots
            BY <4>3 DEF n
          <6> QED
            BY <1>1, <1>6, <1>7, <4>3, <6>1 DEF RegistersOK
        <5>3. slots'[i] = DwordOf(list, i) /\ \A k \in 1 .. i - 1 : slots'[k] = slots[k]
          BY <1>7, <1>5, <5>2
        <5>4. \A k \in 1 .. i : slots'[k] = DwordOf(list, k)
          BY <1>7, <1>5, <5>1, <5>3
        <5> QED
          BY <1>2, <1>7, <1>5, <1>9, <4>3, <5>4 DEF HasWritten, DwordOf
      <4> QED
        BY <4>2, <4>3
    <3> QED
      BY <2>2, <2>3, <3>2, <3>3
  <2>4. CASE u # t
    <3>1. thread'[u] = thread[u] /\ ListOK(u)
      BY <1>1, <1>9, <2>1, <2>4 DEF ListsOK
    <3>2. ListOK(u)'
      BY <1>2, <1>11, <3>1, ListSame
    <3>3. thread'[u].raced
      BY <1>1, <1>3, <2>1, <2>4 DEF ListsOK
    <3> QED
      BY <2>2, <3>2, <3>3
  <2> QED
    BY <2>3, <2>4
<1>16. RegistersOK'
  <2>1. slots' \in Seq(Dword) /\ Len(slots') = 2 * Slots /\ port' \in Seq(Dword)
    <3>1. CASE setup.port
      BY <1>1, <1>6, <1>8, <3>1 DEF RegistersOK
    <3>2. CASE ~setup.port
      <4>1. slots \in Seq(Dword) /\ i \in DOMAIN slots /\ slots' = [slots EXCEPT ![i] = DwordOf(list, i)]
            /\ Len(slots) = 2 * Slots
        <5>1. n = Slots
          BY <3>2 DEF n
        <5> QED
          BY <1>1, <1>6, <1>7, <3>2, <5>1 DEF RegistersOK
      <4> QED
        BY <1>1, <1>6, <1>8, <3>2, <4>1 DEF RegistersOK
    <3> QED
      BY <3>1, <3>2
  <2>2. slots' \in Seq(Dword)' /\ port' \in Seq(Dword)'
    BY <1>11, <2>1, ReadyStaysIs
  <2>3. setup'.port \/ port' = << >>
    BY <1>1, <1>2, <1>6 DEF RegistersOK
  <2> QED
    BY <1>1, <1>6, <1>10, <2>1, <2>2, <2>3 DEF RegistersOK
<1>17. GroupOK'
  BY <1>1, <1>2, <1>6, <1>11, GroupSame
<1>18. ContextsOK'
  <2> SUFFICES ASSUME NEW d \in Contexts PROVE ContextOK(d)'
    BY <1>1, <1>6 DEF ContextsOK
  <2>1. \A u \in Threads : /\ Initializing(u)' <=> Initializing(u)
                           /\ Submitting(u)' <=> Submitting(u)
                           /\ Initializing(u) \/ Submitting(u) => thread'[u] = thread[u]
    BY <1>3, <1>9 DEF Initializing, Submitting, Writing
  <2>2. SameContext(d)
    BY <1>6, <2>1 DEF SameContext, Built, Updating, UpdatingWith, Submitting
  <2> QED
    BY <1>1, <1>2, <2>2, SameContextOK DEF ContextsOK
<1>19. SeenOrWaiting'
  <2> SUFFICES ASSUME ~races', NEW d \in Contexts, ctx'[d].ready, HasSlot(d)'
               PROVE  ctx'[d].seen = ctx'[d].tail \/ Updating(d)' \/ WillLoad(d)'
    BY DEF SeenOrWaiting
  <2>1. HasSlot(d)
    BY <1>2, HasSlotSame
  <2>2. Updating(d) => Updating(d)'
    <3>1. \A u \in Threads : thread[u].op = "update" => thread'[u] = thread[u]
      BY <1>3, <1>9 DEF Writing
    <3> QED
      BY <3>1 DEF Updating
  <2>3. WillLoad(d) => WillLoad(d)'
    <3>1. \A u \in Threads : Writing(u) => thread'[u].wanted = thread[u].wanted
      BY <1>9 DEF w
    <3> QED
      BY <1>2, <1>10, <3>1 DEF WillLoad
  <2> QED
    BY <1>1, <1>6, <2>1, <2>2, <2>3 DEF SeenOrWaiting
<1> QED
  BY <1>2, <1>12, <1>13, <1>14, <1>15, <1>16, <1>17, <1>18, <1>19 DEF Inv

(* What a load takes was ready before, or is no context. *)
LEMMA TakenIs ==
    ASSUME RegistersOK
    PROVE  /\ \A c \in Loaded : c \in Contexts /\ ctx[c].ready
           /\ DOMAIN Taken = 1 .. Len(IF setup.port THEN port ELSE slots) \div 2
<1> DEFINE dwords == IF setup.port THEN port ELSE slots
           n == Len(dwords) \div 2
<1>1. dwords \in Seq(Dword) /\ Len(dwords) \in Nat
  BY DEF RegistersOK
<1>2. Taken = [i \in 1 .. n |-> IF dwords[2 * i - 1][1] = "lo" /\ dwords[2 * i][1] = "hi" /\ dwords[2 * i - 1][2] = dwords[2 * i][2]
                                THEN dwords[2 * i][2] ELSE Mixed]
  BY DEF Taken
<1> HIDE DEF dwords
<1>3. n \in Nat /\ 2 * n <= Len(dwords)
  BY <1>1
<1> HIDE DEF n
<1>4. DOMAIN Taken = 1 .. n
  BY <1>2
<1>5. \A i \in 1 .. n : Taken[i] \in ReadyOrNone \cup {Mixed}
  <2> SUFFICES ASSUME NEW i \in 1 .. n PROVE Taken[i] \in ReadyOrNone \cup {Mixed}
    OBVIOUS
  <2>1. 2 * i \in 1 .. Len(dwords)
    BY <1>1, <1>3
  <2>2. dwords[2 * i] \in Dword
    BY <1>1, <2>1
  <2>3. dwords[2 * i][2] \in ReadyOrNone
    BY <2>2 DEF Dword
  <2> QED
    BY <1>2, <2>3
<1>6. \A c \in Loaded : c \in Contexts /\ \E i \in 1 .. n : Taken[i] = c
  BY <1>4 DEF Loaded, ToSet
<1>7. \A c \in Contexts : c # None /\ c # Mixed
  BY CommandStreamerAssumption
<1>8. \A c \in Loaded : c \in Contexts /\ ctx[c].ready
  BY <1>5, <1>6, <1>7 DEF ReadyOrNone
<1> QED
  BY <1>4, <1>8 DEF n, dwords

(* A list that no other writer raced with is taken as it was wanted. *)
LEMMA ListTaken ==
    ASSUME ThreadsOK, ListsOK, RegistersOK, NEW t \in Threads, Writing(t), ~thread[t].raced,
           thread[t].at > Dwords(thread[t].list)
    PROVE  LET n == IF setup.port THEN Len(thread[t].wanted) ELSE Slots
           IN /\ Taken = [i \in 1 .. n |-> thread[t].wanted[i]]
              /\ Taken = SubSeq(thread[t].wanted, 1, n)
              /\ Loaded = Contexts \cap {thread[t].wanted[i] : i \in 1 .. n}
<1> DEFINE w == thread[t].wanted
           list == thread[t].list
           n == IF setup.port THEN Len(w) ELSE Slots
           dwords == IF setup.port THEN port ELSE slots
<1>1. /\ w \in Seq(ReadyOrNone) /\ Len(w) \in Nat /\ Len(w) >= Slots
      /\ list = [i \in 1 .. Len(w) |-> Descriptor(w[i])]
      /\ Dwords(list) = 2 * n /\ thread[t].at \in 1 .. Dwords(list) + 1
  BY WritingIs
<1>2. n \in Nat /\ n <= Len(w)
  <2>1. Slots \in Nat
    BY CommandStreamerAssumption
  <2>2. Len(w) \in Nat /\ Len(w) >= Slots
    BY <1>1
  <2> DEFINE m == Len(w)
  <2>3. m \in Nat /\ m >= Slots
    BY <2>2
  <2> HIDE DEF m
  <2>4. (IF setup.port THEN m ELSE Slots) \in Nat /\ (IF setup.port THEN m ELSE Slots) <= m
    BY <2>1, <2>3
  <2> QED
    BY <2>4 DEF m
<1>3. thread[t].at - 1 = 2 * n
  <2> DEFINE a == thread[t].at
  <2>1. a > Dwords(list) /\ Dwords(list) = 2 * n /\ a \in 1 .. Dwords(list) + 1 /\ n \in Nat
    BY <1>1, <1>2
  <2> HIDE DEF n, list, a
  <2>2. a - 1 = 2 * n
    BY <2>1
  <2> QED
    BY <2>2 DEF a
<1>4. Len(dwords) = 2 * n /\ \A i \in 1 .. 2 * n : dwords[i] = DwordOf(list, i)
  <2>1. HasWritten(t)
    BY DEF ListsOK
  <2>2. CASE setup.port
    BY <1>3, <2>1, <2>2 DEF HasWritten
  <2>3. CASE ~setup.port
    <3>1. n = Slots /\ Len(slots) = 2 * Slots
      BY <2>3 DEF RegistersOK
    <3>2. \A i \in 1 .. 2 * n : slots[i] = DwordOf(list, i)
      BY <1>3, <2>1, <2>3 DEF HasWritten
    <3> QED
      BY <2>3, <3>1, <3>2
  <2> QED
    BY <2>2, <2>3
<1>5. Taken = [i \in 1 .. Len(dwords) \div 2 |->
                 IF dwords[2 * i - 1][1] = "lo" /\ dwords[2 * i][1] = "hi" /\ dwords[2 * i - 1][2] = dwords[2 * i][2]
                 THEN dwords[2 * i][2] ELSE Mixed]
  BY DEF Taken
<1> HIDE DEF w, list, n, dwords
<1>6. Len(dwords) \div 2 = n
  BY <1>2, <1>4
<1>7. \A i \in 1 .. n : dwords[2 * i - 1] = <<"lo", w[i]>> /\ dwords[2 * i] = <<"hi", w[i]>>
  <2> SUFFICES ASSUME NEW i \in 1 .. n
               PROVE  dwords[2 * i - 1] = <<"lo", w[i]>> /\ dwords[2 * i] = <<"hi", w[i]>>
    OBVIOUS
  <2>1. /\ 2 * i - 1 \in 1 .. 2 * n /\ (2 * i - 1 + 1) \div 2 = i /\ (2 * i - 1) % 2 = 1
        /\ 2 * i \in 1 .. 2 * n /\ (2 * i + 1) \div 2 = i /\ (2 * i) % 2 # 1
    BY <1>2
  <2>2. /\ \A k \in 1 .. 2 * n :
             DwordOf(list, k) = IF k % 2 = 1 THEN <<"lo", w[(k + 1) \div 2]>> ELSE <<"hi", w[(k + 1) \div 2]>>
    BY <1>1, <1>2, DwordOfIs
  <2>3. DwordOf(list, 2 * i - 1) = <<"lo", w[i]>>
    BY <2>1, <2>2
  <2>4. DwordOf(list, 2 * i) = <<"hi", w[i]>>
    BY <2>1, <2>2
  <2> QED
    BY <1>4, <2>1, <2>3, <2>4
<1>8. Taken = [i \in 1 .. n |-> w[i]]
  <2>1. \A i \in 1 .. n : (IF dwords[2 * i - 1][1] = "lo" /\ dwords[2 * i][1] = "hi" /\ dwords[2 * i - 1][2] = dwords[2 * i][2]
                           THEN dwords[2 * i][2] ELSE Mixed) = w[i]
    BY <1>7
  <2> QED
    BY <1>5, <1>6, <2>1
<1>9. [i \in 1 .. n |-> w[i]] = SubSeq(w, 1, n)
  BY <1>1, <1>2
<1>10. Loaded = Contexts \cap {w[i] : i \in 1 .. n}
  <2>1. DOMAIN Taken = 1 .. n /\ \A i \in 1 .. n : Taken[i] = w[i]
    BY <1>8
  <2> QED
    BY <2>1 DEF Loaded, ToSet
<1> QED
  BY <1>8, <1>9, <1>10 DEF n, w

(* A context that is loaded: the head goes where its tail was. *)
LEMMA LoadedIs ==
    ASSUME SetupOK, NEW c \in Contexts, ContextOK(c), ctx[c].ready
    PROVE  /\ \A k \in UsedTables : /\ Restored(c)[PdpLow[k + 1]] = Table(k)
                                    /\ Restored(c)[PdpHigh[k + 1]] = Table(k)
           /\ Restored(c)["base"] = RingOf(c) /\ Restored(c)["ctrl"] = CtrlOf(c)
           /\ \E n \in Place : Restored(c)["tail"] = At(n)
           /\ ~Updating(c) => Restored(c)["tail"] = At(ctx[c].tail)
           /\ ~UpdatingWith(c, TRUE) => Restored(c)["head"] = At(ctx[c].seen)
           /\ LikeMade(ctx[c].image, MadeImage(c), HeadAt, TailAt)
           /\ setup.ringData => LikeMade(ctx[c].data, initializeRingData(c), DataHead, DataTail)
<1>1. ImageOK(c) /\ (setup.ringData => DataOK(c)) /\ ctx[c].tail \in Place
  BY DEF ContextOK, Built
<1>2. LikeMade(ctx[c].image, MadeImage(c), HeadAt, TailAt)
      /\ (setup.ringData => LikeMade(ctx[c].data, initializeRingData(c), DataHead, DataTail))
  BY <1>1 DEF ImageOK, DataOK
<1>3. /\ \A k \in UsedTables : /\ Restored(c)[PdpLow[k + 1]] = Table(k)
                               /\ Restored(c)[PdpHigh[k + 1]] = Table(k)
      /\ Restored(c)["base"] = RingOf(c) /\ Restored(c)["ctrl"] = CtrlOf(c)
      /\ Restored(c)["head"] = IF setup.ringData THEN ctx[c].data[DataHead][2] ELSE ctx[c].image[HeadAt][2]
      /\ Restored(c)["tail"] = IF setup.ringData THEN ctx[c].data[DataTail][2] ELSE ctx[c].image[TailAt][2]
  BY <1>2, RestoredIs
<1>4. CASE setup.ringData
  BY <1>1, <1>2, <1>3, <1>4 DEF DataOK
<1>5. CASE ~setup.ringData
  BY <1>1, <1>2, <1>3, <1>5 DEF ImageOK
<1> QED
  BY <1>4, <1>5

(* The engine writes the head back. *)
LEMMA SavedContext ==
    ASSUME SetupOK, SameSetup, NEW c \in Contexts, ContextOK(c), ctx[c].ready,
           ctx'[c] = [ctx[c] EXCEPT !.image = Saved(@, Restored(c).tail), !.data = Saved(@, Restored(c).tail),
                                    !.seen = Restored(c).tail[2]],
           Built(c)' <=> Built(c), Updating(c)' <=> Updating(c), UpdatingWith(c, TRUE)' <=> UpdatingWith(c, TRUE)
    PROVE  /\ ContextOK(c)' /\ ctx'[c].ready /\ ctx'[c].tail = ctx[c].tail
           /\ ~Updating(c) => ctx'[c].seen = ctx'[c].tail
<1> DEFINE x == ctx[c]
           v == Restored(c).tail
           y == ctx'[c]
<1>1. /\ \E n \in Place : v = At(n)
      /\ ~Updating(c) => v = At(x.tail)
      /\ LikeMade(x.image, MadeImage(c), HeadAt, TailAt)
      /\ setup.ringData => LikeMade(x.data, initializeRingData(c), DataHead, DataTail)
  BY LoadedIs
<1>2. DOMAIN x = Fields /\ x.ready \in BOOLEAN /\ x.tail \in Place /\ x.seen \in Place /\ Built(c)
      /\ ImageOK(c) /\ (setup.ringData => DataOK(c))
  BY DEF ContextOK, Built
<1>3. y = [x EXCEPT !.image = Saved(@, v), !.data = Saved(@, v), !.seen = v[2]]
  OBVIOUS
<1> HIDE DEF x, v, y
<1>4. /\ DOMAIN y = Fields /\ y.ready = x.ready /\ y.tail = x.tail /\ y.hostData = x.hostData
      /\ y.image = Saved(x.image, v) /\ y.data = Saved(x.data, v) /\ y.seen = v[2]
  BY <1>2, <1>3 DEF Fields
<1>5. PICK n \in Place : v = At(n)
  BY <1>1
<1>6. v[2] = n
  BY <1>5 DEF At
<1>7. ~Updating(c) => y.seen = y.tail
  BY <1>1, <1>4 DEF At
<1>8. v = At(y.seen)
  BY <1>4, <1>5, <1>6
<1>9. MadeImage(c)' = MadeImage(c) /\ setup'.ringData = setup.ringData
  BY MadeImageSame DEF SameSetup
<1>10. ImageOK(c)'
  <2> DEFINE made == MadeImage(c)
  <2>1. /\ DOMAIN made = Offsets /\ made[4][1] = "head" /\ made[6][1] = "tail"
        /\ \A o \in DOMAIN made : made[o][1] = "head" => o = 4
    BY MadeImageIs
  <2>2. HeadAt = 4 /\ TailAt = 6 /\ 4 \in Offsets /\ 6 \in Offsets
    BY PlacesAre DEF Offsets, Lri0
  <2>3. HeadAt \in DOMAIN made /\ TailAt \in DOMAIN made /\ made[HeadAt][1] = "head" /\ made[TailAt][1] = "tail"
        /\ \A o \in DOMAIN made : made[o][1] = "head" => o = HeadAt
    BY <2>1, <2>2
  <2>4. LikeMade(x.image, made, HeadAt, TailAt)
    BY <1>1
  <2> HIDE DEF made
  <2>5. /\ LikeMade(Saved(x.image, v), made, HeadAt, TailAt)
        /\ Saved(x.image, v)[HeadAt][2] = v /\ Saved(x.image, v)[TailAt] = x.image[TailAt]
    BY <2>3, <2>4, SavedIs
  <2>6. ~setup.ringData => x.image[TailAt][2] = At(x.tail)
    BY <1>2 DEF ImageOK, x
  <2> QED
    BY <1>4, <1>8, <1>9, <2>5, <2>6 DEF ImageOK, made, y
<1>11. ASSUME setup.ringData PROVE DataOK(c)'
  <2> DEFINE made == initializeRingData(c)
  <2>1. /\ DOMAIN made = {2, 4, 6, 8, 10} /\ made[2][1] = "head" /\ made[4][1] = "tail"
        /\ made[6][1] = "base" /\ made[8][1] = "reg2048" /\ made[10][1] = "ctrl"
    BY MadeDataIs
  <2>2. DataHead = 2 /\ DataTail = 4
    BY PlacesAre
  <2> HIDE DEF made
  <2>3. DataHead \in DOMAIN made /\ DataTail \in DOMAIN made /\ made[DataHead][1] = "head" /\ made[DataTail][1] = "tail"
        /\ \A o \in DOMAIN made : made[o][1] = "head" => o = DataHead
    BY <2>1, <2>2
  <2>4. LikeMade(x.data, made, DataHead, DataTail)
    BY <1>1, <1>11 DEF made
  <2>5. /\ LikeMade(Saved(x.data, v), made, DataHead, DataTail)
        /\ Saved(x.data, v)[DataHead][2] = v /\ Saved(x.data, v)[DataTail] = x.data[DataTail]
    BY <2>3, <2>4, SavedIs
  <2>6. DataOK(c)
    BY <1>2, <1>11
  <2>7. /\ ~Updating(c) => x.data[DataTail][2] = At(x.tail)
        /\ \E k \in Place : x.data[DataTail][2] = At(k)
        /\ Updating(c) => x.hostData[DataTail] = <<"tail", At(x.tail)>>
        /\ UpdatingWith(c, TRUE) => x.hostData[DataHead] = <<"head", At(x.tail - 1)>> /\ x.tail # 0
    BY <2>6 DEF DataOK, x
  <2>8. /\ LikeMade(y.data, made, DataHead, DataTail)
        /\ y.data[DataHead][2] = At(y.seen) /\ y.data[DataTail] = x.data[DataTail]
    BY <1>4, <1>8, <2>5
  <2>9. /\ ~Updating(c)' => y.data[DataTail][2] = At(y.tail)
        /\ \E k \in Place : y.data[DataTail][2] = At(k)
        /\ Updating(c)' => y.hostData[DataTail] = <<"tail", At(y.tail)>>
        /\ UpdatingWith(c, TRUE)' => y.hostData[DataHead] = <<"head", At(y.tail - 1)>> /\ y.tail # 0
    BY <1>4, <2>7, <2>8
  <2> QED
    BY <2>8, <2>9 DEF DataOK, made, y
<1>12. y.seen \in Place
  BY <1>4, <1>6
<1>13. y.ready
  BY <1>4 DEF x
<1> QED
  BY <1>2, <1>4, <1>7, <1>9, <1>10, <1>11, <1>12, <1>13 DEF ContextOK, y, x

(* The engine runs the list that the thread has written. *)
LEMMA LoadListKeeps ==
    ASSUME Inv, NEW t \in Threads, NEW c, LoadList(t), thread[t].of = c
    PROVE  Inv'
<1>1. ThreadsOK /\ OneThread /\ LocksOK /\ ListsOK /\ RegistersOK /\ GroupOK /\ ContextsOK /\ SeenOrWaiting /\ SetupOK
  BY DEF Inv
<1>2. SameSetup /\ SetupOK' /\ setup' = setup
  BY <1>1, NoCallKeepsSetup DEF LoadList
<1>3. /\ Writing(t) /\ thread[t].at > Dwords(thread[t].list)
      /\ port' = << >> /\ thread' = [thread EXCEPT ![t] = Idle]
      /\ ggttLock' = IF thread[t].locked THEN None ELSE ggttLock
      /\ csLock' = IF thread[t].locked THEN None ELSE csLock
      /\ UNCHANGED <<setup, contexts, slots, races>>
  BY DEF LoadList
<1>4. /\ DOMAIN ctx' = Contexts
      /\ \A d \in Contexts \ Loaded : ctx'[d] = ctx[d]
      /\ \A d \in Contexts \cap Loaded :
           ctx'[d] = [ctx[d] EXCEPT !.image = Saved(@, Restored(d).tail), !.data = Saved(@, Restored(d).tail),
                                    !.seen = Restored(d).tail[2]]
  BY DEF LoadList
<1>5. /\ DOMAIN thread' = Threads /\ thread'[t] = Idle
      /\ \A u \in Threads \ {t} : thread'[u] = thread[u]
  BY <1>1, <1>3 DEF ThreadsOK
<1>6. /\ ~Writing(t)' /\ ~Submitting(t)' /\ ~Initializing(t)'
      /\ ~Submitting(t) /\ ~Initializing(t)
  BY <1>3, <1>5 DEF Writing, Submitting, Initializing, Idle
<1>7. \A u \in Threads : /\ Initializing(u)' <=> Initializing(u)
                         /\ Submitting(u)' <=> Submitting(u)
                         /\ Initializing(u) \/ Submitting(u) => thread'[u] = thread[u]
                         /\ Writing(u)' => Writing(u) /\ u # t /\ thread'[u] = thread[u]
  BY <1>5, <1>6 DEF Initializing, Submitting, Writing
<1>8. \A d : /\ Updating(d)' <=> Updating(d)
             /\ UpdatingWith(d, TRUE)' <=> UpdatingWith(d, TRUE)
  BY <1>7 DEF Updating, UpdatingWith, Submitting
<1>9. \A d \in Loaded : d \in Contexts /\ ctx[d].ready
  BY <1>1, TakenIs
<1>10. ASSUME NEW d \in Contexts
       PROVE  /\ ContextOK(d)' /\ (ctx'[d].ready <=> ctx[d].ready) /\ ctx'[d].tail = ctx[d].tail
              /\ d \in Loaded /\ ~Updating(d) => ctx'[d].seen = ctx'[d].tail
  <2>1. ContextOK(d)
    BY <1>1 DEF ContextsOK
  <2>2. CASE d \in Loaded
    <3>1. ctx[d].ready /\ DOMAIN ctx[d] = Fields
      BY <1>9, <2>1, <2>2 DEF ContextOK
    <3>2. ctx'[d] = [ctx[d] EXCEPT !.image = Saved(@, Restored(d).tail), !.data = Saved(@, Restored(d).tail),
                                   !.seen = Restored(d).tail[2]]
      BY <1>4, <2>2
    <3>3. ctx'[d].ready
      BY <3>1, <3>2 DEF Fields
    <3>4. Built(d)' /\ Built(d)
      BY <3>1, <3>3 DEF Built
    <3>5. /\ ContextOK(d)' /\ ctx'[d].ready /\ ctx'[d].tail = ctx[d].tail
          /\ ~Updating(d) => ctx'[d].seen = ctx'[d].tail
      BY <1>1, <1>2, <1>8, <2>1, <3>1, <3>2, <3>4, SavedContext
    <3> QED
      BY <3>1, <3>5
  <2>3. CASE d \notin Loaded
    <3>1. ctx'[d] = ctx[d]
      BY <1>4, <2>3
    <3>2. Built(d)' <=> Built(d)
      BY <1>7, <3>1 DEF Built
    <3>3. SameContext(d)
      BY <1>8, <3>1, <3>2 DEF SameContext
    <3>4. ContextOK(d)'
      BY <1>2, <2>1, <3>3, SameContextOK
    <3> QED
      BY <2>3, <3>1, <3>4
  <2> QED
    BY <2>2, <2>3
<1>11. ContextsOK'
  BY <1>4, <1>10 DEF ContextsOK
<1>12. ReadyStays
  BY <1>10 DEF ReadyStays
<1>13. ThreadsOK'
  <2>1. ASSUME NEW v \in Threads
        PROVE  \/ thread'[v] = Idle
               \/ thread'[v] \in AtInitialize /\ ~ctx'[thread'[v].of].ready
               \/ thread'[v] \in AtUpdate /\ ctx'[thread'[v].of].ready /\ ggttLock' = v
               \/ thread'[v] \in AtWrite /\ ctx'[thread'[v].of].ready
    <3>1. CASE v = t
      BY <1>5, <3>1
    <3>2. CASE v # t
      <4>1. thread'[v] = thread[v]
        BY <1>5, <3>2
      <4>2. thread[v] # Idle => thread[v].of \in Contexts
        BY <1>1 DEF ThreadsOK, AtInitialize, AtUpdate, AtWrite
      <4>3. ggttLock = v => ggttLock' = v
        BY <1>1, <1>3, <3>2 DEF LocksOK
      <4> QED
        BY <1>1, <1>10, <4>1, <4>2, <4>3 DEF ThreadsOK
    <3> QED
      BY <3>1, <3>2
  <2> QED
    BY <1>5, <2>1 DEF ThreadsOK
<1>14. OneThread'
  BY <1>1, <1>5 DEF OneThread
<1>15. LocksOK'
  <2>1. CASE thread[t].locked
    <3>1. ggttLock' = None /\ csLock' = None /\ csLock = t
      BY <1>1, <1>3, <2>1 DEF LocksOK
    <3>2. \A u \in Threads : ~(Writing(u)' /\ thread'[u].locked)
      BY <1>1, <1>7, <3>1 DEF LocksOK
    <3> QED
      BY <3>1, <3>2, CommandStreamerAssumption DEF LocksOK
  <2>2. CASE ~thread[t].locked
    <3>1. ggttLock' = ggttLock /\ csLock' = csLock /\ csLock # t
      BY <1>1, <1>3, <2>2 DEF LocksOK
    <3>2. \A u \in Threads : u # t /\ Writing(u) => Writing(u)'
      BY <1>5 DEF Writing
    <3>3. \A u \in Threads : csLock = u => Writing(u)' /\ thread'[u].locked /\ ggttLock = u
      BY <1>1, <1>5, <3>1, <3>2 DEF LocksOK
    <3>4. \A u \in Threads : Writing(u)' /\ thread'[u].locked => csLock = u
      BY <1>1, <1>7 DEF LocksOK
    <3> QED
      BY <1>1, <3>1, <3>3, <3>4 DEF LocksOK
  <2> QED
    BY <2>1, <2>2
<1>16. ListsOK'
  <2> SUFFICES ASSUME NEW u \in Threads, Writing(u)'
               PROVE  /\ ListOK(u)'
                      /\ ~thread'[u].raced => /\ HasWritten(u)'
                                              /\ \A v \in Threads : Writing(v)' => v = u
                      /\ thread'[u].raced => races'
    BY DEF ListsOK
  <2>1. Writing(u) /\ u # t /\ thread'[u] = thread[u]
    BY <1>7
  <2>2. ListOK(u)'
    BY <1>1, <1>2, <1>12, <2>1, ListSame DEF ListsOK
  <2>3. thread[u].raced /\ races
    BY <1>1, <1>3, <2>1 DEF ListsOK
  <2> QED
    BY <1>3, <2>1, <2>2, <2>3
<1>17. RegistersOK'
  <2>1. slots \in Seq(Dword)' /\ << >> \in Seq(Dword)'
    BY <1>1, <1>12, ReadyStaysIs DEF RegistersOK
  <2> QED
    BY <1>1, <1>3, <2>1 DEF RegistersOK
<1>18. GroupOK'
  BY <1>1, <1>2, <1>3, <1>10, <1>12, GroupSame
<1>19. SeenOrWaiting'
  <2> SUFFICES ASSUME ~races', NEW d \in Contexts, ctx'[d].ready, HasSlot(d)'
               PROVE  ctx'[d].seen = ctx'[d].tail \/ Updating(d)' \/ WillLoad(d)'
    BY DEF SeenOrWaiting
  <2>1. ~races /\ HasSlot(d) /\ ctx[d].ready
    BY <1>2, <1>3, <1>10, HasSlotSame
  <2>2. ~thread[t].raced
    BY <1>1, <1>3, <2>1 DEF ListsOK
  <2>3. \A u \in Threads : Writing(u) => u = t
    BY <1>1, <1>3, <2>2 DEF ListsOK
  <2>4. Loaded = Contexts \cap {thread[t].wanted[i] : i \in 1 .. IF setup.port THEN Len(thread[t].wanted) ELSE Slots}
    BY <1>1, <1>3, <2>2, ListTaken
  <2>5. WillLoad(d) => d \in Loaded
    BY <2>3, <2>4 DEF WillLoad
  <2>6. CASE d \in Loaded
    BY <1>8, <1>10, <2>6
  <2>7. CASE d \notin Loaded
    <3>1. ctx'[d] = ctx[d]
      BY <1>4, <2>7
    <3> QED
      BY <1>1, <1>8, <2>1, <2>5, <2>7, <3>1 DEF SeenOrWaiting
  <2> QED
    BY <2>6, <2>7
<1> QED
  BY <1>2, <1>11, <1>13, <1>14, <1>15, <1>16, <1>17, <1>18, <1>19 DEF Inv

-----------------------------------------------------------------------------
(* The invariance, and what follows *)

(* Images are made, or their contexts are not ready. *)
LEMMA InitKeeps ==
    ASSUME Init
    PROVE  Inv
<1>1. SetupOK
  BY CommandStreamerAssumption DEF Init, SetupOK
<1>2. /\ \A t \in Threads : thread[t] = Idle /\ thread[t].op = "idle"
      /\ DOMAIN thread = Threads
  BY DEF Init, Idle
<1>3. /\ ggttLock = None /\ csLock = None /\ port = << >> /\ races = FALSE
      /\ slots = [i \in 1 .. 2 * Slots |-> IF i % 2 = 1 THEN <<"lo", None>> ELSE <<"hi", None>>]
      /\ contexts = [i \in DOMAIN setup.members |-> IF setup.members[i] \in setup.fresh THEN None ELSE setup.members[i]]
      /\ DOMAIN ctx = Contexts
      /\ \A c \in Contexts : ctx[c] = IF c \in setup.fresh THEN NewContext(c)
                                      ELSE [WithImages(setup, NewContext(c), c) EXCEPT !.ready = TRUE]
  BY DEF Init
<1>4. Slots \in Nat /\ RingSize \in Nat /\ RingSize > 1
  BY CommandStreamerAssumption
<1>5. \A t \in Threads : ~Writing(t) /\ ~Submitting(t) /\ ~Initializing(t)
  BY <1>2 DEF Writing, Submitting, Initializing
<1>6. \A c : ~Updating(c) /\ ~UpdatingWith(c, TRUE)
  BY <1>5 DEF Updating, UpdatingWith, Submitting
<1>7. ThreadsOK /\ OneThread /\ ListsOK
  BY <1>2, <1>5 DEF ThreadsOK, OneThread, ListsOK
<1>8. LocksOK
  BY <1>3, <1>5, CommandStreamerAssumption DEF LocksOK
<1>9. ASSUME NEW c \in Contexts
      PROVE  /\ ContextOK(c) /\ ctx[c].seen = 0 /\ ctx[c].tail = 0
             /\ ctx[c].ready <=> c \notin setup.fresh
  <2> DEFINE x == NewContext(c)
             y == WithImages(setup, x, c)
  <2>1. DOMAIN x = Fields /\ x.ready = FALSE /\ x.tail = 0 /\ x.seen = 0
    BY DEF NewContext, Fields
  <2>2. 0 \in Place
    BY <1>4 DEF Place
  <2> HIDE DEF x
  <2>3. /\ DOMAIN y = Fields /\ y.ready = x.ready /\ y.tail = x.tail /\ y.seen = x.seen
        /\ y.image = MadeImage(c)
        /\ setup.ringData => y.data = initializeRingData(c)
    BY <2>1, ImagesMade
  <2> HIDE DEF y
  <2>4. CASE c \in setup.fresh
    <3>1. ctx[c] = x
      BY <1>3, <2>4 DEF x
    <3>2. ~Built(c)
      BY <1>5, <2>1, <3>1 DEF Built
    <3> QED
      BY <2>1, <2>2, <2>4, <3>1, <3>2 DEF ContextOK
  <2>5. CASE c \notin setup.fresh
    <3>1. ctx[c] = [y EXCEPT !.ready = TRUE]
      BY <1>3, <2>5 DEF x, y
    <3>2. /\ DOMAIN ctx[c] = Fields /\ ctx[c].ready = TRUE /\ ctx[c].tail = 0 /\ ctx[c].seen = 0
          /\ ctx[c].image = MadeImage(c)
          /\ setup.ringData => ctx[c].data = initializeRingData(c)
      BY <2>1, <2>3, <3>1 DEF Fields
    <3>3. ImageOK(c) /\ (setup.ringData => DataOK(c))
      BY <1>1, <1>6, <3>2, MadeIsOK
    <3> QED
      BY <2>2, <2>5, <3>2, <3>3 DEF ContextOK
  <2> QED
    BY <2>4, <2>5
<1>10. ContextsOK /\ SeenOrWaiting
  BY <1>3, <1>9 DEF ContextsOK, SeenOrWaiting
<1>11. None \in ReadyOrNone
  BY DEF ReadyOrNone
<1>12. RegistersOK
  <2>1. \A h \in {"lo", "hi"}, d \in ReadyOrNone : <<h, d>> \in Dword
    BY DEF Dword
  <2> DEFINE first == <<"lo", None>>
             second == <<"hi", None>>
             n == 2 * Slots
  <2>2. first \in Dword /\ second \in Dword /\ n \in Nat
    BY <1>4, <1>11, <2>1
  <2>3. slots = [i \in 1 .. n |-> IF i % 2 = 1 THEN first ELSE second]
    BY <1>3
  <2> HIDE DEF first, second, n
  <2>4. slots \in Seq(Dword) /\ Len(slots) = n
    BY <2>2, <2>3
  <2>5. port \in Seq(Dword)
    BY <1>3
  <2> QED
    BY <1>3, <2>4, <2>5 DEF RegistersOK, n
<1>13. GroupOK
  <2>1. setup.members \in Seq(Contexts)
    BY <1>1 DEF SetupOK
  <2> DEFINE n == Len(setup.members)
  <2>2. n \in Nat /\ DOMAIN setup.members = 1 .. n /\ \A i \in 1 .. n : setup.members[i] \in Contexts
    BY <2>1
  <2> HIDE DEF n
  <2>3. contexts = [i \in 1 .. n |-> IF setup.members[i] \in setup.fresh THEN None ELSE setup.members[i]]
    BY <1>3, <2>2
  <2>4. \A i \in 1 .. n : contexts[i] \in ReadyOrNone
    BY <1>9, <1>11, <2>2, <2>3 DEF ReadyOrNone
  <2>5. contexts \in Seq(ReadyOrNone) /\ Len(contexts) = n
    BY <2>2, <2>3, <2>4
  <2>6. \A i \in 1 .. n : \/ contexts[i] = setup.members[i]
                          \/ contexts[i] = None /\ ~ctx[setup.members[i]].ready
    BY <1>9, <2>2, <2>3
  <2> QED
    BY <2>5, <2>6 DEF GroupOK, n
<1> QED
  BY <1>1, <1>7, <1>8, <1>10, <1>12, <1>13 DEF Inv

(* Every step, and a step that changes nothing, keeps the invariant. *)
LEMMA NextKeeps ==
    ASSUME Inv, [Next]_vars
    PROVE  Inv'
<1>1. ASSUME NEW t \in Threads, NEW c \in Contexts, Initialize(t, c) PROVE Inv'
  BY <1>1, InitializeKeeps
<1>2. ASSUME NEW t \in Threads, NEW c \in Contexts, Resubmit(t, c) PROVE Inv'
  BY <1>2, ResubmitKeeps
<1>3. ASSUME NEW t \in Threads, NEW c \in Contexts, NEW o \in BOOLEAN, SubmitBatchBuffer(t, c, o) PROVE Inv'
  BY <1>3, SubmitBatchBufferKeeps
<1>4. ASSUME NEW t \in Threads, InitializeStep(t) PROVE Inv'
  <2>1. Initializing(t)
    BY <1>4 DEF InitializeStep, Initializing
  <2>2. thread[t] \in AtInitialize
    BY <2>1, OperationsAre DEF Inv
  <2>3. PICK c \in Contexts : thread[t].of = c
    BY <2>2 DEF AtInitialize
  <2>4. thread[t].at = 1 \/ thread[t].at = 2
    BY <2>2 DEF AtInitialize
  <2> QED
    BY <1>4, <2>3, <2>4, ImageStepKeeps, RegisterStepKeeps
<1>5. ASSUME NEW t \in Threads, SubmitList(t) PROVE Inv'
  <2>1. Submitting(t)
    BY <1>5 DEF SubmitList, Submitting
  <2>2. thread[t] \in AtUpdate
    BY <2>1, OperationsAre DEF Inv
  <2>3. PICK c \in Contexts : thread[t].of = c
    BY <2>2 DEF AtUpdate
  <2> QED
    BY <1>5, <2>3, SubmitListKeeps
<1>6. ASSUME NEW t \in Threads, WriteDword(t) PROVE Inv'
  BY <1>6, WriteDwordKeeps
<1>7. ASSUME NEW t \in Threads, LoadList(t) PROVE Inv'
  BY <1>7, LoadListKeeps
<1>8. CASE UNCHANGED vars
  <2>1. UNCHANGED <<setup, ctx, contexts, thread, ggttLock, csLock, slots, port, races>>
    BY <1>8 DEF vars
  <2>2. ThreadsOK /\ OneThread /\ LocksOK /\ ListsOK /\ RegistersOK /\ GroupOK /\ ContextsOK /\ SeenOrWaiting /\ SetupOK
    BY DEF Inv
  <2>3. SameSetup /\ SetupOK' /\ ReadyStays
    BY <2>1, <2>2, NoCallKeepsSetup DEF ReadyStays
  <2>4. ThreadsOK' /\ OneThread'
    BY <2>1, <2>2 DEF ThreadsOK, OneThread
  <2>5. LocksOK'
    BY <2>1, <2>2 DEF LocksOK, Writing
  <2>6. ASSUME NEW t \in Threads PROVE /\ ListOK(t) => ListOK(t)'
                                       /\ HasWritten(t) => HasWritten(t)'
                                       /\ Writing(t)' <=> Writing(t)
    <3>1. ListOK(t) => ListOK(t)'
      BY <2>1, <2>3, ListSame
    <3>2. \A list, i : DwordOf(list, i)' = DwordOf(list, i)
      BY DEF DwordOf
    <3>3. HasWritten(t) => HasWritten(t)'
      BY <2>1, <3>2 DEF HasWritten
    <3> QED
      BY <2>1, <3>1, <3>3 DEF Writing
  <2>7. ListsOK'
    <3>1. ASSUME NEW t \in Threads, Writing(t)'
          PROVE  /\ ListOK(t)'
                 /\ ~thread'[t].raced => /\ HasWritten(t)'
                                         /\ \A v \in Threads : Writing(v)' => v = t
                 /\ thread'[t].raced => races'
      <4>1. Writing(t) /\ thread'[t] = thread[t] /\ races' = races
        BY <2>1, <2>6, <3>1
      <4>2. /\ ListOK(t)
            /\ ~thread[t].raced => /\ HasWritten(t)
                                   /\ \A v \in Threads : Writing(v) => v = t
            /\ thread[t].raced => races
        BY <2>2, <4>1 DEF ListsOK
      <4> QED
        BY <2>6, <4>1, <4>2
    <3> QED
      BY <3>1 DEF ListsOK
  <2>8. RegistersOK'
    BY <2>1, <2>2, <2>3, <2>6, ReadyStaysIs DEF RegistersOK
  <2>9. GroupOK'
    BY <2>1, <2>2, <2>3, GroupSame
  <2>10. ASSUME NEW d \in Contexts PROVE SameContext(d)
    BY <2>1 DEF SameContext, Built, Initializing, Updating, UpdatingWith, Submitting
  <2>11. ContextsOK'
    BY <2>1, <2>2, <2>3, <2>10, SameContextOK DEF ContextsOK
  <2>12. \A d : (HasSlot(d)' <=> HasSlot(d)) /\ (WillLoad(d) => WillLoad(d)')
    BY <2>1, <2>3, HasSlotSame DEF WillLoad, Writing
  <2>13. SeenOrWaiting'
    BY <2>1, <2>2, <2>10, <2>12 DEF SeenOrWaiting, SameContext
  <2> QED
    BY <2>3, <2>4, <2>5, <2>7, <2>8, <2>9, <2>11, <2>13 DEF Inv
<1> QED
  BY <1>1, <1>2, <1>3, <1>4, <1>5, <1>6, <1>7, <1>8 DEF Next

(* The inductive invariant holds of every run. *)
THEOREM Invariance == Spec => []Inv
<1>1. Init => Inv
  BY InitKeeps
<1>2. Inv /\ [Next]_vars => Inv'
  BY NextKeeps
<1> QED
  BY <1>1, <1>2, PTL DEF Spec

(***************************************************************************)
(* SubmissionsSeen: when no call is under way, the engine has seen the      *)
(* last submission of every context that has a slot, unless a resubmit      *)
(* wrote its list at the same time as another thread.                       *)
(***************************************************************************)
THEOREM SubmissionsAreSeen == Spec => []SubmissionsSeen
<1>1. Inv => SubmissionsSeen
  <2> SUFFICES ASSUME Inv PROVE SubmissionsSeen
    OBVIOUS
  <2>1. ThreadsOK /\ LocksOK /\ RegistersOK /\ ContextsOK /\ SeenOrWaiting
    BY DEF Inv
  <2>2. TypeOK
    BY <2>1 DEF TypeOK, ContextsOK, ContextOK, Place, LocksOK, RegistersOK
  <2>3. (\A t \in Threads : thread[t] = Idle) => \A c : ~Updating(c) /\ ~WillLoad(c)
    BY <2>1, OperationsAre DEF Updating, WillLoad, Submitting
  <2> QED
    BY <2>1, <2>2, <2>3 DEF SubmissionsSeen, SeenOrWaiting
<1> QED
  BY <1>1, Invariance, PTL

(* A thread that was writing its list and is idle has just loaded it. *)
LEMMA OnlyLoadEnds ==
    ASSUME Inv, Next, NEW t \in Threads, Loads(t)
    PROVE  LoadList(t)
<1>1. ThreadsOK /\ Writing(t) /\ thread[t] # Idle /\ thread'[t] = Idle /\ Idle.op = "idle" /\ DOMAIN thread = Threads
  BY OperationsAre DEF Inv, Loads, Idle, ThreadsOK
<1>2. ASSUME NEW u \in Threads, NEW c \in Contexts, Initialize(u, c) PROVE FALSE
  BY <1>1, <1>2 DEF Initialize, Call
<1>3. ASSUME NEW u \in Threads, NEW c \in Contexts, NEW o \in BOOLEAN, SubmitBatchBuffer(u, c, o) PROVE FALSE
  BY <1>1, <1>3 DEF SubmitBatchBuffer, Call
<1>4. ASSUME NEW u \in Threads, NEW c, NEW l, StartList(u, c, l) PROVE FALSE
  <2>1. thread'[t] = thread[t] \/ thread'[t].op = "write" \/ thread'[t] = [thread[t] EXCEPT !.raced = TRUE]
    BY <1>4, StartedIs
  <2>2. thread[t] \in AtWrite
    BY <1>1, OperationsAre
  <2>3. [thread[t] EXCEPT !.raced = TRUE].op = "write"
    BY <2>2 DEF AtWrite
  <2> QED
    BY <1>1, <2>1, <2>3 DEF Writing
<1>5. ASSUME NEW u \in Threads, InitializeStep(u) PROVE FALSE
  <2>1. u # t
    BY <1>1, <1>5 DEF InitializeStep, Writing
  <2>2. thread'[t] = thread[t]
    BY <1>1, <1>5, <2>1 DEF InitializeStep
  <2> QED
    BY <1>1, <2>2
<1>6. ASSUME NEW u \in Threads, WriteDword(u) PROVE FALSE
  <2>1. CASE u = t
    <3>1. thread[t] \in AtWrite
      BY <1>1, OperationsAre
    <3>2. thread'[t] = [thread[t] EXCEPT !.at = @ + 1]
      BY <1>1, <1>6, <2>1 DEF WriteDword
    <3> QED
      BY <1>1, <3>1, <3>2 DEF AtWrite
  <2>2. CASE u # t
    BY <1>1, <1>6, <2>2 DEF WriteDword
  <2> QED
    BY <2>1, <2>2
<1>7. ASSUME NEW u \in Threads, LoadList(u) PROVE u = t
  BY <1>1, <1>7 DEF LoadList
<1> QED
  BY <1>2, <1>3, <1>4, <1>5, <1>6, <1>7 DEF Next, Resubmit, SubmitList

(***************************************************************************)
(* LoadsOwnList: what a load takes is the list of the thread that makes it, *)
(* whole, unless another thread wrote a list at the same time.              *)
(***************************************************************************)
THEOREM LoadsTakeOwnList == Spec => LoadsOwnList
<1> DEFINE Own == \A t \in Threads : Loads(t) /\ ~thread[t].raced =>
                    Taken = SubSeq(thread[t].wanted, 1, IF setup.port THEN Len(thread[t].wanted) ELSE Slots)
<1>1. Inv /\ [Next]_vars => [Own]_vars
  <2> SUFFICES ASSUME Inv, Next, NEW t \in Threads, Loads(t), ~thread[t].raced
               PROVE  Taken = SubSeq(thread[t].wanted, 1, IF setup.port THEN Len(thread[t].wanted) ELSE Slots)
    OBVIOUS
  <2>1. LoadList(t)
    BY OnlyLoadEnds
  <2>2. Writing(t) /\ thread[t].at > Dwords(thread[t].list)
    BY <2>1 DEF LoadList
  <2> QED
    BY <2>2, ListTaken DEF Inv
<1>2. [][Own]_vars => LoadsOwnList
  BY PTL DEF LoadsOwnList
<1> QED
  BY <1>1, <1>2, Invariance, PTL DEF Spec

(***************************************************************************)
(* ImageRestores: the engine restores of a context what the program means,  *)
(* its ring, its page tables, the tail of the last submission and the head  *)
(* the engine left or the submission overrode, wherever the ring state is   *)
(* and whatever is submitted at the same time, unless a submission of that  *)
(* very context is between its image and its ring data.                     *)
(***************************************************************************)
THEOREM ContextsAreRestored == Spec => ImageRestores
<1> DEFINE Right == (\E t \in Threads : Loads(t))
                      => \A c \in Loaded : ~Updating(c) =>
                           /\ \A r \in RingRegisters : Restored(c)[r] = Meant(c)[r]
                           /\ \A k \in UsedTables : /\ Restored(c)[PdpLow[k + 1]] = Table(k)
                                                    /\ Restored(c)[PdpHigh[k + 1]] = Table(k)
<1>1. Inv => \A c \in Loaded : ~Updating(c) =>
               /\ \A r \in RingRegisters : Restored(c)[r] = Meant(c)[r]
               /\ \A k \in UsedTables : /\ Restored(c)[PdpLow[k + 1]] = Table(k)
                                        /\ Restored(c)[PdpHigh[k + 1]] = Table(k)
  <2> SUFFICES ASSUME Inv, NEW c \in Loaded, ~Updating(c)
               PROVE  /\ \A r \in RingRegisters : Restored(c)[r] = Meant(c)[r]
                      /\ \A k \in UsedTables : /\ Restored(c)[PdpLow[k + 1]] = Table(k)
                                               /\ Restored(c)[PdpHigh[k + 1]] = Table(k)
    OBVIOUS
  <2>1. c \in Contexts /\ ctx[c].ready /\ ContextOK(c) /\ SetupOK
    BY TakenIs DEF Inv, ContextsOK
  <2>2. ~UpdatingWith(c, TRUE)
    BY DEF Updating, UpdatingWith, Submitting
  <2>3. /\ \A k \in UsedTables : /\ Restored(c)[PdpLow[k + 1]] = Table(k)
                                 /\ Restored(c)[PdpHigh[k + 1]] = Table(k)
        /\ Restored(c)["base"] = RingOf(c) /\ Restored(c)["ctrl"] = CtrlOf(c)
        /\ Restored(c)["tail"] = At(ctx[c].tail) /\ Restored(c)["head"] = At(ctx[c].seen)
    BY <2>1, <2>2, LoadedIs
  <2>4. /\ Meant(c)["head"] = At(ctx[c].seen) /\ Meant(c)["tail"] = At(ctx[c].tail)
        /\ Meant(c)["base"] = RingOf(c) /\ Meant(c)["ctrl"] = CtrlOf(c)
    BY DEF Meant
  <2>5. \A r \in RingRegisters : r = "head" \/ r = "tail" \/ r = "base" \/ r = "ctrl"
    BY DEF RingRegisters
  <2> QED
    BY <2>3, <2>4, <2>5
<1>2. Inv /\ [Next]_vars => [Right]_vars
  BY <1>1
<1>3. [][Right]_vars => ImageRestores
  BY PTL DEF ImageRestores
<1> QED
  BY <1>2, <1>3, Invariance, PTL DEF Spec
=============================================================================
