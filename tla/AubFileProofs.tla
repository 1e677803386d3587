--------------------------- MODULE AubFileProofs ----------------------------
(***************************************************************************)
(* Proofs about AubPackets, AubFile and AubTrace: whatever tables the calls *)
(* are given, the packets they are cut into are as long as their headers    *)
(* say and carry every byte to the address of its entry; and whatever fails *)
(* in write(), open and close, the file, apart from what failed writes left *)
(* in it, is the trace that was recorded.                                   *)
(***************************************************************************)
EXTENDS AubFile, SequenceTheorems, WellFoundedInduction, TLAPS

-----------------------------------------------------------------------------
(* The inductive invariant *)

Ops == {"none", "comment", "contig", "compare", "disc", "ptes"} \cup FixedCalls
Chunking == {"chunks", "data", "pad", "next"}

Types ==
    /\ op \in Ops
    /\ phase \in {"idle", "loop", "drain", "inner", "return"} \cup Chunking
    /\ table \in Seq(Entries)
    /\ cur \in 1 .. Len(table) + 1 /\ dump \in 1 .. cur
    /\ index \in Nat /\ index <= MaxEntries
    /\ dwords \in Nat /\ dwords <= MaxDword
    /\ ptr \in Nat /\ ptrDump \in Nat /\ left \in Nat /\ at \in Nat /\ from \in Nat
    /\ space \in BOOLEAN
    /\ slots \in Seq(Entries) /\ pairs \in Seq(Entries)

(* Which calls have which phases, and what their tables are *)
Phases ==
    /\ phase = "loop" => op \in {"compare", "disc", "ptes"} \cup FixedCalls
    /\ phase \in Chunking => op \in {"comment", "contig", "compare", "disc"}
    /\ phase = "drain" => op \in {"disc", "ptes"}
    /\ phase = "inner" => op = "disc"
    /\ op \in {"comment", "contig"} => Len(table) = 1
    /\ op = "ptes" => \A i \in 1 .. Len(table) : table[i].size = 8

(* The pointers into the caller's memory are where the entries begin. *)
Pointers ==
    phase # "idle" =>
        /\ op \in {"compare", "disc", "ptes"} => ptr = StartOf(table)[cur]
        /\ InToken => ptrDump = StartOf(table)[dump]

(* The token holds the entries from dump to cur, and the dwords of their data. *)
Token ==
    InToken /\ phase \notin {"idle", "drain"} =>
        /\ index = cur - dump /\ index <= Len(slots)
        /\ \A k \in 1 .. index : slots[k] = Pair(table[dump + k - 1])
        /\ dwords = 0 <=> index = 0
        /\ dwords > 0 => ptr - ptrDump = 4 * (dwords - (DiscHeader - 1))
        /\ phase # "loop" => index = 0

(* While it is written, the reader waits for what is left of them. *)
Drain ==
    phase = "drain" =>
        /\ need = ptr - ptrDump
        /\ Len(pairs) = cur - dump
        /\ \A k \in 1 .. Len(pairs) : pairs[k] = Pair(table[dump + k - 1])

(* The entry whose chunks are written, and where in it the next one is *)
Chunked == IF op \in {"comment", "contig"} THEN 1 ELSE cur - 1

Chunk ==
    phase \in Chunking =>
        /\ Chunked \in 1 .. Len(table)
        /\ StartOf(table)[Chunked] <= from
        /\ from + left = StartOf(table)[Chunked + 1]
        /\ at = table[Chunked].addr + (from - StartOf(table)[Chunked])
        /\ space = table[Chunked].local
        /\ phase # "chunks" => left > 0

(* What the reader waits for, inside and between the packets of chunks *)
Frame ==
    /\ BetweenPackets \/ phase = "pad" => pairs = << >>
    /\ phase = "data" => pairs = <<[addr |-> at, size |-> ChunkBytes, local |-> space]>>
    /\ ~Oversized =>
         /\ BetweenPackets => need = 0
         /\ phase = "data" => need = 4 * DwordsOf(ChunkBytes)
         /\ phase = "pad" => need = PadOf(ChunkBytes)

(* The bytes the reader has, and where it has put them *)
Done ==
    IF phase \in {"chunks", "data"} THEN from
    ELSE IF phase \in {"pad", "next"} THEN from + ChunkBytes
    ELSE IF op = "compare" THEN ptr
    ELSE IF InToken THEN ptrDump ELSE from

Upto(t, n) == [b \in 0 .. n - 1 |-> Place(t, b)]

Placed ==
    phase # "idle" /\ op \in {"contig", "compare", "disc", "ptes"} => placed = Upto(table, Done)

(* A call returns when it has come to the end of its table. *)
Ended ==
    phase = "return" =>
        /\ op = "contig" => from = StartOf(table)[2]
        /\ op \in {"compare", "disc", "ptes"} => cur = Len(table) + 1

PacketInv == Types /\ Phases /\ Pointers /\ Token /\ Drain /\ Chunk /\ Frame /\ Placed /\ Ended

-----------------------------------------------------------------------------
(* Where the entries of a table begin *)

(* A set of numbers that is not empty has a least one. *)
LEMMA LeastNumber ==
    ASSUME NEW T, T \subseteq Nat, T # {}
    PROVE  \E n \in T : \A m \in T : n <= m
<1> DEFINE R == OpToRel(<, Nat)
<1>1. IsWellFoundedOn(R, Nat)
  BY NatLessThanWellFounded, Zenon
<1>2. \A x, y \in Nat : <<x, y>> \in R <=> x < y
  BY DEF OpToRel
<1> HIDE DEF R
<1>3. PICK x \in T : \A y \in T : ~ (<<y, x>> \in R)
  BY <1>1, WFMin
<1>4. \A y \in T : ~ (y < x)
  BY <1>2, <1>3
<1>5. \A y \in T : x <= y
  BY <1>4
<1> QED
  BY <1>5

LEMMA EntryTypes ==
    ASSUME NEW t \in Seq(Entries), NEW i \in 1 .. Len(t)
    PROVE  /\ t[i] \in Entries
           /\ t[i].size \in Nat /\ t[i].addr \in Nat /\ t[i].local \in BOOLEAN
<1>1. t[i] \in Entries
  OBVIOUS
<1> QED
  BY <1>1 DEF Entries

(* The equation of StartOf, for the first n entries *)
Sums(t, n, f) == f = [i \in 1 .. n |-> IF i = 1 THEN 0 ELSE f[i - 1] + t[i - 1].size]

LEMMA SumsExist ==
    ASSUME NEW t \in Seq(Entries), NEW n \in 1 .. Len(t) + 1
    PROVE  \E f : Sums(t, n, f)
<1> DEFINE T == {m \in 1 .. Len(t) + 1 : ~ \E f : Sums(t, m, f)}
<1>1. SUFFICES ASSUME T # {} PROVE FALSE
  OBVIOUS
<1> T \subseteq Nat
  OBVIOUS
<1>2. PICK m \in T : \A k \in T : m <= k
  <2> HIDE DEF T
  <2> QED BY <1>1, LeastNumber
<1>3. m # 1
  <2>1. [i \in 1 .. 1 |-> 0] = [i \in 1 .. 1 |-> IF i = 1 THEN 0 ELSE [j \in 1 .. 1 |-> 0][i - 1] + t[i - 1].size]
    OBVIOUS
  <2> QED
    BY <2>1, <1>2 DEF Sums
<1>4. m - 1 \in 1 .. Len(t) + 1 /\ m - 1 \notin T
  BY <1>2, <1>3
<1>5. PICK f : Sums(t, m - 1, f)
  BY <1>4
<1> DEFINE g == [i \in 1 .. m |-> IF i < m THEN f[i] ELSE f[m - 1] + t[m - 1].size]
<1>6. \A i \in 1 .. m - 1 : f[i] = IF i = 1 THEN 0 ELSE f[i - 1] + t[i - 1].size
  BY <1>5 DEF Sums
<1>7. \A i \in 1 .. m : g[i] = IF i = 1 THEN 0 ELSE g[i - 1] + t[i - 1].size
  <2>1. m \in Nat /\ m > 1
    BY <1>2, <1>3
  <2>2. \A i \in 1 .. m - 1 : g[i] = f[i]
    BY <2>1
  <2>3. g[m] = f[m - 1] + t[m - 1].size
    BY <2>1
  <2> HIDE DEF g
  <2> TAKE i \in 1 .. m
  <2>4. CASE i = 1
    BY <2>1, <2>2, <2>4, <1>6
  <2>5. CASE i \in 2 .. m - 1
    <3>1. i \in 1 .. m - 1 /\ i - 1 \in 1 .. m - 1 /\ i # 1
      BY <2>1, <2>5
    <3> QED
      BY <3>1, <2>2, <1>6
  <2>6. CASE i = m
    <3>1. m - 1 \in 1 .. m - 1
      BY <2>1
    <3> QED
      BY <3>1, <2>1, <2>2, <2>3, <2>6
  <2> QED
    BY <2>1, <2>4, <2>5, <2>6
<1>8. Sums(t, m, g)
  <2> g = [i \in 1 .. m |-> IF i = 1 THEN 0 ELSE g[i - 1] + t[i - 1].size]
    BY <1>7
  <2> QED
    BY DEF Sums
<1> QED
  BY <1>8, <1>2

LEMMA StartsAre ==
    ASSUME NEW t \in Seq(Entries)
    PROVE  Sums(t, Len(t) + 1, StartOf(t))
<1>1. Len(t) + 1 \in 1 .. Len(t) + 1
  OBVIOUS
<1>2. PICK f : Sums(t, Len(t) + 1, f)
  BY <1>1, SumsExist
<1> QED
  BY <1>2 DEF Sums, StartOf

(* Entries begin at zero, each behind the one before. *)
LEMMA Starts ==
    ASSUME NEW t \in Seq(Entries)
    PROVE  /\ StartOf(t)[1] = 0
           /\ \A i \in 1 .. Len(t) + 1 : StartOf(t)[i] \in Nat
           /\ \A i \in 1 .. Len(t) : StartOf(t)[i + 1] = StartOf(t)[i] + t[i].size
<1> DEFINE s == StartOf(t)
<1>1. \A i \in 1 .. Len(t) + 1 : s[i] = IF i = 1 THEN 0 ELSE s[i - 1] + t[i - 1].size
  BY StartsAre DEF Sums
<1> HIDE DEF s
<1>2. s[1] = 0
  BY <1>1
<1>3. \A i \in 1 .. Len(t) : s[i + 1] = s[i] + t[i].size
  BY <1>1
<1>4. \A i \in 1 .. Len(t) : t[i].size \in Nat
  BY EntryTypes
<1> DEFINE T == {i \in 1 .. Len(t) + 1 : s[i] \notin Nat}
<1> T \subseteq Nat
  OBVIOUS
<1>5. ASSUME T # {} PROVE FALSE
  <2>1. PICK m \in T : \A k \in T : m <= k
    <3> HIDE DEF T
    <3> QED BY <1>5, LeastNumber
  <2>2. m # 1
    BY <2>1, <1>2
  <2>3. m - 1 \in 1 .. Len(t) /\ s[m - 1] \in Nat
    BY <2>1, <2>2
  <2>4. s[(m - 1) + 1] = s[m - 1] + t[m - 1].size /\ t[m - 1].size \in Nat
    BY <2>3, <1>3, <1>4
  <2>5. (m - 1) + 1 = m
    BY <2>1
  <2>6. s[m] \in Nat
    BY <2>3, <2>4, <2>5
  <2> QED
    BY <2>1, <2>6
<1>6. \A i \in 1 .. Len(t) + 1 : s[i] \in Nat
  BY <1>5
<1> QED
  BY <1>2, <1>3, <1>6 DEF s

LEMMA StartsAscend ==
    ASSUME NEW t \in Seq(Entries), NEW i \in 1 .. Len(t) + 1, NEW j \in i .. Len(t) + 1
    PROVE  StartOf(t)[i] <= StartOf(t)[j]
<1> DEFINE s == StartOf(t)
<1>1. /\ \A k \in 1 .. Len(t) + 1 : s[k] \in Nat
      /\ \A k \in 1 .. Len(t) : s[k + 1] = s[k] + t[k].size
  BY Starts
<1>2. \A k \in 1 .. Len(t) : t[k].size \in Nat
  BY EntryTypes
<1> HIDE DEF s
<1> DEFINE T == {k \in i .. Len(t) + 1 : ~ (s[i] <= s[k])}
<1> T \subseteq Nat
  OBVIOUS
<1>3. ASSUME T # {} PROVE FALSE
  <2>1. PICK m \in T : \A k \in T : m <= k
    <3> HIDE DEF T
    <3> QED BY <1>3, LeastNumber
  <2>2. m # i
    BY <2>1, <1>1
  <2>3. m - 1 \in 1 .. Len(t) /\ s[i] <= s[m - 1]
    BY <2>1, <2>2
  <2>4. s[(m - 1) + 1] = s[m - 1] + t[m - 1].size /\ t[m - 1].size \in Nat
    BY <2>3, <1>1, <1>2
  <2>5. (m - 1) + 1 = m /\ m - 1 \in 1 .. Len(t) + 1
    BY <2>1, <2>3
  <2>6. s[m] = s[m - 1] + t[m - 1].size
    BY <2>4, <2>5
  <2>7. s[i] \in Nat /\ s[m - 1] \in Nat
    <3>1. i \in 1 .. Len(t) + 1 /\ m - 1 \in 1 .. Len(t) + 1
      BY <2>3
    <3> QED
      BY <3>1, <1>1
  <2>8. s[i] <= s[m]
    BY <2>3, <2>4, <2>6, <2>7
  <2> QED
    BY <2>1, <2>8
<1> QED
  BY <1>3 DEF s

(* Every byte of an entry is that entry's. *)
LEMMA PlaceOf ==
    ASSUME NEW t \in Seq(Entries), NEW i \in 1 .. Len(t), NEW b \in Nat,
           StartOf(t)[i] <= b, b < StartOf(t)[i + 1]
    PROVE  Place(t, b) = [addr |-> t[i].addr + (b - StartOf(t)[i]), local |-> t[i].local]
<1> DEFINE s == StartOf(t)
<1>1. \A k \in 1 .. Len(t) + 1 : s[k] \in Nat
  BY Starts
<1>2. ASSUME NEW j \in 1 .. Len(t), s[j] <= b, b < s[j + 1]
      PROVE  j = i
  <2>1. CASE j < i
    <3>1. s[j + 1] <= s[i]
      BY <2>1, StartsAscend
    <3> QED
      BY <3>1, <1>1, <1>2
  <2>2. CASE i < j
    <3>1. s[i + 1] <= s[j]
      BY <2>2, StartsAscend
    <3> QED
      BY <3>1, <1>1, <1>2
  <2> QED
    BY <2>1, <2>2
<1>3. EntryOf(t, b) = i
  BY <1>2 DEF EntryOf
<1> QED
  BY <1>3 DEF Place

(* Bytes of one entry, put behind what the reader has *)
LEMMA PlacesExtend ==
    ASSUME NEW t \in Seq(Entries), NEW i \in 1 .. Len(t), NEW n \in Nat, NEW m \in Nat,
           NEW p,
           StartOf(t)[i] <= n, n + m <= StartOf(t)[i + 1],
           p.addr = t[i].addr + (n - StartOf(t)[i]), p.local = t[i].local
    PROVE  Upto(t, n + m) = Put(Upto(t, n), n, m, p)
<1>1. DOMAIN Upto(t, n) = 0 .. n - 1
  BY DEF Upto
<1>2. \A b \in 0 .. n - 1 : Upto(t, n)[b] = Place(t, b)
  BY DEF Upto
<1>3. StartOf(t)[i] \in Nat /\ StartOf(t)[i + 1] \in Nat /\ t[i].addr \in Nat
  BY Starts, EntryTypes
<1>4. ASSUME NEW b \in n .. n + m - 1
      PROVE  Place(t, b) = [addr |-> p.addr + (b - n), local |-> p.local]
  <2>1. Place(t, b) = [addr |-> t[i].addr + (b - StartOf(t)[i]), local |-> t[i].local]
    <3>1. b \in Nat /\ StartOf(t)[i] <= b /\ b < StartOf(t)[i + 1]
      BY <1>3
    <3> QED
      BY <3>1, PlaceOf
  <2>2. t[i].addr + (b - StartOf(t)[i]) = p.addr + (b - n)
    <3> DEFINE x == StartOf(t)[i]
               y == t[i].addr
    <3>1. x \in Nat /\ y \in Nat /\ p.addr = y + (n - x) /\ b \in Nat
      BY <1>3
    <3> HIDE DEF x, y
    <3> QED
      BY <3>1 DEF x, y
  <2> QED
    BY <2>1, <2>2
<1>5. 0 .. (n + m) - 1 = (0 .. n - 1) \cup (n .. n + m - 1)
  OBVIOUS
<1> QED
  BY <1>1, <1>2, <1>4, <1>5 DEF Upto, Put

-----------------------------------------------------------------------------
(* Headers: the length a reader computes is the one the field was meant to hold *)

LEMMA Constants ==
    /\ MaxDword \in Nat /\ MaxDword >= 25
    /\ MaxEntries \in Nat /\ MaxEntries > 0
    /\ 2 + 5 * MaxEntries <= MaxDword
    /\ DiscHeader = 2 + 3 * MaxEntries
    /\ WriteHeader = 5 /\ CommentHeader = 2
    /\ CmdServicesMemTraceMemoryCompare.base = 5
<1>1. SizeOf(CmdServicesMemTraceDumpCompress) = 25
  BY DEF SizeOf, CmdServicesMemTraceDumpCompress, MemTrace
<1>2. /\ MaxDword \in Nat /\ MaxDword >= 25
      /\ MaxEntries \in Nat /\ MaxEntries > 0
      /\ 2 + 5 * MaxEntries <= MaxDword
  BY <1>1, AubPacketsAssumption
<1>3. DiscHeader = 2 + 3 * MaxEntries
  BY DEF DiscHeader, CmdServicesMemTraceMemoryWriteDiscontiguous, MemTrace
<1>4. WriteHeader = 5
  BY DEF WriteHeader, CmdServicesMemTraceMemoryWrite, MemTrace
<1>5. CommentHeader = 2
  BY DEF CommentHeader, CmdServicesMemTraceComment, MemTrace
<1>6. CmdServicesMemTraceMemoryCompare.base = 5
  BY DEF CmdServicesMemTraceMemoryCompare, MemTrace
<1> QED
  BY <1>2, <1>3, <1>4, <1>5, <1>6

LEMMA FieldHolds ==
    ASSUME NEW n \in 0 .. MaxDword
    PROVE  Field16(n) = n
<1> DEFINE m == MaxDword + 1
<1>1. m \in Nat /\ m > 0 /\ n \in Nat /\ n < m
  BY Constants
<1> HIDE DEF m
<1>2. n % m = n
  BY <1>1
<1> QED
  BY <1>2 DEF Field16, m

(* The structs that differ in the bias of their length differ in their opcode. *)
LEMMA HeaderLength ==
    ASSUME NEW struct \in Structs, NEW n \in 0 .. MaxDword, NEW bytes
    PROVE  /\ Header(struct, bytes, n).total = 4 * (n + struct.lengthBias)
           /\ Header(struct, bytes, n).bytes = bytes
           /\ Header(struct, bytes, n).header = TRUE
<1> DEFINE h == [opcode |-> struct.opcode, subOpcode |-> struct.subOpcode,
                 dwordCount |-> Field16(n)]
<1>1. \A s \in Structs : \/ s.opcode = 46 /\ s.lengthBias = 1
                         \/ s.opcode = 1 /\ s.lengthBias = 2
  <2>1. ASSUME NEW i \in DOMAIN Layout
        PROVE  \/ Layout[i].opcode = 46 /\ Layout[i].lengthBias = 1
               \/ Layout[i].opcode = 1 /\ Layout[i].lengthBias = 2
    BY DEF Layout, MemTrace, AubCmd,
      CmdServicesMemTraceVersion, CmdServicesMemTraceRegisterPoll,
      CmdServicesMemTraceRegisterWrite, CmdServicesMemTraceMemoryCompare,
      CmdServicesMemTraceMemoryPoll, CmdServicesMemTraceMemoryWrite,
      CmdServicesMemTraceMemoryWriteDiscontiguous, CmdServicesMemTraceComment,
      CmdServicesMemTraceMemoryContinuousRegion, CmdServicesMemTraceDumpCompress,
      AubPpgttContextCreate, AubCaptureBinaryDumpHD
  <2> QED
    BY <2>1 DEF Structs
<1>2. MatchesHeader(struct, h)
  BY DEF MatchesHeader
<1>3. StructOf(h) \in Structs /\ MatchesHeader(StructOf(h), h)
  BY <1>2 DEF StructOf
<1>4. StructOf(h).lengthBias = struct.lengthBias
  BY <1>1, <1>3 DEF MatchesHeader
<1>5. GetPacketSize(h) = n + struct.lengthBias
  BY <1>4, FieldHolds DEF GetPacketSize
<1> QED
  BY <1>5 DEF Header

(* A packet of fixed size has nothing to follow. *)
LEMMA FixedNeed ==
    ASSUME NEW name \in FixedCalls
    PROVE  LET h == Header(Layout[name], 4 * SizeOf(Layout[name]), FixedDwordCount(name))
           IN h.total - h.bytes = 0
<1> DEFINE s == Layout[name]
<1>1. /\ s \in Structs
      /\ SizeOf(s) \in Nat /\ SizeOf(s) <= 25 /\ SizeOf(s) > 1
      /\ s.lengthBias = IF name \in {"declareContextForDumping", "dumpBufferBIN"} THEN 2 ELSE 1
  BY DEF FixedCalls, Structs, SizeOf, Layout, MemTrace, AubCmd,
      CmdServicesMemTraceVersion, CmdServicesMemTraceRegisterPoll,
      CmdServicesMemTraceRegisterWrite, CmdServicesMemTraceMemoryPoll,
      CmdServicesMemTraceMemoryContinuousRegion, CmdServicesMemTraceDumpCompress,
      AubPpgttContextCreate, AubCaptureBinaryDumpHD
<1> HIDE DEF s
<1>2. FixedDwordCount(name) = SizeOf(s) - s.lengthBias
  BY <1>1 DEF FixedDwordCount, s
<1>3. FixedDwordCount(name) \in 0 .. MaxDword
  BY <1>1, <1>2, Constants
<1>4. /\ Header(s, 4 * SizeOf(s), FixedDwordCount(name)).total =
           4 * (FixedDwordCount(name) + s.lengthBias)
      /\ Header(s, 4 * SizeOf(s), FixedDwordCount(name)).bytes = 4 * SizeOf(s)
  <2> DEFINE n == FixedDwordCount(name)
             b == 4 * SizeOf(s)
  <2>1. s \in Structs /\ n \in 0 .. MaxDword
    BY <1>1, <1>3
  <2> HIDE DEF n, b
  <2>2. Header(s, b, n).total = 4 * (n + s.lengthBias) /\ Header(s, b, n).bytes = b
    BY <2>1, HeaderLength
  <2> QED
    BY <2>2 DEF n, b
<1>5. 4 * (FixedDwordCount(name) + s.lengthBias) = 4 * SizeOf(s)
  BY <1>1, <1>2
<1>6. 4 * SizeOf(s) - 4 * SizeOf(s) = 0
  BY <1>1
<1> QED
  BY <1>4, <1>5, <1>6 DEF s

LEMMA DwordsAndPad ==
    ASSUME NEW n \in Nat
    PROVE  /\ DwordsOf(n) \in Nat /\ PadOf(n) \in 0 .. 3
           /\ 4 * DwordsOf(n) = n + PadOf(n)
           /\ n % 4 = 0 => 4 * DwordsOf(n) = n
<1>1. (n + 3) \div 4 \in Nat
  OBVIOUS
<1>2. 4 * ((n + 3) \div 4) >= n /\ 4 * ((n + 3) \div 4) <= n + 3
  OBVIOUS
<1>3. n % 4 = 0 => 4 * ((n + 3) \div 4) = n
  OBVIOUS
<1> QED
  BY <1>1, <1>2, <1>3 DEF DwordsOf, PadOf

LEMMA DwordsAscend ==
    ASSUME NEW m \in Nat, NEW n \in Nat, m <= n
    PROVE  DwordsOf(m) <= DwordsOf(n)
  BY DEF DwordsOf

-----------------------------------------------------------------------------
(* The steps of a call keep the invariant *)

LEMMA PairIsEntry ==
    ASSUME NEW e \in Entries
    PROVE  Pair(e) = e
  BY DEF Pair, Entries

(* As much of a chunk as fits in a packet *)
LEMMA ChunkSize ==
    ASSUME Types, op # "none", left > 0
    PROVE  /\ ChunkBytes \in 1 .. left
           /\ ChunkBytes \in Nat /\ ChunkBytes <= MaxChunk(op)
           /\ DwordsOf(ChunkBytes) \in Nat
           /\ PadOf(ChunkBytes) \in 0 .. 3
           /\ 4 * DwordsOf(ChunkBytes) = ChunkBytes + PadOf(ChunkBytes)
<1>1. MaxChunk(op) \in Nat /\ MaxChunk(op) > 0
  <2>1. (MaxDword - 1) * 4 \in Nat /\ (MaxDword - 1) * 4 > 0
    BY Constants
  <2>2. (MaxDword - WriteHeader) * 4 \in Nat /\ (MaxDword - WriteHeader) * 4 > 0
    BY Constants
  <2>3. CASE op = "comment"
    BY <2>3, <2>1 DEF MaxChunk
  <2>4. CASE op = "compare"
    BY <2>4 DEF MaxChunk, Types
  <2>5. CASE op # "comment" /\ op # "compare"
    BY <2>5, <2>2 DEF MaxChunk
  <2> QED
    BY <2>3, <2>4, <2>5
<1>2. ChunkBytes \in 1 .. left /\ ChunkBytes <= MaxChunk(op)
  BY <1>1 DEF ChunkBytes, Least, Types
<1>3. ChunkBytes \in Nat
  BY <1>2
<1> QED
  BY <1>2, <1>3, DwordsAndPad

LEMMA InitHolds == PacketInit => PacketInv
<1> SUFFICES ASSUME PacketInit PROVE PacketInv
  OBVIOUS
<1>1. Types
  <2>1. << >> \in Seq(Entries) /\ Len(<< >>) = 0
    OBVIOUS
  <2>2. MaxEntries \in Nat /\ MaxDword \in Nat
    BY Constants
  <2>3. op \in Ops /\ phase \in {"idle", "loop", "drain", "inner", "return"} \cup Chunking
    BY DEF PacketInit, Ops
  <2>4. cur \in 1 .. Len(table) + 1 /\ dump \in 1 .. cur
    BY <2>1 DEF PacketInit
  <2>5. table \in Seq(Entries) /\ slots \in Seq(Entries) /\ pairs \in Seq(Entries)
    BY <2>1 DEF PacketInit
  <2>6. /\ index \in Nat /\ index <= MaxEntries
        /\ dwords \in Nat /\ dwords <= MaxDword
        /\ ptr \in Nat /\ ptrDump \in Nat /\ left \in Nat /\ at \in Nat /\ from \in Nat
    BY <2>2 DEF PacketInit
  <2>7. space \in BOOLEAN
    BY DEF PacketInit
  <2> QED
    BY <2>3, <2>4, <2>5, <2>6, <2>7 DEF Types
<1>2. Frame
  BY DEF PacketInit, Frame, BetweenPackets, Oversized
<1> QED
  BY <1>1, <1>2 DEF PacketInit, PacketInv, Phases, Pointers, Token, Drain, Chunk, Placed, Ended,
    InToken, Chunking

LEMMA StartCallKeeps ==
    ASSUME PacketInv, NEW call, IsCall(call), StartCall(call)
    PROVE  PacketInv'
<1> DEFINE name == IF call.name \in {"disc", "ptes"} /\ Len(call.table) = 1
                   THEN "contig" ELSE call.name
           t == call.table
           one == t[1]
           chunked == name \in {"comment", "contig"}
<1>1. /\ op' = name /\ table' = t
      /\ phase' = IF chunked THEN "chunks" ELSE "loop"
      /\ left' = IF chunked THEN one.size ELSE 0
      /\ at' = IF chunked THEN one.addr ELSE 0
      /\ space' = (chunked /\ one.local)
      /\ from' = 0
      /\ cur' = 1 /\ dump' = 1 /\ index' = 0 /\ dwords' = 0 /\ slots' = << >>
      /\ ptr' = 0 /\ ptrDump' = 0
      /\ need' = 0 /\ pairs' = << >> /\ placed' = << >>
  BY DEF StartCall
<1>2. /\ t \in Seq(Entries)
      /\ name \in {"comment", "contig", "compare", "disc", "ptes"} \cup FixedCalls
      /\ chunked => Len(t) = 1
      /\ name = "ptes" => \A i \in 1 .. Len(t) : t[i].size = 8
  BY DEF IsCall
<1>3. chunked => one \in Entries /\ one.size \in Nat /\ one.addr \in Nat /\ one.local \in BOOLEAN
  BY <1>2, EntryTypes
<1>4. StartOf(t)[1] = 0 /\ (chunked => StartOf(t)[2] = one.size)
  <2>1. StartOf(t)[1] = 0
    BY <1>2, Starts
  <2>2. ASSUME chunked PROVE StartOf(t)[1 + 1] = StartOf(t)[1] + t[1].size
    BY <2>2, <1>2, Starts
  <2> QED
    BY <2>1, <2>2, <1>3
<1>5. Len(t) \in Nat
  BY <1>2
<1> HIDE DEF name, t, one
<1>6. Types'
  <2>1. op' \in Ops /\ phase' \in {"idle", "loop", "drain", "inner", "return"} \cup Chunking
    BY <1>1, <1>2 DEF Ops, Chunking
  <2>2. left' \in Nat /\ at' \in Nat /\ space' \in BOOLEAN
    BY <1>1, <1>3
  <2>3. cur' \in 1 .. Len(table') + 1 /\ dump' \in 1 .. cur'
    BY <1>1, <1>5
  <2> QED
    BY <1>1, <1>2, <2>1, <2>2, <2>3, Constants DEF Types
<1>7. Phases'
  BY <1>1, <1>2 DEF Phases, Chunking, FixedCalls
<1>8. Pointers'
  BY <1>1, <1>4 DEF Pointers, InToken
<1>9. Token'
  BY <1>1 DEF Token, InToken
<1>10. Drain'
  BY <1>1 DEF Drain
<1>11. Chunk'
  BY <1>1, <1>2, <1>3, <1>4 DEF Chunk, Chunked, Chunking, one
<1>12. Frame'
  BY <1>1 DEF Frame, BetweenPackets
<1>13. Placed'
  <2>1. Upto(t, 0) = << >>
    BY DEF Upto
  <2>2. Done' = 0
    BY <1>1, <1>2 DEF Done
  <2> QED
    BY <2>1, <2>2, <1>1 DEF Placed
<1>14. Ended'
  BY <1>1 DEF Ended
<1> QED
  BY <1>6, <1>7, <1>8, <1>9, <1>10, <1>11, <1>12, <1>13, <1>14 DEF PacketInv

LEMMA FixedPacketKeeps ==
    ASSUME PacketInv, FixedPacket
    PROVE  PacketInv'
<1>1. /\ phase = "loop" /\ op \in FixedCalls
      /\ \/ cur <= Len(table) /\ need' = 0 /\ cur' = cur + 1 /\ phase' = phase
         \/ ~ (cur <= Len(table)) /\ phase' = "return" /\ cur' = cur /\ need' = need
      /\ op' = op /\ table' = table /\ dump' = dump /\ index' = index /\ dwords' = dwords
      /\ slots' = slots /\ ptr' = ptr /\ ptrDump' = ptrDump
      /\ left' = left /\ at' = at /\ from' = from /\ space' = space
      /\ pairs' = pairs /\ placed' = placed
  BY FixedNeed DEF FixedPacket, chunkVars
<1>2. /\ op \notin {"none", "comment", "contig", "compare", "disc", "ptes"}
      /\ ~InToken /\ ~Oversized /\ BetweenPackets
  BY <1>1 DEF FixedCalls, InToken, Oversized, BetweenPackets
<1>3. Types /\ Phases /\ Frame
  BY DEF PacketInv
<1>4. need' = 0 /\ pairs' = << >>
  BY <1>1, <1>2, <1>3 DEF Frame
<1>5. Types'
  <2>1. Len(table) \in Nat
    BY <1>3 DEF Types
  <2>2. cur' \in 1 .. Len(table) + 1 /\ dump \in 1 .. cur'
    BY <2>1, <1>1, <1>3 DEF Types
  <2>3. phase' \in {"idle", "loop", "drain", "inner", "return"} \cup Chunking
    BY <1>1
  <2> QED
    BY <2>2, <2>3, <1>1, <1>3, <1>4 DEF Types
<1>6. phase' \in {"loop", "return"}
  BY <1>1
<1>7. Phases'
  BY <1>1, <1>2, <1>6 DEF Phases, Chunking
<1>8. Pointers' /\ Token' /\ Drain' /\ Chunk' /\ Placed' /\ Ended'
  BY <1>1, <1>2, <1>6 DEF Pointers, Token, Drain, Chunk, Placed, Ended, InToken, Chunking
<1>9. Frame'
  BY <1>4, <1>6 DEF Frame
<1> QED
  BY <1>5, <1>7, <1>8, <1>9 DEF PacketInv

(* What the header of a chunk announces is the chunk and its padding. *)
LEMMA ChunkNeed ==
    ASSUME PacketInv, phase = "chunks", left > 0, ~Oversized
    PROVE  LET h == Header(ChunkStruct(op), 4 * ChunkStruct(op).base,
                           ChunkDwordCount(op, ChunkBytes))
           IN h.total - h.bytes = 4 * DwordsOf(ChunkBytes)
<1> DEFINE s == ChunkStruct(op)
           d == DwordsOf(ChunkBytes)
<1>1. Types /\ Phases /\ Chunk
  BY DEF PacketInv
<1>2. op \in {"comment", "contig", "compare", "disc"}
  BY <1>1 DEF Phases, Chunking
<1>3. /\ s \in Structs /\ s.lengthBias = 1 /\ s.base \in Nat
      /\ s.base = IF op = "comment" THEN CommentHeader ELSE 5
  <2>1. s \in {CmdServicesMemTraceComment, CmdServicesMemTraceMemoryCompare,
               CmdServicesMemTraceMemoryWrite}
    BY DEF ChunkStruct
  <2>2. s \in Structs
    BY <2>1 DEF Structs, Layout
  <2>3. /\ CmdServicesMemTraceComment.lengthBias = 1 /\ CmdServicesMemTraceComment.base = 2
        /\ CmdServicesMemTraceMemoryCompare.lengthBias = 1
        /\ CmdServicesMemTraceMemoryCompare.base = 5
        /\ CmdServicesMemTraceMemoryWrite.lengthBias = 1
        /\ CmdServicesMemTraceMemoryWrite.base = 5
    BY DEF CmdServicesMemTraceComment, CmdServicesMemTraceMemoryCompare,
        CmdServicesMemTraceMemoryWrite, MemTrace
  <2> QED
    BY <2>1, <2>2, <2>3, <1>2, Constants DEF ChunkStruct
<1>4. ChunkBytes \in Nat /\ ChunkBytes <= left /\ d \in Nat
  BY <1>1, <1>2, ChunkSize DEF Types
<1>10. ChunkBytes <= MaxChunk(op)
  BY <1>1, <1>2, ChunkSize DEF Types
<1>5. ChunkDwordCount(op, ChunkBytes) = d + s.base - 1
  <2>1. CASE op = "comment"
    BY <2>1, <1>3, <1>4, Constants DEF ChunkDwordCount
  <2>2. CASE op # "comment"
    BY <2>2, <1>3, <1>4 DEF ChunkDwordCount
  <2> QED
    BY <2>1, <2>2
<1>6. d + s.base - 1 <= MaxDword
  <2>1. CASE op = "comment"
    <3>1. ChunkBytes <= (MaxDword - 1) * 4
      BY <2>1, <1>10 DEF MaxChunk
    <3>2. d <= MaxDword - 1
      BY <3>1, <1>4, Constants DEF DwordsOf
    <3> QED
      BY <3>2, <2>1, <1>3, <1>4, Constants
  <2>2. CASE op = "compare"
    <3>1. /\ Chunked \in 1 .. Len(table)
          /\ StartOf(table)[Chunked] <= from
          /\ from + left = StartOf(table)[Chunked + 1]
      BY <1>1 DEF Chunk, Chunking
    <3>2. /\ table \in Seq(Entries) /\ from \in Nat /\ left \in Nat
          /\ table[Chunked].size \in Nat
          /\ StartOf(table)[Chunked] \in Nat
          /\ StartOf(table)[Chunked + 1] = StartOf(table)[Chunked] + table[Chunked].size
      BY <3>1, <1>1, Starts, EntryTypes DEF Types
    <3>3. left <= table[Chunked].size
      BY <3>1, <3>2
    <3>4. d <= DwordsOf(table[Chunked].size)
      BY <3>2, <3>3, <1>4, DwordsAscend
    <3>5. ~ (ChunkDwordCount(op, table[Chunked].size) > MaxDword)
      BY <2>2, <3>1 DEF Oversized
    <3>6. ChunkDwordCount(op, table[Chunked].size) = 5 + DwordsOf(table[Chunked].size) - 1
      BY <2>2, <1>3 DEF ChunkDwordCount
    <3>7. DwordsOf(table[Chunked].size) \in Nat
      BY <3>2, DwordsAndPad
    <3> QED
      BY <2>2, <3>4, <3>5, <3>6, <3>7, <1>3, <1>4, Constants
  <2>3. CASE op \notin {"comment", "compare"}
    <3>1. ChunkBytes <= (MaxDword - 5) * 4
      BY <2>3, <1>10, Constants DEF MaxChunk
    <3>2. d <= MaxDword - 5
      BY <3>1, <1>4, Constants DEF DwordsOf
    <3> QED
      BY <3>2, <2>3, <1>3, <1>4, Constants
  <2> QED
    BY <2>1, <2>2, <2>3
<1>7. d + s.base - 1 \in 0 .. MaxDword
  BY <1>3, <1>4, <1>6, Constants
<1> HIDE DEF s, d
<1>8. /\ Header(s, 4 * s.base, d + s.base - 1).total = 4 * ((d + s.base - 1) + s.lengthBias)
      /\ Header(s, 4 * s.base, d + s.base - 1).bytes = 4 * s.base
  <2> DEFINE n == d + s.base - 1
             b == 4 * s.base
  <2>1. s \in Structs /\ n \in 0 .. MaxDword
    BY <1>3, <1>7
  <2> HIDE DEF n, b
  <2>2. Header(s, b, n).total = 4 * (n + s.lengthBias) /\ Header(s, b, n).bytes = b
    BY <2>1, HeaderLength
  <2> QED
    BY <2>2 DEF n, b
<1>9. 4 * ((d + s.base - 1) + s.lengthBias) - 4 * s.base = 4 * d
  BY <1>3, <1>4
<1> QED
  BY <1>5, <1>8, <1>9 DEF s, d

LEMMA WriteChunkHeaderKeeps ==
    ASSUME PacketInv, WriteChunkHeader
    PROVE  PacketInv'
<1> DEFINE h == Header(ChunkStruct(op), 4 * ChunkStruct(op).base,
                       ChunkDwordCount(op, ChunkBytes))
<1>1. /\ phase = "chunks" /\ left > 0 /\ phase' = "data"
      /\ need' = h.total - h.bytes
      /\ pairs' = <<[addr |-> at, size |-> ChunkBytes, local |-> space]>>
      /\ op' = op /\ table' = table /\ cur' = cur /\ dump' = dump /\ index' = index
      /\ dwords' = dwords /\ slots' = slots /\ ptr' = ptr /\ ptrDump' = ptrDump
      /\ left' = left /\ at' = at /\ from' = from /\ space' = space /\ placed' = placed
  BY DEF WriteChunkHeader, loopVars, chunkVars
<1>2. Types /\ Phases /\ Pointers /\ Token /\ Chunk /\ Placed
  BY DEF PacketInv
<1>3. op # "none"
  BY <1>1, <1>2 DEF Phases, Chunking
<1>4. ChunkBytes \in Nat /\ ChunkBytes' = ChunkBytes
  <2>1. ChunkBytes \in Nat
    BY <1>1, <1>2, <1>3, ChunkSize
  <2>2. ChunkBytes' = ChunkBytes
    BY <1>1 DEF ChunkBytes, MaxChunk, Least
  <2> QED
    BY <2>1, <2>2
<1>5. Types'
  <2>1. [addr |-> at, size |-> ChunkBytes, local |-> space] \in Entries
    BY <1>2, <1>4 DEF Types, Entries
  <2>2. pairs' \in Seq(Entries)
    BY <2>1, <1>1
  <2>3. phase' \in {"idle", "loop", "drain", "inner", "return"} \cup Chunking
    BY <1>1 DEF Chunking
  <2> QED
    BY <2>2, <2>3, <1>1, <1>2 DEF Types
<1>6. phase \in Chunking /\ phase' \in Chunking
  BY <1>1 DEF Chunking
<1>7. Phases'
  BY <1>1, <1>2, <1>6 DEF Phases, Chunking
<1>8. Pointers' /\ Token'
  BY <1>1, <1>2 DEF Pointers, Token, InToken
<1>9. Drain' /\ Ended'
  BY <1>1 DEF Drain, Ended
<1>10. Chunk'
  BY <1>1, <1>2, <1>6 DEF Chunk, Chunked
<1>11. Frame'
  <2>1. ~BetweenPackets' /\ phase' # "pad"
    BY <1>1 DEF BetweenPackets
  <2>2. pairs' = <<[addr |-> at', size |-> ChunkBytes', local |-> space']>>
    BY <1>1, <1>4
  <2>3. ASSUME ~Oversized' PROVE need' = 4 * DwordsOf(ChunkBytes')
    <3>1. ~Oversized
      BY <2>3, <1>1 DEF Oversized
    <3> QED
      BY <3>1, <1>1, <1>4, ChunkNeed
  <2> QED
    BY <2>1, <2>2, <2>3, <1>1 DEF Frame
<1>12. Placed'
  <2>1. Done = from /\ Done' = from
    BY <1>1 DEF Done
  <2> QED
    BY <2>1, <1>1, <1>2 DEF Placed
<1> QED
  BY <1>5, <1>7, <1>8, <1>9, <1>10, <1>11, <1>12 DEF PacketInv

(* Inside a chunk: its entry, its size, and the place of its end *)
LEMMA InChunk ==
    ASSUME PacketInv, phase \in Chunking
    PROVE  /\ op \in {"comment", "contig", "compare", "disc"}
           /\ Len(table) \in Nat /\ from \in Nat /\ left \in Nat /\ at \in Nat
           /\ Chunked \in 1 .. Len(table)
           /\ StartOf(table)[Chunked] \in Nat /\ StartOf(table)[Chunked + 1] \in Nat
           /\ table[Chunked].addr \in Nat
           /\ StartOf(table)[Chunked] <= from
           /\ from + left = StartOf(table)[Chunked + 1]
           /\ at = table[Chunked].addr + (from - StartOf(table)[Chunked])
           /\ space = table[Chunked].local
           /\ phase # "chunks" =>
                /\ left > 0
                /\ ChunkBytes \in 1 .. left
                /\ ChunkBytes \in Nat
                /\ DwordsOf(ChunkBytes) \in Nat
                /\ PadOf(ChunkBytes) \in 0 .. 3
                /\ 4 * DwordsOf(ChunkBytes) = ChunkBytes + PadOf(ChunkBytes)
<1>1. Types /\ Phases /\ Chunk
  BY DEF PacketInv
<1>2. op \in {"comment", "contig", "compare", "disc"}
  BY <1>1 DEF Phases
<1>3. /\ Len(table) \in Nat /\ from \in Nat /\ left \in Nat /\ at \in Nat
      /\ table \in Seq(Entries)
  BY <1>1 DEF Types
<1>4. /\ Chunked \in 1 .. Len(table)
      /\ StartOf(table)[Chunked] <= from
      /\ from + left = StartOf(table)[Chunked + 1]
      /\ at = table[Chunked].addr + (from - StartOf(table)[Chunked])
      /\ space = table[Chunked].local
      /\ phase # "chunks" => left > 0
  BY <1>1 DEF Chunk
<1>5. StartOf(table)[Chunked] \in Nat /\ StartOf(table)[Chunked + 1] \in Nat
  <2>1. Chunked \in 1 .. Len(table) + 1 /\ Chunked + 1 \in 1 .. Len(table) + 1
    BY <1>3, <1>4
  <2> QED
    BY <2>1, <1>3, Starts
<1>6. table[Chunked].addr \in Nat
  BY <1>3, <1>4, EntryTypes
<1>7. phase # "chunks" =>
         /\ ChunkBytes \in 1 .. left
         /\ ChunkBytes \in Nat
         /\ DwordsOf(ChunkBytes) \in Nat
         /\ PadOf(ChunkBytes) \in 0 .. 3
         /\ 4 * DwordsOf(ChunkBytes) = ChunkBytes + PadOf(ChunkBytes)
  BY <1>1, <1>2, <1>4, ChunkSize
<1> QED
  BY <1>2, <1>3, <1>4, <1>5, <1>6, <1>7

LEMMA WriteChunkDataKeeps ==
    ASSUME PacketInv, WriteChunkData
    PROVE  PacketInv'
<1>1. /\ phase = "data" /\ PlaceData(from, ChunkBytes)
      /\ phase' = IF PadOf(ChunkBytes) > 0 THEN "pad" ELSE "next"
      /\ need' = need - ChunkBytes /\ pairs' = Tail(pairs)
      /\ op' = op /\ table' = table /\ cur' = cur /\ dump' = dump /\ index' = index
      /\ dwords' = dwords /\ slots' = slots /\ ptr' = ptr /\ ptrDump' = ptrDump
      /\ left' = left /\ at' = at /\ from' = from /\ space' = space
  BY DEF WriteChunkData, PlaceData, loopVars, chunkVars
<1>2. Types /\ Phases /\ Pointers /\ Token /\ Chunk /\ Frame /\ Placed
  BY DEF PacketInv
<1>3. phase \in Chunking /\ phase' \in {"pad", "next"} /\ phase' \in Chunking
  BY <1>1 DEF Chunking
<1>4. ChunkBytes' = ChunkBytes
  BY <1>1 DEF ChunkBytes, MaxChunk, Least
<1>5. pairs = <<[addr |-> at, size |-> ChunkBytes, local |-> space]>>
  BY <1>1, <1>2 DEF Frame
<1>6. pairs' = << >>
  BY <1>1, <1>5
<1>7. Types'
  <2>1. phase' \in {"idle", "loop", "drain", "inner", "return"} \cup Chunking
    BY <1>3
  <2>2. pairs' \in Seq(Entries)
    BY <1>6
  <2> QED
    BY <2>1, <2>2, <1>1, <1>2 DEF Types
<1>8. Phases'
  BY <1>1, <1>2, <1>3 DEF Phases, Chunking
<1>9. Pointers' /\ Token'
  BY <1>1, <1>2, <1>3 DEF Pointers, Token, InToken
<1>10. Drain' /\ Ended'
  BY <1>3 DEF Drain, Ended
<1>11. Chunk'
  BY <1>1, <1>2, <1>3 DEF Chunk, Chunked
<1>12. Frame'
  <2>1. ASSUME ~Oversized'
        PROVE  /\ BetweenPackets' => need' = 0
               /\ phase' = "pad" => need' = PadOf(ChunkBytes')
    <3>1. ~Oversized
      BY <2>1, <1>1 DEF Oversized
    <3>2. need = ChunkBytes + PadOf(ChunkBytes) /\ ChunkBytes \in Nat /\ PadOf(ChunkBytes) \in 0 .. 3
      BY <3>1, <1>1, <1>2, <1>3, InChunk DEF Frame
    <3>3. need' = PadOf(ChunkBytes)
      BY <3>2, <1>1
    <3>4. BetweenPackets' => PadOf(ChunkBytes) = 0
      BY <3>2, <1>1 DEF BetweenPackets
    <3> QED
      BY <3>3, <3>4, <1>4
  <2> QED
    BY <2>1, <1>3, <1>6 DEF Frame
<1>13. Placed'
  <2>1. CASE op = "comment"
    BY <2>1, <1>1 DEF Placed
  <2>2. CASE op # "comment"
    <3> DEFINE p == Head(pairs)
    <3>1. /\ p.addr = table[Chunked].addr + (from - StartOf(table)[Chunked])
          /\ p.local = table[Chunked].local
      BY <1>5, <1>3, InChunk
    <3>2. /\ table \in Seq(Entries) /\ Chunked \in 1 .. Len(table)
          /\ from \in Nat /\ ChunkBytes \in Nat
          /\ StartOf(table)[Chunked] <= from
          /\ from + ChunkBytes <= StartOf(table)[Chunked + 1]
      BY <1>1, <1>2, <1>3, InChunk, SMTT(30) DEF Types
    <3>3. placed = Upto(table, from)
      BY <2>2, <1>1, <1>2, <1>3, InChunk DEF Placed, Done
    <3>4. placed' = Put(placed, from, ChunkBytes, p)
      BY <2>2, <1>1 DEF PlaceData
    <3> HIDE DEF p
    <3>5. placed' = Upto(table, from + ChunkBytes)
      <4> DEFINE n == from
                 m == ChunkBytes
                 i == Chunked
      <4>1. /\ table \in Seq(Entries) /\ i \in 1 .. Len(table) /\ n \in Nat /\ m \in Nat
            /\ StartOf(table)[i] <= n /\ n + m <= StartOf(table)[i + 1]
            /\ p.addr = table[i].addr + (n - StartOf(table)[i]) /\ p.local = table[i].local
        BY <3>1, <3>2
      <4> HIDE DEF n, m, i
      <4>2. Upto(table, n + m) = Put(Upto(table, n), n, m, p)
        BY <4>1, PlacesExtend
      <4> QED
        BY <4>2, <3>3, <3>4 DEF n, m
    <3>6. Done' = from + ChunkBytes
      BY <1>1, <1>3, <1>4 DEF Done
    <3> QED
      BY <3>5, <3>6, <1>1 DEF Placed
  <2> QED
    BY <2>1, <2>2
<1> QED
  BY <1>7, <1>8, <1>9, <1>10, <1>11, <1>12, <1>13 DEF PacketInv

LEMMA WriteChunkPadKeeps ==
    ASSUME PacketInv, WriteChunkPad
    PROVE  PacketInv'
<1>1. /\ phase = "pad" /\ phase' = "next" /\ need' = need - PadOf(ChunkBytes)
      /\ op' = op /\ table' = table /\ cur' = cur /\ dump' = dump /\ index' = index
      /\ dwords' = dwords /\ slots' = slots /\ ptr' = ptr /\ ptrDump' = ptrDump
      /\ left' = left /\ at' = at /\ from' = from /\ space' = space
      /\ pairs' = pairs /\ placed' = placed
  BY DEF WriteChunkPad, loopVars, chunkVars
<1>2. Types /\ Phases /\ Pointers /\ Token /\ Chunk /\ Frame /\ Placed
  BY DEF PacketInv
<1>3. phase \in Chunking /\ phase' \in Chunking
  BY <1>1 DEF Chunking
<1>4. ChunkBytes' = ChunkBytes
  BY <1>1 DEF ChunkBytes, MaxChunk, Least
<1>5. Types' /\ Phases'
  BY <1>1, <1>2, <1>3 DEF Types, Phases, Chunking
<1>6. Pointers' /\ Token'
  BY <1>1, <1>2, <1>3 DEF Pointers, Token, InToken
<1>7. Drain' /\ Ended'
  BY <1>1 DEF Drain, Ended
<1>8. Chunk'
  BY <1>1, <1>2, <1>3 DEF Chunk, Chunked
<1>9. Frame'
  <2>1. pairs' = << >>
    BY <1>1, <1>2 DEF Frame
  <2>2. ASSUME ~Oversized' PROVE need' = 0
    <3>1. ~Oversized
      BY <2>2, <1>1 DEF Oversized
    <3>2. need = PadOf(ChunkBytes) /\ PadOf(ChunkBytes) \in 0 .. 3
      BY <3>1, <1>1, <1>2, <1>3, InChunk DEF Frame
    <3> QED
      BY <3>2, <1>1
  <2> QED
    BY <2>1, <2>2, <1>1 DEF Frame
<1>10. Placed'
  <2>1. Done' = Done
    BY <1>1, <1>4 DEF Done
  <2> QED
    BY <2>1, <1>1, <1>2 DEF Placed
<1> QED
  BY <1>5, <1>6, <1>7, <1>8, <1>9, <1>10 DEF PacketInv

LEMMA NextChunkKeeps ==
    ASSUME PacketInv, NextChunk
    PROVE  PacketInv'
<1>1. /\ phase = "next" /\ phase' = "chunks"
      /\ left' = left - ChunkBytes /\ at' = at + ChunkBytes /\ from' = from + ChunkBytes
      /\ op' = op /\ table' = table /\ cur' = cur /\ dump' = dump /\ index' = index
      /\ dwords' = dwords /\ slots' = slots /\ ptr' = ptr /\ ptrDump' = ptrDump
      /\ space' = space /\ need' = need /\ pairs' = pairs /\ placed' = placed
  BY DEF NextChunk, loopVars, readerVars
<1>2. Types /\ Phases /\ Pointers /\ Token /\ Chunk /\ Frame /\ Placed
  BY DEF PacketInv
<1>3. phase \in Chunking /\ phase' \in Chunking
  BY <1>1 DEF Chunking
<1>4. /\ ChunkBytes \in 1 .. left /\ ChunkBytes \in Nat
      /\ left \in Nat /\ from \in Nat /\ at \in Nat
  BY <1>1, <1>3, InChunk
<1>5. left' \in Nat /\ at' \in Nat /\ from' \in Nat
  BY <1>1, <1>4
<1>6. Types'
  BY <1>1, <1>2, <1>3, <1>5 DEF Types
<1>7. Phases'
  BY <1>1, <1>2, <1>3 DEF Phases, Chunking
<1>8. Pointers' /\ Token'
  BY <1>1, <1>2, <1>3 DEF Pointers, Token, InToken
<1>9. Drain' /\ Ended'
  BY <1>1 DEF Drain, Ended
<1>10. Chunk'
  <2>1. Chunked' = Chunked
    BY <1>1 DEF Chunked
  <2> DEFINE e == Chunked
             s == StartOf(table)[e]
             a == table[e].addr
  <2>2. /\ e \in 1 .. Len(table) /\ s \in Nat /\ a \in Nat
        /\ s <= from /\ from + left = StartOf(table)[e + 1]
        /\ at = a + (from - s) /\ space = table[e].local
    BY <1>3, InChunk
  <2> HIDE DEF e, s, a
  <2>3. s <= from' /\ from' + left' = from + left /\ at' = a + (from' - s)
    BY <2>2, <1>1, <1>4
  <2> QED
    BY <2>1, <2>2, <2>3, <1>1 DEF Chunk, e, s, a
<1>11. Frame'
  BY <1>1, <1>2 DEF Frame, BetweenPackets, Oversized
<1>12. Placed'
  <2>1. Done' = Done
    BY <1>1 DEF Done
  <2> QED
    BY <2>1, <1>1, <1>2 DEF Placed
<1> QED
  BY <1>6, <1>7, <1>8, <1>9, <1>10, <1>11, <1>12 DEF PacketInv

LEMMA ChunksDoneKeeps ==
    ASSUME PacketInv, ChunksDone
    PROVE  PacketInv'
<1>1. /\ phase = "chunks" /\ left = 0
      /\ phase' = CASE op = "compare" -> "loop" [] op = "disc" -> "inner" [] OTHER -> "return"
      /\ op' = op /\ table' = table /\ cur' = cur /\ dump' = dump /\ index' = index
      /\ dwords' = dwords /\ slots' = slots /\ ptr' = ptr /\ ptrDump' = ptrDump
      /\ left' = left /\ at' = at /\ from' = from /\ space' = space
      /\ need' = need /\ pairs' = pairs /\ placed' = placed
  BY DEF ChunksDone, loopVars, chunkVars, readerVars
<1>2. Types /\ Phases /\ Pointers /\ Token /\ Chunk /\ Frame /\ Placed
  BY DEF PacketInv
<1>3. phase \in Chunking
  BY <1>1 DEF Chunking
<1>4. op \in {"comment", "contig", "compare", "disc"}
  BY <1>3, InChunk
<1>5. /\ phase' \in {"loop", "inner", "return"} /\ phase' \notin Chunking
      /\ phase' = "loop" <=> op = "compare"
      /\ phase' = "inner" <=> op = "disc"
      /\ phase' = "return" <=> op \in {"comment", "contig"}
  <2>1. CASE op = "compare"
    BY <2>1, <1>1 DEF Chunking
  <2>2. CASE op = "disc"
    BY <2>2, <1>1 DEF Chunking
  <2>3. CASE op \in {"comment", "contig"}
    BY <2>3, <1>1 DEF Chunking
  <2> QED
    BY <2>1, <2>2, <2>3, <1>4
<1>6. Types'
  BY <1>1, <1>2, <1>5 DEF Types
<1>7. Phases'
  BY <1>1, <1>2, <1>5 DEF Phases
<1>8. Pointers'
  BY <1>1, <1>2 DEF Pointers, InToken
<1>9. Token'
  BY <1>1, <1>2, <1>4, <1>5 DEF Token, InToken
<1>10. Drain' /\ Chunk'
  BY <1>5 DEF Drain, Chunk
<1>11. Frame'
  <2>1. BetweenPackets /\ BetweenPackets'
    BY <1>1, <1>5 DEF BetweenPackets
  <2> QED
    BY <2>1, <1>1, <1>2, <1>5 DEF Frame, Oversized, Chunking
<1>12. from = StartOf(table)[Chunked + 1]
  BY <1>1, <1>3, InChunk
<1>13. Placed'
  <2>1. Done = from
    BY <1>1 DEF Done
  <2>2. CASE op \in {"comment", "contig"}
    <3>1. Done' = from
      BY <2>2, <1>1, <1>5 DEF Done, InToken
    <3> QED
      BY <3>1, <2>1, <1>1, <1>2 DEF Placed
  <2>3. CASE op = "compare"
    <3>1. from = ptr
      <4>1. (cur - 1) + 1 = cur
        BY <1>2 DEF Types
      <4> QED
        BY <4>1, <2>3, <1>1, <1>2, <1>12 DEF Chunked, Pointers
    <3>2. Done' = from
      BY <3>1, <2>3, <1>1, <1>5 DEF Done
    <3> QED
      BY <3>2, <2>1, <1>1, <1>2 DEF Placed
  <2>4. CASE op = "disc"
    <3>1. dump = cur
      BY <2>4, <1>1, <1>2 DEF Token, InToken, Types
    <3>2. from = ptrDump
      <4>1. (cur - 1) + 1 = cur
        BY <1>2 DEF Types
      <4> QED
        BY <4>1, <3>1, <2>4, <1>1, <1>2, <1>12 DEF Chunked, Pointers, InToken
    <3>3. Done' = from
      BY <3>2, <2>4, <1>1, <1>5 DEF Done, InToken
    <3> QED
      BY <3>3, <2>1, <1>1, <1>2 DEF Placed
  <2> QED
    BY <2>2, <2>3, <2>4, <1>4
<1>14. Ended'
  BY <1>1, <1>5, <1>12 DEF Ended, Chunked
<1> QED
  BY <1>6, <1>7, <1>8, <1>9, <1>10, <1>11, <1>13, <1>14 DEF PacketInv

LEMMA CompareEntryKeeps ==
    ASSUME PacketInv, CompareEntry
    PROVE  PacketInv'
<1>1. /\ phase = "loop" /\ op = "compare" /\ op' = op /\ table' = table /\ dump' = dump
      /\ index' = index /\ dwords' = dwords /\ slots' = slots /\ ptrDump' = ptrDump
      /\ need' = need /\ pairs' = pairs /\ placed' = placed
  BY DEF CompareEntry, readerVars
<1>2. Types /\ Phases /\ Pointers /\ Frame /\ Placed
  BY DEF PacketInv
<1>3. /\ ~InToken /\ ~InToken' /\ BetweenPackets /\ table \in Seq(Entries)
      /\ Len(table) \in Nat /\ cur \in 1 .. Len(table) + 1
  BY <1>1, <1>2 DEF InToken, BetweenPackets, Types
<1>4. ptr = StartOf(table)[cur] /\ placed = Upto(table, ptr)
  BY <1>1, <1>2 DEF Pointers, Placed, Done
<1>5. CASE cur <= Len(table)
  <2> DEFINE e == table[cur]
  <2>1. /\ left' = e.size /\ at' = e.addr /\ space' = e.local /\ from' = ptr
        /\ ptr' = ptr + e.size /\ cur' = cur + 1 /\ phase' = "chunks"
    BY <1>5 DEF CompareEntry, Entry
  <2>2. e.size \in Nat /\ e.addr \in Nat /\ e.local \in BOOLEAN /\ cur \in 1 .. Len(table)
    BY <1>3, <1>5, EntryTypes
  <2>3. StartOf(table)[cur + 1] = ptr + e.size
    BY <2>2, <1>3, <1>4, Starts
  <2>4. ptr \in Nat
    BY <1>2 DEF Types
  <2> HIDE DEF e
  <2>5. Types'
    <3>1. ptr' \in Nat /\ left' \in Nat /\ at' \in Nat /\ from' \in Nat
      BY <2>1, <2>2, <2>4
    <3>2. space' \in BOOLEAN
      BY <2>1, <2>2
    <3>3. cur' \in 1 .. Len(table') + 1 /\ dump' \in 1 .. cur'
      BY <2>1, <2>2, <1>1, <1>2 DEF Types
    <3>4. phase' \in {"idle", "loop", "drain", "inner", "return"} \cup Chunking
      BY <2>1 DEF Chunking
    <3> QED
      BY <3>1, <3>2, <3>3, <3>4, <1>1, <1>2 DEF Types
  <2>6. Phases'
    BY <2>1, <1>1 DEF Phases, Chunking
  <2>7. Pointers' /\ Token' /\ Drain' /\ Ended'
    BY <2>1, <2>3, <1>1, <1>3 DEF Pointers, Token, Drain, Ended
  <2>8. Chunk'
    <3>1. Chunked' = cur
      BY <2>1, <2>2, <1>1 DEF Chunked
    <3> QED
      BY <3>1, <2>1, <2>2, <2>3, <2>4, <1>1, <1>4 DEF Chunk, e
  <2>9. Frame'
    BY <2>1, <1>1, <1>2, <1>3 DEF Frame, BetweenPackets, Oversized
  <2>10. Placed'
    <3>1. Done' = ptr
      BY <2>1 DEF Done
    <3> QED
      BY <3>1, <1>1, <1>4 DEF Placed
  <2> QED
    BY <2>5, <2>6, <2>7, <2>8, <2>9, <2>10 DEF PacketInv
<1>6. CASE ~ (cur <= Len(table))
  <2>1. /\ phase' = "return" /\ cur' = cur /\ ptr' = ptr
        /\ left' = left /\ at' = at /\ from' = from /\ space' = space
    BY <1>6 DEF CompareEntry, chunkVars
  <2>2. cur = Len(table) + 1
    BY <1>3, <1>6
  <2>3. Types' /\ Phases'
    BY <2>1, <1>1, <1>2 DEF Types, Phases, Chunking
  <2>4. Pointers' /\ Token' /\ Drain' /\ Chunk'
    BY <2>1, <1>1, <1>3, <1>4 DEF Pointers, Token, Drain, Chunk, Chunking
  <2>5. Frame'
    BY <2>1, <1>1, <1>2, <1>3 DEF Frame, BetweenPackets, Oversized
  <2>6. Placed'
    <3>1. Done' = ptr
      BY <2>1, <1>1 DEF Done
    <3> QED
      BY <3>1, <1>1, <1>4 DEF Placed
  <2>7. Ended'
    BY <2>1, <2>2, <1>1 DEF Ended
  <2> QED
    BY <2>3, <2>4, <2>5, <2>6, <2>7 DEF PacketInv
<1> QED
  BY <1>5, <1>6

(* Entries that join a token are whole dwords, and fit. *)
LEMMA HoldsWholeDwords ==
    ASSUME PacketInv, phase = "loop", InToken, cur <= Len(table), MayHold(Entry(cur))
    PROVE  /\ cur \in 1 .. Len(table) /\ table[cur] \in Entries
           /\ table[cur].size \in Nat
           /\ DwordsOf(table[cur].size) \in Nat
           /\ 4 * DwordsOf(table[cur].size) = table[cur].size
           /\ DwordsOf(table[cur].size) <= MaxDword - (DiscHeader - 1)
<1>1. Types /\ Phases
  BY DEF PacketInv
<1>2. cur \in 1 .. Len(table) /\ table \in Seq(Entries)
  BY <1>1 DEF Types
<1>3. table[cur] \in Entries /\ table[cur].size \in Nat
  BY <1>2, EntryTypes
<1>4. table[cur].size % 4 = 0 /\ DwordsOf(table[cur].size) <= MaxDword - (DiscHeader - 1)
  <2>1. CASE op = "ptes"
    <3>1. table[cur].size = 8
      BY <2>1, <1>1, <1>2 DEF Phases
    <3>2. DwordsOf(8) = 2 /\ 8 % 4 = 0
      BY DEF DwordsOf
    <3>3. 2 <= MaxDword - (DiscHeader - 1)
      BY Constants
    <3> QED
      BY <3>1, <3>2, <3>3
  <2>2. CASE op # "ptes"
    BY <2>2 DEF MayHold, FitsToken, Entry
  <2> QED
    BY <2>1, <2>2
<1> QED
  BY <1>2, <1>3, <1>4, DwordsAndPad

LEMMA StoreEntryKeeps ==
    ASSUME PacketInv, StoreEntry
    PROVE  PacketInv'
<1> DEFINE e == table[cur]
           d == DwordsOf(e.size)
<1>1. /\ phase = "loop" /\ InToken /\ cur <= Len(table) /\ MayHold(Entry(cur)) /\ ~MustFlush
      /\ slots' = Append(SubSeq(slots, 1, index), Pair(e))
      /\ dwords' = DwordsWith(e) /\ index' = index + 1 /\ ptr' = ptr + e.size /\ cur' = cur + 1
      /\ op' = op /\ phase' = phase /\ table' = table /\ dump' = dump /\ ptrDump' = ptrDump
      /\ left' = left /\ at' = at /\ from' = from /\ space' = space
      /\ need' = need /\ pairs' = pairs /\ placed' = placed
  BY DEF StoreEntry, Entry, chunkVars, readerVars
<1>2. Types /\ Phases /\ Pointers /\ Token /\ Frame /\ Placed
  BY DEF PacketInv
<1>3. /\ cur \in 1 .. Len(table) /\ e \in Entries /\ e.size \in Nat
      /\ d \in Nat /\ 4 * d = e.size /\ d <= MaxDword - (DiscHeader - 1)
  BY <1>1, HoldsWholeDwords
<1>4. /\ table \in Seq(Entries) /\ slots \in Seq(Entries) /\ Len(table) \in Nat
      /\ dump \in 1 .. cur /\ index \in Nat /\ dwords \in Nat /\ ptr \in Nat /\ ptrDump \in Nat
  BY <1>2 DEF Types
<1>5. /\ index = cur - dump /\ index <= Len(slots)
      /\ \A k \in 1 .. index : slots[k] = Pair(table[dump + k - 1])
      /\ dwords = 0 <=> index = 0
      /\ dwords > 0 => ptr - ptrDump = 4 * (dwords - (DiscHeader - 1))
  BY <1>1, <1>2 DEF Token
<1>6. ptr = StartOf(table)[cur] /\ ptrDump = StartOf(table)[dump]
  BY <1>1, <1>2 DEF Pointers, InToken
<1>7. index > 0 => index < MaxEntries /\ d + dwords <= MaxDword
  BY <1>1 DEF MustFlush, RoomFor, Entry
<1> HIDE DEF d
<1>8. /\ index' \in Nat /\ index' <= MaxEntries /\ index' > 0
      /\ dwords' \in Nat /\ dwords' <= MaxDword /\ dwords' > 0
      /\ ptr' \in Nat
      /\ ptr' - ptrDump = 4 * (dwords' - (DiscHeader - 1))
  <2>1. dwords' = (IF dwords = 0 THEN DiscHeader - 1 ELSE dwords) + d
    BY <1>1 DEF DwordsWith, d
  <2>2. CASE index = 0
    <3>2. dump = cur
      BY <2>2, <1>3, <1>4, <1>5
    <3>1. dwords = 0 /\ ptr = ptrDump
      BY <2>2, <3>2, <1>5, <1>6
    <3> QED
      BY <2>1, <2>2, <3>1, <1>1, <1>3, <1>4, Constants
  <2>3. CASE index # 0
    <3>1. dwords > 0 /\ index < MaxEntries /\ d + dwords <= MaxDword
      BY <2>3, <1>4, <1>5, <1>7
    <3>2. ptr - ptrDump = 4 * (dwords - (DiscHeader - 1))
      BY <3>1, <1>5
    <3>3. dwords' = dwords + d
      BY <2>1, <3>1, <1>4
    <3>4. /\ index' \in Nat /\ index' <= MaxEntries /\ index' > 0
          /\ dwords' \in Nat /\ dwords' <= MaxDword /\ dwords' > 0
      BY <3>1, <3>3, <1>1, <1>3, <1>4, Constants
    <3>5. ptr' = ptr + 4 * d
      BY <1>1, <1>3
    <3>6. ptr' \in Nat /\ ptr' - ptrDump = 4 * (dwords' - (DiscHeader - 1))
      BY <3>2, <3>3, <3>5, <1>3, <1>4, Constants
    <3> QED
      BY <3>4, <3>6
  <2> QED
    BY <2>2, <2>3
<1>9. Pair(e) \in Entries
  BY <1>3, PairIsEntry
<1>10. /\ SubSeq(slots, 1, index) \in Seq(Entries) /\ Len(SubSeq(slots, 1, index)) = index
       /\ \A k \in 1 .. index : SubSeq(slots, 1, index)[k] = slots[k]
  BY <1>4, <1>5
<1>11. /\ slots' \in Seq(Entries) /\ Len(slots') = index + 1
       /\ \A k \in 1 .. index : slots'[k] = slots[k]
       /\ slots'[index + 1] = Pair(e)
  BY <1>1, <1>4, <1>9, <1>10
<1>12. cur' \in 1 .. Len(table) + 1 /\ dump \in 1 .. cur'
  BY <1>1, <1>3, <1>4
<1>13. Types'
  BY <1>1, <1>2, <1>8, <1>11, <1>12 DEF Types
<1>14. Phases'
  BY <1>1, <1>2 DEF Phases
<1>15. Pointers'
  <2>1. StartOf(table)[cur + 1] = ptr'
    BY <1>1, <1>3, <1>4, <1>6, Starts
  <2>2. op # "compare"
    BY <1>1 DEF InToken
  <2> QED
    BY <2>1, <1>1, <1>6 DEF Pointers, InToken
<1>16. Token'
  <2>1. index' = cur' - dump'
    <3>1. index = cur - dump /\ cur \in Nat /\ dump \in Nat
      BY <1>3, <1>4, <1>5
    <3>2. index' = index + 1 /\ cur' = cur + 1 /\ dump' = dump
      BY <1>1
    <3> HIDE DEF e
    <3> QED
      BY <3>1, <3>2
  <2>2. ASSUME NEW k \in 1 .. index'
        PROVE  slots'[k] = Pair(table[dump + k - 1])
    <3>1. CASE k \in 1 .. index
      BY <3>1, <1>5, <1>11
    <3>2. CASE k = index + 1
      <4>1. dump + k - 1 = cur
        BY <3>2, <1>3, <1>4, <1>5
      <4> QED
        BY <4>1, <3>2, <1>11
    <3> QED
      BY <3>1, <3>2, <2>2, <1>1, <1>4, SMTT(30)
  <2>3. index' <= Len(slots')
    BY <1>1, <1>4, <1>11
  <2>4. ~ (index' = 0) /\ ~ (dwords' = 0)
    BY <1>8
  <2>5. \A k \in 1 .. index' : slots'[k] = Pair(table'[dump' + k - 1])
    BY <2>2, <1>1
  <2> QED
    BY <2>1, <2>3, <2>4, <2>5, <1>1, <1>8 DEF Token
<1>17. Drain' /\ Chunk' /\ Ended'
  BY <1>1 DEF Drain, Chunk, Ended, Chunking
<1>18. Frame'
  BY <1>1, <1>2 DEF Frame, BetweenPackets, Oversized
<1>19. Placed'
  <2>1. Done' = Done
    BY <1>1 DEF Done, InToken
  <2> QED
    BY <2>1, <1>1, <1>2 DEF Placed
<1> QED
  BY <1>13, <1>14, <1>15, <1>16, <1>17, <1>18, <1>19 DEF PacketInv

LEMMA WriteEntryAloneKeeps ==
    ASSUME PacketInv, WriteEntryAlone
    PROVE  PacketInv'
<1> DEFINE e == table[cur]
<1>1. /\ phase = "loop" /\ InToken /\ cur <= Len(table) /\ ~MayHold(Entry(cur)) /\ ~MustFlush
      /\ left' = e.size /\ at' = e.addr /\ space' = e.local /\ from' = ptr
      /\ ptr' = ptr + e.size /\ ptrDump' = ptr + e.size
      /\ cur' = cur + 1 /\ dump' = cur + 1 /\ phase' = "chunks"
      /\ op' = op /\ table' = table /\ index' = index /\ dwords' = dwords /\ slots' = slots
      /\ need' = need /\ pairs' = pairs /\ placed' = placed
  BY DEF WriteEntryAlone, DumpBehind, Entry, readerVars
<1>2. Types /\ Phases /\ Pointers /\ Token /\ Frame /\ Placed
  BY DEF PacketInv
<1>3. op = "disc"
  BY <1>1 DEF InToken, MayHold
<1>4. index = 0
  BY <1>1, <1>2 DEF MustFlush, Types
<1>5. /\ table \in Seq(Entries) /\ Len(table) \in Nat /\ cur \in 1 .. Len(table)
      /\ dump \in 1 .. cur /\ ptr \in Nat
  BY <1>1, <1>2 DEF Types
<1>6. e.size \in Nat /\ e.addr \in Nat /\ e.local \in BOOLEAN
  BY <1>5, EntryTypes
<1>7. index = cur - dump /\ dwords = 0
  BY <1>1, <1>2, <1>4 DEF Token
<1>8. dump = cur
  BY <1>4, <1>5, <1>7
<1>9. ptr = StartOf(table)[cur] /\ ptrDump = ptr
  BY <1>1, <1>2, <1>3, <1>8 DEF Pointers, InToken
<1>10. StartOf(table)[cur + 1] = ptr + e.size
  BY <1>5, <1>9, Starts
<1> HIDE DEF e
<1>11. Types'
  <2>1. ptr' \in Nat /\ ptrDump' \in Nat /\ left' \in Nat /\ at' \in Nat /\ from' \in Nat
    BY <1>1, <1>5, <1>6
  <2>2. cur' \in 1 .. Len(table') + 1 /\ dump' \in 1 .. cur'
    BY <1>1, <1>5
  <2>3. space' \in BOOLEAN
    BY <1>1, <1>6
  <2>4. phase' \in {"idle", "loop", "drain", "inner", "return"} \cup Chunking
    BY <1>1 DEF Chunking
  <2> QED
    BY <2>1, <2>2, <2>3, <2>4, <1>1, <1>2 DEF Types
<1>12. Phases'
  BY <1>1, <1>3 DEF Phases, Chunking
<1>13. Pointers'
  BY <1>1, <1>3, <1>10 DEF Pointers, InToken
<1>14. Token'
  <2>1. index' = 0 /\ cur' - dump' = 0 /\ dwords' = 0
    BY <1>1, <1>4, <1>5, <1>7
  <2>2. index' <= Len(slots')
    <3>1. Len(slots) \in Nat
      BY <1>2 DEF Types
    <3> QED
      BY <3>1, <1>1, <1>4
  <2> QED
    BY <2>1, <2>2 DEF Token
<1>15. Drain' /\ Ended'
  BY <1>1 DEF Drain, Ended
<1>16. Chunk'
  <2>1. Chunked' = cur
    BY <1>1, <1>3, <1>5 DEF Chunked
  <2> QED
    BY <2>1, <1>1, <1>5, <1>6, <1>9, <1>10 DEF Chunk, e
<1>17. Frame'
  BY <1>1, <1>2 DEF Frame, BetweenPackets, Oversized
<1>18. Placed'
  <2>1. Done = ptr /\ Done' = ptr
    BY <1>1, <1>3, <1>9 DEF Done
  <2> QED
    BY <2>1, <1>1, <1>2 DEF Placed
<1> QED
  BY <1>11, <1>12, <1>13, <1>14, <1>15, <1>16, <1>17, <1>18 DEF PacketInv

LEMMA EmptyIsEmpty ==
    ASSUME NEW S, NEW s \in Seq(S), Len(s) = 0
    PROVE  s = << >>
  OBVIOUS

LEMMA WriteTokenHeaderKeeps ==
    ASSUME PacketInv, WriteTokenHeader
    PROVE  PacketInv'
<1> DEFINE s == CmdServicesMemTraceMemoryWriteDiscontiguous
           h == Header(s, 4 * DiscHeader, dwords)
<1>1. /\ phase = "loop" /\ InToken /\ MustFlush /\ phase' = "drain"
      /\ need' = h.total - h.bytes /\ pairs' = SubSeq(slots, 1, index)
      /\ op' = op /\ table' = table /\ cur' = cur /\ dump' = dump /\ index' = index
      /\ dwords' = dwords /\ slots' = slots /\ ptr' = ptr /\ ptrDump' = ptrDump
      /\ left' = left /\ at' = at /\ from' = from /\ space' = space /\ placed' = placed
  BY DEF WriteTokenHeader, loopVars, chunkVars
<1>2. Types /\ Phases /\ Pointers /\ Token /\ Placed
  BY DEF PacketInv
<1>3. /\ cur \in 1 .. Len(table) + 1 /\ dump \in 1 .. cur /\ Len(table) \in Nat
      /\ index \in Nat /\ dwords \in Nat /\ dwords \in 0 .. MaxDword
      /\ ptr \in Nat /\ ptrDump \in Nat /\ slots \in Seq(Entries)
  BY <1>2, Constants DEF Types
<1>4. /\ index = cur - dump /\ index <= Len(slots)
      /\ \A k \in 1 .. index : slots[k] = Pair(table[dump + k - 1])
      /\ dwords > 0 => ptr - ptrDump = 4 * (dwords - (DiscHeader - 1))
      /\ dwords = 0 <=> index = 0
  BY <1>1, <1>2 DEF Token
<1>5. dwords > 0
  BY <1>1, <1>3, <1>4 DEF MustFlush
<1>6. s \in Structs /\ s.lengthBias = 1
  <2>1. s \in Structs
    BY DEF Structs, Layout
  <2>2. s.lengthBias = 1
    BY DEF CmdServicesMemTraceMemoryWriteDiscontiguous, MemTrace
  <2> QED
    BY <2>1, <2>2
<1>7. need' = ptr - ptrDump
  <2> DEFINE b == 4 * DiscHeader
  <2> HIDE DEF s, b
  <2>1. Header(s, b, dwords).total = 4 * (dwords + s.lengthBias) /\ Header(s, b, dwords).bytes = b
    BY <1>3, <1>6, HeaderLength
  <2>2. need' = 4 * (dwords + 1) - 4 * DiscHeader
    BY <2>1, <1>1, <1>6 DEF b
  <2> QED
    BY <2>2, <1>3, <1>4, <1>5, Constants
<1>8. /\ pairs' \in Seq(Entries) /\ Len(pairs') = index
      /\ \A k \in 1 .. index : pairs'[k] = slots[k]
  <2>1. /\ SubSeq(slots, 1, index) \in Seq(Entries) /\ Len(SubSeq(slots, 1, index)) = index
        /\ \A k \in 1 .. index : SubSeq(slots, 1, index)[k] = slots[k]
    BY <1>3, <1>4
  <2> QED
    BY <2>1, <1>1
<1>9. Types'
  BY <1>1, <1>2, <1>8 DEF Types
<1>10. Phases'
  BY <1>1, <1>2 DEF Phases, Chunking, InToken
<1>11. Pointers'
  BY <1>1, <1>2 DEF Pointers, InToken
<1>12. Token' /\ Chunk' /\ Ended'
  BY <1>1 DEF Token, Chunk, Ended, Chunking
<1>13. Drain'
  BY <1>1, <1>4, <1>7, <1>8 DEF Drain
<1>14. Frame'
  BY <1>1 DEF Frame, BetweenPackets
<1>15. Placed'
  <2>1. Done' = Done
    BY <1>1 DEF Done, InToken
  <2> QED
    BY <2>1, <1>1, <1>2 DEF Placed
<1> QED
  BY <1>9, <1>10, <1>11, <1>12, <1>13, <1>14, <1>15 DEF PacketInv

LEMMA WriteTokenDataKeeps ==
    ASSUME PacketInv, WriteTokenData
    PROVE  PacketInv'
<1> DEFINE e == table[dump]
           p == Head(pairs)
<1>1. /\ phase = "drain" /\ dump < cur /\ PlaceData(ptrDump, e.size)
      /\ ptrDump' = ptrDump + e.size /\ dump' = dump + 1
      /\ need' = need - e.size /\ pairs' = Tail(pairs)
      /\ op' = op /\ phase' = phase /\ table' = table /\ cur' = cur /\ index' = index
      /\ dwords' = dwords /\ slots' = slots /\ ptr' = ptr
      /\ left' = left /\ at' = at /\ from' = from /\ space' = space
  BY DEF WriteTokenData, PlaceData, Entry, chunkVars
<1>2. Types /\ Phases /\ Pointers /\ Drain /\ Placed
  BY DEF PacketInv
<1>3. op \in {"disc", "ptes"} /\ InToken
  BY <1>1, <1>2 DEF Phases, InToken
<1>4. /\ cur \in 1 .. Len(table) + 1 /\ dump \in 1 .. cur /\ Len(table) \in Nat
      /\ ptr \in Nat /\ ptrDump \in Nat /\ pairs \in Seq(Entries) /\ table \in Seq(Entries)
  BY <1>2 DEF Types
<1>5. dump \in 1 .. Len(table)
  BY <1>1, <1>4
<1>6. e \in Entries /\ e.size \in Nat /\ e.addr \in Nat
  BY <1>4, <1>5, EntryTypes
<1>7. /\ need = ptr - ptrDump /\ Len(pairs) = cur - dump
      /\ \A k \in 1 .. Len(pairs) : pairs[k] = Pair(table[dump + k - 1])
  BY <1>1, <1>2 DEF Drain
<1>8. Len(pairs) \in Nat /\ Len(pairs) > 0
  BY <1>1, <1>4, <1>7
<1>9. p = e
  <2>1. p = pairs[1] /\ 1 \in 1 .. Len(pairs)
    BY <1>4, <1>8
  <2>2. dump + 1 - 1 = dump
    BY <1>4
  <2> QED
    BY <2>1, <2>2, <1>6, <1>7, PairIsEntry
<1>10. /\ pairs' \in Seq(Entries) /\ Len(pairs') = Len(pairs) - 1
       /\ \A k \in 1 .. Len(pairs') : pairs'[k] = pairs[k + 1]
  BY <1>1, <1>4, <1>8
<1>11. /\ StartOf(table)[dump] = ptrDump
       /\ StartOf(table)[dump + 1] = ptrDump + e.size
  <2>1. StartOf(table)[dump] = ptrDump
    BY <1>1, <1>2, <1>3 DEF Pointers
  <2> QED
    BY <2>1, <1>4, <1>5, Starts
<1> HIDE DEF e, p
<1>12. Types'
  <2>1. ptrDump' \in Nat
    BY <1>1, <1>4, <1>6
  <2>2. dump' \in 1 .. cur'
    BY <1>1, <1>4
  <2> QED
    BY <2>1, <2>2, <1>1, <1>2, <1>10 DEF Types
<1>13. Phases'
  BY <1>1, <1>2 DEF Phases
<1>14. Pointers'
  BY <1>1, <1>2, <1>3, <1>11 DEF Pointers, InToken
<1>15. Token' /\ Chunk' /\ Ended'
  BY <1>1 DEF Token, Chunk, Ended, Chunking
<1>16. Drain'
  <2>1. need' = ptr' - ptrDump'
    BY <1>1, <1>4, <1>6, <1>7, SMTT(30)
  <2>2. Len(pairs') = cur' - dump'
    BY <1>1, <1>4, <1>7, <1>10
  <2>3. ASSUME NEW k \in 1 .. Len(pairs')
        PROVE  pairs'[k] = Pair(table'[dump' + k - 1])
    <3>1. k + 1 \in 1 .. Len(pairs) /\ dump + (k + 1) - 1 = dump' + k - 1
      BY <1>1, <1>4, <1>8, <1>10
    <3>2. pairs[k + 1] = Pair(table[dump + (k + 1) - 1])
      BY <3>1, <1>7
    <3> QED
      BY <3>1, <3>2, <1>1, <1>10
  <2> QED
    BY <2>1, <2>2, <2>3 DEF Drain
<1>17. Frame'
  BY <1>1 DEF Frame, BetweenPackets
<1>18. Placed'
  <2>1. Done = ptrDump /\ Done' = ptrDump + e.size
    BY <1>1, <1>3 DEF Done, InToken
  <2>2. placed = Upto(table, ptrDump)
    BY <2>1, <1>1, <1>2, <1>3 DEF Placed
  <2>3. placed' = Put(placed, ptrDump, e.size, p)
    BY <1>1, <1>3 DEF PlaceData, p
  <2>4. Upto(table, ptrDump + e.size) = Put(Upto(table, ptrDump), ptrDump, e.size, p)
    <3> DEFINE n == ptrDump
               m == e.size
    <3>1. /\ table \in Seq(Entries) /\ dump \in 1 .. Len(table) /\ n \in Nat /\ m \in Nat
          /\ StartOf(table)[dump] <= n /\ n + m <= StartOf(table)[dump + 1]
      BY <1>4, <1>5, <1>6, <1>11
    <3>2. p.addr = table[dump].addr + (n - StartOf(table)[dump]) /\ p.local = table[dump].local
      BY <1>4, <1>6, <1>9, <1>11 DEF e
    <3> HIDE DEF n, m
    <3>3. Upto(table, n + m) = Put(Upto(table, n), n, m, p)
      BY <3>1, <3>2, PlacesExtend
    <3> QED
      BY <3>3 DEF n, m
  <2> QED
    BY <2>1, <2>2, <2>3, <2>4, <1>1 DEF Placed
<1> QED
  BY <1>12, <1>13, <1>14, <1>15, <1>16, <1>17, <1>18 DEF PacketInv

LEMMA TokenWrittenKeeps ==
    ASSUME PacketInv, TokenWritten
    PROVE  PacketInv'
<1>1. /\ phase = "drain" /\ dump = cur /\ index' = 0 /\ dwords' = 0 /\ phase' = "loop"
      /\ op' = op /\ table' = table /\ cur' = cur /\ dump' = dump
      /\ slots' = slots /\ ptr' = ptr /\ ptrDump' = ptrDump
      /\ left' = left /\ at' = at /\ from' = from /\ space' = space
      /\ need' = need /\ pairs' = pairs /\ placed' = placed
  BY DEF TokenWritten, chunkVars, readerVars
<1>2. Types /\ Phases /\ Pointers /\ Drain /\ Placed
  BY DEF PacketInv
<1>3. op \in {"disc", "ptes"} /\ InToken
  BY <1>1, <1>2 DEF Phases, InToken
<1>4. need = 0 /\ pairs = << >>
  <2>1. ptr = ptrDump
    BY <1>1, <1>2, <1>3 DEF Pointers
  <2>2. need = 0 /\ Len(pairs) = 0
    BY <2>1, <1>1, <1>2 DEF Drain, Types
  <2> QED
    BY <2>2, <1>2, EmptyIsEmpty DEF Types
<1>5. Types'
  BY <1>1, <1>2, Constants DEF Types
<1>6. Phases' /\ Pointers'
  BY <1>1, <1>2, <1>3 DEF Phases, Pointers, InToken, Chunking
<1>7. Token'
  <2>1. cur - dump = 0 /\ Len(slots) \in Nat
    BY <1>1, <1>2 DEF Types
  <2> QED
    BY <2>1, <1>1 DEF Token
<1>8. Drain' /\ Chunk' /\ Ended'
  BY <1>1 DEF Drain, Chunk, Ended, Chunking
<1>9. Frame'
  BY <1>1, <1>4 DEF Frame
<1>10. Placed'
  <2>1. Done' = Done
    BY <1>1 DEF Done, InToken
  <2> QED
    BY <2>1, <1>1, <1>2 DEF Placed
<1> QED
  BY <1>5, <1>6, <1>7, <1>8, <1>9, <1>10 DEF PacketInv

LEMMA TableDoneKeeps ==
    ASSUME PacketInv, TableDone
    PROVE  PacketInv'
<1>1. /\ phase = "loop" /\ InToken /\ cur > Len(table) /\ ~MustFlush /\ phase' = "return"
      /\ op' = op /\ table' = table /\ cur' = cur /\ dump' = dump /\ index' = index
      /\ dwords' = dwords /\ slots' = slots /\ ptr' = ptr /\ ptrDump' = ptrDump
      /\ left' = left /\ at' = at /\ from' = from /\ space' = space
      /\ need' = need /\ pairs' = pairs /\ placed' = placed
  BY DEF TableDone, loopVars, chunkVars, readerVars
<1>2. Types /\ Phases /\ Pointers /\ Token /\ Frame /\ Placed
  BY DEF PacketInv
<1>3. index = 0 /\ cur = Len(table) + 1 /\ op \in {"disc", "ptes"}
  <2>1. Len(table) \in Nat /\ cur \in 1 .. Len(table) + 1 /\ index \in Nat
    BY <1>2 DEF Types
  <2>2. ~ (cur <= Len(table))
    BY <2>1, <1>1
  <2> QED
    BY <2>1, <2>2, <1>1 DEF MustFlush, InToken
<1>4. Types'
  BY <1>1, <1>2 DEF Types
<1>5. Phases' /\ Pointers'
  BY <1>1, <1>2, <1>3 DEF Phases, Pointers, InToken, Chunking
<1>6. Token'
  BY <1>1, <1>2, <1>3 DEF Token, InToken
<1>7. Drain' /\ Chunk'
  BY <1>1 DEF Drain, Chunk, Chunking
<1>8. Ended'
  BY <1>1, <1>3 DEF Ended
<1>9. Frame'
  BY <1>1, <1>2 DEF Frame, BetweenPackets, Oversized
<1>10. Placed'
  <2>1. Done' = Done
    BY <1>1 DEF Done, InToken
  <2> QED
    BY <2>1, <1>1, <1>2 DEF Placed
<1> QED
  BY <1>4, <1>5, <1>6, <1>7, <1>8, <1>9, <1>10 DEF PacketInv

LEMMA ReturnKeeps ==
    ASSUME PacketInv, Return
    PROVE  PacketInv'
<1>1. /\ phase \in {"inner", "return"}
      /\ phase' = IF phase = "inner" THEN "loop" ELSE "idle"
      /\ op' = op /\ table' = table /\ cur' = cur /\ dump' = dump /\ index' = index
      /\ dwords' = dwords /\ slots' = slots /\ ptr' = ptr /\ ptrDump' = ptrDump
      /\ left' = left /\ at' = at /\ from' = from /\ space' = space
      /\ need' = need /\ pairs' = pairs /\ placed' = placed
  BY DEF Return, loopVars, chunkVars, readerVars
<1>2. Types /\ Phases /\ Pointers /\ Token /\ Frame /\ Placed
  BY DEF PacketInv
<1>3. phase' \in {"loop", "idle"} /\ (phase' = "loop" => phase = "inner" /\ op = "disc")
  BY <1>1, <1>2 DEF Phases
<1>4. Types'
  BY <1>1, <1>2, <1>3 DEF Types
<1>5. Phases' /\ Pointers' /\ Token'
  BY <1>1, <1>2, <1>3 DEF Phases, Pointers, Token, InToken, Chunking
<1>6. Drain' /\ Chunk' /\ Ended'
  BY <1>3 DEF Drain, Chunk, Ended, Chunking
<1>7. Frame'
  BY <1>1, <1>2, <1>3 DEF Frame, BetweenPackets, Oversized
<1>8. Placed'
  <2>1. phase' = "loop" => Done' = Done
    BY <1>1, <1>3 DEF Done, InToken
  <2> QED
    BY <2>1, <1>1, <1>2, <1>3 DEF Placed
<1> QED
  BY <1>4, <1>5, <1>6, <1>7, <1>8 DEF PacketInv

LEMMA UnwindKeeps ==
    ASSUME PacketInv, Unwind
    PROVE  PacketInv'
<1>1. /\ op' = "none" /\ phase' = "idle" /\ need' = 0 /\ pairs' = << >>
      /\ table' = table /\ cur' = cur /\ dump' = dump /\ index' = index
      /\ dwords' = dwords /\ slots' = slots /\ ptr' = ptr /\ ptrDump' = ptrDump
      /\ left' = left /\ at' = at /\ from' = from /\ space' = space
  BY DEF Unwind, loopVars, chunkVars
<1>2. Types
  BY DEF PacketInv
<1>3. Types'
  BY <1>1, <1>2 DEF Types, Ops
<1>4. Phases' /\ Pointers' /\ Token' /\ Drain' /\ Chunk' /\ Placed' /\ Ended'
  BY <1>1 DEF Phases, Pointers, Token, Drain, Chunk, Placed, Ended, Chunking
<1>5. Frame'
  BY <1>1 DEF Frame
<1> QED
  BY <1>3, <1>4, <1>5 DEF PacketInv

LEMMA CallStepKeeps ==
    ASSUME PacketInv, CallStep
    PROVE  PacketInv'
  BY FixedPacketKeeps, WriteChunkHeaderKeeps, WriteChunkDataKeeps, WriteChunkPadKeeps,
     NextChunkKeeps, ChunksDoneKeeps, CompareEntryKeeps, StoreEntryKeeps, WriteEntryAloneKeeps,
     WriteTokenHeaderKeeps, WriteTokenDataKeeps, TokenWrittenKeeps, TableDoneKeeps DEF CallStep

LEMMA PacketsUnchanged ==
    ASSUME PacketInv, UNCHANGED packetVars
    PROVE  PacketInv'
<1>1. UNCHANGED <<op, phase, table, cur, dump, index, dwords, slots, ptr, ptrDump,
                  left, at, from, space, need, pairs, placed>>
  BY DEF packetVars, loopVars, chunkVars, readerVars
<1>2. Types' /\ Phases' /\ Pointers' /\ Token' /\ Drain' /\ Chunk' /\ Ended'
  BY <1>1 DEF PacketInv, Types, Phases, Pointers, Token, Drain, Chunk, Ended, InToken, Chunked
<1>3. ChunkBytes' = ChunkBytes
  BY <1>1 DEF ChunkBytes, MaxChunk, Least
<1>4. Frame'
  BY <1>1, <1>3 DEF PacketInv, Frame, BetweenPackets, Oversized
<1>5. Placed'
  BY <1>1, <1>3 DEF PacketInv, Placed, Done, InToken
<1> QED
  BY <1>2, <1>4, <1>5 DEF PacketInv

LEMMA CallsAreCalls ==
    /\ IsCall(Version)
    /\ \A p \in Plans : \A call \in CallsOf[p.name] : IsCall(call)
<1>1. Version.name = "init" /\ Version.table = <<[size |-> 0, addr |-> 0, local |-> FALSE]>>
  BY DEF Version
<1>2. Version.table \in Seq(Entries)
  <2>1. [size |-> 0, addr |-> 0, local |-> FALSE] \in Entries
    BY DEF Entries
  <2> QED
    BY <2>1, <1>1
<1>3. IsCall(Version)
  BY <1>1, <1>2 DEF IsCall, FixedCalls
<1> QED
  BY <1>3, AubPacketsAssumption, AubFileAssumption

(* The plan stays one of Plans, with less of it left. *)
PlanInv == "name" \in DOMAIN budget /\ \E p \in Plans : budget.name = p.name

LEMMA SpendKeeps ==
    ASSUME PlanInv, NEW what \in {"calls", "opens", "faults"}, Spend(what)
    PROVE  PlanInv'
  BY DEF PlanInv, Spend

LEMMA PlanKeeps ==
    ASSUME PlanInv, [Next]_vars
    PROVE  PlanInv'
<1>1. ASSUME UNCHANGED budget PROVE PlanInv'
  BY <1>1 DEF PlanInv
<1>2. CASE UNCHANGED vars
  BY <1>1, <1>2 DEF vars
<1>3. CASE Call
  BY <1>3, SpendKeeps DEF Call
<1>4. CASE Step
  <2>1. ASSUME NEW x, NEW y, Write(x, y) PROVE PlanInv'
    BY <2>1, <1>1, SpendKeeps DEF Write, WriteToTmp, WriteToFile, WriteToBadFile, WriteFails,
      WriteRetried, Retry
  <2> QED
    BY <1>1, <1>4, <2>1 DEF Step
<1>5. CASE Flush
  BY <1>1, <1>5, SpendKeeps DEF Flush
<1>6. CASE Catch \/ Close
  BY <1>1, <1>6 DEF Catch, Close
<1>7. CASE Open
  <2>1. CASE OpenFile
    BY <2>1, SpendKeeps DEF OpenFile
  <2>2. CASE OpenFails
    <3>1. CASE isOpen
      BY <2>2, <3>1, SpendKeeps DEF OpenFails
    <3>2. CASE ~isOpen
      <4>1. budget' = [budget EXCEPT !.opens = @ - 1, !.faults = @ - 1]
        BY <2>2, <3>2 DEF OpenFails
      <4> QED
        BY <4>1 DEF PlanInv
    <3> QED
      BY <3>1, <3>2
  <2> QED
    BY <1>7, <2>1, <2>2 DEF Open
<1>8. CASE DeliverTmp
  BY <1>1, <1>8, SpendKeeps DEF DeliverTmp, Retry
<1> QED
  BY <1>2, <1>3, <1>4, <1>5, <1>6, <1>7, <1>8 DEF Next

(***************************************************************************)
(* Whatever becomes of what is written, the call in progress is at one of   *)
(* its steps, and the invariant of the packets holds for every table.       *)
(***************************************************************************)
LEMMA PacketsInvariant == Spec => [](PacketInv /\ PlanInv)
<1>1. Init => PacketInv /\ PlanInv
  <2>1. ASSUME NEW p \in Plans PROVE "name" \in DOMAIN p
    BY AubFileAssumption
  <2> QED
    BY <2>1, InitHolds DEF Init, PlanInv
<1>2. ASSUME PacketInv, PlanInv, [Next]_vars
      PROVE  PacketInv'
  <2>1. CASE UNCHANGED packetVars
    BY <2>1, <1>2, PacketsUnchanged
  <2>2. ASSUME NEW call, IsCall(call), StartCall(call) PROVE PacketInv'
    BY <2>2, <1>2, StartCallKeeps
  <2>3. CASE UNCHANGED vars
    BY <2>1, <2>3 DEF vars
  <2>4. CASE Call
    BY <2>1, <2>2, <2>4, <1>2, CallsAreCalls DEF Call, PlanInv
  <2>5. CASE Step
    BY <2>5, <1>2, CallStepKeeps DEF Step
  <2>6. CASE Flush
    BY <2>6, <1>2, ReturnKeeps DEF Flush
  <2>7. CASE Catch
    BY <2>1, <2>7, <1>2, UnwindKeeps DEF Catch
  <2>8. CASE Open
    BY <2>1, <2>2, <2>8, CallsAreCalls DEF Open, OpenFile, OpenFails, Initialize
  <2>9. CASE DeliverTmp \/ Close
    BY <2>1, <2>9 DEF DeliverTmp, Close
  <2> QED
    BY <1>2, <2>3, <2>4, <2>5, <2>6, <2>7, <2>8, <2>9 DEF Next
<1>3. PacketInv /\ PlanInv /\ [Next]_vars => (PacketInv /\ PlanInv)'
  BY <1>2, PlanKeeps
<1> QED
  BY <1>1, <1>3, PTL DEF Spec

(***************************************************************************)
(* The counters of writeDiscontiguousPages and the other loops have their   *)
(* types and keep the bounds the code asserts, for every table.             *)
(***************************************************************************)
THEOREM CountersInBounds == Spec => []TypeOK
<1>1. PacketInv => TypeOK
  <2> SUFFICES ASSUME PacketInv PROVE TypeOK
    OBVIOUS
  <2>1. Types /\ Token /\ Pointers
    BY DEF PacketInv
  <2>2. {cur, dump} \subseteq 1 .. Len(table) + 1
    BY <2>1 DEF Types
  <2>3. phase = "loop" /\ InToken /\ dwords = 0 => dump = cur /\ ptrDump = ptr
    <3> SUFFICES ASSUME phase = "loop", InToken, dwords = 0 PROVE dump = cur /\ ptrDump = ptr
      OBVIOUS
    <3>1. index = 0 /\ index = cur - dump
      BY <2>1 DEF Token
    <3>2. dump = cur
      BY <2>1, <3>1 DEF Types
    <3> QED
      BY <2>1, <3>2 DEF Pointers, InToken
  <2> QED
    BY <2>1, <2>2, <2>3 DEF TypeOK, Types, Ops, Chunking
<1> QED
  BY <1>1, PacketsInvariant, PTL

(* What a reader still waits for, of packets that are not too large *)
LEMMA NeedIsFramed ==
    PacketInv /\ ~Oversized => need \in Nat /\ (BetweenPackets => need = 0 /\ pairs = << >>)
<1> SUFFICES ASSUME PacketInv, ~Oversized
             PROVE  need \in Nat /\ (BetweenPackets => need = 0 /\ pairs = << >>)
  OBVIOUS
<1>1. Types /\ Phases /\ Pointers /\ Drain /\ Frame
  BY DEF PacketInv
<1>2. BetweenPackets => need = 0 /\ pairs = << >>
  BY <1>1 DEF Frame
<1>3. CASE phase \in {"data", "pad"}
  <2>1. /\ DwordsOf(ChunkBytes) \in Nat /\ PadOf(ChunkBytes) \in 0 .. 3
    BY <1>3, InChunk DEF Chunking
  <2> QED
    BY <1>1, <1>2, <1>3, <2>1 DEF Frame
<1>4. CASE phase = "drain"
  <2>1. op \in {"disc", "ptes"} /\ table \in Seq(Entries)
    BY <1>1, <1>4 DEF Phases, Types
  <2>2. ptr = StartOf(table)[cur] /\ ptrDump = StartOf(table)[dump]
    BY <1>1, <1>4, <2>1 DEF Pointers, InToken
  <2>3. dump \in 1 .. Len(table) + 1 /\ cur \in dump .. Len(table) + 1
    BY <1>1 DEF Types
  <2>4. ptrDump <= ptr
    BY <2>1, <2>2, <2>3, StartsAscend
  <2>5. need \in Nat
    BY <1>1, <1>4, <2>4 DEF Drain, Types
  <2> QED
    BY <1>2, <2>5
<1>5. CASE phase \notin {"data", "pad", "drain"}
  <2>1. BetweenPackets
    BY <1>1, <1>5 DEF BetweenPackets, Types, Chunking
  <2> QED
    BY <1>2, <2>1
<1> QED
  BY <1>3, <1>4, <1>5

(***************************************************************************)
(* A packet is as long as its header says, for every call, table and size   *)
(* (write, and every loop of AubFileStream around it), expectMemoryTable    *)
(* with an entry that is too large apart.                                   *)
(***************************************************************************)
THEOREM PacketsAreFramed == Spec => []WellFramed
<1>1. PacketInv => WellFramed
  BY NeedIsFramed DEF WellFramed
<1> QED
  BY <1>1, PacketsInvariant, PTL

(***************************************************************************)
(* A reader puts every byte of the caller's memory at the address of its    *)
(* entry and in its address space, however writeContiguousPages,            *)
(* writeDiscontiguousPages and expectMemoryTable split and group the table. *)
(***************************************************************************)
THEOREM DataIsWhereRequested == Spec => []DataWhereRequested
<1>1. PacketInv => DataWhereRequested
  <2> SUFFICES ASSUME PacketInv, phase = "return", op \in {"contig", "compare", "disc", "ptes"}
               PROVE  placed = Requested
    BY DEF DataWhereRequested
  <2>1. Types /\ Phases /\ Pointers /\ Token /\ Placed /\ Ended
    BY DEF PacketInv
  <2>2. placed = Upto(table, Done)
    BY <2>1 DEF Placed
  <2>3. Done = StartOf(table)[Len(table) + 1]
    <3>1. CASE op = "contig"
      <4>1. Len(table) = 1 /\ from = StartOf(table)[2]
        BY <2>1, <3>1 DEF Phases, Ended
      <4> QED
        BY <3>1, <4>1 DEF Done, InToken
    <3>2. CASE op = "compare"
      BY <2>1, <3>2 DEF Done, Pointers, Ended
    <3>3. CASE op \in {"disc", "ptes"}
      <4>1. index = 0 /\ index = cur - dump /\ cur = Len(table) + 1
        BY <2>1, <3>3 DEF Token, InToken, Ended
      <4>2. dump = cur
        BY <4>1, <2>1 DEF Types
      <4> QED
        BY <2>1, <3>3, <4>1, <4>2 DEF Done, Pointers, InToken
    <3> QED
      BY <3>1, <3>2, <3>3
  <2> QED
    BY <2>2, <2>3 DEF Upto, Requested
<1> QED
  BY <1>1, PacketsInvariant, PTL

-----------------------------------------------------------------------------
(* What one step of a call gives to write() *)

LEMMA StepIssues ==
    ASSUME PacketInv, ~Oversized, CallStep
    PROVE  /\ \/ issue' = NoIssue /\ need' = need
              \/ issue' # NoIssue /\ issue'.header = TRUE /\ issue'.bytes \in Nat /\ need = 0
              \/ /\ issue' # NoIssue /\ issue'.header = FALSE /\ issue'.bytes \in Nat
                 /\ need' = need - issue'.bytes /\ need > 0
           /\ ~Idle'
<1> DEFINE Goal == /\ \/ issue' = NoIssue /\ need' = need
                      \/ /\ issue' # NoIssue /\ issue'.header = TRUE /\ issue'.bytes \in Nat
                         /\ need = 0
                      \/ /\ issue' # NoIssue /\ issue'.header = FALSE /\ issue'.bytes \in Nat
                         /\ need' = need - issue'.bytes /\ need > 0
                   /\ ~Idle'
<1>1. need \in Nat /\ (BetweenPackets => need = 0 /\ pairs = << >>)
  BY NeedIsFramed
<1>3. ASSUME NEW n \in Nat
      PROVE  Body(n).header = FALSE /\ Body(n).bytes = n /\ (n = 0 => Body(n) = NoIssue)
  BY DEF Body, NoIssue
<1>4. ASSUME NEW n \in Nat, issue' = Body(n), need' = need - n, n <= need
      PROVE  \/ issue' = NoIssue /\ need' = need
             \/ /\ issue' # NoIssue /\ issue'.header = FALSE /\ issue'.bytes \in Nat
                /\ need' = need - issue'.bytes /\ need > 0
  <2>1. CASE n = 0
    <3>1. Body(n) = NoIssue
      BY <2>1, <1>3
    <3>2. need - n = need
      BY <2>1, <1>1
    <3> QED
      BY <3>1, <3>2, <1>4
  <2>2. CASE n # 0
    <3>1. issue'.bytes = n /\ issue'.header = FALSE
      BY <1>3, <1>4
    <3>2. issue' # NoIssue
      BY <3>1, <2>2 DEF NoIssue
    <3> QED
      BY <3>1, <3>2, <2>2, <1>1, <1>4
  <2> QED
    BY <2>1, <2>2
<1>5. CASE FixedPacket
  <2>1. phase = "loop" /\ op \in FixedCalls /\ need = 0
    BY <1>1, <1>5 DEF FixedPacket, BetweenPackets
  <2>2. CASE cur <= Len(table)
    <3>1. 4 * SizeOf(Layout[op]) \in Nat
      <4>1. SizeOf(Layout[op]) \in Nat
        BY <2>1 DEF FixedCalls, SizeOf, Layout, MemTrace, AubCmd,
            CmdServicesMemTraceVersion, CmdServicesMemTraceRegisterPoll,
            CmdServicesMemTraceRegisterWrite, CmdServicesMemTraceMemoryPoll,
            CmdServicesMemTraceMemoryContinuousRegion, CmdServicesMemTraceDumpCompress,
            AubPpgttContextCreate, AubCaptureBinaryDumpHD
      <4> QED
        BY <4>1
    <3>2. issue' = Header(Layout[op], 4 * SizeOf(Layout[op]), FixedDwordCount(op)) /\ phase' = phase
      BY <1>5, <2>2 DEF FixedPacket
    <3>3. issue' # NoIssue /\ issue'.header = TRUE /\ issue'.bytes \in Nat
      <4> DEFINE b == 4 * SizeOf(Layout[op])
      <4> HIDE DEF b
      <4>1. /\ Header(Layout[op], b, FixedDwordCount(op)) # NoIssue
            /\ Header(Layout[op], b, FixedDwordCount(op)).header = TRUE
            /\ Header(Layout[op], b, FixedDwordCount(op)).bytes = b
        BY DEF Header, NoIssue
      <4> QED
        BY <4>1, <3>1, <3>2 DEF b
    <3> QED
      BY <3>2, <3>3, <2>1 DEF Idle
  <2>3. CASE ~ (cur <= Len(table))
    BY <1>5, <2>3 DEF FixedPacket, Idle
  <2> QED
    BY <2>2, <2>3
<1>6. CASE WriteChunkHeader
  <2>1. need = 0 /\ phase' = "data"
    BY <1>1, <1>6 DEF WriteChunkHeader, BetweenPackets
  <2>2. 4 * ChunkStruct(op).base \in Nat
    BY DEF ChunkStruct, CmdServicesMemTraceComment, CmdServicesMemTraceMemoryCompare,
        CmdServicesMemTraceMemoryWrite, MemTrace
  <2>3. issue' = Header(ChunkStruct(op), 4 * ChunkStruct(op).base, ChunkDwordCount(op, ChunkBytes))
    BY <1>6 DEF WriteChunkHeader
  <2>4. issue' # NoIssue /\ issue'.header = TRUE /\ issue'.bytes \in Nat
    BY <2>2, <2>3 DEF Header, NoIssue
  <2> QED
    BY <2>1, <2>4 DEF Idle
<1>7. CASE WriteChunkData
  <2>1. phase = "data" /\ issue' = Body(ChunkBytes) /\ need' = need - ChunkBytes /\ ~Idle'
    BY <1>7 DEF WriteChunkData, PlaceData, Idle
  <2>2. need = 4 * DwordsOf(ChunkBytes)
    BY <2>1 DEF PacketInv, Frame
  <2>3. ChunkBytes \in Nat /\ ChunkBytes <= need
    <3>1. /\ ChunkBytes \in Nat /\ PadOf(ChunkBytes) \in 0 .. 3
          /\ 4 * DwordsOf(ChunkBytes) = ChunkBytes + PadOf(ChunkBytes)
      BY <2>1, InChunk DEF Chunking
    <3> QED
      BY <3>1, <2>2
  <2> QED
    BY <2>1, <2>3, <1>4
<1>8. CASE WriteChunkPad
  <2>1. phase = "pad" /\ issue' = Body(PadOf(ChunkBytes)) /\ need' = need - PadOf(ChunkBytes) /\ ~Idle'
    BY <1>8 DEF WriteChunkPad, Idle
  <2>2. need = PadOf(ChunkBytes)
    BY <2>1 DEF PacketInv, Frame
  <2>3. PadOf(ChunkBytes) \in Nat /\ PadOf(ChunkBytes) <= need
    BY <2>2, <1>1
  <2> QED
    BY <2>1, <2>3, <1>4
<1>9. CASE WriteTokenHeader
  <2>1. need = 0 /\ phase' = "drain"
    BY <1>1, <1>9 DEF WriteTokenHeader, BetweenPackets
  <2>2. 4 * DiscHeader \in Nat
    BY Constants
  <2>3. issue' = Header(CmdServicesMemTraceMemoryWriteDiscontiguous, 4 * DiscHeader, dwords)
    BY <1>9 DEF WriteTokenHeader
  <2>4. issue' # NoIssue /\ issue'.header = TRUE /\ issue'.bytes \in Nat
    BY <2>2, <2>3 DEF Header, NoIssue
  <2> QED
    BY <2>1, <2>4 DEF Idle
<1>10. CASE WriteTokenData
  <2> DEFINE e == table[dump]
  <2>1. /\ phase = "drain" /\ dump < cur /\ issue' = Body(e.size) /\ need' = need - e.size
        /\ ~Idle'
    BY <1>10 DEF WriteTokenData, PlaceData, Entry, Idle
  <2>2. Types /\ Phases /\ Pointers /\ Drain
    BY DEF PacketInv
  <2>3. /\ table \in Seq(Entries) /\ dump \in 1 .. Len(table) /\ cur \in dump + 1 .. Len(table) + 1
        /\ InToken
    BY <2>1, <2>2 DEF Types, Phases, InToken
  <2>4. e.size \in Nat
    BY <2>3, EntryTypes
  <2>5. ptrDump + e.size = StartOf(table)[dump + 1]
    BY <2>1, <2>2, <2>3, Starts DEF Pointers
  <2>6. StartOf(table)[dump + 1] <= ptr
    <3>1. dump + 1 \in 1 .. Len(table) + 1
      BY <2>3
    <3> QED
      BY <3>1, <2>1, <2>2, <2>3, StartsAscend DEF Pointers, Phases
  <2> HIDE DEF e
  <2>7. e.size <= need
    <3>1. need = ptr - ptrDump /\ ptr \in Nat /\ ptrDump \in Nat
      BY <2>1, <2>2 DEF Drain, Types
    <3>2. ptrDump + e.size <= ptr
      BY <2>5, <2>6
    <3> QED
      BY <3>1, <3>2, <2>4
  <2> QED
    BY <2>1, <2>4, <2>7, <1>4
<1>11. CASE \/ NextChunk \/ ChunksDone \/ CompareEntry \/ StoreEntry \/ WriteEntryAlone
            \/ TokenWritten \/ TableDone
  <2>1. issue' = NoIssue /\ need' = need
    BY <1>11 DEF NextChunk, ChunksDone, CompareEntry, StoreEntry, WriteEntryAlone, TokenWritten,
      TableDone, readerVars
  <2>2. ~Idle'
    BY <1>11 DEF NextChunk, ChunksDone, CompareEntry, StoreEntry, WriteEntryAlone, TokenWritten,
      TableDone, Idle
  <2> QED
    BY <2>1, <2>2
<1> QED
  BY <1>5, <1>6, <1>7, <1>8, <1>9, <1>10, <1>11 DEF CallStep

-----------------------------------------------------------------------------
(* Pieces of packets, one behind the other *)

Pieces == [id : Nat, header : BOOLEAN, bytes : Nat, rest : Int]

(* What is to follow the last piece, and the packet it belongs to *)
RestOf(s) == IF s = << >> THEN 0 ELSE s[Len(s)].rest
LastId(s) == s[Len(s)].id

(* ReadsAsWritten of a sequence; a packet begins with its header. *)
Chained(s) ==
    \A i \in 1 .. Len(s) :
        IF s[i].header THEN i > 1 => s[i - 1].rest = 0
        ELSE i > 1 /\ s[i - 1].rest = s[i].rest + s[i].bytes /\ s[i - 1].id = s[i].id

(* The reader of s waits for n bytes, of packet id if for any. *)
Awaits(s, n, id) == RestOf(s) = n /\ (n > 0 => LastId(s) = id)

LEMMA OnePiece ==
    ASSUME NEW s \in Seq(Pieces), NEW x \in Pieces
    PROVE  /\ <<x>> \in Seq(Pieces) /\ Len(<<x>>) = 1 /\ <<x>>[1] = x
           /\ s \o <<x>> \in Seq(Pieces) /\ Len(s \o <<x>>) = Len(s) + 1
           /\ \A i \in 1 .. Len(s) : (s \o <<x>>)[i] = s[i]
           /\ (s \o <<x>>)[Len(s) + 1] = x
           /\ s \o <<x>> # << >>
<1>1. <<x>> \in Seq(Pieces) /\ Len(<<x>>) = 1 /\ <<x>>[1] = x /\ Len(s) \in Nat
  OBVIOUS
<1>2. /\ s \o <<x>> \in Seq(Pieces) /\ Len(s \o <<x>>) = Len(s) + 1
      /\ \A i \in 1 .. Len(s) + 1 : (s \o <<x>>)[i] = IF i <= Len(s) THEN s[i] ELSE <<x>>[i - Len(s)]
  <2>1. /\ s \o <<x>> \in Seq(Pieces) /\ Len(s \o <<x>>) = Len(s) + Len(<<x>>)
        /\ \A i \in 1 .. Len(s) + Len(<<x>>) :
             (s \o <<x>>)[i] = IF i <= Len(s) THEN s[i] ELSE <<x>>[i - Len(s)]
    BY <1>1, ConcatProperties
  <2> QED
    BY <2>1, <1>1
<1> DEFINE u == s \o <<x>>
<1> HIDE DEF u
<1>3. u[Len(s) + 1] = x
  <2>1. Len(s) + 1 \in 1 .. Len(s) + 1 /\ ~ (Len(s) + 1 <= Len(s)) /\ (Len(s) + 1) - Len(s) = 1
    BY <1>1
  <2> QED
    BY <2>1, <1>1, <1>2 DEF u
<1>4. \A i \in 1 .. Len(s) : u[i] = s[i]
  BY <1>1, <1>2 DEF u
<1>5. u # << >>
  BY <1>1, <1>2 DEF u
<1> QED
  BY <1>1, <1>2, <1>3, <1>4, <1>5 DEF u

LEMMA ChainExtends ==
    ASSUME NEW s \in Seq(Pieces), NEW x \in Pieces, Chained(s),
           \/ x.header /\ RestOf(s) = 0
           \/ ~x.header /\ s # << >> /\ RestOf(s) = x.rest + x.bytes /\ LastId(s) = x.id
    PROVE  Chained(s \o <<x>>) /\ RestOf(s \o <<x>>) = x.rest /\ LastId(s \o <<x>>) = x.id
<1> DEFINE u == s \o <<x>>
<1>1. /\ Len(s) \in Nat /\ Len(u) = Len(s) + 1 /\ u # << >>
      /\ \A i \in 1 .. Len(s) : u[i] = s[i]
      /\ u[Len(s) + 1] = x
  BY OnePiece
<1> HIDE DEF u
<1>2. ASSUME NEW i \in 1 .. Len(u)
      PROVE  IF u[i].header THEN i > 1 => u[i - 1].rest = 0
             ELSE i > 1 /\ u[i - 1].rest = u[i].rest + u[i].bytes /\ u[i - 1].id = u[i].id
  <2>1. CASE i \in 1 .. Len(s)
    <3>1. u[i] = s[i] /\ (i > 1 => u[i - 1] = s[i - 1])
      BY <2>1, <1>1
    <3>2. IF s[i].header THEN i > 1 => s[i - 1].rest = 0
          ELSE i > 1 /\ s[i - 1].rest = s[i].rest + s[i].bytes /\ s[i - 1].id = s[i].id
      BY <2>1 DEF Chained
    <3> QED
      BY <3>1, <3>2
  <2>2. CASE i = Len(s) + 1
    <3>1. u[i] = x
      BY <2>2, <1>1
    <3>2. CASE s = << >>
      BY <3>1, <3>2, <2>2, <1>1
    <3>3. CASE s # << >>
      <4>1. Len(s) > 0
        BY <3>3, <1>1, EmptyIsEmpty
      <4>2. i > 1 /\ i - 1 = Len(s) /\ u[i - 1] = s[Len(s)]
        BY <4>1, <2>2, <1>1
      <4> QED
        BY <4>2, <3>1, <3>3 DEF RestOf, LastId
    <3> QED
      BY <3>2, <3>3
  <2> QED
    BY <2>1, <2>2, <1>1, <1>2
<1>3. RestOf(u) = x.rest /\ LastId(u) = x.id
  BY <1>1 DEF RestOf, LastId
<1> QED
  BY <1>2, <1>3 DEF Chained, u

(* What waited is appended behind whole packets. *)
LEMMA ChainsJoin ==
    ASSUME NEW s \in Seq(Pieces), NEW t \in Seq(Pieces), Chained(s), Chained(t), RestOf(s) = 0
    PROVE  /\ Chained(s \o t)
           /\ RestOf(s \o t) = RestOf(t)
<1> DEFINE u == s \o t
<1>1. /\ Len(s) \in Nat /\ Len(t) \in Nat
      /\ u \in Seq(Pieces) /\ Len(u) = Len(s) + Len(t)
      /\ \A i \in 1 .. Len(s) + Len(t) : u[i] = IF i <= Len(s) THEN s[i] ELSE t[i - Len(s)]
  BY ConcatProperties
<1> HIDE DEF u
<1>2. ASSUME NEW i \in 1 .. Len(u)
      PROVE  IF u[i].header THEN i > 1 => u[i - 1].rest = 0
             ELSE i > 1 /\ u[i - 1].rest = u[i].rest + u[i].bytes /\ u[i - 1].id = u[i].id
  <2>1. CASE i \in 1 .. Len(s)
    <3>1. u[i] = s[i] /\ (i > 1 => u[i - 1] = s[i - 1])
      BY <2>1, <1>1
    <3>2. IF s[i].header THEN i > 1 => s[i - 1].rest = 0
          ELSE i > 1 /\ s[i - 1].rest = s[i].rest + s[i].bytes /\ s[i - 1].id = s[i].id
      BY <2>1 DEF Chained
    <3> QED
      BY <3>1, <3>2
  <2>2. CASE i \in Len(s) + 1 .. Len(s) + Len(t)
    <3> DEFINE j == i - Len(s)
    <3>1. j \in 1 .. Len(t) /\ u[i] = t[j]
      BY <2>2, <1>1
    <3>2. IF t[j].header THEN j > 1 => t[j - 1].rest = 0
          ELSE j > 1 /\ t[j - 1].rest = t[j].rest + t[j].bytes /\ t[j - 1].id = t[j].id
      BY <3>1 DEF Chained
    <3>3. CASE j > 1
      <4>1. i > 1 /\ u[i - 1] = t[j - 1]
        <5>1. i - 1 \in 1 .. Len(s) + Len(t) /\ ~ (i - 1 <= Len(s)) /\ (i - 1) - Len(s) = j - 1
          BY <3>3, <2>2, <1>1
        <5> QED
          BY <5>1, <2>2, <1>1
      <4> QED
        BY <4>1, <3>1, <3>2, <3>3
    <3>4. CASE ~ (j > 1)
      <4>1. j = 1 /\ i = Len(s) + 1
        BY <3>1, <3>4, <2>2, <1>1
      <4>2. t[1].header
        BY <4>1, <3>2
      <4>3. i > 1 => u[i - 1].rest = 0
        <5>1. ASSUME i > 1 PROVE i - 1 = Len(s) /\ u[i - 1] = s[Len(s)] /\ s # << >>
          BY <5>1, <4>1, <1>1
        <5> QED
          BY <5>1 DEF RestOf
      <4> QED
        BY <4>1, <4>2, <4>3, <3>1
    <3> QED
      BY <3>3, <3>4
  <2> QED
    BY <2>1, <2>2, <1>1, <1>2
<1>3. RestOf(u) = RestOf(t)
  <2>1. CASE t = << >>
    <3>1. u = s
      BY <2>1, ConcatEmptySeq DEF u
    <3> QED
      BY <3>1, <2>1 DEF RestOf
  <2>2. CASE t # << >>
    <3>1. Len(t) > 0
      BY <2>2, <1>1, EmptyIsEmpty
    <3>2. u # << >> /\ u[Len(u)] = t[Len(t)]
      <4>1. Len(u) \in 1 .. Len(s) + Len(t) /\ ~ (Len(u) <= Len(s)) /\ Len(u) - Len(s) = Len(t)
        BY <3>1, <1>1
      <4> QED
        BY <4>1, <1>1
    <3> QED
      BY <3>2, <2>2 DEF RestOf
  <2> QED
    BY <2>1, <2>2
<1> QED
  BY <1>2, <1>3 DEF Chained, u

-----------------------------------------------------------------------------
(* The file, and what waits for one *)

(* No entry of expectMemoryTable outgrows the field of its packet. *)
Fitting ==
    \A call \in Calls : call.name = "compare" =>
        \A i \in 1 .. Len(call.table) :
            ~ (ChunkDwordCount("compare", call.table[i].size) > MaxDword)

Recorded == disk \o buf

StreamTypes ==
    /\ disk \in Seq(Pieces) /\ buf \in Seq(Pieces) /\ tmp \in Seq(Pieces)
    /\ serial \in Nat

(* Exceptions come with badbit, and a file; a call that returned was flushed. *)
Errors ==
    /\ thrown => bad
    /\ thrown /\ ~isOpen => need = 0
    /\ Idle /\ ~opening /\ Good => buf = << >>

(* The packet in progress is at the end of what is written to. *)
Waiting ==
    ~severed =>
        /\ Chained(tmp)
        /\ ~isOpen => Awaits(tmp, need, serial)
        /\ isOpen => RestOf(tmp) = 0

InFile ==
    ~severed /\ ~gap =>
        /\ Chained(Recorded)
        /\ isOpen /\ Good => Awaits(Recorded, need, serial)

Sinks == Waiting /\ InFile

StreamInv == StreamTypes /\ ~Oversized /\ Errors /\ Sinks

StartsFit(call) == Fitting /\ (call \in Calls \/ call = Version)

LEMMA StartIsFramed ==
    ASSUME PacketInv, ~Oversized, NEW call, StartsFit(call), StartCall(call)
    PROVE  need = 0 /\ need' = 0 /\ ~Oversized' /\ Idle /\ ~Idle'
<1>1. need = 0 /\ Idle
  BY NeedIsFramed DEF StartCall, Idle, BetweenPackets
<1>2. need' = 0 /\ ~Idle' /\ table' = call.table
  BY DEF StartCall, Idle
<1>3. ASSUME op' = "compare" PROVE call.name = "compare"
  BY <1>3 DEF StartCall
<1>4. Version.name # "compare"
  BY DEF Version
<1>5. ~Oversized'
  BY <1>2, <1>3, <1>4 DEF Oversized, Fitting, StartsFit
<1> QED
  BY <1>1, <1>2, <1>5

LEMMA OversizedStays ==
    ASSUME ~Oversized, CallStep \/ Return \/ Unwind \/ UNCHANGED packetVars
    PROVE  ~Oversized'
<1>1. (op' = op \/ op' = "none") /\ table' = table
  BY DEF CallStep, Return, Unwind, packetVars, FixedPacket, WriteChunkHeader, WriteChunkData,
    WriteChunkPad, NextChunk, ChunksDone, CompareEntry, StoreEntry, WriteEntryAlone,
    WriteTokenHeader, WriteTokenData, TokenWritten, TableDone
<1> QED
  BY <1>1 DEF Oversized

(* The piece of a step goes behind what the reader waits with. *)
LEMMA PieceFollows ==
    ASSUME PacketInv, ~Oversized, CallStep, issue' # NoIssue, need' \in Nat, serial \in Nat,
           serial' = IF issue'.header THEN serial + 1 ELSE serial,
           NEW s \in Seq(Pieces), Chained(s), Awaits(s, need, serial)
    PROVE  /\ s \o <<Piece(issue', serial', need')>> \in Seq(Pieces)
           /\ Chained(s \o <<Piece(issue', serial', need')>>)
           /\ Awaits(s \o <<Piece(issue', serial', need')>>, need', serial')
<1> DEFINE x == Piece(issue', serial', need')
<1>1. \/ issue'.header = TRUE /\ issue'.bytes \in Nat /\ need = 0
      \/ /\ issue'.header = FALSE /\ issue'.bytes \in Nat
         /\ need' = need - issue'.bytes /\ need > 0
  BY StepIssues
<1>2. /\ x.id = serial' /\ x.header = issue'.header /\ x.bytes = issue'.bytes /\ x.rest = need'
  BY DEF Piece
<1>3. x \in Pieces
  <2>1. serial' \in Nat
    <3>1. CASE issue'.header
      BY <3>1
    <3>2. CASE ~issue'.header
      BY <3>2
    <3> QED
      BY <3>1, <3>2
  <2>2. issue'.header \in BOOLEAN
    <3>1. issue'.header = TRUE \/ issue'.header = FALSE
      BY <1>1, Zenon
    <3> QED
      BY <3>1
  <2>3. issue'.bytes \in Nat /\ need' \in Int
    BY <1>1
  <2> QED
    BY <2>1, <2>2, <2>3 DEF Pieces, Piece
<1> HIDE DEF x
<1>4. \/ x.header /\ RestOf(s) = 0
      \/ ~x.header /\ s # << >> /\ RestOf(s) = x.rest + x.bytes /\ LastId(s) = x.id
  <2>1. CASE issue'.header = TRUE /\ need = 0
    BY <2>1, <1>2 DEF Awaits
  <2>2. CASE /\ issue'.header = FALSE /\ issue'.bytes \in Nat
             /\ need' = need - issue'.bytes /\ need > 0
    <3>1. RestOf(s) = need /\ LastId(s) = serial /\ serial' = serial
      BY <2>2 DEF Awaits
    <3>2. s # << >>
      BY <3>1, <2>2 DEF RestOf
    <3>3. need = need' + issue'.bytes
      <4>1. need \in Nat
        BY NeedIsFramed
      <4> QED
        BY <4>1, <2>2
    <3> QED
      BY <3>1, <3>2, <3>3, <2>2, <1>2
  <2> QED
    BY <1>1, <2>1, <2>2
<1>5. Chained(s \o <<x>>) /\ RestOf(s \o <<x>>) = x.rest /\ LastId(s \o <<x>>) = x.id
  BY <1>3, <1>4, ChainExtends
<1>6. s \o <<x>> \in Seq(Pieces)
  BY <1>3, OnePiece
<1> QED
  BY <1>2, <1>5, <1>6 DEF Awaits, x

(* What the stream takes is behind what it has. *)
LEMMA TakenBehind ==
    ASSUME StreamTypes, NEW p \in Seq(Pieces), Take(p)
    PROVE  /\ disk' \in Seq(Pieces) /\ buf' \in Seq(Pieces)
           /\ Recorded' = Recorded \o p
<1>1. CASE buf' = buf \o p /\ disk' = disk
  <2>1. buf \o p \in Seq(Pieces)
    BY ConcatProperties DEF StreamTypes
  <2>2. (disk \o buf) \o p = disk \o (buf \o p)
    <3>1. disk \in Seq(Pieces) /\ buf \in Seq(Pieces)
      BY DEF StreamTypes
    <3> QED
      BY <3>1, ConcatAssociative, SMTT(30)
  <2> QED
    BY <2>1, <2>2, <1>1 DEF Recorded, StreamTypes
<1>2. CASE buf' = << >> /\ disk' = disk \o buf \o p
  <2>1. (disk \o buf) \o p \in Seq(Pieces)
    BY ConcatProperties DEF StreamTypes
  <2>2. ((disk \o buf) \o p) \o << >> = (disk \o buf) \o p /\ << >> \in Seq(Pieces)
    BY <2>1, ConcatEmptySeq
  <2> QED
    BY <2>1, <2>2, <1>2 DEF Recorded
<1> QED
  BY <1>1, <1>2 DEF Take

(* An error takes nothing out of the file. *)
LEMMA HandedOver ==
    ASSUME StreamTypes, HandOver
    PROVE  disk' \in Seq(Pieces) /\ buf' \in Seq(Pieces) /\ Recorded' = Recorded
<1>1. disk \o buf \in Seq(Pieces) /\ (disk \o buf) \o << >> = disk \o buf
  BY ConcatProperties, ConcatEmptySeq DEF StreamTypes
<1>2. CASE buf' = << >> /\ disk' = disk \o buf
  BY <1>1, <1>2 DEF Recorded
<1>3. CASE UNCHANGED <<buf, disk>>
  BY <1>3 DEF Recorded, StreamTypes
<1> QED
  BY <1>2, <1>3 DEF HandOver

(* The retry repeats the bytes behind all there is, or loses the file or a part of it. *)
LEMMA Retried ==
    ASSUME StreamTypes, NEW p \in Seq(Pieces), Retry(p)
    PROVE  /\ disk' \in Seq(Pieces) /\ buf' \in Seq(Pieces)
           /\ ~gap' => ~gap /\ ~bad
           /\ \/ /\ UNCHANGED <<isOpen, severed>> /\ bad' = FALSE /\ fail' = FALSE
                 /\ ~gap' => Recorded' = Recorded \o p
              \/ /\ UNCHANGED <<isOpen, severed>> /\ bad' = TRUE
                 /\ ~gap' => Recorded' = Recorded
              \/ isOpen' = FALSE /\ severed' = TRUE /\ bad' = FALSE
<1>1. /\ disk \in Seq(Pieces) /\ buf \in Seq(Pieces) /\ << >> \in Seq(Pieces)
      /\ Recorded \in Seq(Pieces) /\ Recorded \o << >> = Recorded
      /\ disk \o << >> = disk
  BY ConcatProperties, ConcatEmptySeq DEF StreamTypes, Recorded
<1>2. disk' \in Seq(Pieces) /\ (~gap' => ~gap /\ ~bad /\ disk' = Recorded)
  <2>1. CASE disk' = Reopened /\ gap' = (gap \/ bad)
    BY <2>1, <1>1 DEF Reopened, Recorded
  <2>2. CASE disk' = disk /\ gap' = (gap \/ bad \/ buf # << >>)
    BY <2>2, <1>1 DEF Recorded
  <2> QED
    BY <2>1, <2>2 DEF Retry
<1>3. CASE buf' = p /\ bad' = FALSE /\ fail' = FALSE /\ UNCHANGED <<isOpen, severed>>
  BY <1>1, <1>2, <1>3 DEF Recorded
<1>4. CASE buf' = << >> /\ bad' = TRUE /\ UNCHANGED <<isOpen, severed>>
  BY <1>1, <1>2, <1>4 DEF Recorded
<1>5. CASE buf' = << >> /\ isOpen' = FALSE /\ severed' = TRUE /\ bad' = FALSE
  BY <1>1, <1>2, <1>5
<1> QED
  BY <1>3, <1>4, <1>5 DEF Retry

(* Closing a stream with an error keeps what is in the file, and maybe the rest. *)
LEMMA ClosedStream ==
    ASSUME StreamTypes, CloseStream
    PROVE  /\ disk' \in Seq(Pieces) /\ buf' = << >> /\ buf' \in Seq(Pieces)
           /\ \/ Recorded' = Recorded
              \/ ~Good /\ Recorded' = disk
<1>1. /\ disk \in Seq(Pieces) /\ << >> \in Seq(Pieces) /\ disk \o buf \in Seq(Pieces)
      /\ (disk \o buf) \o << >> = disk \o buf /\ disk \o << >> = disk
  BY ConcatProperties, ConcatEmptySeq DEF StreamTypes
<1> QED
  BY <1>1 DEF CloseStream, Recorded

LEMMA ChainBegins ==
    ASSUME NEW s \in Seq(Pieces), NEW t \in Seq(Pieces), Chained(s \o t)
    PROVE  Chained(s)
<1> DEFINE u == s \o t
<1>1. /\ Len(s) \in Nat /\ Len(t) \in Nat /\ Len(u) = Len(s) + Len(t)
      /\ \A i \in 1 .. Len(s) + Len(t) : u[i] = IF i <= Len(s) THEN s[i] ELSE t[i - Len(s)]
  BY ConcatProperties
<1>2. Chained(u)
  OBVIOUS
<1> HIDE DEF u
<1>3. ASSUME NEW i \in 1 .. Len(s)
      PROVE  IF s[i].header THEN i > 1 => s[i - 1].rest = 0
             ELSE i > 1 /\ s[i - 1].rest = s[i].rest + s[i].bytes /\ s[i - 1].id = s[i].id
  <2>1. i \in 1 .. Len(u) /\ u[i] = s[i] /\ (i > 1 => u[i - 1] = s[i - 1])
    BY <1>1
  <2>2. IF u[i].header THEN i > 1 => u[i - 1].rest = 0
        ELSE i > 1 /\ u[i - 1].rest = u[i].rest + u[i].bytes /\ u[i - 1].id = u[i].id
    BY <2>1, <1>2 DEF Chained
  <2> QED
    BY <2>1, <2>2
<1> QED
  BY <1>3 DEF Chained

LEMMA StepKeepsStream ==
    ASSUME PacketInv, PacketInv', StreamInv, Step
    PROVE  StreamInv'
<1> DEFINE x == Piece(issue', serial', need')
           p == <<x>>
<1>1. /\ CallStep /\ ~thrown /\ UNCHANGED <<opening, dumps>>
      /\ serial' = IF issue'.header THEN serial + 1 ELSE serial
  BY DEF Step
<1>2. StreamTypes /\ ~Oversized /\ Errors /\ Sinks
  BY DEF StreamInv
<1>3. ~Oversized'
  BY <1>1, <1>2, OversizedStays
<1>4. (PacketInv /\ ~Oversized => need \in Nat /\ (BetweenPackets => need = 0 /\ pairs = << >>))'
  BY NeedIsFramed, PTL
<1>5. need' \in Nat /\ ~Idle' /\ serial' \in Nat
  BY <1>1, <1>2, <1>3, <1>4, StepIssues DEF StreamTypes
<1>6. CASE issue' = NoIssue
  <2>1. UNCHANGED <<isOpen, bad, fail, tmp, buf, disk, thrown, gap, severed>>
    BY <1>6 DEF Step, streamVars, contentVars, damageVars
  <2>2. need' = need /\ serial' = serial
    BY <1>1, <1>2, <1>6, StepIssues DEF NoIssue
  <2>3. StreamTypes'
    BY <2>1, <2>2, <1>2 DEF StreamTypes
  <2>4. Errors'
    BY <2>1, <2>2, <1>2, <1>5 DEF Errors
  <2>5. Sinks'
    BY <2>1, <2>2, <1>2 DEF Sinks, Waiting, InFile, Recorded, Good
  <2> QED
    BY <2>3, <2>4, <2>5, <1>3 DEF StreamInv
<1>7. CASE issue' # NoIssue
  <2>1. Write(p, ~issue'.header)
    BY <1>7 DEF Step
  <2>2. ASSUME NEW s \in Seq(Pieces), Chained(s), Awaits(s, need, serial)
        PROVE  s \o p \in Seq(Pieces) /\ Chained(s \o p) /\ Awaits(s \o p, need', serial')
    BY <2>2, <1>1, <1>2, <1>5, <1>7, PieceFollows DEF StreamTypes
  <2>3. x \in Pieces /\ p \in Seq(Pieces)
    <3>1. issue'.header \in BOOLEAN /\ issue'.bytes \in Nat
      BY <1>1, <1>2, <1>7, StepIssues
    <3>2. x \in Pieces
      BY <3>1, <1>5 DEF Piece, Pieces
    <3> QED
      BY <3>2
  <2> HIDE DEF x, p
  <2>4. disk \o buf \in Seq(Pieces) /\ disk \in Seq(Pieces) /\ buf \in Seq(Pieces)
        /\ tmp \in Seq(Pieces)
    BY <1>2, ConcatProperties DEF StreamTypes
  <2>5. (disk \o buf) \o << >> = disk \o buf /\ << >> \in Seq(Pieces)
    BY <2>4, ConcatEmptySeq
  <2>6. CASE WriteToTmp(p)
    <3>1. /\ ~isOpen /\ tmp' = tmp \o p
          /\ UNCHANGED <<isOpen, bad, fail, buf, disk, thrown, gap, severed>>
      BY <2>6 DEF WriteToTmp, streamVars, damageVars
    <3>2. StreamTypes'
      BY <3>1, <2>3, <2>4, <1>5, ConcatProperties DEF StreamTypes
    <3>3. Errors'
      BY <3>1, <1>1, <1>5 DEF Errors
    <3>4. Sinks'
      BY <3>1, <2>2, <2>4, <1>2 DEF Sinks, Waiting, InFile, Recorded
    <3> QED
      BY <3>2, <3>3, <3>4, <1>3 DEF StreamInv
  <2>7. CASE WriteToFile(p)
    <3>1. isOpen /\ Good /\ Take(p) /\ UNCHANGED <<isOpen, bad, fail, tmp, thrown, gap, severed>>
      BY <2>7 DEF WriteToFile, streamVars, damageVars
    <3>2. disk' \in Seq(Pieces) /\ buf' \in Seq(Pieces) /\ Recorded' = Recorded \o p
      BY <3>1, <2>3, <1>2, TakenBehind
    <3>3. StreamTypes'
      BY <3>1, <3>2, <2>4, <1>5 DEF StreamTypes
    <3>4. Errors'
      BY <3>1, <1>1, <1>5 DEF Errors
    <3>5. Waiting'
      BY <3>1, <1>2 DEF Sinks, Waiting
    <3>6. InFile'
      <4>1. Recorded \in Seq(Pieces)
        BY <2>4 DEF Recorded
      <4> QED
        BY <4>1, <3>1, <3>2, <2>2, <1>2 DEF Sinks, InFile
    <3> QED
      BY <3>3, <3>4, <3>5, <3>6, <1>3 DEF StreamInv, Sinks
  <2>8. CASE WriteToBadFile \/ WriteFails
    <3>1. /\ isOpen /\ isOpen' /\ ~Good' /\ (thrown' => bad') /\ UNCHANGED <<tmp, gap, severed>>
          /\ disk' \in Seq(Pieces) /\ buf' \in Seq(Pieces) /\ Recorded' = Recorded
      <4>1. CASE WriteToBadFile
        BY <4>1, <2>4 DEF WriteToBadFile, streamVars, contentVars, damageVars, Good, Recorded
      <4>2. CASE WriteFails
        BY <4>2, <1>2, HandedOver DEF WriteFails, Good
      <4> QED
        BY <2>8, <4>1, <4>2
    <3>2. StreamTypes' /\ Errors'
      BY <3>1, <2>4, <1>5 DEF StreamTypes, Errors
    <3>3. Sinks'
      BY <3>1, <1>2 DEF Sinks, Waiting, InFile
    <3> QED
      BY <3>2, <3>3, <1>3 DEF StreamInv
  <2>9. CASE WriteRetried(p, ~issue'.header)
    <3>1. isOpen /\ Retry(p) /\ UNCHANGED <<tmp, thrown>> /\ (bad \/ Good)
      BY <2>9 DEF WriteRetried
    <3>2. /\ disk' \in Seq(Pieces) /\ buf' \in Seq(Pieces)
          /\ ~gap' => ~gap /\ ~bad
          /\ \/ /\ UNCHANGED <<isOpen, severed>> /\ bad' = FALSE /\ fail' = FALSE
                /\ ~gap' => Recorded' = Recorded \o p
             \/ /\ UNCHANGED <<isOpen, severed>> /\ bad' = TRUE
                /\ ~gap' => Recorded' = Recorded
             \/ isOpen' = FALSE /\ severed' = TRUE /\ bad' = FALSE
      BY <3>1, <2>3, <1>2, Retried
    <3>3. StreamTypes'
      BY <3>1, <3>2, <2>4, <1>5 DEF StreamTypes
    <3>4. Errors'
      BY <3>1, <1>1, <1>5 DEF Errors
    <3>5. Waiting'
      BY <3>1, <3>2, <1>2 DEF Sinks, Waiting
    <3>6. InFile'
      <4>1. SUFFICES ASSUME ~severed', ~gap' PROVE InFile'
        BY DEF InFile
      <4>2. ~gap /\ ~bad /\ Good /\ UNCHANGED <<isOpen, severed>>
        BY <4>1, <3>1, <3>2
      <4>3. Recorded \in Seq(Pieces) /\ Chained(Recorded) /\ Awaits(Recorded, need, serial)
        BY <4>1, <4>2, <3>1, <2>4, <1>2 DEF Sinks, InFile, Recorded
      <4>4. CASE Recorded' = Recorded \o p
        BY <4>3, <4>4, <2>2 DEF InFile
      <4>5. CASE Recorded' = Recorded /\ bad' = TRUE
        BY <4>3, <4>5 DEF InFile, Good
      <4> QED
        BY <4>1, <4>4, <4>5, <3>2
    <3> QED
      BY <3>3, <3>4, <3>5, <3>6, <1>3 DEF StreamInv, Sinks
  <2> QED
    BY <2>1, <2>6, <2>7, <2>8, <2>9 DEF Write
<1> QED
  BY <1>6, <1>7

LEMMA CallKeepsStream ==
    ASSUME Fitting, PlanInv, PacketInv, StreamInv, Call
    PROVE  StreamInv'
<1>1. /\ ~thrown /\ UNCHANGED <<isOpen, bad, fail, tmp, buf, disk, thrown, gap, severed, serial, opening>>
  BY DEF Call, fileVars, streamVars, contentVars, damageVars
<1>2. StreamTypes /\ ~Oversized /\ Errors /\ Sinks
  BY DEF StreamInv
<1>3. need' = need /\ ~Oversized' /\ (Idle' => Idle)
  <2>1. PICK call \in CallsOf[budget.name] :
          IF Refused(call) THEN Idle /\ UNCHANGED packetVars ELSE StartCall(call)
    BY DEF Call
  <2>2. CASE Refused(call)
    <3>1. UNCHANGED packetVars
      BY <2>1, <2>2
    <3> QED
      BY <3>1, <1>2, OversizedStays DEF packetVars, readerVars, Idle
  <2>3. CASE ~Refused(call)
    <3>1. StartsFit(call)
      BY <2>1, AubFileAssumption DEF StartsFit, PlanInv
    <3> QED
      BY <2>1, <2>3, <3>1, <1>2, StartIsFramed
  <2> QED
    BY <2>2, <2>3
<1>4. StreamTypes'
  BY <1>1, <1>2 DEF StreamTypes
<1>5. Errors'
  BY <1>1, <1>2, <1>3 DEF Errors, Good
<1>6. Sinks'
  BY <1>1, <1>2, <1>3 DEF Sinks, Waiting, InFile, Recorded, Good
<1> QED
  BY <1>3, <1>4, <1>5, <1>6 DEF StreamInv

(* What the stream passes on stays behind what it had. *)
LEMMA PassedOn ==
    ASSUME StreamTypes, PassOn
    PROVE  /\ disk' \in Seq(Pieces) /\ buf' \in Seq(Pieces)
           /\ Recorded' = Recorded
           /\ Good => buf' = << >>
<1>1. disk \o buf \in Seq(Pieces) /\ (disk \o buf) \o << >> = disk \o buf
  BY ConcatProperties, ConcatEmptySeq DEF StreamTypes
<1>2. CASE buf' = << >> /\ disk' = disk \o buf
  BY <1>1, <1>2 DEF Recorded
<1>3. CASE ~Good /\ UNCHANGED <<buf, disk>>
  BY <1>3 DEF Recorded, StreamTypes
<1> QED
  BY <1>2, <1>3 DEF PassOn

LEMMA FlushKeepsStream ==
    ASSUME PacketInv, StreamInv, Flush
    PROVE  StreamInv'
<1>1. /\ ~thrown /\ Return /\ ~ (phase = "return" /\ opening)
      /\ UNCHANGED <<isOpen, fail, tmp, gap, severed, serial, opening>>
      /\ \/ PassOn /\ thrown' = (bad /\ throwOnError) /\ bad' = bad
         \/ isOpen /\ bad' = TRUE /\ HandOver
  BY DEF Flush
<1>2. StreamTypes /\ ~Oversized /\ Errors /\ Sinks
  BY DEF StreamInv
<1>3. need' = need /\ need = 0
  <2>1. phase \in {"inner", "return"} /\ need' = need
    BY <1>1 DEF Return, readerVars
  <2> QED
    BY <2>1, <1>2, NeedIsFramed DEF BetweenPackets
<1>4. ~Oversized'
  BY <1>1, <1>2, OversizedStays
<1>5. CASE PassOn /\ thrown' = (bad /\ throwOnError) /\ bad' = bad
  <2>1. /\ disk' \in Seq(Pieces) /\ buf' \in Seq(Pieces) /\ Recorded' = Recorded
        /\ Good => buf' = << >>
    BY <1>2, <1>5, PassedOn
  <2>2. StreamTypes'
    BY <2>1, <1>1, <1>2 DEF StreamTypes
  <2>3. Errors'
    BY <2>1, <1>1, <1>3, <1>5 DEF Errors, Good
  <2>4. Sinks'
    BY <2>1, <1>1, <1>2, <1>3, <1>5 DEF Sinks, Waiting, InFile, Good
  <2> QED
    BY <2>2, <2>3, <2>4, <1>4 DEF StreamInv
<1>6. CASE isOpen /\ bad' = TRUE /\ HandOver
  <2>1. ~Good' /\ bad' /\ isOpen'
    BY <1>1, <1>6 DEF Good
  <2>2. disk' \in Seq(Pieces) /\ buf' \in Seq(Pieces) /\ Recorded' = Recorded
    BY <1>2, <1>6, HandedOver
  <2>3. StreamTypes'
    BY <2>2, <1>1, <1>2 DEF StreamTypes
  <2>4. Errors'
    BY <2>1 DEF Errors
  <2>5. Sinks'
    BY <2>1, <2>2, <1>1, <1>2 DEF Sinks, Waiting, InFile
  <2> QED
    BY <2>3, <2>4, <2>5, <1>4 DEF StreamInv
<1> QED
  BY <1>1, <1>5, <1>6, Zenon

LEMMA CatchKeepsStream ==
    ASSUME PacketInv, StreamInv, Catch
    PROVE  StreamInv'
<1>1. /\ thrown /\ thrown' = FALSE
      /\ UNCHANGED <<isOpen, bad, fail, tmp, buf, disk, gap, severed, serial>>
      /\ IF Idle THEN UNCHANGED packetVars ELSE Unwind
  BY DEF Catch, streamVars, contentVars, damageVars
<1>2. StreamTypes /\ ~Oversized /\ Errors /\ Sinks
  BY DEF StreamInv
<1>3. need' = 0 /\ ~Oversized' /\ (~isOpen => need = 0)
  <2>1. ~Oversized'
    BY <1>1, <1>2, OversizedStays
  <2>2. CASE Idle
    <3>1. need' = need
      BY <2>2, <1>1 DEF packetVars, readerVars
    <3> QED
      BY <2>1, <2>2, <3>1, <1>2, NeedIsFramed DEF Idle, BetweenPackets
  <2>3. CASE ~Idle
    BY <2>1, <2>3, <1>1, <1>2 DEF Unwind, Errors
  <2> QED
    BY <2>2, <2>3
<1>4. bad /\ ~Good'
  BY <1>1, <1>2 DEF Errors, Good
<1>5. StreamTypes'
  BY <1>1, <1>2 DEF StreamTypes
<1>6. Errors'
  BY <1>1, <1>4 DEF Errors
<1>7. Sinks'
  BY <1>1, <1>2, <1>3, <1>4 DEF Sinks, Waiting, InFile, Recorded
<1> QED
  BY <1>3, <1>5, <1>6, <1>7 DEF StreamInv

LEMMA OpenKeepsStream ==
    ASSUME Fitting, PacketInv, StreamInv, Open
    PROVE  StreamInv'
<1>1. Idle /\ ~thrown /\ ~opening /\ UNCHANGED <<tmp, severed, serial>>
  BY DEF Open
<1>2. StreamTypes /\ ~Oversized /\ Errors /\ Sinks
  BY DEF StreamInv
<1>3. need = 0
  BY <1>1, <1>2, NeedIsFramed DEF Idle, BetweenPackets
<1>4. StartsFit(Version)
  BY DEF StartsFit
<1>5. CASE OpenFile
  <2>1. /\ ~isOpen /\ isOpen' = TRUE /\ buf' = << >> /\ disk' = << >> /\ thrown' = thrown
        /\ StartCall(Version) /\ opening' = TRUE
    BY <1>5 DEF OpenFile, Initialize
  <2>2. need' = 0 /\ ~Oversized' /\ ~Idle'
    BY <2>1, <1>2, <1>4, StartIsFramed
  <2>3. << >> \o << >> = << >> /\ << >> \in Seq(Pieces)
    BY ConcatEmptySeq
  <2>4. StreamTypes'
    BY <2>1, <2>3, <1>1, <1>2 DEF StreamTypes
  <2>5. Errors'
    BY <2>1, <2>2, <1>1 DEF Errors
  <2>6. Recorded' = << >>
    BY <2>1, <2>3 DEF Recorded
  <2>7. Chained(<< >>) /\ Awaits(<< >>, 0, serial')
    BY DEF Chained, Awaits, RestOf
  <2>8. Sinks'
    BY <2>1, <2>2, <2>6, <2>7, <1>1, <1>2, <1>3 DEF Sinks, Waiting, InFile, Awaits
  <2> QED
    BY <2>2, <2>4, <2>5, <2>8 DEF StreamInv
<1>6. CASE OpenFails
  <2>1. /\ fail' = TRUE /\ thrown' = (bad /\ throwOnError) /\ UNCHANGED <<isOpen, bad, buf, disk, gap>>
        /\ IF thrown' THEN UNCHANGED <<packetVars, opening, dumps>> ELSE Initialize
    BY <1>6 DEF OpenFails
  <2>2. need' = 0 /\ ~Oversized'
    <3>1. CASE thrown'
      BY <3>1, <2>1, <1>2, <1>3, OversizedStays DEF packetVars, readerVars
    <3>2. CASE ~thrown'
      BY <3>2, <2>1, <1>2, <1>4, StartIsFramed DEF Initialize
    <3> QED
      BY <3>1, <3>2
  <2>3. ~Good'
    BY <2>1 DEF Good
  <2>4. StreamTypes'
    BY <2>1, <1>1, <1>2 DEF StreamTypes
  <2>5. Errors'
    BY <2>1, <2>2, <2>3 DEF Errors
  <2>6. Sinks'
    BY <2>1, <2>2, <2>3, <1>1, <1>2, <1>3 DEF Sinks, Waiting, InFile, Recorded
  <2> QED
    BY <2>2, <2>4, <2>5, <2>6 DEF StreamInv
<1> QED
  BY <1>5, <1>6 DEF Open

LEMMA DeliverKeepsStream ==
    ASSUME PacketInv, StreamInv, DeliverTmp
    PROVE  StreamInv'
<1>1. /\ ~thrown /\ opening /\ phase = "return"
      /\ UNCHANGED packetVars /\ UNCHANGED serial
  BY DEF DeliverTmp
<1>2. StreamTypes /\ ~Oversized /\ Errors /\ Sinks
  BY DEF StreamInv
<1>3. need = 0 /\ need' = 0 /\ ~Oversized' /\ ~Idle'
  <2>1. need = 0
    BY <1>1, <1>2, NeedIsFramed DEF BetweenPackets
  <2> QED
    BY <2>1, <1>1, <1>2, OversizedStays DEF packetVars, readerVars, Idle
<1>4. << >> \in Seq(Pieces) /\ Chained(<< >>) /\ RestOf(<< >>) = 0 /\ Awaits(<< >>, 0, serial)
  BY DEF Chained, RestOf, Awaits
<1>5. CASE isOpen /\ Good /\ Take(tmp) /\ tmp' = ClearedTmp /\ UNCHANGED <<isOpen, bad, fail, gap, severed, thrown>>
  <2>1. Recorded \in Seq(Pieces) /\ tmp \in Seq(Pieces)
    BY <1>2, ConcatProperties DEF StreamTypes, Recorded
  <2>2. disk' \in Seq(Pieces) /\ buf' \in Seq(Pieces) /\ Recorded' = Recorded \o tmp
    BY <2>1, <1>2, <1>5, TakenBehind
  <2>3. StreamTypes'
    BY <2>2, <1>1, <1>2, <1>4, <1>5 DEF StreamTypes, ClearedTmp
  <2>4. Errors'
    BY <1>1, <1>3, <1>5 DEF Errors
  <2>5. Sinks'
    <3>1. Waiting'
      BY <1>2, <1>4, <1>5 DEF Sinks, Waiting, ClearedTmp
    <3>2. SUFFICES ASSUME ~severed, ~gap
                   PROVE  Chained(Recorded') /\ Awaits(Recorded', need', serial')
      BY <3>1, <1>1, <1>5 DEF Sinks, InFile
    <3>3. /\ Chained(Recorded) /\ Chained(tmp)
          /\ Awaits(Recorded, need, serial) /\ RestOf(tmp) = 0
      BY <3>2, <1>2, <1>5 DEF Sinks, Waiting, InFile
    <3>4. RestOf(Recorded) = 0
      BY <3>3, <1>3 DEF Awaits
    <3>5. Chained(Recorded \o tmp) /\ RestOf(Recorded \o tmp) = 0
      BY <2>1, <3>3, <3>4, ChainsJoin
    <3> QED
      BY <2>2, <3>5, <1>3 DEF Awaits
  <2> QED
    BY <2>3, <2>4, <2>5, <1>3 DEF StreamInv
<1>6. CASE /\ ~ (isOpen /\ Good) /\ UNCHANGED <<isOpen, bad, fail, buf, disk, gap, severed>>
           /\ thrown' = (isOpen /\ tmp # << >> /\ bad /\ throwOnError)
           /\ tmp' = IF thrown' THEN tmp ELSE << >>
  <2>1. StreamTypes'
    BY <1>1, <1>2, <1>4, <1>6 DEF StreamTypes
  <2>2. Errors'
    BY <1>1, <1>3, <1>6 DEF Errors
  <2>3. Sinks'
    <3>1. CASE tmp' = tmp
      BY <3>1, <1>1, <1>2, <1>3, <1>6 DEF Sinks, Waiting, InFile, Recorded, Good
    <3>2. CASE tmp' = << >>
      BY <3>2, <1>1, <1>2, <1>3, <1>4, <1>6 DEF Sinks, Waiting, InFile, Recorded, Good
    <3> QED
      BY <3>1, <3>2, <1>6
  <2> QED
    BY <2>1, <2>2, <2>3, <1>3 DEF StreamInv
<1>7. CASE /\ isOpen /\ Good /\ bad' = TRUE /\ HandOver /\ UNCHANGED <<isOpen, gap, severed>>
           /\ tmp' = IF throwOnError THEN tmp ELSE << >>
  <2>1. ~Good' /\ bad' /\ isOpen'
    BY <1>7 DEF Good
  <2>2. disk' \in Seq(Pieces) /\ buf' \in Seq(Pieces) /\ Recorded' = Recorded
    BY <1>2, <1>7, HandedOver
  <2>3. StreamTypes'
    BY <2>2, <1>1, <1>2, <1>4, <1>7 DEF StreamTypes
  <2>4. Errors'
    BY <2>1 DEF Errors
  <2>5. Sinks'
    BY <2>1, <2>2, <1>2, <1>4, <1>7 DEF Sinks, Waiting, InFile
  <2> QED
    BY <2>3, <2>4, <2>5, <1>3 DEF StreamInv
<1>8. CASE isOpen /\ bad /\ Retry(tmp) /\ tmp' = << >> /\ thrown' = thrown
  <2>1. /\ disk' \in Seq(Pieces) /\ buf' \in Seq(Pieces) /\ gap'
        /\ UNCHANGED <<isOpen, severed>> \/ severed' = TRUE
    BY <1>2, <1>8, Retried DEF StreamTypes
  <2>2. StreamTypes'
    BY <2>1, <1>1, <1>2, <1>4, <1>8 DEF StreamTypes
  <2>3. Errors'
    BY <1>1, <1>3, <1>8 DEF Errors
  <2>4. Sinks'
    BY <2>1, <1>2, <1>4, <1>8 DEF Sinks, Waiting, InFile
  <2> QED
    BY <2>2, <2>3, <2>4, <1>3 DEF StreamInv
<1> QED
  BY <1>5, <1>6, <1>7, <1>8 DEF DeliverTmp, streamVars, damageVars

LEMMA CloseKeepsStream ==
    ASSUME PacketInv, StreamInv, Close
    PROVE  StreamInv'
<1>1. /\ Idle /\ ~thrown /\ thrown' = (bad /\ throwOnError)
      /\ UNCHANGED packetVars /\ UNCHANGED <<bad, tmp, gap, severed, serial, opening>>
      /\ IF isOpen THEN isOpen' = FALSE /\ CloseStream /\ UNCHANGED fail
         ELSE fail' = TRUE /\ UNCHANGED <<isOpen, buf, disk>>
  BY DEF Close, damageVars
<1>2. StreamTypes /\ ~Oversized /\ Errors /\ Sinks
  BY DEF StreamInv
<1>3. need = 0 /\ need' = 0 /\ ~Oversized'
  <2>1. need = 0
    BY <1>1, <1>2, NeedIsFramed DEF Idle, BetweenPackets
  <2> QED
    BY <2>1, <1>1, <1>2, OversizedStays DEF packetVars, readerVars
<1>4. CASE isOpen
  <2>1. /\ disk' \in Seq(Pieces) /\ buf' = << >> /\ buf' \in Seq(Pieces)
        /\ Recorded' = Recorded \/ Recorded' = disk
    BY <1>1, <1>2, <1>4, ClosedStream
  <2>2. StreamTypes'
    BY <2>1, <1>1, <1>2 DEF StreamTypes
  <2>3. Errors'
    BY <2>1, <1>1, <1>3, <1>4 DEF Errors, Good
  <2>4. Waiting'
    BY <2>1, <1>1, <1>2, <1>3, <1>4 DEF Sinks, Waiting, Awaits
  <2>5. InFile'
    <3>1. Chained(Recorded) => Chained(disk)
      BY <1>2, ChainBegins DEF StreamTypes, Recorded
    <3> QED
      BY <2>1, <3>1, <1>1, <1>2, <1>4 DEF Sinks, InFile
  <2> QED
    BY <2>2, <2>3, <2>4, <2>5, <1>3 DEF StreamInv, Sinks
<1>5. CASE ~isOpen
  <2>1. StreamTypes'
    BY <1>1, <1>2, <1>5 DEF StreamTypes
  <2>2. Errors'
    BY <1>1, <1>3, <1>5 DEF Errors, Good
  <2>3. Sinks'
    BY <1>1, <1>2, <1>3, <1>5 DEF Sinks, Waiting, InFile, Recorded, Good
  <2> QED
    BY <2>1, <2>2, <2>3, <1>3 DEF StreamInv
<1> QED
  BY <1>4, <1>5

(***************************************************************************)
(* The invariant of the file: write(), its retry, open, init and close keep *)
(* it, whatever fails and whenever the stream passes its buffer on.         *)
(***************************************************************************)
LEMMA StreamInvariant ==
    ASSUME Fitting
    PROVE  Spec => [](PacketInv /\ PlanInv /\ StreamInv)
<1>1. Init => StreamInv
  <2> SUFFICES ASSUME Init PROVE StreamInv
    OBVIOUS
  <2>1. /\ isOpen = FALSE /\ tmp = << >> /\ buf = << >> /\ disk = << >> /\ thrown = FALSE
        /\ serial = 0 /\ need = 0 /\ op = "none"
    BY DEF Init, PacketInit
  <2>2. << >> \o << >> = << >> /\ << >> \in Seq(Pieces)
    BY ConcatEmptySeq
  <2>3. Chained(<< >>) /\ Awaits(<< >>, 0, 0)
    BY DEF Chained, Awaits, RestOf
  <2>4. StreamTypes /\ ~Oversized
    BY <2>1, <2>2 DEF StreamTypes, Oversized
  <2>5. Errors
    BY <2>1 DEF Errors
  <2>6. Sinks
    BY <2>1, <2>2, <2>3 DEF Sinks, Waiting, InFile, Recorded
  <2> QED
    BY <2>4, <2>5, <2>6 DEF StreamInv
<1>2. ASSUME PacketInv, PacketInv', PlanInv, StreamInv, [Next]_vars
      PROVE  StreamInv'
  <2>1. CASE UNCHANGED vars
    <3>1. /\ UNCHANGED packetVars
          /\ UNCHANGED <<isOpen, bad, fail, tmp, buf, disk, thrown, gap, severed, serial, opening>>
      BY <2>1 DEF vars, fileVars, streamVars, contentVars, damageVars
    <3>2. ~Oversized' /\ need' = need /\ Idle' = Idle
      BY <3>1, <1>2, OversizedStays DEF StreamInv, packetVars, readerVars, Idle
    <3>3. StreamTypes' /\ Errors' /\ Sinks'
      BY <3>1, <3>2, <1>2 DEF StreamInv, StreamTypes, Errors, Sinks, Waiting, InFile, Recorded, Good
    <3> QED
      BY <3>2, <3>3 DEF StreamInv
  <2> QED
    BY <2>1, <1>2, CallKeepsStream, StepKeepsStream, FlushKeepsStream, CatchKeepsStream,
       OpenKeepsStream, DeliverKeepsStream, CloseKeepsStream DEF Next
<1>3. (PacketInv /\ PlanInv /\ StreamInv) /\ (PacketInv /\ PlanInv)' /\ [Next]_vars => StreamInv'
  BY <1>2
<1> QED
  BY <1>1, <1>3, PacketsInvariant, PTL DEF Spec

(***************************************************************************)
(* A reader that goes by the lengths in the headers finds every packet      *)
(* whole in what waits for a file, and in the file up to its first scrap,   *)
(* and behind it apart from the scraps, whatever fails in write(), open and *)
(* close; and a call that returned without an error left nothing in the     *)
(* stream's buffer.  Excepted are a file that goes on behind an error with  *)
(* something left out, a file that could not be opened again in the middle  *)
(* of a packet, and entries of expectMemoryTable that do not fit.           *)
(***************************************************************************)
THEOREM FileReadsAsWritten ==
    ASSUME Fitting
    PROVE  Spec => []ReadsAsWritten
<1>1. ASSUME NEW s \in Seq(Pieces), Chained(s), NEW i \in DOMAIN s
      PROVE  Follows(s, i)
  <2>1. i \in 1 .. Len(s) /\ (i > 1 <=> i # 1)
    BY <1>1
  <2>2. IF s[i].header THEN i > 1 => s[i - 1].rest = 0
        ELSE i > 1 /\ s[i - 1].rest = s[i].rest + s[i].bytes /\ s[i - 1].id = s[i].id
    BY <2>1, <1>1 DEF Chained
  <2> QED
    BY <2>1, <2>2 DEF Follows
<1>2. StreamInv => ReadsAsWritten
  <2> SUFFICES ASSUME StreamInv PROVE ReadsAsWritten
    OBVIOUS
  <2>1. StreamTypes /\ Errors /\ Sinks
    BY DEF StreamInv
  <2>2. disk \o buf \in Seq(Pieces) /\ tmp \in Seq(Pieces)
    BY <2>1, ConcatProperties DEF StreamTypes
  <2>3. (~severed => Chained(tmp)) /\ (~severed /\ ~gap => Chained(disk \o buf))
    BY <2>1 DEF Sinks, Waiting, InFile, Recorded
  <2> QED
    BY <2>1, <2>2, <2>3, <1>1 DEF ReadsAsWritten, Errors
<1> QED
  BY <1>2, StreamInvariant, PTL

-----------------------------------------------------------------------------
(* The packets of a file: the whole ones, in the order of their last pieces *)

PacketIds == Nat

(* The equation of WholeTo, for the first n pieces *)
Ids(s, n, f) ==
    f = [k \in 0 .. n |->
           IF k = 0 THEN << >>
           ELSE IF s[k].rest = 0 THEN Append(f[k - 1], s[k].id) ELSE f[k - 1]]

LEMMA IdsExist ==
    ASSUME NEW s \in Seq(Pieces), NEW n \in 0 .. Len(s)
    PROVE  \E f : Ids(s, n, f)
<1> DEFINE T == {m \in 0 .. Len(s) : ~ \E f : Ids(s, m, f)}
<1>1. SUFFICES ASSUME T # {} PROVE FALSE
  OBVIOUS
<1> T \subseteq Nat
  OBVIOUS
<1>2. PICK m \in T : \A k \in T : m <= k
  <2> HIDE DEF T
  <2> QED BY <1>1, LeastNumber
<1>3. m # 0
  <2> DEFINE f == [k \in 0 .. 0 |-> << >>]
  <2>1. f = [k \in 0 .. 0 |->
               IF k = 0 THEN << >>
               ELSE IF s[k].rest = 0 THEN Append(f[k - 1], s[k].id) ELSE f[k - 1]]
    OBVIOUS
  <2>2. Ids(s, 0, f)
    BY <2>1 DEF Ids
  <2> QED
    BY <2>2, <1>2
<1>4. m - 1 \in 0 .. Len(s) /\ m - 1 \notin T
  BY <1>2, <1>3
<1>5. PICK f : Ids(s, m - 1, f)
  BY <1>4
<1> DEFINE g == [k \in 0 .. m |->
                   IF k < m THEN f[k]
                   ELSE IF s[m].rest = 0 THEN Append(f[m - 1], s[m].id) ELSE f[m - 1]]
           G(k) == IF k = 0 THEN << >>
                   ELSE IF s[k].rest = 0 THEN Append(g[k - 1], s[k].id) ELSE g[k - 1]
<1>6. \A k \in 0 .. m - 1 :
        f[k] = IF k = 0 THEN << >>
               ELSE IF s[k].rest = 0 THEN Append(f[k - 1], s[k].id) ELSE f[k - 1]
  BY <1>5 DEF Ids
<1>7. ASSUME NEW k \in 0 .. m
      PROVE  g[k] = G(k)
  <2>1. m \in Nat /\ m > 0
    BY <1>2, <1>3
  <2>2. \A j \in 0 .. m - 1 : g[j] = f[j]
    BY <2>1
  <2>3. g[m] = IF s[m].rest = 0 THEN Append(f[m - 1], s[m].id) ELSE f[m - 1]
    BY <2>1
  <2> HIDE DEF g
  <2>4. CASE k \in 0 .. m - 1
    <3>1. k = 0 \/ (k # 0 /\ k - 1 \in 0 .. m - 1)
      BY <2>1, <2>4
    <3> QED
      BY <3>1, <2>2, <2>4, <1>6
  <2>5. CASE k = m
    <3>1. m - 1 \in 0 .. m - 1
      BY <2>1
    <3> QED
      BY <3>1, <2>1, <2>2, <2>3, <2>5
  <2> QED
    BY <2>1, <2>4, <2>5
<1>8. Ids(s, m, g)
  <2>1. g = [k \in 0 .. m |-> g[k]]
    OBVIOUS
  <2>2. g = [k \in 0 .. m |-> G(k)]
    <3> HIDE DEF g, G
    <3> QED BY <2>1, <1>7
  <2> QED
    BY <2>2 DEF Ids
<1> QED
  BY <1>8, <1>2

LEMMA PieceTypes ==
    ASSUME NEW s \in Seq(Pieces), NEW k \in 1 .. Len(s)
    PROVE  s[k].id \in PacketIds
<1>1. s[k] \in Pieces
  OBVIOUS
<1> QED
  BY <1>1 DEF Pieces, PacketIds

(* The packets among the first k pieces *)
LEMMA Wholes ==
    ASSUME NEW s \in Seq(Pieces)
    PROVE  /\ WholeTo(s)[0] = << >>
           /\ \A k \in 1 .. Len(s) :
                WholeTo(s)[k] = IF s[k].rest = 0 THEN Append(WholeTo(s)[k - 1], s[k].id)
                                ELSE WholeTo(s)[k - 1]
           /\ \A k \in 0 .. Len(s) : WholeTo(s)[k] \in Seq(PacketIds)
<1>1. Len(s) \in 0 .. Len(s) /\ Len(s) \in Nat
  OBVIOUS
<1>2. PICK f : Ids(s, Len(s), f)
  BY <1>1, IdsExist
<1>3. Ids(s, Len(s), WholeTo(s))
  BY <1>2 DEF Ids, WholeTo
<1> DEFINE w == WholeTo(s)
<1>4. \A k \in 0 .. Len(s) :
        w[k] = IF k = 0 THEN << >>
               ELSE IF s[k].rest = 0 THEN Append(w[k - 1], s[k].id) ELSE w[k - 1]
  BY <1>3 DEF Ids
<1> HIDE DEF w
<1>5. w[0] = << >>
  BY <1>1, <1>4
<1>6. \A k \in 1 .. Len(s) :
        w[k] = IF s[k].rest = 0 THEN Append(w[k - 1], s[k].id) ELSE w[k - 1]
  BY <1>1, <1>4
<1> DEFINE T == {k \in 0 .. Len(s) : w[k] \notin Seq(PacketIds)}
<1> T \subseteq Nat
  OBVIOUS
<1>7. ASSUME T # {} PROVE FALSE
  <2>1. PICK m \in T : \A k \in T : m <= k
    <3> HIDE DEF T
    <3> QED BY <1>7, LeastNumber
  <2>2. m # 0
    <3>1. << >> \in Seq(PacketIds)
      OBVIOUS
    <3> QED
      BY <3>1, <2>1, <1>5
  <2>3. m \in 1 .. Len(s) /\ m - 1 \in 0 .. Len(s) /\ w[m - 1] \in Seq(PacketIds)
    BY <2>1, <2>2
  <2>4. s[m].id \in PacketIds
    BY <2>3, PieceTypes
  <2>5. w[m] \in Seq(PacketIds)
    <3>1. Append(w[m - 1], s[m].id) \in Seq(PacketIds)
      BY <2>3, <2>4, AppendProperties
    <3> QED
      BY <2>3, <3>1, <1>6
  <2> QED
    BY <2>1, <2>5
<1>8. \A k \in 0 .. Len(s) : w[k] \in Seq(PacketIds)
  BY <1>7
<1> QED
  BY <1>5, <1>6, <1>8 DEF w

LEMMA IdsAssociate ==
    ASSUME NEW a \in Seq(PacketIds), NEW b \in Seq(PacketIds), NEW c \in Seq(PacketIds)
    PROVE  (a \o b) \o c = a \o (b \o c)
BY ConcatAssociative

(* They are those of one sequence, then those of the other. *)
LEMMA WholesJoin ==
    ASSUME NEW s \in Seq(Pieces), NEW t \in Seq(Pieces)
    PROVE  Whole(s \o t) = Whole(s) \o Whole(t) /\ Whole(s) \in Seq(PacketIds)
<1> DEFINE u == s \o t
           ws == WholeTo(s)
           wt == WholeTo(t)
           wu == WholeTo(u)
<1>1. /\ Len(s) \in Nat /\ Len(t) \in Nat
      /\ u \in Seq(Pieces) /\ Len(u) = Len(s) + Len(t)
      /\ \A i \in 1 .. Len(s) + Len(t) : u[i] = IF i <= Len(s) THEN s[i] ELSE t[i - Len(s)]
  BY ConcatProperties
<1> HIDE DEF u
<1>2. /\ ws[0] = << >>
      /\ \A k \in 1 .. Len(s) :
           ws[k] = IF s[k].rest = 0 THEN Append(ws[k - 1], s[k].id) ELSE ws[k - 1]
      /\ \A k \in 0 .. Len(s) : ws[k] \in Seq(PacketIds)
  BY Wholes
<1>3. /\ wt[0] = << >>
      /\ \A k \in 1 .. Len(t) :
           wt[k] = IF t[k].rest = 0 THEN Append(wt[k - 1], t[k].id) ELSE wt[k - 1]
      /\ \A k \in 0 .. Len(t) : wt[k] \in Seq(PacketIds)
  BY Wholes
<1>4. /\ wu[0] = << >>
      /\ \A k \in 1 .. Len(u) :
           wu[k] = IF u[k].rest = 0 THEN Append(wu[k - 1], u[k].id) ELSE wu[k - 1]
  BY <1>1, Wholes
<1>5. Whole(u) = wu[Len(u)] /\ Whole(s) = ws[Len(s)] /\ Whole(t) = wt[Len(t)]
  BY DEF Whole
<1> HIDE DEF ws, wt, wu
<1>6. \A k \in 0 .. Len(s) : wu[k] = ws[k]
  <2> DEFINE T == {k \in 0 .. Len(s) : wu[k] # ws[k]}
  <2> T \subseteq Nat
    OBVIOUS
  <2>1. ASSUME T # {} PROVE FALSE
    <3>1. PICK m \in T : \A k \in T : m <= k
      <4> HIDE DEF T
      <4> QED BY <2>1, LeastNumber
    <3>2. m # 0
      BY <3>1, <1>2, <1>4
    <3>3. /\ m \in 1 .. Len(s) /\ m \in 1 .. Len(u) /\ m <= Len(s)
          /\ wu[m - 1] = ws[m - 1]
      BY <3>1, <3>2, <1>1
    <3>4. u[m] = s[m]
      BY <3>3, <1>1
    <3>5. wu[m] = ws[m]
      BY <3>3, <3>4, <1>2, <1>4
    <3> QED
      BY <3>1, <3>5
  <2> QED
    BY <2>1
<1> DEFINE w == ws[Len(s)]
<1>7. w \in Seq(PacketIds)
  BY <1>1, <1>2
<1>8. wu[Len(s)] = w
  BY <1>1, <1>6
<1> HIDE DEF w
<1>9. \A k \in 0 .. Len(t) : wu[Len(s) + k] = w \o wt[k]
  <2> DEFINE T == {k \in 0 .. Len(t) : wu[Len(s) + k] # w \o wt[k]}
  <2> T \subseteq Nat
    OBVIOUS
  <2>1. ASSUME T # {} PROVE FALSE
    <3>1. PICK m \in T : \A k \in T : m <= k
      <4> HIDE DEF T
      <4> QED BY <2>1, LeastNumber
    <3>2. m # 0
      <4>1. w \o << >> = w /\ Len(s) + 0 = Len(s)
        BY <1>1, <1>7, ConcatEmptySeq
      <4> QED
        BY <4>1, <3>1, <1>3, <1>8
    <3>3. /\ m \in 1 .. Len(t) /\ m - 1 \in 0 .. Len(t)
          /\ wu[Len(s) + (m - 1)] = w \o wt[m - 1]
      <4>1. m \in 1 .. Len(t) /\ m - 1 \in 0 .. Len(t) /\ ~ (m <= m - 1)
        BY <3>1, <3>2, <1>1
      <4>2. m - 1 \notin T
        <5> HIDE DEF T
        <5> QED BY <4>1, <3>1
      <4> QED
        BY <4>1, <4>2
    <3> DEFINE n == Len(s) + m
    <3>4. n \in 1 .. Len(u) /\ n - 1 = Len(s) + (m - 1) /\ u[n] = t[m]
      <4>1. n \in 1 .. Len(s) + Len(t) /\ ~ (n <= Len(s)) /\ n - Len(s) = m
        <5>1. Len(s) \in Nat /\ Len(t) \in Nat /\ m \in Nat /\ m >= 1 /\ m <= Len(t)
          BY <3>3, <1>1
        <5> QED
          BY <5>1
      <4> QED
        BY <4>1, <3>3, <1>1
    <3>5. wu[n] = IF t[m].rest = 0 THEN Append(w \o wt[m - 1], t[m].id) ELSE w \o wt[m - 1]
      BY <3>3, <3>4, <1>4
    <3>6. Append(w \o wt[m - 1], t[m].id) = w \o Append(wt[m - 1], t[m].id)
      <4>1. wt[m - 1] \in Seq(PacketIds) /\ t[m].id \in PacketIds
        BY <3>3, <1>3, PieceTypes
      <4> QED
        <5> DEFINE v == wt[m - 1]
                   x == t[m].id
                   y == <<x>>
        <5>1. v \in Seq(PacketIds) /\ x \in PacketIds /\ w \in Seq(PacketIds)
          BY <4>1, <1>7
        <5> HIDE DEF v, x
        <5>2. y \in Seq(PacketIds) /\ w \o v \in Seq(PacketIds)
          BY <5>1, ConcatProperties
        <5>3. Append(w \o v, x) = (w \o v) \o y /\ Append(v, x) = v \o y
          BY <5>1, <5>2, AppendIsConcat
        <5> HIDE DEF y
        <5>4. (w \o v) \o y = w \o (v \o y)
          BY <5>1, <5>2, IdsAssociate
        <5>5. Append(w \o v, x) = w \o Append(v, x)
          BY <5>3, <5>4
        <5> QED
          BY <5>5 DEF v, x
    <3>7. wt[m] = IF t[m].rest = 0 THEN Append(wt[m - 1], t[m].id) ELSE wt[m - 1]
      BY <3>3, <1>3
    <3>8. wu[n] = w \o wt[m]
      BY <3>5, <3>6, <3>7
    <3> QED
      BY <3>1, <3>8
  <2> QED
    BY <2>1
<1>10. wu[Len(s) + Len(t)] = w \o wt[Len(t)]
  BY <1>1, <1>9
<1> QED
  BY <1>1, <1>5, <1>7, <1>10 DEF w, u

LEMMA WholeOfNone == Whole(<< >>) = << >>
<1>1. << >> \in Seq(Pieces) /\ Len(<< >>) = 0
  OBVIOUS
<1> QED
  BY <1>1, Wholes DEF Whole

(* A last piece ends a packet, any other does not. *)
LEMMA WholeGrows ==
    ASSUME NEW s \in Seq(Pieces), NEW x \in Pieces
    PROVE  Whole(s \o <<x>>) = IF x.rest = 0 THEN Append(Whole(s), x.id) ELSE Whole(s)
<1> DEFINE p == <<x>>
<1>1. p \in Seq(Pieces) /\ Len(p) = 1 /\ p[1] = x /\ x.id \in PacketIds
  BY DEF Pieces, PacketIds
<1>2. Whole(s \o p) = Whole(s) \o Whole(p) /\ Whole(s) \in Seq(PacketIds)
  BY <1>1, WholesJoin
<1> HIDE DEF p
<1>3. WholeTo(p)[0] = << >>
  BY <1>1, Wholes
<1>4. WholeTo(p)[1] = IF p[1].rest = 0 THEN Append(WholeTo(p)[0], p[1].id) ELSE WholeTo(p)[0]
  <2>1. 1 \in 1 .. Len(p) /\ 1 - 1 = 0
    BY <1>1
  <2>2. WholeTo(p)[1] = IF p[1].rest = 0 THEN Append(WholeTo(p)[1 - 1], p[1].id)
                        ELSE WholeTo(p)[1 - 1]
    BY <2>1, <1>1, Wholes
  <2> QED
    BY <2>1, <2>2
<1>5. Whole(p) = IF x.rest = 0 THEN Append(<< >>, x.id) ELSE << >>
  BY <1>1, <1>3, <1>4 DEF Whole
<1>6. Append(<< >>, x.id) = <<x.id>>
  OBVIOUS
<1>7. Whole(s) \o << >> = Whole(s) /\ Whole(s) \o <<x.id>> = Append(Whole(s), x.id)
  BY <1>1, <1>2, ConcatEmptySeq, AppendIsConcat
<1> QED
  BY <1>2, <1>5, <1>6, <1>7 DEF p

-----------------------------------------------------------------------------
(* The file implements AubTrace *)

LEMMA StatusStays ==
    ASSUME UNCHANGED <<isOpen, bad, fail, gap, severed, opening>>
    PROVE  Status' = Status
BY DEF Status, Good

(* What is equal under the mapping is a stutter of the trace. *)
LEMMA Stutters ==
    ASSUME Status' = Status, Count' = Count, tmp' = tmp, Recorded' = Recorded
    PROVE  [Trace!Next]_Trace!vars
<1>1. Whole(tmp)' = Whole(tmp) /\ Whole(disk \o buf)' = Whole(disk \o buf)
  BY DEF Recorded
<1> QED
  BY <1>1 DEF Trace!vars

(* The piece of a step, and the packets it completes *)
LEMMA StepCounts ==
    ASSUME PacketInv, ~Oversized, CallStep, issue' # NoIssue, need' \in Nat, serial \in Nat,
           serial' = IF issue'.header THEN serial + 1 ELSE serial,
           NEW s \in Seq(Pieces)
    PROVE  /\ <<Piece(issue', serial', need')>> \in Seq(Pieces)
           /\ IF need' = 0
              THEN /\ Count' = Count + 1
                   /\ Whole(s \o <<Piece(issue', serial', need')>>) = Append(Whole(s), Count')
              ELSE /\ Count' = Count
                   /\ Whole(s \o <<Piece(issue', serial', need')>>) = Whole(s)
<1> DEFINE x == Piece(issue', serial', need')
<1>1. \/ issue'.header = TRUE /\ issue'.bytes \in Nat /\ need = 0
      \/ /\ issue'.header = FALSE /\ issue'.bytes \in Nat
         /\ need' = need - issue'.bytes /\ need > 0
  BY StepIssues
<1>2. x.id = serial' /\ x.rest = need'
  BY DEF Piece
<1>3. x \in Pieces
  <2>1. issue'.header \in BOOLEAN /\ issue'.bytes \in Nat
    BY <1>1
  <2>2. serial' \in Nat /\ need' \in Int
    OBVIOUS
  <2> QED
    BY <2>1, <2>2 DEF Pieces, Piece
<1> HIDE DEF x
<1>4. IF need' = 0 THEN Count' = Count + 1 /\ Count' = serial' ELSE Count' = Count
  <2>1. Count' = IF need' > 0 THEN serial' - 1 ELSE serial'
    BY DEF Count
  <2>2. CASE issue'.header = TRUE /\ need = 0
    <3>1. serial' = serial + 1 /\ Count = serial
      BY <2>2 DEF Count
    <3> QED
      BY <2>1, <3>1
  <2>3. CASE issue'.header = FALSE /\ need > 0
    <3>1. serial' = serial /\ Count = serial - 1
      BY <2>3 DEF Count
    <3> QED
      BY <2>1, <3>1
  <2> QED
    BY <2>2, <2>3, <1>1
<1>5. Whole(s \o <<x>>) = IF x.rest = 0 THEN Append(Whole(s), x.id) ELSE Whole(s)
  BY <1>3, WholeGrows
<1>6. <<x>> \in Seq(Pieces)
  BY <1>3
<1> QED
  BY <1>2, <1>4, <1>5, <1>6 DEF x

(* A step of a call adds its packet to the trace, or breaks it, or loses it. *)
LEMMA StepIsTrace ==
    ASSUME PacketInv, PacketInv', StreamInv, ~severed, Step
    PROVE  [Trace!Next]_Trace!vars
<1> DEFINE x == Piece(issue', serial', need')
           p == <<x>>
<1>1. /\ CallStep /\ opening' = opening
      /\ serial' = IF issue'.header THEN serial + 1 ELSE serial
  BY DEF Step
<1>2. StreamTypes /\ ~Oversized /\ serial \in Nat
  BY DEF StreamInv, StreamTypes
<1>3. ~Oversized'
  BY <1>1, <1>2, OversizedStays
<1>4. (PacketInv /\ ~Oversized => need \in Nat /\ (BetweenPackets => need = 0 /\ pairs = << >>))'
  BY NeedIsFramed, PTL
<1>5. need' \in Nat
  BY <1>3, <1>4
<1>6. CASE issue' = NoIssue
  <2>1. UNCHANGED <<isOpen, bad, fail, tmp, buf, disk, gap, severed>> /\ need' = need
    <3>1. need' = need
      BY <1>1, <1>2, <1>6, StepIssues
    <3> QED
      BY <3>1, <1>6 DEF Step, streamVars, contentVars, damageVars
  <2>2. serial' = serial
    BY <1>1, <1>6 DEF NoIssue
  <2>3. Count' = Count /\ Status' = Status /\ Recorded' = Recorded
    BY <2>1, <2>2, <1>1, StatusStays DEF Count, Recorded
  <2> QED
    BY <2>1, <2>3, Stutters
<1>7. CASE issue' # NoIssue
  <2>1. Write(p, ~issue'.header)
    BY <1>7 DEF Step
  <2>2. ASSUME NEW s \in Seq(Pieces)
        PROVE  /\ p \in Seq(Pieces)
               /\ IF need' = 0 THEN Count' = Count + 1 /\ Whole(s \o p) = Append(Whole(s), Count')
                  ELSE Count' = Count /\ Whole(s \o p) = Whole(s)
    BY <1>1, <1>2, <1>5, <1>7, StepCounts
  <2> HIDE DEF p
  <2>3. disk \in Seq(Pieces) /\ buf \in Seq(Pieces) /\ tmp \in Seq(Pieces)
        /\ Recorded \in Seq(Pieces)
    BY <1>2, ConcatProperties DEF StreamTypes, Recorded
  <2>4. Count' = Count \/ Count' = Count + 1
    BY <2>2, <2>3
  <2>5. ASSUME gap, gap', ~severed', \/ tmp' = tmp
                                      \/ tmp' = tmp \o p
        PROVE  [Trace!Next]_Trace!vars
    <3>1. Status = "torn" /\ Status' = "torn"
      BY <2>5 DEF Status
    <3>2. Whole(tmp)' = Whole(tmp) \/ Whole(tmp)' = Append(Whole(tmp), Count')
      BY <2>2, <2>3, <2>5
    <3> QED
      BY <3>1, <3>2, <2>4 DEF Trace!Next, Trace!Tear
  <2>6. CASE WriteToTmp(p)
    <3>1. /\ ~isOpen /\ tmp' = tmp \o p
          /\ UNCHANGED <<isOpen, bad, fail, buf, disk, gap, severed>>
      BY <2>6 DEF WriteToTmp, streamVars, damageVars
    <3>2. Status' = Status /\ Status \in {"closed", "broken", "torn"}
      BY <3>1, <1>1, StatusStays DEF Status
    <3>3. Whole(disk \o buf)' = Whole(disk \o buf) /\ Whole(tmp)' = Whole(tmp \o p)
      BY <3>1
    <3>4. CASE gap
      BY <3>1, <3>4, <2>5
    <3>5. CASE ~gap /\ need' = 0
      <4>1. Status \in {"closed", "broken"}
        BY <3>1, <3>5 DEF Status
      <4> QED
        BY <4>1, <3>2, <3>3, <3>5, <2>2, <2>3 DEF Trace!Next, Trace!Record
    <3>6. CASE need' # 0
      BY <3>2, <3>3, <3>6, <2>2, <2>3 DEF Trace!vars
    <3> QED
      BY <3>4, <3>5, <3>6
  <2>7. ASSUME Recorded' = Recorded \o p, isOpen, Good, ~gap,
               UNCHANGED <<isOpen, bad, fail, gap, severed, tmp>>
        PROVE  [Trace!Next]_Trace!vars
    <3>1. Status' = Status /\ Status = "open"
      BY <2>7, <1>1, StatusStays DEF Status
    <3>2. /\ Whole(disk \o buf)' = Whole(Recorded \o p) /\ Whole(disk \o buf) = Whole(Recorded)
          /\ Whole(tmp)' = Whole(tmp)
      BY <2>7 DEF Recorded
    <3>3. CASE need' = 0
      BY <3>1, <3>2, <3>3, <2>2, <2>3 DEF Trace!Next, Trace!Record
    <3>4. CASE need' # 0
      BY <3>1, <3>2, <3>4, <2>2, <2>3 DEF Trace!vars
    <3> QED
      BY <3>3, <3>4
  <2>8. ASSUME Recorded' = Recorded, isOpen, Good, ~gap, ~gap',
               UNCHANGED <<isOpen, severed, tmp>>, bad' = TRUE
        PROVE  [Trace!Next]_Trace!vars
    <3>1. Status = "open" /\ Status' = "broken"
      BY <2>8 DEF Status, Good
    <3>2. Whole(disk \o buf)' = Whole(disk \o buf) /\ Whole(tmp)' = Whole(tmp)
      BY <2>8 DEF Recorded
    <3> QED
      BY <3>1, <3>2, <2>4 DEF Trace!Next, Trace!Fault
  <2>9. CASE WriteToFile(p)
    <3>1. isOpen /\ Good /\ Take(p) /\ UNCHANGED <<isOpen, bad, fail, tmp, gap, severed>>
      BY <2>9 DEF WriteToFile, streamVars, damageVars
    <3>2. Recorded' = Recorded \o p
      BY <3>1, <2>2, <2>3, <1>2, TakenBehind
    <3> QED
      BY <3>1, <3>2, <2>5, <2>7
  <2>10. CASE WriteToBadFile
    <3>1. isOpen /\ ~Good /\ UNCHANGED <<isOpen, bad, fail, tmp, buf, disk, gap, severed>>
      BY <2>10 DEF WriteToBadFile, streamVars, contentVars, damageVars
    <3>2. Status' = Status /\ Recorded' = Recorded /\ (~gap => Status = "broken")
      BY <3>1, <1>1, StatusStays DEF Status, Recorded
    <3>3. Whole(disk \o buf)' = Whole(disk \o buf) /\ Whole(tmp)' = Whole(tmp)
      BY <3>1
    <3>4. CASE gap
      BY <3>1, <3>4, <2>5
    <3>5. CASE Count' = Count
      BY <3>1, <3>2, <3>5, Stutters
    <3>6. CASE ~gap /\ Count' = Count + 1
      BY <3>2, <3>3, <3>6 DEF Trace!Next, Trace!Record
    <3> QED
      BY <3>4, <3>5, <3>6, <2>4
  <2>11. CASE WriteFails
    <3>1. /\ isOpen /\ Good /\ bad' = TRUE /\ HandOver
          /\ UNCHANGED <<isOpen, tmp, gap, severed>>
      BY <2>11 DEF WriteFails
    <3>2. Recorded' = Recorded
      BY <3>1, <1>2, HandedOver
    <3> QED
      BY <3>1, <3>2, <2>5, <2>8
  <2>12. CASE WriteRetried(p, ~issue'.header)
    <3>1. isOpen /\ Retry(p) /\ tmp' = tmp /\ (bad \/ Good)
      BY <2>12 DEF WriteRetried
    <3>2. /\ ~gap' => ~gap /\ ~bad
          /\ \/ /\ UNCHANGED <<isOpen, severed>> /\ bad' = FALSE /\ fail' = FALSE
                /\ ~gap' => Recorded' = Recorded \o p
             \/ /\ UNCHANGED <<isOpen, severed>> /\ bad' = TRUE
                /\ ~gap' => Recorded' = Recorded
             \/ isOpen' = FALSE /\ severed' = TRUE /\ bad' = FALSE
      BY <3>1, <2>2, <2>3, <1>2, Retried
    <3>3. Status \in {"open", "broken", "torn"}
      BY <3>1 DEF Status
    <3>4. CASE severed'
      <4>1. Status' = "lost"
        BY <3>4 DEF Status
      <4> QED
        BY <4>1, <3>3 DEF Trace!Next, Trace!Lose
    <3>5. CASE ~severed' /\ gap'
      <4>1. Status' = "torn" /\ Whole(tmp)' = Whole(tmp)
        BY <3>1, <3>5 DEF Status
      <4> QED
        BY <4>1, <3>3, <2>4 DEF Trace!Next, Trace!Tear
    <3>6. CASE ~severed' /\ ~gap'
      <4>1. ~gap /\ Good /\ ~bad /\ ~fail /\ UNCHANGED <<isOpen, severed>>
        BY <3>1, <3>2, <3>6 DEF Good
      <4>2. CASE bad' = TRUE
        BY <4>1, <4>2, <3>1, <3>2, <3>6, <2>8
      <4>3. CASE bad' = FALSE /\ fail' = FALSE /\ Recorded' = Recorded \o p
        <5>1. Status = "open" /\ Status' = "open"
          BY <4>1, <4>3, <3>1, <3>6 DEF Status, Good
        <5>2. /\ Whole(disk \o buf)' = Whole(Recorded \o p)
              /\ Whole(disk \o buf) = Whole(Recorded) /\ Whole(tmp)' = Whole(tmp)
          BY <4>3, <3>1 DEF Recorded
        <5>3. CASE need' = 0
          BY <5>1, <5>2, <5>3, <2>2, <2>3 DEF Trace!Next, Trace!Record
        <5>4. CASE need' # 0
          BY <5>1, <5>2, <5>4, <2>2, <2>3 DEF Trace!vars
        <5> QED
          BY <5>3, <5>4
      <4> QED
        BY <4>1, <4>2, <4>3, <3>2, <3>6
    <3> QED
      BY <3>4, <3>5, <3>6
  <2> QED
    BY <2>1, <2>6, <2>9, <2>10, <2>11, <2>12 DEF Write
<1> QED
  BY <1>6, <1>7

(* Nothing is promised once the recording is lost. *)
LEMMA LostStays ==
    ASSUME severed, [Next]_vars
    PROVE  Trace!Next
<1>1. severed' = TRUE \/ severed' = severed
  <2>1. CASE Next
    <3>1. ASSUME NEW p, NEW u, Write(p, u) PROVE severed' = TRUE \/ severed' = severed
      BY <3>1 DEF Write, WriteToTmp, WriteToFile, WriteToBadFile, WriteFails, WriteRetried,
        Retry, damageVars
    <3>2. CASE Step
      BY <3>1, <3>2 DEF Step, damageVars
    <3>3. CASE Call \/ Flush \/ Catch \/ Open \/ DeliverTmp \/ Close
      BY <3>3 DEF Call, fileVars, damageVars, Flush, Catch, Open, DeliverTmp, Retry, Close
    <3> QED
      BY <2>1, <3>2, <3>3 DEF Next
  <2>2. CASE UNCHANGED vars
    BY <2>2 DEF vars, fileVars, damageVars
  <2> QED
    BY <2>1, <2>2
<1>2. Status = "lost" /\ Status' = "lost"
  BY <1>1 DEF Status
<1> QED
  BY <1>2 DEF Trace!Next, Trace!Lose

LEMMA CallIsTrace ==
    ASSUME Fitting, PlanInv, PacketInv, StreamInv, Call
    PROVE  [Trace!Next]_Trace!vars
<1>1. UNCHANGED <<isOpen, bad, fail, gap, severed, opening, tmp, buf, disk, serial>>
  BY DEF Call, fileVars, streamVars, contentVars, damageVars
<1>2. need' = need
  <2>1. PICK call \in CallsOf[budget.name] :
          IF Refused(call) THEN Idle /\ UNCHANGED packetVars ELSE StartCall(call)
    BY DEF Call
  <2>2. CASE Refused(call)
    BY <2>1, <2>2 DEF packetVars, readerVars
  <2>3. CASE ~Refused(call)
    <3>1. StartsFit(call) /\ ~Oversized
      BY <2>1, AubFileAssumption DEF StartsFit, PlanInv, StreamInv
    <3> QED
      BY <2>1, <2>3, <3>1, StartIsFramed
  <2> QED
    BY <2>2, <2>3
<1>3. Status' = Status /\ Count' = Count /\ Recorded' = Recorded
  BY <1>1, <1>2, StatusStays DEF Count, Recorded
<1> QED
  BY <1>1, <1>3, Stutters

LEMMA FlushIsTrace ==
    ASSUME StreamInv, ~severed, Flush
    PROVE  [Trace!Next]_Trace!vars
<1>1. /\ UNCHANGED <<isOpen, fail, tmp, gap, severed, serial, opening>> /\ need' = need
      /\ \/ PassOn /\ bad' = bad
         \/ isOpen /\ bad' = TRUE /\ HandOver
  BY DEF Flush, Return, readerVars
<1>2. Count' = Count
  BY <1>1 DEF Count
<1>3. CASE PassOn /\ bad' = bad
  <2>1. Recorded' = Recorded
    BY <1>3, PassedOn DEF StreamInv
  <2>2. Status' = Status
    BY <1>1, <1>3, StatusStays
  <2> QED
    BY <1>1, <1>2, <2>1, <2>2, Stutters
<1>4. CASE isOpen /\ bad' = TRUE /\ HandOver
  <2>1. IF gap THEN Status = "torn" /\ Status' = "torn"
        ELSE Status \in {"open", "broken"} /\ Status' = "broken"
    BY <1>1, <1>4 DEF Status, Good
  <2>2. Whole(disk \o buf)' = Whole(disk \o buf) /\ Whole(tmp)' = Whole(tmp)
    BY <1>1, <1>4, HandedOver DEF StreamInv, Recorded
  <2> QED
    BY <1>2, <2>1, <2>2 DEF Trace!Next, Trace!Fault, Trace!Tear, Trace!vars
<1> QED
  BY <1>1, <1>3, <1>4

(* The packet an exception cuts short counts, and is in no file. *)
LEMMA CatchIsTrace ==
    ASSUME PacketInv, StreamInv, ~severed, Catch
    PROVE  [Trace!Next]_Trace!vars
<1>1. /\ thrown /\ opening' = FALSE
      /\ UNCHANGED <<isOpen, bad, fail, tmp, buf, disk, gap, severed, serial>>
      /\ IF Idle THEN UNCHANGED packetVars ELSE Unwind
  BY DEF Catch, streamVars, contentVars, damageVars
<1>2. bad /\ (~isOpen => need = 0) /\ need \in Nat /\ serial \in Nat /\ (Idle => need = 0)
  BY <1>1, NeedIsFramed DEF StreamInv, Errors, StreamTypes, Idle, BetweenPackets
<1>3. need' = 0
  BY <1>1, <1>2 DEF Unwind, packetVars, readerVars
<1>4. Count' = serial /\ Count = IF need > 0 THEN serial - 1 ELSE serial
  BY <1>1, <1>3 DEF Count
<1>5. Whole(disk \o buf)' = Whole(disk \o buf) /\ Whole(tmp)' = Whole(tmp)
  BY <1>1
<1>6. CASE isOpen /\ ~gap
  <2>1. Status = "broken" /\ Status' = "broken"
    BY <1>1, <1>2, <1>6 DEF Status, Good
  <2>2. Count' = Count \/ Count' = Count + 1
    BY <1>2, <1>4
  <2> QED
    BY <1>5, <2>1, <2>2 DEF Trace!Next, Trace!Record, Trace!vars
<1>7. CASE ~isOpen /\ ~gap
  <2>1. Status \notin {"torn", "lost"} /\ Status' = "closed"
    BY <1>1, <1>7 DEF Status
  <2>2. Count' = Count
    BY <1>2, <1>4, <1>7
  <2> QED
    BY <1>5, <2>1, <2>2 DEF Trace!Next, Trace!Close
<1>8. CASE gap
  <2>1. Status = "torn" /\ Status' = "torn"
    BY <1>1, <1>8 DEF Status
  <2>2. Count' = Count \/ Count' = Count + 1
    BY <1>2, <1>4
  <2> QED
    BY <1>5, <2>1, <2>2 DEF Trace!Next, Trace!Tear
<1> QED
  BY <1>6, <1>7, <1>8

LEMMA OpenIsTrace ==
    ASSUME Fitting, PacketInv, StreamInv, ~severed, Open
    PROVE  [Trace!Next]_Trace!vars
<1>1. Idle /\ ~opening /\ UNCHANGED <<tmp, severed, serial>>
  BY DEF Open
<1>2. ~Oversized /\ need = 0
  BY <1>1, NeedIsFramed DEF StreamInv, Idle, BetweenPackets
<1>3. need' = 0
  <2>1. StartCall(Version) \/ UNCHANGED packetVars
    BY DEF Open, OpenFile, OpenFails, Initialize
  <2>2. StartsFit(Version)
    BY DEF StartsFit
  <2> QED
    BY <2>1, <2>2, <1>2, StartIsFramed DEF packetVars, readerVars
<1>4. Count' = Count
  BY <1>1, <1>2, <1>3 DEF Count
<1>5. Whole(tmp)' = Whole(tmp)
  BY <1>1
<1>6. CASE OpenFile
  <2>1. /\ ~isOpen /\ isOpen' = TRUE /\ bad' = FALSE /\ fail' = FALSE
        /\ buf' = << >> /\ disk' = << >> /\ gap' = FALSE
    BY <1>6 DEF OpenFile
  <2>2. Status \in {"closed", "torn"} /\ Status' = "open"
    BY <2>1, <1>1 DEF Status, Good
  <2>3. Whole(disk \o buf)' = << >>
    <3>1. << >> \o << >> = << >>
      OBVIOUS
    <3>2. (disk \o buf)' = << >>
      BY <2>1, <3>1
    <3> QED
      BY <3>2, WholeOfNone
  <2> QED
    BY <1>4, <1>5, <2>2, <2>3 DEF Trace!Next, Trace!Open
<1>7. CASE OpenFails
  <2>1. /\ fail' = TRUE /\ UNCHANGED <<isOpen, bad, buf, disk, gap>>
        /\ opening' = opening \/ opening' = TRUE
    BY <1>7 DEF OpenFails, Initialize
  <2>2. IF gap THEN Status = "torn" /\ Status' = "torn"
        ELSE /\ Status \notin {"torn", "lost"}
             /\ Status' = "broken" \/ (Status = "closed" /\ Status' = "closed")
    BY <2>1, <1>1 DEF Status, Good
  <2>3. Whole(disk \o buf)' = Whole(disk \o buf)
    BY <2>1
  <2> QED
    BY <1>4, <1>5, <2>2, <2>3 DEF Trace!Next, Trace!Open, Trace!vars
<1> QED
  BY <1>6, <1>7 DEF Open

LEMMA DeliverIsTrace ==
    ASSUME StreamInv, ~severed, DeliverTmp
    PROVE  [Trace!Next]_Trace!vars
<1>1. /\ opening /\ opening' = FALSE /\ UNCHANGED packetVars
      /\ serial' = serial
  BY DEF DeliverTmp
<1>2. StreamTypes /\ Recorded \in Seq(Pieces) /\ tmp \in Seq(Pieces)
  BY ConcatProperties DEF StreamInv, StreamTypes, Recorded
<1>3. Count' = Count
  BY <1>1 DEF Count, packetVars, readerVars
<1>4. CASE /\ isOpen /\ Good /\ Take(tmp) /\ tmp' = ClearedTmp
           /\ UNCHANGED <<isOpen, bad, fail, gap, severed>>
  <2>1. Recorded' = Recorded \o tmp
    BY <1>2, <1>4, TakenBehind
  <2>2. Whole(Recorded \o tmp) = Whole(Recorded) \o Whole(tmp)
    BY <1>2, WholesJoin
  <2>3. Whole(disk \o buf)' = Whole(disk \o buf) \o Whole(tmp)
    BY <2>1, <2>2 DEF Recorded
  <2>4. Whole(tmp)' = << >>
    BY <1>4, WholeOfNone DEF ClearedTmp
  <2>5. IF gap THEN Status = "torn" /\ Status' = "torn"
        ELSE Status = "open" /\ Status' = "open"
    BY <1>1, <1>4 DEF Status, Good
  <2> QED
    BY <1>3, <2>3, <2>4, <2>5 DEF Trace!Next, Trace!Deliver, Trace!Tear
<1>5. CASE /\ ~ (isOpen /\ Good) /\ UNCHANGED <<isOpen, bad, fail, buf, disk, gap, severed>>
           /\ thrown' = (isOpen /\ tmp # << >> /\ bad /\ throwOnError)
           /\ tmp' = IF thrown' THEN tmp ELSE << >>
  <2>1. Whole(disk \o buf)' = Whole(disk \o buf)
    BY <1>5
  <2>2. IF gap THEN Status = "torn" /\ Status' = "torn"
        ELSE /\ Status = "broken" /\ Status' \in {"broken", "closed"}
             /\ isOpen => Status' = "broken"
    BY <1>1, <1>5 DEF Status, Good
  <2>3. CASE tmp' = tmp /\ isOpen
    <3>1. Whole(tmp)' = Whole(tmp)
      BY <2>3
    <3> QED
      BY <1>3, <2>1, <2>2, <2>3, <3>1 DEF Trace!vars
  <2>4. CASE tmp' = << >>
    <3>1. Whole(tmp)' = << >>
      BY <2>4, WholeOfNone
    <3> QED
      BY <1>3, <2>1, <2>2, <3>1 DEF Trace!Next, Trace!Deliver, Trace!Tear
  <2> QED
    BY <1>5, <2>3, <2>4
<1>6. CASE /\ isOpen /\ Good /\ bad' = TRUE /\ HandOver /\ UNCHANGED <<isOpen, gap, severed>>
           /\ tmp' = IF throwOnError THEN tmp ELSE << >>
  <2>1. IF gap THEN Status = "torn" /\ Status' = "torn"
        ELSE Status = "open" /\ Status' = "broken"
    BY <1>1, <1>6 DEF Status, Good
  <2>2. Whole(disk \o buf)' = Whole(disk \o buf)
    BY <1>2, <1>6, HandedOver DEF Recorded
  <2>3. Whole(tmp)' = Whole(tmp) \/ Whole(tmp)' = << >>
    BY <1>6, WholeOfNone
  <2> QED
    BY <1>3, <2>1, <2>2, <2>3 DEF Trace!Next, Trace!Fault, Trace!Tear
<1>7. CASE isOpen /\ bad /\ Retry(tmp) /\ tmp' = << >>
  <2>1. gap' /\ (severed' = severed \/ severed' = TRUE)
    BY <1>2, <1>7, Retried
  <2>2. Status \in {"broken", "torn"} /\ Status' \in {"torn", "lost"}
    BY <2>1, <1>7 DEF Status, Good
  <2>3. Whole(tmp)' = << >>
    BY <1>7, WholeOfNone
  <2> QED
    BY <1>3, <2>2, <2>3 DEF Trace!Next, Trace!Tear, Trace!Lose
<1> QED
  BY <1>4, <1>5, <1>6, <1>7 DEF DeliverTmp, streamVars, damageVars

LEMMA StartOfJoined ==
    ASSUME NEW s \in Seq(PacketIds), NEW t \in Seq(PacketIds)
    PROVE  /\ Len(s) \in 0 .. Len(s \o t)
           /\ s = SubSeq(s \o t, 1, Len(s))
<1> DEFINE u == s \o t
           v == SubSeq(u, 1, Len(s))
<1>1. /\ Len(s) \in Nat /\ Len(t) \in Nat /\ u \in Seq(PacketIds)
      /\ Len(u) = Len(s) + Len(t)
      /\ \A i \in 1 .. Len(s) + Len(t) : u[i] = IF i <= Len(s) THEN s[i] ELSE t[i - Len(s)]
  BY ConcatProperties
<1> HIDE DEF u
<1>2. /\ v \in Seq(PacketIds) /\ Len(v) = Len(s)
      /\ \A i \in 1 .. Len(s) : v[i] = u[i]
  BY <1>1
<1> HIDE DEF v
<1>3. \A i \in 1 .. Len(s) : s[i] = v[i]
  BY <1>1, <1>2
<1>4. s = v
  BY <1>2, <1>3, SeqEqual
<1> QED
  BY <1>1, <1>4 DEF u, v

LEMMA CloseIsTrace ==
    ASSUME StreamInv, ~severed, Close
    PROVE  [Trace!Next]_Trace!vars
<1>1. /\ ~opening /\ UNCHANGED packetVars /\ UNCHANGED <<bad, tmp, gap, severed, serial, opening>>
      /\ IF isOpen THEN isOpen' = FALSE /\ CloseStream
         ELSE fail' = TRUE /\ UNCHANGED <<isOpen, buf, disk>>
  BY DEF Close, damageVars
<1>2. Count' = Count
  BY <1>1 DEF Count, packetVars, readerVars
<1>3. Whole(tmp)' = Whole(tmp)
  BY <1>1
<1>4. CASE gap
  <2>1. Status = "torn" /\ Status' = "torn"
    BY <1>1, <1>4 DEF Status
  <2> QED
    BY <2>1, <1>2, <1>3 DEF Trace!Next, Trace!Tear
<1>5. CASE ~gap
  <2>1. Status \notin {"torn", "lost"} /\ Status' = "closed"
    BY <1>1, <1>5 DEF Status
  <2>2. CASE Recorded' = Recorded
    <3>1. Whole(disk \o buf)' = Whole(disk \o buf)
      BY <2>2 DEF Recorded
    <3> QED
      BY <3>1, <2>1, <1>2, <1>3 DEF Trace!Next, Trace!Close
  <2>3. CASE isOpen /\ ~Good /\ Recorded' = disk
    <3>1. disk \in Seq(Pieces) /\ buf \in Seq(Pieces)
      BY DEF StreamInv, StreamTypes
    <3>2. /\ Whole(disk \o buf) = Whole(disk) \o Whole(buf)
          /\ Whole(disk) \in Seq(PacketIds) /\ Whole(buf) \in Seq(PacketIds)
      BY <3>1, WholesJoin
    <3>3. /\ Len(Whole(disk)) \in 0 .. Len(Whole(disk) \o Whole(buf))
          /\ Whole(disk) = SubSeq(Whole(disk) \o Whole(buf), 1, Len(Whole(disk)))
      BY <3>2, StartOfJoined
    <3>4. Whole(disk \o buf)' = Whole(disk)
      BY <2>3 DEF Recorded
    <3>5. Status = "broken"
      BY <2>3, <1>5 DEF Status
    <3> QED
      BY <3>2, <3>3, <3>4, <3>5, <2>1, <1>2, <1>3 DEF Trace!Next, Trace!Close
  <2> QED
    <3>1. CASE isOpen
      BY <3>1, <2>2, <2>3, <1>1, ClosedStream DEF StreamInv
    <3>2. CASE ~isOpen
      BY <3>2, <2>2, <1>1 DEF Recorded
    <3> QED
      BY <3>1, <3>2
<1> QED
  BY <1>4, <1>5

(***************************************************************************)
(* The file is the trace of what was recorded: write(), its retry, open,    *)
(* init and close of AubFileStream implement AubTrace.  Apart from the      *)
(* scraps that failed writes leave, a file has whole packets in order,      *)
(* those from before the opening first, none written twice and none left    *)
(* out, up to the first error that is not repaired; and whatever a file has *)
(* suffered, the next one is a trace again.                                 *)
(***************************************************************************)
THEOREM FileImplementsTrace ==
    ASSUME Fitting
    PROVE  Spec => FileIsTrace
<1>1. Init => Trace!Init
  <2> SUFFICES ASSUME Init PROVE Trace!Init
    OBVIOUS
  <2>1. /\ isOpen = FALSE /\ gap = FALSE /\ severed = FALSE /\ opening = FALSE /\ tmp = << >> /\ buf = << >>
        /\ disk = << >> /\ serial = 0 /\ need = 0
    BY DEF Init, PacketInit
  <2>2. Status = "closed" /\ Count = 0
    BY <2>1 DEF Status, Count
  <2>3. disk \o buf = << >>
    BY <2>1
  <2>4. Whole(disk \o buf) = << >> /\ Whole(tmp) = << >>
    BY <2>1, <2>3, WholeOfNone
  <2> QED
    BY <2>2, <2>4 DEF Trace!Init
<1>2. ASSUME PacketInv, PacketInv', PlanInv, StreamInv, [Next]_vars
      PROVE  [Trace!Next]_Trace!vars
  <2>1. CASE severed
    BY <2>1, <1>2, LostStays
  <2>2. CASE ~severed /\ Next
    BY <2>2, <1>2, CallIsTrace, StepIsTrace, FlushIsTrace, CatchIsTrace, OpenIsTrace,
       DeliverIsTrace, CloseIsTrace DEF Next
  <2>3. CASE ~severed /\ UNCHANGED vars
    <3>1. /\ UNCHANGED <<isOpen, bad, fail, gap, severed, opening, tmp, buf, disk, serial>>
          /\ need' = need
      BY <2>3 DEF vars, fileVars, streamVars, contentVars, damageVars, packetVars, readerVars
    <3>2. Status' = Status /\ Count' = Count /\ Recorded' = Recorded
      BY <3>1, StatusStays DEF Count, Recorded
    <3> QED
      BY <3>1, <3>2, Stutters
  <2> QED
    BY <2>1, <2>2, <2>3, <1>2
<1>3. (PacketInv /\ PlanInv /\ StreamInv) /\ PacketInv' /\ [Next]_vars
        => [Trace!Next]_Trace!vars
  BY <1>2
<1> QED
  BY <1>1, <1>3, StreamInvariant, PTL DEF Spec, FileIsTrace, Trace!Spec
=============================================================================
