----------------------------- MODULE AubPackets -----------------------------
(***************************************************************************)
(* How AubFileStream cuts its calls into packets: addComment,               *)
(* expectMemoryTable, reserveContiguousPages, writeContiguousPages, both    *)
(* writeDiscontiguousPages, and the calls that write one packet of fixed    *)
(* size.  Every action that writes is one call of write(); `issue' is what  *)
(* that call is given.                                                      *)
(*                                                                          *)
(* A reader of the file finds the end of a packet from the dwordCount of    *)
(* its header, a field of 16 bits, and the place of its data from the       *)
(* addresses in the header.  `need', `pairs' and `placed' are that reader's *)
(* view of the call in progress; the code has no such state.                *)
(***************************************************************************)
EXTENDS AubServices, Sequences

CONSTANTS
    MaxDword,       \* 65535: the most the field dwordCount holds
    Calls           \* the calls users make: their name and table

(***************************************************************************)
(* A call is a record of its name and table.                                *)
(*   FixedCalls  one packet for each entry: reserveContiguousPages has one  *)
(*               entry per page, all others have one                        *)
(*   "comment"   addComment, with one entry                                 *)
(*   "contig"    writeContiguousPages, with one entry                       *)
(*   "compare"   expectMemoryTable                                          *)
(*   "disc"      writeDiscontiguousPages of memory                          *)
(*   "ptes"      writeDiscontiguousPages of table entries (8 bytes each)    *)
(***************************************************************************)
FixedCalls == {"init", "writeMMIO", "registerPoll", "memoryPoll", "declareContextForDumping",
               "dumpBufferBIN", "dumpSurface", "reserveContiguousPages"}

Entries == [size : Nat, addr : Nat, local : BOOLEAN]

IsCall(call) ==
    /\ call.name \in {"comment", "contig", "compare", "disc", "ptes"} \cup FixedCalls
    /\ call.table \in Seq(Entries)
    /\ call.name \in {"comment", "contig"} => Len(call.table) = 1
    /\ call.name = "ptes" => \A i \in 1 .. Len(call.table) : call.table[i].size = 8

ASSUME AubPacketsAssumption ==
    /\ {MaxDword, MaxEntries} \subseteq Nat \ {0}
    /\ MaxDword >= SizeOf(CmdServicesMemTraceDumpCompress)
    /\ 2 + 5 * MaxEntries <= MaxDword
    /\ \A call \in Calls : IsCall(call)

VARIABLES
    op,         \* the call in progress
    phase,      \* where it is
    table,      \* writeInfoTable or entries: size, addr, local
    cur, dump,  \* itorCurrent, itorDumpStart
    index,      \* index
    dwords,     \* cmd.dwordCount
    slots,      \* cmd.Dword_2_To_190
    ptr,        \* ptr, and memory in expectMemoryTable (offsets into the caller's memory)
    ptrDump,    \* ptrDump
    left,       \* remainingSize; packets left to a call that writes fixed ones
    at,         \* currentPhysAddress
    from,       \* currentMemory, cursor
    space,      \* addressSpace of the chunks: local memory or not
    need,       \* bytes the reader expects before the packet ends
    pairs,      \* addresses the reader expects data for
    placed,     \* where the reader puts each byte of the caller's memory
    issue       \* what the last step gave to write()

loopVars == <<cur, dump, index, dwords, slots, ptr, ptrDump>>
chunkVars == <<left, at, from, space>>
readerVars == <<need, pairs, placed>>
packetVars == <<op, phase, table, loopVars, chunkVars, readerVars, issue>>

(* sizeof(cmd) - sizeof(data) of the packets with data *)
DiscHeader == CmdServicesMemTraceMemoryWriteDiscontiguous.base
WriteHeader == CmdServicesMemTraceMemoryWrite.base
CommentHeader == CmdServicesMemTraceComment.base

(* chunkBytes rounded up to whole dwords, and the zeros that fill it up *)
DwordsOf(bytes) == (bytes + 3) \div 4
PadOf(bytes) == 4 * DwordsOf(bytes) - bytes

Field16(n) == n % (MaxDword + 1)

NoIssue == [header |-> FALSE, bytes |-> 0, total |-> 0]
Header(struct, bytes, dwordCount) ==
    [header |-> TRUE, bytes |-> bytes,
     total |-> 4 * GetPacketSize([opcode |-> struct.opcode,
                                  subOpcode |-> struct.subOpcode,
                                  dwordCount |-> Field16(dwordCount)])]
Body(bytes) == [header |-> FALSE, bytes |-> bytes, total |-> 0]

Entry(i) == table[i]
Pair(e) == [addr |-> e.addr, size |-> e.size, local |-> e.local]

(* An entry that a discontiguous packet of this address space can hold. *)
FitsToken(e) ==
    /\ e.size % 4 = 0
    /\ e.addr % 4 = 0
    /\ e.local = table[1].local
    /\ DwordsOf(e.size) <= MaxDword - (DiscHeader - 1)

Idle == phase = "idle"

PacketInit ==
    /\ op = "none" /\ phase = "idle" /\ table = << >>
    /\ cur = 1 /\ dump = 1 /\ index = 0 /\ dwords = 0 /\ slots = << >>
    /\ ptr = 0 /\ ptrDump = 0
    /\ left = 0 /\ at = 0 /\ from = 0 /\ space = FALSE
    /\ need = 0 /\ pairs = << >> /\ placed = << >>
    /\ issue = NoIssue

-----------------------------------------------------------------------------
(* Calls *)

(* A table of one entry makes writeDiscontiguousPages writeContiguousPages. *)
StartCall(call) ==
    /\ Idle
    /\ LET name == IF call.name \in {"disc", "ptes"} /\ Len(call.table) = 1
                   THEN "contig" ELSE call.name
           one == call.table[1]
           chunked == name \in {"comment", "contig"}
       IN /\ op' = name
          /\ table' = call.table
          /\ phase' = IF chunked THEN "chunks" ELSE "loop"
          /\ left' = IF chunked THEN one.size ELSE 0
          /\ at' = IF chunked THEN one.addr ELSE 0
          /\ space' = (chunked /\ one.local)
    /\ from' = 0
    /\ cur' = 1 /\ dump' = 1 /\ index' = 0 /\ dwords' = 0 /\ slots' = << >>
    /\ ptr' = 0 /\ ptrDump' = 0
    /\ need' = 0 /\ pairs' = << >> /\ placed' = << >>
    /\ issue' = NoIssue

(* mutant: every length is written as those of the CmdServices packets *)
SameBias(name) == SizeOf(Layout[name]) - 1

(* DwordLength, or dwordCount, of a packet that is written whole *)
FixedDwordCount(name) ==
    IF name \in {"declareContextForDumping", "dumpBufferBIN"}
    THEN (SizeOf(Layout[name]) - 1) - 1
    ELSE SizeOf(Layout[name]) - 1

FixedPacket ==
    /\ phase = "loop" /\ op \in FixedCalls
    /\ IF cur <= Len(table)
       THEN LET h == Header(Layout[op], 4 * SizeOf(Layout[op]), FixedDwordCount(op))
            IN /\ issue' = h
               /\ need' = h.total - h.bytes
               /\ cur' = cur + 1
               /\ UNCHANGED phase
       ELSE /\ phase' = "return"
            /\ issue' = NoIssue
            /\ UNCHANGED <<cur, need>>
    /\ UNCHANGED <<op, table, dump, index, dwords, slots, ptr, ptrDump, chunkVars, pairs, placed>>

-----------------------------------------------------------------------------
(* Chunks: a header, the data, and zeros up to a whole dword *)

MaxChunk(name) ==
    CASE name = "comment" -> (MaxDword - 1) * 4
      [] name = "compare" -> left
      [] OTHER -> (MaxDword - WriteHeader) * 4

Least(a, b) == IF a <= b THEN a ELSE b

ChunkBytes == Least(left, MaxChunk(op))

(* The packet of a chunk: also of one inside writeDiscontiguousPages. *)
ChunkStruct(name) ==
    CASE name = "comment" -> CmdServicesMemTraceComment
      [] name = "compare" -> CmdServicesMemTraceMemoryCompare
      [] OTHER -> CmdServicesMemTraceMemoryWrite

(* cmd.dwordCount of a chunk *)
ChunkDwordCount(name, bytes) ==
    IF name = "comment" THEN DwordsOf(bytes) + (CommentHeader - 1)
    ELSE ChunkStruct(name).base + DwordsOf(bytes) - 1

WriteChunkHeader ==
    /\ phase = "chunks"
    /\ left > 0
    /\ LET h == Header(ChunkStruct(op), 4 * ChunkStruct(op).base,
                       ChunkDwordCount(op, ChunkBytes))
       IN /\ issue' = h
          /\ need' = h.total - h.bytes
    /\ pairs' = <<[addr |-> at, size |-> ChunkBytes, local |-> space]>>
    /\ phase' = "data"
    /\ UNCHANGED <<op, table, loopVars, chunkVars, placed>>

(* The bytes from start, behind those a reader has, go where a pair says. *)
Put(places, start, bytes, pair) ==
    [b \in DOMAIN places \cup start .. start + bytes - 1 |->
       IF b \in DOMAIN places THEN places[b]
       ELSE [addr |-> pair.addr + (b - start), local |-> pair.local]]

(* The reader puts the bytes where the first pair it waits for says. *)
PlaceData(start, bytes) ==
    /\ need' = need - bytes
    /\ pairs' = Tail(pairs)
    /\ placed' = IF op = "comment" THEN placed ELSE Put(placed, start, bytes, Head(pairs))

WriteChunkData ==
    /\ phase = "data"
    /\ issue' = Body(ChunkBytes)
    /\ PlaceData(from, ChunkBytes)
    /\ phase' = IF PadOf(ChunkBytes) > 0 THEN "pad" ELSE "next"
    /\ UNCHANGED <<op, table, loopVars, chunkVars>>

WriteChunkPad ==
    /\ phase = "pad"
    /\ issue' = Body(PadOf(ChunkBytes))
    /\ need' = need - PadOf(ChunkBytes)
    /\ phase' = "next"
    /\ UNCHANGED <<op, table, loopVars, chunkVars, pairs, placed>>

NextChunk ==
    /\ phase = "next"
    /\ left' = left - ChunkBytes
    /\ at' = at + ChunkBytes
    /\ from' = from + ChunkBytes
    /\ phase' = "chunks"
    /\ issue' = NoIssue
    /\ UNCHANGED <<op, table, space, loopVars, readerVars>>

(* writeContiguousPages ends with a flush even inside writeDiscontiguousPages. *)
ChunksDone ==
    /\ phase = "chunks"
    /\ left = 0
    /\ phase' = CASE op = "compare" -> "loop"
                  [] op = "disc" -> "inner"
                  [] OTHER -> "return"
    /\ issue' = NoIssue
    /\ UNCHANGED <<op, table, loopVars, chunkVars, readerVars>>

CompareEntry ==
    /\ phase = "loop" /\ op = "compare"
    /\ IF cur <= Len(table)
       THEN /\ left' = Entry(cur).size
            /\ at' = Entry(cur).addr
            /\ space' = Entry(cur).local
            /\ from' = ptr
            /\ ptr' = ptr + Entry(cur).size
            /\ cur' = cur + 1
            /\ phase' = "chunks"
       ELSE /\ phase' = "return"
            /\ UNCHANGED <<chunkVars, ptr, cur>>
    /\ issue' = NoIssue
    /\ UNCHANGED <<op, table, dump, index, dwords, slots, ptrDump, readerVars>>

-----------------------------------------------------------------------------
(* Tokens: packets of several addresses *)

InToken == op \in {"disc", "ptes"}

MayHold(e) == op = "ptes" \/ FitsToken(e)

(* mutant: room for the entry is looked for, room for its data is not *)
RoomForEntryOnly(e) == index < MaxEntries

RoomFor(e) == index < MaxEntries /\ DwordsOf(e.size) + dwords <= MaxDword

(* The token is written before an entry that cannot join it, and at the end. *)
MustFlush ==
    /\ index > 0
    /\ cur <= Len(table) => ~(MayHold(Entry(cur)) /\ RoomFor(Entry(cur)))

DwordsWith(e) == (IF dwords = 0 THEN DiscHeader - 1 ELSE dwords) + DwordsOf(e.size)

(* The entry goes into the token. *)
StoreEntry ==
    /\ phase = "loop" /\ InToken
    /\ cur <= Len(table)
    /\ MayHold(Entry(cur))
    /\ ~MustFlush
    /\ slots' = Append(SubSeq(slots, 1, index), Pair(Entry(cur)))
    /\ dwords' = DwordsWith(Entry(cur))
    /\ index' = index + 1
    /\ ptr' = ptr + Entry(cur).size
    /\ cur' = cur + 1
    /\ issue' = NoIssue
    /\ UNCHANGED <<op, phase, table, dump, ptrDump, chunkVars, readerVars>>

(* mutant: the data of the next token is taken from where the last one began *)
DumpFromOldPtr(e) == ptrDump

DumpBehind(e) == ptr + e.size

(* An entry no token can hold is written by itself. *)
WriteEntryAlone ==
    /\ phase = "loop" /\ InToken
    /\ cur <= Len(table)
    /\ ~MayHold(Entry(cur))
    /\ ~MustFlush
    /\ left' = Entry(cur).size
    /\ at' = Entry(cur).addr
    /\ space' = Entry(cur).local
    /\ from' = ptr
    /\ ptr' = ptr + Entry(cur).size
    /\ ptrDump' = DumpBehind(Entry(cur))
    /\ cur' = cur + 1
    /\ dump' = cur'
    /\ phase' = "chunks"
    /\ issue' = NoIssue
    /\ UNCHANGED <<op, table, index, dwords, slots, readerVars>>

(* flushDiscontiguousToken: the header ... *)
WriteTokenHeader ==
    /\ phase = "loop" /\ InToken
    /\ MustFlush
    /\ LET h == Header(CmdServicesMemTraceMemoryWriteDiscontiguous, 4 * DiscHeader, dwords)
       IN /\ issue' = h
          /\ need' = h.total - h.bytes
    /\ pairs' = SubSeq(slots, 1, index)
    /\ phase' = "drain"
    /\ UNCHANGED <<op, table, loopVars, chunkVars, placed>>

(* ... the data, entry by entry ... *)
WriteTokenData ==
    /\ phase = "drain"
    /\ dump < cur
    /\ issue' = Body(Entry(dump).size)
    /\ PlaceData(ptrDump, Entry(dump).size)
    /\ ptrDump' = ptrDump + Entry(dump).size
    /\ dump' = dump + 1
    /\ UNCHANGED <<op, phase, table, cur, index, dwords, slots, ptr, chunkVars>>

(* ... and the counters for the next token. *)
TokenWritten ==
    /\ phase = "drain"
    /\ dump = cur
    /\ index' = 0
    /\ dwords' = 0
    /\ phase' = "loop"
    /\ issue' = NoIssue
    /\ UNCHANGED <<op, table, cur, dump, slots, ptr, ptrDump, chunkVars, readerVars>>

TableDone ==
    /\ phase = "loop" /\ InToken
    /\ cur > Len(table)
    /\ ~MustFlush
    /\ phase' = "return"
    /\ issue' = NoIssue
    /\ UNCHANGED <<op, table, loopVars, chunkVars, readerVars>>

-----------------------------------------------------------------------------
(* The flush that ends every call, and the one inside writeDiscontiguousPages. *)
Return ==
    /\ phase \in {"inner", "return"}
    /\ phase' = IF phase = "inner" THEN "loop" ELSE "idle"
    /\ issue' = NoIssue
    /\ UNCHANGED <<op, table, loopVars, chunkVars, readerVars>>

(* An exception out of write() or flush() leaves the call. *)
Unwind ==
    /\ ~Idle
    /\ op' = "none"
    /\ phase' = "idle"
    /\ need' = 0
    /\ pairs' = << >>
    /\ issue' = NoIssue
    /\ UNCHANGED <<table, loopVars, chunkVars, placed>>

CallStep ==
    \/ FixedPacket
    \/ WriteChunkHeader \/ WriteChunkData \/ WriteChunkPad \/ NextChunk \/ ChunksDone
    \/ CompareEntry
    \/ StoreEntry \/ WriteEntryAlone
    \/ WriteTokenHeader \/ WriteTokenData \/ TokenWritten \/ TableDone

PacketNext ==
    \/ \E call \in Calls : StartCall(call)
    \/ CallStep
    \/ Return
    \/ Unwind

PacketSpec == PacketInit /\ [][PacketNext]_packetVars

-----------------------------------------------------------------------------
(* Properties *)

(***************************************************************************)
(* The types, and what writeDiscontiguousPages asserts: a token never has   *)
(* more entries than its table nor more dwords than its field, and begins   *)
(* where the last one, or the entries written by themselves, ended.         *)
(***************************************************************************)
TypeOK ==
    /\ op \in {"none", "comment", "contig", "compare", "disc", "ptes"} \cup FixedCalls
    /\ phase \in {"idle", "loop", "chunks", "data", "pad", "next", "drain", "inner", "return"}
    /\ {cur, dump} \subseteq 1 .. Len(table) + 1
    /\ {index, dwords, ptr, ptrDump, left, at, from} \subseteq Nat
    /\ space \in BOOLEAN
    /\ index <= MaxEntries /\ dwords <= MaxDword
    /\ phase = "loop" /\ InToken /\ dwords = 0 => dump = cur /\ ptrDump = ptr

(* A call of expectMemoryTable with an entry whose packet outgrows dwordCount. *)
Oversized ==
    op = "compare" /\ \E i \in 1 .. Len(table) :
                         ChunkDwordCount(op, table[i].size) > MaxDword

BetweenPackets == phase \in {"idle", "loop", "chunks", "next", "inner", "return"}

(***************************************************************************)
(* A packet is as long as its header says: the data and the padding that    *)
(* follow a header are the bytes its 16-bit dwordCount announces, for every *)
(* call but an expectMemoryTable with an entry that is too large.           *)
(***************************************************************************)
WellFramed ==
    ~Oversized =>
        /\ need >= 0
        /\ BetweenPackets => need = 0 /\ pairs = << >>

(* Where the entries of the table begin in the caller's memory. *)
StartOf(t) == LET s[i \in 1 .. Len(t) + 1] ==
                    IF i = 1 THEN 0 ELSE s[i - 1] + t[i - 1].size
              IN s

EntryOf(t, b) == CHOOSE j \in 1 .. Len(t) : StartOf(t)[j] <= b /\ b < StartOf(t)[j + 1]

(* The place of a byte of the caller's memory, and of all of it. *)
Place(t, b) ==
    LET i == EntryOf(t, b)
    IN [addr |-> t[i].addr + (b - StartOf(t)[i]), local |-> t[i].local]

Requested == [b \in 0 .. StartOf(table)[Len(table) + 1] - 1 |-> Place(table, b)]

(***************************************************************************)
(* Once the call returns, a reader has put every byte of the caller's       *)
(* memory at the address of its entry, in the right address space, however  *)
(* the entries were grouped, split and interleaved.                         *)
(***************************************************************************)
DataWhereRequested ==
    phase = "return" /\ op \in {"contig", "compare", "disc", "ptes"} /\ ~Oversized
        => placed = Requested
=============================================================================
