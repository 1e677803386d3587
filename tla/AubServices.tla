---------------------------- MODULE AubServices -----------------------------
(***************************************************************************)
(* The packets AubFileStream writes: what their structs say of the header   *)
(* (opcode and subOpcode), of the length, and of where the data begins.     *)
(* Lengths are in dwords; the structs are packed to 4 bytes.                *)
(***************************************************************************)
EXTENDS Integers

CONSTANT MaxEntries     \* 63: the length of Dword_2_To_190

(* A CmdServicesMemTrace struct: `base' dwords before its data, `data' of it. *)
MemTrace(subOpcode, base, data) ==
    [opcode |-> 46, subOpcode |-> subOpcode, lengthBias |-> 1, base |-> base, data |-> data]

(* A struct with an AubCmdHdr alone, whose DwordLength leaves out one dword more. *)
AubCmd(subOp, base, data) ==
    [opcode |-> 1, subOpcode |-> subOp, lengthBias |-> 2, base |-> base, data |-> data]

(* header, memtraceFileVersion, flags, deviceAbbreviation[8]; commandLine[4] *)
CmdServicesMemTraceVersion == MemTrace(14, 5, 1)

(* header, registerOffset, flags, mask low and high; data[1] *)
CmdServicesMemTraceRegisterPoll == MemTrace(2, 5, 1)
CmdServicesMemTraceRegisterWrite == MemTrace(3, 5, 1)

(* header, address, addressHigh, flags, dataSizeInBytes; data[1] *)
CmdServicesMemTraceMemoryCompare == MemTrace(4, 5, 1)

(* header, address, addressHigh, flags, mask low and high; data[1] *)
CmdServicesMemTraceMemoryPoll == MemTrace(5, 6, 1)

(* header, address of 64 bits, flags, dataSizeInBytes; data[1] *)
CmdServicesMemTraceMemoryWrite == MemTrace(6, 5, 1)

(* header, flags, pairs of an address of 64 bits and a size; data[1] *)
CmdServicesMemTraceMemoryWriteDiscontiguous == MemTrace(11, 2 + 3 * MaxEntries, 1)

(* header, flags; comment[4] *)
CmdServicesMemTraceComment == MemTrace(8, 2, 1)

(* header, address and regionSize of 64 bits *)
CmdServicesMemTraceMemoryContinuousRegion == MemTrace(13, 5, 0)

(* header, three addresses of 64 bits and eighteen dwords *)
CmdServicesMemTraceDumpCompress == MemTrace(16, 25, 0)

(* header, Handle, flags, four page directories of 64 bits *)
AubPpgttContextCreate == AubCmd(20, 11, 0)

(* header, four numbers of 64 bits, four dwords; OutputFile[4] *)
AubCaptureBinaryDumpHD == AubCmd(21, 13, 1)

(* The struct each call of AubFileStream fills in. *)
Layout ==
    [init                     |-> CmdServicesMemTraceVersion,
     writeMMIO                |-> CmdServicesMemTraceRegisterWrite,
     registerPoll             |-> CmdServicesMemTraceRegisterPoll,
     memoryPoll               |-> CmdServicesMemTraceMemoryPoll,
     declareContextForDumping |-> AubPpgttContextCreate,
     dumpBufferBIN            |-> AubCaptureBinaryDumpHD,
     dumpSurface              |-> CmdServicesMemTraceDumpCompress,
     reserveContiguousPages   |-> CmdServicesMemTraceMemoryContinuousRegion,
     addComment               |-> CmdServicesMemTraceComment,
     writeContiguousPages     |-> CmdServicesMemTraceMemoryWrite,
     expectMemoryTable        |-> CmdServicesMemTraceMemoryCompare,
     writeDiscontiguousPages  |-> CmdServicesMemTraceMemoryWriteDiscontiguous]

Structs == {Layout[call] : call \in DOMAIN Layout}

(* sizeof(struct) in dwords *)
SizeOf(struct) == struct.base + struct.data

(* matchesHeader of a struct, and the struct a header is read with *)
MatchesHeader(struct, header) ==
    struct.opcode = header.opcode /\ struct.subOpcode = header.subOpcode

StructOf(header) == CHOOSE struct \in Structs : MatchesHeader(struct, header)

(* getPacketSize: dwordCount + 1, and DwordLength + 2 of an AubCmdHdr *)
GetPacketSize(header) == header.dwordCount + StructOf(header).lengthBias
=============================================================================
