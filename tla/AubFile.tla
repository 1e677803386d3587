------------------------------ MODULE AubFile -------------------------------
(***************************************************************************)
(* AubFileStream and its file: open with init, close, and write() with its  *)
(* buffer for the time before open, the retry after EFAULT and the errors   *)
(* it only logs.  The calls that write are those of AubPackets.             *)
(*                                                                          *)
(* The file stream (std::ofstream) is external: it buffers what it is given *)
(* and passes it on when it likes, at a flush and at close; a failed write  *)
(* sets badbit, a failed open failbit, and with either set it writes        *)
(* nothing; a successful open clears both.  A write that fails may have     *)
(* reached the file in part, with what waited in the buffer before it or    *)
(* without, and the stream may pass the buffer on once more: "disk" is the  *)
(* file without these bytes, "scraps" tells where in it they are.           *)
(***************************************************************************)
EXTENDS AubPackets

CONSTANTS
    Faults,     \* what may fail
    Plans,      \* bounds on the calls; dumps tells if the gpu can dump
    CallsOf     \* the calls of a plan

ASSUME AubFileAssumption ==
    /\ Faults \subseteq {"open", "error", "EFAULT", "reopen"}
    /\ \A p \in Plans :
         /\ p \in [name : DOMAIN CallsOf, calls : Nat, opens : Nat, faults : Nat, dumps : BOOLEAN]
         /\ CallsOf[p.name] \subseteq Calls

VARIABLES
    isOpen,     \* fileHandle.isOpen()
    bad, fail,  \* badbit and failbit of fileHandle
    throwOnError, \* fileHandle.throwOnError, from the options
    tmp,        \* tmpWriteBuffer
    buf,        \* what the file stream has not passed on
    disk,       \* the file, apart from its scraps
    scraps,     \* where in it, behind how many pieces, failed writes have left bytes
    thrown,     \* write() or flush() threw
    gap,        \* the file goes on behind an error, with something left out
    severed,    \* the file could not be opened again in the middle of a packet
    opening,    \* inside init
    dumps,      \* dumpBinSupported, dumpSurfaceSupported
    serial,     \* packets begun
    budget      \* the plan: calls, opens and faults left

streamVars == <<isOpen, bad, fail>>
contentVars == <<tmp, buf, disk>>
damageVars == <<scraps, gap, severed>>
fileVars == <<streamVars, contentVars, damageVars, thrown, serial>>
vars == <<packetVars, fileVars, throwOnError, opening, dumps, budget>>

Good == ~bad /\ ~fail

(* The packet init writes. *)
Version == [name |-> "init", table |-> <<[size |-> 0, addr |-> 0, local |-> FALSE]>>]

Init ==
    /\ PacketInit
    /\ isOpen = FALSE /\ bad = FALSE /\ fail = FALSE
    /\ tmp = << >> /\ buf = << >> /\ disk = << >>
    /\ scraps = {} /\ gap = FALSE /\ severed = FALSE
    /\ thrown = FALSE
    /\ opening = FALSE
    /\ dumps = FALSE
    /\ serial = 0
    /\ throwOnError \in BOOLEAN
    /\ budget \in Plans

CanFail(kind) == kind \in Faults /\ budget.faults > 0
Spend(what) == budget' = [budget EXCEPT ![what] = @ - 1]

-----------------------------------------------------------------------------
(* write() *)

(* What the stream took from here on is behind what it has; it may pass it on. *)
Take(pieces) ==
    \/ buf' = buf \o pieces /\ UNCHANGED disk
    \/ buf' = << >> /\ disk' = disk \o buf \o pieces

(* With no file the bytes wait in tmpWriteBuffer. *)
WriteToTmp(pieces) ==
    /\ ~isOpen
    /\ tmp' = tmp \o pieces
    /\ UNCHANGED <<streamVars, buf, disk, damageVars, thrown, budget>>

WriteToFile(pieces) ==
    /\ isOpen /\ Good
    /\ Take(pieces)
    /\ UNCHANGED <<streamVars, tmp, damageVars, thrown, budget>>

(* A stream with an error takes nothing; only badbit is looked at, and errno. *)
WriteToBadFile ==
    /\ isOpen /\ ~Good
    /\ thrown' = (bad /\ throwOnError)
    /\ UNCHANGED <<streamVars, contentVars, damageVars, budget>>

(* After an error the stream still has its buffer, or not. *)
HandOver ==
    \/ UNCHANGED <<buf, disk>>
    \/ buf' = << >> /\ disk' = disk \o buf

(* What a failed write has left: bytes of the buffer or of what it was to write. *)
LeaveScraps == scraps' \in {scraps, scraps \cup {Len(disk)}, scraps \cup {Len(disk')}}

(* Any other error is logged, or thrown by the file handle. *)
WriteFails ==
    /\ isOpen /\ Good
    /\ \/ CanFail("error")
       \/ CanFail("EFAULT") /\ throwOnError
    /\ bad' = TRUE
    /\ thrown' = throwOnError
    /\ HandOver
    /\ LeaveScraps
    /\ Spend("faults")
    /\ UNCHANGED <<isOpen, fail, tmp, gap, severed>>

(* mutant: the file is opened again without std::ios::app *)
ReopenedEmpty == << >>

Reopened == disk \o buf

(* One more error on top of the one at hand. *)
Again == budget.faults > 1 /\ "error" \in Faults

(***************************************************************************)
(* badbit with EFAULT in errno: the error bits are cleared, the file is     *)
(* closed, opened to append, and a copy of the bytes is written, all of     *)
(* them, whatever the failed write has left.  Where the close does not get  *)
(* the buffer into the file nobody looks.  An open that fails goes          *)
(* unnoticed, because FileHandleWrapper::open looks at badbit.              *)
(***************************************************************************)
Retry(pieces) ==
    /\ ~throwOnError
    /\ CanFail("EFAULT")
    /\ Spend("faults")
    /\ \/ disk' = Reopened /\ gap' = (gap \/ bad)
       \/ Again /\ disk' = disk /\ gap' = (gap \/ bad \/ buf # << >>)
    /\ LeaveScraps
    /\ \/ /\ buf' = pieces
          /\ bad' = FALSE /\ fail' = FALSE
          /\ UNCHANGED <<isOpen, severed>>
       \/ /\ Again
          /\ buf' = << >>
          /\ bad' = TRUE /\ fail' = FALSE
          /\ UNCHANGED <<isOpen, severed>>
       \/ /\ "reopen" \in Faults
          /\ buf' = << >>
          /\ isOpen' = FALSE /\ bad' = FALSE /\ fail' = TRUE
          /\ severed' = TRUE

(***************************************************************************)
(* The file system cannot read the caller's memory; or a stream that took   *)
(* nothing, because of an earlier error, finds EFAULT in errno, from        *)
(* whatever set it: then the file goes on behind that error.                *)
(***************************************************************************)
WriteRetried(pieces, userMemory) ==
    /\ isOpen
    /\ bad \/ (userMemory /\ Good)
    /\ Retry(pieces)
    /\ UNCHANGED <<tmp, thrown>>

Write(pieces, userMemory) ==
    \/ WriteToTmp(pieces)
    \/ WriteToFile(pieces)
    \/ WriteToBadFile
    \/ WriteFails
    \/ WriteRetried(pieces, userMemory)

(* A piece of the file: its packet, its length, and how much is to follow. *)
Piece(i, id, rest) == [id |-> id, header |-> i.header, bytes |-> i.bytes, rest |-> rest]

(* A step of a call, with the write() it makes. *)
Step ==
    /\ ~thrown
    /\ CallStep
    /\ serial' = IF issue'.header THEN serial + 1 ELSE serial
    /\ IF issue' = NoIssue
       THEN UNCHANGED <<streamVars, contentVars, damageVars, thrown, budget>>
       ELSE Write(<<Piece(issue', serial', need')>>, ~issue'.header)
    /\ UNCHANGED <<opening, dumps>>

PassOn ==
    \/ buf' = << >> /\ disk' = disk \o buf
    \/ ~Good /\ UNCHANGED <<buf, disk>>

(* fileHandle.flush(), which may meet an error of its own *)
Flush ==
    /\ ~thrown
    /\ ~(phase = "return" /\ opening)
    /\ Return
    /\ \/ /\ PassOn
          /\ thrown' = (bad /\ throwOnError)
          /\ UNCHANGED <<bad, scraps, budget>>
       \/ /\ isOpen /\ CanFail("error")
          /\ buf # << >>
          /\ bad' = TRUE
          /\ thrown' = throwOnError
          /\ HandOver
          /\ LeaveScraps
          /\ Spend("faults")
    /\ UNCHANGED <<isOpen, fail, tmp, gap, severed, serial, opening, dumps>>

(* The exception leaves the call; the next one starts from its beginning. *)
Catch ==
    /\ thrown
    /\ IF Idle THEN UNCHANGED packetVars ELSE Unwind
    /\ thrown' = FALSE
    /\ opening' = FALSE
    /\ UNCHANGED <<streamVars, contentVars, damageVars, serial, dumps, budget>>

(* Calls that dump do nothing where the gpu has no dumps, and before init. *)
Refused(call) == call.name \in {"dumpBufferBIN", "dumpSurface"} /\ ~dumps

Call ==
    /\ ~thrown /\ ~opening
    /\ budget.calls > 0
    /\ \E call \in CallsOf[budget.name] :
         IF Refused(call) THEN Idle /\ UNCHANGED packetVars ELSE StartCall(call)
    /\ Spend("calls")
    /\ UNCHANGED <<fileVars, opening, dumps>>

-----------------------------------------------------------------------------
(* open and close *)

(***************************************************************************)
(* open empties the file; init follows and writes the header.  A file that  *)
(* is open already, or that cannot be opened, sets failbit and the assert   *)
(* of a debug build; with badbit left from an earlier write, open throws.   *)
(***************************************************************************)
Initialize ==
    /\ StartCall(Version)
    /\ opening' = TRUE
    /\ dumps' = budget.dumps

OpenFile ==
    /\ ~isOpen
    /\ isOpen' = TRUE /\ bad' = FALSE /\ fail' = FALSE
    /\ buf' = << >> /\ disk' = << >>
    /\ scraps' = {} /\ gap' = FALSE
    /\ Initialize
    /\ Spend("opens")
    /\ UNCHANGED thrown

OpenFails ==
    /\ IF isOpen THEN Spend("opens")
       ELSE /\ CanFail("open")
            /\ budget' = [budget EXCEPT !.opens = @ - 1, !.faults = @ - 1]
    /\ fail' = TRUE
    /\ thrown' = (bad /\ throwOnError)
    /\ IF thrown' THEN UNCHANGED <<packetVars, opening, dumps>> ELSE Initialize
    /\ UNCHANGED <<isOpen, bad, buf, disk, scraps, gap>>

Open ==
    /\ Idle /\ ~thrown /\ ~opening
    /\ budget.opens > 0
    /\ OpenFile \/ OpenFails
    /\ UNCHANGED <<tmp, severed, serial>>

(* mutant: init leaves what waited in the buffer *)
KeepTmp == tmp

ClearedTmp == << >>

(***************************************************************************)
(* The end of init: what waited is written behind the header.  If the file  *)
(* did not open, the buffer is appended to itself and cleared all the same. *)
(***************************************************************************)
DeliverTmp ==
    /\ ~thrown
    /\ opening /\ phase = "return"
    /\ opening' = FALSE
    /\ \/ /\ isOpen /\ Good
          /\ Take(tmp)
          /\ tmp' = ClearedTmp
          /\ UNCHANGED <<streamVars, damageVars, thrown, budget>>
       \/ /\ ~(isOpen /\ Good)
          /\ thrown' = (isOpen /\ tmp # << >> /\ bad /\ throwOnError)
          /\ tmp' = IF thrown' THEN tmp ELSE << >>
          /\ UNCHANGED <<streamVars, buf, disk, damageVars, budget>>
       \/ /\ isOpen /\ Good /\ tmp # << >>
          /\ CanFail("error")
          /\ bad' = TRUE
          /\ thrown' = throwOnError
          /\ tmp' = IF throwOnError THEN tmp ELSE << >>
          /\ HandOver
          /\ LeaveScraps
          /\ Spend("faults")
          /\ UNCHANGED <<isOpen, fail, gap, severed>>
       \/ /\ isOpen /\ bad /\ tmp # << >>
          /\ Retry(tmp)
          /\ tmp' = << >>
          /\ UNCHANGED thrown
    /\ UNCHANGED <<packetVars, serial, dumps>>

(* A stream with an error may lose its buffer when it is closed. *)
CloseStream ==
    /\ buf' = << >>
    /\ \/ disk' = disk \o buf
       \/ ~Good /\ UNCHANGED disk

(* Closing flushes; closing what is not open sets failbit. *)
Close ==
    /\ Idle /\ ~thrown /\ ~opening
    /\ IF isOpen
       THEN isOpen' = FALSE /\ CloseStream /\ UNCHANGED fail
       ELSE fail' = TRUE /\ UNCHANGED <<isOpen, buf, disk>>
    /\ thrown' = (bad /\ throwOnError)
    /\ UNCHANGED <<packetVars, bad, tmp, damageVars, serial, opening, dumps, budget>>

Next ==
    /\ Call \/ Step \/ Flush \/ Catch \/ Open \/ DeliverTmp \/ Close
    /\ UNCHANGED throwOnError

Spec == Init /\ [][Next]_vars

-----------------------------------------------------------------------------
(* Properties *)

(* The packets whose last byte is among the first n pieces, and among all. *)
WholeTo(pieces) ==
    LET ids[n \in 0 .. Len(pieces)] ==
          IF n = 0 THEN << >>
          ELSE IF pieces[n].rest = 0 THEN Append(ids[n - 1], pieces[n].id) ELSE ids[n - 1]
    IN ids

Whole(pieces) == WholeTo(pieces)[Len(pieces)]

(* The piece at i is where a reader expects it who goes by the headers. *)
Follows(pieces, i) ==
    LET before == IF i = 1 THEN 0 ELSE pieces[i - 1].rest
    IN IF pieces[i].header THEN before = 0
       ELSE /\ before = pieces[i].rest + pieces[i].bytes
            /\ pieces[i - 1].id = pieces[i].id

(***************************************************************************)
(* A reader that goes by the lengths in the headers finds a header where it *)
(* expects one, and every other piece right behind what it belongs to: in   *)
(* the file at any time, and in what waits for a file, whatever failed in   *)
(* the files before.  In a file where a write failed that is so up to its   *)
(* first scrap, and behind it for a reader who knows to skip the scraps:    *)
(* what the retry repeats it repeats whole, but it takes nothing back.      *)
(* Nothing is said of a file that goes on behind an error with something    *)
(* left out, nor any more if the retry could not open the file again: the   *)
(* rest of the packet then waits for the next one.                          *)
(* And a call that returned without an error has left nothing in the        *)
(* buffers of the stream: the process may end without loss.                 *)
(***************************************************************************)
ReadsAsWritten ==
    /\ Idle /\ ~opening /\ Good => buf = << >>
    /\ ~severed => \A i \in DOMAIN tmp : Follows(tmp, i)
    /\ ~severed /\ ~gap => \A i \in DOMAIN (disk \o buf) : Follows(disk \o buf, i)

(* The file as AubTrace sees it, and the packets that were recorded. *)
Status ==
    IF severed THEN "lost"
    ELSE IF gap THEN "torn"
    ELSE IF isOpen THEN IF Good THEN "open" ELSE "broken"
    ELSE IF opening THEN "broken" ELSE "closed"

Count == IF need > 0 THEN serial - 1 ELSE serial

Trace == INSTANCE AubTrace WITH
    state <- Status, count <- Count, held <- Whole(tmp), file <- Whole(disk \o buf)

(***************************************************************************)
(* The file, apart from its scraps, is the trace that was recorded: whole   *)
(* packets in order, those from before the opening first, none written      *)
(* twice and none left out, up to the first error that is not repaired      *)
(* (write, init, open and close of AubFileStream implement AubTrace).       *)
(***************************************************************************)
FileIsTrace == Trace!Spec
=============================================================================
