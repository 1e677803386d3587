----------------------------- MODULE TbxSockets -----------------------------
(***************************************************************************)
(* The connection to the simulator: tbx_sockets_imp.cpp, and the calls      *)
(* tbx_stream.cpp and tbx_shm_stream.cpp make of it.                        *)
(*                                                                          *)
(* Several threads share one socket.  A call takes a transaction number     *)
(* (transID++, in some calls before the mutex is taken), sends a header and *)
(* perhaps data, and waits for an answer if there is one.  transID is a     *)
(* plain uint32_t: an increment is a load and a store, and two of them may  *)
(* mix.                                                                     *)
(*                                                                          *)
(* The stream of bytes is cut into the buffers that sendWriteData and       *)
(* getResponseData are called with.  The simulator is external: it takes    *)
(* the buffers in order and answers every request that has an answer.  Its  *)
(* end of the connection may break at any time, and the manager may close   *)
(* this end (closeSocket), which takes no mutex.                            *)
(*                                                                          *)
(* In a debug build an error stops the program; this is the release build,  *)
(* which goes on in the error state.  Exceptions of stillConnected end the  *)
(* call and are not told apart from FALSE.                                  *)
(***************************************************************************)
EXTENDS Integers, Sequences

CONSTANTS
    Threads,
    Main,       \* the thread that makes the stream
    IdMod,      \* 2^32: transID is a uint32_t
    Frontdoor,  \* tbxFrontdoorMode
    Ops,        \* the stream's functions the threads call
    MaxOps,     \* bound: how many of them a thread calls
    None

ASSUME TbxSocketsAssumption ==
    /\ Main \in Threads
    /\ IdMod \in Nat \ {0} /\ MaxOps \in Nat
    /\ Frontdoor \in BOOLEAN
    /\ Ops \subseteq {"readPages", "writePages", "gttPages", "maskedMMIO", "readPCICFG",
                      "writePCICFG", "alive", "memoryPoll", "registerPoll", "shmRegisterPoll"}
    /\ None \notin Threads /\ None \notin Threads \X BOOLEAN
    /\ None \notin {"ok", "outOfSequence", "garbage"}

VARIABLES
    th,            \* the threads
    transID,       \* transID
    inErrorState,  \* inErrorState
    mutex,         \* who holds socket_mutex
    conn,          \* m_socket and the state of its connection
    toServer,      \* buffers on their way to the simulator
    fromServer,    \* buffers on their way from it
    sim            \* the simulator: the request whose data it waits for, whether a
                   \* buffer came out of turn, and a value that polls wait for

vars == <<th, transID, inErrorState, mutex, conn, toServer, fromServer, sim>>
wire == <<conn, toServer, fromServer, sim>>

-----------------------------------------------------------------------------
(***************************************************************************)
(* The calls of the socket: the type of the request, whether it returns at  *)
(* once in the error state, whether transID++ is under the mutex, and the   *)
(* number of buffers sent and received.                                     *)
(***************************************************************************)
Call(type, early, idInLock, sends, receives) ==
    [type |-> type, early |-> early, idInLock |-> idInLock, sends |-> sends,
     receives |-> receives]

(* mutant: the answer to the ping is not read *)
StillConnectedUnread == Call("marker", FALSE, TRUE, 1, 0)

StillConnected == Call("marker", FALSE, TRUE, 1, 1)
ControlRequest == Call("control", FALSE, TRUE, 1, 0)
ReadMMIO == Call("readMMIO", TRUE, TRUE, 1, 1)
WriteMMIO == Call("writeMMIO", FALSE, TRUE, 1, 0)
WritePCICFG == Call("writePCICFG", FALSE, TRUE, 1, 0)
ReadPCICFG == Call("readPCICFG", FALSE, FALSE, 1, 1)
ReadMemoryExt == Call("readMemory", FALSE, FALSE, 1, 2)
ReadMemory == IF Frontdoor THEN ReadMemoryExt ELSE Call("readMemory", FALSE, FALSE, 1, 2)
WriteMemoryExt == Call("writeMemory", FALSE, FALSE, 2, 0)
WriteMemory == IF Frontdoor THEN WriteMemoryExt ELSE Call("writeMemory", FALSE, FALSE, 2, 0)
WriteGTT == Call("writeGTT", FALSE, FALSE, 1, 0)

(* init after the connection stands: the control request, then checkServerConfig. *)
CheckServerConfig == IF Frontdoor THEN <<ReadPCICFG, ReadPCICFG>> ELSE << >>

(***************************************************************************)
(* What the stream's functions call, one after the other and whatever the   *)
(* calls return.  Functions over several pages have two.                    *)
(***************************************************************************)
ReadDiscontiguousPages == <<ReadMemory, ReadMemory>>
WriteDiscontiguousPages == <<WriteMemory, WriteMemory>>
WriteGttPages == <<WriteGTT>>
MaskedWriteMMIO == <<ReadMMIO, WriteMMIO>>
CheckSocketAlive == <<StillConnected>>

Program(op) ==
    CASE op = "init" -> <<ControlRequest>> \o CheckServerConfig
      [] op = "readPages" -> ReadDiscontiguousPages
      [] op = "writePages" -> WriteDiscontiguousPages
      [] op = "gttPages" -> WriteGttPages
      [] op = "maskedMMIO" -> MaskedWriteMMIO
      [] op = "readPCICFG" -> <<ReadPCICFG>>
      [] op = "writePCICFG" -> <<WritePCICFG>>
      [] op = "alive" -> CheckSocketAlive
      [] op = "memoryPoll" -> <<ReadMemory>>
      [] op \in {"registerPoll", "shmRegisterPoll"} -> <<ReadMMIO>>

(* mutant: a poll goes on after a read that failed, as TbxShmStream's does *)
PollAgainAnyway(op, ok, value) ==
    op \in {"memoryPoll", "registerPoll", "shmRegisterPoll"} /\ (~ok \/ value # "finished")

(* memoryPoll and registerPoll: again, until the value is there or the read fails. *)
PollAgain(op, ok, value) ==
    \/ op \in {"memoryPoll", "registerPoll"} /\ ok /\ value # "finished"
    \/ op = "shmRegisterPoll" /\ (~ok \/ value # "finished")

-----------------------------------------------------------------------------
(***************************************************************************)
(* A thread: where it is, what it does, the calls left to make, the number  *)
(* of its request, the buffers of it that are done, the value it read, the  *)
(* outcome of its last call.  flip tells its requests apart, got is the     *)
(* request whose answer it was given.                                       *)
(***************************************************************************)
Thread ==
    [pc |-> "idle", op |-> "none", left |-> << >>, id |-> 0, done |-> 0, value |-> None,
     last |-> None, flip |-> FALSE, got |-> None, ops |-> 0]

Init ==
    /\ th = [t \in Threads |-> IF t = Main THEN [Thread EXCEPT !.pc = "connect", !.op = "init"]
                               ELSE Thread]
    /\ transID = 0
    /\ inErrorState = FALSE
    /\ mutex = None
    /\ conn = "none"
    /\ toServer = << >> /\ fromServer = << >>
    /\ sim = [expects |-> None, confused |-> FALSE, value |-> "pending"]

At(t, here) == th[t].pc = here
CallOf(t) == Head(th[t].left)
Tag(t) == <<t, th[t].flip>>
Update(t, r) == th' = [th EXCEPT ![t] = r]

Start(t, op) ==
    [th[t] EXCEPT !.pc = "enter", !.op = op, !.left = Program(op), !.last = None,
                  !.got = None]

(***************************************************************************)
(* The end of a call, with the mutex free: the poll's next turn, the next   *)
(* call of the stream's function, or its end.  A read that fails leaves its *)
(* result uninitialized, or 0xdeadbeef: garbage to the caller.              *)
(***************************************************************************)
Returned(t, ok, value, last, got) ==
    LET r == [th[t] EXCEPT !.last = last, !.got = got, !.flip = ~@, !.done = 0,
                           !.value = CASE CallOf(t).receives = 0 -> None
                                       [] ok -> value
                                       [] OTHER -> "garbage"]
    IN  IF PollAgain(r.op, ok, value) THEN [r EXCEPT !.pc = "enter"]
        ELSE IF Len(r.left) > 1 THEN [r EXCEPT !.pc = "enter", !.left = Tail(@)]
        ELSE [r EXCEPT !.pc = "idle", !.op = "none", !.left = << >>, !.value = None, !.id = 0]

Unlock(t) == mutex' = IF mutex = t THEN None ELSE mutex

Fails(t, why) == Update(t, Returned(t, FALSE, None, why, None)) /\ Unlock(t)

Succeeds(t, value, got) == Update(t, Returned(t, TRUE, value, "ok", got)) /\ Unlock(t)

-----------------------------------------------------------------------------
(* init: socket() and connectToServer, which tries again for a minute. *)
SocketFails(t) ==
    /\ At(t, "connect")
    /\ inErrorState' = TRUE
    /\ Update(t, [th[t] EXCEPT !.pc = "idle", !.op = "none"])
    /\ UNCHANGED <<transID, mutex, wire>>

(***************************************************************************)
(* connectToServer returns TRUE after an error too, and init goes on.  When *)
(* the name of the host is not found nothing notes an error: the next call  *)
(* sends on a socket that is not connected.                                 *)
(***************************************************************************)
ConnectToServer(t) ==
    /\ At(t, "connect")
    /\ \/ conn' = "open" /\ UNCHANGED inErrorState
       \/ inErrorState' \in {inErrorState, TRUE} /\ UNCHANGED conn
    /\ Update(t, Start(t, "init"))
    /\ UNCHANGED <<transID, mutex, toServer, fromServer, sim>>

Ready == th[Main].op # "init"

Begin(t, op) ==
    /\ Ready /\ At(t, "idle") /\ th[t].ops < MaxOps
    /\ Update(t, [Start(t, op) EXCEPT !.ops = @ + 1])
    /\ UNCHANGED <<transID, inErrorState, mutex, wire>>

Fresh(t) == [th[t] EXCEPT !.id = 0, !.last = None, !.got = None]

(* The start of a call, up to the load of transID if that is before the mutex. *)
Enter(t) ==
    /\ At(t, "enter")
    /\ IF CallOf(t).early /\ inErrorState THEN Fails(t, "error")
       ELSE /\ Update(t, IF CallOf(t).idInLock THEN [Fresh(t) EXCEPT !.pc = "lock"]
                         ELSE [Fresh(t) EXCEPT !.pc = "store", !.id = transID])
            /\ UNCHANGED mutex
    /\ UNCHANGED <<transID, inErrorState, wire>>

(* mutant: the mutex keeps nobody out *)
LockIgnoringOthers(t) ==
    /\ At(t, "lock")
    /\ mutex' = t
    /\ Update(t, IF CallOf(t).idInLock THEN [th[t] EXCEPT !.pc = "store", !.id = transID]
                 ELSE [th[t] EXCEPT !.pc = "send"])
    /\ UNCHANGED <<transID, inErrorState, wire>>

Lock(t) ==
    /\ At(t, "lock")
    /\ mutex = None
    /\ mutex' = t
    /\ Update(t, IF CallOf(t).idInLock THEN [th[t] EXCEPT !.pc = "store", !.id = transID]
                 ELSE [th[t] EXCEPT !.pc = "send"])
    /\ UNCHANGED <<transID, inErrorState, wire>>

(* The other half of transID++. *)
StoreTransID(t) ==
    /\ At(t, "store")
    /\ transID' = (th[t].id + 1) % IdMod
    /\ Update(t, [th[t] EXCEPT !.pc = IF CallOf(t).idInLock THEN "send" ELSE "lock"])
    /\ UNCHANGED <<inErrorState, mutex, wire>>

Buffer(t) ==
    [kind |-> IF th[t].done = 0 THEN "header" ELSE "data", type |-> CallOf(t).type,
     id |-> th[t].id, tag |-> Tag(t),
     value |-> IF th[t].op = "maskedMMIO" THEN th[t].value ELSE None]

(* After a buffer was sent: the next one, the answer, or the end of the call. *)
Sent(t) ==
    IF th[t].done + 1 < CallOf(t).sends
    THEN Update(t, [th[t] EXCEPT !.done = @ + 1]) /\ UNCHANGED mutex
    ELSE IF CallOf(t).receives > 0
    THEN Update(t, [th[t] EXCEPT !.pc = "receive", !.done = 0]) /\ UNCHANGED mutex
    ELSE Succeeds(t, None, None)

(* mutant: the error state is not looked at *)
SendAnyway(t) ==
    /\ At(t, "send")
    /\ \/ /\ conn \in {"open", "broken"}
          /\ toServer' = Append(toServer, Buffer(t))
          /\ Sent(t)
          /\ UNCHANGED inErrorState
       \/ /\ conn # "open"
          /\ inErrorState' = TRUE
          /\ Fails(t, "error")
          /\ UNCHANGED toServer
    /\ UNCHANGED <<transID, conn, fromServer, sim>>

(***************************************************************************)
(* sendWriteData.  On a broken connection send() may still take a buffer;   *)
(* on a closed one it fails.                                                *)
(***************************************************************************)
SendWriteData(t) ==
    /\ At(t, "send")
    /\ \/ /\ ~inErrorState /\ conn \in {"open", "broken"}
          /\ toServer' = Append(toServer, Buffer(t))
          /\ Sent(t)
          /\ UNCHANGED inErrorState
       \/ /\ inErrorState \/ conn # "open"
          /\ inErrorState' = TRUE
          /\ Fails(t, "error")
          /\ UNCHANGED toServer
    /\ UNCHANGED <<transID, conn, fromServer, sim>>

(* The first buffer of an answer is checked, the second is data. *)
OutOfSequence(t, b) ==
    th[t].done = 0 /\ (b.kind # "header" \/ b.type # CallOf(t).type \/ b.id # th[t].id)

(* getResponseData, with what the call does about the answer. *)
GetResponseData(t) ==
    /\ At(t, "receive")
    /\ fromServer # << >>
    /\ LET b == Head(fromServer)
       IN  IF OutOfSequence(t, b) THEN Fails(t, "outOfSequence")
           ELSE IF th[t].done + 1 < CallOf(t).receives
           THEN Update(t, [th[t] EXCEPT !.done = @ + 1]) /\ UNCHANGED mutex
           ELSE Succeeds(t, b.value, b.tag)
    /\ fromServer' = Tail(fromServer)
    /\ UNCHANGED <<transID, inErrorState, conn, toServer, sim>>

ReceiveFails(t) ==
    /\ At(t, "receive")
    /\ inErrorState \/ (fromServer = << >> /\ conn # "open")
    /\ inErrorState' = TRUE
    /\ Fails(t, "error")
    /\ UNCHANGED <<transID, wire>>

(* closeSocket of the manager, at any time. *)
Close ==
    /\ Ready /\ conn \in {"open", "broken"}
    /\ conn' = "closed"
    /\ toServer' = << >> /\ fromServer' = << >>
    /\ UNCHANGED <<th, transID, inErrorState, mutex, sim>>

-----------------------------------------------------------------------------
(* The simulator. *)

Answers(b, value) ==
    LET a(kind) == [kind |-> kind, type |-> b.type, id |-> b.id, tag |-> b.tag, value |-> value]
    IN  CASE b.type \in {"marker", "readMMIO", "readPCICFG"} -> <<a("header")>>
          [] b.type = "readMemory" -> <<a("header"), a("data")>>
          [] OTHER -> << >>

SimulatorTakes ==
    /\ conn = "open" /\ toServer # << >>
    /\ LET b == Head(toServer)
           inTurn == IF sim.expects = None THEN b.kind = "header"
                     ELSE b.kind = "data" /\ b.tag = sim.expects
       IN  /\ sim' = [sim EXCEPT !.confused = @ \/ ~inTurn,
                                 !.expects = IF b.kind = "header" /\ b.type = "writeMemory"
                                             THEN b.tag ELSE None]
           /\ fromServer' = IF b.kind = "header" THEN fromServer \o Answers(b, sim.value)
                            ELSE fromServer
    /\ toServer' = Tail(toServer)
    /\ UNCHANGED <<th, transID, inErrorState, mutex, conn>>

(* The value that polls wait for is there. *)
SimulatorFinishes ==
    /\ conn = "open" /\ sim.value = "pending"
    /\ sim' = [sim EXCEPT !.value = "finished"]
    /\ UNCHANGED <<th, transID, inErrorState, mutex, conn, toServer, fromServer>>

ConnectionBreaks ==
    /\ conn = "open"
    /\ conn' = "broken"
    /\ UNCHANGED <<th, transID, inErrorState, mutex, toServer, fromServer, sim>>

-----------------------------------------------------------------------------
Continue(t) ==
    \/ SocketFails(t) \/ ConnectToServer(t)
    \/ Enter(t) \/ Lock(t) \/ StoreTransID(t)
    \/ SendWriteData(t) \/ GetResponseData(t) \/ ReceiveFails(t)

Next ==
    \/ \E t \in Threads : Continue(t) \/ \E op \in Ops : Begin(t, op)
    \/ Close
    \/ SimulatorTakes \/ SimulatorFinishes \/ ConnectionBreaks

Spec == Init /\ [][Next]_vars

(* Threads go on with their calls, and the simulator, while it is there, works. *)
FairSpec ==
    /\ Spec
    /\ \A t \in Threads : WF_vars(Continue(t))
    /\ WF_vars(SimulatorTakes) /\ WF_vars(SimulatorFinishes)

-----------------------------------------------------------------------------
(* Transaction numbers keep their width, and the mutex has one holder at most. *)
TypeOK ==
    /\ transID \in 0 .. IdMod - 1
    /\ \A t \in Threads :
          /\ th[t].id \in 0 .. IdMod - 1
          /\ th[t].pc \in {"connect", "idle", "enter", "lock", "store", "send", "receive"}
          /\ th[t].pc \in {"send", "receive"} => mutex = t
    /\ mutex \in Threads \cup {None}
    /\ conn \in {"none", "open", "broken", "closed"}

(***************************************************************************)
(* However the threads' calls mix, the simulator receives whole requests:   *)
(* a header where one is due, and after the header of a writeMemory the     *)
(* data of that writeMemory.  Buffers are sent with the mutex held.         *)
(***************************************************************************)
WellFramed == TypeOK /\ ~sim.confused

(***************************************************************************)
(* The message "Out of sequence read data packet?" and the assertions next  *)
(* to it are about the simulator alone: with one that answers in order, no  *)
(* mixing of calls leads there, although two requests may have one number;  *)
(* and a read that returns TRUE returned the answer to its own request.     *)
(***************************************************************************)
AnswersToAskers ==
    \A t \in Threads :
        /\ th[t].last # "outOfSequence"
        /\ (th[t].last = "ok" /\ th[t].got # None) => th[t].got = <<t, ~th[t].flip>>

(***************************************************************************)
(* A masked writeMMIO ignores whether its read failed and goes on with an   *)
(* uninitialized value: no such value is ever sent.                         *)
(***************************************************************************)
NoGarbageSent ==
    \A i \in 1 .. Len(toServer) : toServer[i].value # "garbage"

(***************************************************************************)
(* Every call comes back, polls of TbxStream included: with the value it    *)
(* waits for, or because the connection broke or was closed.  Nobody waits  *)
(* for the mutex, or for an answer that cannot come, for ever.              *)
(***************************************************************************)
AllCallsEnd == \A t \in Threads : ~At(t, "idle") ~> At(t, "idle")
=============================================================================
