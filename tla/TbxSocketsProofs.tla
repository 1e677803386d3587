-------------------------- MODULE TbxSocketsProofs --------------------------
(***************************************************************************)
(* Proofs about the connection to the simulator, for any number of threads,  *)
(* any sequence of calls and any width of the transaction number: the        *)
(* simulator receives whole requests, every read is given the answer to its  *)
(* own request, and a value that a failed read left uninitialized is not     *)
(* sent.                                                                     *)
(***************************************************************************)
EXTENDS TbxSockets, SequenceTheorems, TLAPS

-----------------------------------------------------------------------------
(* The types of the state. *)

Tags == Threads \X BOOLEAN

AnsweredTypes == {"marker", "readMMIO", "readPCICFG", "readMemory"}

(* The data of a request follow the header of a writeMemory and of nothing  *)
(* else, and the answers a call waits for are those the simulator gives.    *)
CallType ==
    {c \in [type : AnsweredTypes \cup {"control", "writeMMIO", "writePCICFG", "writeMemory",
                                       "writeGTT"},
            early : BOOLEAN, idInLock : BOOLEAN, sends : {1, 2}, receives : {0, 1, 2}] :
        /\ c.sends = 2 <=> c.type = "writeMemory"
        /\ c.receives = IF c.type = "readMemory" THEN 2
                        ELSE IF c.type \in AnsweredTypes THEN 1 ELSE 0}

ThreadType ==
    [pc : {"connect", "idle", "enter", "lock", "store", "send", "receive"}, op : Ops \cup {"none", "init"},
     left : Seq(CallType), id : 0 .. IdMod - 1, done : {0, 1},
     value : {None, "pending", "finished", "garbage"},
     last : {None, "ok", "error", "outOfSequence"}, flip : BOOLEAN, got : Tags \cup {None},
     ops : Nat]

BufferType ==
    [kind : {"header", "data"},
     type : AnsweredTypes \cup {"control", "writeMMIO", "writePCICFG", "writeMemory",
                                "writeGTT"},
     id : 0 .. IdMod - 1, tag : Tags, value : {None, "pending", "finished", "garbage"}]

AnswerType == {b \in BufferType : b.value \in {"pending", "finished"}}

Typed ==
    /\ th \in [Threads -> ThreadType]
    /\ transID \in 0 .. IdMod - 1
    /\ inErrorState \in BOOLEAN
    /\ mutex \in Threads \cup {None}
    /\ conn \in {"none", "open", "broken", "closed"}
    /\ toServer \in Seq(BufferType)
    /\ fromServer \in Seq(AnswerType)
    /\ sim \in [expects : Tags \cup {None}, confused : BOOLEAN, value : {"pending", "finished"}]

(***************************************************************************)
(* Where a thread can be: with a call to make, as far as the call goes,     *)
(* and with the mutex from Lock to the end of the call.                     *)
(***************************************************************************)
InPlace(t) ==
    /\ At(t, "connect") => t = Main /\ th[t].op = "init" /\ conn = "none"
    /\ th[t].pc \notin {"connect", "idle"} => th[t].left # << >>
    /\ th[t].pc \notin {"send", "receive"} => th[t].done = 0
    /\ At(t, "send") => th[t].done < CallOf(t).sends
    /\ At(t, "receive") => th[t].done < CallOf(t).receives
    /\ At(t, "send") \/ At(t, "receive") \/ (At(t, "store") /\ CallOf(t).idInLock)
          => mutex = t

ThreadsInv == Typed /\ \A t \in Threads : InPlace(t)

-----------------------------------------------------------------------------
(* The buffer that must come after b, and whether b may come when exp is due. *)
After(b) == IF b.kind = "header" /\ b.type = "writeMemory" THEN b.tag ELSE None

InTurn(exp, b) == IF exp = None THEN b.kind = "header" ELSE b.kind = "data" /\ b.tag = exp

(* The request whose data is due when the simulator has taken all of toServer. *)
Due == IF toServer = << >> THEN sim.expects ELSE After(toServer[Len(toServer)])

(***************************************************************************)
(* Every buffer on its way is in turn, and as long as buffers can be sent,  *)
(* data is due exactly when a thread is between the header and the data.    *)
(***************************************************************************)
FramingInv ==
    /\ ~sim.confused
    /\ \A i \in 1 .. Len(toServer) :
          InTurn(IF i = 1 THEN sim.expects ELSE After(toServer[i - 1]), toServer[i])
    /\ ~inErrorState /\ conn # "closed" =>
          /\ \A t \in Threads : At(t, "send") /\ th[t].done = 1 => Due = Tag(t)
          /\ (\A t \in Threads : ~(At(t, "send") /\ th[t].done = 1)) => Due = None

-----------------------------------------------------------------------------
Asks(b) == b.kind = "header" /\ b.type \in AnsweredTypes

IsRequestOf(b, t) ==
    b.kind = "header" /\ b.type = CallOf(t).type /\ b.id = th[t].id /\ b.tag = Tag(t)

(* The request of t is the last buffer on its way to the simulator. *)
Asking(t) ==
    /\ th[t].done = 0
    /\ fromServer = << >>
    /\ toServer # << >>
    /\ IsRequestOf(toServer[Len(toServer)], t)
    /\ \A i \in 1 .. Len(toServer) - 1 : ~Asks(toServer[i])

(* What t has not received of the answer is on its way, and nothing else is. *)
Answered(t) ==
    /\ \A i \in 1 .. Len(toServer) : ~Asks(toServer[i])
    /\ Len(fromServer) = CallOf(t).receives - th[t].done
    /\ \A i \in 1 .. Len(fromServer) : fromServer[i].tag = Tag(t)
    /\ th[t].done = 0 => IsRequestOf(fromServer[1], t)

(***************************************************************************)
(* Only the thread that waits for an answer has a request or an answer on   *)
(* the wire, and nobody waits once there was an error.                      *)
(***************************************************************************)
AnswersInv ==
    /\ \A t \in Threads : At(t, "receive") => ~inErrorState /\ conn # "none"
    /\ ~inErrorState /\ conn # "closed" =>
          /\ \A t \in Threads : At(t, "receive") => Asking(t) \/ Answered(t)
          /\ (\A t \in Threads : ~At(t, "receive")) =>
                fromServer = << >> /\ \A i \in 1 .. Len(toServer) : ~Asks(toServer[i])
    /\ conn = "closed" => fromServer = << >>
    /\ AnswersToAskers

(* A thread has a value that no read gave it only after an error. *)
GarbageInv ==
    /\ \A t \in Threads : th[t].value = "garbage" => inErrorState
    /\ NoGarbageSent

Inv == ThreadsInv /\ FramingInv /\ AnswersInv /\ GarbageInv

-----------------------------------------------------------------------------
(* The calls of tbx_sockets_imp.cpp are of the type above, and every function *)
(* of the stream makes at least one of them.                                  *)
LEMMA ProgramType ==
    ASSUME NEW op \in Ops \cup {"init"}
    PROVE  Program(op) \in Seq(CallType) /\ Program(op) # << >>
<1> USE DEF Call, StillConnected, ControlRequest, ReadMMIO, WriteMMIO, WritePCICFG, ReadPCICFG,
        ReadMemoryExt, ReadMemory, WriteMemoryExt, WriteMemory, WriteGTT, CallType, AnsweredTypes
<1>1. /\ StillConnected \in CallType /\ ControlRequest \in CallType
      /\ ReadMMIO \in CallType /\ WriteMMIO \in CallType
      /\ WritePCICFG \in CallType /\ ReadPCICFG \in CallType
      /\ ReadMemory \in CallType /\ WriteMemory \in CallType /\ WriteGTT \in CallType
  OBVIOUS
<1>2. \A c, d \in CallType :
        /\ <<c>> \in Seq(CallType) /\ <<c>> # << >>
        /\ <<c, d>> \in Seq(CallType) /\ <<c, d>> # << >>
        /\ <<c>> \o << >> \in Seq(CallType) /\ <<c>> \o << >> # << >>
        /\ <<c>> \o <<d, d>> \in Seq(CallType) /\ <<c>> \o <<d, d>> # << >>
  <2> HIDE DEF CallType
  <2> QED  OBVIOUS
<1> HIDE DEF Call, StillConnected, ControlRequest, ReadMMIO, WriteMMIO, WritePCICFG, ReadPCICFG,
        ReadMemoryExt, ReadMemory, WriteMemoryExt, WriteMemory, WriteGTT, CallType
<1>3. CASE op = "init"
  BY <1>1, <1>2, <1>3 DEF Program, CheckServerConfig
<1>4. CASE op \in Ops /\ op # "init"
  BY <1>1, <1>2, <1>4, TbxSocketsAssumption
     DEF Program, ReadDiscontiguousPages, WriteDiscontiguousPages, WriteGttPages,
         MaskedWriteMMIO, CheckSocketAlive
<1> QED  BY <1>3, <1>4

(* One thread moves, the others stay where they are. *)
LEMMA OneMoves ==
    ASSUME Typed, NEW t \in Threads, NEW r, Update(t, r)
    PROVE  /\ th'[t] = r
           /\ \A u \in Threads : u # t => th'[u] = th[u]
           /\ r \in ThreadType => th' \in [Threads -> ThreadType]
BY DEF Typed, Update

(* The call a thread makes is one of the calls. *)
LEMMA CallOfType ==
    ASSUME Typed, NEW t \in Threads, th[t].left # << >>
    PROVE  CallOf(t) \in CallType /\ Len(th[t].left) \in Nat \ {0}
<1>1. th[t].left \in Seq(CallType)
  BY DEF Typed, ThreadType
<1> QED  BY <1>1, HeadTailProperties, EmptySeq DEF CallOf

(* Where the end of a call leaves the thread. *)
LEMMA ReturnedFacts ==
    ASSUME Typed, NEW t \in Threads, th[t].left # << >>,
           NEW ok \in BOOLEAN, NEW value \in {None, "pending", "finished"},
           NEW last \in {None, "ok", "error", "outOfSequence"}, NEW got \in Tags \cup {None},
           NEW r, r = Returned(t, ok, value, last, got)
    PROVE  /\ r \in ThreadType
           /\ r.pc \in {"enter", "idle"}
           /\ r.pc = "enter" => r.left # << >>
           /\ r.done = 0 /\ r.last = last /\ r.got = got /\ r.flip = ~th[t].flip
           /\ r.value = "garbage" => ~ok
<1> DEFINE v == CASE CallOf(t).receives = 0 -> None
                  [] ok -> value
                  [] OTHER -> "garbage"
           f == ~th[t].flip
           tl == Tail(th[t].left)
           q == [th[t] EXCEPT !.last = last, !.got = got, !.flip = f, !.done = 0, !.value = v]
<1>1. th[t] \in ThreadType /\ th[t].left \in Seq(CallType)
  BY DEF Typed, ThreadType
<1>2. tl \in Seq(CallType) /\ Len(tl) = Len(th[t].left) - 1
  BY <1>1, HeadTailProperties
<1>3. << >> \in Seq(CallType) /\ Len(th[t].left) \in Nat /\ Len(<< >>) = 0
  BY <1>1, EmptySeq, LenProperties
<1>4. v \in {None, "pending", "finished", "garbage"} /\ (v = "garbage" => ~ok)
  BY TbxSocketsAssumption
<1>f. f \in BOOLEAN
  OBVIOUS
<1> HIDE DEF v, f, tl
<1>5. q \in ThreadType
  BY <1>1, <1>4, <1>f DEF ThreadType
<1>6. /\ q.done = 0 /\ q.last = last /\ q.got = got /\ q.flip = f /\ q.value = v
      /\ q.left = th[t].left
  BY <1>1 DEF ThreadType
<1>7. r = IF PollAgain(q.op, ok, value) THEN [q EXCEPT !.pc = "enter"]
          ELSE IF Len(q.left) > 1 THEN [q EXCEPT !.pc = "enter", !.left = Tail(@)]
          ELSE [q EXCEPT !.pc = "idle", !.op = "none", !.left = << >>, !.value = None, !.id = 0]
  BY DEF Returned, v, f
<1> HIDE DEF q
<1> SUFFICES /\ r \in ThreadType
             /\ r.pc \in {"enter", "idle"}
             /\ r.pc = "enter" => r.left # << >>
             /\ r.done = 0 /\ r.last = last /\ r.got = got /\ r.flip = f
             /\ r.value = "garbage" => ~ok
  BY DEF f
<1>8. CASE r = [q EXCEPT !.pc = "enter"]
  BY <1>4, <1>5, <1>6, <1>8 DEF ThreadType
<1>9. CASE Len(q.left) > 1 /\ r = [q EXCEPT !.pc = "enter", !.left = Tail(@)]
  <2>1. tl # << >>
    BY <1>2, <1>3, <1>6, <1>9
  <2>2. r = [q EXCEPT !.pc = "enter", !.left = tl]
    BY <1>6, <1>9 DEF tl
  <2> QED  BY ZenonT(30), <2>1, <2>2, <1>2, <1>4, <1>5, <1>6 DEF ThreadType
<1>10. CASE r = [q EXCEPT !.pc = "idle", !.op = "none", !.left = << >>, !.value = None, !.id = 0]
  <2>1. 0 \in 0 .. IdMod - 1 /\ None # "garbage"
    BY TbxSocketsAssumption
  <2>2. r \in ThreadType
    BY <2>1, <1>3, <1>5, <1>10 DEF ThreadType
  <2>3. r.pc = "idle" /\ r.value = None
    BY <1>5, <1>10 DEF ThreadType
  <2>4. r.done = q.done /\ r.last = q.last /\ r.got = q.got /\ r.flip = q.flip
    BY <1>5, <1>10 DEF ThreadType
  <2> QED  BY <2>1, <2>2, <2>3, <2>4, <1>6
<1> QED  BY <1>7, <1>8, <1>9, <1>10

(* Where the start of a function of the stream leaves the thread. *)
LEMMA StartFacts ==
    ASSUME Typed, NEW t \in Threads, NEW op \in Ops \cup {"init"},
           NEW r, r = Start(t, op)
    PROVE  /\ r \in ThreadType
           /\ r.pc = "enter" /\ r.left # << >> /\ r.last = None /\ r.got = None
           /\ r.done = th[t].done /\ r.flip = th[t].flip /\ r.value = th[t].value
           /\ r.ops = th[t].ops
<1> DEFINE p == Program(op)
<1>1. p \in Seq(CallType) /\ p # << >>
  BY ProgramType
<1>2. r = [th[t] EXCEPT !.pc = "enter", !.op = op, !.left = p, !.last = None, !.got = None]
  BY DEF Start
<1> HIDE DEF p
<1>3. th[t] \in ThreadType
  BY DEF Typed
<1>4. r \in ThreadType
  BY <1>1, <1>2, <1>3 DEF ThreadType
<1>5. /\ r.pc = "enter" /\ r.left = p /\ r.last = None /\ r.got = None
      /\ r.done = th[t].done /\ r.value = th[t].value /\ r.ops = th[t].ops
  BY <1>2, <1>3 DEF ThreadType
<1>6. r.flip = th[t].flip
  BY <1>2, <1>3 DEF ThreadType
<1> QED  BY <1>1, <1>4, <1>5, <1>6

(* A thread that moves takes the mutex from nobody, and the others stay in place. *)
LEMMA OthersInPlace ==
    ASSUME ThreadsInv, NEW t \in Threads,
           \A u \in Threads : u # t => th'[u] = th[u],
           mutex' # mutex => mutex \in {t, None},
           conn' = conn \/ At(t, "connect"),
           InPlace(t)'
    PROVE  \A u \in Threads : InPlace(u)'
<1> SUFFICES ASSUME NEW u \in Threads, u # t PROVE InPlace(u)'
  OBVIOUS
<1>1. th'[u] = th[u] /\ CallOf(u)' = CallOf(u) /\ u # None
  BY TbxSocketsAssumption DEF CallOf
<1> QED  BY <1>1 DEF ThreadsInv, InPlace, At

(* What the end of a call does to the state. *)
LEMMA EndOfCall ==
    ASSUME ThreadsInv, NEW t \in Threads, th[t].left # << >>,
           NEW ok \in BOOLEAN, NEW value \in {None, "pending", "finished"},
           NEW last \in {None, "ok", "error", "outOfSequence"}, NEW got \in Tags \cup {None},
           Update(t, Returned(t, ok, value, last, got)), Unlock(t), conn' = conn
    PROVE  /\ th' \in [Threads -> ThreadType]
           /\ mutex' \in Threads \cup {None}
           /\ \A u \in Threads : InPlace(u)'
           /\ \A u \in Threads : u # t => th'[u] = th[u]
           /\ th'[t].pc \in {"enter", "idle"}
           /\ th'[t].last = last /\ th'[t].got = got /\ th'[t].flip = ~th[t].flip
           /\ th'[t].value = "garbage" => ~ok
<1> DEFINE r == Returned(t, ok, value, last, got)
<1>1. Typed
  BY DEF ThreadsInv
<1>2. /\ r \in ThreadType
      /\ r.pc \in {"enter", "idle"}
      /\ r.pc = "enter" => r.left # << >>
      /\ r.done = 0 /\ r.last = last /\ r.got = got /\ r.flip = ~th[t].flip
      /\ r.value = "garbage" => ~ok
  BY <1>1, ReturnedFacts
<1> HIDE DEF r
<1>3. th'[t] = r /\ (\A u \in Threads : u # t => th'[u] = th[u]) /\ th' \in [Threads -> ThreadType]
  BY <1>1, <1>2, OneMoves DEF r
<1>4. mutex' \in Threads \cup {None} /\ (mutex' # mutex => mutex \in {t, None})
  BY <1>1 DEF Unlock, Typed
<1>5. InPlace(t)'
  BY <1>2, <1>3 DEF InPlace, At
<1>6. \A u \in Threads : InPlace(u)'
  BY <1>3, <1>4, <1>5, OthersInPlace
<1> QED  BY <1>2, <1>3, <1>4, <1>6

-----------------------------------------------------------------------------
(* What is sent is a buffer. *)
LEMMA BufferFacts ==
    ASSUME ThreadsInv, NEW t \in Threads, At(t, "send")
    PROVE  /\ Buffer(t) \in BufferType
           /\ Buffer(t).kind = IF th[t].done = 0 THEN "header" ELSE "data"
           /\ Buffer(t).type = CallOf(t).type /\ Buffer(t).id = th[t].id
           /\ Buffer(t).tag = Tag(t)
           /\ Buffer(t).value = "garbage" => th[t].value = "garbage"
<1>1. th[t].left # << >>
  BY DEF ThreadsInv, InPlace, At
<1>2. CallOf(t) \in CallType
  BY <1>1, CallOfType DEF ThreadsInv
<1>3. Tag(t) \in Tags
  BY DEF Tag, Tags, ThreadsInv, Typed, ThreadType
<1>4. th[t].id \in 0 .. IdMod - 1 /\ th[t].value \in {None, "pending", "finished", "garbage"}
  BY DEF ThreadsInv, Typed, ThreadType
<1>5. CallOf(t).type \in AnsweredTypes \cup {"control", "writeMMIO", "writePCICFG",
                                             "writeMemory", "writeGTT"}
  BY <1>2 DEF CallType
<1> QED  BY <1>3, <1>4, <1>5, TbxSocketsAssumption DEF Buffer, BufferType

(* A thread that goes on to its next buffer, or to its answer, keeps the mutex. *)
LEMMA GoesOn ==
    ASSUME ThreadsInv, NEW t \in Threads, NEW pc \in {"send", "receive"}, NEW d \in {0, 1},
           At(t, "send") \/ At(t, "receive"),
           pc = "send" => d < CallOf(t).sends,
           pc = "receive" => d < CallOf(t).receives,
           Update(t, [th[t] EXCEPT !.pc = pc, !.done = d]), UNCHANGED <<mutex, conn>>
    PROVE  /\ th' \in [Threads -> ThreadType]
           /\ \A u \in Threads : InPlace(u)'
           /\ \A u \in Threads : u # t => th'[u] = th[u]
           /\ th'[t] = [th[t] EXCEPT !.pc = pc, !.done = d]
           /\ th'[t].pc = pc /\ th'[t].done = d /\ th'[t].left = th[t].left
           /\ th'[t].id = th[t].id /\ th'[t].flip = th[t].flip /\ th'[t].last = th[t].last
           /\ th'[t].got = th[t].got /\ th'[t].value = th[t].value
<1> DEFINE r == [th[t] EXCEPT !.pc = pc, !.done = d]
<1>1. Typed /\ InPlace(t) /\ th[t] \in ThreadType
  BY DEF ThreadsInv, Typed
<1>2. r \in ThreadType
  BY <1>1 DEF ThreadType
<1>3. /\ r.pc = pc /\ r.done = d /\ r.left = th[t].left /\ r.id = th[t].id
      /\ r.last = th[t].last /\ r.got = th[t].got /\ r.value = th[t].value
  BY <1>1 DEF ThreadType
<1>4. r.flip = th[t].flip
  BY <1>1 DEF ThreadType
<1>5. /\ th'[t] = r /\ th' \in [Threads -> ThreadType]
      /\ \A u \in Threads : u # t => th'[u] = th[u]
  BY <1>1, <1>2, OneMoves
<1> HIDE DEF r
<1>6. InPlace(t)'
  BY <1>1, <1>3, <1>5 DEF InPlace, At, CallOf
<1>7. \A u \in Threads : InPlace(u)'
  BY <1>5, <1>6, OthersInPlace
<1> QED  BY <1>3, <1>4, <1>5, <1>7 DEF r

(***************************************************************************)
(* sendWriteData adds the thread's buffer and the thread goes on to its     *)
(* data, to its answer or to the end of the call; or it fails and leaves    *)
(* the connection in the error state.                                       *)
(***************************************************************************)
SendsOn(t) ==
    /\ ~inErrorState /\ conn \in {"open", "broken"} /\ inErrorState' = inErrorState
    /\ toServer' = Append(toServer, Buffer(t))
    /\ \/ /\ CallOf(t).type = "writeMemory" /\ th[t].done = 0
          /\ th'[t].pc = "send" /\ th'[t].done = 1
          /\ th'[t].last = th[t].last /\ th'[t].got = th[t].got
          /\ th'[t].flip = th[t].flip /\ th'[t].value = th[t].value
       \/ /\ CallOf(t).type \in AnsweredTypes /\ th[t].done = 0
          /\ th'[t].pc = "receive" /\ th'[t].done = 0
          /\ th'[t].left = th[t].left /\ th'[t].id = th[t].id
          /\ th'[t].last = th[t].last /\ th'[t].got = th[t].got
          /\ th'[t].flip = th[t].flip /\ th'[t].value = th[t].value
       \/ /\ CallOf(t).type \notin AnsweredTypes
          /\ CallOf(t).type = "writeMemory" => th[t].done = 1
          /\ th'[t].pc \in {"enter", "idle"} /\ th'[t].got = None /\ th'[t].last = "ok"
          /\ th'[t].value # "garbage"

SendFails(t) ==
    /\ inErrorState'
    /\ toServer' = toServer
    /\ th'[t].pc \in {"enter", "idle"}
    /\ th'[t].got = None /\ th'[t].last = "error"

(* sendWriteData does one of the two, and disturbs no other thread. *)
LEMMA SendFacts ==
    ASSUME ThreadsInv, NEW t \in Threads, SendWriteData(t)
    PROVE  /\ th' \in [Threads -> ThreadType]
           /\ mutex' \in Threads \cup {None}
           /\ inErrorState' \in BOOLEAN
           /\ \A u \in Threads : InPlace(u)'
           /\ \A u \in Threads : u # t => th'[u] = th[u]
           /\ At(t, "send") /\ UNCHANGED <<transID, conn, fromServer, sim>>
           /\ SendsOn(t) \/ SendFails(t)
<1>1. /\ Typed /\ InPlace(t) /\ th[t] \in ThreadType
      /\ At(t, "send") /\ conn' = conn /\ UNCHANGED <<transID, conn, fromServer, sim>>
  BY DEF ThreadsInv, Typed, SendWriteData
<1>2. th[t].left # << >> /\ th[t].done < CallOf(t).sends /\ th[t].done \in {0, 1}
  BY <1>1 DEF InPlace, At, ThreadType
<1>3. CallOf(t) \in CallType
  BY <1>1, <1>2, CallOfType
<1>4. /\ CallOf(t).sends \in {1, 2} /\ CallOf(t).receives \in {0, 1, 2}
      /\ CallOf(t).sends = 2 <=> CallOf(t).type = "writeMemory"
      /\ CallOf(t).receives = 0 <=> CallOf(t).type \notin AnsweredTypes
      /\ CallOf(t).sends = 2 => CallOf(t).receives = 0
  BY <1>3 DEF CallType, AnsweredTypes
<1>5. CASE /\ ~inErrorState /\ conn \in {"open", "broken"}
           /\ toServer' = Append(toServer, Buffer(t)) /\ Sent(t)
           /\ UNCHANGED inErrorState
  <2>1. inErrorState' \in BOOLEAN
    BY <1>1, <1>5 DEF Typed
  <2>2. CASE th[t].done + 1 < CallOf(t).sends
    <3>1. th[t].done = 0 /\ CallOf(t).sends = 2
      BY <1>2, <1>4, <2>2
    <3>2. Update(t, [th[t] EXCEPT !.pc = "send", !.done = 1]) /\ UNCHANGED mutex
      <4>1. Update(t, [th[t] EXCEPT !.done = @ + 1]) /\ UNCHANGED mutex
        BY <1>5, <2>2 DEF Sent
      <4>2. [th[t] EXCEPT !.done = @ + 1] = [th[t] EXCEPT !.done = 1]
        BY <1>1, <3>1 DEF ThreadType
      <4>3. [th[t] EXCEPT !.pc = "send", !.done = 1] = [th[t] EXCEPT !.done = 1]
        BY <1>1 DEF At, ThreadType
      <4> QED  BY <4>1, <4>2, <4>3
    <3>3. /\ th' \in [Threads -> ThreadType]
          /\ \A u \in Threads : InPlace(u)'
          /\ \A u \in Threads : u # t => th'[u] = th[u]
          /\ th'[t].pc = "send" /\ th'[t].done = 1 /\ th'[t].flip = th[t].flip
          /\ th'[t].last = th[t].last
          /\ th'[t].got = th[t].got /\ th'[t].value = th[t].value
      <4>1. 1 < CallOf(t).sends /\ UNCHANGED <<mutex, conn>>
        BY <1>1, <3>1, <3>2
      <4> QED  BY <1>1, <4>1, <3>2, GoesOn
    <3>4. CallOf(t).type = "writeMemory"
      BY <1>4, <3>1
    <3>5. SendsOn(t)
      BY <1>5, <3>1, <3>3, <3>4 DEF SendsOn
    <3> QED  BY <1>1, <2>1, <3>2, <3>3, <3>5 DEF Typed
  <2>3. CASE ~(th[t].done + 1 < CallOf(t).sends) /\ CallOf(t).receives > 0
    <3>1. th[t].done = 0
      BY <1>2, <1>4, <2>3
    <3>2. Update(t, [th[t] EXCEPT !.pc = "receive", !.done = 0]) /\ UNCHANGED mutex
      BY <1>5, <2>3 DEF Sent
    <3>3. /\ th' \in [Threads -> ThreadType]
          /\ \A u \in Threads : InPlace(u)'
          /\ \A u \in Threads : u # t => th'[u] = th[u]
          /\ th'[t].pc = "receive" /\ th'[t].done = 0 /\ th'[t].left = th[t].left
          /\ th'[t].id = th[t].id /\ th'[t].flip = th[t].flip /\ th'[t].last = th[t].last
          /\ th'[t].got = th[t].got /\ th'[t].value = th[t].value
      BY <1>1, <2>3, <3>2, GoesOn
    <3>4. CallOf(t).type \in AnsweredTypes
      BY <1>4, <2>3
    <3>5. SendsOn(t)
      BY <1>5, <3>1, <3>3, <3>4 DEF SendsOn
    <3> QED  BY <1>1, <2>1, <3>2, <3>3, <3>5 DEF Typed
  <2>4. CASE ~(th[t].done + 1 < CallOf(t).sends) /\ ~(CallOf(t).receives > 0)
    <3>1. Update(t, Returned(t, TRUE, None, "ok", None)) /\ Unlock(t)
      BY <1>5, <2>4 DEF Sent, Succeeds
    <3>2. /\ th' \in [Threads -> ThreadType]
          /\ mutex' \in Threads \cup {None}
          /\ \A u \in Threads : InPlace(u)'
          /\ \A u \in Threads : u # t => th'[u] = th[u]
          /\ th'[t].pc \in {"enter", "idle"}
          /\ th'[t].last = "ok" /\ th'[t].got = None /\ th'[t].value # "garbage"
      BY <1>1, <1>2, <3>1, EndOfCall
    <3>3. CallOf(t).type \notin AnsweredTypes /\ (CallOf(t).type = "writeMemory" => th[t].done = 1)
      BY <1>2, <1>4, <2>4
    <3>4. SendsOn(t)
      BY <1>5, <3>2, <3>3 DEF SendsOn
    <3> QED  BY <1>1, <2>1, <3>2, <3>4
  <2> QED  BY <2>2, <2>3, <2>4
<1>6. CASE inErrorState' = TRUE /\ Fails(t, "error") /\ UNCHANGED toServer
  <2>1. Update(t, Returned(t, FALSE, None, "error", None)) /\ Unlock(t)
    BY <1>6 DEF Fails
  <2>2. /\ th' \in [Threads -> ThreadType]
        /\ mutex' \in Threads \cup {None}
        /\ \A u \in Threads : InPlace(u)'
        /\ \A u \in Threads : u # t => th'[u] = th[u]
        /\ th'[t].pc \in {"enter", "idle"}
        /\ th'[t].last = "error" /\ th'[t].got = None
    BY <1>1, <1>2, <2>1, EndOfCall
  <2>3. SendFails(t)
    BY <1>6, <2>2 DEF SendFails
  <2> QED  BY <1>1, <1>6, <2>2, <2>3
<1> QED  BY <1>5, <1>6 DEF SendWriteData

(***************************************************************************)
(* getResponseData takes the first buffer of the answer: it is refused, or  *)
(* the data are next, or it ends the call.                                  *)
(***************************************************************************)
Receives(t, b) ==
    \/ OutOfSequence(t, b) /\ th'[t].pc \in {"enter", "idle"}
    \/ /\ th[t].done = 0 /\ CallOf(t).receives = 2
       /\ th'[t].pc = "receive" /\ th'[t].done = 1 /\ th'[t].left = th[t].left
       /\ th'[t].last = th[t].last /\ th'[t].got = th[t].got
       /\ th'[t].flip = th[t].flip /\ th'[t].value = th[t].value
    \/ /\ th[t].done + 1 = CallOf(t).receives
       /\ th'[t].pc \in {"enter", "idle"}
       /\ th'[t].last = "ok" /\ th'[t].got = b.tag /\ th'[t].flip = ~th[t].flip
       /\ th'[t].value # "garbage"

(* getResponseData does one of the three, and disturbs no other thread. *)
LEMMA ReceiveFacts ==
    ASSUME ThreadsInv, NEW t \in Threads, GetResponseData(t)
    PROVE  /\ th' \in [Threads -> ThreadType]
           /\ mutex' \in Threads \cup {None}
           /\ \A u \in Threads : InPlace(u)'
           /\ \A u \in Threads : u # t => th'[u] = th[u]
           /\ At(t, "receive") /\ fromServer # << >> /\ fromServer' = Tail(fromServer)
           /\ UNCHANGED <<transID, inErrorState, conn, toServer, sim>>
           /\ Receives(t, Head(fromServer))
<1> DEFINE b == Head(fromServer)
<1>1. /\ Typed /\ InPlace(t) /\ th[t] \in ThreadType
      /\ At(t, "receive") /\ fromServer # << >> /\ fromServer' = Tail(fromServer)
      /\ UNCHANGED <<transID, inErrorState, conn, toServer, sim>>
  BY DEF ThreadsInv, Typed, GetResponseData
<1>2. th[t].left # << >> /\ th[t].done < CallOf(t).receives /\ th[t].done \in {0, 1}
  BY <1>1 DEF InPlace, At, ThreadType
<1>3. CallOf(t).receives \in {0, 1, 2}
  BY <1>1, <1>2, CallOfType DEF CallType
<1>4. b \in AnswerType
  BY <1>1, HeadTailProperties DEF Typed
<1>5. b.value \in {None, "pending", "finished"} /\ b.tag \in Tags \cup {None}
  BY <1>4 DEF AnswerType, BufferType
<1>6. IF OutOfSequence(t, b) THEN Fails(t, "outOfSequence")
      ELSE IF th[t].done + 1 < CallOf(t).receives
      THEN Update(t, [th[t] EXCEPT !.done = @ + 1]) /\ UNCHANGED mutex
      ELSE Succeeds(t, b.value, b.tag)
  BY DEF GetResponseData
<1> HIDE DEF b
<1>7. CASE OutOfSequence(t, b)
  <2>1. Update(t, Returned(t, FALSE, None, "outOfSequence", None)) /\ Unlock(t)
    BY <1>6, <1>7 DEF Fails
  <2>2. /\ th' \in [Threads -> ThreadType]
        /\ mutex' \in Threads \cup {None}
        /\ \A u \in Threads : InPlace(u)'
        /\ \A u \in Threads : u # t => th'[u] = th[u]
        /\ th'[t].pc \in {"enter", "idle"}
    BY <1>1, <1>2, <2>1, EndOfCall
  <2>3. Receives(t, b)
    BY <1>7, <2>2 DEF Receives
  <2> QED  BY <1>1, <2>2, <2>3 DEF b
<1>8. CASE ~OutOfSequence(t, b) /\ th[t].done + 1 < CallOf(t).receives
  <2>1. th[t].done = 0 /\ CallOf(t).receives = 2
    BY <1>2, <1>3, <1>8
  <2>2. Update(t, [th[t] EXCEPT !.pc = "receive", !.done = 1]) /\ UNCHANGED mutex
    <3>1. Update(t, [th[t] EXCEPT !.done = @ + 1]) /\ UNCHANGED mutex
      BY <1>6, <1>8
    <3>2. [th[t] EXCEPT !.done = @ + 1] = [th[t] EXCEPT !.done = 1]
      BY <1>1, <2>1 DEF ThreadType
    <3>3. [th[t] EXCEPT !.pc = "receive", !.done = 1] = [th[t] EXCEPT !.done = 1]
      BY <1>1 DEF At, ThreadType
    <3> QED  BY <3>1, <3>2, <3>3
  <2>3. /\ th' \in [Threads -> ThreadType]
        /\ \A u \in Threads : InPlace(u)'
        /\ \A u \in Threads : u # t => th'[u] = th[u]
        /\ th'[t].pc = "receive" /\ th'[t].done = 1 /\ th'[t].left = th[t].left
        /\ th'[t].last = th[t].last /\ th'[t].got = th[t].got
        /\ th'[t].flip = th[t].flip /\ th'[t].value = th[t].value
    <3>1. 1 < CallOf(t).receives /\ UNCHANGED <<mutex, conn>>
      BY <1>1, <2>1, <2>2
    <3> QED  BY <1>1, <2>2, <3>1, GoesOn
  <2>4. Receives(t, b)
    BY <2>1, <2>3 DEF Receives
  <2> QED  BY <1>1, <2>2, <2>3, <2>4 DEF b, Typed
<1>9. CASE ~OutOfSequence(t, b) /\ ~(th[t].done + 1 < CallOf(t).receives)
  <2>1. Update(t, Returned(t, TRUE, b.value, "ok", b.tag)) /\ Unlock(t)
    BY <1>6, <1>9 DEF Succeeds
  <2> DEFINE v == b.value
             g == b.tag
  <2>a. /\ v \in {None, "pending", "finished"} /\ g \in Tags \cup {None}
        /\ Update(t, Returned(t, TRUE, v, "ok", g)) /\ conn' = conn
    BY <1>1, <1>5, <2>1
  <2> HIDE DEF v, g
  <2>2. /\ th' \in [Threads -> ThreadType]
        /\ mutex' \in Threads \cup {None}
        /\ \A u \in Threads : InPlace(u)'
        /\ \A u \in Threads : u # t => th'[u] = th[u]
        /\ th'[t].pc \in {"enter", "idle"}
        /\ th'[t].last = "ok" /\ th'[t].got = g /\ th'[t].flip = ~th[t].flip
        /\ th'[t].value # "garbage"
    BY ZenonT(30), <1>2, <2>a, <2>1, EndOfCall
  <2>3. th[t].done + 1 = CallOf(t).receives
    BY <1>2, <1>3, <1>9
  <2>4. Receives(t, b)
    BY <2>2, <2>3 DEF Receives, g
  <2> QED  BY <1>1, <2>2, <2>4 DEF b
<1> QED  BY <1>7, <1>8, <1>9

(* A receive that fails leaves the error state, and the call ends. *)
LEMMA ReceiveFailsFacts ==
    ASSUME ThreadsInv, NEW t \in Threads, ReceiveFails(t)
    PROVE  /\ th' \in [Threads -> ThreadType]
           /\ mutex' \in Threads \cup {None}
           /\ \A u \in Threads : InPlace(u)'
           /\ \A u \in Threads : u # t => th'[u] = th[u]
           /\ At(t, "receive") /\ inErrorState' = TRUE /\ UNCHANGED <<transID, wire>>
           /\ th'[t].pc \in {"enter", "idle"} /\ th'[t].got = None /\ th'[t].last = "error"
<1>1. /\ At(t, "receive") /\ inErrorState' = TRUE /\ UNCHANGED <<transID, wire>>
      /\ Update(t, Returned(t, FALSE, None, "error", None)) /\ Unlock(t)
  BY DEF ReceiveFails, Fails
<1>2. th[t].left # << >> /\ conn' = conn
  BY <1>1 DEF ThreadsInv, InPlace, At, wire
<1> QED  BY <1>1, <1>2, EndOfCall

(***************************************************************************)
(* The steps of a thread that leave the wire alone: the start of a function *)
(* or of a call, the mutex, the transaction number.                         *)
(***************************************************************************)
QuietStep(t) ==
    \/ SocketFails(t) \/ ConnectToServer(t) \/ Enter(t) \/ Lock(t) \/ StoreTransID(t)
    \/ \E op \in Ops : Begin(t, op)

QuietEffect(t) ==
    /\ th' \in [Threads -> ThreadType]
    /\ mutex' \in Threads \cup {None}
    /\ transID' \in 0 .. IdMod - 1
    /\ inErrorState' \in BOOLEAN
    /\ \A u \in Threads : InPlace(u)'
    /\ \A u \in Threads : u # t => th'[u] = th[u]
    /\ UNCHANGED <<toServer, fromServer, sim>>
    /\ conn' # conn => conn = "none" /\ conn' = "open"
    /\ inErrorState' # inErrorState => ~inErrorState /\ th[t].pc = "connect"
    /\ th[t].pc \notin {"send", "receive"}
    /\ th'[t].pc # "receive" /\ (th'[t].pc = "send" => th'[t].done = 0)
    /\ th'[t].value = "garbage" => th[t].value = "garbage" \/ inErrorState
    /\ \/ th'[t].last \in {None, "error"}
       \/ /\ th'[t].last = th[t].last /\ th'[t].got = th[t].got
          /\ th'[t].flip = th[t].flip

(* They keep every thread in place and bring none to its answer. *)
LEMMA QuietFacts ==
    ASSUME ThreadsInv, NEW t \in Threads, QuietStep(t)
    PROVE  QuietEffect(t)
<1>1. Typed /\ InPlace(t) /\ th[t] \in ThreadType /\ 0 \in 0 .. IdMod - 1
  BY TbxSocketsAssumption DEF ThreadsInv, Typed
<1>2. CASE SocketFails(t)
  <2> DEFINE r == [th[t] EXCEPT !.pc = "idle", !.op = "none"]
  <2>1. r \in ThreadType /\ r.pc = "idle" /\ r.done = th[t].done /\ r.value = th[t].value
    BY <1>1 DEF ThreadType
  <2>2. r.last = th[t].last /\ r.got = th[t].got /\ r.flip = th[t].flip
    BY <1>1 DEF ThreadType
  <2>3. /\ th'[t] = r /\ th' \in [Threads -> ThreadType]
        /\ \A u \in Threads : u # t => th'[u] = th[u]
    BY <1>1, <1>2, <2>1, OneMoves DEF SocketFails
  <2> HIDE DEF r
  <2>4. InPlace(t)'
    BY <1>1, <1>2, <2>1, <2>3 DEF InPlace, At, SocketFails, wire
  <2>5. \A u \in Threads : InPlace(u)'
    BY <1>2, <2>3, <2>4, OthersInPlace DEF SocketFails, wire
  <2> QED  BY <1>1, <1>2, <2>1, <2>2, <2>3, <2>5 DEF SocketFails, wire, Typed, At, QuietEffect
<1>3. CASE ConnectToServer(t)
  <2> DEFINE r == Start(t, "init")
  <2>1. /\ r \in ThreadType /\ r.pc = "enter" /\ r.left # << >> /\ r.last = None
        /\ r.done = th[t].done /\ r.value = th[t].value
    BY <1>1, StartFacts
  <2>2. /\ th'[t] = r /\ th' \in [Threads -> ThreadType]
        /\ \A u \in Threads : u # t => th'[u] = th[u]
    BY <1>1, <1>3, <2>1, OneMoves DEF ConnectToServer
  <2> HIDE DEF r
  <2>3. /\ UNCHANGED <<transID, mutex, toServer, fromServer, sim>> /\ At(t, "connect")
        /\ \/ conn' = "open" /\ UNCHANGED inErrorState
           \/ inErrorState' \in {inErrorState, TRUE} /\ UNCHANGED conn
    BY <1>3 DEF ConnectToServer
  <2>4. InPlace(t)'
    BY <1>1, <2>1, <2>2, <2>3 DEF InPlace, At
  <2>5. \A u \in Threads : InPlace(u)'
    BY <2>2, <2>3, <2>4, OthersInPlace
  <2>6. conn = "none"
    BY <1>1, <2>3 DEF InPlace
  <2> QED  BY <1>1, <2>1, <2>2, <2>3, <2>5, <2>6 DEF Typed, At, QuietEffect
<1>4. CASE Enter(t) /\ CallOf(t).early /\ inErrorState
  <2>1. /\ Update(t, Returned(t, FALSE, None, "error", None)) /\ Unlock(t)
        /\ UNCHANGED <<transID, inErrorState, wire>> /\ conn' = conn /\ At(t, "enter")
    BY <1>4 DEF Enter, Fails, wire
  <2>2. th[t].left # << >>
    BY <1>1, <2>1 DEF InPlace, At
  <2>3. /\ th' \in [Threads -> ThreadType]
        /\ mutex' \in Threads \cup {None}
        /\ \A u \in Threads : InPlace(u)'
        /\ \A u \in Threads : u # t => th'[u] = th[u]
        /\ th'[t].pc \in {"enter", "idle"}
        /\ th'[t].last = "error"
    BY <2>1, <2>2, EndOfCall
  <2> QED  BY <1>1, <1>4, <2>1, <2>3 DEF Typed, wire, At, QuietEffect
<1>5. CASE Enter(t) /\ ~(CallOf(t).early /\ inErrorState)
  <2> DEFINE r == IF CallOf(t).idInLock THEN [Fresh(t) EXCEPT !.pc = "lock"]
                  ELSE [Fresh(t) EXCEPT !.pc = "store", !.id = transID]
  <2>1. /\ Update(t, r) /\ UNCHANGED mutex /\ At(t, "enter")
        /\ UNCHANGED <<transID, inErrorState, wire>>
    BY <1>5 DEF Enter
  <2>2. /\ Fresh(t) \in ThreadType /\ Fresh(t).left = th[t].left /\ Fresh(t).done = th[t].done
        /\ Fresh(t).value = th[t].value /\ Fresh(t).last = None
    BY <1>1 DEF Fresh, ThreadType
  <2>3. transID \in 0 .. IdMod - 1
    BY <1>1 DEF Typed
  <2>4. /\ r \in ThreadType /\ r.left = th[t].left /\ r.done = th[t].done
        /\ r.value = th[t].value /\ r.last = None
    BY ZenonT(30), <2>2, <2>3 DEF ThreadType
  <2>5. r.pc \in {"lock", "store"} /\ (r.pc = "store" => ~CallOf(t).idInLock)
    BY <2>2 DEF ThreadType
  <2> HIDE DEF r
  <2>6. /\ th'[t] = r /\ th' \in [Threads -> ThreadType]
        /\ \A u \in Threads : u # t => th'[u] = th[u]
    BY <1>1, <2>1, <2>4, OneMoves
  <2>7. InPlace(t)'
    BY <1>1, <2>1, <2>4, <2>5, <2>6 DEF InPlace, At, CallOf
  <2>8. \A u \in Threads : InPlace(u)'
    BY <2>1, <2>6, <2>7, OthersInPlace DEF wire
  <2> QED  BY <1>1, <2>1, <2>4, <2>5, <2>6, <2>8 DEF Typed, wire, At, QuietEffect
<1>6. CASE Lock(t)
  <2> DEFINE r == IF CallOf(t).idInLock THEN [th[t] EXCEPT !.pc = "store", !.id = transID]
                  ELSE [th[t] EXCEPT !.pc = "send"]
  <2>1. /\ Update(t, r) /\ mutex = None /\ mutex' = t /\ At(t, "lock")
        /\ UNCHANGED <<transID, inErrorState, wire>>
    BY <1>6 DEF Lock
  <2>2. transID \in 0 .. IdMod - 1
    BY <1>1 DEF Typed
  <2>3. /\ r \in ThreadType /\ r.left = th[t].left /\ r.done = th[t].done
        /\ r.value = th[t].value /\ r.last = th[t].last /\ r.got = th[t].got
        /\ r.pc \in {"store", "send"}
    BY <1>1, <2>2 DEF ThreadType
  <2>4. r.flip = th[t].flip
    BY <1>1 DEF ThreadType
  <2> HIDE DEF r
  <2>5. /\ th'[t] = r /\ th' \in [Threads -> ThreadType]
        /\ \A u \in Threads : u # t => th'[u] = th[u]
    BY <1>1, <2>1, <2>3, OneMoves
  <2>6. th[t].done = 0 /\ th[t].left # << >>
    BY <1>1, <2>1 DEF InPlace, At
  <2>7. CallOf(t).sends \in {1, 2}
    BY <1>1, <2>6, CallOfType DEF CallType
  <2>8. InPlace(t)'
    BY <1>1, <2>1, <2>3, <2>5, <2>6, <2>7 DEF InPlace, At, CallOf
  <2>9. \A u \in Threads : InPlace(u)'
    BY <2>1, <2>5, <2>8, OthersInPlace DEF wire
  <2> QED  BY <1>1, <2>1, <2>3, <2>4, <2>5, <2>6, <2>9 DEF Typed, wire, At, QuietEffect
<1>7. CASE StoreTransID(t)
  <2> DEFINE pc == IF CallOf(t).idInLock THEN "send" ELSE "lock"
             r == [th[t] EXCEPT !.pc = pc]
  <2>1. /\ Update(t, r) /\ transID' = (th[t].id + 1) % IdMod /\ At(t, "store")
        /\ UNCHANGED <<inErrorState, mutex, wire>>
    BY <1>7 DEF StoreTransID
  <2>2. transID' \in 0 .. IdMod - 1
    BY <1>1, <2>1, TbxSocketsAssumption DEF ThreadType
  <2>3. /\ r \in ThreadType /\ r.left = th[t].left /\ r.done = th[t].done
        /\ r.value = th[t].value /\ r.last = th[t].last /\ r.got = th[t].got
        /\ r.pc \in {"lock", "send"} /\ (r.pc = "send" => CallOf(t).idInLock)
    BY <1>1 DEF ThreadType
  <2>4. r.flip = th[t].flip
    BY <1>1 DEF ThreadType
  <2> HIDE DEF r
  <2>5. /\ th'[t] = r /\ th' \in [Threads -> ThreadType]
        /\ \A u \in Threads : u # t => th'[u] = th[u]
    BY <1>1, <2>1, <2>3, OneMoves
  <2>6. th[t].done = 0 /\ th[t].left # << >>
    BY <1>1, <2>1 DEF InPlace, At
  <2>7. CallOf(t).sends \in {1, 2}
    BY <1>1, <2>6, CallOfType DEF CallType
  <2>8. InPlace(t)'
    BY <1>1, <2>1, <2>3, <2>5, <2>6, <2>7 DEF InPlace, At, CallOf
  <2>9. \A u \in Threads : InPlace(u)'
    BY <2>1, <2>5, <2>8, OthersInPlace DEF wire
  <2> QED  BY <1>1, <2>1, <2>2, <2>3, <2>4, <2>5, <2>6, <2>9 DEF Typed, wire, At, QuietEffect
<1>8. ASSUME NEW op \in Ops, Begin(t, op)
      PROVE  QuietEffect(t)
  <2> DEFINE q == Start(t, op)
             r == [q EXCEPT !.ops = @ + 1]
  <2>1. /\ Update(t, r) /\ At(t, "idle") /\ UNCHANGED <<transID, inErrorState, mutex, wire>>
    BY <1>8 DEF Begin
  <2>2. /\ q \in ThreadType /\ q.pc = "enter" /\ q.left # << >> /\ q.last = None
        /\ q.done = th[t].done /\ q.value = th[t].value
    BY <1>1, StartFacts
  <2> HIDE DEF q
  <2>3. /\ r \in ThreadType /\ r.pc = "enter" /\ r.left = q.left /\ r.last = None
        /\ r.done = q.done /\ r.value = q.value
    BY <2>2 DEF ThreadType
  <2> HIDE DEF r
  <2>4. /\ th'[t] = r /\ th' \in [Threads -> ThreadType]
        /\ \A u \in Threads : u # t => th'[u] = th[u]
    BY <1>1, <2>1, <2>3, OneMoves
  <2>5. InPlace(t)'
    BY <1>1, <2>1, <2>2, <2>3, <2>4 DEF InPlace, At
  <2>6. \A u \in Threads : InPlace(u)'
    BY <2>1, <2>4, <2>5, OthersInPlace DEF wire
  <2> QED  BY <1>1, <2>1, <2>2, <2>3, <2>4, <2>6 DEF Typed, wire, At, QuietEffect
<1> QED  BY <1>2, <1>3, <1>4, <1>5, <1>6, <1>7, <1>8 DEF QuietStep

(* What the simulator answers: the buffers the call waits for, with its number. *)
LEMMA AnswersFacts ==
    ASSUME NEW b \in BufferType, NEW value \in {"pending", "finished"}
    PROVE  /\ Answers(b, value) \in Seq(AnswerType)
           /\ b.type \notin AnsweredTypes => Answers(b, value) = << >>
           /\ Len(Answers(b, value)) = IF b.type = "readMemory" THEN 2
                                       ELSE IF b.type \in AnsweredTypes THEN 1 ELSE 0
           /\ b.type \in AnsweredTypes =>
                 /\ Answers(b, value)[1].kind = "header" /\ Answers(b, value)[1].type = b.type
                 /\ Answers(b, value)[1].id = b.id
           /\ \A i \in 1 .. Len(Answers(b, value)) : Answers(b, value)[i].tag = b.tag
<1> DEFINE h == [kind |-> "header", type |-> b.type, id |-> b.id, tag |-> b.tag, value |-> value]
           d == [kind |-> "data", type |-> b.type, id |-> b.id, tag |-> b.tag, value |-> value]
<1>1. h \in AnswerType /\ d \in AnswerType
  BY DEF AnswerType, BufferType
<1>2. /\ h.kind = "header" /\ h.type = b.type /\ h.id = b.id /\ h.tag = b.tag
      /\ d.tag = b.tag
  OBVIOUS
<1>3. Answers(b, value) =
        CASE b.type \in {"marker", "readMMIO", "readPCICFG"} -> <<h>>
          [] b.type = "readMemory" -> <<h, d>>
          [] OTHER -> << >>
  BY DEF Answers
<1> HIDE DEF h, d
<1> QED  BY <1>1, <1>2, <1>3 DEF AnsweredTypes

(* The simulator takes the first buffer, expects what comes after it and answers it. *)
LEMMA SimulatorFacts ==
    ASSUME Typed, SimulatorTakes
    PROVE  /\ toServer' \in Seq(BufferType) /\ fromServer' \in Seq(AnswerType)
           /\ sim' \in [expects : Tags \cup {None}, confused : BOOLEAN,
                        value : {"pending", "finished"}]
           /\ sim'.expects = After(toServer[1])
           /\ InTurn(sim.expects, toServer[1]) => sim'.confused = sim.confused
           /\ fromServer' = IF toServer[1].kind = "header"
                            THEN fromServer \o Answers(toServer[1], sim.value)
                            ELSE fromServer
           /\ toServer # << >> /\ toServer' = Tail(toServer) /\ toServer[1] \in BufferType
           /\ Len(toServer) \in Nat \ {0} /\ Len(toServer') = Len(toServer) - 1
           /\ \A i \in 1 .. Len(toServer') : toServer'[i] = toServer[i + 1]
           /\ UNCHANGED <<th, transID, inErrorState, mutex, conn>>
<1> DEFINE b == toServer[1]
           e == IF b.kind = "header" /\ b.type = "writeMemory" THEN b.tag ELSE None
           turn == IF sim.expects = None THEN b.kind = "header"
                   ELSE b.kind = "data" /\ b.tag = sim.expects
           c == sim.confused \/ ~turn
<1>1. /\ toServer \in Seq(BufferType) /\ fromServer \in Seq(AnswerType)
      /\ sim \in [expects : Tags \cup {None}, confused : BOOLEAN, value : {"pending", "finished"}]
      /\ toServer # << >> /\ toServer' = Tail(toServer)
      /\ UNCHANGED <<th, transID, inErrorState, mutex, conn>>
  BY DEF Typed, SimulatorTakes
<1>2. /\ Head(toServer) = b /\ b \in BufferType /\ Len(toServer) \in Nat \ {0}
      /\ toServer' \in Seq(BufferType) /\ Len(toServer') = Len(toServer) - 1
      /\ \A i \in 1 .. Len(toServer') : toServer'[i] = toServer[i + 1]
  BY <1>1, HeadTailProperties, EmptySeq
<1>3. fromServer' = IF b.kind = "header" THEN fromServer \o Answers(b, sim.value) ELSE fromServer
  BY <1>2 DEF SimulatorTakes
<1>4. sim' = [sim EXCEPT !.confused = c, !.expects = e]
  BY <1>2 DEF SimulatorTakes
<1>5. Answers(b, sim.value) \in Seq(AnswerType)
  BY <1>1, <1>2, AnswersFacts
<1>6. fromServer' \in Seq(AnswerType)
  BY <1>1, <1>3, <1>5, ConcatProperties
<1>7. e \in Tags \cup {None} /\ e = After(b)
  BY <1>2 DEF BufferType, After
<1>8. c \in BOOLEAN
  OBVIOUS
<1>9. InTurn(sim.expects, b) => c = sim.confused
  BY <1>1 DEF InTurn
<1> HIDE DEF c, e
<1>10. /\ sim' \in [expects : Tags \cup {None}, confused : BOOLEAN, value : {"pending", "finished"}]
       /\ sim'.expects = e
  BY <1>1, <1>4, <1>7, <1>8
<1>11. sim'.confused = c
  BY <1>1, <1>4
<1> QED  BY <1>1, <1>2, <1>3, <1>6, <1>7, <1>9, <1>10, <1>11

-----------------------------------------------------------------------------
(* When the stream is made nothing is on the wire and no thread has begun. *)
LEMMA InitInv == Init => Inv
<1> SUFFICES ASSUME Init PROVE Inv
  OBVIOUS
<1>1. << >> \in Seq(CallType) /\ << >> \in Seq(BufferType) /\ << >> \in Seq(AnswerType)
  BY EmptySeq
<1>2. 0 \in 0 .. IdMod - 1
  BY TbxSocketsAssumption
<1>3. Thread \in ThreadType /\ Thread.pc = "idle"
  BY <1>1, <1>2 DEF Thread, ThreadType
<1>4. Thread.done = 0 /\ Thread.value = None /\ Thread.last = None
  BY DEF Thread
<1> DEFINE m == [Thread EXCEPT !.pc = "connect", !.op = "init"]
<1>5. /\ m \in ThreadType /\ m.pc = "connect" /\ m.op = "init" /\ m.done = 0
      /\ m.value = None /\ m.last = None
  BY <1>3, <1>4 DEF ThreadType
<1> HIDE DEF m
<1>6. \A t \in Threads : th[t] = IF t = Main THEN m ELSE Thread
  BY DEF Init, m
<1>7. th \in [Threads -> ThreadType]
  BY <1>3, <1>5 DEF Init, m
<1>8. Typed
  BY <1>1, <1>2, <1>7 DEF Init, Typed
<1>9. \A t \in Threads : InPlace(t)
  BY <1>3, <1>4, <1>5, <1>6 DEF InPlace, At, Init
<1>10. \A t \in Threads : th[t].pc \in {"idle", "connect"} /\ th[t].value = None /\ th[t].last = None
  BY <1>3, <1>4, <1>5, <1>6
<1>11. FramingInv
  BY <1>10, EmptySeq DEF FramingInv, Init, At, Due
<1>12. AnswersInv
  BY <1>10, EmptySeq, TbxSocketsAssumption DEF AnswersInv, AnswersToAskers, Init, At
<1>13. GarbageInv
  BY <1>10, EmptySeq, TbxSocketsAssumption DEF GarbageInv, NoGarbageSent, Init
<1> QED  BY <1>8, <1>9, <1>11, <1>12, <1>13 DEF Inv, ThreadsInv

(* The threads keep their places, whatever they and the simulator do. *)
LEMMA ThreadsStep == ThreadsInv /\ [Next]_vars => ThreadsInv'
<1> SUFFICES ASSUME ThreadsInv, [Next]_vars PROVE ThreadsInv'
  OBVIOUS
<1>1. Typed /\ \A t \in Threads : InPlace(t)
  BY DEF ThreadsInv
<1>2. ASSUME NEW t \in Threads, QuietStep(t) PROVE ThreadsInv'
  <2>1. QuietEffect(t)
    BY <1>2, QuietFacts
  <2>2. conn' \in {"none", "open", "broken", "closed"}
    BY <1>1, <2>1 DEF QuietEffect, Typed
  <2> QED  BY <1>1, <2>1, <2>2 DEF QuietEffect, ThreadsInv, Typed
<1>3. ASSUME NEW t \in Threads, SendWriteData(t) PROVE ThreadsInv'
  <2>1. Buffer(t) \in BufferType
    BY <1>3, BufferFacts DEF SendWriteData
  <2>2. Append(toServer, Buffer(t)) \in Seq(BufferType)
    BY <1>1, <2>1, AppendProperties DEF Typed
  <2>3. toServer' \in Seq(BufferType)
    BY <1>1, <1>3, <2>2 DEF SendWriteData, Typed
  <2> QED  BY <1>1, <1>3, <2>3, SendFacts DEF ThreadsInv, Typed
<1>4. ASSUME NEW t \in Threads, GetResponseData(t) PROVE ThreadsInv'
  <2>1. Tail(fromServer) \in Seq(AnswerType)
    BY <1>1, <1>4, HeadTailProperties DEF GetResponseData, Typed
  <2> QED  BY <1>1, <1>4, <2>1, ReceiveFacts DEF ThreadsInv, Typed
<1>5. ASSUME NEW t \in Threads, ReceiveFails(t) PROVE ThreadsInv'
  BY <1>1, <1>5, ReceiveFailsFacts DEF ThreadsInv, Typed, wire
<1>6. CASE Close
  <2>1. ~At(Main, "connect")
    BY <1>1, <1>6, TbxSocketsAssumption DEF Close, Ready, InPlace
  <2>2. \A t \in Threads : InPlace(t)'
    BY <1>1, <1>6, <2>1 DEF Close, InPlace, At, CallOf
  <2> QED  BY <1>1, <1>6, <2>2, EmptySeq DEF Close, ThreadsInv, Typed
<1>7. CASE SimulatorTakes
  <2>1. \A t \in Threads : InPlace(t)'
    BY <1>1, <1>7 DEF SimulatorTakes, InPlace, At, CallOf
  <2> QED  BY <1>1, <1>7, <2>1, SimulatorFacts DEF ThreadsInv, Typed
<1>8. CASE SimulatorFinishes
  <2>1. \A t \in Threads : InPlace(t)'
    BY <1>1, <1>8 DEF SimulatorFinishes, InPlace, At, CallOf
  <2> QED  BY <1>1, <1>8, <2>1 DEF SimulatorFinishes, ThreadsInv, Typed
<1>9. CASE ConnectionBreaks
  <2>1. \A t \in Threads : InPlace(t)'
    BY <1>1, <1>9 DEF ConnectionBreaks, InPlace, At, CallOf
  <2> QED  BY <1>1, <1>9, <2>1 DEF ConnectionBreaks, ThreadsInv, Typed
<1>10. CASE UNCHANGED vars
  BY <1>1, <1>10 DEF vars, ThreadsInv, Typed, InPlace, At, CallOf
<1> QED  BY <1>2, <1>3, <1>4, <1>5, <1>6, <1>7, <1>8, <1>9, <1>10
         DEF Next, Continue, QuietStep

(***************************************************************************)
(* Framing.  A header is sent when nothing is due: whoever else might be    *)
(* between its header and its data would hold the mutex.                    *)
(***************************************************************************)
LEMMA FramingStep == ThreadsInv /\ FramingInv /\ [Next]_vars => FramingInv'
<1> SUFFICES ASSUME ThreadsInv, FramingInv, [Next]_vars PROVE FramingInv'
  OBVIOUS
<1> DEFINE Between(t) == At(t, "send") /\ th[t].done = 1
<1>1. Typed /\ \A t \in Threads : InPlace(t)
  BY DEF ThreadsInv
<1>2. ASSUME NEW t \in Threads, QuietStep(t) PROVE FramingInv'
  <2>1. QuietEffect(t)
    BY <1>2, QuietFacts
  <2>2. \A u \in Threads : Between(u)' <=> Between(u)
    BY <2>1 DEF QuietEffect, At
  <2>3. \A u \in Threads : Between(u)' => Tag(u)' = Tag(u)
    BY <2>1 DEF QuietEffect, At, Tag
  <2>4. Due' = Due
    BY <2>1 DEF QuietEffect, Due
  <2> QED  BY <2>1, <2>2, <2>3, <2>4 DEF QuietEffect, FramingInv
<1>3. ASSUME NEW t \in Threads, SendWriteData(t) PROVE FramingInv'
  <2>1. /\ \A u \in Threads : u # t => th'[u] = th[u]
        /\ At(t, "send") /\ UNCHANGED <<transID, conn, fromServer, sim>>
        /\ SendsOn(t) \/ SendFails(t)
    BY <1>3, SendFacts
  <2>2. CASE SendFails(t)
    BY <2>1, <2>2 DEF SendFails, FramingInv
  <2>3. CASE SendsOn(t)
    <3> DEFINE n == Len(toServer)
    <3>1. /\ ~inErrorState /\ conn # "closed" /\ toServer' = Append(toServer, Buffer(t))
      BY <2>3 DEF SendsOn
    <3>2. /\ toServer \in Seq(BufferType) /\ Buffer(t) \in BufferType
          /\ Buffer(t).kind = IF th[t].done = 0 THEN "header" ELSE "data"
          /\ Buffer(t).type = CallOf(t).type /\ Buffer(t).tag = Tag(t)
      BY <1>1, <2>1, BufferFacts DEF Typed
    <3>3. /\ n \in Nat /\ Len(toServer') = n + 1 /\ toServer' # << >>
          /\ \A i \in 1 .. n : toServer'[i] = toServer[i]
          /\ toServer'[n + 1] = Buffer(t)
      BY <3>1, <3>2, AppendProperties, LenProperties
    <3>4. \A u \in Threads : u # t => ~Between(u)
      BY <1>1, <2>1 DEF InPlace
    <3>5. th[t].done \in {0, 1}
      BY <1>1 DEF Typed, ThreadType
    <3>6. InTurn(Due, Buffer(t))
      <4>1. CASE th[t].done = 0
        <5>1. Due = None
          BY <3>1, <3>4, <4>1 DEF FramingInv
        <5> QED  BY <3>2, <4>1, <5>1 DEF InTurn
      <4>2. CASE th[t].done = 1
        <5>1. Due = Tag(t)
          BY <2>1, <3>1, <4>2 DEF FramingInv
        <5>2. Tag(t) # None
          BY <1>1, TbxSocketsAssumption DEF Tag, Typed, ThreadType
        <5> QED  BY <3>2, <4>2, <5>1, <5>2 DEF InTurn
      <4> QED  BY <3>5, <4>1, <4>2
    <3>7. ASSUME NEW i \in 1 .. n + 1
          PROVE  InTurn(IF i = 1 THEN sim.expects ELSE After(toServer'[i - 1]), toServer'[i])
      <4>1. CASE i \in 1 .. n
        <5>1. toServer'[i] = toServer[i] /\ (i # 1 => toServer'[i - 1] = toServer[i - 1])
          BY <3>3, <4>1
        <5> QED  BY <4>1, <5>1 DEF FramingInv
      <4>2. CASE i = n + 1
        <5>1. Due = IF i = 1 THEN sim.expects ELSE After(toServer'[i - 1])
          <6>1. CASE n = 0
            BY <3>2, <3>3, <4>2, <6>1, EmptySeq DEF Due
          <6>2. CASE n # 0
            <7>1. toServer # << >> /\ i # 1 /\ i - 1 = n /\ n \in 1 .. n
              BY <3>3, <4>2, <6>2, EmptySeq
            <7> QED  BY <3>3, <7>1 DEF Due
          <6> QED  BY <6>1, <6>2
        <5> QED  BY <3>3, <3>6, <4>2, <5>1
      <4> QED  BY <3>3, <4>1, <4>2
    <3>8. Due' = After(Buffer(t))
      BY <3>3 DEF Due
    <3>9. \A u \in Threads : u # t => ~(Between(u)')
      BY <2>1, <3>4 DEF At
    <3>10. CASE Between(t)'
      <4>1. CallOf(t).type = "writeMemory" /\ th[t].done = 0 /\ th'[t].flip = th[t].flip
        BY <2>3, <3>10 DEF SendsOn, At
      <4>2. Due' = Tag(t)'
        BY <3>2, <3>8, <4>1 DEF After, Tag
      <4> QED  BY <2>1, <3>3, <3>7, <3>9, <3>10, <4>2 DEF FramingInv
    <3>11. CASE ~(Between(t)')
      <4>1. Due' = None
        BY <2>3, <3>2, <3>8, <3>11 DEF SendsOn, At, After, AnsweredTypes
      <4> QED  BY <2>1, <3>3, <3>7, <3>9, <3>11, <4>1 DEF FramingInv
    <3> QED  BY <3>10, <3>11
  <2> QED  BY <2>1, <2>2, <2>3
<1>4. ASSUME NEW t \in Threads, GetResponseData(t) PROVE FramingInv'
  <2>1. /\ \A u \in Threads : u # t => th'[u] = th[u]
        /\ At(t, "receive") /\ UNCHANGED <<inErrorState, conn, toServer, sim>>
        /\ Receives(t, Head(fromServer))
    BY <1>4, ReceiveFacts
  <2>2. th'[t].pc # "send"
    BY <2>1 DEF Receives
  <2>3. \A u \in Threads : (Between(u)' <=> Between(u)) /\ (Between(u) => Tag(u)' = Tag(u))
    BY <2>1, <2>2 DEF At, Tag
  <2>4. Due' = Due
    BY <2>1 DEF Due
  <2> QED  BY <2>1, <2>3, <2>4 DEF FramingInv
<1>5. ASSUME NEW t \in Threads, ReceiveFails(t) PROVE FramingInv'
  BY <1>5, ReceiveFailsFacts DEF FramingInv, wire
<1>6. CASE Close
  <2>1. toServer' = << >> /\ Len(toServer') = 0 /\ conn' = "closed" /\ sim' = sim
    BY <1>6, EmptySeq DEF Close
  <2> QED  BY <2>1 DEF FramingInv
<1>7. CASE SimulatorTakes
  <2> DEFINE n == Len(toServer)
  <2>1. /\ toServer # << >> /\ n \in Nat \ {0} /\ Len(toServer') = n - 1
        /\ \A i \in 1 .. Len(toServer') : toServer'[i] = toServer[i + 1]
        /\ sim'.expects = After(toServer[1])
        /\ InTurn(sim.expects, toServer[1]) => sim'.confused = sim.confused
        /\ UNCHANGED <<th, inErrorState, conn>> /\ toServer' \in Seq(BufferType)
    BY <1>1, <1>7, SimulatorFacts
  <2>2. ~sim'.confused
    BY <2>1 DEF FramingInv
  <2>3. ASSUME NEW i \in 1 .. n - 1
        PROVE  InTurn(IF i = 1 THEN sim'.expects ELSE After(toServer'[i - 1]), toServer'[i])
    <3>1. i + 1 \in 1 .. n /\ i + 1 # 1 /\ (i + 1) - 1 = i
      BY <2>1
    <3>2. InTurn(After(toServer[i]), toServer[i + 1])
      BY <3>1 DEF FramingInv
    <3>3. i # 1 => toServer'[i - 1] = toServer[i]
      <4> SUFFICES ASSUME i # 1 PROVE toServer'[i - 1] = toServer[i]
        OBVIOUS
      <4>1. i - 1 \in 1 .. Len(toServer') /\ (i - 1) + 1 = i
        BY <2>1
      <4> QED  BY <2>1, <4>1
    <3> QED  BY <2>1, <3>2, <3>3
  <2>4. Due' = Due
    <3>1. CASE n = 1
      BY <2>1, <3>1, EmptySeq DEF Due
    <3>2. CASE n # 1
      <4>1. toServer' # << >> /\ n - 1 \in 1 .. n - 1 /\ (n - 1) + 1 = n
        BY <2>1, <3>2, EmptySeq
      <4> QED  BY <2>1, <4>1 DEF Due
    <3> QED  BY <3>1, <3>2
  <2>5. \A u \in Threads : (Between(u)' <=> Between(u)) /\ Tag(u)' = Tag(u)
    BY <2>1 DEF At, Tag
  <2> QED  BY <2>1, <2>2, <2>3, <2>4, <2>5 DEF FramingInv
<1>8. CASE SimulatorFinishes
  <2>1. sim'.expects = sim.expects /\ sim'.confused = sim.confused
    BY <1>1, <1>8 DEF SimulatorFinishes, Typed
  <2>2. /\ UNCHANGED <<th, inErrorState, conn, toServer>> /\ Due' = Due
    BY <1>8, <2>1 DEF SimulatorFinishes, Due
  <2> QED  BY <2>1, <2>2 DEF FramingInv, At, Tag
<1>9. CASE ConnectionBreaks
  BY <1>9 DEF ConnectionBreaks, FramingInv, At, Tag, Due
<1>10. CASE UNCHANGED vars
  BY <1>10 DEF vars, FramingInv, At, Tag, Due
<1> QED  BY <1>2, <1>3, <1>4, <1>5, <1>6, <1>7, <1>8, <1>9, <1>10
         DEF Next, Continue, QuietStep

(***************************************************************************)
(* Answers.  Only the thread that holds the mutex has a request or an       *)
(* answer on the wire, so the next buffer it receives is the answer.        *)
(***************************************************************************)
LEMMA AnswersStep == ThreadsInv /\ AnswersInv /\ [Next]_vars => AnswersInv'
<1> SUFFICES ASSUME ThreadsInv, AnswersInv, [Next]_vars PROVE AnswersInv'
  OBVIOUS
<1> USE DEF At
<1>1. Typed /\ \A t \in Threads : InPlace(t)
  BY DEF ThreadsInv
<1>2. ASSUME NEW t \in Threads, QuietStep(t) PROVE AnswersInv'
  <2>1. QuietEffect(t)
    BY <1>2, QuietFacts
  <2>2. \A u \in Threads : (At(u, "receive")' <=> At(u, "receive")) /\ (At(u, "receive") => u # t)
    BY <2>1 DEF QuietEffect
  <2>3. \A u \in Threads : u # t => (Asking(u)' <=> Asking(u)) /\ (Answered(u)' <=> Answered(u))
    BY <2>1 DEF QuietEffect, Asking, Answered, IsRequestOf, CallOf, Tag
  <2>4. \A u \in Threads : At(u, "receive") => ~inErrorState' /\ conn' # "none"
    <3> SUFFICES ASSUME NEW u \in Threads, At(u, "receive") PROVE ~inErrorState' /\ conn' # "none"
      OBVIOUS
    <3>1. ~inErrorState /\ conn # "none"
      BY DEF AnswersInv
    <3>2. th[t].pc # "connect"
      BY <1>1, <3>1 DEF InPlace
    <3> QED  BY <2>1, <3>1, <3>2 DEF QuietEffect
  <2>5. AnswersToAskers'
    <3>1. None # "ok" /\ None # "outOfSequence"
      BY TbxSocketsAssumption
    <3>2. CASE th'[t].last \in {None, "error"}
      BY <2>1, <3>1, <3>2 DEF AnswersInv, AnswersToAskers, QuietEffect
    <3>3. CASE /\ th'[t].last = th[t].last /\ th'[t].got = th[t].got
               /\ th'[t].flip = th[t].flip
      BY <2>1, <3>3 DEF AnswersInv, AnswersToAskers, QuietEffect
    <3> QED  BY <2>1, <3>2, <3>3 DEF QuietEffect
  <2>6. /\ UNCHANGED <<toServer, fromServer>>
        /\ ~inErrorState' => ~inErrorState
        /\ conn' # "closed" => conn # "closed"
        /\ conn' = "closed" => conn = "closed"
    BY <1>1, <2>1 DEF QuietEffect, Typed
  <2> QED  BY <2>2, <2>3, <2>4, <2>5, <2>6 DEF AnswersInv
<1>3. ASSUME NEW t \in Threads, SendWriteData(t) PROVE AnswersInv'
  <2>1. /\ \A u \in Threads : u # t => th'[u] = th[u]
        /\ At(t, "send") /\ UNCHANGED <<transID, conn, fromServer, sim>>
        /\ SendsOn(t) \/ SendFails(t)
    BY <1>3, SendFacts
  <2>2. \A u \in Threads : ~At(u, "receive")
    BY <1>1, <2>1 DEF InPlace
  <2>3. AnswersToAskers'
    <3>1. \/ th'[t].last = th[t].last /\ th'[t].got = th[t].got /\ th'[t].flip = th[t].flip
          \/ th'[t].last \in {"ok", "error"} /\ th'[t].got = None
      BY <2>1 DEF SendsOn, SendFails
    <3>2. CASE th'[t].last = th[t].last /\ th'[t].got = th[t].got /\ th'[t].flip = th[t].flip
      BY <2>1, <3>2 DEF AnswersInv, AnswersToAskers
    <3>3. CASE th'[t].last \in {"ok", "error"} /\ th'[t].got = None
      BY <2>1, <3>3 DEF AnswersInv, AnswersToAskers
    <3> QED  BY <3>1, <3>2, <3>3
  <2>4. CASE SendFails(t)
    BY <2>1, <2>2, <2>3, <2>4 DEF SendFails, AnswersInv
  <2>5. CASE SendsOn(t)
    <3> DEFINE n == Len(toServer)
    <3>1. /\ ~inErrorState /\ conn \in {"open", "broken"} /\ inErrorState' = inErrorState
          /\ toServer' = Append(toServer, Buffer(t))
      BY <2>5 DEF SendsOn
    <3>2. /\ toServer \in Seq(BufferType) /\ Buffer(t) \in BufferType
          /\ Buffer(t).kind = IF th[t].done = 0 THEN "header" ELSE "data"
          /\ Buffer(t).type = CallOf(t).type /\ Buffer(t).tag = Tag(t)
          /\ Buffer(t).id = th[t].id
      BY <1>1, <2>1, BufferFacts DEF Typed
    <3>3. /\ n \in Nat /\ Len(toServer') = n + 1 /\ toServer' # << >>
          /\ \A i \in 1 .. n : toServer'[i] = toServer[i]
          /\ toServer'[n + 1] = Buffer(t)
      BY <3>1, <3>2, AppendProperties, LenProperties
    <3>4. fromServer = << >> /\ \A i \in 1 .. n : ~Asks(toServer[i])
      BY <2>2, <3>1 DEF AnswersInv
    <3>5. \A i \in 1 .. n : ~Asks(toServer'[i])
      BY <3>3, <3>4
    <3>6. \A u \in Threads : u # t => ~(At(u, "receive")')
      BY <2>1, <2>2
    <3>7. CASE At(t, "receive")'
      <4>1. /\ th[t].done = 0 /\ th'[t].done = 0 /\ th'[t].left = th[t].left
            /\ th'[t].id = th[t].id /\ th'[t].flip = th[t].flip
        BY <2>5, <3>7 DEF SendsOn
      <4>2. /\ toServer'[n + 1].kind = "header" /\ toServer'[n + 1].type = CallOf(t)'.type
            /\ toServer'[n + 1].id = th'[t].id /\ toServer'[n + 1].tag = Tag(t)'
        BY <3>2, <3>3, <4>1 DEF CallOf, Tag
      <4>3. Asking(t)'
        BY <2>1, <3>3, <3>4, <3>5, <4>1, <4>2 DEF Asking, IsRequestOf
      <4> QED  BY <2>1, <2>3, <3>1, <3>6, <3>7, <4>3 DEF AnswersInv
    <3>8. CASE ~(At(t, "receive")')
      <4>1. ~Asks(Buffer(t))
        BY <2>5, <3>2, <3>8 DEF SendsOn, Asks, AnsweredTypes
      <4>2. \A i \in 1 .. Len(toServer') : ~Asks(toServer'[i])
        BY <3>3, <3>5, <4>1
      <4> QED  BY <2>1, <2>3, <3>1, <3>4, <3>6, <3>8, <4>2 DEF AnswersInv
    <3> QED  BY <3>7, <3>8
  <2> QED  BY <2>1, <2>4, <2>5
<1>4. ASSUME NEW t \in Threads, GetResponseData(t) PROVE AnswersInv'
  <2> DEFINE b == Head(fromServer)
  <2>1. /\ \A u \in Threads : u # t => th'[u] = th[u]
        /\ At(t, "receive") /\ fromServer # << >> /\ fromServer' = Tail(fromServer)
        /\ UNCHANGED <<transID, inErrorState, conn, toServer, sim>>
        /\ Receives(t, b)
    BY <1>4, ReceiveFacts
  <2>2. \A u \in Threads : u # t => ~At(u, "receive")
    BY <1>1, <2>1 DEF InPlace
  <2>3. ~inErrorState /\ conn # "closed" /\ conn # "none"
    BY <2>1 DEF AnswersInv
  <2>4. Answered(t)
    BY <2>1, <2>3 DEF AnswersInv, Asking
  <2>5. /\ b = fromServer[1] /\ fromServer \in Seq(AnswerType) /\ Len(fromServer) \in Nat \ {0}
        /\ fromServer' \in Seq(AnswerType) /\ Len(fromServer') = Len(fromServer) - 1
        /\ \A i \in 1 .. Len(fromServer') : fromServer'[i] = fromServer[i + 1]
    BY <1>1, <2>1, HeadTailProperties, EmptySeq DEF Typed
  <2>6. b.tag = Tag(t) /\ ~OutOfSequence(t, b)
    BY <2>4, <2>5 DEF Answered, OutOfSequence, IsRequestOf
  <2>7. \A u \in Threads : u # t => ~(At(u, "receive")')
    BY <2>1, <2>2
  <2> HIDE DEF b
  <2>8. CASE /\ th[t].done = 0 /\ CallOf(t).receives = 2
             /\ th'[t].pc = "receive" /\ th'[t].done = 1 /\ th'[t].left = th[t].left
             /\ th'[t].last = th[t].last /\ th'[t].got = th[t].got
             /\ th'[t].flip = th[t].flip /\ th'[t].value = th[t].value
    <3>1. AnswersToAskers'
      BY <2>1, <2>8 DEF AnswersInv, AnswersToAskers
    <3>2. /\ CallOf(t)' = CallOf(t) /\ Tag(t)' = Tag(t)
      BY <2>8 DEF CallOf, Tag
    <3>3. Len(fromServer') = CallOf(t)'.receives - th'[t].done
      BY <2>4, <2>5, <2>8, <3>2 DEF Answered
    <3>4. \A i \in 1 .. Len(fromServer') : fromServer'[i].tag = Tag(t)'
      BY <2>4, <2>5, <3>2 DEF Answered
    <3>5. Answered(t)'
      BY <2>1, <2>4, <2>8, <3>3, <3>4 DEF Answered
    <3> QED  BY <2>1, <2>3, <2>7, <2>8, <3>1, <3>5 DEF AnswersInv
  <2>9. CASE /\ th[t].done + 1 = CallOf(t).receives
             /\ th'[t].pc \in {"enter", "idle"}
             /\ th'[t].last = "ok" /\ th'[t].got = b.tag /\ th'[t].flip = ~th[t].flip
    <3>1. th'[t].got = <<t, ~th'[t].flip>>
      BY <1>1, <2>6, <2>9 DEF Tag, Typed, ThreadType
    <3>2. AnswersToAskers'
      BY <2>1, <2>9, <3>1 DEF AnswersInv, AnswersToAskers
    <3>3. th[t].done \in {0, 1}
      BY <1>1 DEF Typed, ThreadType
    <3>4. fromServer' = << >>
      BY <2>4, <2>5, <2>9, <3>3, EmptySeq DEF Answered
    <3>5. \A i \in 1 .. Len(toServer') : ~Asks(toServer'[i])
      BY <2>1, <2>4 DEF Answered
    <3> QED  BY <2>1, <2>3, <2>7, <2>9, <3>2, <3>4, <3>5 DEF AnswersInv
  <2> QED  BY <2>1, <2>6, <2>8, <2>9 DEF Receives
<1>5. ASSUME NEW t \in Threads, ReceiveFails(t) PROVE AnswersInv'
  <2>1. /\ \A u \in Threads : u # t => th'[u] = th[u]
        /\ At(t, "receive") /\ inErrorState' = TRUE /\ UNCHANGED <<transID, wire>>
        /\ th'[t].pc \in {"enter", "idle"} /\ th'[t].got = None /\ th'[t].last = "error"
    BY <1>5, ReceiveFailsFacts
  <2>2. \A u \in Threads : ~(At(u, "receive")')
    BY <1>1, <2>1 DEF InPlace
  <2>3. AnswersToAskers'
    BY <2>1 DEF AnswersInv, AnswersToAskers
  <2> QED  BY <2>1, <2>2, <2>3 DEF AnswersInv, wire
<1>6. CASE Close
  BY <1>6 DEF Close, AnswersInv, AnswersToAskers
<1>7. CASE SimulatorTakes
  <2> DEFINE n == Len(toServer)
             b == toServer[1]
             ans == Answers(b, sim.value)
  <2>1. /\ toServer # << >> /\ n \in Nat \ {0} /\ Len(toServer') = n - 1
        /\ \A i \in 1 .. Len(toServer') : toServer'[i] = toServer[i + 1]
        /\ fromServer' = IF b.kind = "header" THEN fromServer \o ans ELSE fromServer
        /\ UNCHANGED <<th, inErrorState, conn>>
        /\ toServer \in Seq(BufferType) /\ toServer' \in Seq(BufferType) /\ b \in BufferType
        /\ conn = "open" /\ fromServer \in Seq(AnswerType) /\ sim.value \in {"pending", "finished"}
    BY <1>1, <1>7, SimulatorFacts DEF Typed, SimulatorTakes
  <2>2. /\ ans \in Seq(AnswerType)
        /\ b.type \notin AnsweredTypes => ans = << >>
        /\ Len(ans) = IF b.type = "readMemory" THEN 2
                      ELSE IF b.type \in AnsweredTypes THEN 1 ELSE 0
        /\ b.type \in AnsweredTypes =>
              ans[1].kind = "header" /\ ans[1].type = b.type /\ ans[1].id = b.id
        /\ \A i \in 1 .. Len(ans) : ans[i].tag = b.tag
    BY <2>1, AnswersFacts
  <2> HIDE DEF ans
  <2>3. ~Asks(b) => fromServer' = fromServer
    BY <2>1, <2>2, ConcatEmptySeq DEF Asks
  <2>4. AnswersToAskers'
    BY <2>1 DEF AnswersInv, AnswersToAskers
  <2>5. /\ \A u \in Threads : At(u, "receive")' <=> At(u, "receive")
        /\ \A u \in Threads : CallOf(u)' = CallOf(u) /\ Tag(u)' = Tag(u)
    BY <2>1 DEF CallOf, Tag
  <2>6. ASSUME ~inErrorState, NEW t \in Threads, At(t, "receive"), Answered(t)
        PROVE  Answered(t)'
    <3>1. fromServer' = fromServer
      <4>1. 1 \in 1 .. n
        BY <2>1
      <4>2. ~Asks(b)
        BY <2>6, <4>1 DEF Answered
      <4> QED  BY <2>3, <4>2
    <3>2. \A i \in 1 .. Len(toServer') : ~Asks(toServer'[i])
      BY SMTT(30), <2>1, <2>6 DEF Answered
    <3> QED  BY <2>1, <2>5, <2>6, <3>1, <3>2 DEF Answered, IsRequestOf
  <2>7. ASSUME ~inErrorState, NEW t \in Threads, At(t, "receive"), Asking(t), n # 1
        PROVE  Asking(t)'
    <3>1. fromServer' = fromServer
      BY <2>1, <2>3, <2>7 DEF Asking
    <3>2. \A i \in 1 .. Len(toServer') - 1 : ~Asks(toServer'[i])
      BY <2>1, <2>7 DEF Asking
    <3>3. toServer' # << >> /\ toServer'[Len(toServer')] = toServer[n]
      BY <2>1, <2>7, EmptySeq
    <3> QED  BY <2>1, <2>5, <2>7, <3>1, <3>2, <3>3 DEF Asking, IsRequestOf
  <2>8. ASSUME ~inErrorState, NEW t \in Threads, At(t, "receive"), Asking(t), n = 1
        PROVE  Answered(t)'
    <3>1. IsRequestOf(b, t) /\ th[t].done = 0 /\ fromServer = << >>
      BY <2>8 DEF Asking
    <3>2. fromServer' = ans
      BY <2>1, <2>2, <3>1, ConcatEmptySeq DEF IsRequestOf
    <3>3. th[t].left # << >> /\ 0 < CallOf(t).receives
      BY <1>1, <2>8, <3>1 DEF InPlace
    <3>4. CallOf(t) \in CallType
      BY <1>1, <3>3, CallOfType
    <3>5. /\ b.type \in AnsweredTypes
          /\ CallOf(t).receives = IF b.type = "readMemory" THEN 2 ELSE 1
      BY <3>1, <3>3, <3>4 DEF CallType, IsRequestOf
    <3>6. Len(fromServer') = CallOf(t).receives
      BY <2>2, <3>2, <3>5 DEF AnsweredTypes
    <3>7. Len(fromServer') = CallOf(t)'.receives - th'[t].done
      BY <2>1, <2>5, <3>1, <3>5, <3>6
    <3>8. /\ \A i \in 1 .. Len(fromServer') : fromServer'[i].tag = Tag(t)'
          /\ fromServer'[1].tag = Tag(t)'
      BY <2>2, <2>5, <3>1, <3>2, <3>5, <3>6 DEF IsRequestOf
    <3>9. IsRequestOf(fromServer[1], t)'
      BY <2>1, <2>2, <2>5, <3>1, <3>2, <3>5, <3>8 DEF IsRequestOf
    <3>10. \A i \in 1 .. Len(toServer') : ~Asks(toServer'[i])
      BY <2>1, <2>8
    <3> QED  BY <3>7, <3>8, <3>9, <3>10 DEF Answered
  <2>9. ASSUME ~inErrorState, \A t \in Threads : ~At(t, "receive")
        PROVE  fromServer' = << >> /\ \A i \in 1 .. Len(toServer') : ~Asks(toServer'[i])
    <3>1. fromServer = << >> /\ \A i \in 1 .. n : ~Asks(toServer[i])
      BY <2>1, <2>9 DEF AnswersInv
    <3> QED  BY <2>1, <2>3, <3>1
  <2> QED  BY <2>1, <2>4, <2>5, <2>6, <2>7, <2>8, <2>9 DEF AnswersInv
<1>8. CASE SimulatorFinishes
  BY <1>8 DEF SimulatorFinishes, AnswersInv, AnswersToAskers, Asking, Answered, IsRequestOf,
              CallOf, Tag
<1>9. CASE ConnectionBreaks
  BY <1>9 DEF ConnectionBreaks, AnswersInv, AnswersToAskers, Asking, Answered, IsRequestOf,
              CallOf, Tag
<1>10. CASE UNCHANGED vars
  BY <1>10 DEF vars, AnswersInv, AnswersToAskers, Asking, Answered, IsRequestOf, CallOf, Tag
<1> QED  BY <1>2, <1>3, <1>4, <1>5, <1>6, <1>7, <1>8, <1>9, <1>10
         DEF Next, Continue, QuietStep

(***************************************************************************)
(* Garbage.  Only an error leaves a thread with a value it did not read,    *)
(* and after an error nothing is sent.                                      *)
(***************************************************************************)
LEMMA GarbageStep == ThreadsInv /\ AnswersInv /\ GarbageInv /\ [Next]_vars => GarbageInv'
<1> SUFFICES ASSUME ThreadsInv, AnswersInv, GarbageInv, [Next]_vars PROVE GarbageInv'
  OBVIOUS
<1>1. Typed /\ \A t \in Threads : InPlace(t)
  BY DEF ThreadsInv
<1>2. ASSUME NEW t \in Threads, QuietStep(t) PROVE GarbageInv'
  <2>1. QuietEffect(t)
    BY <1>2, QuietFacts
  <2>2. inErrorState => inErrorState'
    BY <1>1, <2>1 DEF QuietEffect, Typed
  <2> QED  BY <2>1, <2>2 DEF QuietEffect, GarbageInv, NoGarbageSent
<1>3. ASSUME NEW t \in Threads, SendWriteData(t) PROVE GarbageInv'
  <2>1. /\ \A u \in Threads : u # t => th'[u] = th[u]
        /\ At(t, "send")
        /\ SendsOn(t) \/ SendFails(t)
    BY <1>3, SendFacts
  <2>2. CASE SendFails(t)
    BY <2>2 DEF SendFails, GarbageInv, NoGarbageSent
  <2>3. CASE SendsOn(t)
    <3>1. /\ toServer' = Append(toServer, Buffer(t)) /\ ~inErrorState
          /\ inErrorState' = inErrorState
          /\ th'[t].value = "garbage" => th[t].value = "garbage"
      BY <2>3 DEF SendsOn
    <3>2. Buffer(t).value # "garbage"
      BY <2>1, <3>1, BufferFacts DEF GarbageInv
    <3>3. toServer \in Seq(BufferType) /\ Buffer(t) \in BufferType
      BY <1>1, <2>1, BufferFacts DEF Typed
    <3>4. /\ Len(toServer) \in Nat /\ Len(toServer') = Len(toServer) + 1
          /\ \A i \in 1 .. Len(toServer) : toServer'[i] = toServer[i]
          /\ toServer'[Len(toServer) + 1] = Buffer(t)
      BY <3>1, <3>3, AppendProperties, LenProperties
    <3>5. NoGarbageSent'
      BY <3>2, <3>4 DEF GarbageInv, NoGarbageSent
    <3> QED  BY <2>1, <3>1, <3>5 DEF GarbageInv
  <2> QED  BY <2>1, <2>2, <2>3
<1>4. ASSUME NEW t \in Threads, GetResponseData(t) PROVE GarbageInv'
  <2> DEFINE b == Head(fromServer)
  <2>1. /\ \A u \in Threads : u # t => th'[u] = th[u]
        /\ At(t, "receive") /\ fromServer # << >>
        /\ UNCHANGED <<transID, inErrorState, conn, toServer, sim>>
        /\ Receives(t, b)
    BY <1>4, ReceiveFacts
  <2>2. Answered(t) /\ b = fromServer[1]
    BY <2>1 DEF AnswersInv, Asking, b
  <2>3. ~OutOfSequence(t, b)
    BY <2>2 DEF Answered, OutOfSequence, IsRequestOf
  <2>4. th'[t].value = "garbage" => th[t].value = "garbage"
    BY <2>1, <2>3 DEF Receives
  <2> QED  BY <2>1, <2>4 DEF GarbageInv, NoGarbageSent
<1>5. ASSUME NEW t \in Threads, ReceiveFails(t) PROVE GarbageInv'
  BY <1>5, ReceiveFailsFacts DEF GarbageInv, NoGarbageSent, wire
<1>6. CASE Close
  BY <1>6, EmptySeq DEF Close, GarbageInv, NoGarbageSent
<1>7. CASE SimulatorTakes
  BY <1>1, <1>7, SimulatorFacts DEF GarbageInv, NoGarbageSent
<1>8. CASE SimulatorFinishes
  BY <1>8 DEF SimulatorFinishes, GarbageInv, NoGarbageSent
<1>9. CASE ConnectionBreaks
  BY <1>9 DEF ConnectionBreaks, GarbageInv, NoGarbageSent
<1>10. CASE UNCHANGED vars
  BY <1>10 DEF vars, GarbageInv, NoGarbageSent
<1> QED  BY <1>2, <1>3, <1>4, <1>5, <1>6, <1>7, <1>8, <1>9, <1>10
         DEF Next, Continue, QuietStep

-----------------------------------------------------------------------------
(* The invariant holds in every reachable state. *)
THEOREM InvHolds == Spec => []Inv
<1>1. Init => Inv
  BY InitInv
<1>2. Inv /\ [Next]_vars => Inv'
  BY ThreadsStep, FramingStep, AnswersStep, GarbageStep DEF Inv
<1> QED  BY <1>1, <1>2, PTL DEF Spec

(***************************************************************************)
(* However many threads share the socket and however their calls mix, the   *)
(* simulator receives whole requests, sent with the mutex held              *)
(* (sendWriteData within the calls of tbx_sockets_imp.cpp).                 *)
(***************************************************************************)
THEOREM RequestsAreWhole == Spec => []WellFramed
<1>1. Inv => WellFramed
  BY DEF Inv, ThreadsInv, FramingInv, Typed, InPlace, At, WellFramed, TypeOK, ThreadType
<1> QED  BY <1>1, InvHolds, PTL

(***************************************************************************)
(* No read is given the answer to another request and none is refused as    *)
(* out of sequence, although transID++ is not atomic and its numbers wrap   *)
(* and repeat.                                                              *)
(***************************************************************************)
THEOREM AnswersReachAskers == Spec => []AnswersToAskers
<1>1. Inv => AnswersToAskers
  BY DEF Inv, AnswersInv
<1> QED  BY <1>1, InvHolds, PTL

(***************************************************************************)
(* The masked writeMMIO of the stream ignores whether its read failed, and  *)
(* still no value that the read left uninitialized is sent.                 *)
(***************************************************************************)
THEOREM GarbageIsNotSent == Spec => []NoGarbageSent
<1>1. Inv => NoGarbageSent
  BY DEF Inv, GarbageInv
<1> QED  BY <1>1, InvHolds, PTL
=============================================================================
