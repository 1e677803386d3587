-------------------------- MODULE HardwareContext --------------------------
(***************************************************************************)
(* Submission through the ring of a hardware context, from                  *)
(* hardware_context_imp.cpp: submitBatchBuffer, pollForCompletion,          *)
(* pollForFenceCompletion, isActive, resubmit, and the release and          *)
(* initialize of a stream that is closed and opened again.                  *)
(*                                                                          *)
(* Every context has a thread of its own; the contexts share one engine and *)
(* the lock of one GGTT.  The ring is cut into units, CmdSize of which hold *)
(* what one submission writes: the jump to the batch, the flush and, in its *)
(* last unit, the store of the fence.                                       *)
(*                                                                          *)
(* The engine is not part of the repository.  It is modelled as the code    *)
(* uses it: submitted contexts are loaded in the order of their submission, *)
(* with the head and the tail of their image (LRCA); a loaded context runs  *)
(* to that tail, wrapping at the end of the ring, and its head is then      *)
(* saved.  EXECLIST_STATUS tells whether a context is loaded (low half) and *)
(* which was loaded last (high half).                                       *)
(***************************************************************************)
EXTENDS Integers, Sequences, FiniteSets, SequencesExt

CONSTANTS
    Contexts,   \* ungrouped contexts of one engine
    CmdSize,    \* sizeCommandsInBytes
    KeepsUp,    \* the engine never falls a whole lap of the ring behind
    MaxQueue,   \* bound: entries of the engine's queue a resubmit may add to
    Plans,      \* instances, by their names; a record of
                \*   ringSize  ringSize
                \*   fenceMod  2^32: contextFenceValue is a uint32_t
                \*   used      the contexts that are used
                \*   calls     the calls users make besides submitBatchBuffer
    None

ASSUME HardwareContextAssumption ==
    /\ IsFiniteSet(Contexts)
    /\ {CmdSize, MaxQueue} \subseteq Nat \ {0}
    /\ \A p \in DOMAIN Plans :
          /\ {Plans[p].ringSize, Plans[p].fenceMod} \subseteq Nat
          /\ 2 * CmdSize < Plans[p].ringSize
          /\ Plans[p].ringSize \div CmdSize + 1 < Plans[p].fenceMod
          /\ Plans[p].used \subseteq Contexts
          /\ Plans[p].calls \subseteq {"override", "poll", "isActive", "resubmit", "reopen"}
    /\ KeepsUp \in BOOLEAN
    /\ None \notin Contexts /\ None \notin Nat /\ None \notin BOOLEAN

VARIABLES
    pc,             \* where the thread of a context is
    local,          \* what submitBatchBuffer computed before it took the lock
    ringTail,       \* ringTail
    contextFence,   \* contextFenceValue
    ring,           \* the ring in GGTT memory
    lrca,           \* ring head and tail of the context image
    fenceMem,       \* the value at ggttContextFence
    lock,           \* who holds the lock of the GGTT
    engine,         \* queue, loaded context and its registers, last one loaded
    outstanding,    \* fences of the submissions that have not run
    query,          \* isActive: its answer, and what was true during the call
    plan            \* the instance of this behaviour

user == <<pc, local, ringTail, contextFence>>
memory == <<ring, lrca, fenceMem>>
vars == <<user, memory, lock, engine, outstanding, query, plan>>

RingSize == Plans[plan].ringSize
FenceMod == Plans[plan].fenceMod
Calls == Plans[plan].calls

Noop == [fence |-> None, unit |-> 0]
Cmd(f, i) == [fence |-> f, unit |-> i]

NoQuery == [answer |-> None, wasActive |-> FALSE, wasIdle |-> FALSE]

Init ==
    /\ plan \in DOMAIN Plans
    /\ pc = [c \in Contexts |-> "idle"]
    /\ local = [c \in Contexts |-> [fence |-> 0, override |-> FALSE]]
    /\ ringTail = [c \in Contexts |-> 0]
    /\ contextFence = [c \in Contexts |-> 0]
    /\ ring = [c \in Contexts |-> [u \in 0 .. RingSize - 1 |-> Noop]]
    /\ lrca = [c \in Contexts |-> [head |-> 0, tail |-> 0]]
    /\ fenceMem = [c \in Contexts |-> 0]
    /\ lock = None
    /\ engine = [queue |-> << >>, loaded |-> None, head |-> 0, tail |-> 0, last |-> None]
    /\ outstanding = [c \in Contexts |-> << >>]
    /\ query = [c \in Contexts |-> NoQuery]

(* The context is loaded, and where the engine goes on with it. *)
Active(c) == engine.loaded = c
HeadOf(c) == IF Active(c) THEN engine.head ELSE lrca[c].head

At(c, here) == pc[c] = here
Goto(c, there) == pc' = [pc EXCEPT ![c] = there]

-----------------------------------------------------------------------------
(* submitBatchBuffer *)

(* mutant: the fence is stored as it is, not one further *)
SameFence(f) == f

NextFence(f) == (f + 1) % FenceMod

(***************************************************************************)
(* The commands are put together before the lock is taken.  Nothing in the  *)
(* code looks at the head of the ring: KeepsUp says that the tail does not  *)
(* come round to it, where a full ring would look like an empty one.        *)
(***************************************************************************)
Prepare(c, override) ==
    /\ At(c, "idle")
    /\ KeepsUp => ringTail[c] + CmdSize # HeadOf(c)
    /\ override => "override" \in Calls /\ outstanding[c] = << >>
    /\ local' = [local EXCEPT ![c] =
                   [fence |-> NextFence(contextFence[c]), override |-> override]]
    /\ Goto(c, "lock")
    /\ UNCHANGED <<ringTail, contextFence, memory, lock, engine, outstanding, query>>

RingFull(tail) == tail + CmdSize >= RingSize

(* Under the lock; a full ring is padded with no-ops and begun again. *)
LockRing(c) ==
    /\ At(c, "lock")
    /\ lock = None
    /\ lock' = c
    /\ IF RingFull(ringTail[c])
       THEN /\ ring' = [ring EXCEPT ![c] =
                          [u \in DOMAIN @ |-> IF u >= ringTail[c] THEN Noop ELSE @[u]]]
            /\ ringTail' = [ringTail EXCEPT ![c] = 0]
            /\ Goto(c, "wait")
       ELSE Goto(c, "write") /\ UNCHANGED <<ring, ringTail>>
    /\ UNCHANGED <<local, contextFence, lrca, fenceMem, engine, outstanding, query>>

(* mutant: waits until everything is handed to the engine, not until it has run *)
QueueEmpty == engine.queue = << >>

EngineIdle == engine.queue = << >> /\ engine.loaded = None

(***************************************************************************)
(* pollForCompletion, with the lock held, by the status register.  The      *)
(* branch that polls the fence in memory is for helpers whose               *)
(* memoryBasedPollForCompletion says yes; that of no product does.          *)
(***************************************************************************)
PollForCompletion(c) ==
    /\ At(c, "wait")
    /\ EngineIdle
    /\ Goto(c, "write")
    /\ UNCHANGED <<local, ringTail, contextFence, memory, lock, engine, outstanding, query>>

(* The commands, the image and the submission; the lock goes with the scope. *)
Submit(c) ==
    LET tail == ringTail[c] + CmdSize
    IN  /\ At(c, "write")
        /\ contextFence' = [contextFence EXCEPT ![c] = (@ + 1) % FenceMod]
        /\ ring' = [ring EXCEPT ![c] =
                      [u \in DOMAIN @ |-> IF u \in ringTail[c] .. tail - 1
                                          THEN Cmd(local[c].fence, u - ringTail[c])
                                          ELSE @[u]]]
        /\ ringTail' = [ringTail EXCEPT ![c] = tail]
        /\ lrca' = [lrca EXCEPT ![c] =
                      [head |-> IF local[c].override THEN ringTail[c] ELSE @.head,
                       tail |-> tail]]
        /\ engine' = [engine EXCEPT !.queue = Append(@, c)]
        /\ outstanding' = [outstanding EXCEPT ![c] = Append(@, contextFence'[c])]
        /\ lock' = None
        /\ Goto(c, "idle")
        /\ UNCHANGED <<local, fenceMem, query>>

(* resubmit: the image as it is. *)
Resubmit(c) ==
    /\ "resubmit" \in Calls
    /\ At(c, "idle")
    /\ Len(engine.queue) < MaxQueue
    /\ engine' = [engine EXCEPT !.queue = Append(@, c)]
    /\ UNCHANGED <<user, memory, lock, outstanding, query>>

-----------------------------------------------------------------------------
(* pollForFenceCompletion: a loop that reads until the values agree. *)
StartFencePoll(c) ==
    /\ "poll" \in Calls
    /\ At(c, "idle")
    /\ Goto(c, "fencePoll")
    /\ UNCHANGED <<local, ringTail, contextFence, memory, lock, engine, outstanding, query>>

FencePollEnds(c) ==
    /\ At(c, "fencePoll")
    /\ fenceMem[c] = contextFence[c]
    /\ Goto(c, "idle")
    /\ UNCHANGED <<local, ringTail, contextFence, memory, lock, engine, outstanding, query>>

(***************************************************************************)
(* isActive: two reads of the halves of one register; the first one that    *)
(* says no ends the call.                                                   *)
(***************************************************************************)
(* mutant: the high half is read first *)
HighFirst == <<"high", "low">>

ReadOrder == <<"low", "high">>

StatusSays(half, c) ==
    IF half = "low" THEN engine.loaded # None ELSE engine.last = c

ReadFirstHalf(c) ==
    /\ "isActive" \in Calls
    /\ At(c, "idle")
    /\ LET says == StatusSays(ReadOrder[1], c)
       IN  /\ Goto(c, IF says THEN "isActive" ELSE "idle")
           /\ query' = [query EXCEPT ![c] = [answer |-> IF says THEN None ELSE FALSE,
                                             wasActive |-> Active(c),
                                             wasIdle |-> ~Active(c)]]
    /\ UNCHANGED <<local, ringTail, contextFence, memory, lock, engine, outstanding>>

ReadSecondHalf(c) ==
    /\ At(c, "isActive")
    /\ Goto(c, "idle")
    /\ query' = [query EXCEPT ![c].answer = StatusSays(ReadOrder[2], c)]
    /\ UNCHANGED <<local, ringTail, contextFence, memory, lock, engine, outstanding>>

(* mutant: the new fence starts at zero, contextFenceValue does not *)
ReopenWithFenceZero(c) ==
    /\ "reopen" \in Calls
    /\ At(c, "idle") /\ lock = None
    /\ outstanding[c] = << >> /\ engine.loaded # c /\ c \notin Range(engine.queue)
    /\ ring' = [ring EXCEPT ![c] = [u \in DOMAIN @ |-> Noop]]
    /\ lrca' = [lrca EXCEPT ![c] = [head |-> 0, tail |-> 0]]
    /\ fenceMem' = [fenceMem EXCEPT ![c] = 0]
    /\ UNCHANGED <<user, lock, engine, outstanding, query>>

(***************************************************************************)
(* close and open: release drops the images, initialize makes new ones.     *)
(* ringTail and contextFenceValue keep their values.  The user lets the     *)
(* engine finish with the context first.                                    *)
(***************************************************************************)
Reopen(c) ==
    /\ "reopen" \in Calls
    /\ At(c, "idle") /\ lock = None
    /\ outstanding[c] = << >> /\ engine.loaded # c /\ c \notin Range(engine.queue)
    /\ ring' = [ring EXCEPT ![c] = [u \in DOMAIN @ |-> Noop]]
    /\ lrca' = [lrca EXCEPT ![c] = [head |-> 0, tail |-> 0]]
    /\ fenceMem' = [fenceMem EXCEPT ![c] = contextFence[c]]
    /\ UNCHANGED <<user, lock, engine, outstanding, query>>

-----------------------------------------------------------------------------
(***************************************************************************)
(* The engine.  The oldest submission has run when its fence is stored.     *)
(***************************************************************************)

EngineLoad ==
    /\ engine.loaded = None /\ engine.queue # << >>
    /\ LET c == Head(engine.queue)
       IN  /\ engine' = [queue |-> Tail(engine.queue), loaded |-> c,
                         head |-> lrca[c].head, tail |-> lrca[c].tail, last |-> c]
           /\ query' = [query EXCEPT ![c].wasActive = TRUE]
    /\ UNCHANGED <<user, memory, lock, outstanding>>

EngineRun ==
    LET c == engine.loaded
        cmd == ring[c][engine.head]
        fences == cmd.unit = CmdSize - 1 /\ cmd.fence # None
    IN  /\ c # None
        /\ engine.head # engine.tail
        /\ engine' = [engine EXCEPT !.head = (@ + 1) % RingSize]
        /\ fenceMem' = [fenceMem EXCEPT ![c] = IF fences THEN cmd.fence ELSE @]
        /\ outstanding' = [outstanding EXCEPT ![c] =
                             IF fences /\ @ # << >> /\ Head(@) = cmd.fence THEN Tail(@) ELSE @]
        /\ UNCHANGED <<user, ring, lrca, lock, query>>

EngineUnload ==
    LET c == engine.loaded
    IN  /\ c # None
        /\ engine.head = engine.tail
        /\ engine' = [engine EXCEPT !.loaded = None]
        /\ lrca' = [lrca EXCEPT ![c].head = engine.head]
        /\ query' = [query EXCEPT ![c].wasIdle = TRUE]
        /\ UNCHANGED <<user, ring, fenceMem, lock, outstanding>>

EngineStep == EngineLoad \/ EngineRun \/ EngineUnload

(* What a thread does by itself once it is in a call and not blocked. *)
Continue(c) == PollForCompletion(c) \/ Submit(c) \/ FencePollEnds(c) \/ ReadSecondHalf(c)

Next ==
    /\ \/ \E c \in Plans[plan].used :
             \/ \E override \in BOOLEAN : Prepare(c, override)
             \/ LockRing(c)
             \/ Continue(c)
             \/ Resubmit(c)
             \/ StartFencePoll(c)
             \/ ReadFirstHalf(c)
             \/ Reopen(c)
       \/ EngineStep
    /\ UNCHANGED plan

Spec == Init /\ [][Next]_vars

(* Threads run and the engine works on what it was given. *)
FairSpec ==
    /\ Spec
    /\ WF_vars(EngineStep /\ UNCHANGED plan)
    /\ \A c \in Contexts : WF_vars(Continue(c) /\ UNCHANGED plan)

-----------------------------------------------------------------------------
Unit == [fence : {None} \cup 0 .. FenceMod - 1, unit : 0 .. CmdSize - 1]

(* Above all: heads and tails are places of the ring, also after a wrap. *)
TypeOK ==
    /\ pc \in [Contexts -> {"idle", "lock", "wait", "write", "fencePoll", "isActive"}]
    /\ local \in [Contexts -> [fence : 0 .. FenceMod - 1, override : BOOLEAN]]
    /\ ringTail \in [Contexts -> 0 .. RingSize - 1]
    /\ contextFence \in [Contexts -> 0 .. FenceMod - 1]
    /\ ring \in [Contexts -> [0 .. RingSize - 1 -> Unit]]
    /\ lrca \in [Contexts -> [head : 0 .. RingSize - 1, tail : 0 .. RingSize - 1]]
    /\ fenceMem \in [Contexts -> 0 .. FenceMod - 1]
    /\ lock \in Contexts \cup {None}
    /\ engine.queue \in Seq(Contexts)
    /\ engine.loaded \in Contexts \cup {None}
    /\ \A c \in Contexts : outstanding[c] \in Seq(0 .. FenceMod - 1)

(* The submissions that have not run end at the tail, one behind the other. *)
SizeOf(n) == n * CmdSize

Oldest(c) == lrca[c].tail - SizeOf(Len(outstanding[c]))

InRing(c, k, i) == ring[c][Oldest(c) + SizeOf(k - 1) + i]

(* The units from one place of the ring to another. *)
Way(from, to) ==
    IF from <= to THEN from .. to - 1 ELSE (from .. RingSize - 1) \cup (0 .. to - 1)

(***************************************************************************)
(* The engine will run exactly the submissions that have not run, in their  *)
(* order, each once: they are in the ring as they were written, none of     *)
(* them cut by the end of the ring; the head is in the oldest of them, or   *)
(* on its way to it over nothing but no-ops.  No command is overwritten     *)
(* before it ran, none is lost at a wrap and none is run again, whether the *)
(* head was overridden or the stream closed and opened in between.  Heads   *)
(* and tails are places of the ring.                                        *)
(***************************************************************************)
RingHoldsOutstanding ==
    TypeOK /\ \A c \in Contexts :
        /\ Oldest(c) >= 0
        /\ \A k \in 1 .. Len(outstanding[c]), i \in 0 .. CmdSize - 1 :
              InRing(c, k, i) = Cmd(outstanding[c][k], i)
        /\ outstanding[c] # << >> => HeadOf(c) # lrca[c].tail
        /\ \/ /\ outstanding[c] # << >>
              /\ HeadOf(c) - Oldest(c) \in 1 .. CmdSize - 1
           \/ \A u \in Way(HeadOf(c), Oldest(c)) : ring[c][u] = Noop

(***************************************************************************)
(* pollForFenceCompletion compares for equality: the value in memory is the *)
(* context's exactly when everything submitted has run.                     *)
(***************************************************************************)
FenceMeansDone ==
    \A c \in Contexts : (fenceMem[c] = contextFence[c]) <=> (outstanding[c] = << >>)

(***************************************************************************)
(* The comment in isActive: "Even if EXECLIST_STATUS will be modified       *)
(* between these reads isActive() still return correct result."  TRUE is    *)
(* correct if the context was loaded at some time during the call, FALSE if *)
(* at some time it was not.                                                 *)
(***************************************************************************)
IsActiveCorrect ==
    \A c \in Contexts :
        /\ query[c].answer = TRUE => query[c].wasActive
        /\ query[c].answer = FALSE => query[c].wasIdle

(* A thread that polls for the fence, or at a wrap, gets on. *)
PollsEnd ==
    \A c \in Contexts :
        /\ At(c, "fencePoll") ~> At(c, "idle")
        /\ At(c, "wait") ~> At(c, "write")
=============================================================================
