----------------------------- MODULE AubManager -----------------------------
(***************************************************************************)
(* AubManagerImp: create and delete, the streams of each mode, open and     *)
(* close, the CCS mode, the injected registers, the list of contexts and    *)
(* the two streams that feed a file and a simulator at once; and the global *)
(* Settings object that managers share.                                     *)
(*                                                                          *)
(* A sink is what it was last told for each key: a register, the memory or  *)
(* the entries of the GGTT.  Of the registers, "global" and "ccs" are in the *)
(* list of the Gpu (getGlobalMMIO), "bank" is setMemoryBankSize, "gsm" the  *)
(* GGTT base, "pools" the default memory pools, "pci" a register of the PCI *)
(* space, "other" is in no list.                                            *)
(* Packets, files that fail and sockets are in AubFile and TbxSockets, what *)
(* a context does in HardwareContext.                                       *)
(***************************************************************************)
EXTENDS StolenMemory, Sequences, SequencesExt

CONSTANTS
    Managers, Contexts,
    Options,    \* the options of a plan: name -> set of records
    Plans       \* bounds: [name, calls, opens, lifo, thread, lists, managers]

Modes == {"aubFile", "tbx", "aubFileAndTbx", "tbxShm", "tbxShm3", "tbxShm4",
          "aubFileAndShm", "aubFileAndShm4", "null"}

Registers == {"global", "ccs", "bank", "gsm", "pools", "pci", "other"}
Keys == Registers \cup {"memory", "ggtt"}

None == "none"      \* no value, no object

PlanFields == {"name", "calls", "opens", "lifo", "thread", "lists", "managers"}

ASSUME AubManagerAssumption ==
    /\ None \notin Managers \cup Contexts
    /\ \A p \in Plans : /\ DOMAIN p = PlanFields
                        /\ {p.calls, p.opens} \subseteq Nat
                        /\ {p.lifo, p.thread} \subseteq BOOLEAN
                        /\ p.managers \subseteq Managers
                        /\ \A o \in Options[p.name] : o.mode \in Modes

VARIABLES
    plan,
    globalSettings, \* the Settings object it points to: the manager that made it
    alive,          \* the Settings objects that exist
    injected,       \* MMIOListInjected
    mgr,            \* the managers
    ctx,            \* the contexts
    releasing,      \* the context another thread has erased and will delete
    undefined       \* the program used what was not there: which

vars == <<plan, globalSettings, alive, injected, mgr, ctx, releasing, undefined>>

-----------------------------------------------------------------------------
(* createStream and getStream *)

FileModes == {"aubFile", "aubFileAndTbx", "aubFileAndShm", "aubFileAndShm4"}
TbxModes == {"tbx", "aubFileAndTbx"}
ShmModes == {"tbxShm", "aubFileAndShm", "tbxShm4", "aubFileAndShm4"}
BothShm == {"aubFileAndShm", "aubFileAndShm4"}
BothModes == BothShm \cup {"aubFileAndTbx"}

(* Shared memory needs the caller's system memory; version 3 none, and no Gen12lp. *)
NoShm(o) ==
    \/ o.mode \in ShmModes /\ ~o.sysMem
    \/ o.mode = "tbxShm3" /\ (o.sysMem \/ o.localMem \/ o.gpu = "gen12lp")

HasFile(o) == o.mode \in FileModes
HasSim(o) == o.mode \notin {"null", "aubFile"}

(***************************************************************************)
(* How create ends.  Without the shared memory, the stream for both sinks   *)
(* is made from a null reference and used; with an exception the manager is *)
(* never deleted.  In mode null there is no stream to look for, but         *)
(* initialize looks, and getStream throws.                                  *)
(***************************************************************************)
Outcome(o) ==
    IF o.gpu = None THEN "refused"
    ELSE IF ~ValidSizes(o) THEN IF o.mode = "null" THEN "created" ELSE "deleted"
    ELSE IF o.mode = "null" THEN IF o.throw THEN "thrown" ELSE "created"
    ELSE IF ~NoShm(o) THEN "created"
    ELSE IF o.throw THEN "thrown"
    ELSE IF o.mode \in BothShm THEN "undefined"
    ELSE "deleted"

-----------------------------------------------------------------------------
(* The sinks *)

Update(f, new) == [k \in DOMAIN f |-> IF k \in DOMAIN new THEN new[k] ELSE f[k]]

Nothing == [k \in Keys |-> None]

(* AubFileStream::writePCICFG is empty (AubShmStream calls the simulator twice). *)
NotForFile(k) == k = "pci"

(* What goes to the file waits for it before it is opened. *)
PutFile(M, new) ==
    IF M.isOpen THEN [M EXCEPT !.file = Update(@, new)] ELSE [M EXCEPT !.held = Update(@, new)]

PutSim(M, new) == [M EXCEPT !.sim = Update(@, new)]

ToFile(M) == HasFile(M.opts) /\ ~M.paused

(* Only the writes of memory are blocked, of GGTT entries never. *)
ToSim(M, k) == HasSim(M.opts) /\ ~(M.blocked /\ k = "memory")

(***************************************************************************)
(* A call on the stream of the manager: AubTbxStream and AubShmStream pass  *)
(* it to the file, unless paused, and to the simulator; the others to their *)
(* one sink.                                                                *)
(***************************************************************************)
Put(M, k, v) ==
    LET new == [x \in {k} |-> v]
        F == IF ToFile(M) /\ ~NotForFile(k) THEN PutFile(M, new) ELSE M
    IN IF ToSim(M, k) THEN PutSim(F, new) ELSE F

(* getGlobalMMIO: Gen12lp has no CCS mode in it. *)
GlobalMMIO(o) == {"global"} \cup (IF o.gpu = "gen12lp" THEN {} ELSE {"ccs"})

(* setMemoryBankSize and setGGTTBaseAddresses may write nothing. *)
BankSize(o) == {k \in {"bank"} : DOMAIN setMemoryBankSize(o) # {}}
GgttBase(o) == [k \in {x \in {"gsm"} : DOMAIN setGGTTBaseAddresses(o) # {}} |-> "gsm"]

(* initializeGlobalMMIO and setMemoryBankSize *)
GlobalList(o) == [k \in GlobalMMIO(o) \cup BankSize(o) |-> IF k = "ccs" THEN "ccs1" ELSE k]

(* Registers that open writes for the file alone. *)
Listed(o) == DOMAIN GlobalList(o) \cup DOMAIN injected

(* What initialize tells a simulator first ... *)
SimStart(o) == Update(Update(Nothing, GlobalList(o)), GgttBase(o))

(* mutant: the injected registers are for files only *)
NotInjected(M) == M

(* ... and what last. *)
InjectSim(M) == IF HasSim(M.opts) THEN PutSim(M, injected) ELSE M

-----------------------------------------------------------------------------
(* create, delete and the settings *)

Idle == [op |-> "idle"]

NoManager == [state |-> "none"]

NewManager(o, own) ==
    [state |-> "live", opts |-> o, own |-> own, ccsCount |-> 0, hwContexts |-> << >>,
     paused |-> FALSE, blocked |-> FALSE, isOpen |-> FALSE, fileNo |-> 0,
     file |-> Nothing, held |-> Nothing, sim |-> Nothing, work |-> Idle,
     differ |-> {}, raced |-> FALSE, skipped |-> FALSE, threw |-> FALSE]

(* initialize(): null mode, and sizes that are not valid, end it at once; no pools on Gen12lp. *)
Initialized(o, own) ==
    LET M == NewManager(o, own)
        S == IF HasSim(o) THEN PutSim(M, SimStart(o)) ELSE M
        P == IF o.gpu = "gen12lp" THEN S ELSE Put(S, "pools", "pools")
    IN IF o.mode = "null" THEN M ELSE InjectSim(P)

Live == {m \in Managers : mgr[m].state = "live"}

Init ==
    /\ plan \in Plans
    /\ globalSettings = None
    /\ alive = {}
    /\ injected \in plan.lists
    /\ mgr = [m \in Managers |-> NoManager]
    /\ ctx = [c \in Contexts |-> [state |-> "none"]]
    /\ releasing = None
    /\ undefined = None

(* One thread, or one that makes and releases contexts beside another. *)
Running ==
    /\ undefined = None
    /\ plan.calls > 0
    /\ plan.thread \/ releasing = None

CanStart(m) == m \in Live /\ mgr[m].work = Idle
CanRace(m) == m \in Live /\ (mgr[m].work = Idle \/ plan.thread)

Spend == plan' = [plan EXCEPT !.calls = @ - 1]

(* The Settings object create makes, or none. *)
NewSettings(m) == IF globalSettings = None THEN m ELSE None

(***************************************************************************)
(* A create that fails deletes its Settings on the way out; only deleting   *)
(* the manager clears the pointer to them.                                  *)
(***************************************************************************)
Create(m) ==
    /\ Running
    /\ m \in plan.managers \ Live
    /\ \E o \in Options[plan.name] :
         LET own == NewSettings(m)
             how == Outcome(o)
         IN /\ mgr' = [mgr EXCEPT ![m] = IF how = "created" THEN Initialized(o, own) ELSE @]
            /\ globalSettings' = IF own # None /\ how # "deleted" THEN own ELSE globalSettings
            /\ alive' = IF how = "created" THEN alive \cup ({own} \ {None}) ELSE alive
            /\ undefined' = IF how = "undefined" THEN "stream" ELSE None
    /\ Spend
    /\ UNCHANGED <<injected, ctx, releasing>>

(* mutant: the destructor clears the pointer whoever owns the settings *)
AlwaysCleared(m) == None

ClearedBy(m) == IF globalSettings = mgr[m].own THEN None ELSE globalSettings

(* Orderly users delete the managers in the opposite order, contexts before them. *)
DeletedInOrder(m) == plan.lifo => \A n \in Live : mgr[m].own = None \/ n = m

Delete(m) ==
    /\ Running
    /\ CanStart(m)
    /\ mgr[m].hwContexts = << >> /\ releasing = None
    /\ DeletedInOrder(m)
    /\ globalSettings' = ClearedBy(m)
    /\ alive' = alive \ {mgr[m].own}
    /\ mgr' = [mgr EXCEPT ![m] = NoManager]
    /\ Spend
    /\ UNCHANGED <<injected, ctx, releasing, undefined>>

(* injectMMIOList and injectMaskedMMIOList, of the library, at any time *)
InjectMMIOList ==
    /\ Running
    /\ injected' \in plan.lists
    /\ mgr' = [m \in Managers |->
                IF m \in Live
                THEN [mgr[m] EXCEPT !.differ = @ \cup DOMAIN injected \cup DOMAIN injected']
                ELSE mgr[m]]
    /\ Spend
    /\ UNCHANGED <<globalSettings, alive, ctx, releasing, undefined>>

-----------------------------------------------------------------------------
(* Contexts *)

Looping(M) == M.work.op = "loop"

(* The file a context is written to when it is initialised now; 0 for none. *)
Where(M) ==
    IF ~ToFile(M) THEN 0 ELSE IF M.isOpen THEN M.fileNo ELSE M.fileNo + 1

(* initialize() of a context does nothing the second time. *)
InitializeContext(M, x) ==
    IF x.ready THEN x ELSE [x EXCEPT !.ready = TRUE, !.where = Where(M)]

ReleaseOf(x) == [x EXCEPT !.ready = FALSE, !.where = 0]

(* createHardwareContext; the constructor logs, through globalSettings. *)
CreateContext(m, c) ==
    /\ Running
    /\ CanRace(m)
    /\ ctx[c].state = "none"
    /\ IF mgr[m].opts.mode # "null" /\ globalSettings \notin alive
       THEN undefined' = "settings" /\ UNCHANGED <<mgr, ctx>>
       ELSE /\ ctx' = [ctx EXCEPT ![c] = [state |-> "live", of |-> m, ready |-> FALSE,
                                          where |-> 0, born |-> mgr[m].fileNo]]
            /\ mgr' = [mgr EXCEPT ![m].hwContexts = Append(@, c),
                                  ![m].raced = @ \/ Looping(mgr[m])]
            /\ UNCHANGED undefined
    /\ Spend
    /\ UNCHANGED <<globalSettings, alive, injected, releasing>>

(* releaseHardwareContext takes the context out under the lock ... *)
EraseContext(c) ==
    /\ Running /\ releasing = None
    /\ ctx[c].state = "live"
    /\ CanRace(ctx[c].of)
    /\ LET M == mgr[ctx[c].of]
       IN \E i \in 1 .. Len(M.hwContexts) :
             /\ M.hwContexts[i] = c
             /\ mgr' = [mgr EXCEPT ![ctx[c].of].hwContexts = RemoveAt(@, i),
                                   ![ctx[c].of].raced = @ \/ Looping(M)]
    /\ releasing' = c
    /\ Spend
    /\ UNCHANGED <<globalSettings, alive, injected, ctx, undefined>>

(* ... and deletes it without. *)
DeleteContext ==
    /\ undefined = None
    /\ releasing # None
    /\ ctx' = [ctx EXCEPT ![releasing] = [state |-> "deleted"]]
    /\ releasing' = None
    /\ UNCHANGED <<plan, globalSettings, alive, injected, mgr, undefined>>

(* The caller's initialize() of a context. *)
UserInitialize(c) ==
    /\ Running
    /\ ctx[c].state = "live" /\ ~ctx[c].ready /\ releasing # c
    /\ CanStart(ctx[c].of)
    /\ ctx' = [ctx EXCEPT ![c] = InitializeContext(mgr[@.of], @)]
    /\ Spend
    /\ UNCHANGED <<globalSettings, alive, injected, mgr, releasing, undefined>>

-----------------------------------------------------------------------------
(* Calls on the streams *)

(* What one of the sinks misses. *)
Muted(M, k) == M.paused \/ (M.blocked /\ k = "memory")

(* writeMMIO, writePCICFG, writeMemory and the GGTT entries of a context *)
UserWrite(m, k) ==
    /\ Running
    /\ CanStart(m)
    /\ LET M == Put(mgr[m], k, "user")
           late == ~M.isOpen /\ k \in Listed(M.opts)
       IN mgr' = [mgr EXCEPT ![m] =
                    [M EXCEPT !.differ = IF Muted(M, k) \/ late THEN @ \cup {k} ELSE @ \ {k}]]
    /\ Spend
    /\ UNCHANGED <<globalSettings, alive, injected, ctx, releasing, undefined>>

Pause(m) ==
    /\ Running
    /\ CanStart(m)
    /\ mgr[m].opts.mode \in BothModes
    /\ mgr' = [mgr EXCEPT ![m].paused = ~@]
    /\ Spend
    /\ UNCHANGED <<globalSettings, alive, injected, ctx, releasing, undefined>>

BlockMemWritesViaTbx(m) ==
    /\ Running
    /\ CanStart(m)
    /\ mgr[m].opts.mode \in BothShm
    /\ mgr' = [mgr EXCEPT ![m].blocked = ~@]
    /\ Spend
    /\ UNCHANGED <<globalSettings, alive, injected, ctx, releasing, undefined>>

-----------------------------------------------------------------------------
(* The CCS mode *)

CcsValue(count) == IF count <= 1 THEN "ccs1" ELSE IF count = 2 THEN "ccs2" ELSE "ccs4"

SetCCSMode(m) ==
    /\ Running
    /\ CanStart(m)
    /\ \E n \in {2, 8} :
         mgr' = [mgr EXCEPT ![m].work = [op |-> "check", count |-> n, opening |-> FALSE]]
    /\ Spend
    /\ UNCHANGED <<globalSettings, alive, injected, ctx, releasing, undefined>>

AfterMode(M) == IF M.work.opening THEN [op |-> "inject"] ELSE Idle

(***************************************************************************)
(* With contexts there is no change of the mode, and an exception leaves    *)
(* setCCSMode, and open, which calls it.                                    *)
(***************************************************************************)
Refuse(M) ==
    LET kept == IF M.work.opening THEN {"ccs"} ELSE {}
        lost == IF M.work.opening THEN {"ccs"} \cup DOMAIN injected ELSE {}
    IN IF M.opts.throw
       THEN [M EXCEPT !.work = Idle, !.threw = @ \/ M.work.opening, !.differ = @ \cup lost]
       ELSE [M EXCEPT !.work = AfterMode(M), !.differ = @ \cup kept]

(* The list is looked at under the lock, the registers are written without it. *)
CheckContexts(m) ==
    /\ undefined = None
    /\ m \in Live /\ mgr[m].work.op = "check"
    /\ LET M == mgr[m]
       IN mgr' = [mgr EXCEPT ![m] =
                    IF M.hwContexts # << >> THEN Refuse(M)
                    ELSE [M EXCEPT !.ccsCount = M.work.count, !.work.op = "write"]]
    /\ UNCHANGED <<plan, globalSettings, alive, injected, ctx, releasing, undefined>>

WriteMode(m) ==
    /\ undefined = None
    /\ m \in Live /\ mgr[m].work.op = "write"
    /\ LET M == Put(mgr[m], "ccs", CcsValue(mgr[m].work.count))
       IN mgr' = [mgr EXCEPT ![m] =
                    [M EXCEPT !.work = AfterMode(M),
                              !.differ = IF Muted(M, "ccs") THEN @ \cup {"ccs"} ELSE @ \ {"ccs"}]]
    /\ UNCHANGED <<plan, globalSettings, alive, injected, ctx, releasing, undefined>>

-----------------------------------------------------------------------------
(* open and close *)

Loop(M, kind) == [op |-> "loop", kind |-> kind, at |-> 1, list |-> M.hwContexts]

(* The start of a file: what waited for it, then the global registers. *)
FileStart(M) == Update(M.held, GlobalList(M.opts))

(* mutant: open leaves the CCS mode as the global registers have set it *)
ForgetMode(M) ==
    [M EXCEPT !.isOpen = TRUE, !.fileNo = @ + 1, !.file = FileStart(M), !.held = Nothing,
              !.work = [op |-> "inject"], !.threw = FALSE, !.raced = FALSE]

OpenFile(M) ==
    [M EXCEPT !.isOpen = TRUE, !.fileNo = @ + 1, !.file = FileStart(M), !.held = Nothing,
              !.work = [op |-> "check", count |-> M.ccsCount, opening |-> TRUE],
              !.threw = FALSE, !.raced = FALSE]

Open(m) ==
    /\ Running /\ plan.opens > 0
    /\ CanStart(m) /\ ~mgr[m].isOpen
    /\ LET M == mgr[m]
       IN mgr' = [mgr EXCEPT ![m] = IF HasFile(M.opts) THEN OpenFile(M)
                                    ELSE [M EXCEPT !.work = Loop(M, "open"), !.raced = FALSE]]
    /\ plan' = [plan EXCEPT !.opens = @ - 1]
    /\ UNCHANGED <<globalSettings, alive, injected, ctx, releasing, undefined>>

(* setCCSMode has undone in the simulator an injected CCS mode. *)
InjectMMIOs(m) ==
    /\ undefined = None
    /\ m \in Live /\ mgr[m].work.op = "inject"
    /\ LET M == PutFile(mgr[m], injected)
       IN mgr' = [mgr EXCEPT ![m] = [M EXCEPT !.work = Loop(M, "open"),
                                              !.differ = @ \cup (DOMAIN injected \cap {"ccs"})]]
    /\ UNCHANGED <<plan, globalSettings, alive, injected, ctx, releasing, undefined>>

(***************************************************************************)
(* A step of the loop over hwContexts, which holds no lock.  When the list  *)
(* changes meanwhile it reads the old elements or the new ones.             *)
(***************************************************************************)
LoopStep(m) ==
    /\ undefined = None
    /\ m \in Live /\ Looping(mgr[m])
    /\ LET M == mgr[m]
           i == M.work.at
       IN /\ i <= Len(M.work.list)
          /\ \E s \in IF M.raced THEN {M.work.list, M.hwContexts} ELSE {M.work.list} :
               /\ i <= Len(s)
               /\ IF ctx[s[i]].state = "live"
                  THEN /\ ctx' = [ctx EXCEPT ![s[i]] = IF M.work.kind = "open"
                                                       THEN InitializeContext(M, @)
                                                       ELSE ReleaseOf(@)]
                       /\ mgr' = [mgr EXCEPT ![m].work.at = @ + 1]
                       /\ UNCHANGED undefined
                  ELSE /\ undefined' = IF M.raced THEN "race" ELSE "context"
                       /\ UNCHANGED <<ctx, mgr>>
    /\ UNCHANGED <<plan, globalSettings, alive, injected, releasing>>

(* mutant: close leaves the contexts as they are *)
FileClosedOnly(M) == [op |-> "loop", kind |-> "close", at |-> 1, list |-> << >>]

ReleaseLoop(M) == Loop(M, "close")

Close(m) ==
    /\ Running
    /\ CanStart(m)
    /\ mgr' = [mgr EXCEPT ![m].work = ReleaseLoop(mgr[m]), ![m].raced = FALSE]
    /\ Spend
    /\ UNCHANGED <<globalSettings, alive, injected, ctx, releasing, undefined>>

LoopEnd(m) ==
    /\ undefined = None
    /\ m \in Live /\ Looping(mgr[m])
    /\ mgr[m].work.at > Len(mgr[m].work.list)
    /\ LET M == mgr[m]
           closed == M.work.kind = "close"
       IN mgr' = [mgr EXCEPT ![m] =
                    [M EXCEPT !.work = Idle, !.isOpen = @ /\ ~closed,
                              !.skipped = IF closed THEN M.raced ELSE @]]
    /\ UNCHANGED <<plan, globalSettings, alive, injected, ctx, releasing, undefined>>

UserCall(m) ==
    \/ Delete(m) \/ Open(m) \/ Close(m) \/ SetCCSMode(m)
    \/ Pause(m) \/ BlockMemWritesViaTbx(m)
    \/ \E k \in {"global", "pci", "other", "memory", "ggtt"} : UserWrite(m, k)
    \/ \E c \in Contexts : CreateContext(m, c)

ContextCall == \E c \in Contexts : EraseContext(c) \/ UserInitialize(c)

WorkStep(m) == CheckContexts(m) \/ WriteMode(m) \/ InjectMMIOs(m) \/ LoopStep(m) \/ LoopEnd(m)

Next ==
    \/ \E m \in Managers : Create(m) \/ UserCall(m) \/ WorkStep(m)
    \/ ContextCall
    \/ DeleteContext
    \/ InjectMMIOList

Spec == Init /\ [][Next]_vars

-----------------------------------------------------------------------------
(* Properties *)

TypeOK ==
    /\ globalSettings \in Managers \cup {None}
    /\ alive \subseteq Managers
    /\ undefined \in {None, "stream", "settings", "context", "race"}
    /\ releasing \in Contexts \cup {None}
    /\ \A m \in Live : /\ mgr[m].own \in alive \cup {None}
                        /\ \A k \in Keys : mgr[m].sim[k] # None => HasSim(mgr[m].opts)
                        /\ \A c \in ToSet(mgr[m].hwContexts) : ctx[c].state = "live"

(***************************************************************************)
(* While a manager lives, globalSettings points to an object that exists:   *)
(* every log line, every new context and every submission reads it.  So it  *)
(* is if the manager that made the object is deleted last and no create     *)
(* ends with an exception or without a Gpu.  And open and close touch only  *)
(* contexts that exist, as long as no other thread makes or releases one    *)
(* while they go through the list.                                          *)
(***************************************************************************)
OnlyLiveUsed ==
    /\ TypeOK
    /\ plan.lifo /\ Live # {} => globalSettings \in alive
    /\ undefined # "context"

(* Told to simulators only: the GGTT base, by initialize, and the PCI space. *)
SimulatorOnly == {"gsm", "pci"}

(***************************************************************************)
(* After open the first file and the simulator agree on the memory and on   *)
(* every register but two that only a simulator is told: what open repeats  *)
(* for the file is what initialize told the simulator, and later writes     *)
(* reach both.  The exceptions are what the caller told one of them only,   *)
(* or wrote before open to a register that open writes again, and the CCS   *)
(* mode if it is injected or open comes when there are contexts.            *)
(* A later file is told no more than what open writes: the CCS mode, the    *)
(* global registers with the size of the banks, and the injected ones.  On  *)
(* these it agrees with the simulator, unless the caller has written them:  *)
(* then the simulator keeps that value and the file has the one of open.    *)
(***************************************************************************)
Compared(M) ==
    (IF M.fileNo = 1 THEN Keys
     ELSE {k \in Keys : k \in Listed(M.opts) \cup {"ccs"} /\ M.sim[k] # "user"})
    \ (SimulatorOnly \cup M.differ)

SinksAgree ==
    \A m \in Live : LET M == mgr[m] IN
        M.isOpen /\ M.work = Idle /\ HasSim(M.opts)
            => \A k \in Compared(M) : M.file[k] = M.sim[k]

(***************************************************************************)
(* Once open has returned, the contexts made before it are initialised, and *)
(* whatever is initialised is in this file, not only in an earlier one      *)
(* (a pause apart): open goes on when it cannot set the CCS mode, and close *)
(* makes contexts ready to be initialised again.  The exceptions are an     *)
(* open that raced with another thread, and a close that did, which may     *)
(* have skipped a context.                                                  *)
(***************************************************************************)
ContextsInFile ==
    \A m \in Live : LET M == mgr[m] IN
        M.isOpen /\ M.work = Idle /\ ~M.raced /\ ~M.skipped /\ ~M.threw
            => \A c \in ToSet(M.hwContexts) :
                 /\ ctx[c].born < M.fileNo => ctx[c].ready
                 /\ ctx[c].ready => ctx[c].where \in {0, M.fileNo}

(* The sinks have been told a mode at all. *)
Known(M) == "ccs" \in GlobalMMIO(M.opts) \/ M.ccsCount > 0

(***************************************************************************)
(* Both sinks have the CCS mode of the last setCCSMode: open tells it to    *)
(* every new file, whose global registers have set it back.  The exceptions *)
(* are an injected mode, a pause, open when there are contexts, where       *)
(* setCCSMode refuses, and Gen12lp before the first setCCSMode.             *)
(***************************************************************************)
CcsModeKept ==
    \A m \in Live : LET M == mgr[m] IN
        M.work = Idle /\ Known(M) /\ "ccs" \notin M.differ \cup DOMAIN injected
            => /\ M.isOpen => M.file["ccs"] = CcsValue(M.ccsCount)
               /\ HasSim(M.opts) => M.sim["ccs"] = CcsValue(M.ccsCount)

(***************************************************************************)
(* A manager that create returned has memory for the GGTT of each device    *)
(* within the bank of the device, clear of the flat CCS, of the DSM, of the *)
(* other devices and of the WOPCM.  The registers tell the hardware where   *)
(* that memory is: base and size of the DSM, the GGTT, the WOPCM (for Xe2   *)
(* if it has the default size) and the flat CCS, whose parts over all L3    *)
(* banks lie in its region and have the size it needs.                      *)
(***************************************************************************)
StolenLayout ==
    \A m \in Live : LET o == mgr[m].opts IN
        o.mode \notin {"null", "tbxShm3"} /\ o.gpu # "gen12lp"
            => /\ SoundLayout(o) /\ WopcmInDsm(o)
               /\ BasesDescribeLayout(o) /\ DescribesLayout(o)
=============================================================================
