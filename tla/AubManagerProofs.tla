-------------------------- MODULE AubManagerProofs --------------------------
(***************************************************************************)
(* Proofs about the managers, for any managers, contexts, options and       *)
(* injected lists, and threads that make and release contexts at any time:   *)
(* only live contexts and settings are used, the sinks agree, they keep the  *)
(* CCS mode, and an open leaves the contexts in its file.                    *)
(***************************************************************************)
EXTENDS AubManager, SequenceTheorems, TLAPS

Fields == {"state", "opts", "own", "ccsCount", "hwContexts", "paused", "blocked", "isOpen",
           "fileNo", "file", "held", "sim", "work", "differ", "raced", "skipped", "threw"}

WorkType ==
    {Idle, [op |-> "inject"]}
    \cup [op : {"check", "write"}, count : Nat, opening : BOOLEAN]
    \cup [op : {"loop"}, kind : {"open", "close"}, at : Nat \ {0}, list : Seq(Contexts)]

(* Work that open does, before its loop. *)
Opening(M) ==
    M.work.op = "inject" \/ (M.work.op \in {"check", "write"} /\ M.work.opening)

(* A manager that exists. *)
Proper(M) ==
    /\ DOMAIN M = Fields
    /\ M.state = "live"
    /\ M.ccsCount \in Nat /\ M.fileNo \in Nat
    /\ M.hwContexts \in Seq(Contexts)
    /\ M.work \in WorkType
    /\ DOMAIN M.file = Keys /\ DOMAIN M.held = Keys /\ DOMAIN M.sim = Keys
    /\ {M.paused, M.blocked, M.isOpen, M.raced, M.skipped, M.threw} \subseteq BOOLEAN
    /\ M.isOpen => HasFile(M.opts) /\ M.fileNo > 0
    /\ Opening(M) => M.isOpen
    /\ ~HasSim(M.opts) => \A k \in Keys : M.sim[k] = None

(***************************************************************************)
(* The CCS mode, between the calls and while they are at work: setCCSMode   *)
(* stores it before it writes it, and the file that open has begun has the  *)
(* mode of the global registers until then.                                 *)
(***************************************************************************)
CcsKept(M, inj) ==
    /\ M.work.op = "write" => M.work.count = M.ccsCount
    /\ M.work.op = "check" /\ M.work.opening => M.work.count = M.ccsCount
    /\ Known(M) /\ "ccs" \notin M.differ \cup DOMAIN inj /\ M.work.op # "write" =>
         /\ HasSim(M.opts) => M.sim["ccs"] = CcsValue(M.ccsCount)
         /\ M.isOpen /\ (M.work.op = "check" => ~M.work.opening)
              => M.file["ccs"] = CcsValue(M.ccsCount)

(* What the file has, or will have when open gets to the loop. *)
InFile(M, inj, k) ==
    IF M.isOpen
    THEN IF Opening(M) /\ k \in DOMAIN inj THEN inj[k] ELSE M.file[k]
    ELSE Update(Update(M.held, GlobalList(M.opts)), inj)[k]

(* The registers that open writes, the CCS mode apart. *)
Repeated(M, inj) ==
    {k \in Keys \ (SimulatorOnly \cup {"ccs"}) : k \in DOMAIN GlobalList(M.opts) \cup DOMAIN inj}

(* The keys on which they agree, before open as well. *)
Same(M, inj) ==
    IF M.fileNo = 0 \/ (M.fileNo = 1 /\ M.isOpen)
    THEN Keys \ (SimulatorOnly \cup {"ccs"} \cup M.differ)
    ELSE {k \in Repeated(M, inj) : M.sim[k] # "user"} \ M.differ

(* What open writes for a key. *)
Start(M, inj, k) == IF k \in DOMAIN inj THEN inj[k] ELSE GlobalList(M.opts)[k]

(* The simulator has what open writes to every file, or what the caller wrote. *)
ListTold(M, inj) ==
    HasSim(M.opts) /\ HasFile(M.opts) =>
        \A k \in Repeated(M, inj) \ M.differ : M.sim[k] \in {"user", Start(M, inj, k)}

(* Open has yet to set the CCS mode. *)
Unset(M) == M.work.op \in {"check", "write"} /\ M.work.opening

Agree(M, inj) ==
    /\ ListTold(M, inj)
    /\ HasSim(M.opts) /\ HasFile(M.opts) =>
         /\ \A k \in Same(M, inj) : InFile(M, inj, k) = M.sim[k]
         /\ M.isOpen /\ "ccs" \notin M.differ /\ ~Unset(M) => M.file["ccs"] = M.sim["ccs"]

ManagersInv ==
    /\ mgr = [m \in Managers |-> mgr[m]]
    /\ \A m \in Managers : mgr[m] = NoManager \/ Proper(mgr[m])
    /\ \A m \in Live : CcsKept(mgr[m], injected) /\ Agree(mgr[m], injected)

-----------------------------------------------------------------------------
(* An orderly program's creates do not end before the stream is made. *)
OrderlyOptions ==
    plan.lifo => \A o \in Options[plan.name] : Outcome(o) \notin {"refused", "thrown"}

SettingsInv ==
    /\ DOMAIN plan = PlanFields
    /\ OrderlyOptions
    /\ globalSettings \in Managers \cup {None}
    /\ \A a \in alive : a \in Live /\ mgr[a].own = a
    /\ \A m \in Live : mgr[m].own \in {m, None} /\ (mgr[m].own = m => m \in alive)
    /\ plan.lifo =>
         IF Live # {} THEN globalSettings \in alive ELSE undefined = None => globalSettings = None

-----------------------------------------------------------------------------
CtxFields == {"state", "of", "ready", "where", "born"}

ProperContext(x) ==
    /\ x.state \in {"none", "live", "deleted"}
    /\ x.state = "live" => /\ DOMAIN x = CtxFields
                           /\ x.of \in Managers /\ x.ready \in BOOLEAN
                           /\ x.where \in Nat /\ x.born \in Nat

(* The list of a manager has its live contexts, each once, but for one being deleted. *)
ListInv ==
    /\ \A m \in Live : \A i \in 1 .. Len(mgr[m].hwContexts) :
         LET c == mgr[m].hwContexts[i]
         IN /\ ctx[c].state = "live" /\ ctx[c].of = m /\ c # releasing
            /\ \A j \in 1 .. Len(mgr[m].hwContexts) : mgr[m].hwContexts[j] = c => j = i
    /\ \A c \in Contexts : ctx[c].state = "live" /\ c # releasing =>
         /\ ctx[c].of \in Live
         /\ \E i \in 1 .. Len(mgr[ctx[c].of].hwContexts) : mgr[ctx[c].of].hwContexts[i] = c
    /\ releasing # None => ctx[releasing].state = "live"

(* A loop goes over the list, or one that it was. *)
LoopInv ==
    \A m \in Live : Looping(mgr[m]) =>
        /\ ~mgr[m].raced => mgr[m].work.list = mgr[m].hwContexts
        /\ \A i \in 1 .. Len(mgr[m].work.list) :
             LET x == ctx[mgr[m].work.list[i]]
             IN x.state # "none" /\ (x.state = "live" => x.of = m)

(* The file of contexts that are initialised now. *)
Target(M) == IF M.isOpen THEN M.fileNo ELSE M.fileNo + 1

Settled(M) == M.work = Idle \/ (M.work.op \in {"check", "write"} /\ ~M.work.opening)

(* The context at i of the list of a manager. *)
Placed(M, i, x) ==
    /\ x.born <= M.fileNo
    /\ ~M.skipped /\ x.ready => x.where \in {0, Target(M)}
    /\ Looping(M) /\ ~M.raced /\ i < M.work.at => (x.ready <=> M.work.kind = "open")
    /\ M.isOpen /\ ~M.raced /\ ~M.threw /\ Settled(M) /\ x.born < M.fileNo => x.ready

PlacedInv ==
    \A m \in Live : \A i \in 1 .. Len(mgr[m].hwContexts) :
        Placed(mgr[m], i, ctx[mgr[m].hwContexts[i]])

ContextsInv ==
    /\ DOMAIN ctx = Contexts
    /\ releasing \in Contexts \cup {None}
    /\ undefined \in {None, "stream", "settings", "race"}
    /\ \A c \in Contexts : ProperContext(ctx[c])
    /\ ListInv /\ LoopInv /\ PlacedInv

-----------------------------------------------------------------------------
(* The sinks *)

(* Everything but some fields is as it was. *)
Changes(M, N, F) == DOMAIN N = Fields /\ \A f \in Fields \ F : N[f] = M[f]

Sinks == {"file", "held", "sim"}

(* A call on the stream. *)
LEMMA PutFacts ==
    ASSUME NEW M, Proper(M), NEW k \in Keys, NEW v
    PROVE  LET N == Put(M, k, v) IN
           /\ Changes(M, N, Sinks)
           /\ DOMAIN N.file = Keys /\ DOMAIN N.held = Keys /\ DOMAIN N.sim = Keys
           /\ \A j \in Keys :
                /\ N.file[j] = IF j = k /\ M.isOpen /\ ToFile(M) /\ ~NotForFile(k)
                               THEN v ELSE M.file[j]
                /\ N.held[j] = IF j = k /\ ~M.isOpen /\ ToFile(M) /\ ~NotForFile(k)
                               THEN v ELSE M.held[j]
                /\ N.sim[j] = IF j = k /\ ToSim(M, k) THEN v ELSE M.sim[j]
<1> DEFINE new == [x \in {k} |-> v]
           F == IF ToFile(M) /\ ~NotForFile(k) THEN PutFile(M, new) ELSE M
           N == IF ToSim(M, k) THEN PutSim(F, new) ELSE F
           writes == ToFile(M) /\ ~NotForFile(k)
<1>0. ASSUME NEW f, DOMAIN f = Keys
      PROVE  /\ DOMAIN Update(f, new) = Keys
             /\ \A j \in Keys : Update(f, new)[j] = IF j = k THEN v ELSE f[j]
  BY <1>0 DEF Update
<1>1. DOMAIN M = Fields /\ DOMAIN M.file = Keys /\ DOMAIN M.held = Keys /\ DOMAIN M.sim = Keys
  BY DEF Proper
<1> HIDE DEF new
<1>2. /\ Changes(M, F, {"file", "held"}) /\ DOMAIN F.file = Keys /\ DOMAIN F.held = Keys
      /\ \A j \in Keys :
           /\ F.file[j] = IF j = k /\ M.isOpen /\ writes THEN v ELSE M.file[j]
           /\ F.held[j] = IF j = k /\ ~M.isOpen /\ writes THEN v ELSE M.held[j]
  BY <1>0, <1>1 DEF PutFile, Changes, Fields
<1> HIDE DEF F
<1>3. /\ Changes(F, N, {"sim"}) /\ DOMAIN N.sim = Keys
      /\ \A j \in Keys : N.sim[j] = IF j = k /\ ToSim(M, k) THEN v ELSE M.sim[j]
  BY <1>0, <1>1, <1>2 DEF PutSim, Changes, Fields
<1>4. Put(M, k, v) = N
  BY DEF Put, F, N, new
<1> HIDE DEF N
<1>5. N.file = F.file /\ N.held = F.held
  BY <1>3 DEF Changes, Fields
<1>6. Changes(M, N, Sinks)
  BY <1>2, <1>3 DEF Changes, Sinks
<1> QED  BY <1>2, <1>3, <1>4, <1>5, <1>6

(* The registers of the file alone, or those of the simulator. *)
LEMMA PutFileFacts ==
    ASSUME NEW M, Proper(M), NEW new
    PROVE  LET N == PutFile(M, new) IN
           /\ Changes(M, N, {"file", "held"})
           /\ DOMAIN N.file = Keys /\ DOMAIN N.held = Keys
           /\ \A j \in Keys :
                /\ N.file[j] = IF j \in DOMAIN new /\ M.isOpen THEN new[j] ELSE M.file[j]
                /\ N.held[j] = IF j \in DOMAIN new /\ ~M.isOpen THEN new[j] ELSE M.held[j]
<1>1. DOMAIN M = Fields /\ DOMAIN M.file = Keys /\ DOMAIN M.held = Keys
  BY DEF Proper
<1>0. ASSUME NEW f, DOMAIN f = Keys
      PROVE  /\ DOMAIN Update(f, new) = Keys
             /\ \A j \in Keys : Update(f, new)[j] = IF j \in DOMAIN new THEN new[j] ELSE f[j]
  BY <1>0 DEF Update
<1> QED  BY <1>0, <1>1 DEF PutFile, Changes, Fields

LEMMA PutSimFacts ==
    ASSUME NEW M, Proper(M), NEW new
    PROVE  LET N == PutSim(M, new) IN
           /\ Changes(M, N, {"sim"}) /\ DOMAIN N.sim = Keys
           /\ \A j \in Keys : N.sim[j] = IF j \in DOMAIN new THEN new[j] ELSE M.sim[j]
<1>1. DOMAIN M = Fields /\ DOMAIN M.sim = Keys
  BY DEF Proper
<1>0. /\ DOMAIN Update(M.sim, new) = Keys
      /\ \A j \in Keys : Update(M.sim, new)[j] = IF j \in DOMAIN new THEN new[j] ELSE M.sim[j]
  BY <1>1 DEF Update
<1> QED  BY <1>0, <1>1 DEF PutSim, Changes, Fields

-----------------------------------------------------------------------------
(* What each step does to a manager *)

Kept(M, inj) == Proper(M) /\ CcsKept(M, inj) /\ Agree(M, inj)

Calm(M) == M.work.op \notin {"write", "inject"} /\ (M.work.op = "check" => ~M.work.opening)

(* The kinds of work, told apart by their names. *)
LEMMA WorkKinds ==
    ASSUME NEW w \in WorkType
    PROVE  /\ w.op \in {"idle", "inject", "check", "write", "loop"}
           /\ w.op = "idle" <=> w = Idle
           /\ w.op \in {"check", "write"} => w.count \in Nat /\ w.opening \in BOOLEAN
           /\ w.op = "loop" => /\ w.kind \in {"open", "close"} /\ w.at \in Nat \ {0}
                               /\ w.list \in Seq(Contexts)
BY DEF WorkType, Idle

Aside == {"paused", "blocked", "hwContexts", "raced", "skipped", "threw", "work"}

(* Steps that leave sinks, mode and file alone. *)
LEMMA SinksAside ==
    ASSUME NEW M, NEW N, NEW inj, Kept(M, inj), Changes(M, N, Aside),
           N.work = M.work \/ (Calm(M) /\ Calm(N)),
           N.hwContexts \in Seq(Contexts), N.work \in WorkType,
           {N.paused, N.blocked, N.raced, N.skipped, N.threw} \subseteq BOOLEAN
    PROVE  Kept(N, inj)
<1>1. /\ N.state = M.state /\ N.opts = M.opts /\ N.ccsCount = M.ccsCount /\ N.isOpen = M.isOpen
      /\ N.fileNo = M.fileNo /\ N.file = M.file /\ N.held = M.held /\ N.sim = M.sim
      /\ N.differ = M.differ
  BY DEF Changes, Aside, Fields
<1>2. Proper(N)
  BY <1>1 DEF Proper, Kept, Changes, Calm, Opening
<1>3. CcsKept(N, inj)
  BY <1>1 DEF Kept, CcsKept, Known, Calm
<1>4. Opening(M) <=> Opening(N)
  BY DEF Opening, Calm
<1>5. Unset(M) <=> Unset(N)
  BY DEF Unset, Calm
<1>6. Agree(N, inj)
  BY <1>1, <1>4, <1>5 DEF Kept, Agree, Same, Repeated, InFile, ListTold, Start
<1> QED  BY <1>2, <1>3, <1>6 DEF Kept

AfterWrite(M, k) ==
    LET N == Put(M, k, "user")
        late == ~N.isOpen /\ k \in Listed(N.opts)
    IN [N EXCEPT !.differ = IF Muted(N, k) \/ late THEN @ \cup {k} ELSE @ \ {k}]

UserKeys == {"global", "pci", "other", "memory", "ggtt"}

(* A write of the caller. *)
LEMMA WriteKeeps ==
    ASSUME NEW M, Kept(M, injected), NEW k \in UserKeys, M.work = Idle
    PROVE  Kept(AfterWrite(M, k), injected) /\ Changes(M, AfterWrite(M, k), Sinks \cup {"differ"})
<1> DEFINE P == Put(M, k, "user")
           N == AfterWrite(M, k)
           muted == Muted(M, k) \/ (~M.isOpen /\ k \in Listed(M.opts))
<1>0. k \in Keys /\ k \notin {"ccs", "gsm", "bank"} /\ Proper(M)
  BY DEF UserKeys, Keys, Registers, Kept
<1>1. /\ Changes(M, P, Sinks)
      /\ DOMAIN P.file = Keys /\ DOMAIN P.held = Keys /\ DOMAIN P.sim = Keys
      /\ \A j \in Keys :
                /\ P.file[j] = IF j = k /\ M.isOpen /\ ToFile(M) /\ ~NotForFile(k)
                               THEN "user" ELSE M.file[j]
                /\ P.held[j] = IF j = k /\ ~M.isOpen /\ ToFile(M) /\ ~NotForFile(k)
                               THEN "user" ELSE M.held[j]
                /\ P.sim[j] = IF j = k /\ ToSim(M, k) THEN "user" ELSE M.sim[j]
  BY <1>0, PutFacts
<1> HIDE DEF P
<1>2. P.opts = M.opts /\ P.isOpen = M.isOpen /\ P.paused = M.paused /\ P.blocked = M.blocked
      /\ P.differ = M.differ
  BY <1>1 DEF Changes, Sinks, Fields
<1>3. N = [P EXCEPT !.differ = IF muted THEN M.differ \cup {k} ELSE M.differ \ {k}]
  BY <1>2 DEF P, AfterWrite, Muted, NotForFile
<1> HIDE DEF N
<1>4. /\ Changes(P, N, {"differ"})
      /\ N.differ = IF muted THEN M.differ \cup {k} ELSE M.differ \ {k}
  BY <1>1, <1>3 DEF Changes, Fields
<1>5. Changes(M, N, Sinks \cup {"differ"})
  BY <1>1, <1>4 DEF Changes
<1>6. N.file = P.file /\ N.held = P.held /\ N.sim = P.sim
  BY <1>4 DEF Changes, Fields
<1>7. /\ N.state = M.state /\ N.opts = M.opts /\ N.ccsCount = M.ccsCount /\ N.isOpen = M.isOpen
      /\ N.fileNo = M.fileNo /\ N.hwContexts = M.hwContexts /\ N.work = Idle
      /\ N.paused = M.paused /\ N.blocked = M.blocked /\ N.raced = M.raced
      /\ N.skipped = M.skipped /\ N.threw = M.threw
  BY <1>5 DEF Changes, Fields, Sinks
<1>8. ToSim(M, k) => HasSim(M.opts)
  BY DEF ToSim
<1>11. ~Opening(M) /\ ~Opening(N) /\ ~Unset(M) /\ ~Unset(N)
  BY <1>7 DEF Opening, Unset, Idle
<1>9. Proper(N)
  BY <1>0, <1>1, <1>5, <1>6, <1>7, <1>8, <1>11 DEF Proper, Changes
<1>10. CcsKept(N, injected)
  BY <1>0, <1>1, <1>4, <1>6, <1>7 DEF Kept, CcsKept, Known, Idle, Keys, Registers
<1>12. ASSUME HasSim(M.opts), HasFile(M.opts)
       PROVE  \A j \in Same(N, injected) : InFile(N, injected, j) = N.sim[j]
  <2> SUFFICES ASSUME NEW j \in Same(N, injected) PROVE InFile(N, injected, j) = N.sim[j]
    OBVIOUS
  <2>1. j \in Keys
    BY DEF Same, Repeated, Keys, Registers
  <2>2. CASE j # k
    <3>1. j \in Same(M, injected)
      BY <1>1, <1>4, <1>6, <1>7, <2>1, <2>2 DEF Same, Repeated
    <3>2. InFile(M, injected, j) = M.sim[j]
      BY <1>12, <3>1 DEF Kept, Agree
    <3>3. N.sim[j] = M.sim[j] /\ N.file[j] = M.file[j] /\ N.held[j] = M.held[j]
      BY <1>1, <1>6, <2>1, <2>2
    <3> QED  BY <1>0, <1>1, <1>6, <1>7, <1>11, <2>1, <3>2, <3>3 DEF InFile, Update, Proper
  <2>3. CASE j = k
    <3>1. ~muted /\ k # "pci"
      BY <1>4, <2>3, <1>7 DEF Same, Repeated, SimulatorOnly
    <3>2. N.sim[k] = "user"
      BY <1>0, <1>1, <1>6, <1>12, <3>1 DEF ToSim, Muted
    <3>3. ToFile(M) /\ ~NotForFile(k)
      BY <1>12, <3>1 DEF ToFile, Muted, NotForFile
    <3>4. CASE M.isOpen
      BY <1>0, <1>1, <1>6, <1>7, <1>11, <2>3, <3>2, <3>3, <3>4 DEF InFile
    <3>5. CASE ~M.isOpen
      <4>1. N.held[k] = "user" /\ k \notin Listed(M.opts)
        BY <1>0, <1>1, <1>6, <3>1, <3>3, <3>5
      <4> QED  BY <1>0, <1>1, <1>6, <1>7, <2>3, <3>2, <3>5, <4>1 DEF InFile, Update, Listed
    <3> QED  BY <3>4, <3>5
  <2> QED  BY <2>2, <2>3
<1>13. ListTold(N, injected)
  <2> SUFFICES ASSUME HasSim(M.opts), HasFile(M.opts), NEW j \in Repeated(M, injected) \ N.differ
               PROVE  N.sim[j] \in {"user", Start(M, injected, j)}
    BY <1>7 DEF ListTold, Repeated, Start
  <2>1. j \in Keys
    BY DEF Repeated
  <2>2. CASE j # k
    <3>1. j \in Repeated(M, injected) \ M.differ /\ N.sim[j] = M.sim[j]
      BY <1>1, <1>4, <1>6, <2>1, <2>2
    <3> QED  BY <3>1 DEF Kept, Agree, ListTold
  <2>3. CASE j = k
    BY <1>1, <1>4, <1>6, <2>1, <2>3 DEF ToSim, Muted
  <2> QED  BY <2>2, <2>3
<1>14. Agree(N, injected)
  BY <1>0, <1>1, <1>4, <1>6, <1>7, <1>11, <1>12, <1>13 DEF Agree, Kept, Keys, Registers
<1> QED  BY <1>5, <1>9, <1>10, <1>14 DEF Kept, N

-----------------------------------------------------------------------------
(* The CCS mode *)

AfterCheck(M) ==
    IF M.hwContexts # << >> THEN Refuse(M)
    ELSE [M EXCEPT !.ccsCount = M.work.count, !.work.op = "write"]

(* The mode is stored, or refused. *)
LEMMA CheckKeeps ==
    ASSUME NEW M, Kept(M, injected), M.work.op = "check"
    PROVE  /\ Kept(AfterCheck(M), injected)
           /\ Changes(M, AfterCheck(M), {"ccsCount", "work", "threw", "differ"})
           /\ M.work.opening => \/ AfterCheck(M).threw
                                \/ AfterCheck(M).work.op = "inject"
                                \/ AfterCheck(M).work.op = "write" /\ AfterCheck(M).work.opening
           /\ ~M.work.opening => /\ Settled(AfterCheck(M))
                                 /\ AfterCheck(M).threw = M.threw
           /\ AfterCheck(M).work.op # "loop"
<1> DEFINE w == M.work
           N == AfterCheck(M)
<1>0. Proper(M) /\ DOMAIN M = Fields /\ M.work \in WorkType
  BY DEF Kept, Proper
<1>1. w \in [op : {"check", "write"}, count : Nat, opening : BOOLEAN]
  BY <1>0 DEF WorkType, Idle
<1>2. CASE M.hwContexts = << >>
  <2>1. N = [M EXCEPT !.ccsCount = w.count, !.work = [w EXCEPT !.op = "write"]]
    BY <1>2 DEF AfterCheck
  <2> DEFINE v == [w EXCEPT !.op = "write"]
  <2>2. /\ v \in WorkType /\ v.op = "write" /\ v.count = w.count /\ v.opening = w.opening
        /\ w.count \in Nat
    BY <1>1 DEF WorkType
  <2> HIDE DEF v, N
  <2>3. Changes(M, N, {"ccsCount", "work"}) /\ N.ccsCount = w.count /\ N.work = v
    BY <1>0, <2>1 DEF Changes, Fields, v
  <2>4. /\ N.state = M.state /\ N.opts = M.opts /\ N.isOpen = M.isOpen
        /\ N.fileNo = M.fileNo /\ N.file = M.file /\ N.held = M.held /\ N.sim = M.sim
        /\ N.differ = M.differ /\ N.hwContexts = M.hwContexts
        /\ N.paused = M.paused /\ N.blocked = M.blocked /\ N.raced = M.raced
        /\ N.skipped = M.skipped /\ N.threw = M.threw
    BY <2>3 DEF Changes, Fields
  <2>5. (Opening(N) <=> Opening(M)) /\ (Unset(N) <=> Unset(M))
    BY <2>2, <2>3 DEF Opening, Unset
  <2>6. Proper(N)
    BY <1>0, <2>2, <2>3, <2>4, <2>5 DEF Proper, Changes
  <2>7. CcsKept(N, injected)
    BY <2>2, <2>3 DEF CcsKept
  <2>8. Agree(N, injected)
    BY <2>4, <2>5 DEF Kept, Agree, ListTold, Start, Same, Repeated, InFile
  <2>9. Changes(M, N, {"ccsCount", "work", "threw", "differ"})
    BY <2>3 DEF Changes
  <2> QED  BY <2>2, <2>3, <2>4, <2>6, <2>7, <2>8, <2>9 DEF Kept, Settled, N
<1>3. CASE M.hwContexts # << >> /\ M.opts.throw
  <2> DEFINE lost == IF w.opening THEN {"ccs"} \cup DOMAIN injected ELSE {}
  <2>1. N = [M EXCEPT !.work = Idle, !.threw = M.threw \/ w.opening, !.differ = M.differ \cup lost]
    BY <1>3 DEF AfterCheck, Refuse
  <2> HIDE DEF N
  <2>2. /\ Changes(M, N, {"work", "threw", "differ"}) /\ N.work = Idle
        /\ N.threw = (M.threw \/ w.opening) /\ N.differ = M.differ \cup lost
    BY <1>0, <2>1 DEF Changes, Fields
  <2>3. /\ N.state = M.state /\ N.opts = M.opts /\ N.isOpen = M.isOpen /\ N.ccsCount = M.ccsCount
        /\ N.fileNo = M.fileNo /\ N.file = M.file /\ N.held = M.held /\ N.sim = M.sim
        /\ N.hwContexts = M.hwContexts
        /\ N.paused = M.paused /\ N.blocked = M.blocked /\ N.raced = M.raced
        /\ N.skipped = M.skipped
    BY <2>2 DEF Changes, Fields
  <2>4. ~Opening(N) /\ ~Unset(N) /\ N.work.op = "idle" /\ N.work \in WorkType
    BY <2>2 DEF Opening, Unset, Idle, WorkType
  <2>5. Proper(N)
    BY <1>0, <1>1, <2>2, <2>3, <2>4 DEF Proper, Changes
  <2>6. CcsKept(N, injected)
    BY <2>2, <2>3, <2>4 DEF CcsKept, Known, Kept
  <2>7. ListTold(N, injected)
    BY <2>2, <2>3 DEF ListTold, Repeated, Start, Kept, Agree
  <2>8. ASSUME NEW k \in Same(N, injected) PROVE k \in Same(M, injected) /\ InFile(N, injected, k) = InFile(M, injected, k)
    BY <2>2, <2>3, <2>4 DEF Same, Repeated, InFile, Opening
  <2>9. Agree(N, injected)
    BY <2>2, <2>3, <2>4, <2>7, <2>8 DEF Agree, Kept, Unset
  <2>10. Changes(M, N, {"ccsCount", "work", "threw", "differ"})
    BY <2>2 DEF Changes
  <2> QED  BY <1>0, <1>1, <2>2, <2>4, <2>5, <2>6, <2>9, <2>10 DEF Kept, Settled, N, Proper
<1>4. CASE M.hwContexts # << >> /\ ~M.opts.throw
  <2> DEFINE kept == IF w.opening THEN {"ccs"} ELSE {}
             v == IF w.opening THEN [op |-> "inject"] ELSE Idle
  <2>1. N = [M EXCEPT !.work = v, !.differ = M.differ \cup kept]
    BY <1>4 DEF AfterCheck, Refuse, AfterMode
  <2>2. v \in WorkType /\ v.op = IF w.opening THEN "inject" ELSE "idle"
    BY DEF WorkType, Idle
  <2> HIDE DEF N, v
  <2>3. /\ Changes(M, N, {"work", "differ"}) /\ N.work = v /\ N.differ = M.differ \cup kept
    BY <1>0, <2>1 DEF Changes, Fields
  <2>4. /\ N.state = M.state /\ N.opts = M.opts /\ N.isOpen = M.isOpen /\ N.ccsCount = M.ccsCount
        /\ N.fileNo = M.fileNo /\ N.file = M.file /\ N.held = M.held /\ N.sim = M.sim
        /\ N.hwContexts = M.hwContexts
        /\ N.paused = M.paused /\ N.blocked = M.blocked /\ N.raced = M.raced
        /\ N.skipped = M.skipped /\ N.threw = M.threw
    BY <2>3 DEF Changes, Fields
  <2>5. (Opening(N) <=> Opening(M)) /\ ~Unset(N)
    BY <1>1, <2>2, <2>3 DEF Opening, Unset
  <2>6. Proper(N)
    BY <1>0, <2>2, <2>3, <2>4, <2>5 DEF Proper, Changes
  <2>7. CcsKept(N, injected)
    BY <1>1, <2>2, <2>3, <2>4 DEF CcsKept, Known, Kept
  <2>8. ListTold(N, injected)
    BY <2>3, <2>4 DEF ListTold, Repeated, Start, Kept, Agree
  <2>9. ASSUME NEW k \in Same(N, injected) PROVE k \in Same(M, injected) /\ InFile(N, injected, k) = InFile(M, injected, k)
    BY <2>3, <2>4, <2>5 DEF Same, Repeated, InFile
  <2>10. Agree(N, injected)
    BY <2>3, <2>4, <2>5, <2>8, <2>9 DEF Agree, Kept, Unset
  <2>11. Changes(M, N, {"ccsCount", "work", "threw", "differ"})
    BY <2>3 DEF Changes
  <2>12. ~w.opening => N.work = Idle
    BY <2>3 DEF v
  <2> QED  BY <1>0, <2>2, <2>3, <2>4, <2>6, <2>7, <2>10, <2>11, <2>12 DEF Kept, Settled, N
<1> QED  BY <1>2, <1>3, <1>4

ModeWritten(M) ==
    LET P == Put(M, "ccs", CcsValue(M.work.count))
    IN [P EXCEPT !.work = AfterMode(P),
                 !.differ = IF Muted(P, "ccs") THEN @ \cup {"ccs"} ELSE @ \ {"ccs"}]

(* The mode is written to both sinks, or one is muted. *)
LEMMA WriteModeKeeps ==
    ASSUME NEW M, Kept(M, injected), M.work.op = "write"
    PROVE  /\ Kept(ModeWritten(M), injected)
           /\ Changes(M, ModeWritten(M), Sinks \cup {"work", "differ"})
           /\ ModeWritten(M).work = IF M.work.opening THEN [op |-> "inject"] ELSE Idle
<1> DEFINE v == CcsValue(M.work.count)
           P == Put(M, "ccs", v)
           N == ModeWritten(M)
           w == IF M.work.opening THEN [op |-> "inject"] ELSE Idle
<1>0. Proper(M) /\ DOMAIN M = Fields /\ M.work \in WorkType
  BY DEF Kept, Proper
<1>1. M.work \in [op : {"check", "write"}, count : Nat, opening : BOOLEAN]
  BY <1>0 DEF WorkType, Idle
<1>2. "ccs" \in Keys /\ ~NotForFile("ccs")
  BY DEF Keys, Registers, NotForFile
<1> HIDE DEF v
<1>3. /\ Changes(M, P, Sinks)
      /\ DOMAIN P.file = Keys /\ DOMAIN P.held = Keys /\ DOMAIN P.sim = Keys
      /\ \A j \in Keys :
                /\ P.file[j] = IF j = "ccs" /\ M.isOpen /\ ToFile(M) THEN v ELSE M.file[j]
                /\ P.held[j] = IF j = "ccs" /\ ~M.isOpen /\ ToFile(M) THEN v ELSE M.held[j]
                /\ P.sim[j] = IF j = "ccs" /\ ToSim(M, "ccs") THEN v ELSE M.sim[j]
  <2>1. /\ Changes(M, P, Sinks)
        /\ DOMAIN P.file = Keys /\ DOMAIN P.held = Keys /\ DOMAIN P.sim = Keys
        /\ \A j \in Keys :
                /\ P.file[j] = IF j = "ccs" /\ M.isOpen /\ ToFile(M) /\ ~NotForFile("ccs") THEN v ELSE M.file[j]
                /\ P.held[j] = IF j = "ccs" /\ ~M.isOpen /\ ToFile(M) /\ ~NotForFile("ccs") THEN v ELSE M.held[j]
                /\ P.sim[j] = IF j = "ccs" /\ ToSim(M, "ccs") THEN v ELSE M.sim[j]
    BY <1>0, <1>2, PutFacts
  <2> QED  BY <1>2, <2>1
<1> HIDE DEF P
<1>4. P.opts = M.opts /\ P.paused = M.paused /\ P.differ = M.differ /\ P.work = M.work
  BY <1>3 DEF Changes, Sinks, Fields
<1>5. N = [P EXCEPT !.work = w,
                    !.differ = IF M.paused THEN M.differ \cup {"ccs"} ELSE M.differ \ {"ccs"}]
  BY <1>2, <1>4 DEF P, v, ModeWritten, Muted, NotForFile, AfterMode
<1>6. w \in WorkType /\ w.op = IF M.work.opening THEN "inject" ELSE "idle"
  BY DEF WorkType, Idle
<1> HIDE DEF N, w
<1>7. /\ Changes(P, N, {"work", "differ"}) /\ N.work = w
      /\ N.differ = IF M.paused THEN M.differ \cup {"ccs"} ELSE M.differ \ {"ccs"}
  BY <1>3, <1>5 DEF Changes, Fields
<1>8. Changes(M, N, Sinks \cup {"work", "differ"})
  BY <1>3, <1>7 DEF Changes
<1>9. N.file = P.file /\ N.held = P.held /\ N.sim = P.sim
  BY <1>7 DEF Changes, Fields
<1>10. /\ N.state = M.state /\ N.opts = M.opts /\ N.ccsCount = M.ccsCount /\ N.isOpen = M.isOpen
       /\ N.fileNo = M.fileNo /\ N.hwContexts = M.hwContexts
       /\ N.paused = M.paused /\ N.blocked = M.blocked /\ N.raced = M.raced
       /\ N.skipped = M.skipped /\ N.threw = M.threw
  BY <1>8 DEF Changes, Fields, Sinks
<1>11. (Opening(N) <=> Opening(M)) /\ ~Unset(N)
  BY <1>1, <1>6, <1>7 DEF Opening, Unset
<1>12. ToSim(M, "ccs") <=> HasSim(M.opts)
  BY DEF ToSim
<1>13. Proper(N)
  BY <1>0, <1>3, <1>6, <1>7, <1>8, <1>9, <1>10, <1>11, <1>12 DEF Proper, Changes
<1>14. ASSUME ~M.paused
       PROVE  /\ HasSim(M.opts) => N.sim["ccs"] = v
              /\ M.isOpen => N.file["ccs"] = v
  BY <1>0, <1>2, <1>3, <1>9, <1>12, <1>14 DEF ToFile, Proper
<1>15. v = CcsValue(M.ccsCount)
  BY DEF Kept, CcsKept, v
<1>16. M.paused => "ccs" \in N.differ
  BY <1>7
<1>17. CcsKept(N, injected)
  BY <1>6, <1>7, <1>10, <1>14, <1>15, <1>16 DEF CcsKept
<1>18. ListTold(N, injected)
  BY <1>0, <1>3, <1>7, <1>9, <1>10 DEF ListTold, Repeated, Start, Kept, Agree, Keys, Registers
<1>19. ASSUME NEW k \in Same(N, injected)
       PROVE  k \in Same(M, injected) /\ InFile(N, injected, k) = InFile(M, injected, k) /\ N.sim[k] = M.sim[k]
  <2>1. k \in Keys /\ k # "ccs"
    BY DEF Same, Repeated, Keys, Registers
  <2>2. N.file[k] = M.file[k] /\ N.held[k] = M.held[k] /\ N.sim[k] = M.sim[k]
    BY <1>3, <1>9, <2>1
  <2>3. k \in Same(M, injected)
    BY <1>7, <1>10, <2>1, <2>2 DEF Same, Repeated
  <2> QED  BY <1>0, <1>3, <1>9, <1>10, <1>11, <2>1, <2>2, <2>3 DEF InFile, Update, Proper
<1>20. Agree(N, injected)
  BY <1>10, <1>11, <1>14, <1>16, <1>18, <1>19 DEF Agree, Kept
<1> QED  BY <1>7, <1>8, <1>13, <1>17, <1>20 DEF Kept, N, w

-----------------------------------------------------------------------------
(* open and close *)

(* The file is begun with what waited for it and the global registers. *)
LEMMA OpenKeeps ==
    ASSUME NEW M, Kept(M, injected), M.work = Idle, ~M.isOpen, HasFile(M.opts)
    PROVE  /\ Kept(OpenFile(M), injected)
           /\ Changes(M, OpenFile(M), {"isOpen", "fileNo", "file", "held", "work", "threw", "raced"})
           /\ OpenFile(M).isOpen /\ OpenFile(M).fileNo = M.fileNo + 1
           /\ Opening(OpenFile(M)) /\ OpenFile(M).work.op = "check"
<1> DEFINE w == [op |-> "check", count |-> M.ccsCount, opening |-> TRUE]
           N == OpenFile(M)
<1>0. Proper(M) /\ DOMAIN M = Fields /\ DOMAIN M.held = Keys /\ M.ccsCount \in Nat /\ M.fileNo \in Nat
  BY DEF Kept, Proper
<1>1. N = [M EXCEPT !.isOpen = TRUE, !.fileNo = M.fileNo + 1, !.file = FileStart(M), !.held = Nothing,
                    !.work = w, !.threw = FALSE, !.raced = FALSE]
  BY DEF OpenFile
<1>2. w \in WorkType /\ w.op = "check" /\ w.count = M.ccsCount /\ w.opening
  BY <1>0 DEF WorkType
<1> HIDE DEF N, w
<1>3. /\ Changes(M, N, {"isOpen", "fileNo", "file", "held", "work", "threw", "raced"})
      /\ N.isOpen = TRUE /\ N.fileNo = M.fileNo + 1 /\ N.file = FileStart(M) /\ N.held = Nothing
      /\ N.work = w /\ N.threw = FALSE /\ N.raced = FALSE
  BY <1>0, <1>1 DEF Changes, Fields
<1>4. /\ N.state = M.state /\ N.opts = M.opts /\ N.ccsCount = M.ccsCount /\ N.sim = M.sim
      /\ N.hwContexts = M.hwContexts /\ N.differ = M.differ
      /\ N.paused = M.paused /\ N.blocked = M.blocked /\ N.skipped = M.skipped
  BY <1>3 DEF Changes, Fields
<1>5. Opening(N) /\ Unset(N)
  BY <1>2, <1>3 DEF Opening, Unset
<1>6. DOMAIN FileStart(M) = Keys /\ DOMAIN Nothing = Keys /\ Nothing["bank"] = None
  BY <1>0 DEF FileStart, Update, Nothing, Keys, Registers
<1>7. Proper(N)
  <2>1. {N.paused, N.blocked, N.isOpen, N.raced, N.skipped, N.threw} \subseteq BOOLEAN
    BY <1>0, <1>3, <1>4 DEF Proper
  <2>2. N.fileNo \in Nat /\ N.fileNo > 0
    BY <1>0, <1>3
  <2>3. N.isOpen => HasFile(N.opts) /\ N.fileNo > 0
    BY <1>4, <2>2
  <2>4. Opening(N) => N.isOpen
    BY <1>3
  <2> QED  BY <1>0, <1>2, <1>3, <1>4, <1>6, <2>1, <2>2, <2>3, <2>4 DEF Proper, Changes
<1>8. CcsKept(N, injected)
  <2>1. Known(N) <=> Known(M)
    BY <1>4 DEF Known
  <2>2. M.work.op = "idle"
    BY DEF Idle
  <2> QED  BY <1>2, <1>3, <1>4, <2>1, <2>2 DEF CcsKept, Kept
<1>9. ListTold(N, injected)
  BY <1>3, <1>4, <1>6 DEF ListTold, Repeated, Start, Kept, Agree
<1>10. ASSUME NEW k \in Same(N, injected)
       PROVE  k \in Same(M, injected) /\ InFile(N, injected, k) = InFile(M, injected, k)
  <2>1. k \in Keys
    BY DEF Same, Repeated, Keys, Registers
  <2>2. k \in Same(M, injected)
    BY <1>0, <1>3, <1>4 DEF Same, Repeated
  <2>3. DOMAIN Update(M.held, GlobalList(M.opts)) = Keys
    BY <1>0 DEF Update
  <2>4. InFile(N, injected, k) = IF k \in DOMAIN injected THEN injected[k] ELSE FileStart(M)[k]
    BY <1>3, <1>5 DEF InFile
  <2>5. InFile(M, injected, k) = IF k \in DOMAIN injected THEN injected[k] ELSE FileStart(M)[k]
    <3>1. InFile(M, injected, k) = Update(FileStart(M), injected)[k]
      BY DEF InFile, FileStart
    <3> QED  BY <1>6, <2>1, <3>1 DEF Update
  <2> QED  BY <2>2, <2>4, <2>5
<1>11. Agree(N, injected)
  BY <1>4, <1>5, <1>9, <1>10 DEF Agree, Kept
<1> QED  BY <1>2, <1>3, <1>5, <1>7, <1>8, <1>11 DEF Kept, N

AfterInject(M) ==
    LET P == PutFile(M, injected)
    IN [P EXCEPT !.work = Loop(P, "open"), !.differ = @ \cup (DOMAIN injected \cap {"ccs"})]

(* The injected registers, and the loop begins. *)
LEMMA InjectKeeps ==
    ASSUME NEW M, Kept(M, injected), M.work.op = "inject"
    PROVE  /\ Kept(AfterInject(M), injected)
           /\ Changes(M, AfterInject(M), {"file", "held", "work", "differ"})
           /\ AfterInject(M).work = Loop(M, "open")
<1> DEFINE P == PutFile(M, injected)
           N == AfterInject(M)
           w == Loop(M, "open")
<1>0. Proper(M) /\ DOMAIN M = Fields /\ M.work \in WorkType /\ M.isOpen /\ M.hwContexts \in Seq(Contexts)
  BY DEF Kept, Proper, Opening
<1>1. /\ Changes(M, P, {"file", "held"})
      /\ DOMAIN P.file = Keys /\ DOMAIN P.held = Keys
      /\ \A j \in Keys :
                /\ P.file[j] = IF j \in DOMAIN injected THEN injected[j] ELSE M.file[j]
                /\ P.held[j] = M.held[j]
  <2>1. /\ Changes(M, P, {"file", "held"})
        /\ DOMAIN P.file = Keys /\ DOMAIN P.held = Keys
        /\ \A j \in Keys :
                /\ P.file[j] = IF j \in DOMAIN injected /\ M.isOpen THEN injected[j] ELSE M.file[j]
                /\ P.held[j] = IF j \in DOMAIN injected /\ ~M.isOpen THEN injected[j] ELSE M.held[j]
    BY <1>0, PutFileFacts
  <2> QED  BY <1>0, <2>1
<1> HIDE DEF P
<1>2. P.differ = M.differ /\ P.hwContexts = M.hwContexts
  BY <1>1 DEF Changes, Fields
<1>3. N = [P EXCEPT !.work = w, !.differ = M.differ \cup (DOMAIN injected \cap {"ccs"})]
  BY <1>2 DEF P, AfterInject, Loop
<1>4. w \in WorkType /\ w.op = "loop"
  BY <1>0 DEF WorkType, Loop
<1> HIDE DEF N, w
<1>5. /\ Changes(P, N, {"work", "differ"}) /\ N.work = w
      /\ N.differ = M.differ \cup (DOMAIN injected \cap {"ccs"})
  BY <1>1, <1>3 DEF Changes, Fields
<1>6. Changes(M, N, {"file", "held", "work", "differ"})
  BY <1>1, <1>5 DEF Changes
<1>7. N.file = P.file /\ N.held = P.held
  BY <1>5 DEF Changes, Fields
<1>8. /\ N.state = M.state /\ N.opts = M.opts /\ N.ccsCount = M.ccsCount /\ N.isOpen = M.isOpen
      /\ N.fileNo = M.fileNo /\ N.hwContexts = M.hwContexts /\ N.sim = M.sim
      /\ N.paused = M.paused /\ N.blocked = M.blocked /\ N.raced = M.raced
      /\ N.skipped = M.skipped /\ N.threw = M.threw
  BY <1>6 DEF Changes, Fields
<1>9. ~Opening(N) /\ ~Unset(N) /\ Opening(M) /\ ~Unset(M)
  BY <1>4, <1>5 DEF Opening, Unset
<1>10. Proper(N)
  BY <1>0, <1>1, <1>4, <1>5, <1>6, <1>7, <1>8, <1>9 DEF Proper, Changes
<1>11. "ccs" \in Keys /\ "bank" \in Keys
  BY DEF Keys, Registers
<1>12. CcsKept(N, injected)
  BY <1>1, <1>4, <1>5, <1>7, <1>8, <1>11 DEF CcsKept, Kept, Known
<1>13. ListTold(N, injected)
  BY <1>1, <1>5, <1>7, <1>8, <1>11 DEF ListTold, Repeated, Start, Kept, Agree
<1>14. ASSUME NEW k \in Same(N, injected)
       PROVE  k \in Same(M, injected) /\ InFile(N, injected, k) = InFile(M, injected, k)
  <2>1. k \in Keys
    BY DEF Same, Repeated, Keys, Registers
  <2> QED  BY <1>0, <1>1, <1>5, <1>7, <1>8, <1>9, <2>1 DEF InFile, Same, Repeated
<1>15. Agree(N, injected)
  BY <1>1, <1>5, <1>7, <1>8, <1>9, <1>11, <1>13, <1>14 DEF Agree, Kept
<1> QED  BY <1>5, <1>6, <1>10, <1>12, <1>15 DEF Kept, N, w

AfterLoop(M) ==
    LET closed == M.work.kind = "close"
    IN [M EXCEPT !.work = Idle, !.isOpen = @ /\ ~closed, !.skipped = IF closed THEN M.raced ELSE @]

(* The loop ends; the next file is told what this one was. *)
LEMMA LoopEndKeeps ==
    ASSUME NEW M, Kept(M, injected), M.work.op = "loop"
    PROVE  /\ Kept(AfterLoop(M), injected)
           /\ Changes(M, AfterLoop(M), {"work", "isOpen", "skipped"})
           /\ AfterLoop(M).work = Idle
           /\ AfterLoop(M).isOpen = (M.isOpen /\ M.work.kind # "close")
           /\ AfterLoop(M).skipped = IF M.work.kind = "close" THEN M.raced ELSE M.skipped
<1> DEFINE N == AfterLoop(M)
           open == M.isOpen /\ M.work.kind # "close"
<1>0. Proper(M) /\ DOMAIN M = Fields /\ M.isOpen \in BOOLEAN /\ DOMAIN M.held = Keys
      /\ {M.raced, M.skipped} \subseteq BOOLEAN
  BY DEF Kept, Proper
<1>1. /\ Changes(M, N, {"work", "isOpen", "skipped"}) /\ N.work = Idle
      /\ N.isOpen = open /\ N.skipped = IF M.work.kind = "close" THEN M.raced ELSE M.skipped
  BY <1>0 DEF Changes, Fields, AfterLoop
<1> HIDE DEF N
<1>2. /\ N.state = M.state /\ N.opts = M.opts /\ N.ccsCount = M.ccsCount
      /\ N.fileNo = M.fileNo /\ N.hwContexts = M.hwContexts /\ N.sim = M.sim
      /\ N.file = M.file /\ N.held = M.held /\ N.differ = M.differ
      /\ N.paused = M.paused /\ N.blocked = M.blocked /\ N.raced = M.raced /\ N.threw = M.threw
  BY <1>1 DEF Changes, Fields
<1>3. ~Opening(N) /\ ~Unset(N) /\ ~Opening(M) /\ ~Unset(M) /\ N.work.op = "idle" /\ N.work \in WorkType
  BY <1>1 DEF Opening, Unset, Idle, WorkType
<1>4. Proper(N)
  BY <1>0, <1>1, <1>2, <1>3 DEF Proper, Changes
<1>5. CcsKept(N, injected)
  BY <1>1, <1>2, <1>3 DEF CcsKept, Kept, Known
<1>6. ListTold(N, injected) /\ ListTold(M, injected)
  BY <1>1, <1>2 DEF ListTold, Repeated, Start, Kept, Agree
<1>7. ASSUME NEW k \in Same(N, injected), HasSim(M.opts), HasFile(M.opts)
      PROVE  InFile(N, injected, k) = N.sim[k]
  <2>1. CASE M.isOpen = N.isOpen
    BY <1>2, <1>3, <1>7, <2>1 DEF Same, Repeated, InFile, Agree, Kept
  <2>2. CASE M.isOpen /\ ~N.isOpen
    <3>1. k \in Repeated(M, injected) \ M.differ /\ M.sim[k] # "user"
      BY <1>0, <1>2, <2>2 DEF Same, Repeated, Proper
    <3>2. M.sim[k] = Start(M, injected, k)
      BY <1>6, <1>7, <3>1 DEF ListTold
    <3>3. k \in Keys /\ k \in DOMAIN GlobalList(M.opts) \cup DOMAIN injected
      BY <3>1 DEF Repeated
    <3>4. InFile(N, injected, k) = Update(Update(M.held, GlobalList(M.opts)), injected)[k]
      BY <1>2, <2>2 DEF InFile
    <3> QED  BY <1>0, <1>2, <3>2, <3>3, <3>4 DEF Update, Start
  <2> QED  BY <1>0, <1>1, <2>1, <2>2
<1>8. Agree(N, injected)
  BY <1>1, <1>2, <1>3, <1>6, <1>7 DEF Agree, Kept
<1> QED  BY <1>1, <1>4, <1>5, <1>8 DEF Kept, N

-----------------------------------------------------------------------------
(* Managers that are made, and lists that are injected *)

(* The first lines of initialize, and the pools. *)
LEMMA NewIsProper ==
    ASSUME NEW o, NEW own
    PROVE  LET M == NewManager(o, own) IN
           /\ Proper(M) /\ M.opts = o /\ M.own = own /\ M.work = Idle /\ M.hwContexts = << >>
           /\ ~M.isOpen /\ M.fileNo = 0 /\ M.ccsCount = 0 /\ M.differ = {} /\ ~M.paused /\ ~M.blocked
           /\ M.file = Nothing /\ M.held = Nothing /\ M.sim = Nothing
<1> DEFINE M == NewManager(o, own)
<1>1. /\ DOMAIN M = Fields /\ M.state = "live" /\ M.opts = o /\ M.own = own /\ M.work = Idle
      /\ M.hwContexts = << >>
      /\ M.isOpen = FALSE /\ M.fileNo = 0 /\ M.ccsCount = 0 /\ M.differ = {} /\ M.paused = FALSE
      /\ M.blocked = FALSE /\ M.raced = FALSE /\ M.skipped = FALSE /\ M.threw = FALSE
      /\ M.file = Nothing /\ M.held = Nothing /\ M.sim = Nothing
  BY DEF NewManager, Fields
<1> HIDE DEF M
<1>2. DOMAIN Nothing = Keys /\ \A k \in Keys : Nothing[k] = None
  BY DEF Nothing
<1>3. Idle \in WorkType /\ ~Opening(M) /\ << >> \in Seq(Contexts)
  BY <1>1 DEF WorkType, Opening, Idle
<1>4. {M.paused, M.blocked, M.isOpen, M.raced, M.skipped, M.threw} \subseteq BOOLEAN
  BY <1>1
<1>5. (M.isOpen => HasFile(M.opts) /\ M.fileNo > 0) /\ (Opening(M) => M.isOpen)
  BY <1>1, <1>3
<1>6. Proper(M)
  BY <1>1, <1>2, <1>3, <1>4, <1>5 DEF Proper
<1> QED  BY <1>1, <1>6 DEF M

LEMMA ListFacts ==
    ASSUME NEW o
    PROVE  /\ DOMAIN GlobalList(o) \subseteq {"global", "ccs", "bank"}
           /\ "ccs" \in GlobalMMIO(o) => "ccs" \in DOMAIN GlobalList(o) /\ GlobalList(o)["ccs"] = "ccs1"
           /\ DOMAIN GgttBase(o) \subseteq {"gsm"}
BY DEF GlobalList, GgttBase, GlobalMMIO, BankSize

(* What the sinks have when initialize has returned. *)
LEMMA InitializedFacts ==
    ASSUME NEW o, NEW own
    PROVE  LET N == Initialized(o, own)
               start == Update(Update(Nothing, GlobalList(o)), injected)
           IN
           /\ Changes(NewManager(o, own), N, Sinks)
           /\ DOMAIN N.file = Keys /\ DOMAIN N.held = Keys /\ DOMAIN N.sim = Keys
           /\ ~HasSim(o) => \A k \in Keys : N.sim[k] = None
           /\ \A k \in Keys \ {"pools"} : N.held[k] = None
           /\ HasSim(o) => \A k \in Keys \ {"pools", "gsm"} : N.sim[k] = start[k]
           /\ HasSim(o) /\ HasFile(o) =>
                N.sim["pools"] = IF "pools" \in DOMAIN injected THEN injected["pools"] ELSE N.held["pools"]
<1> DEFINE M == NewManager(o, own)
           S == IF HasSim(o) THEN PutSim(M, SimStart(o)) ELSE M
           P == IF o.gpu = "gen12lp" THEN S ELSE Put(S, "pools", "pools")
           I == InjectSim(P)
           N == Initialized(o, own)
           first == SimStart(o)
           pools == o.gpu # "gen12lp"
<1>1. /\ Proper(M) /\ M.opts = o /\ M.isOpen = FALSE /\ M.paused = FALSE /\ M.blocked = FALSE
      /\ M.file = Nothing /\ M.held = Nothing /\ M.sim = Nothing /\ DOMAIN M = Fields
  BY NewIsProper DEF Proper, NewManager, Fields
<1>2. DOMAIN Nothing = Keys /\ \A k \in Keys : Nothing[k] = None
  BY DEF Nothing
<1>3. DOMAIN first = Keys /\ \A k \in Keys : first[k] = IF k \in DOMAIN GgttBase(o) THEN GgttBase(o)[k]
                                 ELSE IF k \in DOMAIN GlobalList(o) THEN GlobalList(o)[k] ELSE None
  BY <1>2 DEF SimStart, Update
<1>4. CASE o.mode = "null"
  <2>1. N = M /\ ~HasSim(o) /\ ~HasFile(o)
    BY <1>4 DEF Initialized, HasSim, HasFile, FileModes
  <2> QED  BY <1>1, <1>2, <2>1 DEF Changes
<1>5. CASE o.mode # "null"
  <2>1. N = I
    BY <1>5 DEF Initialized
  <2> HIDE DEF M, N, first
  <2>2. /\ Changes(M, S, {"sim"}) /\ DOMAIN S.sim = Keys
        /\ \A k \in Keys : S.sim[k] = IF HasSim(o) THEN first[k] ELSE None
    <3>1. CASE HasSim(o)
      <4>1. /\ Changes(M, PutSim(M, first), {"sim"}) /\ DOMAIN PutSim(M, first).sim = Keys
            /\ \A k \in Keys : PutSim(M, first).sim[k] = IF k \in DOMAIN first THEN first[k] ELSE M.sim[k]
        BY <1>1, PutSimFacts
      <4> QED  BY <1>3, <3>1, <4>1 DEF first
    <3>2. CASE ~HasSim(o)
      BY <1>1, <1>2, <3>2 DEF Changes
    <3> QED  BY <3>1, <3>2
  <2> HIDE DEF S
  <2>3. /\ S.opts = o /\ S.isOpen = FALSE /\ S.paused = FALSE /\ S.blocked = FALSE
        /\ S.file = Nothing /\ S.held = Nothing
        /\ S.state = M.state /\ S.ccsCount = M.ccsCount /\ S.fileNo = M.fileNo
        /\ S.hwContexts = M.hwContexts /\ S.work = M.work /\ S.raced = M.raced
        /\ S.skipped = M.skipped /\ S.threw = M.threw
    BY <1>1, <2>2 DEF Changes, Fields
  <2>4. Proper(S)
    <3>1. ~Opening(S)
      BY <1>1, <2>3 DEF Proper, Opening
    <3> QED  BY <1>1, <1>2, <2>2, <2>3, <3>1 DEF Proper, Changes
  <2>5. "pools" \in Keys /\ ~NotForFile("pools") /\ (ToSim(S, "pools") <=> HasSim(o))
        /\ (ToFile(S) <=> HasFile(o))
    BY <2>3 DEF Keys, Registers, NotForFile, ToSim, ToFile
  <2>6. /\ Changes(S, P, Sinks)
        /\ DOMAIN P.file = Keys /\ DOMAIN P.held = Keys /\ DOMAIN P.sim = Keys
        /\ \A k \in Keys :
             /\ P.held[k] = IF pools /\ k = "pools" /\ HasFile(o) THEN "pools" ELSE None
             /\ P.sim[k] = IF pools /\ k = "pools" /\ HasSim(o) THEN "pools" ELSE S.sim[k]
    <3>1. CASE pools
      <4>1. /\ Changes(S, Put(S, "pools", "pools"), Sinks)
            /\ DOMAIN Put(S, "pools", "pools").file = Keys
            /\ DOMAIN Put(S, "pools", "pools").held = Keys
            /\ DOMAIN Put(S, "pools", "pools").sim = Keys
            /\ \A j \in Keys :
                 /\ Put(S, "pools", "pools").held[j] =
                      IF j = "pools" /\ ~S.isOpen /\ ToFile(S) /\ ~NotForFile("pools")
                      THEN "pools" ELSE S.held[j]
                 /\ Put(S, "pools", "pools").sim[j] =
                      IF j = "pools" /\ ToSim(S, "pools") THEN "pools" ELSE S.sim[j]
        BY <2>4, <2>5, PutFacts
      <4>2. P = Put(S, "pools", "pools")
        BY <3>1
      <4> QED  BY <1>2, <2>3, <2>5, <3>1, <4>1, <4>2
    <3>2. CASE ~pools
      BY <1>2, <2>2, <2>3, <3>2 DEF Changes
    <3> QED  BY <3>1, <3>2
  <2> HIDE DEF P
  <2>7. P.opts = o /\ DOMAIN P = Fields
    BY <2>3, <2>6 DEF Changes, Fields, Sinks
  <2>8. /\ Changes(P, I, {"sim"}) /\ DOMAIN I.sim = Keys
        /\ \A k \in Keys : I.sim[k] = IF HasSim(o) /\ k \in DOMAIN injected THEN injected[k] ELSE P.sim[k]
    BY <2>6, <2>7 DEF InjectSim, PutSim, Update, Changes, Fields
  <2> HIDE DEF I
  <2>9. Changes(M, N, Sinks)
    BY <2>1, <2>2, <2>6, <2>8 DEF Changes, Sinks
  <2>10. N.file = P.file /\ N.held = P.held
    BY <2>1, <2>8 DEF Changes, Fields
  <2>11. ASSUME NEW k \in Keys
         PROVE  N.sim[k] = IF HasSim(o) /\ k \in DOMAIN injected THEN injected[k]
                           ELSE IF pools /\ k = "pools" /\ HasSim(o) THEN "pools"
                           ELSE IF HasSim(o) THEN first[k] ELSE None
    BY <2>1, <2>2, <2>6, <2>8
  <2>12. ~HasSim(o) => \A k \in Keys : N.sim[k] = None
    BY <2>11
  <2>13. ASSUME HasSim(o), NEW k \in Keys \ {"pools", "gsm"}
         PROVE  N.sim[k] = Update(Update(Nothing, GlobalList(o)), injected)[k]
    <3>1. k \notin DOMAIN GgttBase(o)
      BY <2>13, ListFacts
    <3> QED  BY <1>2, <1>3, <2>11, <2>13, <3>1 DEF Update
  <2>14. ASSUME HasSim(o), HasFile(o)
         PROVE  N.sim["pools"] = IF "pools" \in DOMAIN injected THEN injected["pools"] ELSE N.held["pools"]
    <3>1. first["pools"] = None
      BY <1>3, <2>5, ListFacts
    <3>2. N.held["pools"] = IF pools THEN "pools" ELSE None
      BY <2>5, <2>6, <2>10, <2>14
    <3> QED  BY <2>5, <2>11, <2>14, <3>1, <3>2
  <2>15. \A k \in Keys \ {"pools"} : N.held[k] = None
    BY <2>6, <2>10
  <2>16. DOMAIN N.file = Keys /\ DOMAIN N.held = Keys /\ DOMAIN N.sim = Keys
    BY <2>1, <2>6, <2>8, <2>10
  <2> QED  BY <2>9, <2>12, <2>13, <2>14, <2>15, <2>16 DEF M, N
<1> QED  BY <1>4, <1>5

(* A new manager. *)
LEMMA CreateKeeps ==
    ASSUME NEW o, NEW own
    PROVE  LET N == Initialized(o, own) IN
           /\ Kept(N, injected) /\ N.opts = o /\ N.own = own /\ N.work = Idle /\ N.hwContexts = << >>
<1> DEFINE M == NewManager(o, own)
           N == Initialized(o, own)
           start == Update(Update(Nothing, GlobalList(o)), injected)
<1>1. /\ Proper(M) /\ M.opts = o /\ M.own = own /\ M.work = Idle /\ M.hwContexts = << >>
      /\ ~M.isOpen /\ M.fileNo = 0 /\ M.ccsCount = 0 /\ M.differ = {}
  BY NewIsProper
<1>2. /\ Changes(M, N, Sinks)
      /\ DOMAIN N.file = Keys /\ DOMAIN N.held = Keys /\ DOMAIN N.sim = Keys
      /\ ~HasSim(o) => \A k \in Keys : N.sim[k] = None
      /\ \A k \in Keys \ {"pools"} : N.held[k] = None
      /\ HasSim(o) => \A k \in Keys \ {"pools", "gsm"} : N.sim[k] = start[k]
      /\ HasSim(o) /\ HasFile(o) =>
           N.sim["pools"] = IF "pools" \in DOMAIN injected THEN injected["pools"] ELSE N.held["pools"]
  BY InitializedFacts
<1> HIDE DEF M, N
<1>3. /\ N.state = M.state /\ N.opts = o /\ N.ccsCount = 0 /\ N.isOpen = M.isOpen
      /\ N.fileNo = 0 /\ N.hwContexts = << >> /\ N.own = own /\ N.work = Idle /\ N.differ = {}
      /\ N.paused = M.paused /\ N.blocked = M.blocked /\ N.raced = M.raced
      /\ N.skipped = M.skipped /\ N.threw = M.threw
  BY <1>1, <1>2 DEF Changes, Fields, Sinks
<1>4. ~Opening(N) /\ ~Unset(N) /\ N.work.op = "idle"
  BY <1>3 DEF Opening, Unset, Idle
<1>5. Proper(N)
  BY <1>1, <1>2, <1>3, <1>4 DEF Proper, Changes
<1>6. /\ DOMAIN Nothing = Keys /\ (\A k \in Keys : Nothing[k] = None) /\ DOMAIN start = Keys
      /\ \A k \in Keys : start[k] = IF k \in DOMAIN injected THEN injected[k]
                                    ELSE IF k \in DOMAIN GlobalList(o) THEN GlobalList(o)[k] ELSE None
  BY DEF Nothing, Update
<1>7. {"ccs", "bank", "pools", "gsm"} \subseteq Keys
  BY DEF Keys, Registers
<1>8. CcsKept(N, injected)
  <2>1. ASSUME Known(N), "ccs" \notin DOMAIN injected, HasSim(o) PROVE N.sim["ccs"] = "ccs1"
    <3>1. "ccs" \in DOMAIN GlobalList(o) /\ GlobalList(o)["ccs"] = "ccs1"
      BY <1>3, <2>1, ListFacts DEF Known
    <3> QED  BY <1>2, <1>6, <1>7, <2>1, <3>1
  <2>2. CcsValue(0) = "ccs1"
    BY DEF CcsValue
  <2> QED  BY <1>1, <1>3, <1>4, <2>1, <2>2 DEF CcsKept
<1>9. ListTold(N, injected)
  <2> SUFFICES ASSUME HasSim(o), HasFile(o), NEW k \in Repeated(N, injected)
               PROVE  N.sim[k] = Start(N, injected, k)
    BY <1>3 DEF ListTold
  <2>1. k \in Keys /\ k # "gsm" /\ k \in DOMAIN GlobalList(o) \cup DOMAIN injected
    BY <1>3 DEF Repeated, SimulatorOnly
  <2>2. Start(N, injected, k) = IF k \in DOMAIN injected THEN injected[k] ELSE GlobalList(o)[k]
    BY <1>3 DEF Start
  <2>3. CASE k = "pools"
    <3>1. "pools" \in DOMAIN injected
      BY <2>1, <2>3, ListFacts
    <3> QED  BY <1>2, <2>2, <2>3, <3>1
  <2>4. CASE k # "pools"
    BY <1>2, <1>6, <2>1, <2>2, <2>4
  <2> QED  BY <2>3, <2>4
<1>10. ASSUME HasSim(o), HasFile(o), NEW k \in Same(N, injected)
       PROVE  InFile(N, injected, k) = N.sim[k]
  <2>1. k \in Keys \ {"gsm"}
    BY <1>3 DEF Same, Repeated, SimulatorOnly
  <2>2. InFile(N, injected, k) = IF k \in DOMAIN injected THEN injected[k]
                   ELSE IF k \in DOMAIN GlobalList(o) THEN GlobalList(o)[k] ELSE N.held[k]
    BY <1>1, <1>2, <1>3, <2>1 DEF InFile, Update
  <2>3. CASE k = "pools"
    <3>1. "pools" \notin DOMAIN GlobalList(o)
      BY ListFacts
    <3> QED  BY <1>2, <1>10, <2>2, <2>3, <3>1
  <2>4. CASE k # "pools"
    BY <1>2, <1>6, <1>10, <2>1, <2>2, <2>4
  <2> QED  BY <2>3, <2>4
<1>11. Agree(N, injected)
  BY <1>1, <1>3, <1>9, <1>10 DEF Agree
<1> QED  BY <1>3, <1>5, <1>8, <1>11 DEF Kept, N

AfterList(M, new) == [M EXCEPT !.differ = @ \cup DOMAIN injected \cup DOMAIN new]

(* Another list is injected. *)
LEMMA ListKeeps ==
    ASSUME NEW M, Kept(M, injected), NEW new
    PROVE  Kept(AfterList(M, new), new) /\ Changes(M, AfterList(M, new), {"differ"})
<1> DEFINE N == AfterList(M, new)
<1>0. Proper(M) /\ DOMAIN M = Fields
  BY DEF Kept, Proper
<1>1. Changes(M, N, {"differ"}) /\ N.differ = M.differ \cup DOMAIN injected \cup DOMAIN new
  BY <1>0 DEF AfterList, Changes, Fields
<1> HIDE DEF N
<1>2. /\ N.state = M.state /\ N.opts = M.opts /\ N.ccsCount = M.ccsCount /\ N.isOpen = M.isOpen
      /\ N.fileNo = M.fileNo /\ N.hwContexts = M.hwContexts /\ N.sim = M.sim
      /\ N.file = M.file /\ N.held = M.held /\ N.work = M.work
      /\ N.paused = M.paused /\ N.blocked = M.blocked /\ N.raced = M.raced
      /\ N.skipped = M.skipped /\ N.threw = M.threw
  BY <1>1 DEF Changes, Fields
<1>3. (Opening(N) <=> Opening(M)) /\ (Unset(N) <=> Unset(M))
  BY <1>2 DEF Opening, Unset
<1>4. Proper(N)
  BY <1>0, <1>1, <1>2, <1>3 DEF Proper, Changes
<1>5. CcsKept(N, new)
  BY <1>1, <1>2 DEF CcsKept, Kept, Known
<1>6. ASSUME NEW f, DOMAIN f = Keys, NEW k \in Keys, k \notin N.differ
      PROVE  Update(f, new)[k] = f[k] /\ Update(f, injected)[k] = f[k]
  BY <1>1, <1>6 DEF Update
<1>7. DOMAIN Update(M.held, GlobalList(M.opts)) = Keys /\ DOMAIN Update(Nothing, GlobalList(M.opts)) = Keys
      /\ "bank" \in Keys
  BY <1>0 DEF Proper, Update, Nothing, Keys, Registers
<1>8. ListTold(N, new)
  BY <1>1, <1>2, <1>6, <1>7 DEF ListTold, Repeated, Start, Kept, Agree
<1>9. ASSUME NEW k \in Same(N, new)
      PROVE  k \in Same(M, injected) /\ InFile(N, new, k) = InFile(M, injected, k)
  <2>1. k \in Keys /\ k \notin N.differ
    BY DEF Same, Repeated, Keys, Registers
  <2>2. k \in Same(M, injected)
    BY <1>1, <1>2, <2>1 DEF Same, Repeated
  <2> QED  BY <1>1, <1>2, <1>3, <1>6, <1>7, <2>1, <2>2 DEF InFile
<1>10. Agree(N, new)
  BY <1>1, <1>2, <1>3, <1>8, <1>9 DEF Agree, Kept
<1> QED  BY <1>1, <1>4, <1>5, <1>10 DEF Kept, N

-----------------------------------------------------------------------------
(* Steps of one manager that leave the contexts alone *)

(* What every context of the list is spared. *)
Passes(M, N) ==
    /\ N.hwContexts = M.hwContexts /\ N.own = M.own
    /\ Looping(N) => \/ Looping(M) /\ N.work = M.work /\ N.raced = M.raced
                     \/ N.work.list = M.hwContexts
    /\ \A i \in 1 .. Len(M.hwContexts) : \A x :
          x.born \in Nat /\ x.ready \in BOOLEAN /\ Placed(M, i, x) => Placed(N, i, x)

ManagerStep(m) ==
    /\ m \in Live
    /\ \E N : /\ mgr' = [mgr EXCEPT ![m] = N]
              /\ Kept(N, injected)
              /\ Passes(mgr[m], N)
    /\ UNCHANGED <<injected, ctx, releasing, globalSettings, alive, undefined>>

(* A live manager is proper, and the others are none. *)
LEMMA LiveIsKept ==
    ASSUME ManagersInv, NEW m \in Managers
    PROVE  /\ m \in Live => Kept(mgr[m], injected)
           /\ m \notin Live => mgr[m] = NoManager
<1>1. mgr[m] = NoManager \/ Proper(mgr[m])
  BY DEF ManagersInv
<1>2. mgr[m] = NoManager => m \notin Live
  BY DEF NoManager, Live
<1>3. Proper(mgr[m]) => m \in Live
  BY DEF Proper, Live
<1>4. m \in Live => CcsKept(mgr[m], injected) /\ Agree(mgr[m], injected)
  BY DEF ManagersInv
<1> QED  BY <1>1, <1>2, <1>3, <1>4 DEF Kept

(* The fields that Placed reads. *)
LEMMA PassesAside ==
    ASSUME NEW M, NEW N, NEW F, Changes(M, N, F),
           F \subseteq Sinks \cup {"differ", "paused", "blocked", "ccsCount"}
    PROVE  Passes(M, N)
<1>1. /\ N.hwContexts = M.hwContexts /\ N.own = M.own /\ N.work = M.work /\ N.raced = M.raced
      /\ N.isOpen = M.isOpen /\ N.fileNo = M.fileNo /\ N.skipped = M.skipped /\ N.threw = M.threw
  BY DEF Changes, Fields, Sinks
<1> QED  BY <1>1 DEF Passes, Placed, Looping, Settled, Target

LEMMA PutsPass ==
    ASSUME ManagersInv, NEW m \in Managers
    PROVE  /\ \A k \in UserKeys : UserWrite(m, k) => ManagerStep(m)
           /\ Pause(m) \/ BlockMemWritesViaTbx(m) => ManagerStep(m)
<1> DEFINE M == mgr[m]
<1>1. ASSUME NEW k \in UserKeys, UserWrite(m, k) PROVE ManagerStep(m)
  <2>1. m \in Live /\ M.work = Idle /\ mgr' = [mgr EXCEPT ![m] = AfterWrite(M, k)]
    BY <1>1 DEF UserWrite, CanStart, AfterWrite
  <2>2. Kept(AfterWrite(M, k), injected) /\ Changes(M, AfterWrite(M, k), Sinks \cup {"differ"})
    BY <2>1, LiveIsKept, WriteKeeps
  <2>3. Passes(M, AfterWrite(M, k))
    BY <2>2, PassesAside
  <2> QED  BY <1>1, <2>1, <2>2, <2>3 DEF ManagerStep, UserWrite
<1>2. ASSUME Pause(m) PROVE ManagerStep(m)
  <2> DEFINE N == [M EXCEPT !.paused = ~@]
  <2>1. m \in Live /\ mgr' = [mgr EXCEPT ![m] = N]
    BY <1>2 DEF Pause, CanStart
  <2>2. Kept(M, injected) /\ DOMAIN M = Fields /\ M.hwContexts \in Seq(Contexts)
        /\ {M.paused, M.blocked, M.raced, M.skipped, M.threw} \subseteq BOOLEAN
        /\ M.work \in WorkType
    BY <2>1, LiveIsKept DEF Kept, Proper
  <2>3. Changes(M, N, {"paused"}) /\ N.paused = ~M.paused
    BY <2>2 DEF Changes, Fields
  <2> HIDE DEF N
  <2>4. Changes(M, N, Aside)
    BY <2>3 DEF Changes, Aside
  <2>5. /\ N.work = M.work /\ N.hwContexts = M.hwContexts /\ N.blocked = M.blocked
        /\ N.raced = M.raced /\ N.skipped = M.skipped /\ N.threw = M.threw
    BY <2>3 DEF Changes, Fields
  <2>6. {N.paused, N.blocked, N.raced, N.skipped, N.threw} \subseteq BOOLEAN
    BY <2>2, <2>3, <2>5
  <2>7. Kept(N, injected)
    BY <2>2, <2>4, <2>5, <2>6, SinksAside
  <2>8. Passes(M, N)
    BY <2>3, PassesAside
  <2> QED  BY <1>2, <2>1, <2>7, <2>8 DEF ManagerStep, Pause
<1>3. ASSUME BlockMemWritesViaTbx(m) PROVE ManagerStep(m)
  <2> DEFINE N == [M EXCEPT !.blocked = ~@]
  <2>1. m \in Live /\ mgr' = [mgr EXCEPT ![m] = N]
    BY <1>3 DEF BlockMemWritesViaTbx, CanStart
  <2>2. Kept(M, injected) /\ DOMAIN M = Fields /\ M.hwContexts \in Seq(Contexts)
        /\ {M.paused, M.blocked, M.raced, M.skipped, M.threw} \subseteq BOOLEAN
        /\ M.work \in WorkType
    BY <2>1, LiveIsKept DEF Kept, Proper
  <2>3. Changes(M, N, {"blocked"}) /\ N.blocked = ~M.blocked
    BY <2>2 DEF Changes, Fields
  <2> HIDE DEF N
  <2>4. Changes(M, N, Aside)
    BY <2>3 DEF Changes, Aside
  <2>5. /\ N.work = M.work /\ N.hwContexts = M.hwContexts /\ N.paused = M.paused
        /\ N.raced = M.raced /\ N.skipped = M.skipped /\ N.threw = M.threw
    BY <2>3 DEF Changes, Fields
  <2>6. {N.paused, N.blocked, N.raced, N.skipped, N.threw} \subseteq BOOLEAN
    BY <2>2, <2>3, <2>5
  <2>7. Kept(N, injected)
    BY <2>2, <2>4, <2>5, <2>6, SinksAside
  <2>8. Passes(M, N)
    BY <2>3, PassesAside
  <2> QED  BY <1>3, <2>1, <2>7, <2>8 DEF ManagerStep, BlockMemWritesViaTbx
<1> QED  BY <1>1, <1>2, <1>3

LEMMA ModePasses ==
    ASSUME ManagersInv, NEW m \in Managers, SetCCSMode(m) \/ CheckContexts(m) \/ WriteMode(m)
    PROVE  ManagerStep(m)
<1> DEFINE M == mgr[m]
<1>0. m \in Live /\ Kept(M, injected) /\ Proper(M) /\ DOMAIN M = Fields
      /\ M.hwContexts \in Seq(Contexts)
      /\ {M.paused, M.blocked, M.raced, M.skipped, M.threw} \subseteq BOOLEAN /\ M.work \in WorkType
  BY LiveIsKept DEF Kept, Proper, SetCCSMode, CheckContexts, WriteMode, CanStart
<1>1. ASSUME SetCCSMode(m) PROVE ManagerStep(m)
  <2>1. PICK n \in {2, 8} :
          mgr' = [mgr EXCEPT ![m].work = [op |-> "check", count |-> n, opening |-> FALSE]]
    BY <1>1 DEF SetCCSMode
  <2> DEFINE w == [op |-> "check", count |-> n, opening |-> FALSE]
             N == [M EXCEPT !.work = w]
  <2>2. mgr' = [mgr EXCEPT ![m] = N] /\ M.work = Idle
    BY <1>1, <2>1 DEF SetCCSMode, CanStart
  <2>3. w \in WorkType /\ w.op = "check" /\ ~w.opening
    BY DEF WorkType
  <2> HIDE DEF w
  <2>4. Changes(M, N, {"work"}) /\ N.work = w
    BY <1>0 DEF Changes, Fields
  <2> HIDE DEF N
  <2>5. Changes(M, N, Aside) /\ Calm(M) /\ Calm(N)
    BY <2>2, <2>3, <2>4 DEF Changes, Aside, Calm, Idle
  <2>6. /\ N.hwContexts = M.hwContexts /\ N.own = M.own /\ N.raced = M.raced
        /\ N.isOpen = M.isOpen /\ N.fileNo = M.fileNo /\ N.skipped = M.skipped /\ N.threw = M.threw
        /\ N.paused = M.paused /\ N.blocked = M.blocked
    BY <2>4 DEF Changes, Fields
  <2>7. Kept(N, injected)
    BY <1>0, <2>3, <2>4, <2>5, <2>6, SinksAside
  <2>8. Passes(M, N)
    BY <2>2, <2>3, <2>4, <2>6 DEF Passes, Placed, Looping, Settled, Target, Idle
  <2> QED  BY <1>0, <1>1, <2>2, <2>7, <2>8 DEF ManagerStep, SetCCSMode
<1>2. ASSUME CheckContexts(m) PROVE ManagerStep(m)
  <2> DEFINE N == AfterCheck(M)
  <2>1. M.work.op = "check" /\ mgr' = [mgr EXCEPT ![m] = N]
    BY <1>2 DEF CheckContexts, AfterCheck
  <2>2. /\ Kept(N, injected)
        /\ Changes(M, N, {"ccsCount", "work", "threw", "differ"})
        /\ M.work.opening => N.threw \/ N.work.op = "inject" \/ (N.work.op = "write" /\ N.work.opening)
        /\ ~M.work.opening => Settled(N) /\ N.threw = M.threw
        /\ N.work.op # "loop"
    BY <1>0, <2>1, CheckKeeps
  <2> HIDE DEF N
  <2>3. /\ N.hwContexts = M.hwContexts /\ N.own = M.own /\ N.raced = M.raced
        /\ N.isOpen = M.isOpen /\ N.fileNo = M.fileNo /\ N.skipped = M.skipped
    BY <2>2 DEF Changes, Fields
  <2>4. M.work.opening => N.threw \/ ~Settled(N)
    BY <2>2 DEF Settled, Idle
  <2>5. ~M.work.opening => Settled(M)
    BY <2>1 DEF Settled
  <2>6. Passes(M, N)
    BY <2>1, <2>2, <2>3, <2>4, <2>5 DEF Passes, Placed, Looping, Target
  <2> QED  BY <1>0, <1>2, <2>1, <2>2, <2>6 DEF ManagerStep, CheckContexts
<1>3. ASSUME WriteMode(m) PROVE ManagerStep(m)
  <2> DEFINE N == ModeWritten(M)
  <2>1. M.work.op = "write" /\ mgr' = [mgr EXCEPT ![m] = N]
    BY <1>3 DEF WriteMode, ModeWritten
  <2>2. /\ Kept(N, injected)
        /\ Changes(M, N, Sinks \cup {"work", "differ"})
        /\ N.work = IF M.work.opening THEN [op |-> "inject"] ELSE Idle
    BY <1>0, <2>1, WriteModeKeeps
  <2> HIDE DEF N
  <2>3. /\ N.hwContexts = M.hwContexts /\ N.own = M.own /\ N.raced = M.raced
        /\ N.isOpen = M.isOpen /\ N.fileNo = M.fileNo /\ N.skipped = M.skipped /\ N.threw = M.threw
    BY <2>2 DEF Changes, Fields, Sinks
  <2>4. ~Looping(N) /\ (Settled(N) => Settled(M))
    BY <2>1, <2>2 DEF Settled, Idle, Looping
  <2>6. Passes(M, N)
    BY <2>1, <2>3, <2>4 DEF Passes, Placed, Target
  <2> QED  BY <1>0, <1>3, <2>1, <2>2, <2>6 DEF ManagerStep, WriteMode
<1> QED  BY <1>1, <1>2, <1>3

LEMMA FilePasses ==
    ASSUME ManagersInv, LoopInv, NEW m \in Managers,
           Open(m) \/ InjectMMIOs(m) \/ Close(m) \/ LoopEnd(m)
    PROVE  ManagerStep(m)
<1> DEFINE M == mgr[m]
<1>0. m \in Live /\ Kept(M, injected) /\ Proper(M) /\ DOMAIN M = Fields
      /\ M.hwContexts \in Seq(Contexts) /\ M.fileNo \in Nat
      /\ {M.paused, M.blocked, M.raced, M.skipped, M.threw} \subseteq BOOLEAN /\ M.work \in WorkType
  BY LiveIsKept DEF Kept, Proper, Open, InjectMMIOs, Close, LoopEnd, CanStart
<1>a. ASSUME NEW kind \in {"open", "close"}, NEW N, M.work = Idle,
             N = [M EXCEPT !.work = Loop(M, kind), !.raced = FALSE]
      PROVE  Kept(N, injected) /\ Passes(M, N)
  <2> DEFINE w == Loop(M, kind)
  <2>1. w \in WorkType /\ w.op = "loop" /\ w.at = 1 /\ w.list = M.hwContexts
    BY <1>0 DEF WorkType, Loop
  <2> HIDE DEF w
  <2>2. Changes(M, N, {"work", "raced"}) /\ N.work = w /\ N.raced = FALSE
    BY <1>0, <1>a DEF Changes, Fields, w
  <2>3. Changes(M, N, Aside) /\ Calm(M) /\ Calm(N)
    BY <1>a, <2>1, <2>2 DEF Changes, Aside, Calm, Idle
  <2>4. /\ N.hwContexts = M.hwContexts /\ N.own = M.own
        /\ N.isOpen = M.isOpen /\ N.fileNo = M.fileNo /\ N.skipped = M.skipped /\ N.threw = M.threw
        /\ N.paused = M.paused /\ N.blocked = M.blocked
    BY <2>2 DEF Changes, Fields
  <2>5. {N.paused, N.blocked, N.raced, N.skipped, N.threw} \subseteq BOOLEAN
    BY <1>0, <2>2, <2>4
  <2>6. Kept(N, injected)
    BY <1>0, <2>1, <2>2, <2>3, <2>4, <2>5, SinksAside
  <2>7. ~Settled(N)
    BY <2>1, <2>2 DEF Settled, Idle
  <2>8. Passes(M, N)
    BY <2>1, <2>2, <2>4, <2>7 DEF Passes, Placed, Looping, Target
  <2> QED  BY <2>6, <2>8
<1>1. ASSUME Open(m) PROVE ManagerStep(m)
  <2>1. M.work = Idle /\ ~M.isOpen
    BY <1>1 DEF Open, CanStart
  <2>2. CASE HasFile(M.opts)
    <3> DEFINE N == OpenFile(M)
    <3>1. mgr' = [mgr EXCEPT ![m] = N]
      BY <1>1, <2>2 DEF Open
    <3>2. /\ Kept(N, injected)
          /\ Changes(M, N, {"isOpen", "fileNo", "file", "held", "work", "threw", "raced"})
          /\ N.isOpen /\ N.fileNo = M.fileNo + 1 /\ Opening(N) /\ N.work.op = "check"
      BY <1>0, <2>1, <2>2, OpenKeeps
    <3> HIDE DEF N
    <3>3. N.hwContexts = M.hwContexts /\ N.own = M.own /\ N.skipped = M.skipped
      BY <3>2 DEF Changes, Fields
    <3>4. ~Looping(N) /\ ~Settled(N) /\ Target(N) = Target(M)
      BY <2>1, <3>2 DEF Settled, Opening, Idle, Looping, Target
    <3>5. Passes(M, N)
      BY <1>0, <3>2, <3>3, <3>4 DEF Passes, Placed
    <3> QED  BY <1>0, <1>1, <3>1, <3>2, <3>5 DEF ManagerStep, Open
  <2>3. CASE ~HasFile(M.opts)
    <3> DEFINE N == [M EXCEPT !.work = Loop(M, "open"), !.raced = FALSE]
    <3>1. mgr' = [mgr EXCEPT ![m] = N]
      BY <1>1, <2>3 DEF Open
    <3>2. Kept(N, injected) /\ Passes(M, N)
      BY <1>a, <2>1
    <3> QED  BY <1>0, <1>1, <3>1, <3>2 DEF ManagerStep, Open
  <2> QED  BY <2>2, <2>3
<1>2. ASSUME InjectMMIOs(m) PROVE ManagerStep(m)
  <2> DEFINE N == AfterInject(M)
  <2>1. M.work.op = "inject" /\ mgr' = [mgr EXCEPT ![m] = N]
    BY <1>2 DEF InjectMMIOs, AfterInject
  <2>2. /\ Kept(N, injected)
        /\ Changes(M, N, {"file", "held", "work", "differ"})
        /\ N.work = Loop(M, "open")
    BY <1>0, <2>1, InjectKeeps
  <2> HIDE DEF N
  <2>3. /\ N.hwContexts = M.hwContexts /\ N.own = M.own /\ N.raced = M.raced
        /\ N.isOpen = M.isOpen /\ N.fileNo = M.fileNo /\ N.skipped = M.skipped /\ N.threw = M.threw
    BY <2>2 DEF Changes, Fields
  <2>4. N.work.op = "loop" /\ N.work.at = 1 /\ N.work.list = M.hwContexts /\ ~Settled(N)
    BY <2>2 DEF Settled, Idle, Loop
  <2>6. Passes(M, N)
    BY <2>1, <2>3, <2>4 DEF Passes, Placed, Target
  <2> QED  BY <1>0, <1>2, <2>1, <2>2, <2>6 DEF ManagerStep, InjectMMIOs
<1>3. ASSUME Close(m) PROVE ManagerStep(m)
  <2> DEFINE N == [M EXCEPT !.work = Loop(M, "close"), !.raced = FALSE]
  <2>1. mgr' = [mgr EXCEPT ![m] = N]
    BY <1>0, <1>3 DEF Close, ReleaseLoop, ManagersInv
  <2>2. M.work = Idle
    BY <1>3 DEF Close, CanStart
  <2>3. Kept(N, injected) /\ Passes(M, N)
    BY <1>a, <2>2
  <2> QED  BY <1>0, <1>3, <2>1, <2>3 DEF ManagerStep, Close
<1>4. ASSUME LoopEnd(m) PROVE ManagerStep(m)
  <2> DEFINE N == AfterLoop(M)
  <2>1. M.work.op = "loop" /\ M.work.at > Len(M.work.list) /\ mgr' = [mgr EXCEPT ![m] = N]
    BY <1>4 DEF LoopEnd, AfterLoop, Looping
  <2>2. /\ Kept(N, injected)
        /\ Changes(M, N, {"work", "isOpen", "skipped"})
        /\ N.work = Idle
        /\ N.isOpen = (M.isOpen /\ M.work.kind # "close")
        /\ N.skipped = IF M.work.kind = "close" THEN M.raced ELSE M.skipped
    BY <1>0, <2>1, LoopEndKeeps
  <2> HIDE DEF N
  <2>3. /\ N.hwContexts = M.hwContexts /\ N.own = M.own /\ N.raced = M.raced
        /\ N.fileNo = M.fileNo /\ N.threw = M.threw
    BY <2>2 DEF Changes, Fields
  <2>4. ~Looping(N)
    BY <2>2 DEF Idle, Looping
  <2>5. /\ ~M.raced => M.work.list = M.hwContexts
        /\ M.work.kind \in {"open", "close"} /\ M.work.at \in Nat /\ Len(M.hwContexts) \in Nat
    BY <1>0, <2>1, WorkKinds, LenProperties DEF LoopInv, Looping
  <2>6. ASSUME NEW i \in 1 .. Len(M.hwContexts), NEW x, x.born \in Nat, x.ready \in BOOLEAN,
               Placed(M, i, x)
        PROVE  Placed(N, i, x)
    <3>1. ~M.raced => i < M.work.at
      BY <2>1, <2>5
    <3>2. ~M.raced => (x.ready <=> M.work.kind = "open")
      BY <2>1, <2>6, <3>1 DEF Placed, Looping
    <3>3. M.work.kind = "open" => Target(N) = Target(M)
      BY <2>2, <2>3 DEF Target
    <3>4. x.born <= N.fileNo
      BY <2>3, <2>6 DEF Placed
    <3>5. ~N.skipped /\ x.ready => x.where \in {0, Target(N)}
      BY <2>2, <2>5, <2>6, <3>2, <3>3 DEF Placed
    <3>6. N.isOpen /\ ~N.raced => x.ready
      BY <2>2, <2>3, <2>5, <3>2
    <3> QED  BY <2>4, <3>4, <3>5, <3>6 DEF Placed
  <2>7. Passes(M, N)
    BY <2>3, <2>4, <2>6 DEF Passes
  <2> QED  BY <1>0, <1>4, <2>1, <2>2, <2>7 DEF ManagerStep, LoopEnd
<1> QED  BY <1>1, <1>2, <1>3, <1>4

-----------------------------------------------------------------------------
(* Managers whose list, or loop, goes on *)

(* vector::erase. *)
LEMMA RemoveAtFacts ==
    ASSUME NEW S, NEW seq \in Seq(S), NEW i \in 1 .. Len(seq)
    PROVE  /\ RemoveAt(seq, i) \in Seq(S) /\ Len(RemoveAt(seq, i)) = Len(seq) - 1
           /\ \A j \in 1 .. Len(seq) - 1 :
                 RemoveAt(seq, i)[j] = IF j < i THEN seq[j] ELSE seq[j + 1]
<1> DEFINE a == SubSeq(seq, 1, i - 1)
           b == SubSeq(seq, i + 1, Len(seq))
<1>1. Len(seq) \in Nat /\ \A j \in 1 .. Len(seq) : seq[j] \in S
  BY LenProperties, ElementOfSeq
<1>2. a \in Seq(S) /\ Len(a) = i - 1 /\ \A j \in 1 .. i - 1 : a[j] = seq[j]
  BY <1>1, SubSeqProperties
<1>3. /\ b \in Seq(S) /\ Len(b) = Len(seq) - i
      /\ \A j \in 1 .. Len(seq) - i : b[j] = seq[i + j]
  BY <1>1, SubSeqProperties
<1>4. RemoveAt(seq, i) = a \o b
  BY DEF RemoveAt
<1> HIDE DEF a, b
<1>5. /\ a \o b \in Seq(S) /\ Len(a \o b) = Len(a) + Len(b)
      /\ \A j \in 1 .. Len(a) + Len(b) : (a \o b)[j] = IF j <= Len(a) THEN a[j] ELSE b[j - Len(a)]
  BY <1>2, <1>3, ConcatProperties
<1>6. ASSUME NEW j \in 1 .. Len(seq) - 1
      PROVE  (a \o b)[j] = IF j < i THEN seq[j] ELSE seq[j + 1]
  <2>1. CASE j < i
    BY <1>1, <1>2, <1>3, <1>5, <2>1
  <2>2. CASE ~(j < i)
    <3>1. j \in 1 .. Len(a) + Len(b) /\ ~(j <= Len(a)) /\ j - Len(a) = j - i + 1
      BY <1>1, <1>2, <1>3, <2>2
    <3>2. j - i + 1 \in 1 .. Len(seq) - i /\ i + (j - i + 1) = j + 1
      BY <1>1, <2>2
    <3>3. b[j - i + 1] = seq[j + 1]
      BY <1>3, <3>2
    <3> QED  BY <1>5, <2>2, <3>1, <3>3
  <2> QED  BY <2>1, <2>2
<1> QED  BY SMTT(30), <1>1, <1>2, <1>3, <1>4, <1>5, <1>6

WithList(M, s) == [M EXCEPT !.hwContexts = s, !.raced = @ \/ Looping(M)]

LEMMA WithListKeeps ==
    ASSUME NEW M, Kept(M, injected), NEW s \in Seq(Contexts)
    PROVE  /\ Kept(WithList(M, s), injected)
           /\ Changes(M, WithList(M, s), {"hwContexts", "raced"})
           /\ WithList(M, s).hwContexts = s
           /\ WithList(M, s).raced <=> (M.raced \/ Looping(M))
<1> DEFINE N == WithList(M, s)
<1>0. DOMAIN M = Fields /\ M.work \in WorkType /\ M.raced \in BOOLEAN
      /\ {M.paused, M.blocked, M.raced, M.skipped, M.threw} \subseteq BOOLEAN
  BY DEF Kept, Proper
<1>1. /\ Changes(M, N, {"hwContexts", "raced"}) /\ N.hwContexts = s
      /\ N.raced = (M.raced \/ Looping(M))
  BY <1>0 DEF Changes, Fields, WithList
<1> HIDE DEF N
<1>2. Changes(M, N, Aside)
  BY <1>1 DEF Changes, Aside
<1>3. /\ N.work = M.work /\ N.paused = M.paused /\ N.blocked = M.blocked
      /\ N.skipped = M.skipped /\ N.threw = M.threw
  BY <1>1 DEF Changes, Fields
<1>4. Looping(M) \in BOOLEAN
  BY DEF Looping
<1>5. {N.paused, N.blocked, N.raced, N.skipped, N.threw} \subseteq BOOLEAN
  BY <1>0, <1>1, <1>3, <1>4
<1>6. Kept(N, injected)
  BY <1>0, <1>1, <1>2, <1>3, <1>5, SinksAside
<1> QED  BY <1>1, <1>6 DEF N

Advanced(M) == [M EXCEPT !.work.at = @ + 1]

LEMMA AdvancedKeeps ==
    ASSUME NEW M, Kept(M, injected), M.work.op = "loop"
    PROVE  /\ Kept(Advanced(M), injected)
           /\ Changes(M, Advanced(M), {"work"})
           /\ Advanced(M).work.op = "loop" /\ Advanced(M).work.at = M.work.at + 1
           /\ Advanced(M).work.kind = M.work.kind /\ Advanced(M).work.list = M.work.list
<1> DEFINE N == Advanced(M)
           w == M.work
           v == [w EXCEPT !.at = w.at + 1]
<1>0. DOMAIN M = Fields /\ M.work \in WorkType /\ M.hwContexts \in Seq(Contexts)
      /\ {M.paused, M.blocked, M.raced, M.skipped, M.threw} \subseteq BOOLEAN
  BY DEF Kept, Proper
<1>1. w \in [op : {"loop"}, kind : {"open", "close"}, at : Nat \ {0}, list : Seq(Contexts)]
  BY <1>0 DEF WorkType, Idle
<1>2. /\ v \in [op : {"loop"}, kind : {"open", "close"}, at : Nat \ {0}, list : Seq(Contexts)]
      /\ v.op = "loop" /\ v.at = w.at + 1 /\ v.kind = w.kind /\ v.list = w.list
  BY <1>1
<1>3. N = [M EXCEPT !.work = v]
  BY DEF Advanced
<1> HIDE DEF N, v
<1>4. v \in WorkType
  BY <1>2 DEF WorkType
<1>5. Changes(M, N, {"work"}) /\ N.work = v
  BY <1>0, <1>3 DEF Changes, Fields
<1>6. Changes(M, N, Aside) /\ Calm(M) /\ Calm(N)
  BY <1>2, <1>5 DEF Changes, Aside, Calm
<1>7. /\ N.hwContexts = M.hwContexts /\ N.paused = M.paused /\ N.blocked = M.blocked
      /\ N.skipped = M.skipped /\ N.threw = M.threw /\ N.raced = M.raced
  BY <1>5 DEF Changes, Fields
<1>8. {N.paused, N.blocked, N.raced, N.skipped, N.threw} \subseteq BOOLEAN
  BY <1>0, <1>7
<1>9. Kept(N, injected)
  BY <1>0, <1>4, <1>5, <1>6, <1>7, <1>8, SinksAside
<1> QED  BY <1>2, <1>5, <1>9 DEF N

-----------------------------------------------------------------------------
(* One manager changes: what that does to the others. *)
LEMMA OneManager ==
    ASSUME ManagersInv, NEW m \in Managers, NEW N, mgr' = [mgr EXCEPT ![m] = N],
           N = NoManager \/ Kept(N, injected), injected' = injected
    PROVE  /\ ManagersInv'
           /\ mgr'[m] = N /\ \A n \in Managers \ {m} : mgr'[n] = mgr[n]
           /\ Live' = IF N = NoManager THEN Live \ {m} ELSE Live \cup {m}
<1>1. DOMAIN mgr = Managers
  BY DEF ManagersInv
<1>2. DOMAIN mgr' = Managers /\ mgr'[m] = N /\ \A n \in Managers \ {m} : mgr'[n] = mgr[n]
  BY <1>1
<1>3. NoManager.state = "none" /\ (Kept(N, injected) => N.state = "live")
  BY DEF NoManager, Kept, Proper
<1>4. Live' = IF N = NoManager THEN Live \ {m} ELSE Live \cup {m}
  BY <1>2, <1>3 DEF Live
<1>5. \A n \in Managers : mgr'[n] = NoManager \/ Proper(mgr'[n])
  BY <1>2 DEF ManagersInv, Kept
<1>6. \A n \in Live' : CcsKept(mgr'[n], injected') /\ Agree(mgr'[n], injected')
  <2> SUFFICES ASSUME NEW n \in Live'
               PROVE  CcsKept(mgr'[n], injected') /\ Agree(mgr'[n], injected')
    OBVIOUS
  <2>1. CASE n = m
    BY <1>2, <1>3, <1>4, <2>1 DEF Kept
  <2>2. CASE n # m
    <3>1. n \in Live /\ mgr'[n] = mgr[n]
      BY <1>2, <1>4, <2>2 DEF Live
    <3> QED  BY <3>1 DEF ManagersInv
  <2> QED  BY <2>1, <2>2
<1>7. ManagersInv'
  BY <1>2, <1>5, <1>6 DEF ManagersInv
<1> QED  BY <1>2, <1>4, <1>7

LEMMA NotNoManager ==
    ASSUME NEW N, Kept(N, injected)
    PROVE  N # NoManager
BY DEF Kept, Proper, NoManager

(* What the steps do to the managers' values. *)
LEMMA CreateEffect ==
    ASSUME ManagersInv, NEW m \in Managers, Create(m)
    PROVE  /\ m \notin Live /\ undefined = None /\ UNCHANGED <<injected, ctx, releasing>>
           /\ \E o \in Options[plan.name] :
                /\ globalSettings' = IF NewSettings(m) # None /\ Outcome(o) # "deleted"
                                     THEN NewSettings(m) ELSE globalSettings
                /\ alive' = IF Outcome(o) = "created" THEN alive \cup ({NewSettings(m)} \ {None})
                            ELSE alive
                /\ undefined' = IF Outcome(o) = "undefined" THEN "stream" ELSE None
                /\ IF Outcome(o) = "created"
                   THEN \E N : /\ mgr' = [mgr EXCEPT ![m] = N] /\ Kept(N, injected)
                               /\ N.own = NewSettings(m) /\ N.work = Idle /\ N.hwContexts = << >>
                   ELSE mgr' = mgr
<1>1. m \notin Live /\ undefined = None /\ UNCHANGED <<injected, ctx, releasing>>
  BY DEF Create, Running
<1>2. PICK o \in Options[plan.name] :
            /\ mgr' = [mgr EXCEPT ![m] = IF Outcome(o) = "created"
                                         THEN Initialized(o, NewSettings(m)) ELSE @]
            /\ globalSettings' = IF NewSettings(m) # None /\ Outcome(o) # "deleted"
                                 THEN NewSettings(m) ELSE globalSettings
            /\ alive' = IF Outcome(o) = "created" THEN alive \cup ({NewSettings(m)} \ {None})
                        ELSE alive
            /\ undefined' = IF Outcome(o) = "undefined" THEN "stream" ELSE None
  BY DEF Create
<1>3. DOMAIN mgr = Managers /\ mgr = [n \in Managers |-> mgr[n]]
  BY DEF ManagersInv
<1>4. CASE Outcome(o) = "created"
  <2> DEFINE N == Initialized(o, NewSettings(m))
  <2>1. mgr' = [mgr EXCEPT ![m] = N]
    BY <1>2, <1>4
  <2>2. Kept(N, injected) /\ N.own = NewSettings(m) /\ N.work = Idle /\ N.hwContexts = << >>
    BY CreateKeeps
  <2> HIDE DEF N
  <2> QED  BY <1>1, <1>2, <1>4, <2>1, <2>2
<1>5. CASE Outcome(o) # "created"
  <2>1. mgr' = mgr
    BY <1>2, <1>3, <1>5
  <2> QED  BY <1>1, <1>2, <1>5, <2>1
<1> QED  BY <1>4, <1>5

LEMMA CreateContextEffect ==
    ASSUME ManagersInv, NEW m \in Managers, NEW c \in Contexts, CreateContext(m, c)
    PROVE  /\ m \in Live /\ ctx[c].state = "none"
           /\ UNCHANGED <<injected, releasing, globalSettings, alive>>
           /\ \/ undefined' = "settings" /\ UNCHANGED <<mgr, ctx>>
              \/ /\ ctx' = [ctx EXCEPT ![c] = [state |-> "live", of |-> m, ready |-> FALSE,
                                               where |-> 0, born |-> mgr[m].fileNo]]
                 /\ mgr' = [mgr EXCEPT ![m] = WithList(mgr[m], Append(mgr[m].hwContexts, c))]
                 /\ UNCHANGED undefined
<1>1. DOMAIN mgr = Managers
  BY DEF ManagersInv
<1> QED  BY <1>1 DEF CreateContext, CanRace, WithList

LEMMA EraseContextEffect ==
    ASSUME ManagersInv, ContextsInv, NEW c \in Contexts, EraseContext(c)
    PROVE  LET m == ctx[c].of IN
           /\ m \in Live /\ ctx[c].state = "live" /\ releasing = None /\ releasing' = c
           /\ UNCHANGED <<injected, ctx, globalSettings, alive, undefined>>
           /\ \E i \in 1 .. Len(mgr[m].hwContexts) :
                /\ mgr[m].hwContexts[i] = c
                /\ mgr' = [mgr EXCEPT ![m] = WithList(mgr[m], RemoveAt(mgr[m].hwContexts, i))]
<1>1. DOMAIN mgr = Managers
  BY DEF ManagersInv
<1>2. ctx[c].of \in Live /\ Live \subseteq Managers
  BY DEF EraseContext, CanRace, Live
<1> DEFINE M == mgr[ctx[c].of]
<1>3. PICK i \in 1 .. Len(M.hwContexts) :
             /\ M.hwContexts[i] = c
             /\ mgr' = [mgr EXCEPT ![ctx[c].of].hwContexts = RemoveAt(@, i),
                                   ![ctx[c].of].raced = @ \/ Looping(M)]
  BY DEF EraseContext
<1>4. mgr' = [mgr EXCEPT ![ctx[c].of] = WithList(M, RemoveAt(M.hwContexts, i))]
  BY <1>1, <1>2, <1>3 DEF WithList
<1>5. /\ ctx[c].state = "live" /\ releasing = None /\ releasing' = c
      /\ UNCHANGED <<injected, ctx, globalSettings, alive, undefined>>
  BY DEF EraseContext
<1> QED  BY <1>2, <1>3, <1>4, <1>5

LEMMA LoopStepEffect ==
    ASSUME ManagersInv, ContextsInv, NEW m \in Managers, LoopStep(m)
    PROVE  /\ m \in Live /\ Looping(mgr[m])
           /\ UNCHANGED <<injected, releasing, globalSettings, alive>>
           /\ undefined = None
           /\ \E s \in {mgr[m].work.list, mgr[m].hwContexts} :
                LET M == mgr[m]
                    i == M.work.at
                IN /\ ~M.raced => s = M.work.list
                   /\ i \in 1 .. Len(s) /\ s[i] \in Contexts
                   /\ \/ /\ ctx[s[i]].state = "live"
                         /\ ctx' = [ctx EXCEPT ![s[i]] = IF M.work.kind = "open"
                                                         THEN InitializeContext(M, @)
                                                         ELSE ReleaseOf(@)]
                         /\ mgr' = [mgr EXCEPT ![m] = Advanced(M)]
                         /\ UNCHANGED undefined
                      \/ /\ ctx[s[i]].state # "live"
                         /\ undefined' = IF M.raced THEN "race" ELSE "context"
                         /\ UNCHANGED <<ctx, mgr>>
<1> DEFINE M == mgr[m]
<1>1. DOMAIN mgr = Managers
  BY DEF ManagersInv
<1>2. m \in Live /\ Looping(M) /\ undefined = None
      /\ UNCHANGED <<injected, releasing, globalSettings, alive>>
  BY DEF LoopStep
<1>3. PICK s \in IF M.raced THEN {M.work.list, M.hwContexts} ELSE {M.work.list} :
               /\ M.work.at <= Len(s)
               /\ IF ctx[s[M.work.at]].state = "live"
                  THEN /\ ctx' = [ctx EXCEPT ![s[M.work.at]] = IF M.work.kind = "open"
                                                       THEN InitializeContext(M, @)
                                                       ELSE ReleaseOf(@)]
                       /\ mgr' = [mgr EXCEPT ![m].work.at = @ + 1]
                       /\ UNCHANGED undefined
                  ELSE /\ undefined' = IF M.raced THEN "race" ELSE "context"
                       /\ UNCHANGED <<ctx, mgr>>
  BY DEF LoopStep
<1>4. M.work \in WorkType /\ M.hwContexts \in Seq(Contexts) /\ M.raced \in BOOLEAN
  BY <1>2, LiveIsKept DEF Kept, Proper
<1>5. M.work.at \in Nat \ {0} /\ M.work.list \in Seq(Contexts)
  BY <1>2, <1>4, WorkKinds DEF Looping
<1>6. s \in Seq(Contexts) /\ s \in {M.work.list, M.hwContexts} /\ (~M.raced => s = M.work.list)
  BY <1>3, <1>4, <1>5
<1>7. M.work.at \in 1 .. Len(s) /\ s[M.work.at] \in Contexts
  BY <1>3, <1>5, <1>6, LenProperties, ElementOfSeq
<1>8. mgr' = [mgr EXCEPT ![m].work.at = @ + 1] => mgr' = [mgr EXCEPT ![m] = Advanced(M)]
  BY DEF Advanced
<1> QED  BY <1>2, <1>3, <1>6, <1>7, <1>8

LEMMA ManagersStep ==
    ASSUME ManagersInv, ContextsInv, [Next]_vars
    PROVE  ManagersInv'
<1>0. ASSUME mgr' = mgr, injected' = injected PROVE ManagersInv'
  BY <1>0 DEF ManagersInv, Live
<1>1. CASE UNCHANGED vars
  BY <1>0, <1>1 DEF vars
<1>2. ASSUME NEW m \in Managers, ManagerStep(m) PROVE ManagersInv'
  BY <1>2, OneManager DEF ManagerStep
<1>3. ASSUME NEW m \in Managers, Create(m) PROVE ManagersInv'
  <2>1. injected' = injected
    BY <1>3, CreateEffect
  <2>2. CASE mgr' = mgr
    BY <1>0, <2>1, <2>2
  <2>3. ASSUME NEW N, mgr' = [mgr EXCEPT ![m] = N], Kept(N, injected) PROVE ManagersInv'
    BY <2>1, <2>3, OneManager
  <2> QED  BY <1>3, <2>2, <2>3, CreateEffect
<1>4. ASSUME NEW m \in Managers, Delete(m) PROVE ManagersInv'
  BY <1>4, OneManager DEF Delete
<1>5. ASSUME NEW m \in Managers, NEW c \in Contexts, CreateContext(m, c) PROVE ManagersInv'
  <2>1. CASE mgr' = mgr
    BY <1>0, <1>5, <2>1 DEF CreateContext
  <2>2. CASE mgr' = [mgr EXCEPT ![m] = WithList(mgr[m], Append(mgr[m].hwContexts, c))]
    <3>1. Kept(mgr[m], injected) /\ mgr[m].hwContexts \in Seq(Contexts)
      BY <1>5, CreateContextEffect, LiveIsKept DEF Kept, Proper
    <3>2. Append(mgr[m].hwContexts, c) \in Seq(Contexts)
      BY <3>1, AppendProperties
    <3>3. Kept(WithList(mgr[m], Append(mgr[m].hwContexts, c)), injected)
      BY <3>1, <3>2, WithListKeeps
    <3> QED  BY <1>5, <2>2, <3>3, OneManager, CreateContextEffect
  <2> QED  BY <1>5, <2>1, <2>2, CreateContextEffect
<1>6. ASSUME NEW c \in Contexts, EraseContext(c) PROVE ManagersInv'
  <2> DEFINE M == mgr[ctx[c].of]
  <2>1. /\ ctx[c].of \in Managers /\ ctx[c].of \in Live /\ injected' = injected
        /\ \E i \in 1 .. Len(M.hwContexts) :
             mgr' = [mgr EXCEPT ![ctx[c].of] = WithList(M, RemoveAt(M.hwContexts, i))]
    BY <1>6, EraseContextEffect DEF Live
  <2>2. PICK i \in 1 .. Len(M.hwContexts) :
             mgr' = [mgr EXCEPT ![ctx[c].of] = WithList(M, RemoveAt(M.hwContexts, i))]
    BY <2>1
  <2>3. Kept(M, injected) /\ M.hwContexts \in Seq(Contexts)
    BY <2>1, LiveIsKept DEF Kept, Proper
  <2>4. RemoveAt(M.hwContexts, i) \in Seq(Contexts)
    BY <2>3, RemoveAtFacts
  <2>5. Kept(WithList(M, RemoveAt(M.hwContexts, i)), injected)
    BY <2>3, <2>4, WithListKeeps
  <2> QED  BY <2>1, <2>2, <2>5, OneManager
<1>7. ASSUME NEW m \in Managers, LoopStep(m) PROVE ManagersInv'
  <2>1. /\ m \in Live /\ mgr[m].work.op = "loop" /\ injected' = injected
        /\ mgr' = mgr \/ mgr' = [mgr EXCEPT ![m] = Advanced(mgr[m])]
    BY <1>7, LoopStepEffect DEF Looping
  <2>2. Kept(Advanced(mgr[m]), injected)
    BY <2>1, LiveIsKept, AdvancedKeeps
  <2> QED  BY <1>0, <2>1, <2>2, OneManager
<1>8. ASSUME InjectMMIOList PROVE ManagersInv'
  <2>1. mgr' = [m \in Managers |-> IF m \in Live THEN AfterList(mgr[m], injected') ELSE mgr[m]]
    BY <1>8 DEF InjectMMIOList, AfterList
  <2>2. ASSUME NEW m \in Live PROVE Kept(mgr'[m], injected')
    BY <2>1, <2>2, LiveIsKept, ListKeeps DEF Live
  <2>3. \A m \in Managers : m \notin Live => mgr'[m] = NoManager
    BY <2>1, LiveIsKept
  <2>4. \A m \in Managers : mgr'[m] = NoManager \/ Proper(mgr'[m])
    BY <2>2, <2>3 DEF Kept
  <2>5. Live' \subseteq Live
    BY <2>3 DEF Live, NoManager
  <2> QED  BY <2>1, <2>2, <2>4, <2>5 DEF ManagersInv, Kept
<1>9. CASE DeleteContext \/ \E c \in Contexts : UserInitialize(c)
  BY <1>0, <1>9 DEF DeleteContext, UserInitialize
<1>10. LoopInv
  BY DEF ContextsInv
<1>11. ASSUME NEW m \in Managers, UserCall(m) PROVE ManagersInv'
  BY <1>2, <1>4, <1>5, <1>10, <1>11, PutsPass, ModePasses, FilePasses DEF UserCall, UserKeys
<1>12. ASSUME NEW m \in Managers, WorkStep(m) PROVE ManagersInv'
  BY <1>2, <1>7, <1>10, <1>12, ModePasses, FilePasses DEF WorkStep
<1> QED  BY <1>1, <1>3, <1>6, <1>8, <1>9, <1>11, <1>12 DEF Next, ContextCall

-----------------------------------------------------------------------------
(* The settings *)

LEMMA StepKinds ==
    ASSUME ManagersInv, ContextsInv, Next
    PROVE  \/ \E m \in Managers : \/ Create(m) \/ Delete(m) \/ ManagerStep(m) \/ LoopStep(m)
                                  \/ \E c \in Contexts : CreateContext(m, c)
           \/ \E c \in Contexts : EraseContext(c) \/ UserInitialize(c)
           \/ DeleteContext \/ InjectMMIOList
<1>1. LoopInv
  BY DEF ContextsInv
<1>2. ASSUME NEW m \in Managers, UserCall(m)
      PROVE  Delete(m) \/ ManagerStep(m) \/ \E c \in Contexts : CreateContext(m, c)
  BY <1>1, <1>2, PutsPass, ModePasses, FilePasses DEF UserCall, UserKeys
<1>3. ASSUME NEW m \in Managers, WorkStep(m) PROVE ManagerStep(m) \/ LoopStep(m)
  BY <1>1, <1>3, ModePasses, FilePasses DEF WorkStep
<1> QED  BY <1>2, <1>3 DEF Next, ContextCall

(* The plan only counts. *)
LEMMA PlanKept ==
    ASSUME DOMAIN plan = PlanFields, [Next]_vars
    PROVE  DOMAIN plan' = PlanFields /\ plan'.lifo = plan.lifo /\ plan'.name = plan.name
<1>1. CASE plan' = plan
  BY <1>1
<1>2. CASE plan' = [plan EXCEPT !.calls = @ - 1] \/ plan' = [plan EXCEPT !.opens = @ - 1]
  BY <1>2 DEF PlanFields
<1>3. CASE UNCHANGED vars
  BY <1>1, <1>3 DEF vars
<1>4. ASSUME NEW m \in Managers, Create(m) \/ UserCall(m)
      PROVE  plan' = [plan EXCEPT !.calls = @ - 1] \/ plan' = [plan EXCEPT !.opens = @ - 1]
  BY <1>4 DEF Create, UserCall, Delete, Open, Close, SetCCSMode, Pause, BlockMemWritesViaTbx,
              UserWrite, CreateContext, Spend
<1>5. ASSUME NEW m \in Managers, WorkStep(m) PROVE plan' = plan
  BY <1>5 DEF WorkStep, CheckContexts, WriteMode, InjectMMIOs, LoopStep, LoopEnd
<1>6. CASE ContextCall \/ InjectMMIOList
  BY <1>2, <1>6 DEF ContextCall, EraseContext, UserInitialize, InjectMMIOList, Spend
<1>7. CASE DeleteContext
  BY <1>1, <1>7 DEF DeleteContext
<1> QED  BY <1>1, <1>2, <1>3, <1>4, <1>5, <1>6, <1>7 DEF Next

(* Only create and delete change who lives and who owns. *)
OwnersKept ==
    /\ Live' = Live /\ \A m \in Live : mgr'[m].own = mgr[m].own
    /\ UNCHANGED <<globalSettings, alive>>
    /\ undefined' = None => undefined = None

LEMMA OtherStepsKeepOwners ==
    ASSUME ManagersInv, ContextsInv, [Next]_vars
    PROVE  OwnersKept \/ \E m \in Managers : Create(m) \/ Delete(m)
<1>0. ASSUME mgr' = mgr, UNCHANGED <<globalSettings, alive>>, undefined' = None => undefined = None
      PROVE  OwnersKept
  BY <1>0 DEF OwnersKept, Live
<1>a. ASSUME NEW m \in Live, NEW N, mgr' = [mgr EXCEPT ![m] = N], Kept(N, injected),
             N.own = mgr[m].own, UNCHANGED <<globalSettings, alive>>, injected' = injected,
             undefined' = None => undefined = None
      PROVE  OwnersKept
  <2>1. m \in Managers /\ N # NoManager
    BY <1>a, NotNoManager DEF Live
  <2>2. mgr'[m] = N /\ (\A n \in Managers \ {m} : mgr'[n] = mgr[n])
        /\ Live' = IF N = NoManager THEN Live \ {m} ELSE Live \cup {m}
    BY <1>a, <2>1, OneManager
  <2>3. Live' = Live /\ Live \subseteq Managers
    BY <2>1, <2>2 DEF Live
  <2>4. \A n \in Live : mgr'[n].own = mgr[n].own
    BY <1>a, <2>2, <2>3
  <2> QED  BY <1>a, <2>3, <2>4 DEF OwnersKept
<1>1. CASE UNCHANGED vars
  BY <1>0, <1>1 DEF vars
<1>2. ASSUME NEW m \in Managers, ManagerStep(m) PROVE OwnersKept
  BY <1>2, <1>a DEF ManagerStep, Passes
<1>3. ASSUME NEW m \in Managers, LoopStep(m) PROVE OwnersKept
  <2>1. /\ m \in Live /\ mgr[m].work.op = "loop" /\ injected' = injected
        /\ UNCHANGED <<globalSettings, alive>> /\ undefined = None
        /\ mgr' = mgr \/ mgr' = [mgr EXCEPT ![m] = Advanced(mgr[m])]
    BY <1>3, LoopStepEffect DEF Looping
  <2>2. Kept(Advanced(mgr[m]), injected) /\ Changes(mgr[m], Advanced(mgr[m]), {"work"})
    BY <2>1, LiveIsKept, AdvancedKeeps
  <2>3. Advanced(mgr[m]).own = mgr[m].own
    BY <2>2 DEF Changes, Fields
  <2> QED  BY <1>0, <1>a, <2>1, <2>2, <2>3
<1>4. ASSUME NEW m \in Managers, NEW c \in Contexts, CreateContext(m, c) PROVE OwnersKept
  <2> DEFINE s == Append(mgr[m].hwContexts, c)
             N == WithList(mgr[m], s)
  <2>1. /\ m \in Live /\ injected' = injected /\ UNCHANGED <<globalSettings, alive>>
        /\ undefined = None /\ (mgr' = mgr \/ mgr' = [mgr EXCEPT ![m] = N])
    BY <1>4, CreateContextEffect DEF CreateContext, Running
  <2>2. Kept(mgr[m], injected) /\ s \in Seq(Contexts)
    BY <2>1, LiveIsKept, AppendProperties DEF Kept, Proper
  <2>3. Kept(N, injected) /\ Changes(mgr[m], N, {"hwContexts", "raced"})
    BY <2>2, WithListKeeps
  <2> HIDE DEF N
  <2>4. N.own = mgr[m].own
    BY <2>3 DEF Changes, Fields
  <2> QED  BY <1>0, <1>a, <2>1, <2>3, <2>4
<1>5. ASSUME NEW c \in Contexts, EraseContext(c) PROVE OwnersKept
  <2>1. PICK m \in Live : m = ctx[c].of
    BY <1>5, EraseContextEffect
  <2>2. /\ injected' = injected /\ UNCHANGED <<globalSettings, alive, undefined>>
        /\ \E i \in 1 .. Len(mgr[m].hwContexts) :
             mgr' = [mgr EXCEPT ![m] = WithList(mgr[m], RemoveAt(mgr[m].hwContexts, i))]
    BY <1>5, <2>1, EraseContextEffect
  <2>3. PICK i \in 1 .. Len(mgr[m].hwContexts) :
             mgr' = [mgr EXCEPT ![m] = WithList(mgr[m], RemoveAt(mgr[m].hwContexts, i))]
    BY <2>2
  <2> DEFINE s == RemoveAt(mgr[m].hwContexts, i)
             N == WithList(mgr[m], s)
  <2>4. Kept(mgr[m], injected) /\ s \in Seq(Contexts)
    BY <2>1, <2>3, LiveIsKept, RemoveAtFacts DEF Kept, Proper, Live
  <2>5. Kept(N, injected) /\ Changes(mgr[m], N, {"hwContexts", "raced"})
    BY <2>4, WithListKeeps
  <2>6. mgr' = [mgr EXCEPT ![m] = N]
    BY <2>3
  <2> HIDE DEF N
  <2>7. N.own = mgr[m].own
    BY <2>5 DEF Changes, Fields
  <2> QED  BY <1>a, <2>2, <2>5, <2>6, <2>7
<1>6. CASE DeleteContext \/ \E c \in Contexts : UserInitialize(c)
  BY <1>0, <1>6 DEF DeleteContext, UserInitialize
<1>7. CASE InjectMMIOList
  <2>1. mgr' = [m \in Managers |-> IF m \in Live THEN AfterList(mgr[m], injected') ELSE mgr[m]]
    BY <1>7 DEF InjectMMIOList, AfterList
  <2>2. ASSUME NEW m \in Live
        PROVE  mgr'[m].own = mgr[m].own /\ mgr'[m].state = "live"
    <3>1. m \in Managers /\ Kept(mgr[m], injected)
      BY LiveIsKept DEF Live
    <3>2. Changes(mgr[m], AfterList(mgr[m], injected'), {"differ"}) /\ mgr[m].state = "live"
      BY <3>1, ListKeeps DEF Kept, Proper
    <3>3. mgr'[m] = AfterList(mgr[m], injected')
      BY <2>1, <2>2, <3>1
    <3> QED  BY <3>2, <3>3 DEF Changes, Fields
  <2>3. Live' = Live
    BY <2>1, <2>2 DEF Live
  <2> QED  BY <1>7, <2>2, <2>3 DEF OwnersKept, InjectMMIOList
<1> QED  BY <1>1, <1>2, <1>3, <1>4, <1>5, <1>6, <1>7, StepKinds

LEMMA SettingsStep ==
    ASSUME ManagersInv, ContextsInv, SettingsInv, [Next]_vars
    PROVE  SettingsInv'
<1>0. DOMAIN plan' = PlanFields /\ plan'.lifo = plan.lifo /\ plan'.name = plan.name
  BY PlanKept DEF SettingsInv
<1>1. OrderlyOptions'
  BY <1>0 DEF OrderlyOptions, SettingsInv
<1>2. CASE OwnersKept
  BY <1>0, <1>1, <1>2 DEF OwnersKept, SettingsInv
<1>3. ASSUME NEW m \in Managers, Create(m) PROVE SettingsInv'
  <2> DEFINE own == NewSettings(m)
  <2>1. m \notin Live /\ undefined = None /\ injected' = injected
    BY <1>3, CreateEffect
  <2>2. PICK o \in Options[plan.name] :
                /\ globalSettings' = IF own # None /\ Outcome(o) # "deleted"
                                     THEN own ELSE globalSettings
                /\ alive' = IF Outcome(o) = "created" THEN alive \cup ({own} \ {None}) ELSE alive
                /\ undefined' = IF Outcome(o) = "undefined" THEN "stream" ELSE None
                /\ IF Outcome(o) = "created"
                   THEN \E N : /\ mgr' = [mgr EXCEPT ![m] = N] /\ Kept(N, injected)
                               /\ N.own = own /\ N.work = Idle /\ N.hwContexts = << >>
                   ELSE mgr' = mgr
    BY <1>3, CreateEffect
  <2>3. None \notin Managers /\ (own = IF globalSettings = None THEN m ELSE None)
    BY AubManagerAssumption DEF NewSettings
  <2>4. alive \subseteq Live /\ Live \subseteq Managers
    BY DEF SettingsInv, Live
  <2> HIDE DEF own
  <2>5. CASE Outcome(o) = "created"
    <3>1. PICK N : mgr' = [mgr EXCEPT ![m] = N] /\ Kept(N, injected) /\ N.own = own
      BY <2>2, <2>5
    <3>2. mgr'[m] = N /\ (\A n \in Managers \ {m} : mgr'[n] = mgr[n]) /\ Live' = Live \cup {m}
      BY <2>1, <3>1, OneManager, NotNoManager
    <3>3. globalSettings' = (IF own # None THEN own ELSE globalSettings)
          /\ alive' = alive \cup ({own} \ {None})
      BY <2>2, <2>5
    <3>4. globalSettings' \in Managers \cup {None}
      BY <2>3, <3>3 DEF SettingsInv
    <3>5. \A a \in alive' : a \in Live' /\ mgr'[a].own = a
      BY <2>1, <2>3, <2>4, <3>1, <3>2, <3>3 DEF SettingsInv
    <3>6. \A n \in Live' : mgr'[n].own \in {n, None} /\ (mgr'[n].own = n => n \in alive')
      <4> SUFFICES ASSUME NEW n \in Live'
                   PROVE  mgr'[n].own \in {n, None} /\ (mgr'[n].own = n => n \in alive')
        OBVIOUS
      <4>1. CASE n = m
        BY <2>3, <3>1, <3>2, <3>3, <4>1
      <4>2. CASE n # m
        <5>1. n \in Live /\ mgr'[n] = mgr[n]
          BY <2>4, <3>2, <4>2
        <5> QED  BY <3>3, <5>1 DEF SettingsInv
      <4> QED  BY <4>1, <4>2
    <3>7. ASSUME plan.lifo PROVE globalSettings' \in alive'
      <4>1. CASE own # None
        BY <3>3, <4>1
      <4>2. CASE own = None
        <5>1. globalSettings # None
          BY <2>3, <4>2
        <5>2. Live # {}
          BY <2>1, <3>7, <5>1 DEF SettingsInv
        <5> QED  BY <3>3, <3>7, <4>2, <5>2 DEF SettingsInv
      <4> QED  BY <4>1, <4>2
    <3>8. Live' # {}
      BY <3>2
    <3> QED  BY <1>0, <1>1, <3>4, <3>5, <3>6, <3>7, <3>8 DEF SettingsInv
  <2>6. CASE Outcome(o) # "created"
    <3>1. mgr' = mgr /\ alive' = alive
      BY <2>2, <2>6
    <3>2. Live' = Live
      BY <3>1 DEF Live
    <3>3. globalSettings' \in Managers \cup {None}
      BY <2>2, <2>3 DEF SettingsInv
    <3>4. ASSUME plan.lifo, Live # {} PROVE globalSettings' \in alive'
      <4>1. globalSettings \in alive /\ globalSettings # None
        BY <2>3, <2>4, <3>4 DEF SettingsInv
      <4> QED  BY <2>2, <2>3, <3>1, <4>1
    <3>5. ASSUME plan.lifo, Live = {}, undefined' = None PROVE globalSettings' = None
      <4>1. Outcome(o) \notin {"refused", "thrown"}
        BY <3>5 DEF SettingsInv, OrderlyOptions
      <4>2. Outcome(o) = "deleted"
        <5>1. Outcome(o) \in {"refused", "created", "deleted", "thrown", "undefined"}
          BY DEF Outcome
        <5>2. Outcome(o) # "undefined"
          BY <2>2, <3>5 DEF None
        <5> QED  BY <2>6, <4>1, <5>1, <5>2
      <4>3. globalSettings = None
        BY <2>1, <3>5 DEF SettingsInv
      <4> QED  BY <2>2, <4>2, <4>3
    <3> QED  BY <1>0, <1>1, <3>1, <3>2, <3>3, <3>4, <3>5 DEF SettingsInv
  <2> QED  BY <2>5, <2>6
<1>4. ASSUME NEW m \in Managers, Delete(m) PROVE SettingsInv'
  <2> DEFINE own == mgr[m].own
  <2>1. /\ m \in Live /\ injected' = injected /\ mgr' = [mgr EXCEPT ![m] = NoManager]
        /\ globalSettings' = (IF globalSettings = own THEN None ELSE globalSettings)
        /\ alive' = alive \ {own} /\ undefined' = undefined
        /\ plan.lifo => \A n \in Live : own = None \/ n = m
    BY <1>4 DEF Delete, CanStart, ClearedBy, DeletedInOrder
  <2>2. /\ mgr'[m] = NoManager /\ (\A n \in Managers \ {m} : mgr'[n] = mgr[n])
        /\ Live' = Live \ {m}
    BY <2>1, OneManager
  <2>3. None \notin Managers /\ own \in {m, None} /\ alive \subseteq Live /\ Live \subseteq Managers
        /\ (own = m => m \in alive)
    BY <2>1, AubManagerAssumption DEF SettingsInv, Live
  <2> HIDE DEF own
  <2>4. globalSettings' \in Managers \cup {None}
    BY <2>1 DEF SettingsInv
  <2>5. m \notin alive'
    <3>1. ASSUME m \in alive PROVE own = m
      BY <3>1 DEF SettingsInv, own
    <3> QED  BY <2>1, <3>1
  <2>6. \A a \in alive' : a \in Live' /\ mgr'[a].own = a
    <3> SUFFICES ASSUME NEW a \in alive' PROVE a \in Live' /\ mgr'[a].own = a
      OBVIOUS
    <3>1. a \in alive /\ a # m
      BY <2>1, <2>5
    <3>2. a \in Live /\ mgr[a].own = a
      BY <3>1 DEF SettingsInv
    <3> QED  BY <2>2, <2>3, <3>1, <3>2
  <2>7. \A n \in Live' : mgr'[n].own \in {n, None} /\ (mgr'[n].own = n => n \in alive')
    <3> SUFFICES ASSUME NEW n \in Live'
                 PROVE  mgr'[n].own \in {n, None} /\ (mgr'[n].own = n => n \in alive')
      OBVIOUS
    <3>1. n \in Live /\ n # m /\ mgr'[n] = mgr[n]
      BY <2>2, <2>3
    <3>2. mgr[n].own \in {n, None} /\ (mgr[n].own = n => n \in alive)
      BY <3>1 DEF SettingsInv
    <3>3. n # own
      BY <2>3, <3>1
    <3> QED  BY <2>1, <3>1, <3>2, <3>3
  <2>8. ASSUME plan.lifo
        PROVE  IF Live' # {} THEN globalSettings' \in alive'
               ELSE undefined' = None => globalSettings' = None
    <3>1. globalSettings \in alive /\ globalSettings # None
      BY <2>1, <2>3, <2>8 DEF SettingsInv
    <3>2. CASE own = None
      <4>1. globalSettings' = globalSettings /\ alive' = alive
        BY <2>1, <2>3, <3>1, <3>2
      <4>2. Live' # {}
        <5>1. globalSettings # m
          BY <2>5, <3>1, <4>1
        <5> QED  BY <2>2, <2>3, <3>1, <5>1
      <4> QED  BY <3>1, <4>1, <4>2
    <3>3. CASE own # None
      <4>1. Live = {m}
        BY <2>1, <2>8, <3>3
      <4>2. globalSettings = m /\ own = m
        BY <2>3, <3>1, <3>3, <4>1
      <4> QED  BY <2>1, <2>2, <4>1, <4>2
    <3> QED  BY <3>2, <3>3
  <2> QED  BY <1>0, <1>1, <2>4, <2>6, <2>7, <2>8 DEF SettingsInv
<1> QED  BY <1>2, <1>3, <1>4, OtherStepsKeepOwners

-----------------------------------------------------------------------------
(* Contexts *)

(* What is known of the list of a live manager. *)
LEMMA ListTypes ==
    ASSUME ManagersInv, NEW m \in Live
    PROVE  /\ m \in Managers /\ mgr[m].hwContexts \in Seq(Contexts) /\ Len(mgr[m].hwContexts) \in Nat
           /\ \A i \in 1 .. Len(mgr[m].hwContexts) : mgr[m].hwContexts[i] \in Contexts
           /\ mgr[m].work \in WorkType /\ mgr[m].fileNo \in Nat /\ Kept(mgr[m], injected)
           /\ Looping(mgr[m]) =>
                /\ mgr[m].work.list \in Seq(Contexts) /\ mgr[m].work.at \in Nat \ {0}
                /\ mgr[m].work.kind \in {"open", "close"}
                /\ \A i \in 1 .. Len(mgr[m].work.list) : mgr[m].work.list[i] \in Contexts
<1>1. m \in Managers
  BY DEF Live
<1>2. /\ mgr[m].hwContexts \in Seq(Contexts) /\ mgr[m].work \in WorkType /\ mgr[m].fileNo \in Nat
      /\ Kept(mgr[m], injected)
  BY <1>1, LiveIsKept DEF Kept, Proper
<1>3. Looping(mgr[m]) => /\ mgr[m].work.list \in Seq(Contexts) /\ mgr[m].work.at \in Nat \ {0}
                         /\ mgr[m].work.kind \in {"open", "close"}
  BY <1>2, WorkKinds DEF Looping
<1> QED  BY <1>1, <1>2, <1>3, ElementOfSeq, LenProperties

SameLists == Live' = Live /\ \A m \in Live : mgr'[m].hwContexts = mgr[m].hwContexts

(* Contexts are initialised or released, none is made or deleted. *)
SameContexts ==
    /\ DOMAIN ctx' = Contexts
    /\ \A c \in Contexts : /\ ProperContext(ctx'[c]) /\ ctx'[c].state = ctx[c].state
                           /\ ctx[c].state = "live" => ctx'[c].of = ctx[c].of

LEMMA ListsKept ==
    ASSUME ManagersInv, ContextsInv, SameLists, SameContexts, releasing' = releasing
    PROVE  ListInv'
<1>1. ASSUME NEW m \in Live', NEW i \in 1 .. Len(mgr'[m].hwContexts)
      PROVE  LET c == mgr'[m].hwContexts[i]
             IN /\ ctx'[c].state = "live" /\ ctx'[c].of = m /\ c # releasing'
                /\ \A j \in 1 .. Len(mgr'[m].hwContexts) : mgr'[m].hwContexts[j] = c => j = i
  <2>1. m \in Live /\ mgr'[m].hwContexts = mgr[m].hwContexts
    BY DEF SameLists
  <2>2. mgr[m].hwContexts[i] \in Contexts
    BY <1>1, <2>1, ListTypes
  <2> QED  BY <1>1, <2>1, <2>2 DEF ContextsInv, ListInv, SameContexts
<1>2. ASSUME NEW c \in Contexts, ctx'[c].state = "live", c # releasing'
      PROVE  /\ ctx'[c].of \in Live'
             /\ \E i \in 1 .. Len(mgr'[ctx'[c].of].hwContexts) : mgr'[ctx'[c].of].hwContexts[i] = c
  <2>1. ctx[c].state = "live" /\ ctx'[c].of = ctx[c].of
    BY <1>2 DEF SameContexts
  <2>2. /\ ctx[c].of \in Live
        /\ \E i \in 1 .. Len(mgr[ctx[c].of].hwContexts) : mgr[ctx[c].of].hwContexts[i] = c
    BY <1>2, <2>1 DEF ContextsInv, ListInv
  <2>3. mgr'[ctx[c].of].hwContexts = mgr[ctx[c].of].hwContexts /\ Live' = Live
    BY <2>2 DEF SameLists
  <2> QED  BY <2>1, <2>2, <2>3
<1>3. releasing' # None => ctx'[releasing'].state = "live"
  BY DEF ContextsInv, ListInv, SameContexts
<1> QED  BY <1>1, <1>2, <1>3 DEF ListInv

LEMMA ManagerStepContexts ==
    ASSUME ManagersInv, ContextsInv, NEW m \in Managers, ManagerStep(m)
    PROVE  ContextsInv'
<1>1. PICK N : mgr' = [mgr EXCEPT ![m] = N] /\ Kept(N, injected) /\ Passes(mgr[m], N)
  BY DEF ManagerStep
<1>2. m \in Live /\ UNCHANGED <<injected, ctx, releasing, undefined>>
  BY DEF ManagerStep
<1>3. mgr'[m] = N /\ (\A n \in Managers \ {m} : mgr'[n] = mgr[n]) /\ Live' = Live
  <2>1. N # NoManager /\ injected' = injected
    BY <1>1, <1>2, NotNoManager
  <2>2. /\ mgr'[m] = N /\ \A n \in Managers \ {m} : mgr'[n] = mgr[n]
        /\ Live' = IF N = NoManager THEN Live \ {m} ELSE Live \cup {m}
    BY <1>1, <2>1, OneManager
  <2> QED  BY <1>2, <2>1, <2>2
<1>4. SameLists /\ SameContexts
  BY <1>1, <1>2, <1>3 DEF SameLists, SameContexts, ContextsInv, Passes, Live
<1>5. ListInv'
  BY <1>2, <1>4, ListsKept
<1>6. LoopInv'
  <2> SUFFICES ASSUME NEW n \in Live, Looping(mgr'[n])
               PROVE  /\ ~mgr'[n].raced => mgr'[n].work.list = mgr'[n].hwContexts
                      /\ \A i \in 1 .. Len(mgr'[n].work.list) :
                           LET x == ctx[mgr'[n].work.list[i]]
                           IN x.state # "none" /\ (x.state = "live" => x.of = n)
    BY <1>2, <1>3 DEF LoopInv
  <2>1. CASE n # m
    <3>1. mgr'[n] = mgr[n]
      BY <1>3, <2>1 DEF Live
    <3> QED  BY <3>1 DEF ContextsInv, LoopInv
  <2>2. CASE n = m
    <3>1. N.hwContexts = mgr[m].hwContexts
      BY <1>1 DEF Passes
    <3>2. CASE Looping(mgr[m]) /\ N.work = mgr[m].work /\ N.raced = mgr[m].raced
      BY <1>2, <1>3, <2>2, <3>1, <3>2 DEF ContextsInv, LoopInv
    <3>3. CASE N.work.list = mgr[m].hwContexts
      BY <1>2, <1>3, <2>2, <3>1, <3>3 DEF ContextsInv, ListInv
    <3> QED  BY <1>1, <1>3, <2>2, <3>2, <3>3 DEF Passes
  <2> QED  BY <2>1, <2>2
<1>7. PlacedInv'
  <2> SUFFICES ASSUME NEW n \in Live, NEW i \in 1 .. Len(mgr[n].hwContexts)
               PROVE  Placed(mgr'[n], i, ctx[mgr[n].hwContexts[i]])
    BY <1>2, <1>3, <1>4 DEF PlacedInv, SameLists
  <2>1. Placed(mgr[n], i, ctx[mgr[n].hwContexts[i]])
    BY DEF ContextsInv, PlacedInv
  <2>2. mgr[n].hwContexts[i] \in Contexts /\ ctx[mgr[n].hwContexts[i]].state = "live"
    BY ListTypes DEF ContextsInv, ListInv
  <2>3. ctx[mgr[n].hwContexts[i]].born \in Nat /\ ctx[mgr[n].hwContexts[i]].ready \in BOOLEAN
    BY <2>2 DEF ContextsInv, ProperContext
  <2>4. CASE n # m
    <3>1. mgr'[n] = mgr[n]
      BY <1>3, <2>4 DEF Live
    <3> QED  BY <2>1, <3>1
  <2>5. CASE n = m
    BY <1>1, <1>3, <2>1, <2>3, <2>5 DEF Passes
  <2> QED  BY <2>4, <2>5
<1>8. releasing' \in Contexts \cup {None} /\ undefined' \in {None, "stream", "settings", "race"}
  BY <1>2 DEF ContextsInv
<1>9. DOMAIN ctx' = Contexts /\ \A c \in Contexts : ProperContext(ctx'[c])
  BY <1>4 DEF SameContexts
<1> QED  BY <1>5, <1>6, <1>7, <1>8, <1>9 DEF ContextsInv

(* Managers that are made or deleted have no contexts. *)
LEMMA LifeContexts ==
    ASSUME ManagersInv, ContextsInv, NEW m \in Managers, Create(m) \/ Delete(m)
    PROVE  ContextsInv'
<1>0. ctx' = ctx /\ releasing' = releasing /\ undefined = None
  BY DEF Create, Delete, Running
<1>a. undefined' \in {None, "stream", "settings", "race"}
  BY <1>0, CreateEffect DEF Delete
<1>1. CASE mgr' = mgr
  <2>1. Live' = Live
    BY <1>1 DEF Live
  <2> QED  BY <1>0, <1>a, <1>1, <2>1 DEF ContextsInv, ListInv, LoopInv, PlacedInv
<1>b. ASSUME NEW N, mgr' = [mgr EXCEPT ![m] = N], N = NoManager \/ Kept(N, injected),
             N # NoManager => m \notin Live /\ N.work = Idle /\ N.hwContexts = << >>,
             N = NoManager => m \in Live /\ mgr[m].hwContexts = << >> /\ releasing = None,
             injected' = injected
      PROVE  ContextsInv'
  <2>1. /\ mgr'[m] = N /\ (\A n \in Managers \ {m} : mgr'[n] = mgr[n])
        /\ Live' = IF N = NoManager THEN Live \ {m} ELSE Live \cup {m}
    BY <1>b, OneManager
  <2>2. ASSUME NEW n \in Live'
        PROVE  n \in Managers /\ (\/ n \in Live /\ n # m /\ mgr'[n] = mgr[n]
                                  \/ n = m /\ ~Looping(mgr'[n]) /\ Len(mgr'[n].hwContexts) = 0)
    BY <1>b, <2>1 DEF Live, Looping, Idle
  <2>3. ASSUME NEW n \in Live', NEW i \in 1 .. Len(mgr'[n].hwContexts)
        PROVE  n \in Live /\ mgr'[n] = mgr[n]
    BY <2>2, <2>3
  <2>4. ASSUME NEW c \in Contexts, ctx[c].state = "live", c # releasing
        PROVE  /\ ctx[c].of \in Live'
               /\ \E i \in 1 .. Len(mgr'[ctx[c].of].hwContexts) : mgr'[ctx[c].of].hwContexts[i] = c
    <3>1. /\ ctx[c].of \in Live
          /\ \E i \in 1 .. Len(mgr[ctx[c].of].hwContexts) : mgr[ctx[c].of].hwContexts[i] = c
      BY <2>4 DEF ContextsInv, ListInv
    <3>2. ctx[c].of # m
      <4>1. CASE N = NoManager
        <5>1. Len(mgr[m].hwContexts) = 0
          BY <1>b, <4>1
        <5> QED  BY <3>1, <5>1
      <4>2. CASE N # NoManager
        BY <1>b, <3>1, <4>2
      <4> QED  BY <4>1, <4>2
    <3>3. mgr'[ctx[c].of] = mgr[ctx[c].of] /\ ctx[c].of \in Live'
      BY <2>1, <3>1, <3>2 DEF Live
    <3> QED  BY <3>1, <3>3
  <2>5. ListInv'
    BY <1>0, <2>3, <2>4 DEF ContextsInv, ListInv
  <2>6. LoopInv'
    BY <1>0, <2>2 DEF ContextsInv, LoopInv
  <2>7. PlacedInv'
    BY <1>0, <2>3 DEF ContextsInv, PlacedInv
  <2> QED  BY <1>0, <1>a, <2>5, <2>6, <2>7 DEF ContextsInv
<1>2. CASE Create(m)
  <2>1. /\ m \notin Live /\ injected' = injected
        /\ \/ mgr' = mgr
           \/ \E N : /\ mgr' = [mgr EXCEPT ![m] = N] /\ Kept(N, injected)
                     /\ N.work = Idle /\ N.hwContexts = << >>
    BY <1>2, CreateEffect
  <2> QED  BY <1>1, <1>b, <2>1, NotNoManager
<1>3. CASE Delete(m)
  BY <1>3, <1>b DEF Delete, CanStart
<1> QED  BY <1>2, <1>3

(* Another list of registers. *)
LEMMA ListStepContexts ==
    ASSUME ManagersInv, ContextsInv, InjectMMIOList
    PROVE  ContextsInv'
<1>1. mgr' = [m \in Managers |-> IF m \in Live THEN AfterList(mgr[m], injected') ELSE mgr[m]]
  BY DEF InjectMMIOList, AfterList
<1>2. ctx' = ctx /\ releasing' = releasing /\ undefined' = undefined
  BY DEF InjectMMIOList
<1>3. ASSUME NEW m \in Live
      PROVE  /\ mgr'[m].hwContexts = mgr[m].hwContexts /\ mgr'[m].work = mgr[m].work
             /\ mgr'[m].raced = mgr[m].raced /\ mgr'[m].isOpen = mgr[m].isOpen
             /\ mgr'[m].fileNo = mgr[m].fileNo /\ mgr'[m].skipped = mgr[m].skipped
             /\ mgr'[m].threw = mgr[m].threw /\ mgr'[m].state = "live"
  <2>1. m \in Managers /\ Kept(mgr[m], injected)
    BY LiveIsKept DEF Live
  <2>2. Changes(mgr[m], AfterList(mgr[m], injected'), {"differ"}) /\ mgr[m].state = "live"
    BY <2>1, ListKeeps DEF Kept, Proper
  <2>3. mgr'[m] = AfterList(mgr[m], injected')
    BY <1>1, <1>3, <2>1
  <2> QED  BY <2>2, <2>3 DEF Changes, Fields
<1>4. Live' = Live
  BY <1>1, <1>3 DEF Live
<1>5. SameLists /\ SameContexts
  BY <1>2, <1>3, <1>4 DEF SameLists, SameContexts, ContextsInv
<1>6. ListInv'
  BY <1>2, <1>5, ListsKept
<1>7. LoopInv'
  BY <1>2, <1>3, <1>4 DEF ContextsInv, LoopInv, Looping
<1>8. PlacedInv'
  BY <1>2, <1>3, <1>4 DEF ContextsInv, PlacedInv, Placed, Looping, Settled, Target
<1> QED  BY <1>2, <1>6, <1>7, <1>8 DEF ContextsInv

(* A context is made. *)
LEMMA CreateContextContexts ==
    ASSUME ManagersInv, ContextsInv, NEW m \in Managers, NEW c \in Contexts, CreateContext(m, c)
    PROVE  ContextsInv'
<1> DEFINE M == mgr[m]
           s == M.hwContexts
           new == [state |-> "live", of |-> m, ready |-> FALSE, where |-> 0, born |-> M.fileNo]
           N == WithList(M, Append(s, c))
<1>1. m \in Live /\ ctx[c].state = "none" /\ releasing' = releasing /\ injected' = injected
  BY CreateContextEffect
<1>2. CASE undefined' = "settings" /\ UNCHANGED <<mgr, ctx>>
  <2>1. Live' = Live
    BY <1>2 DEF Live
  <2> QED  BY SMTT(30), <1>1, <1>2, <2>1 DEF ContextsInv, ListInv, LoopInv, PlacedInv
<1>3. CASE /\ ctx' = [ctx EXCEPT ![c] = new] /\ mgr' = [mgr EXCEPT ![m] = N]
           /\ undefined' = undefined
  <2>1. /\ s \in Seq(Contexts) /\ Len(s) \in Nat /\ M.fileNo \in Nat /\ Kept(M, injected)
        /\ M.work \in WorkType
    BY <1>1, ListTypes
  <2>2. /\ Append(s, c) \in Seq(Contexts) /\ Len(Append(s, c)) = Len(s) + 1
        /\ \A i \in 1 .. Len(s) : Append(s, c)[i] = s[i]
        /\ Append(s, c)[Len(s) + 1] = c
    BY <2>1, AppendProperties
  <2>3. /\ Kept(N, injected) /\ Changes(M, N, {"hwContexts", "raced"})
        /\ N.hwContexts = Append(s, c) /\ (N.raced <=> (M.raced \/ Looping(M)))
    BY <2>1, <2>2, WithListKeeps
  <2> HIDE DEF N
  <2>4. /\ N.work = M.work /\ N.isOpen = M.isOpen /\ N.fileNo = M.fileNo
        /\ N.skipped = M.skipped /\ N.threw = M.threw
    BY <2>3 DEF Changes, Fields
  <2>5. mgr'[m] = N /\ (\A n \in Managers \ {m} : mgr'[n] = mgr[n]) /\ Live' = Live
    <3>1. N # NoManager
      BY <2>3, NotNoManager
    <3>2. /\ mgr'[m] = N /\ \A n \in Managers \ {m} : mgr'[n] = mgr[n]
          /\ Live' = IF N = NoManager THEN Live \ {m} ELSE Live \cup {m}
      BY <1>1, <1>3, <2>3, OneManager
    <3> QED  BY <1>1, <3>1, <3>2
  <2>6. /\ DOMAIN ctx' = Contexts /\ ctx'[c] = new
        /\ \A d \in Contexts \ {c} : ctx'[d] = ctx[d]
    BY <1>3 DEF ContextsInv
  <2>7. /\ new.state = "live" /\ new.of = m /\ new.ready = FALSE /\ new.where = 0
        /\ new.born = M.fileNo /\ ProperContext(new)
    BY <2>1 DEF ProperContext, CtxFields
  <2> HIDE DEF new
  <2>8. c # releasing
    <3>1. CASE releasing = None
      BY <3>1, AubManagerAssumption
    <3>2. CASE releasing # None
      <4>1. ctx[releasing].state = "live"
        BY <3>2 DEF ContextsInv, ListInv
      <4> QED  BY <1>1, <4>1
    <3> QED  BY <3>1, <3>2
  <2>9. ASSUME NEW n \in Live, NEW i \in 1 .. Len(mgr[n].hwContexts)
        PROVE  /\ mgr[n].hwContexts[i] \in Contexts \ {c}
               /\ ctx'[mgr[n].hwContexts[i]] = ctx[mgr[n].hwContexts[i]]
               /\ ctx[mgr[n].hwContexts[i]].state = "live"
               /\ ctx[mgr[n].hwContexts[i]].of = n /\ mgr[n].hwContexts[i] # releasing
               /\ \A j \in 1 .. Len(mgr[n].hwContexts) :
                     mgr[n].hwContexts[j] = mgr[n].hwContexts[i] => j = i
               /\ Placed(mgr[n], i, ctx[mgr[n].hwContexts[i]])
    <3>1. mgr[n].hwContexts[i] \in Contexts
      BY <2>9, ListTypes
    <3>2. /\ ctx[mgr[n].hwContexts[i]].state = "live" /\ ctx[mgr[n].hwContexts[i]].of = n
          /\ mgr[n].hwContexts[i] # releasing
          /\ \A j \in 1 .. Len(mgr[n].hwContexts) :
                     mgr[n].hwContexts[j] = mgr[n].hwContexts[i] => j = i
      BY DEF ContextsInv, ListInv
    <3>3. mgr[n].hwContexts[i] # c
      BY <1>1, <3>2
    <3> QED  BY <2>6, <3>1, <3>2, <3>3 DEF ContextsInv, PlacedInv
  <2>10. ASSUME NEW n \in Live
         PROVE  IF n = m THEN mgr'[n] = N ELSE mgr'[n] = mgr[n]
    BY <2>5 DEF Live
  <2>11. ListInv'
    <3>1. ASSUME NEW n \in Live, NEW i \in 1 .. Len(mgr'[n].hwContexts)
          PROVE  LET d == mgr'[n].hwContexts[i]
                 IN /\ ctx'[d].state = "live" /\ ctx'[d].of = n /\ d # releasing
                    /\ \A j \in 1 .. Len(mgr'[n].hwContexts) : mgr'[n].hwContexts[j] = d => j = i
      <4>1. CASE n # m
        BY <2>9, <2>10, <3>1, <4>1
      <4>a. n = m => mgr'[n].hwContexts = Append(s, c)
        BY <2>3, <2>10, <3>1
      <4>b. \A j \in 1 .. Len(s) + 1 : j \in 1 .. Len(s) \/ j = Len(s) + 1
        BY <2>1
      <4>c. \A j \in 1 .. Len(s) : s[j] # c
        BY <1>1, <2>9
      <4>2. CASE n = m /\ i \in 1 .. Len(s)
        <5>1. mgr'[n].hwContexts[i] = s[i] /\ s[i] # c /\ ctx'[s[i]] = ctx[s[i]]
          BY SMTT(30), <1>1, <2>2, <2>9, <4>2, <4>a, <4>c
        <5>2. ctx[s[i]].state = "live" /\ ctx[s[i]].of = n /\ s[i] # releasing
          BY <1>1, <2>9, <4>2
        <5>3. ASSUME NEW j \in 1 .. Len(s) + 1, Append(s, c)[j] = s[i] PROVE j = i
          <6>1. j # Len(s) + 1
            BY <2>2, <5>1, <5>3
          <6>2. j \in 1 .. Len(s) /\ s[j] = s[i]
            BY <2>2, <4>b, <5>3, <6>1
          <6> QED  BY <1>1, <2>9, <4>2, <6>2
        <5> QED  BY <2>2, <4>a, <4>2, <5>1, <5>2, <5>3
      <4>3. CASE n = m /\ i = Len(s) + 1
        <5>1. mgr'[n].hwContexts[i] = c /\ ctx'[c].state = "live" /\ ctx'[c].of = n
          BY <2>2, <2>6, <2>7, <4>3, <4>a
        <5>2. ASSUME NEW j \in 1 .. Len(s) + 1, Append(s, c)[j] = c PROVE j = i
          BY <2>2, <4>3, <4>b, <4>c, <5>2
        <5> QED  BY <2>2, <2>8, <4>a, <4>3, <5>1, <5>2
      <4>4. n = m => i \in 1 .. Len(s) + 1
        BY <2>2, <2>3, <2>10, <3>1
      <4> QED  BY <2>1, <4>1, <4>2, <4>3, <4>4
    <3>2. ASSUME NEW d \in Contexts, ctx'[d].state = "live", d # releasing
          PROVE  /\ ctx'[d].of \in Live
                 /\ \E i \in 1 .. Len(mgr'[ctx'[d].of].hwContexts) :
                       mgr'[ctx'[d].of].hwContexts[i] = d
      <4>1. CASE d = c
        <5>1. ctx'[d].of = m /\ mgr'[m].hwContexts = Append(s, c) /\ Len(s) + 1 \in 1 .. Len(Append(s, c))
          BY <2>1, <2>2, <2>3, <2>5, <2>6, <2>7, <4>1
        <5> QED  BY <1>1, <2>2, <4>1, <5>1
      <4>2. CASE d # c
        <5>1. /\ ctx'[d].of = ctx[d].of /\ ctx[d].of \in Live
              /\ \E i \in 1 .. Len(mgr[ctx[d].of].hwContexts) : mgr[ctx[d].of].hwContexts[i] = d
          BY <2>6, <3>2, <4>2 DEF ContextsInv, ListInv
        <5>2. CASE ctx[d].of # m
          BY <2>10, <5>1, <5>2
        <5>3. CASE ctx[d].of = m
          <6>1. PICK i \in 1 .. Len(s) : s[i] = d
            BY <5>1, <5>3
          <6>2. i \in 1 .. Len(Append(s, c)) /\ Append(s, c)[i] = d
            BY <2>1, <2>2, <6>1
          <6> QED  BY <2>3, <2>5, <5>1, <5>3, <6>2
        <5> QED  BY <5>2, <5>3
      <4> QED  BY <4>1, <4>2
    <3>3. releasing # None => ctx'[releasing].state = "live"
      BY <2>6, <2>8 DEF ContextsInv, ListInv
    <3> QED  BY <1>1, <2>5, <3>1, <3>2, <3>3 DEF ListInv
  <2>12. LoopInv'
    <3> SUFFICES ASSUME NEW n \in Live, Looping(mgr'[n])
                 PROVE  /\ ~mgr'[n].raced => mgr'[n].work.list = mgr'[n].hwContexts
                        /\ \A i \in 1 .. Len(mgr'[n].work.list) :
                             LET x == ctx'[mgr'[n].work.list[i]]
                             IN x.state # "none" /\ (x.state = "live" => x.of = n)
      BY <2>5 DEF LoopInv
    <3>1. mgr'[n].work = mgr[n].work /\ Looping(mgr[n])
      BY <2>4, <2>10 DEF Looping
    <3>2. \A i \in 1 .. Len(mgr[n].work.list) :
             /\ mgr[n].work.list[i] \in Contexts /\ ctx[mgr[n].work.list[i]].state # "none"
             /\ ctx[mgr[n].work.list[i]].state = "live" => ctx[mgr[n].work.list[i]].of = n
      BY <3>1, ListTypes DEF ContextsInv, LoopInv
    <3>3. ~mgr'[n].raced => mgr'[n].work.list = mgr'[n].hwContexts
      BY <2>3, <2>10, <3>1 DEF ContextsInv, LoopInv
    <3> QED  BY <1>1, <2>6, <3>1, <3>2, <3>3
  <2>13. PlacedInv'
    <3> SUFFICES ASSUME NEW n \in Live, NEW i \in 1 .. Len(mgr'[n].hwContexts)
                 PROVE  Placed(mgr'[n], i, ctx'[mgr'[n].hwContexts[i]])
      BY <2>5 DEF PlacedInv
    <3>1. CASE n # m
      BY <2>9, <2>10, <3>1
    <3>2. CASE n = m /\ i \in 1 .. Len(s)
      <4>1. /\ mgr'[n] = N /\ N.hwContexts[i] = s[i] /\ ctx'[s[i]] = ctx[s[i]]
            /\ Placed(M, i, ctx[s[i]])
        BY <1>1, <2>2, <2>3, <2>9, <2>10, <3>2
      <4>2. Placed(N, i, ctx[s[i]])
        BY <2>3, <2>4, <4>1 DEF Placed, Looping, Settled, Target
      <4> QED  BY <4>1, <4>2
    <3>3. CASE n = m /\ i = Len(s) + 1
      <4>1. mgr'[n] = N /\ N.hwContexts[i] = c /\ ctx'[c] = new
        BY <2>2, <2>3, <2>6, <2>10, <3>3
      <4>2. Placed(N, i, new)
        BY <2>1, <2>3, <2>4, <2>7 DEF Placed, Looping, Settled, Target
      <4> QED  BY <4>1, <4>2
    <3>4. n = m => i \in 1 .. Len(s) + 1
      BY <2>2, <2>3, <2>10
    <3> QED  BY <2>1, <3>1, <3>2, <3>3, <3>4
  <2>14. \A d \in Contexts : ProperContext(ctx'[d])
    BY <2>6, <2>7 DEF ContextsInv
  <2> QED  BY <1>1, <1>3, <2>6, <2>11, <2>12, <2>13, <2>14 DEF ContextsInv
<1> QED  BY <1>2, <1>3, CreateContextEffect

(* A context is taken out of the list. *)
LEMMA EraseContextContexts ==
    ASSUME ManagersInv, ContextsInv, NEW c \in Contexts, EraseContext(c)
    PROVE  ContextsInv'
<1>1. PICK m \in Live : m = ctx[c].of
  BY EraseContextEffect
<1>2. /\ ctx[c].state = "live" /\ releasing = None /\ releasing' = c
      /\ injected' = injected /\ ctx' = ctx /\ undefined' = undefined
      /\ \E k \in 1 .. Len(mgr[m].hwContexts) :
           /\ mgr[m].hwContexts[k] = c
           /\ mgr' = [mgr EXCEPT ![m] = WithList(mgr[m], RemoveAt(mgr[m].hwContexts, k))]
  BY <1>1, EraseContextEffect
<1>3. PICK k \in 1 .. Len(mgr[m].hwContexts) :
           /\ mgr[m].hwContexts[k] = c
           /\ mgr' = [mgr EXCEPT ![m] = WithList(mgr[m], RemoveAt(mgr[m].hwContexts, k))]
  BY <1>2
<1> DEFINE M == mgr[m]
           s == M.hwContexts
           r == RemoveAt(s, k)
           N == WithList(M, r)
<1>4. s \in Seq(Contexts) /\ Len(s) \in Nat /\ Kept(M, injected) /\ m \in Managers
  BY ListTypes
<1>5. /\ r \in Seq(Contexts) /\ Len(r) = Len(s) - 1
      /\ \A j \in 1 .. Len(s) - 1 : r[j] = IF j < k THEN s[j] ELSE s[j + 1]
  BY <1>3, <1>4, RemoveAtFacts
<1> HIDE DEF r
<1>6. /\ Kept(N, injected) /\ Changes(M, N, {"hwContexts", "raced"})
      /\ N.hwContexts = r /\ (N.raced <=> (M.raced \/ Looping(M)))
  BY <1>4, <1>5, WithListKeeps
<1>7. mgr' = [mgr EXCEPT ![m] = N]
  BY <1>3 DEF r
<1> HIDE DEF N
<1>8. /\ N.work = M.work /\ N.isOpen = M.isOpen /\ N.fileNo = M.fileNo
      /\ N.skipped = M.skipped /\ N.threw = M.threw
  BY <1>6 DEF Changes, Fields
<1>9. mgr'[m] = N /\ (\A n \in Managers \ {m} : mgr'[n] = mgr[n]) /\ Live' = Live
  <2>1. N # NoManager
    BY <1>6, NotNoManager
  <2>2. /\ mgr'[m] = N /\ \A n \in Managers \ {m} : mgr'[n] = mgr[n]
        /\ Live' = IF N = NoManager THEN Live \ {m} ELSE Live \cup {m}
    BY <1>2, <1>4, <1>6, <1>7, OneManager
  <2> QED  BY <2>1, <2>2
<1>10. ASSUME NEW n \in Live
       PROVE  IF n = m THEN mgr'[n] = N ELSE mgr'[n] = mgr[n]
  BY <1>9 DEF Live
<1>11. ASSUME NEW n \in Live, NEW i \in 1 .. Len(mgr[n].hwContexts)
       PROVE  /\ mgr[n].hwContexts[i] \in Contexts
              /\ ctx[mgr[n].hwContexts[i]].state = "live"
              /\ ctx[mgr[n].hwContexts[i]].of = n
              /\ \A j \in 1 .. Len(mgr[n].hwContexts) :
                    mgr[n].hwContexts[j] = mgr[n].hwContexts[i] => j = i
              /\ Placed(mgr[n], i, ctx[mgr[n].hwContexts[i]])
  BY ListTypes DEF ContextsInv, ListInv, PlacedInv
<1>12. ASSUME NEW j \in 1 .. Len(r)
       PROVE  \E i \in 1 .. Len(s) : i # k /\ r[j] = s[i] /\ i = IF j < k THEN j ELSE j + 1
  BY <1>4, <1>5
<1>13. ListInv'
  <2>1. ASSUME NEW n \in Live, NEW i \in 1 .. Len(mgr'[n].hwContexts)
        PROVE  LET d == mgr'[n].hwContexts[i]
               IN /\ ctx[d].state = "live" /\ ctx[d].of = n /\ d # c
                  /\ \A j \in 1 .. Len(mgr'[n].hwContexts) : mgr'[n].hwContexts[j] = d => j = i
    <3>1. CASE n # m
      <4>1. mgr'[n] = mgr[n]
        BY <1>10, <3>1
      <4>2. mgr[n].hwContexts[i] # c
        BY <1>1, <1>11, <2>1, <3>1, <4>1
      <4> QED  BY <1>11, <2>1, <4>1, <4>2
    <3>2. CASE n = m
      <4>1. mgr'[n].hwContexts = r /\ i \in 1 .. Len(r)
        BY <1>6, <1>10, <2>1, <3>2
      <4>2. PICK p \in 1 .. Len(s) : p # k /\ r[i] = s[p] /\ p = IF i < k THEN i ELSE i + 1
        BY <1>12, <4>1
      <4>3. s[p] # c /\ ctx[s[p]].state = "live" /\ ctx[s[p]].of = m
        BY <1>3, <1>11, <4>2
      <4>4. ASSUME NEW j \in 1 .. Len(r), r[j] = r[i] PROVE j = i
        <5>1. PICK q \in 1 .. Len(s) : q # k /\ r[j] = s[q] /\ q = IF j < k THEN j ELSE j + 1
          BY <1>12, <4>4
        <5>2. p = q
          BY <1>11, <4>2, <4>4, <5>1
        <5> QED  BY <1>4, <1>5, <4>1, <4>2, <5>1, <5>2
      <4> QED  BY <3>2, <4>1, <4>2, <4>3, <4>4
    <3> QED  BY <3>1, <3>2
  <2>2. ASSUME NEW d \in Contexts, ctx[d].state = "live", d # c
        PROVE  /\ ctx[d].of \in Live
               /\ \E i \in 1 .. Len(mgr'[ctx[d].of].hwContexts) : mgr'[ctx[d].of].hwContexts[i] = d
    <3>1. d # releasing
      BY <1>2, AubManagerAssumption
    <3>2. /\ ctx[d].of \in Live
          /\ \E i \in 1 .. Len(mgr[ctx[d].of].hwContexts) : mgr[ctx[d].of].hwContexts[i] = d
      BY <2>2, <3>1 DEF ContextsInv, ListInv
    <3>3. CASE ctx[d].of # m
      BY <1>10, <3>2, <3>3
    <3>4. CASE ctx[d].of = m
      <4>1. PICK i \in 1 .. Len(s) : s[i] = d
        BY <3>2, <3>4
      <4>2. i # k
        BY <1>3, <2>2, <4>1
      <4>3. \E j \in 1 .. Len(r) : r[j] = d
        <5>1. CASE i < k
          <6>1. i \in 1 .. Len(s) - 1 /\ i \in 1 .. Len(r)
            BY <1>4, <1>5, <5>1
          <6>2. r[i] = d
            BY <1>5, <4>1, <5>1, <6>1
          <6> QED  BY <6>1, <6>2
        <5>2. CASE i > k
          <6>1. i - 1 \in 1 .. Len(s) - 1 /\ i - 1 \in 1 .. Len(r) /\ ~(i - 1 < k) /\ i - 1 + 1 = i
            BY <1>4, <1>5, <5>2
          <6>2. r[i - 1] = s[i - 1 + 1]
            BY <1>5, <6>1
          <6> QED  BY <4>1, <6>1, <6>2
        <5> QED  BY <1>4, <4>2, <5>1, <5>2
      <4> QED  BY <1>6, <1>9, <3>2, <3>4, <4>3
    <3> QED  BY <3>3, <3>4
  <2> QED  BY <1>2, <1>9, <2>1, <2>2 DEF ListInv
<1>14. LoopInv'
  <2> SUFFICES ASSUME NEW n \in Live, Looping(mgr'[n])
               PROVE  /\ ~mgr'[n].raced => mgr'[n].work.list = mgr'[n].hwContexts
                      /\ \A i \in 1 .. Len(mgr'[n].work.list) :
                           LET x == ctx[mgr'[n].work.list[i]]
                           IN x.state # "none" /\ (x.state = "live" => x.of = n)
    BY <1>2, <1>9 DEF LoopInv
  <2>1. mgr'[n].work = mgr[n].work /\ Looping(mgr[n])
    BY <1>8, <1>10 DEF Looping
  <2>2. ~mgr'[n].raced => mgr'[n].work.list = mgr'[n].hwContexts
    BY <1>6, <1>10, <2>1 DEF ContextsInv, LoopInv
  <2> QED  BY <2>1, <2>2 DEF ContextsInv, LoopInv
<1>15. PlacedInv'
  <2> SUFFICES ASSUME NEW n \in Live, NEW i \in 1 .. Len(mgr'[n].hwContexts)
               PROVE  Placed(mgr'[n], i, ctx[mgr'[n].hwContexts[i]])
    BY <1>2, <1>9 DEF PlacedInv
  <2>1. CASE n # m
    BY <1>10, <1>11, <2>1
  <2>2. CASE n = m
    <3>1. mgr'[n] = N /\ N.hwContexts = r /\ i \in 1 .. Len(r)
      BY <1>6, <1>10, <2>2
    <3>2. PICK p \in 1 .. Len(s) : p # k /\ r[i] = s[p] /\ p = IF i < k THEN i ELSE i + 1
      BY <1>12, <3>1
    <3>3. Placed(M, p, ctx[s[p]])
      BY <1>11, <3>2
    <3>4. Placed(N, i, ctx[s[p]])
      BY <1>6, <1>8, <3>3 DEF Placed, Looping, Settled, Target
    <3> QED  BY <3>1, <3>2, <3>4
  <2> QED  BY <2>1, <2>2
<1> QED  BY <1>2, <1>13, <1>14, <1>15 DEF ContextsInv

(* A context is deleted, which no list has. *)
LEMMA DeleteContextContexts ==
    ASSUME ManagersInv, ContextsInv, DeleteContext
    PROVE  ContextsInv'
<1> DEFINE gone == [state |-> "deleted"]
<1>1. /\ releasing # None /\ ctx' = [ctx EXCEPT ![releasing] = gone] /\ releasing' = None
      /\ mgr' = mgr /\ undefined' = undefined
  BY DEF DeleteContext
<1>2. PICK c \in Contexts : c = releasing
  BY <1>1 DEF ContextsInv
<1>3. gone.state = "deleted"
  OBVIOUS
<1>4. DOMAIN ctx' = Contexts /\ ctx'[c] = gone /\ \A d \in Contexts \ {c} : ctx'[d] = ctx[d]
  BY <1>1, <1>2 DEF ContextsInv
<1> HIDE DEF gone
<1>5. Live' = Live
  BY <1>1 DEF Live
<1>6. ASSUME NEW m \in Live, NEW i \in 1 .. Len(mgr[m].hwContexts)
      PROVE  /\ mgr[m].hwContexts[i] \in Contexts \ {c} /\ mgr[m].hwContexts[i] # None
             /\ ctx'[mgr[m].hwContexts[i]] = ctx[mgr[m].hwContexts[i]]
  <2>1. mgr[m].hwContexts[i] \in Contexts
    BY ListTypes
  <2>2. mgr[m].hwContexts[i] # c
    BY <1>2 DEF ContextsInv, ListInv
  <2> QED  BY <1>4, <2>1, <2>2, AubManagerAssumption
<1>7. ListInv'
  <2>1. ASSUME NEW d \in Contexts, ctx'[d].state = "live"
        PROVE  d # c /\ ctx'[d] = ctx[d]
    BY <1>3, <1>4, <2>1
  <2>2. ASSUME NEW m \in Live, NEW i \in 1 .. Len(mgr[m].hwContexts)
        PROVE  LET d == mgr[m].hwContexts[i]
               IN /\ ctx'[d].state = "live" /\ ctx'[d].of = m /\ d # None
                  /\ \A j \in 1 .. Len(mgr[m].hwContexts) : mgr[m].hwContexts[j] = d => j = i
    BY <1>6 DEF ContextsInv, ListInv
  <2>3. ASSUME NEW d \in Contexts, ctx'[d].state = "live"
        PROVE  /\ ctx'[d].of \in Live
               /\ \E i \in 1 .. Len(mgr[ctx'[d].of].hwContexts) : mgr[ctx'[d].of].hwContexts[i] = d
    <3>1. d # releasing /\ ctx'[d] = ctx[d] /\ ctx[d].state = "live"
      BY <1>2, <2>1, <2>3
    <3>2. /\ ctx[d].of \in Live
          /\ \E i \in 1 .. Len(mgr[ctx[d].of].hwContexts) : mgr[ctx[d].of].hwContexts[i] = d
      BY <3>1 DEF ContextsInv, ListInv
    <3> QED  BY <3>1, <3>2
  <2> QED  BY <1>1, <1>5, <2>2, <2>3 DEF ListInv
<1>8. LoopInv'
  <2>1. ASSUME NEW m \in Live, Looping(mgr[m]), NEW i \in 1 .. Len(mgr[m].work.list)
        PROVE  LET x == ctx'[mgr[m].work.list[i]]
               IN x.state # "none" /\ (x.state = "live" => x.of = m)
    <3>1. mgr[m].work.list[i] \in Contexts
      BY <2>1, ListTypes
    <3> QED  BY <1>3, <1>4, <2>1, <3>1 DEF ContextsInv, LoopInv
  <2> QED  BY SMTT(30), <1>1, <1>5, <2>1 DEF ContextsInv, LoopInv
<1>9. PlacedInv'
  BY <1>1, <1>5, <1>6 DEF ContextsInv, PlacedInv
<1>10. \A d \in Contexts : ProperContext(ctx'[d])
  BY <1>3, <1>4 DEF ContextsInv, ProperContext
<1> QED  BY <1>1, <1>4, <1>7, <1>8, <1>9, <1>10 DEF ContextsInv

(* initialize and release of a context. *)
LEMMA ContextTouched ==
    ASSUME NEW x, ProperContext(x), x.state = "live", NEW M, Kept(M, injected)
    PROVE  LET y == InitializeContext(M, x)
               z == ReleaseOf(x)
           IN /\ ProperContext(y) /\ y.state = "live" /\ y.of = x.of /\ y.born = x.born
              /\ y.ready = TRUE
              /\ (y.where = x.where /\ x.ready) \/ y.where \in {0, Target(M)}
              /\ ProperContext(z) /\ z.state = "live" /\ z.of = x.of /\ z.born = x.born
              /\ z.ready = FALSE
<1>1. /\ DOMAIN x = CtxFields /\ x.ready \in BOOLEAN /\ x.of \in Managers
      /\ x.where \in Nat /\ x.born \in Nat
  BY DEF ProperContext
<1>2. M.fileNo \in Nat
  BY DEF Kept, Proper
<1>3. Where(M) \in {0, Target(M)} /\ Where(M) \in Nat
  BY <1>2 DEF Where, Target
<1> DEFINE w == Where(M)
           y == [x EXCEPT !.ready = TRUE, !.where = w]
           z == [x EXCEPT !.ready = FALSE, !.where = 0]
<1> HIDE DEF w
<1>4. /\ DOMAIN y = CtxFields /\ y.state = "live" /\ y.of = x.of /\ y.born = x.born
      /\ y.ready = TRUE /\ y.where = w
  BY <1>1 DEF CtxFields
<1>5. /\ DOMAIN z = CtxFields /\ z.state = "live" /\ z.of = x.of /\ z.born = x.born
      /\ z.ready = FALSE /\ z.where = 0
  BY <1>1 DEF CtxFields
<1>6. ReleaseOf(x) = z /\ InitializeContext(M, x) = IF x.ready THEN x ELSE y
  BY DEF ReleaseOf, InitializeContext, w
<1> HIDE DEF y, z
<1>7. w \in Nat /\ w \in {0, Target(M)}
  BY <1>3 DEF w
<1>8. ProperContext(y)
  BY <1>1, <1>4, <1>7 DEF ProperContext
<1>9. ProperContext(z)
  <2>1. z.where \in Nat /\ z.born \in Nat /\ z.of \in Managers
    BY <1>1, <1>5
  <2>3. z.ready \in BOOLEAN
    BY <1>5
  <2>2. z.state = "live" /\ DOMAIN z = CtxFields
    BY <1>5
  <2> QED  BY <2>1, <2>2, <2>3 DEF ProperContext
<1> QED  BY <1>1, <1>4, <1>5, <1>6, <1>7, <1>8, <1>9

(* One context is initialised or released. *)
LEMMA OneContext ==
    ASSUME ContextsInv, NEW d \in Contexts, NEW y, ctx' = [ctx EXCEPT ![d] = y],
           ProperContext(y), y.state = ctx[d].state, y.of = ctx[d].of
    PROVE  /\ SameContexts
           /\ ctx'[d] = y /\ \A c \in Contexts \ {d} : ctx'[c] = ctx[c]
<1>1. DOMAIN ctx' = Contexts /\ ctx'[d] = y /\ \A c \in Contexts \ {d} : ctx'[c] = ctx[c]
  BY DEF ContextsInv
<1> QED  BY <1>1 DEF SameContexts, ContextsInv

(* The lists of the loops. *)
LEMMA LoopsKept ==
    ASSUME ManagersInv, ContextsInv, SameContexts, Live' = Live,
           \A n \in Live : /\ mgr'[n].hwContexts = mgr[n].hwContexts
                           /\ mgr'[n].raced = mgr[n].raced
                           /\ Looping(mgr'[n]) <=> Looping(mgr[n])
                           /\ Looping(mgr[n]) => mgr'[n].work.list = mgr[n].work.list
    PROVE  LoopInv'
<1> SUFFICES ASSUME NEW n \in Live, Looping(mgr[n])
             PROVE  /\ ~mgr[n].raced => mgr[n].work.list = mgr[n].hwContexts
                    /\ \A i \in 1 .. Len(mgr[n].work.list) :
                         LET x == ctx'[mgr[n].work.list[i]]
                         IN x.state # "none" /\ (x.state = "live" => x.of = n)
  BY DEF LoopInv
<1>1. \A i \in 1 .. Len(mgr[n].work.list) : mgr[n].work.list[i] \in Contexts
  BY ListTypes
<1> QED  BY SMTT(30), <1>1 DEF ContextsInv, LoopInv, SameContexts

(* The caller initialises a context. *)
LEMMA UserInitializeContexts ==
    ASSUME ManagersInv, ContextsInv, NEW c \in Contexts, UserInitialize(c)
    PROVE  ContextsInv'
<1>1. PICK m \in Live : m = ctx[c].of
  BY DEF UserInitialize, CanStart
<1> DEFINE M == mgr[m]
           y == InitializeContext(M, ctx[c])
<1>2. /\ ctx[c].state = "live" /\ M.work = Idle /\ mgr' = mgr /\ ~ctx[c].ready
      /\ releasing' = releasing /\ undefined' = undefined
  BY <1>1 DEF UserInitialize, CanStart
<1>3. ctx' = [ctx EXCEPT ![c] = y]
  BY <1>1 DEF UserInitialize
<1>4. /\ ProperContext(y) /\ y.state = "live" /\ y.of = m /\ y.born = ctx[c].born
      /\ y.ready = TRUE /\ y.where \in {0, Target(M)}
  <2>1. ProperContext(ctx[c]) /\ Kept(M, injected)
    BY ListTypes DEF ContextsInv
  <2> QED  BY ZenonT(30), <1>1, <1>2, <2>1, ContextTouched
<1> HIDE DEF y
<1>5. SameContexts /\ ctx'[c] = y /\ \A d \in Contexts \ {c} : ctx'[d] = ctx[d]
  BY <1>1, <1>2, <1>3, <1>4, OneContext
<1>6. Live' = Live /\ SameLists
  BY <1>2 DEF Live, SameLists
<1>7. ListInv'
  BY <1>2, <1>5, <1>6, ListsKept
<1>8. LoopInv'
  BY <1>2, <1>5, <1>6, LoopsKept
<1>9. PlacedInv'
  <2> SUFFICES ASSUME NEW n \in Live, NEW i \in 1 .. Len(mgr[n].hwContexts)
               PROVE  Placed(mgr[n], i, ctx'[mgr[n].hwContexts[i]])
    BY <1>2, <1>6 DEF PlacedInv
  <2>1. /\ mgr[n].hwContexts[i] \in Contexts /\ ctx[mgr[n].hwContexts[i]].of = n
        /\ Placed(mgr[n], i, ctx[mgr[n].hwContexts[i]])
    BY ListTypes DEF ContextsInv, ListInv, PlacedInv
  <2>2. CASE mgr[n].hwContexts[i] # c
    BY <1>5, <2>1, <2>2
  <2>3. CASE mgr[n].hwContexts[i] = c
    <3>1. n = m /\ ~Looping(M) /\ ctx'[mgr[n].hwContexts[i]] = y
      BY <1>1, <1>2, <1>5, <2>1, <2>3 DEF Looping, Idle
    <3>2. Placed(M, i, ctx[c])
      BY <2>1, <2>3, <3>1
    <3> QED  BY <1>4, <3>1, <3>2 DEF Placed
  <2> QED  BY <2>2, <2>3
<1> QED  BY <1>2, <1>5, <1>7, <1>8, <1>9 DEF ContextsInv, SameContexts

(* The loops of open and close take the next context. *)
LEMMA LoopStepContexts ==
    ASSUME ManagersInv, ContextsInv, NEW m \in Managers, LoopStep(m)
    PROVE  ContextsInv'
<1> DEFINE M == mgr[m]
           k == M.work.at
           N == Advanced(M)
<1>1. m \in Live /\ Looping(M) /\ injected' = injected /\ releasing' = releasing /\ undefined = None
  BY LoopStepEffect
<1>2. PICK s \in {M.work.list, M.hwContexts} :
           /\ ~M.raced => s = M.work.list
           /\ k \in 1 .. Len(s) /\ s[k] \in Contexts
           /\ \/ /\ ctx[s[k]].state = "live"
                 /\ ctx' = [ctx EXCEPT ![s[k]] = IF M.work.kind = "open"
                                                 THEN InitializeContext(M, @) ELSE ReleaseOf(@)]
                 /\ mgr' = [mgr EXCEPT ![m] = N]
                 /\ UNCHANGED undefined
              \/ /\ ctx[s[k]].state # "live"
                 /\ undefined' = IF M.raced THEN "race" ELSE "context"
                 /\ UNCHANGED <<ctx, mgr>>
  BY LoopStepEffect
<1>3. ~M.raced => M.work.list = M.hwContexts
  BY <1>1 DEF ContextsInv, LoopInv
<1>4. PICK d \in Contexts : d = s[k]
  BY <1>2
<1>a. ASSUME s = M.hwContexts PROVE ctx[d].state = "live" /\ ctx[d].of = m
  <2>1. k \in 1 .. Len(mgr[m].hwContexts) /\ mgr[m].hwContexts[k] = d
    BY <1>2, <1>4, <1>a
  <2> HIDE DEF k
  <2> QED  BY <1>1, <2>1 DEF ContextsInv, ListInv
<1>5. CASE ctx[d].state # "live"
  <2>1. M.raced
    BY <1>2, <1>3, <1>5, <1>a
  <2>2. undefined' = "race" /\ ctx' = ctx /\ mgr' = mgr
    BY <1>2, <1>4, <1>5, <2>1
  <2>3. Live' = Live
    BY <2>2 DEF Live
  <2> QED  BY <1>1, <2>2, <2>3 DEF ContextsInv, ListInv, LoopInv, PlacedInv
<1>6. CASE ctx[d].state = "live"
  <2> DEFINE y == IF M.work.kind = "open" THEN InitializeContext(M, ctx[d]) ELSE ReleaseOf(ctx[d])
  <2>1. ctx' = [ctx EXCEPT ![d] = y] /\ mgr' = [mgr EXCEPT ![m] = N] /\ undefined' = undefined
    BY <1>2, <1>4, <1>6
  <2>2. ctx[d].of = m
    <3>2. s = M.work.list => ctx[d].of = m
      BY SMTT(30), <1>1, <1>2, <1>4, <1>6 DEF ContextsInv, LoopInv
    <3> QED  BY <1>2, <1>a, <3>2
  <2>3. Kept(M, injected) /\ ProperContext(ctx[d]) /\ k \in Nat \ {0}
        /\ M.work.kind \in {"open", "close"}
    BY <1>1, ListTypes DEF ContextsInv
  <2>4. /\ ProperContext(y) /\ y.state = "live" /\ y.of = m /\ y.born = ctx[d].born
        /\ y.ready <=> M.work.kind = "open"
        /\ y.ready => (y.where = ctx[d].where /\ ctx[d].ready) \/ y.where \in {0, Target(M)}
    <3>1. CASE M.work.kind = "open"
      BY ZenonT(30), <1>6, <2>2, <2>3, <3>1, ContextTouched
    <3>2. CASE M.work.kind # "open"
      BY <1>6, <2>2, <2>3, <3>2, ContextTouched
    <3> QED  BY <3>1, <3>2
  <2> HIDE DEF y
  <2>5. SameContexts /\ ctx'[d] = y /\ \A c \in Contexts \ {d} : ctx'[c] = ctx[c]
    BY <1>6, <2>1, <2>2, <2>4, OneContext
  <2>6. /\ Kept(N, injected) /\ Changes(M, N, {"work"})
        /\ N.work.op = "loop" /\ N.work.at = k + 1
        /\ N.work.kind = M.work.kind /\ N.work.list = M.work.list
    BY <1>1, <2>3, AdvancedKeeps DEF Looping
  <2> HIDE DEF N
  <2>7. /\ N.hwContexts = M.hwContexts /\ N.raced = M.raced /\ N.isOpen = M.isOpen
        /\ N.fileNo = M.fileNo /\ N.skipped = M.skipped /\ N.threw = M.threw
    BY <2>6 DEF Changes, Fields
  <2>8. mgr'[m] = N /\ (\A n \in Managers \ {m} : mgr'[n] = mgr[n]) /\ Live' = Live
    <3>1. N # NoManager
      BY <2>6, NotNoManager
    <3>2. /\ mgr'[m] = N /\ \A n \in Managers \ {m} : mgr'[n] = mgr[n]
          /\ Live' = IF N = NoManager THEN Live \ {m} ELSE Live \cup {m}
      BY <1>1, <2>1, <2>6, OneManager
    <3> QED  BY <1>1, <3>1, <3>2
  <2>9. ASSUME NEW n \in Live PROVE IF n = m THEN mgr'[n] = N ELSE mgr'[n] = mgr[n]
    BY <2>8 DEF Live
  <2>10. SameLists
    BY <2>7, <2>8, <2>9 DEF SameLists
  <2>11. ListInv'
    BY <1>1, <2>5, <2>10, ListsKept
  <2>12. LoopInv'
    <3>1. ASSUME NEW n \in Live
          PROVE  /\ mgr'[n].hwContexts = mgr[n].hwContexts /\ mgr'[n].raced = mgr[n].raced
                 /\ Looping(mgr'[n]) <=> Looping(mgr[n])
                 /\ Looping(mgr[n]) => mgr'[n].work.list = mgr[n].work.list
      BY <1>1, <2>6, <2>7, <2>9 DEF Looping
    <3> QED  BY <2>5, <2>8, <3>1, LoopsKept
  <2>13. PlacedInv'
    <3> SUFFICES ASSUME NEW n \in Live, NEW i \in 1 .. Len(mgr[n].hwContexts)
                 PROVE  Placed(mgr'[n], i, ctx'[mgr[n].hwContexts[i]])
      BY <2>8, <2>10 DEF PlacedInv, SameLists
    <3>1. /\ mgr[n].hwContexts[i] \in Contexts /\ ctx[mgr[n].hwContexts[i]].of = n
          /\ Placed(mgr[n], i, ctx[mgr[n].hwContexts[i]])
      BY ListTypes DEF ContextsInv, ListInv, PlacedInv
    <3>2. CASE n # m
      <4>1. mgr[n].hwContexts[i] # d /\ mgr'[n] = mgr[n]
        BY <2>2, <2>9, <3>1, <3>2
      <4> QED  BY <2>5, <3>1, <4>1
    <3>3. CASE n = m /\ M.hwContexts[i] = d
      <4>1. Placed(M, i, ctx[d]) /\ mgr'[n] = N /\ ctx'[mgr[n].hwContexts[i]] = y
        BY <2>5, <2>9, <3>1, <3>3
      <4>2. Target(N) = Target(M) /\ ~Settled(N)
        BY <2>6, <2>7 DEF Target, Settled, Idle
      <4>3. Placed(N, i, y)
        BY <2>4, <2>6, <2>7, <4>1, <4>2 DEF Placed
      <4> QED  BY <4>1, <4>3
    <3>4. CASE n = m /\ M.hwContexts[i] # d
      <4> DEFINE x == ctx[M.hwContexts[i]]
      <4>1. Placed(M, i, x) /\ mgr'[n] = N /\ ctx'[mgr[n].hwContexts[i]] = x
        BY <2>5, <2>9, <3>1, <3>4
      <4>2. Target(N) = Target(M) /\ ~Settled(N)
        BY <2>6, <2>7 DEF Target, Settled, Idle
      <4>3. ~M.raced => i # k
        BY <1>2, <1>3, <1>4, <3>4
      <4>4. ~M.raced /\ i < k + 1 => i < k
        BY <2>3, <4>3
      <4> HIDE DEF x
      <4>5. Placed(N, i, x)
        BY <1>1, <2>6, <2>7, <4>1, <4>2, <4>4 DEF Placed
      <4> QED  BY <4>1, <4>5
    <3> QED  BY <3>2, <3>3, <3>4
  <2> QED  BY <1>1, <2>1, <2>5, <2>11, <2>12, <2>13 DEF ContextsInv, SameContexts
<1> QED  BY <1>5, <1>6

(* The contexts in every step. *)
LEMMA ContextsStep ==
    ASSUME ManagersInv, ContextsInv, [Next]_vars
    PROVE  ContextsInv'
<1>1. CASE UNCHANGED vars
  <2>1. ctx' = ctx /\ mgr' = mgr /\ releasing' = releasing /\ undefined' = undefined
    BY <1>1 DEF vars
  <2>2. Live' = Live
    BY <2>1 DEF Live
  <2> QED  BY <2>1, <2>2 DEF ContextsInv, ListInv, LoopInv, PlacedInv
<1>2. CASE Next
  BY <1>2, StepKinds, LifeContexts, ManagerStepContexts, LoopStepContexts, CreateContextContexts,
     EraseContextContexts, UserInitializeContexts, DeleteContextContexts, ListStepContexts
<1> QED  BY <1>1, <1>2

-----------------------------------------------------------------------------
(* Theorems *)

LEMMA InitInv == Init => ManagersInv /\ ContextsInv
<1> SUFFICES ASSUME Init PROVE ManagersInv /\ ContextsInv
  OBVIOUS
<1>1. mgr = [m \in Managers |-> NoManager] /\ NoManager.state = "none"
  BY DEF Init, NoManager
<1>2. Live = {}
  BY <1>1 DEF Live
<1>3. ManagersInv
  BY <1>1, <1>2 DEF ManagersInv
<1>4. DOMAIN ctx = Contexts /\ \A c \in Contexts : ctx[c].state = "none"
  BY DEF Init
<1>5. ListInv /\ LoopInv /\ PlacedInv
  BY <1>2, <1>4 DEF Init, ListInv, LoopInv, PlacedInv
<1> QED  BY <1>3, <1>4, <1>5 DEF Init, ContextsInv, ProperContext

Inv == ManagersInv /\ ContextsInv

(***************************************************************************)
(* The inductive invariant, in every state of every program, whatever       *)
(* threads do at once: managers, sinks, lists, loops and contexts.          *)
(***************************************************************************)
THEOREM InvHolds == Spec => []Inv
<1>1. Init => Inv
  BY InitInv DEF Inv
<1>2. Inv /\ [Next]_vars => Inv'
  BY ManagersStep, ContextsStep DEF Inv
<1> QED  BY <1>1, <1>2, PTL DEF Spec

(***************************************************************************)
(* After open, file and simulator agree: the first file on the memory and   *)
(* every register but the GGTT base and the PCI space, a later one on the   *)
(* registers that open writes, where the caller has not written them; and   *)
(* apart from what only one of them was told (initialize, open,             *)
(* injectMMIOs and the streams for both sinks, for every order of calls).   *)
(***************************************************************************)
THEOREM FileAndSimulatorAgree == Spec => []SinksAgree
<1>1. Inv => SinksAgree
  <2> SUFFICES ASSUME Inv, NEW m \in Live, mgr[m].isOpen, mgr[m].work = Idle, HasSim(mgr[m].opts),
                      NEW k \in Compared(mgr[m])
               PROVE  mgr[m].file[k] = mgr[m].sim[k]
    BY DEF SinksAgree
  <2> DEFINE M == mgr[m]
  <2>1. Proper(M) /\ Agree(M, injected)
    BY LiveIsKept DEF Inv, Live, Kept
  <2>2. HasFile(M.opts) /\ ~Opening(M) /\ ~Unset(M) /\ M.fileNo > 0 /\ M.fileNo \in Nat
    BY <2>1 DEF Proper, Opening, Unset, Idle
  <2>3. CASE k = "ccs"
    <3>1. k \notin M.differ
      BY DEF Compared
    <3> QED  BY <2>1, <2>2, <2>3, <3>1 DEF Agree
  <2>4. CASE k # "ccs"
    <3>1. k \in Same(M, injected)
      BY <2>2, <2>4 DEF Compared, Same, Repeated, Listed
    <3>2. InFile(M, injected, k) = M.sim[k]
      BY <2>1, <2>2, <3>1 DEF Agree
    <3> QED  BY <2>2, <3>2 DEF InFile
  <2> QED  BY <2>3, <2>4
<1> QED  BY <1>1, InvHolds, PTL

(***************************************************************************)
(* Both sinks have the CCS mode of the last setCCSMode, through any number  *)
(* of files (setCCSMode, and open, which calls it for each new file), as    *)
(* long as no list injects a mode, no pause keeps one of them from hearing  *)
(* it and no open comes when there are contexts, where setCCSMode refuses;  *)
(* for Gen12lp from the first setCCSMode on.                                *)
(***************************************************************************)
THEOREM ModeOfEveryFile == Spec => []CcsModeKept
<1>1. Inv => CcsModeKept
  <2> SUFFICES ASSUME Inv, NEW m \in Live, mgr[m].work = Idle, Known(mgr[m]),
                      "ccs" \notin mgr[m].differ \cup DOMAIN injected
               PROVE  /\ mgr[m].isOpen => mgr[m].file["ccs"] = CcsValue(mgr[m].ccsCount)
                      /\ HasSim(mgr[m].opts) => mgr[m].sim["ccs"] = CcsValue(mgr[m].ccsCount)
    BY DEF CcsModeKept
  <2>1. CcsKept(mgr[m], injected) /\ mgr[m].work.op = "idle"
    BY DEF Inv, ManagersInv, Idle
  <2> QED  BY <2>1 DEF CcsKept
<1> QED  BY <1>1, InvHolds, PTL

(***************************************************************************)
(* Once open has returned, contexts older than it are initialised, and what *)
(* is initialised is in this file (the loops of open and close, which run   *)
(* beside threads that make and release contexts).                          *)
(***************************************************************************)
THEOREM OpenPlacesContexts == Spec => []ContextsInFile
<1>1. Inv => ContextsInFile
  <2> SUFFICES ASSUME Inv, NEW m \in Live, mgr[m].isOpen, mgr[m].work = Idle, ~mgr[m].raced,
                      ~mgr[m].skipped, ~mgr[m].threw, NEW c \in ToSet(mgr[m].hwContexts)
               PROVE  /\ ctx[c].born < mgr[m].fileNo => ctx[c].ready
                      /\ ctx[c].ready => ctx[c].where \in {0, mgr[m].fileNo}
    BY DEF ContextsInFile
  <2>1. PICK i \in 1 .. Len(mgr[m].hwContexts) : mgr[m].hwContexts[i] = c
    BY ListTypes DEF Inv, ToSet
  <2>2. Placed(mgr[m], i, ctx[c])
    BY <2>1 DEF Inv, ContextsInv, PlacedInv
  <2> QED  BY <2>2 DEF Placed, Settled, Target
<1> QED  BY <1>1, InvHolds, PTL

(***************************************************************************)
(* Only live settings and contexts are used (the destructor, which clears   *)
(* the global pointer, and the loops of open and close).  The hypothesis is *)
(* that of the property: in the plans of orderly users no create ends with  *)
(* an exception or without a Gpu.  Of other plans the theorem says the      *)
(* rest: no call of open or close that has not raced touches a dead context.*)
(***************************************************************************)
THEOREM LiveObjectsUsed ==
    ASSUME \A p \in Plans : p.lifo =>
             \A o \in Options[p.name] : Outcome(o) \notin {"refused", "thrown"}
    PROVE  Spec => []OnlyLiveUsed
<1>1. Init => SettingsInv
  <2> SUFFICES ASSUME Init PROVE SettingsInv
    OBVIOUS
  <2>1. Live = {}
    BY DEF Init, Live, NoManager
  <2>2. DOMAIN plan = PlanFields /\ OrderlyOptions
    BY AubManagerAssumption DEF Init, OrderlyOptions
  <2> QED  BY <2>1, <2>2 DEF Init, SettingsInv
<1>2. Inv /\ SettingsInv /\ [Next]_vars => SettingsInv'
  BY SettingsStep DEF Inv
<1>3. Inv /\ SettingsInv => OnlyLiveUsed
  <2> SUFFICES ASSUME Inv, SettingsInv PROVE OnlyLiveUsed
    OBVIOUS
  <2>1. alive \subseteq Managers
    BY DEF SettingsInv, Live
  <2>2. ASSUME NEW m \in Live
        PROVE  /\ mgr[m].own \in alive \cup {None}
               /\ \A k \in Keys : mgr[m].sim[k] # None => HasSim(mgr[m].opts)
               /\ \A c \in ToSet(mgr[m].hwContexts) : ctx[c].state = "live"
    <3>1. mgr[m].own \in alive \cup {None}
      BY DEF SettingsInv
    <3>2. Proper(mgr[m])
      BY LiveIsKept DEF Inv, Live, Kept
    <3>3. \A k \in Keys : mgr[m].sim[k] # None => HasSim(mgr[m].opts)
      BY <3>2 DEF Proper
    <3>4. ASSUME NEW c \in ToSet(mgr[m].hwContexts) PROVE ctx[c].state = "live"
      <4>1. PICK i \in 1 .. Len(mgr[m].hwContexts) : mgr[m].hwContexts[i] = c
        BY ListTypes DEF Inv, ToSet
      <4> QED  BY <4>1 DEF Inv, ContextsInv, ListInv
    <3> QED  BY <3>1, <3>3, <3>4
  <2>3. TypeOK
    BY <2>1, <2>2 DEF Inv, ContextsInv, SettingsInv, TypeOK
  <2>4. undefined # "context"
    BY DEF Inv, ContextsInv, None
  <2> QED  BY <2>3, <2>4 DEF OnlyLiveUsed, SettingsInv
<1> QED  BY <1>1, <1>2, <1>3, InvHolds, PTL DEF Spec
=============================================================================
