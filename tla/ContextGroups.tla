--------------------------- MODULE ContextGroups ---------------------------
(***************************************************************************)
(* Hardware contexts as the manager keeps them and the groups they form on  *)
(* one engine of one device:                                                *)
(*                                                                          *)
(*   aub_manager_imp.cpp       createHardwareContext, createHardwareContext2 *)
(*                             and 3, releaseHardwareContext, open, close   *)
(*   hardware_context_imp.cpp  the constructor, initialize and release      *)
(*                                                                          *)
(* The contexts of a group are submitted together: each holds a slot of the *)
(* group's table, the first one (slot 0) stands for the group, and its      *)
(* release dissolves the group.                                             *)
(*                                                                          *)
(* A context points to its group inside a std::vector that has room for     *)
(* Capacity groups: growing past that moves the groups, and a context made  *)
(* before is left with a pointer into the old storage.  Using it is         *)
(* undefined; of its outcomes the module keeps the one that does not crash: *)
(* what is written there reaches no group.                                  *)
(*                                                                          *)
(* Of a context the module keeps its slot, its group and the flags that     *)
(* initialize copies into the LRCA; the priority is only passed on.         *)
(***************************************************************************)
EXTENDS Integers, Sequences, FiniteSets, SequencesExt

CONSTANTS
    Contexts,    \* the contexts a behaviour may create
    GroupSize,   \* getContextGroupCount(), slots of a group
    Capacity,    \* groups the vector has room for, reserve(4)
    MaxGroups,   \* bound: groups a behaviour makes
    FlagSets,    \* the sets of flags users pass
    Users,       \* what users do: see user
    None         \* no context, no slot

Flags == {"contextGroup", "highPriority", "lowPriority", "runAlone"}

ASSUME ContextGroupsAssumption ==
    /\ IsFiniteSet(Contexts)
    /\ GroupSize \in Nat \ {0}
    /\ {Capacity, MaxGroups} \subseteq Nat \ {0}
    /\ FlagSets \subseteq SUBSET Flags
    /\ Users \subseteq [closes : BOOLEAN, initAtOnce : BOOLEAN]
    /\ None \notin Contexts \cup Nat

VARIABLES
    ctx,           \* the HardwareContextImp objects
    groups,        \* contextGroups[device][engine]
    groupIds,      \* groupIds[device][engine]
    primaryGroup,  \* primaryContextIdToGroupId[device][engine]
    storage,       \* which allocation of the vector is the live one, and its room
    hwContexts,    \* hwContexts of the manager
    loop,          \* what is left of an open or a close
    user           \* closes: the user closes and opens the stream, and releases
                   \* contexts itself; initAtOnce: it initializes a context
                   \* before its next call

vars == <<ctx, groups, groupIds, primaryGroup, storage, hwContexts, loop, user>>

NoContext == [alive |-> FALSE, initialized |-> FALSE, group |-> None, home |-> 0,
              slot |-> None, flags |-> {}]

EmptyGroup == [counter |-> 0, contexts |-> [s \in 0 .. GroupSize - 1 |-> None]]

Idle == [kind |-> "idle", left |-> << >>]

Init ==
    /\ ctx = [c \in Contexts |-> NoContext]
    /\ groups = <<EmptyGroup>>
    /\ groupIds = 0
    /\ primaryGroup = << >>
    /\ storage = [home |-> 0, room |-> Capacity]
    /\ hwContexts = << >>
    /\ loop = Idle
    /\ user \in Users

-----------------------------------------------------------------------------
(***************************************************************************)
(* The constructor.  Each test reads the caller's flags, and each "unset"   *)
(* assigns the caller's flags less one bit: the last of them wins.          *)
(***************************************************************************)
Handled(flags) ==
    IF "runAlone" \in flags THEN "runAlone"
    ELSE IF "contextGroup" \in flags THEN "contextGroup"
    ELSE IF "highPriority" \in flags THEN "highPriority"
    ELSE "lowPriority"

NewContext(g, gs, home, flags) ==
    [alive |-> TRUE, initialized |-> FALSE, group |-> g, home |-> home,
     slot |-> IF "contextGroup" \in flags THEN gs[g].counter ELSE None,
     flags |-> flags \ {Handled(flags)}]

(* The group after the constructor; its assertion says there is a slot left. *)
Joined(gs, g, flags) ==
    IF "contextGroup" \in flags THEN [gs EXCEPT ![g].counter = @ + 1] ELSE gs

RoomFor(gs, g, flags) == "contextGroup" \in flags => gs[g].counter < GroupSize

(* createHardwareContext: always the first group. *)
CreateHardwareContext(c, flags) ==
    /\ ~ctx[c].alive
    /\ RoomFor(groups, 1, flags)
    /\ ctx' = [ctx EXCEPT ![c] = NewContext(1, groups, storage.home, flags)]
    /\ groups' = Joined(groups, 1, flags)
    /\ hwContexts' = Append(hwContexts, c)
    /\ UNCHANGED <<groupIds, primaryGroup, storage>>

(* createHardwareContext2 and 3 without a group. *)
CreateUngrouped(c, flags) ==
    /\ ~ctx[c].alive
    /\ "contextGroup" \notin flags
    /\ ctx' = [ctx EXCEPT ![c] =
                 [NewContext(1, groups, storage.home, flags) EXCEPT !.group = None]]
    /\ hwContexts' = Append(hwContexts, c)
    /\ UNCHANGED <<groups, groupIds, primaryGroup, storage>>

(* vector::resize: past its room the elements move to a new allocation. *)
Grown(n) ==
    IF n <= storage.room THEN storage
    ELSE [home |-> storage.home + 1,
          room |-> IF n < 2 * storage.room THEN 2 * storage.room ELSE n]

(* createHardwareContext2 and 3 for a primary context: the next group. *)
CreatePrimary(c, flags) ==
    LET g == groupIds + 1
        gs == IF g > Len(groups) THEN Append(groups, EmptyGroup) ELSE groups
        st == Grown(Len(gs))
    IN  /\ ~ctx[c].alive
        /\ "contextGroup" \in flags
        /\ g <= MaxGroups
        /\ RoomFor(gs, g, flags)
        /\ ctx' = [ctx EXCEPT ![c] = NewContext(g, gs, st.home, flags)]
        /\ groups' = Joined(gs, g, flags)
        /\ groupIds' = g
        /\ primaryGroup' = [p \in DOMAIN primaryGroup \cup {c} |->
                              IF p = c THEN g ELSE primaryGroup[p]]
        /\ storage' = st
        /\ hwContexts' = Append(hwContexts, c)

(* And for a context of primary's group; an unknown primary is given the first. *)
CreateSecondary(c, primary, flags) ==
    LET known == primary \in DOMAIN primaryGroup
        g == IF known THEN primaryGroup[primary] ELSE 1
    IN  /\ ~ctx[c].alive
        /\ primary # c
        /\ "contextGroup" \in flags
        /\ RoomFor(groups, g, flags)
        /\ ctx' = [ctx EXCEPT ![c] = NewContext(g, groups, storage.home, flags)]
        /\ groups' = Joined(groups, g, flags)
        /\ primaryGroup' = [p \in DOMAIN primaryGroup \cup {primary} |->
                              IF p = primary THEN g ELSE primaryGroup[p]]
        /\ hwContexts' = Append(hwContexts, c)
        /\ UNCHANGED <<groupIds, storage>>

-----------------------------------------------------------------------------
(* HardwareContextImp::initialize and release, on the contexts and the groups. *)

Grouped(cs, c) == cs[c].slot # None

(* The group a context reaches through its pointer is a live one. *)
Reaches(cs, c) == cs[c].home = storage.home

Initialized(c) ==
    IF ctx[c].initialized THEN [ctx |-> ctx, groups |-> groups]
    ELSE [ctx |-> [ctx EXCEPT ![c].initialized = TRUE],
          groups |-> IF Grouped(ctx, c) /\ Reaches(ctx, c)
                     THEN [groups EXCEPT ![ctx[c].group].contexts[ctx[c].slot] = c]
                     ELSE groups]

(* mutant: the slot is not given up *)
ReleasedKeepingSlot(c) ==
    [ctx |-> [ctx EXCEPT ![c].initialized = FALSE], groups |-> groups]

(* mutant: the group is not dissolved with its first context *)
ReleasedWithoutReset(c) ==
    LET g == ctx[c].group
    IN  [ctx |-> [ctx EXCEPT ![c].initialized = FALSE],
         groups |-> IF Grouped(ctx, c) /\ Reaches(ctx, c)
                    THEN [groups EXCEPT ![g].contexts[ctx[c].slot] = None] ELSE groups]

(* mutant: the contexts of a dissolved group keep their slot numbers *)
ReleasedKeepingMembers(c) ==
    LET g == ctx[c].group
        gs == [groups EXCEPT ![g].contexts[ctx[c].slot] = None]
    IN  [ctx |-> [ctx EXCEPT ![c].initialized = FALSE],
         groups |-> IF ~Grouped(ctx, c) \/ ~Reaches(ctx, c) THEN groups
                    ELSE IF ctx[c].slot = 0 THEN [groups EXCEPT ![g] = EmptyGroup] ELSE gs]

(***************************************************************************)
(* The context gives up its slot; the release of slot 0 takes every context *)
(* out of the group and starts the numbering again.  The context keeps its  *)
(* own slot number.                                                         *)
(***************************************************************************)
Released(c) ==
    LET g == ctx[c].group
        s == ctx[c].slot
        members == {m \in Contexts : \E i \in 1 .. GroupSize - 1 : groups[g].contexts[i] = m}
        dissolved == [k \in Contexts |->
                        [ctx[k] EXCEPT !.slot = IF k \in members THEN None ELSE @,
                                       !.initialized = IF k = c THEN FALSE ELSE @]]
    IN  IF ~Grouped(ctx, c) \/ ~Reaches(ctx, c)
        THEN [ctx |-> [ctx EXCEPT ![c].initialized = FALSE], groups |-> groups]
        ELSE IF s = 0
        THEN [ctx |-> dissolved, groups |-> [groups EXCEPT ![g] = EmptyGroup]]
        ELSE [ctx |-> [ctx EXCEPT ![c].initialized = FALSE],
              groups |-> [groups EXCEPT ![g].contexts[s] = None]]

ManagerUnchanged == UNCHANGED <<groupIds, primaryGroup, storage, hwContexts>>

Initialize(c) ==
    /\ ctx[c].alive /\ ~ctx[c].initialized
    /\ ctx' = Initialized(c).ctx
    /\ groups' = Initialized(c).groups
    /\ ManagerUnchanged

Release(c) ==
    /\ user.closes
    /\ ctx[c].alive /\ ctx[c].initialized
    /\ ctx' = Released(c).ctx
    /\ groups' = Released(c).groups
    /\ ManagerUnchanged

(* releaseHardwareContext: out of the manager's list, then the destructor. *)
ReleaseHardwareContext(c) ==
    /\ \E i \in 1 .. Len(hwContexts) :
          hwContexts[i] = c /\ hwContexts' = RemoveAt(hwContexts, i)
    /\ ctx' = [Released(c).ctx EXCEPT ![c] = NoContext]
    /\ groups' = Released(c).groups
    /\ UNCHANGED <<groupIds, primaryGroup, storage>>

(* The loops of open and close over hwContexts. *)
Begin(kind) ==
    /\ user.closes
    /\ hwContexts # << >>
    /\ loop' = [kind |-> kind, left |-> hwContexts]
    /\ UNCHANGED <<ctx, groups>>
    /\ ManagerUnchanged

LoopStep ==
    /\ loop # Idle
    /\ LET c == Head(loop.left)
           r == IF loop.kind = "open" THEN Initialized(c) ELSE Released(c)
       IN  ctx' = r.ctx /\ groups' = r.groups
    /\ loop' = IF Len(loop.left) = 1 THEN Idle ELSE [loop EXCEPT !.left = Tail(@)]
    /\ ManagerUnchanged

(* A user that initializes at once makes no other call while a context waits. *)
NoneWaits == user.initAtOnce => \A c \in Contexts : ctx[c].alive => ctx[c].initialized

Call ==
    \/ /\ NoneWaits
       /\ \E c \in Contexts, flags \in FlagSets :
             \/ CreateHardwareContext(c, flags)
             \/ CreateUngrouped(c, flags)
             \/ CreatePrimary(c, flags)
             \/ \E primary \in Contexts : CreateSecondary(c, primary, flags)
    \/ NoneWaits /\ \E c \in Contexts : Release(c) \/ ReleaseHardwareContext(c)
    \/ \E c \in Contexts : Initialize(c)

Next ==
    \/ loop = Idle /\ Call /\ UNCHANGED <<loop, user>>
    \/ loop = Idle /\ \E kind \in {"open", "close"} : Begin(kind) /\ UNCHANGED user
    \/ LoopStep /\ UNCHANGED user

Spec == Init /\ [][Next]_vars

-----------------------------------------------------------------------------
ContextType ==
    [alive : BOOLEAN, initialized : BOOLEAN, group : {None} \cup 1 .. Len(groups),
     home : Nat, slot : {None} \cup 0 .. GroupSize - 1, flags : SUBSET Flags]

(* Slot numbers, counters and tables stay within contextGroupCount. *)
TypeOK ==
    /\ \A c \in Contexts : ctx[c] \in ContextType
    /\ \A g \in 1 .. Len(groups) :
          /\ groups[g].counter \in 0 .. GroupSize
          /\ groups[g].contexts \in [0 .. GroupSize - 1 -> Contexts \cup {None}]
    /\ groupIds \in Nat
    /\ Range(hwContexts) \subseteq Contexts

(***************************************************************************)
(* What submit() walks over: a context found in a group's table exists, is  *)
(* initialized (its ggttLRCA is valid) and holds that slot; slot numbers,   *)
(* counters and tables stay within contextGroupCount.                       *)
(***************************************************************************)
SlotsHoldLiveContexts ==
    TypeOK /\ \A g \in 1 .. Len(groups), s \in 0 .. GroupSize - 1 :
        LET c == groups[g].contexts[s]
        IN  c # None => /\ ctx[c].alive /\ ctx[c].initialized
                        /\ ctx[c].group = g /\ ctx[c].slot = s

(* A user that initializes each context at once and keeps the stream open. *)
Orderly == user.initAtOnce /\ ~user.closes

(***************************************************************************)
(* An initialized context of a group is found in its slot of the group's    *)
(* table, whatever other contexts came, went or joined since: the next      *)
(* submit of the group covers it.  For an orderly user; SlotFreeAtInitialize *)
(* says what another one meets.                                             *)
(***************************************************************************)
MembersInTheirSlots ==
    \A c \in Contexts :
        (Orderly /\ ctx[c].initialized /\ Grouped(ctx, c))
            => groups[ctx[c].group].contexts[ctx[c].slot] = c

(* The contexts that were created for a group and are still there. *)
Members(g) == {c \in Contexts : ctx[c].alive /\ ctx[c].group = g /\ Grouped(ctx, c)}

(***************************************************************************)
(* A group all of whose contexts were released is as new, ready for the     *)
(* next ones, in whatever order they went.                                  *)
(***************************************************************************)
ReleasedGroupIsEmpty ==
    \A g \in 1 .. Len(groups) : Members(g) = {} => groups[g] = EmptyGroup

(* The step initializes c, and another context is in the slot c takes. *)
TakesSlotOfAnother(c) ==
    /\ ctx[c].alive /\ ~ctx[c].initialized /\ ctx'[c].initialized
    /\ Grouped(ctx, c) /\ Reaches(ctx, c)
    /\ groups[ctx[c].group].contexts[ctx[c].slot] # None

(* initialize()'s assertion: nobody holds the slot a context is about to take. *)
SlotFreeAtInitialize == [][\A c \in Contexts : ~TakesSlotOfAnother(c)]_vars
=============================================================================
