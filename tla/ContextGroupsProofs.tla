------------------------ MODULE ContextGroupsProofs ------------------------
(***************************************************************************)
(* Proofs about context groups, for any number of contexts, any size of the  *)
(* group and any users, as long as the vector of groups is not outgrown:     *)
(* what submit() finds in a table is a live context that holds the slot, a   *)
(* group without contexts is as new, and for an orderly user every           *)
(* initialized context is in its slot.                                       *)
(***************************************************************************)
EXTENDS ContextGroups, SequenceTheorems, TLAPS

Slots == 0 .. GroupSize - 1

GroupType == [counter : 0 .. GroupSize, contexts : [Slots -> Contexts \cup {None}]]

(* A context; it points into the only storage the vector ever had. *)
CtxType(n) ==
    [alive : BOOLEAN, initialized : BOOLEAN, group : {None} \cup 1 .. n,
     home : {0}, slot : {None} \cup Slots, flags : SUBSET Flags]

Typed ==
    /\ ctx \in [Contexts -> CtxType(Len(groups))]
    /\ groups \in Seq(GroupType)
    /\ groupIds \in 0 .. MaxGroups
    /\ Len(groups) = IF groupIds = 0 THEN 1 ELSE groupIds
    /\ DOMAIN primaryGroup \subseteq Contexts
    /\ \A p \in DOMAIN primaryGroup : primaryGroup[p] \in 1 .. Len(groups)
    /\ storage = [home |-> 0, room |-> Capacity]
    /\ hwContexts \in Seq(Contexts)
    /\ user \in [closes : BOOLEAN, initAtOnce : BOOLEAN]
    /\ \/ loop = Idle
       \/ loop \in [kind : {"open", "close"}, left : Seq(Contexts)] /\ loop.left # << >>

(* The manager's list, and the loops over it, name each context once and only live ones. *)
ListInv ==
    /\ \A i \in 1 .. Len(hwContexts) : ctx[hwContexts[i]].alive
    /\ \A i, j \in 1 .. Len(hwContexts) : hwContexts[i] = hwContexts[j] => i = j
    /\ loop # Idle => \A i \in 1 .. Len(loop.left) : ctx[loop.left[i]].alive
    /\ \A c \in Contexts :
          /\ ctx[c].initialized => ctx[c].alive
          /\ ctx[c].slot # None => ctx[c].group # None

Holds(c, g, s) == ctx[c].alive /\ ctx[c].group = g /\ ctx[c].slot = s

(* A table shows initialized contexts that hold the slot. *)
TableInv ==
    \A g \in 1 .. Len(groups), s \in Slots :
        groups[g].contexts[s] # None =>
            /\ ctx[groups[g].contexts[s]].initialized
            /\ Holds(groups[g].contexts[s], g, s)

(* Slots are handed out only while somebody holds the first one. *)
FirstInv ==
    \A g \in 1 .. Len(groups) : groups[g].counter # 0 => \E c \in Contexts : Holds(c, g, 0)

(* For an orderly user a slot has one holder, and its number was handed out. *)
OrderlyInv ==
    Orderly =>
        /\ loop = Idle
        /\ \A c \in Contexts : ctx[c].alive /\ ctx[c].slot # None
              => ctx[c].slot < groups[ctx[c].group].counter
        /\ \A c, d \in Contexts :
              /\ ctx[c].alive /\ ctx[d].alive /\ ctx[c].slot # None
              /\ ctx[c].slot = ctx[d].slot /\ ctx[c].group = ctx[d].group
              => c = d
        /\ MembersInTheirSlots

Inv == Typed /\ ListInv /\ TableInv /\ FirstInv /\ OrderlyInv

-----------------------------------------------------------------------------
Replaced(gs, g, new) == [gs EXCEPT ![g] = new]

Written(gs, g, s, v) == [gs EXCEPT ![g].contexts[s] = v]

(* One group is replaced by another. *)
LEMMA ReplaceGroup ==
    ASSUME NEW gs \in Seq(GroupType), NEW g \in 1 .. Len(gs), NEW new \in GroupType
    PROVE  /\ Replaced(gs, g, new) \in Seq(GroupType) /\ Len(Replaced(gs, g, new)) = Len(gs)
           /\ \A h \in 1 .. Len(gs) : Replaced(gs, g, new)[h] = IF h = g THEN new ELSE gs[h]
BY ExceptSeq DEF Replaced

(* One slot of one group is written. *)
LEMMA SetSlot ==
    ASSUME NEW gs \in Seq(GroupType), NEW g \in 1 .. Len(gs), NEW s \in Slots,
           NEW v \in Contexts \cup {None}
    PROVE  /\ Written(gs, g, s, v) \in Seq(GroupType) /\ Len(Written(gs, g, s, v)) = Len(gs)
           /\ \A h \in 1 .. Len(gs) : Written(gs, g, s, v)[h].counter = gs[h].counter
           /\ \A h \in 1 .. Len(gs), i \in Slots :
                 Written(gs, g, s, v)[h].contexts[i] =
                     IF h = g /\ i = s THEN v ELSE gs[h].contexts[i]
<1> DEFINE new == [gs[g] EXCEPT !.contexts[s] = v]
<1>1. gs[g] \in GroupType
  BY ElementOfSeq
<1>2. /\ new \in GroupType /\ new.counter = gs[g].counter
      /\ \A i \in Slots : new.contexts[i] = IF i = s THEN v ELSE gs[g].contexts[i]
  BY <1>1 DEF GroupType
<1>3. Written(gs, g, s, v) = Replaced(gs, g, new)
  BY DEF Written, Replaced
<1> HIDE DEF new
<1>4. /\ Replaced(gs, g, new) \in Seq(GroupType) /\ Len(Replaced(gs, g, new)) = Len(gs)
      /\ \A h \in 1 .. Len(gs) : Replaced(gs, g, new)[h] = IF h = g THEN new ELSE gs[h]
  BY ZenonT(30), <1>2, ReplaceGroup
<1> QED  BY <1>2, <1>3, <1>4

(* A new group, and a group that was just dissolved. *)
LEMMA EmptyGroupFacts ==
    /\ EmptyGroup \in GroupType /\ EmptyGroup.counter = 0
    /\ \A s \in Slots : EmptyGroup.contexts[s] = None
BY ContextGroupsAssumption DEF EmptyGroup, GroupType, Slots

(* A group with nothing in it is an empty group. *)
LEMMA EmptyIsEmpty ==
    ASSUME NEW g \in GroupType, g.counter = 0, \A s \in Slots : g.contexts[s] = None
    PROVE  g = EmptyGroup
BY DEF EmptyGroup, GroupType, Slots

-----------------------------------------------------------------------------
(* initialize: c takes its slot. *)
InitializeEffect(c, cs, gs) ==
    /\ cs \in [Contexts -> CtxType(Len(groups))] /\ gs \in Seq(GroupType)
    /\ Len(gs) = Len(groups)
    /\ \A k \in Contexts :
          /\ cs[k].alive <=> ctx[k].alive
          /\ cs[k].initialized <=> ctx[k].initialized \/ k = c
          /\ cs[k].group = ctx[k].group /\ cs[k].slot = ctx[k].slot
    /\ \A g \in 1 .. Len(groups) : gs[g].counter = groups[g].counter
    /\ \A g \in 1 .. Len(groups), s \in Slots :
          gs[g].contexts[s] =
              IF ~ctx[c].initialized /\ g = ctx[c].group /\ s = ctx[c].slot THEN c
              ELSE groups[g].contexts[s]

(* initialize does that, for a context made by the manager. *)
LEMMA InitializeFacts ==
    ASSUME Typed, ListInv, NEW c \in Contexts
    PROVE  InitializeEffect(c, Initialized(c).ctx, Initialized(c).groups)
<1> DEFINE cs == Initialized(c).ctx
           gs == Initialized(c).groups
<1>1. /\ ctx \in [Contexts -> CtxType(Len(groups))] /\ groups \in Seq(GroupType)
      /\ storage = [home |-> 0, room |-> Capacity]
  BY DEF Typed
<1>2. ctx[c].home = storage.home
  BY <1>1 DEF CtxType
<1>3. CASE ctx[c].initialized
  BY <1>1, <1>3 DEF Initialized, InitializeEffect
<1>4. CASE ~ctx[c].initialized
  <2>1. cs = [ctx EXCEPT ![c].initialized = TRUE]
    BY <1>4 DEF Initialized
  <2> HIDE DEF cs, gs
  <2>2. /\ cs \in [Contexts -> CtxType(Len(groups))]
        /\ \A k \in Contexts :
              /\ cs[k].alive = ctx[k].alive
              /\ cs[k].initialized <=> ctx[k].initialized \/ k = c
              /\ cs[k].group = ctx[k].group /\ cs[k].slot = ctx[k].slot
    BY <1>1, <2>1 DEF CtxType
  <2>3. CASE ctx[c].slot = None
    <3>1. gs = groups
      BY <1>4, <2>3 DEF Initialized, Grouped, gs
    <3>2. None \notin Slots
      BY ContextGroupsAssumption DEF Slots
    <3> QED  BY <1>1, <1>4, <2>2, <2>3, <3>1, <3>2 DEF InitializeEffect, cs, gs
  <2>4. CASE ctx[c].slot # None
    <3>1. gs = Written(groups, ctx[c].group, ctx[c].slot, c)
      BY <1>2, <1>4, <2>4 DEF Initialized, Grouped, Reaches, Written, gs
    <3>2. ctx[c].group \in 1 .. Len(groups) /\ ctx[c].slot \in Slots
      BY <1>1, <2>4 DEF CtxType, ListInv
    <3>3. /\ gs \in Seq(GroupType) /\ Len(gs) = Len(groups)
          /\ \A h \in 1 .. Len(groups) : gs[h].counter = groups[h].counter
          /\ \A h \in 1 .. Len(groups), i \in Slots :
                gs[h].contexts[i] = IF h = ctx[c].group /\ i = ctx[c].slot THEN c
                                    ELSE groups[h].contexts[i]
      <4> DEFINE g == ctx[c].group
                 s == ctx[c].slot
      <4>1. c \in Contexts \cup {None} /\ groups \in Seq(GroupType)
            /\ g \in 1 .. Len(groups) /\ s \in Slots /\ gs = Written(groups, g, s, c)
        BY <1>1, <3>1, <3>2
      <4> SUFFICES /\ gs \in Seq(GroupType) /\ Len(gs) = Len(groups)
                   /\ \A h \in 1 .. Len(groups) : gs[h].counter = groups[h].counter
                   /\ \A h \in 1 .. Len(groups), i \in Slots :
                         gs[h].contexts[i] = IF h = g /\ i = s THEN c ELSE groups[h].contexts[i]
        OBVIOUS
      <4> HIDE DEF g, s
      <4> DEFINE w == Written(groups, g, s, c)
      <4>2. /\ w \in Seq(GroupType) /\ Len(w) = Len(groups)
            /\ \A h \in 1 .. Len(groups) : w[h].counter = groups[h].counter
            /\ \A h \in 1 .. Len(groups), i \in Slots :
                  w[h].contexts[i] = IF h = g /\ i = s THEN c ELSE groups[h].contexts[i]
        BY <4>1, SetSlot
      <4>3. gs = w
        BY <4>1
      <4> HIDE DEF w
      <4> QED  BY <4>2, <4>3
    <3> QED  BY <1>1, <1>4, <2>2, <3>3 DEF InitializeEffect, cs, gs
  <2> QED  BY <2>3, <2>4
<1> QED  BY <1>3, <1>4

(* The contexts that are in the slots after the first. *)
Others(g) == {m \in Contexts : \E i \in 1 .. GroupSize - 1 : groups[g].contexts[i] = m}

(* The release of c dissolves the group it is in. *)
Dissolves(c, g) == ctx[c].slot = 0 /\ g = ctx[c].group

(* release: c gives up its slot, or dissolves its group. *)
ReleaseEffect(c, cs, gs) ==
    /\ cs \in [Contexts -> CtxType(Len(groups))] /\ gs \in Seq(GroupType)
    /\ Len(gs) = Len(groups)
    /\ \A k \in Contexts :
          /\ cs[k].alive <=> ctx[k].alive
          /\ cs[k].initialized <=> ctx[k].initialized /\ k # c
          /\ cs[k].group = ctx[k].group
          /\ cs[k].slot = IF ctx[c].slot = 0 /\ k \in Others(ctx[c].group) THEN None
                          ELSE ctx[k].slot
    /\ \A g \in 1 .. Len(groups) :
          gs[g].counter = IF Dissolves(c, g) THEN 0 ELSE groups[g].counter
    /\ \A g \in 1 .. Len(groups), s \in Slots :
          gs[g].contexts[s] =
              IF Dissolves(c, g) \/ (g = ctx[c].group /\ s = ctx[c].slot) THEN None
              ELSE groups[g].contexts[s]

(* release does that, for a context made by the manager. *)
LEMMA ReleaseFacts ==
    ASSUME Typed, ListInv, NEW c \in Contexts
    PROVE  ReleaseEffect(c, Released(c).ctx, Released(c).groups)
<1> DEFINE cs == Released(c).ctx
           gs == Released(c).groups
           plain == [ctx EXCEPT ![c].initialized = FALSE]
<1>1. /\ ctx \in [Contexts -> CtxType(Len(groups))] /\ groups \in Seq(GroupType)
      /\ storage = [home |-> 0, room |-> Capacity]
  BY DEF Typed
<1>2. ctx[c].home = storage.home
  BY <1>1 DEF CtxType
<1>3. None \notin Slots /\ None # 0 /\ 0 \in Slots
  BY ContextGroupsAssumption DEF Slots
<1>4. /\ plain \in [Contexts -> CtxType(Len(groups))]
      /\ \A k \in Contexts :
            /\ plain[k].alive = ctx[k].alive
            /\ plain[k].initialized <=> ctx[k].initialized /\ k # c
            /\ plain[k].group = ctx[k].group /\ plain[k].slot = ctx[k].slot
  BY <1>1 DEF CtxType
<1>5. CASE ctx[c].slot = None
  <2>1. cs = plain /\ gs = groups
    BY <1>5 DEF Released, Grouped
  <2> HIDE DEF cs, gs, plain
  <2> QED  BY <1>1, <1>3, <1>4, <1>5, <2>1 DEF ReleaseEffect, Dissolves, cs, gs
<1>6. CASE ctx[c].slot # None
  <2>1. ctx[c].group \in 1 .. Len(groups) /\ ctx[c].slot \in Slots
    BY <1>1, <1>6 DEF CtxType, ListInv
  <2>2. CASE ctx[c].slot = 0
    <3> DEFINE dissolved ==
                 [k \in Contexts |->
                    [ctx[k] EXCEPT !.slot = IF k \in Others(ctx[c].group) THEN None ELSE @,
                                   !.initialized = IF k = c THEN FALSE ELSE @]]
    <3>1. cs = dissolved /\ gs = Replaced(groups, ctx[c].group, EmptyGroup)
      BY <1>2, <1>3, <2>2 DEF Released, Grouped, Reaches, Others, Replaced
    <3>2. /\ dissolved \in [Contexts -> CtxType(Len(groups))]
          /\ \A k \in Contexts :
                /\ dissolved[k].alive = ctx[k].alive
                /\ dissolved[k].initialized <=> ctx[k].initialized /\ k # c
                /\ dissolved[k].group = ctx[k].group
                /\ dissolved[k].slot = IF k \in Others(ctx[c].group) THEN None ELSE ctx[k].slot
      BY ZenonT(30), <1>1 DEF CtxType
    <3>3. /\ gs \in Seq(GroupType) /\ Len(gs) = Len(groups)
          /\ \A h \in 1 .. Len(groups) : gs[h] = IF h = ctx[c].group THEN EmptyGroup ELSE groups[h]
      <4> HIDE DEF gs, dissolved
      <4> DEFINE g == ctx[c].group
      <4>1. EmptyGroup \in GroupType /\ groups \in Seq(GroupType)
            /\ g \in 1 .. Len(groups) /\ gs = Replaced(groups, g, EmptyGroup)
        BY <1>1, <2>1, <3>1, EmptyGroupFacts
      <4> SUFFICES /\ gs \in Seq(GroupType) /\ Len(gs) = Len(groups)
                   /\ \A h \in 1 .. Len(groups) : gs[h] = IF h = g THEN EmptyGroup ELSE groups[h]
        OBVIOUS
      <4> HIDE DEF g
      <4>2. /\ Replaced(groups, g, EmptyGroup) \in Seq(GroupType)
            /\ Len(Replaced(groups, g, EmptyGroup)) = Len(groups)
            /\ \A h \in 1 .. Len(groups) :
                  Replaced(groups, g, EmptyGroup)[h] = IF h = g THEN EmptyGroup ELSE groups[h]
        BY ZenonT(30), <4>1, ReplaceGroup
      <4> QED  BY <4>1, <4>2
    <3> HIDE DEF cs, gs, dissolved
    <3>4. \A g \in 1 .. Len(groups) :
             gs[g].counter = IF Dissolves(c, g) THEN 0 ELSE groups[g].counter
      BY <2>2, <3>3, EmptyGroupFacts DEF Dissolves
    <3>5. \A g \in 1 .. Len(groups), s \in Slots :
             gs[g].contexts[s] =
                 IF Dissolves(c, g) \/ (g = ctx[c].group /\ s = ctx[c].slot) THEN None
                 ELSE groups[g].contexts[s]
      BY <2>2, <3>3, EmptyGroupFacts DEF Dissolves
    <3> QED  BY <2>2, <3>1, <3>2, <3>3, <3>4, <3>5 DEF ReleaseEffect, cs, gs
  <2>3. CASE ctx[c].slot # 0
    <3>1. cs = plain /\ gs = Written(groups, ctx[c].group, ctx[c].slot, None)
      BY <1>2, <1>6, <2>3 DEF Released, Grouped, Reaches, Written
    <3>2. /\ gs \in Seq(GroupType) /\ Len(gs) = Len(groups)
          /\ \A h \in 1 .. Len(groups) : gs[h].counter = groups[h].counter
          /\ \A h \in 1 .. Len(groups), i \in Slots :
                gs[h].contexts[i] = IF h = ctx[c].group /\ i = ctx[c].slot THEN None
                                    ELSE groups[h].contexts[i]
      BY SMTT(30), <1>1, <2>1, <3>1, SetSlot
    <3> HIDE DEF cs, gs, plain
    <3> QED  BY <1>4, <2>3, <3>1, <3>2 DEF ReleaseEffect, Dissolves, cs, gs
  <2> QED  BY <2>2, <2>3
<1> QED  BY <1>5, <1>6

-----------------------------------------------------------------------------
(* The constructor hands out the next slot of the group. *)
LEMMA NewContextFacts ==
    ASSUME NEW gs \in Seq(GroupType), NEW g \in 1 .. Len(gs), NEW flags \in FlagSets,
           RoomFor(gs, g, flags)
    PROVE  /\ NewContext(g, gs, 0, flags) \in CtxType(Len(gs))
           /\ NewContext(g, gs, 0, flags).alive /\ ~NewContext(g, gs, 0, flags).initialized
           /\ NewContext(g, gs, 0, flags).group = g
           /\ NewContext(g, gs, 0, flags).slot =
                 IF "contextGroup" \in flags THEN gs[g].counter ELSE None
<1>1. gs[g] \in GroupType
  BY ElementOfSeq
<1>2. "contextGroup" \in flags => gs[g].counter \in Slots
  BY <1>1, ContextGroupsAssumption DEF RoomFor, GroupType, Slots
<1>3. flags \ {Handled(flags)} \in SUBSET Flags
  BY ContextGroupsAssumption
<1> QED  BY <1>2, <1>3 DEF NewContext, CtxType

(* ... and counts it. *)
LEMMA JoinedFacts ==
    ASSUME NEW gs \in Seq(GroupType), NEW g \in 1 .. Len(gs), NEW flags \in FlagSets,
           RoomFor(gs, g, flags)
    PROVE  /\ Joined(gs, g, flags) \in Seq(GroupType) /\ Len(Joined(gs, g, flags)) = Len(gs)
           /\ \A h \in 1 .. Len(gs), s \in Slots :
                 Joined(gs, g, flags)[h].contexts[s] = gs[h].contexts[s]
           /\ \A h \in 1 .. Len(gs) :
                 Joined(gs, g, flags)[h].counter =
                     IF "contextGroup" \in flags /\ h = g THEN gs[h].counter + 1
                     ELSE gs[h].counter
<1> DEFINE new == [gs[g] EXCEPT !.counter = @ + 1]
<1>1. gs[g] \in GroupType
  BY ElementOfSeq
<1>2. CASE "contextGroup" \in flags
  <2>1. new \in GroupType /\ new.counter = gs[g].counter + 1 /\ new.contexts = gs[g].contexts
    BY SMTT(30), <1>1, <1>2, ContextGroupsAssumption DEF RoomFor, GroupType
  <2>2. Joined(gs, g, flags) = Replaced(gs, g, new)
    BY <1>2 DEF Joined, Replaced
  <2> HIDE DEF new
  <2>3. /\ Replaced(gs, g, new) \in Seq(GroupType) /\ Len(Replaced(gs, g, new)) = Len(gs)
        /\ \A h \in 1 .. Len(gs) : Replaced(gs, g, new)[h] = IF h = g THEN new ELSE gs[h]
    BY <2>1, ReplaceGroup
  <2> QED  BY <1>2, <2>1, <2>2, <2>3
<1>3. CASE "contextGroup" \notin flags
  BY <1>3 DEF Joined
<1> QED  BY <1>2, <1>3

(* The counter of a group, 0 for one that is not there yet. *)
Counter(g) == IF g <= Len(groups) THEN groups[g].counter ELSE 0

(***************************************************************************)
(* What the three calls that make a context have in common.                 *)
(***************************************************************************)
CreateEffect(c) ==
    /\ ~ctx[c].alive
    /\ groups' \in Seq(GroupType) /\ Len(groups') >= Len(groups)
    /\ Len(groups') = IF groupIds' = 0 THEN 1 ELSE groupIds'
    /\ groupIds' \in 0 .. MaxGroups
    /\ ctx' \in [Contexts -> CtxType(Len(groups'))]
    /\ ctx'[c].alive /\ ~ctx'[c].initialized
    /\ ctx'[c].slot # None => ctx'[c].group # None /\ ctx'[c].slot = Counter(ctx'[c].group)
    /\ \A k \in Contexts : k # c => ctx'[k] = ctx[k]
    /\ \A g \in 1 .. Len(groups'), s \in Slots :
          groups'[g].contexts[s] = IF g <= Len(groups) THEN groups[g].contexts[s] ELSE None
    /\ \A g \in 1 .. Len(groups') :
          groups'[g].counter =
              IF ctx'[c].slot # None /\ ctx'[c].group = g THEN Counter(g) + 1 ELSE Counter(g)
    /\ DOMAIN primaryGroup' \subseteq Contexts
    /\ \A p \in DOMAIN primaryGroup' : primaryGroup'[p] \in 1 .. Len(groups')
    /\ storage' = storage
    /\ hwContexts' = Append(hwContexts, c)

(* A context joins group g of gs, which has one group more than now, or as many. *)
Joins(c, g, gs, flags) ==
    /\ gs \in Seq(GroupType) /\ g \in 1 .. Len(gs) /\ Len(gs) >= Len(groups)
    /\ \A h \in 1 .. Len(gs) : gs[h] = IF h <= Len(groups) THEN groups[h] ELSE EmptyGroup
    /\ RoomFor(gs, g, flags) /\ ~ctx[c].alive
    /\ ctx' = [ctx EXCEPT ![c] = NewContext(g, gs, 0, flags)]
    /\ groups' = Joined(gs, g, flags)
    /\ Len(gs) = IF groupIds' = 0 THEN 1 ELSE groupIds'
    /\ groupIds' \in 0 .. MaxGroups
    /\ DOMAIN primaryGroup' \subseteq Contexts
    /\ \A p \in DOMAIN primaryGroup' : primaryGroup'[p] \in 1 .. Len(gs)
    /\ storage' = storage /\ hwContexts' = Append(hwContexts, c)

(* Such a step has that effect. *)
LEMMA JoinEffect ==
    ASSUME Typed, NEW c \in Contexts, NEW flags \in FlagSets, NEW g, NEW gs,
           Joins(c, g, gs, flags)
    PROVE  CreateEffect(c)
<1> USE DEF Joins
<1> DEFINE new == NewContext(g, gs, 0, flags)
<1>0. gs \in Seq(GroupType) /\ g \in 1 .. Len(gs) /\ flags \in FlagSets /\ RoomFor(gs, g, flags)
  OBVIOUS
<1>1. /\ new \in CtxType(Len(gs)) /\ new.alive /\ ~new.initialized /\ new.group = g
      /\ new.slot = IF "contextGroup" \in flags THEN gs[g].counter ELSE None
  BY ONLY <1>0, NewContextFacts
<1>2. /\ groups' \in Seq(GroupType) /\ Len(groups') = Len(gs)
      /\ \A h \in 1 .. Len(gs), s \in Slots : groups'[h].contexts[s] = gs[h].contexts[s]
      /\ \A h \in 1 .. Len(gs) :
            groups'[h].counter = IF "contextGroup" \in flags /\ h = g THEN gs[h].counter + 1
                                 ELSE gs[h].counter
  <2>1. groups' = Joined(gs, g, flags)
    OBVIOUS
  <2> QED  BY ONLY <1>0, <2>1, JoinedFacts
<1>3. ctx \in [Contexts -> CtxType(Len(groups))] /\ Len(groups) \in Nat /\ Len(gs) \in Nat
  BY LenProperties DEF Typed
<1>4. ctx \in [Contexts -> CtxType(Len(gs))]
  BY <1>3 DEF CtxType
<1> HIDE DEF new
<1>5. /\ ctx' \in [Contexts -> CtxType(Len(groups'))] /\ ctx'[c] = new
      /\ \A k \in Contexts : k # c => ctx'[k] = ctx[k]
  BY <1>1, <1>2, <1>4 DEF new
<1>6. \A h \in 1 .. Len(gs) : gs[h].counter = Counter(h)
  BY EmptyGroupFacts DEF Counter
<1>7. \A h \in 1 .. Len(gs), s \in Slots :
        gs[h].contexts[s] = IF h <= Len(groups) THEN groups[h].contexts[s] ELSE None
  BY EmptyGroupFacts
<1>8. gs[g].counter \in Nat
  <2>1. gs[g] \in GroupType
    BY ONLY <1>0, ElementOfSeq
  <2>2. GroupSize \in Nat
    BY ContextGroupsAssumption
  <2> QED  BY ONLY <2>1, <2>2 DEF GroupType
<1>9. new.slot # None <=> "contextGroup" \in flags
  BY <1>1, <1>8, ContextGroupsAssumption
<1>10. new.group # None
  BY <1>1, <1>3, ContextGroupsAssumption
<1>11. /\ ctx'[c].alive /\ ~ctx'[c].initialized
       /\ ctx'[c].slot # None => ctx'[c].group # None /\ ctx'[c].slot = Counter(ctx'[c].group)
  BY <1>1, <1>5, <1>6, <1>9, <1>10
<1>12. \A h \in 1 .. Len(groups') :
         groups'[h].counter =
             IF ctx'[c].slot # None /\ ctx'[c].group = h THEN Counter(h) + 1 ELSE Counter(h)
  BY <1>1, <1>2, <1>5, <1>6, <1>9
<1> QED  BY <1>2, <1>5, <1>7, <1>11, <1>12 DEF CreateEffect

(* The calls that make a context. *)
Create(c, flags) ==
    \/ CreateHardwareContext(c, flags) \/ CreateUngrouped(c, flags) \/ CreatePrimary(c, flags)
    \/ \E primary \in Contexts : CreateSecondary(c, primary, flags)

(* Each of them has that effect, as long as the groups fit into the vector. *)
LEMMA CreateFacts ==
    ASSUME Typed, NEW c \in Contexts, NEW flags \in FlagSets, Create(c, flags),
           MaxGroups <= Capacity
    PROVE  CreateEffect(c)
<1>1. /\ groups \in Seq(GroupType) /\ Len(groups) \in Nat \ {0} /\ storage.home = 0
      /\ Len(groups) = IF groupIds = 0 THEN 1 ELSE groupIds
      /\ groupIds \in 0 .. MaxGroups /\ 1 \in 1 .. Len(groups)
      /\ DOMAIN primaryGroup \subseteq Contexts
      /\ \A p \in DOMAIN primaryGroup : primaryGroup[p] \in 1 .. Len(groups)
  BY ContextGroupsAssumption DEF Typed
<1>2. \A h \in 1 .. Len(groups) : groups[h] = IF h <= Len(groups) THEN groups[h] ELSE EmptyGroup
  BY <1>1
<1>3. CASE CreateHardwareContext(c, flags)
  <2>1. Joins(c, 1, groups, flags)
    BY <1>1, <1>2, <1>3 DEF CreateHardwareContext, Joins
  <2> QED  BY <2>1, JoinEffect
<1>4. CASE CreateUngrouped(c, flags)
  <2> DEFINE q == NewContext(1, groups, 0, flags)
             new == [q EXCEPT !.group = None]
  <2>1. RoomFor(groups, 1, flags)
    BY <1>4 DEF CreateUngrouped, RoomFor
  <2>2. q \in CtxType(Len(groups)) /\ q.alive /\ ~q.initialized /\ q.slot = None
    <3>1. /\ "contextGroup" \notin flags /\ flags \in FlagSets
          /\ groups \in Seq(GroupType) /\ 1 \in 1 .. Len(groups)
      BY <1>1, <1>4 DEF CreateUngrouped
    <3>2. /\ NewContext(1, groups, 0, flags) \in CtxType(Len(groups))
          /\ NewContext(1, groups, 0, flags).alive /\ ~NewContext(1, groups, 0, flags).initialized
          /\ NewContext(1, groups, 0, flags).slot =
                IF "contextGroup" \in flags THEN groups[1].counter ELSE None
      BY ONLY <2>1, <3>1, NewContextFacts
    <3> QED  BY <3>1, <3>2
  <2>3. ctx' = [ctx EXCEPT ![c] = new]
    BY <1>1, <1>4 DEF CreateUngrouped
  <2> HIDE DEF q
  <2>4. new \in CtxType(Len(groups)) /\ new.slot = None
    BY <2>2 DEF CtxType
  <2>5. new.alive /\ ~new.initialized
    BY <2>2 DEF CtxType
  <2> HIDE DEF new
  <2>6. /\ UNCHANGED <<groups, groupIds, primaryGroup, storage>> /\ ~ctx[c].alive
        /\ hwContexts' = Append(hwContexts, c)
    BY <1>4 DEF CreateUngrouped
  <2>7. /\ ctx' \in [Contexts -> CtxType(Len(groups'))] /\ ctx'[c] = new
        /\ \A k \in Contexts : k # c => ctx'[k] = ctx[k]
    BY <2>3, <2>4, <2>6 DEF Typed
  <2> QED  BY SMTT(30), <1>1, <2>4, <2>5, <2>6, <2>7 DEF CreateEffect, Counter
<1>5. CASE CreatePrimary(c, flags)
  <2> DEFINE g == groupIds + 1
             gs == IF g > Len(groups) THEN Append(groups, EmptyGroup) ELSE groups
             st == Grown(Len(gs))
  <2>1. /\ ~ctx[c].alive /\ g <= MaxGroups /\ RoomFor(gs, g, flags)
        /\ ctx' = [ctx EXCEPT ![c] = NewContext(g, gs, st.home, flags)]
        /\ groups' = Joined(gs, g, flags) /\ groupIds' = g /\ storage' = st
        /\ primaryGroup' = [p \in DOMAIN primaryGroup \cup {c} |->
                              IF p = c THEN g ELSE primaryGroup[p]]
        /\ hwContexts' = Append(hwContexts, c)
    BY <1>5 DEF CreatePrimary
  <2>2. /\ gs \in Seq(GroupType) /\ Len(gs) = g /\ Len(gs) >= Len(groups)
        /\ \A h \in 1 .. Len(gs) : gs[h] = IF h <= Len(groups) THEN groups[h] ELSE EmptyGroup
    <3>1. CASE g > Len(groups)
      <4>1. g = Len(groups) + 1 /\ gs = Append(groups, EmptyGroup)
        BY <1>1, <3>1
      <4> QED  BY <1>1, <4>1, EmptyGroupFacts, AppendProperties
    <3>2. CASE ~(g > Len(groups))
      <4>1. g = Len(groups) /\ gs = groups
        BY <1>1, <3>2
      <4> HIDE DEF g, gs
      <4> QED  BY <1>1, <1>2, <4>1
    <3> QED  BY <3>1, <3>2
  <2>3. st = storage
    BY <1>1, <2>1, <2>2, ContextGroupsAssumption DEF Grown, Typed
  <2> HIDE DEF gs, st
  <2>4. /\ ctx' = [ctx EXCEPT ![c] = NewContext(g, gs, 0, flags)] /\ storage' = storage
    BY <1>1, <2>1, <2>3
  <2>5. g \in 1 .. Len(gs) /\ groupIds' \in 0 .. MaxGroups
        /\ Len(gs) = IF groupIds' = 0 THEN 1 ELSE groupIds'
    BY <1>1, <2>1, <2>2, ContextGroupsAssumption
  <2>6. /\ DOMAIN primaryGroup' \subseteq Contexts
        /\ \A p \in DOMAIN primaryGroup' : primaryGroup'[p] \in 1 .. Len(gs)
    BY <1>1, <2>1, <2>2, <2>5
  <2> HIDE DEF g
  <2>7. Joins(c, g, gs, flags)
    BY <2>1, <2>2, <2>4, <2>5, <2>6 DEF Joins
  <2> QED  BY <2>7, JoinEffect
<1>6. ASSUME NEW primary \in Contexts, CreateSecondary(c, primary, flags) PROVE CreateEffect(c)
  <2> DEFINE known == primary \in DOMAIN primaryGroup
             g == IF known THEN primaryGroup[primary] ELSE 1
  <2>1. /\ ~ctx[c].alive /\ RoomFor(groups, g, flags)
        /\ ctx' = [ctx EXCEPT ![c] = NewContext(g, groups, 0, flags)]
        /\ groups' = Joined(groups, g, flags)
        /\ primaryGroup' = [p \in DOMAIN primaryGroup \cup {primary} |->
                              IF p = primary THEN g ELSE primaryGroup[p]]
        /\ hwContexts' = Append(hwContexts, c) /\ UNCHANGED <<groupIds, storage>>
    BY <1>1, <1>6 DEF CreateSecondary
  <2>2. g \in 1 .. Len(groups)
    BY <1>1
  <2> HIDE DEF g
  <2>3. /\ DOMAIN primaryGroup' \subseteq Contexts
        /\ \A p \in DOMAIN primaryGroup' : primaryGroup'[p] \in 1 .. Len(groups)
    BY <1>1, <2>1, <2>2
  <2>4. Joins(c, g, groups, flags)
    BY <1>1, <1>2, <2>1, <2>2, <2>3 DEF Joins
  <2> QED  BY <2>4, JoinEffect
<1> QED  BY <1>3, <1>4, <1>5, <1>6 DEF Create

-----------------------------------------------------------------------------
(* vector::erase. *)
LEMMA RemoveAtFacts ==
    ASSUME NEW S, NEW seq \in Seq(S), NEW i \in 1 .. Len(seq)
    PROVE  /\ RemoveAt(seq, i) \in Seq(S) /\ Len(RemoveAt(seq, i)) = Len(seq) - 1
           /\ \A j \in 1 .. Len(seq) - 1 :
                 RemoveAt(seq, i)[j] = IF j < i THEN seq[j] ELSE seq[j + 1]
<1> DEFINE a == SubSeq(seq, 1, i - 1)
           b == SubSeq(seq, i + 1, Len(seq))
<1>1. Len(seq) \in Nat /\ \A j \in 1 .. Len(seq) : seq[j] \in S
  BY LenProperties, ElementOfSeq
<1>2. a \in Seq(S) /\ Len(a) = i - 1 /\ \A j \in 1 .. i - 1 : a[j] = seq[j]
  BY <1>1, SubSeqProperties
<1>3. /\ b \in Seq(S) /\ Len(b) = Len(seq) - i
      /\ \A j \in 1 .. Len(seq) - i : b[j] = seq[i + j]
  BY <1>1, SubSeqProperties
<1>4. RemoveAt(seq, i) = a \o b
  BY DEF RemoveAt
<1> HIDE DEF a, b
<1>5. /\ a \o b \in Seq(S) /\ Len(a \o b) = Len(a) + Len(b)
      /\ \A j \in 1 .. Len(a) + Len(b) : (a \o b)[j] = IF j <= Len(a) THEN a[j] ELSE b[j - Len(a)]
  BY <1>2, <1>3, ConcatProperties
<1>6. ASSUME NEW j \in 1 .. Len(seq) - 1
      PROVE  (a \o b)[j] = IF j < i THEN seq[j] ELSE seq[j + 1]
  <2>1. CASE j < i
    BY <1>1, <1>2, <1>3, <1>5, <2>1
  <2>2. CASE ~(j < i)
    <3>1. j \in 1 .. Len(a) + Len(b) /\ ~(j <= Len(a)) /\ j - Len(a) = j - i + 1
      BY <1>1, <1>2, <1>3, <2>2
    <3>2. j - i + 1 \in 1 .. Len(seq) - i /\ i + (j - i + 1) = j + 1
      BY <1>1, <2>2
    <3>3. b[j - i + 1] = seq[j + 1]
      BY <1>3, <3>2
    <3> QED  BY <1>5, <2>2, <3>1, <3>3
  <2> QED  BY <2>1, <2>2
<1> QED  BY SMTT(30), <1>1, <1>2, <1>3, <1>4, <1>5, <1>6

-----------------------------------------------------------------------------
(* The steps, by what they do to contexts and groups. *)

CreateStep(c) ==
    CreateEffect(c) /\ loop = Idle /\ NoneWaits /\ UNCHANGED <<loop, user>>

InitializeStep(c) ==
    /\ ctx[c].alive /\ InitializeEffect(c, ctx', groups')
    /\ UNCHANGED <<groupIds, primaryGroup, storage, hwContexts, user>>

ReleaseStep(c) ==
    /\ ~Orderly /\ ReleaseEffect(c, ctx', groups')
    /\ UNCHANGED <<groupIds, primaryGroup, storage, hwContexts, user>>

DestroyStep(c) ==
    /\ ReleaseEffect(c, Released(c).ctx, groups')
    /\ ctx' = [Released(c).ctx EXCEPT ![c] = NoContext]
    /\ loop = Idle /\ NoneWaits /\ UNCHANGED <<groupIds, primaryGroup, storage, loop, user>>
    /\ \E i \in 1 .. Len(hwContexts) :
          hwContexts[i] = c /\ hwContexts' = RemoveAt(hwContexts, i)

(* A call leaves the loop as it is; the loop goes on by one context. *)
LoopGoesOn ==
    \/ loop = Idle /\ UNCHANGED loop
    \/ /\ loop # Idle
       /\ loop' = IF Len(loop.left) = 1 THEN Idle ELSE [loop EXCEPT !.left = Tail(@)]

BeginStep ==
    /\ ~Orderly
    /\ loop = Idle /\ hwContexts # << >>
    /\ loop' \in [kind : {"open", "close"}, left : {hwContexts}]
    /\ UNCHANGED <<ctx, groups, groupIds, primaryGroup, storage, hwContexts, user>>

(* Every step is one of these. *)
LEMMA StepKinds ==
    ASSUME Typed, ListInv, Orderly => loop = Idle, Next, MaxGroups <= Capacity
    PROVE  \/ BeginStep
           \/ \E c \in Contexts :
                 \/ CreateStep(c) \/ DestroyStep(c)
                 \/ (InitializeStep(c) \/ ReleaseStep(c)) /\ LoopGoesOn
<1>1. CASE loop = Idle /\ Call /\ UNCHANGED <<loop, user>>
  <2>1. ASSUME NEW c \in Contexts, NEW flags \in FlagSets, Create(c, flags), NoneWaits
        PROVE  CreateStep(c)
    BY <1>1, <2>1, CreateFacts DEF CreateStep
  <2>2. ASSUME NEW c \in Contexts, Initialize(c)
        PROVE  InitializeStep(c) /\ LoopGoesOn
    BY <1>1, <2>2, InitializeFacts DEF Initialize, InitializeStep, LoopGoesOn, ManagerUnchanged
  <2>3. ASSUME NEW c \in Contexts, Release(c)
        PROVE  ReleaseStep(c) /\ LoopGoesOn
    BY <1>1, <2>3, ReleaseFacts DEF Release, ReleaseStep, LoopGoesOn, ManagerUnchanged, Orderly
  <2>4. ASSUME NEW c \in Contexts, ReleaseHardwareContext(c), NoneWaits
        PROVE  DestroyStep(c)
    BY <1>1, <2>4, ReleaseFacts DEF ReleaseHardwareContext, DestroyStep
  <2> QED  BY <1>1, <2>1, <2>2, <2>3, <2>4 DEF Call, Create
<1>2. ASSUME loop = Idle, NEW kind \in {"open", "close"}, Begin(kind), UNCHANGED user
      PROVE  BeginStep
  BY <1>2 DEF Begin, BeginStep, ManagerUnchanged, Orderly
<1>3. CASE LoopStep /\ UNCHANGED user
  <2> DEFINE c == Head(loop.left)
  <2>1. loop # Idle /\ loop \in [kind : {"open", "close"}, left : Seq(Contexts)] /\ loop.left # << >>
    BY <1>3 DEF LoopStep, Typed
  <2>2. c \in Contexts /\ c = loop.left[1] /\ 1 \in 1 .. Len(loop.left)
    BY <2>1, HeadTailProperties, EmptySeq
  <2>3. ctx[c].alive /\ ~Orderly
    BY <2>1, <2>2 DEF ListInv
  <2>4. LoopGoesOn
    BY <1>3 DEF LoopStep, LoopGoesOn
  <2>5. CASE loop.kind = "open"
    <3>1. InitializeStep(c)
      BY <1>3, <2>2, <2>3, <2>5, InitializeFacts DEF LoopStep, InitializeStep, ManagerUnchanged
    <3> QED  BY <2>2, <2>4, <3>1
  <2>6. CASE loop.kind # "open"
    <3>1. ReleaseStep(c)
      BY <1>3, <2>2, <2>3, <2>6, ReleaseFacts DEF LoopStep, ReleaseStep, ManagerUnchanged
    <3> QED  BY <2>2, <2>4, <3>1
  <2> QED  BY <2>5, <2>6
<1> QED  BY <1>1, <1>2, <1>3 DEF Next

(* A destroyed context is gone, the others are as the release left them. *)
LEMMA DestroyFacts ==
    ASSUME Typed, NEW c \in Contexts, DestroyStep(c)
    PROVE  /\ ctx' \in [Contexts -> CtxType(Len(groups))]
           /\ ~ctx'[c].alive /\ ~ctx'[c].initialized /\ ctx'[c].slot = None
           /\ \A k \in Contexts : k # c =>
                 /\ ctx'[k].alive <=> ctx[k].alive
                 /\ ctx'[k].initialized <=> ctx[k].initialized
                 /\ ctx'[k].group = ctx[k].group
                 /\ ctx'[k].slot = IF ctx[c].slot = 0 /\ k \in Others(ctx[c].group) THEN None
                                   ELSE ctx[k].slot
<1> DEFINE cs == Released(c).ctx
<1>1. /\ cs \in [Contexts -> CtxType(Len(groups))]
      /\ ctx' = [cs EXCEPT ![c] = NoContext]
      /\ \A k \in Contexts :
            /\ cs[k].alive <=> ctx[k].alive
            /\ cs[k].initialized <=> ctx[k].initialized /\ k # c
            /\ cs[k].group = ctx[k].group
            /\ cs[k].slot = IF ctx[c].slot = 0 /\ k \in Others(ctx[c].group) THEN None
                            ELSE ctx[k].slot
  BY DEF DestroyStep, ReleaseEffect
<1> HIDE DEF cs
<1>2. /\ NoContext \in CtxType(Len(groups))
      /\ ~NoContext.alive /\ ~NoContext.initialized /\ NoContext.slot = None
  BY DEF NoContext, CtxType
<1>3. /\ ctx' \in [Contexts -> CtxType(Len(groups))] /\ ctx'[c] = NoContext
      /\ \A k \in Contexts : k # c => ctx'[k] = cs[k]
  BY <1>1, <1>2
<1> QED  BY <1>1, <1>2, <1>3

(* The loop keeps its type and its contexts. *)
LEMMA LoopFacts ==
    ASSUME Typed, ListInv, LoopGoesOn
    PROVE  /\ \/ loop' = Idle
              \/ loop' \in [kind : {"open", "close"}, left : Seq(Contexts)] /\ loop'.left # << >>
           /\ loop' # Idle => \A i \in 1 .. Len(loop'.left) : ctx[loop'.left[i]].alive
<1>1. CASE loop = Idle
  BY <1>1 DEF LoopGoesOn
<1>2. CASE loop # Idle /\ Len(loop.left) = 1
  BY <1>2 DEF LoopGoesOn
<1>3. CASE loop # Idle /\ Len(loop.left) # 1
  <2> DEFINE tl == Tail(loop.left)
  <2>1. loop \in [kind : {"open", "close"}, left : Seq(Contexts)] /\ loop.left # << >>
    BY <1>3 DEF Typed
  <2>2. /\ tl \in Seq(Contexts) /\ Len(tl) = Len(loop.left) - 1 /\ Len(loop.left) \in Nat \ {0}
        /\ \A i \in 1 .. Len(tl) : tl[i] = loop.left[i + 1]
    BY <2>1, HeadTailProperties, EmptySeq
  <2>3. loop' = [loop EXCEPT !.left = tl]
    BY <1>3 DEF LoopGoesOn
  <2> HIDE DEF tl
  <2>4. tl # << >>
    <3>1. Len(tl) # 0
      BY <1>3, <2>2
    <3>2. Len(<< >>) = 0
      OBVIOUS
    <3> QED  BY <3>1, <3>2
  <2>5. loop' \in [kind : {"open", "close"}, left : Seq(Contexts)] /\ loop'.left = tl
    BY <2>1, <2>2, <2>3
  <2>6. \A i \in 1 .. Len(tl) : ctx[tl[i]].alive
    BY <1>3, <2>2 DEF ListInv
  <2> QED  BY <2>4, <2>5, <2>6
<1> QED  BY <1>1, <1>2, <1>3

(* Types are kept. *)
LEMMA TypedStep ==
    ASSUME Typed, ListInv, Orderly => loop = Idle, Next, MaxGroups <= Capacity
    PROVE  Typed'
<1>1. CASE BeginStep
  BY <1>1 DEF BeginStep, Typed
<1>2. ASSUME NEW c \in Contexts, CreateStep(c) PROVE Typed'
  <2>1. Append(hwContexts, c) \in Seq(Contexts)
    BY AppendProperties DEF Typed
  <2> QED  BY <1>2, <2>1 DEF CreateStep, CreateEffect, Typed
<1>3. ASSUME NEW c \in Contexts, DestroyStep(c) PROVE Typed'
  <2>1. groups' \in Seq(GroupType) /\ Len(groups') = Len(groups)
    BY <1>3 DEF DestroyStep, ReleaseEffect
  <2>2. ctx' \in [Contexts -> CtxType(Len(groups'))]
    BY <1>3, <2>1, DestroyFacts
  <2>3. hwContexts' \in Seq(Contexts)
    BY <1>3, RemoveAtFacts DEF DestroyStep, Typed
  <2> QED  BY <1>3, <2>1, <2>2, <2>3 DEF DestroyStep, Typed
<1>4. ASSUME NEW c \in Contexts, InitializeStep(c), LoopGoesOn PROVE Typed'
  BY <1>4, LoopFacts DEF InitializeStep, InitializeEffect, Typed
<1>5. ASSUME NEW c \in Contexts, ReleaseStep(c), LoopGoesOn PROVE Typed'
  BY <1>5, LoopFacts DEF ReleaseStep, ReleaseEffect, Typed
<1> QED  BY <1>1, <1>2, <1>3, <1>4, <1>5, StepKinds

(* The lists hold live contexts. *)
LEMMA ListStep ==
    ASSUME Typed, ListInv, Orderly => loop = Idle, Next, MaxGroups <= Capacity
    PROVE  ListInv'
<1>1. CASE BeginStep
  BY <1>1 DEF BeginStep, ListInv
<1>2. ASSUME NEW c \in Contexts, CreateStep(c) PROVE ListInv'
  <2> DEFINE n == Len(hwContexts)
  <2>1. /\ CreateEffect(c) /\ loop' = Idle
        /\ ctx'[c].alive /\ ~ctx'[c].initialized /\ ~ctx[c].alive
        /\ ctx'[c].slot # None => ctx'[c].group # None
        /\ \A k \in Contexts : k # c => ctx'[k] = ctx[k]
    BY <1>2 DEF CreateStep, CreateEffect
  <2>2. /\ n \in Nat /\ Len(hwContexts') = n + 1 /\ hwContexts'[n + 1] = c
        /\ \A i \in 1 .. n : hwContexts'[i] = hwContexts[i] /\ hwContexts[i] \in Contexts
    BY <2>1, AppendProperties, LenProperties, ElementOfSeq DEF CreateEffect, Typed
  <2>3. \A i \in 1 .. n : hwContexts[i] # c
    BY <2>1 DEF ListInv
  <2>4. \A i \in 1 .. n + 1 : ctx'[hwContexts'[i]].alive
    BY <2>1, <2>2, <2>3 DEF ListInv
  <2>5. \A i, j \in 1 .. n + 1 : hwContexts'[i] = hwContexts'[j] => i = j
    BY <2>2, <2>3 DEF ListInv
  <2>6. \A k \in Contexts :
          /\ ctx'[k].initialized => ctx'[k].alive
          /\ ctx'[k].slot # None => ctx'[k].group # None
    BY <2>1 DEF ListInv
  <2> QED  BY <2>1, <2>2, <2>4, <2>5, <2>6 DEF ListInv
<1>3. ASSUME NEW c \in Contexts, DestroyStep(c) PROVE ListInv'
  <2> DEFINE n == Len(hwContexts)
  <2>1. PICK i \in 1 .. n : hwContexts[i] = c /\ hwContexts' = RemoveAt(hwContexts, i)
    BY <1>3 DEF DestroyStep
  <2>2. /\ n \in Nat /\ Len(hwContexts') = n - 1
        /\ \A j \in 1 .. n - 1 : hwContexts'[j] = IF j < i THEN hwContexts[j] ELSE hwContexts[j + 1]
        /\ \A j \in 1 .. n : hwContexts[j] \in Contexts
    <3>1. hwContexts \in Seq(Contexts)
      BY DEF Typed
    <3>2. n \in Nat /\ \A j \in 1 .. n : hwContexts[j] \in Contexts
      BY <3>1, LenProperties, ElementOfSeq
    <3>3. /\ Len(RemoveAt(hwContexts, i)) = n - 1
          /\ \A j \in 1 .. n - 1 : RemoveAt(hwContexts, i)[j] =
                                      IF j < i THEN hwContexts[j] ELSE hwContexts[j + 1]
      BY <3>1, RemoveAtFacts
    <3> QED  BY <2>1, <3>2, <3>3
  <2>3. /\ ~ctx'[c].alive /\ ~ctx'[c].initialized /\ ctx'[c].slot = None
        /\ \A k \in Contexts : k # c =>
                 /\ ctx'[k].alive <=> ctx[k].alive
                 /\ ctx'[k].initialized <=> ctx[k].initialized
                 /\ ctx'[k].group = ctx[k].group
                 /\ ctx'[k].slot # None => ctx[k].slot # None
        /\ loop' = Idle
    BY <1>3, DestroyFacts DEF DestroyStep
  <2>4. \A j \in 1 .. n - 1 : \E m \in 1 .. n : m # i /\ hwContexts'[j] = hwContexts[m]
    <3> SUFFICES ASSUME NEW j \in 1 .. n - 1
                 PROVE  \E m \in 1 .. n : m # i /\ hwContexts'[j] = hwContexts[m]
      OBVIOUS
    <3>1. CASE j < i
      BY <2>2, <3>1
    <3>2. CASE ~(j < i)
      <4>1. j + 1 \in 1 .. n /\ j + 1 # i /\ hwContexts'[j] = hwContexts[j + 1]
        BY <2>2, <3>2
      <4> QED  BY <4>1
    <3> QED  BY <3>1, <3>2
  <2>5. \A j \in 1 .. n - 1 : ctx'[hwContexts'[j]].alive
    <3> SUFFICES ASSUME NEW j \in 1 .. n - 1 PROVE ctx'[hwContexts'[j]].alive
      OBVIOUS
    <3>1. PICK m \in 1 .. n : m # i /\ hwContexts'[j] = hwContexts[m]
      BY <2>4
    <3>2. hwContexts[m] # c /\ hwContexts[m] \in Contexts /\ ctx[hwContexts[m]].alive
      BY <2>1, <2>2, <3>1 DEF ListInv
    <3> QED  BY <2>3, <3>1, <3>2
  <2>6. \A j, k \in 1 .. n - 1 : hwContexts'[j] = hwContexts'[k] => j = k
    <3> SUFFICES ASSUME NEW j \in 1 .. n - 1, NEW k \in 1 .. n - 1,
                        hwContexts'[j] = hwContexts'[k]
                 PROVE  j = k
      OBVIOUS
    <3>1. \A x, y \in 1 .. n : hwContexts[x] = hwContexts[y] => x = y
      BY DEF ListInv
    <3> QED  BY <2>2, <3>1
  <2>7. \A k \in Contexts :
          /\ ctx'[k].initialized => ctx'[k].alive
          /\ ctx'[k].slot # None => ctx'[k].group # None
    BY <2>3 DEF ListInv
  <2> QED  BY <2>2, <2>3, <2>5, <2>6, <2>7 DEF ListInv
<1>4. ASSUME NEW c \in Contexts, InitializeStep(c), LoopGoesOn PROVE ListInv'
  <2>1. /\ \A k \in Contexts :
              /\ ctx'[k].alive <=> ctx[k].alive
              /\ ctx'[k].initialized <=> ctx[k].initialized \/ k = c
              /\ ctx'[k].group = ctx[k].group /\ ctx'[k].slot = ctx[k].slot
        /\ ctx[c].alive /\ hwContexts' = hwContexts
    BY <1>4 DEF InitializeStep, InitializeEffect
  <2>2. /\ \A i \in 1 .. Len(hwContexts) : hwContexts[i] \in Contexts
        /\ loop' # Idle => \A i \in 1 .. Len(loop'.left) : loop'.left[i] \in Contexts
    BY <1>4, LoopFacts, ElementOfSeq DEF Typed
  <2>3. loop' # Idle => \A i \in 1 .. Len(loop'.left) : ctx'[loop'.left[i]].alive
    BY <1>4, <2>1, <2>2, LoopFacts
  <2> QED  BY <2>1, <2>2, <2>3 DEF ListInv
<1>5. ASSUME NEW c \in Contexts, ReleaseStep(c), LoopGoesOn PROVE ListInv'
  <2>1. /\ \A k \in Contexts :
              /\ ctx'[k].alive <=> ctx[k].alive
              /\ ctx'[k].initialized => ctx[k].initialized
              /\ ctx'[k].group = ctx[k].group
              /\ ctx'[k].slot # None => ctx[k].slot # None
        /\ hwContexts' = hwContexts
    BY <1>5 DEF ReleaseStep, ReleaseEffect
  <2>2. /\ \A i \in 1 .. Len(hwContexts) : hwContexts[i] \in Contexts
        /\ loop' # Idle => \A i \in 1 .. Len(loop'.left) : loop'.left[i] \in Contexts
    BY <1>5, LoopFacts, ElementOfSeq DEF Typed
  <2>3. loop' # Idle => \A i \in 1 .. Len(loop'.left) : ctx'[loop'.left[i]].alive
    BY <1>5, <2>1, <2>2, LoopFacts
  <2> QED  BY <2>1, <2>2, <2>3 DEF ListInv
<1> QED  BY <1>1, <1>2, <1>3, <1>4, <1>5, StepKinds

(* What a table holds is a context or nothing. *)
LEMMA TableType ==
    ASSUME Typed, NEW g \in 1 .. Len(groups), NEW s \in Slots
    PROVE  groups[g] \in GroupType /\ groups[g].contexts[s] \in Contexts \cup {None}
<1>1. groups[g] \in GroupType
  BY ElementOfSeq DEF Typed
<1> QED  BY <1>1 DEF GroupType

(* The members of a dissolved group held slots after the first. *)
LEMMA OthersFacts ==
    ASSUME Typed, TableInv, NEW g \in 1 .. Len(groups), NEW k \in Others(g)
    PROVE  ctx[k].group = g /\ ctx[k].slot # 0
<1>1. PICK i \in 1 .. GroupSize - 1 : groups[g].contexts[i] = k
  BY DEF Others
<1>2. i \in Slots /\ i # 0 /\ k # None
  BY ContextGroupsAssumption DEF Slots, Others
<1> QED  BY <1>1, <1>2 DEF TableInv, Holds

(* Tables show initialized holders. *)
LEMMA TableStep ==
    ASSUME Typed, ListInv, TableInv, Orderly => loop = Idle, Next, MaxGroups <= Capacity
    PROVE  TableInv'
<1>0. /\ None \notin Contexts /\ None \notin Slots /\ 0 \in Slots
      /\ \A g \in 1 .. Len(groups), s \in Slots : groups[g].contexts[s] \in Contexts \cup {None}
  BY ContextGroupsAssumption, TableType DEF Slots
<1>1. CASE BeginStep
  BY <1>1 DEF BeginStep, TableInv, Holds
<1>2. ASSUME NEW c \in Contexts, CreateStep(c) PROVE TableInv'
  <2> SUFFICES ASSUME NEW g \in 1 .. Len(groups'), NEW s \in Slots,
                      groups'[g].contexts[s] # None
               PROVE  LET d == groups'[g].contexts[s]
                      IN  /\ ctx'[d].initialized /\ ctx'[d].alive /\ ctx'[d].group = g
                          /\ ctx'[d].slot = s
    BY DEF TableInv, Holds
  <2> DEFINE d == groups'[g].contexts[s]
  <2>1. g \in 1 .. Len(groups) /\ d = groups[g].contexts[s] /\ d # None
    BY <1>2 DEF CreateStep, CreateEffect
  <2>2. ctx[d].initialized /\ Holds(d, g, s) /\ d \in Contexts
    BY <1>0, <2>1 DEF TableInv
  <2> HIDE DEF d
  <2>3. d # c /\ ctx'[d] = ctx[d]
    BY <1>2, <2>2 DEF CreateStep, CreateEffect, Holds
  <2> QED  BY <2>2, <2>3 DEF Holds, d
<1>3. ASSUME NEW c \in Contexts,
             ReleaseEffect(c, Released(c).ctx, groups') \/ ReleaseEffect(c, ctx', groups'),
             \A k \in Contexts : k # c =>
                 /\ ctx'[k].alive <=> ctx[k].alive
                 /\ ctx'[k].initialized <=> ctx[k].initialized
                 /\ ctx'[k].group = ctx[k].group
                 /\ ctx'[k].slot = IF ctx[c].slot = 0 /\ k \in Others(ctx[c].group) THEN None
                                   ELSE ctx[k].slot
      PROVE  TableInv'
  <2>1. /\ Len(groups') = Len(groups)
        /\ \A g \in 1 .. Len(groups), s \in Slots :
              groups'[g].contexts[s] =
                  IF Dissolves(c, g) \/ (g = ctx[c].group /\ s = ctx[c].slot) THEN None
                  ELSE groups[g].contexts[s]
    BY <1>3 DEF ReleaseEffect
  <2> SUFFICES ASSUME NEW g \in 1 .. Len(groups), NEW s \in Slots,
                      groups'[g].contexts[s] # None
               PROVE  LET d == groups'[g].contexts[s]
                      IN  /\ ctx'[d].initialized /\ ctx'[d].alive /\ ctx'[d].group = g
                          /\ ctx'[d].slot = s
    BY <2>1 DEF TableInv, Holds
  <2> DEFINE d == groups'[g].contexts[s]
  <2>2. /\ ~Dissolves(c, g) /\ ~(g = ctx[c].group /\ s = ctx[c].slot)
        /\ d = groups[g].contexts[s] /\ d # None
    BY <2>1
  <2>3. ctx[d].initialized /\ Holds(d, g, s) /\ d \in Contexts
    BY <1>0, <2>2 DEF TableInv
  <2> HIDE DEF d
  <2>4. d # c
    BY <2>2, <2>3 DEF Holds
  <2>5. ctx[c].slot = 0 => d \notin Others(ctx[c].group)
    <3> SUFFICES ASSUME ctx[c].slot = 0, d \in Others(ctx[c].group) PROVE FALSE
      OBVIOUS
    <3>1. ctx[c].group \in 1 .. Len(groups)
      BY <1>0 DEF Typed, ListInv, CtxType
    <3>2. ctx[d].group = ctx[c].group
      BY <3>1, OthersFacts
    <3> QED  BY <2>2, <2>3, <3>2 DEF Holds, Dissolves
  <2>6. /\ ctx'[d].alive <=> ctx[d].alive
        /\ ctx'[d].initialized <=> ctx[d].initialized
        /\ ctx'[d].group = ctx[d].group /\ ctx'[d].slot = ctx[d].slot
    BY <1>3, <2>3, <2>4, <2>5
  <2> QED  BY <2>3, <2>6 DEF Holds, d
<1>4. ASSUME NEW c \in Contexts, DestroyStep(c) PROVE TableInv'
  BY <1>3, <1>4, DestroyFacts DEF DestroyStep
<1>5. ASSUME NEW c \in Contexts, ReleaseStep(c) PROVE TableInv'
  <2>1. \A k \in Contexts : k # c =>
                 /\ ctx'[k].alive <=> ctx[k].alive
                 /\ ctx'[k].initialized <=> ctx[k].initialized
                 /\ ctx'[k].group = ctx[k].group
                 /\ ctx'[k].slot = IF ctx[c].slot = 0 /\ k \in Others(ctx[c].group) THEN None
                                   ELSE ctx[k].slot
    BY <1>5 DEF ReleaseStep, ReleaseEffect
  <2> QED  BY <1>3, <1>5, <2>1 DEF ReleaseStep
<1>6. ASSUME NEW c \in Contexts, InitializeStep(c) PROVE TableInv'
  <2>1. /\ Len(groups') = Len(groups) /\ ctx[c].alive
        /\ \A k \in Contexts :
              /\ ctx'[k].alive <=> ctx[k].alive
              /\ ctx'[k].initialized <=> ctx[k].initialized \/ k = c
              /\ ctx'[k].group = ctx[k].group /\ ctx'[k].slot = ctx[k].slot
        /\ \A g \in 1 .. Len(groups), s \in Slots :
              groups'[g].contexts[s] =
                  IF ~ctx[c].initialized /\ g = ctx[c].group /\ s = ctx[c].slot THEN c
                  ELSE groups[g].contexts[s]
    BY <1>6 DEF InitializeStep, InitializeEffect
  <2> SUFFICES ASSUME NEW g \in 1 .. Len(groups), NEW s \in Slots,
                      groups'[g].contexts[s] # None
               PROVE  LET d == groups'[g].contexts[s]
                      IN  /\ ctx'[d].initialized /\ ctx'[d].alive /\ ctx'[d].group = g
                          /\ ctx'[d].slot = s
    BY <2>1 DEF TableInv, Holds
  <2> DEFINE d == groups'[g].contexts[s]
  <2>2. CASE ~ctx[c].initialized /\ g = ctx[c].group /\ s = ctx[c].slot
    BY <2>1, <2>2
  <2>3. CASE ~(~ctx[c].initialized /\ g = ctx[c].group /\ s = ctx[c].slot)
    <3>1. d = groups[g].contexts[s] /\ d # None
      BY <2>1, <2>3
    <3>2. ctx[d].initialized /\ Holds(d, g, s) /\ d \in Contexts
      BY <1>0, <3>1 DEF TableInv
    <3> HIDE DEF d
    <3> QED  BY <2>1, <3>2 DEF Holds, d
  <2> QED  BY <2>2, <2>3
<1> QED  BY <1>1, <1>2, <1>4, <1>5, <1>6, StepKinds

(* While slots are handed out, the first one has a holder. *)
LEMMA FirstStep ==
    ASSUME Typed, ListInv, TableInv, FirstInv, Orderly => loop = Idle, Next,
           MaxGroups <= Capacity
    PROVE  FirstInv'
<1>0. None \notin Contexts /\ None # 0
  BY ContextGroupsAssumption
<1>1. CASE BeginStep
  BY <1>1 DEF BeginStep, FirstInv, Holds
<1>2. ASSUME NEW c \in Contexts, CreateStep(c) PROVE FirstInv'
  <2> SUFFICES ASSUME NEW g \in 1 .. Len(groups'), groups'[g].counter # 0
               PROVE  \E k \in Contexts : ctx'[k].alive /\ ctx'[k].group = g /\ ctx'[k].slot = 0
    BY DEF FirstInv, Holds
  <2>1. /\ ctx'[c].alive /\ ~ctx[c].alive
        /\ ctx'[c].slot # None => ctx'[c].slot = Counter(ctx'[c].group)
        /\ \A k \in Contexts : k # c => ctx'[k] = ctx[k]
        /\ groups'[g].counter =
              IF ctx'[c].slot # None /\ ctx'[c].group = g THEN Counter(g) + 1 ELSE Counter(g)
    BY <1>2 DEF CreateStep, CreateEffect
  <2>2. CASE Counter(g) = 0
    BY <2>1, <2>2
  <2>3. CASE Counter(g) # 0
    <3>1. g \in 1 .. Len(groups) /\ groups[g].counter # 0
      BY <2>3 DEF Counter, Typed
    <3>2. PICK k \in Contexts : Holds(k, g, 0)
      BY <3>1 DEF FirstInv
    <3> QED  BY <2>1, <3>2 DEF Holds
  <2> QED  BY <2>2, <2>3
<1>3. ASSUME NEW c \in Contexts,
             ReleaseEffect(c, Released(c).ctx, groups') \/ ReleaseEffect(c, ctx', groups'),
             \A k \in Contexts : k # c =>
                 /\ ctx'[k].alive <=> ctx[k].alive
                 /\ ctx'[k].group = ctx[k].group
                 /\ ctx'[k].slot = IF ctx[c].slot = 0 /\ k \in Others(ctx[c].group) THEN None
                                   ELSE ctx[k].slot
      PROVE  FirstInv'
  <2>1. /\ Len(groups') = Len(groups)
        /\ \A g \in 1 .. Len(groups) :
              groups'[g].counter = IF Dissolves(c, g) THEN 0 ELSE groups[g].counter
    BY <1>3 DEF ReleaseEffect
  <2> SUFFICES ASSUME NEW g \in 1 .. Len(groups), groups'[g].counter # 0
               PROVE  \E k \in Contexts : ctx'[k].alive /\ ctx'[k].group = g /\ ctx'[k].slot = 0
    BY <2>1 DEF FirstInv, Holds
  <2>2. ~Dissolves(c, g) /\ groups[g].counter # 0
    BY <2>1
  <2>3. PICK k \in Contexts : Holds(k, g, 0)
    BY <2>2 DEF FirstInv
  <2>4. k # c
    BY <2>2, <2>3 DEF Holds, Dissolves
  <2>5. ctx[c].slot = 0 => k \notin Others(ctx[c].group)
    <3> SUFFICES ASSUME ctx[c].slot = 0, k \in Others(ctx[c].group) PROVE FALSE
      OBVIOUS
    <3>1. ctx[c].group \in 1 .. Len(groups)
      BY <1>0 DEF Typed, ListInv, CtxType
    <3> QED  BY <2>3, <3>1, OthersFacts DEF Holds
  <2> QED  BY <1>3, <2>3, <2>4, <2>5 DEF Holds
<1>4. ASSUME NEW c \in Contexts, DestroyStep(c) PROVE FirstInv'
  BY <1>3, <1>4, DestroyFacts DEF DestroyStep
<1>5. ASSUME NEW c \in Contexts, ReleaseStep(c) PROVE FirstInv'
  <2>1. \A k \in Contexts : k # c =>
                 /\ ctx'[k].alive <=> ctx[k].alive
                 /\ ctx'[k].group = ctx[k].group
                 /\ ctx'[k].slot = IF ctx[c].slot = 0 /\ k \in Others(ctx[c].group) THEN None
                                   ELSE ctx[k].slot
    BY <1>5 DEF ReleaseStep, ReleaseEffect
  <2> QED  BY <1>3, <1>5, <2>1 DEF ReleaseStep
<1>6. ASSUME NEW c \in Contexts, InitializeStep(c) PROVE FirstInv'
  BY <1>6 DEF InitializeStep, InitializeEffect, FirstInv, Holds
<1> QED  BY <1>1, <1>2, <1>4, <1>5, <1>6, StepKinds

(***************************************************************************)
(* For an orderly user slots stay unique: whoever releases slot 0 finds     *)
(* every other context of the group in the table, and takes its slot away.  *)
(***************************************************************************)
LEMMA OrderlyStep ==
    ASSUME Inv, Next, MaxGroups <= Capacity
    PROVE  OrderlyInv'
<1>0. /\ Typed /\ ListInv /\ TableInv /\ OrderlyInv /\ (Orderly => loop = Idle)
      /\ None \notin Contexts /\ None \notin Slots /\ None # 0
  BY ContextGroupsAssumption DEF Inv, OrderlyInv, Slots
<1>1. Orderly' = Orderly
  BY <1>0, StepKinds DEF BeginStep, CreateStep, DestroyStep, InitializeStep, ReleaseStep, Orderly
<1> SUFFICES ASSUME Orderly
             PROVE  /\ loop' = Idle
                    /\ \A c \in Contexts : ctx'[c].alive /\ ctx'[c].slot # None
                          => ctx'[c].slot < groups'[ctx'[c].group].counter
                    /\ \A c, d \in Contexts :
                          /\ ctx'[c].alive /\ ctx'[d].alive /\ ctx'[c].slot # None
                          /\ ctx'[c].slot = ctx'[d].slot /\ ctx'[c].group = ctx'[d].group
                          => c = d
                    /\ \A c \in Contexts : ctx'[c].initialized /\ ctx'[c].slot # None
                          => groups'[ctx'[c].group].contexts[ctx'[c].slot] = c
  BY <1>1 DEF OrderlyInv, MembersInTheirSlots, Grouped
<1>2. /\ loop = Idle
      /\ \A c \in Contexts : ctx[c].alive /\ ctx[c].slot # None
            => ctx[c].slot < groups[ctx[c].group].counter
      /\ \A c, d \in Contexts :
            /\ ctx[c].alive /\ ctx[d].alive /\ ctx[c].slot # None
            /\ ctx[c].slot = ctx[d].slot /\ ctx[c].group = ctx[d].group
            => c = d
      /\ \A c \in Contexts : ctx[c].initialized /\ ctx[c].slot # None
            => groups[ctx[c].group].contexts[ctx[c].slot] = c
      /\ \A c \in Contexts : ctx[c].initialized => ctx[c].alive
  BY <1>0 DEF OrderlyInv, MembersInTheirSlots, Grouped, ListInv
<1>3. \A c \in Contexts : ctx[c].slot # None => ctx[c].slot \in Slots /\ ctx[c].group \in 1 .. Len(groups)
  BY <1>0 DEF Typed, ListInv, CtxType
<1>4. /\ Len(groups) \in Nat /\ Slots \subseteq Nat
      /\ \A g \in 1 .. Len(groups) : groups[g].counter \in Nat
  <2>1. groups \in Seq(GroupType) /\ GroupSize \in Nat
    BY <1>0, ContextGroupsAssumption DEF Typed
  <2>2. \A g \in 1 .. Len(groups) : groups[g] \in GroupType
    BY <2>1, ElementOfSeq
  <2> QED  BY <2>1, <2>2, LenProperties DEF GroupType, Slots
<1>5. ASSUME NEW c \in Contexts, CreateStep(c)
      PROVE  /\ loop' = Idle
             /\ \A k \in Contexts : ctx'[k].alive /\ ctx'[k].slot # None
                   => ctx'[k].slot < groups'[ctx'[k].group].counter
             /\ \A k, d \in Contexts :
                   /\ ctx'[k].alive /\ ctx'[d].alive /\ ctx'[k].slot # None
                   /\ ctx'[k].slot = ctx'[d].slot /\ ctx'[k].group = ctx'[d].group
                   => k = d
             /\ \A k \in Contexts : ctx'[k].initialized /\ ctx'[k].slot # None
                   => groups'[ctx'[k].group].contexts[ctx'[k].slot] = k
  <2>1. /\ ~ctx[c].alive /\ loop' = Idle /\ Len(groups') >= Len(groups) /\ Len(groups') \in Nat
        /\ ctx' \in [Contexts -> CtxType(Len(groups'))]
        /\ ctx'[c].alive /\ ~ctx'[c].initialized
        /\ ctx'[c].slot # None => ctx'[c].group # None /\ ctx'[c].slot = Counter(ctx'[c].group)
        /\ \A k \in Contexts : k # c => ctx'[k] = ctx[k]
        /\ \A g \in 1 .. Len(groups'), s \in Slots :
              groups'[g].contexts[s] = IF g <= Len(groups) THEN groups[g].contexts[s] ELSE None
        /\ \A g \in 1 .. Len(groups') :
              groups'[g].counter =
                  IF ctx'[c].slot # None /\ ctx'[c].group = g THEN Counter(g) + 1 ELSE Counter(g)
    BY <1>5, LenProperties DEF CreateStep, CreateEffect
  <2>2. ctx'[c].slot # None => ctx'[c].group \in 1 .. Len(groups')
    BY <2>1 DEF CtxType
  <2>3. \A g \in 1 .. Len(groups') : Counter(g) \in Nat
    BY <1>4, <2>1 DEF Counter
  <2>4. \A k \in Contexts : k # c /\ ctx[k].alive /\ ctx[k].slot # None =>
          /\ ctx[k].group \in 1 .. Len(groups) /\ ctx[k].group \in 1 .. Len(groups')
          /\ Counter(ctx[k].group) = groups[ctx[k].group].counter
          /\ ctx[k].slot \in Nat /\ ctx[k].slot < Counter(ctx[k].group)
    <3> SUFFICES ASSUME NEW k \in Contexts, k # c, ctx[k].alive, ctx[k].slot # None
                 PROVE  /\ ctx[k].group \in 1 .. Len(groups) /\ ctx[k].group \in 1 .. Len(groups')
                        /\ Counter(ctx[k].group) = groups[ctx[k].group].counter
                        /\ ctx[k].slot \in Nat /\ ctx[k].slot < Counter(ctx[k].group)
      OBVIOUS
    <3>1. ctx[k].group \in 1 .. Len(groups) /\ ctx[k].slot \in Slots
      BY <1>3
    <3>2. ctx[k].group \in 1 .. Len(groups')
      BY <1>4, <2>1, <3>1
    <3>3. Counter(ctx[k].group) = groups[ctx[k].group].counter
      BY <1>4, <3>1 DEF Counter
    <3>4. ctx[k].slot < groups[ctx[k].group].counter
      BY <1>2
    <3> QED  BY <1>4, <3>1, <3>2, <3>3, <3>4
  <2>5. \A k \in Contexts : ctx'[k].alive /\ ctx'[k].slot # None
           => ctx'[k].slot < groups'[ctx'[k].group].counter
    <3> SUFFICES ASSUME NEW k \in Contexts, ctx'[k].alive, ctx'[k].slot # None
                 PROVE  ctx'[k].slot < groups'[ctx'[k].group].counter
      OBVIOUS
    <3>1. CASE k = c
      BY <2>1, <2>2, <2>3, <3>1
    <3>2. CASE k # c
      BY SMTT(30), <2>1, <2>3, <2>4, <3>2
    <3> QED  BY <3>1, <3>2
  <2>6. \A k, d \in Contexts :
           /\ ctx'[k].alive /\ ctx'[d].alive /\ ctx'[k].slot # None
           /\ ctx'[k].slot = ctx'[d].slot /\ ctx'[k].group = ctx'[d].group
           => k = d
    <3>1. \A k \in Contexts : k # c /\ ctx[k].alive /\ ctx[k].slot # None
             => ~(ctx[k].slot = ctx'[c].slot /\ ctx[k].group = ctx'[c].group)
      BY <2>1, <2>4
    <3> QED  BY <1>2, <2>1, <3>1
  <2>7. \A k \in Contexts : ctx'[k].initialized /\ ctx'[k].slot # None
           => groups'[ctx'[k].group].contexts[ctx'[k].slot] = k
    BY <1>2, <1>3, <2>1, <2>4
  <2> QED  BY <2>1, <2>5, <2>6, <2>7
<1>6. ASSUME NEW c \in Contexts, InitializeStep(c), LoopGoesOn
      PROVE  /\ loop' = Idle
             /\ \A k \in Contexts : ctx'[k].alive /\ ctx'[k].slot # None
                   => ctx'[k].slot < groups'[ctx'[k].group].counter
             /\ \A k, d \in Contexts :
                   /\ ctx'[k].alive /\ ctx'[d].alive /\ ctx'[k].slot # None
                   /\ ctx'[k].slot = ctx'[d].slot /\ ctx'[k].group = ctx'[d].group
                   => k = d
             /\ \A k \in Contexts : ctx'[k].initialized /\ ctx'[k].slot # None
                   => groups'[ctx'[k].group].contexts[ctx'[k].slot] = k
  <2>1. /\ Len(groups') = Len(groups) /\ ctx[c].alive /\ loop' = Idle
        /\ \A k \in Contexts :
              /\ ctx'[k].alive <=> ctx[k].alive
              /\ ctx'[k].initialized <=> ctx[k].initialized \/ k = c
              /\ ctx'[k].group = ctx[k].group /\ ctx'[k].slot = ctx[k].slot
        /\ \A g \in 1 .. Len(groups) : groups'[g].counter = groups[g].counter
        /\ \A g \in 1 .. Len(groups), s \in Slots :
              groups'[g].contexts[s] =
                  IF ~ctx[c].initialized /\ g = ctx[c].group /\ s = ctx[c].slot THEN c
                  ELSE groups[g].contexts[s]
    BY <1>2, <1>6 DEF InitializeStep, InitializeEffect, LoopGoesOn
  <2>2. \A k \in Contexts : ctx'[k].alive /\ ctx'[k].slot # None
           => ctx'[k].slot < groups'[ctx'[k].group].counter
    BY <1>2, <1>3, <2>1
  <2>3. \A k, d \in Contexts :
           /\ ctx'[k].alive /\ ctx'[d].alive /\ ctx'[k].slot # None
           /\ ctx'[k].slot = ctx'[d].slot /\ ctx'[k].group = ctx'[d].group
           => k = d
    BY <1>2, <2>1
  <2>4. ASSUME NEW k \in Contexts, ctx'[k].initialized, ctx'[k].slot # None
        PROVE  groups'[ctx'[k].group].contexts[ctx'[k].slot] = k
    <3>1. ctx[k].slot \in Slots /\ ctx[k].group \in 1 .. Len(groups)
      BY <1>3, <2>1, <2>4
    <3>2. CASE k = c
      BY <1>2, <2>1, <2>4, <3>1, <3>2
    <3>3. CASE k # c
      <4>1. ctx[k].initialized /\ ctx[k].alive /\ ctx[k].slot # None
        BY <1>2, <2>1, <2>4, <3>3
      <4>2. ~(ctx[k].group = ctx[c].group /\ ctx[k].slot = ctx[c].slot)
        BY <1>2, <2>1, <3>3, <4>1
      <4> QED  BY <1>2, <2>1, <3>1, <4>1, <4>2
    <3> QED  BY <3>2, <3>3
  <2> QED  BY <2>1, <2>2, <2>3, <2>4
<1>7. ASSUME NEW c \in Contexts, DestroyStep(c)
      PROVE  /\ loop' = Idle
             /\ \A k \in Contexts : ctx'[k].alive /\ ctx'[k].slot # None
                   => ctx'[k].slot < groups'[ctx'[k].group].counter
             /\ \A k, d \in Contexts :
                   /\ ctx'[k].alive /\ ctx'[d].alive /\ ctx'[k].slot # None
                   /\ ctx'[k].slot = ctx'[d].slot /\ ctx'[k].group = ctx'[d].group
                   => k = d
             /\ \A k \in Contexts : ctx'[k].initialized /\ ctx'[k].slot # None
                   => groups'[ctx'[k].group].contexts[ctx'[k].slot] = k
  <2>1. /\ loop' = Idle /\ ctx[c].alive
        /\ \A k \in Contexts : ctx[k].alive => ctx[k].initialized
        /\ \A g \in 1 .. Len(groups) :
              groups'[g].counter = IF Dissolves(c, g) THEN 0 ELSE groups[g].counter
        /\ \A g \in 1 .. Len(groups), s \in Slots :
              groups'[g].contexts[s] =
                  IF Dissolves(c, g) \/ (g = ctx[c].group /\ s = ctx[c].slot) THEN None
                  ELSE groups[g].contexts[s]
    BY <1>0, <1>7 DEF DestroyStep, ReleaseEffect, ListInv, NoneWaits, Orderly
  <2>2. /\ ~ctx'[c].alive /\ ~ctx'[c].initialized /\ ctx'[c].slot = None
        /\ \A k \in Contexts : k # c =>
              /\ ctx'[k].alive <=> ctx[k].alive
              /\ ctx'[k].initialized <=> ctx[k].initialized
              /\ ctx'[k].group = ctx[k].group
              /\ ctx'[k].slot = IF ctx[c].slot = 0 /\ k \in Others(ctx[c].group) THEN None
                                ELSE ctx[k].slot
    BY <1>0, <1>7, DestroyFacts
  <2>3. ASSUME NEW k \in Contexts, ctx'[k].alive, ctx'[k].slot # None
        PROVE  /\ k # c /\ ctx[k].alive /\ ctx'[k].slot = ctx[k].slot
               /\ ctx[k].slot \in Slots /\ ctx[k].group \in 1 .. Len(groups)
               /\ ~Dissolves(c, ctx[k].group)
               /\ ~(ctx[k].group = ctx[c].group /\ ctx[k].slot = ctx[c].slot)
    <3>1. /\ k # c /\ ctx[k].alive /\ ctx'[k].slot = ctx[k].slot
          /\ ~(ctx[c].slot = 0 /\ k \in Others(ctx[c].group))
      BY <2>2, <2>3
    <3>2. ctx[k].slot \in Slots /\ ctx[k].group \in 1 .. Len(groups)
      BY <1>3, <2>3, <3>1
    <3>3. ~(ctx[k].group = ctx[c].group /\ ctx[k].slot = ctx[c].slot)
      BY <1>2, <2>1, <2>3, <3>1
    <3>4. ~Dissolves(c, ctx[k].group)
      <4> SUFFICES ASSUME Dissolves(c, ctx[k].group) PROVE FALSE
        OBVIOUS
      <4>1. ctx[c].slot = 0 /\ ctx[k].group = ctx[c].group /\ ctx[k].slot # 0
        BY <3>3 DEF Dissolves
      <4>2. ctx[k].slot \in 1 .. GroupSize - 1
        BY <3>2, <4>1, ContextGroupsAssumption DEF Slots
      <4>3. groups[ctx[c].group].contexts[ctx[k].slot] = k
        BY <1>2, <2>1, <2>3, <3>1, <4>1
      <4>4. k \in Others(ctx[c].group)
        BY <4>2, <4>3 DEF Others
      <4> QED  BY <3>1, <4>1, <4>4
    <3> QED  BY <3>1, <3>2, <3>3, <3>4
  <2>4. \A k \in Contexts : ctx'[k].alive /\ ctx'[k].slot # None
           => ctx'[k].slot < groups'[ctx'[k].group].counter
    BY <1>2, <2>1, <2>2, <2>3
  <2>5. \A k, d \in Contexts :
           /\ ctx'[k].alive /\ ctx'[d].alive /\ ctx'[k].slot # None
           /\ ctx'[k].slot = ctx'[d].slot /\ ctx'[k].group = ctx'[d].group
           => k = d
    BY <1>2, <2>2, <2>3
  <2>6. \A k \in Contexts : ctx'[k].initialized /\ ctx'[k].slot # None
           => groups'[ctx'[k].group].contexts[ctx'[k].slot] = k
    BY <1>2, <2>1, <2>2, <2>3
  <2> QED  BY <2>1, <2>4, <2>5, <2>6
<1>8. ~BeginStep /\ \A c \in Contexts : ~ReleaseStep(c)
  BY DEF BeginStep, ReleaseStep
<1> QED  BY <1>0, <1>5, <1>6, <1>7, <1>8, StepKinds

-----------------------------------------------------------------------------
(* A new manager has one empty group and no context. *)
LEMMA InitInv == Init => Inv
<1> SUFFICES ASSUME Init PROVE Inv
  OBVIOUS
<1>1. /\ NoContext \in CtxType(1) /\ ~NoContext.alive /\ ~NoContext.initialized
      /\ NoContext.slot = None
  BY DEF NoContext, CtxType
<1>2. /\ groups \in Seq(GroupType) /\ Len(groups) = 1 /\ groups[1] = EmptyGroup
  BY EmptyGroupFacts DEF Init
<1>3. /\ \A c \in Contexts : ctx[c] = NoContext
      /\ ctx \in [Contexts -> CtxType(Len(groups))]
  BY <1>1, <1>2 DEF Init
<1>4. hwContexts \in Seq(Contexts) /\ Len(hwContexts) = 0 /\ DOMAIN primaryGroup = {}
  BY DEF Init
<1>5. Typed
  BY <1>2, <1>3, <1>4, ContextGroupsAssumption DEF Typed, Init
<1>6. ListInv
  BY <1>1, <1>3, <1>4 DEF ListInv, Init
<1>7. TableInv
  BY <1>2, EmptyGroupFacts DEF TableInv
<1>8. FirstInv
  BY <1>2, EmptyGroupFacts DEF FirstInv
<1>9. OrderlyInv
  BY <1>1, <1>3 DEF OrderlyInv, MembersInTheirSlots, Init
<1> QED  BY <1>5, <1>6, <1>7, <1>8, <1>9 DEF Inv

(* Every step keeps the invariant. *)
LEMMA NextInv ==
    ASSUME MaxGroups <= Capacity, Inv, [Next]_vars
    PROVE  Inv'
<1>1. CASE Next
  <2>1. Typed /\ ListInv /\ TableInv /\ FirstInv /\ (Orderly => loop = Idle)
    BY DEF Inv, OrderlyInv
  <2>2. Typed'
    BY <1>1, <2>1, TypedStep
  <2>3. ListInv'
    BY <1>1, <2>1, ListStep
  <2>4. TableInv'
    BY <1>1, <2>1, TableStep
  <2>5. FirstInv'
    BY <1>1, <2>1, FirstStep
  <2>6. OrderlyInv'
    BY <1>1, <2>1, OrderlyStep DEF Inv
  <2> QED  BY <2>2, <2>3, <2>4, <2>5, <2>6 DEF Inv
<1>2. CASE UNCHANGED vars
  <2>1. Typed' /\ ListInv'
    BY <1>2 DEF vars, Inv, Typed, ListInv
  <2>2. TableInv' /\ FirstInv'
    BY <1>2 DEF vars, Inv, TableInv, FirstInv, Holds
  <2>3. OrderlyInv'
    BY <1>2 DEF vars, Inv, OrderlyInv, MembersInTheirSlots, Orderly, Grouped
  <2> QED  BY <2>1, <2>2, <2>3 DEF Inv
<1> QED  BY <1>1, <1>2

(* The invariant holds in every reachable state. *)
THEOREM InvHolds ==
    ASSUME MaxGroups <= Capacity
    PROVE  Spec => []Inv
<1>1. Init => Inv
  BY InitInv
<1>2. Inv /\ [Next]_vars => Inv'
  BY NextInv
<1> QED  BY <1>1, <1>2, PTL DEF Spec

(***************************************************************************)
(* As long as the groups of an engine fit into the reserved vector, the     *)
(* contexts submit() finds in a group's table exist, are initialized and    *)
(* hold the slot they are found in, whatever calls were made before, opens  *)
(* and closes included (hardware_context_imp.cpp: initialize, release).     *)
(***************************************************************************)
THEOREM TablesHoldLiveContexts ==
    ASSUME MaxGroups <= Capacity
    PROVE  Spec => []SlotsHoldLiveContexts
<1>1. Inv => SlotsHoldLiveContexts
  <2> SUFFICES ASSUME Inv PROVE SlotsHoldLiveContexts
    OBVIOUS
  <2>1. Typed /\ TableInv
    BY DEF Inv
  <2>2. \A c \in Contexts : ctx[c] \in ContextType
    BY <2>1 DEF Typed, CtxType, ContextType, Slots
  <2>3. \A g \in 1 .. Len(groups) :
          /\ groups[g].counter \in 0 .. GroupSize
          /\ groups[g].contexts \in [0 .. GroupSize - 1 -> Contexts \cup {None}]
    <3>1. \A g \in 1 .. Len(groups) : groups[g] \in GroupType
      BY <2>1, ElementOfSeq DEF Typed
    <3> QED  BY <3>1 DEF GroupType, Slots
  <2>4. Range(hwContexts) \subseteq Contexts
    BY <2>1 DEF Typed, Range
  <2>5. TypeOK
    BY <2>1, <2>2, <2>3, <2>4, ContextGroupsAssumption DEF TypeOK, Typed
  <2> QED  BY <2>1, <2>5 DEF SlotsHoldLiveContexts, TableInv, Holds, Slots
<1> QED  BY <1>1, InvHolds, PTL

(***************************************************************************)
(* A group whose contexts were all released, in any order and initialized   *)
(* or not, has its counter and its table as new: the release of slot 0      *)
(* resets the counter, and nobody else can have started it.                 *)
(***************************************************************************)
THEOREM EmptyGroupsAreNew ==
    ASSUME MaxGroups <= Capacity
    PROVE  Spec => []ReleasedGroupIsEmpty
<1>1. Inv => ReleasedGroupIsEmpty
  <2> SUFFICES ASSUME Inv, NEW g \in 1 .. Len(groups), Members(g) = {}
               PROVE  groups[g] = EmptyGroup
    BY DEF ReleasedGroupIsEmpty
  <2>1. Typed /\ TableInv /\ FirstInv /\ None # 0 /\ None \notin Slots
    BY ContextGroupsAssumption DEF Inv, Slots
  <2>2. groups[g] \in GroupType
    BY <2>1, ElementOfSeq DEF Typed
  <2>3. groups[g].counter = 0
    BY <2>1 DEF FirstInv, Holds, Members, Grouped
  <2>4. ASSUME NEW s \in Slots, groups[g].contexts[s] # None PROVE FALSE
    <3>1. groups[g].contexts[s] \in Contexts
      BY <2>1, <2>4, TableType
    <3>2. Holds(groups[g].contexts[s], g, s)
      BY <2>1, <2>4 DEF TableInv
    <3> QED  BY <2>1, <3>1, <3>2 DEF Holds, Members, Grouped
  <2> QED  BY <2>2, <2>3, <2>4, EmptyIsEmpty
<1> QED  BY <1>1, InvHolds, PTL

(***************************************************************************)
(* For a user that initializes each context at once and keeps the stream    *)
(* open, every initialized context of a group is found in its slot, so that *)
(* the next submit of the group covers it.                                  *)
(***************************************************************************)
THEOREM OrderlyMembersInSlots ==
    ASSUME MaxGroups <= Capacity
    PROVE  Spec => []MembersInTheirSlots
<1>1. Inv => MembersInTheirSlots
  BY DEF Inv, OrderlyInv, MembersInTheirSlots
<1> QED  BY <1>1, InvHolds, PTL
=============================================================================
