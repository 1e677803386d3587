----------------------- MODULE HardwareContextProofs -----------------------
(***************************************************************************)
(* Proofs about HardwareContext, for every number of contexts, every size   *)
(* of the ring and of a submission, and every modulus of the fence.         *)
(*                                                                          *)
(* The invariant of a context is stated over the values it relates: its     *)
(* ring rg, the place h where the engine goes on, the tail t of its image,  *)
(* the fences out of the submissions that have not run, and the tail et the *)
(* engine runs to.  What an operation does to these values is a lemma of    *)
(* its own; the steps of the specification only have to be matched to them. *)
(***************************************************************************)
EXTENDS HardwareContext, TLAPS

(* The places a submission may begin or end at. *)
Place(p) == \E k \in 0 .. p : p = SizeOf(k)

(* The k-th fence after x. *)
Later(x, k) == IF x + k < FenceMod THEN x + k ELSE x + k - FenceMod

(* The fences that are to come are those between memory and the counter. *)
Follow(out, fm, cf) ==
    /\ \A k \in 1 .. Len(out) : out[k] = Later(fm, k)
    /\ cf = Later(fm, Len(out))

(* Where the oldest of the submissions begins. *)
First(t, out) == t - SizeOf(Len(out))

(* They are in the ring, one behind the other, up to the tail. *)
Held(rg, t, out) ==
    /\ First(t, out) >= 0
    /\ \A k \in 1 .. Len(out), i \in 0 .. CmdSize - 1 :
          rg[First(t, out) + SizeOf(k - 1) + i] = Cmd(out[k], i)

Blank(rg, from, to) == \A u \in from .. to - 1 : rg[u] = Noop

(* The head is before the tail: in the oldest, or no-ops away from it. *)
Straight(rg, h, t, out) ==
    /\ h <= t
    /\ h = t => out = << >>
    /\ h < First(t, out) + CmdSize
    /\ Blank(rg, h, First(t, out))

(***************************************************************************)
(* The tail has been taken back to the begin of the ring, the head has not: *)
(* it is in the padding, and all that is to run is behind it.               *)
(***************************************************************************)
Wrapped(rg, h, t, out) ==
    /\ t < h
    /\ First(t, out) = 0
    /\ \E p \in 0 .. h : Place(p) /\ RingFull(p)
    /\ Blank(rg, h, RingSize)

Laid(rg, h, t, out) ==
    Held(rg, t, out) /\ (Straight(rg, h, t, out) \/ Wrapped(rg, h, t, out))

(* A ring that has just been made. *)
Fresh(rg, h, t, out) == h = 0 /\ t = 0 /\ out = << >> /\ Blank(rg, 0, RingSize)

(* The tail the engine runs to lies on the way from the head to the tail. *)
OnTheWay(h, t, et) == IF h <= t THEN h <= et /\ et <= t ELSE et <= t \/ et = h

Queued(c) == \E i \in 1 .. Len(engine.queue) : engine.queue[i] = c

-----------------------------------------------------------------------------
(* The parts of the invariant. *)

Typed ==
    /\ TypeOK
    /\ plan \in DOMAIN Plans
    /\ outstanding \in [Contexts -> Seq(0 .. FenceMod - 1)]
    /\ engine \in [queue : Seq(Contexts), loaded : Contexts \cup {None},
                   head : 0 .. RingSize - 1, tail : 0 .. RingSize - 1,
                   last : Contexts \cup {None}]
    /\ query \in [Contexts -> [answer : BOOLEAN \cup {None}, wasActive : BOOLEAN,
                               wasIdle : BOOLEAN]]

FencesOf(c) ==
    /\ Follow(outstanding[c], fenceMem[c], contextFence[c])
    /\ pc[c] \in {"lock", "wait", "write"} =>
          /\ local[c].fence = Later(contextFence[c], 1)
          /\ local[c].override => outstanding[c] = << >>

RingOf(c) == Laid(ring[c], HeadOf(c), lrca[c].tail, outstanding[c])

(* The tail was taken back, and the image does not say so yet. *)
TakenBack(c) ==
    /\ ringTail[c] = 0 /\ RingFull(lrca[c].tail)
    /\ Blank(ring[c], lrca[c].tail, RingSize)
    /\ \/ pc[c] = "wait"
       \/ /\ pc[c] = "write"
          /\ ~Active(c) /\ ~Queued(c)
          /\ lrca[c].head = lrca[c].tail /\ outstanding[c] = << >>

TailOf(c) ==
    /\ Place(ringTail[c]) /\ Place(lrca[c].tail)
    /\ \/ ringTail[c] = lrca[c].tail
       \/ Fresh(ring[c], HeadOf(c), lrca[c].tail, outstanding[c])
       \/ TakenBack(c)
    /\ pc[c] = "wait" => ringTail[c] = 0
    /\ pc[c] = "write" => ~RingFull(ringTail[c])
    /\ pc[c] \in {"lock", "write"} => HeadOf(c) # ringTail[c] + CmdSize

EngineOf(c) ==
    /\ Active(c) =>
          /\ OnTheWay(engine.head, lrca[c].tail, engine.tail)
          /\ Place(engine.tail)
          /\ engine.tail # lrca[c].tail => Queued(c)
    /\ ~Active(c) /\ lrca[c].head # lrca[c].tail => Queued(c)

ContextInv(c) == FencesOf(c) /\ RingOf(c) /\ TailOf(c) /\ EngineOf(c)

QueryInv ==
    /\ engine.loaded # None => engine.last = engine.loaded
    /\ \A c \in Contexts :
        /\ query[c].answer = TRUE => query[c].wasActive
        /\ query[c].answer = FALSE => query[c].wasIdle
        /\ pc[c] = "isActive" /\ engine.last = c => query[c].wasActive
        /\ pc[c] = "isActive" /\ engine.loaded # c => query[c].wasIdle

RingInv == \A c \in Contexts : ContextInv(c)

(* There is room for what submitBatchBuffer is about to write. *)
RoomInv ==
    \A c \in Contexts :
        /\ pc[c] = "wait" => ringTail[c] = 0
        /\ pc[c] = "write" => ~RingFull(ringTail[c])

Inv == Typed /\ RoomInv /\ QueryInv /\ RingInv

-----------------------------------------------------------------------------
(* Arithmetic. *)

(* What is assumed of the instance of a behaviour. *)
LEMMA Sizes ==
    ASSUME plan \in DOMAIN Plans
    PROVE  /\ CmdSize \in Nat /\ CmdSize >= 1
           /\ RingSize \in Nat /\ 2 * CmdSize < RingSize
           /\ FenceMod \in Nat /\ RingSize \div CmdSize + 1 < FenceMod
           /\ None \notin Contexts /\ None \notin Nat /\ None \notin BOOLEAN
BY HardwareContextAssumption DEF RingSize, FenceMod

(* What n submissions take. *)
LEMMA SizeFacts ==
    ASSUME NEW n \in Nat
    PROVE  /\ SizeOf(n) \in Nat /\ SizeOf(0) = 0
           /\ SizeOf(n + 1) = SizeOf(n) + CmdSize
           /\ n # 0 => SizeOf(n - 1) = SizeOf(n) - CmdSize
BY HardwareContextAssumption DEF SizeOf

(* One submission fits between what fewer and what more of them take. *)
LEMMA SizeOrder ==
    ASSUME NEW m \in Nat, NEW n \in Nat, m < n
    PROVE  SizeOf(m) + CmdSize <= SizeOf(n)
BY HardwareContextAssumption DEF SizeOf

(* The ring holds fewer submissions than there are fences. *)
LEMMA SizeBound ==
    ASSUME NEW n \in Nat, plan \in DOMAIN Plans, SizeOf(n) < RingSize
    PROVE  n + 1 < FenceMod
<1>1. /\ CmdSize \in Nat /\ CmdSize # 0 /\ RingSize \in Nat /\ FenceMod \in Nat
      /\ RingSize \div CmdSize + 1 < FenceMod
  BY Sizes
<1>2. n * CmdSize < RingSize
  BY DEF SizeOf
<1> DEFINE q == RingSize \div CmdSize
<1>3. q \in Nat /\ RingSize < (q + 1) * CmdSize
  BY <1>1
<1>4. n < q + 1
  <2>1. SUFFICES ASSUME n >= q + 1 PROVE FALSE
    BY <1>3
  <2>2. n * CmdSize >= (q + 1) * CmdSize
    BY <1>1, <1>3, <2>1
  <2> QED  BY <1>1, <1>2, <1>3, <2>2
<1> QED  BY <1>1, <1>4

(* The step of a counter that wraps. *)
LEMMA OneFurther ==
    ASSUME NEW N \in Nat, NEW x \in 0 .. N - 1
    PROVE  (x + 1) % N = IF x + 1 = N THEN 0 ELSE x + 1
OBVIOUS

(* Places lie a submission apart. *)
LEMMA PlaceFacts ==
    ASSUME NEW p \in Nat, NEW q \in Nat, Place(p), Place(q)
    PROVE  Place(0) /\ Place(p + CmdSize) /\ (p < q => p + CmdSize <= q)
<1>0. CmdSize \in Nat /\ CmdSize >= 1
  BY HardwareContextAssumption
<1>1. PICK k \in 0 .. p : p = SizeOf(k)
  BY DEF Place
<1>2. PICK m \in 0 .. q : q = SizeOf(m)
  BY DEF Place
<1>3. Place(0)
  BY SizeFacts DEF Place
<1>4. Place(p + CmdSize)
  <2>1. p + CmdSize = SizeOf(k + 1)
    BY <1>1, SizeFacts
  <2>2. k + 1 \in 0 .. p + CmdSize
    BY <1>0
  <2> QED  BY <2>1, <2>2 DEF Place
<1>5. ASSUME p < q PROVE p + CmdSize <= q
  <2>1. CASE k < m
    BY <1>1, <1>2, <2>1, SizeOrder
  <2>2. CASE m < k
    <3>1. SizeOf(m) + CmdSize <= SizeOf(k)
      BY <2>2, SizeOrder
    <3> QED  BY <1>0, <1>1, <1>2, <1>5, <3>1
  <2>3. CASE m = k
    BY <1>1, <1>2, <1>5, <2>3
  <2> QED  BY <2>1, <2>2, <2>3
<1> QED  BY <1>3, <1>4, <1>5

(* Counting fences. *)
LEMMA LaterFacts ==
    ASSUME NEW x \in 0 .. FenceMod - 1, NEW k \in Nat, k + 1 < FenceMod, FenceMod \in Nat
    PROVE  /\ Later(x, 0) = x
           /\ Later(x, k) \in 0 .. FenceMod - 1
           /\ Later(Later(x, k), 1) = Later(x, k + 1)
           /\ Later(Later(x, 1), k) = Later(x, k + 1)
           /\ Later(x, k) = x => k = 0
           /\ (x + 1) % FenceMod = Later(x, 1)
<1>1. (x + 1) % FenceMod = IF x + 1 = FenceMod THEN 0 ELSE x + 1
  BY OneFurther
<1> QED  BY <1>1 DEF Later

(* Sequences of fences. *)
LEMMA OutFacts ==
    ASSUME NEW S, NEW out \in Seq(S), NEW f \in S
    PROVE  /\ Len(out) \in Nat
           /\ out = << >> <=> Len(out) = 0
           /\ Append(out, f) \in Seq(S) /\ Len(Append(out, f)) = Len(out) + 1
           /\ Append(out, f) # << >>
           /\ \A k \in 1 .. Len(out) : Append(out, f)[k] = out[k]
           /\ Append(out, f)[Len(out) + 1] = f
OBVIOUS

(* The oldest one leaves. *)
LEMMA TailFacts ==
    ASSUME NEW S, NEW out \in Seq(S), out # << >>
    PROVE  /\ Len(out) \in Nat /\ Len(out) >= 1 /\ Head(out) = out[1]
           /\ Tail(out) \in Seq(S) /\ Len(Tail(out)) = Len(out) - 1
           /\ \A k \in 1 .. Len(out) - 1 : Tail(out)[k] = out[k + 1]
OBVIOUS

-----------------------------------------------------------------------------
(* What the operations do to a ring. *)

(* submitBatchBuffer writes the commands at the tail, ... *)
Written(rg, rt, f) ==
    [u \in DOMAIN rg |-> IF u \in rt .. rt + CmdSize - 1 THEN Cmd(f, u - rt) ELSE rg[u]]

(* ... or no-ops from there to the end. *)
Padded(rg, rt) == [u \in DOMAIN rg |-> IF u >= rt THEN Noop ELSE rg[u]]

Fences == 0 .. FenceMod - 1
Units == 0 .. RingSize - 1

(* Where a submission that has not run lies. *)
LEMMA HeldPlaces ==
    ASSUME plan \in DOMAIN Plans, NEW t \in Units, NEW out \in Seq(Fences), First(t, out) >= 0,
           NEW k \in 1 .. Len(out), NEW i \in 0 .. CmdSize - 1
    PROVE  /\ First(t, out) + SizeOf(k - 1) + i \in 0 .. t - 1
           /\ First(t, out) \in 0 .. t - CmdSize
<1>1. /\ Len(out) \in Nat /\ k - 1 \in Nat /\ k - 1 < Len(out) /\ t \in Nat
      /\ CmdSize \in Nat /\ CmdSize >= 1
  BY Sizes DEF Units
<1> DEFINE before == SizeOf(k - 1)
           all == SizeOf(Len(out))
<1>2. before + CmdSize <= all /\ before \in Nat /\ all \in Nat
  BY <1>1, SizeOrder, SizeFacts
<1>3. First(t, out) = t - all /\ t - all >= 0
  BY DEF First
<1>4. First(t, out) + SizeOf(k - 1) + i = t - all + before + i
  BY <1>3
<1> HIDE DEF before, all
<1>5. i \in Nat /\ i < CmdSize
  BY <1>1
<1>6. t - all + before + i \in 0 .. t - 1
  BY <1>1, <1>2, <1>3, <1>5
<1>7. t - all \in 0 .. t - CmdSize
  BY <1>1, <1>2, <1>3
<1> QED  BY <1>3, <1>4, <1>6, <1>7

(* A submission is behind the ones that have not run. *)
LEMMA WriteHeld ==
    ASSUME plan \in DOMAIN Plans, NEW rg \in [Units -> Unit], NEW t \in Units,
           NEW out \in Seq(Fences), NEW f \in Fences, NEW rt \in Units,
           rt + CmdSize < RingSize, Held(rg, t, out), rt = t \/ out = << >>
    PROVE  /\ Held(Written(rg, rt, f), rt + CmdSize, Append(out, f))
           /\ First(rt + CmdSize, Append(out, f)) = IF out = << >> THEN rt ELSE First(t, out)
           /\ First(t, out) \in 0 .. t
           /\ out = << >> => First(t, out) = t
<1> DEFINE w == Written(rg, rt, f)
           o == Append(out, f)
           n == Len(out)
<1>0. /\ CmdSize \in Nat /\ CmdSize >= 1 /\ RingSize \in Nat /\ rt \in Nat /\ t \in Nat
      /\ rt < RingSize /\ t < RingSize
  BY Sizes DEF Units
<1>1. n \in Nat /\ (out = << >> <=> n = 0) /\ Len(o) = n + 1 /\ o[n + 1] = f
      /\ \A k \in 1 .. n : o[k] = out[k]
  BY OutFacts
<1>2. SizeOf(n) \in Nat /\ SizeOf(n + 1) = SizeOf(n) + CmdSize /\ SizeOf(0) = 0
  BY <1>1, SizeFacts
<1>3. First(t, out) = t - SizeOf(n) /\ First(t, out) >= 0
  BY DEF First, Held
<1>4. First(rt + CmdSize, o) = rt - SizeOf(n)
  <2> HIDE DEF n, o
  <2>1. First(rt + CmdSize, o) = rt + CmdSize - SizeOf(Len(o))
    BY <1>0, <1>1, <1>2 DEF First
  <2>2. SizeOf(Len(o)) = SizeOf(n) + CmdSize
    BY <1>1, <1>2
  <2> QED  BY <1>0, <1>2, <2>1, <2>2
<1>5. First(rt + CmdSize, o) = IF out = << >> THEN rt ELSE First(t, out)
  <2>1. CASE out = << >>
    BY <1>0, <1>1, <1>2, <1>4, <2>1
  <2>2. CASE rt = t /\ out # << >>
    BY <1>3, <1>4, <2>2
  <2> QED  BY <2>1, <2>2
<1>6. First(t, out) \in 0 .. t /\ (out = << >> => First(t, out) = t)
  BY <1>0, <1>1, <1>2, <1>3
<1>7. \A u \in Units : w[u] = IF u \in rt .. rt + CmdSize - 1 THEN Cmd(f, u - rt) ELSE rg[u]
  BY DEF Written
<1>8. ASSUME NEW k \in 1 .. n + 1, NEW i \in 0 .. CmdSize - 1
      PROVE  w[First(rt + CmdSize, o) + SizeOf(k - 1) + i] = Cmd(o[k], i)
  <2>1. CASE k = n + 1
    <3>1. First(rt + CmdSize, o) + SizeOf(k - 1) + i = rt + i
      <4>1. k - 1 = n
        BY <1>1, <2>1
      <4> HIDE DEF n, o
      <4> QED  BY <1>0, <1>2, <1>4, <4>1
    <3>2. rt + i \in Units /\ rt + i \in rt .. rt + CmdSize - 1 /\ rt + i - rt = i
      BY <1>0 DEF Units
    <3>3. o[k] = f
      BY <1>1, <2>1
    <3> HIDE DEF w, o, n
    <3>4. w[rt + i] = Cmd(f, rt + i - rt)
      BY <1>7, <3>2
    <3>5. w[rt + i] = Cmd(f, i)
      BY <3>2, <3>4
    <3> QED  BY <3>1, <3>3, <3>5
  <2>2. CASE k \in 1 .. n
    <3>1. out # << >> /\ rt = t /\ First(rt + CmdSize, o) = First(t, out)
      BY <1>1, <1>5, <2>2
    <3>2. First(t, out) + SizeOf(k - 1) + i \in 0 .. t - 1
      BY <1>3, <2>2, HeldPlaces
    <3>3. rg[First(t, out) + SizeOf(k - 1) + i] = Cmd(out[k], i)
      BY <2>2 DEF Held
    <3>4. o[k] = out[k]
      BY <1>1, <2>2
    <3> DEFINE u == First(t, out) + SizeOf(k - 1) + i
    <3>5. u \in Units /\ u \notin rt .. rt + CmdSize - 1
      BY <1>0, <3>1, <3>2 DEF Units
    <3>6. w[u] = rg[u]
      <4> HIDE DEF w, u
      <4> QED  BY <1>7, <3>5
    <3> HIDE DEF w, o, n
    <3> QED  BY <3>1, <3>3, <3>4, <3>6
  <2> QED  BY <1>1, <2>1, <2>2
<1>9. Held(w, rt + CmdSize, o)
  <2>1. First(rt + CmdSize, o) >= 0
    BY <1>0, <1>3, <1>5
  <2> HIDE DEF w, o
  <2> QED  BY <1>1, <1>8, <2>1 DEF Held
<1> QED  BY <1>5, <1>6, <1>9

(* No-ops that are not written to stay no-ops. *)
LEMMA WriteBlank ==
    ASSUME NEW rg \in [Units -> Unit], NEW f, NEW rt \in Int, NEW from \in Nat, NEW to \in Int,
           CmdSize \in Nat, to <= RingSize, RingSize \in Nat,
           Blank(rg, from, to), to <= rt \/ rt + CmdSize <= from
    PROVE  Blank(Written(rg, rt, f), from, to)
<1> SUFFICES ASSUME NEW u \in from .. to - 1
             PROVE  Written(rg, rt, f)[u] = Noop
  BY DEF Blank
<1>1. u \in Units /\ u \notin rt .. rt + CmdSize - 1
  BY DEF Units
<1>2. rg[u] = Noop
  BY DEF Blank
<1> QED  BY <1>1, <1>2 DEF Written

(***************************************************************************)
(* The ring after a submission: the head goes on where it was, or was       *)
(* overridden, or the ring is new, or the tail had been taken back.         *)
(***************************************************************************)
LEMMA SubmitLaid ==
    ASSUME plan \in DOMAIN Plans, NEW rg \in [Units -> Unit], NEW h \in Units, NEW t \in Units,
           NEW out \in Seq(Fences), NEW f \in Fences, NEW rt \in Units, NEW g \in Units,
           rt + CmdSize < RingSize, Laid(rg, h, t, out),
           \/ /\ rt = t /\ g = h /\ Place(t) /\ h # t + CmdSize
           \/ g = rt /\ out = << >>
           \/ g = h /\ Fresh(rg, h, t, out)
           \/ /\ g = h /\ rt = 0 /\ h = t /\ out = << >> /\ Place(t) /\ RingFull(t)
              /\ Blank(rg, t, RingSize)
    PROVE  /\ Laid(Written(rg, rt, f), g, rt + CmdSize, Append(out, f))
           /\ g # rt + CmdSize
<1> DEFINE w == Written(rg, rt, f)
           o == Append(out, f)
           e == rt + CmdSize
<1>0. /\ CmdSize \in Nat /\ CmdSize >= 1 /\ RingSize \in Nat /\ 2 * CmdSize < RingSize
      /\ rt \in Nat /\ t \in Nat /\ h \in Nat /\ g \in Nat /\ e \in Nat
      /\ rt < RingSize /\ t < RingSize /\ h < RingSize /\ e < RingSize
      /\ e = rt + CmdSize
  BY SMTT(30), Sizes DEF Units
<1>1. /\ Held(w, e, o)
      /\ First(e, o) = IF out = << >> THEN rt ELSE First(t, out)
      /\ First(t, out) \in 0 .. t
      /\ out = << >> => First(t, out) = t
  BY WriteHeld DEF Laid, Fresh
<1>2. o # << >>
  BY OutFacts
<1> HIDE DEF o, e, w
<1>7. SUFFICES (Straight(w, g, e, o) \/ Wrapped(w, g, e, o)) /\ g # e
  BY <1>1 DEF Laid, o, e, w
<1>3. CASE rt = t /\ g = h /\ Place(t) /\ h # t + CmdSize
  <2>0. First(e, o) = First(t, out)
    BY <1>1, <1>3
  <2>1. CASE Straight(rg, h, t, out)
    <3>1. Blank(w, h, First(t, out))
      BY <1>0, <1>1, <1>3, <2>1, WriteBlank DEF Straight, w
    <3>2. h < e /\ h < First(t, out) + CmdSize
      BY <1>0, <1>3, <2>1 DEF Straight
    <3> QED  BY <1>0, <1>2, <1>3, <2>0, <3>1, <3>2 DEF Straight
  <2>2. CASE Wrapped(rg, h, t, out)
    <3>1. PICK p \in 0 .. h : Place(p) /\ RingFull(p)
      BY <2>2 DEF Wrapped
    <3>2. t < p
      BY <1>0, <1>3, <3>1 DEF RingFull
    <3>3. t + CmdSize <= p
      BY <1>0, <1>3, <3>1, <3>2, PlaceFacts
    <3>4. e < h
      BY <1>0, <1>3, <3>1, <3>3
    <3>5. Blank(w, h, RingSize)
      BY <1>0, <2>2, <3>4, WriteBlank DEF Wrapped, w
    <3>6. First(e, o) = 0
      BY <2>0, <2>2 DEF Wrapped
    <3> QED  BY <1>0, <1>1, <1>3, <3>1, <3>4, <3>5, <3>6 DEF Wrapped
  <2> QED  BY <2>1, <2>2 DEF Laid
<1>4. CASE g = rt /\ out = << >>
  <2>1. First(e, o) = rt
    BY <1>1, <1>4
  <2>2. g < e /\ g < rt + CmdSize
    BY <1>0, <1>4
  <2>3. Blank(w, g, rt)
    BY <1>0, <1>4 DEF Blank
  <2> QED  BY <1>0, <1>2, <1>4, <2>1, <2>2, <2>3 DEF Straight
<1>5. CASE g = h /\ Fresh(rg, h, t, out)
  <2>1. First(e, o) = rt /\ g = 0
    BY <1>1, <1>5 DEF Fresh
  <2>2. Blank(rg, 0, rt)
    BY <1>0, <1>5 DEF Fresh, Blank
  <2>3. Blank(w, 0, rt)
    BY <1>0, <2>2, WriteBlank DEF w
  <2>4. g < e /\ g < rt + CmdSize
    BY <1>0, <2>1
  <2> QED  BY <1>0, <1>2, <2>1, <2>3, <2>4 DEF Straight
<1>6. CASE /\ g = h /\ rt = 0 /\ h = t /\ out = << >> /\ Place(t) /\ RingFull(t)
           /\ Blank(rg, t, RingSize)
  <2>1. First(e, o) = 0
    BY <1>1, <1>6
  <2>2. e < g /\ e <= t
    BY <1>0, <1>6 DEF RingFull
  <2>3. Blank(w, t, RingSize)
    BY <1>0, <1>6, <2>2, WriteBlank DEF w
  <2>4. \E p \in 0 .. g : Place(p) /\ RingFull(p)
    BY <1>0, <1>6
  <2> QED  BY <1>0, <1>1, <1>6, <2>1, <2>2, <2>3, <2>4 DEF Wrapped
<1> QED  BY <1>3, <1>4, <1>5, <1>6

(* Padding at the tail does not touch what is to run. *)
LEMMA PadLaid ==
    ASSUME plan \in DOMAIN Plans, NEW rg \in [Units -> Unit], NEW h \in Units, NEW t \in Units,
           NEW out \in Seq(Fences), Laid(rg, h, t, out)
    PROVE  /\ Laid(Padded(rg, t), h, t, out)
           /\ Blank(Padded(rg, t), t, RingSize)
<1> DEFINE w == Padded(rg, t)
<1>0. /\ RingSize \in Nat /\ t \in Nat /\ h \in Nat /\ t < RingSize /\ h < RingSize
  BY Sizes DEF Units
<1>1. \A u \in Units : w[u] = IF u >= t THEN Noop ELSE rg[u]
  BY DEF Padded
<1>2. Blank(w, t, RingSize)
  BY <1>0, <1>1 DEF Blank, Units
<1>3. \A a \in Nat, b \in Int : b <= RingSize /\ Blank(rg, a, b) => Blank(w, a, b)
  <2> HIDE DEF w
  <2> QED  BY <1>0, <1>1 DEF Blank, Units
<1>4. First(t, out) \in Int /\ First(t, out) <= t
  <2>1. Len(out) \in Nat
    OBVIOUS
  <2>2. SizeOf(Len(out)) \in Nat
    BY <2>1, SizeFacts
  <2> QED  BY <1>0, <2>2 DEF First
<1>5. Held(w, t, out)
  <2> SUFFICES ASSUME NEW k \in 1 .. Len(out), NEW i \in 0 .. CmdSize - 1
               PROVE  w[First(t, out) + SizeOf(k - 1) + i] = Cmd(out[k], i)
    BY DEF Held, Laid
  <2> DEFINE u == First(t, out) + SizeOf(k - 1) + i
  <2>1. u \in 0 .. t - 1
    BY HeldPlaces DEF Held, Laid
  <2>2. rg[u] = Cmd(out[k], i)
    BY DEF Held, Laid
  <2>3. u \in Units /\ ~(u >= t)
    BY <1>0, <2>1 DEF Units
  <2> HIDE DEF u, w
  <2>4. w[u] = rg[u]
    BY <1>1, <2>3
  <2> QED  BY <2>2, <2>4 DEF u
<1> HIDE DEF w
<1>6. Straight(rg, h, t, out) => Straight(w, h, t, out)
  BY <1>0, <1>3, <1>4 DEF Straight
<1>7. Wrapped(rg, h, t, out) => Wrapped(w, h, t, out)
  BY <1>0, <1>3 DEF Wrapped
<1> QED  BY <1>2, <1>5, <1>6, <1>7 DEF Laid, w

(* No submissions take no room, and only those. *)
LEMMA NoneTakesNone ==
    ASSUME plan \in DOMAIN Plans, NEW out \in Seq(Fences)
    PROVE  /\ Len(out) \in Nat /\ SizeOf(Len(out)) \in Nat
           /\ out = << >> <=> SizeOf(Len(out)) = 0
<1>1. Len(out) \in Nat /\ (out = << >> <=> Len(out) = 0) /\ CmdSize \in Nat /\ CmdSize >= 1
  BY Sizes
<1>2. SizeOf(Len(out)) \in Nat /\ SizeOf(0) = 0
  BY <1>1, SizeFacts
<1>3. Len(out) # 0 => SizeOf(0) + CmdSize <= SizeOf(Len(out))
  BY <1>1, SizeOrder
<1> QED  BY <1>1, <1>2, <1>3

(* The oldest submission has run: the others lie where they lay. *)
LEMMA HeldByTheRest ==
    ASSUME plan \in DOMAIN Plans, NEW rg, NEW t \in Units, NEW out \in Seq(Fences),
           out # << >>, Held(rg, t, out)
    PROVE  /\ Held(rg, t, Tail(out))
           /\ First(t, Tail(out)) = First(t, out) + CmdSize
<1> DEFINE o == Tail(out)
           n == Len(out)
<1>0. CmdSize \in Nat /\ CmdSize >= 1 /\ t \in Nat
  BY Sizes DEF Units
<1>1. /\ n \in Nat /\ n >= 1 /\ Len(o) = n - 1 /\ Len(o) \in Nat
      /\ \A k \in 1 .. n - 1 : o[k] = out[k + 1]
  BY TailFacts
<1>2. SizeOf(Len(o)) = SizeOf(n) - CmdSize /\ SizeOf(n) \in Nat
  BY <1>1, SizeFacts
<1>3. First(t, out) = t - SizeOf(n) /\ First(t, out) >= 0
  BY DEF First, Held
<1>4. First(t, o) = First(t, out) + CmdSize
  <2> HIDE DEF n, o
  <2>1. First(t, o) = t - SizeOf(Len(o))
    BY <1>0, <1>1, <1>2 DEF First
  <2> QED  BY <1>0, <1>2, <1>3, <2>1
<1>5. ASSUME NEW k \in 1 .. Len(o), NEW i \in 0 .. CmdSize - 1
      PROVE  rg[First(t, o) + SizeOf(k - 1) + i] = Cmd(o[k], i)
  <2>1. k \in 1 .. n - 1 /\ k \in Nat /\ k + 1 \in 1 .. n
    BY <1>1
  <2>2. rg[First(t, out) + SizeOf((k + 1) - 1) + i] = Cmd(out[k + 1], i)
    BY <2>1 DEF Held
  <2>3. (k + 1) - 1 = k /\ SizeOf(k - 1) = SizeOf(k) - CmdSize /\ SizeOf(k) \in Nat
    <3>1. (k + 1) - 1 = k /\ k # 0
      BY <2>1
    <3>2. SizeOf(k - 1) = SizeOf(k) - CmdSize /\ SizeOf(k) \in Nat
      BY <2>1, <3>1, SizeFacts
    <3> QED  BY <3>1, <3>2
  <2>4. o[k] = out[k + 1]
    BY <1>1, <2>1
  <2> HIDE DEF n, o
  <2>5. First(t, out) \in Int
    BY <1>0, <1>2, <1>3
  <2>6. First(t, o) + SizeOf(k - 1) + i = First(t, out) + SizeOf((k + 1) - 1) + i
    BY <1>0, <1>4, <2>3, <2>5
  <2> QED  BY <2>2, <2>4, <2>6
<1>6. First(t, o) >= 0
  BY <1>0, <1>2, <1>3, <1>4
<1> QED  BY <1>4, <1>5, <1>6 DEF Held

(* Where the engine goes on after a unit. *)
After(h) == IF h + 1 = RingSize THEN 0 ELSE h + 1

(* The unit at the head stores a fence. *)
Stores(rg, h) == rg[h].unit = CmdSize - 1 /\ rg[h].fence # None

(***************************************************************************)
(* The engine runs one unit: a no-op on its way to the oldest submission,   *)
(* or a unit of that one, of which the last stores its fence.               *)
(***************************************************************************)
LEMMA RunLaid ==
    ASSUME plan \in DOMAIN Plans, NEW rg \in [Units -> Unit], NEW h \in Units, NEW t \in Units,
           NEW et \in Units, NEW out \in Seq(Fences), Laid(rg, h, t, out), OnTheWay(h, t, et),
           Place(t), h # et
    PROVE  /\ Stores(rg, h) => /\ out # << >> /\ Head(out) = rg[h].fence
                               /\ Laid(rg, After(h), t, Tail(out))
           /\ ~Stores(rg, h) => Laid(rg, After(h), t, out)
           /\ OnTheWay(After(h), t, et)
           /\ h # t + CmdSize => After(h) # t + CmdSize
           /\ ~(h = 0 /\ t = 0)
<1>0. /\ CmdSize \in Nat /\ CmdSize >= 1 /\ RingSize \in Nat /\ None \notin Nat
      /\ h \in Nat /\ t \in Nat /\ et \in Nat /\ h < RingSize /\ t < RingSize /\ et < RingSize
      /\ FenceMod \in Nat
  BY Sizes DEF Units
<1> DEFINE s == SizeOf(Len(out))
           first == First(t, out)
<1>1. s \in Nat /\ first = t - s /\ first >= 0 /\ first <= t /\ (out = << >> <=> s = 0)
      /\ Len(out) \in Nat
  BY <1>0, NoneTakesNone DEF First, Laid, Held
<1>2. Held(rg, t, out)
  BY DEF Laid
<1>3. Noop.fence = None
  BY DEF Noop
<1>4. CASE Straight(rg, h, t, out)
  <2>1. h < et /\ et <= t /\ After(h) = h + 1 /\ h + 1 \in Nat
    BY <1>0, <1>4 DEF OnTheWay, Straight, After
  <2>2. h < first + CmdSize /\ Blank(rg, h, first)
    BY <1>4 DEF Straight
  <2>3. OnTheWay(h + 1, t, et) /\ h + 1 # t + CmdSize /\ ~(h = 0 /\ t = 0)
    BY <1>0, <2>1 DEF OnTheWay
  <2>4. CASE h < first
    <3>1. rg[h] = Noop
      BY <1>0, <1>1, <2>2, <2>4 DEF Blank
    <3>2. ~Stores(rg, h)
      BY <1>3, <3>1 DEF Stores
    <3>3. Blank(rg, h + 1, first)
      BY <1>0, <1>1, <2>2 DEF Blank
    <3> HIDE DEF s, first
    <3>4. h + 1 <= t /\ (h + 1 = t => out = << >>) /\ h + 1 < first + CmdSize
      BY <1>0, <1>1, <2>1, <2>4
    <3>5. Straight(rg, h + 1, t, out)
      BY <3>3, <3>4 DEF Straight, first
    <3> QED  BY <1>2, <2>1, <2>3, <3>2, <3>5 DEF Laid
  <2>5. CASE h >= first
    <3>1. out # << >>
      BY <1>0, <1>1, <2>1, <2>5
    <3>2. /\ 1 \in 1 .. Len(out) /\ Head(out) = out[1] /\ out[1] \in Nat /\ Tail(out) \in Seq(Fences)
      BY <1>0, <3>1 DEF Fences
    <3>3. h - first \in 0 .. CmdSize - 1
      BY <1>0, <1>1, <2>2, <2>5
    <3>4. rg[first + SizeOf(1 - 1) + (h - first)] = Cmd(out[1], h - first)
      BY <1>2, <3>2, <3>3 DEF Held
    <3>5. SizeOf(1 - 1) = 0
      BY SizeFacts
    <3>6. first + SizeOf(1 - 1) + (h - first) = h
      BY <1>0, <1>1, <3>5
    <3>7. rg[h] = Cmd(out[1], h - first)
      BY <3>4, <3>6
    <3>8. rg[h].fence = Head(out) /\ rg[h].unit = h - first /\ rg[h].fence # None
      BY <1>0, <3>2, <3>7 DEF Cmd
    <3>9. CASE Stores(rg, h)
      <4>1. h - first = CmdSize - 1
        BY <3>8, <3>9 DEF Stores
      <4>2. Held(rg, t, Tail(out)) /\ First(t, Tail(out)) = first + CmdSize
        BY <1>2, <3>1, HeldByTheRest
      <4> DEFINE r == SizeOf(Len(Tail(out)))
      <4>3. r \in Nat /\ (Tail(out) = << >> <=> r = 0)
        BY <3>2, NoneTakesNone
      <4>4. First(t, Tail(out)) = t - r
        BY DEF First
      <4> HIDE DEF r, s, first
      <4>5. h + 1 = First(t, Tail(out)) /\ h + 1 <= t
        BY <1>0, <1>1, <2>1, <4>1, <4>2
      <4>6. h + 1 = t => Tail(out) = << >>
        BY <1>0, <4>3, <4>4, <4>5
      <4>7. Blank(rg, h + 1, First(t, Tail(out))) /\ h + 1 < First(t, Tail(out)) + CmdSize
        BY <1>0, <2>1, <4>5 DEF Blank
      <4>8. Straight(rg, h + 1, t, Tail(out))
        BY <4>5, <4>6, <4>7 DEF Straight
      <4> QED  BY <2>1, <2>3, <3>1, <3>8, <3>9, <4>2, <4>8 DEF Laid
    <3>10. CASE ~Stores(rg, h)
      <4>1. h - first < CmdSize - 1
        BY <1>0, <3>3, <3>8, <3>10 DEF Stores
      <4>2. first \in 0 .. t - CmdSize
        <5>1. 0 \in 0 .. CmdSize - 1
          BY <1>0
        <5> QED  BY <1>1, <3>2, <5>1, HeldPlaces
      <4> HIDE DEF s, first
      <4>3. h + 1 < t /\ h + 1 < first + CmdSize
        BY <1>0, <1>1, <4>1, <4>2
      <4>4. Blank(rg, h + 1, first)
        BY <1>0, <1>1, <2>5 DEF Blank
      <4>5. Straight(rg, h + 1, t, out)
        BY <1>0, <4>3, <4>4 DEF Straight, first
      <4> QED  BY <1>2, <2>1, <2>3, <3>10, <4>5 DEF Laid
    <3> QED  BY <3>9, <3>10
  <2> QED  BY <1>0, <1>1, <2>4, <2>5
<1>5. CASE Wrapped(rg, h, t, out)
  <2>1. t < h /\ first = 0 /\ Blank(rg, h, RingSize)
    BY <1>5 DEF Wrapped
  <2>2. et <= t
    BY <1>0, <2>1 DEF OnTheWay
  <2>3. rg[h] = Noop
    BY <1>0, <2>1 DEF Blank
  <2>4. ~Stores(rg, h)
    BY <1>3, <2>3 DEF Stores
  <2>5. PICK p \in 0 .. h : Place(p) /\ RingFull(p)
    BY <1>5 DEF Wrapped
  <2>6. h # t + CmdSize => After(h) # t + CmdSize
    <3>1. CASE RingFull(t)
      BY <1>0, <3>1 DEF RingFull, After
    <3>2. CASE ~RingFull(t)
      <4>1. t < p
        BY <1>0, <2>5, <3>2 DEF RingFull
      <4>2. t + CmdSize <= p
        BY <1>0, <2>5, <4>1, PlaceFacts
      <4> QED  BY <1>0, <2>5, <4>2 DEF After
    <3> QED  BY <3>1, <3>2
  <2>7. CASE h + 1 = RingSize
    <3>1. After(h) = 0
      BY <2>7 DEF After
    <3>2. 0 <= t /\ (0 = t => out = << >>) /\ 0 < first + CmdSize
      BY <1>0, <1>1, <2>1
    <3>3. Blank(rg, 0, first)
      BY <2>1 DEF Blank
    <3>4. Straight(rg, 0, t, out)
      BY <3>2, <3>3 DEF Straight
    <3>5. OnTheWay(0, t, et)
      BY <1>0, <2>2 DEF OnTheWay
    <3> QED  BY <1>0, <1>2, <2>1, <2>4, <2>6, <3>1, <3>4, <3>5 DEF Laid
  <2>8. CASE h + 1 # RingSize
    <3>1. After(h) = h + 1
      BY <2>8 DEF After
    <3>2. Blank(rg, h + 1, RingSize)
      BY <1>0, <2>1 DEF Blank
    <3>3. p \in 0 .. h + 1 /\ t < h + 1
      BY <1>0, <2>1
    <3>4. Wrapped(rg, h + 1, t, out)
      BY <2>1, <2>5, <3>2, <3>3 DEF Wrapped
    <3>5. OnTheWay(h + 1, t, et)
      BY <1>0, <2>2, <3>3 DEF OnTheWay
    <3> QED  BY <1>0, <1>2, <2>1, <2>4, <2>6, <3>1, <3>4, <3>5 DEF Laid
  <2> QED  BY <2>7, <2>8
<1> QED  BY <1>4, <1>5 DEF Laid

-----------------------------------------------------------------------------
(* The values of a context, as Typed has them. *)
LEMMA Types ==
    ASSUME Typed, NEW c \in Contexts
    PROVE  /\ plan \in DOMAIN Plans
           /\ local[c].fence \in Fences /\ ringTail[c] \in Units /\ contextFence[c] \in Fences
           /\ ring[c] \in [Units -> Unit]
           /\ lrca[c].head \in Units /\ lrca[c].tail \in Units
           /\ fenceMem[c] \in Fences /\ outstanding[c] \in Seq(Fences)
           /\ engine.head \in Units /\ engine.tail \in Units /\ engine.queue \in Seq(Contexts)
           /\ HeadOf(c) \in Units
BY DEF Typed, TypeOK, Units, Fences, HeadOf

(* The instance of a behaviour does not change, and with it the sizes. *)
LEMMA SameSizes ==
    ASSUME plan' = plan
    PROVE  RingSize' = RingSize /\ FenceMod' = FenceMod /\ Units' = Units /\ Fences' = Fences
           /\ Unit' = Unit
BY DEF RingSize, FenceMod, Units, Fences, Unit

(* What is shown of the next values is shown of the next state. *)
LEMMA RingNext ==
    ASSUME plan' = plan, NEW c \in Contexts,
           Laid(ring'[c], HeadOf(c)', lrca'[c].tail, outstanding'[c])
    PROVE  RingOf(c)'
BY DEF RingOf, Laid, Straight, Wrapped, RingFull, RingSize

(* The same of a new ring. *)
LEMMA FreshNext ==
    ASSUME plan' = plan, NEW c \in Contexts,
           Fresh(ring'[c], HeadOf(c)', lrca'[c].tail, outstanding'[c])
    PROVE  Fresh(ring[c], HeadOf(c), lrca[c].tail, outstanding[c])'
BY DEF Fresh, RingSize

(* The same of the fences. *)
LEMMA FollowNext ==
    ASSUME plan' = plan, NEW c \in Contexts,
           Follow(outstanding'[c], fenceMem'[c], contextFence'[c])
    PROVE  Follow(outstanding[c], fenceMem[c], contextFence[c])'
BY DEF Follow, Later, FenceMod

(* A step that neither moves a context nor where the engine is with it. *)
Untouched(c) ==
    /\ plan' = plan
    /\ ringTail'[c] = ringTail[c] /\ contextFence'[c] = contextFence[c]
    /\ ring'[c] = ring[c] /\ lrca'[c] = lrca[c]
    /\ fenceMem'[c] = fenceMem[c] /\ outstanding'[c] = outstanding[c]
    /\ Active(c)' <=> Active(c)
    /\ Active(c) => engine'.head = engine.head /\ engine'.tail = engine.tail
    /\ Queued(c)' <=> Queued(c)

(* The part of the invariant that speaks of the rings. *)
LEMMA UntouchedRing ==
    ASSUME NEW c \in Contexts, ContextInv(c), Untouched(c)
    PROVE  /\ HeadOf(c)' = HeadOf(c)
           /\ RingOf(c)' /\ EngineOf(c)'
           /\ Follow(outstanding[c], fenceMem[c], contextFence[c])'
           /\ Later(contextFence[c], 1)' = Later(contextFence[c], 1)
           /\ \A x : RingFull(x)' <=> RingFull(x)
           /\ Fresh(ring[c], HeadOf(c), lrca[c].tail, outstanding[c])' <=>
                 Fresh(ring[c], HeadOf(c), lrca[c].tail, outstanding[c])
<1>1. HeadOf(c)' = HeadOf(c)
  BY DEF Untouched, HeadOf
<1>2. RingOf(c)'
  BY <1>1, RingNext DEF Untouched, ContextInv, RingOf
<1>3. EngineOf(c)'
  BY DEF Untouched, ContextInv, EngineOf
<1>4. Follow(outstanding[c], fenceMem[c], contextFence[c])'
  BY FollowNext DEF Untouched, ContextInv, FencesOf
<1>5. Later(contextFence[c], 1)' = Later(contextFence[c], 1)
  BY DEF Untouched, Later, FenceMod
<1>6. \A x : RingFull(x)' <=> RingFull(x)
  BY DEF Untouched, RingFull, RingSize
<1>7. Fresh(ring[c], HeadOf(c), lrca[c].tail, outstanding[c])' <=>
         Fresh(ring[c], HeadOf(c), lrca[c].tail, outstanding[c])
  BY <1>1 DEF Untouched, Fresh, RingSize
<1> QED  BY <1>1, <1>2, <1>3, <1>4, <1>5, <1>6, <1>7

(* The context is not in submitBatchBuffer after the step, or where it was. *)
LEMMA UntouchedInv ==
    ASSUME NEW c \in Contexts, ContextInv(c), Untouched(c),
           \/ pc'[c] = pc[c] /\ local'[c] = local[c]
           \/ pc[c] \in {"idle", "fencePoll", "isActive"} /\ pc'[c] \in {"idle", "fencePoll", "isActive"}
    PROVE  ContextInv(c)'
<1>1. FencesOf(c)'
  BY UntouchedRing DEF Untouched, ContextInv, FencesOf
<1>2. TakenBack(c)' <=> TakenBack(c)
  BY UntouchedRing DEF Untouched, TakenBack, RingSize
<1>3. TailOf(c)'
  BY <1>2, UntouchedRing DEF Untouched, ContextInv, TailOf
<1> QED  BY <1>1, <1>3, UntouchedRing DEF ContextInv

-----------------------------------------------------------------------------
(* The steps of submitBatchBuffer. *)

(* The commands are put together: the fence is the next one. *)
LEMMA PrepareInv ==
    ASSUME KeepsUp, Typed, NEW c \in Contexts, ContextInv(c), plan' = plan,
           NEW override \in BOOLEAN, Prepare(c, override)
    PROVE  ContextInv(c)'
<1>1. Untouched(c)
  BY DEF Prepare, Untouched, memory, Active, Queued
<1>2. /\ pc[c] = "idle" /\ pc'[c] = "lock"
      /\ local'[c].fence = (contextFence[c] + 1) % FenceMod
      /\ local'[c].override => outstanding[c] = << >>
      /\ ringTail[c] + CmdSize # HeadOf(c)
  BY DEF Prepare, At, Goto, Typed, TypeOK, NextFence
<1>3. local'[c].fence = Later(contextFence[c], 1)
  <2>1. FenceMod \in Nat /\ contextFence[c] \in 0 .. FenceMod - 1
    BY Types, Sizes DEF Fences
  <2> QED  BY <1>2, <2>1, OneFurther DEF Later
<1>4. FencesOf(c)'
  BY <1>1, <1>2, <1>3, UntouchedRing DEF Untouched, FencesOf
<1>5. ~TakenBack(c)
  BY <1>2 DEF TakenBack
<1>6. TailOf(c)'
  BY <1>1, <1>2, <1>5, UntouchedRing DEF Untouched, ContextInv, TailOf
<1> QED  BY <1>1, <1>4, <1>6, UntouchedRing DEF ContextInv

(* There is room: the lock is taken, the ring stays as it is. *)
LEMMA LockRoomInv ==
    ASSUME Typed, NEW c \in Contexts, ContextInv(c), plan' = plan,
           LockRing(c), ~RingFull(ringTail[c])
    PROVE  ContextInv(c)'
<1>1. Untouched(c)
  BY DEF LockRing, Untouched, memory, Active, Queued
<1>2. pc[c] = "lock" /\ pc'[c] = "write" /\ local' = local
  BY DEF LockRing, At, Goto, Typed, TypeOK
<1>4. FencesOf(c)'
  BY <1>1, <1>2, UntouchedRing DEF Untouched, FencesOf, ContextInv
<1>5. ~TakenBack(c)
  BY <1>2 DEF TakenBack
<1>6. TailOf(c)'
  BY <1>1, <1>2, <1>5, UntouchedRing DEF Untouched, ContextInv, TailOf
<1> QED  BY <1>1, <1>4, <1>6, UntouchedRing DEF ContextInv

(* There is none: the rest is padded and the tail taken back. *)
LEMMA LockFullInv ==
    ASSUME Typed, NEW c \in Contexts, ContextInv(c), plan' = plan,
           LockRing(c), RingFull(ringTail[c])
    PROVE  ContextInv(c)'
<1>1. /\ pc[c] = "lock" /\ pc'[c] = "wait"
      /\ ring'[c] = Padded(ring[c], ringTail[c]) /\ ringTail'[c] = 0
      /\ UNCHANGED <<local, contextFence, lrca, fenceMem, engine, outstanding>>
  BY DEF LockRing, At, Goto, Typed, TypeOK, Padded
<1>2. HeadOf(c)' = HeadOf(c) /\ (Active(c)' <=> Active(c)) /\ (Queued(c)' <=> Queued(c))
  BY <1>1 DEF HeadOf, Active, Queued
<1>3. FencesOf(c)'
  <2>1. Follow(outstanding[c], fenceMem[c], contextFence[c])'
    BY <1>1, FollowNext DEF ContextInv, FencesOf
  <2>2. Later(contextFence[c], 1)' = Later(contextFence[c], 1)
    BY <1>1 DEF Later, FenceMod
  <2> QED  BY <1>1, <2>1, <2>2 DEF ContextInv, FencesOf
<1>4. EngineOf(c)'
  BY <1>1, <1>2 DEF ContextInv, EngineOf
<1>5. Place(0)
  BY Types, PlaceFacts, Sizes DEF ContextInv, TailOf, Units
<1>6. \/ ringTail[c] = lrca[c].tail
      \/ Fresh(ring[c], HeadOf(c), lrca[c].tail, outstanding[c])
  BY <1>1 DEF ContextInv, TailOf, TakenBack
<1>7. CASE ringTail[c] = lrca[c].tail
  <2>1. /\ Laid(ring'[c], HeadOf(c), lrca[c].tail, outstanding[c])
        /\ Blank(ring'[c], lrca[c].tail, RingSize)
    BY <1>1, <1>7, PadLaid, Types DEF ContextInv, RingOf
  <2>2. RingOf(c)'
    BY <1>1, <1>2, <2>1, RingNext
  <2>3. TakenBack(c)'
    BY <1>1, <1>7, <2>1 DEF TakenBack, RingFull, RingSize
  <2>4. TailOf(c)'
    BY <1>1, <1>5, <2>3 DEF ContextInv, TailOf
  <2> QED  BY <1>3, <1>4, <2>2, <2>4 DEF ContextInv
<1>8. CASE Fresh(ring[c], HeadOf(c), lrca[c].tail, outstanding[c])
  <2>1. Blank(ring[c], 0, RingSize) /\ RingSize \in Nat
    BY <1>8, Sizes, Types DEF Fresh
  <2>2. ring'[c] = ring[c]
    <3>1. ring[c] \in [Units -> Unit]
      BY Types
    <3>2. \A u \in Units : ring[c][u] = Noop
      BY <2>1 DEF Blank, Units
    <3>3. \A u \in Units : ring'[c][u] = ring[c][u]
      BY <1>1, <3>1, <3>2 DEF Padded
    <3>4. ring'[c] = [u \in Units |-> ring'[c][u]] /\ ring[c] = [u \in Units |-> ring[c][u]]
      BY <1>1, <3>1 DEF Padded
    <3> QED  BY <3>3, <3>4
  <2>3. RingOf(c)'
    BY <1>1, <1>2, <2>2, RingNext DEF ContextInv, RingOf
  <2>4. Fresh(ring[c], HeadOf(c), lrca[c].tail, outstanding[c])'
    BY <1>1, <1>2, <1>8, <2>2, FreshNext
  <2>5. TailOf(c)'
    BY <1>1, <1>5, <2>4 DEF ContextInv, TailOf
  <2> QED  BY <1>3, <1>4, <2>3, <2>5 DEF ContextInv
<1> QED  BY <1>6, <1>7, <1>8

(* The engine is idle: everything of the context has run. *)
LEMMA PollInv ==
    ASSUME Typed, NEW c \in Contexts, ContextInv(c), plan' = plan, PollForCompletion(c)
    PROVE  ContextInv(c)'
<1>1. Untouched(c)
  BY DEF PollForCompletion, Untouched, memory, Active, Queued
<1>2. pc[c] = "wait" /\ pc'[c] = "write" /\ local' = local /\ engine' = engine
      /\ engine.queue = << >> /\ engine.loaded = None
  BY DEF PollForCompletion, At, Goto, Typed, TypeOK, EngineIdle
<1>3. ~Queued(c) /\ ~Active(c)
  BY <1>2, Types, Sizes DEF Queued, Active
<1>4. lrca[c].head = lrca[c].tail /\ HeadOf(c) = lrca[c].tail
  BY <1>3 DEF ContextInv, EngineOf, HeadOf
<1>5. outstanding[c] = << >>
  <2>1. lrca[c].tail \in Nat
    BY Types, Sizes DEF Units
  <2> QED  BY <1>4, <2>1 DEF ContextInv, RingOf, Laid, Straight, Wrapped
<1>6. FencesOf(c)'
  BY <1>1, <1>2, UntouchedRing DEF Untouched, FencesOf, ContextInv
<1>7. TakenBack(c) => TakenBack(c)'
  BY <1>1, <1>2, <1>3, <1>4, <1>5, UntouchedRing DEF Untouched, TakenBack, RingSize
<1>8. ringTail[c] = 0 /\ ~RingFull(0) /\ HeadOf(c) # 0 + CmdSize
  <2>1. ringTail[c] = 0
    BY <1>2 DEF ContextInv, TailOf
  <2>2. /\ CmdSize \in Nat /\ CmdSize >= 1 /\ RingSize \in Nat /\ 2 * CmdSize < RingSize
        /\ lrca[c].tail \in Nat
    BY Sizes, Types DEF Units
  <2>3. ~RingFull(0)
    BY <2>2 DEF RingFull
  <2>4. lrca[c].tail = 0 \/ RingFull(lrca[c].tail)
    BY <2>1 DEF ContextInv, TailOf, Fresh, TakenBack
  <2>5. HeadOf(c) # 0 + CmdSize
    BY <1>4, <2>2, <2>4 DEF RingFull
  <2> QED  BY <2>1, <2>3, <2>5
<1>9. TailOf(c)'
  BY <1>1, <1>2, <1>7, <1>8, UntouchedRing DEF Untouched, ContextInv, TailOf
<1> QED  BY <1>1, <1>6, <1>9, UntouchedRing DEF ContextInv

(* What Append does to the queue of the engine. *)
LEMMA QueueAppend ==
    ASSUME NEW c \in Contexts, NEW q \in Seq(Contexts)
    PROVE  /\ \E i \in 1 .. Len(Append(q, c)) : Append(q, c)[i] = c
           /\ \A d \in Contexts : d # c =>
                 (\E i \in 1 .. Len(Append(q, c)) : Append(q, c)[i] = d)
                     <=> \E i \in 1 .. Len(q) : q[i] = d
OBVIOUS

(* The engine goes on to a tail that still lies on its way. *)
LEMMA SubmitOnTheWay ==
    ASSUME plan \in DOMAIN Plans, NEW rg \in [Units -> Unit], NEW h \in Units, NEW t \in Units,
           NEW out \in Seq(Fences), NEW rt \in Units, NEW et \in Units,
           rt + CmdSize < RingSize, Laid(rg, h, t, out), OnTheWay(h, t, et),
           \/ rt = t /\ Place(t) /\ h # t + CmdSize
           \/ Fresh(rg, h, t, out)
    PROVE  OnTheWay(h, rt + CmdSize, et)
<1>0. /\ CmdSize \in Nat /\ CmdSize >= 1 /\ RingSize \in Nat
      /\ rt \in Nat /\ t \in Nat /\ h \in Nat /\ et \in Nat /\ h < RingSize
  BY Sizes DEF Units
<1>1. CASE Fresh(rg, h, t, out)
  BY <1>0, <1>1 DEF Fresh, OnTheWay
<1>2. CASE rt = t /\ Place(t) /\ h # t + CmdSize
  <2>1. CASE Straight(rg, h, t, out)
    BY <1>0, <1>2, <2>1 DEF Straight, OnTheWay
  <2>2. CASE Wrapped(rg, h, t, out)
    <3>1. PICK p \in 0 .. h : Place(p) /\ RingFull(p)
      BY <2>2 DEF Wrapped
    <3>2. t < p
      BY <1>0, <1>2, <3>1 DEF RingFull
    <3>3. t + CmdSize <= p
      BY <1>0, <1>2, <3>1, <3>2, PlaceFacts
    <3>4. t < h
      BY <2>2 DEF Wrapped
    <3> QED  BY <1>0, <1>2, <3>1, <3>3, <3>4 DEF OnTheWay
  <2> QED  BY <2>1, <2>2 DEF Laid
<1> QED  BY <1>1, <1>2

(* The fence of a submission is the one after those before it. *)
LEMMA SubmitFollow ==
    ASSUME plan \in DOMAIN Plans, NEW out \in Seq(Fences), NEW fm \in Fences, NEW cf \in Fences,
           Follow(out, fm, cf), SizeOf(Len(out)) < RingSize
    PROVE  /\ Follow(Append(out, Later(cf, 1)), fm, Later(cf, 1))
           /\ (cf + 1) % FenceMod = Later(cf, 1)
           /\ Later(cf, 1) \in Fences
<1> DEFINE n == Len(out)
           f == Later(cf, 1)
           o == Append(out, f)
<1>1. n \in Nat /\ FenceMod \in Nat
  BY Sizes
<1>2. n + 1 < FenceMod
  BY <1>1, SizeBound
<1>3. fm \in 0 .. FenceMod - 1 /\ cf \in 0 .. FenceMod - 1
  BY DEF Fences
<1>4. f = Later(fm, n + 1)
  BY <1>1, <1>2, <1>3, LaterFacts DEF Follow
<1>5. f \in Fences /\ (cf + 1) % FenceMod = f
  <2>1. (cf + 1) % FenceMod = IF cf + 1 = FenceMod THEN 0 ELSE cf + 1
    BY <1>1, <1>3, OneFurther
  <2> QED  BY <1>1, <1>2, <1>3, <2>1 DEF Later, Fences
<1> HIDE DEF f
<1>6. Len(o) = n + 1 /\ o[n + 1] = f /\ \A k \in 1 .. n : o[k] = out[k]
  BY <1>5, OutFacts
<1>7. \A k \in 1 .. n : out[k] = Later(fm, k)
  BY DEF Follow
<1> HIDE DEF o, n
<1>8. \A k \in 1 .. Len(o) : o[k] = Later(fm, k)
  BY <1>1, <1>4, <1>6, <1>7
<1>9. Follow(o, fm, f)
  BY <1>4, <1>6, <1>8 DEF Follow
<1> QED  BY <1>5, <1>9 DEF o, f

(* The commands are written, the image updated, the context queued. *)
LEMMA SubmitInv ==
    ASSUME Typed, NEW c \in Contexts, ContextInv(c), plan' = plan, Submit(c)
    PROVE  ContextInv(c)'
<1> DEFINE rt == ringTail[c]
           f == local[c].fence
           e == rt + CmdSize
           out == outstanding[c]
           t == lrca[c].tail
           h == HeadOf(c)
           rg == ring[c]
<1>0. /\ plan \in DOMAIN Plans /\ rt \in Units /\ f \in Fences /\ out \in Seq(Fences)
      /\ t \in Units /\ h \in Units /\ rg \in [Units -> Unit] /\ engine.tail \in Units
      /\ fenceMem[c] \in Fences /\ contextFence[c] \in Fences
  BY Types
<1>1. /\ pc[c] = "write" /\ pc'[c] = "idle" /\ local' = local /\ fenceMem' = fenceMem
      /\ contextFence'[c] = (contextFence[c] + 1) % FenceMod
      /\ ring'[c] = Written(rg, rt, f)
      /\ ringTail'[c] = e /\ lrca'[c].tail = e
      /\ lrca'[c].head = IF local[c].override THEN rt ELSE lrca[c].head
      /\ outstanding'[c] = Append(out, contextFence'[c])
      /\ engine'.queue = Append(engine.queue, c)
      /\ engine'.loaded = engine.loaded /\ engine'.head = engine.head /\ engine'.tail = engine.tail
  <2>1. /\ pc[c] = "write" /\ pc'[c] = "idle" /\ local' = local /\ fenceMem' = fenceMem
        /\ contextFence'[c] = (contextFence[c] + 1) % FenceMod
        /\ ringTail'[c] = e
    BY DEF Submit, At, Goto, Typed, TypeOK
  <2>2. ring'[c] = Written(rg, rt, f)
    <3>1. ring \in [Contexts -> [Units -> Unit]] /\ ringTail[c] \in Nat /\ CmdSize \in Nat
      BY <1>0, Sizes DEF Typed, TypeOK, Units
    <3>2. DOMAIN ring'[c] = Units /\ ring'[c] = [u \in DOMAIN ring'[c] |-> ring'[c][u]]
      BY <3>1 DEF Submit
    <3>3. \A u \in Units :
             ring'[c][u] = Written(ring[c], ringTail[c], local[c].fence)[u]
      BY <3>1 DEF Submit, Written
    <3>4. Written(rg, rt, f) = [u \in Units |-> Written(rg, rt, f)[u]]
      BY <3>1 DEF Written
    <3> HIDE DEF rg, rt, f
    <3> QED  BY <3>2, <3>3, <3>4 DEF rg, rt, f
  <2>3. lrca'[c].tail = e /\ lrca'[c].head = IF local[c].override THEN rt ELSE lrca[c].head
    BY DEF Submit, Typed, TypeOK
  <2>4. outstanding'[c] = Append(out, contextFence'[c])
    BY DEF Submit, Typed
  <2>5. /\ engine'.queue = Append(engine.queue, c)
        /\ engine'.loaded = engine.loaded /\ engine'.head = engine.head /\ engine'.tail = engine.tail
    BY DEF Submit, Typed
  <2> QED  BY <2>1, <2>2, <2>3, <2>4, <2>5
<1>2. FencesOf(c) /\ RingOf(c) /\ TailOf(c) /\ EngineOf(c)
  BY DEF ContextInv
<1>3. e < RingSize /\ ~RingFull(rt)
  BY SMTT(30), <1>0, <1>1, <1>2, Sizes DEF TailOf, RingFull, Units
<1>4. Laid(rg, h, t, out)
  BY <1>2 DEF RingOf
<1>5. SizeOf(Len(out)) < RingSize
  <2>1. First(t, out) >= 0
    BY <1>4 DEF Laid, Held
  <2> QED  BY <1>0, <2>1, NoneTakesNone, Sizes DEF First, Units
<1>6. /\ f = Later(contextFence[c], 1) /\ (local[c].override => out = << >>)
      /\ Follow(out, fenceMem[c], contextFence[c])
  BY <1>1, <1>2 DEF FencesOf
<1>7. /\ Follow(Append(out, f), fenceMem[c], f)
      /\ contextFence'[c] = f /\ outstanding'[c] = Append(out, f)
  BY <1>0, <1>1, <1>5, <1>6, SubmitFollow
<1>8. FencesOf(c)'
  BY <1>1, <1>7, FollowNext DEF FencesOf
<1>9. Active(c)' <=> Active(c)
  BY <1>1 DEF Active
<1>10. HeadOf(c)' = IF Active(c) \/ ~local[c].override THEN h ELSE rt
  BY <1>1, <1>9 DEF HeadOf
<1>11. Place(rt) /\ Place(t) /\ Place(e)
  <2>1. Place(rt) /\ Place(t)
    BY <1>2 DEF TailOf
  <2>2. rt \in Nat
    BY <1>0, Sizes DEF Units
  <2> QED  BY <2>1, <2>2, PlaceFacts
<1>12. h # rt + CmdSize
  BY <1>1, <1>2 DEF TailOf
<1>13. \/ rt = t
       \/ Fresh(rg, h, t, out)
       \/ /\ rt = 0 /\ h = t /\ out = << >> /\ RingFull(t) /\ Blank(rg, t, RingSize)
          /\ ~Active(c)
  BY <1>1, <1>2 DEF TailOf, TakenBack, HeadOf
<1>14. HeadOf(c)' \in Units
  BY <1>0, <1>10
<1>15. Laid(Written(rg, rt, f), HeadOf(c)', e, Append(out, f))
  <2> DEFINE g == HeadOf(c)'
  <2>1. \/ /\ rt = t /\ g = h /\ Place(t) /\ h # t + CmdSize
        \/ g = rt /\ out = << >>
        \/ g = h /\ Fresh(rg, h, t, out)
        \/ /\ g = h /\ rt = 0 /\ h = t /\ out = << >> /\ Place(t) /\ RingFull(t)
           /\ Blank(rg, t, RingSize)
    BY <1>6, <1>10, <1>11, <1>12, <1>13
  <2> HIDE DEF g, h, rt, t, f, out, rg
  <2>2. g \in Units
    BY <1>14 DEF g
  <2>3. Laid(Written(rg, rt, f), g, rt + CmdSize, Append(out, f))
    BY <1>0, <1>3, <1>4, <2>1, <2>2, SubmitLaid
  <2> QED  BY <2>3 DEF g
<1>16. RingOf(c)'
  BY <1>1, <1>7, <1>15, RingNext
<1>17. TailOf(c)'
  BY <1>1, <1>11 DEF TailOf
<1>18. Queued(c)'
  BY <1>1, Types, QueueAppend DEF Queued
<1>19. Active(c) => OnTheWay(engine.head, e, engine.tail)
  <2>1. SUFFICES ASSUME Active(c) PROVE OnTheWay(engine.head, e, engine.tail)
    OBVIOUS
  <2>2. h = engine.head
    BY <2>1 DEF HeadOf
  <2>3. OnTheWay(h, t, engine.tail)
    BY <1>2, <2>1, <2>2 DEF EngineOf
  <2>4. (rt = t /\ Place(t) /\ h # t + CmdSize) \/ Fresh(rg, h, t, out)
    BY <1>11, <1>12, <1>13, <2>1
  <2> HIDE DEF h, rt, t, out, rg
  <2>5. OnTheWay(h, rt + CmdSize, engine.tail)
    BY <1>0, <1>3, <1>4, <2>3, <2>4, SubmitOnTheWay
  <2> QED  BY <2>2, <2>5
<1>20. EngineOf(c)'
  BY <1>1, <1>2, <1>9, <1>18, <1>19 DEF EngineOf
<1> QED  BY <1>8, <1>16, <1>17, <1>20 DEF ContextInv

-----------------------------------------------------------------------------
(* The other calls. *)

(* resubmit queues the context as it is. *)
LEMMA ResubmitInv ==
    ASSUME Typed, NEW c \in Contexts, ContextInv(c), plan' = plan, Resubmit(c)
    PROVE  ContextInv(c)'
<1>1. /\ pc[c] = "idle" /\ engine'.queue = Append(engine.queue, c)
      /\ engine'.loaded = engine.loaded /\ engine'.head = engine.head /\ engine'.tail = engine.tail
      /\ UNCHANGED <<pc, local, ringTail, contextFence, ring, lrca, fenceMem, outstanding>>
  BY DEF Resubmit, At, Typed, user, memory
<1>2. HeadOf(c)' = HeadOf(c) /\ (Active(c)' <=> Active(c))
  BY <1>1 DEF HeadOf, Active
<1>3. Queued(c)'
  BY <1>1, Types, QueueAppend DEF Queued
<1>4. FencesOf(c)'
  <2>1. Follow(outstanding[c], fenceMem[c], contextFence[c])'
    BY <1>1, FollowNext DEF ContextInv, FencesOf
  <2> QED  BY <1>1, <2>1 DEF FencesOf
<1>5. RingOf(c)'
  BY <1>1, <1>2, RingNext DEF ContextInv, RingOf
<1>6. ~TakenBack(c)
  BY <1>1 DEF TakenBack
<1>7. TailOf(c)'
  <2>1. Fresh(ring[c], HeadOf(c), lrca[c].tail, outstanding[c]) =>
           Fresh(ring[c], HeadOf(c), lrca[c].tail, outstanding[c])'
    BY <1>1, <1>2, FreshNext
  <2> QED  BY <1>1, <1>2, <1>6, <2>1 DEF ContextInv, TailOf
<1>8. EngineOf(c)'
  BY <1>1, <1>2, <1>3 DEF ContextInv, EngineOf
<1> QED  BY <1>4, <1>5, <1>7, <1>8 DEF ContextInv

(* A stream that is closed and opened again: the ring is a new one. *)
LEMMA ReopenInv ==
    ASSUME Typed, NEW c \in Contexts, ContextInv(c), plan' = plan, Reopen(c)
    PROVE  ContextInv(c)'
<1>0. ring[c] \in [Units -> Unit] /\ ringTail[c] \in Units /\ plan \in DOMAIN Plans
  BY Types
<1>1. /\ pc[c] = "idle" /\ outstanding[c] = << >> /\ engine.loaded # c
      /\ ring'[c] = [u \in Units |-> Noop]
      /\ lrca'[c].head = 0 /\ lrca'[c].tail = 0 /\ fenceMem'[c] = contextFence[c]
      /\ UNCHANGED <<pc, local, ringTail, contextFence, engine, outstanding>>
  BY <1>0 DEF Reopen, At, Typed, TypeOK, user
<1>2. HeadOf(c)' = 0 /\ ~Active(c)'
  BY <1>1 DEF HeadOf, Active
<1>3. RingSize \in Nat /\ CmdSize \in Nat /\ CmdSize >= 1 /\ FenceMod \in Nat
      /\ contextFence[c] \in 0 .. FenceMod - 1 /\ ringTail[c] \in Nat
  BY <1>0, Sizes, Types DEF Units, Fences
<1>4. FencesOf(c)'
  <2>1. Len(outstanding[c]) = 0
    BY <1>1
  <2>2. Later(contextFence[c], 0) = contextFence[c]
    BY <1>3 DEF Later
  <2>3. Follow(outstanding[c], fenceMem'[c], contextFence[c])
    BY <1>1, <2>1, <2>2 DEF Follow
  <2>4. Follow(outstanding[c], fenceMem[c], contextFence[c])'
    BY <1>1, <2>3, FollowNext
  <2> QED  BY <1>1, <2>4 DEF FencesOf
<1>5. Fresh(ring'[c], 0, 0, << >>)
  BY <1>1, <1>3 DEF Fresh, Blank, Units
<1>6. Laid(ring'[c], 0, 0, << >>)
  <2>1. SizeOf(Len(<< >>)) = 0 /\ First(0, << >>) = 0
    <3>1. Len(<< >>) = 0
      OBVIOUS
    <3>2. SizeOf(0) = 0
      BY SizeFacts
    <3> QED  BY <3>1, <3>2 DEF First
  <2>2. Held(ring'[c], 0, << >>)
    BY <2>1 DEF Held
  <2>3. Straight(ring'[c], 0, 0, << >>)
    BY <1>3, <2>1 DEF Straight, Blank
  <2> QED  BY <2>2, <2>3 DEF Laid
<1>7. RingOf(c)'
  BY <1>1, <1>2, <1>6, RingNext
<1>8. TailOf(c)'
  <2>1. Fresh(ring[c], HeadOf(c), lrca[c].tail, outstanding[c])'
    BY <1>1, <1>2, <1>5, FreshNext
  <2>2. Place(ringTail[c])
    BY DEF ContextInv, TailOf
  <2>3. Place(0)
    BY <1>3, <2>2, PlaceFacts
  <2> QED  BY <1>1, <2>1, <2>2, <2>3 DEF TailOf
<1>9. EngineOf(c)'
  BY <1>1, <1>2 DEF EngineOf
<1> QED  BY <1>4, <1>7, <1>8, <1>9 DEF ContextInv

-----------------------------------------------------------------------------
(* The engine. *)

(* What Tail does to its queue. *)
LEMMA QueueTail ==
    ASSUME NEW q \in Seq(Contexts), q # << >>
    PROVE  /\ Head(q) \in Contexts /\ Tail(q) \in Seq(Contexts)
           /\ \E i \in 1 .. Len(q) : q[i] = Head(q)
           /\ \A d \in Contexts : d # Head(q) =>
                 (\E i \in 1 .. Len(Tail(q)) : Tail(q)[i] = d) <=> \E i \in 1 .. Len(q) : q[i] = d
<1>1. /\ Len(q) \in Nat /\ Len(q) >= 1 /\ Head(q) = q[1] /\ Head(q) \in Contexts
      /\ Tail(q) \in Seq(Contexts) /\ Len(Tail(q)) = Len(q) - 1
      /\ \A k \in 1 .. Len(q) - 1 : Tail(q)[k] = q[k + 1]
  BY TailFacts
<1>2. \E i \in 1 .. Len(q) : q[i] = Head(q)
  BY <1>1
<1>3. ASSUME NEW d \in Contexts, d # Head(q), NEW i \in 1 .. Len(q), q[i] = d
      PROVE  \E k \in 1 .. Len(Tail(q)) : Tail(q)[k] = d
  <2>1. i - 1 \in 1 .. Len(q) - 1 /\ (i - 1) + 1 = i
    BY <1>1, <1>3
  <2>2. Tail(q)[i - 1] = d
    BY <1>1, <1>3, <2>1
  <2> QED  BY <1>1, <2>1, <2>2
<1>4. ASSUME NEW d \in Contexts, NEW k \in 1 .. Len(Tail(q)), Tail(q)[k] = d
      PROVE  \E i \in 1 .. Len(q) : q[i] = d
  <2>1. k \in 1 .. Len(q) - 1 /\ k + 1 \in 1 .. Len(q)
    BY <1>1
  <2>2. q[k + 1] = d
    BY <1>1, <1>4, <2>1
  <2> QED  BY <2>1, <2>2
<1> QED  BY <1>1, <1>2, <1>3, <1>4

(* A context is loaded with the head and the tail of its image. *)
LEMMA LoadInv ==
    ASSUME Typed, RingInv, plan' = plan, EngineLoad
    PROVE  RingInv'
<1>0. engine.queue \in Seq(Contexts) /\ engine.queue # << >> /\ engine.loaded = None
  BY DEF EngineLoad, Typed
<1> PICK c \in Contexts : c = Head(engine.queue)
  BY <1>0, QueueTail
<1>1. c = Head(engine.queue) /\ engine'.queue = Tail(engine.queue) /\ engine'.loaded = c
      /\ engine'.head = lrca[c].head /\ engine'.tail = lrca[c].tail
      /\ UNCHANGED <<pc, local, ringTail, contextFence, ring, lrca, fenceMem, outstanding>>
  BY <1>0, QueueTail DEF EngineLoad, user, memory
<1>2. None \notin Contexts
  BY HardwareContextAssumption
<1>3. Queued(c)
  BY <1>0, QueueTail DEF Queued
<1>4. ASSUME NEW d \in Contexts, d # c
      PROVE  ContextInv(d)'
  <2>1. Active(d)' <=> Active(d)
    BY <1>0, <1>1, <1>2, <1>4 DEF Active
  <2>2. ~Active(d)
    BY <1>0, <1>2 DEF Active
  <2>3. Queued(d)' <=> Queued(d)
    BY <1>0, <1>1, <1>4, QueueTail DEF Queued
  <2>4. Untouched(d)
    BY <1>1, <2>1, <2>2, <2>3 DEF Untouched
  <2> QED  BY <1>1, <2>4, UntouchedInv DEF RingInv
<1>5. ContextInv(c)'
  <2>0. ContextInv(c) /\ ~Active(c)
    BY <1>0, <1>1, <1>2 DEF RingInv, Active
  <2>1. Active(c)' /\ HeadOf(c) = lrca[c].head /\ HeadOf(c)' = lrca[c].head
    BY <1>1, <2>0 DEF Active, HeadOf
  <2>2. FencesOf(c)'
    <3>1. Follow(outstanding[c], fenceMem[c], contextFence[c])'
      BY <1>1, <2>0, FollowNext DEF ContextInv, FencesOf
    <3>2. Later(contextFence[c], 1)' = Later(contextFence[c], 1)
      BY <1>1 DEF Later, FenceMod
    <3> QED  BY <1>1, <2>0, <3>1, <3>2 DEF ContextInv, FencesOf
  <2>3. Laid(ring[c], lrca[c].head, lrca[c].tail, outstanding[c])
    BY <2>0, <2>1 DEF ContextInv, RingOf
  <2>4. RingOf(c)'
    BY <1>1, <2>1, <2>3, RingNext
  <2>5. TakenBack(c) => TakenBack(c)'
    <3>1. TakenBack(c) => pc[c] = "wait"
      BY <1>3 DEF TakenBack
    <3> QED  BY <1>1, <3>1 DEF TakenBack, RingFull, RingSize
  <2>6. Fresh(ring[c], HeadOf(c), lrca[c].tail, outstanding[c]) =>
           Fresh(ring[c], HeadOf(c), lrca[c].tail, outstanding[c])'
    BY <1>1, <2>1, FreshNext
  <2>7. TailOf(c)'
    BY <1>1, <2>0, <2>1, <2>5, <2>6 DEF ContextInv, TailOf, RingFull, RingSize
  <2>8. EngineOf(c)'
    <3>1. lrca[c].head \in Nat /\ lrca[c].tail \in Nat
      BY SMTT(30), <1>1, Types, Sizes DEF Units
    <3>2. OnTheWay(lrca[c].head, lrca[c].tail, lrca[c].tail)
      BY <3>1 DEF OnTheWay
    <3>3. Place(lrca[c].tail)
      BY <2>0 DEF ContextInv, TailOf
    <3> QED  BY <1>1, <2>1, <3>2, <3>3 DEF EngineOf
  <2> QED  BY <2>2, <2>4, <2>7, <2>8 DEF ContextInv
<1> QED  BY <1>4, <1>5 DEF RingInv

(* The oldest fence is stored: the others follow it. *)
LEMMA RunFollow ==
    ASSUME plan \in DOMAIN Plans, NEW out \in Seq(Fences), NEW fm \in Fences, NEW cf \in Fences,
           Follow(out, fm, cf), SizeOf(Len(out)) < RingSize, out # << >>
    PROVE  Follow(Tail(out), Head(out), cf)
<1> DEFINE n == Len(out)
           o == Tail(out)
<1>1. /\ n \in Nat /\ n >= 1 /\ Head(out) = out[1] /\ Len(o) = n - 1
      /\ \A k \in 1 .. n - 1 : o[k] = out[k + 1]
  BY TailFacts
<1>2. n + 1 < FenceMod /\ FenceMod \in Nat
  BY <1>1, SizeBound, Sizes
<1>3. fm \in 0 .. FenceMod - 1
  BY DEF Fences
<1>4. Head(out) = Later(fm, 1)
  BY <1>1 DEF Follow
<1>5. \A k \in 0 .. n - 1 : Later(Head(out), k) = Later(fm, k + 1)
  BY <1>1, <1>2, <1>3, <1>4 DEF Later
<1>6. \A k \in 1 .. n : out[k] = Later(fm, k)
  BY DEF Follow
<1>7. cf = Later(fm, n)
  BY DEF Follow
<1> HIDE DEF n, o
<1>8. \A k \in 1 .. Len(o) : o[k] = Later(Head(out), k)
  <2> SUFFICES ASSUME NEW k \in 1 .. Len(o) PROVE o[k] = Later(Head(out), k)
    OBVIOUS
  <2>1. k \in 1 .. n - 1 /\ k + 1 \in 1 .. n /\ k \in 0 .. n - 1
    BY <1>1
  <2>2. o[k] = out[k + 1] /\ out[k + 1] = Later(fm, k + 1)
    BY <1>1, <1>6, <2>1
  <2>3. Later(Head(out), k) = Later(fm, k + 1)
    BY <1>5, <2>1
  <2> QED  BY <2>2, <2>3
<1>9. cf = Later(Head(out), Len(o))
  <2>1. Len(o) \in 0 .. n - 1 /\ Len(o) + 1 = n
    BY <1>1
  <2>2. Later(Head(out), Len(o)) = Later(fm, Len(o) + 1)
    BY <1>5, <2>1
  <2> QED  BY <1>7, <2>1, <2>2
<1> QED  BY <1>8, <1>9 DEF Follow, o

(* The engine runs a unit of the context that is loaded. *)
LEMMA RunInv ==
    ASSUME Typed, RingInv, plan' = plan, EngineRun
    PROVE  RingInv'
<1> PICK c \in Contexts : c = engine.loaded
  BY DEF EngineRun, Typed
<1> DEFINE h == engine.head
           t == lrca[c].tail
           out == outstanding[c]
           rg == ring[c]
           fm == fenceMem[c]
<1>0. /\ plan \in DOMAIN Plans /\ h \in Units /\ t \in Units /\ engine.tail \in Units
      /\ rg \in [Units -> Unit] /\ out \in Seq(Fences) /\ fm \in Fences
      /\ contextFence[c] \in Fences
  BY Types
<1>1. /\ engine.loaded = c /\ h # engine.tail
      /\ engine'.head = (h + 1) % RingSize
      /\ engine'.loaded = c /\ engine'.tail = engine.tail /\ engine'.queue = engine.queue
      /\ UNCHANGED <<pc, local, ringTail, contextFence, ring, lrca>>
  BY DEF EngineRun, Typed, user
<1>2. /\ fenceMem'[c] = IF Stores(rg, h) THEN rg[h].fence ELSE fm
      /\ outstanding'[c] =
            IF Stores(rg, h) /\ out # << >> /\ Head(out) = rg[h].fence THEN Tail(out) ELSE out
      /\ \A d \in Contexts : d # c => fenceMem'[d] = fenceMem[d] /\ outstanding'[d] = outstanding[d]
  BY DEF EngineRun, Typed, TypeOK, Stores
<1>3. engine'.head = After(h)
  <2>1. RingSize \in Nat /\ h \in 0 .. RingSize - 1
    BY <1>0, Sizes DEF Units
  <2> QED  BY <1>1, <2>1, OneFurther DEF After
<1>4. FencesOf(c) /\ RingOf(c) /\ TailOf(c) /\ EngineOf(c) /\ Active(c) /\ HeadOf(c) = h
  BY <1>1 DEF RingInv, ContextInv, Active, HeadOf
<1>5. Laid(rg, h, t, out) /\ OnTheWay(h, t, engine.tail) /\ Place(t)
  BY <1>4 DEF RingOf, EngineOf, TailOf
<1> HIDE DEF h, t, out, rg, fm
<1>6. /\ Stores(rg, h) => /\ out # << >> /\ Head(out) = rg[h].fence
                          /\ Laid(rg, After(h), t, Tail(out))
      /\ ~Stores(rg, h) => Laid(rg, After(h), t, out)
      /\ OnTheWay(After(h), t, engine.tail)
      /\ h # t + CmdSize => After(h) # t + CmdSize
      /\ ~(h = 0 /\ t = 0)
  BY <1>0, <1>1, <1>5, RunLaid
<1>7. /\ Stores(rg, h) => outstanding'[c] = Tail(out) /\ fenceMem'[c] = Head(out)
      /\ ~Stores(rg, h) => outstanding'[c] = out /\ fenceMem'[c] = fm
  BY <1>2, <1>6
<1>8. Laid(rg, After(h), t, outstanding'[c])
  BY <1>6, <1>7
<1>9. Active(c)' /\ HeadOf(c)' = After(h) /\ (Queued(c)' <=> Queued(c))
  BY <1>1, <1>3 DEF Active, HeadOf, Queued
<1>10. RingOf(c)'
  BY <1>1, <1>8, <1>9, RingNext DEF rg, t
<1>11. Follow(outstanding'[c], fenceMem'[c], contextFence[c])
  <2>1. Follow(out, fm, contextFence[c])
    BY <1>4 DEF FencesOf, out, fm
  <2>2. SizeOf(Len(out)) < RingSize
    <3>1. First(t, out) >= 0
      BY <1>5 DEF Laid, Held
    <3> QED  BY <1>0, <3>1, NoneTakesNone, Sizes DEF First, Units
  <2>3. out # << >> => Follow(Tail(out), Head(out), contextFence[c])
    BY <1>0, <2>1, <2>2, RunFollow
  <2> QED  BY <1>6, <1>7, <2>1, <2>3
<1>12. FencesOf(c)'
  <2>1. Follow(outstanding[c], fenceMem[c], contextFence[c])'
    BY <1>1, <1>11, FollowNext
  <2>2. Later(contextFence[c], 1)' = Later(contextFence[c], 1)
    BY <1>1 DEF Later, FenceMod
  <2>3. out = << >> => outstanding'[c] = << >>
    BY <1>6, <1>7
  <2> QED  BY <1>1, <1>4, <2>1, <2>2, <2>3 DEF FencesOf, out
<1>13. TailOf(c)'
  <2>1. ~Fresh(ring[c], HeadOf(c), lrca[c].tail, outstanding[c])
    BY <1>4, <1>6 DEF Fresh, t
  <2>2. TakenBack(c) => TakenBack(c)' /\ pc[c] = "wait"
    BY <1>1, <1>4 DEF TakenBack, RingFull, RingSize
  <2>3. pc[c] \in {"lock", "write"} => After(h) # ringTail[c] + CmdSize
    BY <1>4, <1>6, <2>1, <2>2 DEF TailOf, t
  <2> QED  BY <1>1, <1>4, <1>9, <2>1, <2>2, <2>3 DEF TailOf, RingFull, RingSize
<1>14. EngineOf(c)'
  BY <1>1, <1>3, <1>4, <1>6, <1>9 DEF EngineOf, t
<1>15. ASSUME NEW d \in Contexts, d # c
       PROVE  ContextInv(d)'
  <2>1. ~Active(d) /\ ~Active(d)' /\ (Queued(d)' <=> Queued(d))
    BY <1>1, <1>15 DEF Active, Queued
  <2>2. Untouched(d)
    BY <1>1, <1>2, <1>15, <2>1 DEF Untouched
  <2> QED  BY <1>1, <2>2, UntouchedInv DEF RingInv
<1>16. ContextInv(c)'
  BY <1>10, <1>12, <1>13, <1>14 DEF ContextInv
<1> QED  BY <1>15, <1>16 DEF RingInv

(* The engine is at its tail: the head is saved. *)
LEMMA UnloadInv ==
    ASSUME Typed, RingInv, plan' = plan, EngineUnload
    PROVE  RingInv'
<1> PICK c \in Contexts : c = engine.loaded
  BY DEF EngineUnload, Typed
<1>0. None \notin Contexts
  BY HardwareContextAssumption
<1>1. /\ engine.loaded = c /\ engine.head = engine.tail
      /\ engine'.loaded = None /\ engine'.queue = engine.queue
      /\ lrca'[c].head = engine.head /\ lrca'[c].tail = lrca[c].tail
      /\ \A d \in Contexts : d # c => lrca'[d] = lrca[d]
      /\ UNCHANGED <<pc, local, ringTail, contextFence, ring, fenceMem, outstanding>>
  BY DEF EngineUnload, Typed, TypeOK, user
<1>2. FencesOf(c) /\ RingOf(c) /\ TailOf(c) /\ EngineOf(c) /\ Active(c) /\ HeadOf(c) = engine.head
  BY <1>1 DEF RingInv, ContextInv, Active, HeadOf
<1>3. ~Active(c)' /\ HeadOf(c)' = engine.head /\ (Queued(c)' <=> Queued(c))
  BY <1>0, <1>1 DEF Active, HeadOf, Queued
<1>4. FencesOf(c)'
  <2>1. Follow(outstanding[c], fenceMem[c], contextFence[c])'
    BY <1>1, <1>2, FollowNext DEF FencesOf
  <2>2. Later(contextFence[c], 1)' = Later(contextFence[c], 1)
    BY <1>1 DEF Later, FenceMod
  <2> QED  BY <1>1, <1>2, <2>1, <2>2 DEF FencesOf
<1>5. RingOf(c)'
  BY <1>1, <1>2, <1>3, RingNext DEF RingOf
<1>6. TailOf(c)'
  <2>1. TakenBack(c) => TakenBack(c)'
    BY <1>1, <1>2 DEF TakenBack, RingFull, RingSize
  <2>2. Fresh(ring[c], HeadOf(c), lrca[c].tail, outstanding[c]) =>
           Fresh(ring[c], HeadOf(c), lrca[c].tail, outstanding[c])'
    BY <1>1, <1>2, <1>3, FreshNext
  <2> QED  BY <1>1, <1>2, <1>3, <2>1, <2>2 DEF TailOf, RingFull, RingSize
<1>7. EngineOf(c)'
  BY <1>1, <1>2, <1>3 DEF EngineOf
<1>8. ASSUME NEW d \in Contexts, d # c
      PROVE  ContextInv(d)'
  <2>1. ~Active(d) /\ ~Active(d)' /\ (Queued(d)' <=> Queued(d))
    BY <1>0, <1>1, <1>8 DEF Active, Queued
  <2>2. Untouched(d)
    BY <1>1, <1>8, <2>1 DEF Untouched
  <2> QED  BY <1>1, <2>2, UntouchedInv DEF RingInv
<1>9. ContextInv(c)'
  BY <1>4, <1>5, <1>6, <1>7 DEF ContextInv
<1> QED  BY <1>8, <1>9 DEF RingInv

-----------------------------------------------------------------------------
(* The steps of a thread, and what they leave alone. *)

ThreadStep(c) ==
    \/ \E override \in BOOLEAN : Prepare(c, override)
    \/ LockRing(c) \/ PollForCompletion(c) \/ Submit(c)
    \/ StartFencePoll(c) \/ FencePollEnds(c) \/ ReadFirstHalf(c) \/ ReadSecondHalf(c)
    \/ Resubmit(c) \/ Reopen(c)

(* The steps of the specification. *)
LEMMA Steps ==
    ASSUME Typed, Next
    PROVE  /\ plan' = plan
           /\ (\E c \in Contexts : ThreadStep(c)) \/ EngineLoad \/ EngineRun \/ EngineUnload
<1>1. Plans[plan].used \subseteq Contexts
  BY HardwareContextAssumption DEF Typed
<1> QED  BY <1>1 DEF Next, EngineStep, Continue, ThreadStep

(* A thread leaves the other contexts alone. *)
LEMMA OtherContexts ==
    ASSUME Typed, RingInv, plan' = plan, NEW c \in Contexts, ThreadStep(c),
           NEW d \in Contexts, d # c
    PROVE  ContextInv(d)'
<1>1. /\ ringTail'[d] = ringTail[d] /\ contextFence'[d] = contextFence[d]
      /\ lrca'[d] = lrca[d] /\ ring'[d] = ring[d]
      /\ fenceMem'[d] = fenceMem[d] /\ outstanding'[d] = outstanding[d]
      /\ pc'[d] = pc[d] /\ local'[d] = local[d]
  <2>1. CASE \E override \in BOOLEAN : Prepare(c, override)
    BY <2>1 DEF Prepare, Goto, user, memory, Typed, TypeOK
  <2>2. CASE LockRing(c)
    BY <2>2 DEF LockRing, Goto, user, memory, Typed, TypeOK
  <2>3. CASE PollForCompletion(c)
    BY <2>3 DEF PollForCompletion, Goto, user, memory, Typed, TypeOK
  <2>4. CASE Submit(c)
    BY <2>4 DEF Submit, Goto, user, memory, Typed, TypeOK
  <2>5. CASE StartFencePoll(c) \/ FencePollEnds(c)
    BY <2>5 DEF StartFencePoll, FencePollEnds, Goto, user, memory, Typed, TypeOK
  <2>6. CASE ReadFirstHalf(c) \/ ReadSecondHalf(c)
    BY <2>6 DEF ReadFirstHalf, ReadSecondHalf, Goto, user, memory, Typed, TypeOK
  <2>7. CASE Resubmit(c)
    BY <2>7 DEF Resubmit, Goto, user, memory, Typed, TypeOK
  <2>8. CASE Reopen(c)
    BY <2>8 DEF Reopen, Goto, user, memory, Typed, TypeOK
  <2> QED  BY <2>1, <2>2, <2>3, <2>4, <2>5, <2>6, <2>7, <2>8 DEF ThreadStep
<1>2. engine' = engine \/ engine' = [engine EXCEPT !.queue = Append(@, c)]
  BY DEF ThreadStep, Prepare, LockRing, PollForCompletion, Submit, StartFencePoll,
         FencePollEnds, ReadFirstHalf, ReadSecondHalf, Resubmit, Reopen, user, memory
<1>3. /\ engine'.loaded = engine.loaded /\ engine'.head = engine.head
      /\ engine'.tail = engine.tail
      /\ engine'.queue = engine.queue \/ engine'.queue = Append(engine.queue, c)
  BY <1>2 DEF Typed
<1>4. Queued(d)' <=> Queued(d)
  <2>1. engine.queue \in Seq(Contexts)
    BY DEF Typed
  <2>2. (\E i \in 1 .. Len(Append(engine.queue, c)) : Append(engine.queue, c)[i] = d)
           <=> \E i \in 1 .. Len(engine.queue) : engine.queue[i] = d
    BY <2>1, QueueAppend
  <2>3. CASE engine'.queue = engine.queue
    BY <2>3 DEF Queued
  <2>4. CASE engine'.queue = Append(engine.queue, c)
    BY <2>2, <2>4 DEF Queued
  <2> QED  BY <1>3, <2>3, <2>4
<1>5. Untouched(d)
  BY <1>1, <1>3, <1>4 DEF Untouched, Active
<1> QED  BY <1>1, <1>5, UntouchedInv DEF RingInv

(* Its own context: the lemmas above, and the calls that only read. *)
LEMMA OwnContext ==
    ASSUME KeepsUp, Typed, RingInv, plan' = plan, NEW c \in Contexts, ThreadStep(c)
    PROVE  ContextInv(c)'
<1>0. ContextInv(c)
  BY DEF RingInv
<1>1. CASE \E override \in BOOLEAN : Prepare(c, override)
  BY <1>0, <1>1, PrepareInv
<1>2. CASE LockRing(c)
  BY <1>0, <1>2, LockRoomInv, LockFullInv
<1>3. CASE PollForCompletion(c)
  BY <1>0, <1>3, PollInv
<1>4. CASE Submit(c)
  BY <1>0, <1>4, SubmitInv
<1>5. CASE StartFencePoll(c) \/ FencePollEnds(c) \/ ReadFirstHalf(c) \/ ReadSecondHalf(c)
  <2>1. Untouched(c)
    BY <1>5 DEF StartFencePoll, FencePollEnds, ReadFirstHalf, ReadSecondHalf, memory,
                Untouched, Active, Queued
  <2>2. /\ pc[c] \in {"idle", "fencePoll", "isActive"}
        /\ pc'[c] \in {"idle", "fencePoll", "isActive"}
    BY <1>5 DEF StartFencePoll, FencePollEnds, ReadFirstHalf, ReadSecondHalf, At, Goto,
                Typed, TypeOK
  <2> QED  BY <1>0, <2>1, <2>2, UntouchedInv
<1>6. CASE Resubmit(c)
  BY <1>0, <1>6, ResubmitInv
<1>7. CASE Reopen(c)
  BY <1>0, <1>7, ReopenInv
<1> QED  BY <1>1, <1>2, <1>3, <1>4, <1>5, <1>6, <1>7 DEF ThreadStep

(* Every step keeps what is said of the rings. *)
LEMMA RingStep ==
    ASSUME KeepsUp, Typed, RingInv, Next
    PROVE  RingInv'
<1>1. plan' = plan
  BY Steps
<1>2. ASSUME NEW c \in Contexts, ThreadStep(c)
      PROVE  RingInv'
  BY <1>1, <1>2, OtherContexts, OwnContext DEF RingInv
<1> QED  BY <1>1, <1>2, Steps, LoadInv, RunInv, UnloadInv

-----------------------------------------------------------------------------
(* Types. *)

(* One value of a function is replaced. *)
LEMMA Replaced ==
    ASSUME NEW S, NEW T, NEW f \in [S -> T], NEW c \in S, NEW v \in T
    PROVE  [f EXCEPT ![c] = v] \in [S -> T]
OBVIOUS

(* The queue of the engine is replaced. *)
LEMMA QueueReplaced ==
    ASSUME NEW e, NEW N, NEW M,
           e \in [queue : Seq(Contexts), loaded : N, head : M, tail : M, last : N],
           NEW q \in Seq(Contexts)
    PROVE  [e EXCEPT !.queue = q] \in
              [queue : Seq(Contexts), loaded : N, head : M, tail : M, last : N]
OBVIOUS

(* The types of what a step of a thread changes. *)
LEMMA TypedThread ==
    ASSUME Typed, RoomInv, plan' = plan, NEW c \in Contexts, ThreadStep(c)
    PROVE  Typed'
<1>0. /\ RingSize' = RingSize /\ FenceMod' = FenceMod /\ Unit' = Unit
      /\ CmdSize \in Nat /\ CmdSize >= 1 /\ RingSize \in Nat /\ 2 * CmdSize < RingSize
      /\ FenceMod \in Nat /\ FenceMod > 1
      /\ \A x \in 0 .. FenceMod - 1 : (x + 1) % FenceMod \in 0 .. FenceMod - 1
  <2>1. /\ RingSize' = RingSize /\ FenceMod' = FenceMod /\ Unit' = Unit
        /\ CmdSize \in Nat /\ CmdSize >= 1 /\ RingSize \in Nat /\ 2 * CmdSize < RingSize
        /\ FenceMod \in Nat /\ RingSize \div CmdSize + 1 < FenceMod
    BY SameSizes, Sizes DEF Typed
  <2>2. FenceMod > 1
    BY <2>1
  <2>3. \A x \in 0 .. FenceMod - 1 : (x + 1) % FenceMod \in 0 .. FenceMod - 1
    BY <2>1, <2>2, OneFurther
  <2> QED  BY <2>1, <2>2, <2>3
<1>1. Noop \in Unit /\ \A f \in 0 .. FenceMod - 1, i \in 0 .. CmdSize - 1 : Cmd(f, i) \in Unit
  BY <1>0 DEF Noop, Cmd, Unit
<1>2. plan \in DOMAIN Plans /\ plan' \in DOMAIN Plans
  BY DEF Typed
<1>3. CASE \E override \in BOOLEAN : Prepare(c, override)
  <2> PICK override \in BOOLEAN : Prepare(c, override)
    BY <1>3
  <2> DEFINE v == [fence |-> NextFence(contextFence[c]), override |-> override]
  <2>1. local' = [local EXCEPT ![c] = v]
    BY DEF Prepare
  <2>2. contextFence[c] \in 0 .. FenceMod - 1
    BY DEF Typed, TypeOK
  <2>3. v \in [fence : 0 .. FenceMod - 1, override : BOOLEAN]
    BY <1>0, <2>2 DEF NextFence
  <2> HIDE DEF v
  <2>4. local' \in [Contexts -> [fence : 0 .. FenceMod - 1, override : BOOLEAN]]
    BY <2>1, <2>3, Replaced DEF Typed, TypeOK
  <2>5. pc' \in [Contexts -> {"idle", "lock", "wait", "write", "fencePoll", "isActive"}]
    BY DEF Prepare, Goto, Typed, TypeOK
  <2>6. UNCHANGED <<ringTail, contextFence, memory, lock, engine, outstanding, query>>
    BY DEF Prepare
  <2> QED  BY <1>0, <1>2, <2>4, <2>5, <2>6 DEF Typed, TypeOK, memory
<1>4. CASE LockRing(c)
  <2>1. ring' \in [Contexts -> [0 .. RingSize - 1 -> Unit]]
    <3>1. ring \in [Contexts -> [0 .. RingSize - 1 -> Unit]]
      BY DEF Typed, TypeOK
    <3>2. CASE RingFull(ringTail[c])
      <4>1. /\ DOMAIN ring' = Contexts /\ ring' = [d \in DOMAIN ring' |-> ring'[d]]
            /\ \A d \in Contexts : d # c => ring'[d] = ring[d]
            /\ ring'[c] = Padded(ring[c], ringTail[c])
        BY <1>4, <3>1, <3>2 DEF LockRing, Padded
      <4>2. Padded(ring[c], ringTail[c]) \in [0 .. RingSize - 1 -> Unit]
        BY <1>1, <3>1 DEF Padded
      <4>3. \A d \in Contexts : ring'[d] \in [0 .. RingSize - 1 -> Unit]
        BY <3>1, <4>1, <4>2
      <4> QED  BY <4>1, <4>3
    <3>3. CASE ~RingFull(ringTail[c])
      BY <1>4, <3>1, <3>3 DEF LockRing
    <3> QED  BY <3>2, <3>3
  <2>2. ringTail' \in [Contexts -> 0 .. RingSize - 1]
    <3>1. 0 \in 0 .. RingSize - 1 /\ ringTail \in [Contexts -> 0 .. RingSize - 1]
      BY <1>0 DEF Typed, TypeOK
    <3>2. ringTail' = ringTail \/ ringTail' = [ringTail EXCEPT ![c] = 0]
      BY <1>4 DEF LockRing
    <3> QED  BY <3>1, <3>2, Replaced
  <2> QED  BY <1>0, <1>2, <1>4, <2>1, <2>2 DEF LockRing, Typed, TypeOK, Goto
<1>5. CASE PollForCompletion(c) \/ StartFencePoll(c) \/ FencePollEnds(c)
  BY <1>0, <1>2, <1>5 DEF PollForCompletion, StartFencePoll, FencePollEnds, Typed, TypeOK, Goto, memory
<1>6. CASE Submit(c)
  <2>1. ringTail[c] \in 0 .. RingSize - 1 /\ ringTail[c] + CmdSize \in 0 .. RingSize - 1
    <3>1. ~RingFull(ringTail[c])
      BY <1>6 DEF Submit, At, RoomInv
    <3>2. ringTail[c] \in 0 .. RingSize - 1
      BY DEF Typed, TypeOK
    <3> QED  BY <1>0, <3>1, <3>2 DEF RingFull
  <2>2. ringTail' \in [Contexts -> 0 .. RingSize - 1]
    BY <1>6, <2>1 DEF Submit, Typed, TypeOK
  <2>3. ring' \in [Contexts -> [0 .. RingSize - 1 -> Unit]]
    <3>1. local[c].fence \in 0 .. FenceMod - 1
      BY DEF Typed, TypeOK
    <3>2. \A u \in ringTail[c] .. ringTail[c] + CmdSize - 1 :
             Cmd(local[c].fence, u - ringTail[c]) \in Unit
      <4>1. \A u \in ringTail[c] .. ringTail[c] + CmdSize - 1 : u - ringTail[c] \in 0 .. CmdSize - 1
        BY <1>0, <2>1
      <4> QED  BY <1>1, <3>1, <4>1
    <3>3. ring \in [Contexts -> [0 .. RingSize - 1 -> Unit]]
      BY DEF Typed, TypeOK
    <3>4. /\ DOMAIN ring' = Contexts /\ ring' = [d \in DOMAIN ring' |-> ring'[d]]
          /\ \A d \in Contexts : d # c => ring'[d] = ring[d]
          /\ DOMAIN ring'[c] = 0 .. RingSize - 1
          /\ ring'[c] = [u \in DOMAIN ring'[c] |-> ring'[c][u]]
      BY <1>6, <3>3 DEF Submit
    <3>5. \A u \in 0 .. RingSize - 1 : ring'[c][u] \in Unit
      BY <1>0, <1>6, <2>1, <3>2, <3>3 DEF Submit
    <3>6. \A d \in Contexts : ring'[d] \in [0 .. RingSize - 1 -> Unit]
      BY <3>3, <3>4, <3>5
    <3> QED  BY <3>4, <3>6
  <2>4. lrca' \in [Contexts -> [head : 0 .. RingSize - 1, tail : 0 .. RingSize - 1]]
    BY <1>6, <2>1 DEF Submit, Typed, TypeOK
  <2>5. /\ contextFence' \in [Contexts -> 0 .. FenceMod - 1]
        /\ outstanding' \in [Contexts -> Seq(0 .. FenceMod - 1)]
    <3>1. contextFence' \in [Contexts -> 0 .. FenceMod - 1]
      BY <1>0, <1>6 DEF Submit, Typed, TypeOK
    <3> QED  BY <1>6, <3>1 DEF Submit, Typed
  <2>6. engine' \in [queue : Seq(Contexts), loaded : Contexts \cup {None},
                     head : 0 .. RingSize - 1, tail : 0 .. RingSize - 1,
                     last : Contexts \cup {None}]
    <3>1. Append(engine.queue, c) \in Seq(Contexts)
      BY DEF Typed
    <3>2. engine' = [engine EXCEPT !.queue = Append(engine.queue, c)]
      BY <1>6 DEF Submit
    <3> QED  BY <3>1, <3>2, QueueReplaced DEF Typed
  <2>7. pc' \in [Contexts -> {"idle", "lock", "wait", "write", "fencePoll", "isActive"}]
    BY <1>6 DEF Submit, Goto, Typed, TypeOK
  <2>8. local' = local /\ fenceMem' = fenceMem /\ query' = query /\ lock' = None
    BY <1>6 DEF Submit
  <2>9. TypeOK'
    BY <1>0, <2>2, <2>3, <2>4, <2>5, <2>6, <2>7, <2>8 DEF Typed, TypeOK
  <2> QED  BY <1>0, <1>2, <2>5, <2>6, <2>8, <2>9 DEF Typed
<1>7. CASE Resubmit(c)
  <2>1. engine' \in [queue : Seq(Contexts), loaded : Contexts \cup {None},
                     head : 0 .. RingSize - 1, tail : 0 .. RingSize - 1,
                     last : Contexts \cup {None}]
    <3>1. Append(engine.queue, c) \in Seq(Contexts)
      BY DEF Typed
    <3>2. engine' = [engine EXCEPT !.queue = Append(engine.queue, c)]
      BY <1>7 DEF Resubmit
    <3> QED  BY <3>1, <3>2, QueueReplaced DEF Typed
  <2> QED  BY <1>0, <1>2, <1>7, <2>1 DEF Resubmit, Typed, TypeOK, user, memory
<1>8. CASE ReadFirstHalf(c) \/ ReadSecondHalf(c)
  <2>1. query' \in [Contexts -> [answer : BOOLEAN \cup {None}, wasActive : BOOLEAN,
                                 wasIdle : BOOLEAN]]
    <3> DEFINE T == [answer : BOOLEAN \cup {None}, wasActive : BOOLEAN, wasIdle : BOOLEAN]
    <3>1. query \in [Contexts -> T] /\ query[c] \in T
      BY DEF Typed
    <3>2. \A k \in {1, 2} : StatusSays(ReadOrder[k], c) \in BOOLEAN
      BY DEF StatusSays
    <3>3. CASE ReadFirstHalf(c)
      <4> DEFINE v == [answer |-> IF StatusSays(ReadOrder[1], c) THEN None ELSE FALSE,
                       wasActive |-> Active(c), wasIdle |-> ~Active(c)]
      <4>1. query' = [query EXCEPT ![c] = v]
        BY <3>3 DEF ReadFirstHalf
      <4>2. Active(c) \in BOOLEAN
        BY DEF Active
      <4>3. v \in T
        BY <4>2
      <4> HIDE DEF v, T
      <4>4. query' \in [Contexts -> T]
        BY <3>1, <4>1, <4>3, Replaced
      <4> QED  BY <4>4 DEF T
    <3>4. CASE ReadSecondHalf(c)
      <4> DEFINE v == [query[c] EXCEPT !.answer = StatusSays(ReadOrder[2], c)]
      <4>1. query' = [query EXCEPT ![c] = v]
        BY <3>4 DEF ReadSecondHalf
      <4>2. v \in T
        BY <3>1, <3>2
      <4> HIDE DEF v, T
      <4>3. query' \in [Contexts -> T]
        BY <3>1, <4>1, <4>2, Replaced
      <4> QED  BY <4>3 DEF T
    <3> QED  BY <1>8, <3>3, <3>4
  <2>2. pc' \in [Contexts -> {"idle", "lock", "wait", "write", "fencePoll", "isActive"}]
    BY <1>8 DEF ReadFirstHalf, ReadSecondHalf, Goto, Typed, TypeOK
  <2> QED  BY ZenonT(30), <1>0, <1>2, <1>8, <2>1, <2>2 DEF ReadFirstHalf, ReadSecondHalf, Typed, TypeOK, memory
<1>9. CASE Reopen(c)
  <2>1. ring' \in [Contexts -> [0 .. RingSize - 1 -> Unit]]
    BY <1>1, <1>9 DEF Reopen, Typed, TypeOK
  <2>2. /\ lrca' \in [Contexts -> [head : 0 .. RingSize - 1, tail : 0 .. RingSize - 1]]
        /\ fenceMem' \in [Contexts -> 0 .. FenceMod - 1]
    <3> DEFINE v == [head |-> 0, tail |-> 0]
    <3>1. 0 \in 0 .. RingSize - 1 /\ contextFence[c] \in 0 .. FenceMod - 1
      BY <1>0 DEF Typed, TypeOK
    <3>2. v \in [head : 0 .. RingSize - 1, tail : 0 .. RingSize - 1]
      BY <3>1
    <3>3. /\ lrca' = [lrca EXCEPT ![c] = v]
          /\ fenceMem' = [fenceMem EXCEPT ![c] = contextFence[c]]
      BY <1>9 DEF Reopen
    <3> HIDE DEF v
    <3>4. lrca' \in [Contexts -> [head : 0 .. RingSize - 1, tail : 0 .. RingSize - 1]]
      BY <3>2, <3>3, Replaced DEF Typed, TypeOK
    <3>5. fenceMem' \in [Contexts -> 0 .. FenceMod - 1]
      BY <3>1, <3>3, Replaced DEF Typed, TypeOK
    <3> QED  BY <3>4, <3>5
  <2> QED  BY <1>0, <1>2, <1>9, <2>1, <2>2 DEF Reopen, Typed, TypeOK, user
<1> QED  BY <1>3, <1>4, <1>5, <1>6, <1>7, <1>8, <1>9 DEF ThreadStep

(* The types of what the engine changes. *)
LEMMA TypedEngine ==
    ASSUME Typed, plan' = plan, EngineLoad \/ EngineRun \/ EngineUnload
    PROVE  Typed'
<1> DEFINE EngineType == [queue : Seq(Contexts), loaded : Contexts \cup {None},
                          head : 0 .. RingSize - 1, tail : 0 .. RingSize - 1,
                          last : Contexts \cup {None}]
           QueryType == [answer : BOOLEAN \cup {None}, wasActive : BOOLEAN, wasIdle : BOOLEAN]
           ImageType == [head : 0 .. RingSize - 1, tail : 0 .. RingSize - 1]
<1>0. /\ RingSize' = RingSize /\ FenceMod' = FenceMod /\ Unit' = Unit
      /\ RingSize \in Nat /\ RingSize > 0 /\ None \notin Contexts
      /\ plan \in DOMAIN Plans /\ plan' \in DOMAIN Plans
  BY SameSizes, Sizes DEF Typed
<1>1. /\ engine \in EngineType /\ query \in [Contexts -> QueryType]
      /\ lrca \in [Contexts -> ImageType]
  BY DEF Typed, TypeOK
<1>2. ASSUME engine' \in EngineType, query' \in [Contexts -> QueryType],
             lrca' \in [Contexts -> ImageType],
             outstanding' \in [Contexts -> Seq(0 .. FenceMod - 1)],
             fenceMem' \in [Contexts -> 0 .. FenceMod - 1],
             UNCHANGED <<user, ring, lock>>
      PROVE  Typed'
  <2>1. TypeOK'
    BY <1>0, <1>2 DEF Typed, TypeOK, user
  <2> QED  BY <1>0, <1>2, <2>1 DEF Typed
<1>3. CASE EngineLoad
  <2>1. engine.queue \in Seq(Contexts) /\ engine.queue # << >>
    BY <1>1, <1>3 DEF EngineLoad
  <2> PICK c \in Contexts : c = Head(engine.queue)
    BY <2>1, QueueTail
  <2>2. Tail(engine.queue) \in Seq(Contexts)
    BY <2>1, QueueTail
  <2>3. /\ engine' = [queue |-> Tail(engine.queue), loaded |-> c,
                      head |-> lrca[c].head, tail |-> lrca[c].tail, last |-> c]
        /\ query' = [query EXCEPT ![c] = [query[c] EXCEPT !.wasActive = TRUE]]
        /\ UNCHANGED <<user, memory, lock, outstanding>>
    BY <1>3 DEF EngineLoad
  <2>4. lrca[c] \in ImageType
    BY <1>1
  <2>5. engine' \in EngineType
    BY <2>2, <2>3, <2>4
  <2>6. query' \in [Contexts -> QueryType]
    <3> DEFINE v == [query[c] EXCEPT !.wasActive = TRUE]
    <3>1. v \in QueryType
      BY <1>1
    <3> HIDE DEF v, QueryType
    <3> QED  BY <1>1, <2>3, <3>1, Replaced DEF v
  <2> QED  BY <1>1, <1>2, <2>3, <2>5, <2>6 DEF memory, Typed, TypeOK
<1>4. CASE EngineRun
  <2> PICK c \in Contexts : c = engine.loaded
    BY <1>1, <1>4 DEF EngineRun
  <2>1. engine' = [engine EXCEPT !.head = (engine.head + 1) % RingSize]
    BY <1>4 DEF EngineRun
  <2>2. engine.head \in 0 .. RingSize - 1
    BY <1>1
  <2>3. (engine.head + 1) % RingSize \in 0 .. RingSize - 1
    BY <1>0, <2>2, OneFurther
  <2>4. engine' \in EngineType
    BY <1>1, <2>1, <2>3
  <2>5. ring[c][engine.head].fence \in {None} \cup 0 .. FenceMod - 1
    <3>1. ring[c] \in [0 .. RingSize - 1 -> Unit]
      BY DEF Typed, TypeOK
    <3>2. ring[c][engine.head] \in Unit
      BY <2>2, <3>1
    <3> QED  BY <3>2 DEF Unit
  <2>6. fenceMem' \in [Contexts -> 0 .. FenceMod - 1]
    <3> DEFINE v == IF ring[c][engine.head].unit = CmdSize - 1 /\ ring[c][engine.head].fence # None
                    THEN ring[c][engine.head].fence ELSE fenceMem[c]
    <3>1. v \in 0 .. FenceMod - 1
      BY <2>5 DEF Typed, TypeOK
    <3>2. fenceMem' = [fenceMem EXCEPT ![c] = v]
      BY <1>4 DEF EngineRun
    <3> HIDE DEF v
    <3> QED  BY <3>1, <3>2, Replaced DEF Typed, TypeOK
  <2>7. outstanding' \in [Contexts -> Seq(0 .. FenceMod - 1)]
    <3>1. \/ outstanding' = [outstanding EXCEPT ![c] = outstanding[c]]
          \/ outstanding[c] # << >> /\ outstanding' = [outstanding EXCEPT ![c] = Tail(outstanding[c])]
      BY <1>4 DEF EngineRun
    <3>2. outstanding[c] \in Seq(0 .. FenceMod - 1)
      BY DEF Typed
    <3>3. outstanding[c] # << >> => Tail(outstanding[c]) \in Seq(0 .. FenceMod - 1)
      BY <3>2, TailFacts
    <3> QED  BY <3>1, <3>2, <3>3, Replaced DEF Typed
  <2> QED  BY <1>1, <1>2, <1>4, <2>4, <2>6, <2>7 DEF EngineRun
<1>5. CASE EngineUnload
  <2> PICK c \in Contexts : c = engine.loaded
    BY <1>1, <1>5 DEF EngineUnload
  <2>1. engine' \in EngineType
    BY <1>1, <1>5 DEF EngineUnload
  <2>2. lrca' \in [Contexts -> ImageType]
    <3> DEFINE v == [lrca[c] EXCEPT !.head = engine.head]
    <3>1. v \in ImageType
      BY <1>1
    <3>2. lrca' = [lrca EXCEPT ![c] = v]
      BY <1>5 DEF EngineUnload
    <3> HIDE DEF v, ImageType
    <3> QED  BY <1>1, <3>1, <3>2, Replaced
  <2>3. query' \in [Contexts -> QueryType]
    <3> DEFINE v == [query[c] EXCEPT !.wasIdle = TRUE]
    <3>1. v \in QueryType
      BY ZenonT(30), <1>1
    <3>2. query' = [query EXCEPT ![c] = v]
      BY <1>5 DEF EngineUnload
    <3> HIDE DEF v, QueryType
    <3> QED  BY <1>1, <3>1, <3>2, Replaced
  <2> QED  BY <1>1, <1>2, <1>5, <2>1, <2>2, <2>3 DEF EngineUnload, Typed, TypeOK
<1> QED  BY <1>3, <1>4, <1>5

-----------------------------------------------------------------------------
(***************************************************************************)
(* isActive.  The two halves of the register are read one after the other;  *)
(* what the first one said holds of some time of the call.                  *)
(***************************************************************************)
LEMMA QueryStep ==
    ASSUME Typed, QueryInv, Next
    PROVE  QueryInv'
<1>0. /\ None \notin Contexts /\ None \notin BOOLEAN
      /\ \A c \in Contexts : pc[c] \in {"idle", "lock", "wait", "write", "fencePoll", "isActive"}
  BY HardwareContextAssumption DEF Typed, TypeOK
<1>1. ASSUME NEW c \in Contexts, ReadFirstHalf(c)
      PROVE  QueryInv'
  <2>1. /\ \A d \in Contexts : d # c => query'[d] = query[d] /\ pc'[d] = pc[d]
        /\ engine' = engine
        /\ pc'[c] = "isActive" => engine.loaded # None
        /\ query'[c].answer = None \/ (query'[c].answer = FALSE /\ engine.loaded = None)
        /\ query'[c].wasActive <=> engine.loaded = c
        /\ query'[c].wasIdle <=> engine.loaded # c
    BY <1>1 DEF ReadFirstHalf, StatusSays, ReadOrder, Active, Goto, Typed, TypeOK
  <2> QED  BY <1>0, <2>1 DEF QueryInv
<1>2. ASSUME NEW c \in Contexts, ReadSecondHalf(c)
      PROVE  QueryInv'
  <2>1. /\ \A d \in Contexts : d # c => query'[d] = query[d] /\ pc'[d] = pc[d]
        /\ engine' = engine /\ pc[c] = "isActive" /\ pc'[c] = "idle"
        /\ query'[c].answer <=> engine.last = c
        /\ query'[c].answer \in BOOLEAN
        /\ query'[c].wasActive = query[c].wasActive
        /\ query'[c].wasIdle = query[c].wasIdle
    BY ZenonT(30), <1>2 DEF ReadSecondHalf, StatusSays, ReadOrder, Active, Goto, At, Typed, TypeOK
  <2>2. engine.last # c => engine.loaded # c
    BY <1>0 DEF QueryInv
  <2> QED  BY <1>0, <2>1, <2>2 DEF QueryInv
<1>3. ASSUME NEW c \in Contexts,
             \/ \E override \in BOOLEAN : Prepare(c, override)
             \/ LockRing(c) \/ PollForCompletion(c) \/ Submit(c)
             \/ StartFencePoll(c) \/ FencePollEnds(c) \/ Resubmit(c) \/ Reopen(c)
      PROVE  QueryInv'
  <2>1. query' = query /\ \A d \in Contexts : pc'[d] = "isActive" => pc[d] = "isActive"
    BY <1>3 DEF Prepare, LockRing, PollForCompletion, Submit, StartFencePoll, FencePollEnds,
                Resubmit, Reopen, Goto, At, user, Typed, TypeOK
  <2>2. engine'.loaded = engine.loaded /\ engine'.last = engine.last
    BY <1>3 DEF Prepare, LockRing, PollForCompletion, Submit, StartFencePoll, FencePollEnds,
                Resubmit, Reopen, Typed
  <2> QED  BY <2>1, <2>2 DEF QueryInv
<1>4. CASE EngineLoad
  <2>1. engine.queue \in Seq(Contexts) /\ engine.queue # << >> /\ engine.loaded = None
    BY <1>4 DEF EngineLoad, Typed
  <2> PICK c \in Contexts : c = Head(engine.queue)
    BY <2>1, QueueTail
  <2>2. /\ \A d \in Contexts : d # c => query'[d] = query[d]
        /\ engine'.loaded = c /\ engine'.last = c /\ pc' = pc
        /\ query'[c].answer = query[c].answer
        /\ query'[c].wasActive = TRUE
        /\ query'[c].wasIdle = query[c].wasIdle
    BY <1>4 DEF EngineLoad, user, Typed
  <2> QED  BY <1>0, <2>1, <2>2 DEF QueryInv
<1>5. CASE EngineRun
  <2>1. engine'.loaded = engine.loaded /\ engine'.last = engine.last /\ pc' = pc /\ query' = query
    BY <1>5 DEF EngineRun, user, Typed
  <2> QED  BY <2>1 DEF QueryInv
<1>6. CASE EngineUnload
  <2> PICK c \in Contexts : c = engine.loaded
    BY <1>6 DEF EngineUnload, Typed
  <2>2. /\ \A d \in Contexts : d # c => query'[d] = query[d]
        /\ engine'.loaded = None /\ engine'.last = engine.last /\ pc' = pc
        /\ query'[c].answer = query[c].answer
        /\ query'[c].wasActive = query[c].wasActive
        /\ query'[c].wasIdle = TRUE
    BY <1>6 DEF EngineUnload, user, Typed
  <2> QED  BY <1>0, <2>2 DEF QueryInv
<1> QED  BY <1>1, <1>2, <1>3, <1>4, <1>5, <1>6, Steps DEF ThreadStep

(* Room is made before anything is written. *)
LEMMA RoomStep ==
    ASSUME Typed, RoomInv, Next
    PROVE  RoomInv'
<1>0. plan' = plan /\ ~RingFull(0)
  BY Steps, Sizes DEF Typed, RingFull
<1>1. \A x : RingFull(x)' <=> RingFull(x)
  BY <1>0 DEF RingFull, RingSize
<1>2. ASSUME NEW c \in Contexts, ThreadStep(c)
      PROVE  /\ pc'[c] = "wait" => ringTail'[c] = 0
             /\ pc'[c] = "write" => ~RingFull(ringTail'[c])
             /\ \A d \in Contexts : d # c => pc'[d] = pc[d] /\ ringTail'[d] = ringTail[d]
  <2>0. DOMAIN pc = Contexts /\ DOMAIN ringTail = Contexts
    BY DEF Typed, TypeOK
  <2>1. CASE \E override \in BOOLEAN : Prepare(c, override)
    BY <2>0, <2>1 DEF Prepare, Goto
  <2>2. CASE LockRing(c)
    BY <2>0, <2>2 DEF LockRing, Goto
  <2>3. CASE PollForCompletion(c)
    BY <1>0, <2>0, <2>3 DEF PollForCompletion, Goto, At, RoomInv
  <2>4. CASE Submit(c)
    BY <2>0, <2>4 DEF Submit, Goto
  <2>5. CASE StartFencePoll(c) \/ FencePollEnds(c) \/ ReadFirstHalf(c) \/ ReadSecondHalf(c)
    BY <2>0, <2>5 DEF StartFencePoll, FencePollEnds, ReadFirstHalf, ReadSecondHalf, Goto
  <2>6. CASE Resubmit(c) \/ Reopen(c)
    BY <2>6 DEF Resubmit, Reopen, user, RoomInv
  <2> QED  BY <1>2, <2>1, <2>2, <2>3, <2>4, <2>5, <2>6 DEF ThreadStep
<1>3. ASSUME NEW c \in Contexts, ThreadStep(c)
      PROVE  RoomInv'
  BY <1>1, <1>2, <1>3 DEF RoomInv
<1>4. CASE EngineLoad \/ EngineRun \/ EngineUnload
  BY <1>1, <1>4 DEF EngineLoad, EngineRun, EngineUnload, user, RoomInv
<1> QED  BY <1>3, <1>4, Steps

(* Every step keeps the types. *)
LEMMA TypedStep ==
    ASSUME Typed, RoomInv, Next
    PROVE  Typed'
BY Steps, TypedThread, TypedEngine

(* A new ring holds nothing, and nothing is to run. *)
LEMMA FreshLaid ==
    ASSUME plan \in DOMAIN Plans, NEW rg
    PROVE  Laid(rg, 0, 0, << >>)
<1>1. CmdSize \in Nat /\ CmdSize >= 1
  BY Sizes
<1>2. Len(<< >>) = 0
  OBVIOUS
<1>3. SizeOf(0) = 0
  BY SizeFacts
<1>4. First(0, << >>) = 0
  BY <1>2, <1>3 DEF First
<1>5. Held(rg, 0, << >>)
  BY <1>2, <1>4 DEF Held
<1>6. Straight(rg, 0, 0, << >>)
  BY <1>1, <1>4 DEF Straight, Blank
<1> QED  BY <1>5, <1>6 DEF Laid

(* The first states. *)
LEMMA InitInv ==
    ASSUME Init
    PROVE  Inv
<1>0. /\ plan \in DOMAIN Plans /\ CmdSize \in Nat /\ CmdSize >= 1
      /\ RingSize \in Nat /\ 2 * CmdSize < RingSize /\ FenceMod \in Nat
      /\ RingSize \div CmdSize + 1 < FenceMod
      /\ None \notin Contexts /\ None \notin BOOLEAN
  BY Sizes DEF Init
<1>1. 0 \in 0 .. RingSize - 1 /\ 0 \in 0 .. FenceMod - 1 /\ 0 \in 0 .. CmdSize - 1
  BY <1>0
<1>2. Noop \in Unit
  BY <1>1 DEF Noop, Unit
<1>3. /\ pc \in [Contexts -> {"idle", "lock", "wait", "write", "fencePoll", "isActive"}]
      /\ local \in [Contexts -> [fence : 0 .. FenceMod - 1, override : BOOLEAN]]
      /\ ringTail \in [Contexts -> 0 .. RingSize - 1]
      /\ contextFence \in [Contexts -> 0 .. FenceMod - 1]
      /\ lrca \in [Contexts -> [head : 0 .. RingSize - 1, tail : 0 .. RingSize - 1]]
      /\ fenceMem \in [Contexts -> 0 .. FenceMod - 1]
  BY <1>1 DEF Init
<1>4. ring \in [Contexts -> [0 .. RingSize - 1 -> Unit]]
  BY <1>2 DEF Init
<1>5. engine \in [queue : Seq(Contexts), loaded : Contexts \cup {None},
                  head : 0 .. RingSize - 1, tail : 0 .. RingSize - 1,
                  last : Contexts \cup {None}]
  BY <1>1 DEF Init
<1>6. /\ outstanding \in [Contexts -> Seq(0 .. FenceMod - 1)]
      /\ query \in [Contexts -> [answer : BOOLEAN \cup {None}, wasActive : BOOLEAN,
                                 wasIdle : BOOLEAN]]
  BY DEF Init, NoQuery
<1>7. lock = None /\ engine.loaded = None
  BY DEF Init
<1>8. Typed
  BY <1>0, <1>3, <1>4, <1>5, <1>6, <1>7 DEF Typed, TypeOK
<1>9. \A c \in Contexts :
         /\ pc[c] = "idle" /\ ringTail[c] = 0 /\ contextFence[c] = 0 /\ fenceMem[c] = 0
         /\ lrca[c].head = 0 /\ lrca[c].tail = 0 /\ outstanding[c] = << >>
         /\ query[c].answer = None /\ engine.loaded = None
  BY DEF Init, NoQuery
<1>10. RoomInv
  BY <1>9 DEF RoomInv
<1>11. QueryInv
  BY <1>0, <1>7, <1>9 DEF QueryInv
<1>12. ASSUME NEW c \in Contexts
       PROVE  ContextInv(c)
  <2>1. ~Active(c) /\ HeadOf(c) = 0
    BY <1>0, <1>9 DEF Active, HeadOf
  <2>2. RingOf(c)
    BY <1>0, <1>9, <2>1, FreshLaid DEF RingOf
  <2>3. Len(outstanding[c]) = 0
    BY <1>9
  <2>4. Later(0, 0) = 0
    BY <1>0, <1>1 DEF Later
  <2>5. FencesOf(c)
    BY <1>9, <2>3, <2>4 DEF FencesOf, Follow
  <2>6. Place(0)
    BY SizeFacts DEF Place
  <2>7. TailOf(c)
    BY <1>9, <2>6 DEF TailOf
  <2>8. EngineOf(c)
    BY <1>9, <2>1 DEF EngineOf
  <2> QED  BY <2>2, <2>5, <2>7, <2>8 DEF ContextInv
<1> QED  BY <1>8, <1>10, <1>11, <1>12 DEF Inv, RingInv

(* Without a step nothing changes. *)
LEMMA StutterInv ==
    ASSUME UNCHANGED vars
    PROVE  /\ Typed => Typed'
           /\ RoomInv => RoomInv'
           /\ QueryInv => QueryInv'
           /\ RingInv => RingInv'
<1>1. Typed => Typed'
  BY DEF vars, user, memory, Typed, TypeOK, RingSize, FenceMod, Unit
<1>2. RoomInv => RoomInv'
  BY DEF vars, user, memory, RoomInv, RingFull, RingSize
<1>3. QueryInv => QueryInv'
  BY DEF vars, user, QueryInv
<1>4. ASSUME NEW c \in Contexts, ContextInv(c)
      PROVE  ContextInv(c)'
  <2>1. Untouched(c)
    BY DEF vars, user, memory, Untouched, Active, Queued
  <2>2. pc'[c] = pc[c] /\ local'[c] = local[c]
    BY DEF vars, user
  <2> QED  BY <1>4, <2>1, <2>2, UntouchedInv
<1> QED  BY <1>1, <1>2, <1>3, <1>4 DEF RingInv

-----------------------------------------------------------------------------
(* The theorems. *)

(* Types, room and queries need nothing of the engine's pace. *)
THEOREM TypesHold == Spec => [](Typed /\ RoomInv /\ QueryInv)
<1>1. Init => Typed /\ RoomInv /\ QueryInv
  BY InitInv DEF Inv
<1>2. Typed /\ RoomInv /\ QueryInv /\ [Next]_vars => (Typed /\ RoomInv /\ QueryInv)'
  BY TypedStep, RoomStep, QueryStep, StutterInv
<1> QED  BY <1>1, <1>2, PTL DEF Spec

(***************************************************************************)
(* If no engine falls a lap of its ring behind, the invariant holds in      *)
(* every reachable state.                                                   *)
(***************************************************************************)
THEOREM InvHolds ==
    ASSUME KeepsUp
    PROVE  Spec => []Inv
<1>1. Init => Inv
  BY InitInv
<1>2. Inv /\ [Next]_vars => Inv'
  BY TypedStep, RoomStep, QueryStep, RingStep, StutterInv DEF Inv
<1> QED  BY <1>1, <1>2, PTL DEF Spec

(***************************************************************************)
(* isActive() answers truly although EXECLIST_STATUS changes between its    *)
(* two reads (hardware_context_imp.cpp: isActive), for any number of        *)
(* contexts that share the engine, and whether or not the engine keeps up.  *)
(***************************************************************************)
THEOREM IsActiveIsTrue == Spec => []IsActiveCorrect
<1>1. QueryInv => IsActiveCorrect
  BY DEF QueryInv, IsActiveCorrect
<1> QED  BY <1>1, TypesHold, PTL

(***************************************************************************)
(* What submitBatchBuffer has written is in the ring until it has run, is   *)
(* run once and in order, and no submission is cut by the end of the ring:  *)
(* for rings and submissions of every size, as long as the engine does not  *)
(* fall a whole lap behind, which the code does not look at.                *)
(***************************************************************************)
THEOREM RingKeepsSubmissions ==
    ASSUME KeepsUp
    PROVE  Spec => []RingHoldsOutstanding
<1>1. ASSUME Inv, NEW c \in Contexts
      PROVE  /\ Oldest(c) >= 0
             /\ \A k \in 1 .. Len(outstanding[c]), i \in 0 .. CmdSize - 1 :
                   InRing(c, k, i) = Cmd(outstanding[c][k], i)
             /\ outstanding[c] # << >> => HeadOf(c) # lrca[c].tail
             /\ \/ /\ outstanding[c] # << >>
                   /\ HeadOf(c) - Oldest(c) \in 1 .. CmdSize - 1
                \/ \A u \in Way(HeadOf(c), Oldest(c)) : ring[c][u] = Noop
  <2> DEFINE h == HeadOf(c)
             t == lrca[c].tail
             out == outstanding[c]
             rg == ring[c]
  <2>0. /\ plan \in DOMAIN Plans /\ h \in Units /\ t \in Units /\ out \in Seq(Fences)
    BY <1>1, Types DEF Inv
  <2>1. Laid(rg, h, t, out)
    BY <1>1 DEF Inv, RingInv, ContextInv, RingOf
  <2>2. Oldest(c) = First(t, out)
    BY DEF Oldest, First
  <2>3. \A k, i : InRing(c, k, i) = rg[First(t, out) + SizeOf(k - 1) + i]
    BY <2>2 DEF InRing
  <2> HIDE DEF h, t, out, rg
  <2>4. /\ h \in Nat /\ t \in Nat /\ First(t, out) \in Int /\ RingSize \in Nat /\ CmdSize \in Nat
        /\ out = << >> => First(t, out) = t
    BY <2>0, NoneTakesNone, Sizes DEF First, Units
  <2>5. CASE Straight(rg, h, t, out)
    <3>1. out # << >> => h # t
      BY <2>5 DEF Straight
    <3>2. CASE h <= First(t, out)
      <4>1. \A u \in Way(h, First(t, out)) : rg[u] = Noop
        BY <2>5, <3>2 DEF Straight, Blank, Way
      <4> QED  BY <2>1, <2>2, <2>3, <3>1, <4>1 DEF Laid, Held, h, t, out, rg
    <3>3. CASE h > First(t, out)
      <4>1. out # << >>
        BY <2>4, <2>5, <3>3 DEF Straight
      <4>2. h - First(t, out) \in 1 .. CmdSize - 1
        BY <2>4, <2>5, <3>3 DEF Straight
      <4> QED  BY <2>1, <2>2, <2>3, <3>1, <4>1, <4>2 DEF Laid, Held, h, t, out, rg
    <3> QED  BY <2>4, <3>2, <3>3
  <2>6. CASE Wrapped(rg, h, t, out)
    <3>1. t < h /\ First(t, out) = 0
      BY <2>6 DEF Wrapped
    <3>2. Way(h, First(t, out)) = h .. RingSize - 1
      BY <2>4, <3>1 DEF Way
    <3>3. \A u \in Way(h, First(t, out)) : rg[u] = Noop
      BY <2>6, <3>2 DEF Wrapped, Blank
    <3>4. h # t
      BY <2>4, <3>1
    <3> QED  BY <2>1, <2>2, <2>3, <3>3, <3>4 DEF Laid, Held, h, t, out, rg
  <2> QED  BY <2>1, <2>5, <2>6 DEF Laid
<1>2. Inv => RingHoldsOutstanding
  BY <1>1 DEF RingHoldsOutstanding, Inv, Typed
<1> QED  BY <1>2, InvHolds, PTL

(***************************************************************************)
(* pollForFenceCompletion() may compare for equality although the fence is  *)
(* a counter that wraps: the value in memory is the one of the context      *)
(* exactly when everything that was submitted has run.                      *)
(***************************************************************************)
THEOREM FenceTellsCompletion ==
    ASSUME KeepsUp
    PROVE  Spec => []FenceMeansDone
<1>1. ASSUME Inv, NEW c \in Contexts
      PROVE  (fenceMem[c] = contextFence[c]) <=> (outstanding[c] = << >>)
  <2>0. /\ plan \in DOMAIN Plans /\ lrca[c].tail \in Units
        /\ outstanding[c] \in Seq(Fences) /\ fenceMem[c] \in Fences
    BY <1>1, Types DEF Inv
  <2>1. First(lrca[c].tail, outstanding[c]) >= 0
    BY <1>1 DEF Inv, RingInv, ContextInv, RingOf, Laid, Held
  <2>2. SizeOf(Len(outstanding[c])) < RingSize /\ Len(outstanding[c]) \in Nat
    BY <2>0, <2>1, NoneTakesNone, Sizes DEF First, Units
  <2>3. Len(outstanding[c]) + 1 < FenceMod /\ FenceMod \in Nat
    BY <2>0, <2>2, SizeBound, Sizes
  <2>4. contextFence[c] = Later(fenceMem[c], Len(outstanding[c]))
    BY <1>1 DEF Inv, RingInv, ContextInv, FencesOf, Follow
  <2>5. fenceMem[c] \in 0 .. FenceMod - 1
    BY <2>0 DEF Fences
  <2>6. fenceMem[c] = contextFence[c] <=> Len(outstanding[c]) = 0
    BY <2>2, <2>3, <2>4, <2>5 DEF Later
  <2> QED  BY <2>0, <2>6
<1>2. Inv => FenceMeansDone
  BY <1>1 DEF FenceMeansDone
<1> QED  BY <1>2, InvHolds, PTL
=============================================================================
