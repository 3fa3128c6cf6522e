------------------------ MODULE TensorParallelProofs ------------------------
(***************************************************************************)
(* For every number of ranks, of layers and of steps in the broadcast      *)
(* queue, and whatever each rank sees of arrivals and of its child: the    *)
(* ranks' all-reduces always belong together, and the trigger of a         *)
(* backward and its ack are never lost or doubled on their way.            *)
(***************************************************************************)
EXTENDS TensorParallel, SequenceTheorems, FiniteSetTheorems, TLAPS

Working == {"relay", "ack", "output"}

RankPc == {"idle", "entry", "forward", "layer"} \union Working

\* A step whose forward the ranks may abandon together.
Polled(step) == Interruptible /\ FtOnly(step)

\* A step a rank takes without an all-reduce, if no backward is outstanding.
Silent(step) == ~Polled(step) /\ ~step.cmd

\* What rank r still has to process is the end of what rank q has.
Behind(r, q) == Len(todo[q]) - Len(todo[r])

Follows(r, q) ==
    \A j \in 1 .. Len(todo[r]) : todo[r][j] = todo[q][Behind(r, q) + j]

IsSeq(t) == t \in Seq({t[i] : i \in DOMAIN t})

VoteType ==
    /\ todo = [r \in Ranks |-> todo[r]]
    /\ rank_pc \in [Ranks -> RankPc]
    /\ layer \in [Ranks -> Nat]
    /\ aborted \in [Ranks -> BOOLEAN]
    /\ relay \in [Ranks -> {"none", "pending", "ack"}]

\* What holds of a rank by itself.
RankInv(r) ==
    /\ IsSeq(todo[r])
    /\ rank_pc[r] # "idle" => todo[r] # <<>>
    /\ rank_pc[r] = "idle" => ~aborted[r]
    /\ rank_pc[r] \in {"entry", "forward", "layer"} => Polled(Current(r))
    /\ rank_pc[r] = "ack" => Outstanding(r)

\* Rank r has come as far as the step that rank q has not begun, or further:
\* it has met no all-reduce there that q has not met.
Lead(r, q) ==
    /\ rank_pc[r] = "idle" => (Outstanding(r) <=> Outstanding(q))
    /\ rank_pc[r] # "idle" =>
         /\ Outstanding(r) <=> (Outstanding(q) \/ Current(r).cmd)
         /\ ~aborted[r] /\ layer[r] = 0
         /\ rank_pc[r] \in {"entry"} \union Working
         /\ Polled(Current(r)) <=> rank_pc[r] = "entry"
         /\ rank_pc[r] = "output" => ~Outstanding(r)

\* Boundaries behind a rank, or under its feet.
Boundary(r) == IF rank_pc[r] = "forward" THEN layer[r] + 1 ELSE layer[r]

\* Both ranks are in the same step.
Together(r, q) ==
    /\ (Outstanding(r) <=> Outstanding(q))
    /\ aborted[r] <=> aborted[q]
    /\ Boundary(r) = Boundary(q)
    /\ rank_pc[r] = "entry" <=> rank_pc[q] = "entry"
    /\ rank_pc[r] \in Working <=> rank_pc[q] \in Working
    /\ rank_pc[r] = "output" /\ rank_pc[q] \in {"relay", "ack"} =>
         ~Outstanding(r)

\* All the steps between rank q and rank r ahead of it are silent.
SilentBetween(r, q) ==
    /\ rank_pc[q] \in {"idle", "relay", "output"}
    /\ rank_pc[q] = "relay" => ~Outstanding(q)
    /\ \A j \in 1 .. Behind(r, q) :
         j > 1 \/ rank_pc[q] = "idle" => Silent(todo[q][j]) /\ ~Outstanding(q)

NotBehind(r, q) ==
    Len(todo[r]) <= Len(todo[q]) =>
      /\ Follows(r, q)
      /\ IF Behind(r, q) > 0
         THEN SilentBetween(r, q) /\ Lead(r, q)
         ELSE IF rank_pc[q] = "idle" THEN Lead(r, q)
         ELSE rank_pc[r] # "idle" => Together(r, q)

RankInvs == \A r \in Ranks : RankInv(r)
VoteInvs == \A r \in Ranks : \A q \in Ranks \ {r} : NotBehind(r, q)

VoteInv == VoteType /\ RankInvs /\ VoteInvs

-----------------------------------------------------------------------------
(***************************************************************************)
(* Sequences of steps, whatever the steps are made of.                     *)
(***************************************************************************)
\* The first of a sequence's elements is the one at its head.
LEMMA IsSeqFacts ==
    ASSUME NEW t, IsSeq(t)
    PROVE  /\ Len(t) \in Nat
           /\ DOMAIN t = 1 .. Len(t)
           /\ t # <<>> <=> Len(t) > 0
           /\ t # <<>> => Head(t) = t[1]
  BY DEF IsSeq

\* A step sent to a rank comes last, and moves no other.
LEMMA AppendFacts ==
    ASSUME NEW t, IsSeq(t), NEW e
    PROVE  LET a == Append(t, e)
           IN  /\ IsSeq(a) /\ Len(a) = Len(t) + 1 /\ a[Len(t) + 1] = e
               /\ \A j \in 1 .. Len(t) : a[j] = t[j]
  <1> DEFINE T == {t[i] : i \in DOMAIN t} \union {e}
             a == Append(t, e)
  <1>1. t \in Seq(T) /\ e \in T
    BY DEF IsSeq
  <1>2. /\ a \in Seq(T) /\ Len(a) = Len(t) + 1 /\ a[Len(t) + 1] = e
        /\ \A j \in 1 .. Len(t) : a[j] = t[j]
    BY <1>1, AppendProperties
  <1>3. IsSeq(a)
    <2> HIDE DEF a
    <2> QED BY <1>2 DEF IsSeq
  <1> QED BY <1>2, <1>3

\* What is left when the step at the head is done.
LEMMA TailFacts ==
    ASSUME NEW t, IsSeq(t), t # <<>>
    PROVE  /\ IsSeq(Tail(t)) /\ Len(Tail(t)) = Len(t) - 1
           /\ \A j \in 1 .. Len(t) - 1 : Tail(t)[j] = t[j + 1]
  <1> DEFINE T == {t[i] : i \in DOMAIN t}
             a == Tail(t)
  <1>1. t \in Seq(T)
    BY DEF IsSeq
  <1>2. /\ a \in Seq(T) /\ Len(a) = Len(t) - 1
        /\ \A j \in 1 .. Len(t) - 1 : a[j] = t[j + 1]
    BY <1>1, HeadTailProperties
  <1>3. IsSeq(a)
    <2> HIDE DEF a
    <2> QED BY <1>2 DEF IsSeq
  <1> QED BY <1>2, <1>3

-----------------------------------------------------------------------------
(***************************************************************************)
(* What a rank does by itself keeps the invariant.                         *)
(***************************************************************************)
\* A boundary is counted when the rank reaches it.
LEMMA LayerKeeps ==
    ASSUME VoteInv, NEW p \in Ranks, Layer(p)
    PROVE  VoteInv'
  <1>1. /\ rank_pc[p] = "forward"
        /\ todo' = todo /\ aborted' = aborted /\ relay' = relay
        /\ layer' = [layer EXCEPT ![p] = @ + 1]
        /\ rank_pc' = [rank_pc EXCEPT ![p] = "layer"]
    BY DEF Layer
  <1>2. VoteType'
    BY <1>1 DEF VoteInv, VoteType, RankPc
  <1>3. RankInvs'
    BY <1>1 DEF VoteInv, VoteType, RankInvs, RankInv, Current, Outstanding,
                Polled, Silent
  <1>4. ASSUME NEW r \in Ranks, NEW q \in Ranks \ {r}
        PROVE  NotBehind(r, q)'
    <2>1. NotBehind(r, q) /\ RankInv(r) /\ RankInv(q)
      BY DEF VoteInv, VoteInvs, RankInvs
    <2>2. /\ layer[r] \in Nat /\ layer[q] \in Nat
          /\ Len(todo[r]) \in Nat /\ Len(todo[q]) \in Nat
      BY <2>1, IsSeqFacts DEF VoteInv, VoteType, RankInv
    <2>3. CASE r = p
      BY <1>1, <2>1, <2>2, <2>3
      DEF NotBehind, Follows, Behind, SilentBetween, Lead, Together, Boundary,
          Outstanding, Working, VoteInv, VoteType
    <2>4. CASE q = p
      BY <1>1, <2>1, <2>2, <2>4
      DEF NotBehind, Follows, Behind, SilentBetween, Lead, Together, Boundary,
          Outstanding, Working, VoteInv, VoteType
    <2>5. CASE r # p /\ q # p
      BY <1>1, <2>1, <2>2, <2>5
      DEF NotBehind, Follows, Behind, SilentBetween, Lead, Together, Boundary,
          Outstanding, Working, Current, VoteInv, VoteType
    <2> QED BY <2>3, <2>4, <2>5
  <1> QED BY <1>2, <1>3, <1>4 DEF VoteInv, VoteInvs

\* A rank votes for the ack exactly when a backward is outstanding.
LEMMA RelayKeeps ==
    ASSUME VoteInv, NEW p \in Ranks, Relay(p)
    PROVE  VoteInv'
  <1>1. /\ rank_pc[p] = "relay"
        /\ todo' = todo /\ aborted' = aborted /\ layer' = layer
        /\ rank_pc' = [rank_pc EXCEPT ![p] = IF Outstanding(p) THEN "ack"
                                                               ELSE "output"]
        /\ \/ relay' = [relay EXCEPT ![p] = "ack"] /\ relay[p] = "pending"
           \/ relay' = [relay EXCEPT ![p] = relay[p]]
    BY DEF Relay
  <1>2. VoteType'
    BY <1>1 DEF VoteInv, VoteType, RankPc, Working
  <1>3. \A r \in Ranks : Outstanding(r)' <=> Outstanding(r)
    BY <1>1 DEF VoteInv, VoteType, Outstanding
  <1>4. RankInvs'
    BY <1>1, <1>3 DEF VoteInv, VoteType, RankInvs, RankInv, Current
  <1>5. ASSUME NEW r \in Ranks, NEW q \in Ranks \ {r}
        PROVE  NotBehind(r, q)'
    <2>1. NotBehind(r, q) /\ RankInv(r) /\ RankInv(q)
      BY DEF VoteInv, VoteInvs, RankInvs
    <2>2. /\ layer[r] \in Nat /\ layer[q] \in Nat
          /\ Len(todo[r]) \in Nat /\ Len(todo[q]) \in Nat
      BY <2>1, IsSeqFacts DEF VoteInv, VoteType, RankInv
    <2>3. /\ Outstanding(r)' <=> Outstanding(r)
          /\ Outstanding(q)' <=> Outstanding(q)
      BY <1>3
    <2>4. CASE r = p
      BY <1>1, <2>1, <2>2, <2>3, <2>4
      DEF NotBehind, Follows, Behind, SilentBetween, Lead, Together, Boundary,
          Working, Current, VoteInv, VoteType
    <2>5. CASE q = p
      BY <1>1, <2>1, <2>2, <2>3, <2>5
      DEF NotBehind, Follows, Behind, SilentBetween, Lead, Together, Boundary,
          Working, Current, VoteInv, VoteType
    <2>6. CASE r # p /\ q # p
      BY <1>1, <2>1, <2>2, <2>3, <2>6
      DEF NotBehind, Follows, Behind, SilentBetween, Lead, Together, Boundary,
          Working, Current, VoteInv, VoteType
    <2> QED BY <2>4, <2>5, <2>6
  <1> QED BY <1>2, <1>4, <1>5 DEF VoteInv, VoteInvs

\* A rank that begins a step meets the all-reduce the ranks ahead have met
\* there, and no rank is ahead of a step that has one.
LEMMA BeginKeeps ==
    ASSUME VoteInv, NEW p \in Ranks, Begin(p)
    PROVE  VoteInv'
  <1> DEFINE cur == Current(p)
  <1>1. /\ rank_pc[p] = "idle" /\ todo[p] # <<>>
        /\ todo' = todo /\ aborted' = aborted
        /\ layer' = [layer EXCEPT ![p] = 0]
        /\ rank_pc' = [rank_pc EXCEPT ![p] = IF Polled(cur) THEN "entry"
                                                            ELSE "relay"]
        /\ cur.cmd => relay' = [relay EXCEPT ![p] = "pending"]
        /\ ~cur.cmd => relay' = relay
    BY DEF Begin, Polled
  <1>2. VoteType'
    BY <1>1 DEF VoteInv, VoteType, RankPc, Working
  <1>3. /\ Outstanding(p)' <=> (Outstanding(p) \/ cur.cmd)
        /\ \A r \in Ranks \ {p} : Outstanding(r)' <=> Outstanding(r)
        /\ \A r \in Ranks : Current(r)' = Current(r)
    BY <1>1 DEF VoteInv, VoteType, Outstanding, Current
  <1>4. RankInvs'
    BY <1>1, <1>3 DEF VoteInv, VoteType, RankInvs, RankInv, Working
  <1>5. ASSUME NEW r \in Ranks, NEW q \in Ranks \ {r}
        PROVE  NotBehind(r, q)'
    <2>1. /\ NotBehind(r, q) /\ NotBehind(q, r)
          /\ RankInv(r) /\ RankInv(q) /\ RankInv(p)
      BY DEF VoteInv, VoteInvs, RankInvs
    <2>2. /\ layer[r] \in Nat /\ layer[q] \in Nat
          /\ Len(todo[r]) \in Nat /\ Len(todo[q]) \in Nat
          /\ todo[r] # <<>> => Len(todo[r]) > 0 /\ Current(r) = todo[r][1]
          /\ todo[q] # <<>> => Len(todo[q]) > 0 /\ Current(q) = todo[q][1]
      BY <2>1, IsSeqFacts DEF VoteInv, VoteType, RankInv, Current
    <2>3. CASE r = p
      <3>0. CASE Len(todo[p]) > Len(todo[q])
        <4>1. ~(Len(todo[p])' <= Len(todo[q])')
          BY <1>1, <2>2, <2>3, <3>0
        <4> QED BY <4>1, <2>3 DEF NotBehind
      <3>1. CASE /\ Len(todo[p]) <= Len(todo[q])
                 /\ Behind(p, q) > 0 \/ rank_pc[q] = "idle"
        BY <1>1, <1>3, <2>1, <2>2, <2>3, <3>1
        DEF NotBehind, Follows, Behind, SilentBetween, Lead, Working,
            RankInv, VoteInv, VoteType
      <3>2. CASE /\ Len(todo[p]) <= Len(todo[q])
                 /\ ~(Behind(p, q) > 0) /\ rank_pc[q] # "idle"
        <4>1. Len(todo[p]) = Len(todo[q])
          <5> DEFINE a == Len(todo[p])
                     b == Len(todo[q])
          <5>1. a \in Nat /\ b \in Nat /\ a <= b
            BY <2>2, <2>3, <3>2
          <5>2. ~(b - a > 0)
            BY <3>2 DEF Behind
          <5>3. a = b
            <6> HIDE DEF a, b
            <6> QED BY <5>1, <5>2
          <5> QED BY <5>3
        <4> QED
          <5>1. Lead(q, p) /\ Current(q) = Current(p) /\ Follows(p, q)
            BY <1>1, <2>1, <2>2, <2>3, <3>2, <4>1
            DEF NotBehind, Follows, Behind, RankInv
          <5>2. Together(p, q)'
            BY <1>1, <1>3, <2>1, <2>2, <2>3, <3>2, <4>1, <5>1
            DEF Lead, Together, Boundary, Working, RankInv, VoteInv, VoteType
          <5> QED
            BY <1>1, <1>3, <2>2, <2>3, <3>2, <4>1, <5>1, <5>2
            DEF NotBehind, Follows, Behind, VoteInv, VoteType
      <3> QED BY <2>2, <2>3, <3>0, <3>1, <3>2
    <2>4. CASE q = p
      <3>0. CASE Len(todo[r]) > Len(todo[p])
        <4>1. ~(Len(todo[r])' <= Len(todo[p])')
          BY <1>1, <2>2, <2>4, <3>0
        <4> QED BY <4>1, <2>4 DEF NotBehind
      <3>1. CASE Len(todo[r]) < Len(todo[p])
        <4> DEFINE b == Len(todo[p]) - Len(todo[r])
        <4>1. /\ b \in Nat /\ b >= 1 /\ Len(todo[p]) \in Nat
              /\ Behind(r, p) = b /\ Behind(r, p)' = b
          BY <1>1, <2>2, <2>4, <3>1 DEF Behind
        <4> HIDE DEF b
        <4>2. Follows(r, p) /\ SilentBetween(r, p) /\ Lead(r, p)
          BY <2>1, <2>2, <2>4, <3>1, <4>1 DEF NotBehind
        <4>3. \A j \in 1 .. b : Silent(todo[p][j]) /\ ~Outstanding(p)
          BY <1>1, <4>1, <4>2 DEF SilentBetween
        <4>4. Silent(cur) /\ ~Outstanding(p)
          <5>1. Silent(todo[p][1]) /\ ~Outstanding(p)
            BY <4>1, <4>3
          <5> QED BY <5>1, <1>1, <2>2, <2>4
        <4>5. ~Outstanding(p)' /\ rank_pc'[p] = "relay"
          BY <1>1, <1>3, <4>4 DEF Silent, VoteInv, VoteType
        <4>6. SilentBetween(r, p)'
          BY <1>1, <4>1, <4>3, <4>5 DEF SilentBetween, Silent, Polled
        <4>7. Lead(r, p)'
          BY <1>1, <1>3, <2>4, <4>2, <4>4, <4>5
          DEF Lead, Working, VoteInv, VoteType
        <4>8. Follows(r, p)'
          BY <1>1, <4>1, <4>2 DEF Follows
        <4> QED BY <2>4, <4>1, <4>6, <4>7, <4>8 DEF NotBehind
      <3>2. CASE Len(todo[r]) = Len(todo[p])
        <4>1. CASE rank_pc[r] # "idle"
          <5>1. Lead(r, p) /\ Current(r) = Current(p) /\ Follows(r, p)
            BY <1>1, <2>1, <2>2, <2>4, <3>2, <4>1
            DEF NotBehind, Follows, Behind, RankInv
          <5>2. Together(r, p)'
            BY <1>1, <1>3, <2>1, <2>2, <2>4, <3>2, <4>1, <5>1
            DEF Lead, Together, Boundary, Working, RankInv, VoteInv, VoteType
          <5> QED
            BY <1>1, <1>3, <2>2, <2>4, <3>2, <4>1, <5>1, <5>2
            DEF NotBehind, Follows, Behind, VoteInv, VoteType
        <4>2. CASE rank_pc[r] = "idle"
          BY <1>1, <1>3, <2>1, <2>2, <2>4, <3>2, <4>2
          DEF NotBehind, Follows, Behind, RankInv, VoteInv, VoteType
        <4> QED BY <4>1, <4>2
      <3> QED BY <2>2, <2>4, <3>0, <3>1, <3>2
    <2>5. CASE r # p /\ q # p
      BY <1>1, <1>3, <2>1, <2>2, <2>5
      DEF NotBehind, Follows, Behind, SilentBetween, Lead, Together, Boundary,
          Working, VoteInv, VoteType
    <2> QED BY <2>3, <2>4, <2>5
  <1> QED BY <1>2, <1>4, <1>5 DEF VoteInv, VoteInvs

\* A rank that is done with a step has met no all-reduce that the ranks behind
\* it will not meet there too.
LEMMA OutputKeeps ==
    ASSUME VoteInv, NEW p \in Ranks, Output(p)
    PROVE  VoteInv'
  <1>1. /\ rank_pc[p] = "output"
        /\ todo' = [todo EXCEPT ![p] = Tail(@)]
        /\ aborted' = [aborted EXCEPT ![p] = FALSE]
        /\ layer' = [layer EXCEPT ![p] = 0]
        /\ rank_pc' = [rank_pc EXCEPT ![p] = "idle"]
        /\ relay' = relay
    BY DEF Output
  <1>2. VoteType'
    <2>1. todo' = [r \in Ranks |-> todo'[r]]
      BY <1>1 DEF VoteInv, VoteType
    <2>2. /\ rank_pc' \in [Ranks -> RankPc] /\ layer' \in [Ranks -> Nat]
          /\ aborted' \in [Ranks -> BOOLEAN]
          /\ relay' \in [Ranks -> {"none", "pending", "ack"}]
      BY <1>1 DEF VoteInv, VoteType, RankPc
    <2> QED BY <2>1, <2>2 DEF VoteType
  <1>3. /\ \A r \in Ranks : Outstanding(r)' <=> Outstanding(r)
        /\ \A r \in Ranks \ {p} :
             /\ todo'[r] = todo[r] /\ Current(r)' = Current(r)
             /\ rank_pc'[r] = rank_pc[r] /\ aborted'[r] = aborted[r]
             /\ layer'[r] = layer[r]
        /\ todo'[p] = Tail(todo[p]) /\ rank_pc'[p] = "idle" /\ ~aborted'[p]
    BY <1>1 DEF VoteInv, VoteType, Outstanding, Current
  <1>4. \A r \in Ranks : RankInv(r)
    BY DEF VoteInv, RankInvs
  <1>5. /\ todo[p] # <<>> /\ Current(p) = todo[p][1]
        /\ Len(todo[p]) \in Nat /\ Len(todo[p]) > 0
        /\ IsSeq(todo'[p]) /\ Len(todo'[p]) = Len(todo[p]) - 1
        /\ \A j \in 1 .. Len(todo[p]) - 1 : todo'[p][j] = todo[p][j + 1]
    <2>1. IsSeq(todo[p]) /\ todo[p] # <<>>
      BY <1>1, <1>4 DEF RankInv
    <2>2. /\ Len(todo[p]) \in Nat /\ Len(todo[p]) > 0
          /\ Current(p) = todo[p][1]
      BY <2>1, IsSeqFacts DEF Current
    <2> QED BY <1>3, <2>1, <2>2, TailFacts
  <1>6. RankInvs'
    <2> SUFFICES ASSUME NEW r \in Ranks PROVE RankInv(r)'
      BY DEF RankInvs
    <2>1. CASE r = p
      BY <1>3, <1>5, <2>1 DEF RankInv
    <2>2. CASE r # p
      BY <1>3, <1>4, <2>2 DEF RankInv
    <2> QED BY <2>1, <2>2
  <1>7. ASSUME NEW r \in Ranks, NEW q \in Ranks \ {r}
        PROVE  NotBehind(r, q)'
    <2>1. NotBehind(r, q) /\ NotBehind(q, r) /\ RankInv(r) /\ RankInv(q)
      BY <1>4 DEF VoteInv, VoteInvs
    <2>2. /\ Len(todo[r]) \in Nat /\ Len(todo[q]) \in Nat
      BY <2>1, IsSeqFacts DEF RankInv
    <2>3. CASE r = p
      <3> DEFINE a == Len(todo[p])
                 b == Len(todo[q])
      <3>1. /\ a \in Nat /\ b \in Nat /\ a > 0
            /\ Len(todo'[p]) = a - 1 /\ Len(todo'[q]) = b
            /\ todo'[q] = todo[q] /\ rank_pc'[q] = rank_pc[q]
            /\ Behind(p, q) = b - a /\ Behind(p, q)' = b - (a - 1)
        BY <1>3, <1>5, <2>2, <2>3 DEF Behind
      <3> HIDE DEF a, b
      <3>2. CASE a - 1 > b
        BY <2>3, <3>1, <3>2 DEF NotBehind
      <3>3. CASE a = b + 1
        <4>1. Follows(q, p) /\ Lead(q, p) /\ Behind(q, p) = 1
          BY <2>1, <2>3, <3>1, <3>3 DEF NotBehind, Behind, a, b
        <4>2. Follows(p, q)' /\ Behind(p, q)' = 0
          <5>1. \A j \in 1 .. b : todo[q][j] = todo[p][1 + j]
            BY <4>1, <3>1 DEF Follows, b
          <5>2. \A j \in 1 .. b : todo'[p][j] = todo[p][j + 1]
            BY <1>5, <3>1, <3>3 DEF a
          <5>3. Behind(p, q)' = 0 /\ Len(todo'[p]) = b
            BY <3>1, <3>3
          <5> QED BY <3>1, <5>1, <5>2, <5>3 DEF Follows
        <4>3. rank_pc[q] = "idle" => Lead(p, q)'
          BY <1>3, <2>3, <4>1 DEF Lead
        <4> QED BY <1>3, <2>3, <3>1, <4>2, <4>3 DEF NotBehind
      <3>4. CASE a <= b
        <4>1. /\ Follows(p, q)
              /\ b - a > 0 => SilentBetween(p, q) /\ Lead(p, q)
              /\ ~(b - a > 0) /\ rank_pc[q] = "idle" => Lead(p, q)
              /\ ~(b - a > 0) /\ rank_pc[q] # "idle" => Together(p, q)
          BY <1>1, <2>1, <2>3, <3>1, <3>4 DEF NotBehind, a, b
        <4>2. Behind(p, q)' = b - a + 1 /\ b - a + 1 > 0
          BY <3>1, <3>4
        <4>3. Follows(p, q)'
          <5>1. \A j \in 1 .. a : todo[p][j] = todo[q][b - a + j]
            BY <3>1, <4>1 DEF Follows, a
          <5>2. \A j \in 1 .. a - 1 : todo'[p][j] = todo[q][b - a + (j + 1)]
            <6> TAKE j \in 1 .. a - 1
            <6>1. j + 1 \in 1 .. a
              BY <3>1
            <6>2. todo'[p][j] = todo[p][j + 1]
              BY <1>5 DEF a
            <6>3. todo[p][j + 1] = todo[q][b - a + (j + 1)]
              BY <5>1, <6>1
            <6> QED BY <6>2, <6>3
          <5> QED BY <3>1, <3>4, <4>2, <5>2 DEF Follows
        <4>4. todo[q][b - a + 1] = Current(p)
          <5>1. \A j \in 1 .. a : todo[p][j] = todo[q][b - a + j]
            BY <3>1, <4>1 DEF Follows, a
          <5>2. 1 \in 1 .. a
            BY <3>1
          <5> QED BY <1>5, <5>1, <5>2
        <4>5. /\ SilentBetween(p, q)'
              /\ \/ ~Outstanding(p) /\ ~Outstanding(q)
                 \/ Together(p, q) /\ rank_pc[q] # "idle"
          <5>1. CASE b - a > 0 \/ rank_pc[q] = "idle"
            <6>1. ~Outstanding(p) /\ ~Outstanding(q) /\ Silent(Current(p))
              BY <1>1, <4>1, <5>1 DEF Lead, Silent, Working
            <6>2. ASSUME NEW j \in 1 .. b - a + 1,
                         j > 1 \/ rank_pc[q] = "idle"
                  PROVE  Silent(todo[q][j])
              <7>1. CASE j = b - a + 1
                BY <4>4, <6>1, <7>1
              <7>2. CASE j # b - a + 1
                <8>1. j \in 1 .. b - a /\ b - a > 0
                  BY <3>1, <3>4, <7>2
                <8> QED BY <3>1, <4>1, <6>2, <8>1 DEF SilentBetween
              <7> QED BY <7>1, <7>2
            <6>3. rank_pc[q] \in {"idle", "relay", "output"}
              BY <4>1, <5>1 DEF SilentBetween
            <6>4. SilentBetween(p, q)'
              BY <1>3, <2>3, <3>1, <4>2, <6>1, <6>2, <6>3
              DEF SilentBetween, Silent, Polled
            <6> QED BY <6>1, <6>4
          <5>2. CASE ~(b - a > 0) /\ rank_pc[q] # "idle"
            <6>1. Together(p, q) /\ b - a + 1 = 1
              BY <3>1, <3>4, <4>1, <5>2
            <6>2. /\ rank_pc[q] \in {"relay", "output"}
                  /\ rank_pc[q] = "relay" => ~Outstanding(q)
              BY <1>1, <2>1, <6>1 DEF Together, RankInv, Working
            <6>3. SilentBetween(p, q)'
              BY <1>3, <2>3, <3>1, <4>2, <5>2, <6>1, <6>2 DEF SilentBetween
            <6> QED BY <5>2, <6>1, <6>3
          <5> QED BY <5>1, <5>2
        <4>6. Lead(p, q)'
          BY <1>3, <2>3, <4>5 DEF Lead, Together
        <4> QED BY <2>3, <4>2, <4>3, <4>5, <4>6 DEF NotBehind
      <3> QED BY <3>1, <3>2, <3>3, <3>4
    <2>4. CASE q = p
      <3> DEFINE a == Len(todo[r])
                 b == Len(todo[p])
      <3>1. /\ a \in Nat /\ b \in Nat /\ b > 0
            /\ Len(todo'[r]) = a /\ Len(todo'[p]) = b - 1
            /\ todo'[r] = todo[r]
            /\ Behind(r, p) = b - a /\ Behind(r, p)' = b - 1 - a
        BY <1>3, <1>5, <2>2, <2>4 DEF Behind
      <3> HIDE DEF a, b
      <3>2. CASE a > b - 1
        BY <2>4, <3>1, <3>2 DEF NotBehind
      <3>3. CASE a <= b - 1
        <4>1. Follows(r, p) /\ SilentBetween(r, p) /\ Lead(r, p)
          <5>1. a <= b /\ Behind(r, p) > 0
            BY <3>1, <3>3
          <5> QED BY <2>1, <2>4, <5>1 DEF NotBehind, a, b
        <4>2. Follows(r, p)'
          <5>1. \A j \in 1 .. a : todo[r][j] = todo[p][b - a + j]
            BY <3>1, <4>1 DEF Follows, a
          <5>2. \A j \in 1 .. a : todo'[p][b - 1 - a + j] = todo[p][b - a + j]
            <6> TAKE j \in 1 .. a
            <6>1. /\ b - 1 - a + j \in 1 .. b - 1
                  /\ (b - 1 - a + j) + 1 = b - a + j
              BY <3>1, <3>3
            <6>2. \A i \in 1 .. b - 1 : todo'[p][i] = todo[p][i + 1]
              BY <1>5 DEF b
            <6> QED BY <6>1, <6>2
          <5> QED BY <3>1, <5>1, <5>2 DEF Follows
        <4>3. Lead(r, p)'
          BY <1>3, <2>4, <4>1 DEF Lead
        <4>4. SilentBetween(r, p)'
          <5>1. ASSUME NEW j \in 1 .. b - 1 - a
                PROVE  Silent(todo'[p][j]) /\ ~Outstanding(p)
            <6>1. j + 1 \in 1 .. b - a /\ j + 1 > 1 /\ j \in 1 .. b - 1
              BY <3>1, <3>3
            <6>2. Silent(todo[p][j + 1]) /\ ~Outstanding(p)
              BY <3>1, <4>1, <6>1 DEF SilentBetween
            <6>3. todo'[p][j] = todo[p][j + 1]
              BY <1>5, <6>1 DEF b
            <6> QED BY <6>2, <6>3
          <5> QED
            BY <1>3, <2>4, <3>1, <5>1 DEF SilentBetween, Silent, Polled
        <4> QED BY <1>3, <2>4, <4>2, <4>3, <4>4 DEF NotBehind
      <3> QED BY <3>1, <3>2, <3>3
    <2>5. CASE r # p /\ q # p
      BY <1>3, <2>1, <2>2, <2>5
      DEF NotBehind, Follows, Behind, SilentBetween, Silent, Polled, Lead,
          Together, Boundary, Working
    <2> QED BY <2>3, <2>4, <2>5
  <1> QED BY <1>2, <1>6, <1>7 DEF VoteInv, VoteInvs

-----------------------------------------------------------------------------
(***************************************************************************)
(* The ranks together.                                                     *)
(***************************************************************************)
\* Two ranks that wait in the all-reduce are in the same step, at the same
\* boundary.
LEMMA VotersTogether ==
    ASSUME VoteInv, NEW r \in Ranks, NEW q \in Ranks \ {r},
           rank_pc[r] \in Voting, rank_pc[q] \in Voting
    PROVE  /\ Together(r, q) \/ Together(q, r)
           /\ Len(todo[r]) = Len(todo[q])
           /\ Follows(r, q)
           /\ rank_pc[r] = rank_pc[q] /\ layer[r] = layer[q]
  <1>1. NotBehind(r, q) /\ NotBehind(q, r) /\ RankInv(r) /\ RankInv(q)
    BY DEF VoteInv, VoteInvs, RankInvs
  <1>2. Len(todo[r]) \in Nat /\ Len(todo[q]) \in Nat
    BY <1>1, IsSeqFacts DEF RankInv
  <1> DEFINE a == Len(todo[r])
             b == Len(todo[q])
  <1>3. /\ a \in Nat /\ b \in Nat
        /\ Behind(r, q) = b - a /\ Behind(q, r) = a - b
    BY <1>2 DEF Behind
  <1> HIDE DEF a, b
  <1>4. ~(a < b)
    <2> SUFFICES ASSUME a < b PROVE FALSE
      OBVIOUS
    <2>1. a <= b /\ Behind(r, q) > 0
      BY <1>3
    <2> QED BY <1>1, <2>1 DEF NotBehind, SilentBetween, Voting, a, b
  <1>5. ~(b < a)
    <2> SUFFICES ASSUME b < a PROVE FALSE
      OBVIOUS
    <2>1. b <= a /\ Behind(q, r) > 0
      BY <1>3
    <2> QED BY <1>1, <2>1 DEF NotBehind, SilentBetween, Voting, a, b
  <1>6. a = b /\ ~(Behind(r, q) > 0) /\ a <= b
    BY <1>3, <1>4, <1>5
  <1>7. Together(r, q) /\ Follows(r, q)
    BY <1>1, <1>6 DEF NotBehind, Voting, a, b
  <1>8. rank_pc[r] = rank_pc[q] /\ layer[r] = layer[q]
    BY <1>7 DEF Together, Boundary, Working, Voting
  <1> QED BY <1>6, <1>7, <1>8 DEF a, b

\* The all-reduce leaves every rank where it leaves the others.
LEMMA AllReduceKeeps ==
    ASSUME VoteInv, AllReduce
    PROVE  VoteInv'
  <1> DEFINE any == \E q \in Ranks : observed[q]
             all == \A q \in Ranks : observed[q]
  <1>1. /\ \A r \in Ranks : rank_pc[r] \in Voting
        /\ todo' = todo /\ layer' = layer
        /\ aborted' = [r \in Ranks |->
             aborted[r] \/ (rank_pc[r] \in {"entry", "layer"} /\ any)]
        /\ done' = [r \in Ranks |-> rank_pc[r] = "ack" /\ all]
        /\ relay' = [r \in Ranks |-> IF done'[r] THEN "none" ELSE relay[r]]
        /\ rank_pc' = [r \in Ranks |->
             CASE rank_pc[r] = "ack" -> "output"
               [] rank_pc[r] # "ack" /\ (aborted'[r] \/ layer[r] = Layers)
                    -> "relay"
               [] OTHER -> "forward"]
    BY DEF AllReduce, AnyObserved, AllObserved
  <1> HIDE DEF any, all
  <1>2. VoteType'
    BY <1>1 DEF VoteInv, VoteType, RankPc, Working
  <1>3. ASSUME NEW r \in Ranks
        PROVE  /\ rank_pc[r] = "ack" =>
                    /\ rank_pc'[r] = "output" /\ (aborted'[r] <=> aborted[r])
                    /\ Outstanding(r)' <=> (Outstanding(r) /\ ~all)
               /\ rank_pc[r] # "ack" =>
                    /\ rank_pc'[r] \in {"relay", "forward"}
                    /\ rank_pc'[r] = "relay" <=>
                         (aborted'[r] \/ layer[r] = Layers)
                    /\ aborted'[r] <=> (aborted[r] \/ any)
                    /\ Outstanding(r)' <=> Outstanding(r)
               /\ Current(r)' = Current(r)
    BY <1>1 DEF VoteInv, VoteType, Voting, Outstanding, Current
  <1>4. RankInvs'
    BY <1>1, <1>3 DEF VoteInv, RankInvs, RankInv, Voting, Polled
  <1>5. ASSUME NEW r \in Ranks, NEW q \in Ranks \ {r}
        PROVE  NotBehind(r, q)'
    <2>1. /\ Together(r, q) \/ Together(q, r)
          /\ Len(todo[r]) = Len(todo[q])
          /\ Follows(r, q)
          /\ rank_pc[r] = rank_pc[q] /\ layer[r] = layer[q]
      BY <1>1, VotersTogether
    <2>2. Len(todo[r]) \in Nat /\ Len(todo[q]) \in Nat
      BY IsSeqFacts DEF VoteInv, RankInvs, RankInv
    <2>3. /\ Outstanding(r) <=> Outstanding(q)
          /\ aborted[r] <=> aborted[q]
      BY <2>1 DEF Together
    <2>4. /\ Outstanding(r)' <=> Outstanding(q)'
          /\ aborted'[r] <=> aborted'[q]
      BY <1>3, <2>1, <2>3
    <2>5. rank_pc'[r] = rank_pc'[q] /\ layer'[r] = layer'[q]
      BY <1>1, <2>1, <2>4
    <2>6. Together(r, q)'
      BY <2>4, <2>5 DEF Together, Boundary
    <2>7. Behind(r, q)' = 0 /\ Follows(r, q)'
      BY <1>1, <2>1, <2>2 DEF Behind, Follows
    <2>8. rank_pc'[q] # "idle"
      BY <1>3
    <2> QED BY <2>6, <2>7, <2>8 DEF NotBehind
  <1> QED BY <1>2, <1>4, <1>5 DEF VoteInv, VoteInvs

\* A step is sent to all ranks at once, behind what they still have to do.
LEMMA SendKeeps ==
    ASSUME VoteInv, Send
    PROVE  VoteInv'
  <1>1. /\ todo' = [r \in Ranks |-> Append(todo[r], built)]
        /\ rank_pc' = rank_pc /\ layer' = layer /\ aborted' = aborted
        /\ relay' = relay
    BY DEF Send
  <1>2. VoteType'
    BY <1>1 DEF VoteInv, VoteType
  <1>3. ASSUME NEW r \in Ranks
        PROVE  /\ IsSeq(todo[r]) /\ IsSeq(todo'[r])
               /\ Len(todo[r]) \in Nat /\ Len(todo'[r]) = Len(todo[r]) + 1
               /\ todo'[r][Len(todo[r]) + 1] = built
               /\ \A j \in 1 .. Len(todo[r]) : todo'[r][j] = todo[r][j]
               /\ todo'[r] # <<>>
               /\ todo[r] # <<>> => Current(r)' = Current(r)
    <2>1. IsSeq(todo[r]) /\ todo'[r] = Append(todo[r], built)
      BY <1>1 DEF VoteInv, RankInvs, RankInv
    <2>2. /\ IsSeq(todo'[r]) /\ Len(todo[r]) \in Nat
          /\ Len(todo'[r]) = Len(todo[r]) + 1
          /\ todo'[r][Len(todo[r]) + 1] = built
          /\ \A j \in 1 .. Len(todo[r]) : todo'[r][j] = todo[r][j]
      BY <2>1, AppendFacts, IsSeqFacts
    <2>3. todo'[r] # <<>> /\ Head(todo'[r]) = todo'[r][1]
      BY <2>2, IsSeqFacts
    <2>4. ASSUME todo[r] # <<>> PROVE Current(r)' = Current(r)
      <3>1. Len(todo[r]) > 0 /\ Head(todo[r]) = todo[r][1]
        BY <2>1, <2>4, IsSeqFacts
      <3>2. 1 \in 1 .. Len(todo[r])
        BY <2>2, <3>1
      <3> QED BY <2>2, <2>3, <3>1, <3>2 DEF Current
    <2> QED BY <2>1, <2>2, <2>3, <2>4
  <1>4. RankInvs'
    BY <1>1, <1>3 DEF VoteInv, RankInvs, RankInv, Polled, Outstanding
  <1>5. ASSUME NEW r \in Ranks, NEW q \in Ranks \ {r}
        PROVE  NotBehind(r, q)'
    <2> DEFINE a == Len(todo[r])
               b == Len(todo[q])
    <2>1. NotBehind(r, q) /\ RankInv(r) /\ RankInv(q)
      BY DEF VoteInv, VoteInvs, RankInvs
    <2>2. /\ a \in Nat /\ b \in Nat
          /\ Len(todo'[r]) = a + 1 /\ Len(todo'[q]) = b + 1
          /\ Behind(r, q) = b - a /\ Behind(r, q)' = b - a
      <3>1. /\ a \in Nat /\ b \in Nat
            /\ Len(todo'[r]) = a + 1 /\ Len(todo'[q]) = b + 1
        BY <1>3
      <3>2. /\ Behind(r, q) = b - a
            /\ Behind(r, q)' = Len(todo'[q]) - Len(todo'[r])
        BY DEF Behind
      <3> HIDE DEF a, b
      <3> QED BY <3>1, <3>2
    <2>3. /\ todo'[r][a + 1] = built /\ todo'[q][b + 1] = built
          /\ \A j \in 1 .. a : todo'[r][j] = todo[r][j]
          /\ \A j \in 1 .. b : todo'[q][j] = todo[q][j]
      BY <1>3
    <2>4. /\ Outstanding(r)' <=> Outstanding(r)
          /\ Outstanding(q)' <=> Outstanding(q)
          /\ rank_pc[r] # "idle" => Current(r)' = Current(r)
      BY <1>1, <1>3, <2>1 DEF RankInv, Outstanding
    <2>5. NotBehind(r, q) <=>
            (a <= b =>
               /\ Follows(r, q)
               /\ IF b - a > 0
                  THEN SilentBetween(r, q) /\ Lead(r, q)
                  ELSE IF rank_pc[q] = "idle" THEN Lead(r, q)
                  ELSE rank_pc[r] # "idle" => Together(r, q))
      BY <2>2 DEF NotBehind
    <2> HIDE DEF a, b
    <2>6. SUFFICES ASSUME a <= b
                   PROVE  /\ Follows(r, q)'
                          /\ IF b - a > 0
                             THEN SilentBetween(r, q)' /\ Lead(r, q)'
                             ELSE IF rank_pc[q] = "idle" THEN Lead(r, q)'
                             ELSE rank_pc[r] # "idle" => Together(r, q)'
      BY <1>1, <2>2 DEF NotBehind
    <2>7. Follows(r, q)'
      <3>1. \A j \in 1 .. a : todo[r][j] = todo[q][b - a + j]
        BY <2>1, <2>2, <2>5, <2>6 DEF Follows, a
      <3>2. ASSUME NEW j \in 1 .. a + 1
            PROVE  todo'[r][j] = todo'[q][b - a + j]
        <4>1. CASE j = a + 1
          <5>1. b - a + j = b + 1
            BY <2>2, <4>1
          <5> QED BY <2>3, <4>1, <5>1
        <4>2. CASE j # a + 1
          <5>1. j \in 1 .. a /\ b - a + j \in 1 .. b
            BY <2>2, <2>6, <4>2
          <5> QED BY <2>3, <3>1, <5>1
        <4> QED BY <4>1, <4>2
      <3> QED BY <2>2, <3>2 DEF Follows
    <2>8. Lead(r, q) => Lead(r, q)'
      BY <1>1, <2>4 DEF Lead, Polled
    <2>9. Together(r, q) => Together(r, q)'
      BY <1>1, <2>4 DEF Together, Boundary
    <2>10. SilentBetween(r, q) => SilentBetween(r, q)'
      <3>1. \A j \in 1 .. b - a : todo'[q][j] = todo[q][j]
        <4> TAKE j \in 1 .. b - a
        <4>1. j \in 1 .. b
          BY <2>2
        <4> QED BY <2>3, <4>1
      <3> QED BY <1>1, <2>2, <2>4, <3>1 DEF SilentBetween, Silent, Polled
    <2> QED BY <1>1, <2>1, <2>5, <2>6, <2>7, <2>8, <2>9, <2>10
  <1> QED BY <1>2, <1>4, <1>5 DEF VoteInv, VoteInvs

\* The engine's other steps, arrivals and the children's answers do not touch
\* the ranks.
LEMMA OthersKeep ==
    ASSUME VoteInv,
           <<todo, rank_pc, layer, aborted, relay>>'
             = <<todo, rank_pc, layer, aborted, relay>>
    PROVE  VoteInv'
  <1>1. /\ todo' = todo /\ rank_pc' = rank_pc /\ layer' = layer
        /\ aborted' = aborted /\ relay' = relay
    OBVIOUS
  <1> QED
    BY <1>1 DEF VoteInv, VoteType, RankInvs, RankInv, VoteInvs, NotBehind,
       Follows, Behind, SilentBetween, Silent, Polled, Lead, Together,
       Boundary, Outstanding, Current

THEOREM VotesInvariant == Spec => []VoteInv
  <1>1. Init => VoteInv
    <2> SUFFICES ASSUME Init PROVE VoteInv
      OBVIOUS
    <2>1. /\ todo = [r \in Ranks |-> <<>>]
          /\ rank_pc = [r \in Ranks |-> "idle"]
          /\ layer = [r \in Ranks |-> 0]
          /\ aborted = [r \in Ranks |-> FALSE]
          /\ relay = [r \in Ranks |-> "none"]
      BY DEF Init
    <2>2. \A r \in Ranks : IsSeq(todo[r]) /\ Len(todo[r]) = 0
      BY <2>1 DEF IsSeq
    <2>3. VoteType
      BY <2>1 DEF VoteType, RankPc
    <2>4. RankInvs
      BY <2>1, <2>2 DEF RankInvs, RankInv
    <2>5. VoteInvs
      BY <2>1, <2>2 DEF VoteInvs, NotBehind, Follows, Behind, Lead, Outstanding
    <2> QED BY <2>3, <2>4, <2>5 DEF VoteInv
  <1>2. VoteInv /\ [Next]_vars => VoteInv'
    <2> SUFFICES ASSUME VoteInv, [Next]_vars PROVE VoteInv'
      OBVIOUS
    <2> DEFINE same == <<todo, rank_pc, layer, aborted, relay>>'
                         = <<todo, rank_pc, layer, aborted, relay>>
    <2>1. CASE Engine
      <3>1. CASE Send
        BY <3>1, SendKeeps
      <3>2. \/ StartSchedule \/ Build \/ TakeTriggerCmd \/ TierB
            \/ Receive
            => same
        BY DEF StartSchedule, Build, TakeTriggerCmd, TierB, Receive, rank_vars
      <3>3. \/ RollbackStep \/ MirrorStarted \/ ApplyDone \/ ApplySaved
            \/ Processed
            => same
        BY DEF RollbackStep, MirrorStarted, ApplyDone, ApplySaved, Processed,
               apply_unchanged, rank_vars
      <3> QED BY <2>1, <3>1, <3>2, <3>3, OthersKeep DEF Engine
    <2>2. CASE Workers
      BY <2>2, AllReduceKeeps, BeginKeeps, LayerKeeps, RelayKeeps, OutputKeeps
      DEF Workers
    <2>3. CASE Children
      <3>1. same
        BY <2>3 DEF Children, ChildAnswer, rank_vars
      <3> QED BY <3>1, OthersKeep
    <2>4. CASE Arrive \/ Bump \/ Switch \/ Overdue
      <3>1. same
        BY <2>4 DEF Arrive, Bump, Switch, Overdue, rank_vars
      <3> QED BY <3>1, OthersKeep
    <2>5. CASE UNCHANGED vars
      <3>1. same
        BY <2>5 DEF vars, rank_vars
      <3> QED BY <3>1, OthersKeep
    <2> QED BY <2>1, <2>2, <2>3, <2>4, <2>5 DEF Next
  <1> QED BY <1>1, <1>2, PTL DEF Spec

-----------------------------------------------------------------------------
\* Ranks that wait in the all-reduce wait in the same one, for any number of
\* ranks (FtAbortPoller's reductions and relay_all_done's, coordinator.py:188).
THEOREM VotesAlwaysMatch == Spec => []VotesMatch
  <1>1. VoteInv => VotesMatch
    BY VotersTogether DEF VotesMatch
  <1> QED BY <1>1, VotesInvariant, PTL

\* Ranks that have left the forward of one step left it the same way: all
\* abandoned it at one boundary, or none did (coordinator.py:221).
THEOREM OutcomesAgree == Spec => []SameOutcome
  <1>1. VoteInv => SameOutcome
    <2> SUFFICES ASSUME VoteInv, NEW r \in Ranks, NEW q \in Ranks \ {r},
                        rank_pc[r] \in Working, rank_pc[q] \in Working,
                        Len(todo[r]) = Len(todo[q])
                 PROVE  aborted[r] = aborted[q] /\ layer[r] = layer[q]
      BY DEF SameOutcome, Working
    <2>1. NotBehind(r, q) /\ RankInv(r)
      BY DEF VoteInv, VoteInvs, RankInvs
    <2>2. Len(todo[r]) \in Nat /\ Len(todo[r]) <= Len(todo[q])
      BY <2>1, IsSeqFacts DEF RankInv
    <2>3. Behind(r, q) = 0
      BY <2>2 DEF Behind
    <2>4. Together(r, q)
      BY <2>1, <2>2, <2>3 DEF NotBehind, Working
    <2>5. aborted[r] \in BOOLEAN /\ aborted[q] \in BOOLEAN
      BY DEF VoteInv, VoteType
    <2>6. aborted[r] = aborted[q]
      BY <2>4, <2>5 DEF Together
    <2>7. layer[r] = layer[q]
      BY <2>4 DEF Together, Boundary, Working
    <2> QED BY <2>6, <2>7
  <1> QED BY <1>1, VotesInvariant, PTL
-----------------------------------------------------------------------------
(***************************************************************************)
(* The trigger of a backward and its ack, from the scheduler to every rank *)
(* and back.                                                               *)
(***************************************************************************)
IsOutput(o) ==
    /\ o = [aborted |-> o.aborted, started |-> o.started, done |-> o.done,
            n |-> o.n]
    /\ o.done \in BOOLEAN

IsStep(s) ==
    /\ s = [inf |-> s.inf, n |-> s.n, off |-> s.off, samples |-> s.samples,
            snap |-> s.snap, cmd |-> s.cmd]
    /\ s.cmd \in BOOLEAN

TokenType ==
    /\ trigger_cmd \in {"none", "work"}
    /\ alive = TRUE /\ pending_backward \in BOOLEAN
    /\ IsStep(built)
    /\ IsOutput(received)
    /\ IsSeq(outputs) /\ \A i \in DOMAIN outputs : IsOutput(outputs[i])
    /\ done \in [Ranks -> BOOLEAN] /\ observed \in [Ranks -> BOOLEAN]
    /\ child \in [Ranks -> {"idle", "work", "answered"}]

\* The command leaves the stash with the step that schedule() returns, and
\* such a step carries no finetuning rows, so that tier B never undoes it.
EngineInv ==
    /\ engine_pc = "take" =>
         trigger_cmd = "work" /\ ~built.cmd /\ built.n = 0
    /\ built.cmd => engine_pc = "built" /\ built.n = 0
    /\ received.done => engine_pc = "update"

\* What the rank's side of the relay says of its child.
ChildInv(r) ==
    /\ relay[r] = "pending" <=> child[r] # "idle"
    /\ rank_pc[r] = "ack" /\ observed[r] => relay[r] = "ack"
    /\ done[r] => rank_pc[r] = "output"

InOutputs == \E i \in DOMAIN outputs : outputs[i].done

\* There is one ack.
AckOnce ==
    /\ received.done => ~InOutputs /\ ~done[OutputRank]
    /\ InOutputs => ~done[OutputRank]
    /\ \A i, j \in DOMAIN outputs :
         outputs[i].done /\ outputs[j].done => i = j

\* A rank that has begun the step at the head of its queue has the rest of the
\* queue before it.
Begun(r) == IF rank_pc[r] = "idle" THEN 0 ELSE 1

Ahead(r) == {i \in 1 .. Len(todo[r]) : i > Begun(r) /\ todo[r][i].cmd}

Queued(r) == Ahead(r) # {}

\* Where the trigger of the pending backward is, for rank r.
TokenInv(r) ==
    /\ pending_backward <=>
         \/ trigger_cmd = "work" \/ built.cmd
         \/ Queued(r) \/ Outstanding(r) \/ AckOnItsWay
    /\ trigger_cmd = "work" =>
         ~built.cmd /\ ~Queued(r) /\ ~Outstanding(r) /\ ~AckOnItsWay
    /\ built.cmd => ~Queued(r) /\ ~Outstanding(r) /\ ~AckOnItsWay
    /\ Queued(r) => ~Outstanding(r) /\ ~AckOnItsWay
    /\ Outstanding(r) => ~AckOnItsWay
    /\ \A i, j \in Ahead(r) : i = j

ChildInvs == \A r \in Ranks : ChildInv(r)
TokenInvs == \A r \in Ranks : TokenInv(r)

RelayInv == TokenType /\ EngineInv /\ ChildInvs /\ AckOnce /\ TokenInvs

\* What the coordinator's operations do to the pending backward: only a
\* trigger begins one, when none is pending, and its command is stashed.
LEMMA TriggerFacts ==
    ASSUME TokenType
    PROVE  /\ S!TryEpochFlush =>
                /\ ~pending_backward /\ pending_backward' = TRUE
                /\ trigger_cmd' = "work"
           /\ \A n, lens : S!RecordCapture(n, lens) =>
                \/ /\ ~pending_backward /\ pending_backward' = TRUE
                   /\ trigger_cmd' = "work"
                \/ pending_backward' = pending_backward
                   /\ trigger_cmd' = trigger_cmd
           /\ S!TryEpochFlush \/ (\E n, lens : S!RecordCapture(n, lens)) =>
                alive' = alive
  BY DEF TokenType, S!TryEpochFlush, S!CanFlush, S!TriggerBackward,
     S!RecordCapture, S!backward_vars, S!gate_vars

\* The other operations leave it alone.
LEMMA UntouchedFacts ==
    ASSUME \/ S!DisableStuck \/ S!StartFinetuning \/ S!StopFinetuning
           \/ \E a, l, s, m, T : S!Inject(a, l, s, m, T)
           \/ \E n, T, snap : S!Rollback(n, T, snap)
           \/ UNCHANGED coord_vars
    PROVE  /\ pending_backward' = pending_backward
           /\ trigger_cmd' = trigger_cmd /\ alive' = alive
  BY DEF S!DisableStuck, S!StartFinetuning, S!StopFinetuning, S!Inject,
     S!Rollback, S!backward_vars, coord_vars, account

\* A step of the engine alone keeps what is said of the ranks, if the token is
\* still in one place.
LEMMA EngineKeeps ==
    ASSUME RelayInv, TokenType', EngineInv', AckOnce',
           UNCHANGED <<todo, rank_pc, relay, child, done, observed>>,
           \A r \in Ranks : TokenInv(r)'
    PROVE  RelayInv'
  BY DEF RelayInv, ChildInvs, ChildInv, TokenInvs

\* schedule() stashes the trigger when the flush closes the epoch.
LEMMA StartScheduleRelays ==
    ASSUME RelayInv, StartSchedule
    PROVE  RelayInv'
  <1>1. /\ engine_pc \in {"idle", "again"} /\ engine_pc' = "build"
        /\ UNCHANGED <<built, received, outputs, todo, rank_pc, relay, child,
                       done, observed>>
        /\ S!DisableStuck \/ S!TryEpochFlush \/ UNCHANGED coord_vars
    BY DEF StartSchedule, PollRelay, rank_vars
  <1>2. /\ alive' = alive
        /\ \/ /\ ~pending_backward /\ pending_backward' = TRUE
              /\ trigger_cmd' = "work"
           \/ pending_backward' = pending_backward
              /\ trigger_cmd' = trigger_cmd
    BY <1>1, TriggerFacts, UntouchedFacts DEF RelayInv
  <1>3. TokenType'
    <2>1. pending_backward' \in BOOLEAN /\ trigger_cmd' \in {"none", "work"}
      BY <1>2 DEF RelayInv, TokenType
    <2> QED BY <1>1, <1>2, <2>1 DEF RelayInv, TokenType
  <1>4. EngineInv' /\ AckOnce'
    BY <1>1 DEF RelayInv, EngineInv, AckOnce, InOutputs
  <1>5. \A r \in Ranks : TokenInv(r)'
    <2> TAKE r \in Ranks
    <2>1. TokenInv(r)
      BY DEF RelayInv, TokenInvs
    <2>2. /\ Ahead(r)' = Ahead(r) /\ (Queued(r)' <=> Queued(r))
          /\ (Outstanding(r)' <=> Outstanding(r))
          /\ (AckOnItsWay' <=> AckOnItsWay) /\ built' = built
      BY <1>1 DEF Ahead, Begun, Queued, Outstanding, AckOnItsWay
    <2> QED BY <1>2, <2>1, <2>2 DEF TokenInv
  <1> QED BY <1>1, <1>3, <1>4, <1>5, EngineKeeps

\* While a backward is pending a step carries no finetuning rows.
LEMMA BuildRelays ==
    ASSUME RelayInv, Build
    PROVE  RelayInv'
  <1>1. /\ engine_pc = "build"
        /\ engine_pc' = IF trigger_cmd = "none" THEN "built" ELSE "take"
        /\ UNCHANGED <<received, outputs, todo, rank_pc, relay, child, done,
                       observed>>
        /\ IsStep(built') /\ built'.cmd = FALSE
    BY DEF Build, rank_vars, IsStep
  <1>2. /\ UNCHANGED <<pending_backward, trigger_cmd, alive>>
        /\ built'.n \in 0 .. S!Budget
    BY UntouchedFacts DEF Build
  <1>3. pending_backward => built'.n = 0
    BY <1>2 DEF S!Budget
  <1>4. trigger_cmd = "work" => pending_backward
    BY TPAssumption DEF RelayInv, TokenInvs, TokenInv
  <1>5. TokenType' /\ EngineInv' /\ AckOnce'
    BY <1>1, <1>2, <1>3, <1>4
    DEF RelayInv, TokenType, EngineInv, AckOnce, InOutputs
  <1>6. \A r \in Ranks : TokenInv(r)'
    <2> TAKE r \in Ranks
    <2>1. TokenInv(r) /\ ~built.cmd /\ ~built'.cmd
      BY <1>1 DEF RelayInv, TokenInvs, EngineInv
    <2>2. /\ Ahead(r)' = Ahead(r) /\ (Queued(r)' <=> Queued(r))
          /\ (Outstanding(r)' <=> Outstanding(r))
          /\ (AckOnItsWay' <=> AckOnItsWay)
      BY <1>1 DEF Ahead, Begun, Queued, Outstanding, AckOnItsWay
    <2> QED BY <1>2, <2>1, <2>2 DEF TokenInv
  <1> QED BY <1>1, <1>5, <1>6, EngineKeeps

\* The command goes from the stash to the step.
LEMMA TakeTriggerCmdRelays ==
    ASSUME RelayInv, TakeTriggerCmd
    PROVE  RelayInv'
  <1>1. /\ engine_pc = "take" /\ engine_pc' = "built"
        /\ trigger_cmd = "work" /\ trigger_cmd' = "none"
        /\ UNCHANGED <<received, outputs, todo, rank_pc, relay, child, done,
                       observed, pending_backward, alive>>
        /\ built.cmd = FALSE /\ built'.cmd = TRUE
        /\ built.n = 0 /\ built'.n = 0 /\ IsStep(built')
    BY DEF TakeTriggerCmd, rank_vars, account, RelayInv, EngineInv, TokenType,
           IsStep
  <1>2. TokenType' /\ EngineInv' /\ AckOnce'
    BY <1>1 DEF RelayInv, TokenType, EngineInv, AckOnce, InOutputs
  <1>3. \A r \in Ranks : TokenInv(r)'
    <2> TAKE r \in Ranks
    <2>1. TokenInv(r)
      BY DEF RelayInv, TokenInvs
    <2>2. /\ Ahead(r)' = Ahead(r) /\ (Queued(r)' <=> Queued(r))
          /\ (Outstanding(r)' <=> Outstanding(r))
          /\ (AckOnItsWay' <=> AckOnItsWay)
      BY <1>1 DEF Ahead, Begun, Queued, Outstanding, AckOnItsWay
    <2> QED BY <1>1, <2>1, <2>2 DEF TokenInv
  <1> QED BY <1>1, <1>2, <1>3, EngineKeeps

\* A step tier B undoes carries no command.
LEMMA TierBRelays ==
    ASSUME RelayInv, TierB
    PROVE  RelayInv'
  <1>1. /\ engine_pc = "built" /\ engine_pc' = "again"
        /\ UNCHANGED <<received, outputs, todo, rank_pc, relay, child, done,
                       observed>>
        /\ built' = IdleStep /\ built.n > 0
    BY DEF TierB, rank_vars, Preempt, FtOnly
  <1>2. UNCHANGED <<pending_backward, trigger_cmd, alive>>
    BY UntouchedFacts DEF TierB
  <1>3. ~built.cmd /\ IsStep(built') /\ ~built'.cmd
    BY <1>1 DEF RelayInv, EngineInv, IdleStep, IsStep
  <1>4. TokenType' /\ EngineInv' /\ AckOnce'
    BY <1>1, <1>2, <1>3
    DEF RelayInv, TokenType, EngineInv, AckOnce, InOutputs
  <1>5. \A r \in Ranks : TokenInv(r)'
    <2> TAKE r \in Ranks
    <2>1. TokenInv(r)
      BY DEF RelayInv, TokenInvs
    <2>2. /\ Ahead(r)' = Ahead(r) /\ (Queued(r)' <=> Queued(r))
          /\ (Outstanding(r)' <=> Outstanding(r))
          /\ (AckOnItsWay' <=> AckOnItsWay)
      BY <1>1 DEF Ahead, Begun, Queued, Outstanding, AckOnItsWay
    <2> QED BY <1>2, <1>3, <2>1, <2>2 DEF TokenInv
  <1> QED BY <1>1, <1>4, <1>5, EngineKeeps

\* The command goes from the step to the queue of every rank, last.
LEMMA SendRelays ==
    ASSUME VoteInv, RelayInv, Send
    PROVE  RelayInv'
  <1>1. /\ engine_pc = "built" /\ engine_pc' = "idle"
        /\ todo' = [r \in Ranks |-> Append(todo[r], built)]
        /\ UNCHANGED <<received, outputs, rank_pc, relay, child, done,
                       observed, pending_backward, trigger_cmd, alive>>
        /\ built' = IdleStep
    BY DEF Send, coord_vars, account
  <1>2. IsStep(built') /\ ~built'.cmd
    BY <1>1 DEF IdleStep, IsStep
  <1>3. TokenType' /\ EngineInv' /\ AckOnce'
    BY <1>1, <1>2
    DEF RelayInv, TokenType, EngineInv, AckOnce, InOutputs
  <1>4. ASSUME NEW r \in Ranks PROVE TokenInv(r)'
    <2>1. TokenInv(r) /\ IsSeq(todo[r]) /\ RankInv(r)
      BY DEF RelayInv, TokenInvs, VoteInv, RankInvs, RankInv
    <2> DEFINE a == Len(todo[r])
    <2>2. /\ a \in Nat /\ Len(todo'[r]) = a + 1 /\ todo'[r][a + 1] = built
          /\ \A j \in 1 .. a : todo'[r][j] = todo[r][j]
          /\ rank_pc[r] # "idle" => a > 0
          /\ Begun(r)' = Begun(r) /\ Begun(r) \in {0, 1}
      BY <1>1, <2>1, AppendFacts, IsSeqFacts DEF RankInv, Begun
    <2>3. Ahead(r) = {i \in 1 .. a : i > Begun(r) /\ todo[r][i].cmd}
      BY DEF Ahead
    <2>4. Ahead(r)' = {i \in 1 .. a + 1 : i > Begun(r) /\ todo'[r][i].cmd}
      BY <2>2 DEF Ahead
    <2> HIDE DEF a
    <2>5. a + 1 > Begun(r)
      BY <2>2 DEF Begun, a
    <2>6. Ahead(r)' = Ahead(r) \union (IF built.cmd THEN {a + 1} ELSE {})
      BY <2>2, <2>3, <2>4, <2>5
    <2>7. /\ (Outstanding(r)' <=> Outstanding(r))
          /\ (AckOnItsWay' <=> AckOnItsWay)
      BY <1>1 DEF Outstanding, AckOnItsWay
    <2>8. CASE built.cmd
      <3>1. Ahead(r)' = {a + 1} /\ Queued(r)' /\ ~Queued(r)
        BY <2>1, <2>6, <2>8 DEF TokenInv, Queued
      <3>2. \A i, j \in Ahead(r)' : i = j
        BY <3>1
      <3> QED BY <1>1, <1>2, <2>1, <2>7, <2>8, <3>1, <3>2 DEF TokenInv
    <2>9. CASE ~built.cmd
      <3>1. Ahead(r)' = Ahead(r) /\ (Queued(r)' <=> Queued(r))
        BY <2>6, <2>9 DEF Queued
      <3> QED BY <1>1, <1>2, <2>1, <2>7, <2>9, <3>1 DEF TokenInv
    <2> QED BY <2>8, <2>9
  <1>5. ChildInvs'
    BY <1>1 DEF RelayInv, ChildInvs, ChildInv
  <1> QED BY <1>3, <1>4, <1>5 DEF RelayInv, TokenInvs

\* The ack goes from the outputs to the one being processed.
LEMMA ReceiveRelays ==
    ASSUME RelayInv, Receive
    PROVE  RelayInv'
  <1>1. /\ engine_pc = "idle" /\ engine_pc' = "update" /\ outputs # <<>>
        /\ received' = Head(outputs) /\ outputs' = Tail(outputs)
        /\ UNCHANGED <<todo, rank_pc, relay, child, done, observed, built,
                       pending_backward, trigger_cmd, alive>>
    BY DEF Receive, rank_vars, coord_vars, account
  <1> DEFINE n == Len(outputs)
  <1>2. /\ IsSeq(outputs) /\ DOMAIN outputs = 1 .. n /\ n \in Nat /\ n > 0
        /\ received' = outputs[1]
        /\ IsSeq(outputs') /\ DOMAIN outputs' = 1 .. n - 1
        /\ \A j \in 1 .. n - 1 : outputs'[j] = outputs[j + 1]
    BY <1>1, IsSeqFacts, TailFacts DEF RelayInv, TokenType
  <1> HIDE DEF n
  <1>3. IsOutput(received') /\ \A i \in DOMAIN outputs' : IsOutput(outputs'[i])
    <2>1. \A i \in 1 .. n : IsOutput(outputs[i])
      BY <1>2 DEF RelayInv, TokenType
    <2>2. 1 \in 1 .. n /\ \A j \in 1 .. n - 1 : j + 1 \in 1 .. n
      BY <1>2
    <2> QED BY <1>2, <2>1, <2>2
  <1>4. TokenType'
    BY <1>1, <1>2, <1>3 DEF RelayInv, TokenType
  <1>5. EngineInv'
    BY <1>1 DEF RelayInv, EngineInv
  <1>6. ~received.done
    BY <1>1 DEF RelayInv, EngineInv
  <1>7. /\ InOutputs <=> (received'.done \/ InOutputs')
        /\ received'.done => ~InOutputs'
        /\ \A i, j \in DOMAIN outputs' :
             outputs'[i].done /\ outputs'[j].done => i = j
    <2>1. \A i, j \in 1 .. n : outputs[i].done /\ outputs[j].done => i = j
      BY <1>2 DEF RelayInv, AckOnce
    <2>2. \A j \in 1 .. n - 1 : j + 1 \in 1 .. n /\ j + 1 # 1
      BY <1>2
    <2>3. \A i \in 1 .. n : i = 1 \/ (i - 1 \in 1 .. n - 1 /\ (i - 1) + 1 = i)
      BY <1>2
    <2>4. 1 \in 1 .. n
      BY <1>2
    <2>5. InOutputs => (received'.done \/ InOutputs')
      BY <1>2, <2>3 DEF InOutputs
    <2>6. (received'.done \/ InOutputs') => InOutputs
      BY <1>2, <2>2, <2>4 DEF InOutputs
    <2>7. received'.done => ~InOutputs'
      BY <1>2, <2>1, <2>2, <2>4 DEF InOutputs
    <2>8. \A i, j \in DOMAIN outputs' :
             outputs'[i].done /\ outputs'[j].done => i = j
      <3> TAKE i, j \in DOMAIN outputs'
      <3>1. /\ i \in 1 .. n - 1 /\ j \in 1 .. n - 1
            /\ outputs'[i] = outputs[i + 1] /\ outputs'[j] = outputs[j + 1]
        BY <1>2
      <3>2. i + 1 = j + 1 => i = j
        BY <1>2, <3>1
      <3> QED BY <2>1, <2>2, <3>1, <3>2
    <2> QED BY <2>5, <2>6, <2>7, <2>8
  <1>8. AckOnItsWay' <=> AckOnItsWay
    BY <1>1, <1>6, <1>7 DEF AckOnItsWay, InOutputs
  <1>9. AckOnce'
    BY <1>1, <1>7 DEF RelayInv, AckOnce
  <1>10. \A r \in Ranks : TokenInv(r)'
    <2> TAKE r \in Ranks
    <2>1. TokenInv(r)
      BY DEF RelayInv, TokenInvs
    <2>2. /\ Ahead(r)' = Ahead(r) /\ (Queued(r)' <=> Queued(r))
          /\ (Outstanding(r)' <=> Outstanding(r))
      BY <1>1 DEF Ahead, Begun, Queued, Outstanding
    <2> QED BY <1>1, <1>8, <2>1, <2>2 DEF TokenInv
  <1> QED BY <1>1, <1>4, <1>5, <1>9, <1>10, EngineKeeps

\* A step that moves neither trigger nor ack.
LEMMA StillRelays ==
    ASSUME RelayInv,
           UNCHANGED <<todo, rank_pc, relay, child, done, observed, outputs,
                       built, pending_backward, trigger_cmd, alive>>,
           IsOutput(received)', received'.done <=> received.done,
           \/ engine_pc' = engine_pc
           \/ engine_pc' = "idle" /\ engine_pc = "update" /\ ~received.done
    PROVE  RelayInv'
  <1>1. TokenType' /\ EngineInv' /\ AckOnce'
    BY DEF RelayInv, TokenType, EngineInv, AckOnce, InOutputs
  <1>2. \A r \in Ranks : TokenInv(r)'
    <2> TAKE r \in Ranks
    <2>1. TokenInv(r)
      BY DEF RelayInv, TokenInvs
    <2>2. /\ Ahead(r)' = Ahead(r) /\ (Queued(r)' <=> Queued(r))
          /\ (Outstanding(r)' <=> Outstanding(r))
          /\ (AckOnItsWay' <=> AckOnItsWay)
      BY DEF Ahead, Begun, Queued, Outstanding, AckOnItsWay
    <2> QED BY <2>1, <2>2 DEF TokenInv
  <1> QED BY <1>1, <1>2, EngineKeeps

\* What is applied before the ack and after it moves neither.
LEMMA AppliesRelay ==
    ASSUME RelayInv, RollbackStep \/ MirrorStarted \/ Processed
    PROVE  RelayInv'
  <1>1. UNCHANGED <<todo, rank_pc, relay, child, done, observed, outputs,
                    built>>
    BY DEF RollbackStep, MirrorStarted, Processed, apply_unchanged, rank_vars
  <1>2. UNCHANGED <<pending_backward, trigger_cmd, alive>>
    <2>1. \/ \E n, T, snap : S!Rollback(n, T, snap)
          \/ S!StartFinetuning \/ S!StopFinetuning \/ UNCHANGED coord_vars
      BY DEF RollbackStep, MirrorStarted, Processed
    <2> QED BY <2>1, UntouchedFacts
  <1>3. IsOutput(received)' /\ (received'.done <=> received.done)
    <2>1. IsOutput(received)
      BY DEF RelayInv, TokenType
    <2>2. CASE RollbackStep
      BY <2>1, <2>2 DEF RollbackStep, IsOutput
    <2>3. CASE MirrorStarted
      BY <2>1, <2>3 DEF MirrorStarted, IsOutput
    <2>4. CASE Processed
      BY <2>4 DEF Processed, NoOutput, IsOutput
    <2> QED BY <2>2, <2>3, <2>4
  <1>4. \/ engine_pc' = engine_pc
        \/ engine_pc' = "idle" /\ engine_pc = "update" /\ ~received.done
    BY DEF RollbackStep, MirrorStarted, Processed
  <1>5. UNCHANGED <<todo, rank_pc, relay, child, done, observed, outputs,
                    built, pending_backward, trigger_cmd, alive>>
    BY <1>1, <1>2
  <1> QED BY <1>3, <1>4, <1>5, StillRelays

\* The ack ends the backward, and it was the only one.
LEMMA ApplyDoneRelays ==
    ASSUME RelayInv, ApplyDone
    PROVE  RelayInv'
  <1>1. /\ engine_pc = "update" /\ engine_pc' = engine_pc
        /\ received.done /\ pending_backward' = FALSE
        /\ received' = [received EXCEPT !.done = FALSE]
        /\ UNCHANGED <<todo, rank_pc, relay, child, done, observed, outputs,
                       built, trigger_cmd, alive>>
    BY DEF ApplyDone, apply_unchanged, rank_vars
  <1>2. IsOutput(received') /\ ~received'.done
    BY <1>1 DEF RelayInv, TokenType, IsOutput
  <1>3. ~InOutputs /\ ~done[OutputRank]
    BY <1>1 DEF RelayInv, AckOnce
  <1>4. TokenType' /\ EngineInv' /\ AckOnce'
    BY <1>1, <1>2 DEF RelayInv, TokenType, EngineInv, AckOnce, InOutputs
  <1>5. \A r \in Ranks : TokenInv(r)'
    <2> TAKE r \in Ranks
    <2>1. TokenInv(r) /\ AckOnItsWay
      BY <1>1 DEF RelayInv, TokenInvs, AckOnItsWay
    <2>2. /\ Ahead(r)' = Ahead(r) /\ (Queued(r)' <=> Queued(r))
          /\ (Outstanding(r)' <=> Outstanding(r))
      BY <1>1 DEF Ahead, Begun, Queued, Outstanding
    <2>3. ~AckOnItsWay'
      BY <1>1, <1>2, <1>3 DEF AckOnItsWay, InOutputs
    <2> QED BY <1>1, <2>1, <2>2, <2>3 DEF TokenInv
  <1> QED BY <1>1, <1>4, <1>5, EngineKeeps

\* The counts that come back may fill the buffer, which stashes a trigger.
LEMMA ApplySavedRelays ==
    ASSUME RelayInv, ApplySaved
    PROVE  RelayInv'
  <1>1. /\ engine_pc = "update" /\ engine_pc' = engine_pc
        /\ ~received.done
        /\ received' = [received EXCEPT !.n = 0]
        /\ UNCHANGED <<todo, rank_pc, relay, child, done, observed, outputs,
                       built>>
        /\ \E n, lens : S!RecordCapture(n, lens)
    BY DEF ApplySaved, apply_unchanged, rank_vars
  <1>2. /\ alive' = alive
        /\ \/ /\ ~pending_backward /\ pending_backward' = TRUE
              /\ trigger_cmd' = "work"
           \/ pending_backward' = pending_backward
              /\ trigger_cmd' = trigger_cmd
    BY <1>1, TriggerFacts DEF RelayInv
  <1>3. IsOutput(received') /\ (received'.done <=> received.done)
    BY <1>1 DEF RelayInv, TokenType, IsOutput
  <1>4. TokenType'
    BY <1>1, <1>2, <1>3 DEF RelayInv, TokenType
  <1>5. EngineInv' /\ AckOnce'
    BY <1>1, <1>3 DEF RelayInv, EngineInv, AckOnce, InOutputs
  <1>6. \A r \in Ranks : TokenInv(r)'
    <2> TAKE r \in Ranks
    <2>1. TokenInv(r)
      BY DEF RelayInv, TokenInvs
    <2>2. /\ Ahead(r)' = Ahead(r) /\ (Queued(r)' <=> Queued(r))
          /\ (Outstanding(r)' <=> Outstanding(r))
          /\ (AckOnItsWay' <=> AckOnItsWay) /\ built' = built
      BY <1>1, <1>3 DEF Ahead, Begun, Queued, Outstanding, AckOnItsWay
    <2> QED BY <1>2, <2>1, <2>2 DEF TokenInv
  <1> QED BY <1>1, <1>4, <1>5, <1>6, EngineKeeps

-----------------------------------------------------------------------------
\* A step of the ranks keeps what is said of the engine.
LEMMA RankKeeps ==
    ASSUME RelayInv, rank_unchanged' = rank_unchanged,
           TokenType', AckOnce',
           \A r \in Ranks : ChildInv(r)' /\ TokenInv(r)'
    PROVE  RelayInv'
  BY DEF RelayInv, EngineInv, rank_unchanged, engine_vars, coord_vars, account,
         ChildInvs, TokenInvs

\* The trigger goes from the queue to the rank and its child.
LEMMA BeginRelays ==
    ASSUME VoteInv, RelayInv, NEW p \in Ranks, Begin(p)
    PROVE  RelayInv'
  <1> DEFINE cur == Current(p)
  <1>1. /\ rank_pc[p] = "idle" /\ todo[p] # <<>>
        /\ UNCHANGED <<outputs, todo, done>>
        /\ rank_unchanged' = rank_unchanged
        /\ rank_pc' = [rank_pc EXCEPT ![p] = IF Polled(cur) THEN "entry"
                                                            ELSE "relay"]
        /\ observed' = [observed EXCEPT ![p] = observed'[p]]
        /\ observed'[p] \in BOOLEAN
        /\ cur.cmd => /\ relay' = [relay EXCEPT ![p] = "pending"]
                      /\ child' = [child EXCEPT ![p] = "work"]
        /\ ~cur.cmd => relay' = relay /\ child' = child
    BY DEF Begin, Polled, RelayInv, TokenType
  <1>2. UNCHANGED <<received, built, pending_backward, trigger_cmd, alive>>
    BY <1>1 DEF rank_unchanged, engine_vars, coord_vars, account
  <1>3. TokenType'
    BY <1>1, <1>2 DEF RelayInv, TokenType
  <1>4. AckOnce' /\ (AckOnItsWay' <=> AckOnItsWay)
    BY <1>1, <1>2 DEF RelayInv, AckOnce, InOutputs, AckOnItsWay
  <1>5. /\ IsSeq(todo[p]) /\ Len(todo[p]) \in Nat /\ Len(todo[p]) > 0
        /\ cur = todo[p][1]
    BY <1>1, IsSeqFacts DEF VoteInv, RankInvs, RankInv, Current
  <1>6. ASSUME NEW r \in Ranks PROVE TokenInv(r)'
    <2>1. TokenInv(r)
      BY DEF RelayInv, TokenInvs
    <2>2. CASE r = p
      <3>1. /\ Ahead(p) = {i \in 1 .. Len(todo[p]) : i > 0 /\ todo[p][i].cmd}
            /\ Ahead(p)' = {i \in 1 .. Len(todo[p]) : i > 1 /\ todo[p][i].cmd}
        BY <1>1 DEF Ahead, Begun, VoteInv, VoteType
      <3>2. CASE cur.cmd
        <4>1. 1 \in Ahead(p) /\ Ahead(p)' = {}
          BY <1>5, <2>1, <2>2, <3>1, <3>2 DEF TokenInv
        <4>2. Queued(p) /\ ~Queued(p)' /\ Outstanding(p)'
          BY <1>1, <3>2, <4>1 DEF Queued, Outstanding, VoteInv, VoteType
        <4> QED BY <1>2, <1>4, <2>1, <2>2, <4>1, <4>2 DEF TokenInv
      <3>3. CASE ~cur.cmd
        <4>1. Ahead(p)' = Ahead(p)
          BY <1>5, <3>1, <3>3
        <4>2. /\ Queued(p)' <=> Queued(p)
              /\ Outstanding(p)' <=> Outstanding(p)
          BY <1>1, <3>3, <4>1 DEF Queued, Outstanding
        <4> QED BY <1>2, <1>4, <2>1, <2>2, <4>1, <4>2 DEF TokenInv
      <3> QED BY <3>2, <3>3
    <2>3. CASE r # p
      <3>1. /\ Ahead(r)' = Ahead(r) /\ (Queued(r)' <=> Queued(r))
            /\ (Outstanding(r)' <=> Outstanding(r))
        BY <1>1, <2>3
        DEF Ahead, Begun, Queued, Outstanding, VoteInv, VoteType
      <3> QED BY <1>2, <1>4, <2>1, <3>1 DEF TokenInv
    <2> QED BY <2>2, <2>3
  <1>7. ASSUME NEW r \in Ranks PROVE ChildInv(r)'
    <2>1. ChildInv(r)
      BY DEF RelayInv, ChildInvs
    <2>2. CASE r = p
      BY <1>1, <2>1, <2>2
      DEF ChildInv, VoteInv, VoteType, RelayInv, TokenType
    <2>3. CASE r # p
      BY <1>1, <2>1, <2>3
      DEF ChildInv, VoteInv, VoteType, RelayInv, TokenType
    <2> QED BY <2>2, <2>3
  <1> QED BY <1>1, <1>3, <1>4, <1>6, <1>7, RankKeeps

\* A step of one rank that begins and ends none.
LEMMA WithinRelays ==
    ASSUME VoteInv, RelayInv, NEW p \in Ranks,
           UNCHANGED <<outputs, todo, done>>, rank_unchanged' = rank_unchanged,
           rank_pc[p] # "idle", rank_pc[p] # "output",
           rank_pc' = [rank_pc EXCEPT ![p] = rank_pc'[p]],
           rank_pc'[p] # "idle",
           observed' = [observed EXCEPT ![p] = observed'[p]],
           observed'[p] \in BOOLEAN,
           \A r \in Ranks : Outstanding(r)' <=> Outstanding(r),
           \A r \in Ranks : ChildInv(r)',
           child' \in [Ranks -> {"idle", "work", "answered"}]
    PROVE  RelayInv'
  <1>1. UNCHANGED <<received, built, pending_backward, trigger_cmd, alive>>
    BY DEF rank_unchanged, engine_vars, coord_vars, account
  <1>2. TokenType'
    BY <1>1 DEF RelayInv, TokenType
  <1>3. AckOnce' /\ (AckOnItsWay' <=> AckOnItsWay)
    BY <1>1 DEF RelayInv, AckOnce, InOutputs, AckOnItsWay
  <1>4. ASSUME NEW r \in Ranks PROVE TokenInv(r)'
    <2>1. TokenInv(r)
      BY DEF RelayInv, TokenInvs
    <2>2. Ahead(r)' = Ahead(r) /\ (Queued(r)' <=> Queued(r))
      BY DEF Ahead, Begun, Queued, VoteInv, VoteType
    <2> QED BY <1>1, <1>3, <2>1, <2>2 DEF TokenInv
  <1> QED BY <1>2, <1>3, <1>4, RankKeeps

\* A boundary of the forward.
LEMMA LayerRelays ==
    ASSUME VoteInv, RelayInv, NEW p \in Ranks, Layer(p)
    PROVE  RelayInv'
  <1>1. /\ rank_pc[p] = "forward"
        /\ rank_pc' = [rank_pc EXCEPT ![p] = "layer"]
        /\ observed' = [observed EXCEPT ![p] = observed'[p]]
        /\ observed'[p] \in BOOLEAN
        /\ UNCHANGED <<outputs, todo, done, relay, child>>
        /\ rank_unchanged' = rank_unchanged
    BY DEF Layer, RelayInv, TokenType
  <1>2. \A r \in Ranks : ChildInv(r)'
    BY <1>1
    DEF ChildInv, VoteInv, VoteType, RelayInv, TokenType, ChildInvs
  <1>3. \A r \in Ranks : Outstanding(r)' <=> Outstanding(r)
    BY <1>1 DEF Outstanding
  <1>4. child' \in [Ranks -> {"idle", "work", "answered"}]
    BY <1>1 DEF RelayInv, TokenType
  <1>5. rank_pc' = [rank_pc EXCEPT ![p] = rank_pc'[p]] /\ rank_pc'[p] = "layer"
    BY <1>1 DEF VoteInv, VoteType
  <1> QED BY <1>1, <1>2, <1>3, <1>4, <1>5, WithinRelays

\* A rank that has heard from its child votes for the ack.
LEMMA RelayRelays ==
    ASSUME VoteInv, RelayInv, NEW p \in Ranks, Relay(p)
    PROVE  RelayInv'
  <1> DEFINE answer == relay[p] = "pending" /\ child[p] = "answered"
  <1>1. /\ rank_pc[p] = "relay"
        /\ UNCHANGED <<outputs, todo, done>>
        /\ rank_unchanged' = rank_unchanged
        /\ rank_pc' = [rank_pc EXCEPT ![p] = IF Outstanding(p) THEN "ack"
                                                               ELSE "output"]
        /\ relay' = [relay EXCEPT ![p] = IF answer THEN "ack" ELSE @]
        /\ child' = [child EXCEPT ![p] = IF answer THEN "idle" ELSE @]
        /\ observed' = [observed EXCEPT ![p] = relay'[p] = "ack"]
    BY DEF Relay
  <1>2. /\ relay'[p] = IF answer THEN "ack" ELSE relay[p]
        /\ child'[p] = IF answer THEN "idle" ELSE child[p]
        /\ observed'[p] <=> relay'[p] = "ack"
        /\ rank_pc'[p] \in {"ack", "output"}
        /\ relay[p] \in {"none", "pending", "ack"}
        /\ \A r \in Ranks \ {p} :
             /\ relay'[r] = relay[r] /\ child'[r] = child[r]
             /\ observed'[r] = observed[r] /\ rank_pc'[r] = rank_pc[r]
    BY <1>1 DEF VoteInv, VoteType, RelayInv, TokenType
  <1>3. ASSUME NEW r \in Ranks
        PROVE  ChildInv(r)' /\ (Outstanding(r)' <=> Outstanding(r))
    <2>1. ChildInv(r)
      BY DEF RelayInv, ChildInvs
    <2>2. CASE r = p
      BY <1>1, <1>2, <2>1, <2>2 DEF ChildInv, Outstanding
    <2>3. CASE r # p
      BY <1>1, <1>2, <2>1, <2>3 DEF ChildInv, Outstanding
    <2> QED BY <2>2, <2>3
  <1>4. child' \in [Ranks -> {"idle", "work", "answered"}]
    BY <1>1 DEF RelayInv, TokenType
  <1>5. /\ rank_pc' = [rank_pc EXCEPT ![p] = rank_pc'[p]]
        /\ observed' = [observed EXCEPT ![p] = observed'[p]]
        /\ observed'[p] \in BOOLEAN
    BY <1>1, <1>2 DEF VoteInv, VoteType, RelayInv, TokenType
  <1> QED BY <1>1, <1>2, <1>3, <1>4, <1>5, WithinRelays

\* The output carries the ack, if it is the rank whose output counts.
LEMMA OutputRelays ==
    ASSUME VoteInv, RelayInv, NEW p \in Ranks, Output(p)
    PROVE  RelayInv'
  <1>1. /\ rank_pc[p] = "output"
        /\ todo' = [todo EXCEPT ![p] = Tail(@)]
        /\ done' = [done EXCEPT ![p] = FALSE]
        /\ rank_pc' = [rank_pc EXCEPT ![p] = "idle"]
        /\ UNCHANGED <<observed, relay, child>>
        /\ rank_unchanged' = rank_unchanged
        /\ p # OutputRank => outputs' = outputs
    BY DEF Output
  <1>2. UNCHANGED <<received, built, pending_backward, trigger_cmd, alive>>
    BY <1>1 DEF rank_unchanged, engine_vars, coord_vars, account
  <1>3. /\ todo[p] # <<>> /\ Len(todo[p]) \in Nat /\ Len(todo[p]) > 0
        /\ Len(todo'[p]) = Len(todo[p]) - 1
        /\ \A j \in 1 .. Len(todo[p]) - 1 : todo'[p][j] = todo[p][j + 1]
    <2>1. IsSeq(todo[p]) /\ todo[p] # <<>> /\ todo'[p] = Tail(todo[p])
      BY <1>1 DEF VoteInv, VoteType, RankInvs, RankInv
    <2> QED BY <2>1, IsSeqFacts, TailFacts
  <1>4. /\ IsSeq(outputs') /\ \A i \in DOMAIN outputs' : IsOutput(outputs[i])'
        /\ AckOnce' /\ (AckOnItsWay' <=> AckOnItsWay)
    <2>1. CASE p # OutputRank
      <3>1. outputs' = outputs /\ done'[OutputRank] = done[OutputRank]
        BY <1>1, <2>1, TPAssumption DEF RelayInv, TokenType
      <3> QED
        BY <1>2, <3>1 DEF RelayInv, TokenType, AckOnce, InOutputs, AckOnItsWay
    <2>2. CASE p = OutputRank
      <3>1. PICK o : outputs' = Append(outputs, o) /\ IsOutput(o)
                     /\ o.done = done[p]
        BY <2>2 DEF Output, IsOutput, RelayInv, TokenType
      <3> DEFINE n == Len(outputs)
      <3>2. /\ IsSeq(outputs) /\ DOMAIN outputs = 1 .. n /\ n \in Nat
            /\ IsSeq(outputs') /\ DOMAIN outputs' = 1 .. n + 1
            /\ outputs'[n + 1] = o
            /\ \A i \in 1 .. n : outputs'[i] = outputs[i]
        BY <3>1, AppendFacts, IsSeqFacts DEF RelayInv, TokenType
      <3> HIDE DEF n
      <3>3. \A i \in 1 .. n + 1 : i \in 1 .. n \/ i = n + 1
        BY <3>2
      <3>4. \A i \in 1 .. n : i \in 1 .. n + 1 /\ i # n + 1
        BY <3>2
      <3>5. n + 1 \in 1 .. n + 1
        BY <3>2
      <3>6. \A i \in DOMAIN outputs' : IsOutput(outputs[i])'
        BY <3>1, <3>2, <3>3 DEF RelayInv, TokenType
      <3>7. ~done'[OutputRank]
        BY <1>1, <2>2 DEF RelayInv, TokenType
      <3>8. InOutputs' <=> (InOutputs \/ done[p])
        BY <3>1, <3>2, <3>3, <3>4, <3>5 DEF InOutputs
      <3>9. \A i, j \in DOMAIN outputs' :
               outputs'[i].done /\ outputs'[j].done => i = j
        <4>1. \A i, j \in 1 .. n : outputs[i].done /\ outputs[j].done => i = j
          BY <3>2 DEF RelayInv, AckOnce
        <4>2. done[p] => \A i \in 1 .. n : ~outputs[i].done
          BY <2>2, <3>2 DEF RelayInv, AckOnce, InOutputs
        <4> QED BY <3>1, <3>2, <3>3, <4>1, <4>2
      <3>10. AckOnce'
        BY <1>2, <2>2, <3>7, <3>8, <3>9 DEF RelayInv, AckOnce
      <3>11. AckOnItsWay' <=> AckOnItsWay
        BY <1>2, <2>2, <3>7, <3>8 DEF AckOnItsWay, InOutputs
      <3> QED BY <3>2, <3>6, <3>10, <3>11
    <2> QED BY <2>1, <2>2
  <1>5. TokenType'
    BY <1>1, <1>2, <1>4 DEF RelayInv, TokenType
  <1>6. ASSUME NEW r \in Ranks PROVE TokenInv(r)'
    <2>1. TokenInv(r)
      BY DEF RelayInv, TokenInvs
    <2>2. Outstanding(r)' <=> Outstanding(r)
      BY <1>1 DEF Outstanding
    <2>3. CASE r = p
      <3> DEFINE n == Len(todo[p])
      <3>1. /\ Ahead(p) = {i \in 1 .. n : i > 1 /\ todo[p][i].cmd}
            /\ Ahead(p)' = {i \in 1 .. n - 1 : i > 0 /\ todo'[p][i].cmd}
            /\ n \in Nat /\ n > 0
            /\ \A j \in 1 .. n - 1 : todo'[p][j] = todo[p][j + 1]
        BY <1>1, <1>3 DEF Ahead, Begun, VoteInv, VoteType
      <3> HIDE DEF n
      <3>2. \A i \in Ahead(p) : i - 1 \in Ahead(p)'
        <4> TAKE i \in Ahead(p)
        <4>1. /\ i \in 1 .. n /\ i > 1 /\ todo[p][i].cmd
              /\ i - 1 \in 1 .. n - 1 /\ (i - 1) + 1 = i
          BY <3>1
        <4> QED BY <3>1, <4>1
      <3>3. \A i \in Ahead(p)' : i + 1 \in Ahead(p) /\ i \in 1 .. n - 1
        BY <3>1
      <3>4. Queued(p)' <=> Queued(p)
        BY <3>2, <3>3 DEF Queued
      <3>5. \A i, j \in Ahead(p)' : i = j
        <4> TAKE i, j \in Ahead(p)'
        <4>1. i + 1 = j + 1 /\ i \in Int /\ j \in Int
          BY <2>1, <2>3, <3>1, <3>3 DEF TokenInv
        <4> QED BY <4>1
      <3> QED BY <1>2, <1>4, <2>1, <2>2, <2>3, <3>4, <3>5 DEF TokenInv
    <2>4. CASE r # p
      <3>1. Ahead(r)' = Ahead(r) /\ (Queued(r)' <=> Queued(r))
        BY <1>1, <2>4 DEF Ahead, Begun, Queued, VoteInv, VoteType
      <3> QED BY <1>2, <1>4, <2>1, <2>2, <3>1 DEF TokenInv
    <2> QED BY <2>3, <2>4
  <1>7. ASSUME NEW r \in Ranks PROVE ChildInv(r)'
    <2>1. ChildInv(r)
      BY DEF RelayInv, ChildInvs
    <2>2. CASE r = p
      BY <1>1, <2>1, <2>2
      DEF ChildInv, VoteInv, VoteType, RelayInv, TokenType
    <2>3. CASE r # p
      BY <1>1, <2>1, <2>3
      DEF ChildInv, VoteInv, VoteType, RelayInv, TokenType
    <2> QED BY <2>2, <2>3
  <1> QED BY <1>1, <1>4, <1>5, <1>6, <1>7, RankKeeps

\* The ranks take their acks together: the token that each of them holds
\* becomes the one ack.
LEMMA AllReduceRelays ==
    ASSUME VoteInv, RelayInv, AllReduce
    PROVE  RelayInv'
  <1> DEFINE all == \A q \in Ranks : observed[q]
             took(r) == rank_pc[r] = "ack" /\ all
  <1>1. /\ \A r \in Ranks : rank_pc[r] \in Voting
        /\ \A r \in Ranks : done'[r] <=> took(r)
        /\ done' \in [Ranks -> BOOLEAN]
        /\ relay' = [r \in Ranks |-> IF done'[r] THEN "none" ELSE relay[r]]
        /\ \A r \in Ranks :
             /\ rank_pc'[r] \in {"output", "relay", "forward"}
             /\ rank_pc[r] = "ack" => rank_pc'[r] = "output"
        /\ observed' = [r \in Ranks |-> FALSE]
        /\ UNCHANGED <<outputs, todo, child>>
        /\ rank_unchanged' = rank_unchanged
    BY DEF AllReduce, AllObserved
  <1>2. UNCHANGED <<received, built, pending_backward, trigger_cmd, alive>>
    BY <1>1 DEF rank_unchanged, engine_vars, coord_vars, account
  <1>3. TokenType'
    BY <1>1, <1>2 DEF RelayInv, TokenType
  <1>4. \A r, q \in Ranks : took(r) <=> took(q)
    <2> TAKE r, q \in Ranks
    <2>1. rank_pc[r] = rank_pc[q]
      BY <1>1, VotersTogether
    <2> QED BY <2>1
  <1>5. \A r \in Ranks : ~done[r]
    BY <1>1 DEF RelayInv, ChildInvs, ChildInv, Voting
  <1>6. \A r \in Ranks : took(r) => Outstanding(r)
    BY DEF VoteInv, RankInvs, RankInv
  <1>7. took(OutputRank) => ~AckOnItsWay
    BY <1>6, TPAssumption DEF RelayInv, TokenInvs, TokenInv
  <1>8. AckOnItsWay' <=> (AckOnItsWay \/ took(OutputRank))
    BY <1>1, <1>2, <1>5, TPAssumption DEF AckOnItsWay
  <1>9. AckOnce'
    BY <1>1, <1>2, <1>5, <1>7, TPAssumption
    DEF RelayInv, AckOnce, InOutputs, AckOnItsWay
  <1>10. ASSUME NEW r \in Ranks PROVE TokenInv(r)' /\ ChildInv(r)'
    <2>1. TokenInv(r) /\ ChildInv(r) /\ RankInv(r)
      BY DEF RelayInv, TokenInvs, ChildInvs, VoteInv, RankInvs
    <2>2. Ahead(r)' = Ahead(r) /\ (Queued(r)' <=> Queued(r))
      BY <1>1 DEF Ahead, Begun, Queued, Voting
    <2>3. Outstanding(r)' <=> (Outstanding(r) /\ ~took(r))
      BY <1>1, <1>6 DEF Outstanding
    <2>4. took(r) <=> took(OutputRank)
      BY <1>4, TPAssumption
    <2>5. TokenInv(r)'
      BY <1>2, <1>6, <1>7, <1>8, <2>1, <2>2, <2>3, <2>4 DEF TokenInv
    <2>6. ChildInv(r)'
      <3>1. CASE took(r)
        <4>1. relay[r] = "ack" /\ relay'[r] = "none" /\ child'[r] = child[r]
          BY <1>1, <2>1, <3>1 DEF ChildInv
        <4> QED BY <1>1, <2>1, <3>1, <4>1 DEF ChildInv
      <3>2. CASE ~took(r)
        <4>1. relay'[r] = relay[r] /\ child'[r] = child[r] /\ ~observed'[r]
          BY <1>1, <3>2
        <4> QED BY <1>1, <2>1, <3>2, <4>1 DEF ChildInv
      <3> QED BY <3>1, <3>2
    <2> QED BY <2>5, <2>6
  <1> QED BY <1>1, <1>3, <1>9, <1>10, RankKeeps

\* A child's answer stays with the child until its rank polls it.
LEMMA ChildAnswerRelays ==
    ASSUME VoteInv, RelayInv, NEW p \in Ranks, ChildAnswer(p)
    PROVE  RelayInv'
  <1>1. /\ child[p] = "work"
        /\ child' = [child EXCEPT ![p] = "answered"]
        /\ UNCHANGED <<outputs, todo, rank_pc, observed, done, relay>>
        /\ rank_unchanged' = rank_unchanged
    BY DEF ChildAnswer, rank_vars
  <1>2. UNCHANGED <<received, built, pending_backward, trigger_cmd, alive>>
    BY <1>1 DEF rank_unchanged, engine_vars, coord_vars, account
  <1>3. TokenType' /\ AckOnce' /\ (AckOnItsWay' <=> AckOnItsWay)
    BY <1>1, <1>2
    DEF RelayInv, TokenType, AckOnce, InOutputs, AckOnItsWay
  <1>4. ASSUME NEW r \in Ranks PROVE TokenInv(r)' /\ ChildInv(r)'
    <2>1. TokenInv(r) /\ ChildInv(r)
      BY DEF RelayInv, TokenInvs, ChildInvs
    <2>2. /\ Ahead(r)' = Ahead(r) /\ (Queued(r)' <=> Queued(r))
          /\ (Outstanding(r)' <=> Outstanding(r))
      BY <1>1 DEF Ahead, Begun, Queued, Outstanding
    <2>3. TokenInv(r)'
      BY <1>2, <1>3, <2>1, <2>2 DEF TokenInv
    <2>4. child'[r] # "idle" <=> child[r] # "idle"
      BY <1>1 DEF RelayInv, TokenType
    <2>5. ChildInv(r)'
      BY <1>1, <2>1, <2>4 DEF ChildInv
    <2> QED BY <2>3, <2>5
  <1> QED BY <1>1, <1>3, <1>4, RankKeeps

\* Steps that touch neither the relay nor the pending backward.
LEMMA ElsewhereRelays ==
    ASSUME RelayInv, Arrive \/ Bump \/ Switch \/ Overdue \/ UNCHANGED vars
    PROVE  RelayInv'
  <1> DEFINE same ==
               /\ UNCHANGED <<todo, rank_pc, relay, child, done, observed,
                              outputs, built, pending_backward, trigger_cmd,
                              alive>>
               /\ received' = received /\ engine_pc' = engine_pc
  <1>1. same
    <2>1. Arrive \/ Bump \/ Switch => same
      BY DEF Arrive, Bump, Switch, rank_vars, coord_vars, account, engine_vars
    <2>2. Overdue => same
      BY DEF Overdue, rank_vars, engine_vars
    <2>3. UNCHANGED vars => same
      BY DEF vars, rank_vars, coord_vars, account, engine_vars
    <2> QED BY <2>1, <2>2, <2>3
  <1>2. IsOutput(received)' /\ (received'.done <=> received.done)
    BY <1>1 DEF RelayInv, TokenType, IsOutput
  <1> QED BY <1>1, <1>2, StillRelays

THEOREM RelayInvariant == Spec => []RelayInv
  <1>1. Init => RelayInv
    <2> SUFFICES ASSUME Init PROVE RelayInv
      OBVIOUS
    <2>1. /\ pending_backward = FALSE /\ alive = TRUE /\ trigger_cmd = "none"
          /\ engine_pc = "idle" /\ built = IdleStep /\ received = NoOutput
          /\ outputs = <<>> /\ todo = [r \in Ranks |-> <<>>]
          /\ rank_pc = [r \in Ranks |-> "idle"]
          /\ observed = [r \in Ranks |-> FALSE]
          /\ done = [r \in Ranks |-> FALSE]
          /\ relay = [r \in Ranks |-> "none"]
          /\ child = [r \in Ranks |-> "idle"]
      BY DEF Init
    <2>2. TokenType
      <3>1. IsStep(built) /\ IsOutput(received)
        BY <2>1 DEF IsStep, IdleStep, IsOutput, NoOutput
      <3>2. IsSeq(outputs)
        BY <2>1 DEF IsSeq
      <3>3. DOMAIN outputs = {}
        BY <2>1
      <3> QED BY <2>1, <3>1, <3>2, <3>3 DEF TokenType
    <2>3. EngineInv /\ ChildInvs
      BY <2>1 DEF EngineInv, ChildInvs, ChildInv, IdleStep, NoOutput
    <2>4. AckOnce /\ ~AckOnItsWay
      BY <2>1, TPAssumption DEF AckOnce, InOutputs, AckOnItsWay, NoOutput
    <2>5. \A r \in Ranks : Ahead(r) = {}
      <3> TAKE r \in Ranks
      <3>1. Len(todo[r]) = 0
        BY <2>1
      <3> QED BY <3>1 DEF Ahead
    <2>6. TokenInvs
      BY <2>1, <2>4, <2>5
      DEF TokenInvs, TokenInv, Queued, Outstanding, IdleStep
    <2> QED BY <2>2, <2>3, <2>4, <2>6 DEF RelayInv
  <1>2. VoteInv /\ RelayInv /\ [Next]_vars => RelayInv'
    <2> SUFFICES ASSUME VoteInv, RelayInv, [Next]_vars PROVE RelayInv'
      OBVIOUS
    <2>1. CASE Engine
      BY <2>1, StartScheduleRelays, BuildRelays, TakeTriggerCmdRelays,
         TierBRelays, SendRelays, ReceiveRelays, AppliesRelay, ApplyDoneRelays,
         ApplySavedRelays
      DEF Engine
    <2>2. CASE Workers
      BY <2>2, AllReduceRelays, BeginRelays, LayerRelays, RelayRelays,
         OutputRelays
      DEF Workers
    <2>3. CASE Children
      BY <2>3, ChildAnswerRelays DEF Children
    <2>4. CASE Arrive \/ Bump \/ Switch \/ Overdue \/ UNCHANGED vars
      BY <2>4, ElsewhereRelays
    <2> QED BY <2>1, <2>2, <2>3, <2>4 DEF Next
  <1> QED BY <1>1, <1>2, VotesInvariant, PTL DEF Spec

-----------------------------------------------------------------------------
\* What has not begun, as Unbegun cuts it off the queue.
LEMMA UnbegunFacts ==
    ASSUME VoteInv, NEW r \in Ranks, \A i, j \in Ahead(r) : i = j
    PROVE  Commands(Unbegun(r)) = One(Queued(r))
  <1> DEFINE n == Len(todo[r])
             u == Unbegun(r)
             C0 == {i \in DOMAIN u : u[i].cmd}
  <1>1. /\ IsSeq(todo[r]) /\ n \in Nat
        /\ rank_pc[r] # "idle" => todo[r] # <<>>
        /\ Begun(r) \in {0, 1} /\ (Begun(r) = 1 <=> rank_pc[r] # "idle")
    BY IsSeqFacts DEF VoteInv, RankInvs, RankInv, Begun
  <1>2. /\ DOMAIN u = 1 .. n - Begun(r)
        /\ \A j \in 1 .. n - Begun(r) : u[j] = todo[r][j + Begun(r)]
    <2>1. CASE rank_pc[r] = "idle"
      <3>1. u = todo[r] /\ DOMAIN u = 1 .. n
        BY <1>1, <2>1, IsSeqFacts DEF Unbegun
      <3>2. Begun(r) = 0
        BY <2>1 DEF Begun
      <3> HIDE DEF u, n
      <3> QED BY <1>1, <3>1, <3>2
    <2>2. CASE rank_pc[r] # "idle"
      <3>1. u = Tail(todo[r]) /\ todo[r] # <<>> /\ Begun(r) = 1
        BY <1>1, <2>2 DEF Unbegun, Begun
      <3>2. IsSeq(u) /\ Len(u) = n - 1
        BY <1>1, <3>1, TailFacts
      <3>3. /\ DOMAIN u = 1 .. n - 1
            /\ \A j \in 1 .. n - 1 : u[j] = todo[r][j + 1]
        BY <1>1, <3>1, <3>2, TailFacts, IsSeqFacts
      <3> QED BY <3>1, <3>3
    <2> QED BY <2>1, <2>2
  <1>3. /\ Ahead(r) = {i \in 1 .. n : i > Begun(r) /\ todo[r][i].cmd}
        /\ Queued(r) <=> Ahead(r) # {}
    BY DEF Ahead, Queued
  <1> HIDE DEF n, u
  <1>4. \A i \in C0 : i + Begun(r) \in Ahead(r) /\ i \in Int
    <2> TAKE i \in C0
    <2>1. /\ i \in 1 .. n - Begun(r) /\ todo[r][i + Begun(r)].cmd
          /\ i + Begun(r) \in 1 .. n /\ i + Begun(r) > Begun(r)
      BY <1>1, <1>2
    <2> QED BY <1>3, <2>1
  <1>5. \A i \in Ahead(r) : i - Begun(r) \in C0
    <2> TAKE i \in Ahead(r)
    <2>1. /\ i \in 1 .. n /\ i > Begun(r) /\ todo[r][i].cmd
          /\ i - Begun(r) \in 1 .. n - Begun(r)
          /\ (i - Begun(r)) + Begun(r) = i
      BY <1>1, <1>3
    <2> QED BY <1>2, <2>1
  <1>6. CASE Queued(r)
    <2>1. PICK i : i \in C0
      BY <1>3, <1>5, <1>6
    <2>2. \A j \in C0 : j = i
      <3> TAKE j \in C0
      <3>1. /\ i + Begun(r) = j + Begun(r)
            /\ i \in Int /\ j \in Int
        BY <1>4, <2>1
      <3> QED BY <1>1, <3>1
    <2>3. C0 = {i}
      BY <2>1, <2>2
    <2>4. Cardinality(C0) = 1
      BY <2>3, FS_Singleton
    <2> QED BY <1>6, <2>4 DEF Commands, One, u
  <1>7. CASE ~Queued(r)
    <2>1. C0 = {}
      BY <1>3, <1>4, <1>7
    <2>2. Cardinality(C0) = 0
      BY <2>1, FS_EmptySet
    <2> QED BY <1>7, <2>2 DEF Commands, One, u
  <1> QED BY <1>6, <1>7

\* A backward the scheduler waits for is in exactly one place for every rank:
\* stashed, on a step, with the rank, or answered by all; no preemption, idle
\* step, abandoned forward or repeated poll loses or doubles its trigger
\* (take_trigger_cmd, execute_trigger, relay_all_done).
THEOREM TriggerIsConserved == Spec => []TriggerConserved
  <1>1. VoteInv /\ RelayInv => TriggerConserved
    <2> SUFFICES ASSUME VoteInv, RelayInv, NEW r \in Ranks
                 PROVE  One(trigger_cmd = "work") + One(built.cmd)
                          + Commands(Unbegun(r)) + One(Outstanding(r))
                          + One(AckOnItsWay) = One(pending_backward)
      BY DEF TriggerConserved
    <2>1. TokenInv(r)
      BY DEF RelayInv, TokenInvs
    <2>2. Commands(Unbegun(r)) = One(Queued(r))
      BY <2>1, UnbegunFacts DEF TokenInv
    <2> QED BY <2>1, <2>2 DEF TokenInv, One
  <1> QED BY <1>1, VotesInvariant, RelayInvariant, PTL

\* The scheduler forgets the backward, and reopens admission, only when every
\* rank's child has finished with the buffer (apply_relayed_done,
\* coordinator.py:992).
THEOREM ReopensAllTogether == Spec => ReopensTogether
  <1>1. VoteInv /\ RelayInv /\ [Next]_vars =>
          [pending_backward /\ ~pending_backward' =>
             \A r \in Ranks : child[r] = "idle" /\ ~Outstanding(r)]_vars
    <2> SUFFICES ASSUME VoteInv, RelayInv, Next,
                        pending_backward, ~pending_backward',
                        NEW r \in Ranks
                 PROVE  child[r] = "idle" /\ ~Outstanding(r)
      BY DEF vars, coord_vars, account
    <2>1. ApplyDone
      <3>1. pending_backward' = pending_backward => FALSE
        OBVIOUS
      <3>2. ~(TakeTriggerCmd \/ Send \/ Receive \/ Processed)
        BY <3>1
        DEF TakeTriggerCmd, Send, Receive, Processed, coord_vars, account
      <3>3. ~(Build \/ TierB \/ RollbackStep \/ MirrorStarted)
        BY <3>1, UntouchedFacts DEF Build, TierB, RollbackStep, MirrorStarted
      <3>4. ~StartSchedule
        BY <3>1, UntouchedFacts, TriggerFacts
        DEF StartSchedule, PollRelay, RelayInv
      <3>5. ~ApplySaved
        BY <3>1, TriggerFacts DEF ApplySaved, RelayInv
      <3>6. ~(Arrive \/ Bump \/ Switch \/ Overdue)
        BY <3>1 DEF Arrive, Bump, Switch, Overdue, coord_vars, account
      <3>7. ~(Workers \/ Children)
        BY <3>1
        DEF Workers, Children, AllReduce, Begin, Layer, Relay, Output,
            ChildAnswer, rank_unchanged, coord_vars, account
      <3> QED
        BY <3>2, <3>3, <3>4, <3>5, <3>6, <3>7 DEF Next, Engine
    <2>2. AckOnItsWay
      BY <2>1 DEF ApplyDone, AckOnItsWay
    <2>3. ~Outstanding(r)
      BY <2>2 DEF RelayInv, TokenInvs, TokenInv
    <2>4. relay[r] # "pending"
      BY <2>3 DEF Outstanding
    <2> QED BY <2>3, <2>4 DEF RelayInv, ChildInvs, ChildInv
  <1> QED
    BY <1>1, VotesInvariant, RelayInvariant, PTL DEF Spec, ReopensTogether
=============================================================================
