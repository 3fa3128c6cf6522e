------------------------- MODULE ModelRunnerProofs -------------------------
(***************************************************************************)
(* The timing pairs, the cached request states and the saved rows of the   *)
(* runner, for every set of samples, every size of the buffer, every       *)
(* configuration of the save points and every depth of the batch queue.    *)
(***************************************************************************)
EXTENDS ModelRunner, SequenceTheorems, WellFoundedInduction, FiniteSetTheorems, TLAPS

Slots == 0 .. TimingRing - 1
StepTags == {"ft", Inference}

IsSeq(t) == t \in Seq({t[i] : i \in DOMAIN t})

\* In a stream: the forwards that record the events of a slot, the forwards
\* that were not left, and the ends of the steps.
On(q, slot) == {i \in DOMAIN q : q[i].op = "forward" /\ q[i].slot = slot}
Whole(q) == {i \in DOMAIN q : q[i].op = "forward" /\ q[i].ends}
Dones(q) == {i \in DOMAIN q : q[i].op = "done"}

\* Of what comes into a stream, up to a position, only element n is a forward,
\* of the free slot; no step ends.
OneForward(q, t, last, n, tag, ends) ==
    /\ n \in Len(q) + 1 .. last
    /\ t[n].op = "forward" /\ t[n].ends = ends
    /\ t[n].slot = timing_pos /\ t[n].tag = tag
    /\ \A i \in Len(q) + 1 .. last :
          i # n => t[i].op \notin {"forward", "done"}

\* The steps in flight whose output cannot be read yet.
Undone(f) == {i \in DOMAIN f : ~f[i].done}

FlightType ==
    /\ IsSeq(flights) /\ Len(flights) <= Depth
    /\ \A i \in DOMAIN flights :
          {"ids", "claims", "aborted", "done"} \subseteq DOMAIN flights[i]

StreamType ==
    /\ IsSeq(stream)
    /\ \A i \in DOMAIN stream :
          stream[i].op = "forward" =>
             /\ stream[i].slot \in Slots /\ stream[i].tag \in StepTags
             /\ stream[i].ends \in BOOLEAN

RingType ==
    /\ timing_pos \in Slots
    /\ timing_owner \in [Slots -> StepTags \union {None}]
    /\ start_evt \in [Slots -> StepTags \union {None}]
    /\ end_evt \in [Slots -> StepTags \union {None}]

\* The occupant of a slot is the last step that was to record the slot's
\* events, and was enqueued whole; if it is past the GPU, both events are its own.
OccupantInv ==
    \A slot \in Slots :
       timing_owner[slot] # None =>
          \/ /\ On(stream, slot) = {}
             /\ start_evt[slot] = timing_owner[slot]
             /\ end_evt[slot] = timing_owner[slot]
          \/ \E i \in On(stream, slot) :
                /\ \A j \in On(stream, slot) : j <= i
                /\ stream[i].ends /\ stream[i].tag = timing_owner[slot]

\* A forward that was not left is followed by the end of its step, before the
\* next of its kind; the last of them has the slot before the free one.
StepsInv ==
    /\ \A i \in Whole(stream) : \E d \in Dones(stream) :
          i < d /\ \A j \in Whole(stream) : i < j => d < j
    /\ \A i \in Whole(stream) :
          (\A j \in Whole(stream) : j <= i) => NextSlot(stream[i].slot) = timing_pos

\* The GPU has no more steps to end than the host waits for: none, one or two.
AwaitedInv ==
    /\ Dones(stream) # {} => Undone(flights) # {}
    /\ (\E d, e \in Dones(stream) : d # e)
          => (\E i, j \in Undone(flights) : i # j)
    /\ \A d, e, g \in Dones(stream) : d = e \/ e = g \/ d = g

TimingInv ==
    /\ FlightType /\ StreamType /\ RingType
    /\ OccupantInv /\ StepsInv /\ AwaitedInv

-----------------------------------------------------------------------------
(***************************************************************************)
(* Queues, whatever they hold.                                             *)
(***************************************************************************)
\* The first of a sequence's elements is the one at its head.
LEMMA IsSeqFacts ==
    ASSUME NEW t, IsSeq(t)
    PROVE  /\ Len(t) \in Nat
           /\ DOMAIN t = 1 .. Len(t)
           /\ t # <<>> <=> Len(t) > 0
           /\ t # <<>> => Head(t) = t[1]
  BY DEF IsSeq

\* What is appended comes last, and moves no other.
LEMMA AppendFacts ==
    ASSUME NEW t, IsSeq(t), NEW e
    PROVE  LET a == Append(t, e)
           IN  /\ IsSeq(a) /\ Len(a) = Len(t) + 1 /\ a[Len(t) + 1] = e
               /\ \A j \in 1 .. Len(t) : a[j] = t[j]
  <1> DEFINE T == {t[i] : i \in DOMAIN t} \union {e}
             a == Append(t, e)
  <1>1. t \in Seq(T) /\ e \in T
    BY DEF IsSeq
  <1>2. /\ a \in Seq(T) /\ Len(a) = Len(t) + 1 /\ a[Len(t) + 1] = e
        /\ \A j \in 1 .. Len(t) : a[j] = t[j]
    BY <1>1, AppendProperties
  <1>3. IsSeq(a)
    <2> HIDE DEF a
    <2> QED BY <1>2 DEF IsSeq
  <1> QED BY <1>2, <1>3

\* What is left when the one at the head is done.
LEMMA TailFacts ==
    ASSUME NEW t, IsSeq(t), t # <<>>
    PROVE  /\ IsSeq(Tail(t)) /\ Len(Tail(t)) = Len(t) - 1
           /\ \A j \in 1 .. Len(t) - 1 : Tail(t)[j] = t[j + 1]
  <1> DEFINE T == {t[i] : i \in DOMAIN t}
             a == Tail(t)
  <1>1. t \in Seq(T)
    BY DEF IsSeq
  <1>2. /\ a \in Seq(T) /\ Len(a) = Len(t) - 1
        /\ \A j \in 1 .. Len(t) - 1 : a[j] = t[j + 1]
    BY <1>1, HeadTailProperties
  <1>3. IsSeq(a)
    <2> HIDE DEF a
    <2> QED BY <1>2 DEF IsSeq
  <1> QED BY <1>2, <1>3

\* A short queue behind another one.
LEMMA OneFacts ==
    /\ IsSeq(<<>>) /\ Len(<<>>) = 0
    /\ \A e : IsSeq(<<e>>) /\ Len(<<e>>) = 1 /\ <<e>>[1] = e
  BY DEF IsSeq

\* Two queues in a row.
LEMMA ConcatFacts ==
    ASSUME NEW s, IsSeq(s), NEW t, IsSeq(t)
    PROVE  LET c == s \o t
           IN  /\ IsSeq(c) /\ Len(c) = Len(s) + Len(t)
               /\ \A j \in 1 .. Len(s) : c[j] = s[j]
               /\ \A j \in 1 .. Len(t) : c[Len(s) + j] = t[j]
  <1> DEFINE S == {s[i] : i \in DOMAIN s}
             T == {t[i] : i \in DOMAIN t}
             c == s \o t
  <1>1. s \in Seq(S \union T) /\ t \in Seq(S \union T)
    <2>1. s \in Seq(S) /\ t \in Seq(T)
      BY DEF IsSeq
    <2> HIDE DEF S, T
    <2> QED BY <2>1, SeqMonotonic
  <1>2. Len(s) \in Nat /\ Len(t) \in Nat
    BY <1>1, LenProperties
  <1>3. /\ c \in Seq(S \union T) /\ Len(c) = Len(s) + Len(t)
        /\ \A j \in 1 .. Len(s) + Len(t) :
              c[j] = IF j <= Len(s) THEN s[j] ELSE t[j - Len(s)]
    <2> HIDE DEF S, T
    <2> QED BY <1>1, ConcatProperties
  <1>4. IsSeq(c)
    <2> HIDE DEF c
    <2> QED BY <1>3, LenProperties DEF IsSeq
  <1>5. /\ \A j \in 1 .. Len(s) : c[j] = s[j]
        /\ \A j \in 1 .. Len(t) : c[Len(s) + j] = t[j]
    <2> HIDE DEF c
    <2> QED BY <1>2, <1>3
  <1> QED BY <1>3, <1>4, <1>5

\* The elements behind the head, in their new places.
LEMMA TailPlaces ==
    ASSUME NEW t, IsSeq(t), t # <<>>
    PROVE  LET u == Tail(t)
           IN  /\ IsSeq(u) /\ Len(u) = Len(t) - 1 /\ Len(t) \in Nat
               /\ 1 \in DOMAIN t /\ Head(t) = t[1] /\ DOMAIN t \subseteq Nat \ {0}
               /\ \A k \in DOMAIN u :
                     k \in Nat \ {0} /\ k + 1 \in DOMAIN t /\ u[k] = t[k + 1]
               /\ \A k \in DOMAIN t :
                     k # 1 => k - 1 \in DOMAIN u /\ u[k - 1] = t[k]
  <1> DEFINE u == Tail(t)
  <1>1. /\ IsSeq(u) /\ Len(u) = Len(t) - 1
        /\ \A j \in 1 .. Len(t) - 1 : u[j] = t[j + 1]
    BY TailFacts
  <1>2. /\ Len(t) \in Nat /\ Len(t) > 0 /\ Head(t) = t[1]
        /\ DOMAIN t = 1 .. Len(t)
    BY IsSeqFacts
  <1>3. DOMAIN u = 1 .. Len(t) - 1
    <2> HIDE DEF u
    <2> QED BY <1>1, IsSeqFacts
  <1> HIDE DEF u
  <1>4. \A k \in 1 .. Len(t) - 1 :
           k \in Nat \ {0} /\ k + 1 \in 1 .. Len(t) /\ u[k] = t[k + 1]
    BY <1>1, <1>2
  <1>5. \A k \in 1 .. Len(t) :
           k # 1 => k - 1 \in 1 .. Len(t) - 1 /\ u[k - 1] = t[k]
    BY <1>1, <1>2
  <1>6. 1 \in 1 .. Len(t) /\ 1 .. Len(t) \subseteq Nat \ {0}
    BY <1>2
  <1> QED BY <1>1, <1>2, <1>3, <1>4, <1>5, <1>6 DEF u

-----------------------------------------------------------------------------
(***************************************************************************)
(* What the actions do to the queues.                                      *)
(***************************************************************************)
\* The step's work comes behind what is enqueued: one forward, which records
\* the free slot's events, and what it copies and saves around it.
LEMMA EnqueuesWhole ==
    ASSUME StreamType, NEW batch, NEW offset, NEW points,
           stream' = stream \o Arm(batch) \o Forward(batch, offset, points, TRUE)
                       \o AfterForward(batch, offset) \o <<[op |-> "done"]>>
    PROVE  /\ IsSeq(stream') /\ Len(stream') \in Nat
           /\ \A i \in 1 .. Len(stream) : stream'[i] = stream[i]
           /\ stream'[Len(stream')].op = "done"
           /\ \E n : OneForward(stream, stream', Len(stream') - 1, n,
                              Tag(batch), TRUE)
  <1> DEFINE A == Arm(batch)
             F == Forward(batch, offset, points, TRUE)
             W == AfterForward(batch, offset)
             D == <<[op |-> "done"]>>
             c1 == stream \o A
             c2 == c1 \o F
             c3 == c2 \o W
             c4 == c3 \o D
             n == Len(stream) + Len(A) + 1
  <1>1. stream' = c4
    OBVIOUS
  <1>2. /\ IsSeq(A) /\ Len(A) \in {0, 1}
        /\ \A i \in 1 .. Len(A) : A[i].op = "copy"
    <2>1. CASE Mode(batch) = "has_ft"
      <3>1. A = <<[op |-> "copy", slot |-> idx_pin_pos]>>
        BY <2>1 DEF Arm
      <3> HIDE DEF A
      <3> QED BY <3>1, OneFacts
    <2>2. CASE Mode(batch) # "has_ft"
      <3>1. A = <<>>
        BY <2>2 DEF Arm
      <3> HIDE DEF A
      <3> QED BY <3>1, OneFacts
    <2> QED BY <2>1, <2>2
  <1>3. /\ IsSeq(F) /\ Len(F) = 1 /\ F[1].op = "forward" /\ F[1].ends = TRUE
        /\ F[1].slot = timing_pos /\ F[1].tag = Tag(batch)
    BY OneFacts DEF Forward
  <1>4. /\ IsSeq(W) /\ Len(W) \in {0, 1}
        /\ \A i \in 1 .. Len(W) : W[i].op = "final"
    <2>1. CASE HasFt(batch)
      <3>1. W = <<[op |-> "final",
                   writes |-> HookWrites(Flat(batch), offset)]>>
        BY <2>1 DEF AfterForward
      <3> HIDE DEF W
      <3> QED BY <3>1, OneFacts
    <2>2. CASE ~HasFt(batch)
      <3>1. W = <<>>
        BY <2>2 DEF AfterForward
      <3> HIDE DEF W
      <3> QED BY <3>1, OneFacts
    <2> QED BY <2>1, <2>2
  <1>5. IsSeq(D) /\ Len(D) = 1 /\ D[1].op = "done"
    BY OneFacts
  <1>6. IsSeq(stream) /\ Len(stream) \in Nat
    BY IsSeqFacts DEF StreamType
  <1> HIDE DEF A, F, W, D
  <1>7. /\ IsSeq(c1) /\ Len(c1) = Len(stream) + Len(A)
        /\ \A i \in 1 .. Len(stream) : c1[i] = stream[i]
        /\ \A i \in 1 .. Len(A) : c1[Len(stream) + i] = A[i]
    BY <1>2, <1>6, ConcatFacts
  <1> HIDE DEF c1
  <1>8. /\ IsSeq(c2) /\ Len(c2) = n
        /\ \A i \in 1 .. Len(stream) : c2[i] = stream[i]
        /\ \A i \in 1 .. Len(A) : c2[Len(stream) + i] = A[i]
        /\ c2[n] = F[1]
    <2>1. /\ IsSeq(c2) /\ Len(c2) = Len(c1) + Len(F)
          /\ \A i \in 1 .. Len(c1) : c2[i] = c1[i]
          /\ \A i \in 1 .. Len(F) : c2[Len(c1) + i] = F[i]
      <3>1. IsSeq(c1) /\ IsSeq(F)
        BY <1>3, <1>7
      <3> QED BY <3>1, ConcatFacts
    <2> HIDE DEF c2
    <2> QED BY <2>1, <1>2, <1>3, <1>6, <1>7
  <1> HIDE DEF c2
  <1>9. /\ IsSeq(c3) /\ Len(c3) = n + Len(W)
        /\ \A i \in 1 .. n : c3[i] = c2[i]
        /\ \A i \in 1 .. Len(W) : c3[n + i] = W[i]
    <2>1. IsSeq(c2) /\ IsSeq(W) /\ Len(c2) = n
      BY <1>4, <1>8
    <2>2. /\ IsSeq(c3) /\ Len(c3) = Len(c2) + Len(W)
          /\ \A i \in 1 .. Len(c2) : c3[i] = c2[i]
          /\ \A i \in 1 .. Len(W) : c3[Len(c2) + i] = W[i]
      <3>1. IsSeq(c2) /\ IsSeq(W)
        BY <2>1
      <3> HIDE DEF n
      <3> QED BY <3>1, ConcatFacts
    <2> HIDE DEF c3
    <2> QED BY <2>1, <2>2
  <1> HIDE DEF c3
  <1>10. /\ IsSeq(c4) /\ Len(c4) = n + Len(W) + 1
         /\ \A i \in 1 .. n + Len(W) : c4[i] = c3[i]
         /\ c4[n + Len(W) + 1] = D[1]
    <2>1. /\ IsSeq(c4) /\ Len(c4) = Len(c3) + Len(D)
          /\ \A i \in 1 .. Len(c3) : c4[i] = c3[i]
          /\ \A i \in 1 .. Len(D) : c4[Len(c3) + i] = D[i]
      <3>1. IsSeq(c3) /\ IsSeq(D)
        BY <1>5, <1>9
      <3> QED BY <3>1, ConcatFacts
    <2> HIDE DEF c4
    <2> QED BY <2>1, <1>5, <1>9
  <1> HIDE DEF c4
  <1>11. \A i \in Len(stream) + 1 .. Len(c4) - 1 :
            i # n => c4[i].op \notin {"forward", "done"}
    <2> SUFFICES ASSUME NEW i \in Len(stream) + 1 .. Len(c4) - 1, i # n
                 PROVE  c4[i].op \in {"copy", "final"}
      OBVIOUS
    <2>1. CASE i < n
      <3>1. i - Len(stream) \in 1 .. Len(A) /\ i \in 1 .. n
            /\ i \in 1 .. n + Len(W) /\ i = Len(stream) + (i - Len(stream))
        BY <2>1, <1>2, <1>4, <1>6, <1>10
      <3>2. c4[i] = A[i - Len(stream)]
        BY <3>1, <1>8, <1>9, <1>10
      <3> QED BY <3>1, <3>2, <1>2
    <2>2. CASE i > n
      <3>1. i - n \in 1 .. Len(W) /\ i \in 1 .. n + Len(W)
            /\ i = n + (i - n)
        BY <2>2, <1>2, <1>4, <1>6, <1>10
      <3>2. c4[i] = W[i - n]
        BY <3>1, <1>9, <1>10
      <3> QED BY <3>1, <3>2, <1>4
    <2> QED BY <2>1, <2>2, <1>2, <1>6
  <1>12. /\ n \in Len(stream) + 1 .. Len(c4) - 1 /\ Len(c4) \in Nat
         /\ c4[n] = F[1]
    BY <1>2, <1>4, <1>6, <1>8, <1>9, <1>10
  <1>13. \A i \in 1 .. Len(stream) : c4[i] = stream[i]
    BY <1>2, <1>4, <1>6, <1>8, <1>9, <1>10
  <1>14. c4[Len(c4)].op = "done"
    BY <1>5, <1>10
  <1>15. /\ c4[n].op = "forward" /\ c4[n].ends = TRUE
         /\ c4[n].slot = timing_pos /\ c4[n].tag = Tag(batch)
    BY <1>3, <1>12
  <1> HIDE DEF n
  <1>16. IsSeq(c4)
    BY <1>10
  <1>17. OneForward(stream, c4, Len(c4) - 1, n, Tag(batch), TRUE)
    BY <1>11, <1>12, <1>15 DEF OneForward
  <1> QED BY <1>1, <1>12, <1>13, <1>14, <1>16, <1>17

\* Of a step that is left, the forward will not record the end event.
LEMMA EnqueuesPart ==
    ASSUME StreamType, NEW batch, NEW offset, NEW points, NEW zeroed,
           stream' = stream \o Arm(batch) \o Forward(batch, offset, points, FALSE)
                       \o <<[op |-> "zero", zeroed |-> zeroed]>>
    PROVE  /\ IsSeq(stream') /\ Len(stream') \in Nat
           /\ \A i \in 1 .. Len(stream) : stream'[i] = stream[i]
           /\ \E n : OneForward(stream, stream', Len(stream'), n,
                              Tag(batch), FALSE)
  <1> DEFINE A == Arm(batch)
             F == Forward(batch, offset, points, FALSE)
             Z == <<[op |-> "zero", zeroed |-> zeroed]>>
             c1 == stream \o A
             c2 == c1 \o F
             c3 == c2 \o Z
             n == Len(stream) + Len(A) + 1
  <1>1. stream' = c3
    OBVIOUS
  <1>2. /\ IsSeq(A) /\ Len(A) \in {0, 1}
        /\ \A i \in 1 .. Len(A) : A[i].op = "copy"
    <2>1. CASE Mode(batch) = "has_ft"
      <3>1. A = <<[op |-> "copy", slot |-> idx_pin_pos]>>
        BY <2>1 DEF Arm
      <3> HIDE DEF A
      <3> QED BY <3>1, OneFacts
    <2>2. CASE Mode(batch) # "has_ft"
      <3>1. A = <<>>
        BY <2>2 DEF Arm
      <3> HIDE DEF A
      <3> QED BY <3>1, OneFacts
    <2> QED BY <2>1, <2>2
  <1>3. /\ IsSeq(F) /\ Len(F) = 1 /\ F[1].op = "forward" /\ F[1].ends = FALSE
        /\ F[1].slot = timing_pos /\ F[1].tag = Tag(batch)
    BY OneFacts DEF Forward
  <1>5. IsSeq(Z) /\ Len(Z) = 1 /\ Z[1].op = "zero"
    BY OneFacts
  <1>6. IsSeq(stream) /\ Len(stream) \in Nat
    BY IsSeqFacts DEF StreamType
  <1> HIDE DEF A, F, Z
  <1>7. /\ IsSeq(c1) /\ Len(c1) = Len(stream) + Len(A)
        /\ \A i \in 1 .. Len(stream) : c1[i] = stream[i]
        /\ \A i \in 1 .. Len(A) : c1[Len(stream) + i] = A[i]
    BY <1>2, <1>6, ConcatFacts
  <1> HIDE DEF c1
  <1>8. /\ IsSeq(c2) /\ Len(c2) = n
        /\ \A i \in 1 .. Len(stream) : c2[i] = stream[i]
        /\ \A i \in 1 .. Len(A) : c2[Len(stream) + i] = A[i]
        /\ c2[n] = F[1]
    <2>1. /\ IsSeq(c2) /\ Len(c2) = Len(c1) + Len(F)
          /\ \A i \in 1 .. Len(c1) : c2[i] = c1[i]
          /\ \A i \in 1 .. Len(F) : c2[Len(c1) + i] = F[i]
      <3>1. IsSeq(c1) /\ IsSeq(F)
        BY <1>3, <1>7
      <3> QED BY <3>1, ConcatFacts
    <2> HIDE DEF c2
    <2> QED BY <2>1, <1>2, <1>3, <1>6, <1>7
  <1> HIDE DEF c2
  <1>9. /\ IsSeq(c3) /\ Len(c3) = n + 1
        /\ \A i \in 1 .. n : c3[i] = c2[i]
        /\ c3[n + 1] = Z[1]
    <2>1. /\ IsSeq(c3) /\ Len(c3) = Len(c2) + Len(Z)
          /\ \A i \in 1 .. Len(c2) : c3[i] = c2[i]
          /\ \A i \in 1 .. Len(Z) : c3[Len(c2) + i] = Z[i]
      <3>1. IsSeq(c2) /\ IsSeq(Z)
        BY <1>5, <1>8
      <3> QED BY <3>1, ConcatFacts
    <2> HIDE DEF c3
    <2> QED BY <2>1, <1>5, <1>8
  <1> HIDE DEF c3
  <1>10. \A i \in Len(stream) + 1 .. Len(c3) :
            i # n => c3[i].op \notin {"forward", "done"}
    <2> SUFFICES ASSUME NEW i \in Len(stream) + 1 .. Len(c3), i # n
                 PROVE  c3[i].op \in {"copy", "zero"}
      OBVIOUS
    <2>1. CASE i < n
      <3>1. i - Len(stream) \in 1 .. Len(A) /\ i \in 1 .. n
            /\ i = Len(stream) + (i - Len(stream))
        BY <2>1, <1>2, <1>6, <1>9
      <3>2. c3[i] = A[i - Len(stream)]
        BY <3>1, <1>8, <1>9
      <3> QED BY <3>1, <3>2, <1>2
    <2>2. CASE i > n
      <3>1. n \in Nat /\ Len(c3) = n + 1
        BY <1>2, <1>6, <1>9
      <3>2. i \in Int /\ i <= Len(c3)
        BY <3>1, <1>6
      <3> HIDE DEF n
      <3>3. i = n + 1
        BY <2>2, <3>1, <3>2
      <3> QED BY <3>3, <1>5, <1>9
    <2> QED BY <2>1, <2>2, <1>2, <1>6
  <1>11. /\ n \in Len(stream) + 1 .. Len(c3) /\ Len(c3) \in Nat
         /\ c3[n] = F[1]
    BY <1>2, <1>6, <1>8, <1>9
  <1>12. \A i \in 1 .. Len(stream) : c3[i] = stream[i]
    BY <1>2, <1>6, <1>8, <1>9
  <1>13. /\ c3[n].op = "forward" /\ c3[n].ends = FALSE
         /\ c3[n].slot = timing_pos /\ c3[n].tag = Tag(batch)
    BY <1>3, <1>11
  <1> HIDE DEF n
  <1>14. IsSeq(c3)
    BY <1>9
  <1>15. OneForward(stream, c3, Len(c3), n, Tag(batch), FALSE)
    BY <1>10, <1>11, <1>13 DEF OneForward
  <1> QED BY <1>1, <1>11, <1>12, <1>14, <1>15

-----------------------------------------------------------------------------
(***************************************************************************)
(* The timing invariant, action by action.                                 *)
(***************************************************************************)
\* What neither moves the queues nor touches the ring keeps it.
LEMMA StillKeeps ==
    ASSUME TimingInv, UNCHANGED <<flights, stream, ring_vars, event_vars>>
    PROVE  TimingInv'
  <1> USE DEF ring_vars, event_vars
  <1>1. FlightType' /\ StreamType' /\ RingType'
    BY DEF TimingInv, FlightType, StreamType, RingType
  <1>2. OccupantInv' /\ StepsInv' /\ AwaitedInv'
    BY DEF TimingInv, OccupantInv, StepsInv, AwaitedInv
  <1> QED BY <1>1, <1>2 DEF TimingInv

\* The oldest step is processed: one that the GPU has ended.
LEMMA UpdateKeeps ==
    ASSUME TimingInv, UpdateFromOutput
    PROVE  TimingInv'
  <1>1. /\ flights # <<>> /\ Head(flights).done /\ flights' = Tail(flights)
        /\ UNCHANGED <<stream, ring_vars, event_vars>>
    BY DEF UpdateFromOutput
  <1>2. /\ IsSeq(flights) /\ Len(flights) <= Depth
        /\ \A i \in DOMAIN flights :
              {"ids", "claims", "aborted", "done"} \subseteq DOMAIN flights[i]
    BY DEF TimingInv, FlightType
  <1>3. /\ IsSeq(flights') /\ Len(flights') = Len(flights) - 1
        /\ Len(flights) \in Nat /\ 1 \in DOMAIN flights
        /\ Head(flights) = flights[1]
        /\ \A k \in DOMAIN flights' :
              k \in Nat \ {0} /\ k + 1 \in DOMAIN flights
              /\ flights'[k] = flights[k + 1]
        /\ \A k \in DOMAIN flights :
              k # 1 => k - 1 \in DOMAIN flights' /\ flights'[k - 1] = flights[k]
    BY <1>1, <1>2, TailPlaces
  <1>4. FlightType'
    <2>1. Len(flights') <= Depth
      BY <1>2, <1>3, ModelRunnerAssumption
    <2>2. \A i \in DOMAIN flights' :
             {"ids", "claims", "aborted", "done"} \subseteq DOMAIN flights'[i]
      BY <1>2, <1>3
    <2> QED BY <1>3, <2>1, <2>2 DEF FlightType
  <1>5. StreamType' /\ RingType'
    BY <1>1 DEF TimingInv, StreamType, RingType, ring_vars, event_vars
  <1>6. OccupantInv' /\ StepsInv'
    BY <1>1 DEF TimingInv, OccupantInv, StepsInv, ring_vars, event_vars
  <1>7. \A i \in Undone(flights) : i # 1 /\ i \in Int /\ i - 1 \in Undone(flights')
    BY <1>1, <1>3, IsSeqFacts, <1>2 DEF Undone
  <1>8. AwaitedInv'
    <2>1. /\ Dones(stream) # {} => Undone(flights) # {}
          /\ (\E d, e \in Dones(stream) : d # e)
                => (\E i, j \in Undone(flights) : i # j)
          /\ \A d, e, g \in Dones(stream) : d = e \/ e = g \/ d = g
      BY DEF TimingInv, AwaitedInv
    <2>2. Dones(stream) # {} => Undone(flights') # {}
      BY <2>1, <1>7
    <2>3. (\E d, e \in Dones(stream) : d # e)
             => (\E i, j \in Undone(flights') : i # j)
      BY <2>1, <1>7
    <2> QED BY <1>1, <2>1, <2>2, <2>3 DEF AwaitedInv
  <1> QED BY <1>4, <1>5, <1>6, <1>8 DEF TimingInv

\* The GPU takes the work at the head.
LEMMA HeadTaken ==
    ASSUME StreamType, StepsInv, stream # <<>>, stream' = Tail(stream),
           timing_pos' = timing_pos
    PROVE  /\ StreamType' /\ StepsInv'
           /\ 1 \in DOMAIN stream /\ Head(stream) = stream[1]
           /\ \A k \in DOMAIN stream : k \in Nat \ {0}
           /\ \A k \in DOMAIN stream' :
                 k \in Nat \ {0} /\ k + 1 \in DOMAIN stream
                 /\ stream'[k] = stream[k + 1]
           /\ \A k \in DOMAIN stream :
                 k # 1 => k - 1 \in DOMAIN stream' /\ stream'[k - 1] = stream[k]
  <1>1. /\ IsSeq(stream') /\ 1 \in DOMAIN stream /\ Head(stream) = stream[1]
        /\ \A k \in DOMAIN stream : k \in Nat \ {0}
        /\ \A k \in DOMAIN stream' :
              k \in Nat \ {0} /\ k + 1 \in DOMAIN stream
              /\ stream'[k] = stream[k + 1]
        /\ \A k \in DOMAIN stream :
              k # 1 => k - 1 \in DOMAIN stream' /\ stream'[k - 1] = stream[k]
    BY TailPlaces DEF StreamType
  <1>2. StreamType'
    BY <1>1 DEF StreamType
  <1>3. StepsInv'
    <2>1. \A i \in Whole(stream') : i \in Nat \ {0} /\ i + 1 \in Whole(stream)
      BY <1>1 DEF Whole
    <2>2. \A i \in Whole(stream) : i # 1 => i - 1 \in Whole(stream')
      BY <1>1 DEF Whole
    <2>3. \A d \in Dones(stream) : d # 1 => d - 1 \in Dones(stream')
      BY <1>1 DEF Dones
    <2>4. \A d \in Dones(stream) \union Whole(stream) : d \in Nat \ {0}
      BY <1>1 DEF Dones, Whole
    <2>5. ASSUME NEW i \in Whole(stream')
          PROVE  \E d \in Dones(stream') :
                    i < d /\ \A j \in Whole(stream') : i < j => d < j
      <3>1. PICK d \in Dones(stream) :
               i + 1 < d /\ \A j \in Whole(stream) : i + 1 < j => d < j
        BY <2>1, <2>5 DEF StepsInv
      <3>2. d - 1 \in Dones(stream') /\ i < d - 1
        BY <3>1, <2>1, <2>3, <2>4
      <3>3. \A j \in Whole(stream') : i < j => d - 1 < j
        BY <3>1, <2>1, <2>4
      <3> QED BY <3>2, <3>3
    <2>6. ASSUME NEW i \in Whole(stream'), \A j \in Whole(stream') : j <= i
          PROVE  NextSlot(stream'[i].slot) = timing_pos
      <3>1. \A j \in Whole(stream) : j <= i + 1
        BY <2>1, <2>2, <2>4, <2>6
      <3>2. stream'[i] = stream[i + 1]
        BY <1>1 DEF Whole
      <3> QED BY <2>1, <3>1, <3>2 DEF StepsInv
    <2> QED BY <2>5, <2>6 DEF StepsInv
  <1> QED BY <1>1, <1>2, <1>3

\* Behind the head, the last forward of a slot is where it was.
LEMMA OccupantStays ==
    ASSUME StreamType, OccupantInv, NEW slot \in Slots,
           timing_owner[slot] # None,
           timing_owner'[slot] = timing_owner[slot],
           start_evt'[slot] = start_evt[slot], end_evt'[slot] = end_evt[slot],
           stream # <<>>, stream' = Tail(stream), 1 \notin On(stream, slot)
    PROVE  \/ /\ On(stream', slot) = {}
              /\ start_evt'[slot] = timing_owner'[slot]
              /\ end_evt'[slot] = timing_owner'[slot]
           \/ \E i \in On(stream', slot) :
                 /\ \A j \in On(stream', slot) : j <= i
                 /\ stream'[i].ends /\ stream'[i].tag = timing_owner'[slot]
  <1>1. /\ \A k \in DOMAIN stream' :
              k \in Nat \ {0} /\ k + 1 \in DOMAIN stream
              /\ stream'[k] = stream[k + 1]
        /\ \A k \in DOMAIN stream :
              k # 1 => k - 1 \in DOMAIN stream' /\ stream'[k - 1] = stream[k]
        /\ \A k \in DOMAIN stream : k \in Nat \ {0}
    BY TailPlaces DEF StreamType
  <1>2. \A j \in On(stream', slot) : j \in Nat \ {0} /\ j + 1 \in On(stream, slot)
    BY <1>1 DEF On
  <1>3. CASE /\ On(stream, slot) = {}
             /\ start_evt[slot] = timing_owner[slot]
             /\ end_evt[slot] = timing_owner[slot]
    BY <1>2, <1>3
  <1>4. CASE \E i \in On(stream, slot) :
                /\ \A j \in On(stream, slot) : j <= i
                /\ stream[i].ends /\ stream[i].tag = timing_owner[slot]
    <2>1. PICK i \in On(stream, slot) :
             /\ \A j \in On(stream, slot) : j <= i
             /\ stream[i].ends /\ stream[i].tag = timing_owner[slot]
      BY <1>4
    <2>2. /\ i \in Nat \ {0} /\ i - 1 \in On(stream', slot)
          /\ stream'[i - 1] = stream[i]
      BY <1>1 DEF On
    <2>3. ASSUME NEW j \in On(stream', slot) PROVE j <= i - 1
      <3>1. j \in Nat /\ j + 1 <= i /\ i \in Nat
        BY <1>2, <2>1, <2>2
      <3> QED BY <3>1
    <2> QED BY <2>1, <2>2, <2>3
  <1> QED BY <1>3, <1>4 DEF OccupantInv

\* The GPU has as many to end as before, or less.
LEMMA AwaitedStays ==
    ASSUME StreamType, AwaitedInv, stream # <<>>, stream' = Tail(stream),
           flights' = flights
    PROVE  AwaitedInv'
  <1>1. \A d \in Dones(stream') : d \in Int /\ d + 1 \in Dones(stream)
    BY TailPlaces DEF StreamType, Dones
  <1>2. Dones(stream') # {} => Undone(flights) # {}
    BY <1>1 DEF AwaitedInv
  <1>3. ASSUME NEW d \in Dones(stream'), NEW e \in Dones(stream'), d # e
        PROVE  \E i, j \in Undone(flights) : i # j
    <2>1. d + 1 # e + 1 /\ d + 1 \in Dones(stream) /\ e + 1 \in Dones(stream)
      BY <1>1, <1>3
    <2> QED BY <2>1 DEF AwaitedInv
  <1>4. ASSUME NEW d \in Dones(stream'), NEW e \in Dones(stream'),
               NEW g \in Dones(stream')
        PROVE  d = e \/ e = g \/ d = g
    <2>1. d + 1 = e + 1 \/ e + 1 = g + 1 \/ d + 1 = g + 1
      BY <1>1 DEF AwaitedInv
    <2> QED BY <1>1, <2>1
  <1> QED BY <1>2, <1>3, <1>4 DEF AwaitedInv

\* The GPU does what is neither a forward nor the end of a step.
LEMMA SideWorkKeeps ==
    ASSUME TimingInv, stream # <<>>, stream' = Tail(stream),
           Head(stream).op \notin {"forward", "done"},
           UNCHANGED <<flights, ring_vars, event_vars>>
    PROVE  TimingInv'
  <1>1. /\ timing_owner' = timing_owner /\ timing_pos' = timing_pos
        /\ start_evt' = start_evt /\ end_evt' = end_evt /\ flights' = flights
    BY DEF ring_vars, event_vars
  <1>2. StreamType /\ OccupantInv /\ StepsInv /\ AwaitedInv
    BY DEF TimingInv
  <1>3. /\ StreamType' /\ StepsInv'
        /\ 1 \in DOMAIN stream /\ Head(stream) = stream[1]
        /\ \A k \in DOMAIN stream : k \in Nat \ {0}
        /\ \A k \in DOMAIN stream' :
              k \in Nat \ {0} /\ k + 1 \in DOMAIN stream
              /\ stream'[k] = stream[k + 1]
        /\ \A k \in DOMAIN stream :
              k # 1 => k - 1 \in DOMAIN stream' /\ stream'[k - 1] = stream[k]
    BY <1>1, <1>2, HeadTaken
  <1>4. FlightType' /\ RingType'
    BY <1>1 DEF TimingInv, FlightType, RingType
  <1>5. OccupantInv'
    <2> SUFFICES ASSUME NEW slot \in Slots, timing_owner'[slot] # None
                 PROVE  \/ /\ On(stream', slot) = {}
                           /\ start_evt'[slot] = timing_owner'[slot]
                           /\ end_evt'[slot] = timing_owner'[slot]
                        \/ \E i \in On(stream', slot) :
                              /\ \A j \in On(stream', slot) : j <= i
                              /\ stream'[i].ends
                              /\ stream'[i].tag = timing_owner'[slot]
      BY DEF OccupantInv
    <2>1. 1 \notin On(stream, slot)
      BY <1>3 DEF On
    <2> QED BY <1>1, <1>2, <2>1, OccupantStays
  <1>6. AwaitedInv'
    BY <1>1, <1>2, AwaitedStays
  <1> QED BY <1>3, <1>4, <1>5, <1>6 DEF TimingInv

\* A forward fires the start event of its slot, and the end event too unless
\* it is left.
LEMMA ForwardKeeps ==
    ASSUME TimingInv, ExecForward
    PROVE  TimingInv'
  <1> DEFINE f == Head(stream)
  <1>1. /\ stream # <<>> /\ f.op = "forward" /\ stream' = Tail(stream)
        /\ timing_owner' = timing_owner /\ timing_pos' = timing_pos
        /\ flights' = flights
        /\ start_evt' = [start_evt EXCEPT ![f.slot] = f.tag]
        /\ end_evt' = IF f.ends THEN [end_evt EXCEPT ![f.slot] = f.tag]
                      ELSE end_evt
    BY DEF ExecForward, Executes, ring_vars
  <1>2. StreamType /\ RingType /\ OccupantInv /\ StepsInv /\ AwaitedInv
    BY DEF TimingInv
  <1>3. /\ StreamType' /\ StepsInv'
        /\ 1 \in DOMAIN stream /\ f = stream[1]
        /\ \A k \in DOMAIN stream : k \in Nat \ {0}
        /\ \A k \in DOMAIN stream' :
              k \in Nat \ {0} /\ k + 1 \in DOMAIN stream
              /\ stream'[k] = stream[k + 1]
        /\ \A k \in DOMAIN stream :
              k # 1 => k - 1 \in DOMAIN stream' /\ stream'[k - 1] = stream[k]
    BY <1>1, <1>2, HeadTaken
  <1>4. f.slot \in Slots /\ f.tag \in StepTags /\ f.ends \in BOOLEAN
    BY <1>1, <1>2, <1>3 DEF StreamType
  <1> HIDE DEF f
  <1>5. FlightType' /\ RingType'
    <2>1. FlightType'
      BY <1>1 DEF TimingInv, FlightType
    <2>2. start_evt' \in [Slots -> StepTags \union {None}]
      BY <1>1, <1>2, <1>4 DEF RingType
    <2>3. end_evt' \in [Slots -> StepTags \union {None}]
      BY <1>1, <1>2, <1>4 DEF RingType
    <2> QED BY <1>1, <1>2, <2>1, <2>2, <2>3 DEF RingType
  <1>6. OccupantInv'
    <2> SUFFICES ASSUME NEW slot \in Slots, timing_owner'[slot] # None
                 PROVE  \/ /\ On(stream', slot) = {}
                           /\ start_evt'[slot] = timing_owner'[slot]
                           /\ end_evt'[slot] = timing_owner'[slot]
                        \/ \E i \in On(stream', slot) :
                              /\ \A j \in On(stream', slot) : j <= i
                              /\ stream'[i].ends
                              /\ stream'[i].tag = timing_owner'[slot]
      BY DEF OccupantInv
    <2>1. CASE slot # f.slot
      <3>1. 1 \notin On(stream, slot)
        BY <1>1, <1>3, <2>1 DEF On
      <3>2. start_evt'[slot] = start_evt[slot] /\ end_evt'[slot] = end_evt[slot]
        BY <1>1, <1>2, <2>1 DEF RingType
      <3> QED BY <1>1, <1>2, <3>1, <3>2, OccupantStays
    <2>2. CASE slot = f.slot
      <3>1. 1 \in On(stream, slot)
        BY <1>1, <1>3, <2>2 DEF On
      <3>2. PICK i \in On(stream, slot) :
               /\ \A j \in On(stream, slot) : j <= i
               /\ stream[i].ends /\ stream[i].tag = timing_owner[slot]
        BY <1>1, <1>2, <3>1 DEF OccupantInv
      <3>3. \A j \in On(stream', slot) : j \in Nat \ {0} /\ j + 1 \in On(stream, slot)
        BY <1>3 DEF On
      <3>4. CASE i = 1
        <4>1. On(stream', slot) = {}
          <5> SUFFICES ASSUME NEW j \in On(stream', slot) PROVE FALSE
            OBVIOUS
          <5>1. j \in Nat \ {0} /\ j + 1 <= 1
            BY <3>2, <3>3, <3>4
          <5> QED BY <5>1
        <4>2. f.ends /\ f.tag = timing_owner'[slot]
          BY <1>1, <1>3, <3>2, <3>4
        <4>3. start_evt'[slot] = f.tag /\ end_evt'[slot] = f.tag
          BY <1>1, <1>2, <2>2, <4>2 DEF RingType
        <4> QED BY <4>1, <4>2, <4>3
      <3>5. CASE i # 1
        <4>1. /\ i \in Nat \ {0} /\ i - 1 \in On(stream', slot)
              /\ stream'[i - 1] = stream[i]
          BY <1>3, <3>2, <3>5 DEF On
        <4>2. ASSUME NEW j \in On(stream', slot) PROVE j <= i - 1
          <5>1. j \in Nat /\ j + 1 <= i /\ i \in Nat
            BY <3>2, <3>3, <4>1
          <5> QED BY <5>1
        <4>3. /\ stream'[i - 1].ends
              /\ stream'[i - 1].tag = timing_owner'[slot]
          BY <1>1, <3>2, <4>1
        <4> QED BY <4>1, <4>2, <4>3
      <3> QED BY <3>4, <3>5
    <2> QED BY <2>1, <2>2
  <1>7. AwaitedInv'
    BY <1>1, <1>2, AwaitedStays
  <1> QED BY <1>3, <1>5, <1>6, <1>7 DEF TimingInv

\* The oldest step that is not done can be read: one less to wait for.
LEMMA EndKeeps ==
    ASSUME TimingInv, ExecDone
    PROVE  TimingInv'
  <1> DEFINE first(i) == ~flights[i].done /\ \A j \in 1 .. i - 1 : flights[j].done
             i == CHOOSE i \in DOMAIN flights : first(i)
             n == Len(flights)
  <1>1. /\ stream # <<>> /\ Head(stream).op = "done" /\ stream' = Tail(stream)
        /\ timing_owner' = timing_owner /\ timing_pos' = timing_pos
        /\ start_evt' = start_evt /\ end_evt' = end_evt
        /\ flights' = [flights EXCEPT ![i].done = TRUE]
    BY DEF ExecDone, Executes, ring_vars, event_vars
  <1>2. FlightType /\ StreamType /\ RingType /\ OccupantInv /\ StepsInv /\ AwaitedInv
    BY DEF TimingInv
  <1>3. /\ StreamType' /\ StepsInv'
        /\ 1 \in DOMAIN stream /\ Head(stream) = stream[1]
        /\ \A k \in DOMAIN stream' :
              k \in Nat \ {0} /\ k + 1 \in DOMAIN stream
              /\ stream'[k] = stream[k + 1]
    BY <1>1, <1>2, HeadTaken
  <1>4. 1 \in Dones(stream)
    BY <1>1, <1>3 DEF Dones
  <1>5. /\ n \in Nat /\ DOMAIN flights = 1 .. n /\ n <= 2
    BY <1>2, IsSeqFacts, ModelRunnerAssumption DEF FlightType
  <1>6. i \in DOMAIN flights /\ ~flights[i].done
    <2>1. PICK u \in 1 .. n : ~flights[u].done
      BY <1>2, <1>4, <1>5 DEF AwaitedInv, Undone
    <2>2. \E v \in 1 .. n : first(v)
      <3>1. CASE ~flights[1].done
        BY <3>1, <2>1, <1>5
      <3>2. CASE flights[1].done
        <4>1. u = 2
          BY <2>1, <3>2, <1>5
        <4> QED BY <2>1, <3>2, <4>1
      <3> QED BY <3>1, <3>2
    <2> QED BY <2>2, <1>5
  <1> HIDE DEF i
  <1> DEFINE g == [flights[i] EXCEPT !.done = TRUE]
  <1>7. /\ flights' = [flights EXCEPT ![i] = g] /\ g.done
        /\ {"ids", "claims", "aborted", "done"} \subseteq DOMAIN g
    <2>1. {"ids", "claims", "aborted", "done"} \subseteq DOMAIN flights[i]
      BY <1>2, <1>6 DEF FlightType
    <2> QED BY <1>1, <2>1
  <1> HIDE DEF g
  <1>8. /\ IsSeq(flights') /\ Len(flights') = n
        /\ flights'[i] = g /\ \A k \in 1 .. n : k # i => flights'[k] = flights[k]
    <2> DEFINE T == {flights[k] : k \in DOMAIN flights} \union {g}
               h == [flights EXCEPT ![i] = g]
    <2>1. flights \in Seq(T)
      BY <1>2 DEF FlightType, IsSeq
    <2>2. g \in T
      OBVIOUS
    <2> HIDE DEF T
    <2>3. /\ h \in Seq(T) /\ Len(h) = n
          /\ \A k \in 1 .. n : h[k] = IF k = i THEN g ELSE flights[k]
      BY <2>1, <2>2, <1>5, <1>6, ExceptSeq
    <2>4. IsSeq(h)
      <3> HIDE DEF h
      <3> QED BY <2>3 DEF IsSeq
    <2> QED BY <1>5, <1>6, <1>7, <2>3, <2>4
  <1>9. FlightType' /\ \A k \in Undone(flights) : k # i => k \in Undone(flights')
    <2>1. DOMAIN flights' = 1 .. n
      BY <1>8, IsSeqFacts, <1>5
    <2>2. \A k \in DOMAIN flights' :
             {"ids", "claims", "aborted", "done"} \subseteq DOMAIN flights'[k]
      BY <1>2, <1>5, <1>7, <1>8, <2>1 DEF FlightType
    <2>3. Len(flights') <= Depth
      BY <1>8, <1>2 DEF FlightType
    <2> QED BY <1>5, <1>8, <2>1, <2>2, <2>3 DEF FlightType, Undone
  <1>10. RingType'
    BY <1>1, <1>2 DEF RingType
  <1>11. OccupantInv'
    <2> SUFFICES ASSUME NEW slot \in Slots, timing_owner'[slot] # None
                 PROVE  \/ /\ On(stream', slot) = {}
                           /\ start_evt'[slot] = timing_owner'[slot]
                           /\ end_evt'[slot] = timing_owner'[slot]
                        \/ \E k \in On(stream', slot) :
                              /\ \A j \in On(stream', slot) : j <= k
                              /\ stream'[k].ends
                              /\ stream'[k].tag = timing_owner'[slot]
      BY DEF OccupantInv
    <2>1. 1 \notin On(stream, slot)
      BY <1>1, <1>3 DEF On
    <2> QED BY <1>1, <1>2, <2>1, OccupantStays
  <1>12. AwaitedInv'
    <2>1. \A d \in Dones(stream') :
             d \in Nat \ {0} /\ d + 1 \in Dones(stream) /\ d + 1 # 1
      BY <1>3 DEF Dones
    <2>2. ASSUME NEW d \in Dones(stream') PROVE Undone(flights') # {}
      <3>1. \E u, v \in Undone(flights) : u # v
        BY <1>2, <1>4, <2>1 DEF AwaitedInv
      <3> QED BY <3>1, <1>9
    <2>3. ASSUME NEW d \in Dones(stream'), NEW e \in Dones(stream') PROVE d = e
      <3>1. 1 = d + 1 \/ d + 1 = e + 1 \/ 1 = e + 1
        BY <1>2, <1>4, <2>1 DEF AwaitedInv
      <3> QED BY <2>1, <3>1
    <2> QED BY <2>2, <2>3 DEF AwaitedInv
  <1> QED BY <1>3, <1>9, <1>10, <1>11, <1>12 DEF TimingInv

\* A step is told as one that has samples or as one that has none.
LEMMA TagType == \A batch : Tag(batch) \in StepTags
  BY DEF Tag, StepTags

\* The slot after one of the ring's is one of the ring's.
LEMMA NextSlotType == timing_pos \in Slots => NextSlot(timing_pos) \in Slots
  BY ModelRunnerAssumption DEF Slots, NextSlot

\* A step that is enqueued whole: the free slot is its own, and the GPU has one
\* more to end, for one more that the host waits for.
LEMMA ForwardDoneKeeps ==
    ASSUME TimingInv, NEW batch, NEW discarded, NEW missed,
           ForwardDone(batch, discarded, missed)
    PROVE  TimingInv'
  <1> DEFINE n == Len(flights)
             s == Len(stream)
             m == Len(stream')
             p == timing_pos
             e == [ids |-> FreshIds(batch), claims |-> {},
                   aborted |-> FALSE, done |-> FALSE]
  <1>1. /\ n < Depth
        /\ flights' = Append(flights, e)
        /\ timing_owner' = [timing_owner EXCEPT ![p] = Tag(batch)]
        /\ timing_pos' = NextSlot(p)
        /\ start_evt' = [start_evt EXCEPT ![p] = None]
        /\ end_evt' = [end_evt EXCEPT ![p] = None]
    BY DEF ForwardDone, Begin, MayEnqueue, OwnedSlot
  <1>2. FlightType /\ StreamType /\ RingType /\ OccupantInv /\ StepsInv /\ AwaitedInv
    BY DEF TimingInv
  <1>3. /\ IsSeq(stream') /\ m \in Nat
        /\ \A i \in 1 .. s : stream'[i] = stream[i]
        /\ stream'[m].op = "done"
        /\ \E k : OneForward(stream, stream', m - 1, k, Tag(batch), TRUE)
    <2> DEFINE offset == fill + Reserved
               points == Len(Hooks(config))
    <2>1. stream' = stream \o Arm(batch) \o Forward(batch, offset, points, TRUE)
                    \o AfterForward(batch, offset) \o <<[op |-> "done"]>>
      BY DEF ForwardDone
    <2> HIDE DEF offset, points
    <2>2. StreamType
      BY <1>2
    <2> HIDE DEF e
    <2> QED BY <2>1, <2>2, EnqueuesWhole
  <1>4. PICK k \in s + 1 .. m - 1 :
           /\ stream'[k].op = "forward" /\ stream'[k].ends = TRUE
           /\ stream'[k].slot = p /\ stream'[k].tag = Tag(batch)
           /\ \A i \in s + 1 .. m - 1 :
                 i # k => stream'[i].op \notin {"forward", "done"}
    BY <1>3 DEF OneForward
  <1>5. /\ DOMAIN stream' = 1 .. m /\ DOMAIN stream = 1 .. s /\ s \in Nat
        /\ p \in Slots /\ Tag(batch) \in StepTags
    BY <1>2, <1>3, IsSeqFacts, TagType DEF StreamType, RingType
  <1>6. /\ IsSeq(flights') /\ Len(flights') = n + 1 /\ n \in Nat
        /\ DOMAIN flights' = 1 .. n + 1 /\ DOMAIN flights = 1 .. n
        /\ flights'[n + 1] = e
        /\ \A i \in 1 .. n : flights'[i] = flights[i]
    <2>1. n \in Nat /\ DOMAIN flights = 1 .. n
      BY <1>2, IsSeqFacts DEF FlightType
    <2>2. /\ IsSeq(flights') /\ Len(flights') = n + 1
          /\ flights'[n + 1] = e
          /\ \A i \in 1 .. n : flights'[i] = flights[i]
      BY <1>1, <1>2, AppendFacts DEF FlightType
    <2> QED BY <2>1, <2>2, IsSeqFacts
  <1>7. FlightType'
    <2>1. \A i \in DOMAIN flights' :
             {"ids", "claims", "aborted", "done"} \subseteq DOMAIN flights'[i]
      <3>1. {"ids", "claims", "aborted", "done"} \subseteq DOMAIN e
        OBVIOUS
      <3> HIDE DEF e
      <3>2. \A i \in 1 .. n + 1 : i # n + 1 => i \in 1 .. n
        BY <1>6
      <3> QED BY <3>1, <3>2, <1>2, <1>6 DEF FlightType
    <2>2. n + 1 <= Depth
      BY <1>1, <1>6, ModelRunnerAssumption
    <2> QED BY <1>6, <2>1, <2>2 DEF FlightType
  <1> HIDE DEF e, m, s, p
  <1>8. \A i \in 1 .. m :
           \/ i \in 1 .. s /\ stream'[i] = stream[i]
           \/ i \notin 1 .. s /\ i = k
           \/ i \notin 1 .. s /\ i = m
           \/ i \notin 1 .. s /\ i # k /\ stream'[i].op \notin {"forward", "done"}
    <2> SUFFICES ASSUME NEW i \in 1 .. m, i \notin 1 .. s, i # k, i # m
                 PROVE  stream'[i].op \notin {"forward", "done"}
      BY <1>3
    <2>1. i \in s + 1 .. m - 1
      <3>1. m \in Nat /\ s \in Nat
        BY <1>3, <1>5 DEF m
      <3> QED BY <3>1
    <2> QED BY <1>4, <2>1
  <1>9. /\ k \in Nat /\ s < k /\ k < m /\ m \in Nat
        /\ \A i \in 1 .. s : i \in Nat /\ i < k /\ i < m /\ i \in 1 .. m
        /\ k \in 1 .. m /\ m \in 1 .. m
    BY <1>4, <1>3, <1>5 DEF m
  <1>10. StreamType'
    <2> SUFFICES ASSUME NEW i \in 1 .. m, stream'[i].op = "forward"
                 PROVE  /\ stream'[i].slot \in Slots
                        /\ stream'[i].tag \in StepTags
                        /\ stream'[i].ends \in BOOLEAN
      BY <1>3, <1>5 DEF StreamType
    <2>1. CASE i \in 1 .. s /\ stream'[i] = stream[i]
      BY <2>1, <1>2, <1>5 DEF StreamType
    <2>2. CASE i = k
      BY <2>2, <1>4, <1>5
    <2>3. i # m
      BY <1>3 DEF m
    <2> QED BY <2>1, <2>2, <2>3, <1>8
  <1>11. RingType'
    BY <1>1, <1>2, <1>5, NextSlotType DEF RingType, p
  <1>12. \A slot \in Slots : slot # p => On(stream', slot) = On(stream, slot)
    <2> SUFFICES ASSUME NEW slot \in Slots, slot # p, NEW i
                 PROVE  i \in On(stream', slot) <=> i \in On(stream, slot)
      OBVIOUS
    <2>1. CASE i \in 1 .. s
      BY <2>1, <1>3, <1>5, <1>9 DEF On, s
    <2>2. CASE i \notin 1 .. s
      <3>1. i \notin On(stream, slot)
        BY <2>2, <1>5 DEF On
      <3>2. i \notin On(stream', slot)
        BY <2>2, <1>3, <1>4, <1>5, <1>8 DEF On, m
      <3> QED BY <3>1, <3>2
    <2> QED BY <2>1, <2>2
  <1>13. \A i \in On(stream', p) : i <= k
    <2> SUFFICES ASSUME NEW i \in On(stream', p) PROVE i <= k
      OBVIOUS
    <2>1. i \in 1 .. m /\ stream'[i].op = "forward"
      BY <1>5 DEF On
    <2> QED BY <2>1, <1>3, <1>8, <1>9 DEF m
  <1>14. OccupantInv'
    <2> SUFFICES ASSUME NEW slot \in Slots, timing_owner'[slot] # None
                 PROVE  \/ /\ On(stream', slot) = {}
                           /\ start_evt'[slot] = timing_owner'[slot]
                           /\ end_evt'[slot] = timing_owner'[slot]
                        \/ \E i \in On(stream', slot) :
                              /\ \A j \in On(stream', slot) : j <= i
                              /\ stream'[i].ends
                              /\ stream'[i].tag = timing_owner'[slot]
      BY DEF OccupantInv
    <2>1. CASE slot = p
      <3>1. k \in On(stream', slot)
        BY <2>1, <1>4, <1>5, <1>9 DEF On
      <3>2. timing_owner'[slot] = Tag(batch)
        BY <2>1, <1>1, <1>2 DEF RingType, p
      <3> QED BY <2>1, <3>1, <3>2, <1>4, <1>13
    <2>2. CASE slot # p
      <3>1. /\ timing_owner'[slot] = timing_owner[slot]
            /\ start_evt'[slot] = start_evt[slot]
            /\ end_evt'[slot] = end_evt[slot]
        BY <2>2, <1>1, <1>2 DEF RingType, p
      <3>2. On(stream', slot) = On(stream, slot)
        BY <2>2, <1>12
      <3>3. \A i \in On(stream, slot) : stream'[i] = stream[i]
        BY <1>3, <1>5 DEF On, s
      <3> QED BY <3>1, <3>2, <3>3, <1>2 DEF OccupantInv
    <2> QED BY <2>1, <2>2
  <1>15. /\ \A i \in Whole(stream) : i \in 1 .. s
         /\ \A i \in Dones(stream) : i \in 1 .. s
         /\ \A i : i \in Whole(stream') <=> i \in Whole(stream) \/ i = k
         /\ \A i : i \in Dones(stream') <=> i \in Dones(stream) \/ i = m
    <2>1. /\ \A i \in Whole(stream) : i \in 1 .. s
          /\ \A i \in Dones(stream) : i \in 1 .. s
      BY <1>5 DEF Whole, Dones
    <2>2. ASSUME NEW i
          PROVE  /\ i \in Whole(stream') <=> i \in Whole(stream) \/ i = k
                 /\ i \in Dones(stream') <=> i \in Dones(stream) \/ i = m
      <3>1. CASE i \in 1 .. s
        <4>1. stream'[i] = stream[i] /\ i # k /\ i # m /\ i \in 1 .. m
          BY <3>1, <1>3, <1>5, <1>9 DEF s
        <4> QED BY <3>1, <4>1, <1>5 DEF Whole, Dones
      <3>2. CASE i \notin 1 .. s
        <4>1. i \notin Whole(stream) /\ i \notin Dones(stream)
          BY <2>1, <3>2
        <4>2. /\ k \in Whole(stream') /\ k \notin Dones(stream')
              /\ m \in Dones(stream') /\ m \notin Whole(stream')
          BY <1>3, <1>4, <1>5, <1>9 DEF Whole, Dones, m
        <4>3. i # k /\ i # m => i \notin Whole(stream') /\ i \notin Dones(stream')
          BY <3>2, <1>5, <1>8 DEF Whole, Dones
        <4> QED BY <4>1, <4>2, <4>3
      <3> QED BY <3>1, <3>2
    <2> QED BY <2>1, <2>2
  <1>16. StepsInv'
    <2>1. ASSUME NEW i \in Whole(stream')
          PROVE  \E d \in Dones(stream') :
                    i < d /\ \A j \in Whole(stream') : i < j => d < j
      <3>1. CASE i = k
        <4>1. m \in Dones(stream') /\ i < m
          BY <3>1, <1>9, <1>15
        <4>2. \A j \in Whole(stream') : ~(i < j)
          BY <3>1, <1>9, <1>15
        <4> QED BY <4>1, <4>2
      <3>2. CASE i # k
        <4>1. PICK d \in Dones(stream) :
                 i < d /\ \A j \in Whole(stream) : i < j => d < j
          BY <3>2, <1>2, <1>15 DEF StepsInv
        <4>2. d \in Dones(stream') /\ d < k
          BY <1>9, <1>15
        <4> QED BY <4>1, <4>2, <1>15
      <3> QED BY <3>1, <3>2
    <2>2. ASSUME NEW i \in Whole(stream'), \A j \in Whole(stream') : j <= i
          PROVE  NextSlot(stream'[i].slot) = timing_pos'
      <3>1. i = k
        <4>1. k <= i
          BY <2>2, <1>15
        <4> QED BY <4>1, <1>9, <1>15
      <3> QED BY <3>1, <1>1, <1>4 DEF p
    <2> QED BY <2>1, <2>2 DEF StepsInv
  <1>17. AwaitedInv'
    <2>1. n <= 1
      BY <1>1, <1>6, ModelRunnerAssumption
    <2>2. n + 1 \in Undone(flights')
      BY <1>6 DEF Undone, e
    <2>3. \A u \in Undone(flights) : u \in 1 .. n /\ u \in Undone(flights')
      BY <1>6 DEF Undone
    <2>4. \A d, g \in Dones(stream) : d = g
      <3>1. \A u, v \in Undone(flights) : u = v
        BY <2>1, <2>3, <1>6
      <3> QED BY <3>1, <1>2 DEF AwaitedInv
    <2>5. ASSUME NEW d \in Dones(stream'), NEW g \in Dones(stream'), d # g
          PROVE  \E u, v \in Undone(flights') : u # v
      <3>1. Dones(stream) # {}
        BY <2>5, <1>15
      <3>2. PICK u \in Undone(flights) : TRUE
        BY <3>1, <1>2 DEF AwaitedInv
      <3>3. u # n + 1
        BY <2>3, <1>6
      <3> QED BY <2>2, <2>3, <3>3
    <2>6. \A d, g, h \in Dones(stream') : d = g \/ g = h \/ d = h
      BY <2>4, <1>15
    <2> QED BY <2>2, <2>5, <2>6 DEF AwaitedInv
  <1> QED BY <1>7, <1>10, <1>11, <1>14, <1>16, <1>17 DEF TimingInv

\* A step that is left frees its slot; the GPU has no end of it to reach, and
\* its flight is done.
LEMMA ForwardAbortedKeeps ==
    ASSUME TimingInv, NEW batch, NEW discarded, NEW points,
           ForwardAborted(batch, discarded, points)
    PROVE  TimingInv'
  <1> DEFINE n == Len(flights)
             s == Len(stream)
             m == Len(stream')
             p == timing_pos
             e == [ids |-> FreshIds(batch), claims |-> ToSet(batch),
                   aborted |-> TRUE, done |-> TRUE]
  <1>1. /\ n < Depth
        /\ flights' = Append(flights, e)
        /\ timing_owner' = [timing_owner EXCEPT ![p] = None]
        /\ timing_pos' = p
        /\ start_evt' = [start_evt EXCEPT ![p] = None]
        /\ end_evt' = [end_evt EXCEPT ![p] = None]
    BY DEF ForwardAborted, Begin, MayEnqueue, FreedSlot
  <1>2. FlightType /\ StreamType /\ RingType /\ OccupantInv /\ StepsInv /\ AwaitedInv
    BY DEF TimingInv
  <1>3. /\ IsSeq(stream') /\ m \in Nat
        /\ \A i \in 1 .. s : stream'[i] = stream[i]
        /\ \E k : OneForward(stream, stream', m, k, Tag(batch), FALSE)
    <2> DEFINE offset == fill + Reserved
               zeroed == offset + 1 .. offset + Tokens(ToSet(batch))
    <2>1. stream' = stream \o Arm(batch) \o Forward(batch, offset, points, FALSE)
                    \o <<[op |-> "zero", zeroed |-> zeroed]>>
      BY DEF ForwardAborted
    <2>2. StreamType
      BY <1>2
    <2> HIDE DEF offset, zeroed, e
    <2> QED BY <2>1, <2>2, EnqueuesPart
  <1>4. PICK k \in s + 1 .. m :
           /\ stream'[k].op = "forward" /\ stream'[k].ends = FALSE
           /\ stream'[k].slot = p /\ stream'[k].tag = Tag(batch)
           /\ \A i \in s + 1 .. m :
                 i # k => stream'[i].op \notin {"forward", "done"}
    BY <1>3 DEF OneForward
  <1>5. /\ DOMAIN stream' = 1 .. m /\ DOMAIN stream = 1 .. s /\ s \in Nat
        /\ p \in Slots /\ Tag(batch) \in StepTags
    BY <1>2, <1>3, IsSeqFacts, TagType DEF StreamType, RingType
  <1>6. /\ IsSeq(flights') /\ Len(flights') = n + 1 /\ n \in Nat
        /\ DOMAIN flights' = 1 .. n + 1 /\ DOMAIN flights = 1 .. n
        /\ flights'[n + 1] = e
        /\ \A i \in 1 .. n : flights'[i] = flights[i]
    <2>1. n \in Nat /\ DOMAIN flights = 1 .. n
      BY <1>2, IsSeqFacts DEF FlightType
    <2>2. /\ IsSeq(flights') /\ Len(flights') = n + 1
          /\ flights'[n + 1] = e
          /\ \A i \in 1 .. n : flights'[i] = flights[i]
      BY <1>1, <1>2, AppendFacts DEF FlightType
    <2> QED BY <2>1, <2>2, IsSeqFacts
  <1>7. FlightType'
    <2>1. \A i \in DOMAIN flights' :
             {"ids", "claims", "aborted", "done"} \subseteq DOMAIN flights'[i]
      <3>1. {"ids", "claims", "aborted", "done"} \subseteq DOMAIN e
        OBVIOUS
      <3> HIDE DEF e
      <3>2. \A i \in 1 .. n + 1 : i # n + 1 => i \in 1 .. n
        BY <1>6
      <3> QED BY <3>1, <3>2, <1>2, <1>6 DEF FlightType
    <2>2. n + 1 <= Depth
      BY <1>1, <1>6, ModelRunnerAssumption
    <2> QED BY <1>6, <2>1, <2>2 DEF FlightType
  <1> HIDE DEF e, m, s, p
  <1>8. \A i \in 1 .. m :
           \/ i \in 1 .. s /\ stream'[i] = stream[i]
           \/ i \notin 1 .. s /\ i = k
           \/ i \notin 1 .. s /\ i # k /\ stream'[i].op \notin {"forward", "done"}
    <2> SUFFICES ASSUME NEW i \in 1 .. m, i \notin 1 .. s, i # k
                 PROVE  stream'[i].op \notin {"forward", "done"}
      BY <1>3
    <2>1. i \in s + 1 .. m
      <3>1. m \in Nat /\ s \in Nat
        BY <1>3, <1>5 DEF m
      <3> QED BY <3>1
    <2> QED BY <1>4, <2>1
  <1>9. \A i \in 1 .. s : i \in 1 .. m /\ i # k
    BY <1>4, <1>3, <1>5 DEF m
  <1>10. StreamType'
    <2> SUFFICES ASSUME NEW i \in 1 .. m, stream'[i].op = "forward"
                 PROVE  /\ stream'[i].slot \in Slots
                        /\ stream'[i].tag \in StepTags
                        /\ stream'[i].ends \in BOOLEAN
      BY <1>3, <1>5 DEF StreamType
    <2>1. CASE i \in 1 .. s /\ stream'[i] = stream[i]
      BY <2>1, <1>2, <1>5 DEF StreamType
    <2>2. CASE i = k
      BY <2>2, <1>4, <1>5
    <2> QED BY <2>1, <2>2, <1>8
  <1>11. RingType'
    BY <1>1, <1>2, <1>5 DEF RingType, p
  <1>12. /\ \A i \in Whole(stream') : i \in Whole(stream)
         /\ \A i \in Whole(stream) :
               i \in Whole(stream') /\ stream'[i] = stream[i]
         /\ Dones(stream') = Dones(stream)
    <2> SUFFICES ASSUME NEW i
                 PROVE  /\ i \in Whole(stream') => i \in Whole(stream)
                        /\ i \in Whole(stream) =>
                              i \in Whole(stream') /\ stream'[i] = stream[i]
                        /\ i \in Dones(stream') <=> i \in Dones(stream)
      OBVIOUS
    <2>1. CASE i \in 1 .. s
      <3>1. stream'[i] = stream[i] /\ i \in 1 .. m
        BY <2>1, <1>3, <1>9 DEF s
      <3> QED BY <2>1, <3>1, <1>5 DEF Whole, Dones
    <2>2. CASE i \notin 1 .. s
      <3>1. i \notin Whole(stream) /\ i \notin Dones(stream)
        BY <2>2, <1>5 DEF Whole, Dones
      <3>2. i \notin Whole(stream') /\ i \notin Dones(stream')
        BY <2>2, <1>4, <1>5, <1>8 DEF Whole, Dones
      <3> QED BY <3>1, <3>2
    <2> QED BY <2>1, <2>2
  <1>13. OccupantInv'
    <2> SUFFICES ASSUME NEW slot \in Slots, timing_owner'[slot] # None
                 PROVE  \/ /\ On(stream', slot) = {}
                           /\ start_evt'[slot] = timing_owner'[slot]
                           /\ end_evt'[slot] = timing_owner'[slot]
                        \/ \E i \in On(stream', slot) :
                              /\ \A j \in On(stream', slot) : j <= i
                              /\ stream'[i].ends
                              /\ stream'[i].tag = timing_owner'[slot]
      BY DEF OccupantInv
    <2>1. slot # p
      BY <1>1, <1>2 DEF RingType, p
    <2>2. /\ timing_owner'[slot] = timing_owner[slot]
          /\ start_evt'[slot] = start_evt[slot]
          /\ end_evt'[slot] = end_evt[slot]
      BY <2>1, <1>1, <1>2 DEF RingType, p
    <2>3. On(stream', slot) = On(stream, slot)
      <3> SUFFICES ASSUME NEW i
                   PROVE  i \in On(stream', slot) <=> i \in On(stream, slot)
        OBVIOUS
      <3>1. CASE i \in 1 .. s
        BY <3>1, <1>3, <1>5, <1>9 DEF On, s
      <3>2. CASE i \notin 1 .. s
        <4>1. i \notin On(stream, slot)
          BY <3>2, <1>5 DEF On
        <4>2. i \notin On(stream', slot)
          BY <2>1, <3>2, <1>4, <1>5, <1>8 DEF On
        <4> QED BY <4>1, <4>2
      <3> QED BY <3>1, <3>2
    <2>4. \A i \in On(stream, slot) : stream'[i] = stream[i]
      BY <1>3, <1>5 DEF On, s
    <2> QED BY <2>2, <2>3, <2>4, <1>2 DEF OccupantInv
  <1>14. StepsInv'
    <2>1. \A i \in Whole(stream) : \E d \in Dones(stream) :
             i < d /\ \A j \in Whole(stream) : i < j => d < j
      BY <1>2 DEF StepsInv
    <2>2. \A i \in Whole(stream') : \E d \in Dones(stream') :
             i < d /\ \A j \in Whole(stream') : i < j => d < j
      BY <2>1, <1>12
    <2>3. ASSUME NEW i \in Whole(stream'), \A j \in Whole(stream') : j <= i
          PROVE  NextSlot(stream'[i].slot) = timing_pos'
      <3>1. /\ i \in Whole(stream) /\ stream'[i] = stream[i]
            /\ \A j \in Whole(stream) : j <= i
        BY <2>3, <1>12
      <3> QED BY <3>1, <1>1, <1>2 DEF StepsInv, p
    <2> QED BY <2>2, <2>3 DEF StepsInv
  <1>15. AwaitedInv'
    <2>1. \A u \in Undone(flights) : u \in Undone(flights')
      BY <1>6 DEF Undone
    <2> QED BY <2>1, <1>2, <1>12 DEF AwaitedInv
  <1> QED BY <1>7, <1>10, <1>11, <1>13, <1>14, <1>15 DEF TimingInv

\* At first nothing is enqueued, and no slot has an owner.
LEMMA TimingInitial == Init => TimingInv
  <1> SUFFICES ASSUME Init PROVE TimingInv
    OBVIOUS
  <1>1. /\ flights = <<>> /\ stream = <<>>
        /\ timing_owner = [i \in 0 .. TimingRing - 1 |-> None]
        /\ timing_pos = 0 /\ start_evt = timing_owner /\ end_evt = timing_owner
    BY DEF Init
  <1>2. /\ IsSeq(<<>>) /\ Len(<<>>) = 0
        /\ DOMAIN flights = {} /\ DOMAIN stream = {}
    BY <1>1, OneFacts
  <1>3. FlightType /\ StreamType
    BY <1>1, <1>2, ModelRunnerAssumption DEF FlightType, StreamType
  <1>4. RingType
    BY <1>1, ModelRunnerAssumption DEF RingType, Slots
  <1>5. \A slot : On(stream, slot) = {} /\ Whole(stream) = {} /\ Dones(stream) = {}
    BY <1>2 DEF On, Whole, Dones
  <1>6. OccupantInv
    BY <1>1, <1>5 DEF OccupantInv, Slots
  <1>7. StepsInv /\ AwaitedInv
    BY <1>5 DEF StepsInv, AwaitedInv
  <1> QED BY <1>3, <1>4, <1>6, <1>7 DEF TimingInv

\* A slot's occupant is the last step to record its events, and the GPU has as
\* many steps to end as the host waits for (_ft_timing_begin, _ft_timing_end).
THEOREM TimingInvariant == Spec => []TimingInv
  <1>1. ASSUME TimingInv, [Next]_vars PROVE TimingInv'
    <2> USE <1>1
    <2>1. ASSUME NEW batch \in Batches, NEW discarded \in BOOLEAN,
                 NEW missed \in BOOLEAN, ForwardDone(batch, discarded, missed)
          PROVE  TimingInv'
      BY <2>1, ForwardDoneKeeps
    <2>2. ASSUME NEW batch \in Batches, NEW discarded \in BOOLEAN,
                 NEW points \in 0 .. Len(Hooks(config)),
                 ForwardAborted(batch, discarded, points)
          PROVE  TimingInv'
      BY <2>2, ForwardAbortedKeeps
    <2>3. CASE UpdateFromOutput
      BY <2>3, UpdateKeeps
    <2>4. CASE TriggerBackward \/ SendWork \/ BackwardDone
      BY <2>4, StillKeeps
         DEF TriggerBackward, SendWork, BackwardDone, host_vars
    <2>5. CASE ExecCopy \/ ExecFinal \/ ExecZero
      <3>1. /\ stream # <<>> /\ stream' = Tail(stream)
            /\ Head(stream).op \in {"copy", "final", "zero"}
            /\ UNCHANGED <<flights, ring_vars, event_vars>>
        BY <2>5 DEF ExecCopy, ExecFinal, ExecZero, Executes
      <3> QED BY <3>1, SideWorkKeeps
    <2>6. CASE ExecForward
      BY <2>6, ForwardKeeps
    <2>7. CASE ExecDone
      BY <2>7, EndKeeps
    <2>8. CASE UNCHANGED vars
      BY <2>8, StillKeeps DEF vars, host_vars
    <2> QED BY <2>1, <2>2, <2>3, <2>4, <2>5, <2>6, <2>7, <2>8 DEF Next, Gpu
  <1> QED BY <1>1, TimingInitial, PTL DEF Spec

-----------------------------------------------------------------------------
(***************************************************************************)
(* What the estimator is fed.                                              *)
(***************************************************************************)
\* query() of a slot's end event answers for what is still to record it.
LEMMA FiredMeans ==
    ASSUME TimingInv, NEW slot
    PROVE  EndFired(slot) <=> \A i \in On(stream, slot) : ~stream[i].ends
  BY DEF EndFired, On, TimingInv, StreamType

\* A pair of events is pushed with the features of the step that recorded both
\* (_ft_timing_begin: a slot is freed until its step has been enqueued whole,
\* and an abort keeps it free).
THEOREM PairsAreTheStepsOwn == Spec => []TimesItsOwnStep
  <1>1. TimingInv => TimesItsOwnStep
    <2> SUFFICES ASSUME TimingInv, NEW slot \in DOMAIN timing_owner, Pushed(slot)
                 PROVE  /\ start_evt[slot] = timing_owner[slot]
                        /\ end_evt[slot] = timing_owner[slot]
      BY DEF TimesItsOwnStep
    <2>1. slot \in Slots /\ timing_owner[slot] # None /\ EndFired(slot)
      BY DEF TimingInv, RingType, Pushed
    <2>2. \A i \in On(stream, slot) : ~stream[i].ends
      BY <2>1, FiredMeans
    <2> QED BY <2>1, <2>2 DEF TimingInv, OccupantInv
  <1> QED BY <1>1, TimingInvariant, PTL

\* The ring returns to a slot only when the GPU has reached the end of the step
\* that has it, so no timing is dropped: the ring is no shorter than the queue
\* of batches is deep (_RING is 4, the queue at most 2).
THEOREM NoTimingDropped ==
    ASSUME Depth <= TimingRing
    PROVE  Spec => SlotSettled
  <1> DEFINE Settles == \A slot \in DOMAIN timing_owner :
                 timing_owner[slot] # None /\ timing_owner'[slot] # timing_owner[slot]
                    => EndFired(slot)
  <1>1. ASSUME TimingInv, [Next]_vars
        PROVE  Settles \/ UNCHANGED vars
    <2>1. CASE timing_owner' = timing_owner
      BY <2>1
    <2>2. CASE \E batch, discarded, missed, points :
                  \/ ForwardDone(batch, discarded, missed)
                  \/ ForwardAborted(batch, discarded, points)
      <3>1. /\ Len(flights) < Depth
            /\ \A slot \in DOMAIN timing_owner :
                  slot # timing_pos => timing_owner'[slot] = timing_owner[slot]
        BY <2>2 DEF ForwardDone, ForwardAborted, Begin, MayEnqueue, OwnedSlot, FreedSlot
      <3>2. /\ FlightType /\ StreamType /\ StepsInv /\ AwaitedInv
            /\ timing_pos \in 0 .. TimingRing - 1
        BY <1>1 DEF TimingInv, RingType, Slots
      <3>3. /\ DOMAIN flights = 1 .. Len(flights) /\ Len(flights) \in Nat
            /\ \A i \in DOMAIN stream : i \in Int
        BY <3>2, IsSeqFacts DEF FlightType, StreamType
      <3>4. \A d, e \in Dones(stream) : d = e
        <4>1. \A u, v \in Undone(flights) : u = v
          BY <3>1, <3>3, ModelRunnerAssumption DEF Undone
        <4> QED BY <4>1, <3>2 DEF AwaitedInv
      <3>5. ASSUME NEW i \in Whole(stream) PROVE stream[i].slot # timing_pos
        <4>1. Len(flights) # 0 /\ Depth = 2
          <5>1. Undone(flights) # {}
            BY <3>2 DEF StepsInv, AwaitedInv
          <5>2. Len(flights) # 0
            BY <5>1, <3>3 DEF Undone
          <5> QED BY <5>2, <3>1, <3>3, ModelRunnerAssumption
        <4>2. \A j \in Whole(stream) : j <= i
          <5> SUFFICES ASSUME NEW j \in Whole(stream), i < j PROVE FALSE
            BY <3>3 DEF Whole
          <5>1. PICK d \in Dones(stream) : d < j
            BY <3>2 DEF StepsInv
          <5>2. PICK e \in Dones(stream) : j < e
            BY <3>2 DEF StepsInv
          <5>3. d \in Int /\ e \in Int /\ j \in Int
            BY <3>3 DEF Dones, Whole
          <5> QED BY <3>4, <5>1, <5>2, <5>3
        <4>3. NextSlot(stream[i].slot) = timing_pos
          BY <3>2, <4>2 DEF StepsInv
        <4>4. NextSlot(timing_pos) # timing_pos
          <5>1. TimingRing \in Nat /\ TimingRing >= 2
            BY <4>1, ModelRunnerAssumption
          <5>2. CASE timing_pos = TimingRing - 1
            <6>1. NextSlot(timing_pos) = TimingRing % TimingRing
              BY <5>1, <5>2 DEF NextSlot
            <6>2. TimingRing % TimingRing = 0
              BY <5>1
            <6> QED BY <5>1, <5>2, <6>1, <6>2
          <5>3. CASE timing_pos # TimingRing - 1
            <6>1. timing_pos + 1 \in 0 .. TimingRing - 1
              BY <3>2, <5>1, <5>3
            <6>2. NextSlot(timing_pos) = timing_pos + 1
              BY <5>1, <6>1 DEF NextSlot
            <6> QED BY <3>2, <6>2
          <5> QED BY <5>2, <5>3
        <4> QED BY <4>3, <4>4
      <3>6. EndFired(timing_pos)
        <4>1. \A i \in On(stream, timing_pos) : ~stream[i].ends
          BY <3>5 DEF On, Whole
        <4> QED BY <1>1, <4>1, FiredMeans
      <3> QED BY <3>1, <3>6
    <2>3. CASE UpdateFromOutput \/ TriggerBackward \/ SendWork \/ BackwardDone
      BY <2>1, <2>3
         DEF UpdateFromOutput, TriggerBackward, SendWork, BackwardDone, ring_vars
    <2>4. CASE Gpu
      BY <2>1, <2>4 DEF Gpu, ExecCopy, ExecForward, ExecFinal, ExecZero, ExecDone,
                        Executes, ring_vars
    <2> QED BY <1>1, <2>2, <2>3, <2>4 DEF Next
  <1>2. TimingInv /\ [Next]_vars => [Settles]_vars
    BY <1>1
  <1> QED BY <1>2, TimingInvariant, PTL DEF Spec, SlotSettled

-----------------------------------------------------------------------------
(***************************************************************************)
(* The cached request states.                                              *)
(***************************************************************************)
\* The ids of the flights before, and of the one that joins them.
LEMMA JoinedIds ==
    ASSUME FlightType, NEW e, flights' = Append(flights, e)
    PROVE  UNION {flights'[i].ids : i \in DOMAIN flights'}
              = (UNION {flights[i].ids : i \in DOMAIN flights}) \union e.ids
  <1>1. /\ DOMAIN flights = 1 .. Len(flights) /\ Len(flights) \in Nat
        /\ DOMAIN flights' = 1 .. Len(flights) + 1
        /\ flights'[Len(flights) + 1] = e
        /\ \A i \in 1 .. Len(flights) : flights'[i] = flights[i]
    <2>1. /\ IsSeq(flights') /\ Len(flights') = Len(flights) + 1
          /\ flights'[Len(flights) + 1] = e
          /\ \A i \in 1 .. Len(flights) : flights'[i] = flights[i]
      BY AppendFacts DEF FlightType
    <2> QED BY <2>1, IsSeqFacts DEF FlightType
  <1>2. \A i : i \in DOMAIN flights' <=> i \in DOMAIN flights \/ i = Len(flights) + 1
    BY <1>1
  <1> QED BY <1>1, <1>2

\* With every input drained before the step is scheduled, the runner drops what
\* it has cached: an id is in flight, or stamped on the next output, until it is
\* dropped (scheduler.py's _retired_ft_ids; RetiredLost is the other case).
THEOREM NothingOrphaned ==
    ASSUME ~LateArrivals
    PROVE  Spec => []NoOrphanedState
  <1>1. ASSUME Init PROVE NoOrphanedState
    BY <1>1 DEF Init, NoOrphanedState
  <1>2. ASSUME TimingInv, NoOrphanedState, [Next]_vars
        PROVE  NoOrphanedState'
    <2> DEFINE ids == UNION {flights[i].ids : i \in DOMAIN flights}
    <2>1. FlightType
      BY <1>2 DEF TimingInv
    <2>2. cached \subseteq retired \union ids
      BY <1>2 DEF NoOrphanedState
    <2>3. ASSUME NEW batch, NEW discarded \in BOOLEAN, NEW e,
                 Begin(batch, discarded), flights' = Append(flights, e),
                 e.ids = FreshIds(batch)
          PROVE  NoOrphanedState'
      <3>1. ~discarded
        BY <1>2, <2>3 DEF Begin, MayDiscard
      <3>2. cached' = (cached \ retired) \union FreshIds(batch) /\ retired' = {}
        BY <2>3, <3>1 DEF Begin, Stamped
      <3>3. ids' = ids \union FreshIds(batch)
        BY <2>1, <2>3, JoinedIds
      <3> HIDE DEF ids
      <3>4. cached' \subseteq ids'
        BY <2>2, <3>2, <3>3
      <3> QED BY <3>4 DEF NoOrphanedState, ids
    <2>4. ASSUME NEW batch, NEW discarded \in BOOLEAN, NEW missed,
                 ForwardDone(batch, discarded, missed)
          PROVE  NoOrphanedState'
      <3> DEFINE e == [ids |-> FreshIds(batch), claims |-> {},
                       aborted |-> FALSE, done |-> FALSE]
      <3>1. /\ Begin(batch, discarded) /\ flights' = Append(flights, e)
            /\ e.ids = FreshIds(batch)
        BY <2>4 DEF ForwardDone
      <3> HIDE DEF e
      <3> QED BY <2>3, <3>1
    <2>5. ASSUME NEW batch, NEW discarded \in BOOLEAN, NEW points,
                 ForwardAborted(batch, discarded, points)
          PROVE  NoOrphanedState'
      <3> DEFINE e == [ids |-> FreshIds(batch), claims |-> ToSet(batch),
                       aborted |-> TRUE, done |-> TRUE]
      <3>1. /\ Begin(batch, discarded) /\ flights' = Append(flights, e)
            /\ e.ids = FreshIds(batch)
        BY <2>5 DEF ForwardAborted
      <3> HIDE DEF e
      <3> QED BY <2>3, <3>1
    <2>6. CASE UpdateFromOutput
      <3>1. /\ flights # <<>> /\ flights' = Tail(flights)
            /\ retired' = retired \union Head(flights).ids /\ cached' = cached
        BY <2>6 DEF UpdateFromOutput, RetiredBy
      <3>2. \A i \in DOMAIN flights :
               \/ flights[i] = Head(flights)
               \/ \E k \in DOMAIN flights' : flights'[k] = flights[i]
        <4>1. /\ Head(flights) = flights[1]
              /\ \A k \in DOMAIN flights :
                    k # 1 => k - 1 \in DOMAIN flights'
                             /\ flights'[k - 1] = flights[k]
          BY <2>1, <3>1, TailPlaces DEF FlightType
        <4> QED BY <4>1
      <3>3. ids \subseteq Head(flights).ids \union ids'
        BY <3>2
      <3> HIDE DEF ids
      <3>4. cached' \subseteq retired' \union ids'
        BY <2>2, <3>1, <3>3
      <3> QED BY <3>4 DEF NoOrphanedState, ids
    <2>7. CASE ExecDone
      <3>1. /\ cached' = cached /\ retired' = retired
            /\ \E i : flights' = [flights EXCEPT ![i].done = TRUE]
        BY <2>7 DEF ExecDone, Executes, state_vars
      <3>2. PICK i : flights' = [flights EXCEPT ![i].done = TRUE]
        BY <3>1
      <3>3. /\ DOMAIN flights' = DOMAIN flights
            /\ \A k \in DOMAIN flights : flights'[k].ids = flights[k].ids
        BY <2>1, <3>2 DEF FlightType
      <3> QED BY <1>2, <3>1, <3>3 DEF NoOrphanedState
    <2>8. CASE UNCHANGED <<flights, cached, retired>>
      BY <1>2, <2>8 DEF NoOrphanedState
    <2>9. CASE TriggerBackward \/ SendWork \/ BackwardDone \/ UNCHANGED vars
      BY <2>8, <2>9 DEF TriggerBackward, SendWork, BackwardDone, vars, host_vars,
                        state_vars
    <2>10. CASE ExecCopy \/ ExecForward \/ ExecFinal \/ ExecZero
      BY <2>8, <2>10 DEF ExecCopy, ExecForward, ExecFinal, ExecZero, Executes,
                         state_vars
    <2> QED BY <1>2, <2>4, <2>5, <2>6, <2>7, <2>9, <2>10 DEF Next, Gpu
  <1> QED BY <1>1, <1>2, TimingInvariant, PTL DEF Spec

-----------------------------------------------------------------------------
(***************************************************************************)
(* Induction over the naturals, and the least of some of them.             *)
(***************************************************************************)
\* Every set of naturals that is not empty has a least element.
LEMMA LeastNatural ==
  ASSUME NEW T \in SUBSET Nat, T # {}
  PROVE  \E x \in T : \A y \in T : x <= y
<1> DEFINE R == OpToRel(<, Nat)
<1>1. IsWellFoundedOn(R, Nat)
  BY NatLessThanWellFounded
<1>2. \A x, y \in Nat : x < y => <<x, y>> \in R
  BY DEF OpToRel
<1> HIDE DEF R
<1>3. PICK x \in T : \A y \in T : ~(<<y, x>> \in R)
  BY <1>1, WFMin
<1>4. \A y \in T : ~(y < x)
  BY <1>2, <1>3
<1> QED BY <1>3, <1>4

\* A set that has m and, with n, n + 1, has every natural from m on.
LEMMA Upward ==
  ASSUME NEW m \in Nat, NEW T, m \in T,
         \A n \in Nat : m <= n /\ n \in T => n + 1 \in T
  PROVE  \A n \in Nat : m <= n => n \in T
<1> DEFINE Bad == {n \in Nat : m <= n /\ n \notin T}
<1> SUFFICES ASSUME Bad # {} PROVE FALSE
  OBVIOUS
<1>1. Bad \in SUBSET Nat
  OBVIOUS
<1> HIDE DEF Bad
<1>2. PICK x \in Bad : \A y \in Bad : x <= y
  BY <1>1, LeastNatural
<1>3. x \in Nat /\ m <= x /\ x \notin T
  BY <1>2 DEF Bad
<1>4. x - 1 \in Nat /\ m <= x - 1 /\ (x - 1) + 1 = x
  BY <1>3
<1>5. x - 1 \notin T
  BY <1>3, <1>4
<1>6. x - 1 \in Bad
  BY <1>4, <1>5 DEF Bad
<1>7. ~(x <= x - 1)
  BY <1>3
<1> QED BY <1>2, <1>6, <1>7

-----------------------------------------------------------------------------
(***************************************************************************)
(* Sums.  SumFunctionOnSet adds the values of a function over a finite     *)
(* set, in an order nobody knows; the lemmas say that it does not matter.  *)
(***************************************************************************)
Pick(s) == CHOOSE x \in s : TRUE
SumStep(f, g, s) == IF s = {} THEN 0 ELSE f[Pick(s)] + g[s \ {Pick(s)}]
IsSum(f, S, g) == g = [s \in SUBSET S |-> SumStep(f, g, s)]

\* Induction over the subsets of a finite set: what holds of a set whenever it
\* holds of its proper subsets holds of all of them.
LEMMA SubsetInduction ==
  ASSUME NEW S, IsFiniteSet(S), NEW Good,
         \A T \in SUBSET S :
            (\A U \in SUBSET T : U # T => U \in Good) => T \in Good
  PROVE  SUBSET S \subseteq Good
<1> DEFINE R == StrictSubsetOrdering(S)
           F == FiniteSubsetsOf(S)
           Bad == (SUBSET S) \ Good
<1> SUFFICES ASSUME Bad # {} PROVE FALSE
  OBVIOUS
<1>1. IsWellFoundedOn(R, F)
  BY FS_StrictSubsetOrderingWellFounded
<1>2. Bad \subseteq F
  <2>1. \A T \in SUBSET S : IsFiniteSet(T)
    BY FS_Subset
  <2> QED BY <2>1 DEF FiniteSubsetsOf
<1>3. \A T, U \in SUBSET S : U \subseteq T /\ U # T => <<U, T>> \in R
  BY DEF StrictSubsetOrdering
<1> HIDE DEF R, F, Bad
<1>4. PICK T \in Bad : \A U \in Bad : ~(<<U, T>> \in R)
  BY <1>1, <1>2, WFMin
<1>5. T \in SUBSET S /\ T \notin Good
  BY <1>4 DEF Bad
<1>6. ASSUME NEW U \in SUBSET T, U # T PROVE U \in Good
  <2>1. U \in SUBSET S /\ <<U, T>> \in R
    BY <1>3, <1>5, <1>6
  <2> QED BY <1>4, <2>1 DEF Bad
<1> QED BY <1>5, <1>6

\* What the fold of the community modules computes.
LEMMA SumUnfold ==
  ASSUME NEW f, NEW S
  PROVE  SumFunctionOnSet(f, S) = (CHOOSE g : IsSum(f, S, g))[S]
  BY DEF SumFunctionOnSet, FoldFunctionOnSet, MapThenFoldSet, IsSum, SumStep,
         Pick

\* One step of it.
LEMMA SumAt ==
  ASSUME NEW f, NEW S, NEW g, IsSum(f, S, g), NEW s \in SUBSET S
  PROVE  /\ s = {} => g[s] = 0
         /\ s # {} => /\ Pick(s) \in s
                      /\ g[s] = f[Pick(s)] + g[s \ {Pick(s)}]
<1>1. g[s] = SumStep(f, g, s)
  BY DEF IsSum
<1> QED BY <1>1 DEF SumStep, Pick

\* Two computations agree on the sets both go through.
LEMMA SumAgree ==
  ASSUME NEW f, NEW S, NEW g, IsSum(f, S, g), NEW R, NEW h, IsSum(f, R, h),
         NEW s, IsFiniteSet(s), s \subseteq S, s \subseteq R
  PROVE  g[s] = h[s]
<1> DEFINE Good == {t \in SUBSET s : g[t] = h[t]}
<1>1. ASSUME NEW T \in SUBSET s, \A U \in SUBSET T : U # T => U \in Good
      PROVE  T \in Good
  <2>1. CASE T = {}
    BY <2>1, SumAt
  <2>2. CASE T # {}
    <3>1. /\ Pick(T) \in T
          /\ g[T] = f[Pick(T)] + g[T \ {Pick(T)}]
          /\ h[T] = f[Pick(T)] + h[T \ {Pick(T)}]
      BY <2>2, SumAt
    <3>2. T \ {Pick(T)} \in SUBSET T /\ T \ {Pick(T)} # T
      BY <3>1
    <3>3. g[T \ {Pick(T)}] = h[T \ {Pick(T)}]
      BY <1>1, <3>2
    <3> QED BY <3>1, <3>3
  <2> QED BY <2>1, <2>2
<1> HIDE DEF Good
<1>2. SUBSET s \subseteq Good
  BY <1>1, SubsetInduction
<1>3. s \in Good
  BY <1>2
<1> QED BY <1>3 DEF Good

\* The fold has a value.
LEMMA SumExists ==
  ASSUME NEW f, NEW S, IsFiniteSet(S)
  PROVE  \E g : IsSum(f, S, g)
<1> DEFINE Good == {s \in SUBSET S : \E g : IsSum(f, s, g)}
           G(s) == CHOOSE g : IsSum(f, s, g)
<1>1. ASSUME NEW T \in SUBSET S, \A U \in SUBSET T : U # T => U \in Good
      PROVE  T \in Good
  <2> DEFINE V(s) == G(s)[s]
             h == [s \in SUBSET T |->
                     IF s # T THEN V(s)
                     ELSE IF T = {} THEN 0 ELSE f[Pick(T)] + V(T \ {Pick(T)})]
  <2>1. \A U \in SUBSET T : U # T => IsSum(f, U, G(U)) /\ IsFiniteSet(U)
    <3>1. \A U \in SUBSET T : U # T => IsSum(f, U, G(U))
      BY <1>1
    <3>2. \A U \in SUBSET T : IsFiniteSet(U)
      BY FS_Subset
    <3> QED BY <3>1, <3>2
  <2> HIDE DEF G, Good
  <2>2. ASSUME NEW s \in SUBSET T PROVE h[s] = SumStep(f, h, s)
    <3>1. CASE s # T
      <4>1. h[s] = V(s) /\ IsSum(f, s, G(s))
        BY <2>1, <3>1
      <4>2. CASE s = {}
        <5>1. V(s) = 0
          BY <4>1, <4>2, SumAt
        <5> QED BY <4>1, <4>2, <5>1 DEF SumStep
      <4>3. CASE s # {}
        <5> DEFINE r == s \ {Pick(s)}
        <5>1. /\ Pick(s) \in s
              /\ V(s) = f[Pick(s)] + G(s)[r]
          BY <4>1, <4>3, SumAt
        <5>2. r \in SUBSET T /\ r # T /\ r \subseteq s
          BY <5>1
        <5>3. h[r] = V(r) /\ IsSum(f, r, G(r)) /\ IsFiniteSet(r)
          BY <2>1, <5>2
        <5> HIDE DEF r
        <5>4. G(s)[r] = G(r)[r]
          BY <4>1, <5>2, <5>3, SumAgree
        <5>5. SumStep(f, h, s) = f[Pick(s)] + h[r]
          BY <4>3 DEF SumStep, r
        <5> QED BY <4>1, <5>1, <5>3, <5>4, <5>5
      <4> QED BY <4>2, <4>3
    <3>2. CASE s = T
      <4>1. CASE T = {}
        BY <3>2, <4>1 DEF SumStep
      <4>2. CASE T # {}
        <5>1. Pick(T) \in T
          BY <4>2 DEF Pick
        <5>2. T \ {Pick(T)} \in SUBSET T /\ T \ {Pick(T)} # T
          BY <5>1
        <5>3. h[T \ {Pick(T)}] = V(T \ {Pick(T)})
          BY <5>2
        <5>4. h[s] = f[Pick(T)] + V(T \ {Pick(T)})
          BY <3>2, <4>2
        <5> QED BY <3>2, <4>2, <5>3, <5>4 DEF SumStep
      <4> QED BY <4>1, <4>2
    <3> QED BY <3>1, <3>2
  <2>3. IsSum(f, T, h)
    <3>1. h = [s \in SUBSET T |-> h[s]]
      OBVIOUS
    <3> HIDE DEF h
    <3> QED BY <2>2, <3>1 DEF IsSum
  <2> HIDE DEF h
  <2> QED BY <2>3 DEF Good
<1> HIDE DEF Good
<1>2. S \in Good
  <2>1. SUBSET S \subseteq Good
    BY <1>1, SubsetInduction
  <2> QED BY <2>1
<1> QED BY <1>2 DEF Good

\* The sum over the empty set, and over another one by the element the fold
\* happens to pick.
LEMMA SumRec ==
  ASSUME NEW f, NEW S, IsFiniteSet(S)
  PROVE  /\ S = {} => SumFunctionOnSet(f, S) = 0
         /\ S # {} => /\ Pick(S) \in S
                      /\ SumFunctionOnSet(f, S)
                           = f[Pick(S)] + SumFunctionOnSet(f, S \ {Pick(S)})
<1> DEFINE G(s) == CHOOSE g : IsSum(f, s, g)
           r == S \ {Pick(S)}
<1>1. r \subseteq S /\ IsFiniteSet(r)
  BY FS_Subset
<1>2. IsSum(f, S, G(S)) /\ IsSum(f, r, G(r))
  BY <1>1, SumExists
<1>3. /\ SumFunctionOnSet(f, S) = G(S)[S]
      /\ SumFunctionOnSet(f, r) = G(r)[r]
  BY SumUnfold
<1> HIDE DEF G
<1>4. G(S)[r] = G(r)[r]
  BY <1>1, <1>2, SumAgree
<1>5. /\ S = {} => G(S)[S] = 0
      /\ S # {} => Pick(S) \in S /\ G(S)[S] = f[Pick(S)] + G(S)[r]
  BY <1>2, SumAt, SMTT(30)
<1> QED BY <1>3, <1>4, <1>5

\* A sum of naturals is a natural.
LEMMA SumNat ==
  ASSUME NEW f, NEW S, IsFiniteSet(S), \A x \in S : f[x] \in Nat
  PROVE  SumFunctionOnSet(f, S) \in Nat
<1> DEFINE Good == {s \in SUBSET S : SumFunctionOnSet(f, s) \in Nat}
<1>1. ASSUME NEW T \in SUBSET S, \A U \in SUBSET T : U # T => U \in Good
      PROVE  T \in Good
  <2>1. IsFiniteSet(T)
    BY FS_Subset
  <2>2. CASE T = {}
    <3>1. SumFunctionOnSet(f, T) = 0
      BY <2>1, <2>2, SumRec
    <3> QED BY <3>1
  <2>3. CASE T # {}
    <3> DEFINE r == T \ {Pick(T)}
    <3>1. /\ Pick(T) \in T
          /\ SumFunctionOnSet(f, T) = f[Pick(T)] + SumFunctionOnSet(f, r)
      BY <2>1, <2>3, SumRec
    <3>2. r \in SUBSET T /\ r # T
      BY <3>1
    <3>3. SumFunctionOnSet(f, r) \in Nat
      BY <1>1, <3>2
    <3> HIDE DEF r
    <3> QED BY <3>1, <3>3
  <2> QED BY <2>2, <2>3
<1> HIDE DEF Good
<1>2. S \in Good
  <2>1. SUBSET S \subseteq Good
    BY <1>1, SubsetInduction
  <2> QED BY <2>1
<1> QED BY <1>2 DEF Good

\* The order does not matter: any element may be added first.
LEMMA SumRemove ==
  ASSUME NEW f, NEW S, IsFiniteSet(S), \A x \in S : f[x] \in Nat
  PROVE  \A x \in S : SumFunctionOnSet(f, S)
                        = f[x] + SumFunctionOnSet(f, S \ {x})
<1> DEFINE Good == {s \in SUBSET S :
                      \A x \in s : SumFunctionOnSet(f, s)
                                     = f[x] + SumFunctionOnSet(f, s \ {x})}
<1>1. ASSUME NEW T \in SUBSET S, \A U \in SUBSET T : U # T => U \in Good
      PROVE  T \in Good
  <2>1. IsFiniteSet(T)
    BY FS_Subset
  <2> SUFFICES ASSUME NEW x \in T
               PROVE  SumFunctionOnSet(f, T)
                        = f[x] + SumFunctionOnSet(f, T \ {x})
    OBVIOUS
  <2> DEFINE p == Pick(T)
             A == T \ {p}
             B == T \ {x}
             N == A \ {x}
  <2>2. /\ p \in T
        /\ SumFunctionOnSet(f, T) = f[p] + SumFunctionOnSet(f, A)
    BY <2>1, SumRec
  <2> HIDE DEF p
  <2>3. CASE p = x
    BY <2>2, <2>3
  <2>4. CASE p # x
    <3>1. /\ A \in SUBSET T /\ A # T /\ x \in A
          /\ B \in SUBSET T /\ B # T /\ p \in B
          /\ B \ {p} = N
      BY <2>2, <2>4
    <3>2. A \in Good /\ B \in Good
      BY <1>1, <3>1
    <3>3. SumFunctionOnSet(f, A) = f[x] + SumFunctionOnSet(f, N)
      BY <3>1, <3>2
    <3>4. SumFunctionOnSet(f, B) = f[p] + SumFunctionOnSet(f, N)
      BY <3>1, <3>2
    <3>5. SumFunctionOnSet(f, N) \in Nat
      <4>1. N \in SUBSET T /\ N \in SUBSET S
        OBVIOUS
      <4>2. IsFiniteSet(N)
        BY <4>1, FS_Subset
      <4> QED BY <4>1, <4>2, SumNat
    <3>6. f[p] \in Nat /\ f[x] \in Nat
      BY <2>2
    <3> HIDE DEF A, B, N
    <3> QED BY <2>2, <3>3, <3>4, <3>5, <3>6 DEF B
  <2> QED BY <2>3, <2>4
<1> HIDE DEF Good
<1>2. S \in Good
  <2>1. SUBSET S \subseteq Good
    BY <1>1, SubsetInduction
  <2> QED BY <2>1
<1> QED BY <1>2 DEF Good

\* The sum looks at the values on the set only.
LEMMA SumSame ==
  ASSUME NEW f, NEW g, NEW S, IsFiniteSet(S), \A x \in S : f[x] = g[x]
  PROVE  SumFunctionOnSet(f, S) = SumFunctionOnSet(g, S)
<1> DEFINE Good == {s \in SUBSET S :
                      SumFunctionOnSet(f, s) = SumFunctionOnSet(g, s)}
<1>1. ASSUME NEW T \in SUBSET S, \A U \in SUBSET T : U # T => U \in Good
      PROVE  T \in Good
  <2>1. IsFiniteSet(T)
    BY FS_Subset
  <2>2. CASE T = {}
    BY <2>1, <2>2, SumRec
  <2>3. CASE T # {}
    <3> DEFINE r == T \ {Pick(T)}
    <3>1. /\ Pick(T) \in T
          /\ SumFunctionOnSet(f, T) = f[Pick(T)] + SumFunctionOnSet(f, r)
          /\ SumFunctionOnSet(g, T) = g[Pick(T)] + SumFunctionOnSet(g, r)
      BY <2>1, <2>3, SumRec
    <3>2. r \in SUBSET T /\ r # T
      BY <3>1
    <3>3. SumFunctionOnSet(f, r) = SumFunctionOnSet(g, r)
      BY <1>1, <3>2
    <3> HIDE DEF r
    <3> QED BY <3>1, <3>3
  <2> QED BY <2>2, <2>3
<1> HIDE DEF Good
<1>2. S \in Good
  <2>1. SUBSET S \subseteq Good
    BY <1>1, SubsetInduction
  <2> QED BY <2>1
<1> QED BY <1>2 DEF Good

\* A function on the first n numbers is a queue.
LEMMA FunSeq ==
    ASSUME NEW n \in Nat, NEW g, DOMAIN g = 1 .. n, g = [k \in 1 .. n |-> g[k]]
    PROVE  IsSeq(g) /\ Len(g) = n
  <1> DEFINE T == {g[i] : i \in DOMAIN g}
  <1>1. g \in [1 .. n -> T]
    OBVIOUS
  <1>2. g \in Seq(T) /\ Len(g) = n
    <2> HIDE DEF T
    <2>1. g \in UNION {[1 .. m -> T] : m \in Nat}
      BY <1>1
    <2>2. g \in Seq(T)
      BY <2>1, SeqDef
    <2> QED BY <1>1, <2>2, LenProperties
  <1> QED BY <1>2 DEF IsSeq

\* A sum is that of a part and that of the rest.
LEMMA SumSplit ==
  ASSUME NEW f, NEW S, IsFiniteSet(S), \A x \in S : f[x] \in Nat, NEW T \in SUBSET S
  PROVE  /\ SumFunctionOnSet(f, S) = SumFunctionOnSet(f, T) + SumFunctionOnSet(f, S \ T)
         /\ SumFunctionOnSet(f, S) \in Nat /\ SumFunctionOnSet(f, T) \in Nat
         /\ SumFunctionOnSet(f, S \ T) \in Nat
<1> DEFINE Good == {s \in SUBSET S :
             SumFunctionOnSet(f, s) = SumFunctionOnSet(f, T \cap s) + SumFunctionOnSet(f, s \ T)}
<1>0. ASSUME NEW U \in SUBSET S PROVE IsFiniteSet(U) /\ SumFunctionOnSet(f, U) \in Nat
  <2>1. IsFiniteSet(U)
    BY FS_Subset
  <2> QED BY <2>1, SumNat
<1>1. ASSUME NEW W \in SUBSET S, \A U \in SUBSET W : U # W => U \in Good
      PROVE  W \in Good
  <2>1. CASE W = {}
    <3>1. SumFunctionOnSet(f, {}) = 0
      BY FS_EmptySet, SumRec
    <3>2. T \cap W = {} /\ W \ T = {}
      BY <2>1
    <3>3. SumFunctionOnSet(f, W) = SumFunctionOnSet(f, T \cap W) + SumFunctionOnSet(f, W \ T)
      BY <2>1, <3>1, <3>2
    <3> QED BY <3>3
  <2>2. CASE W # {}
    <3>1. PICK x \in W : TRUE
      BY <2>2
    <3> DEFINE r == W \ {x}
    <3>2. r \in SUBSET W /\ r # W /\ r \in SUBSET S /\ x \in S
      BY <3>1
    <3>3. SumFunctionOnSet(f, r) = SumFunctionOnSet(f, T \cap r) + SumFunctionOnSet(f, r \ T)
      BY <1>1, <3>2
    <3>4. SumFunctionOnSet(f, W) = f[x] + SumFunctionOnSet(f, r)
      BY <1>0, <3>1, SumRemove
    <3>5. /\ f[x] \in Nat
          /\ SumFunctionOnSet(f, T \cap r) \in Nat /\ SumFunctionOnSet(f, r \ T) \in Nat
      BY <1>0, <3>2
    <3>6. CASE x \in T
      <4>1. (T \cap W) \ {x} = T \cap r /\ W \ T = r \ T /\ x \in T \cap W
        BY <3>1, <3>6
      <4>2. SumFunctionOnSet(f, T \cap W) = f[x] + SumFunctionOnSet(f, (T \cap W) \ {x})
        BY <1>0, <4>1, SumRemove
      <4> HIDE DEF r
      <4>3. SumFunctionOnSet(f, W) = SumFunctionOnSet(f, T \cap W) + SumFunctionOnSet(f, W \ T)
        BY <3>3, <3>4, <3>5, <4>1, <4>2, SMTT(30)
      <4> QED BY <4>3
    <3>7. CASE x \notin T
      <4>1. T \cap W = T \cap r /\ (W \ T) \ {x} = r \ T /\ x \in W \ T
        BY <3>1, <3>7
      <4>2. SumFunctionOnSet(f, W \ T) = f[x] + SumFunctionOnSet(f, (W \ T) \ {x})
        BY <1>0, <4>1, SumRemove
      <4> HIDE DEF r
      <4>3. SumFunctionOnSet(f, W) = SumFunctionOnSet(f, T \cap W) + SumFunctionOnSet(f, W \ T)
        BY <3>3, <3>4, <3>5, <4>1, <4>2, SMTT(30)
      <4> QED BY <4>3
    <3> QED BY <3>6, <3>7
  <2> QED BY <2>1, <2>2
<1>2. SUBSET S \subseteq Good
  <2> HIDE DEF Good
  <2> QED BY <1>1, SubsetInduction
<1>3. S \in Good
  <2> HIDE DEF Good
  <2> QED BY <1>2
<1>4. T \cap S = T
  OBVIOUS
<1>5. SumFunctionOnSet(f, S) = SumFunctionOnSet(f, T) + SumFunctionOnSet(f, S \ T)
  BY <1>3, <1>4
<1>6. S \in SUBSET S /\ S \ T \in SUBSET S
  OBVIOUS
<1> QED BY <1>0, <1>5, <1>6

-----------------------------------------------------------------------------
(***************************************************************************)
(* Sequences joined end to end (FlattenSeq).                               *)
(***************************************************************************)
\* The first i of them joined, for each i up to n.
JoinedUpTo(s, n, g) ==
    g = [i \in 1 .. n |-> IF i = 1 THEN s[i] ELSE g[i - 1] \o s[i]]

\* It can be made, however many they are.
LEMMA JoinExists ==
    ASSUME NEW s
    PROVE  \A n \in Nat : \E g : JoinedUpTo(s, n, g)
  <1> DEFINE T == {n \in Nat : \E g : JoinedUpTo(s, n, g)}
  <1>1. 0 \in T
    <2> DEFINE g == [i \in 1 .. 0 |-> <<>>]
    <2>1. JoinedUpTo(s, 0, g)
      BY DEF JoinedUpTo
    <2> QED BY <2>1
  <1>2. ASSUME NEW n \in Nat, n \in T PROVE n + 1 \in T
    <2>1. PICK g : JoinedUpTo(s, n, g)
      BY <1>2
    <2> DEFINE more == IF n = 0 THEN s[n + 1] ELSE g[n] \o s[n + 1]
               h == [i \in 1 .. n + 1 |-> IF i <= n THEN g[i] ELSE more]
    <2>2. \A i \in 1 .. n : h[i] = g[i] /\ i \in 1 .. n + 1
      OBVIOUS
    <2>3. ASSUME NEW i \in 1 .. n + 1
          PROVE  h[i] = IF i = 1 THEN s[i] ELSE h[i - 1] \o s[i]
      <3>1. CASE i = n + 1
        <4>1. h[i] = more /\ (n # 0 => h[n] = g[n]) /\ i - 1 = n
          BY <2>2, <3>1
        <4>2. i = 1 <=> n = 0
          BY <3>1
        <4> HIDE DEF h
        <4> QED BY <3>1, <4>1, <4>2
      <3>2. CASE i # n + 1
        <4>1. i \in 1 .. n /\ (i = 1 \/ i - 1 \in 1 .. n)
          BY <3>2
        <4>2. h[i] = g[i] /\ (i # 1 => h[i - 1] = g[i - 1])
          BY <2>2, <4>1
        <4>3. g[i] = IF i = 1 THEN s[i] ELSE g[i - 1] \o s[i]
          BY <2>1, <4>1 DEF JoinedUpTo
        <4> HIDE DEF h
        <4> QED BY <4>2, <4>3
      <3> QED BY <3>1, <3>2
    <2>4. h = [i \in 1 .. n + 1 |-> h[i]]
      OBVIOUS
    <2> HIDE DEF h
    <2>5. JoinedUpTo(s, n + 1, h)
      BY <2>3, <2>4 DEF JoinedUpTo
    <2> QED BY <2>5
  <1> HIDE DEF T
  <1>3. \A n \in Nat : 0 <= n => n \in T
    <2>1. \A n \in Nat : 0 <= n /\ n \in T => n + 1 \in T
      BY <1>2
    <2>2. 0 \in Nat
      OBVIOUS
    <2> QED BY <1>1, <2>1, <2>2, Upward
  <1>4. \A n \in Nat : n \in T
    BY <1>3
  <1> QED BY <1>4 DEF T

\* Each step of it.
LEMMA JoinAt ==
    ASSUME NEW s, NEW n \in Nat, NEW g, JoinedUpTo(s, n, g)
    PROVE  \A i \in 1 .. n : g[i] = IF i = 1 THEN s[i] ELSE g[i - 1] \o s[i]
  BY DEF JoinedUpTo

\* The first k elements of two sequences.
SameUpTo(s, t, k) == \A i \in 1 .. k : s[i] = t[i]

\* What is joined up to a place depends on no more than is joined.
LEMMA JoinSame ==
    ASSUME NEW s, NEW n \in Nat, NEW g, JoinedUpTo(s, n, g),
           NEW t, NEW m \in Nat, NEW h, JoinedUpTo(t, m, h),
           NEW k \in Nat, k <= n, k <= m, SameUpTo(s, t, k)
    PROVE  SameUpTo(g, h, k)
  <1> USE DEF SameUpTo
  <1> DEFINE T == {i \in Nat : i <= k => g[i] = h[i]}
  <1>3. \A i \in 1 .. n : g[i] = IF i = 1 THEN s[i] ELSE g[i - 1] \o s[i]
    BY JoinAt
  <1>4. \A i \in 1 .. m : h[i] = IF i = 1 THEN t[i] ELSE h[i - 1] \o t[i]
    BY JoinAt
  <1>1. CASE k = 0
    BY <1>1
  <1>2. CASE k # 0
    <2>1. 1 \in T
      <3>1. 1 \in 1 .. n /\ 1 \in 1 .. m /\ 1 \in 1 .. k
        BY <1>2
      <3>2. g[1] = s[1] /\ h[1] = t[1]
        BY <3>1, <1>3, <1>4
      <3> QED BY <3>1, <3>2
    <2>2. ASSUME NEW i \in Nat, 1 <= i, i \in T PROVE i + 1 \in T
      <3> SUFFICES ASSUME i + 1 <= k PROVE g[i + 1] = h[i + 1]
        OBVIOUS
      <3>1. /\ i + 1 \in 1 .. n /\ i + 1 \in 1 .. m /\ i + 1 \in 1 .. k
            /\ i + 1 # 1 /\ (i + 1) - 1 = i
        BY <2>2
      <3>2. g[i + 1] = g[i] \o s[i + 1]
        BY <3>1, <1>3
      <3>3. h[i + 1] = h[i] \o t[i + 1]
        BY <3>1, <1>4
      <3>4. g[i] = h[i] /\ s[i + 1] = t[i + 1]
        BY <2>2, <3>1
      <3> QED BY <3>2, <3>3, <3>4
    <2> HIDE DEF T
    <2>3. \A i \in Nat : 1 <= i => i \in T
      <3>1. \A i \in Nat : 1 <= i /\ i \in T => i + 1 \in T
        BY <2>2
      <3>2. 1 \in Nat
        OBVIOUS
      <3> QED BY <2>1, <3>1, <3>2, Upward
    <2> QED BY <2>3 DEF T
  <1> QED BY <1>1, <1>2

\* What FlattenSeq computes.
LEMMA FlattenMeans ==
    ASSUME NEW s, IsSeq(s), s # <<>>, NEW n \in Nat, Len(s) <= n,
           NEW g, JoinedUpTo(s, n, g)
    PROVE  FlattenSeq(s) = g[Len(s)]
  <1> DEFINE k == Len(s)
             h == CHOOSE x : JoinedUpTo(s, k, x)
  <1>1. k \in Nat /\ k # 0 /\ k \in 1 .. k
    BY IsSeqFacts
  <1>2. FlattenSeq(s) = h[k]
    BY <1>1 DEF FlattenSeq, JoinedUpTo
  <1>3. JoinedUpTo(s, k, h)
    BY <1>1, JoinExists
  <1> HIDE DEF h, k
  <1>4. k <= k /\ SameUpTo(s, s, k)
    BY <1>1 DEF SameUpTo
  <1>5. k <= n
    BY DEF k
  <1>6. SameUpTo(h, g, k)
    BY <1>1, <1>3, <1>4, <1>5, JoinSame
  <1> QED BY <1>1, <1>2, <1>6 DEF k, SameUpTo

\* The last one is joined to the others.
LEMMA FlattenStep ==
    ASSUME NEW s, IsSeq(s), NEW t, IsSeq(t), Len(s) = Len(t) + 1,
           \A j \in 1 .. Len(t) : s[j] = t[j], IsSeq(s[Len(s)])
    PROVE  FlattenSeq(s) = FlattenSeq(t) \o s[Len(s)]
  <1> DEFINE k == Len(s)
             m == Len(t)
  <1>1. m \in Nat /\ k \in Nat /\ k = m + 1 /\ s # <<>> /\ k # 0 /\ k <= k
    BY IsSeqFacts
  <1>2. PICK g : JoinedUpTo(s, k, g)
    BY <1>1, JoinExists
  <1>3. FlattenSeq(s) = g[k]
    BY <1>1, <1>2, FlattenMeans
  <1>4. CASE m = 0
    <2>1. t = <<>> /\ FlattenSeq(t) = <<>>
      <3>1. t = <<>>
        BY <1>4, IsSeqFacts
      <3> QED BY <3>1, <1>4 DEF FlattenSeq
    <2>2. g[k] = s[k]
      <3>1. \A i \in 1 .. k : g[i] = IF i = 1 THEN s[i] ELSE g[i - 1] \o s[i]
        BY <1>1, <1>2, JoinAt
      <3> QED BY <3>1, <1>1, <1>4
    <2>3. <<>> \o s[k] = s[k]
      BY ConcatEmptySeq DEF IsSeq
    <2> QED BY <1>3, <2>1, <2>2, <2>3
  <1>5. CASE m # 0
    <2>1. PICK h : JoinedUpTo(t, m, h)
      BY <1>1, JoinExists
    <2>2. t # <<>> /\ m <= m /\ m <= k /\ m \in 1 .. m
      BY <1>1, <1>5, IsSeqFacts
    <2>3. FlattenSeq(t) = h[m]
      BY <1>1, <2>1, <2>2, FlattenMeans
    <2> HIDE DEF k, m
    <2>4. SameUpTo(s, t, m)
      BY DEF m, SameUpTo
    <2>5. SameUpTo(g, h, m)
      <3>1. k \in Nat /\ m \in Nat /\ m <= k /\ m <= m
        BY <1>1, <2>2
      <3> QED BY <1>2, <2>1, <2>4, <3>1, JoinSame
    <2>6. k \in 1 .. k /\ k # 1 /\ k - 1 = m
      BY <1>1, <1>5
    <2>7. g[k] = g[k - 1] \o s[k]
      <3>1. \A i \in 1 .. k : g[i] = IF i = 1 THEN s[i] ELSE g[i - 1] \o s[i]
        BY <1>1, <1>2, JoinAt
      <3> QED BY <3>1, <2>6
    <2> QED BY <1>3, <2>2, <2>3, <2>5, <2>6, <2>7 DEF k, SameUpTo
  <1> QED BY <1>4, <1>5

\* Induction over the sequences of a set, from the end.
LEMMA SeqInduction ==
    ASSUME NEW R, NEW Good, <<>> \in Good,
           \A b \in Seq(R), r \in R : b \in Good => Append(b, r) \in Good
    PROVE  Seq(R) \subseteq Good
  <1> DEFINE T == {n \in Nat : \A b \in Seq(R) : Len(b) = n => b \in Good}
  <1>1. 0 \in T
    <2>1. ASSUME NEW b \in Seq(R), Len(b) = 0 PROVE b = <<>>
      BY <2>1, EmptySeq
    <2> QED BY <2>1
  <1>2. ASSUME NEW n \in Nat, n \in T PROVE n + 1 \in T
    <2> SUFFICES ASSUME NEW b \in Seq(R), Len(b) = n + 1 PROVE b \in Good
      OBVIOUS
    <2>1. b # <<>>
      BY EmptySeq
    <2>2. PICK s \in Seq(R), e \in R : b = Append(s, e)
      BY <2>1, SequenceEmptyOrAppend
    <2>3. Len(b) = Len(s) + 1 /\ Len(s) \in Nat
      BY <2>2, AppendProperties, LenProperties
    <2>4. s \in Good
      BY <1>2, <2>3
    <2> QED BY <2>2, <2>4
  <1> HIDE DEF T
  <1>3. \A n \in Nat : 0 <= n => n \in T
    <2>1. \A n \in Nat : 0 <= n /\ n \in T => n + 1 \in T
      BY <1>2
    <2>2. 0 \in Nat
      OBVIOUS
    <2> QED BY <1>1, <2>1, <2>2, Upward
  <1> SUFFICES ASSUME NEW b \in Seq(R) PROVE b \in Good
    OBVIOUS
  <1>4. Len(b) \in Nat /\ 0 <= Len(b)
    BY LenProperties
  <1>5. Len(b) \in T
    BY <1>3, <1>4
  <1> QED BY <1>5 DEF T

\* A sequence of a set, and what is at its places.
LEMMA TypedSeq ==
    ASSUME NEW R, NEW s \in Seq(R)
    PROVE  /\ IsSeq(s) /\ Len(s) \in Nat /\ DOMAIN s = 1 .. Len(s)
           /\ \A k \in 1 .. Len(s) : s[k] \in R
  <1>1. Len(s) \in Nat /\ DOMAIN s = 1 .. Len(s) /\ s \in [1 .. Len(s) -> R]
    BY LenProperties
  <1> DEFINE T == {s[i] : i \in DOMAIN s}
  <1>2. s \in [1 .. Len(s) -> T]
    BY <1>1
  <1>3. s \in UNION {[1 .. n -> T] : n \in Nat}
    BY <1>1, <1>2
  <1> HIDE DEF T
  <1>4. s \in Seq(T)
    BY <1>3, SeqDef
  <1> QED BY <1>1, <1>4 DEF T, IsSeq

\* What is appended to a sequence of sequences is joined to the others.
LEMMA FlattenAppend ==
    ASSUME NEW V, NEW s \in Seq(Seq(V)), NEW e \in Seq(V)
    PROVE  FlattenSeq(Append(s, e)) = FlattenSeq(s) \o e
  <1> DEFINE a == Append(s, e)
             X == Seq(V)
  <1>1. /\ a \in Seq(X) /\ Len(a) = Len(s) + 1 /\ a[Len(s) + 1] = e
        /\ \A j \in 1 .. Len(s) : a[j] = s[j]
    <2> HIDE DEF X
    <2>1. s \in Seq(X) /\ e \in X
      BY DEF X
    <2> QED BY <2>1, AppendProperties
  <1>2. IsSeq(a) /\ IsSeq(s) /\ IsSeq(e)
    <2> HIDE DEF X, a
    <2>1. IsSeq(a)
      BY <1>1, TypedSeq
    <2>2. s \in Seq(X)
      BY DEF X
    <2>3. IsSeq(s)
      BY <2>2, TypedSeq
    <2>4. IsSeq(e)
      BY TypedSeq
    <2> QED BY <2>1, <2>3, <2>4
  <1> HIDE DEF a, X
  <1>3. a[Len(a)] = e
    BY <1>1
  <1>4. IsSeq(a[Len(a)])
    BY <1>2, <1>3
  <1>5. \A j \in 1 .. Len(s) : a[j] = s[j]
    BY <1>1
  <1>6. Len(a) = Len(s) + 1
    BY <1>1
  <1>7. FlattenSeq(a) = FlattenSeq(s) \o a[Len(a)]
    BY <1>2, <1>4, <1>5, <1>6, FlattenStep
  <1> QED BY <1>3, <1>7 DEF a

\* Of no sequences, nothing is joined.
LEMMA FlattenEmpty == FlattenSeq(<<>>) = <<>>
  BY EmptySeq DEF FlattenSeq

Members(t) == {t[m] : m \in 1 .. Len(t)}

\* The joined sequences are one of what they hold, and all of it.
LEMMA FlattenFacts ==
    ASSUME NEW V
    PROVE  \A s \in Seq(Seq(V)) :
              /\ FlattenSeq(s) \in Seq(V)
              /\ Members(FlattenSeq(s)) = UNION {Members(s[i]) : i \in 1 .. Len(s)}
  <1> USE DEF Members
  <1> DEFINE All(s) == UNION {{s[i][k] : k \in 1 .. Len(s[i])} : i \in 1 .. Len(s)}
             Held(t) == {t[m] : m \in 1 .. Len(t)}
             Good == {s \in Seq(Seq(V)) : FlattenSeq(s) \in Seq(V)
                                          /\ Held(FlattenSeq(s)) = All(s)}
             X == Seq(V)
  <1>1. <<>> \in Good
    <2>1. <<>> \in Seq(X) /\ <<>> \in Seq(V) /\ Len(<<>>) = 0
      BY EmptySeq
    <2>2. Held(<<>>) = {} /\ All(<<>>) = {}
      BY <2>1
    <2> QED BY <2>1, <2>2, FlattenEmpty
  <1>2. ASSUME NEW s \in Seq(X), NEW e \in X, s \in Good
        PROVE  Append(s, e) \in Good
    <2> DEFINE a == Append(s, e)
               f == FlattenSeq(s)
               g == f \o e
    <2>1. /\ a \in Seq(X) /\ Len(a) = Len(s) + 1 /\ a[Len(s) + 1] = e
          /\ \A j \in 1 .. Len(s) : a[j] = s[j]
      <3> HIDE DEF X
      <3> QED BY AppendProperties
    <2>2. Len(s) \in Nat
      <3> HIDE DEF X
      <3> QED BY LenProperties
    <2>3. FlattenSeq(a) = g
      BY FlattenAppend
    <2>4. f \in Seq(V) /\ Held(f) = All(s)
      BY <1>2
    <2>5. /\ g \in Seq(V) /\ Len(g) = Len(f) + Len(e)
          /\ \A i \in 1 .. Len(f) + Len(e) :
                g[i] = IF i <= Len(f) THEN f[i] ELSE e[i - Len(f)]
      <3> HIDE DEF f
      <3> QED BY <2>4, ConcatProperties
    <2>6. Len(f) \in Nat /\ Len(e) \in Nat
      <3> HIDE DEF f
      <3> QED BY <2>4, LenProperties
    <2> HIDE DEF f, g, a, Good, X
    <2>7. Held(g) = Held(f) \union Held(e)
      <3>1. ASSUME NEW i \in 1 .. Len(g) PROVE g[i] \in Held(f) \union Held(e)
        <4>1. CASE i <= Len(f)
          <5>1. i \in 1 .. Len(f) /\ g[i] = f[i]
            BY <2>5, <2>6, <4>1
          <5> QED BY <5>1
        <4>2. CASE ~(i <= Len(f))
          <5>1. i - Len(f) \in 1 .. Len(e) /\ g[i] = e[i - Len(f)]
            BY <2>5, <2>6, <4>2
          <5> QED BY <5>1
        <4> QED BY <4>1, <4>2
      <3>2. ASSUME NEW i \in 1 .. Len(f) PROVE f[i] \in Held(g)
        <4>1. i \in 1 .. Len(g) /\ g[i] = f[i]
          BY <2>5, <2>6
        <4> QED BY <4>1
      <3>3. ASSUME NEW i \in 1 .. Len(e) PROVE e[i] \in Held(g)
        <4>1. /\ Len(f) + i \in 1 .. Len(g) /\ ~(Len(f) + i <= Len(f))
              /\ (Len(f) + i) - Len(f) = i
          BY <2>5, <2>6
        <4>2. g[Len(f) + i] = e[i]
          BY <2>5, <4>1
        <4> QED BY <4>1, <4>2
      <3> QED BY <3>1, <3>2, <3>3
    <2>8. All(a) = All(s) \union Held(e)
      <3> DEFINE H(i) == {s[i][k] : k \in 1 .. Len(s[i])}
                 K(i) == {a[i][k] : k \in 1 .. Len(a[i])}
                 n == Len(s)
      <3>1. \A i \in 1 .. n : K(i) = H(i)
        BY <2>1
      <3>2. K(n + 1) = Held(e)
        BY <2>1
      <3>3. All(s) = UNION {H(i) : i \in 1 .. n} /\ All(a) = UNION {K(i) : i \in 1 .. n + 1}
        BY <2>1
      <3>4. \A i : i \in 1 .. n + 1 <=> i \in 1 .. n \/ i = n + 1
        BY <2>2
      <3> HIDE DEF H, K, n, Held, All
      <3> QED BY <3>1, <3>2, <3>3, <3>4
    <2>9. Held(g) = All(a)
      BY <2>4, <2>7, <2>8
    <2>10. FlattenSeq(a) \in Seq(V) /\ Held(FlattenSeq(a)) = All(a)
      BY <2>3, <2>5, <2>9
    <2>11. a \in Seq(Seq(V))
      BY <2>1 DEF X
    <2> HIDE DEF Held, All
    <2> QED BY <2>10, <2>11 DEF Good, a
  <1>3. Seq(X) \subseteq Good
    <2> HIDE DEF Good, X
    <2> QED BY <1>1, <1>2, SeqInduction
  <1> QED BY <1>3

-----------------------------------------------------------------------------
(***************************************************************************)
(* The tokens of a batch.                                                  *)
(***************************************************************************)
Requests == Samples \union {Inference}

\* A request's tokens, in order: some, and as many as it is long.
LEMMA TokensFacts ==
    ASSUME NEW Q \in SUBSET Requests, NEW r \in Q
    PROVE  /\ LengthOf(r) \in Nat \ {0} /\ TokensOf(r) \in Seq(Q \X Nat)
           /\ Len(TokensOf(r)) = LengthOf(r)
  <1>1. LengthOf(r) \in Nat \ {0}
    BY ModelRunnerAssumption DEF LengthOf, Requests
  <1> DEFINE n == LengthOf(r)
             V == Q \X Nat
             t == TokensOf(r)
  <1>2. n \in Nat /\ t = [k \in 1 .. n |-> <<r, k>>] /\ \A k \in 1 .. n : <<r, k>> \in V
    BY <1>1 DEF TokensOf
  <1> HIDE DEF n, V, t
  <1>3. t \in [1 .. n -> V]
    BY <1>2
  <1>4. t \in UNION {[1 .. m -> V] : m \in Nat}
    BY <1>2, <1>3
  <1>5. t \in Seq(V)
    BY <1>4, SeqDef
  <1>6. DOMAIN t = 1 .. Len(t) /\ Len(t) \in Nat
    BY <1>5, LenProperties
  <1>7. DOMAIN t = 1 .. n
    BY <1>3
  <1>8. Len(t) = n
    BY <1>2, <1>6, <1>7
  <1> QED BY <1>1, <1>5, <1>8 DEF n, V, t

\* The tokens of each request of a batch.
Parts(b) == [i \in DOMAIN b |-> TokensOf(b[i])]

\* A batch has as many parts as requests.
LEMMA PartsFacts ==
    ASSUME NEW Q \in SUBSET Requests, NEW b \in Seq(Q)
    PROVE  /\ Parts(b) \in Seq(Seq(Q \X Nat)) /\ Len(Parts(b)) = Len(b)
           /\ \A i \in 1 .. Len(b) : Parts(b)[i] = TokensOf(b[i])
  <1> DEFINE n == Len(b)
             X == Seq(Q \X Nat)
             t == Parts(b)
  <1>1. n \in Nat /\ DOMAIN b = 1 .. n /\ \A i \in 1 .. n : b[i] \in Q
    BY TypedSeq
  <1>2. \A i \in 1 .. n : TokensOf(b[i]) \in X
    BY <1>1, TokensFacts
  <1>3. t = [i \in 1 .. n |-> TokensOf(b[i])]
    BY <1>1 DEF Parts
  <1> HIDE DEF n, X, t
  <1>4. t \in [1 .. n -> X]
    BY <1>2, <1>3
  <1>5. t \in UNION {[1 .. m -> X] : m \in Nat}
    BY <1>1, <1>4
  <1>6. t \in Seq(X)
    BY <1>5, SeqDef
  <1>7. DOMAIN t = 1 .. Len(t) /\ Len(t) \in Nat
    BY <1>6, LenProperties
  <1>8. DOMAIN t = 1 .. n
    BY <1>4
  <1>9. Len(t) = n
    <2>1. 1 .. Len(t) = 1 .. n /\ n \in Nat /\ Len(t) \in Nat
      BY <1>1, <1>7, <1>8
    <2> QED BY <2>1
  <1>10. \A i \in 1 .. n : t[i] = TokensOf(b[i])
    BY <1>3
  <1> QED BY <1>6, <1>9, <1>10 DEF n, X, t

\* A batch of none has no tokens.
LEMMA FlatEmpty == Flat(<<>>) = <<>>
  <1>1. <<>> \in Seq(Samples)
    BY EmptySeq
  <1>2. Parts(<<>>) = <<>>
    BY DEF Parts
  <1>3. Flat(<<>>) = FlattenSeq(Parts(<<>>))
    BY DEF Flat, Parts
  <1> QED BY <1>2, <1>3, FlattenEmpty

\* A request's tokens come behind those before it.
LEMMA FlatAppend ==
    ASSUME NEW Q \in SUBSET Requests, NEW b \in Seq(Q), NEW r \in Q
    PROVE  Flat(Append(b, r)) = Flat(b) \o TokensOf(r)
  <1> DEFINE a == Append(b, r)
             n == Len(b)
             V == Q \X Nat
  <1>1. /\ a \in Seq(Q) /\ Len(a) = n + 1 /\ a[n + 1] = r /\ n \in Nat
        /\ \A j \in 1 .. n : a[j] = b[j]
    BY AppendProperties, LenProperties
  <1> HIDE DEF a
  <1>2. /\ Parts(a) \in Seq(Seq(V)) /\ Len(Parts(a)) = Len(a)
        /\ \A i \in 1 .. Len(a) : Parts(a)[i] = TokensOf(a[i])
    BY <1>1, PartsFacts
  <1>3. /\ Parts(b) \in Seq(Seq(V)) /\ Len(Parts(b)) = Len(b)
        /\ \A i \in 1 .. Len(b) : Parts(b)[i] = TokensOf(b[i])
    BY PartsFacts
  <1>4. TokensOf(r) \in Seq(V)
    BY TokensFacts
  <1> HIDE DEF V
  <1> DEFINE X == Seq(V)
             p == Parts(b)
             q == Parts(a)
             e == TokensOf(r)
             c == Append(p, e)
  <1>5. p \in Seq(X) /\ q \in Seq(X) /\ e \in X
    BY <1>2, <1>3, <1>4
  <1>6. Len(p) = n /\ Len(q) = n + 1
    BY <1>1, <1>2, <1>3
  <1>7. q[n + 1] = e
    <2>1. n + 1 \in 1 .. Len(a)
      BY <1>1
    <2> QED BY <2>1, <1>1, <1>2
  <1>8. \A i \in 1 .. n : q[i] = p[i]
    <2>1. \A i \in 1 .. n : i \in 1 .. Len(a)
      BY <1>1
    <2> QED BY <2>1, <1>1, <1>2, <1>3
  <1> HIDE DEF X, p, q, e
  <1>9. /\ c \in Seq(X) /\ Len(c) = n + 1 /\ c[n + 1] = e
        /\ \A j \in 1 .. n : c[j] = p[j]
    <2>1. /\ c \in Seq(X) /\ Len(c) = Len(p) + 1 /\ c[Len(p) + 1] = e
          /\ \A j \in 1 .. Len(p) : c[j] = p[j]
      BY <1>5, AppendProperties
    <2> QED BY <2>1, <1>6
  <1> HIDE DEF c
  <1>10. q = c
    <2>1. \A i \in 1 .. Len(q) : q[i] = c[i]
      <3> SUFFICES ASSUME NEW i \in 1 .. n + 1 PROVE q[i] = c[i]
        BY <1>6
      <3>1. i \in 1 .. n \/ i = n + 1
        BY <1>1
      <3> QED BY <3>1, <1>7, <1>8, <1>9
    <2>2. Len(q) = Len(c)
      BY <1>6, <1>9
    <2>3. q \in Seq(X) /\ c \in Seq(X)
      BY <1>5, <1>9
    <2> QED BY <2>1, <2>2, <2>3, SeqEqual
  <1>11. FlattenSeq(c) = FlattenSeq(p) \o e
    <2>1. p \in Seq(Seq(V)) /\ e \in Seq(V)
      BY <1>5 DEF X
    <2> QED BY <2>1, FlattenAppend DEF c
  <1>12. Flat(a) = FlattenSeq(q) /\ Flat(b) = FlattenSeq(p)
    BY DEF Flat, Parts, p, q
  <1> QED BY <1>10, <1>11, <1>12 DEF a, e

\* Each token of a batch is one of a request of it.
LEMMA FlatType ==
    ASSUME NEW Q \in SUBSET Requests, NEW b \in Seq(Q)
    PROVE  Flat(b) \in Seq(Q \X Nat)
  <1>1. Parts(b) \in Seq(Seq(Q \X Nat))
    BY PartsFacts
  <1>2. FlattenSeq(Parts(b)) \in Seq(Q \X Nat)
    BY <1>1, FlattenFacts
  <1> QED BY <1>2 DEF Flat, Parts

\* Of two batches in a row.
LEMMA FlatConcat ==
    ASSUME NEW b \in Seq(Requests), NEW c \in Seq(Requests)
    PROVE  Flat(b \o c) = Flat(b) \o Flat(c)
  <1> DEFINE V == Requests \X Nat
             Good == {d \in Seq(Requests) : Flat(b \o d) = Flat(b) \o Flat(d)}
  <1>1. Flat(b) \in Seq(V)
    BY FlatType
  <1> HIDE DEF V
  <1>2. <<>> \in Good
    <2>1. b \o <<>> = b /\ Flat(b) \o <<>> = Flat(b) /\ <<>> \in Seq(Requests)
      BY <1>1, ConcatEmptySeq, EmptySeq
    <2> QED BY <2>1, FlatEmpty
  <1>3. ASSUME NEW d \in Seq(Requests), NEW r \in Requests, d \in Good
        PROVE  Append(d, r) \in Good
    <2>1. /\ Append(d, r) \in Seq(Requests) /\ Append(d, r) = d \o <<r>>
          /\ b \o d \in Seq(Requests) /\ <<r>> \in Seq(Requests)
      BY AppendProperties, AppendIsConcat, ConcatProperties
    <2>2. Append(b \o d, r) = (b \o d) \o <<r>>
      BY <2>1, AppendIsConcat
    <2>3. b \o Append(d, r) = Append(b \o d, r)
      BY <2>1, <2>2, ConcatAssociative
    <2>4. Flat(Append(b \o d, r)) = Flat(b \o d) \o TokensOf(r)
      BY <2>1, FlatAppend
    <2>5. Flat(Append(d, r)) = Flat(d) \o TokensOf(r)
      BY FlatAppend
    <2>6. Flat(d) \in Seq(V) /\ TokensOf(r) \in Seq(V)
      BY FlatType, TokensFacts DEF V
    <2>7. (Flat(b) \o Flat(d)) \o TokensOf(r) = Flat(b) \o (Flat(d) \o TokensOf(r))
      BY <1>1, <2>6, ConcatAssociative
    <2>8. Flat(b \o d) = Flat(b) \o Flat(d)
      BY <1>3
    <2>9. Flat(b \o Append(d, r)) = Flat(b) \o Flat(Append(d, r))
      BY <2>3, <2>4, <2>5, <2>7, <2>8
    <2> QED BY <2>1, <2>9
  <1> HIDE DEF Good
  <1>4. Seq(Requests) \subseteq Good
    BY <1>2, <1>3, SeqInduction
  <1> QED BY <1>4 DEF Good

-----------------------------------------------------------------------------
(***************************************************************************)
(* What is left of a sequence when the inference request's part is left    *)
(* out of it.                                                              *)
(***************************************************************************)
\* The first m positions but one, in order.
LEMMA InOrderSkips ==
    ASSUME NEW m \in Nat, NEW g \in Nat \ {0}
    PROVE  InOrder((1 .. m) \ {g}) =
              [k \in 1 .. (IF g <= m THEN m - 1 ELSE m) |-> IF k < g THEN k ELSE k + 1]
  <1> DEFINE M == (1 .. m) \ {g}
             n == IF g <= m THEN m - 1 ELSE m
             Rank(i) == Cardinality({j \in M : j <= i})
  <1>1. ASSUME NEW i \in 1 .. m
        PROVE  Cardinality((1 .. i) \ {g}) = IF g <= i THEN i - 1 ELSE i
    <2>1. IsFiniteSet(1 .. i) /\ Cardinality(1 .. i) = i
      BY FS_Interval
    <2>2. Cardinality((1 .. i) \ {g}) = IF g \in 1 .. i THEN Cardinality(1 .. i) - 1
                                        ELSE Cardinality(1 .. i)
      BY <2>1, FS_RemoveElement
    <2>3. g \in 1 .. i <=> g <= i
      OBVIOUS
    <2> QED BY <2>1, <2>2, <2>3
  <1>2. Cardinality(M) = n
    <2>1. CASE m = 0
      <3>1. M = {} /\ n = 0
        BY <2>1
      <3> HIDE DEF M, n
      <3> QED BY <3>1, FS_EmptySet
    <2>2. CASE m # 0
      <3>1. m \in 1 .. m
        BY <2>2
      <3> QED BY <3>1, <1>1
    <2> QED BY <2>1, <2>2
  <1>3. ASSUME NEW i \in M PROVE Rank(i) = IF g <= i THEN i - 1 ELSE i
    <2>1. {j \in M : j <= i} = (1 .. i) \ {g}
      OBVIOUS
    <2> QED BY <1>1, <2>1
  <1>4. ASSUME NEW k \in 1 .. n
        PROVE  (CHOOSE i \in M : Rank(i) = k) = IF k < g THEN k ELSE k + 1
    <2> DEFINE c == IF k < g THEN k ELSE k + 1
    <2>1. c \in M /\ (IF g <= c THEN c - 1 ELSE c) = k
      OBVIOUS
    <2>2. Rank(c) = k
      BY <1>3, <2>1
    <2>3. \A i \in M : Rank(i) = k => i = c
      <3> SUFFICES ASSUME NEW i \in M, Rank(i) = k PROVE i = c
        OBVIOUS
      <3>1. k = IF g <= i THEN i - 1 ELSE i
        BY <1>3
      <3>2. i # g /\ i \in Nat
        OBVIOUS
      <3> HIDE DEF Rank, M, n
      <3> QED BY <3>1, <3>2
    <2> HIDE DEF Rank, M, c
    <2>4. (CHOOSE i \in M : Rank(i) = k) = c
      BY <2>1, <2>2, <2>3
    <2> QED BY <2>4 DEF c
  <1>5. InOrder(M) = [k \in 1 .. Cardinality(M) |-> CHOOSE i \in M : Rank(i) = k]
    BY DEF InOrder
  <1> HIDE DEF M, n, Rank
  <1>6. InOrder(M) = [k \in 1 .. n |-> IF k < g THEN k ELSE k + 1]
    BY <1>2, <1>4, <1>5
  <1> QED BY <1>6 DEF M, n

\* x alone, or x and y around z.
Around(f, x, z, y) == (f = x /\ y = <<>>) \/ f = (x \o <<z>>) \o y

\* Where its elements are then.
PlacedAround(f, x, z, y) ==
    /\ Len(x) \in Nat /\ Len(y) \in Nat
    /\ \/ Len(f) = Len(x) /\ Len(y) = 0
       \/ Len(f) = Len(x) + 1 + Len(y) /\ f[Len(x) + 1] = z
    /\ \A k \in 1 .. Len(x) : f[k] = x[k]
    /\ \A k \in 1 .. Len(y) : f[Len(x) + 1 + k] = y[k]

\* The parts are where they should be.
LEMMA AroundFacts ==
    ASSUME NEW V, NEW x \in Seq(V), NEW y \in Seq(V), NEW z, NEW f, Around(f, x, z, y)
    PROVE  f \in Seq(V \union {z}) /\ PlacedAround(f, x, z, y)
  <1> USE DEF PlacedAround
  <1> DEFINE W == V \union {z}
             l == Len(x)
             r == Len(y)
  <1>1. l \in Nat /\ r \in Nat /\ x \in Seq(W) /\ y \in Seq(W)
    <2>1. V \subseteq W
      OBVIOUS
    <2> HIDE DEF W
    <2> QED BY <2>1, LenProperties, SeqMonotonic
  <1>2. CASE f = x /\ y = <<>>
    <2>1. r = 0
      BY <1>2
    <2> QED BY <1>1, <1>2, <2>1
  <1>3. CASE f = (x \o <<z>>) \o y
    <2> DEFINE c == x \o <<z>>
               o == <<z>>
               d == c \o y
    <2>1. o \in Seq(W) /\ Len(o) = 1 /\ o[1] = z
      OBVIOUS
    <2> HIDE DEF o, W
    <2>2. /\ c \in Seq(W) /\ Len(c) = l + 1
          /\ \A k \in 1 .. l : c[k] = x[k]
          /\ c[l + 1] = z
      <3>1. /\ x \o o \in Seq(W) /\ Len(x \o o) = Len(x) + Len(o)
            /\ \A i \in 1 .. Len(x) + Len(o) :
                  (x \o o)[i] = IF i <= Len(x) THEN x[i] ELSE o[i - Len(x)]
        BY <1>1, <2>1, ConcatProperties
      <3>2. x \o o = c
        BY DEF o
      <3> HIDE DEF c, l
      <3>3. /\ Len(c) = l + 1
            /\ \A i \in 1 .. l + 1 : c[i] = IF i <= l THEN x[i] ELSE o[i - l]
        BY <2>1, <3>1, <3>2 DEF l
      <3>4. c[l + 1] = o[1]
        BY <3>3, <1>1
      <3> QED BY <3>1, <3>2, <3>3, <3>4, <1>1, <2>1
    <2> HIDE DEF c
    <2>3. /\ d \in Seq(W) /\ Len(d) = Len(c) + r
          /\ \A i \in 1 .. Len(c) + r : d[i] = IF i <= Len(c) THEN c[i] ELSE y[i - Len(c)]
      BY <1>1, <2>2, ConcatProperties
    <2>4. f = d
      BY <1>3 DEF c
    <2> HIDE DEF d, l, r
    <2>5. /\ Len(d) = l + 1 + r
          /\ \A i \in 1 .. l + 1 + r : d[i] = IF i <= l + 1 THEN c[i] ELSE y[i - (l + 1)]
      BY <1>1, <2>2, <2>3
    <2>6. \A k \in 1 .. l : d[k] = x[k]
      BY <1>1, <2>2, <2>5
    <2>7. d[l + 1] = z
      BY <1>1, <2>2, <2>5
    <2>8. \A k \in 1 .. r : d[l + 1 + k] = y[k]
      <3> SUFFICES ASSUME NEW k \in 1 .. r PROVE d[l + 1 + k] = y[k]
        OBVIOUS
      <3>1. l + 1 + k \in 1 .. l + 1 + r /\ ~(l + 1 + k <= l + 1) /\ (l + 1 + k) - (l + 1) = k
        BY <1>1
      <3>2. d[l + 1 + k] = y[(l + 1 + k) - (l + 1)]
        BY <2>5, <3>1
      <3> QED BY <3>1, <3>2
    <2> QED BY <1>1, <2>3, <2>4, <2>5, <2>6, <2>7, <2>8 DEF W, l, r
  <1> QED BY <1>2, <1>3 DEF Around

\* The positions at pick t out of f.
Picks(f, at, t) ==
    /\ at \in Seq(Nat) /\ Len(at) = Len(t)
    /\ \A k \in 1 .. Len(t) : at[k] \in 1 .. Len(f) /\ f[at[k]] = t[k]

\* They are the first n, but for one that is left out.
Skips(at, l, n) == \A k \in 1 .. n : at[k] = IF k <= l THEN k ELSE k + 1

\* Without z, what is left is x and y; they sit next to each other unless z is
\* between them.
LEMMA PickedAround ==
    ASSUME NEW V, NEW x \in Seq(V), NEW y \in Seq(V), NEW z, NEW f, Around(f, x, z, y),
           NEW M, M = (1 .. Len(f)) \ {Len(x) + 1}
    PROVE  /\ Picks(f, InOrder(M), x \o y)
           /\ Skips(InOrder(M), Len(x), Len(x \o y))
  <1> DEFINE l == Len(x)
             r == Len(y)
             m == Len(f)
             n == l + r
             at == InOrder(M)
             t == x \o y
  <1>1. /\ l \in Nat /\ r \in Nat /\ m \in Nat
        /\ (m = l /\ r = 0) \/ m = l + 1 + r
        /\ \A k \in 1 .. l : f[k] = x[k]
        /\ \A k \in 1 .. r : f[l + 1 + k] = y[k]
    <2>1. f \in Seq(V \union {z}) /\ PlacedAround(f, x, z, y)
      BY AroundFacts
    <2>2. Len(f) \in Nat
      BY <2>1, LenProperties
    <2> QED BY <2>1, <2>2 DEF PlacedAround
  <1>2. /\ Len(t) = n
        /\ \A k \in 1 .. n : t[k] = IF k <= l THEN x[k] ELSE y[k - l]
    BY ConcatProperties
  <1>3. at = [k \in 1 .. (IF l + 1 <= m THEN m - 1 ELSE m) |-> IF k < l + 1 THEN k ELSE k + 1]
    <2> HIDE DEF l, m
    <2>1. l + 1 \in Nat \ {0} /\ m \in Nat /\ M = (1 .. m) \ {l + 1}
      BY <1>1 DEF l, m
    <2> QED BY <2>1, InOrderSkips
  <1> HIDE DEF l, r, m, at, t
  <1>4. (IF l + 1 <= m THEN m - 1 ELSE m) = n /\ n \in Nat
    BY <1>1
  <1>5. at = [k \in 1 .. n |-> IF k <= l THEN k ELSE k + 1]
    <2>1. at = [k \in 1 .. n |-> IF k < l + 1 THEN k ELSE k + 1]
      BY <1>3, <1>4
    <2>2. \A k \in 1 .. n : k < l + 1 <=> k <= l
      BY <1>1
    <2> QED BY <2>1, <2>2
  <1>6. at \in Seq(Nat) /\ Len(at) = n
    <2>1. at \in [1 .. n -> Nat]
      BY <1>5
    <2>2. at \in UNION {[1 .. i -> Nat] : i \in Nat}
      BY <1>4, <2>1
    <2>3. at \in Seq(Nat)
      BY <2>2, SeqDef
    <2>4. DOMAIN at = 1 .. Len(at) /\ Len(at) \in Nat /\ DOMAIN at = 1 .. n
      BY <2>1, <2>3, LenProperties
    <2>5. 1 .. Len(at) = 1 .. n /\ Len(at) \in Nat
      BY <2>4
    <2>6. Len(at) = n
      BY <1>4, <2>5
    <2> QED BY <2>3, <2>6
  <1>7. ASSUME NEW k \in 1 .. n
        PROVE  /\ at[k] \in 1 .. m /\ f[at[k]] = t[k]
               /\ at[k] = IF k <= l THEN k ELSE k + 1
    <2>1. at[k] = IF k <= l THEN k ELSE k + 1
      BY <1>5
    <2>2. t[k] = IF k <= l THEN x[k] ELSE y[k - l]
      BY <1>2
    <2>3. CASE k <= l
      <3>1. k \in 1 .. l /\ k \in 1 .. m
        BY <1>1, <2>3
      <3> QED BY <3>1, <1>1, <2>1, <2>2, <2>3
    <2>4. CASE ~(k <= l)
      <3>1. k - l \in 1 .. r /\ k + 1 = l + 1 + (k - l) /\ k + 1 \in 1 .. m
        BY <1>1, <2>4
      <3>2. f[k + 1] = y[k - l]
        BY <1>1, <3>1
      <3> QED BY <3>1, <3>2, <2>1, <2>2, <2>4
    <2> QED BY <2>3, <2>4
  <1>8. Picks(f, at, t)
    BY <1>2, <1>6, <1>7 DEF Picks, m
  <1>9. Skips(at, l, Len(t))
    BY <1>2, <1>7 DEF Skips
  <1> QED BY <1>8, <1>9 DEF at, t, l

-----------------------------------------------------------------------------
(***************************************************************************)
(* The finetuning part of a batch.                                         *)
(***************************************************************************)
OneEach(b) == \A i, j \in DOMAIN b : b[i] = b[j] => i = j

\* Positions of what is not the inference request's.
FtPlaces(b) == {i \in DOMAIN b : b[i] # Inference}
FtRows(flat) == {i \in DOMAIN flat : flat[i][1] # Inference}

\* The batch is the samples before the inference request, if it has one, and
\* those behind it.
SplitBy(batch, x, y) ==
    /\ Around(batch, x, Inference, y)
    /\ FtPlaces(batch) = (1 .. Len(batch)) \ {Len(x) + 1}

\* A batch in which each comes once has the inference request at one place, or
\* not at all.
LEMMA BatchSplits ==
    ASSUME NEW batch \in Seq(Requests), OneEach(batch)
    PROVE  \E x, y \in Seq(Samples) : SplitBy(batch, x, y)
  <1> DEFINE n == Len(batch)
  <1>1. /\ n \in Nat /\ DOMAIN batch = 1 .. n
        /\ \A i \in 1 .. n : batch[i] \in Requests
    BY TypedSeq
  <1>2. CASE \A i \in 1 .. n : batch[i] # Inference
    <2>1. \A i \in 1 .. n : batch[i] \in Samples
      BY <1>1, <1>2 DEF Requests
    <2>2. batch \in [1 .. n -> Samples]
      BY <2>1, LenProperties
    <2>3. batch \in UNION {[1 .. m -> Samples] : m \in Nat}
      BY <1>1, <2>2
    <2>4. batch \in Seq(Samples)
      BY <2>3, SeqDef
    <2>5. <<>> \in Seq(Samples) /\ Around(batch, batch, Inference, <<>>)
      BY EmptySeq DEF Around
    <2>6. FtPlaces(batch) = (1 .. n) \ {n + 1}
      BY <1>1, <1>2 DEF FtPlaces
    <2> QED BY <2>4, <2>5, <2>6 DEF SplitBy
  <1>3. ASSUME NEW q \in 1 .. n, batch[q] = Inference
        PROVE  \E x, y \in Seq(Samples) : SplitBy(batch, x, y)
    <2> DEFINE x == SubSeq(batch, 1, q - 1)
               y == SubSeq(batch, q + 1, n)
               f == (x \o <<Inference>>) \o y
    <2>1. \A i \in 1 .. n : i # q => batch[i] \in Samples
      BY <1>1, <1>3 DEF Requests, OneEach
    <2>2. /\ q \in Int /\ n \in Int /\ q - 1 \in Int /\ q + 1 \in Int
          /\ \A i \in 1 .. q - 1 : batch[i] \in Samples
          /\ \A i \in q + 1 .. n : batch[i] \in Samples
      BY <1>1, <2>1
    <2>3. /\ x \in Seq(Samples) /\ Len(x) = IF 1 <= q - 1 THEN (q - 1) - 1 + 1 ELSE 0
          /\ \A i \in 1 .. (q - 1) - 1 + 1 : x[i] = batch[1 + i - 1]
      BY <2>2, SubSeqProperties
    <2>4. /\ y \in Seq(Samples)
          /\ Len(y) = IF q + 1 <= n THEN n - (q + 1) + 1 ELSE 0
          /\ \A i \in 1 .. n - (q + 1) + 1 : y[i] = batch[(q + 1) + i - 1]
      BY <2>2, SubSeqProperties
    <2> HIDE DEF x, y
    <2>12. q \in Int /\ n \in Int /\ 1 <= q /\ q <= n
      BY <1>1
    <2> HIDE DEF n
    <2>5. Len(x) = q - 1 /\ Len(y) = n - q
      <3>1. Len(x) = q - 1
        BY <2>3, <2>12
      <3>2. Len(y) = n - q
        BY <2>4, <2>12
      <3> QED BY <3>1, <3>2
    <2>6. Around(f, x, Inference, y)
      BY DEF Around
    <2> HIDE DEF f
    <2>7. f \in Seq(Samples \union {Inference}) /\ PlacedAround(f, x, Inference, y)
      BY <2>3, <2>4, <2>6, AroundFacts
    <2>8. /\ Len(f) = n
          /\ \A i \in 1 .. n : f[i] = batch[i]
      <3>1. \/ Len(f) = q - 1 /\ n - q = 0
            \/ Len(f) = n /\ f[q] = Inference
        <4>1. /\ \/ Len(f) = Len(x) /\ Len(y) = 0
                 \/ Len(f) = Len(x) + 1 + Len(y) /\ f[Len(x) + 1] = Inference
          BY <2>7 DEF PlacedAround
        <4>2. Len(x) + 1 = q /\ Len(x) + 1 + Len(y) = n
          BY <1>1, <2>5
        <4> QED BY <4>1, <4>2, <2>5
      <3>2. Len(f) = Len(x) + 1 + Len(y)
        <4>1. f = (x \o <<Inference>>) \o y
          BY DEF f
        <4> DEFINE W == Samples \union {Inference}
                   z == <<Inference>>
        <4>2. x \in Seq(W) /\ y \in Seq(W)
          <5>1. Samples \subseteq W
            OBVIOUS
          <5> HIDE DEF W
          <5> QED BY <5>1, <2>3, <2>4, SeqMonotonic
        <4>3. z \in Seq(W) /\ Len(z) = 1
          OBVIOUS
        <4> HIDE DEF W, z
        <4>4. x \o z \in Seq(W) /\ Len(x \o z) = Len(x) + Len(z)
          BY <4>2, <4>3, ConcatProperties
        <4> DEFINE c == x \o z
        <4>5. f = c \o y
          BY <4>1 DEF z
        <4> HIDE DEF c
        <4>6. c \in Seq(W)
          BY <4>4 DEF c
        <4>7. Len(c \o y) = Len(c) + Len(y)
          BY <4>2, <4>6, ConcatProperties
        <4>8. Len(c) = Len(x) + 1
          BY <4>3, <4>4 DEF c
        <4> QED BY <4>5, <4>7, <4>8
      <3>3. Len(f) = n
        BY <1>1, <2>5, <3>2
      <3>4. f[q] = Inference
        BY <2>12, <3>1, <3>3
      <3>5. \A k \in 1 .. q - 1 : f[k] = batch[k]
        <4> SUFFICES ASSUME NEW k \in 1 .. q - 1 PROVE f[k] = batch[k]
          OBVIOUS
        <4>1. f[k] = x[k]
          BY <2>5, <2>7 DEF PlacedAround
        <4>2. k \in 1 .. (q - 1) - 1 + 1 /\ 1 + k - 1 = k
          OBVIOUS
        <4>3. x[k] = batch[k]
          BY <2>3, <4>2
        <4> QED BY <4>1, <4>3
      <3>6. \A k \in 1 .. n - q : f[q + k] = batch[q + k]
        <4> SUFFICES ASSUME NEW k \in 1 .. n - q PROVE f[q + k] = batch[q + k]
          OBVIOUS
        <4>1. f[Len(x) + 1 + k] = y[k]
          BY <2>5, <2>7 DEF PlacedAround
        <4>2. Len(x) + 1 + k = q + k /\ k \in 1 .. n - (q + 1) + 1 /\ (q + 1) + k - 1 = q + k
          BY <1>1, <2>5
        <4>3. y[k] = batch[q + k]
          BY <2>4, <4>2
        <4> QED BY <4>1, <4>2, <4>3
      <3>7. ASSUME NEW i \in 1 .. n PROVE f[i] = batch[i]
        <4>1. CASE i < q
          BY <3>5, <4>1
        <4>2. CASE i = q
          BY <1>3, <3>4, <4>2
        <4>3. CASE i > q
          <5>1. i - q \in 1 .. n - q /\ q + (i - q) = i
            BY <1>1, <4>3
          <5>2. f[q + (i - q)] = batch[q + (i - q)]
            BY <3>6, <5>1
          <5> QED BY <5>1, <5>2
        <4> QED BY <4>1, <4>2, <4>3
      <3> QED BY <3>3, <3>7
    <2>9. batch = f
      <3> DEFINE W == Samples \union {Inference}
      <3>1. f \in Seq(W) /\ batch \in Seq(W) /\ Len(f) = Len(batch)
            /\ \A i \in 1 .. Len(f) : f[i] = batch[i]
        BY <2>7, <2>8 DEF Requests, n
      <3> HIDE DEF W
      <3> QED BY <3>1, SeqEqual
    <2>10. FtPlaces(batch) = (1 .. n) \ {Len(x) + 1}
      <3>1. Len(x) + 1 = q
        BY <2>5
      <3>2. \A i \in 1 .. n : i # q => batch[i] # Inference
        BY <2>1, ModelRunnerAssumption DEF Inference
      <3> QED BY <1>1, <1>3, <3>1, <3>2 DEF FtPlaces
    <2>11. Around(batch, x, Inference, y)
      BY <2>6, <2>9
    <2> QED BY <2>3, <2>4, <2>10, <2>11 DEF SplitBy, n
  <1> QED BY <1>2, <1>3

\* What is left of the batch without the inference request.
LEMMA FtOfSplit ==
    ASSUME NEW batch \in Seq(Requests), NEW x \in Seq(Samples), NEW y \in Seq(Samples),
           SplitBy(batch, x, y)
    PROVE  /\ FtOf(batch) = x \o y
           /\ Picks(batch, InOrder(FtPlaces(batch)), x \o y)
           /\ Skips(InOrder(FtPlaces(batch)), Len(x), Len(x \o y))
  <1> DEFINE at == InOrder(FtPlaces(batch))
             t == x \o y
             M == FtPlaces(batch)
  <1>1. /\ Picks(batch, at, t)
        /\ Skips(at, Len(x), Len(t))
    <2>1. Around(batch, x, Inference, y) /\ M = (1 .. Len(batch)) \ {Len(x) + 1}
      BY DEF SplitBy
    <2> HIDE DEF M
    <2>2. /\ Picks(batch, InOrder(M), x \o y)
          /\ Skips(InOrder(M), Len(x), Len(x \o y))
      BY <2>1, PickedAround
    <2> QED BY <2>2 DEF M
  <1>2. FtOf(batch) = [k \in DOMAIN at |-> batch[at[k]]]
    BY DEF FtOf, FtPlaces
  <1>3. t \in Seq(Samples)
    BY ConcatProperties
  <1> HIDE DEF at, t
  <1>4. DOMAIN at = 1 .. Len(t) /\ DOMAIN t = 1 .. Len(t) /\ t = [k \in DOMAIN t |-> t[k]]
    <2>1. at \in Seq(Nat) /\ Len(at) = Len(t)
      BY <1>1 DEF Picks
    <2>2. DOMAIN at = 1 .. Len(at) /\ DOMAIN t = 1 .. Len(t)
      BY <1>3, <2>1, LenProperties
    <2>3. t \in [1 .. Len(t) -> Samples]
      BY <1>3, LenProperties
    <2> QED BY <2>1, <2>2, <2>3
  <1>5. \A k \in 1 .. Len(t) : batch[at[k]] = t[k]
    BY <1>1 DEF Picks
  <1>6. FtOf(batch) = t
    BY <1>2, <1>4, <1>5
  <1> QED BY <1>1, <1>6 DEF at, t

Scheduled == <<Inference, 1>>

\* The inference request is a decode: one token.
LEMMA InferenceTokens == Flat(<<Inference>>) = <<Scheduled>>
  <1> DEFINE t == TokensOf(Inference)
             u == <<Scheduled>>
             V == Requests \X Nat
  <1>1. Inference \in Requests /\ LengthOf(Inference) = 1
    BY DEF Requests, LengthOf
  <1>2. t \in Seq(V) /\ Len(t) = 1
    BY <1>1, TokensFacts
  <1>3. t[1] = Scheduled
    BY <1>1 DEF TokensOf, Scheduled
  <1>4. u \in Seq(V) /\ Len(u) = 1 /\ u[1] = Scheduled
    <2>1. Scheduled \in V
      BY <1>1 DEF Scheduled
    <2> HIDE DEF V
    <2> QED BY <2>1
  <1>5. <<>> \in Seq(Requests) /\ Append(<<>>, Inference) = <<Inference>>
    BY EmptySeq
  <1>6. Flat(Append(<<>>, Inference)) = Flat(<<>>) \o t
    BY <1>1, <1>5, FlatAppend
  <1> HIDE DEF t, u, V
  <1>7. t = u
    <2>1. \A i \in 1 .. Len(t) : t[i] = u[i]
      BY <1>2, <1>3, <1>4
    <2>2. Len(t) = Len(u)
      BY <1>2, <1>4
    <2> QED BY <1>2, <1>4, <2>1, <2>2, SeqEqual
  <1>8. <<>> \o t = t
    BY <1>2, ConcatEmptySeq
  <1> QED BY <1>5, <1>6, <1>7, <1>8, FlatEmpty DEF u

\* The inference request's token is between the samples' tokens.
LEMMA FlatSplit ==
    ASSUME NEW batch \in Seq(Requests), NEW x \in Seq(Samples), NEW y \in Seq(Samples),
           SplitBy(batch, x, y)
    PROVE  /\ Flat(x) \in Seq(Samples \X Nat) /\ Flat(y) \in Seq(Samples \X Nat)
           /\ Flat(x \o y) = Flat(x) \o Flat(y)
           /\ Around(Flat(batch), Flat(x), Scheduled, Flat(y))
           /\ FtRows(Flat(batch)) = (1 .. Len(Flat(batch))) \ {Len(Flat(x)) + 1}
  <1> DEFINE V == Samples \X Nat
             X == Flat(x)
             Y == Flat(y)
             f == Flat(batch)
             z == Scheduled
  <1>1. Samples \in SUBSET Requests /\ Inference \in Requests
    BY DEF Requests
  <1>2. X \in Seq(V) /\ Y \in Seq(V)
    BY <1>1, FlatType
  <1>3. x \in Seq(Requests) /\ y \in Seq(Requests) /\ <<Inference>> \in Seq(Requests)
    <2>1. Samples \subseteq Requests
      BY <1>1
    <2>2. x \in Seq(Requests) /\ y \in Seq(Requests)
      BY <2>1, SeqMonotonic
    <2>3. \A r \in Requests : <<r>> \in Seq(Requests)
      OBVIOUS
    <2> QED BY <1>1, <2>2, <2>3
  <1>4. Flat(x \o y) = X \o Y
    BY <1>3, FlatConcat
  <1>5. Around(f, X, z, Y)
    <2>1. CASE batch = x /\ y = <<>>
      BY <2>1, FlatEmpty DEF Around
    <2>2. CASE batch = (x \o <<Inference>>) \o y
      <3>1. x \o <<Inference>> \in Seq(Requests)
        BY <1>3, ConcatProperties
      <3>2. Flat(batch) = Flat(x \o <<Inference>>) \o Flat(y)
        BY <1>3, <2>2, <3>1, FlatConcat
      <3>3. Flat(x \o <<Inference>>) = Flat(x) \o Flat(<<Inference>>)
        BY <1>3, FlatConcat
      <3>4. Flat(batch) = (Flat(x) \o <<Scheduled>>) \o Flat(y)
        BY <3>2, <3>3, InferenceTokens
      <3> QED BY <3>4 DEF Around
    <2> QED BY <2>1, <2>2 DEF SplitBy, Around
  <1>6. FtRows(f) = (1 .. Len(f)) \ {Len(X) + 1}
    <2> HIDE DEF V, X, Y, f, z
    <2>1. f \in Seq(V \union {z}) /\ PlacedAround(f, X, z, Y)
      BY <1>2, <1>5, AroundFacts
    <2>2. /\ DOMAIN f = 1 .. Len(f) /\ Len(f) \in Nat
          /\ \A k \in 1 .. Len(X) : X[k] \in V
          /\ \A k \in 1 .. Len(Y) : Y[k] \in V
      BY <1>2, <2>1, TypedSeq
    <2>3. z[1] = Inference /\ \A v \in V : v[1] # Inference
      BY ModelRunnerAssumption DEF z, V, Scheduled, Inference
    <2> DEFINE l == Len(X)
               r == Len(Y)
    <2>4. /\ l \in Nat /\ r \in Nat
          /\ \/ Len(f) = l /\ r = 0
             \/ Len(f) = l + 1 + r /\ f[l + 1] = z
          /\ \A k \in 1 .. l : f[k] = X[k]
          /\ \A k \in 1 .. r : f[l + 1 + k] = Y[k]
      BY <2>1 DEF PlacedAround
    <2>6. Len(f) = l \/ Len(f) = l + 1 + r
      BY <2>4
    <2>7. Len(f) \in Nat /\ l \in Nat /\ r \in Nat
      BY <2>2, <2>4
    <2>5. ASSUME NEW i \in 1 .. Len(f) PROVE f[i][1] # Inference <=> i # l + 1
      <3>1. CASE i <= l
        <4>1. i \in 1 .. l /\ i # l + 1
          BY <2>4, <3>1
        <4>2. f[i] \in V
          BY <2>2, <2>4, <4>1
        <4> QED BY <2>3, <4>1, <4>2
      <3>2. CASE i = l + 1
        <4> HIDE DEF l, r
        <4>3. Len(f) # l
          BY <2>7, <3>2
        <4>1. f[i] = z
          BY <2>4, <3>2, <4>3
        <4> QED BY <2>3, <3>2, <4>1
      <3>3. CASE i > l + 1
        <4> HIDE DEF l, r
        <4>1. i - (l + 1) \in 1 .. r /\ l + 1 + (i - (l + 1)) = i /\ i # l + 1
          BY <2>6, <2>7, <3>3
        <4>2. f[i] = Y[i - (l + 1)]
          BY <2>4, <4>1
        <4>3. f[i] \in V
          BY <2>2, <4>1, <4>2 DEF r
        <4> QED BY <2>3, <4>1, <4>3
      <3>4. i <= l \/ i = l + 1 \/ i > l + 1
        <4> HIDE DEF l, r
        <4> QED BY <2>7
      <3> QED BY <3>1, <3>2, <3>3, <3>4
    <2> QED BY <2>2, <2>5 DEF FtRows
  <1> QED BY <1>2, <1>4, <1>5, <1>6

\* The positions of the finetuning tokens pick them, in the order of the
\* samples; they are as they come or leave one out.
LEMMA FtPositionsFacts ==
    ASSUME NEW batch \in Seq(Requests), OneEach(batch)
    PROVE  /\ Picks(Flat(batch), FtPositions(Flat(batch)), Flat(FtOf(batch)))
           /\ \E l \in Nat :
                 Skips(FtPositions(Flat(batch)), l, Len(Flat(FtOf(batch))))
  <1>1. PICK x, y \in Seq(Samples) : SplitBy(batch, x, y)
    BY BatchSplits
  <1>2. FtOf(batch) = x \o y
    BY <1>1, FtOfSplit
  <1> DEFINE V == Samples \X Nat
             X == Flat(x)
             Y == Flat(y)
             f == Flat(batch)
             z == Scheduled
             M == FtRows(f)
             t == Flat(FtOf(batch))
  <1>3. /\ X \in Seq(V) /\ Y \in Seq(V)
        /\ Around(f, X, z, Y) /\ M = (1 .. Len(f)) \ {Len(X) + 1}
        /\ t = X \o Y
    <2>1. /\ Flat(x) \in Seq(Samples \X Nat) /\ Flat(y) \in Seq(Samples \X Nat)
          /\ Flat(x \o y) = Flat(x) \o Flat(y)
          /\ Around(Flat(batch), Flat(x), Scheduled, Flat(y))
          /\ FtRows(Flat(batch)) = (1 .. Len(Flat(batch))) \ {Len(Flat(x)) + 1}
      BY <1>1, FlatSplit
    <2> QED BY <2>1, <1>2
  <1>4. FtPositions(f) = InOrder(M)
    BY DEF FtPositions, FtRows
  <1> HIDE DEF V, X, Y, f, z, M, t
  <1>8. X \in Seq(V) /\ Y \in Seq(V) /\ Around(f, X, z, Y)
    BY <1>3
  <1>9. M = (1 .. Len(f)) \ {Len(X) + 1}
    BY <1>3
  <1>5. /\ Picks(f, InOrder(M), X \o Y)
        /\ Skips(InOrder(M), Len(X), Len(X \o Y))
    BY <1>8, <1>9, PickedAround
  <1>6. Len(X) \in Nat
    BY <1>3, LenProperties
  <1>7. /\ Picks(f, FtPositions(f), t)
        /\ \E l \in Nat : Skips(FtPositions(f), l, Len(t))
    BY <1>3, <1>4, <1>5, <1>6
  <1> QED BY <1>7 DEF f, t

\* The finetuning requests of a batch.
LEMMA FtOfFacts ==
    ASSUME NEW batch \in Seq(Requests), OneEach(batch)
    PROVE  /\ FtOf(batch) \in Seq(Samples) /\ OneEach(FtOf(batch))
           /\ ToSet(FtOf(batch)) = ToSet(batch) \ {Inference}
  <1>1. PICK x, y \in Seq(Samples) : SplitBy(batch, x, y)
    BY BatchSplits
  <1> DEFINE t == x \o y
             at == InOrder(FtPlaces(batch))
             l == Len(x)
  <1>2. /\ FtOf(batch) = t
        /\ Picks(batch, at, t)
        /\ Skips(at, l, Len(t))
    BY <1>1, FtOfSplit
  <1>3. t \in Seq(Samples)
    BY ConcatProperties
  <1> HIDE DEF t, at
  <1>4. /\ DOMAIN t = 1 .. Len(t) /\ Len(t) \in Nat /\ \A k \in 1 .. Len(t) : t[k] \in Samples
        /\ DOMAIN batch = 1 .. Len(batch) /\ Len(batch) \in Nat /\ l \in Nat
    BY <1>3, TypedSeq
  <1>5. \A k \in 1 .. Len(t) : at[k] \in 1 .. Len(batch) /\ batch[at[k]] = t[k]
    BY <1>2 DEF Picks
  <1>6. OneEach(t)
    <2> SUFFICES ASSUME NEW i \in 1 .. Len(t), NEW j \in 1 .. Len(t), t[i] = t[j]
                 PROVE  i = j
      BY <1>4 DEF OneEach
    <2>1. at[i] = at[j]
      BY <1>4, <1>5 DEF OneEach
    <2>2. at[i] = (IF i <= l THEN i ELSE i + 1) /\ at[j] = (IF j <= l THEN j ELSE j + 1)
      BY <1>2 DEF Skips
    <2>3. l \in Int /\ i \in Int /\ j \in Int
      BY <1>4
    <2> HIDE DEF l
    <2>4. (IF i <= l THEN i ELSE i + 1) = (IF j <= l THEN j ELSE j + 1)
      BY <2>1, <2>2
    <2> QED BY <2>3, <2>4
  <1>7. FtPlaces(batch) = (1 .. Len(batch)) \ {l + 1}
    BY <1>1 DEF SplitBy
  <1>8. \A k \in 1 .. Len(t) : t[k] # Inference
    BY <1>4, ModelRunnerAssumption DEF Inference
  <1>9. ASSUME NEW i \in 1 .. Len(batch), batch[i] # Inference
        PROVE  \E k \in 1 .. Len(t) : t[k] = batch[i]
    <2>1. i # l + 1
      BY <1>4, <1>7, <1>9 DEF FtPlaces
    <2>2. PlacedAround(batch, x, Inference, y)
      BY <1>1, AroundFacts DEF SplitBy
    <2>3. Len(t) = l + Len(y) /\ Len(y) \in Nat
      BY ConcatProperties, LenProperties DEF t
    <2>4. (Len(batch) = l /\ Len(y) = 0) \/ Len(batch) = l + 1 + Len(y)
      BY <2>2 DEF PlacedAround
    <2>7. /\ l \in Int /\ i \in Int /\ 1 <= i /\ i <= Len(batch)
          /\ (Len(batch) = l \/ Len(batch) = l + 1 + Len(y))
      <3> DEFINE m == Len(batch)
                 r == Len(y)
      <3>1. m \in Nat /\ l \in Nat /\ i \in 1 .. m
        BY <1>4
      <3>2. (m = l /\ r = 0) \/ m = l + 1 + r
        BY <2>4
      <3> HIDE DEF m, r, l
      <3>3. l \in Int /\ i \in Int /\ 1 <= i /\ i <= m /\ (m = l \/ m = l + 1 + r)
        BY <3>1, <3>2
      <3> QED BY <3>3 DEF m, r
    <2> HIDE DEF l
    <2> DEFINE k == IF i <= l THEN i ELSE i - 1
    <2>5. k \in 1 .. Len(t) /\ (IF k <= l THEN k ELSE k + 1) = i
      <3> DEFINE r == Len(y)
      <3>1. /\ Len(t) = l + r /\ r \in Nat /\ i # l + 1 /\ l \in Nat
            /\ i \in Int /\ 1 <= i /\ (i <= l \/ i <= l + 1 + r)
        BY <1>4, <2>1, <2>3, <2>7 DEF l
      <3> HIDE DEF r
      <3> QED BY <3>1
    <2>6. at[k] = i
      BY <1>2, <2>5 DEF Skips
    <2> QED BY <1>5, <2>5, <2>6
  <1>10. ToSet(t) = ToSet(batch) \ {Inference}
    <2>1. ToSet(t) = {t[k] : k \in 1 .. Len(t)} /\ ToSet(batch) = {batch[i] : i \in 1 .. Len(batch)}
      BY <1>4 DEF ToSet
    <2>2. \A k \in 1 .. Len(t) : t[k] \in ToSet(batch) \ {Inference}
      BY <2>1, <1>5, <1>8
    <2>3. \A i \in 1 .. Len(batch) : batch[i] # Inference => batch[i] \in ToSet(t)
      BY <2>1, <1>9
    <2> QED BY <2>1, <2>2, <2>3
  <1> QED BY <1>2, <1>3, <1>6, <1>10

-----------------------------------------------------------------------------
(***************************************************************************)
(* What a step saves: the tokens of its samples, in the rows from its      *)
(* offset on, whichever way they are gathered.                             *)
(***************************************************************************)
Lands(w, offset, t) ==
    /\ DOMAIN w = offset + 1 .. offset + Len(t)
    /\ \A k \in 1 .. Len(t) : w[offset + k] = t[k]

\* What fits behind the offset is not cut (accumulate_final).
LEMMA ClipIdle ==
    ASSUME NEW n \in Nat, NEW offset \in Nat, offset + n <= Capacity
    PROVE  Clip(n, offset) = n
  <1> DEFINE d == Capacity - offset
  <1>1. n \in Int /\ d \in Int /\ n <= d
    BY ModelRunnerAssumption
  <1> HIDE DEF d
  <1>2. Min({n, d}) = n
    BY <1>1 DEF Min
  <1> QED BY <1>2 DEF Clip, d

\* A hook saves the slice of the step's rows, or the rows under the mask.
LEMMA HookRowsFacts ==
    ASSUME NEW V, NEW flat \in Seq(V), NEW t, Picks(flat, FtPositions(flat), t),
           Len(t) \in Nat \ {0}, NEW l \in Nat, Skips(FtPositions(flat), l, Len(t))
    PROVE  /\ Len(HookRows(flat)) = Len(t)
           /\ \A k \in 1 .. Len(t) : HookRows(flat)[k] = t[k]
  <1> DEFINE at == FtPositions(flat)
             n == Len(t)
             m == Len(flat)
             a == at[1]
  <1>1. /\ at \in Seq(Nat) /\ Len(at) = n
        /\ \A k \in 1 .. n : at[k] \in 1 .. m /\ flat[at[k]] = t[k]
        /\ n \in Nat /\ n # 0
    BY DEF Picks
  <1>2. \A k \in 1 .. n : at[k] = IF k <= l THEN k ELSE k + 1
    BY DEF Skips
  <1>3. /\ DOMAIN at = 1 .. n /\ at # <<>> /\ Head(at) = a /\ Last(at) = at[n]
    <2> HIDE DEF at, n
    <2>1. IsSeq(at) /\ DOMAIN at = 1 .. Len(at)
      BY <1>1, TypedSeq
    <2>2. at # <<>> /\ Head(at) = at[1]
      BY <1>1, <2>1, IsSeqFacts
    <2> QED BY <1>1, <2>1, <2>2 DEF Last
  <1>4. m \in Nat /\ DOMAIN flat = 1 .. m /\ \A i \in 1 .. m : flat[i] \in V
    BY TypedSeq
  <1>5. HookRows(flat) = IF Contiguous(at) THEN SubSeq(flat, Head(at), Head(at) + Len(at) - 1)
                         ELSE [i \in DOMAIN at |-> flat[at[i]]]
    BY DEF HookRows
  <1> HIDE DEF at, n, m
  <1>6. CASE Contiguous(at)
    <2>1. at[n] - a + 1 = n
      BY <1>1, <1>3, <1>6 DEF Contiguous
    <2>2. \A k \in 1 .. n : at[k] = a + k - 1
      <3>1. 1 \in 1 .. n /\ n \in 1 .. n
        BY <1>1
      <3>2. at[1] = (IF 1 <= l THEN 1 ELSE 2) /\ at[n] = (IF n <= l THEN n ELSE n + 1)
        BY <1>2, <3>1
      <3>3. l = 0 \/ n <= l
        BY <1>1, <2>1, <3>2
      <3> QED BY <1>1, <1>2, <3>2, <3>3
    <2>3. a \in Nat /\ a + n - 1 \in Int /\ 1 <= a /\ a + n - 1 <= m
      <3>1. 1 \in 1 .. n /\ n \in 1 .. n
        BY <1>1
      <3>2. at[1] \in 1 .. m /\ at[n] \in 1 .. m /\ at[n] = a + n - 1
        BY <1>1, <2>2, <3>1
      <3> QED BY <3>2, <1>1, <1>4
    <2> DEFINE b == a + n - 1
    <2>4. a \in Int /\ b \in Int /\ \A i \in a .. b : flat[i] \in V
      BY <1>1, <1>4, <2>3
    <2> HIDE DEF a, b
    <2>5. /\ Len(SubSeq(flat, a, b)) = IF a <= b THEN b - a + 1 ELSE 0
          /\ \A i \in 1 .. b - a + 1 : SubSeq(flat, a, b)[i] = flat[a + i - 1]
      BY <2>4, SubSeqProperties
    <2>6. HookRows(flat) = SubSeq(flat, a, b)
      BY <1>1, <1>3, <1>5, <1>6 DEF b
    <2>7. b - a + 1 = n /\ a <= b
      BY <1>1, <2>3 DEF b
    <2>8. ASSUME NEW k \in 1 .. n PROVE HookRows(flat)[k] = t[k]
      <3>1. HookRows(flat)[k] = flat[a + k - 1]
        BY <2>5, <2>6, <2>7
      <3>2. at[k] = a + k - 1 /\ flat[at[k]] = t[k]
        BY <1>1, <2>2
      <3> QED BY <3>1, <3>2
    <2>9. Len(HookRows(flat)) = n
      BY <2>5, <2>6, <2>7
    <2> QED BY <2>8, <2>9 DEF n
  <1>7. CASE ~Contiguous(at)
    <2> DEFINE g == [i \in DOMAIN at |-> flat[at[i]]]
    <2>1. HookRows(flat) = g
      BY <1>5, <1>7
    <2>2. DOMAIN g = 1 .. n /\ g = [i \in 1 .. n |-> g[i]] /\ \A k \in 1 .. n : g[k] = t[k]
      BY <1>1, <1>3
    <2> HIDE DEF g
    <2>3. Len(g) = n
      BY <1>1, <2>2, FunSeq
    <2> QED BY <2>1, <2>2, <2>3 DEF n
  <1> QED BY <1>6, <1>7

\* A hook's rows come, in order, right behind what is in the buffer.
LEMMA HookLands ==
    ASSUME NEW batch \in Seq(Requests), OneEach(batch), NEW offset \in Nat,
           FtOf(batch) # <<>>, offset + Len(Flat(FtOf(batch))) <= Capacity,
           Len(Flat(FtOf(batch))) \in Nat \ {0}
    PROVE  Lands(HookWrites(Flat(batch), offset), offset, Flat(FtOf(batch)))
  <1> DEFINE f == Flat(batch)
             t == Flat(FtOf(batch))
             V == Requests \X Nat
             n == Len(t)
             h == HookRows(f)
             w == HookWrites(f, offset)
  <1>1. f \in Seq(V)
    BY FlatType
  <1>2. Picks(f, FtPositions(f), t) /\ \E l \in Nat : Skips(FtPositions(f), l, n)
    BY FtPositionsFacts
  <1>3. n \in Nat \ {0} /\ offset + n <= Capacity
    OBVIOUS
  <1>4. w = [r \in offset + 1 .. offset + Clip(Len(h), offset) |-> h[r - offset]]
    BY DEF HookWrites
  <1>5. Len(h) = n /\ \A k \in 1 .. n : h[k] = t[k]
    <2>1. PICK l \in Nat : Skips(FtPositions(f), l, n)
      BY <1>2
    <2> HIDE DEF f, t, V
    <2> QED BY <1>1, <1>2, <1>3, <2>1, HookRowsFacts
  <1> HIDE DEF f, t, V, n, h, w
  <1>6. Clip(Len(h), offset) = n
    BY <1>3, <1>5, ClipIdle
  <1>7. w = [r \in offset + 1 .. offset + n |-> h[r - offset]]
    BY <1>4, <1>6
  <1>8. ASSUME NEW k \in 1 .. n PROVE w[offset + k] = t[k]
    <2>1. offset + k \in offset + 1 .. offset + n /\ (offset + k) - offset = k
      BY <1>3
    <2>2. w[offset + k] = h[(offset + k) - offset]
      BY <1>7, <2>1
    <2> QED BY <1>5, <2>1, <2>2
  <1>9. DOMAIN w = offset + 1 .. offset + n
    BY <1>7
  <1> QED BY <1>8, <1>9 DEF Lands, n, f, t, w

\* What the op gathers with the indexes that were staged for the step.
LEMMA OpLands ==
    ASSUME NEW batch \in Seq(Requests), OneEach(batch), NEW offset \in Nat,
           offset + Len(Flat(FtOf(batch))) <= Capacity,
           Len(Flat(FtOf(batch))) \in Nat
    PROVE  Lands(OpWrites(StageIndexes(FtPositions(Flat(batch)), offset), Flat(batch)),
                 offset, Flat(FtOf(batch)))
  <1> DEFINE f == Flat(batch)
             t == Flat(FtOf(batch))
             at == FtPositions(f)
             n == Len(t)
             idx == StageIndexes(at, offset)
             w == OpWrites(idx, f)
             D == {idx[i].dst : i \in 1 .. Capacity} \ {Scratch}
             P(r) == CHOOSE j \in 1 .. Capacity : idx[j].dst = r
  <1>1. /\ at \in Seq(Nat) /\ Len(at) = n
        /\ \A k \in 1 .. n : at[k] \in 1 .. Len(f) /\ f[at[k]] = t[k]
    BY FtPositionsFacts DEF Picks
  <1>2. n \in Nat /\ offset + n <= Capacity /\ Capacity \in Nat /\ Scratch = Capacity + 1
    BY ModelRunnerAssumption DEF Scratch
  <1>3. DOMAIN f = 1 .. Len(f)
    BY FlatType, TypedSeq
  <1>4. w = [r \in D |-> IF idx[P(r)].src \in DOMAIN f THEN f[idx[P(r)].src] ELSE Zero]
    BY DEF OpWrites
  <1>5. idx = [i \in 1 .. Capacity |-> IF i <= Clip(Len(at), offset)
                                       THEN [src |-> at[i], dst |-> offset + i]
                                       ELSE [src |-> 1, dst |-> Scratch]]
    BY DEF StageIndexes
  <1> HIDE DEF f, t, at, n, idx, w
  <1>6. Clip(Len(at), offset) = n
    BY <1>1, <1>2, ClipIdle
  <1>7. /\ \A i \in 1 .. n : i \in 1 .. Capacity /\ idx[i].src = at[i] /\ idx[i].dst = offset + i
        /\ \A i \in 1 .. Capacity : i \notin 1 .. n => idx[i].dst = Scratch
    <2>1. ASSUME NEW i \in 1 .. n
          PROVE  i \in 1 .. Capacity /\ idx[i].src = at[i] /\ idx[i].dst = offset + i
      <3>1. i \in 1 .. Capacity /\ i <= n
        BY <1>2
      <3>2. idx[i] = [src |-> at[i], dst |-> offset + i]
        BY <1>5, <1>6, <3>1
      <3> QED BY <3>1, <3>2
    <2>2. ASSUME NEW i \in 1 .. Capacity, i \notin 1 .. n PROVE idx[i].dst = Scratch
      <3>1. ~(i <= n)
        BY <1>2, <2>2
      <3>2. idx[i] = [src |-> 1, dst |-> Scratch]
        BY <1>5, <1>6, <3>1
      <3> QED BY <3>2
    <2> QED BY <2>1, <2>2
  <1>8. D = offset + 1 .. offset + n
    <2>1. ASSUME NEW i \in 1 .. Capacity, idx[i].dst # Scratch
          PROVE  idx[i].dst \in offset + 1 .. offset + n
      <3>1. i \in 1 .. n
        BY <1>7, <2>1
      <3> QED BY <1>2, <1>7, <3>1
    <2>2. ASSUME NEW r \in offset + 1 .. offset + n PROVE r \in D
      <3>1. r - offset \in 1 .. n /\ r = offset + (r - offset) /\ r # Scratch
        BY <1>2
      <3>2. r - offset \in 1 .. Capacity /\ idx[r - offset].dst = r
        BY <1>7, <3>1
      <3> QED BY <3>1, <3>2
    <2> QED BY <2>1, <2>2
  <1>9. ASSUME NEW k \in 1 .. n PROVE w[offset + k] = t[k]
    <2> DEFINE r == offset + k
    <2>0. r \in offset + 1 .. offset + n /\ r # Scratch
      BY <1>2
    <2>1. r \in D /\ r # Scratch
      <3> HIDE DEF D, P, r
      <3> QED BY <1>8, <2>0
    <2>2. P(r) = k
      <3>1. k \in 1 .. Capacity /\ idx[k].dst = r
        BY <1>7
      <3>2. \A j \in 1 .. Capacity : idx[j].dst = r => j = k
        <4> SUFFICES ASSUME NEW j \in 1 .. Capacity, idx[j].dst = r PROVE j = k
          OBVIOUS
        <4>1. j \in 1 .. n
          BY <1>7, <2>1
        <4>2. offset + j = offset + k
          BY <1>7, <4>1
        <4> QED BY <4>1, <4>2, <1>2
      <3> QED BY <3>1, <3>2
    <2> HIDE DEF P, D
    <2>3. idx[k].src = at[k] /\ at[k] \in DOMAIN f /\ f[at[k]] = t[k]
      BY <1>1, <1>3, <1>7
    <2> HIDE DEF r
    <2>4. w[r] = IF idx[P(r)].src \in DOMAIN f THEN f[idx[P(r)].src] ELSE Zero
      BY <1>4, <2>1
    <2>5. w[r] = t[k]
      BY <2>2, <2>3, <2>4
    <2> QED BY <2>5 DEF r
  <1>10. DOMAIN w = offset + 1 .. offset + n
    <2> HIDE DEF P
    <2> QED BY <1>4, <1>8
  <1> HIDE DEF P, D
  <1> QED BY <1>9, <1>10 DEF Lands, n, f, t, w, idx, at

-----------------------------------------------------------------------------
(***************************************************************************)
(* The members of a set in some order, and how many tokens they have.      *)
(***************************************************************************)
\* An order of a set is a sequence that has each member once.
LEMMA Enumerated ==
    ASSUME NEW S, IsFiniteSet(S), NEW b \in SetToSeqs(S)
    PROVE  b \in Seq(S) /\ OneEach(b) /\ ToSet(b) = S
  <1> DEFINE n == Cardinality(S)
             D == 1 .. n
  <1>1. n \in Nat
    BY FS_CardinalityType
  <1>2. b \in [D -> S] /\ \A i, j \in D : i # j => b[i] # b[j]
    BY DEF SetToSeqs
  <1>3. IsFiniteSet(D) /\ Cardinality(D) = n
    BY <1>1, FS_Interval
  <1>4. b \in Injection(D, S)
    BY <1>2 DEF Injection, IsInjective
  <1> HIDE DEF D, n
  <1>5. b \in Surjection(D, S)
    BY <1>3, <1>4, FS_Injection DEF n
  <1>6. \A x \in S : \E i \in D : b[i] = x
    BY <1>5 DEF Surjection
  <1>7. b \in UNION {[1 .. m -> S] : m \in Nat}
    BY <1>1, <1>2 DEF D
  <1>8. b \in Seq(S)
    BY <1>7, SeqDef
  <1>9. OneEach(b) /\ ToSet(b) = S
    BY <1>2, <1>6 DEF OneEach, ToSet
  <1> QED BY <1>8, <1>9

\* A sequence that has each member of a set once is one of its orders.
LEMMA Enumerates ==
    ASSUME NEW S, NEW b \in Seq(S), OneEach(b), ToSet(b) = S
    PROVE  b \in SetToSeqs(S) /\ IsFiniteSet(S)
  <1> DEFINE n == Len(b)
             D == 1 .. n
  <1>1. n \in Nat /\ DOMAIN b = D /\ b \in [D -> S]
    BY LenProperties
  <1>2. IsFiniteSet(D)
    BY <1>1, FS_Interval
  <1>3. b \in Bijection(D, S)
    BY <1>1 DEF OneEach, ToSet, Bijection, Injection, Surjection, IsInjective
  <1>4. ExistsBijection(D, S)
    BY <1>3 DEF ExistsBijection
  <1>5. Cardinality(S) = n /\ IsFiniteSet(S)
    <2> HIDE DEF n
    <2>1. Cardinality(S) = n
      BY <1>1, <1>4, FS_CountingElements
    <2> HIDE DEF D
    <2>2. IsFiniteSet(S)
      BY <1>2, <1>4, FS_Bijection
    <2> QED BY <2>1, <2>2
  <1>6. \A i, j \in D : i # j => b[i] # b[j]
    BY <1>1 DEF OneEach
  <1> HIDE DEF n
  <1> QED BY <1>1, <1>5, <1>6 DEF SetToSeqs

\* A set of samples has as many tokens as its parts have.
LEMMA TokensAdd ==
    ASSUME NEW S \in SUBSET Samples, NEW T \in SUBSET Samples, S \cap T = {}
    PROVE  /\ Tokens(S \union T) = Tokens(S) + Tokens(T)
           /\ Tokens(S) \in Nat /\ Tokens(T) \in Nat /\ Tokens(S \union T) \in Nat
  <1> DEFINE U == S \union T
  <1>1. IsFiniteSet(U) /\ \A x \in U : SampleLen[x] \in Nat
    BY FS_Subset, ModelRunnerAssumption
  <1>2. S \in SUBSET U /\ U \ S = T
    OBVIOUS
  <1> HIDE DEF U
  <1>3. /\ SumFunctionOnSet(SampleLen, U)
             = SumFunctionOnSet(SampleLen, S) + SumFunctionOnSet(SampleLen, U \ S)
        /\ SumFunctionOnSet(SampleLen, U) \in Nat
        /\ SumFunctionOnSet(SampleLen, S) \in Nat
        /\ SumFunctionOnSet(SampleLen, U \ S) \in Nat
    BY <1>1, <1>2, SumSplit
  <1> QED BY <1>2, <1>3 DEF Tokens, U

\* None, if it has no member, and else some.
LEMMA TokensSome ==
    ASSUME NEW S \in SUBSET Samples
    PROVE  /\ Tokens({}) = 0 /\ Tokens(S) \in Nat
           /\ Tokens(S) = 0 => S = {}
  <1>1. Tokens({}) = 0
    BY FS_EmptySet, SumRec DEF Tokens
  <1>2. IsFiniteSet(S) /\ \A x \in S : SampleLen[x] \in Nat \ {0}
    BY FS_Subset, ModelRunnerAssumption
  <1>3. Tokens(S) \in Nat
    BY <1>2, SumNat DEF Tokens
  <1>4. ASSUME NEW x \in S PROVE Tokens(S) # 0
    <2>1. Tokens(S) = SampleLen[x] + Tokens(S \ {x})
      BY <1>2, SumRemove DEF Tokens
    <2>2. Tokens(S \ {x}) \in Nat
      <3>1. IsFiniteSet(S \ {x})
        BY <1>2, FS_Subset
      <3> QED BY <1>2, <3>1, SumNat DEF Tokens
    <2>3. SampleLen[x] \in Nat \ {0}
      BY <1>2
    <2> QED BY <2>1, <2>2, <2>3
  <1> QED BY <1>1, <1>3, <1>4

\* Of samples in a row, each once, there are as many rows as tokens.
LEMMA FlatLength ==
    ASSUME NEW b \in Seq(Samples), OneEach(b)
    PROVE  Len(Flat(b)) = Tokens(ToSet(b)) /\ ToSet(b) \subseteq Samples
  <1> DEFINE Good == {c \in Seq(Samples) : OneEach(c) => Len(Flat(c)) = Tokens(ToSet(c))}
  <1>0. ASSUME NEW c \in Seq(Samples) PROVE ToSet(c) \subseteq Samples
    BY TypedSeq DEF ToSet
  <1>1. <<>> \in Good
    <2>1. ToSet(<<>>) = {} /\ Len(<<>>) = 0 /\ <<>> \in Seq(Samples)
      BY EmptySeq DEF ToSet
    <2> QED BY <2>1, FlatEmpty, TokensSome
  <1>2. ASSUME NEW c \in Seq(Samples), NEW r \in Samples, c \in Good
        PROVE  Append(c, r) \in Good
    <2> DEFINE a == Append(c, r)
               n == Len(c)
               T == ToSet(c)
    <2>1. /\ a \in Seq(Samples) /\ Len(a) = n + 1 /\ a[n + 1] = r /\ n \in Nat
          /\ \A j \in 1 .. n : a[j] = c[j]
      BY AppendProperties, LenProperties
    <2>2. DOMAIN a = 1 .. n + 1 /\ DOMAIN c = 1 .. n
      <3> HIDE DEF a
      <3> QED BY <2>1, TypedSeq
    <2> SUFFICES ASSUME OneEach(a) PROVE Len(Flat(a)) = Tokens(ToSet(a))
      BY <2>1
    <2> HIDE DEF a, n
    <2>3. OneEach(c)
      <3> SUFFICES ASSUME NEW i \in 1 .. n, NEW j \in 1 .. n, c[i] = c[j] PROVE i = j
        BY <2>2 DEF OneEach
      <3>1. i \in 1 .. n + 1 /\ j \in 1 .. n + 1
        BY <2>1
      <3> QED BY <3>1, <2>1, <2>2 DEF OneEach
    <2>4. r \notin T
      <3> SUFFICES ASSUME NEW i \in 1 .. n, c[i] = r PROVE FALSE
        BY <2>2 DEF ToSet
      <3>1. i \in 1 .. n + 1 /\ n + 1 \in 1 .. n + 1 /\ i # n + 1
        BY <2>1
      <3>2. a[i] = a[n + 1]
        BY <2>1
      <3> QED BY <3>1, <3>2, <2>2 DEF OneEach
    <2>5. ToSet(a) = T \union {r}
      <3>1. \A i : i \in 1 .. n + 1 <=> i \in 1 .. n \/ i = n + 1
        BY <2>1
      <3> QED BY <2>1, <2>2, <3>1 DEF ToSet
    <2>6. T \subseteq Samples
      BY <1>0
    <2>7. Len(Flat(c)) = Tokens(T)
      BY <1>2, <2>3
    <2>8. Flat(a) = Flat(c) \o TokensOf(r) /\ Flat(c) \in Seq(Samples \X Nat)
      <3>1. Samples \in SUBSET Requests
        BY DEF Requests
      <3> QED BY <3>1, FlatAppend, FlatType DEF a
    <2>9. TokensOf(r) \in Seq(Samples \X Nat) /\ Len(TokensOf(r)) = SampleLen[r]
      <3>1. Samples \in SUBSET Requests /\ r # Inference
        BY ModelRunnerAssumption DEF Requests, Inference
      <3>2. LengthOf(r) = SampleLen[r]
        BY <3>1 DEF LengthOf
      <3> QED BY <3>1, <3>2, TokensFacts
    <2>10. Len(Flat(a)) = Tokens(T) + SampleLen[r]
      <3> DEFINE V == Samples \X Nat
                 x == Flat(c)
                 y == TokensOf(r)
      <3>1. x \in Seq(V) /\ y \in Seq(V)
        BY <2>8, <2>9
      <3> HIDE DEF V, x, y
      <3>2. Len(x \o y) = Len(x) + Len(y)
        BY <3>1, ConcatProperties
      <3> QED BY <3>2, <2>7, <2>8, <2>9 DEF x, y
    <2>11. Tokens(T \union {r}) = SampleLen[r] + Tokens(T) /\ Tokens(T) \in Nat
      <3> DEFINE U == T \union {r}
      <3>1. IsFiniteSet(U) /\ (\A x \in U : SampleLen[x] \in Nat) /\ r \in U /\ U \ {r} = T
        BY <2>4, <2>6, FS_Subset, ModelRunnerAssumption
      <3> HIDE DEF U
      <3>2. Tokens(U) = SampleLen[r] + Tokens(U \ {r})
        BY <3>1, SumRemove DEF Tokens
      <3>3. Tokens(T) \in Nat
        BY <2>6, TokensSome
      <3> QED BY <3>1, <3>2, <3>3 DEF U
    <2>12. SampleLen[r] \in Nat
      BY ModelRunnerAssumption
    <2> HIDE DEF T
    <2> QED BY <2>5, <2>10, <2>11, <2>12 DEF T
  <1> HIDE DEF Good
  <1>3. Seq(Samples) \subseteq Good
    BY <1>1, <1>2, SeqInduction
  <1> QED BY <1>0, <1>3 DEF Good

-----------------------------------------------------------------------------
(***************************************************************************)
(* The save points: a whole forward fills every buffer with what belongs   *)
(* there, through the hooks or through the op.                             *)
(***************************************************************************)
\* What queues one behind the other hold.
LEMMA MembersJoin ==
    /\ \A s, t : IsSeq(s) /\ IsSeq(t) =>
          IsSeq(s \o t) /\ Members(s \o t) = Members(s) \union Members(t)
    /\ IsSeq(<<>>) /\ Members(<<>>) = {}
    /\ \A e : IsSeq(<<e>>) /\ Members(<<e>>) = {e}
  <1>1. ASSUME NEW s, NEW t, IsSeq(s), IsSeq(t)
        PROVE  IsSeq(s \o t) /\ Members(s \o t) = Members(s) \union Members(t)
    <2> DEFINE c == s \o t
               m == Len(s)
               n == Len(t)
    <2>1. /\ IsSeq(c) /\ Len(c) = m + n
          /\ \A j \in 1 .. m : c[j] = s[j]
          /\ \A j \in 1 .. n : c[m + j] = t[j]
      BY <1>1, ConcatFacts
    <2>2. m \in Nat /\ n \in Nat
      BY <1>1, IsSeqFacts
    <2> HIDE DEF c, m, n
    <2>3. ASSUME NEW j \in 1 .. m + n PROVE c[j] \in {s[i] : i \in 1 .. m} \union {t[i] : i \in 1 .. n}
      <3>1. CASE j <= m
        <4>1. j \in 1 .. m
          BY <2>2, <3>1
        <4> QED BY <2>1, <4>1
      <3>2. CASE ~(j <= m)
        <4>1. j - m \in 1 .. n /\ m + (j - m) = j
          BY <2>2, <3>2
        <4>2. c[m + (j - m)] = t[j - m]
          BY <2>1, <4>1
        <4> QED BY <4>1, <4>2
      <3> QED BY <3>1, <3>2
    <2>4. \A i \in 1 .. m : i \in 1 .. m + n
      BY <2>2
    <2>5. \A i \in 1 .. n : m + i \in 1 .. m + n
      BY <2>2
    <2>6. Members(c) = Members(s) \union Members(t)
      <3> DEFINE S == {s[i] : i \in 1 .. m}
                 T == {t[i] : i \in 1 .. n}
                 C == {c[j] : j \in 1 .. m + n}
      <3>1. Members(c) = C /\ Members(s) = S /\ Members(t) = T
        BY <2>1 DEF Members, m, n
      <3>2. C \subseteq S \union T
        BY <2>3
      <3>3. \A i \in 1 .. m : s[i] \in C
        BY <2>1, <2>4
      <3>4. \A i \in 1 .. n : t[i] \in C
        BY <2>1, <2>5
      <3> HIDE DEF C
      <3>5. S \subseteq C /\ T \subseteq C
        BY <3>3, <3>4
      <3> HIDE DEF S, T
      <3> QED BY <3>1, <3>2, <3>5
    <2> QED BY <2>1, <2>6 DEF c
  <1>2. IsSeq(<<>>) /\ Members(<<>>) = {}
    BY OneFacts DEF Members
  <1>3. \A e : IsSeq(<<e>>) /\ Members(<<e>>) = {e}
    <2> SUFFICES ASSUME NEW e PROVE IsSeq(<<e>>) /\ Members(<<e>>) = {e}
      OBVIOUS
    <2> DEFINE t == <<e>>
    <2>1. IsSeq(t) /\ Len(t) = 1 /\ t[1] = e
      BY OneFacts
    <2> HIDE DEF t
    <2>2. Members(t) = {e}
      BY <2>1 DEF Members
    <2> QED BY <2>1, <2>2 DEF t
  <1> QED BY <1>1, <1>2, <1>3

\* A hook that takes one value, and the one that takes three.
TakesOne(h, k, i, slot) ==
    h.slot = slot /\ DOMAIN h.takes = {1} /\ h.takes[1] = <<k, i>>

TakesQkv(h, i, slot) ==
    /\ h.slot = slot /\ DOMAIN h.takes = {1, 2, 3}
    /\ h.takes[1] = <<"attn_qh", i>> /\ h.takes[2] = <<"attn_kh", i>>
    /\ h.takes[3] = <<"attn_vh", i>>

\* The hook of one value.
LEMMA HookTakesOne ==
    ASSUME NEW k, NEW i, NEW slot
    PROVE  TakesOne(Hook(<<k>>, i, slot), k, i, slot)
  BY DEF Hook, TakesOne

\* The hook behind the packed projection.
LEMMA HookTakesQkv ==
    ASSUME NEW i, NEW slot
    PROVE  TakesQkv(Hook(Qkv, i, slot), i, slot)
  BY DEF Hook, Qkv, TakesQkv

\* The hooks of a layer.
LEMMA LayerMembers ==
    ASSUME NEW o \in SaveConfig, NEW i \in Nat
    PROVE  /\ IsSeq(LayerHooks(o, i))
           /\ Members(LayerHooks(o, i)) =
                {Hook(<<"layer_in">>, i, 7 * i), Hook(<<"mlp_gate_up">>, i, 7 * i + 2)}
                \union (IF ~o.qkv THEN {}
                        ELSE IF o.pre THEN {Hook(<<Qkv[1]>>, i, 7 * i + 2 + 1),
                                            Hook(<<Qkv[2]>>, i, 7 * i + 2 + 2),
                                            Hook(<<Qkv[3]>>, i, 7 * i + 2 + 3)}
                        ELSE {Hook(Qkv, i, 7 * i + 3)})
                \union (IF o.ctx THEN {Hook(<<"attn_ctx">>, i, 7 * i + 6)} ELSE {})
                \union (IF o.resid_mid THEN {Hook(<<"resid_mid">>, i, 7 * i + 1)} ELSE {})
  <1> DEFINE A == Hook(<<"layer_in">>, i, 7 * i)
             C == Hook(<<"attn_ctx">>, i, 7 * i + 6)
             R == Hook(<<"resid_mid">>, i, 7 * i + 1)
             G == Hook(<<"mlp_gate_up">>, i, 7 * i + 2)
             P(j) == Hook(<<Qkv[j]>>, i, 7 * i + 2 + j)
             q == QkvHooks(o, i)
             c == IF o.ctx THEN <<C>> ELSE <<>>
             r == IF o.resid_mid THEN <<R>> ELSE <<>>
             Q == IF ~o.qkv THEN {} ELSE IF o.pre THEN {P(1), P(2), P(3)}
                  ELSE {Hook(Qkv, i, 7 * i + 3)}
  <1>1. IsSeq(q) /\ Members(q) = Q
    <2>1. CASE ~o.qkv
      BY <2>1, MembersJoin DEF QkvHooks
    <2>2. CASE o.qkv /\ ~o.pre
      BY <2>2, MembersJoin DEF QkvHooks
    <2>3. CASE o.qkv /\ o.pre
      <3> DEFINE g == [j \in 1 .. 3 |-> P(j)]
      <3>1. q = g /\ Q = {P(1), P(2), P(3)}
        BY <2>3 DEF QkvHooks
      <3> HIDE DEF P
      <3>2. DOMAIN g = 1 .. 3 /\ g = [k \in 1 .. 3 |-> g[k]] /\ 3 \in Nat
            /\ g[1] = P(1) /\ g[2] = P(2) /\ g[3] = P(3)
        OBVIOUS
      <3> HIDE DEF g, q, Q
      <3>3. IsSeq(g) /\ Len(g) = 3
        BY <3>2, FunSeq
      <3>4. Members(g) = {g[1], g[2], g[3]}
        BY <3>3 DEF Members
      <3> QED BY <3>1, <3>2, <3>3, <3>4
    <2> QED BY <2>1, <2>2, <2>3
  <1>2. IsSeq(c) /\ Members(c) = (IF o.ctx THEN {C} ELSE {})
    <2> HIDE DEF C
    <2> QED BY MembersJoin
  <1>3. IsSeq(r) /\ Members(r) = (IF o.resid_mid THEN {R} ELSE {})
    <2> HIDE DEF R
    <2> QED BY MembersJoin
  <1>4. LayerHooks(o, i) = (<<A>> \o q) \o ((c \o r) \o <<G>>)
    BY DEF LayerHooks, BeforeAttention, AfterAttention
  <1> HIDE DEF A, G, q, c, r
  <1> DEFINE x == <<A>> \o q
             y == c \o r
             z == y \o <<G>>
             l == x \o z
  <1>5. IsSeq(x) /\ Members(x) = {A} \union Members(q)
    BY <1>1, MembersJoin
  <1>6. IsSeq(y) /\ Members(y) = Members(c) \union Members(r)
    BY <1>2, <1>3, MembersJoin
  <1> HIDE DEF y
  <1>7. IsSeq(z) /\ Members(z) = Members(y) \union {G}
    BY <1>6, MembersJoin
  <1> HIDE DEF x, z
  <1>10. IsSeq(l) /\ Members(l) = Members(x) \union Members(z)
    BY <1>5, <1>7, MembersJoin
  <1>11. LayerHooks(o, i) = l
    BY <1>4 DEF x, y, z
  <1> HIDE DEF l
  <1>8. /\ IsSeq(LayerHooks(o, i))
        /\ Members(LayerHooks(o, i)) = ({A} \union Members(q)) \union (Members(y) \union {G})
    BY <1>5, <1>7, <1>10, <1>11
  <1>9. Members(LayerHooks(o, i)) =
           {A, G} \union Q \union (IF o.ctx THEN {C} ELSE {}) \union (IF o.resid_mid THEN {R} ELSE {})
    <2> HIDE DEF Q, C, R
    <2> QED BY <1>1, <1>2, <1>3, <1>6, <1>8
  <1> QED BY <1>8, <1>9 DEF A, G

\* Those of a forward.
LEMMA HookMembers ==
    ASSUME NEW o \in SaveConfig
    PROVE  /\ IsSeq(Hooks(o))
           /\ Members(Hooks(o)) = {Hook(<<"final_in">>, o.layers, 7 * o.layers)}
                 \union UNION {Members(LayerHooks(o, i)) : i \in 0 .. o.layers - 1}
  <1> DEFINE n == o.layers
             F == Hook(<<"final_in">>, n, 7 * n)
             L(i) == LayerHooks(o, i)
             V == UNION {Members(L(i)) : i \in 0 .. n - 1}
             s == [k \in 1 .. n |-> L(k - 1)]
             u == FlattenSeq(s)
  <1>1. n \in Nat /\ \A i \in 0 .. n - 1 : IsSeq(L(i))
    BY LayerMembers DEF SaveConfig
  <1>2. Hooks(o) = u \o <<F>>
    BY DEF Hooks, UpToLayer
  <1> HIDE DEF L, F, n
  <1>3. ASSUME NEW i \in 0 .. n - 1 PROVE L(i) \in Seq(V)
    <2>1. IsSeq(L(i))
      BY <1>1
    <2> DEFINE t == L(i)
    <2>2. DOMAIN t = 1 .. Len(t)
      BY <2>1, IsSeqFacts
    <2>3. {t[m] : m \in DOMAIN t} \subseteq V
      BY <2>2 DEF Members
    <2> HIDE DEF t, V
    <2>4. t \in Seq({t[m] : m \in DOMAIN t})
      BY <2>1 DEF IsSeq, t
    <2>5. t \in Seq(V)
      BY <2>3, <2>4, SeqMonotonic
    <2> QED BY <2>5 DEF t
  <1>4. \A k \in 1 .. n : k - 1 \in 0 .. n - 1
    BY <1>1
  <1> DEFINE X == Seq(V)
  <1>5. s \in [1 .. n -> X]
    <2> HIDE DEF V
    <2> QED BY <1>3, <1>4
  <1>6. s \in UNION {[1 .. m -> X] : m \in Nat}
    BY <1>1, <1>5
  <1> HIDE DEF V, X, s
  <1>7. s \in Seq(X)
    BY <1>6, SeqDef
  <1>8. Len(s) = n
    <2>1. DOMAIN s = 1 .. Len(s) /\ Len(s) \in Nat
      BY <1>7, LenProperties
    <2>2. 1 .. Len(s) = 1 .. n /\ Len(s) \in Nat
      BY <1>5, <2>1
    <2> QED BY <1>1, <2>2
  <1>9. u \in Seq(V) /\ Members(u) = UNION {Members(s[i]) : i \in 1 .. Len(s)}
    <2>1. s \in Seq(Seq(V))
      BY <1>7 DEF X
    <2> QED BY <2>1, FlattenFacts
  <1>10. IsSeq(u)
    <2> HIDE DEF u
    <2> QED BY <1>9, TypedSeq
  <1>11. Members(u) = UNION {Members(s[i]) : i \in 1 .. n}
    BY <1>8, <1>9
  <1>12. UNION {Members(s[i]) : i \in 1 .. n} = UNION {Members(L(i)) : i \in 0 .. n - 1}
    <2>1. \A i \in 1 .. n : s[i] = L(i - 1)
      BY DEF s
    <2>2. \A i \in 0 .. n - 1 : i + 1 \in 1 .. n /\ (i + 1) - 1 = i
      BY <1>1
    <2>3. \A i \in 0 .. n - 1 : s[i + 1] = L(i)
      BY <2>1, <2>2
    <2> QED BY <1>4, <2>1, <2>2, <2>3
  <1> HIDE DEF u
  <1>13. IsSeq(u \o <<F>>) /\ Members(u \o <<F>>) = Members(u) \union {F}
    BY <1>10, MembersJoin
  <1> QED BY <1>2, <1>11, <1>12, <1>13 DEF L, F, n

\* A sequence of three.
LEMMA ThreeFacts ==
    ASSUME NEW x, NEW y, NEW z
    PROVE  /\ IsSeq(<<x, y, z>>) /\ Len(<<x, y, z>>) = 3
           /\ <<x, y, z>>[1] = x /\ <<x, y, z>>[2] = y /\ <<x, y, z>>[3] = z
  BY DEF IsSeq

\* The order of the names in the op's table.
LEMMA OpNamesFacts ==
    /\ OpNames[1] = "layer_in" /\ OpNames[2] = "resid_mid" /\ OpNames[3] = "mlp_gate_up"
    /\ OpNames[4] = "attn_qh" /\ OpNames[5] = "attn_kh" /\ OpNames[6] = "attn_vh"
    /\ OpNames[7] = "attn_ctx"
  <1> DEFINE a == <<"layer_in", "resid_mid", "mlp_gate_up">>
             q == <<"attn_qh", "attn_kh", "attn_vh">>
             c == <<"attn_ctx">>
  <1>1. /\ IsSeq(a) /\ Len(a) = 3
        /\ a[1] = "layer_in" /\ a[2] = "resid_mid" /\ a[3] = "mlp_gate_up"
    BY ThreeFacts
  <1>2. /\ IsSeq(q) /\ Len(q) = 3
        /\ q[1] = "attn_qh" /\ q[2] = "attn_kh" /\ q[3] = "attn_vh"
    BY ThreeFacts
  <1>3. IsSeq(c) /\ Len(c) = 1 /\ c[1] = "attn_ctx"
    BY OneFacts
  <1>4. OpNames = (a \o q) \o c
    BY DEF OpNames, Qkv
  <1> HIDE DEF a, q, c
  <1> DEFINE d == a \o q
             e == d \o c
  <1>5. /\ IsSeq(d) /\ Len(d) = 6
        /\ d[1] = a[1] /\ d[2] = a[2] /\ d[3] = a[3]
        /\ d[4] = q[1] /\ d[5] = q[2] /\ d[6] = q[3]
    <2>1. /\ IsSeq(d) /\ Len(d) = Len(a) + Len(q)
          /\ \A j \in 1 .. Len(a) : d[j] = a[j]
          /\ \A j \in 1 .. Len(q) : d[Len(a) + j] = q[j]
      <3>1. IsSeq(a) /\ IsSeq(q)
        BY <1>1, <1>2
      <3> QED BY <3>1, ConcatFacts
    <2> HIDE DEF d
    <2>2. /\ \A j \in 1 .. 3 : d[j] = a[j]
          /\ \A j \in 1 .. 3 : d[3 + j] = q[j]
      BY <2>1, <1>1, <1>2
    <2>3. d[3 + 1] = q[1] /\ d[3 + 2] = q[2] /\ d[3 + 3] = q[3]
      BY <2>2
    <2> QED BY <2>1, <2>2, <2>3, <1>1, <1>2
  <1> HIDE DEF d
  <1>6. /\ e[1] = d[1] /\ e[2] = d[2] /\ e[3] = d[3] /\ e[4] = d[4] /\ e[5] = d[5]
        /\ e[6] = d[6] /\ e[7] = c[1]
    <2>1. /\ \A j \in 1 .. Len(d) : e[j] = d[j]
          /\ \A j \in 1 .. Len(c) : e[Len(d) + j] = c[j]
      <3>1. IsSeq(d) /\ IsSeq(c)
        BY <1>3, <1>5
      <3> QED BY <3>1, ConcatFacts
    <2> HIDE DEF e
    <2>2. e[6 + 1] = c[1]
      BY <2>1, <1>3, <1>5
    <2> QED BY <2>1, <2>2, <1>5
  <1>7. OpNames = e
    BY <1>4 DEF d
  <1> HIDE DEF e
  <1> QED BY <1>1, <1>2, <1>3, <1>5, <1>6, <1>7

\* The slot of a layer's value is that of its buffer (ft_save_op.py).
LEMMA OpTableFacts ==
    ASSUME NEW o \in SaveConfig, NEW i \in 0 .. o.layers - 1, NEW c \in 0 .. 6
    PROVE  OpTable(o)[7 * i + c] = <<OpNames[c + 1], i>>
  <1>1. o.layers \in Nat
    BY DEF SaveConfig
  <1> DEFINE n == o.layers
             s == 7 * i + c
  <1>2. /\ s \in 0 .. 7 * n /\ s # 7 * n /\ s % 7 = c /\ s \div 7 = i
    <2>1. n \in Int /\ i \in Int /\ c \in Int /\ 0 <= i /\ i <= n - 1 /\ 0 <= c /\ c <= 6
      BY <1>1
    <2> HIDE DEF n
    <2> QED BY <2>1
  <1>3. OpTable(o)[s] = <<OpNames[(s % 7) + 1], s \div 7>>
    <2> HIDE DEF s
    <2> QED BY <1>2 DEF OpTable
  <1> QED BY <1>2, <1>3

\* The slots of a hook are those of the buffers of what it takes.
Aims(o, h) == \A j \in DOMAIN h.takes : OpTable(o)[h.slot + j - 1] = h.takes[j]

\* A hook gives its op the slot of the buffer that is meant for what it takes.
LEMMA HooksAim ==
    ASSUME NEW o \in SaveConfig
    PROVE  \A h \in Members(Hooks(o)) : Aims(o, h)
  <1>1. o.layers \in Nat
    BY DEF SaveConfig
  <1>2. Aims(o, Hook(<<"final_in">>, o.layers, 7 * o.layers))
    <2>1. OpTable(o)[7 * o.layers] = <<"final_in", o.layers>>
      BY <1>1 DEF OpTable, FinalIn
    <2> DEFINE m == 7 * o.layers
               h == Hook(<<"final_in">>, o.layers, m)
    <2>2. m \in Nat
      BY <1>1
    <2> HIDE DEF m
    <2>3. TakesOne(h, "final_in", o.layers, m) /\ m + 1 - 1 = m
      BY <2>2, HookTakesOne
    <2> HIDE DEF h
    <2>4. Aims(o, h)
      BY <2>1, <2>3 DEF Aims, TakesOne, m
    <2> QED BY <2>4 DEF h, m
  <1>3. ASSUME NEW i \in 0 .. o.layers - 1, NEW h \in Members(LayerHooks(o, i))
        PROVE  Aims(o, h)
    <2>1. i \in Nat
      OBVIOUS
    <2>2. ASSUME NEW c \in 0 .. 6, NEW k, k = OpNames[c + 1]
          PROVE  Aims(o, Hook(<<k>>, i, 7 * i + c))
      <3>1. OpTable(o)[7 * i + c] = <<k, i>>
        BY <2>2, OpTableFacts
      <3> DEFINE m == 7 * i + c
                 g == Hook(<<k>>, i, m)
      <3>2. m \in Nat
        OBVIOUS
      <3> HIDE DEF m
      <3>3. TakesOne(g, k, i, m) /\ m + 1 - 1 = m
        BY <3>2, HookTakesOne
      <3> HIDE DEF g
      <3>4. Aims(o, g)
        BY <3>1, <3>3 DEF Aims, TakesOne, m
      <3> QED BY <3>4 DEF g, m
    <2>3. Aims(o, Hook(Qkv, i, 7 * i + 3))
      <3>1. /\ OpTable(o)[7 * i + 3] = <<"attn_qh", i>>
            /\ OpTable(o)[7 * i + 4] = <<"attn_kh", i>>
            /\ OpTable(o)[7 * i + 5] = <<"attn_vh", i>>
        BY OpTableFacts, OpNamesFacts
      <3>2. /\ 7 * i + 3 \in Nat /\ (7 * i + 3) + 1 - 1 = 7 * i + 3
            /\ (7 * i + 3) + 2 - 1 = 7 * i + 4 /\ (7 * i + 3) + 3 - 1 = 7 * i + 5
        OBVIOUS
      <3> DEFINE g == Hook(Qkv, i, 7 * i + 3)
      <3>3. TakesQkv(g, i, 7 * i + 3)
        BY HookTakesQkv
      <3> HIDE DEF g
      <3>4. Aims(o, g)
        BY <3>1, <3>2, <3>3 DEF Aims, TakesQkv
      <3> QED BY <3>4 DEF g
    <2>4. /\ 7 * i + 2 + 1 = 7 * i + 3 /\ 7 * i + 2 + 2 = 7 * i + 4
          /\ 7 * i + 2 + 3 = 7 * i + 5 /\ 7 * i = 7 * i + 0
      OBVIOUS
    <2>5. /\ Aims(o, Hook(<<"layer_in">>, i, 7 * i + 0))
          /\ Aims(o, Hook(<<"resid_mid">>, i, 7 * i + 1))
          /\ Aims(o, Hook(<<"mlp_gate_up">>, i, 7 * i + 2))
          /\ Aims(o, Hook(<<Qkv[1]>>, i, 7 * i + 3))
          /\ Aims(o, Hook(<<Qkv[2]>>, i, 7 * i + 4))
          /\ Aims(o, Hook(<<Qkv[3]>>, i, 7 * i + 5))
          /\ Aims(o, Hook(<<"attn_ctx">>, i, 7 * i + 6))
      <3>1. Qkv[1] = "attn_qh" /\ Qkv[2] = "attn_kh" /\ Qkv[3] = "attn_vh"
        BY DEF Qkv
      <3>2. /\ "layer_in" = OpNames[0 + 1] /\ "resid_mid" = OpNames[1 + 1]
            /\ "mlp_gate_up" = OpNames[2 + 1] /\ Qkv[1] = OpNames[3 + 1]
            /\ Qkv[2] = OpNames[4 + 1] /\ Qkv[3] = OpNames[5 + 1]
            /\ "attn_ctx" = OpNames[6 + 1]
        BY <3>1, OpNamesFacts
      <3> QED BY <2>2, <3>2
    <2>6. h \in {Hook(<<"layer_in">>, i, 7 * i), Hook(<<"mlp_gate_up">>, i, 7 * i + 2),
                 Hook(<<Qkv[1]>>, i, 7 * i + 2 + 1), Hook(<<Qkv[2]>>, i, 7 * i + 2 + 2),
                 Hook(<<Qkv[3]>>, i, 7 * i + 2 + 3), Hook(Qkv, i, 7 * i + 3),
                 Hook(<<"attn_ctx">>, i, 7 * i + 6), Hook(<<"resid_mid">>, i, 7 * i + 1)}
      BY <2>1, LayerMembers
    <2> QED BY <2>3, <2>4, <2>5, <2>6
  <1> QED BY <1>2, <1>3, HookMembers

\* Every buffer but those filled behind the forward is that of a value a hook takes.
LEMMA AllTaken ==
    ASSUME NEW o \in SaveConfig, NEW p \in Buffers(o) \ FinalBuffers(o)
    PROVE  \E h \in Members(Hooks(o)) : \E j \in DOMAIN h.takes : h.takes[j] = p
  <1>1. o.layers \in Nat
    BY DEF SaveConfig
  <1>2. CASE p = FinalIn(o)
    <2> DEFINE h == Hook(<<"final_in">>, o.layers, 7 * o.layers)
    <2>2. DOMAIN h.takes = {1} /\ h.takes[1] = <<"final_in", o.layers>>
      BY HookTakesOne DEF TakesOne
    <2>3. h \in Members(Hooks(o))
      BY HookMembers
    <2> HIDE DEF h
    <2> QED BY <1>2, <2>2, <2>3 DEF FinalIn
  <1>3. ASSUME NEW k \in LayerKinds(o), NEW i \in 0 .. o.layers - 1, p = <<k, i>>
        PROVE  \E h \in Members(Hooks(o)) : \E j \in DOMAIN h.takes : h.takes[j] = p
    <2> DEFINE M == Members(LayerHooks(o, i))
    <2>1. i \in Nat /\ M \subseteq Members(Hooks(o))
      BY HookMembers
    <2> SUFFICES \E h \in M : \E j \in DOMAIN h.takes : h.takes[j] = p
      BY <2>1
    <2>2. ASSUME NEW s \in Nat, Hook(<<k>>, i, s) \in M
          PROVE  \E h \in M : \E j \in DOMAIN h.takes : h.takes[j] = p
      <3> DEFINE h == Hook(<<k>>, i, s)
      <3>1. DOMAIN h.takes = {1} /\ h.takes[1] = <<k, i>>
        BY HookTakesOne DEF TakesOne
      <3> HIDE DEF h
      <3>2. h \in M
        BY <2>2 DEF h
      <3> HIDE DEF M
      <3> QED BY <3>1, <3>2, <1>3
    <2>3. /\ 7 * i \in Nat /\ 7 * i + 1 \in Nat /\ 7 * i + 2 \in Nat /\ 7 * i + 6 \in Nat
          /\ 7 * i + 3 \in Nat
          /\ 7 * i + 2 + 1 \in Nat /\ 7 * i + 2 + 2 \in Nat /\ 7 * i + 2 + 3 \in Nat
      OBVIOUS
    <2>4. /\ Hook(<<"layer_in">>, i, 7 * i) \in M
          /\ Hook(<<"mlp_gate_up">>, i, 7 * i + 2) \in M
          /\ o.ctx => Hook(<<"attn_ctx">>, i, 7 * i + 6) \in M
          /\ o.resid_mid => Hook(<<"resid_mid">>, i, 7 * i + 1) \in M
          /\ o.qkv /\ o.pre => /\ Hook(<<Qkv[1]>>, i, 7 * i + 2 + 1) \in M
                               /\ Hook(<<Qkv[2]>>, i, 7 * i + 2 + 2) \in M
                               /\ Hook(<<Qkv[3]>>, i, 7 * i + 2 + 3) \in M
          /\ o.qkv /\ ~o.pre => Hook(Qkv, i, 7 * i + 3) \in M
      BY <2>1, LayerMembers
    <2>5. Qkv[1] = "attn_qh" /\ Qkv[2] = "attn_kh" /\ Qkv[3] = "attn_vh"
          /\ ToSet(Qkv) = {"attn_qh", "attn_kh", "attn_vh"}
      BY DEF Qkv, ToSet
    <2>6. \/ k = "layer_in" \/ k = "mlp_gate_up" \/ (o.ctx /\ k = "attn_ctx")
          \/ (o.resid_mid /\ k = "resid_mid")
          \/ (o.qkv /\ k \in {"attn_qh", "attn_kh", "attn_vh"})
      BY <2>5 DEF LayerKinds
    <2> HIDE DEF M
    <2>7. CASE o.qkv /\ k \in {"attn_qh", "attn_kh", "attn_vh"}
      <3>1. CASE o.pre
        BY <3>1, <2>2, <2>3, <2>4, <2>5, <2>7
      <3>2. CASE ~o.pre
        <4> DEFINE h == Hook(Qkv, i, 7 * i + 3)
        <4>1. /\ DOMAIN h.takes = {1, 2, 3}
              /\ h.takes[1] = <<"attn_qh", i>> /\ h.takes[2] = <<"attn_kh", i>>
              /\ h.takes[3] = <<"attn_vh", i>>
          BY HookTakesQkv DEF TakesQkv
        <4>2. h \in M
          BY <2>4, <2>7, <3>2
        <4> HIDE DEF h
        <4> QED BY <4>1, <4>2, <2>7, <1>3
      <3> QED BY <3>1, <3>2
    <2> QED BY <2>2, <2>3, <2>4, <2>6, <2>7
  <1> QED BY <1>2, <1>3 DEF Buffers

\* Into each of the buffers B goes its own value.
Fills(saves, B) == \A p \in B : p \in DOMAIN saves /\ saves[p] = p

\* A forward that was not left has saved every value but the last, each into
\* its own buffer, through the hooks or through the op.
LEMMA WholeForwardFills ==
    ASSUME NEW o \in SaveConfig
    PROVE  /\ Fills(HookSaves(o, Len(Hooks(o))), Buffers(o) \ FinalBuffers(o))
           /\ Fills(OpSaves(o, Len(Hooks(o))), Buffers(o) \ FinalBuffers(o))
  <1> DEFINE B == Buffers(o) \ FinalBuffers(o)
             H == Hooks(o)
             n == Len(H)
  <1>1. \A p \in B : \E i \in 1 .. n : \E j \in DOMAIN H[i].takes : H[i].takes[j] = p
    BY AllTaken DEF Members
  <1>2. \A i \in 1 .. n : Aims(o, H[i])
    BY HooksAim DEF Members
  <1> HIDE DEF B, n
  <1>3. Fills(HookSaves(o, n), B)
    <2> DEFINE taken == UNION {ToSet(H[i].takes) : i \in 1 .. n}
    <2>1. B \subseteq taken
      BY <1>1 DEF ToSet
    <2>2. HookSaves(o, n) = [b \in taken |-> b]
      BY DEF HookSaves
    <2> HIDE DEF taken
    <2> QED BY <2>1, <2>2 DEF Fills
  <1>4. Fills(OpSaves(o, n), B)
    <2> DEFINE taps == UNION {{<<H[i], j>> : j \in DOMAIN H[i].takes} : i \in 1 .. n}
               target(t) == OpTable(o)[t[1].slot + t[2] - 1]
               value(t) == t[1].takes[t[2]]
               D == {target(t) : t \in taps}
    <2>1. OpSaves(o, n) = [b \in D |-> value(CHOOSE x \in taps : target(x) = b)]
      BY DEF OpSaves
    <2>2. \A t \in taps : target(t) = value(t)
      BY <1>2 DEF Aims
    <2>3. \A p \in B : \E t \in taps : value(t) = p
      <3> SUFFICES ASSUME NEW p \in B PROVE \E t \in taps : value(t) = p
        OBVIOUS
      <3>1. PICK i \in 1 .. n : \E j \in DOMAIN H[i].takes : H[i].takes[j] = p
        BY <1>1
      <3>2. PICK j \in DOMAIN H[i].takes : H[i].takes[j] = p
        BY <3>1
      <3>3. <<H[i], j>> \in taps /\ value(<<H[i], j>>) = p
        BY <3>2
      <3> HIDE DEF taps, value
      <3> QED BY <3>3
    <2> HIDE DEF taps, target, value
    <2>4. ASSUME NEW p \in B
          PROVE  p \in D /\ value(CHOOSE x \in taps : target(x) = p) = p
      <3>1. \E t \in taps : target(t) = p
        BY <2>2, <2>3
      <3> DEFINE c == CHOOSE x \in taps : target(x) = p
      <3>2. c \in taps /\ target(c) = p
        BY <3>1
      <3> HIDE DEF c
      <3>3. value(c) = p
        BY <2>2, <3>2
      <3> QED BY <3>1, <3>3 DEF c
    <2> HIDE DEF D
    <2> QED BY <2>1, <2>4 DEF Fills
  <1> QED BY <1>3, <1>4 DEF B, n

-----------------------------------------------------------------------------
(***************************************************************************)
(* The rows that the child will be handed: in the buffers already, or on   *)
(* their way in the stream.                                                *)
(***************************************************************************)
PinSlots == 0 .. PinRing - 1

\* A forward that saves through the op, with the indexes it will find.
Armed(o) == o.op = "forward" /\ o.flat # <<>>
Gathers(j) == IF j = 1 THEN ft_idx ELSE idx_pin[stream[j - 1].slot]

\* What an element of the stream saves, under the configuration c and with the
\* indexes g.
SavesOf(c, o) ==
    IF o.op = "forward"
    THEN IF o.flat # <<>> THEN OpSaves(c, o.points) ELSE HookSaves(c, o.points)
    ELSE IF o.op = "final" THEN Each(FinalBuffers(c))
    ELSE IF o.op = "zero" THEN Each(Buffers(c)) ELSE <<>>

WritesOf(o, g) ==
    IF o.op = "forward"
    THEN IF o.flat # <<>> THEN OpWrites(g, o.flat) ELSE o.writes
    ELSE IF o.op = "final" THEN o.writes
    ELSE IF o.op = "zero" THEN [r \in o.zeroed |-> Zero] ELSE <<>>

Hits(c, o, g, p, r) == p \in DOMAIN SavesOf(c, o) /\ r \in DOMAIN WritesOf(o, g)
Puts(c, o, g, p, r) == IF SavesOf(c, o)[p] = p THEN WritesOf(o, g)[r] ELSE Other

Touches(j, p, r) == Hits(config, stream[j], Gathers(j), p, r)
Leaves(j, p, r) == Puts(config, stream[j], Gathers(j), p, r)

\* An element of the stream that belongs to a step that was not left, and that
\* the trigger waits for.
Kept(i) ==
    \/ stream[i].op = "final"
    \/ /\ stream[i].op = "forward" /\ stream[i].ends
       /\ \E k \in DOMAIN stream : i < k /\ stream[k].op = "final"

\* Row r of p has the token v, or will be given it, and then keeps it.
Gives(i, p, r, v) ==
    \/ i = 0 /\ rows[p][r] = v
    \/ i # 0 /\ Kept(i) /\ Touches(i, p, r) /\ Leaves(i, p, r) = v

Comes(p, r, v) ==
    \E i \in 0 .. Len(stream) :
       Gives(i, p, r, v) /\ \A j \in i + 1 .. Len(stream) : ~Touches(j, p, r)

\* The samples accounted for, in the order of their rows.
Saved(order) ==
    /\ OneEach(order) /\ ToSet(order) = buffer_samples
    /\ sample_lens = [i \in DOMAIN order |-> SampleLen[order[i]]]
    /\ fill = Len(Flat(order)) /\ fill <= Capacity
    /\ \A p \in Buffers(config), r \in 1 .. fill : Comes(p, r, Flat(order)[r])

RowInv == \E order \in Seq(Samples) : Saved(order)

\* While the child reads, nothing that the trigger waits for is left.
ReadingInv == child = "reading" => \A i \in DOMAIN stream : stream[i].op # "final"

RowType ==
    /\ config \in SaveConfig /\ DOMAIN rows = Buffers(config)
    /\ \A p \in Buffers(config) : rows[p] = [r \in 1 .. Capacity |-> rows[p][r]]

\* The op's indexes are copied right before the forward.
PinType ==
    /\ idx_pin_pos \in PinSlots /\ DOMAIN idx_pin = PinSlots
    /\ \A i \in DOMAIN stream :
          /\ stream[i].op = "copy" => stream[i].slot \in PinSlots
          /\ Armed(stream[i]) /\ i # 1 => stream[i - 1].op = "copy"

\* The copy for a step that was not left.
Live(c) ==
    /\ c \in DOMAIN stream /\ stream[c].op = "copy"
    /\ c + 1 \in DOMAIN stream /\ Armed(stream[c + 1]) /\ stream[c + 1].ends

\* Its staging slot is the one before the next to be used; or a later step has
\* taken that one, and no other is enqueued before the copy is past the GPU.
PinInv ==
    \A c \in DOMAIN stream :
       Live(c) => \/ NextPin(stream[c].slot) = idx_pin_pos
                  \/ /\ Len(flights) = 2 /\ ~flights[1].done
                     /\ \A d \in Dones(stream) : c < d

\* An aborted step took all that fits: while it holds its rows, no other step
\* has samples, and the child is not triggered.
Held == UNION {flights[i].claims : i \in DOMAIN flights}

HoldInv ==
    /\ Held \subseteq Samples
    /\ \A i, j \in DOMAIN flights :
          flights[i].claims # {} /\ flights[j].claims # {} => i = j
    /\ Held # {} => /\ pc = "step" /\ child = "idle"
                    /\ \A S \in SUBSET Samples : Fits(S) => S = {}

\* The element k of the stream does what the element j did before.
Continues(k, j) ==
    \A p, r : /\ Touches(k, p, r)' <=> Touches(j, p, r)
              /\ Leaves(k, p, r)' = Leaves(j, p, r)

\* The indexes matter to none but the op.
LEMMA Independent ==
    ASSUME NEW o, ~Armed(o), NEW g, NEW h
    PROVE  WritesOf(o, g) = WritesOf(o, h)
  BY DEF Armed, WritesOf

\* An element that neither changed nor found other indexes does as before.
LEMMA ContinuesIf ==
    ASSUME NEW k, NEW j, config' = config, stream'[k] = stream[j],
           Armed(stream[j]) => Gathers(k)' = Gathers(j)
    PROVE  Continues(k, j)
  <1>1. WritesOf(stream'[k], Gathers(k)') = WritesOf(stream[j], Gathers(j))
    <2>1. CASE Armed(stream[j])
      BY <2>1
    <2>2. CASE ~Armed(stream[j])
      BY <2>2, Independent
    <2> QED BY <2>1, <2>2
  <1>2. SavesOf(config', stream'[k]) = SavesOf(config, stream[j])
    OBVIOUS
  <1> SUFFICES ASSUME NEW p, NEW r
               PROVE  /\ Touches(k, p, r)' <=> Touches(j, p, r)
                      /\ Leaves(k, p, r)' = Leaves(j, p, r)
    BY DEF Continues
  <1> QED BY <1>1, <1>2 DEF Touches, Leaves, Hits, Puts

\* The GPU takes the head: the others do what they would have done.
LEMMA OthersContinue ==
    ASSUME IsSeq(stream), stream # <<>>, stream' = Tail(stream), config' = config, PinType,
           Head(stream).op = "copy" => ft_idx' = idx_pin[Head(stream).slot],
           \A c \in DOMAIN stream' :
              stream'[c].op = "copy" => idx_pin'[stream'[c].slot] = idx_pin[stream'[c].slot]
    PROVE  \A k \in DOMAIN stream' : Continues(k, k + 1)
  <1>1. /\ 1 \in DOMAIN stream /\ Head(stream) = stream[1]
        /\ \A k \in DOMAIN stream' :
              k \in Nat \ {0} /\ k + 1 \in DOMAIN stream /\ stream'[k] = stream[k + 1]
        /\ \A k \in DOMAIN stream :
              k # 1 => k - 1 \in DOMAIN stream' /\ stream'[k - 1] = stream[k]
    BY TailPlaces
  <1> SUFFICES ASSUME NEW k \in DOMAIN stream', Armed(stream[k + 1])
               PROVE  Gathers(k)' = Gathers(k + 1)
    BY <1>1, ContinuesIf
  <1>2. k \in Nat \ {0} /\ k + 1 \in DOMAIN stream /\ (k + 1) - 1 = k /\ k + 1 # 1
    BY <1>1
  <1>3. stream[k].op = "copy"
    BY <1>2 DEF PinType
  <1>4. Gathers(k + 1) = idx_pin[stream[k].slot]
    BY <1>2 DEF Gathers
  <1>5. CASE k = 1
    <2>1. Gathers(k)' = ft_idx'
      BY <1>5 DEF Gathers
    <2> QED BY <1>1, <1>3, <1>4, <1>5, <2>1
  <1>6. CASE k # 1
    <2>1. k \in DOMAIN stream
      <3>1. k \in Nat /\ k # 0 /\ k + 1 \in DOMAIN stream /\ DOMAIN stream = 1 .. Len(stream)
            /\ Len(stream) \in Nat
        BY <1>2, IsSeqFacts
      <3> QED BY <3>1
    <2>2. k - 1 \in DOMAIN stream' /\ stream'[k - 1] = stream[k]
      BY <1>1, <1>6, <2>1
    <2>3. Gathers(k)' = idx_pin'[stream'[k - 1].slot]
      BY <1>6 DEF Gathers
    <2> QED BY <1>3, <1>4, <2>2, <2>3
  <1> QED BY <1>5, <1>6

\* ... and what was to come, still comes.
Executed == \A p \in Buffers(config), r \in 1 .. Capacity :
               rows'[p][r] = IF Touches(1, p, r) THEN Leaves(1, p, r) ELSE rows[p][r]

\* What an element has executed is there; what others were to do, they do.
LEMMA ComesOn ==
    ASSUME IsSeq(stream), stream # <<>>, stream' = Tail(stream), Executed,
           \A k \in DOMAIN stream' : Continues(k, k + 1),
           NEW p \in Buffers(config), NEW r \in 1 .. Capacity, NEW v, Comes(p, r, v)
    PROVE  Comes(p, r, v)'
  <1>1. /\ \A k \in DOMAIN stream' :
              k \in Nat \ {0} /\ k + 1 \in DOMAIN stream /\ stream'[k] = stream[k + 1]
        /\ \A k \in DOMAIN stream :
              k # 1 => k - 1 \in DOMAIN stream' /\ stream'[k - 1] = stream[k]
        /\ Len(stream') = Len(stream) - 1
    BY TailPlaces
  <1>2. /\ Len(stream) \in Nat /\ Len(stream) > 0 /\ DOMAIN stream = 1 .. Len(stream)
        /\ DOMAIN stream' = 1 .. Len(stream) - 1
    <2>1. IsSeq(stream')
      BY TailPlaces
    <2>2. /\ Len(stream) \in Nat /\ Len(stream) > 0 /\ DOMAIN stream = 1 .. Len(stream)
      BY IsSeqFacts
    <2>3. DOMAIN stream' = 1 .. Len(stream')
      BY <2>1, IsSeqFacts
    <2> QED BY <2>2, <2>3, <1>1
  <1> DEFINE n == Len(stream)
  <1>3. PICK i \in 0 .. n : Gives(i, p, r, v) /\ \A j \in i + 1 .. n : ~Touches(j, p, r)
    BY DEF Comes
  <1> HIDE DEF n
  <1>4. n \in Nat /\ n > 0 /\ DOMAIN stream' = 1 .. n - 1 /\ Len(stream') = n - 1
    BY <1>1, <1>2 DEF n
  <1>5. \A k \in 1 .. n - 1 : /\ Touches(k, p, r)' <=> Touches(k + 1, p, r)
                              /\ Leaves(k, p, r)' = Leaves(k + 1, p, r)
    BY <1>4 DEF Continues
  <1>6. rows'[p][r] = IF Touches(1, p, r) THEN Leaves(1, p, r) ELSE rows[p][r]
    BY DEF Executed
  <1>7. CASE i = 0
    <2>1. 1 \in i + 1 .. n /\ \A k \in 1 .. n - 1 : k + 1 \in i + 1 .. n
      BY <1>4, <1>7
    <2>2. rows'[p][r] = v
      BY <1>3, <1>6, <1>7, <2>1 DEF Gives
    <2>3. \A k \in 0 + 1 .. n - 1 : ~Touches(k, p, r)'
      BY <1>3, <1>5, <2>1
    <2> QED BY <1>4, <2>2, <2>3 DEF Comes, Gives
  <1>8. CASE i = 1
    <2>1. \A k \in 1 .. n - 1 : k + 1 \in i + 1 .. n
      BY <1>4, <1>8
    <2>2. rows'[p][r] = v
      BY <1>3, <1>6, <1>8 DEF Gives
    <2>3. \A k \in 0 + 1 .. n - 1 : ~Touches(k, p, r)'
      BY <1>3, <1>5, <2>1
    <2> QED BY <1>4, <2>2, <2>3 DEF Comes, Gives
  <1>9. CASE i # 0 /\ i # 1
    <2> DEFINE k == i - 1
    <2>1. k \in 1 .. n - 1 /\ k + 1 = i /\ k \in 0 .. n - 1 /\ k # 0 /\ i \in 1 .. n /\ k \in Nat
      BY <1>4, <1>9
    <2> HIDE DEF k
    <2>2. Kept(i) /\ Touches(i, p, r) /\ Leaves(i, p, r) = v
      BY <1>3, <1>9 DEF Gives
    <2>3. Touches(k, p, r)' /\ Leaves(k, p, r)' = v
      BY <1>5, <2>1, <2>2
    <2>4. Kept(k)'
      <3>1. stream'[k] = stream[i]
        BY <1>1, <1>4, <2>1
      <3>2. ASSUME NEW m \in DOMAIN stream, i < m, stream[m].op = "final"
            PROVE  \E m1 \in DOMAIN stream' : k < m1 /\ stream'[m1].op = "final"
        <4>1. m # 1 /\ m - 1 \in DOMAIN stream' /\ stream'[m - 1] = stream[m] /\ k < m - 1
          <5>1. m \in Nat /\ m # 1 /\ k < m - 1
            BY <1>2, <2>1, <3>2
          <5> QED BY <5>1, <1>1
        <4> QED BY <4>1, <3>2
      <3> QED BY <2>2, <3>1, <3>2 DEF Kept
    <2>5. ASSUME NEW j \in k + 1 .. n - 1 PROVE ~Touches(j, p, r)'
      <3>1. j \in 1 .. n - 1 /\ j + 1 \in i + 1 .. n
        BY <1>4, <2>1
      <3> QED BY <3>1, <1>3, <1>5
    <2>6. Gives(k, p, r, v)'
      BY <2>1, <2>3, <2>4 DEF Gives
    <2> QED BY <1>4, <2>1, <2>5, <2>6 DEF Comes
  <1> QED BY <1>7, <1>8, <1>9

\* More is enqueued: what was to come, still comes, if no more than before has
\* the row to do with.
LEMMA ComesStill ==
    ASSUME IsSeq(stream), IsSeq(stream'), Len(stream) <= Len(stream'), rows' = rows,
           \A i \in 1 .. Len(stream) : stream'[i] = stream[i],
           \A i \in 1 .. Len(stream) : Kept(i) => Continues(i, i),
           NEW p, NEW r, NEW v, Comes(p, r, v),
           \A j \in 1 .. Len(stream) : Touches(j, p, r)' => Touches(j, p, r),
           \A j \in Len(stream) + 1 .. Len(stream') : ~Touches(j, p, r)'
    PROVE  Comes(p, r, v)'
  <1> DEFINE n == Len(stream)
             m == Len(stream')
  <1>1. n \in Nat /\ m \in Nat /\ n <= m /\ DOMAIN stream = 1 .. n /\ DOMAIN stream' = 1 .. m
    BY IsSeqFacts
  <1>2. PICK i \in 0 .. n : Gives(i, p, r, v) /\ \A j \in i + 1 .. n : ~Touches(j, p, r)
    BY DEF Comes
  <1> HIDE DEF n, m
  <1>3. ASSUME NEW j \in i + 1 .. m PROVE ~Touches(j, p, r)'
    <2>1. CASE j <= n
      <3>1. j \in 1 .. n /\ j \in i + 1 .. n
        BY <1>1, <2>1
      <3> QED BY <3>1, <1>2 DEF n
    <2>2. CASE ~(j <= n)
      <3>1. j \in n + 1 .. m
        BY <1>1, <2>2
      <3> QED BY <3>1 DEF n, m
    <2> QED BY <2>1, <2>2
  <1>4. Gives(i, p, r, v)'
    <2>1. CASE i = 0
      BY <1>2, <2>1 DEF Gives
    <2>2. CASE i # 0
      <3>1. i \in 1 .. n /\ Kept(i) /\ Touches(i, p, r) /\ Leaves(i, p, r) = v
        BY <1>1, <1>2, <2>2 DEF Gives
      <3>2. Continues(i, i) /\ stream'[i] = stream[i]
        BY <3>1 DEF n
      <3>3. Touches(i, p, r)' /\ Leaves(i, p, r)' = v
        BY <3>1, <3>2 DEF Continues
      <3>4. Kept(i)'
        <4>1. \A k \in DOMAIN stream : k \in DOMAIN stream' /\ stream'[k] = stream[k]
          <5>1. \A k \in 1 .. n : k \in 1 .. m
            BY <1>1
          <5> QED BY <5>1, <1>1 DEF n
        <4> QED BY <3>1, <3>2, <4>1 DEF Kept
      <3> QED BY <2>2, <3>3, <3>4 DEF Gives
    <2> QED BY <2>1, <2>2
  <1>5. i \in 0 .. m
    BY <1>1
  <1> QED BY <1>3, <1>4, <1>5 DEF Comes, m

-----------------------------------------------------------------------------
(***************************************************************************)
(* The GPU.                                                                *)
(***************************************************************************)
\* A save changes the rows that it writes of the buffers that it fills, no others.
LEMMA SaveFacts ==
    ASSUME RowType, config' = config, NEW saves, NEW writes, Save(saves, writes)
    PROVE  /\ RowType'
           /\ \A p \in Buffers(config), r \in 1 .. Capacity :
                 rows'[p][r] = IF p \in DOMAIN saves /\ r \in DOMAIN writes
                               THEN IF saves[p] = p THEN writes[r] ELSE Other
                               ELSE rows[p][r]
  <1> DEFINE B == Buffers(config)
             New(p) == [r \in 1 .. Capacity |->
                          IF r \notin DOMAIN writes THEN rows[p][r]
                          ELSE IF saves[p] = p THEN writes[r] ELSE Other]
  <1>1. rows' = [p \in B |-> IF p \in DOMAIN saves THEN New(p) ELSE rows[p]]
    BY DEF Save, RowType
  <1>2. \A p \in B : rows[p] = [r \in 1 .. Capacity |-> rows[p][r]]
    BY DEF RowType
  <1>3. ASSUME NEW p \in B
        PROVE  /\ rows'[p] = [r \in 1 .. Capacity |-> rows'[p][r]]
               /\ \A r \in 1 .. Capacity :
                    rows'[p][r] = IF p \in DOMAIN saves /\ r \in DOMAIN writes
                                  THEN IF saves[p] = p THEN writes[r] ELSE Other
                                  ELSE rows[p][r]
    <2>1. CASE p \in DOMAIN saves
      <3>1. rows'[p] = New(p)
        BY <1>1, <2>1
      <3> QED BY <2>1, <3>1
    <2>2. CASE p \notin DOMAIN saves
      <3>1. rows'[p] = rows[p]
        BY <1>1, <2>2
      <3> QED BY <1>2, <2>2, <3>1
    <2> QED BY <2>1, <2>2
  <1>4. DOMAIN rows' = B /\ Buffers(config') = B /\ config' \in SaveConfig
    BY <1>1 DEF RowType
  <1> HIDE DEF B
  <1> QED BY <1>3, <1>4 DEF RowType, B

\* What the head of the stream does to the rows is what was foreseen.
LEMMA HeadExecuted ==
    ASSUME RowType, IsSeq(stream), Gpu
    PROVE  RowType' /\ Executed
  <1>1. stream # <<>> /\ Head(stream) = stream[1] /\ config' = config
    BY IsSeqFacts DEF Gpu, ExecCopy, ExecForward, ExecFinal, ExecZero, ExecDone, Executes
  <1> DEFINE o == stream[1]
             s == SavesOf(config, o)
             w == WritesOf(o, ft_idx)
  <1>2. Gathers(1) = ft_idx
    BY DEF Gathers
  <1>3. ASSUME Save(s, w) PROVE RowType' /\ Executed
    <2>1. /\ RowType'
          /\ \A p \in Buffers(config), r \in 1 .. Capacity :
                rows'[p][r] = IF p \in DOMAIN s /\ r \in DOMAIN w
                              THEN IF s[p] = p THEN w[r] ELSE Other ELSE rows[p][r]
      <3> HIDE DEF s, w
      <3> QED BY <1>1, <1>3, SaveFacts
    <2> QED BY <1>2, <2>1 DEF Executed, Touches, Leaves, Hits, Puts
  <1>4. ASSUME rows' = rows, o.op \in {"copy", "done"} PROVE RowType' /\ Executed
    <2>1. s = <<>>
      BY <1>4 DEF SavesOf
    <2>2. \A p, r : ~Touches(1, p, r)
      BY <1>2, <2>1 DEF Touches, Hits
    <2>3. RowType'
      BY <1>1, <1>4 DEF RowType
    <2> QED BY <1>4, <2>2, <2>3 DEF Executed
  <1>5. CASE ExecCopy \/ ExecDone
    BY <1>1, <1>4, <1>5 DEF ExecCopy, ExecDone, Executes
  <1>6. CASE ExecForward
    <2>1. /\ o.op = "forward"
          /\ IF o.flat # <<>> THEN Save(OpSaves(config, o.points), OpWrites(ft_idx, o.flat))
             ELSE Save(HookSaves(config, o.points), o.writes)
      BY <1>1, <1>6 DEF ExecForward, Executes
    <2>2. Save(s, w)
      BY <2>1 DEF SavesOf, WritesOf
    <2> QED BY <1>3, <2>2
  <1>7. CASE ExecFinal
    <2>1. o.op = "final" /\ Save(Each(FinalBuffers(config)), o.writes)
      BY <1>1, <1>7 DEF ExecFinal, Executes
    <2>2. Save(s, w)
      BY <2>1 DEF SavesOf, WritesOf
    <2> QED BY <1>3, <2>2
  <1>8. CASE ExecZero
    <2>1. o.op = "zero" /\ Save(Each(Buffers(config)), [r \in o.zeroed |-> Zero])
      BY <1>1, <1>8 DEF ExecZero, Executes, RowType
    <2>2. Save(s, w)
      BY <2>1 DEF SavesOf, WritesOf
    <2> QED BY <1>3, <2>2
  <1> QED BY <1>5, <1>6, <1>7, <1>8 DEF Gpu

\* A staging slot is kept until the last of its copies is done.
LEMMA PinsKept ==
    ASSUME PinType, IsSeq(stream), Gpu
    PROVE  /\ PinType' /\ idx_pin_pos' = idx_pin_pos
           /\ Head(stream).op = "copy" => ft_idx' = idx_pin[Head(stream).slot]
           /\ \A c \in DOMAIN stream' :
                 stream'[c].op = "copy"
                    => idx_pin'[stream'[c].slot] = idx_pin[stream'[c].slot]
  <1>1. stream # <<>> /\ stream' = Tail(stream)
    BY DEF Gpu, ExecCopy, ExecForward, ExecFinal, ExecZero, ExecDone, Executes
  <1>2. /\ 1 \in DOMAIN stream /\ Head(stream) = stream[1]
        /\ \A k \in DOMAIN stream' :
              k \in Nat \ {0} /\ k + 1 \in DOMAIN stream /\ stream'[k] = stream[k + 1]
        /\ \A k \in DOMAIN stream :
              k # 1 => k - 1 \in DOMAIN stream' /\ stream'[k - 1] = stream[k]
        /\ DOMAIN stream = 1 .. Len(stream) /\ Len(stream) \in Nat
    BY <1>1, TailPlaces, IsSeqFacts
  <1>3. /\ \A i \in DOMAIN stream' : stream'[i].op = "copy" => stream'[i].slot \in PinSlots
        /\ \A i \in DOMAIN stream' :
              Armed(stream'[i]) /\ i # 1 => stream'[i - 1].op = "copy"
    <2>1. \A i \in DOMAIN stream' : stream'[i].op = "copy" => stream'[i].slot \in PinSlots
      BY <1>2 DEF PinType
    <2>2. ASSUME NEW i \in DOMAIN stream', Armed(stream'[i]), i # 1
          PROVE  stream'[i - 1].op = "copy"
      <3>1. i + 1 \in DOMAIN stream /\ i + 1 # 1 /\ (i + 1) - 1 = i /\ i \in DOMAIN stream
        <4>1. i \in Nat \ {0} /\ i + 1 \in 1 .. Len(stream)
          BY <1>2
        <4>2. i \in 1 .. Len(stream)
          BY <4>1, <1>2
        <4> QED BY <4>1, <4>2, <1>2
      <3>2. stream[i].op = "copy"
        BY <1>2, <2>2, <3>1 DEF PinType
      <3> QED BY <1>2, <2>2, <3>1, <3>2
    <2> QED BY <2>1, <2>2
  <1>4. CASE ExecCopy
    <2> DEFINE h == Head(stream).slot
    <2>1. /\ Head(stream).op = "copy" /\ ft_idx' = idx_pin[h] /\ idx_pin_pos' = idx_pin_pos
          /\ idx_pin' = IF CopyPending(h, stream') THEN idx_pin
                        ELSE [idx_pin EXCEPT ![h] = ScratchOnly]
      BY <1>1, <1>4 DEF ExecCopy, Executes
    <2>2. DOMAIN idx_pin' = PinSlots
      BY <2>1 DEF PinType
    <2>3. ASSUME NEW c \in DOMAIN stream', stream'[c].op = "copy"
          PROVE  idx_pin'[stream'[c].slot] = idx_pin[stream'[c].slot]
      <3>1. stream'[c].slot \in PinSlots
        BY <1>3, <2>3
      <3>2. CASE stream'[c].slot = h
        <4>1. CopyPending(h, stream')
          BY <2>3, <3>2 DEF CopyPending
        <4> QED BY <2>1, <4>1
      <3>3. CASE stream'[c].slot # h
        <4> HIDE DEF h
        <4> QED BY <2>1, <3>1, <3>3 DEF PinType
      <3> QED BY <3>2, <3>3
    <2> QED BY <1>3, <2>1, <2>2, <2>3 DEF PinType
  <1>5. CASE ExecForward \/ ExecFinal \/ ExecZero \/ ExecDone
    <2>1. Head(stream).op # "copy" /\ idx_pin' = idx_pin /\ idx_pin_pos' = idx_pin_pos
      BY <1>5 DEF ExecForward, ExecFinal, ExecZero, ExecDone, Executes, pin_vars
    <2> QED BY <1>3, <2>1 DEF PinType
  <1> QED BY <1>4, <1>5 DEF Gpu

\* The account, the claims and the settings are not the GPU's.
LEMMA GpuLeaves ==
    ASSUME FlightType, Gpu
    PROVE  /\ UNCHANGED <<config, pc, coord_vars>>
           /\ DOMAIN flights' = DOMAIN flights /\ Len(flights') = Len(flights)
           /\ \A i \in DOMAIN flights : flights'[i].claims = flights[i].claims
           /\ Head(stream).op # "done" => flights' = flights
  <1>1. UNCHANGED <<config, pc, coord_vars>>
    BY DEF Gpu, ExecCopy, ExecForward, ExecFinal, ExecZero, ExecDone, Executes
  <1>2. CASE ExecDone
    <2>1. \E i : flights' = [flights EXCEPT ![i].done = TRUE]
      BY <1>2 DEF ExecDone
    <2>2. PICK i : flights' = [flights EXCEPT ![i].done = TRUE]
      BY <2>1
    <2>3. /\ DOMAIN flights' = DOMAIN flights
          /\ \A k \in DOMAIN flights : flights'[k].claims = flights[k].claims
      BY <2>2 DEF FlightType
    <2>4. IsSeq(flights')
      <3> DEFINE n == Len(flights)
      <3>1. n \in Nat /\ DOMAIN flights = 1 .. n
        BY IsSeqFacts DEF FlightType
      <3>2. flights' = [k \in 1 .. n |-> flights'[k]]
        BY <2>2, <3>1
      <3> HIDE DEF n
      <3> QED BY <2>3, <3>1, <3>2, FunSeq
    <2>5. Len(flights') = Len(flights)
      <3>1. /\ DOMAIN flights' = 1 .. Len(flights') /\ Len(flights') \in Nat
            /\ DOMAIN flights = 1 .. Len(flights) /\ Len(flights) \in Nat
        BY <2>4, IsSeqFacts DEF FlightType
      <3> DEFINE m == Len(flights')
                 n == Len(flights)
      <3>2. 1 .. m = 1 .. n /\ m \in Nat /\ n \in Nat
        BY <2>3, <3>1
      <3> HIDE DEF m, n
      <3>3. m = n
        BY <3>2
      <3> QED BY <3>3 DEF m, n
    <2>6. Head(stream).op = "done"
      BY <1>2 DEF ExecDone, Executes
    <2> QED BY <1>1, <2>3, <2>5, <2>6
  <1>3. CASE ExecCopy \/ ExecForward \/ ExecFinal \/ ExecZero
    <2>1. flights' = flights
      BY <1>3 DEF ExecCopy, ExecForward, ExecFinal, ExecZero
    <2> QED BY <1>1, <2>1
  <1> QED BY <1>2, <1>3 DEF Gpu

\* What an aborted step holds does not depend on the others.
LEMMA HoldStays ==
    ASSUME HoldInv, DOMAIN flights' = DOMAIN flights,
           \A i \in DOMAIN flights : flights'[i].claims = flights[i].claims,
           UNCHANGED <<fill, buffer_samples>>,
           Held # {} => UNCHANGED <<pc, child>>
    PROVE  HoldInv'
  <1>1. Held' = Held
    BY DEF Held
  <1>2. Claimed' = Claimed /\ Space' = Space
    BY <1>1 DEF Claimed, Space, Reserved, Held
  <1>3. \A S : Fits(S)' <=> Fits(S)
    BY <1>2 DEF Fits
  <1>4. \A i, j \in DOMAIN flights' :
           flights'[i].claims # {} /\ flights'[j].claims # {} => i = j
    BY DEF HoldInv
  <1>5. Held # {} => pc' = pc /\ child' = child
    OBVIOUS
  <1> QED BY <1>1, <1>3, <1>4, <1>5 DEF HoldInv

\* The GPU executes the head of the stream: what was to come into the buffers is
\* there or still comes, and a staging slot is kept until it is copied.
LEMMA GpuKeepsRows ==
    ASSUME FlightType, IsSeq(stream), RowType, PinType, PinInv, HoldInv, ReadingInv, RowInv, Gpu
    PROVE  RowType' /\ PinType' /\ PinInv' /\ HoldInv' /\ ReadingInv' /\ RowInv'
  <1>1. stream # <<>> /\ stream' = Tail(stream)
    BY DEF Gpu, ExecCopy, ExecForward, ExecFinal, ExecZero, ExecDone, Executes
  <1>2. /\ 1 \in DOMAIN stream /\ Head(stream) = stream[1]
        /\ \A k \in DOMAIN stream' :
              k \in Nat \ {0} /\ k + 1 \in DOMAIN stream /\ stream'[k] = stream[k + 1]
    BY <1>1, TailPlaces
  <1>3. /\ UNCHANGED <<config, pc, coord_vars>>
        /\ DOMAIN flights' = DOMAIN flights /\ Len(flights') = Len(flights)
        /\ \A i \in DOMAIN flights : flights'[i].claims = flights[i].claims
        /\ Head(stream).op # "done" => flights' = flights
    BY GpuLeaves
  <1>4. RowType' /\ Executed
    BY HeadExecuted
  <1>5. /\ PinType' /\ idx_pin_pos' = idx_pin_pos
        /\ Head(stream).op = "copy" => ft_idx' = idx_pin[Head(stream).slot]
        /\ \A c \in DOMAIN stream' :
              stream'[c].op = "copy"
                 => idx_pin'[stream'[c].slot] = idx_pin[stream'[c].slot]
    BY PinsKept
  <1>6. \A k \in DOMAIN stream' : Continues(k, k + 1)
    BY <1>1, <1>3, <1>5, OthersContinue
  <1>7. HoldInv'
    BY <1>3, HoldStays DEF coord_vars
  <1>8. ReadingInv'
    BY <1>2, <1>3 DEF ReadingInv, coord_vars
  <1>9. PinInv'
    <2> SUFFICES ASSUME NEW c \in DOMAIN stream', Live(c)'
                 PROVE  \/ NextPin(stream'[c].slot) = idx_pin_pos
                        \/ /\ Len(flights') = 2 /\ ~flights'[1].done
                           /\ \A d \in Dones(stream') : c < d
      BY <1>5 DEF PinInv, NextPin
    <2>1. c \in Nat \ {0} /\ c + 1 \in DOMAIN stream /\ Live(c + 1) /\ stream'[c] = stream[c + 1]
      BY <1>2 DEF Live
    <2>2. CASE NextPin(stream[c + 1].slot) = idx_pin_pos
      BY <2>1, <2>2
    <2>3. CASE /\ Len(flights) = 2 /\ ~flights[1].done
               /\ \A d \in Dones(stream) : c + 1 < d
      <3>1. Head(stream).op # "done"
        <4> SUFFICES ASSUME stream[1].op = "done" PROVE FALSE
          BY <1>2
        <4>1. 1 \in Dones(stream)
          BY <1>2 DEF Dones
        <4>2. c + 1 < 1
          BY <2>3, <4>1
        <4> QED BY <2>1, <4>2
      <3>2. \A d \in Dones(stream') : d \in Nat /\ d + 1 \in Dones(stream)
        BY <1>2 DEF Dones
      <3>3. \A d \in Dones(stream') : c < d
        BY <2>1, <2>3, <3>2
      <3> QED BY <1>3, <2>3, <3>1, <3>3
    <2> QED BY <2>1, <2>2, <2>3 DEF PinInv
  <1>10. RowInv'
    <2>1. PICK order \in Seq(Samples) : Saved(order)
      BY DEF RowInv
    <2>2. ASSUME NEW p \in Buffers(config), NEW r \in 1 .. fill
          PROVE  Comes(p, r, Flat(order)[r])'
      <3>1. fill \in Nat
        <4>1. Flat(order) \in Seq(Samples \X Nat)
          BY FlatType DEF Requests
        <4> QED BY <2>1, <4>1, LenProperties DEF Saved
      <3>2. r \in 1 .. Capacity
        BY <2>1, <3>1, ModelRunnerAssumption DEF Saved
      <3> DEFINE v == Flat(order)[r]
      <3>3. Comes(p, r, v)
        BY <2>1 DEF Saved
      <3> HIDE DEF v
      <3>4. Comes(p, r, v)'
        BY <1>1, <1>4, <1>6, <3>2, <3>3, ComesOn
      <3> QED BY <3>4 DEF v
    <2>3. Saved(order)'
      BY <1>3, <2>1, <2>2 DEF Saved, coord_vars
    <2> QED BY <2>3 DEF RowInv
  <1> QED BY <1>4, <1>5, <1>7, <1>8, <1>9, <1>10

-----------------------------------------------------------------------------
(***************************************************************************)
(* The host, but for the steps it enqueues.                                *)
(***************************************************************************)
\* What touches neither the stream nor the account leaves the rows as they are.
LEMMA RowsStill ==
    ASSUME RowInv, UNCHANGED <<config, fill, sample_lens, buffer_samples, stream,
                               rows, ft_idx, idx_pin>>
    PROVE  RowInv'
  <1>1. PICK order \in Seq(Samples) : Saved(order)
    BY DEF RowInv
  <1>2. \A j, p, r : /\ Touches(j, p, r)' <=> Touches(j, p, r)
                     /\ Leaves(j, p, r)' = Leaves(j, p, r)
    BY DEF Touches, Leaves, Gathers
  <1>3. \A i : Kept(i)' <=> Kept(i)
    BY DEF Kept
  <1>4. \A i, p, r, v : Gives(i, p, r, v)' <=> Gives(i, p, r, v)
    BY <1>2, <1>3 DEF Gives
  <1>5. \A p, r, v : Comes(p, r, v)' <=> Comes(p, r, v)
    BY <1>2, <1>4 DEF Comes
  <1>6. Saved(order)'
    BY <1>1, <1>5 DEF Saved
  <1> QED BY <1>6 DEF RowInv

\* The oldest step's output is processed, and an aborted step gives back what it
\* held (update_from_output).
LEMMA UpdateKeepsRows ==
    ASSUME FlightType, RowType, PinType, PinInv, HoldInv, ReadingInv, RowInv,
           UpdateFromOutput
    PROVE  RowType' /\ PinType' /\ PinInv' /\ HoldInv' /\ ReadingInv' /\ RowInv'
  <1>1. /\ flights # <<>> /\ Head(flights).done /\ flights' = Tail(flights)
        /\ UNCHANGED <<config, pc, fill, sample_lens, buffer_samples, child, ft_idx,
                       stream, rows, idx_pin, idx_pin_pos>>
    BY DEF UpdateFromOutput, coord_vars, pin_vars
  <1>2. /\ 1 \in DOMAIN flights /\ Head(flights) = flights[1]
        /\ \A k \in DOMAIN flights' :
              k \in Nat \ {0} /\ k + 1 \in DOMAIN flights /\ flights'[k] = flights[k + 1]
        /\ \A k \in DOMAIN flights :
              k # 1 => k - 1 \in DOMAIN flights' /\ flights'[k - 1] = flights[k]
    BY <1>1, TailPlaces DEF FlightType
  <1>3. RowType' /\ PinType' /\ ReadingInv'
    BY <1>1 DEF RowType, PinType, ReadingInv
  <1>4. RowInv'
    BY <1>1, RowsStill
  <1>5. PinInv'
    <2> SUFFICES ASSUME NEW c \in DOMAIN stream, Live(c)
                 PROVE  NextPin(stream[c].slot) = idx_pin_pos
      BY <1>1 DEF PinInv, Live, NextPin
    <2> QED BY <1>1, <1>2 DEF PinInv
  <1>6. HoldInv'
    <2>1. \A i, j \in DOMAIN flights' :
             flights'[i].claims # {} /\ flights'[j].claims # {} => i = j
      <3> SUFFICES ASSUME NEW i \in DOMAIN flights', NEW j \in DOMAIN flights',
                          flights'[i].claims # {}, flights'[j].claims # {}
                   PROVE  i = j
        OBVIOUS
      <3>1. i + 1 = j + 1
        BY <1>2 DEF HoldInv
      <3>2. i \in Nat /\ j \in Nat
        BY <1>2
      <3> QED BY <3>1, <3>2
    <2>2. Held' \subseteq Held
      BY <1>2 DEF Held
    <2>3. ASSUME Held' # {} PROVE Held' = Held
      <3>1. PICK i \in DOMAIN flights' : flights'[i].claims # {}
        BY <2>3 DEF Held
      <3>2. i + 1 \in DOMAIN flights /\ flights[i + 1].claims # {} /\ i + 1 # 1
        BY <1>2, <3>1
      <3>3. flights[1].claims = {}
        BY <1>2, <3>2 DEF HoldInv
      <3>4. \A k \in DOMAIN flights : flights[k].claims \subseteq Held'
        <4> SUFFICES ASSUME NEW k \in DOMAIN flights, k # 1
                     PROVE  flights[k].claims \subseteq Held'
          BY <3>3
        <4>1. k - 1 \in DOMAIN flights' /\ flights'[k - 1] = flights[k]
          BY <1>2
        <4> QED BY <4>1 DEF Held
      <3>5. Held \subseteq Held'
        BY <3>4 DEF Held
      <3> QED BY <2>2, <3>5
    <2>4. ASSUME Held' # {}, NEW S \in SUBSET Samples, Fits(S)' PROVE S = {}
      <3>1. Held' = Held
        BY <2>3, <2>4
      <3>2. Claimed' = Claimed /\ Space' = Space
        BY <1>1, <3>1 DEF Claimed, Space, Reserved, Held
      <3>3. Fits(S)
        BY <2>4, <3>2 DEF Fits
      <3> QED BY <2>4, <3>1, <3>3 DEF HoldInv
    <2>5. Held' # {} => pc' = "step" /\ child' = "idle"
      BY <1>1, <2>2 DEF HoldInv
    <2>6. Held' \subseteq Samples
      BY <2>2 DEF HoldInv
    <2> QED BY <2>1, <2>4, <2>5, <2>6 DEF HoldInv
  <1> QED BY <1>3, <1>4, <1>5, <1>6

\* The child is triggered once the copies are past the GPU: no step holds
\* samples, and nothing is to come (capture_done_evt).
LEMMA TriggerKeepsRows ==
    ASSUME RowType, PinType, PinInv, HoldInv, ReadingInv, RowInv,
           TriggerBackward \/ SendWork
    PROVE  RowType' /\ PinType' /\ PinInv' /\ HoldInv' /\ ReadingInv' /\ RowInv'
  <1>1. UNCHANGED <<config, flights, fill, sample_lens, buffer_samples, ft_idx, stream,
                    rows, idx_pin, idx_pin_pos>>
    BY DEF TriggerBackward, SendWork, coord_vars, pin_vars
  <1>2. Held = {}
    <2>1. CASE TriggerBackward
      <3>1. Tokens(Held) = 0
        BY <2>1 DEF TriggerBackward, Reserved, Held
      <3>2. Held \in SUBSET Samples
        BY DEF HoldInv
      <3> QED BY <3>1, <3>2, TokensSome
    <2>2. CASE SendWork
      BY <2>2 DEF SendWork, HoldInv
    <2> QED BY <2>1, <2>2
  <1>3. HoldInv'
    BY <1>1, <1>2, HoldStays
  <1>4. ReadingInv'
    BY DEF TriggerBackward, SendWork, ReadingInv, CaptureDone, coord_vars
  <1>5. RowType' /\ PinType' /\ PinInv'
    BY <1>1 DEF RowType, PinType, PinInv, Live, NextPin
  <1>6. RowInv'
    BY <1>1, RowsStill
  <1> QED BY <1>3, <1>4, <1>5, <1>6

\* No sample is accounted for: nothing is promised of any row.
Emptied == buffer_samples = {} /\ sample_lens = <<>> /\ fill = 0

\* Nothing accounted for, nothing to be found in the buffers.
LEMMA NothingSaved == Emptied => RowInv
  <1> SUFFICES ASSUME Emptied PROVE RowInv
    OBVIOUS
  <1> DEFINE e == <<>>
  <1>1. e \in Seq(Samples) /\ Len(e) = 0 /\ DOMAIN e = {}
    BY EmptySeq
  <1>2. Flat(e) = <<>> /\ Len(<<>>) = 0
    BY FlatEmpty
  <1>3. sample_lens = [i \in DOMAIN e |-> SampleLen[e[i]]]
    BY DEF Emptied
  <1>4. OneEach(e) /\ ToSet(e) = {}
    BY <1>1 DEF OneEach, ToSet
  <1>5. 0 <= Capacity /\ 1 .. 0 = {}
    BY ModelRunnerAssumption
  <1> HIDE DEF e
  <1>6. Saved(e)
    BY <1>2, <1>3, <1>4, <1>5 DEF Saved, Emptied
  <1> QED BY <1>1, <1>6 DEF RowInv

\* The same of the next state.
LEMMA NothingSavedNext == Emptied' => RowInv'
  BY NothingSaved, PTL

\* The child is done: the buffers are zeroed and the account starts again.
LEMMA BackwardKeepsRows ==
    ASSUME RowType, PinType, PinInv, HoldInv, BackwardDone
    PROVE  RowType' /\ PinType' /\ PinInv' /\ HoldInv' /\ ReadingInv' /\ RowInv'
  <1>1. /\ UNCHANGED <<config, pc, flights, ft_idx, stream, idx_pin, idx_pin_pos>>
        /\ child = "reading" /\ child' = "idle"
        /\ fill' = 0 /\ sample_lens' = <<>> /\ buffer_samples' = {}
        /\ rows' = [p \in DOMAIN rows |-> [r \in 1 .. Capacity |-> Zero]]
    BY DEF BackwardDone, host_vars, pin_vars
  <1>2. Held = {} /\ Held' = {}
    BY <1>1 DEF HoldInv, Held
  <1>3. HoldInv'
    BY <1>1, <1>2 DEF HoldInv
  <1>4. PinType' /\ PinInv' /\ ReadingInv'
    BY <1>1 DEF PinType, PinInv, Live, NextPin, ReadingInv
  <1>5. RowType'
    BY <1>1 DEF RowType
  <1>6. RowInv'
    <2>1. Emptied'
      BY <1>1 DEF Emptied
    <2> QED BY <2>1, NothingSavedNext
  <1> QED BY <1>3, <1>4, <1>5, <1>6

-----------------------------------------------------------------------------
(***************************************************************************)
(* The batch of a step.                                                    *)
(***************************************************************************)
\* What the samples S of a batch have in common: they are new, and they fit
\* behind the rows that are saved, of which an aborted step has none.
Takes(batch, S) ==
    /\ batch \in Seq(Requests) /\ OneEach(batch)
    /\ S \in SUBSET Samples /\ S \cap Claimed = {}
    /\ FtOf(batch) \in Seq(Samples) /\ OneEach(FtOf(batch)) /\ ToSet(FtOf(batch)) = S
    /\ Tokens(S) \in Nat /\ Len(Flat(FtOf(batch))) = Tokens(S)
    /\ S # {} => /\ child = "idle" /\ Held = {} /\ Reserved = 0
                 /\ Tokens(S) <= Capacity - fill
    /\ HasFt(batch) <=> S # {}
    /\ FtOnly(batch) => S # {} /\ ToSet(batch) = S /\ Filled(S)

\* What the schedulers send to the runner (schedule of tiers A and B).
LEMMA BatchTakes ==
    ASSUME HoldInv, fill \in Nat, NEW batch \in Batches
    PROVE  \E S : Takes(batch, S)
  <1>1. PICK S \in Fillable :
           \/ batch \in SetToSeqs(S \union {Inference})
           \/ batch \in SetToSeqs(S) /\ S # {} /\ Filled(S)
    <2> DEFINE A == UNION {SetToSeqs(S \union {Inference}) : S \in Fillable}
               B == UNION {SetToSeqs(S) : S \in {S \in Fillable : S # {} /\ Filled(S)}}
    <2>1. CASE batch \in A
      BY <2>1
    <2>2. CASE batch \in B
      BY <2>2
    <2>3. batch \in A \union (IF arrival THEN {} ELSE B)
      BY DEF Batches
    <2>4. batch \in A \/ batch \in B
      <3> HIDE DEF A, B
      <3>1. CASE arrival
        BY <2>3, <3>1
      <3>2. CASE ~arrival
        BY <2>3, <3>2
      <3> QED BY <3>1, <3>2
    <2> QED BY <2>1, <2>2, <2>4
  <1>2. /\ S \in SUBSET Samples /\ S \cap Claimed = {}
        /\ S # {} => child = "idle" /\ Fits(S)
    BY <1>1 DEF Fillable, Fits
  <1>3. Inference \notin S /\ IsFiniteSet(S) /\ IsFiniteSet(S \union {Inference})
    <2>1. Inference \notin S
      BY <1>2, ModelRunnerAssumption DEF Inference
    <2>2. IsFiniteSet(S)
      BY <1>2, FS_Subset, ModelRunnerAssumption
    <2> QED BY <2>1, <2>2, FS_AddElement
  <1>4. PICK T : /\ T = S \union {Inference} \/ (T = S /\ S # {} /\ Filled(S))
                 /\ batch \in SetToSeqs(T) /\ IsFiniteSet(T)
    BY <1>1, <1>3
  <1>5. batch \in Seq(T) /\ OneEach(batch) /\ ToSet(batch) = T
    BY <1>4, Enumerated
  <1>6. batch \in Seq(Requests)
    <2>1. T \subseteq Requests
      BY <1>2, <1>4 DEF Requests
    <2> QED BY <1>5, <2>1, SeqMonotonic
  <1>7. /\ FtOf(batch) \in Seq(Samples) /\ OneEach(FtOf(batch))
        /\ ToSet(FtOf(batch)) = T \ {Inference}
    BY <1>5, <1>6, FtOfFacts
  <1>8. T \ {Inference} = S
    BY <1>3, <1>4
  <1>9. Len(Flat(FtOf(batch))) = Tokens(S)
    <2>1. Len(Flat(FtOf(batch))) = Tokens(ToSet(FtOf(batch)))
      BY <1>7, FlatLength
    <2> QED BY <2>1, <1>7, <1>8
  <1>10. Tokens(S) \in Nat /\ Tokens({}) = 0
    BY <1>2, TokensSome
  <1>11. S # {} => Held = {} /\ Reserved = 0 /\ Tokens(S) <= Capacity - fill
    <2> SUFFICES ASSUME S # {} PROVE Held = {} /\ Reserved = 0 /\ Tokens(S) <= Capacity - fill
      OBVIOUS
    <2>1. Held = {}
      BY <1>2 DEF HoldInv
    <2>2. Reserved = 0
      BY <2>1, <1>10 DEF Reserved, Held
    <2>3. Tokens(S) <= Capacity - fill - Reserved
      BY <1>2 DEF Fits, Space
    <2>4. Capacity - fill - 0 = Capacity - fill
      BY ModelRunnerAssumption
    <2> QED BY <2>1, <2>2, <2>3, <2>4
  <1>12. HasFt(batch) <=> S # {}
    <2>1. HasFt(batch) <=> \E x \in ToSet(batch) : x # Inference
      BY DEF HasFt, ToSet
    <2> QED BY <2>1, <1>5, <1>8
  <1>13. FtOnly(batch) => S # {} /\ ToSet(batch) = S /\ Filled(S)
    <2>1. FtOnly(batch) => Inference \notin ToSet(batch)
      BY DEF FtOnly, ToSet
    <2> QED BY <2>1, <1>4, <1>5
  <1>14. Takes(batch, S)
    BY <1>2, <1>5, <1>6, <1>7, <1>8, <1>9, <1>10, <1>11, <1>12, <1>13 DEF Takes
  <1> QED BY <1>14

-----------------------------------------------------------------------------
(***************************************************************************)
(* What a step enqueues, place by place.                                   *)
(***************************************************************************)
CopyOp == [op |-> "copy", slot |-> idx_pin_pos]
ForwardPlace(batch) == Len(stream) + (IF Mode(batch) = "has_ft" THEN 2 ELSE 1)

\* The queue q goes on behind the stream with the step's copy, if it has one,
\* and its forward f.
Begun(q, batch, f) ==
    /\ IsSeq(q) /\ ForwardPlace(batch) \in Nat /\ ForwardPlace(batch) <= Len(q)
    /\ \A i \in 1 .. Len(stream) : q[i] = stream[i]
    /\ Mode(batch) = "has_ft" => q[Len(stream) + 1] = CopyOp
    /\ q[ForwardPlace(batch)] = f

\* What every step puts on the stream first.
LEMMA StepBegins ==
    ASSUME IsSeq(stream), NEW batch, NEW f
    PROVE  /\ Begun(stream \o Arm(batch) \o <<f>>, batch, f)
           /\ Len(stream \o Arm(batch) \o <<f>>) = ForwardPlace(batch)
  <1> DEFINE A == Arm(batch)
             F == <<f>>
             c == stream \o A
             d == c \o F
  <1>1. /\ IsSeq(A) /\ Len(A) = (IF Mode(batch) = "has_ft" THEN 1 ELSE 0)
        /\ Mode(batch) = "has_ft" => A[1] = CopyOp
    <2>1. CASE Mode(batch) = "has_ft"
      <3>1. A = <<CopyOp>>
        BY <2>1 DEF Arm, CopyOp
      <3> HIDE DEF A
      <3> QED BY <2>1, <3>1, OneFacts
    <2>2. CASE Mode(batch) # "has_ft"
      <3>1. A = <<>>
        BY <2>2 DEF Arm
      <3> HIDE DEF A
      <3> QED BY <2>2, <3>1, OneFacts
    <2> QED BY <2>1, <2>2
  <1>2. IsSeq(F) /\ Len(F) = 1 /\ F[1] = f
    BY OneFacts
  <1>3. Len(stream) \in Nat
    BY IsSeqFacts
  <1> HIDE DEF A, F
  <1>4. /\ IsSeq(c) /\ Len(c) = Len(stream) + Len(A)
        /\ \A i \in 1 .. Len(stream) : c[i] = stream[i]
        /\ \A i \in 1 .. Len(A) : c[Len(stream) + i] = A[i]
    <2>1. IsSeq(stream) /\ IsSeq(A)
      BY <1>1
    <2> QED BY <2>1, ConcatFacts
  <1> HIDE DEF c
  <1>5. /\ IsSeq(d) /\ Len(d) = Len(c) + Len(F)
        /\ \A i \in 1 .. Len(c) : d[i] = c[i]
        /\ \A i \in 1 .. Len(F) : d[Len(c) + i] = F[i]
    <2>1. IsSeq(c) /\ IsSeq(F)
      BY <1>2, <1>4
    <2> QED BY <2>1, ConcatFacts
  <1> HIDE DEF d
  <1>6. Begun(d, batch, f) /\ Len(d) = ForwardPlace(batch)
    <2>1. CASE Mode(batch) = "has_ft"
      <3>1. Len(c) = Len(stream) + 1 /\ Len(d) = Len(stream) + 2 /\ ForwardPlace(batch) = Len(stream) + 2
        BY <1>1, <1>2, <1>3, <1>4, <1>5, <2>1 DEF ForwardPlace
      <3>2. /\ 1 \in 1 .. Len(A) /\ Len(stream) + 1 \in 1 .. Len(c) /\ 1 \in 1 .. Len(F)
            /\ Len(c) + 1 = Len(stream) + 2
            /\ \A i \in 1 .. Len(stream) : i \in 1 .. Len(c)
        BY <1>1, <1>2, <1>3, <2>1, <3>1
      <3> QED BY <3>1, <3>2, <1>1, <1>2, <1>3, <1>4, <1>5, <2>1 DEF Begun
    <2>2. CASE Mode(batch) # "has_ft"
      <3>1. Len(c) = Len(stream) /\ Len(d) = Len(stream) + 1 /\ ForwardPlace(batch) = Len(stream) + 1
        BY <1>1, <1>2, <1>3, <1>4, <1>5, <2>2 DEF ForwardPlace
      <3>2. /\ 1 \in 1 .. Len(F) /\ Len(c) + 1 = Len(stream) + 1
            /\ \A i \in 1 .. Len(stream) : i \in 1 .. Len(c)
        BY <1>2, <1>3, <3>1
      <3> QED BY <3>1, <3>2, <1>2, <1>3, <1>4, <1>5, <2>2 DEF Begun
    <2> QED BY <2>1, <2>2
  <1> QED BY <1>6 DEF A, F, c, d

\* What comes behind it moves none of it.
LEMMA BegunStill ==
    ASSUME NEW q, NEW batch, NEW f, Begun(q, batch, f), IsSeq(stream), NEW w, IsSeq(w)
    PROVE  /\ Begun(q \o w, batch, f) /\ Len(q \o w) = Len(q) + Len(w)
           /\ \A j \in 1 .. Len(q) : (q \o w)[j] = q[j]
           /\ \A j \in 1 .. Len(w) : (q \o w)[Len(q) + j] = w[j]
  <1> DEFINE c == q \o w
             n == ForwardPlace(batch)
  <1>1. /\ IsSeq(q) /\ n \in Nat /\ n <= Len(q)
        /\ \A i \in 1 .. Len(stream) : q[i] = stream[i]
        /\ Mode(batch) = "has_ft" => q[Len(stream) + 1] = CopyOp
        /\ q[n] = f
    BY DEF Begun
  <1>2. /\ IsSeq(c) /\ Len(c) = Len(q) + Len(w)
        /\ \A j \in 1 .. Len(q) : c[j] = q[j]
        /\ \A j \in 1 .. Len(w) : c[Len(q) + j] = w[j]
    <2>1. IsSeq(q) /\ IsSeq(w)
      BY <1>1
    <2> QED BY <2>1, ConcatFacts
  <1>3. Len(q) \in Nat /\ Len(w) \in Nat /\ Len(stream) \in Nat
    BY <1>1, IsSeqFacts
  <1>4. /\ n \in 1 .. Len(q) /\ n <= Len(c) /\ \A i \in 1 .. Len(stream) : i \in 1 .. Len(q)
        /\ Mode(batch) = "has_ft" => Len(stream) + 1 \in 1 .. Len(q)
    <2>1. n = Len(stream) + (IF Mode(batch) = "has_ft" THEN 2 ELSE 1)
      BY DEF ForwardPlace
    <2> HIDE DEF c, n
    <2> QED BY <1>1, <1>2, <1>3, <2>1
  <1> HIDE DEF c
  <1>5. Begun(c, batch, f)
    BY <1>1, <1>2, <1>4 DEF Begun
  <1> QED BY <1>2, <1>5 DEF c

ForwardOp(batch, offset, points, ends) == Forward(batch, offset, points, ends)[1]

\* The forward, as _model_forward launches it.
LEMMA ForwardFields ==
    ASSUME NEW batch, NEW offset, NEW points, NEW ends
    PROVE  LET f == ForwardOp(batch, offset, points, ends)
           IN  /\ Forward(batch, offset, points, ends) = <<f>>
               /\ f.op = "forward" /\ f.points = points /\ f.ends = ends
               /\ f.flat = IF Mode(batch) = "has_ft" THEN Flat(batch) ELSE <<>>
               /\ f.writes = IF Mode(batch) = "eager"
                             THEN HookWrites(Flat(batch), offset) ELSE <<>>
  <1> DEFINE e == [op |-> "forward", slot |-> timing_pos, tag |-> Tag(batch),
                   points |-> points, ends |-> ends,
                   flat |-> IF Mode(batch) = "has_ft" THEN Flat(batch) ELSE <<>>,
                   writes |-> IF Mode(batch) = "eager" THEN HookWrites(Flat(batch), offset)
                              ELSE <<>>]
             f == ForwardOp(batch, offset, points, ends)
  <1>1. Forward(batch, offset, points, ends) = <<e>>
    BY DEF Forward
  <1>2. f = e
    <2> HIDE DEF e
    <2> QED BY <1>1 DEF ForwardOp
  <1> HIDE DEF f
  <1> QED BY <1>1, <1>2 DEF f

\* The rows at an offset that are written lie behind it.
LEMMA LandsBehind ==
    ASSUME NEW w, NEW offset \in Nat, NEW t, Len(t) \in Nat, Lands(w, offset, t)
    PROVE  \A r \in DOMAIN w : r \in Nat /\ r > offset
  <1> DEFINE n == Len(t)
  <1>1. n \in Nat /\ DOMAIN w = offset + 1 .. offset + n
    BY DEF Lands
  <1> HIDE DEF n
  <1> QED BY <1>1

\* A batch has samples exactly when its forward saves, by the hooks or the op.
LEMMA ModeFacts ==
    ASSUME NEW batch, NEW S, Takes(batch, S)
    PROVE  /\ S = {} => Mode(batch) = "plain"
           /\ S # {} => Mode(batch) \in {"has_ft", "eager"}
  BY DEF Mode, Takes

\* What the forward of a step saves: the rows of the batch's samples, behind
\* those that are saved (accumulate.py: hooks, dserve_save_rows).
LEMMA ForwardWrites ==
    ASSUME NEW batch, NEW S, Takes(batch, S), IsSeq(stream), PinType,
           NEW offset \in Nat, S # {} => offset + Tokens(S) <= Capacity,
           ArmPin(batch, offset), NEW points, NEW ends,
           Begun(stream', batch, ForwardOp(batch, offset, points, ends)),
           NEW n, n = ForwardPlace(batch)
    PROVE  /\ S = {} => WritesOf(stream'[n], Gathers(n)') = <<>>
           /\ S # {} => Lands(WritesOf(stream'[n], Gathers(n)'), offset, Flat(FtOf(batch)))
           /\ stream'[n].op = "forward" /\ stream'[n].ends = ends
           /\ SavesOf(config, stream'[n]) =
                 IF Mode(batch) = "has_ft" THEN OpSaves(config, points)
                                           ELSE HookSaves(config, points)
           /\ Armed(stream'[n]) <=> Mode(batch) = "has_ft"
  <1> DEFINE f == ForwardOp(batch, offset, points, ends)
             t == Flat(FtOf(batch))
  <1>1. /\ f.op = "forward" /\ f.points = points /\ f.ends = ends
        /\ f.flat = IF Mode(batch) = "has_ft" THEN Flat(batch) ELSE <<>>
        /\ f.writes = IF Mode(batch) = "eager" THEN HookWrites(Flat(batch), offset) ELSE <<>>
    BY ForwardFields
  <1>2. stream'[n] = f
    BY DEF Begun
  <1> HIDE DEF f
  <1>3. /\ batch \in Seq(Requests) /\ OneEach(batch) /\ Len(t) = Tokens(S) /\ Tokens(S) \in Nat
        /\ S \in SUBSET Samples
        /\ FtOf(batch) \in Seq(Samples) /\ ToSet(FtOf(batch)) = S
    BY DEF Takes
  <1>4. S # {} => Len(t) \in Nat \ {0} /\ offset + Len(t) <= Capacity /\ FtOf(batch) # <<>>
    <2> SUFFICES ASSUME S # {} PROVE Len(t) \in Nat \ {0} /\ FtOf(batch) # <<>>
      BY <1>3
    <2>1. Tokens(S) # 0
      BY <1>3, TokensSome
    <2>2. FtOf(batch) # <<>>
      BY <1>3, EmptySeq DEF ToSet
    <2> QED BY <1>3, <2>1, <2>2
  <1>5. Mode(batch) = "has_ft" => Flat(batch) # <<>>
    <2> SUFFICES ASSUME S # {} PROVE Flat(batch) # <<>>
      BY ModeFacts
    <2>1. Picks(Flat(batch), FtPositions(Flat(batch)), t)
      BY <1>3, FtPositionsFacts
    <2>2. 1 \in 1 .. Len(t)
      BY <1>4
    <2>3. FtPositions(Flat(batch))[1] \in 1 .. Len(Flat(batch))
      BY <2>1, <2>2 DEF Picks
    <2> QED BY <2>3, EmptySeq
  <1>6. Armed(f) <=> Mode(batch) = "has_ft"
    BY <1>1, <1>5 DEF Armed
  <1>7. SavesOf(config, f) = IF Mode(batch) = "has_ft" THEN OpSaves(config, points)
                                                       ELSE HookSaves(config, points)
    BY <1>1, <1>5 DEF SavesOf
  <1>8. CASE S = {}
    <2>1. f.flat = <<>> /\ f.writes = <<>>
      BY <1>1, <1>8, ModeFacts
    <2> QED BY <1>1, <1>2, <1>6, <1>7, <1>8, <2>1 DEF WritesOf
  <1>9. CASE S # {} /\ Mode(batch) = "eager"
    <2>1. WritesOf(f, Gathers(n)') = HookWrites(Flat(batch), offset)
      BY <1>1, <1>9 DEF WritesOf
    <2>2. Lands(HookWrites(Flat(batch), offset), offset, t)
      BY <1>3, <1>4, <1>9, HookLands
    <2> QED BY <1>1, <1>2, <1>6, <1>7, <1>9, <2>1, <2>2
  <1>10. CASE S # {} /\ Mode(batch) = "has_ft"
    <2> DEFINE pos == idx_pin_pos
               idx == StageIndexes(FtPositions(Flat(batch)), offset)
    <2>1. Gathers(n)' = idx
      <3>1. Len(stream) \in Nat /\ n = Len(stream) + 2
        BY <1>10, IsSeqFacts DEF ForwardPlace
      <3>2. n # 1 /\ n - 1 = Len(stream) + 1
        BY <3>1
      <3>3. stream'[n - 1] = CopyOp
        BY <1>10, <3>2 DEF Begun
      <3>4. Gathers(n)' = idx_pin'[idx_pin_pos]
        BY <3>2, <3>3 DEF Gathers, CopyOp
      <3>5. idx_pin' = [idx_pin EXCEPT ![idx_pin_pos] = idx] /\ idx_pin_pos \in DOMAIN idx_pin
        BY <1>10 DEF ArmPin, PinType
      <3> HIDE DEF idx
      <3>6. idx_pin'[idx_pin_pos] = idx
        BY <3>5
      <3> QED BY <3>4, <3>6
    <2> HIDE DEF idx
    <2>2. WritesOf(f, Gathers(n)') = OpWrites(idx, Flat(batch))
      BY <1>1, <1>5, <1>10, <2>1 DEF WritesOf
    <2>3. Lands(OpWrites(idx, Flat(batch)), offset, t)
      BY <1>3, <1>4, <1>10, OpLands DEF idx
    <2> QED BY <1>1, <1>2, <1>6, <1>7, <1>10, <2>2, <2>3
  <1> QED BY <1>8, <1>9, <1>10, ModeFacts

\* The rest of a staging slot goes to the scratch row.
LEMMA StagedBehind ==
    ASSUME NEW at, NEW offset \in Nat, NEW flat
    PROVE  \A r \in DOMAIN OpWrites(StageIndexes(at, offset), flat) : r \in Nat /\ r > offset
  <1> DEFINE idx == StageIndexes(at, offset)
  <1> SUFFICES ASSUME NEW r \in DOMAIN OpWrites(idx, flat) PROVE r \in Nat /\ r > offset
    OBVIOUS
  <1>1. \E i \in 1 .. Capacity : r = idx[i].dst /\ r # Scratch
    <2> HIDE DEF idx
    <2> QED BY DEF OpWrites
  <1>2. PICK i \in 1 .. Capacity : r = idx[i].dst /\ r # Scratch
    BY <1>1
  <1>3. i \in Nat /\ i > 0
    BY ModelRunnerAssumption
  <1>4. r = offset + i
    BY <1>2 DEF StageIndexes
  <1> QED BY <1>3, <1>4

-----------------------------------------------------------------------------
(***************************************************************************)
(* What a step leaves of the rows that are saved.                          *)
(***************************************************************************)
\* The saves of an element have to do with no row up to the offset.
Behind(o, offset) ==
    ~Armed(o) /\ \A r \in DOMAIN WritesOf(o, <<>>) : r \in Nat /\ r > offset

\* The slot that is staged next is not one from which a step's indexes, which
\* the GPU has yet to copy, are still needed.
Spares == \A i \in DOMAIN stream :
             Kept(i) /\ Armed(stream[i]) /\ i # 1 => stream[i - 1].slot # idx_pin_pos

\* A step that is admitted to the queue may stage its indexes: those of the step
\* before it are in another slot, and the one before that was copied.
LEMMA SlotSpared ==
    ASSUME Depth <= PinRing, TimingInv, PinType, PinInv, Len(flights) < Depth
    PROVE  Spares
  <1> SUFFICES ASSUME NEW i \in DOMAIN stream, Kept(i), Armed(stream[i]), i # 1,
                      stream[i - 1].slot = idx_pin_pos
               PROVE  FALSE
    BY DEF Spares
  <1>1. IsSeq(stream) /\ DOMAIN stream = 1 .. Len(stream) /\ Len(stream) \in Nat
    BY IsSeqFacts DEF TimingInv, StreamType
  <1>2. i - 1 \in DOMAIN stream /\ (i - 1) + 1 = i
    BY <1>1
  <1>3. stream[i - 1].op = "copy" /\ stream[i].op = "forward" /\ stream[i].ends
    BY DEF PinType, Armed, Kept
  <1> DEFINE c == i - 1
  <1>4. Live(c)
    BY <1>2, <1>3 DEF Live
  <1> HIDE DEF c
  <1>5. Len(flights) \in Nat /\ DOMAIN flights = 1 .. Len(flights)
    BY IsSeqFacts DEF TimingInv, FlightType
  <1>6. Depth = 2 /\ PinRing >= 2 /\ Len(flights) # 2
    <2>1. i \in Whole(stream)
      BY <1>3 DEF Whole
    <2>2. Dones(stream) # {}
      BY <2>1 DEF TimingInv, StepsInv
    <2>3. Undone(flights) # {}
      BY <2>2 DEF TimingInv, AwaitedInv
    <2>4. Len(flights) > 0
      BY <1>5, <2>3 DEF Undone
    <2> DEFINE k == Len(flights)
    <2>5. k \in Nat /\ k > 0 /\ k < Depth
      BY <1>5, <2>4
    <2> HIDE DEF k
    <2>6. Depth \in {1, 2} /\ PinRing \in Nat /\ Depth <= PinRing
      BY ModelRunnerAssumption
    <2>7. Depth = 2 /\ PinRing >= 2 /\ k # 2
      BY <2>5, <2>6
    <2> QED BY <2>7 DEF k
  <1>7. NextPin(stream[c].slot) = idx_pin_pos
    BY <1>4, <1>6 DEF PinInv, Live
  <1>8. idx_pin_pos \in 0 .. PinRing - 1 /\ NextPin(idx_pin_pos) = idx_pin_pos
    BY <1>7 DEF PinType, PinSlots, c
  <1>9. (idx_pin_pos + 1) % PinRing # idx_pin_pos
    <2>1. CASE idx_pin_pos + 1 = PinRing
      BY <1>6, <1>8, <2>1, ModelRunnerAssumption
    <2>2. CASE idx_pin_pos + 1 # PinRing
      <3>1. idx_pin_pos + 1 \in 0 .. PinRing - 1
        BY <1>8, <2>2, ModelRunnerAssumption
      <3> QED BY <1>8, <3>1, ModelRunnerAssumption
    <2> QED BY <2>1, <2>2
  <1> QED BY <1>8, <1>9 DEF NextPin

\* A step that begins saves behind the rows accounted for, and leaves them alone.
LEMMA RowsBeforeStay ==
    ASSUME NEW batch, NEW S, Takes(batch, S), IsSeq(stream), PinType, Spares,
           NEW offset \in Nat, S # {} => offset + Tokens(S) <= Capacity,
           ArmPin(batch, offset), NEW points, NEW ends,
           Begun(stream', batch, ForwardOp(batch, offset, points, ends)),
           NEW n, n = ForwardPlace(batch), UNCHANGED <<config, rows, ft_idx>>,
           \A i \in n + 1 .. Len(stream') : Behind(stream'[i], offset),
           NEW p, NEW r, NEW v, r <= offset, Comes(p, r, v)
    PROVE  Comes(p, r, v)'
  <1> DEFINE s == Len(stream)
  <1>1. /\ s \in Nat /\ DOMAIN stream = 1 .. s /\ n \in Nat
        /\ n = s + (IF Mode(batch) = "has_ft" THEN 2 ELSE 1)
    BY IsSeqFacts DEF ForwardPlace
  <1>2. /\ IsSeq(stream') /\ n <= Len(stream') /\ Len(stream') \in Nat
        /\ \A i \in 1 .. s : stream'[i] = stream[i]
        /\ Mode(batch) = "has_ft" => stream'[s + 1] = CopyOp
    BY IsSeqFacts DEF Begun
  <1> HIDE DEF s
  <1>3. s <= Len(stream')
    BY <1>1, <1>2
  <1>4. ASSUME NEW i \in 1 .. s, Gathers(i)' # Gathers(i), Armed(stream[i])
        PROVE  /\ ~Kept(i)
               /\ \A x \in DOMAIN WritesOf(stream'[i], Gathers(i)') : x \in Nat /\ x > offset
    <2>1. i # 1 /\ i - 1 \in 1 .. s
      <3>1. i # 1
        BY <1>4 DEF Gathers
      <3> QED BY <1>1, <3>1
    <2>2. Gathers(i)' = idx_pin'[stream[i - 1].slot] /\ Gathers(i) = idx_pin[stream[i - 1].slot]
      BY <1>2, <2>1 DEF Gathers
    <2>3. /\ Mode(batch) = "has_ft" /\ stream[i - 1].slot = idx_pin_pos
          /\ idx_pin'[idx_pin_pos] = StageIndexes(FtPositions(Flat(batch)), offset)
      <3> DEFINE idx == StageIndexes(FtPositions(Flat(batch)), offset)
      <3>1. Mode(batch) = "has_ft"
        BY <1>4, <2>2 DEF ArmPin, pin_vars
      <3>2. /\ idx_pin' = [idx_pin EXCEPT ![idx_pin_pos] = idx]
            /\ idx_pin_pos \in DOMAIN idx_pin
        BY <3>1 DEF ArmPin, PinType
      <3> HIDE DEF idx
      <3>3. stream[i - 1].slot = idx_pin_pos
        <4> SUFFICES ASSUME stream[i - 1].slot # idx_pin_pos PROVE FALSE
          OBVIOUS
        <4>1. stream[i - 1].op = "copy"
          BY <1>1, <1>4, <2>1 DEF PinType
        <4>2. stream[i - 1].slot \in DOMAIN idx_pin
          BY <1>1, <2>1, <4>1 DEF PinType
        <4>3. idx_pin'[stream[i - 1].slot] = idx_pin[stream[i - 1].slot]
          BY <3>2, <4>2
        <4> QED BY <1>4, <2>2, <4>3
      <3> QED BY <3>1, <3>2, <3>3 DEF idx
    <2>4. ~Kept(i)
      BY <1>1, <1>4, <2>1, <2>3 DEF Spares
    <2>5. stream'[i].op = "forward" /\ stream'[i].flat # <<>>
      BY <1>2, <1>4 DEF Armed
    <2>6. WritesOf(stream'[i], Gathers(i)') =
             OpWrites(StageIndexes(FtPositions(Flat(batch)), offset), stream'[i].flat)
      BY <2>2, <2>3, <2>5 DEF WritesOf
    <2> QED BY <2>4, <2>6, StagedBehind
  <1>5. ASSUME NEW i \in 1 .. s, Armed(stream[i]) => Gathers(i)' = Gathers(i)
        PROVE  Continues(i, i)
    BY <1>2, <1>5, ContinuesIf
  <1>6. \A i \in 1 .. Len(stream) : Kept(i) => Continues(i, i)
    BY <1>4, <1>5 DEF s
  <1>7. ASSUME NEW j \in 1 .. Len(stream), Touches(j, p, r)' PROVE Touches(j, p, r)
    <2>1. CASE Armed(stream[j]) => Gathers(j)' = Gathers(j)
      <3>1. Continues(j, j)
        BY <1>5, <2>1 DEF s
      <3> QED BY <1>7, <3>1 DEF Continues
    <2>2. CASE Armed(stream[j]) /\ Gathers(j)' # Gathers(j)
      <3>1. r \in DOMAIN WritesOf(stream'[j], Gathers(j)')
        BY <1>7 DEF Touches, Hits
      <3>2. r \in Nat /\ r > offset
        BY <1>4, <2>2, <3>1 DEF s
      <3> QED BY <3>2
    <2> QED BY <2>1, <2>2
  <1>8. ASSUME NEW j \in Len(stream) + 1 .. Len(stream'), Touches(j, p, r)' PROVE FALSE
    <2>1. p \in DOMAIN SavesOf(config, stream'[j]) /\ r \in DOMAIN WritesOf(stream'[j], Gathers(j)')
      BY <1>8 DEF Touches, Hits
    <2>2. j \in Nat /\ s < j
      BY <1>1 DEF s
    <2>3. CASE j = n
      <3>1. /\ S = {} => WritesOf(stream'[n], Gathers(n)') = <<>>
            /\ S # {} => Lands(WritesOf(stream'[n], Gathers(n)'), offset, Flat(FtOf(batch)))
        BY ForwardWrites
      <3>2. CASE S = {}
        BY <2>1, <2>3, <3>1, <3>2, EmptySeq
      <3>3. CASE S # {}
        <4>1. Len(Flat(FtOf(batch))) \in Nat
          BY DEF Takes
        <4>2. r \in Nat /\ r > offset
          BY <2>1, <2>3, <3>1, <3>3, <4>1, LandsBehind
        <4> QED BY <4>2
      <3> QED BY <3>2, <3>3
    <2>4. CASE j < n
      <3>1. Mode(batch) = "has_ft" /\ j = s + 1
        BY <1>1, <2>2, <2>4
      <3>2. stream'[j].op = "copy"
        BY <1>2, <3>1 DEF CopyOp
      <3>3. SavesOf(config, stream'[j]) = <<>>
        BY <3>2 DEF SavesOf
      <3> QED BY <2>1, <3>3, EmptySeq
    <2>5. CASE n < j
      <3>1. Behind(stream'[j], offset)
        <4>1. j \in n + 1 .. Len(stream')
          BY <1>1, <1>2, <2>2, <2>5
        <4> QED BY <4>1
      <3>2. WritesOf(stream'[j], Gathers(j)') = WritesOf(stream'[j], <<>>)
        BY <3>1, Independent DEF Behind
      <3>3. r \in Nat /\ r > offset
        BY <2>1, <3>1, <3>2 DEF Behind
      <3> QED BY <3>3
    <2> QED BY <1>1, <2>2, <2>3, <2>4, <2>5
  <1> HIDE DEF s
  <1>9. IsSeq(stream') /\ Len(stream) <= Len(stream') /\ rows' = rows
        /\ \A i \in 1 .. Len(stream) : stream'[i] = stream[i]
    BY <1>2, <1>3 DEF s
  <1> QED BY <1>6, <1>7, <1>8, <1>9, ComesStill

\* Behind the forward nothing is left but these.
Closes(o) == o.op \in {"final", "zero", "done"}

\* What closes a step touches no row before its offset.
LEMMA ClosesBehind ==
    ASSUME NEW o, Closes(o), NEW offset \in Nat,
           \/ o.op = "done"
           \/ o.op = "final" /\ \E t : Len(t) \in Nat /\ Lands(o.writes, offset, t)
           \/ o.op = "zero" /\ \E m \in Nat : o.zeroed = offset + 1 .. offset + m
    PROVE  Behind(o, offset)
  <1>1. ~Armed(o)
    BY DEF Armed, Closes
  <1>2. \A r \in DOMAIN WritesOf(o, <<>>) : r \in Nat /\ r > offset
    <2>1. CASE o.op = "done"
      BY <2>1, EmptySeq DEF WritesOf
    <2>2. CASE o.op = "final" /\ \E t : Len(t) \in Nat /\ Lands(o.writes, offset, t)
      <3>1. PICK t : Len(t) \in Nat /\ Lands(o.writes, offset, t)
        BY <2>2
      <3>2. WritesOf(o, <<>>) = o.writes
        BY <2>2 DEF WritesOf
      <3> QED BY <3>1, <3>2, LandsBehind
    <2>3. CASE o.op = "zero" /\ \E m \in Nat : o.zeroed = offset + 1 .. offset + m
      <3>1. WritesOf(o, <<>>) = [r \in o.zeroed |-> Zero]
        BY <2>3 DEF WritesOf
      <3>2. DOMAIN WritesOf(o, <<>>) = o.zeroed
        BY <3>1
      <3> QED BY <2>3, <3>2
    <2> QED BY <2>1, <2>2, <2>3
  <1> QED BY <1>1, <1>2 DEF Behind

AddsWhole(batch, offset, points) ==
    stream' = stream \o Arm(batch) \o Forward(batch, offset, points, TRUE)
                \o AfterForward(batch, offset) \o <<[op |-> "done"]>>

AddsPart(batch, offset, points, m) ==
    stream' = stream \o Arm(batch) \o Forward(batch, offset, points, FALSE)
                \o <<[op |-> "zero", zeroed |-> offset + 1 .. offset + m]>>

\* A step that is enqueued whole.
LEMMA WholeStep ==
    ASSUME NEW batch, NEW S, Takes(batch, S), IsSeq(stream),
           NEW offset \in Nat, S # {} => offset + Tokens(S) <= Capacity, NEW points,
           AddsWhole(batch, offset, points), NEW n, n = ForwardPlace(batch)
    PROVE  /\ Begun(stream', batch, ForwardOp(batch, offset, points, TRUE))
           /\ S # {} => /\ Len(stream') = n + 2 /\ stream'[n + 1].op = "final"
                        /\ Lands(stream'[n + 1].writes, offset, Flat(FtOf(batch)))
                        /\ stream'[n + 2].op = "done"
           /\ S = {} => Len(stream') = n + 1 /\ stream'[n + 1].op = "done"
           /\ \A i \in n + 1 .. Len(stream') :
                 Closes(stream'[i]) /\ Behind(stream'[i], offset)
  <1> DEFINE f == ForwardOp(batch, offset, points, TRUE)
             t == Flat(FtOf(batch))
             F == Forward(batch, offset, points, TRUE)
             W == AfterForward(batch, offset)
             D == <<[op |-> "done"]>>
             c1 == stream \o Arm(batch) \o F
             c2 == c1 \o W
             c3 == c2 \o D
  <1>1. stream' = c3
    BY DEF AddsWhole
  <1>2. F = <<f>>
    BY DEF Forward, ForwardOp
  <1> HIDE DEF F, f
  <1>3. Begun(c1, batch, f) /\ Len(c1) = n
    BY <1>2, StepBegins
  <1>4. S # {} => Len(t) \in Nat /\ Lands(HookWrites(Flat(batch), offset), offset, t)
    <2> SUFFICES ASSUME S # {} PROVE Len(t) \in Nat /\ Lands(HookWrites(Flat(batch), offset), offset, t)
      OBVIOUS
    <2>1. /\ batch \in Seq(Requests) /\ OneEach(batch) /\ Len(t) = Tokens(S)
          /\ Tokens(S) \in Nat /\ S \in SUBSET Samples /\ ToSet(FtOf(batch)) = S
      BY DEF Takes
    <2>2. Len(t) \in Nat \ {0} /\ offset + Len(t) <= Capacity
      BY <2>1, TokensSome
    <2>3. FtOf(batch) # <<>>
      BY <2>1, EmptySeq DEF ToSet
    <2> QED BY <2>1, <2>2, <2>3, HookLands
  <1>5. /\ IsSeq(W)
        /\ S # {} => Len(W) = 1 /\ W[1].op = "final" /\ Lands(W[1].writes, offset, t)
        /\ S = {} => Len(W) = 0
    <2>1. CASE S # {}
      <3> DEFINE e == [op |-> "final", writes |-> HookWrites(Flat(batch), offset)]
      <3>1. W = <<e>>
        BY <2>1 DEF AfterForward, Takes
      <3>2. e.op = "final" /\ e.writes = HookWrites(Flat(batch), offset)
        OBVIOUS
      <3> HIDE DEF W, e, t
      <3>3. IsSeq(W) /\ Len(W) = 1 /\ W[1] = e
        BY <3>1, OneFacts
      <3> QED BY <2>1, <3>2, <3>3, <1>4
    <2>2. CASE S = {}
      <3>1. W = <<>>
        BY <2>2 DEF AfterForward, Takes
      <3> HIDE DEF W
      <3> QED BY <2>2, <3>1, OneFacts
    <2> QED BY <2>1, <2>2
  <1>6. IsSeq(D) /\ Len(D) = 1 /\ D[1].op = "done"
    BY OneFacts
  <1>7. n \in Nat
    BY <1>3 DEF Begun
  <1> HIDE DEF c1, W, D, t
  <1>8. /\ Begun(c2, batch, f) /\ Len(c2) = Len(c1) + Len(W)
        /\ \A j \in 1 .. Len(W) : c2[Len(c1) + j] = W[j]
    <2>1. Begun(c1, batch, f) /\ IsSeq(W)
      BY <1>3, <1>5
    <2> QED BY <2>1, BegunStill
  <1> HIDE DEF c2
  <1>9. /\ Begun(c3, batch, f) /\ Len(c3) = Len(c2) + Len(D)
        /\ \A j \in 1 .. Len(c2) : c3[j] = c2[j]
        /\ \A j \in 1 .. Len(D) : c3[Len(c2) + j] = D[j]
    <2>1. Begun(c2, batch, f) /\ IsSeq(D)
      BY <1>6, <1>8
    <2> QED BY <2>1, BegunStill
  <1> HIDE DEF c3
  <1>10. S # {} => /\ Len(c3) = n + 2 /\ c3[n + 1] = W[1] /\ c3[n + 2] = D[1]
                   /\ \A i \in n + 1 .. Len(c3) : i = n + 1 \/ i = n + 2
    <2> SUFFICES ASSUME S # {} PROVE /\ Len(c3) = n + 2 /\ c3[n + 1] = W[1] /\ c3[n + 2] = D[1]
                                     /\ \A i \in n + 1 .. Len(c3) : i = n + 1 \/ i = n + 2
      OBVIOUS
    <2>1. Len(c2) = n + 1 /\ Len(c3) = n + 2 /\ n + 1 + 1 = n + 2
      <3>1. Len(c2) = n + 1
        BY <1>3, <1>5, <1>8
      <3>2. Len(c3) = (n + 1) + 1
        BY <1>6, <1>9, <3>1
      <3>3. (n + 1) + 1 = n + 2
        BY <1>7
      <3> QED BY <3>1, <3>2, <3>3
    <2>2. 1 \in 1 .. Len(W) /\ 1 \in 1 .. Len(D) /\ n + 1 \in 1 .. Len(c2)
      BY <1>5, <1>6, <1>7, <2>1
    <2>3. c2[n + 1] = W[1] /\ c3[n + 1] = c2[n + 1] /\ c3[n + 1 + 1] = D[1]
      BY <1>3, <1>8, <1>9, <2>1, <2>2
    <2>4. \A i \in n + 1 .. n + 2 : i = n + 1 \/ i = n + 2
      BY <1>7
    <2> QED BY <2>1, <2>3, <2>4
  <1>11. S = {} => /\ Len(c3) = n + 1 /\ c3[n + 1] = D[1]
                   /\ \A i \in n + 1 .. Len(c3) : i = n + 1
    <2> SUFFICES ASSUME S = {} PROVE /\ Len(c3) = n + 1 /\ c3[n + 1] = D[1]
                                     /\ \A i \in n + 1 .. Len(c3) : i = n + 1
      OBVIOUS
    <2>1. Len(c2) = n /\ Len(c3) = n + 1
      <3>1. Len(c2) = n + 0
        BY <1>3, <1>5, <1>8
      <3>2. n + 0 = n
        BY <1>7
      <3> QED BY <1>6, <1>9, <3>1, <3>2
    <2>2. 1 \in 1 .. Len(D)
      BY <1>6
    <2>3. \A i \in n + 1 .. n + 1 : i = n + 1
      BY <1>7
    <2> QED BY <1>9, <2>1, <2>2, <2>3
  <1>12. /\ Closes(D[1]) /\ Behind(D[1], offset)
         /\ S # {} => Closes(W[1]) /\ Behind(W[1], offset)
    <2>1. Closes(D[1]) /\ (S # {} => Closes(W[1]))
      BY <1>5, <1>6 DEF Closes
    <2> QED BY <2>1, <1>4, <1>5, <1>6, ClosesBehind DEF t
  <1>13. \A i \in n + 1 .. Len(c3) : Closes(c3[i]) /\ Behind(c3[i], offset)
    BY <1>10, <1>11, <1>12
  <1> QED BY <1>1, <1>5, <1>6, <1>9, <1>10, <1>11, <1>13 DEF f, t

\* A step that is left.
LEMMA PartStep ==
    ASSUME NEW batch, IsSeq(stream), NEW offset \in Nat, NEW points, NEW m \in Nat,
           AddsPart(batch, offset, points, m), NEW n, n = ForwardPlace(batch)
    PROVE  /\ Begun(stream', batch, ForwardOp(batch, offset, points, FALSE))
           /\ Len(stream') = n + 1 /\ stream'[n + 1].op = "zero"
           /\ \A i \in n + 1 .. Len(stream') :
                 Closes(stream'[i]) /\ Behind(stream'[i], offset)
  <1> DEFINE f == ForwardOp(batch, offset, points, FALSE)
             F == Forward(batch, offset, points, FALSE)
             e == [op |-> "zero", zeroed |-> offset + 1 .. offset + m]
             D == <<e>>
             c1 == stream \o Arm(batch) \o F
             c2 == c1 \o D
  <1>1. stream' = c2
    BY DEF AddsPart
  <1>2. F = <<f>>
    BY DEF Forward, ForwardOp
  <1> HIDE DEF F, f
  <1>3. Begun(c1, batch, f) /\ Len(c1) = n
    BY <1>2, StepBegins
  <1>4. e.op = "zero" /\ e.zeroed = offset + 1 .. offset + m
    OBVIOUS
  <1> HIDE DEF e
  <1>5. IsSeq(D) /\ Len(D) = 1 /\ D[1] = e
    BY OneFacts
  <1>6. n \in Nat
    BY <1>3 DEF Begun
  <1> HIDE DEF c1, D
  <1>7. /\ Begun(c2, batch, f) /\ Len(c2) = Len(c1) + Len(D)
        /\ \A j \in 1 .. Len(D) : c2[Len(c1) + j] = D[j]
    <2>1. Begun(c1, batch, f) /\ IsSeq(D)
      BY <1>3, <1>5
    <2> QED BY <2>1, BegunStill
  <1> HIDE DEF c2
  <1>8. Len(c2) = n + 1 /\ c2[n + 1] = e /\ \A i \in n + 1 .. Len(c2) : i = n + 1
    <2>1. 1 \in 1 .. Len(D)
      BY <1>5
    <2>2. \A i \in n + 1 .. n + 1 : i = n + 1
      BY <1>6
    <2> QED BY <1>3, <1>5, <1>7, <2>1, <2>2
  <1>9. Closes(e) /\ Behind(e, offset)
    <2>1. Closes(e)
      BY <1>4 DEF Closes
    <2>2. e.op = "zero" /\ \E k \in Nat : e.zeroed = offset + 1 .. offset + k
      BY <1>4
    <2> QED BY <2>1, <2>2, ClosesBehind
  <1> QED BY <1>1, <1>4, <1>7, <1>8, <1>9 DEF f

-----------------------------------------------------------------------------
(***************************************************************************)
(* The steps that the host enqueues.                                       *)
(***************************************************************************)
\* A place of the stream holds what it held, the step's copy, its forward or
\* what comes behind it.
LEMMA StepPlaces ==
    ASSUME IsSeq(stream), NEW batch, NEW f, Begun(stream', batch, f),
           NEW n, n = ForwardPlace(batch),
           \A i \in n + 1 .. Len(stream') : Closes(stream'[i])
    PROVE  /\ Len(stream) \in Nat /\ n \in Nat /\ Len(stream) < n
           /\ DOMAIN stream = 1 .. Len(stream)
           /\ \A i \in DOMAIN stream : i \in DOMAIN stream' /\ stream'[i] = stream[i]
           /\ Mode(batch) = "has_ft" => n = Len(stream) + 2 /\ stream'[n - 1] = CopyOp
           /\ Mode(batch) # "has_ft" => n = Len(stream) + 1
           /\ \A i \in DOMAIN stream' :
                 /\ i \in Nat \ {0}
                 /\ \/ i \in DOMAIN stream
                    \/ i = n
                    \/ i = Len(stream) + 1 /\ Mode(batch) = "has_ft" /\ stream'[i] = CopyOp
                    \/ i > n /\ Closes(stream'[i])
  <1> DEFINE s == Len(stream)
             m == Len(stream')
  <1>1. /\ s \in Nat /\ m \in Nat /\ DOMAIN stream = 1 .. s /\ DOMAIN stream' = 1 .. m
        /\ n \in Nat /\ n <= m /\ n = s + (IF Mode(batch) = "has_ft" THEN 2 ELSE 1)
        /\ \A i \in 1 .. s : stream'[i] = stream[i]
        /\ Mode(batch) = "has_ft" => stream'[s + 1] = CopyOp
    BY IsSeqFacts DEF Begun, ForwardPlace
  <1>2. \A i \in n + 1 .. m : Closes(stream'[i])
    OBVIOUS
  <1> HIDE DEF s, m
  <1>3. s < n /\ \A i \in 1 .. s : i \in 1 .. m
    BY <1>1
  <1>4. Mode(batch) = "has_ft" => n = s + 2 /\ n - 1 = s + 1
    BY <1>1
  <1>5. ASSUME NEW i \in 1 .. m, i \notin 1 .. s, i # n
        PROVE  \/ i = s + 1 /\ Mode(batch) = "has_ft"
               \/ i > n /\ i \in n + 1 .. m
    BY <1>1, <1>5
  <1>6. \A i \in 1 .. m :
           \/ i \in 1 .. s
           \/ i = n
           \/ i = s + 1 /\ Mode(batch) = "has_ft" /\ stream'[i] = CopyOp
           \/ i > n /\ Closes(stream'[i])
    BY <1>1, <1>2, <1>5
  <1>7. 1 .. m \subseteq Nat \ {0}
    BY <1>1
  <1> QED BY <1>1, <1>3, <1>4, <1>6, <1>7 DEF s

\* The step that is enqueued stages its indexes in the slot that is free.
LEMMA StepPins ==
    ASSUME TimingInv, PinType, PinInv, Len(flights) < Depth, NEW batch, NEW offset,
           ArmPin(batch, offset), NEW f, Begun(stream', batch, f),
           NEW n, n = ForwardPlace(batch),
           stream'[n].op = "forward", Armed(stream'[n]) <=> Mode(batch) = "has_ft",
           \A i \in n + 1 .. Len(stream') : Closes(stream'[i]),
           NEW e, flights' = Append(flights, e)
    PROVE  PinType' /\ PinInv'
  <1>1. IsSeq(stream) /\ IsSeq(flights)
    BY DEF TimingInv, StreamType, FlightType
  <1>2. /\ Len(stream) \in Nat /\ n \in Nat /\ Len(stream) < n
        /\ DOMAIN stream = 1 .. Len(stream)
        /\ \A i \in DOMAIN stream : i \in DOMAIN stream' /\ stream'[i] = stream[i]
        /\ Mode(batch) = "has_ft" => n = Len(stream) + 2 /\ stream'[n - 1] = CopyOp
        /\ Mode(batch) # "has_ft" => n = Len(stream) + 1
        /\ \A i \in DOMAIN stream' :
              /\ i \in Nat \ {0}
              /\ \/ i \in DOMAIN stream
                 \/ i = n
                 \/ i = Len(stream) + 1 /\ Mode(batch) = "has_ft" /\ stream'[i] = CopyOp
                 \/ i > n /\ Closes(stream'[i])
    BY <1>1, StepPlaces
  <1>3. /\ DOMAIN idx_pin' = PinSlots /\ idx_pin_pos' \in PinSlots
        /\ Mode(batch) = "has_ft" => idx_pin_pos' = NextPin(idx_pin_pos)
    <2>1. idx_pin_pos \in PinSlots /\ DOMAIN idx_pin = PinSlots
      BY DEF PinType
    <2>2. NextPin(idx_pin_pos) \in PinSlots
      BY <2>1, ModelRunnerAssumption DEF PinSlots, NextPin
    <2>3. CASE Mode(batch) = "has_ft"
      BY <2>1, <2>2, <2>3 DEF ArmPin
    <2>4. CASE Mode(batch) # "has_ft"
      BY <2>1, <2>4 DEF ArmPin, pin_vars
    <2> QED BY <2>3, <2>4
  <1>4. ASSUME NEW i \in DOMAIN stream'
        PROVE  /\ stream'[i].op = "copy" => stream'[i].slot \in PinSlots
               /\ Armed(stream'[i]) /\ i # 1 => stream'[i - 1].op = "copy"
    <2>1. CASE i \in DOMAIN stream
      <3>1. stream'[i] = stream[i]
        BY <1>2, <2>1
      <3>2. i # 1 => i - 1 \in DOMAIN stream
        BY <1>2, <2>1
      <3>3. i # 1 => stream'[i - 1] = stream[i - 1]
        BY <1>2, <3>2
      <3> QED BY <2>1, <3>1, <3>3 DEF PinType
    <2>2. CASE i = n
      BY <2>2, <1>2 DEF CopyOp
    <2>3. CASE stream'[i] = CopyOp
      BY <2>3 DEF CopyOp, PinType, Armed
    <2>4. CASE Closes(stream'[i])
      BY <2>4 DEF Closes, Armed
    <2> QED BY <2>1, <2>2, <2>3, <2>4, <1>2
  <1>5. PinType'
    BY <1>3, <1>4 DEF PinType, PinSlots, Armed
  <1>6. /\ Len(flights) \in Nat /\ DOMAIN flights = 1 .. Len(flights)
        /\ Len(flights') = Len(flights) + 1
        /\ \A j \in 1 .. Len(flights) : flights'[j] = flights[j]
    BY <1>1, IsSeqFacts, AppendFacts
  <1>7. ASSUME NEW c \in DOMAIN stream', Live(c)'
        PROVE  \/ NextPin(stream'[c].slot) = idx_pin_pos'
               \/ /\ Len(flights') = 2 /\ ~flights'[1].done
                  /\ \A d \in Dones(stream') : c < d
    <2>1. /\ stream'[c].op = "copy" /\ c \in Nat \ {0}
          /\ c + 1 \in DOMAIN stream' /\ Armed(stream'[c + 1]) /\ stream'[c + 1].ends
      BY <1>2, <1>7 DEF Live
    <2>2. CASE c \notin DOMAIN stream
      <3>1. c = Len(stream) + 1 /\ Mode(batch) = "has_ft" /\ stream'[c] = CopyOp
        <4>1. c # n /\ ~Closes(stream'[c])
          BY <2>1 DEF Closes
        <4> QED BY <2>2, <4>1, <1>2
      <3> QED BY <3>1, <1>3 DEF CopyOp, NextPin
    <2>3. CASE c \in DOMAIN stream /\ c + 1 \in DOMAIN stream
      <3>1. stream'[c] = stream[c] /\ stream'[c + 1] = stream[c + 1]
        BY <1>2, <2>3
      <3>2. c + 1 \in Whole(stream)
        BY <2>1, <2>3, <3>1 DEF Whole, Armed
      <3>3. PICK d \in Dones(stream) : c + 1 < d
        BY <3>2 DEF TimingInv, StepsInv
      <3>4. PICK u \in Undone(flights) : TRUE
        BY <3>3 DEF TimingInv, AwaitedInv
      <3>5. Len(flights) = 1 /\ u = 1
        <4> DEFINE k == Len(flights)
        <4>1. k \in Nat /\ k < Depth /\ u \in 1 .. k /\ Depth \in {1, 2}
          BY <1>6, ModelRunnerAssumption DEF Undone
        <4> HIDE DEF k
        <4>2. k = 1 /\ u = 1
          BY <4>1
        <4> QED BY <4>2 DEF k
      <3>6. Len(flights') = 2 /\ ~flights'[1].done
        BY <1>6, <3>5 DEF Undone
      <3>7. \A x, y \in Dones(stream) : x = y
        <4>1. \A x, y \in Undone(flights) : x = y
          BY <1>6, <3>5 DEF Undone
        <4> QED BY <4>1 DEF TimingInv, AwaitedInv
      <3>8. ASSUME NEW x \in Dones(stream') PROVE c < x
        <4>1. x \in DOMAIN stream' /\ x \in Nat /\ stream'[x].op = "done"
          BY <1>2 DEF Dones
        <4>2. CASE x \in DOMAIN stream
          <5>1. x \in Dones(stream)
            BY <1>2, <4>1, <4>2 DEF Dones
          <5>2. x = d
            BY <3>7, <5>1
          <5> QED BY <2>1, <3>3, <4>1, <5>2
        <4>3. CASE x \notin DOMAIN stream
          BY <1>2, <2>1, <2>3, <4>1, <4>3
        <4> QED BY <4>2, <4>3
      <3> QED BY <3>6, <3>8
    <2>4. CASE c \in DOMAIN stream /\ c + 1 \notin DOMAIN stream
      <3>1. c + 1 = Len(stream) + 1
        BY <1>2, <2>1, <2>4
      <3>2. CASE Mode(batch) = "has_ft"
        <4>1. stream'[c + 1] = CopyOp
          <5>1. n - 1 = Len(stream) + 1
            BY <1>2, <3>2
          <5> QED BY <1>2, <3>1, <3>2, <5>1
        <4> QED BY <2>1, <4>1 DEF CopyOp, Armed
      <3>3. CASE Mode(batch) # "has_ft"
        <4>1. c + 1 = n
          BY <1>2, <3>1, <3>3
        <4> QED BY <2>1, <3>3, <4>1
      <3> QED BY <3>2, <3>3
    <2> QED BY <2>2, <2>3, <2>4
  <1>8. PinInv'
    BY <1>7 DEF PinInv, NextPin, Dones
  <1> QED BY <1>5, <1>8

\* The samples held, with one more step in flight.
LEMMA AppendHeld ==
    ASSUME IsSeq(flights), NEW e, flights' = Append(flights, e)
    PROVE  /\ Held' = Held \union e.claims
           /\ Len(flights) \in Nat
           /\ \A i \in DOMAIN flights' :
                 \/ i \in DOMAIN flights /\ flights'[i] = flights[i]
                 \/ i = Len(flights) + 1 /\ flights'[i] = e
  <1> DEFINE m == Len(flights)
  <1>1. /\ m \in Nat /\ DOMAIN flights = 1 .. m
        /\ IsSeq(flights') /\ Len(flights') = m + 1 /\ flights'[m + 1] = e
        /\ \A i \in 1 .. m : flights'[i] = flights[i]
    BY IsSeqFacts, AppendFacts
  <1>2. DOMAIN flights' = 1 .. m + 1
    <2>1. DOMAIN flights' = 1 .. Len(flights')
      BY <1>1, IsSeqFacts
    <2> QED BY <2>1, <1>1
  <1> HIDE DEF m
  <1>3. /\ \A i \in 1 .. m + 1 : i \in 1 .. m \/ i = m + 1
        /\ \A i \in 1 .. m : i \in 1 .. m + 1
        /\ m + 1 \in 1 .. m + 1
    BY <1>1
  <1>4. \A i \in DOMAIN flights' :
           \/ i \in DOMAIN flights /\ flights'[i] = flights[i]
           \/ i = m + 1 /\ flights'[i] = e
    BY <1>1, <1>2, <1>3
  <1>5. Held' = Held \union e.claims
    <2>1. Held' \subseteq Held \union e.claims
      BY <1>4 DEF Held
    <2>2. Held \subseteq Held'
      <3>1. \A i \in DOMAIN flights : i \in DOMAIN flights' /\ flights'[i] = flights[i]
        BY <1>1, <1>2, <1>3
      <3> QED BY <3>1 DEF Held
    <2>3. e.claims \subseteq Held'
      <3>1. m + 1 \in DOMAIN flights' /\ flights'[m + 1] = e
        BY <1>1, <1>2, <1>3
      <3> QED BY <3>1 DEF Held
    <2> QED BY <2>1, <2>2, <2>3
  <1> QED BY <1>1, <1>4, <1>5 DEF m

\* A step that was not left holds nothing: its samples are in the account.
LEMMA HoldAfterWhole ==
    ASSUME IsSeq(flights), HoldInv, fill \in Nat, NEW batch, NEW S, Takes(batch, S),
           NEW e, flights' = Append(flights, e), e.claims = {},
           UNCHANGED <<pc, child>>, fill' = fill + Tokens(S),
           buffer_samples' = buffer_samples \union S
    PROVE  HoldInv'
  <1>1. /\ Held' = Held
        /\ \A i \in DOMAIN flights' :
              \/ i \in DOMAIN flights /\ flights'[i] = flights[i]
              \/ i = Len(flights) + 1 /\ flights'[i] = e
    <2>1. /\ Held' = Held \union e.claims
          /\ \A i \in DOMAIN flights' :
                \/ i \in DOMAIN flights /\ flights'[i] = flights[i]
                \/ i = Len(flights) + 1 /\ flights'[i] = e
      BY AppendHeld
    <2> QED BY <2>1
  <1>2. \A i, j \in DOMAIN flights' :
           flights'[i].claims # {} /\ flights'[j].claims # {} => i = j
    BY <1>1 DEF HoldInv
  <1>3. ASSUME Held # {}, NEW T \in SUBSET Samples, Fits(T)' PROVE T = {}
    <2>1. S = {}
      BY <1>3 DEF Takes
    <2>2. buffer_samples' = buffer_samples /\ fill' = fill
      <3>1. Tokens(S) = 0
        BY <2>1, TokensSome DEF Takes
      <3> QED BY <2>1, <3>1
    <2>3. Claimed' = Claimed /\ Space' = Space
      BY <1>1, <2>2 DEF Claimed, Space, Reserved, Held
    <2>4. Fits(T)
      BY <1>3, <2>3 DEF Fits
    <2> QED BY <1>3, <2>4 DEF HoldInv
  <1> QED BY <1>1, <1>2, <1>3 DEF HoldInv

\* An aborted step holds its samples, and as it took all that fit, there is no
\* room for others (FtOnly: a step of samples alone takes what fits).
LEMMA HoldAfterPart ==
    ASSUME IsSeq(flights), HoldInv, fill \in Nat, buffer_samples \subseteq Samples,
           NEW batch, NEW S, Takes(batch, S), FtOnly(batch), pc = "step",
           NEW e, flights' = Append(flights, e), e.claims = ToSet(batch),
           UNCHANGED <<pc, child, fill, buffer_samples>>
    PROVE  HoldInv'
  <1>1. /\ S # {} /\ ToSet(batch) = S /\ Filled(S) /\ child = "idle" /\ Held = {}
        /\ Reserved = 0 /\ Tokens(S) <= Capacity - fill /\ Tokens(S) \in Nat
        /\ S \in SUBSET Samples /\ S \cap Claimed = {}
    BY DEF Takes
  <1>2. /\ Held' = S
        /\ \A i \in DOMAIN flights' :
              \/ i \in DOMAIN flights /\ flights'[i] = flights[i]
              \/ i = Len(flights) + 1 /\ flights'[i] = e
    <2>1. /\ Held' = Held \union e.claims
          /\ \A i \in DOMAIN flights' :
                \/ i \in DOMAIN flights /\ flights'[i] = flights[i]
                \/ i = Len(flights) + 1 /\ flights'[i] = e
      BY AppendHeld
    <2> QED BY <1>1, <2>1
  <1>3. \A i, j \in DOMAIN flights' :
           flights'[i].claims # {} /\ flights'[j].claims # {} => i = j
    <2>1. \A i \in DOMAIN flights : flights[i].claims = {}
      BY <1>1 DEF Held
    <2> QED BY <1>2, <2>1
  <1>4. ASSUME NEW T \in SUBSET Samples, Fits(T)' PROVE T = {}
    <2>1. Claimed' = buffer_samples \union S /\ Claimed = buffer_samples
      BY <1>1, <1>2 DEF Claimed, Held
    <2>2. Space' = Capacity - fill - Tokens(S)
      BY <1>2 DEF Space, Reserved, Held
    <2>3. Space = Capacity - fill
      BY <1>1, ModelRunnerAssumption DEF Space
    <2>4. T \cap S = {} /\ T \cap Claimed = {} /\ Tokens(T) <= Capacity - fill - Tokens(S)
      BY <1>4, <2>1, <2>2 DEF Fits
    <2>5. Tokens(S \union T) = Tokens(S) + Tokens(T) /\ Tokens(T) \in Nat
      <3>1. S \cap T = {}
        BY <2>4
      <3> QED BY <1>1, <3>1, TokensAdd
    <2>6. Tokens(S \union T) <= Space
      BY <1>1, <2>3, <2>4, <2>5, ModelRunnerAssumption
    <2>7. S \union T \in Fillable
      <3>1. Fits(S \union T)
        BY <1>1, <2>4, <2>6 DEF Fits
      <3> QED BY <1>1, <3>1 DEF Fillable
    <2>8. S \union T = S
      BY <1>1, <2>7 DEF Filled
    <2> QED BY <2>4, <2>8
  <1> QED BY <1>1, <1>2, <1>3, <1>4 DEF HoldInv

\* A function of naturals on the first n numbers is a sequence.
LEMMA TotalSeq ==
    ASSUME NEW n \in Nat, NEW g \in [1 .. n -> Nat]
    PROVE  g \in Seq(Nat) /\ Len(g) = n
  <1>1. g \in UNION {[1 .. m -> Nat] : m \in Nat}
    OBVIOUS
  <1>2. g \in Seq(Nat)
    BY <1>1, SeqDef
  <1> QED BY <1>2, LenProperties

\* Two orders of different samples, one behind the other.
LEMMA OrderGrows ==
    ASSUME NEW a \in Seq(Samples), NEW b \in Seq(Samples), OneEach(a), OneEach(b),
           ToSet(a) \cap ToSet(b) = {}
    PROVE  /\ a \o b \in Seq(Samples) /\ OneEach(a \o b)
           /\ ToSet(a \o b) = ToSet(a) \union ToSet(b)
           /\ Flat(a \o b) = Flat(a) \o Flat(b)
           /\ [i \in DOMAIN (a \o b) |-> SampleLen[(a \o b)[i]]]
                = [i \in DOMAIN a |-> SampleLen[a[i]]] \o [i \in DOMAIN b |-> SampleLen[b[i]]]
  <1> DEFINE c == a \o b
             m == Len(a)
             n == Len(b)
             L(q) == [i \in DOMAIN q |-> SampleLen[q[i]]]
  <1>1. /\ m \in Nat /\ n \in Nat /\ DOMAIN a = 1 .. m /\ DOMAIN b = 1 .. n
        /\ c \in Seq(Samples) /\ Len(c) = m + n /\ DOMAIN c = 1 .. m + n
        /\ \A j \in 1 .. m + n : c[j] = IF j <= m THEN a[j] ELSE b[j - m]
    <2>1. m \in Nat /\ n \in Nat /\ DOMAIN a = 1 .. m /\ DOMAIN b = 1 .. n
      BY TypedSeq
    <2>2. /\ c \in Seq(Samples) /\ Len(c) = m + n
          /\ \A j \in 1 .. m + n : c[j] = IF j <= m THEN a[j] ELSE b[j - m]
      BY ConcatProperties
    <2>3. DOMAIN c = 1 .. Len(c)
      <3> HIDE DEF c
      <3> QED BY <2>2, TypedSeq
    <2> QED BY <2>1, <2>2, <2>3
  <1>2. Flat(c) = Flat(a) \o Flat(b)
    <2>1. a \in Seq(Requests) /\ b \in Seq(Requests)
      <3>1. Samples \subseteq Requests
        BY DEF Requests
      <3> QED BY <3>1, SeqMonotonic
    <2> QED BY <2>1, FlatConcat
  <1>3. /\ \A x \in Samples : SampleLen[x] \in Nat
        /\ \A j \in 1 .. m : a[j] \in Samples
        /\ \A j \in 1 .. n : b[j] \in Samples
    <2>1. \A x \in Samples : SampleLen[x] \in Nat
      BY ModelRunnerAssumption
    <2> QED BY <2>1, TypedSeq
  <1> HIDE DEF c, m, n
  <1>4. /\ \A j \in 1 .. m + n :
              (j \in 1 .. m /\ c[j] = a[j]) \/ (j - m \in 1 .. n /\ j > m /\ c[j] = b[j - m])
        /\ \A j \in 1 .. m : j \in 1 .. m + n /\ c[j] = a[j]
        /\ \A j \in 1 .. n : m + j \in 1 .. m + n /\ c[m + j] = b[j]
    <2>1. ASSUME NEW j \in 1 .. m + n
          PROVE  (j \in 1 .. m /\ c[j] = a[j]) \/ (j - m \in 1 .. n /\ j > m /\ c[j] = b[j - m])
      <3>1. CASE j <= m
        BY <1>1, <3>1
      <3>2. CASE ~(j <= m)
        <4>1. j - m \in 1 .. n /\ j > m
          BY <1>1, <3>2
        <4> QED BY <1>1, <3>2, <4>1
      <3> QED BY <3>1, <3>2
    <2>2. ASSUME NEW j \in 1 .. m PROVE j \in 1 .. m + n /\ c[j] = a[j]
      <3>1. j \in 1 .. m + n /\ j <= m
        BY <1>1
      <3> QED BY <1>1, <3>1
    <2>3. ASSUME NEW j \in 1 .. n PROVE m + j \in 1 .. m + n /\ c[m + j] = b[j]
      <3>1. m + j \in 1 .. m + n /\ ~(m + j <= m) /\ (m + j) - m = j
        BY <1>1
      <3> QED BY <1>1, <3>1
    <2> QED BY <2>1, <2>2, <2>3
  <1>5. OneEach(c)
    <2> SUFFICES ASSUME NEW i \in 1 .. m + n, NEW j \in 1 .. m + n, c[i] = c[j] PROVE i = j
      BY <1>1 DEF OneEach
    <2>1. CASE i \in 1 .. m /\ c[i] = a[i] /\ j \in 1 .. m /\ c[j] = a[j]
      BY <1>1, <2>1 DEF OneEach
    <2>2. CASE i - m \in 1 .. n /\ c[i] = b[i - m] /\ j - m \in 1 .. n /\ c[j] = b[j - m]
      <3>1. i - m = j - m
        BY <1>1, <2>2 DEF OneEach
      <3> QED BY <1>1, <3>1
    <2>3. CASE i \in 1 .. m /\ c[i] = a[i] /\ j - m \in 1 .. n /\ c[j] = b[j - m]
      BY <1>1, <2>3 DEF ToSet
    <2>4. CASE j \in 1 .. m /\ c[j] = a[j] /\ i - m \in 1 .. n /\ c[i] = b[i - m]
      BY <1>1, <2>4 DEF ToSet
    <2> QED BY <1>4, <2>1, <2>2, <2>3, <2>4
  <1>6. ToSet(c) = ToSet(a) \union ToSet(b)
    <2>1. ToSet(c) \subseteq ToSet(a) \union ToSet(b)
      BY <1>1, <1>4 DEF ToSet
    <2>2. ToSet(a) \subseteq ToSet(c)
      BY <1>1, <1>4 DEF ToSet
    <2>3. ToSet(b) \subseteq ToSet(c)
      <3> SUFFICES ASSUME NEW j \in 1 .. n PROVE b[j] \in ToSet(c)
        BY <1>1 DEF ToSet
      <3>1. m + j \in DOMAIN c /\ c[m + j] = b[j]
        BY <1>1, <1>4
      <3> QED BY <3>1 DEF ToSet
    <2> QED BY <2>1, <2>2, <2>3
  <1>7. L(c) = L(a) \o L(b)
    <2> DEFINE x == L(a)
               y == L(b)
               z == L(c)
               w == x \o y
    <2>1. /\ x \in Seq(Nat) /\ Len(x) = m /\ y \in Seq(Nat) /\ Len(y) = n
          /\ z \in Seq(Nat) /\ Len(z) = m + n
      <3>1. \A j \in 1 .. m + n : SampleLen[c[j]] \in Nat
        BY <1>3, <1>4
      <3>2. m + n \in Nat
        BY <1>1
      <3>3. /\ x = [j \in 1 .. m |-> SampleLen[a[j]]] /\ y = [j \in 1 .. n |-> SampleLen[b[j]]]
            /\ z = [j \in 1 .. m + n |-> SampleLen[c[j]]]
        BY <1>1
      <3>4. /\ \A j \in 1 .. m : SampleLen[a[j]] \in Nat
            /\ \A j \in 1 .. n : SampleLen[b[j]] \in Nat
        BY <1>3
      <3> HIDE DEF x, y, z
      <3>5. m \in Nat /\ n \in Nat /\ x \in [1 .. m -> Nat] /\ y \in [1 .. n -> Nat]
        BY <1>1, <3>3, <3>4
      <3> DEFINE l == m + n
      <3>6. l \in Nat /\ z \in [1 .. l -> Nat]
        BY <3>1, <3>2, <3>3
      <3> HIDE DEF l
      <3> QED BY <3>5, <3>6, TotalSeq DEF l
    <2>2. \A j \in 1 .. m + n : z[j] = SampleLen[c[j]]
      BY <1>1
    <2>3. /\ \A j \in 1 .. m : x[j] = SampleLen[a[j]]
          /\ \A j \in 1 .. n : y[j] = SampleLen[b[j]]
      BY <1>1
    <2> HIDE DEF x, y, z
    <2>4. /\ w \in Seq(Nat) /\ Len(w) = Len(x) + Len(y)
          /\ \A j \in 1 .. Len(x) + Len(y) :
                w[j] = IF j <= Len(x) THEN x[j] ELSE y[j - Len(x)]
      BY <2>1, ConcatProperties
    <2> HIDE DEF w
    <2>5. ASSUME NEW j \in 1 .. m + n PROVE z[j] = w[j]
      <3>1. w[j] = IF j <= m THEN x[j] ELSE y[j - m]
        BY <2>1, <2>4
      <3>2. CASE j \in 1 .. m /\ c[j] = a[j]
        <4>1. j <= m
          BY <1>1, <3>2
        <4> QED BY <2>2, <2>3, <3>1, <3>2, <4>1
      <3>3. CASE j - m \in 1 .. n /\ j > m /\ c[j] = b[j - m]
        <4>1. ~(j <= m)
          BY <1>1, <3>3
        <4> QED BY <2>2, <2>3, <3>1, <3>3, <4>1
      <3> QED BY <1>4, <3>2, <3>3
    <2>6. z = w
      <3>1. Len(w) = m + n
        BY <2>1, <2>4
      <3> QED BY <2>1, <2>4, <2>5, <3>1, SeqEqual
    <2> QED BY <2>6 DEF x, y, z, w
  <1> QED BY <1>1, <1>2, <1>5, <1>6, <1>7 DEF c

\* The rows of the step's samples come: by its forward, the last ones behind it.
LEMMA RowsOfStepCome ==
    ASSUME NEW batch, NEW S, Takes(batch, S), S # {}, IsSeq(stream), PinType,
           NEW offset \in Nat, offset + Tokens(S) <= Capacity, ArmPin(batch, offset),
           NEW points, NEW n, n = ForwardPlace(batch), config' = config,
           Fills(HookSaves(config, points), Buffers(config) \ FinalBuffers(config)),
           Fills(OpSaves(config, points), Buffers(config) \ FinalBuffers(config)),
           Begun(stream', batch, ForwardOp(batch, offset, points, TRUE)),
           Len(stream') = n + 2, stream'[n + 1].op = "final",
           Lands(stream'[n + 1].writes, offset, Flat(FtOf(batch))),
           stream'[n + 2].op = "done",
           NEW p \in Buffers(config), NEW k \in 1 .. Len(Flat(FtOf(batch))),
           NEW r, r = offset + k, NEW v, v = Flat(FtOf(batch))[k]
    PROVE  Comes(p, r, v)'
  <1> DEFINE t == Flat(FtOf(batch))
  <1>1. /\ Lands(WritesOf(stream'[n], Gathers(n)'), offset, t)
        /\ stream'[n].op = "forward" /\ stream'[n].ends = TRUE
        /\ SavesOf(config, stream'[n]) =
              IF Mode(batch) = "has_ft" THEN OpSaves(config, points)
                                        ELSE HookSaves(config, points)
    <2> DEFINE ends == TRUE
    <2>1. Begun(stream', batch, ForwardOp(batch, offset, points, ends))
      OBVIOUS
    <2> HIDE DEF ends
    <2>2. /\ Lands(WritesOf(stream'[n], Gathers(n)'), offset, t)
          /\ stream'[n].op = "forward" /\ stream'[n].ends = ends
          /\ SavesOf(config, stream'[n]) =
                IF Mode(batch) = "has_ft" THEN OpSaves(config, points)
                                          ELSE HookSaves(config, points)
      BY <2>1, ForwardWrites
    <2> QED BY <2>2 DEF ends
  <1>2. /\ n \in Nat \ {0} /\ n + 2 \in Nat /\ DOMAIN stream' = 1 .. n + 2
    <2>1. Len(stream) \in Nat
      BY IsSeqFacts
    <2>2. n \in Nat \ {0}
      BY <2>1 DEF ForwardPlace
    <2>3. DOMAIN stream' = 1 .. Len(stream')
      BY IsSeqFacts DEF Begun
    <2> QED BY <2>2, <2>3
  <1>3. /\ \A w : Lands(w, offset, t) => r \in DOMAIN w /\ w[r] = v
    <2>1. Len(t) \in Nat
      BY DEF Takes
    <2> DEFINE l == Len(t)
    <2>2. l \in Nat /\ k \in 1 .. l
      BY <2>1
    <2> HIDE DEF l
    <2>3. r \in offset + 1 .. offset + l
      BY <2>2
    <2> QED BY <2>3 DEF Lands, l
  <1> HIDE DEF t
  <1>4. ~Touches(n + 2, p, r)'
    <2>1. SavesOf(config', stream'[n + 2]) = <<>>
      BY DEF SavesOf
    <2> QED BY <2>1, EmptySeq DEF Touches, Hits
  <1>5. SavesOf(config', stream'[n + 1]) = Each(FinalBuffers(config))
    BY DEF SavesOf
  <1>6. Kept(n)' /\ Kept(n + 1)'
    <2>1. n + 1 \in DOMAIN stream' /\ n < n + 1
      BY <1>2
    <2> QED BY <2>1, <1>1 DEF Kept
  <1>7. CASE p \in FinalBuffers(config)
    <2>1. p \in DOMAIN Each(FinalBuffers(config)) /\ Each(FinalBuffers(config))[p] = p
      BY <1>7 DEF Each
    <2>2. WritesOf(stream'[n + 1], Gathers(n + 1)') = stream'[n + 1].writes
      BY DEF WritesOf
    <2>3. Touches(n + 1, p, r)' /\ Leaves(n + 1, p, r)' = v
      BY <1>3, <1>5, <2>1, <2>2 DEF Touches, Leaves, Hits, Puts, t
    <2>4. n + 1 \in 0 .. n + 2 /\ n + 1 # 0 /\ \A j \in n + 1 + 1 .. n + 2 : j = n + 2
      BY <1>2
    <2>5. Gives(n + 1, p, r, v)'
      BY <1>6, <2>3, <2>4 DEF Gives
    <2> QED BY <1>4, <2>4, <2>5 DEF Comes
  <1>8. CASE p \notin FinalBuffers(config)
    <2>1. p \in DOMAIN SavesOf(config', stream'[n]) /\ SavesOf(config', stream'[n])[p] = p
      <3>1. p \in Buffers(config) \ FinalBuffers(config)
        BY <1>8
      <3> QED BY <1>1, <3>1 DEF Fills
    <2>2. Touches(n, p, r)' /\ Leaves(n, p, r)' = v
      BY <1>1, <1>3, <2>1 DEF Touches, Leaves, Hits, Puts
    <2>3. ~Touches(n + 1, p, r)'
      <3>1. p \notin DOMAIN Each(FinalBuffers(config))
        BY <1>8 DEF Each
      <3> QED BY <1>5, <3>1 DEF Touches, Hits
    <2>4. n \in 0 .. n + 2 /\ n # 0 /\ \A j \in n + 1 .. n + 2 : j = n + 1 \/ j = n + 2
      BY <1>2
    <2>5. Gives(n, p, r, v)'
      BY <1>6, <2>2, <2>4 DEF Gives
    <2> QED BY <1>4, <2>3, <2>4, <2>5 DEF Comes
  <1> QED BY <1>7, <1>8

\* The account is of what the buffer can hold.
LEMMA AccountFacts ==
    ASSUME RowInv, HoldInv
    PROVE  /\ fill \in Nat /\ fill <= Capacity /\ buffer_samples \subseteq Samples
           /\ Reserved \in Nat
  <1>1. PICK order \in Seq(Samples) : Saved(order)
    BY DEF RowInv
  <1>2. Flat(order) \in Seq(Samples \X Nat)
    BY FlatType DEF Requests
  <1>3. fill \in Nat /\ fill <= Capacity
    BY <1>1, <1>2, LenProperties DEF Saved
  <1>4. buffer_samples \subseteq Samples
    BY <1>1, FlatLength DEF Saved
  <1>5. Held \in SUBSET Samples
    BY DEF HoldInv
  <1>6. Reserved \in Nat
    BY <1>5, TokensSome DEF Reserved, Held
  <1> QED BY <1>3, <1>4, <1>6

\* What both kinds of step need to know of where their rows go.
LEMMA OffsetFacts ==
    ASSUME RowInv, HoldInv, NEW batch, NEW S, Takes(batch, S), NEW offset,
           offset = fill + Reserved
    PROVE  /\ offset \in Nat /\ fill <= offset
           /\ S # {} => offset = fill /\ offset + Tokens(S) <= Capacity
  <1>1. fill \in Nat /\ Reserved \in Nat
    BY AccountFacts
  <1>2. S # {} => Reserved = 0 /\ Tokens(S) <= Capacity - fill
    BY DEF Takes
  <1>3. Tokens(S) \in Nat
    BY DEF Takes
  <1> QED BY <1>1, <1>2, <1>3, ModelRunnerAssumption

\* A step is enqueued whole: its samples come behind those accounted for, in the
\* order of the batch, in every buffer (_model_forward, _ft_after_forward).
LEMMA ForwardDoneKeepsRows ==
    ASSUME Depth <= PinRing, TimingInv, RowType, PinType, PinInv, HoldInv, ReadingInv, RowInv,
           NEW batch \in Batches, NEW discarded, NEW missed,
           ForwardDone(batch, discarded, missed)
    PROVE  RowType' /\ PinType' /\ PinInv' /\ HoldInv' /\ ReadingInv' /\ RowInv'
  <1>1. /\ fill \in Nat /\ fill <= Capacity /\ buffer_samples \subseteq Samples
        /\ Reserved \in Nat
    BY AccountFacts
  <1>2. PICK S : Takes(batch, S)
    BY <1>1, BatchTakes
  <1>3. PICK offset : offset = fill + Reserved
    OBVIOUS
  <1>4. PICK points : points = Len(Hooks(config))
    OBVIOUS
  <1> DEFINE e == [ids |-> FreshIds(batch), claims |-> {}, aborted |-> FALSE, done |-> FALSE]
             ft == FtOf(batch)
  <1>5. /\ UNCHANGED <<config, pc, child, ft_idx, rows>>
        /\ fill' = fill + Tokens(ToSet(ft))
        /\ sample_lens' = sample_lens \o SampleLens(batch)
        /\ buffer_samples' = buffer_samples \union ToSet(ft)
        /\ flights' = Append(flights, e)
    BY DEF ForwardDone, Begin, MayEnqueue
  <1>21. Len(flights) < Depth /\ ArmPin(batch, offset)
    BY <1>3 DEF ForwardDone, Begin, MayEnqueue
  <1>22. AddsWhole(batch, offset, points)
    BY <1>3, <1>4 DEF ForwardDone, AddsWhole
  <1>23. flights' = Append(flights, e)
    BY <1>5
  <1>24. UNCHANGED <<config, rows, ft_idx>>
    BY <1>5
  <1>6. e.claims = {}
    OBVIOUS
  <1> HIDE DEF e
  <1>7. /\ ft \in Seq(Samples) /\ OneEach(ft) /\ ToSet(ft) = S /\ S \cap Claimed = {}
        /\ S \in SUBSET Samples /\ Len(Flat(ft)) = Tokens(S) /\ Tokens(S) \in Nat
    BY <1>2 DEF Takes
  <1>8. /\ offset \in Nat /\ fill <= offset
        /\ S # {} => offset = fill /\ offset + Tokens(S) <= Capacity
    BY <1>2, <1>3, OffsetFacts
  <1>9. IsSeq(stream) /\ IsSeq(flights)
    BY DEF TimingInv, StreamType, FlightType
  <1>10. PICK n : n = ForwardPlace(batch)
    OBVIOUS
  <1>11. /\ Begun(stream', batch, ForwardOp(batch, offset, points, TRUE))
         /\ S # {} => /\ Len(stream') = n + 2 /\ stream'[n + 1].op = "final"
                      /\ Lands(stream'[n + 1].writes, offset, Flat(FtOf(batch)))
                      /\ stream'[n + 2].op = "done"
         /\ S = {} => Len(stream') = n + 1 /\ stream'[n + 1].op = "done"
         /\ \A i \in n + 1 .. Len(stream') :
               Closes(stream'[i]) /\ Behind(stream'[i], offset)
    BY <1>2, <1>8, <1>9, <1>10, <1>22, WholeStep
  <1>12. PICK ends : ends = TRUE
    OBVIOUS
  <1>13. Begun(stream', batch, ForwardOp(batch, offset, points, ends))
    BY <1>11, <1>12
  <1>14. /\ stream'[n].op = "forward"
         /\ Armed(stream'[n]) <=> Mode(batch) = "has_ft"
    BY <1>2, <1>8, <1>9, <1>10, <1>13, <1>21, ForwardWrites
  <1>15. Spares
    BY <1>21, SlotSpared
  <1>16. PinType' /\ PinInv'
    BY <1>10, <1>11, <1>14, <1>21, <1>23, StepPins
  <1>17. RowType'
    BY <1>5 DEF RowType
  <1>18. HoldInv'
    <2>1. fill' = fill + Tokens(S) /\ buffer_samples' = buffer_samples \union S
      BY <1>5, <1>7
    <2> QED BY <1>1, <1>2, <1>5, <1>6, <1>9, <2>1, HoldAfterWhole
  <1>19. ReadingInv'
    <2> SUFFICES ASSUME child = "reading", NEW i \in DOMAIN stream', stream'[i].op = "final"
                 PROVE  FALSE
      BY <1>5 DEF ReadingInv
    <2>1. S = {}
      BY <1>2 DEF Takes
    <2>2. /\ n \in Nat /\ Len(stream') = n + 1 /\ stream'[n + 1].op = "done"
      <3>1. n \in Nat
        BY <1>10, <1>11 DEF Begun
      <3> QED BY <1>11, <2>1, <3>1
    <2>3. /\ \A x \in DOMAIN stream : stream'[x] = stream[x]
          /\ \A x \in DOMAIN stream' :
                /\ x \in Nat \ {0}
                /\ \/ x \in DOMAIN stream
                   \/ x = n
                   \/ x = Len(stream) + 1 /\ Mode(batch) = "has_ft" /\ stream'[x] = CopyOp
                   \/ x > n /\ Closes(stream'[x])
      BY <1>9, <1>10, <1>11, StepPlaces
    <2>4. CASE i \in DOMAIN stream
      BY <2>3, <2>4 DEF ReadingInv
    <2>5. CASE i = n
      BY <1>14, <2>5
    <2>6. CASE stream'[i] = CopyOp
      BY <2>6 DEF CopyOp
    <2>7. CASE i > n
      <3>1. DOMAIN stream' = 1 .. n + 1
        BY <1>11, <2>2, IsSeqFacts DEF Begun
      <3>2. i = n + 1
        BY <2>2, <2>7, <3>1
      <3> QED BY <2>2, <3>2
    <2> QED BY <2>3, <2>4, <2>5, <2>6, <2>7
  <1>20. RowInv'
    <2>1. PICK order \in Seq(Samples) : Saved(order)
      BY DEF RowInv
    <2> DEFINE new == order \o ft
    <2>2. /\ OneEach(order) /\ ToSet(order) = buffer_samples
          /\ sample_lens = [i \in DOMAIN order |-> SampleLen[order[i]]]
          /\ fill = Len(Flat(order)) /\ fill <= Capacity
          /\ \A p \in Buffers(config), r \in 1 .. fill : Comes(p, r, Flat(order)[r])
      BY <2>1 DEF Saved
    <2>3. ToSet(order) \cap ToSet(ft) = {}
      BY <1>7, <2>2 DEF Claimed
    <2>4. /\ new \in Seq(Samples) /\ OneEach(new)
          /\ ToSet(new) = ToSet(order) \union ToSet(ft)
          /\ Flat(new) = Flat(order) \o Flat(ft)
          /\ [i \in DOMAIN new |-> SampleLen[new[i]]]
               = [i \in DOMAIN order |-> SampleLen[order[i]]] \o [i \in DOMAIN ft |-> SampleLen[ft[i]]]
      BY <1>7, <2>1, <2>2, <2>3, OrderGrows
    <2>5. sample_lens' = [i \in DOMAIN new |-> SampleLen[new[i]]]
      <3> HIDE DEF new
      <3> QED BY <1>5, <2>2, <2>4 DEF SampleLens
    <2> HIDE DEF new, ft
    <2>6. Flat(order) \in Seq(Samples \X Nat) /\ Flat(ft) \in Seq(Samples \X Nat)
      BY <1>7, <2>1, FlatType DEF Requests
    <2> DEFINE s == Flat(order)
               t == Flat(ft)
               l == Len(t)
    <2>7. /\ Len(Flat(new)) = fill + l /\ l \in Nat
          /\ \A r \in 1 .. fill : Flat(new)[r] = s[r]
          /\ \A k \in 1 .. l : Flat(new)[fill + k] = t[k]
      <3>1. s \in Seq(Samples \X Nat) /\ t \in Seq(Samples \X Nat) /\ Flat(new) = s \o t
        BY <2>4, <2>6
      <3> DEFINE w == s \o t
      <3> HIDE DEF s, t
      <3>2. IsSeq(s) /\ IsSeq(t) /\ Len(t) \in Nat
        BY <3>1, TypedSeq
      <3>3. /\ Len(w) = Len(s) + Len(t)
            /\ \A j \in 1 .. Len(s) : w[j] = s[j]
            /\ \A j \in 1 .. Len(t) : w[Len(s) + j] = t[j]
        BY <3>2, ConcatFacts
      <3> HIDE DEF w
      <3>4. fill = Len(s) /\ Flat(new) = w
        BY <2>2, <3>1 DEF s, w
      <3> QED BY <3>2, <3>3, <3>4
    <2>8. fill' = Len(Flat(new)) /\ fill' = fill + l /\ fill' <= Capacity
      <3>1. l = Tokens(S)
        BY <1>7
      <3>2. fill' = fill + Tokens(S)
        BY <1>5, <1>7
      <3>3. fill + Tokens(S) <= Capacity
        <4>1. CASE S = {}
          <5>1. Tokens(S) = 0
            BY <1>7, <4>1, TokensSome
          <5> QED BY <1>1, <5>1, ModelRunnerAssumption
        <4>2. CASE S # {}
          BY <1>8, <4>2
        <4> QED BY <4>1, <4>2
      <3> QED BY <2>7, <3>1, <3>2, <3>3
    <2>9. ASSUME NEW p \in Buffers(config), NEW r \in 1 .. fill
          PROVE  Comes(p, r, Flat(new)[r])'
      <3> DEFINE v == Flat(new)[r]
      <3>1. Comes(p, r, v)
        BY <2>2, <2>7
      <3>2. r <= offset
        BY <1>1, <1>8
      <3> HIDE DEF v
      <3>3. \A i \in n + 1 .. Len(stream') : Behind(stream'[i], offset)
        BY <1>11
      <3>4. S # {} => offset + Tokens(S) <= Capacity
        BY <1>8
      <3>5. Comes(p, r, v)'
        BY <1>2, <1>8, <1>9, <1>10, <1>13, <1>15, <1>21, <1>24, <3>1, <3>2, <3>3, <3>4,
           RowsBeforeStay
      <3> QED BY <3>5 DEF v
    <2>10. ASSUME NEW p \in Buffers(config), NEW k \in 1 .. l, NEW r, r = fill + k
           PROVE  Comes(p, r, Flat(new)[r])'
      <3>1. S # {}
        <4> SUFFICES ASSUME S = {} PROVE FALSE
          OBVIOUS
        <4>1. l = 0
          BY <1>7, TokensSome
        <4> QED BY <4>1
      <3>2. r = offset + k
        BY <1>8, <2>10, <3>1
      <3>3. PICK v : v = Flat(FtOf(batch))[k]
        OBVIOUS
      <3>4. k \in 1 .. Len(Flat(FtOf(batch)))
        BY DEF ft
      <3>5. /\ Fills(HookSaves(config, points), Buffers(config) \ FinalBuffers(config))
            /\ Fills(OpSaves(config, points), Buffers(config) \ FinalBuffers(config))
        BY <1>4, WholeForwardFills DEF RowType
      <3>6. /\ Len(stream') = n + 2 /\ stream'[n + 1].op = "final"
            /\ Lands(stream'[n + 1].writes, offset, Flat(FtOf(batch)))
            /\ stream'[n + 2].op = "done"
        BY <1>11, <3>1
      <3>7. Comes(p, r, v)'
        BY <1>2, <1>8, <1>9, <1>10, <1>11, <1>21, <1>24, <3>1, <3>2, <3>3, <3>4, <3>5, <3>6,
           RowsOfStepCome
      <3>8. v = Flat(new)[r]
        BY <2>7, <2>10, <3>3 DEF ft
      <3> QED BY <3>7, <3>8
    <2>11. ASSUME NEW p \in Buffers(config), NEW r \in 1 .. fill + l
           PROVE  Comes(p, r, Flat(new)[r])'
      <3>1. CASE r \in 1 .. fill
        BY <2>9, <3>1
      <3>2. CASE r \notin 1 .. fill
        <4>1. \E k \in 1 .. l : r = fill + k
          <5> HIDE DEF l
          <5>1. r - fill \in 1 .. l /\ r = fill + (r - fill)
            BY <1>1, <2>7, <3>2
          <5> QED BY <5>1
        <4>2. PICK k \in 1 .. l : r = fill + k
          BY <4>1
        <4> QED BY <2>10, <4>2
      <3> QED BY <3>1, <3>2
    <2>12. Saved(new)'
      BY <1>5, <1>7, <2>2, <2>4, <2>5, <2>8, <2>11 DEF Saved
    <2> QED BY <2>4, <2>12 DEF RowInv
  <1> QED BY <1>16, <1>17, <1>18, <1>19, <1>20

\* A step is left at a hook or before a graph: it accounts for nothing, and what
\* it saved so far is zeroed behind it (_ft_on_abort).
LEMMA ForwardAbortedKeepsRows ==
    ASSUME Depth <= PinRing, TimingInv, RowType, PinType, PinInv, HoldInv, ReadingInv, RowInv,
           NEW batch \in Batches, NEW discarded, NEW points,
           ForwardAborted(batch, discarded, points)
    PROVE  RowType' /\ PinType' /\ PinInv' /\ HoldInv' /\ ReadingInv' /\ RowInv'
  <1>1. /\ fill \in Nat /\ fill <= Capacity /\ buffer_samples \subseteq Samples
        /\ Reserved \in Nat
    BY AccountFacts
  <1>2. PICK S : Takes(batch, S)
    BY <1>1, BatchTakes
  <1>3. PICK offset : offset = fill + Reserved
    OBVIOUS
  <1>4. PICK m : m = Tokens(ToSet(batch))
    OBVIOUS
  <1> DEFINE e == [ids |-> FreshIds(batch), claims |-> ToSet(batch),
                   aborted |-> TRUE, done |-> TRUE]
  <1>5. /\ UNCHANGED <<config, pc, child, ft_idx, rows, fill, sample_lens, buffer_samples>>
        /\ flights' = Append(flights, e) /\ pc = "step"
    BY DEF ForwardAborted, Begin, MayEnqueue
  <1>6. FtOnly(batch)
    BY DEF ForwardAborted
  <1>7. e.claims = ToSet(batch)
    OBVIOUS
  <1> HIDE DEF e
  <1>8. flights' = Append(flights, e)
    BY <1>5
  <1>9. UNCHANGED <<config, rows, ft_idx>>
    BY <1>5
  <1>10. Len(flights) < Depth /\ ArmPin(batch, offset)
    BY <1>3 DEF ForwardAborted, Begin, MayEnqueue
  <1>11. AddsPart(batch, offset, points, m)
    BY <1>3, <1>4 DEF ForwardAborted, AddsPart
  <1>12. m \in Nat
    BY <1>2, <1>4, <1>6 DEF Takes
  <1>13. /\ offset \in Nat /\ fill <= offset
         /\ S # {} => offset = fill /\ offset + Tokens(S) <= Capacity
    BY <1>2, <1>3, OffsetFacts
  <1>14. IsSeq(stream) /\ IsSeq(flights)
    BY DEF TimingInv, StreamType, FlightType
  <1>15. PICK n : n = ForwardPlace(batch)
    OBVIOUS
  <1>16. /\ Begun(stream', batch, ForwardOp(batch, offset, points, FALSE))
         /\ Len(stream') = n + 1 /\ stream'[n + 1].op = "zero"
         /\ \A i \in n + 1 .. Len(stream') :
               Closes(stream'[i]) /\ Behind(stream'[i], offset)
    BY <1>11, <1>12, <1>13, <1>14, <1>15, PartStep
  <1>17. PICK ends : ends = FALSE
    OBVIOUS
  <1>18. Begun(stream', batch, ForwardOp(batch, offset, points, ends))
    BY <1>16, <1>17
  <1>19. /\ stream'[n].op = "forward"
         /\ Armed(stream'[n]) <=> Mode(batch) = "has_ft"
    BY <1>2, <1>10, <1>13, <1>14, <1>15, <1>18, ForwardWrites
  <1>20. Spares
    BY <1>10, SlotSpared
  <1>21. PinType' /\ PinInv'
    BY <1>8, <1>10, <1>15, <1>16, <1>19, StepPins
  <1>22. RowType'
    BY <1>5 DEF RowType
  <1>23. HoldInv'
    BY <1>1, <1>2, <1>5, <1>6, <1>7, <1>14, HoldAfterPart
  <1>24. ReadingInv'
    <2>1. child # "reading"
      BY <1>2, <1>6 DEF Takes
    <2> QED BY <1>5, <2>1 DEF ReadingInv
  <1>25. RowInv'
    <2>1. PICK order \in Seq(Samples) : Saved(order)
      BY DEF RowInv
    <2>2. ASSUME NEW p \in Buffers(config), NEW r \in 1 .. fill
          PROVE  Comes(p, r, Flat(order)[r])'
      <3> DEFINE v == Flat(order)[r]
      <3>1. Comes(p, r, v)
        BY <2>1 DEF Saved
      <3>2. r <= offset
        BY <1>1, <1>13
      <3> HIDE DEF v
      <3>3. \A i \in n + 1 .. Len(stream') : Behind(stream'[i], offset)
        BY <1>16
      <3>4. S # {} => offset + Tokens(S) <= Capacity
        BY <1>13
      <3>5. Comes(p, r, v)'
        BY <1>2, <1>9, <1>10, <1>13, <1>14, <1>15, <1>18, <1>20, <3>1, <3>2, <3>3, <3>4,
           RowsBeforeStay
      <3> QED BY <3>5 DEF v
    <2>3. Saved(order)'
      BY <1>5, <2>1, <2>2 DEF Saved
    <2> QED BY <2>3 DEF RowInv
  <1> QED BY <1>21, <1>22, <1>23, <1>24, <1>25

-----------------------------------------------------------------------------
(***************************************************************************)
(* What the child is handed.                                               *)
(***************************************************************************)
RowsInv == RowType /\ PinType /\ PinInv /\ HoldInv /\ ReadingInv /\ RowInv

\* At first the buffers are empty.
LEMMA RowsInitial == Init => RowsInv
  <1> SUFFICES ASSUME Init PROVE RowsInv
    OBVIOUS
  <1>1. /\ config \in Configs /\ flights = <<>> /\ stream = <<>> /\ child = "idle"
        /\ fill = 0 /\ sample_lens = <<>> /\ buffer_samples = {}
        /\ idx_pin = [i \in 0 .. PinRing - 1 |-> ft_idx] /\ idx_pin_pos = 0
        /\ rows = [b \in Buffers(config) |-> [r \in 1 .. Capacity |-> Zero]]
    BY DEF Init
  <1>2. DOMAIN stream = {} /\ DOMAIN flights = {}
    BY <1>1, EmptySeq
  <1>3. RowType
    BY <1>1, ModelRunnerAssumption DEF RowType
  <1>4. PinType
    BY <1>1, <1>2, ModelRunnerAssumption DEF PinType, PinSlots
  <1>5. PinInv /\ ReadingInv
    BY <1>1, <1>2 DEF PinInv, ReadingInv
  <1>6. HoldInv
    BY <1>2 DEF HoldInv, Held
  <1>7. RowInv
    <2>1. Emptied
      BY <1>1 DEF Emptied
    <2> QED BY <2>1, NothingSaved
  <1> QED BY <1>3, <1>4, <1>5, <1>6, <1>7 DEF RowsInv

\* Every step keeps what is said of the rows.
LEMMA RowsKept ==
    ASSUME Depth <= PinRing, TimingInv, RowsInv, [Next]_vars
    PROVE  RowsInv'
  <1>1. RowType /\ PinType /\ PinInv /\ HoldInv /\ ReadingInv /\ RowInv
    BY DEF RowsInv
  <1>2. IsSeq(stream) /\ FlightType
    BY DEF TimingInv, StreamType
  <1>3. ASSUME NEW batch \in Batches, NEW discarded \in BOOLEAN,
               NEW missed \in BOOLEAN, ForwardDone(batch, discarded, missed)
        PROVE  RowsInv'
    BY <1>1, <1>3, ForwardDoneKeepsRows DEF RowsInv
  <1>4. ASSUME NEW batch \in Batches, NEW discarded \in BOOLEAN,
               NEW points \in 0 .. Len(Hooks(config)),
               ForwardAborted(batch, discarded, points)
        PROVE  RowsInv'
    BY <1>1, <1>4, ForwardAbortedKeepsRows DEF RowsInv
  <1>5. CASE UpdateFromOutput
    BY <1>1, <1>2, <1>5, UpdateKeepsRows DEF RowsInv
  <1>6. CASE TriggerBackward \/ SendWork
    BY <1>1, <1>6, TriggerKeepsRows DEF RowsInv
  <1>7. CASE BackwardDone
    BY <1>1, <1>7, BackwardKeepsRows DEF RowsInv
  <1>8. CASE Gpu
    BY <1>1, <1>2, <1>8, GpuKeepsRows DEF RowsInv
  <1>9. CASE UNCHANGED vars
    <2>1. UNCHANGED <<config, pc, flights, fill, sample_lens, buffer_samples, child,
                      idx_pin, idx_pin_pos, ft_idx, stream, rows>>
      BY <1>9 DEF vars, host_vars, coord_vars, pin_vars
    <2>2. RowType' /\ PinType' /\ PinInv' /\ ReadingInv'
      BY <1>1, <2>1 DEF RowType, PinType, PinInv, Live, NextPin, ReadingInv
    <2>3. HoldInv'
      BY <1>1, <2>1, HoldStays
    <2>4. RowInv'
      BY <1>1, <2>1, RowsStill
    <2> QED BY <2>2, <2>3, <2>4 DEF RowsInv
  <1> QED BY <1>3, <1>4, <1>5, <1>6, <1>7, <1>8, <1>9 DEF Next

\* In a run, every row accounted for has its token in every buffer, or a step in
\* the stream that was not left will save it and nobody behind it touches it;
\* the staging slots, four in accumulate.py, are no fewer than the outstanding
\* steps.
THEOREM RowsInvariant ==
    ASSUME Depth <= PinRing
    PROVE  Spec => []RowsInv
  <1>1. TimingInv /\ RowsInv /\ [Next]_vars => RowsInv'
    BY RowsKept
  <1>2. Spec => []TimingInv
    BY TimingInvariant
  <1> QED BY <1>1, <1>2, RowsInitial, PTL DEF Spec

\* A row that nothing in the stream is to give has its token.
LEMMA RowsHanded == TimingInv /\ RowsInv => HandsOverSamples
  <1> SUFFICES ASSUME TimingInv, RowsInv, child = "reading"
               PROVE  \E order \in SetToSeqs(buffer_samples) :
                         /\ sample_lens = [i \in DOMAIN order |-> SampleLen[order[i]]]
                         /\ \A p \in DOMAIN rows : SubSeq(rows[p], 1, fill) = Flat(order)
    BY DEF HandsOverSamples
  <1>1. PICK order \in Seq(Samples) : Saved(order)
    BY DEF RowsInv, RowInv
  <1>2. order \in SetToSeqs(buffer_samples)
    <2>1. OneEach(order) /\ ToSet(order) = buffer_samples
      BY <1>1 DEF Saved
    <2>2. order \in Seq(buffer_samples)
      <3>1. IsSeq(order) /\ DOMAIN order = 1 .. Len(order)
        BY TypedSeq
      <3>2. {order[i] : i \in DOMAIN order} = buffer_samples
        BY <2>1 DEF ToSet
      <3> QED BY <3>1, <3>2 DEF IsSeq
    <2> QED BY <2>1, <2>2, Enumerates
  <1>3. sample_lens = [i \in DOMAIN order |-> SampleLen[order[i]]]
    BY <1>1 DEF Saved
  <1>4. ASSUME NEW p \in DOMAIN rows
        PROVE  SubSeq(rows[p], 1, fill) = Flat(order)
    <2> DEFINE q == rows[p]
               u == SubSeq(q, 1, fill)
               t == Flat(order)
    <2>1. p \in Buffers(config) /\ q = [r \in 1 .. Capacity |-> q[r]]
      BY DEF RowsInv, RowType
    <2>2. /\ fill = Len(t) /\ fill <= Capacity
          /\ \A r \in 1 .. fill : Comes(p, r, t[r])
      BY <1>1, <2>1 DEF Saved
    <2>3. t \in Seq(Samples \X Nat)
      BY FlatType DEF Requests
    <2>4. fill \in Nat /\ IsSeq(t)
      BY <2>2, <2>3, TypedSeq
    <2>5. ASSUME NEW r \in 1 .. fill PROVE q[r] = t[r]
      <3>1. PICK i \in 0 .. Len(stream) : Gives(i, p, r, t[r])
        BY <2>2 DEF Comes
      <3>2. i # 0 => ~Kept(i)
        <4>1. DOMAIN stream = 1 .. Len(stream) /\ Len(stream) \in Nat
          BY IsSeqFacts DEF TimingInv, StreamType
        <4>2. i # 0 => i \in DOMAIN stream
          BY <4>1
        <4> QED BY <4>2 DEF Kept, RowsInv, ReadingInv
      <3> QED BY <3>1, <3>2 DEF Gives
    <2> HIDE DEF q, t
    <2>6. IsSeq(q) /\ Len(q) = Capacity
      <3>1. Capacity \in Nat /\ DOMAIN q = 1 .. Capacity
        BY <2>1, ModelRunnerAssumption
      <3> QED BY <2>1, <3>1, FunSeq
    <2> DEFINE V == {q[i] : i \in DOMAIN q}
    <2>7. /\ u \in Seq(V) /\ Len(u) = fill
          /\ \A i \in 1 .. fill : u[i] = q[i]
      <3>1. q \in Seq(V)
        BY <2>6 DEF IsSeq
      <3>2. 1 \in 1 .. Len(q) + 1 /\ fill \in 1 - 1 .. Len(q)
        BY <2>2, <2>4, <2>6, ModelRunnerAssumption
      <3> HIDE DEF V
      <3>3. /\ u \in Seq(V) /\ Len(u) = fill - 1 + 1
            /\ \A i \in 1 .. fill - 1 + 1 : u[i] = q[1 + i - 1]
        BY <3>1, <3>2, SubSeqProperties
      <3>4. fill - 1 + 1 = fill /\ \A i \in 1 .. fill : 1 + i - 1 = i
        BY <2>4
      <3> QED BY <3>3, <3>4
    <2> DEFINE W == V \union {t[i] : i \in DOMAIN t}
    <2>8. u \in Seq(W) /\ t \in Seq(W)
      <3>1. V \subseteq W /\ {t[i] : i \in DOMAIN t} \subseteq W
        OBVIOUS
      <3>2. t \in Seq({t[i] : i \in DOMAIN t})
        BY <2>4 DEF IsSeq
      <3> HIDE DEF V, W, u
      <3> QED BY <2>7, <3>1, <3>2, SeqMonotonic
    <2> HIDE DEF u, W
    <2>9. u = t
      <3>1. Len(u) = Len(t) /\ \A i \in 1 .. Len(u) : u[i] = t[i]
        BY <2>2, <2>5, <2>7
      <3> QED BY <2>8, <3>1, SeqEqual
    <2> QED BY <2>9 DEF u, q, t
  <1> QED BY <1>2, <1>3, <1>4

\* When the child reads, the first fill rows of every buffer are those of the
\* samples accounted for, whole and in the order of sample_lens: whatever the
\* configuration saves, hooks, op or a mixture of both did save it, in batches
\* of any order and up to Depth steps ahead of the GPU. The trigger waits for
\* the copies (capture_done_evt), and no staging slot of the index tensors is
\* written before it was copied, as there are as many as outstanding steps
\* (accumulate.py: four; the queue has at most two).
THEOREM HandedOver ==
    ASSUME Depth <= PinRing
    PROVE  Spec => []HandsOverSamples
  BY TimingInvariant, RowsInvariant, RowsHanded, PTL
=============================================================================
