----------------------------- MODULE Profiling -----------------------------
(***************************************************************************)
(* The batches the launch pass runs through the scheduler to seed the       *)
(* estimator (profiling_batch_generator.py).  All operators take the        *)
(* options o they depend on:                                                 *)
(*   o.batch     max_num_batched_tokens                                     *)
(*   o.capacity  max_saved_finetuning_tokens                                *)
(*   o.max_len   max_model_len                                              *)
(*   o.split     graph_ft_batches (ft_mixed_split)                          *)
(*   o.repeats   profile_num_repeats                                        *)
(***************************************************************************)
EXTENDS Integers, Sequences, FiniteSets

AtLeast(a, b) == IF a < b THEN b ELSE a
AtMost(a, b) == IF a > b THEN b ELSE a

\* The numbers of a set in order.
Sorted(S) ==
    [i \in 1..Cardinality(S) |-> CHOOSE x \in S : Cardinality({y \in S : y < x}) = i - 1]

\* Those of a sequence at the places of a set, in their order.
Picked(seq, places) ==
    LET kept[i \in 0..Len(seq)] ==
            IF i = 0 THEN <<>>
            ELSE IF i \in places THEN Append(kept[i - 1], seq[i]) ELSE kept[i - 1]
    IN  kept[Len(seq)]

\* A shape: the prompts of its inference requests, its finetuning samples, the
\* prompts of a second wave, and the decode steps of the first.
Shape(kind, inf, ft, mix, n_decode) ==
    [kind |-> kind, inf |-> inf, ft |-> ft, mix |-> mix, n_decode |-> n_decode]

MaxReqLen(o) == AtLeast(16, o.max_len - 16)
InfCap(o) == AtLeast(64, AtMost(o.batch, 4096))

PrefillTargets(o) ==
    Sorted({t \in {64, 128, 256, 512, 1024, 2048, 4096} : t <= InfCap(o)}
           \cup {AtLeast(64, (InfCap(o) * q) \div 4) : q \in 2..4})

\* About equal pieces, none longer than a request may be.
Partition(o, total, n_parts) ==
    LET n == AtLeast(AtLeast(1, AtMost(n_parts, total)),
                     (total + MaxReqLen(o) - 1) \div MaxReqLen(o))
    IN  [i \in 1..n |-> IF i <= total % n THEN (total \div n) + 1 ELSE total \div n]

Pieces(o, total, size) == Partition(o, total, AtLeast(1, total \div size))

PrefillShapes(o) ==
    LET prefill(total, n) == Shape("prefill", Partition(o, total, n), <<>>, <<>>, 0)
        targets == PrefillTargets(o)
        caps == <<AtMost(512, InfCap(o)), AtMost(2048, InfCap(o))>>
        pivots == Picked(caps, {i \in DOMAIN caps : caps[i] >= 256})
        pivot(i) == pivots[((i - 1) \div 3) + 1]
        parts(total) == <<1, 4, AtLeast(4, total \div 64)>>
    IN  [i \in DOMAIN targets |->
            prefill(targets[i], AtLeast(1, AtMost(8, targets[i] \div 128)))]
        \o [i \in 1..(3 * Len(pivots)) |->
            prefill(pivot(i), parts(pivot(i))[((i - 1) % 3) + 1])]

\* b prompts of one length, and FT beside their first decode step if any.
DecodeShape(b, len, ft) == Shape("decode", [i \in 1..b |-> len], ft, <<>>, 2)

DecodeShapes(o) ==
    LET per(b) == LET p == AtMost(MaxReqLen(o), AtLeast(16, InfCap(o) \div b))
                  IN  IF b * p > o.batch THEN AtLeast(16, o.batch \div b) ELSE p
        counts == <<1, 2, 4, 8, 16, 32>>
        caps == [i \in 1..4 |-> AtMost(<<32, 128, 512, 1024>>[i], MaxReqLen(o))]
        lens == Picked(caps, {i \in DOMAIN caps : 4 * caps[i] <= o.batch})
    IN  [i \in DOMAIN counts |-> DecodeShape(counts[i], per(counts[i]), <<>>)]
        \o [i \in DOMAIN lens |-> DecodeShape(4, lens[i], <<>>)]

Coserve(inf, ft) == Shape("coserve", inf, ft, <<>>, 0)

\* inf x FT, the FT-dominant edge, and FT alone when the regime is split.
CoserveShapes(o) ==
    LET levels == Sorted({AtLeast(8, o.capacity \div 4),
                          AtLeast(16, o.capacity \div 2), o.capacity})
        grid == [i \in 1..(3 * Len(levels)) |->
                    [ft |-> levels[((i - 1) \div 3) + 1],
                     inf |-> <<128, 512, 1024>>[((i - 1) % 3) + 1]]]
        fitting == Picked(grid, {i \in DOMAIN grid : grid[i].inf + grid[i].ft <= o.batch})
    IN  [i \in DOMAIN fitting |-> Coserve(Pieces(o, fitting[i].inf, 256),
                                          Pieces(o, fitting[i].ft, 64))]
        \o (IF 32 + o.capacity <= o.batch
            THEN <<Coserve(<<32>>, Pieces(o, o.capacity, 64))>> ELSE <<>>)
        \o (IF o.split
            THEN [i \in DOMAIN levels |-> Coserve(<<>>, Pieces(o, levels[i], 64))]
            ELSE <<>>)

Mixed(o, inf, mix, ft) ==
    Shape("mixed", Pieces(o, inf, 256), ft, Pieces(o, mix, 128), 1)

MixedShapes(o) ==
    LET waves == <<<<256, 128>>, <<512, 256>>, <<1024, 256>>>>
        fitting == Picked(waves, {i \in DOMAIN waves :
                                    waves[i][1] <= InfCap(o) /\ waves[i][2] <= InfCap(o)})
    IN  [i \in DOMAIN fitting |-> Mixed(o, fitting[i][1], fitting[i][2], <<>>)]

FtOnDecodeShapes(o) ==
    LET ft == AtLeast(8, AtMost(o.capacity, 64))
        budget == o.batch - ft
        per(b) == LET p == AtMost(MaxReqLen(o), AtLeast(16, budget \div b))
                  IN  IF b * p > budget THEN AtLeast(16, budget \div b) ELSE p
        counts == <<1, 2, 4, 8>>
        fitting == Picked(counts, {i \in DOMAIN counts :
                                     counts[i] * per(counts[i]) + ft <= o.batch})
    IN  IF budget < 16 THEN <<>>
        ELSE [i \in DOMAIN fitting |-> DecodeShape(fitting[i], per(fitting[i]), <<ft>>)]

FtOnMixedShapes(o) ==
    LET waves == <<<<256, 128, 64>>, <<512, 256, 128>>, <<1024, 256, 64>>>>
        fits(w) == /\ w[1] <= InfCap(o) /\ w[2] <= InfCap(o)
                   /\ w[3] <= o.capacity /\ w[2] + w[3] <= o.batch
        fitting == Picked(waves, {i \in DOMAIN waves : fits(waves[i])})
    IN  [i \in DOMAIN fitting |->
            Mixed(o, fitting[i][1], fitting[i][2], Pieces(o, fitting[i][3], 64))]

FtOnlyIdleShapes(o) == <<Coserve(<<>>, Pieces(o, o.capacity, 64))>>

Warmup(o) ==
    LET ft == AtMost(o.capacity, 64)
        ft_warm == AtMost(o.capacity, 32)
    IN  <<Shape("prefill", <<256, 256>>, <<>>, <<>>, 0),
          Shape("decode", <<128, 128>>, <<>>, <<>>, 1)>>
        \o (IF 128 + ft <= o.batch THEN <<Coserve(<<128>>, <<ft>>)>> ELSE <<>>)
        \o (IF 128 + ft_warm <= o.batch
            THEN <<Shape("decode", <<64, 64>>, <<ft_warm>>, <<>>, 1)>> ELSE <<>>)

Recorded(o) ==
    PrefillShapes(o) \o DecodeShapes(o) \o CoserveShapes(o) \o MixedShapes(o)
    \o FtOnDecodeShapes(o) \o FtOnMixedShapes(o) \o FtOnlyIdleShapes(o)

\* The pass: the warm-up once, the sweep o.repeats times; nothing without
\* profile_on_launch.
Plan(o) ==
    IF o.repeats = 0 THEN <<>>
    ELSE LET sweep == Recorded(o)
         IN  Warmup(o) \o [i \in 1..(o.repeats * Len(sweep)) |-> sweep[((i - 1) % Len(sweep)) + 1]]

\* What the driver enqueues before the k-th step of a shape: prompts with the
\* tokens each may produce, and samples.
Wave(inf, max, ft) == [inf |-> inf, max |-> max, ft |-> ft]

WaveOf(s, k) ==
    CASE k = 1 /\ s.kind = "prefill" -> Wave(s.inf, 1, <<>>)
      [] k = 1 /\ s.kind = "coserve" -> Wave(s.inf, 1, s.ft)
      [] k = 1 /\ s.kind \in {"decode", "mixed"} -> Wave(s.inf, 1 + s.n_decode, <<>>)
      [] k = 2 /\ s.kind = "decode" -> Wave(<<>>, 1, s.ft)
      [] k = 2 /\ s.kind = "mixed" -> Wave(s.mix, 1, s.ft)
      [] OTHER -> Wave(<<>>, 1, <<>>)

StepsOf(s) ==
    CASE s.kind \in {"prefill", "coserve"} -> 1
      [] s.kind = "decode" -> 1 + s.n_decode
      [] OTHER -> 2 + s.n_decode
=============================================================================
