------------------------ MODULE BackwardCycleProofs ------------------------
(***************************************************************************)
(* The backward cycles of all ranks, for every number of ranks and layers, *)
(* every size of the buckets and shape of the batches, and every set of    *)
(* layers and regions that fall back to eager on a rank: the collectives   *)
(* are issued in one order, a layer's backward reads that layer's rows,    *)
(* and what a cycle serves is the sum it has trained.                      *)
(***************************************************************************)
EXTENDS BackwardCycle, SequenceTheorems, FiniteSetTheorems,
        WellFoundedInduction, TLAPS

-----------------------------------------------------------------------------
(***************************************************************************)
(* The order of the calls.                                                 *)
(***************************************************************************)
\* The first collective of layer i in cycle c.
TopCall(c, i) == IF ~cfg.resid_mid THEN <<c, "o", i>> ELSE <<c, "ffn", i>>

FirstCall(c) == TopCall(c, L)

\* What follows the gradients of layer i.
AfterGrads(c, i) ==
    IF i = 1 THEN <<c, "clip", 0>>
    ELSE IF c = 1 /\ cfg.raise_at = i - 1 THEN FirstCall(c + 1)
    ELSE TopCall(c, i - 1)

AfterAttn(c, i) == IF GroupDone(i) THEN <<c, "bucket", i>> ELSE AfterGrads(c, i)

Succ(call) ==
    CASE call[2] = "o"      -> <<call[1], "ffn", call[3]>>
      [] call[2] = "ffn"    -> <<call[1], "x", call[3]>>
      [] call[2] = "x"      -> AfterAttn(call[1], call[3])
      [] call[2] = "bucket" -> AfterGrads(call[1], call[3])
      [] call[2] = "clip"   -> FirstCall(call[1] + 1)

\* The collective that rank r issues next, from where its host is.
NextCall(r) ==
    CASE host_pc[r] \in {"first", "head", "top", "forward"}
                                     -> TopCall(cycle, layer[r])
      [] host_pc[r] = "ffn"          -> <<cycle, "ffn", layer[r]>>
      [] host_pc[r] \in {"mid", "attn"} -> <<cycle, "x", layer[r]>>
      [] host_pc[r] = "grads"        -> AfterAttn(cycle, layer[r])
      [] host_pc[r] = "finish"       -> <<cycle, "clip", 0>>
      [] host_pc[r] \in {"sync", "answered", "raised"} -> FirstCall(cycle + 1)

HostPc == Boundaries \union {"forward", "ffn", "attn", "grads", "finish",
                             "sync", "answered", "raised"}

\* A rank votes at a boundary.
BoundaryInv ==
    /\ host_pc \in [Ranks -> HostPc] /\ voting \in [Ranks -> BOOLEAN]
    /\ \A r \in Ranks : voting[r] => host_pc[r] \in Boundaries

IsSeq(t) == t \in Seq({t[i] : i \in DOMAIN t})

OrderType ==
    /\ cycle \in Nat
    /\ host_pc \in [Ranks -> HostPc]
    /\ layer \in [Ranks -> Nat \ {0}]
    /\ nccl = [r \in Ranks |-> nccl[r]]
    /\ \A r \in Ranks : IsSeq(nccl[r])
    /\ ~Tp => \A r \in Ranks : nccl[r] = <<>>

\* What a rank has enqueued is a run of the calls, up to the one it issues
\* next.
Chain(r) ==
    \A k \in 1 .. Len(nccl[r]) :
       Succ(nccl[r][k].call) = IF k < Len(nccl[r]) THEN nccl[r][k + 1].call
                               ELSE NextCall(r)

\* Two ranks have enqueued the same calls, and the shorter queue goes on with
\* what the longer one holds.
Agreed(r, q) ==
    /\ \A k \in 1 .. Len(nccl[r]) :
          k <= Len(nccl[q]) => nccl[r][k].call = nccl[q][k].call
    /\ Len(nccl[r]) < Len(nccl[q]) =>
          nccl[q][Len(nccl[r]) + 1].call = NextCall(r)
    /\ Len(nccl[r]) = Len(nccl[q]) => NextCall(r) = NextCall(q)

Chains == \A r \in Ranks : Chain(r)
Agrees == \A r, q \in Ranks : Agreed(r, q)

\* One rank alone issues no collective, and where its host is says nothing.
OrderInv == OrderType /\ (Tp => Chains /\ Agrees)

-----------------------------------------------------------------------------
(***************************************************************************)
(* Queues, whatever they hold.                                             *)
(***************************************************************************)
\* The first of a sequence's elements is the one at its head.
LEMMA IsSeqFacts ==
    ASSUME NEW t, IsSeq(t)
    PROVE  /\ Len(t) \in Nat
           /\ DOMAIN t = 1 .. Len(t)
           /\ t # <<>> <=> Len(t) > 0
           /\ t # <<>> => Head(t) = t[1]
  BY DEF IsSeq

\* What is appended comes last, and moves no other.
LEMMA AppendFacts ==
    ASSUME NEW t, IsSeq(t), NEW e
    PROVE  LET a == Append(t, e)
           IN  /\ IsSeq(a) /\ Len(a) = Len(t) + 1 /\ a[Len(t) + 1] = e
               /\ \A j \in 1 .. Len(t) : a[j] = t[j]
  <1> DEFINE T == {t[i] : i \in DOMAIN t} \union {e}
             a == Append(t, e)
  <1>1. t \in Seq(T) /\ e \in T
    BY DEF IsSeq
  <1>2. /\ a \in Seq(T) /\ Len(a) = Len(t) + 1 /\ a[Len(t) + 1] = e
        /\ \A j \in 1 .. Len(t) : a[j] = t[j]
    BY <1>1, AppendProperties
  <1>3. IsSeq(a)
    <2> HIDE DEF a
    <2> QED BY <1>2 DEF IsSeq
  <1> QED BY <1>2, <1>3

\* What is left when the one at the head is done.
LEMMA TailFacts ==
    ASSUME NEW t, IsSeq(t), t # <<>>
    PROVE  /\ IsSeq(Tail(t)) /\ Len(Tail(t)) = Len(t) - 1
           /\ \A j \in 1 .. Len(t) - 1 : Tail(t)[j] = t[j + 1]
  <1> DEFINE T == {t[i] : i \in DOMAIN t}
             a == Tail(t)
  <1>1. t \in Seq(T)
    BY DEF IsSeq
  <1>2. /\ a \in Seq(T) /\ Len(a) = Len(t) - 1
        /\ \A j \in 1 .. Len(t) - 1 : a[j] = t[j + 1]
    BY <1>1, HeadTailProperties
  <1>3. IsSeq(a)
    <2> HIDE DEF a
    <2> QED BY <1>2 DEF IsSeq
  <1> QED BY <1>2, <1>3


-----------------------------------------------------------------------------
(***************************************************************************)
(* What a step does to the queues of collectives.                          *)
(***************************************************************************)
\* The order is a matter of NextCall and the queues alone.
LEMMA NoCallKeeps ==
    ASSUME OrderInv, OrderType', cfg' = cfg, nccl' = nccl,
           Tp => \A r \in Ranks : NextCall(r)' = NextCall(r)
    PROVE  OrderInv'
  <1>1. Ranks' = Ranks /\ (Tp' <=> Tp)
    BY DEF Ranks, Tp
  <1>2. ASSUME Tp, NEW r \in Ranks PROVE Chain(r)'
    <2>1. Chain(r)
      BY <1>2 DEF OrderInv, Chains
    <2> QED
      BY <1>2, <2>1 DEF Chain, Succ, AfterAttn, AfterGrads, FirstCall, TopCall
  <1>3. ASSUME Tp, NEW r \in Ranks, NEW q \in Ranks PROVE Agreed(r, q)'
    <2>1. Agreed(r, q)
      BY <1>3 DEF OrderInv, Agrees
    <2> QED BY <1>3, <2>1 DEF Agreed
  <1> QED BY <1>1, <1>2, <1>3 DEF OrderInv, Chains, Agrees

\* A rank enqueues the collective that is its turn.
LEMMA CallKeeps ==
    ASSUME OrderInv, Tp, OrderType', cfg' = cfg, NEW p \in Ranks, NEW e,
           nccl' = [nccl EXCEPT ![p] = Append(@, e)],
           e.call = NextCall(p), NextCall(p)' = Succ(NextCall(p)),
           \A r \in Ranks \ {p} : NextCall(r)' = NextCall(r)
    PROVE  OrderInv'
  <1>1. Ranks' = Ranks /\ (Tp' <=> Tp)
    BY DEF Ranks, Tp
  <1>2. \A r \in Ranks : IsSeq(nccl[r]) /\ Len(nccl[r]) \in Nat
    BY IsSeqFacts DEF OrderInv, OrderType
  <1> DEFINE n == Len(nccl[p])
  <1>3. /\ n \in Nat /\ Len(nccl'[p]) = n + 1
        /\ nccl'[p][n + 1] = e
        /\ \A k \in 1 .. n : nccl'[p][k] = nccl[p][k]
        /\ \A r \in Ranks \ {p} : nccl'[r] = nccl[r]
    BY <1>2, AppendFacts DEF OrderInv, OrderType
  <1>4. ASSUME NEW c PROVE Succ(c)' = Succ(c)
    BY DEF Succ, AfterAttn, AfterGrads, FirstCall, TopCall
  <1> HIDE DEF n
  <1>5. ASSUME Tp, NEW r \in Ranks PROVE Chain(r)'
    <2>1. Chain(r)
      BY <1>5 DEF OrderInv, Chains
    <2>2. CASE r = p
      <3>1. \A k \in 1 .. n :
               Succ(nccl[p][k].call) = IF k < n THEN nccl[p][k + 1].call
                                       ELSE NextCall(p)
        BY <2>1, <2>2 DEF Chain, n
      <3>2. ASSUME NEW k \in 1 .. n + 1
            PROVE  Succ(nccl[p][k].call)' = IF k < n + 1
                                            THEN nccl'[p][k + 1].call
                                            ELSE NextCall(p)'
        <4>1. CASE k = n + 1
          <5>1. Succ(e.call)' = NextCall(p)'
            BY <1>4
          <5> QED BY <1>3, <4>1, <5>1
        <4>2. CASE k = n
          <5>1. k \in 1 .. n /\ ~(k < n) /\ k < n + 1
            BY <1>3, <3>2, <4>2
          <5>2. Succ(nccl[p][k].call) = NextCall(p)
            BY <3>1, <5>1
          <5>3. nccl'[p][k] = nccl[p][k] /\ nccl'[p][k + 1] = e
            BY <1>3, <4>2, <5>1
          <5>4. Succ(nccl[p][k].call)' = Succ(nccl[p][k].call)
            BY <1>4, <5>3
          <5> QED BY <5>1, <5>2, <5>3, <5>4
        <4>3. CASE k # n + 1 /\ k # n
          <5>1. k \in 1 .. n /\ k < n /\ k + 1 \in 1 .. n /\ k < n + 1
            BY <1>3, <3>2, <4>3
          <5>2. Succ(nccl[p][k].call) = nccl[p][k + 1].call
            BY <3>1, <5>1
          <5>3. nccl'[p][k] = nccl[p][k] /\ nccl'[p][k + 1] = nccl[p][k + 1]
            BY <1>3, <5>1
          <5>4. Succ(nccl[p][k].call)' = Succ(nccl[p][k].call)
            BY <1>4, <5>3
          <5> QED BY <5>1, <5>2, <5>3, <5>4
        <4> QED BY <4>1, <4>2, <4>3
      <3> QED BY <1>3, <2>2, <3>2 DEF Chain
    <2>3. CASE r # p
      <3>1. nccl'[r] = nccl[r] /\ NextCall(r)' = NextCall(r)
        BY <1>3, <2>3
      <3>2. ASSUME NEW k \in 1 .. Len(nccl[r])
            PROVE  Succ(nccl[r][k].call)' = Succ(nccl[r][k].call)
        BY <1>4, <3>1
      <3> QED BY <2>1, <3>1, <3>2 DEF Chain
    <2> QED BY <2>2, <2>3
  <1>6. ASSUME Tp, NEW r \in Ranks, NEW q \in Ranks PROVE Agreed(r, q)'
    <2>1. Agreed(r, q) /\ Agreed(q, r) /\ Chain(r) /\ Chain(q)
      BY <1>6 DEF OrderInv, Agrees, Chains
    <2>2. CASE r = q
      BY <2>2, <1>2, <1>3 DEF Agreed
    <2>3. CASE r = p /\ q # p
      <3> DEFINE m == Len(nccl[q])
      <3>1. /\ m \in Nat /\ nccl'[q] = nccl[q] /\ NextCall(q)' = NextCall(q)
            /\ Len(nccl'[q]) = m
        BY <1>2, <1>3, <2>3
      <3>2. /\ \A k \in 1 .. n : k <= m => nccl[p][k].call = nccl[q][k].call
            /\ n < m => nccl[q][n + 1].call = NextCall(p)
            /\ n = m => NextCall(p) = NextCall(q)
        BY <2>1, <2>3 DEF Agreed, n, m
      <3>3. \A k \in 1 .. m : Succ(nccl[q][k].call)
                               = IF k < m THEN nccl[q][k + 1].call
                                 ELSE NextCall(q)
        BY <2>1 DEF Chain, m
      <3> HIDE DEF m
      <3>4. ASSUME NEW k \in 1 .. n + 1, k <= m
            PROVE  nccl'[p][k].call = nccl[q][k].call
        <4>1. CASE k = n + 1
          BY <1>3, <3>1, <3>2, <3>4, <4>1
        <4>2. CASE k # n + 1
          <5>1. k \in 1 .. n
            BY <1>3, <4>2
          <5> QED BY <1>3, <3>2, <3>4, <5>1
        <4> QED BY <4>1, <4>2
      <3>5. ASSUME n + 1 < m PROVE nccl[q][(n + 1) + 1].call = NextCall(p)'
        <4>1. n < m /\ n + 1 \in 1 .. m
          BY <1>3, <3>1, <3>5
        <4>2. nccl[q][n + 1].call = NextCall(p)
          BY <3>2, <4>1
        <4> QED BY <3>3, <3>5, <4>1, <4>2
      <3>6. ASSUME n + 1 = m PROVE NextCall(p)' = NextCall(q)
        <4>1. n < m /\ n + 1 \in 1 .. m /\ ~(n + 1 < m)
          BY <1>3, <3>1, <3>6
        <4>2. nccl[q][n + 1].call = NextCall(p)
          BY <3>2, <4>1
        <4> QED BY <3>3, <4>1, <4>2
      <3> QED BY <1>3, <2>3, <3>1, <3>4, <3>5, <3>6 DEF Agreed
    <2>4. CASE r # p /\ q = p
      <3> DEFINE m == Len(nccl[r])
      <3>1. /\ m \in Nat /\ nccl'[r] = nccl[r] /\ NextCall(r)' = NextCall(r)
            /\ Len(nccl'[r]) = m
        BY <1>2, <1>3, <2>4
      <3>2. /\ \A k \in 1 .. m : k <= n => nccl[r][k].call = nccl[p][k].call
            /\ m < n => nccl[p][m + 1].call = NextCall(r)
            /\ n < m => nccl[r][n + 1].call = NextCall(p)
            /\ n = m => NextCall(r) = NextCall(p)
        BY <2>1, <2>4 DEF Agreed, n, m
      <3>3. \A k \in 1 .. m : Succ(nccl[r][k].call)
                               = IF k < m THEN nccl[r][k + 1].call
                                 ELSE NextCall(r)
        BY <2>1 DEF Chain, m
      <3> HIDE DEF m
      <3>4. ASSUME NEW k \in 1 .. m, k <= n + 1
            PROVE  nccl[r][k].call = nccl'[p][k].call
        <4>1. CASE k = n + 1
          <5>1. n < m
            BY <1>3, <3>1, <3>4, <4>1
          <5> QED BY <1>3, <3>2, <4>1, <5>1
        <4>2. CASE k # n + 1
          <5>1. k \in 1 .. n /\ k <= n
            BY <1>3, <3>1, <3>4, <4>2
          <5> QED BY <1>3, <3>2, <5>1
        <4> QED BY <4>1, <4>2
      <3>5. ASSUME m < n + 1 PROVE nccl'[p][m + 1].call = NextCall(r)
        <4>1. CASE m = n
          BY <1>3, <3>2, <4>1
        <4>2. CASE m # n
          <5>1. m < n /\ m + 1 \in 1 .. n
            BY <1>3, <3>1, <3>5, <4>2
          <5> QED BY <1>3, <3>2, <5>1
        <4> QED BY <4>1, <4>2
      <3>6. ASSUME m = n + 1 PROVE NextCall(r) = NextCall(p)'
        <4>1. n < m /\ n + 1 \in 1 .. m /\ ~(n + 1 < m)
          BY <1>3, <3>1, <3>6
        <4>2. nccl[r][n + 1].call = NextCall(p)
          BY <3>2, <4>1
        <4> QED BY <3>3, <4>1, <4>2
      <3> QED BY <1>3, <2>4, <3>1, <3>4, <3>5, <3>6 DEF Agreed
    <2>5. CASE r # p /\ q # p
      BY <1>3, <2>1, <2>5 DEF Agreed
    <2> QED BY <2>2, <2>3, <2>4, <2>5
  <1> QED BY <1>1, <1>5, <1>6 DEF OrderInv, Chains, Agrees

\* The collective at the head of every queue is run, by all ranks at once.
LEMMA RunKeeps ==
    ASSUME OrderInv, OrderType', cfg' = cfg, Tp,
           \A r \in Ranks : nccl[r] # <<>>,
           nccl' = [r \in Ranks |-> Tail(nccl[r])],
           \A r \in Ranks : NextCall(r)' = NextCall(r)
    PROVE  OrderInv'
  <1>1. Ranks' = Ranks /\ (Tp' <=> Tp)
    BY DEF Ranks, Tp
  <1>2. ASSUME NEW r \in Ranks
        PROVE  /\ Len(nccl[r]) \in Nat /\ Len(nccl[r]) > 0
               /\ Len(nccl'[r]) = Len(nccl[r]) - 1
               /\ \A k \in 1 .. Len(nccl[r]) - 1 : nccl'[r][k] = nccl[r][k + 1]
    BY IsSeqFacts, TailFacts DEF OrderInv, OrderType
  <1>3. ASSUME NEW c PROVE Succ(c)' = Succ(c)
    BY DEF Succ, AfterAttn, AfterGrads, FirstCall, TopCall
  <1>4. ASSUME NEW r \in Ranks PROVE Chain(r)'
    <2> DEFINE n == Len(nccl[r])
    <2>1. \A k \in 1 .. n : Succ(nccl[r][k].call)
                              = IF k < n THEN nccl[r][k + 1].call
                                ELSE NextCall(r)
      BY DEF OrderInv, Chains, Chain
    <2>2. /\ n \in Nat /\ n > 0 /\ Len(nccl'[r]) = n - 1
          /\ \A k \in 1 .. n - 1 : nccl'[r][k] = nccl[r][k + 1]
      BY <1>2
    <2> HIDE DEF n
    <2>3. ASSUME NEW k \in 1 .. n - 1
          PROVE  Succ(nccl[r][k].call)' = IF k < n - 1 THEN nccl'[r][k + 1].call
                                          ELSE NextCall(r)'
      <3>1. k + 1 \in 1 .. n /\ (k + 1 < n <=> k < n - 1)
        BY <2>2
      <3>2. nccl'[r][k] = nccl[r][k + 1]
        BY <2>2
      <3>3. k < n - 1 => nccl'[r][k + 1] = nccl[r][(k + 1) + 1]
        BY <2>2
      <3>4. Succ(nccl[r][k].call)' = Succ(nccl[r][k + 1].call)
        BY <1>3, <3>2
      <3> QED BY <2>1, <3>1, <3>3, <3>4
    <2> QED BY <2>2, <2>3 DEF Chain
  <1>5. ASSUME NEW r \in Ranks, NEW q \in Ranks PROVE Agreed(r, q)'
    <2> DEFINE n == Len(nccl[r])
               m == Len(nccl[q])
    <2>1. /\ \A k \in 1 .. n : k <= m => nccl[r][k].call = nccl[q][k].call
          /\ n < m => nccl[q][n + 1].call = NextCall(r)
          /\ n = m => NextCall(r) = NextCall(q)
      BY DEF OrderInv, Agrees, Agreed
    <2>2. /\ n \in Nat /\ n > 0 /\ Len(nccl'[r]) = n - 1
          /\ m \in Nat /\ m > 0 /\ Len(nccl'[q]) = m - 1
          /\ \A k \in 1 .. n - 1 : nccl'[r][k] = nccl[r][k + 1]
          /\ \A k \in 1 .. m - 1 : nccl'[q][k] = nccl[q][k + 1]
      BY <1>2
    <2> HIDE DEF n, m
    <2>3. ASSUME NEW k \in 1 .. n - 1, k <= m - 1
          PROVE  nccl'[r][k].call = nccl'[q][k].call
      <3>1. k + 1 \in 1 .. n /\ k + 1 <= m /\ k \in 1 .. m - 1
        BY <2>2, <2>3
      <3> QED BY <2>1, <2>2, <3>1
    <2>4. ASSUME n - 1 < m - 1 PROVE nccl'[q][(n - 1) + 1].call = NextCall(r)
      <3>1. n < m /\ (n - 1) + 1 = n /\ n \in 1 .. m - 1
        BY <2>2, <2>4
      <3> QED BY <2>1, <2>2, <3>1
    <2>5. n - 1 = m - 1 => NextCall(r) = NextCall(q)
      BY <2>1, <2>2
    <2> QED BY <2>2, <2>3, <2>4, <2>5 DEF Agreed
  <1> QED BY <1>1, <1>4, <1>5 DEF OrderInv, Chains, Agrees

-----------------------------------------------------------------------------
(***************************************************************************)
(* The steps.                                                              *)
(***************************************************************************)

\* Where one rank's step leaves the others.
LEMMA HostMoves ==
    ASSUME OrderInv, cfg' = cfg, cycle' = cycle, NEW p \in Ranks,
           NEW pc \in HostPc, NEW i \in Nat \ {0},
           host_pc' = [host_pc EXCEPT ![p] = pc],
           layer' = [layer EXCEPT ![p] = i]
    PROVE  /\ Ranks' = Ranks /\ (Tp' <=> Tp)
           /\ host_pc' \in [Ranks -> HostPc]
           /\ layer' \in [Ranks -> Nat \ {0}]
           /\ host_pc'[p] = pc /\ layer'[p] = i
           /\ \A r \in Ranks \ {p} : NextCall(r)' = NextCall(r)
           /\ \A c, j : TopCall(c, j)' = TopCall(c, j)
  <1>1. /\ Ranks' = Ranks /\ (Tp' <=> Tp)
        /\ host_pc \in [Ranks -> HostPc] /\ layer \in [Ranks -> Nat \ {0}]
    BY DEF Ranks, Tp, OrderInv, OrderType
  <1>2. /\ \A c, j : TopCall(c, j)' = TopCall(c, j)
        /\ \A c, j : AfterAttn(c, j)' = AfterAttn(c, j)
        /\ \A c : FirstCall(c)' = FirstCall(c)
    BY DEF AfterAttn, AfterGrads, FirstCall, TopCall
  <1>3. \A r \in Ranks \ {p} : host_pc'[r] = host_pc[r] /\ layer'[r] = layer[r]
    BY <1>1
  <1>4. \A r \in Ranks \ {p} : NextCall(r)' = NextCall(r)
    BY <1>2, <1>3 DEF NextCall
  <1> QED BY <1>1, <1>2, <1>4

\* A host step that enqueues no collective.
LEMMA QuietStep ==
    ASSUME OrderInv, cfg' = cfg, cycle' = cycle, nccl' = nccl, NEW p \in Ranks,
           NEW pc \in HostPc, NEW i \in Nat \ {0},
           host_pc' = [host_pc EXCEPT ![p] = pc],
           layer' = [layer EXCEPT ![p] = i],
           Tp => NextCall(p)' = NextCall(p)
    PROVE  OrderInv'
  <1>1. OrderType'
    BY HostMoves DEF OrderInv, OrderType
  <1>2. Tp => \A r \in Ranks : NextCall(r)' = NextCall(r)
    BY HostMoves
  <1> QED BY <1>1, <1>2, NoCallKeeps

\* A host step that enqueues one.
LEMMA CallStep ==
    ASSUME OrderInv, Tp, cfg' = cfg, cycle' = cycle, NEW p \in Ranks, NEW e,
           NEW pc \in HostPc, NEW i \in Nat \ {0},
           nccl' = [nccl EXCEPT ![p] = Append(@, e)],
           host_pc' = [host_pc EXCEPT ![p] = pc],
           layer' = [layer EXCEPT ![p] = i],
           e.call = NextCall(p), NextCall(p)' = Succ(NextCall(p))
    PROVE  OrderInv'
  <1>1. OrderType'
    <2>1. IsSeq(nccl[p]) /\ nccl'[p] = Append(nccl[p], e)
      BY DEF OrderInv, OrderType
    <2>2. IsSeq(nccl'[p])
      BY <2>1, AppendFacts
    <2>3. /\ nccl' = [r \in Ranks |-> nccl'[r]]
          /\ \A r \in Ranks \ {p} : nccl'[r] = nccl[r]
      BY DEF OrderInv, OrderType
    <2>4. \A r \in Ranks : IsSeq(nccl'[r])
      BY <2>2, <2>3 DEF OrderInv, OrderType
    <2> QED BY <2>3, <2>4, HostMoves DEF OrderInv, OrderType
  <1>2. \A r \in Ranks \ {p} : NextCall(r)' = NextCall(r)
    BY HostMoves
  <1> QED BY <1>1, <1>2, CallKeeps

\* An inline reduction adds one call.
LEMMA InlineReduceFacts ==
    ASSUME OrderInv, NEW p \in Ranks, NEW call, InlineReduce(p, call)
    PROVE  /\ Tp => \E e : /\ e.call = call
                           /\ nccl' = [nccl EXCEPT ![p] = Append(@, e)]
           /\ ~Tp => nccl' = nccl
  BY DEF InlineReduce, Collective

\* The forward's reduction is issued by every rank or by none, whether it
\* runs the graph, gives it up, or never had it (graph.py:911).
LEMMA ForwardKeepsOrder ==
    ASSUME OrderInv, NEW p \in Ranks, Forward(p)
    PROVE  OrderInv'
  <1> DEFINE i == layer[p]
  <1>1. /\ host_pc[p] = "forward"
        /\ host_pc' = [host_pc EXCEPT ![p] = "ffn"]
        /\ layer' = [layer EXCEPT ![p] = i]
        /\ cfg' = cfg /\ cycle' = cycle
        /\ i \in Nat \ {0} /\ "ffn" \in HostPc
    BY DEF Forward, cycleVars, OrderInv, OrderType, HostPc
  <1>2. \/ Tp /\ ~cfg.resid_mid /\ InlineReduce(p, <<cycle, "o", i>>)
        \/ ~(Tp /\ ~cfg.resid_mid) /\ nccl' = nccl
    <2>1. \/ NeedsReduce(TRUE) /\ InlineReduce(p, Call("o", i))
          \/ ~NeedsReduce(TRUE) /\ nccl' = nccl
      BY DEF Forward, GraphedForward, LayerForward, NeedsReduce
    <2> QED BY <2>1 DEF NeedsReduce, Call
  <1>3. /\ NextCall(p) = TopCall(cycle, i)
        /\ NextCall(p)' = <<cycle, "ffn", i>>
    BY <1>1, HostMoves DEF NextCall, OrderInv, OrderType
  <1> HIDE DEF i
  <1>4. CASE Tp /\ ~cfg.resid_mid /\ InlineReduce(p, <<cycle, "o", i>>)
    <2>1. NextCall(p) = <<cycle, "o", i>>
      BY <1>3, <1>4 DEF TopCall
    <2>2. NextCall(p)' = Succ(NextCall(p))
      BY <1>3, <2>1 DEF Succ
    <2>3. PICK e : /\ e.call = <<cycle, "o", i>>
                   /\ nccl' = [nccl EXCEPT ![p] = Append(@, e)]
      BY <1>4, InlineReduceFacts
    <2> QED BY <1>1, <1>4, <2>1, <2>2, <2>3, CallStep
  <1>5. CASE ~(Tp /\ ~cfg.resid_mid) /\ nccl' = nccl
    <2>1. Tp => NextCall(p)' = NextCall(p)
      BY <1>3, <1>5 DEF TopCall
    <2> QED BY <1>1, <1>5, <2>1, QuietStep
  <1> QED BY <1>2, <1>4, <1>5

\* The backward's two reductions are issued on every path.
LEMMA FfnKeepsOrder ==
    ASSUME OrderInv, NEW p \in Ranks, Ffn(p)
    PROVE  OrderInv'
  <1> DEFINE i == layer[p]
             pc == IF PausesMidLayer(p) THEN "mid" ELSE "attn"
  <1>1. /\ host_pc[p] = "ffn"
        /\ host_pc' = [host_pc EXCEPT ![p] = pc]
        /\ layer' = [layer EXCEPT ![p] = i]
        /\ cfg' = cfg /\ cycle' = cycle
        /\ i \in Nat \ {0} /\ pc \in HostPc /\ pc \in {"mid", "attn"}
        /\ InlineReduce(p, <<cycle, "ffn", i>>)
    BY DEF Ffn, Call, cycleVars, OrderInv, OrderType, HostPc, Boundaries
  <1>2. /\ NextCall(p) = <<cycle, "ffn", i>>
        /\ NextCall(p)' = <<cycle, "x", i>>
    BY <1>1, HostMoves DEF NextCall, OrderInv, OrderType
  <1> HIDE DEF i, pc
  <1>3. NextCall(p)' = Succ(NextCall(p))
    BY <1>2 DEF Succ
  <1>4. CASE Tp
    <2>1. PICK e : /\ e.call = <<cycle, "ffn", i>>
                   /\ nccl' = [nccl EXCEPT ![p] = Append(@, e)]
      BY <1>1, <1>4, InlineReduceFacts
    <2> QED BY <1>1, <1>2, <1>3, <1>4, <2>1, CallStep
  <1>5. CASE ~Tp
    BY <1>1, <1>5, InlineReduceFacts, QuietStep
  <1> QED BY <1>4, <1>5

\* The reduce of an attention's input gradient is the call that was next.
LEMMA AttnKeepsOrder ==
    ASSUME OrderInv, NEW p \in Ranks, Attn(p)
    PROVE  OrderInv'
  <1> DEFINE i == layer[p]
  <1>1. /\ host_pc[p] = "attn"
        /\ host_pc' = [host_pc EXCEPT ![p] = "grads"]
        /\ layer' = [layer EXCEPT ![p] = i]
        /\ cfg' = cfg /\ cycle' = cycle
        /\ i \in Nat \ {0} /\ "grads" \in HostPc
        /\ InlineReduce(p, <<cycle, "x", i>>)
    BY DEF Attn, Call, cycleVars, OrderInv, OrderType, HostPc
  <1>2. /\ NextCall(p) = <<cycle, "x", i>>
        /\ NextCall(p)' = AfterAttn(cycle, i)'
    BY <1>1, HostMoves DEF NextCall, OrderInv, OrderType
  <1> HIDE DEF i
  <1>3. AfterAttn(cycle, i)' = AfterAttn(cycle, i)
    BY <1>1 DEF AfterAttn, AfterGrads, FirstCall, TopCall, i
  <1>4. NextCall(p)' = Succ(NextCall(p))
    BY <1>2, <1>3 DEF Succ
  <1>5. CASE Tp
    <2>1. PICK e : /\ e.call = <<cycle, "x", i>>
                   /\ nccl' = [nccl EXCEPT ![p] = Append(@, e)]
      BY <1>1, <1>5, InlineReduceFacts
    <2> QED BY <1>1, <1>2, <1>4, <1>5, <2>1, CallStep
  <1>6. CASE ~Tp
    BY <1>1, <1>6, InlineReduceFacts, QuietStep
  <1> QED BY <1>5, <1>6

\* A bucket is reduced when its last layer is in; after the last layer comes
\* the clip, and after an error the next cycle.
LEMMA GradsKeepsOrder ==
    ASSUME OrderInv, NEW p \in Ranks, Grads(p)
    PROVE  OrderInv'
  <1> DEFINE i == layer[p]
             j == IF i = 1 THEN 1 ELSE i - 1
             pc == IF i = 1 THEN "finish"
                   ELSE IF RaisesAt(i - 1) THEN "raised" ELSE LayerTop(p)
  <1>1. /\ host_pc[p] = "grads"
        /\ cfg' = cfg /\ cycle' = cycle /\ i \in Nat \ {0}
        /\ StashOrWrite(p, i)
    BY DEF Grads, cycleVars, OrderInv, OrderType
  <1>2. /\ host_pc' = [host_pc EXCEPT ![p] = pc]
        /\ layer' = [layer EXCEPT ![p] = j]
        /\ j \in Nat \ {0} /\ pc \in HostPc
    <2>1. CASE i = 1
      BY <1>1, <2>1 DEF Grads, HostPc, OrderInv, OrderType
    <2>2. CASE i # 1
      BY <1>1, <2>2 DEF Grads, HostPc, OrderInv, OrderType, LayerTop, Boundaries
    <2> QED BY <2>1, <2>2
  <1>3. NextCall(p)' = AfterGrads(cycle, i)
    <2>1. /\ host_pc'[p] = pc /\ layer'[p] = j
          /\ \A c, k : TopCall(c, k)' = TopCall(c, k)
      BY <1>1, <1>2, HostMoves
    <2>2. FirstCall(cycle + 1)' = FirstCall(cycle + 1)
      BY <1>1, <2>1 DEF FirstCall
    <2>3. CASE i = 1
      BY <1>1, <2>1, <2>3 DEF NextCall, AfterGrads
    <2>4. CASE i # 1 /\ RaisesAt(i - 1)
      BY <1>1, <2>1, <2>2, <2>4 DEF NextCall, AfterGrads, RaisesAt
    <2>5. CASE i # 1 /\ ~RaisesAt(i - 1)
      BY <1>1, <2>1, <2>5 DEF NextCall, AfterGrads, RaisesAt, LayerTop
    <2> QED BY <2>3, <2>4, <2>5
  <1>4. NextCall(p) = AfterAttn(cycle, i)
    BY <1>1 DEF NextCall
  <1> HIDE DEF i, j, pc
  <1>5. CASE Tp /\ GroupDone(i)
    <2>1. NextCall(p) = <<cycle, "bucket", i>>
      BY <1>4, <1>5 DEF AfterAttn
    <2>2. NextCall(p)' = Succ(NextCall(p))
      BY <1>3, <2>1 DEF Succ
    <2>3. PICK e : /\ e.call = <<cycle, "bucket", i>>
                   /\ nccl' = [nccl EXCEPT ![p] = Append(@, e)]
      BY <1>1, <1>5 DEF StashOrWrite, Call
    <2> QED BY <1>1, <1>2, <1>5, <2>1, <2>2, <2>3, CallStep
  <1>6. CASE ~(Tp /\ GroupDone(i))
    <2>1. nccl' = nccl
      BY <1>1, <1>6 DEF StashOrWrite
    <2>2. Tp => NextCall(p)' = NextCall(p)
      BY <1>3, <1>4, <1>6 DEF AfterAttn
    <2> QED BY <1>1, <1>2, <2>1, <2>2, QuietStep
  <1> QED BY <1>5, <1>6

\* The norms are reduced once, behind the buckets.
LEMMA FinishKeepsOrder ==
    ASSUME OrderInv, NEW p \in Ranks, Finish(p)
    PROVE  OrderInv'
  <1> DEFINE i == layer[p]
  <1>1. /\ host_pc[p] = "finish"
        /\ host_pc' = [host_pc EXCEPT ![p] = "sync"]
        /\ layer' = [layer EXCEPT ![p] = i]
        /\ cfg' = cfg /\ cycle' = cycle
        /\ i \in Nat \ {0} /\ "sync" \in HostPc
    BY DEF Finish, cycleVars, OrderInv, OrderType, HostPc
  <1>2. NextCall(p) = <<cycle, "clip", 0>>
    BY <1>1 DEF NextCall
  <1>3. NextCall(p)' = FirstCall(cycle + 1)'
    BY <1>1, HostMoves DEF NextCall
  <1>4. FirstCall(cycle + 1)' = FirstCall(cycle + 1)
    BY <1>1 DEF FirstCall, TopCall
  <1>5. NextCall(p)' = Succ(NextCall(p))
    BY <1>2, <1>3, <1>4 DEF Succ
  <1> HIDE DEF i
  <1>6. CASE Tp
    <2>1. PICK e : /\ e.call = <<cycle, "clip", 0>>
                   /\ nccl' = [nccl EXCEPT ![p] = Append(@, e)]
      BY <1>6 DEF Finish, Call
    <2> QED BY <1>1, <1>2, <1>5, <1>6, <2>1, CallStep
  <1>7. CASE ~Tp
    <2>1. nccl' = nccl
      BY <1>7 DEF Finish
    <2> QED BY <1>1, <1>7, <2>1, QuietStep
  <1> QED BY <1>6, <1>7

\* The other steps of a host.
LEMMA HostKeepsOrder ==
    ASSUME OrderInv, NEW p \in Ranks, RecordEvent(p) \/ Answer(p)
    PROVE  OrderInv'
  <1> DEFINE i == layer[p]
  <1>1. /\ layer' = [layer EXCEPT ![p] = i]
        /\ cfg' = cfg /\ cycle' = cycle /\ nccl' = nccl
        /\ i \in Nat \ {0}
    BY DEF RecordEvent, Answer, cycleVars, queueVars, OrderInv, OrderType
  <1>2. CASE RecordEvent(p)
    <2>1. /\ host_pc' = [host_pc EXCEPT ![p] = host_pc[p]]
          /\ host_pc[p] \in HostPc
      BY <1>2 DEF RecordEvent, OrderInv, OrderType
    <2>2. NextCall(p)' = NextCall(p)
      BY <1>1, <1>2
      DEF RecordEvent, NextCall, AfterAttn, AfterGrads, FirstCall, TopCall
    <2> QED BY <1>1, <2>1, <2>2, QuietStep
  <1>3. CASE Answer(p)
    <2>1. /\ host_pc[p] = "sync" /\ "answered" \in HostPc
          /\ host_pc' = [host_pc EXCEPT ![p] = "answered"]
      BY <1>3 DEF Answer, HostPc
    <2>2. NextCall(p)' = NextCall(p)
      <3>1. host_pc'[p] = "answered"
        BY <1>1, <2>1, HostMoves
      <3> QED BY <1>1, <2>1, <3>1 DEF NextCall, FirstCall, TopCall
    <2> QED BY <1>1, <2>1, <2>2, QuietStep
  <1> QED BY <1>2, <1>3

\* Ranks leave a boundary, and begin a cycle, together.
LEMMA TogetherKeepsOrder ==
    ASSUME BoundaryInv, OrderInv, Agree \/ Trigger
    PROVE  OrderInv'
  <1>1. cfg' = cfg /\ nccl' = nccl /\ Ranks' = Ranks /\ (Tp' <=> Tp)
    BY DEF Agree, Trigger, cycleVars, queueVars, Ranks, Tp
  <1>2. /\ host_pc \in [Ranks -> HostPc] /\ layer \in [Ranks -> Nat \ {0}]
        /\ cycle \in Nat
    BY DEF OrderInv, OrderType
  <1>3. CASE Trigger
    <2>1. /\ \A r \in Ranks : host_pc[r] \in {"answered", "raised"}
          /\ cycle' = cycle + 1
          /\ host_pc' = [r \in Ranks |-> "first"]
          /\ layer' = [r \in Ranks |-> L]
      BY <1>3 DEF Trigger
    <2>2. OrderType'
      BY <1>1, <1>2, <2>1, CycleAssumption
      DEF OrderInv, OrderType, HostPc, Boundaries
    <2>3. \A r \in Ranks : NextCall(r)' = NextCall(r)
      BY <1>1, <2>1 DEF NextCall, FirstCall, TopCall
    <2> QED BY <1>1, <2>2, <2>3, NoCallKeeps
  <1>4. CASE Agree
    <2>1. /\ \A r \in Ranks : voting[r]
          /\ host_pc' = [r \in Ranks |-> AfterBoundary(r)]
          /\ layer' = layer /\ cycle' = cycle
      BY <1>4 DEF Agree, cycleVars
    <2>2. ASSUME NEW r \in Ranks
          PROVE  /\ AfterBoundary(r) \in HostPc
                 /\ NextCall(r)' = NextCall(r)
      <3>1. host_pc[r] \in Boundaries
        BY <2>1 DEF BoundaryInv
      <3>2. AfterBoundary(r) \in HostPc /\ host_pc'[r] = AfterBoundary(r)
        BY <2>1, <3>1 DEF AfterBoundary, HostPc, Boundaries, LayerTop
      <3>3. TopCall(cycle, layer[r])' = TopCall(cycle, layer[r])
        BY <1>1, <2>1 DEF TopCall
      <3> QED
        BY <2>1, <3>1, <3>2, <3>3
        DEF AfterBoundary, Boundaries, LayerTop, NextCall
    <2>3. OrderType'
      BY <1>1, <1>2, <2>1, <2>2 DEF OrderInv, OrderType
    <2> QED BY <1>1, <2>2, <2>3, NoCallKeeps
  <1> QED BY <1>3, <1>4

-----------------------------------------------------------------------------
\* Only a rank that stands at a boundary of its graphs has a vote open.
LEMMA BoundaryInvariant == Spec => []BoundaryInv
  <1>1. Init => BoundaryInv
    BY DEF Init, BoundaryInv, HostPc
  <1>2. BoundaryInv /\ [Next]_vars => BoundaryInv'
    <2> SUFFICES ASSUME BoundaryInv, [Next]_vars PROVE BoundaryInv'
      OBVIOUS
    <2> USE DEF BoundaryInv, HostPc, Boundaries
    <2>1. Ranks' = Ranks
      BY ZenonT(30) DEF Next, Run, Trigger, Agree, AllReduce, Child, RecordEvent, Forward,
             Ffn, Attn, Grads, Finish, Answer, RunCompute, cycleVars, vars,
             Ranks
    <2>2. CASE Trigger
      BY <2>1, <2>2 DEF Trigger
    <2>3. CASE Agree
      BY <2>1, <2>3 DEF Agree, AfterBoundary, LayerTop
    <2>4. CASE AllReduce
      BY <2>1, <2>4 DEF AllReduce, hostVars
    <2>5. ASSUME NEW p \in Ranks, Child(p) PROVE BoundaryInv'
      <3>1. CASE RecordEvent(p)
        BY <2>1, <3>1 DEF RecordEvent
      <3>2. CASE Forward(p)
        BY <2>1, <3>2 DEF Forward
      <3>3. CASE Ffn(p)
        BY <2>1, <3>3 DEF Ffn
      <3>4. CASE Attn(p)
        BY <2>1, <3>4 DEF Attn
      <3>5. CASE Grads(p)
        BY <2>1, <3>5 DEF Grads, LayerTop
      <3>6. CASE Finish(p)
        BY <2>1, <3>6 DEF Finish
      <3>7. CASE Answer(p)
        BY <2>1, <3>7 DEF Answer
      <3> QED
        BY <2>5, <3>1, <3>2, <3>3, <3>4, <3>5, <3>6, <3>7 DEF Child
    <2>6. ASSUME NEW p \in Ranks, RunCompute(p) PROVE BoundaryInv'
      BY <2>1, <2>6 DEF RunCompute, hostVars
    <2>7. CASE UNCHANGED vars
      BY <2>1, <2>7 DEF vars, hostVars
    <2> QED BY <2>2, <2>3, <2>4, <2>5, <2>6, <2>7 DEF Next, Run
  <1> QED BY <1>1, <1>2, PTL DEF Spec

\* Every two ranks' queues of collectives agree as far as both go, and what
\* the shorter misses is what its host issues next.
THEOREM OrderInvariant == Spec => []OrderInv
  <1>1. Init => OrderInv
    <2> SUFFICES ASSUME Init PROVE OrderInv
      OBVIOUS
    <2>1. /\ cycle = 0 /\ host_pc = [r \in Ranks |-> "answered"]
          /\ layer = [r \in Ranks |-> L] /\ nccl = [r \in Ranks |-> <<>>]
      BY DEF Init
    <2>2. \A r \in Ranks : nccl[r] = <<>> /\ Len(nccl[r]) = 0
      BY <2>1
    <2>3. IsSeq(<<>>)
      BY DEF IsSeq
    <2>4. OrderType
      BY <2>1, <2>2, <2>3, CycleAssumption DEF OrderType, HostPc
    <2>5. \A r \in Ranks : NextCall(r) = FirstCall(1)
      BY <2>1 DEF NextCall
    <2> QED
      BY <2>2, <2>4, <2>5 DEF OrderInv, Chains, Chain, Agrees, Agreed
  <1>2. BoundaryInv /\ OrderInv /\ [Next]_vars => OrderInv'
    <2> SUFFICES ASSUME BoundaryInv, OrderInv, [Next]_vars PROVE OrderInv'
      OBVIOUS
    <2>1. CASE Agree \/ Trigger
      BY <2>1, TogetherKeepsOrder
    <2>2. CASE AllReduce
      <3>1. /\ Tp /\ \A r \in Ranks : nccl[r] # <<>>
            /\ nccl' = [r \in Ranks |-> Tail(nccl[r])]
            /\ cfg' = cfg /\ cycle' = cycle
            /\ host_pc' = host_pc /\ layer' = layer
        BY <2>2 DEF AllReduce, cycleVars, hostVars
      <3>2. \A r \in Ranks : IsSeq(nccl'[r])
        BY <3>1, TailFacts DEF OrderInv, OrderType
      <3>3. OrderType'
        BY <3>1, <3>2 DEF OrderInv, OrderType, Ranks, Tp
      <3>4. \A r \in Ranks : NextCall(r)' = NextCall(r)
        BY <3>1, SMTT(30) DEF NextCall, AfterAttn, AfterGrads, FirstCall, TopCall
      <3> QED BY <3>1, <3>3, <3>4, RunKeeps
    <2>3. ASSUME NEW p \in Ranks, Child(p) PROVE OrderInv'
      BY <2>3, ForwardKeepsOrder, FfnKeepsOrder, AttnKeepsOrder,
         GradsKeepsOrder, FinishKeepsOrder, HostKeepsOrder
      DEF Child
    <2>4. ASSUME \/ \E p \in Ranks : RunCompute(p)
                 \/ UNCHANGED vars
          PROVE  OrderInv'
      <3>1. UNCHANGED <<cfg, cycle, host_pc, layer, nccl>>
        BY <2>4
        DEF RunCompute, vars, cycleVars, hostVars, queueVars
      <3>2. OrderType'
        BY <3>1 DEF OrderInv, OrderType, Ranks, Tp
      <3>3. \A r \in Ranks : NextCall(r)' = NextCall(r)
        BY <3>1 DEF NextCall, AfterAttn, AfterGrads, FirstCall, TopCall
      <3> QED BY <3>1, <3>2, <3>3, NoCallKeeps
    <2> QED BY <2>1, <2>2, <2>3, <2>4 DEF Next, Run
  <1> QED BY <1>1, <1>2, BoundaryInvariant, PTL DEF Spec

\* All ranks issue the same collectives in the same order, whatever has fallen
\* back to eager on which of them (the note at graph.py:911; tp.py:122): no
\* reduce ever meets another one.
THEOREM CallsInLockStep == Spec => []LockStep
  <1>1. OrderInv => LockStep
    <2> SUFFICES ASSUME OrderInv, NEW r \in Ranks, NEW q \in Ranks,
                        NEW k \in DOMAIN nccl[r] \cap DOMAIN nccl[q]
                 PROVE  nccl[r][k].call = nccl[q][k].call
      BY DEF LockStep
    <2>1. /\ k \in 1 .. Len(nccl[r]) /\ k \in 1 .. Len(nccl[q])
          /\ Len(nccl[q]) \in Nat
      BY IsSeqFacts DEF OrderInv, OrderType
    <2>2. Tp
      <3>1. ~(nccl[r] = <<>>)
        BY <2>1
      <3> QED BY <3>1 DEF OrderInv, OrderType
    <2>3. k <= Len(nccl[q])
      BY <2>1
    <2> QED BY <2>1, <2>2, <2>3 DEF OrderInv, Agrees, Agreed
  <1> QED BY <1>1, OrderInvariant, PTL

-----------------------------------------------------------------------------
(***************************************************************************)
(* The rows of a batch and the slots of the padded attention.              *)
(***************************************************************************)
\* Every set of naturals that is not empty has a least element.
LEMMA LeastNatural ==
    ASSUME NEW T \in SUBSET Nat, T # {}
    PROVE  \E x \in T : \A y \in T : x <= y
  <1> DEFINE R == OpToRel(<, Nat)
  <1>1. IsWellFoundedOn(R, Nat)
    BY NatLessThanWellFounded
  <1>2. \A x, y \in Nat : x < y => <<x, y>> \in R
    BY DEF OpToRel
  <1> HIDE DEF R
  <1>3. PICK x \in T : \A y \in T : ~(<<y, x>> \in R)
    BY <1>1, WFMin
  <1>4. \A y \in T : ~(y < x)
    BY <1>2, <1>3
  <1> QED BY <1>3, <1>4

\* A set that has 0 and, with n, n + 1, has every natural.
LEMMA Upward ==
    ASSUME NEW T, 0 \in T, \A n \in Nat : n \in T => n + 1 \in T
    PROVE  \A n \in Nat : n \in T
  <1> DEFINE Bad == {n \in Nat : n \notin T}
  <1> SUFFICES ASSUME Bad # {} PROVE FALSE
    OBVIOUS
  <1>1. Bad \in SUBSET Nat
    OBVIOUS
  <1> HIDE DEF Bad
  <1>2. PICK x \in Bad : \A y \in Bad : x <= y
    BY <1>1, LeastNatural
  <1>3. x \in Nat /\ x \notin T
    BY <1>2 DEF Bad
  <1>4. x - 1 \in Nat /\ (x - 1) + 1 = x
    BY <1>3
  <1>5. x - 1 \in Bad
    BY <1>3, <1>4 DEF Bad
  <1> QED BY <1>2, <1>3, <1>5

\* The sums of the first samples, computed up to the n-th.
UpTo(n, h) ==
    h = [j \in 0 .. n |-> IF j = 0 THEN 0 ELSE h[j - 1] + sample_lens[j]]

\* They can be computed however far, in one way.
LEMMA SumsExist == \A n \in Nat : \E h : UpTo(n, h)
  <1> DEFINE T == {n \in Nat : \E h : UpTo(n, h)}
  <1>1. 0 \in T
    <2> DEFINE h == [j \in 0 .. 0 |-> 0]
    <2>1. h = [j \in 0 .. 0 |-> IF j = 0 THEN 0 ELSE h[j - 1] + sample_lens[j]]
      OBVIOUS
    <2> QED BY <2>1 DEF UpTo
  <1>2. ASSUME NEW n \in Nat, n \in T PROVE n + 1 \in T
    <2>1. PICK h : UpTo(n, h)
      BY <1>2
    <2> DEFINE g == [j \in 0 .. n + 1 |->
                       IF j = n + 1 THEN h[n] + sample_lens[n + 1] ELSE h[j]]
    <2>2. ASSUME NEW j \in 0 .. n + 1
          PROVE  g[j] = IF j = 0 THEN 0 ELSE g[j - 1] + sample_lens[j]
      <3>1. CASE j = n + 1
        <4>1. n \in 0 .. n + 1 /\ n # n + 1 /\ j - 1 = n
          BY <3>1
        <4>2. g[n] = h[n] /\ g[j] = h[n] + sample_lens[n + 1]
          BY <3>1, <4>1
        <4> QED BY <3>1, <4>1, <4>2
      <3>2. CASE j # n + 1
        <4>1. j \in 0 .. n /\ (j # 0 => j - 1 \in 0 .. n + 1 /\ j - 1 # n + 1)
          BY <3>2
        <4>2. h[j] = IF j = 0 THEN 0 ELSE h[j - 1] + sample_lens[j]
          BY <2>1, <4>1 DEF UpTo
        <4>3. g[j] = h[j] /\ (j # 0 => g[j - 1] = h[j - 1])
          BY <3>2, <4>1
        <4> QED BY <4>2, <4>3
      <3> QED BY <3>1, <3>2
    <2>3. g = [j \in 0 .. n + 1 |-> g[j]]
      OBVIOUS
    <2> HIDE DEF g
    <2>4. UpTo(n + 1, g)
      BY <2>2, <2>3 DEF UpTo
    <2> QED BY <2>4
  <1> HIDE DEF T
  <1>3. \A n \in Nat : n \in T
    BY <1>1, <1>2, Upward
  <1> QED BY <1>3 DEF T

\* Two running sums agree as far as both go.
LEMMA SumsAgree ==
    ASSUME NEW m \in Nat, NEW n \in Nat, NEW g, NEW h, UpTo(m, g), UpTo(n, h)
    PROVE  \A j \in Nat : j <= m /\ j <= n => g[j] = h[j]
  <1> DEFINE T == {j \in Nat : j <= m /\ j <= n => g[j] = h[j]}
  <1>1. 0 \in T
    BY DEF UpTo
  <1>2. ASSUME NEW j \in Nat, j \in T PROVE j + 1 \in T
    <2> SUFFICES ASSUME j + 1 <= m, j + 1 <= n PROVE g[j + 1] = h[j + 1]
      OBVIOUS
    <2>1. /\ j + 1 \in 0 .. m /\ j + 1 \in 0 .. n /\ j + 1 # 0
          /\ (j + 1) - 1 = j /\ g[j] = h[j]
      BY <1>2
    <2> QED BY <2>1 DEF UpTo
  <1> HIDE DEF T
  <1>3. \A j \in Nat : j \in T
    BY <1>1, <1>2, Upward
  <1> QED BY <1>3 DEF T

\* What the recursion computes.
LEMMA BeforeStep ==
    /\ Before[0] = 0
    /\ \A j \in Nat : Before[j + 1] = Before[j] + sample_lens[j + 1]
  <1> DEFINE H(n) == CHOOSE h : UpTo(n, h)
             F == [j \in Nat |-> H(j)[j]]
  <1>1. \A n \in Nat : UpTo(n, H(n))
    BY SumsExist
  <1>2. ASSUME NEW j \in Nat
        PROVE  F[j] = IF j = 0 THEN 0 ELSE F[j - 1] + sample_lens[j]
    <2>1. /\ F[j] = H(j)[j] /\ UpTo(j, H(j))
          /\ j # 0 => j - 1 \in Nat /\ F[j - 1] = H(j - 1)[j - 1]
                      /\ UpTo(j - 1, H(j - 1))
      BY <1>1
    <2> HIDE DEF F, H
    <2>2. H(j)[j] = IF j = 0 THEN 0 ELSE H(j)[j - 1] + sample_lens[j]
      <3>1. j \in 0 .. j
        OBVIOUS
      <3> QED BY <2>1, <3>1 DEF UpTo
    <2>3. ASSUME j # 0 PROVE H(j)[j - 1] = H(j - 1)[j - 1]
      <3>1. j - 1 \in Nat /\ j - 1 <= j /\ j - 1 <= j - 1
        BY <2>3
      <3> QED BY <2>1, <2>3, <3>1, SumsAgree
    <2> QED BY <2>1, <2>2, <2>3
  <1>3. F = [j \in Nat |-> IF j = 0 THEN 0 ELSE F[j - 1] + sample_lens[j]]
    <2>1. F = [j \in Nat |-> F[j]]
      OBVIOUS
    <2> HIDE DEF F
    <2> QED BY <1>2, <2>1
  <1> HIDE DEF F
  <1>4. Before = [j \in Nat |-> IF j = 0 THEN 0
                                ELSE Before[j - 1] + sample_lens[j]]
    BY <1>3 DEF Before
  <1>5. ASSUME NEW j \in Nat PROVE Before[j + 1] = Before[j] + sample_lens[j + 1]
    <2>1. j + 1 \in Nat /\ j + 1 # 0 /\ (j + 1) - 1 = j
      OBVIOUS
    <2> QED BY <1>4, <2>1
  <1>6. Before[0] = 0
    BY <1>4
  <1> QED BY <1>5, <1>6

\* The samples of a cycle are a batch; the first cycle has none before it.
BatchInv == IsSeq(sample_lens) /\ \A j \in 1 .. Len(sample_lens) : sample_lens[j] \in Nat

\* The sums are natural numbers, and every row is some sample's.
LEMMA RowsOfSamples ==
    ASSUME BatchInv
    PROVE  /\ N \in Nat
           /\ \A j \in 0 .. Len(sample_lens) : Before[j] \in Nat
           /\ \A k \in 1 .. N : \E j \in DOMAIN sample_lens :
                 Before[j - 1] < k /\ k <= Before[j]
  <1> DEFINE n == Len(sample_lens)
             T == {j \in Nat : j <= n => Before[j] \in Nat}
  <1>1. n \in Nat /\ DOMAIN sample_lens = 1 .. n
    BY IsSeqFacts DEF BatchInv
  <1>2. 0 \in T
    BY BeforeStep
  <1>3. ASSUME NEW j \in Nat, j \in T PROVE j + 1 \in T
    <2> SUFFICES ASSUME j + 1 <= n PROVE Before[j + 1] \in Nat
      OBVIOUS
    <2>1. j \in Nat /\ j + 1 \in 1 .. n /\ Before[j] \in Nat
      BY <1>1, <1>3
    <2>2. sample_lens[j + 1] \in Nat /\ Before[j + 1] = Before[j] + sample_lens[j + 1]
      BY <2>1, BeforeStep DEF BatchInv
    <2> QED BY <2>1, <2>2
  <1> HIDE DEF T
  <1>4. \A j \in Nat : j \in T
    BY <1>2, <1>3, Upward
  <1>5. \A j \in 0 .. n : Before[j] \in Nat
    BY <1>1, <1>4 DEF T
  <1>6. ASSUME NEW k \in 1 .. N
        PROVE  \E j \in 1 .. n : Before[j - 1] < k /\ k <= Before[j]
    <2> DEFINE S == {j \in 0 .. n : k <= Before[j]}
    <2>1. S \in SUBSET Nat /\ S # {}
      <3>1. n \in S
        BY <1>1, <1>6 DEF N
      <3> QED BY <3>1
    <2>2. PICK j \in S : \A i \in S : j <= i
      <3> HIDE DEF S
      <3> QED BY <2>1, LeastNatural
    <2>3. j \in 0 .. n /\ k <= Before[j] /\ k \in Nat \ {0}
      BY <1>1, <1>5, <1>6 DEF N
    <2>4. j # 0
      <3>1. Before[0] = 0
        BY BeforeStep
      <3> HIDE DEF S
      <3>2. ASSUME j = 0 PROVE k <= 0
        BY <2>3, <3>1, <3>2
      <3> QED BY <2>3, <3>2
    <2>5. j - 1 \in 0 .. n /\ ~(j <= j - 1) /\ j \in 1 .. n
      BY <1>1, <2>3, <2>4
    <2>6. ~(k <= Before[j - 1])
      BY <2>2, <2>5
    <2>7. Before[j - 1] \in Nat
      BY <1>5, <2>5
    <2> QED BY <2>3, <2>5, <2>6, <2>7
  <1>7. N \in Nat
    BY <1>1, <1>5 DEF N
  <1> QED BY <1>1, <1>5, <1>6, <1>7

\* Where the padded attention can take the batch, every row has a slot, and
\* those of the batch each have their own.
LEMMA SlotsApart ==
    ASSUME BatchInv, AttnFit
    PROVE  /\ \A k \in RowNums : SlotOf(k) \in Slots
           /\ \A k, l \in 1 .. N : SlotOf(k) = SlotOf(l) => k = l
           /\ 1 .. N \subseteq RowNums
  <1>1. /\ N \in Nat /\ N <= SMax /\ SMax \in Nat
        /\ Len(sample_lens) \in Nat /\ Len(sample_lens) <= BnMax
        /\ DOMAIN sample_lens = 1 .. Len(sample_lens)
        /\ BnMax \in Nat \ {0} /\ LMax \in Nat \ {0}
        /\ \A j \in DOMAIN sample_lens : sample_lens[j] <= LMax
    BY RowsOfSamples, IsSeqFacts, CycleAssumption DEF BatchInv, AttnFit
  <1>2. ASSUME NEW k \in 1 .. N
        PROVE  \E j \in DOMAIN sample_lens :
                  /\ SlotOf(k) = <<j, k - Before[j - 1]>> /\ SlotOf(k) \in Slots
                  /\ Before[j - 1] \in Nat
    <2> DEFINE In(j) == Before[j - 1] < k /\ k <= Before[j]
               j == CHOOSE j \in DOMAIN sample_lens : In(j)
    <2>1. j \in DOMAIN sample_lens /\ In(j)
      BY RowsOfSamples
    <2>2. SlotOf(k) = <<j, k - Before[j - 1]>>
      BY <1>1 DEF SlotOf
    <2> HIDE DEF j
    <2>3. /\ j \in 1 .. Len(sample_lens) /\ j - 1 \in 0 .. Len(sample_lens)
          /\ j \in 0 .. Len(sample_lens) /\ j - 1 \in Nat /\ (j - 1) + 1 = j
      BY <1>1, <2>1
    <2>4. /\ Before[j - 1] \in Nat /\ Before[j] \in Nat
          /\ Before[j] = Before[j - 1] + sample_lens[j]
          /\ sample_lens[j] \in Nat /\ sample_lens[j] <= LMax
      <3>1. Before[(j - 1) + 1] = Before[j - 1] + sample_lens[(j - 1) + 1]
        BY <2>3, BeforeStep
      <3> QED BY <1>1, <2>1, <2>3, <3>1, RowsOfSamples DEF BatchInv
    <2>5. k - Before[j - 1] \in 1 .. LMax /\ j \in 1 .. BnMax
      BY <1>1, <2>1, <2>3, <2>4
    <2> QED BY <2>1, <2>2, <2>4, <2>5 DEF Slots
  <1>3. ASSUME NEW k \in RowNums PROVE SlotOf(k) \in Slots
    <2>1. CASE k <= N
      <3>1. k \in 1 .. N
        BY <2>1, <1>1 DEF RowNums
      <3> QED BY <1>2, <3>1
    <2>2. CASE ~(k <= N)
      <3>1. k > N
        BY <2>2, <1>1 DEF RowNums
      <3> QED BY <3>1, <1>1 DEF SlotOf, Slots
    <2> QED BY <2>1, <2>2
  <1>4. ASSUME NEW k \in 1 .. N, NEW l \in 1 .. N, SlotOf(k) = SlotOf(l)
        PROVE  k = l
    <2>1. PICK i \in DOMAIN sample_lens :
             SlotOf(k) = <<i, k - Before[i - 1]>> /\ Before[i - 1] \in Nat
      BY <1>2
    <2>2. PICK j \in DOMAIN sample_lens :
             SlotOf(l) = <<j, l - Before[j - 1]>> /\ Before[j - 1] \in Nat
      BY <1>2
    <2>3. <<i, k - Before[i - 1]>> = <<j, l - Before[j - 1]>>
      BY <1>4, <2>1, <2>2
    <2>4. i = j
      BY <2>3
    <2>5. k - Before[i - 1] = l - Before[i - 1]
      BY <2>3, <2>4
    <2> QED BY <1>1, <2>1, <2>5
  <1>5. 1 .. N \subseteq RowNums
    BY <1>1 DEF RowNums
  <1> QED BY <1>3, <1>4, <1>5

\* What is scattered over zeroed slots is gathered again, row by row, whatever
\* the rows past the batch are.
LEMMA GatherScatter ==
    ASSUME BatchInv, AttnFit, NEW buf,
           \A k \in RowNums : ~(k <= N) => buf[k] = {}
    PROVE  \A k \in RowNums : k <= N => Gather(Scatter(NoSlots, buf))[k] = buf[k]
  <1> SUFFICES ASSUME NEW k \in RowNums, k <= N
               PROVE  Gather(Scatter(NoSlots, buf))[k] = buf[k]
    OBVIOUS
  <1> DEFINE s == SlotOf(k)
             at == {r \in RowNums : SlotOf(r) = s}
             pad == Scatter(NoSlots, buf)
  <1>1. s \in Slots /\ k \in 1 .. N
    <2>1. N \in Nat /\ SMax \in Nat
      BY RowsOfSamples, CycleAssumption
    <2> QED BY <2>1, SlotsApart DEF RowNums
  <1>2. pad[s] = UNION {buf[r] : r \in at}
    BY <1>1 DEF Scatter, NoSlots
  <1>3. ASSUME NEW r \in at, r # k PROVE buf[r] = {}
    <2>1. ~(r \in 1 .. N)
      BY <1>1, <1>3, SlotsApart
    <2>2. ~(r <= N)
      <3>1. N \in Nat /\ SMax \in Nat
        BY RowsOfSamples, CycleAssumption
      <3> QED BY <2>1, <3>1 DEF RowNums
    <2> QED BY <2>2
  <1>4. UNION {buf[r] : r \in at} = buf[k]
    <2>1. k \in at
      OBVIOUS
    <2> HIDE DEF at
    <2> QED BY <1>3, <2>1
  <1>5. Gather(pad)[k] = pad[s]
    BY DEF Gather
  <1> QED BY <1>2, <1>4, <1>5

-----------------------------------------------------------------------------
(***************************************************************************)
(* What the backward kernels read.                                         *)
(***************************************************************************)
Fields == {"layer_in", "o", "resid_mid", "gate", "flat", "pad"}
CacheFields == {"resid_mid", "gate", "flat"}

\* A rank's static buffers.
Shaped(st) == st = [f \in Fields |-> st[f]]

\* Between the forward of a layer and its gradients the layer's cache is there.
HasCache == {"ffn", "mid", "attn", "grads"}

\* The layer's cache is its rows, where it is a view of the static buffers too;
\* until the gradients are taken, nothing but it has been read.
CacheInv(r) ==
    /\ host_pc[r] \in HasCache =>
          \A f \in CacheFields : Cached(r, f) = Rows(layer[r])
    /\ used[r] \subseteq {Rows(layer[r])}
    /\ host_pc[r] \notin HasCache => used[r] = {}

FreshInv ==
    /\ BatchInv
    /\ host_pc \in [Ranks -> HostPc]
    /\ static = [r \in Ranks |-> static[r]]
    /\ \A r \in Ranks : Shaped(static[r])
    /\ cache = [r \in Ranks |-> cache[r]] /\ used = [r \in Ranks |-> used[r]]
    /\ layer = [r \in Ranks |-> layer[r]]
    /\ \A r \in Ranks : CacheInv(r)

\* Looking at the batch only, a buffer that has a layer's rows is the layer's.
LEMMA ViewOfRows ==
    ASSUME NEW i, NEW buf, \A k \in RowNums : k <= N => buf[k] = Rows(i)[k]
    PROVE  View(buf) = Rows(i)
  BY DEF View, Rows

\* The graph's outputs hold the rows of the layer that was staged.
LEMMA GraphedOutputs ==
    ASSUME BatchInv, AttnFit, NEW i, NEW st, Shaped(st)
    PROVE  LET out == ForwardTail(GraphForwardCore(StageForwardInputs(st, i)))
           IN  /\ Shaped(out)
               /\ \A f \in CacheFields : View(out[f]) = Rows(i)
  <1> DEFINE staged == StageForwardInputs(st, i)
             core == GraphForwardCore(staged)
             out == ForwardTail(core)
  <1>1. /\ staged = [f \in Fields |-> staged[f]]
        /\ staged.layer_in = Rows(i) /\ staged.pad = NoSlots
        /\ cfg.resid_mid => staged.resid_mid = Rows(i)
    BY DEF StageForwardInputs, Fields, Shaped
  <1> HIDE DEF staged
  <1>2. /\ core = [f \in Fields |-> core[f]]
        /\ core.layer_in = Rows(i) /\ core.flat = Rows(i)
        /\ cfg.resid_mid => core.resid_mid = Rows(i)
        /\ ~cfg.resid_mid => core.o = Gather(Scatter(NoSlots, Rows(i)))
    BY <1>1 DEF GraphForwardCore, Fields
  <1> HIDE DEF core
  <1>3. /\ out = [f \in Fields |-> out[f]]
        /\ out.gate = Rows(i) /\ out.flat = Rows(i)
        /\ cfg.resid_mid => out.resid_mid = Rows(i)
        /\ ~cfg.resid_mid =>
              out.resid_mid = [k \in RowNums |->
                 Rows(i)[k] \union Gather(Scatter(NoSlots, Rows(i)))[k]]
    BY <1>2 DEF ForwardTail, Fields
  <1> HIDE DEF out
  <1>4. \A k \in RowNums : ~(k <= N) => Rows(i)[k] = {}
    BY DEF Rows
  <1>5. \A k \in RowNums : k <= N => out.resid_mid[k] = Rows(i)[k]
    <2>1. CASE cfg.resid_mid
      BY <1>3, <2>1
    <2>2. CASE ~cfg.resid_mid
      <3>1. \A k \in RowNums : k <= N =>
               Gather(Scatter(NoSlots, Rows(i)))[k] = Rows(i)[k]
        BY <1>4, GatherScatter
      <3>2. \A k \in RowNums : out.resid_mid[k] =
               Rows(i)[k] \union Gather(Scatter(NoSlots, Rows(i)))[k]
        BY <1>3, <2>2
      <3> QED BY <3>1, <3>2
    <2> QED BY <2>1, <2>2
  <1>6. /\ View(out.gate) = Rows(i) /\ View(out.flat) = Rows(i)
        /\ View(out.resid_mid) = Rows(i)
    BY <1>3, <1>5, ViewOfRows
  <1> QED BY <1>3, <1>6 DEF CacheFields, out, core, staged, Shaped

\* A rank's host goes to pc and layer i, with static buffers st, cache c, and
\* kernels that have read u.
Moves(p, pc, i, st, c, u) ==
    /\ UNCHANGED <<cfg, cycle, sample_lens>>
    /\ host_pc' = [host_pc EXCEPT ![p] = pc] /\ layer' = [layer EXCEPT ![p] = i]
    /\ static' = [static EXCEPT ![p] = st] /\ cache' = [cache EXCEPT ![p] = c]
    /\ used' = [used EXCEPT ![p] = u]

\* It keeps what the others have read, and its own if its cache is the layer's.
LEMMA RankStep ==
    ASSUME FreshInv, NEW p \in Ranks, NEW pc \in HostPc, NEW i, NEW st, NEW c, NEW u,
           Moves(p, pc, i, st, c, u), Shaped(st),
           pc \in HasCache =>
              \A f \in CacheFields : c = "static" => View(st[f]) = Rows(i),
           u \subseteq {Rows(i)}, pc \notin HasCache => u = {}
    PROVE  FreshInv'
  <1> USE DEF Moves
  <1>1. /\ Ranks' = Ranks /\ BatchInv'
        /\ \A j : Rows(j)' = Rows(j)
        /\ \A b : View(b)' = View(b)
    <2>1. N' = N
      BY DEF N, Before
    <2>2. Ranks' = Ranks /\ BatchInv'
      BY DEF Ranks, FreshInv, BatchInv
    <2> QED BY <2>1, <2>2 DEF Rows, View
  <1>2. /\ host_pc' \in [Ranks -> HostPc]
        /\ host_pc'[p] = pc /\ layer'[p] = i /\ static'[p] = st
        /\ cache'[p] = c /\ used'[p] = u
        /\ \A r \in Ranks \ {p} :
              /\ host_pc'[r] = host_pc[r] /\ layer'[r] = layer[r]
              /\ static'[r] = static[r] /\ cache'[r] = cache[r]
              /\ used'[r] = used[r]
        /\ static' = [r \in Ranks |-> static'[r]]
        /\ cache' = [r \in Ranks |-> cache'[r]]
        /\ used' = [r \in Ranks |-> used'[r]]
        /\ layer' = [r \in Ranks |-> layer'[r]]
    BY DEF FreshInv
  <1>3. \A r \in Ranks : Shaped(static[r])'
    <2>1. ASSUME NEW r \in Ranks \ {p} PROVE Shaped(static[r])'
      <3>1. Shaped(static[r])
        BY DEF FreshInv
      <3>2. static'[r] = static[r]
        BY <1>2
      <3> QED BY <3>1, <3>2 DEF Shaped
    <2>2. Shaped(static[p])'
      BY <1>2 DEF Shaped
    <2> QED BY <2>1, <2>2
  <1>4. ASSUME NEW r \in Ranks \ {p} PROVE CacheInv(r)'
    <2>1. CacheInv(r)
      BY DEF FreshInv
    <2> QED BY <1>1, <1>2, <2>1 DEF CacheInv, Cached
  <1>5. CacheInv(p)'
    BY <1>1, <1>2 DEF CacheInv, Cached
  <1> QED BY <1>1, <1>2, <1>3, <1>4, <1>5 DEF FreshInv

\* A forward leaves the rows of its layer behind, whether it replays the graph,
\* gives it up half-way or runs eagerly.
LEMMA ForwardFresh ==
    ASSUME FreshInv, NEW p \in Ranks, Forward(p)
    PROVE  FreshInv'
  <1> DEFINE i == layer[p]
  <1>1. /\ UNCHANGED <<cfg, cycle, sample_lens>>
        /\ host_pc[p] = "forward" /\ "ffn" \in HostPc
        /\ host_pc' = [host_pc EXCEPT ![p] = "ffn"]
        /\ layer' = [layer EXCEPT ![p] = i] /\ used' = [used EXCEPT ![p] = {}]
    BY DEF Forward, cycleVars, FreshInv, CacheInv, HasCache, HostPc
  <1>2. Shaped(static[p])
    BY DEF FreshInv
  <1>3. CASE /\ AttnFit
             /\ static' = [static EXCEPT ![p] =
                  ForwardTail(GraphForwardCore(StageForwardInputs(static[p], i)))]
             /\ cache' = [cache EXCEPT ![p] = "static"]
    <2> DEFINE out == ForwardTail(GraphForwardCore(
                                    StageForwardInputs(static[p], i)))
    <2>1. /\ Shaped(out)
          /\ \A f \in CacheFields : View(out[f]) = Rows(i)
      BY <1>2, <1>3, GraphedOutputs DEF FreshInv
    <2>2. static' = [static EXCEPT ![p] = out]
      BY <1>3
    <2> HIDE DEF out, i
    <2>3. Moves(p, "ffn", i, out, "static", {})
      BY <1>1, <1>3, <2>2 DEF Moves
    <2> QED BY <1>1, <2>1, <2>3, RankStep
  <1>4. CASE /\ \E st : /\ Shaped(st)
                        /\ static' = [static EXCEPT ![p] = st]
             /\ cache' = [cache EXCEPT ![p] = "eager"]
    <2>1. PICK st : /\ Shaped(st)
                    /\ static' = [static EXCEPT ![p] = st]
      BY <1>4
    <2> HIDE DEF i
    <2>2. Moves(p, "ffn", i, st, "eager", {})
      BY <1>1, <1>4, <2>1 DEF Moves
    <2> QED BY <1>1, <2>1, <2>2, RankStep
  <1>5. \/ /\ AttnFit
           /\ static' = [static EXCEPT ![p] =
                ForwardTail(GraphForwardCore(StageForwardInputs(static[p], i)))]
           /\ cache' = [cache EXCEPT ![p] = "static"]
        \/ /\ \E st : /\ Shaped(st)
                      /\ static' = [static EXCEPT ![p] = st]
           /\ cache' = [cache EXCEPT ![p] = "eager"]
    <2>1. CASE LayerForward(p, i)
      <3>1. static' = [static EXCEPT ![p] = static[p]]
        BY <2>1 DEF LayerForward, FreshInv
      <3> QED BY <1>2, <2>1, <3>1 DEF LayerForward
    <2>2. CASE GraphedForward(p, i)
      <3> DEFINE staged == StageForwardInputs(static[p], i)
      <3>1. Shaped(staged)
        BY <1>2 DEF StageForwardInputs, Fields, Shaped
      <3> QED BY <2>2, <3>1 DEF GraphedForward
    <2> QED BY <2>1, <2>2 DEF Forward
  <1> QED BY <1>3, <1>4, <1>5

\* Where no host takes up or gives up a cache, nothing the backward reads has
\* moved.
LEMMA CachesKept ==
    ASSUME FreshInv,
           UNCHANGED <<cfg, cycle, sample_lens, layer, static, cache, used>>,
           host_pc' \in [Ranks -> HostPc],
           \A r \in Ranks : host_pc'[r] \in HasCache <=> host_pc[r] \in HasCache
    PROVE  FreshInv'
  <1>1. /\ Ranks' = Ranks /\ BatchInv'
        /\ \A j : Rows(j)' = Rows(j)
        /\ \A b : View(b)' = View(b)
    <2>1. N' = N
      BY DEF N, Before
    <2>2. Ranks' = Ranks /\ BatchInv'
      BY DEF Ranks, FreshInv, BatchInv
    <2> QED BY <2>1, <2>2 DEF Rows, View
  <1>2. ASSUME NEW r \in Ranks PROVE CacheInv(r)'
    <2>1. CacheInv(r)
      BY DEF FreshInv
    <2> QED BY <1>1, <2>1 DEF CacheInv, Cached
  <1>3. \A r \in Ranks : Shaped(static[r])'
    <2> SUFFICES ASSUME NEW r \in Ranks PROVE Shaped(static[r])'
      OBVIOUS
    <2>1. Shaped(static[r])
      BY DEF FreshInv
    <2> QED BY <2>1 DEF Shaped
  <1> QED BY <1>1, <1>2, <1>3 DEF FreshInv

\* What the FFN backward is handed is the layer's, and it is staged whether the
\* graph then runs or not.
LEMMA FfnFresh ==
    ASSUME FreshInv, NEW p \in Ranks, Ffn(p)
    PROVE  FreshInv'
  <1> DEFINE i == layer[p]
             pc == IF PausesMidLayer(p) THEN "mid" ELSE "attn"
             st == static[p]
             staged == StageFfnInputs(st, Rows(i), Rows(i))
             u == {Rows(i)}
  <1>1. /\ UNCHANGED <<cfg, cycle, sample_lens>>
        /\ host_pc[p] = "ffn" /\ pc \in HostPc /\ pc \in HasCache
        /\ host_pc' = [host_pc EXCEPT ![p] = pc]
        /\ layer' = [layer EXCEPT ![p] = i]
        /\ cache' = [cache EXCEPT ![p] = cache[p]]
    BY DEF Ffn, cycleVars, FreshInv, HasCache, HostPc, Boundaries
  <1>2. /\ Shaped(st) /\ CacheInv(p)
        /\ \A f \in CacheFields : Cached(p, f) = Rows(i)
    BY <1>1 DEF FreshInv, CacheInv, HasCache
  <1>3. /\ Cached(p, "resid_mid") = Rows(i) /\ Cached(p, "gate") = Rows(i)
        /\ \A f \in CacheFields : cache[p] = "static" => View(st[f]) = Rows(i)
    BY <1>2 DEF CacheFields, Cached
  <1>4. /\ staged = [f \in Fields |-> staged[f]]
        /\ staged.resid_mid = Rows(i) /\ staged.gate = Rows(i)
        /\ staged.flat = st.flat
    BY <1>2 DEF StageFfnInputs, Fields, Shaped
  <1>5. View(Rows(i)) = Rows(i)
    BY DEF View, Rows
  <1>6. /\ used' = [used EXCEPT ![p] = u]
        /\ \/ static' = [static EXCEPT ![p] = staged]
           \/ static' = [static EXCEPT ![p] = st]
    <2>1. FfnBackward(p, i)
      BY DEF Ffn
    <2>2. static = [static EXCEPT ![p] = st]
      BY DEF FreshInv
    <2> HIDE DEF i, st
    <2>3. \A s : s.resid_mid = Rows(i) /\ s.gate = Rows(i) =>
             {s.resid_mid, s.gate} = u
      OBVIOUS
    <2>4. CASE /\ static' = [static EXCEPT ![p] = staged]
               /\ \/ used' = [used EXCEPT ![p] = {staged.resid_mid, staged.gate}]
                  \/ used' = [used EXCEPT ![p] = {Rows(i), Rows(i)}]
      BY <2>4, <1>4, <2>3
    <2>5. CASE static' = static /\ used' = [used EXCEPT ![p] = {Rows(i), Rows(i)}]
      BY <2>2, <2>5
    <2>6. \/ /\ static' = [static EXCEPT ![p] = staged]
             /\ \/ used' = [used EXCEPT ![p] = {staged.resid_mid, staged.gate}]
                \/ used' = [used EXCEPT ![p] = {Rows(i), Rows(i)}]
          \/ static' = static /\ used' = [used EXCEPT ![p] = {Rows(i), Rows(i)}]
      <3> HIDE DEF staged
      <3>1. staged = StageFfnInputs(static[p], Cached(p, "resid_mid"),
                                    Cached(p, "gate"))
        BY <1>3 DEF staged, st
      <3> QED BY <2>1, <1>3, <3>1 DEF FfnBackward
    <2> QED BY <2>4, <2>5, <2>6
  <1>7. ASSUME NEW s, Shaped(s), static' = [static EXCEPT ![p] = s],
               \A f \in CacheFields : cache[p] = "static" => View(s[f]) = Rows(i)
        PROVE  FreshInv'
    <2> HIDE DEF i, pc, u
    <2>1. Moves(p, pc, i, s, cache[p], u)
      BY <1>1, <1>6, <1>7 DEF Moves
    <2>2. u \subseteq {Rows(i)}
      BY DEF u
    <2> QED BY <1>1, <1>7, <2>1, <2>2, RankStep
  <1>8. Shaped(staged) /\ \A f \in CacheFields :
                             cache[p] = "static" => View(staged[f]) = Rows(i)
    <2> HIDE DEF staged, st, i
    <2>1. Shaped(staged)
      BY <1>4 DEF Shaped
    <2>2. cache[p] = "static" => View(st.flat) = Rows(i)
      BY <1>3 DEF CacheFields
    <2> QED BY <1>4, <1>5, <2>1, <2>2 DEF CacheFields
  <1> HIDE DEF staged, st, i
  <1> QED BY <1>2, <1>3, <1>6, <1>7, <1>8

\* The attention backward reads the flat copies, or what it has scattered of
\* them over zeroed slots and gathers again.
LEMMA AttnFresh ==
    ASSUME FreshInv, NEW p \in Ranks, Attn(p)
    PROVE  FreshInv'
  <1> DEFINE i == layer[p]
             st == static[p]
             staged == StageAttnInputs(st, Rows(i))
             padded == View(Gather(staged.pad))
  <1>1. /\ UNCHANGED <<cfg, cycle, sample_lens>>
        /\ host_pc[p] = "attn" /\ "grads" \in HostPc /\ "grads" \in HasCache
        /\ host_pc' = [host_pc EXCEPT ![p] = "grads"]
        /\ layer' = [layer EXCEPT ![p] = i]
        /\ cache' = [cache EXCEPT ![p] = cache[p]]
    BY DEF Attn, cycleVars, FreshInv, HasCache, HostPc, Boundaries
  <1>2. /\ Shaped(st) /\ CacheInv(p)
        /\ \A f \in CacheFields : Cached(p, f) = Rows(i)
        /\ used[p] \subseteq {Rows(i)}
    BY <1>1 DEF FreshInv, CacheInv, HasCache
  <1>3. /\ Cached(p, "flat") = Rows(i)
        /\ \A f \in CacheFields : cache[p] = "static" => View(st[f]) = Rows(i)
    BY <1>2 DEF CacheFields, Cached
  <1>4. /\ staged = [f \in Fields |-> staged[f]]
        /\ staged.pad = Scatter(NoSlots, Rows(i))
        /\ \A f \in CacheFields : staged[f] = st[f]
    BY <1>2 DEF StageAttnInputs, Fields, CacheFields, Shaped
  <1>5. AttnFit => padded = Rows(i)
    <2> SUFFICES ASSUME AttnFit PROVE padded = Rows(i)
      OBVIOUS
    <2> HIDE DEF staged, i
    <2>1. \A k \in RowNums : ~(k <= N) => Rows(i)[k] = {}
      BY DEF Rows
    <2>2. \A k \in RowNums : k <= N =>
             Gather(Scatter(NoSlots, Rows(i)))[k] = Rows(i)[k]
      BY <2>1, GatherScatter DEF FreshInv
    <2>3. \A k \in RowNums : k <= N => Gather(staged.pad)[k] = Rows(i)[k]
      BY <2>2, <1>4
    <2> QED BY <2>3, ViewOfRows
  <1>6. \/ /\ AttnFit /\ static' = [static EXCEPT ![p] = staged]
           /\ \/ used' = [used EXCEPT ![p] = used[p] \union {padded}]
              \/ used' = [used EXCEPT ![p] = used[p] \union {Rows(i)}]
        \/ /\ static' = [static EXCEPT ![p] = st]
           /\ used' = [used EXCEPT ![p] = used[p] \union {Rows(i)}]
    <2>1. AttnBackward(p)
      BY DEF Attn
    <2>2. static = [static EXCEPT ![p] = st]
      BY DEF FreshInv
    <2> HIDE DEF i, st, staged
    <2>3. staged = StageAttnInputs(static[p], Cached(p, "flat"))
      BY <1>3 DEF staged, st
    <2> QED BY <2>1, <2>2, <1>3, <2>3 DEF AttnBackward
  <1> DEFINE u == used[p] \union {Rows(i)}
  <1>7. used' = [used EXCEPT ![p] = u]
    <2> HIDE DEF padded, staged, st, i
    <2> QED BY <1>5, <1>6
  <1>8. ASSUME NEW s, Shaped(s), static' = [static EXCEPT ![p] = s],
               \A f \in CacheFields : cache[p] = "static" => View(s[f]) = Rows(i)
        PROVE  FreshInv'
    <2>1. u \subseteq {Rows(i)}
      BY <1>2
    <2> HIDE DEF i, u
    <2>2. Moves(p, "grads", i, s, cache[p], u)
      BY <1>1, <1>7, <1>8 DEF Moves
    <2> QED BY <1>1, <1>8, <2>1, <2>2, RankStep
  <1>9. Shaped(staged) /\ \A f \in CacheFields :
                             cache[p] = "static" => View(staged[f]) = Rows(i)
    <2> HIDE DEF staged, st, i
    <2>1. Shaped(staged)
      BY <1>4 DEF Shaped
    <2> QED BY <1>3, <1>4, <2>1
  <1> HIDE DEF staged, st, i, u, padded
  <1> QED BY <1>2, <1>3, <1>6, <1>8, <1>9

\* The next layer starts with nothing read.
LEMMA GradsFresh ==
    ASSUME FreshInv, NEW p \in Ranks, Grads(p)
    PROVE  FreshInv'
  <1>1. PICK pc, i : /\ pc \in HostPc \ HasCache
                     /\ host_pc' = [host_pc EXCEPT ![p] = pc]
                     /\ layer' = [layer EXCEPT ![p] = i]
    <2>1. CASE layer[p] = 1
      <3>1. /\ host_pc' = [host_pc EXCEPT ![p] = "finish"]
            /\ layer' = [layer EXCEPT ![p] = layer[p]]
            /\ "finish" \in HostPc \ HasCache
        BY <2>1 DEF Grads, FreshInv, HostPc, HasCache
      <3> QED BY <3>1
    <2>2. CASE layer[p] # 1
      <3> DEFINE pc == IF RaisesAt(layer[p] - 1) THEN "raised" ELSE LayerTop(p)
      <3>1. /\ host_pc' = [host_pc EXCEPT ![p] = pc]
            /\ layer' = [layer EXCEPT ![p] = layer[p] - 1]
        BY <2>2 DEF Grads
      <3>2. pc \in HostPc \ HasCache
        BY DEF LayerTop, HostPc, Boundaries, HasCache
      <3> HIDE DEF pc
      <3> QED BY <3>1, <3>2
    <2> QED BY <2>1, <2>2
  <1>2. Shaped(static[p])
    BY DEF FreshInv
  <1>3. Moves(p, pc, i, static[p], cache[p], {})
    BY <1>1 DEF Moves, Grads, cycleVars, FreshInv
  <1> QED BY <1>1, <1>2, <1>3, RankStep

\* Everything a rank's host does on its own.
LEMMA ChildFresh ==
    ASSUME FreshInv, NEW p \in Ranks, Child(p)
    PROVE  FreshInv'
  <1>1. CASE RecordEvent(p)
    <2>1. UNCHANGED <<cfg, cycle, sample_lens, host_pc, layer, static, cache, used>>
      BY <1>1 DEF RecordEvent, cycleVars, graphVars
    <2> QED BY <2>1, CachesKept DEF FreshInv, Ranks
  <1>2. CASE Finish(p) \/ Answer(p)
    <2>1. PICK pc : /\ host_pc[p] \in HostPc \ HasCache
                    /\ pc \in HostPc \ HasCache
                    /\ host_pc' = [host_pc EXCEPT ![p] = pc]
      BY <1>2 DEF Finish, Answer, FreshInv, HostPc, HasCache
    <2>2. UNCHANGED <<cfg, cycle, sample_lens, layer, static, cache, used>>
      BY <1>2 DEF Finish, Answer, cycleVars, graphVars
    <2>3. /\ host_pc' \in [Ranks -> HostPc] /\ Ranks' = Ranks
          /\ \A r \in Ranks : host_pc'[r] \in HasCache <=> host_pc[r] \in HasCache
      BY <2>1, <2>2 DEF FreshInv, Ranks
    <2> QED BY <2>2, <2>3, CachesKept
  <1> QED
    BY <1>1, <1>2, ForwardFresh, FfnFresh, AttnFresh, GradsFresh DEF Child

\* The ranks leave a boundary with the caches they came with, and begin a cycle
\* with nothing read.
LEMMA TogetherFresh ==
    ASSUME FreshInv, BoundaryInv, Agree \/ Trigger
    PROVE  FreshInv'
  <1>1. CASE Agree
    <2>1. UNCHANGED <<cfg, cycle, sample_lens, layer, static, cache, used>>
      BY <1>1 DEF Agree, cycleVars, graphVars
    <2>2. /\ host_pc' = [r \in Ranks |-> AfterBoundary(r)]
          /\ \A r \in Ranks : host_pc[r] \in Boundaries
      BY <1>1 DEF Agree, BoundaryInv
    <2>3. ASSUME NEW r \in Ranks
          PROVE  /\ AfterBoundary(r) \in HostPc
                 /\ AfterBoundary(r) \in HasCache <=> host_pc[r] \in HasCache
      BY <2>2 DEF AfterBoundary, LayerTop, HostPc, Boundaries, HasCache
    <2>4. /\ host_pc' \in [Ranks -> HostPc] /\ Ranks' = Ranks
          /\ \A r \in Ranks : host_pc'[r] \in HasCache <=> host_pc[r] \in HasCache
      BY <2>1, <2>2, <2>3 DEF Ranks
    <2> QED BY <2>1, <2>4, CachesKept
  <1>2. CASE Trigger
    <2>1. /\ host_pc' = [r \in Ranks |-> "first"] /\ layer' = [r \in Ranks |-> L]
          /\ used' = [r \in Ranks |-> {}]
          /\ static' = static /\ cache' = cache /\ cfg' = cfg
          /\ sample_lens' \in Batches
      BY <1>2 DEF Trigger
    <2>2. Ranks' = Ranks
      BY <2>1 DEF Ranks
    <2>3. BatchInv'
      <3>1. sample_lens' \in Seq(Nat)
        BY <2>1, CycleAssumption
      <3> QED BY <3>1 DEF BatchInv, IsSeq
    <2>4. ASSUME NEW r \in Ranks PROVE CacheInv(r)' /\ Shaped(static[r])'
      <3>1. Shaped(static[r])
        BY DEF FreshInv
      <3>2. host_pc'[r] \notin HasCache /\ used'[r] = {}
        BY <2>1 DEF HasCache
      <3> QED BY <2>1, <3>1, <3>2 DEF CacheInv, Shaped
    <2>5. host_pc' \in [Ranks -> HostPc]
      BY <2>1 DEF HostPc, Boundaries
    <2> QED BY <2>1, <2>2, <2>3, <2>4, <2>5 DEF FreshInv
  <1> QED BY <1>1, <1>2

\* What a layer's cache and its kernels hold, on every rank and at every step.
THEOREM FreshInvariant == Spec => []FreshInv
  <1>1. Init => FreshInv
    <2> SUFFICES ASSUME Init PROVE FreshInv
      OBVIOUS
    <2>1. /\ sample_lens = <<>> /\ host_pc = [r \in Ranks |-> "answered"]
          /\ layer = [r \in Ranks |-> L] /\ cache = [r \in Ranks |-> "eager"]
          /\ used = [r \in Ranks |-> {}]
          /\ static = [r \in Ranks |-> [layer_in |-> NoRows, o |-> NoRows,
                                  resid_mid |-> NoRows, gate |-> NoRows,
                                  flat |-> NoRows, pad |-> NoSlots]]
      BY DEF Init
    <2>2. BatchInv
      BY <2>1 DEF BatchInv, IsSeq
    <2>3. ASSUME NEW r \in Ranks PROVE CacheInv(r) /\ Shaped(static[r])
      BY <2>1 DEF CacheInv, Shaped, Fields, HasCache
    <2>4. host_pc \in [Ranks -> HostPc]
      BY <2>1 DEF HostPc
    <2> QED BY <2>1, <2>2, <2>3, <2>4 DEF FreshInv
  <1>2. BoundaryInv /\ FreshInv /\ [Next]_vars => FreshInv'
    <2> SUFFICES ASSUME BoundaryInv, FreshInv, [Next]_vars PROVE FreshInv'
      OBVIOUS
    <2>1. ASSUME \/ AllReduce \/ \E p \in Ranks : RunCompute(p)
                 \/ UNCHANGED vars
          PROVE  FreshInv'
      <3>1. UNCHANGED <<cfg, cycle, sample_lens, host_pc, layer, static, cache, used>>
        BY <2>1, Zenon
        DEF AllReduce, RunCompute, vars, cycleVars, hostVars, graphVars
      <3> QED BY <3>1, CachesKept DEF FreshInv, Ranks
    <2> QED BY <2>1, ChildFresh, TogetherFresh DEF Next, Run
  <1> QED BY <1>1, <1>2, BoundaryInvariant, PTL DEF Spec

\* The backward of a layer reads that layer's rows of this cycle and zeros
\* behind them, whichever of its three regions are replayed, given up half-way
\* or eager, in every order, for batches of every shape: no kernel reads what
\* the static buffers still hold of another layer or of an earlier, longer
\* batch (graph.py:185, 511, 607, 732).
THEOREM ReadsTheLayersRows == Spec => []FreshInputs
  <1>1. FreshInv => FreshInputs
    BY DEF FreshInv, CacheInv, FreshInputs
  <1> QED BY <1>1, FreshInvariant, PTL

-----------------------------------------------------------------------------
(***************************************************************************)
(* What is trained: a gradient goes to its buffer when its stash or write  *)
(* runs, is summed by its group's reduce, collected and published.         *)
(***************************************************************************)
HostEnds == {"finish", "sync", "answered"}
GradSet == [cyc : Nat, parts : SUBSET Ranks, sums : Nat]

\* The gradient of a layer on rank r before the reduce, and what is served.
OneGrad(r) == [cyc |-> cycle, parts |-> {r}, sums |-> 0]
FinalGrad == [cyc |-> cycle, parts |-> Ranks, sums |-> IF Tp THEN 1 ELSE 0]
Final(g) == \A i \in Layers : g[i] = FinalGrad

\* The host has enqueued the gradients of layer i in this cycle.
Done(r, i) == host_pc[r] \in HostEnds \/ i > layer[r]

\* Operations that write a gradient, and those of this cycle.
IsGrad(o) == o.op \in {"stash", "write"}
Current(o) == IsGrad(o) /\ o.cyc = cycle
Ends(o) == o.op \in {"collect", "publish"}

\* Where they write it.
Dest(r) == IF Tp THEN slab[r] ELSE grads[r]

OpType(o) ==
    /\ IsGrad(o) => /\ o.op = (IF Tp THEN "stash" ELSE "write")
                    /\ o.arg \in Layers /\ o.cyc \in Nat /\ o.cyc <= cycle
    /\ o.op = "await" => o.arg \in Nat

CallType(e) ==
    /\ e.call[1] \in Nat /\ e.call[1] <= cycle /\ e.after \in Nat
    /\ e.call[2] = "bucket" => e.call[3] \in Layers

TrainType ==
    /\ cfg \in Configs /\ cycle \in Nat
    /\ host_pc \in [Ranks -> HostPc] /\ layer \in [Ranks -> Layers]
    /\ ran \in [Ranks -> Nat] /\ reduced \in Nat /\ pending \in [Ranks -> Nat]
    /\ compute = [r \in Ranks |-> compute[r]] /\ nccl = [r \in Ranks |-> nccl[r]]
    /\ \A r \in Ranks : IsSeq(compute[r]) /\ IsSeq(nccl[r])
    /\ \A r \in Ranks : \A m \in 1 .. Len(compute[r]) : OpType(compute[r][m])
    /\ \A r \in Ranks : \A k \in 1 .. Len(nccl[r]) : CallType(nccl[r][k])
    /\ slab \in [Ranks -> [Layers -> GradSet]]
    /\ grads \in [Ranks -> [Layers -> GradSet]]
    /\ served \in [Ranks -> [Layers -> GradSet]]
    /\ \A r \in Ranks : \A i \in Layers : slab[r][i].cyc <= cycle /\ grads[r][i].cyc <= cycle

\* The gradients of this cycle wait in the stream from the highest layer down,
\* behind those of a cycle that was given up; what is not waiting is written.
QueueInv(r) ==
    /\ \A m \in 1 .. Len(compute[r]) :
          IsGrad(compute[r][m]) =>
             /\ Current(compute[r][m]) =>
                   /\ Done(r, compute[r][m].arg)
                   /\ \A n \in 1 .. m - 1 :
                         Current(compute[r][n]) =>
                            compute[r][m].arg < compute[r][n].arg
             /\ ~Current(compute[r][m]) =>
                   \A n \in 1 .. m - 1 : ~Current(compute[r][n])
    /\ \A i \in Layers :
          Dest(r)[i].cyc = cycle =>
             /\ Done(r, i)
             /\ \A m \in 1 .. Len(compute[r]) :
                   IsGrad(compute[r][m]) =>
                      Current(compute[r][m]) /\ compute[r][m].arg < i
    /\ \A i \in Layers :
          Done(r, i) => \/ Dest(r)[i].cyc = cycle
                        \/ \E m \in 1 .. Len(compute[r]) :
                              Current(compute[r][m]) /\ compute[r][m].arg = i

\* A collective of a cycle that was given up, and a reduce of group i.
Stale(e) == e.call[1] < cycle
Reduces(e, i) == e.call[1] = cycle /\ e.call[2] = "bucket" /\ e.call[3] = i

\* Stream s gets to operation m only when collective k has run.
Behind(s, m, k) ==
    \E n \in 1 .. m - 1 : s[n].op = "await" /\ reduced + k < s[n].arg

\* A gradient is enqueued behind whatever an earlier cycle left of collectives.
BarrierInv(r) ==
    \A k \in 1 .. Len(nccl[r]) :
       Stale(nccl[r][k]) =>
          /\ \A i \in Layers : slab[r][i].cyc # cycle
          /\ \A m \in 1 .. Len(compute[r]) : Current(compute[r][m]) => Behind(compute[r], m, k)
          /\ host_pc[r] = "grads" => Behind(compute[r], Len(compute[r]) + 1, k)

\* A reduce is submitted once, when its group is in, runs after its gradients
\* are written, and the queue's last submission is no earlier.
BucketInv(r) ==
    \A k \in 1 .. Len(nccl[r]) : \A i \in Layers :
       Reduces(nccl[r][k], i) =>
          /\ GroupDone(i) /\ Done(r, i)
          /\ \A m \in 1 .. Len(compute[r]) :
                Current(compute[r][m]) /\ i <= compute[r][m].arg =>
                   ran[r] + m <= nccl[r][k].after
          /\ \A l \in 1 .. k - 1 : \A j \in Layers : Reduces(nccl[r][l], j) => i < j
          /\ host_pc[r] \notin {"sync", "answered"} => reduced + k <= pending[r]

\* A group is summed, or every gradient that is in still waits for the reduce.
Summed(r, i) ==
    /\ Done(r, i) /\ \A j \in Group(i) : slab[r][j] = FinalGrad
    /\ \A k \in 1 .. Len(nccl[r]) : ~Reduces(nccl[r][k], i)

Waits(r, i) ==
    /\ \A j \in Group(i) : slab[r][j].cyc = cycle => slab[r][j] = OneGrad(r)
    /\ Done(r, i) => \E k \in 1 .. Len(nccl[r]) : Reduces(nccl[r][k], i)

GroupInv(r) ==
    \A i \in Layers : GroupDone(i) => Summed(r, i) \/ Waits(r, i)

\* One rank alone writes its gradients as they are.
AloneInv(r) == \A i \in Layers : grads[r][i].cyc = cycle => grads[r][i] = OneGrad(r)

\* The end of a cycle: the masters are collected when every reduce and every
\* stash has run, and published last.
Publishes(r) ==
    /\ compute[r] # <<>> /\ compute[r][Len(compute[r])].op = "publish"
    /\ \A m \in 1 .. Len(compute[r]) - 1 : compute[r][m].op # "publish"

CollectsAt(r, c) ==
    /\ compute[r][c].op = "collect"
    /\ \A m \in 1 .. Len(compute[r]) :
          /\ Current(compute[r][m]) => m < c
          /\ compute[r][m].op = "collect" => m = c
    /\ \A k \in 1 .. Len(nccl[r]) : \A i \in Layers :
          Reduces(nccl[r][k], i) =>
             \E n \in 1 .. c - 1 :
                compute[r][n].op = "await" /\ reduced + k <= compute[r][n].arg

Collects(r) == \E c \in 1 .. Len(compute[r]) : CollectsAt(r, c)

Collected(r) ==
    /\ \A m \in 1 .. Len(compute[r]) : compute[r][m].op # "collect"
    /\ Tp => Final(grads[r])
    /\ ~Tp => \A m \in 1 .. Len(compute[r]) :
                 Current(compute[r][m]) => m < Len(compute[r])

Published(r) == compute[r] = <<>> /\ Final(served[r])

SyncInv(r) ==
    /\ host_pc[r] # "sync" => \A m \in 1 .. Len(compute[r]) : ~Ends(compute[r][m])
    /\ host_pc[r] = "sync" => \/ Publishes(r) /\ Tp /\ Collects(r)
                              \/ Publishes(r) /\ Collected(r)
                              \/ Published(r)
    /\ host_pc[r] = "answered" => Published(r)

TpInv(r) == BarrierInv(r) /\ BucketInv(r) /\ GroupInv(r)

RankInv(r) ==
    /\ QueueInv(r) /\ SyncInv(r)
    /\ Tp => TpInv(r)
    /\ ~Tp => AloneInv(r)

TrainInv ==
    /\ TrainType
    /\ cycle = 0 => \A r \in Ranks : /\ host_pc[r] = "answered"
                                     /\ compute[r] = <<>> /\ nccl[r] = <<>>
    /\ cycle > 0 => \A r \in Ranks : RankInv(r)

-----------------------------------------------------------------------------
\* A queue that holds what it held, and something behind it.
Grown(s, t) ==
    /\ Len(s) \in Nat /\ Len(t) \in Nat /\ Len(s) <= Len(t)
    /\ \A m \in 1 .. Len(s) : t[m] = s[m]

\* Rank r is where it was.
SameRank(r) ==
    /\ cfg' = cfg /\ cycle' = cycle /\ reduced' = reduced
    /\ host_pc'[r] = host_pc[r] /\ layer'[r] = layer[r]
    /\ compute'[r] = compute[r] /\ ran'[r] = ran[r]
    /\ nccl'[r] = nccl[r] /\ pending'[r] = pending[r]
    /\ slab'[r] = slab[r] /\ grads'[r] = grads[r] /\ served'[r] = served[r]

\* What other ranks enqueue and run is nothing to it.
LEMMA SameRankKeeps ==
    ASSUME NEW r, SameRank(r), RankInv(r)
    PROVE  RankInv(r)'
  <1> USE DEF SameRank
  <1>1. /\ Ranks' = Ranks /\ (Tp' <=> Tp) /\ FinalGrad' = FinalGrad
        /\ OneGrad(r)' = OneGrad(r) /\ Dest(r)' = Dest(r)
        /\ \A i : Done(r, i)' <=> Done(r, i)
        /\ \A o : Current(o)' <=> Current(o)
        /\ \A e : Stale(e)' <=> Stale(e)
        /\ \A e, i : Reduces(e, i)' <=> Reduces(e, i)
    BY DEF Ranks, Tp, FinalGrad, OneGrad, Dest, Done, Current, Stale, Reduces
  <1>2. QueueInv(r)'
    BY <1>1 DEF RankInv, QueueInv
  <1>3. SyncInv(r)'
    <2>1. Publishes(r)' <=> Publishes(r)
      BY DEF Publishes
    <2>2. Collects(r)' <=> Collects(r)
      <3>1. ASSUME NEW c PROVE CollectsAt(r, c)' <=> CollectsAt(r, c)
        BY <1>1 DEF CollectsAt
      <3> QED BY <3>1 DEF Collects
    <2>3. Collected(r)' <=> Collected(r)
      BY <1>1 DEF Collected, Final
    <2>4. Published(r)' <=> Published(r)
      BY <1>1 DEF Published, Final
    <2> QED BY <1>1, <2>1, <2>2, <2>3, <2>4 DEF RankInv, SyncInv
  <1>4. ASSUME Tp PROVE TpInv(r)'
    <2>1. BarrierInv(r) /\ BucketInv(r) /\ GroupInv(r)
      BY <1>4 DEF RankInv, TpInv
    <2>2. \A s, m, k : Behind(s, m, k)' <=> Behind(s, m, k)
      BY DEF Behind
    <2>3. BarrierInv(r)'
      BY <1>1, <2>1, <2>2 DEF BarrierInv
    <2>4. BucketInv(r)'
      BY <1>1, <2>1 DEF BucketInv
    <2>5. GroupInv(r)'
      BY <1>1, <2>1 DEF GroupInv, Summed, Waits
    <2> QED BY <2>3, <2>4, <2>5 DEF TpInv
  <1>5. ~Tp => AloneInv(r)'
    BY <1>1 DEF RankInv, AloneInv
  <1> QED BY <1>1, <1>2, <1>3, <1>4, <1>5 DEF RankInv

\* Rank r goes on, enqueues no gradient, and submits no bucket.
Goes(r) ==
    /\ cfg' = cfg /\ cycle' = cycle /\ reduced' = reduced
    /\ \/ host_pc'[r] \in {"sync", "answered"}
       \/ host_pc[r] \notin {"sync", "answered"} /\ pending'[r] = pending[r]
    /\ \A i : Done(r, i)' <=> Done(r, i)
    /\ Grown(compute[r], compute'[r]) /\ Grown(nccl[r], nccl'[r])
    /\ \A m \in 1 .. Len(compute'[r]) :
          ~(m <= Len(compute[r])) => ~IsGrad(compute'[r][m])
    /\ \A k \in 1 .. Len(nccl'[r]) :
          ~(k <= Len(nccl[r])) => /\ nccl'[r][k].call[1] = cycle
                                  /\ nccl'[r][k].call[2] # "bucket"
    /\ ran'[r] = ran[r]
    /\ slab'[r] = slab[r] /\ grads'[r] = grads[r] /\ served'[r] = served[r]
    /\ host_pc'[r] = "grads" /\ host_pc[r] # "grads" /\ Tp =>
          \E n \in 1 .. Len(compute'[r]) :
             /\ compute'[r][n].op = "await" /\ compute'[r][n].arg \in Nat
             /\ reduced + Len(nccl[r]) < compute'[r][n].arg

\* What it goes past keeps its gradients and its collectives in order.
LEMMA GoesKeeps ==
    ASSUME NEW r, Goes(r), RankInv(r), cycle \in Nat, reduced \in Nat
    PROVE  /\ QueueInv(r)' /\ Ranks' = Ranks /\ (Tp' <=> Tp)
           /\ Tp => TpInv(r)'
           /\ ~Tp => AloneInv(r)'
  <1> DEFINE c == compute[r]
             d == compute'[r]
             x == nccl[r]
             y == nccl'[r]
  <1>1. /\ Ranks' = Ranks /\ (Tp' <=> Tp) /\ FinalGrad' = FinalGrad
        /\ OneGrad(r)' = OneGrad(r) /\ Dest(r)' = Dest(r)
        /\ \A o : Current(o)' <=> Current(o)
        /\ \A e : Stale(e)' <=> Stale(e)
        /\ \A e, i : Reduces(e, i)' <=> Reduces(e, i)
        /\ \A i : Done(r, i)' <=> Done(r, i)
    BY DEF Ranks, Tp, FinalGrad, OneGrad, Dest, Current, Stale, Reduces, Goes
  <1>2. /\ Grown(c, d)
        /\ \A m \in 1 .. Len(d) : ~(m <= Len(c)) => ~IsGrad(d[m])
    BY DEF Goes
  <1>3. /\ Grown(x, y)
        /\ \A k \in 1 .. Len(y) : ~(k <= Len(x)) => y[k].call[1] = cycle
                                                    /\ y[k].call[2] # "bucket"
    BY DEF Goes
  <1>4. \A m \in 1 .. Len(d) : IsGrad(d[m]) => m \in 1 .. Len(c) /\ d[m] = c[m]
    BY <1>2 DEF Grown
  <1>5. \A k \in 1 .. Len(y) : Stale(y[k]) \/ (\E i : Reduces(y[k], i)) =>
            k \in 1 .. Len(x) /\ y[k] = x[k]
    BY <1>3 DEF Grown, Stale, Reduces
  <1>6. \A m \in 1 .. Len(c) : m \in 1 .. Len(d) /\ d[m] = c[m]
    BY <1>2 DEF Grown
  <1>7. \A k \in 1 .. Len(x) : k \in 1 .. Len(y) /\ y[k] = x[k]
    BY <1>3 DEF Grown
  <1>8. Len(c) \in Nat /\ Len(d) \in Nat /\ Len(x) \in Nat /\ Len(y) \in Nat
    BY <1>2, <1>3 DEF Grown
  <1>9. QueueInv(r)'
    <2>1. QueueInv(r)
      BY DEF RankInv
    <2> HIDE DEF c, d, x, y
    <2>2. \A m \in 1 .. Len(c) : \A n \in 1 .. m - 1 : n \in 1 .. Len(c) /\ d[n] = c[n]
      BY <1>6, <1>8
    <2>3. ASSUME NEW m \in 1 .. Len(d), IsGrad(d[m])
          PROVE  /\ Current(d[m]) =>
                      /\ Done(r, d[m].arg)
                      /\ \A n \in 1 .. m - 1 : Current(d[n]) => d[m].arg < d[n].arg
                 /\ ~Current(d[m]) => \A n \in 1 .. m - 1 : ~Current(d[n])
      <3>1. m \in 1 .. Len(c) /\ d[m] = c[m]
        BY <1>4, <2>3
      <3>2. /\ Current(c[m]) =>
                  /\ Done(r, c[m].arg)
                  /\ \A n \in 1 .. m - 1 : Current(c[n]) => c[m].arg < c[n].arg
            /\ ~Current(c[m]) => \A n \in 1 .. m - 1 : ~Current(c[n])
        BY <2>1, <2>3, <3>1 DEF QueueInv, c
      <3> QED BY <2>2, <3>1, <3>2
    <2>4. ASSUME NEW i \in Layers, Dest(r)[i].cyc = cycle
          PROVE  /\ Done(r, i)
                 /\ \A m \in 1 .. Len(d) : IsGrad(d[m]) => Current(d[m]) /\ d[m].arg < i
      BY <1>4, <2>1, <2>4 DEF QueueInv, c
    <2>5. ASSUME NEW i \in Layers, Done(r, i)
          PROVE  \/ Dest(r)[i].cyc = cycle
                 \/ \E m \in 1 .. Len(d) : Current(d[m]) /\ d[m].arg = i
      BY <1>6, <2>1, <2>5 DEF QueueInv, c
    <2>6. cycle' = cycle
      BY DEF Goes
    <2> QED BY <1>1, <2>3, <2>4, <2>5, <2>6 DEF QueueInv, d
  <1>10. ASSUME Tp PROVE TpInv(r)'
    <2>1. BarrierInv(r) /\ BucketInv(r) /\ GroupInv(r)
      BY <1>10 DEF RankInv, TpInv
    <2>2. /\ reduced' = reduced /\ ran'[r] = ran[r]
          /\ slab'[r] = slab[r] /\ cycle' = cycle
          /\ \/ host_pc'[r] \in {"sync", "answered"}
             \/ host_pc[r] \notin {"sync", "answered"} /\ pending'[r] = pending[r]
      BY DEF Goes
    <2>3. ASSUME NEW m \in 1 .. Len(c) + 1, NEW k \in 1 .. Len(x), Behind(c, m, k),
                 NEW w \in Nat, m <= w
          PROVE  Behind(d, w, k)
      <3>1. PICK n \in 1 .. m - 1 : c[n].op = "await" /\ reduced + k < c[n].arg
        BY <2>3 DEF Behind
      <3> HIDE DEF c, d, x, y
      <3>2. n \in 1 .. w - 1 /\ d[n] = c[n]
        BY <1>6, <1>8, <2>3
      <3> QED BY <3>1, <3>2 DEF Behind
    <2>4. BarrierInv(r)'
      <3> SUFFICES ASSUME NEW k \in 1 .. Len(y), Stale(y[k])
                   PROVE  /\ \A i \in Layers : slab[r][i].cyc # cycle
                          /\ \A m \in 1 .. Len(d) : Current(d[m]) => Behind(d, m, k)
                          /\ host_pc'[r] = "grads" => Behind(d, Len(d) + 1, k)
        BY <1>1, <2>2 DEF BarrierInv, Behind
      <3>1. k \in 1 .. Len(x) /\ Stale(x[k])
        BY <1>5
      <3>2. /\ \A i \in Layers : slab[r][i].cyc # cycle
            /\ \A m \in 1 .. Len(c) : Current(c[m]) => Behind(c, m, k)
            /\ host_pc[r] = "grads" => Behind(c, Len(c) + 1, k)
        BY <2>1, <3>1 DEF BarrierInv
      <3>3. ASSUME NEW m \in 1 .. Len(d), Current(d[m]) PROVE Behind(d, m, k)
        <4>1. m \in 1 .. Len(c) /\ d[m] = c[m]
          BY <1>4, <3>3 DEF Current
        <4>2. Behind(c, m, k) /\ m \in 1 .. Len(c) + 1 /\ m \in Nat /\ m <= m
          BY <1>8, <3>2, <3>3, <4>1
        <4> HIDE DEF c, d, x, y
        <4> QED BY <2>3, <3>1, <4>2
      <3>4. ASSUME host_pc'[r] = "grads" PROVE Behind(d, Len(d) + 1, k)
        <4>1. CASE host_pc[r] = "grads"
          <5>1. Behind(c, Len(c) + 1, k)
            BY <3>2, <4>1
          <5>2. /\ Len(c) + 1 \in 1 .. Len(c) + 1 /\ Len(d) + 1 \in Nat
                /\ Len(c) + 1 <= Len(d) + 1
            BY <1>2, <1>8 DEF Grown
          <5> HIDE DEF c, d, x, y
          <5> QED BY <2>3, <3>1, <5>1, <5>2
        <4>2. CASE host_pc[r] # "grads"
          <5>1. PICK n \in 1 .. Len(d) : /\ d[n].op = "await" /\ d[n].arg \in Nat
                                         /\ reduced + Len(x) < d[n].arg
            BY <1>10, <3>4, <4>2 DEF Goes
          <5> HIDE DEF c, x, y
          <5>2. n \in 1 .. (Len(d) + 1) - 1 /\ reduced + k < d[n].arg
            BY <1>8, <3>1, <5>1, SMTT(30)
          <5> QED BY <5>1, <5>2 DEF Behind
        <4> QED BY <4>1, <4>2
      <3> QED BY <3>2, <3>3, <3>4
    <2>5. BucketInv(r)'
      <3> SUFFICES ASSUME NEW k \in 1 .. Len(y), NEW i \in Layers, Reduces(y[k], i)
                   PROVE  /\ GroupDone(i) /\ Done(r, i)
                          /\ \A m \in 1 .. Len(d) :
                                Current(d[m]) /\ i <= d[m].arg => ran[r] + m <= y[k].after
                          /\ \A l \in 1 .. k - 1 : \A j \in Layers :
                                Reduces(y[l], j) => i < j
                          /\ host_pc'[r] \notin {"sync", "answered"} =>
                                reduced + k <= pending'[r]
        BY <1>1, <2>2 DEF BucketInv
      <3>1. k \in 1 .. Len(x) /\ y[k] = x[k]
        BY <1>5
      <3>2. \A l \in 1 .. k - 1 : l \in 1 .. Len(x) /\ y[l] = x[l]
        <4> HIDE DEF c, d, x, y
        <4> QED BY <1>7, <1>8, <3>1
      <3>3. /\ GroupDone(i) /\ Done(r, i)
            /\ \A m \in 1 .. Len(c) :
                  Current(c[m]) /\ i <= c[m].arg => ran[r] + m <= x[k].after
            /\ \A l \in 1 .. k - 1 : \A j \in Layers : Reduces(x[l], j) => i < j
            /\ host_pc'[r] \notin {"sync", "answered"} => reduced + k <= pending'[r]
        BY <2>1, <2>2, <3>1 DEF BucketInv
      <3>4. \A m \in 1 .. Len(d) : Current(d[m]) => m \in 1 .. Len(c) /\ d[m] = c[m]
        BY <1>4 DEF Current
      <3> HIDE DEF c, d, x, y
      <3> QED BY <3>1, <3>2, <3>3, <3>4
    <2>6. GroupInv(r)'
      <3> SUFFICES ASSUME NEW i \in Layers, GroupDone(i)
                   PROVE  Summed(r, i)' \/ Waits(r, i)'
        BY DEF GroupInv
      <3>1. CASE Summed(r, i)
        BY <1>1, <1>5, <2>2, <3>1 DEF Summed
      <3>2. CASE Waits(r, i)
        BY <1>1, <1>7, <2>2, <3>2 DEF Waits
      <3> QED BY <2>1, <3>1, <3>2 DEF GroupInv
    <2> QED BY <2>4, <2>5, <2>6 DEF TpInv
  <1>11. ~Tp => AloneInv(r)'
    BY <1>1 DEF RankInv, AloneInv, Goes
  <1> QED BY <1>1, <1>9, <1>10, <1>11

\* It goes on before its cycle's end.
Quiet(r) ==
    /\ Goes(r)
    /\ host_pc[r] \notin {"sync", "answered"}
    /\ host_pc'[r] \notin {"sync", "answered"}
    /\ \A m \in 1 .. Len(compute'[r]) :
          ~(m <= Len(compute[r])) => ~Ends(compute'[r][m])

\* Before its end a cycle has nothing to collect or publish.
LEMMA QuietKeeps ==
    ASSUME NEW r, Quiet(r), RankInv(r), cycle \in Nat, reduced \in Nat
    PROVE  RankInv(r)'
  <1>1. /\ Grown(compute[r], compute'[r])
        /\ \A m \in 1 .. Len(compute'[r]) :
              ~(m <= Len(compute[r])) => ~Ends(compute'[r][m])
    BY DEF Quiet, Goes
  <1>2. \A m \in 1 .. Len(compute[r]) : ~Ends(compute[r][m])
    BY DEF RankInv, SyncInv, Quiet
  <1>3. \A m \in 1 .. Len(compute'[r]) : ~Ends(compute'[r][m])
    BY <1>1, <1>2 DEF Grown
  <1>4. SyncInv(r)'
    BY <1>3 DEF SyncInv, Quiet
  <1> QED BY <1>4, GoesKeeps DEF RankInv, Quiet

-----------------------------------------------------------------------------
(***************************************************************************)
(* What a host enqueues.                                                   *)
(***************************************************************************)
\* a is s with t behind it.
Joined(s, t, a) ==
    /\ IsSeq(a) /\ Len(a) = Len(s) + Len(t) /\ Grown(s, a)
    /\ \A m \in 1 .. Len(t) : a[Len(s) + m] = t[m]
    /\ \A m \in 1 .. Len(a) : ~(m <= Len(s)) =>
          m - Len(s) \in 1 .. Len(t) /\ a[m] = t[m - Len(s)]

\* Whatever it holds, it is a queue.
LEMMA SeqIsSeq ==
    ASSUME NEW T, NEW a \in Seq(T)
    PROVE  IsSeq(a)
  BY DEF IsSeq

\* What is enqueued comes last, in its order, and moves no other.
LEMMA JoinFacts ==
    ASSUME NEW s, IsSeq(s), NEW t, IsSeq(t), NEW a, a = s \o t
    PROVE  Joined(s, t, a)
  <1> DEFINE T == {s[i] : i \in DOMAIN s} \union {t[i] : i \in DOMAIN t}
  <1>1. s \in Seq(T) /\ t \in Seq(T)
    BY DEF IsSeq
  <1>2. /\ a \in Seq(T) /\ Len(a) = Len(s) + Len(t)
        /\ \A m \in 1 .. Len(s) : a[m] = s[m]
        /\ \A m \in 1 .. Len(t) : a[Len(s) + m] = t[m]
    BY <1>1, ConcatProperties
  <1>3. Len(s) \in Nat /\ Len(t) \in Nat
    BY <1>1
  <1>4. ASSUME NEW m \in 1 .. Len(a), ~(m <= Len(s))
        PROVE  m - Len(s) \in 1 .. Len(t) /\ a[m] = t[m - Len(s)]
    <2>1. m - Len(s) \in 1 .. Len(t) /\ Len(s) + (m - Len(s)) = m
      BY <1>2, <1>3, <1>4
    <2> QED BY <1>2, <2>1
  <1>5. IsSeq(a)
    <2>1. a \in Seq(T)
      BY <1>2
    <2> HIDE DEF T
    <2> QED BY <2>1, SeqIsSeq
  <1>6. Grown(s, a)
    <2> HIDE DEF T
    <2> QED BY <1>2, <1>3 DEF Grown
  <1> QED BY <1>2, <1>4, <1>5, <1>6 DEF Joined

\* Rank p enqueues ops on its stream and calls on NCCL's; the GPUs stand still.
Enqueues(p, ops, calls) ==
    /\ cfg' = cfg /\ cycle' = cycle /\ UNCHANGED gpuVars
    /\ compute' = [compute EXCEPT ![p] = @ \o ops] /\ IsSeq(ops)
    /\ nccl' = [nccl EXCEPT ![p] = @ \o calls] /\ IsSeq(calls)

\* Both queues of p grow by what it enqueues, and no other queue does.
LEMMA EnqueueFacts ==
    ASSUME TrainType, NEW p \in Ranks, NEW ops, NEW calls, Enqueues(p, ops, calls)
    PROVE  /\ Grown(compute[p], compute'[p]) /\ Grown(nccl[p], nccl'[p])
           /\ IsSeq(compute'[p]) /\ IsSeq(nccl'[p])
           /\ Len(compute'[p]) = Len(compute[p]) + Len(ops)
           /\ Len(nccl'[p]) = Len(nccl[p]) + Len(calls)
           /\ \A m \in 1 .. Len(ops) : compute'[p][Len(compute[p]) + m] = ops[m]
           /\ \A k \in 1 .. Len(calls) : nccl'[p][Len(nccl[p]) + k] = calls[k]
           /\ \A m \in 1 .. Len(compute'[p]) : ~(m <= Len(compute[p])) =>
                 /\ m - Len(compute[p]) \in 1 .. Len(ops)
                 /\ compute'[p][m] = ops[m - Len(compute[p])]
           /\ \A k \in 1 .. Len(nccl'[p]) : ~(k <= Len(nccl[p])) =>
                 /\ k - Len(nccl[p]) \in 1 .. Len(calls)
                 /\ nccl'[p][k] = calls[k - Len(nccl[p])]
           /\ \A r \in Ranks \ {p} : compute'[r] = compute[r] /\ nccl'[r] = nccl[r]
           /\ compute' = [r \in Ranks |-> compute'[r]]
           /\ nccl' = [r \in Ranks |-> nccl'[r]]
  <1>1. IsSeq(compute[p]) /\ IsSeq(nccl[p]) /\ IsSeq(ops) /\ IsSeq(calls)
    BY DEF TrainType, Enqueues
  <1>2. /\ compute'[p] = compute[p] \o ops /\ nccl'[p] = nccl[p] \o calls
        /\ \A r \in Ranks \ {p} : compute'[r] = compute[r] /\ nccl'[r] = nccl[r]
        /\ compute' = [r \in Ranks |-> compute'[r]]
        /\ nccl' = [r \in Ranks |-> nccl'[r]]
    BY DEF TrainType, Enqueues
  <1>3. /\ Grown(compute[p], compute'[p]) /\ IsSeq(compute'[p])
        /\ Len(compute'[p]) = Len(compute[p]) + Len(ops)
        /\ \A m \in 1 .. Len(ops) : compute'[p][Len(compute[p]) + m] = ops[m]
        /\ \A m \in 1 .. Len(compute'[p]) : ~(m <= Len(compute[p])) =>
              /\ m - Len(compute[p]) \in 1 .. Len(ops)
              /\ compute'[p][m] = ops[m - Len(compute[p])]
    <2>1. Joined(compute[p], ops, compute'[p])
      BY <1>1, <1>2, JoinFacts
    <2> QED BY <2>1 DEF Joined
  <1>4. /\ Grown(nccl[p], nccl'[p]) /\ IsSeq(nccl'[p])
        /\ Len(nccl'[p]) = Len(nccl[p]) + Len(calls)
        /\ \A k \in 1 .. Len(calls) : nccl'[p][Len(nccl[p]) + k] = calls[k]
        /\ \A k \in 1 .. Len(nccl'[p]) : ~(k <= Len(nccl[p])) =>
              /\ k - Len(nccl[p]) \in 1 .. Len(calls)
              /\ nccl'[p][k] = calls[k - Len(nccl[p])]
    <2>1. Joined(nccl[p], calls, nccl'[p])
      BY <1>1, <1>2, JoinFacts
    <2> QED BY <2>1 DEF Joined
  <1> QED BY <1>2, <1>3, <1>4

\* What it enqueues is of the type of what a queue holds.
LEMMA EnqueueTyped ==
    ASSUME TrainType, NEW p \in Ranks, NEW ops, NEW calls, Enqueues(p, ops, calls),
           \A m \in 1 .. Len(ops) : OpType(ops[m]),
           \A k \in 1 .. Len(calls) : CallType(calls[k]),
           host_pc' \in [Ranks -> HostPc], layer' \in [Ranks -> Layers],
           pending' \in [Ranks -> Nat]
    PROVE  TrainType'
  <1>1. /\ cfg' = cfg /\ cycle' = cycle /\ UNCHANGED <<ran, reduced, slab, grads, served>>
        /\ Ranks' = Ranks /\ GradSet' = GradSet /\ (Tp' <=> Tp)
        /\ \A o : OpType(o)' <=> OpType(o)
        /\ \A e : CallType(e)' <=> CallType(e)
    BY DEF Enqueues, gpuVars, Ranks, GradSet, Tp, OpType, CallType
  <1>2. ASSUME NEW r \in Ranks
        PROVE  /\ IsSeq(compute'[r]) /\ IsSeq(nccl'[r])
               /\ \A m \in 1 .. Len(compute'[r]) : OpType(compute'[r][m])
               /\ \A k \in 1 .. Len(nccl'[r]) : CallType(nccl'[r][k])
    <2>1. CASE r = p
      <3>1. \A m \in 1 .. Len(compute'[p]) :
               \/ m \in 1 .. Len(compute[p]) /\ compute'[p][m] = compute[p][m]
               \/ /\ m - Len(compute[p]) \in 1 .. Len(ops)
                  /\ compute'[p][m] = ops[m - Len(compute[p])]
        <4>1. /\ Grown(compute[p], compute'[p])
              /\ \A m \in 1 .. Len(compute'[p]) : ~(m <= Len(compute[p])) =>
                    /\ m - Len(compute[p]) \in 1 .. Len(ops)
                    /\ compute'[p][m] = ops[m - Len(compute[p])]
          BY EnqueueFacts
        <4> TAKE m \in 1 .. Len(compute'[p])
        <4>2. CASE m <= Len(compute[p])
          <5>1. m \in 1 .. Len(compute[p])
            BY <4>1, <4>2 DEF Grown
          <5> QED BY <4>1, <5>1 DEF Grown
        <4>3. CASE ~(m <= Len(compute[p]))
          BY <4>1, <4>3
        <4> QED BY <4>2, <4>3
      <3>2. \A k \in 1 .. Len(nccl'[p]) :
               \/ k \in 1 .. Len(nccl[p]) /\ nccl'[p][k] = nccl[p][k]
               \/ /\ k - Len(nccl[p]) \in 1 .. Len(calls)
                  /\ nccl'[p][k] = calls[k - Len(nccl[p])]
        <4>1. /\ Grown(nccl[p], nccl'[p])
              /\ \A k \in 1 .. Len(nccl'[p]) : ~(k <= Len(nccl[p])) =>
                    /\ k - Len(nccl[p]) \in 1 .. Len(calls)
                    /\ nccl'[p][k] = calls[k - Len(nccl[p])]
          BY EnqueueFacts
        <4> TAKE k \in 1 .. Len(nccl'[p])
        <4>2. CASE k <= Len(nccl[p])
          <5>1. k \in 1 .. Len(nccl[p])
            BY <4>1, <4>2 DEF Grown
          <5> QED BY <4>1, <5>1 DEF Grown
        <4>3. CASE ~(k <= Len(nccl[p]))
          BY <4>1, <4>3
        <4> QED BY <4>2, <4>3
      <3>3. /\ \A m \in 1 .. Len(compute[p]) : OpType(compute[p][m])
            /\ \A k \in 1 .. Len(nccl[p]) : CallType(nccl[p][k])
        BY DEF TrainType
      <3>4. IsSeq(compute'[p]) /\ IsSeq(nccl'[p])
        BY EnqueueFacts
      <3> QED BY <2>1, <3>1, <3>2, <3>3, <3>4
    <2>2. CASE r # p
      <3>1. compute'[r] = compute[r] /\ nccl'[r] = nccl[r]
        BY <2>2, EnqueueFacts
      <3> QED BY <3>1 DEF TrainType
    <2> QED BY <2>1, <2>2
  <1>3. compute' = [r \in Ranks |-> compute'[r]] /\ nccl' = [r \in Ranks |-> nccl'[r]]
    BY EnqueueFacts
  <1>4. /\ cfg \in Configs /\ cycle \in Nat
        /\ ran \in [Ranks -> Nat] /\ reduced \in Nat
        /\ slab \in [Ranks -> [Layers -> GradSet]]
        /\ grads \in [Ranks -> [Layers -> GradSet]]
        /\ served \in [Ranks -> [Layers -> GradSet]]
        /\ \A r \in Ranks : \A i \in Layers :
              slab[r][i].cyc <= cycle /\ grads[r][i].cyc <= cycle
    BY DEF TrainType
  <1> QED BY <1>1, <1>2, <1>3, <1>4 DEF TrainType

\* The other ranks are where they were.
LEMMA EnqueueOthers ==
    ASSUME TrainType, NEW p \in Ranks, NEW ops, NEW calls, Enqueues(p, ops, calls),
           \A r \in Ranks \ {p} : /\ host_pc'[r] = host_pc[r] /\ layer'[r] = layer[r]
                                  /\ pending'[r] = pending[r] /\ RankInv(r)
    PROVE  \A r \in Ranks \ {p} : RankInv(r)'
  <1> SUFFICES ASSUME NEW r \in Ranks \ {p} PROVE RankInv(r)'
    OBVIOUS
  <1>1. compute'[r] = compute[r] /\ nccl'[r] = nccl[r]
    BY EnqueueFacts
  <1>2. SameRank(r)
    BY <1>1 DEF SameRank, Enqueues, gpuVars
  <1> QED BY <1>2, SameRankKeeps

-----------------------------------------------------------------------------
(***************************************************************************)
(* Up to the gradients of a layer.                                         *)
(***************************************************************************)
\* p enqueues no gradient, and calls none but this cycle's inline reduces.
QuietlyEnqueues(p, ops, calls) ==
    /\ Enqueues(p, ops, calls)
    /\ \A m \in 1 .. Len(ops) : OpType(ops[m]) /\ ~IsGrad(ops[m]) /\ ~Ends(ops[m])
    /\ \A k \in 1 .. Len(calls) : /\ CallType(calls[k]) /\ calls[k].call[1] = cycle
                                  /\ calls[k].call[2] # "bucket"

\* The stream of p gets to no further than the collective it has just called.
Waiting(p, ops) ==
    \E n \in 1 .. Len(ops) : /\ ops[n].op = "await" /\ ops[n].arg \in Nat
                             /\ reduced + Len(nccl[p]) < ops[n].arg

\* Such a step keeps the invariant on every rank.
LEMMA QuietHost ==
    ASSUME TrainInv, cycle > 0, NEW p \in Ranks, NEW pc \in HostPc,
           NEW ops, NEW calls, QuietlyEnqueues(p, ops, calls),
           host_pc' = [host_pc EXCEPT ![p] = pc], layer' = layer, pending' = pending,
           pc \notin HostEnds, host_pc[p] \notin HostEnds,
           pc = "grads" /\ Tp => Waiting(p, ops)
    PROVE  TrainInv'
  <1>1. /\ TrainType /\ \A r \in Ranks : RankInv(r)
        /\ Enqueues(p, ops, calls)
        /\ cfg' = cfg /\ cycle' = cycle /\ reduced' = reduced
        /\ Ranks' = Ranks /\ (Tp' <=> Tp)
    BY DEF TrainInv, QuietlyEnqueues, Enqueues, gpuVars, Ranks, Tp
  <1>2. /\ host_pc' \in [Ranks -> HostPc] /\ layer' \in [Ranks -> Layers]
        /\ pending' \in [Ranks -> Nat]
        /\ host_pc'[p] = pc
        /\ \A r \in Ranks \ {p} : host_pc'[r] = host_pc[r]
    BY <1>1 DEF TrainType
  <1>3. TrainType'
    BY <1>1, <1>2, EnqueueTyped DEF QuietlyEnqueues
  <1>4. \A r \in Ranks \ {p} : RankInv(r)'
    BY <1>1, <1>2, EnqueueOthers
  <1>5. RankInv(p)'
    <2>1. /\ Grown(compute[p], compute'[p]) /\ Grown(nccl[p], nccl'[p])
          /\ Len(compute'[p]) = Len(compute[p]) + Len(ops)
          /\ \A m \in 1 .. Len(ops) : compute'[p][Len(compute[p]) + m] = ops[m]
          /\ \A m \in 1 .. Len(compute'[p]) : ~(m <= Len(compute[p])) =>
                /\ m - Len(compute[p]) \in 1 .. Len(ops)
                /\ compute'[p][m] = ops[m - Len(compute[p])]
          /\ \A k \in 1 .. Len(nccl'[p]) : ~(k <= Len(nccl[p])) =>
                /\ k - Len(nccl[p]) \in 1 .. Len(calls)
                /\ nccl'[p][k] = calls[k - Len(nccl[p])]
      BY <1>1, EnqueueFacts
    <2>2. /\ \A m \in 1 .. Len(compute'[p]) : ~(m <= Len(compute[p])) =>
                ~IsGrad(compute'[p][m]) /\ ~Ends(compute'[p][m])
          /\ \A k \in 1 .. Len(nccl'[p]) : ~(k <= Len(nccl[p])) =>
                /\ nccl'[p][k].call[1] = cycle /\ nccl'[p][k].call[2] # "bucket"
      <3>1. \A m \in 1 .. Len(ops) : ~IsGrad(ops[m]) /\ ~Ends(ops[m])
        BY DEF QuietlyEnqueues
      <3>2. \A k \in 1 .. Len(calls) : calls[k].call[1] = cycle
                                        /\ calls[k].call[2] # "bucket"
        BY DEF QuietlyEnqueues
      <3>3. ASSUME NEW m \in 1 .. Len(compute'[p]), ~(m <= Len(compute[p]))
            PROVE  ~IsGrad(compute'[p][m]) /\ ~Ends(compute'[p][m])
        <4>1. /\ m - Len(compute[p]) \in 1 .. Len(ops)
              /\ compute'[p][m] = ops[m - Len(compute[p])]
          BY <2>1, <3>3
        <4> QED BY <3>1, <4>1
      <3>4. ASSUME NEW k \in 1 .. Len(nccl'[p]), ~(k <= Len(nccl[p]))
            PROVE  nccl'[p][k].call[1] = cycle /\ nccl'[p][k].call[2] # "bucket"
        <4>1. /\ k - Len(nccl[p]) \in 1 .. Len(calls)
              /\ nccl'[p][k] = calls[k - Len(nccl[p])]
          BY <2>1, <3>4
        <4> QED BY <3>2, <4>1
      <3> QED BY <3>3, <3>4
    <2>3. pc = "grads" /\ Tp =>
             \E n \in 1 .. Len(compute'[p]) :
                /\ compute'[p][n].op = "await" /\ compute'[p][n].arg \in Nat
                /\ reduced + Len(nccl[p]) < compute'[p][n].arg
      <3> SUFFICES ASSUME pc = "grads", Tp
                   PROVE  \E n \in 1 .. Len(compute'[p]) :
                             /\ compute'[p][n].op = "await"
                             /\ compute'[p][n].arg \in Nat
                             /\ reduced + Len(nccl[p]) < compute'[p][n].arg
        OBVIOUS
      <3>1. PICK n \in 1 .. Len(ops) : /\ ops[n].op = "await" /\ ops[n].arg \in Nat
                                       /\ reduced + Len(nccl[p]) < ops[n].arg
        BY DEF Waiting
      <3>2. IsSeq(ops) /\ Len(ops) \in Nat /\ Len(compute[p]) \in Nat
        BY <1>1, IsSeqFacts DEF Enqueues, TrainType
      <3>3. Len(compute[p]) + n \in 1 .. Len(compute'[p])
        BY <2>1, <3>2
      <3> QED BY <2>1, <3>1, <3>3
    <2>4. Quiet(p)
      BY <1>1, <1>2, <2>1, <2>2, <2>3 DEF Quiet, Goes, HostEnds, Done, Enqueues, gpuVars
    <2>5. RankInv(p) /\ cycle \in Nat /\ reduced \in Nat
      BY <1>1 DEF TrainType
    <2> QED BY <2>4, <2>5, QuietKeeps
  <1> QED BY <1>1, <1>3, <1>4, <1>5 DEF TrainInv

\* Nothing is enqueued.
LEMMA NothingEnqueued ==
    ASSUME TrainType, NEW p \in Ranks, cfg' = cfg, cycle' = cycle, UNCHANGED gpuVars,
           UNCHANGED <<compute, nccl>>
    PROVE  QuietlyEnqueues(p, <<>>, <<>>)
  <1>1. /\ compute[p] \in Seq({compute[p][i] : i \in DOMAIN compute[p]})
        /\ nccl[p] \in Seq({nccl[p][i] : i \in DOMAIN nccl[p]})
    BY DEF TrainType, IsSeq
  <1>2. compute[p] \o <<>> = compute[p] /\ nccl[p] \o <<>> = nccl[p]
    BY <1>1, ConcatEmptySeq
  <1>3. /\ compute' = [compute EXCEPT ![p] = @ \o <<>>]
        /\ nccl' = [nccl EXCEPT ![p] = @ \o <<>>]
    BY <1>2 DEF TrainType
  <1>4. IsSeq(<<>>) /\ Len(<<>>) = 0
    BY DEF IsSeq
  <1>5. \A m : ~(m \in 1 .. Len(<<>>))
    BY <1>4
  <1> QED BY <1>3, <1>4, <1>5 DEF QuietlyEnqueues, Enqueues

\* An inline collective is called, and awaited.
LEMMA InlineEnqueues ==
    ASSUME TrainType, NEW p \in Ranks, cfg' = cfg, cycle' = cycle, UNCHANGED gpuVars,
           NEW kind, kind # "bucket", NEW i, InlineReduce(p, Call(kind, i))
    PROVE  \E ops, calls : /\ QuietlyEnqueues(p, ops, calls)
                           /\ Tp => Waiting(p, ops)
  <1>1. CASE Tp
    <2> DEFINE o == AwaitOp(Last(p) + 1)
               e == Collective(p, Call(kind, i))
    <2>1. /\ nccl' = [nccl EXCEPT ![p] = Append(@, e)]
          /\ compute' = [compute EXCEPT ![p] = @ \o <<o>>]
      <3>1. o = AwaitOp(Last(p) + 1) /\ e = Collective(p, Call(kind, i))
        OBVIOUS
      <3>2. /\ nccl' = [nccl EXCEPT ![p] = Append(@, Collective(p, Call(kind, i)))]
            /\ Enqueue(p, <<AwaitOp(Last(p) + 1)>>)
        BY <1>1 DEF InlineReduce
      <3> HIDE DEF o, e
      <3> QED BY <3>1, <3>2 DEF Enqueue
    <2>2. nccl[p] \in Seq({nccl[p][j] : j \in DOMAIN nccl[p]} \union {e})
      <3>1. IsSeq(nccl[p])
        BY DEF TrainType
      <3> HIDE DEF e
      <3> QED BY <3>1 DEF IsSeq
    <2>3. Len(nccl[p]) \in Nat /\ Len(compute[p]) \in Nat
      BY IsSeqFacts DEF TrainType
    <2>4. /\ o.op = "await" /\ o.arg = reduced + Len(nccl[p]) + 1
          /\ e.call = <<cycle, kind, i>> /\ e.after = ran[p] + Len(compute[p])
      BY DEF AwaitOp, Last, Collective, Call, Issued
    <2>5. OpType(o) /\ ~IsGrad(o) /\ ~Ends(o)
      BY <2>3, <2>4 DEF OpType, IsGrad, Ends, TrainType
    <2>6. /\ e.call[1] = cycle /\ e.call[2] = kind
      BY <2>4
    <2>7. CallType(e)
      BY <2>3, <2>4, <2>6 DEF CallType, TrainType
    <2> HIDE DEF o, e
    <2>8. Append(nccl[p], e) = nccl[p] \o <<e>>
      BY <2>2, AppendIsConcat
    <2>9. nccl' = [nccl EXCEPT ![p] = @ \o <<e>>]
      BY <2>1, <2>8
    <2>10. IsSeq(<<o>>) /\ IsSeq(<<e>>) /\ Len(<<o>>) = 1 /\ Len(<<e>>) = 1
      BY DEF IsSeq
    <2>11. QuietlyEnqueues(p, <<o>>, <<e>>)
      <3>1. Enqueues(p, <<o>>, <<e>>)
        BY <2>1, <2>9, <2>10 DEF Enqueues
      <3>2. \A m \in 1 .. Len(<<o>>) : <<o>>[m] = o
        BY <2>10
      <3>3. \A k \in 1 .. Len(<<e>>) : <<e>>[k] = e
        BY <2>10
      <3> QED BY <2>5, <2>6, <2>7, <3>1, <3>2, <3>3 DEF QuietlyEnqueues
    <2>12. Waiting(p, <<o>>)
      <3>1. o.arg \in Nat /\ reduced + Len(nccl[p]) < o.arg
        BY <2>3, <2>4 DEF TrainType
      <3> QED BY <2>4, <2>10, <3>1 DEF Waiting
    <2> QED BY <2>11, <2>12
  <1>2. CASE ~Tp
    <2>1. QuietlyEnqueues(p, <<>>, <<>>)
      BY <1>2, NothingEnqueued DEF InlineReduce
    <2> QED BY <1>2, <2>1
  <1> QED BY <1>1, <1>2

\* A rank that is in a cycle has been handed a batch.
LEMMA CycleBegun ==
    ASSUME TrainInv, NEW p \in Ranks, host_pc[p] # "answered" \/ nccl[p] # <<>>
                                      \/ compute[p] # <<>>
    PROVE  cycle > 0 /\ cycle \in Nat
  BY DEF TrainInv, TrainType

\* The event of a boundary.
LEMMA RecordTrains ==
    ASSUME TrainInv, NEW p \in Ranks, RecordEvent(p)
    PROVE  TrainInv'
  <1>1. /\ host_pc[p] \in Boundaries /\ host_pc[p] \in HostPc
        /\ host_pc' = [host_pc EXCEPT ![p] = host_pc[p]]
        /\ layer' = layer /\ pending' = pending /\ nccl' = nccl
        /\ cfg' = cfg /\ cycle' = cycle /\ UNCHANGED gpuVars
        /\ TrainType
    BY DEF RecordEvent, TrainInv, TrainType, cycleVars
  <1>2. cycle > 0
    BY <1>1, CycleBegun DEF Boundaries
  <1>3. \E ops, calls : QuietlyEnqueues(p, ops, calls)
    <2>1. CASE compute' = compute
      BY <1>1, <2>1, NothingEnqueued
    <2>2. CASE Enqueue(p, <<Op("event", 0)>>)
      <3> DEFINE o == Op("event", 0)
      <3>1. OpType(o) /\ ~IsGrad(o) /\ ~Ends(o)
        BY DEF OpType, IsGrad, Ends, Op
      <3> HIDE DEF o
      <3>2. /\ IsSeq(<<o>>) /\ IsSeq(<<>>)
            /\ \A m \in 1 .. Len(<<o>>) : <<o>>[m] = o
            /\ \A k : ~(k \in 1 .. Len(<<>>))
        <4>1. Len(<<o>>) = 1 /\ Len(<<>>) = 0
          OBVIOUS
        <4> QED BY <4>1 DEF IsSeq
      <3>3. nccl' = [nccl EXCEPT ![p] = @ \o <<>>]
        <4>1. nccl[p] \in Seq({nccl[p][i] : i \in DOMAIN nccl[p]})
          BY <1>1 DEF TrainType, IsSeq
        <4>2. nccl[p] \o <<>> = nccl[p]
          BY <4>1, ConcatEmptySeq
        <4> QED BY <1>1, <4>2 DEF TrainType
      <3>4. Enqueues(p, <<o>>, <<>>)
        BY <1>1, <2>2, <3>2, <3>3 DEF Enqueues, Enqueue, o
      <3>5. QuietlyEnqueues(p, <<o>>, <<>>)
        BY <3>1, <3>2, <3>4 DEF QuietlyEnqueues
      <3> QED BY <3>5
    <2> QED BY <2>1, <2>2 DEF RecordEvent
  <1>4. PICK ops, calls : QuietlyEnqueues(p, ops, calls)
    BY <1>3
  <1>5. host_pc[p] \notin HostEnds /\ host_pc[p] # "grads"
    BY <1>1 DEF Boundaries, HostEnds
  <1> QED BY <1>1, <1>2, <1>4, <1>5, QuietHost

\* The forward and the two halves of the backward, with the reduces inside.
LEMMA LayerTrains ==
    ASSUME TrainInv, NEW p \in Ranks, Forward(p) \/ Ffn(p) \/ Attn(p)
    PROVE  TrainInv'
  <1>1. /\ layer' = layer /\ pending' = pending
        /\ cfg' = cfg /\ cycle' = cycle /\ UNCHANGED gpuVars
        /\ TrainType
    BY DEF Forward, Ffn, Attn, TrainInv, cycleVars
  <1>2. PICK pc \in HostPc \ HostEnds :
           /\ host_pc' = [host_pc EXCEPT ![p] = pc]
           /\ host_pc[p] \notin HostEnds
           /\ pc = "grads" => Attn(p)
    <2>1. CASE Forward(p)
      <3>1. /\ host_pc' = [host_pc EXCEPT ![p] = "ffn"] /\ host_pc[p] = "forward"
            /\ "ffn" \in HostPc \ HostEnds /\ "forward" \notin HostEnds
        BY <2>1 DEF Forward, HostPc, HostEnds
      <3> QED BY <3>1
    <2>2. CASE Ffn(p)
      <3> DEFINE pc == IF PausesMidLayer(p) THEN "mid" ELSE "attn"
      <3>1. /\ host_pc' = [host_pc EXCEPT ![p] = pc] /\ host_pc[p] = "ffn"
            /\ pc \in HostPc \ HostEnds /\ "ffn" \notin HostEnds /\ pc # "grads"
        BY <2>2 DEF Ffn, HostPc, HostEnds, Boundaries
      <3> HIDE DEF pc
      <3> QED BY <3>1
    <2>3. CASE Attn(p)
      <3>1. /\ host_pc' = [host_pc EXCEPT ![p] = "grads"] /\ host_pc[p] = "attn"
            /\ "grads" \in HostPc \ HostEnds /\ "attn" \notin HostEnds
        BY <2>3 DEF Attn, HostPc, HostEnds
      <3> QED BY <2>3, <3>1
    <2> QED BY <2>1, <2>2, <2>3
  <1>3. cycle > 0
    BY <1>2, CycleBegun DEF HostEnds
  <1>4. \/ UNCHANGED <<compute, nccl>> /\ ~Attn(p)
        \/ \E kind, i : kind # "bucket" /\ InlineReduce(p, Call(kind, i))
    <2>1. CASE Forward(p)
      <3>1. host_pc[p] = "forward"
        BY <2>1 DEF Forward
      <3>2. "o" # "bucket" /\ ~Attn(p)
        BY <3>1 DEF Attn
      <3> QED BY <2>1, <3>2 DEF Forward, GraphedForward, LayerForward
    <2>2. CASE Ffn(p)
      <3>1. "ffn" # "bucket" /\ InlineReduce(p, Call("ffn", layer[p]))
        BY <2>2 DEF Ffn
      <3> QED BY <3>1
    <2>3. CASE Attn(p)
      <3>1. "x" # "bucket" /\ InlineReduce(p, Call("x", layer[p]))
        BY <2>3 DEF Attn
      <3> QED BY <3>1
    <2> QED BY <2>1, <2>2, <2>3
  <1>5. \E ops, calls : /\ QuietlyEnqueues(p, ops, calls)
                        /\ Attn(p) /\ Tp => Waiting(p, ops)
    <2>1. CASE UNCHANGED <<compute, nccl>> /\ ~Attn(p)
      BY <1>1, <2>1, NothingEnqueued
    <2>2. CASE \E kind, i : kind # "bucket" /\ InlineReduce(p, Call(kind, i))
      <3>1. PICK kind, i : kind # "bucket" /\ InlineReduce(p, Call(kind, i))
        BY <2>2
      <3> QED BY <1>1, <3>1, InlineEnqueues
    <2> QED BY <1>4, <2>1, <2>2
  <1>6. PICK ops, calls : /\ QuietlyEnqueues(p, ops, calls)
                          /\ Attn(p) /\ Tp => Waiting(p, ops)
    BY <1>5
  <1> QED BY <1>1, <1>2, <1>3, <1>6, QuietHost

\* The ranks leave a boundary.
LEMMA AgreeTrains ==
    ASSUME TrainInv, BoundaryInv, Agree
    PROVE  TrainInv'
  <1>1. /\ cfg' = cfg /\ cycle' = cycle /\ layer' = layer
        /\ UNCHANGED gpuVars /\ UNCHANGED queueVars /\ TrainType
        /\ host_pc' = [r \in Ranks |-> AfterBoundary(r)]
        /\ \A r \in Ranks : host_pc[r] \in Boundaries
    BY DEF Agree, TrainInv, BoundaryInv, cycleVars
  <1>2. /\ Ranks' = Ranks /\ (Tp' <=> Tp)
        /\ ran' = ran /\ reduced' = reduced /\ slab' = slab /\ grads' = grads
        /\ served' = served /\ compute' = compute /\ nccl' = nccl /\ pending' = pending
    BY <1>1 DEF Ranks, Tp, gpuVars, queueVars
  <1>3. \A r \in Ranks : /\ AfterBoundary(r) \in HostPc \ HostEnds
                         /\ AfterBoundary(r) # "grads"
                         /\ host_pc[r] \notin HostEnds
    BY <1>1 DEF AfterBoundary, LayerTop, HostPc, Boundaries, HostEnds
  <1>4. PICK q : q \in Ranks
    BY <1>1, CycleAssumption DEF TrainType, Ranks
  <1>5. cycle > 0 /\ cycle \in Nat
    BY <1>3, <1>4, CycleBegun DEF HostEnds
  <1>6. TrainType'
    <2>1. host_pc' \in [Ranks -> HostPc]
      BY <1>1, <1>3
    <2>2. GradSet' = GradSet /\ (\A o : OpType(o)' <=> OpType(o))
          /\ (\A e : CallType(e)' <=> CallType(e))
      BY <1>1, <1>2 DEF GradSet, OpType, CallType
    <2> QED BY <1>1, <1>2, <2>1, <2>2 DEF TrainType
  <1>7. ASSUME NEW r \in Ranks PROVE RankInv(r)'
    <2>1. /\ host_pc'[r] = AfterBoundary(r) /\ host_pc'[r] \notin HostEnds
          /\ host_pc[r] \notin HostEnds /\ host_pc'[r] # "grads"
      BY <1>1, <1>3
    <2>2. /\ Grown(compute[r], compute'[r]) /\ Grown(nccl[r], nccl'[r])
          /\ Len(compute[r]) \in Nat /\ Len(nccl[r]) \in Nat
      BY <1>1, <1>2, IsSeqFacts DEF Grown, TrainType
    <2>3. /\ \A m \in 1 .. Len(compute'[r]) : m <= Len(compute[r])
          /\ \A k \in 1 .. Len(nccl'[r]) : k <= Len(nccl[r])
      BY <1>2, <2>2
    <2>4. Quiet(r)
      BY <1>1, <1>2, <2>1, <2>2, <2>3 DEF Quiet, Goes, HostEnds, Done
    <2>5. RankInv(r) /\ reduced \in Nat
      BY <1>1, <1>5 DEF TrainInv, TrainType
    <2> QED BY <1>5, <2>4, <2>5, QuietKeeps
  <1> QED BY <1>1, <1>2, <1>5, <1>6, <1>7 DEF TrainInv

-----------------------------------------------------------------------------
(***************************************************************************)
(* The gradients of a layer.                                               *)
(***************************************************************************)
\* Rank p enqueues the gradient of layer i and, where it closes its group, the
\* group's reduce behind it.
Stashes(p, i) ==
    /\ cfg' = cfg /\ cycle' = cycle /\ reduced' = reduced /\ ran'[p] = ran[p]
    /\ slab'[p] = slab[p] /\ grads'[p] = grads[p] /\ served'[p] = served[p]
    /\ host_pc[p] = "grads" /\ layer[p] = i
    /\ host_pc'[p] \notin {"sync", "answered", "grads"}
    /\ \A j \in Layers : Done(p, j)' <=> Done(p, j) \/ j = i
    /\ Grown(compute[p], compute'[p]) /\ Len(compute'[p]) = Len(compute[p]) + 1
    /\ LET o == compute'[p][Len(compute'[p])] IN Current(o) /\ o.arg = i
    /\ Grown(nccl[p], nccl'[p])
    /\ \/ nccl'[p] = nccl[p] /\ pending'[p] = pending[p] /\ ~(Tp /\ GroupDone(i))
       \/ /\ Tp /\ GroupDone(i) /\ Len(nccl'[p]) = Len(nccl[p]) + 1
          /\ Reduces(nccl'[p][Len(nccl'[p])], i)
          /\ nccl'[p][Len(nccl'[p])].after = ran[p] + Len(compute'[p])
          /\ pending'[p] = reduced + Len(nccl'[p])

\* The gradient comes behind those of the layers above and whatever an
\* earlier cycle left, and its group's reduce behind it.
LEMMA StashKeeps ==
    ASSUME TrainType, NEW p \in Ranks, NEW i \in Layers, Stashes(p, i), RankInv(p)
    PROVE  RankInv(p)'
  <1> DEFINE c == compute[p]
             d == compute'[p]
             x == nccl[p]
             y == nccl'[p]
  <1>1. /\ Ranks' = Ranks /\ (Tp' <=> Tp) /\ FinalGrad' = FinalGrad
        /\ OneGrad(p)' = OneGrad(p) /\ Dest(p)' = Dest(p)
        /\ \A o : Current(o)' <=> Current(o)
        /\ \A e : Stale(e)' <=> Stale(e)
        /\ \A e, j : Reduces(e, j)' <=> Reduces(e, j)
        /\ cycle' = cycle /\ reduced' = reduced /\ ran'[p] = ran[p]
        /\ slab'[p] = slab[p] /\ grads'[p] = grads[p]
    BY DEF Ranks, Tp, FinalGrad, OneGrad, Dest, Current, Stale, Reduces, Stashes
  <1>2. /\ cycle \in Nat /\ reduced \in Nat /\ ran[p] \in Nat /\ L \in Nat
        /\ i \in Nat /\ Layers = 1 .. L
        /\ Len(c) \in Nat /\ Len(x) \in Nat
        /\ \A m \in 1 .. Len(c) : Current(c[m]) => c[m].arg \in Layers
    BY CycleAssumption, IsSeqFacts DEF TrainType, OpType, Layers, Current
  <1>3. /\ Len(d) = Len(c) + 1 /\ Len(d) \in Nat
        /\ \A m \in 1 .. Len(c) : m \in 1 .. Len(d) /\ d[m] = c[m]
        /\ Current(d[Len(d)]) /\ d[Len(d)].arg = i
    BY <1>2 DEF Stashes, Grown
  <1>4. \A m \in 1 .. Len(d) : m = Len(d) \/ m \in 1 .. Len(c)
    <2> HIDE DEF c, d
    <2> QED BY <1>2, <1>3
  <1>5. /\ \A j \in Layers : Done(p, j)' <=> Done(p, j) \/ j = i
        /\ \A j \in Layers : Done(p, j) => i < j
        /\ host_pc[p] = "grads"
        /\ host_pc'[p] \notin {"sync", "answered", "grads"}
    BY DEF Stashes, Done, HostEnds
  <1>6. \A m \in 1 .. Len(c) : Current(c[m]) => Done(p, c[m].arg) /\ i < c[m].arg
    <2>1. \A m \in 1 .. Len(c) : Current(c[m]) => Done(p, c[m].arg)
      BY DEF RankInv, QueueInv, Current
    <2> QED BY <1>2, <1>5, <2>1
  <1>7. /\ \A k \in 1 .. Len(x) : k \in 1 .. Len(y) /\ y[k] = x[k]
        /\ Len(y) \in Nat
    BY DEF Stashes, Grown
  <1>8. \A k \in 1 .. Len(y) :
           \/ k \in 1 .. Len(x)
           \/ /\ Tp /\ GroupDone(i) /\ k = Len(y) /\ Len(y) = Len(x) + 1
              /\ Reduces(y[k], i)
              /\ y[k].after = ran[p] + Len(d) /\ pending'[p] = reduced + k
    <2>1. CASE y = x
      BY <2>1
    <2>2. CASE y # x
      <3>1. /\ Tp /\ GroupDone(i) /\ Len(y) = Len(x) + 1
            /\ Reduces(y[Len(y)], i) /\ y[Len(y)].after = ran[p] + Len(d)
            /\ pending'[p] = reduced + Len(y)
        BY <2>2 DEF Stashes
      <3> HIDE DEF x, y, d
      <3>2. \A k \in 1 .. Len(y) : k = Len(y) \/ k \in 1 .. Len(x)
        BY <1>2, <3>1
      <3> QED BY <3>1, <3>2
    <2> QED BY <2>1, <2>2
  <1>9. QueueInv(p)'
    <2>1. QueueInv(p)
      BY DEF RankInv
    <2>2. ASSUME NEW m \in 1 .. Len(d), IsGrad(d[m])
          PROVE  /\ Current(d[m]) =>
                      /\ d[m].arg \in Layers /\ (Done(p, d[m].arg) \/ d[m].arg = i)
                      /\ \A n \in 1 .. m - 1 : Current(d[n]) => d[m].arg < d[n].arg
                 /\ ~Current(d[m]) => \A n \in 1 .. m - 1 : ~Current(d[n])
      <3>0. \A n \in 1 .. m - 1 : n \in 1 .. Len(c) /\ d[n] = c[n]
        <4> HIDE DEF c, d
        <4>1. Len(c) \in Nat /\ Len(d) = Len(c) + 1
          BY <1>2, <1>3
        <4>2. \A n \in 1 .. m - 1 : n \in 1 .. Len(c)
          BY <4>1
        <4> QED BY <1>3, <4>2
      <3>1. CASE m \in 1 .. Len(c)
        <4>1. /\ Current(c[m]) =>
                    /\ Done(p, c[m].arg)
                    /\ \A n \in 1 .. m - 1 : Current(c[n]) => c[m].arg < c[n].arg
              /\ ~Current(c[m]) => \A n \in 1 .. m - 1 : ~Current(c[n])
          BY <1>3, <2>1, <2>2, <3>1 DEF QueueInv
        <4>2. d[m] = c[m] /\ (Current(c[m]) => c[m].arg \in Layers)
          BY <1>2, <1>3, <3>1
        <4> HIDE DEF c, d
        <4> QED BY <3>0, <4>1, <4>2
      <3>2. CASE m = Len(d)
        <4>1. Current(d[m]) /\ d[m].arg = i
          BY <1>3, <3>2
        <4> HIDE DEF c, d
        <4> QED BY <1>6, <3>0, <4>1
      <3> QED BY <1>4, <3>1, <3>2
    <2>3. ASSUME NEW j \in Layers, Dest(p)[j].cyc = cycle
          PROVE  /\ Done(p, j)'
                 /\ \A m \in 1 .. Len(d) : IsGrad(d[m]) => Current(d[m]) /\ d[m].arg < j
      <3>1. /\ Done(p, j) /\ i < j
            /\ \A m \in 1 .. Len(c) : IsGrad(c[m]) => Current(c[m]) /\ c[m].arg < j
        BY <1>5, <2>1, <2>3 DEF QueueInv
      <3>2. Done(p, j)'
        BY <1>5, <3>1
      <3> HIDE DEF c, d
      <3> QED BY <1>3, <1>4, <3>1, <3>2
    <2>4. ASSUME NEW j \in Layers, Done(p, j)'
          PROVE  \/ Dest(p)[j].cyc = cycle
                 \/ \E m \in 1 .. Len(d) : Current(d[m]) /\ d[m].arg = j
      <3>1. CASE j = i
        <4>1. Len(d) \in 1 .. Len(d)
          BY <1>3, <1>2
        <4> QED BY <1>3, <3>1, <4>1
      <3>2. CASE j # i
        <4>1. Done(p, j)
          BY <1>5, <2>4, <3>2
        <4>2. \/ Dest(p)[j].cyc = cycle
              \/ \E m \in 1 .. Len(c) : Current(c[m]) /\ c[m].arg = j
          BY <2>1, <4>1 DEF QueueInv
        <4> HIDE DEF c, d
        <4> QED BY <1>3, <4>2
      <3> QED BY <3>1, <3>2
    <2>5. \A m \in 1 .. Len(d) :
             IsGrad(d[m]) =>
                /\ Current(d[m]) =>
                      /\ \A a \in Layers : d[m].arg = a => Done(p, a)'
                      /\ d[m].arg \in Layers
                      /\ \A n \in 1 .. m - 1 : Current(d[n]) => d[m].arg < d[n].arg
                /\ ~Current(d[m]) => \A n \in 1 .. m - 1 : ~Current(d[n])
      <3> HIDE DEF c, d
      <3> QED BY <1>5, <2>2
    <2> QED BY <1>1, <2>3, <2>4, <2>5 DEF QueueInv
  <1>10. SyncInv(p)'
    <2>1. \A m \in 1 .. Len(c) : ~Ends(c[m])
      BY <1>5 DEF RankInv, SyncInv
    <2>2. ~Ends(d[Len(d)])
      BY <1>3 DEF Current, IsGrad, Ends
    <2>3. \A m \in 1 .. Len(d) : ~Ends(d[m])
      <3> HIDE DEF c, d
      <3> QED BY <1>3, <1>4, <2>1, <2>2
    <2> QED BY <1>5, <2>3 DEF SyncInv
  <1>11. ASSUME Tp PROVE TpInv(p)'
    <2>1. BarrierInv(p) /\ BucketInv(p) /\ GroupInv(p)
      BY <1>11 DEF RankInv, TpInv
    <2>2. BarrierInv(p)'
      <3> SUFFICES ASSUME NEW k \in 1 .. Len(y), Stale(y[k])
                   PROVE  /\ \A j \in Layers : slab[p][j].cyc # cycle
                          /\ \A m \in 1 .. Len(d) : Current(d[m]) => Behind(d, m, k)
        BY <1>1, <1>5 DEF BarrierInv, Behind
      <3>1. k \in 1 .. Len(x) /\ Stale(x[k])
        <4>1. \A e : Reduces(e, i) => ~Stale(e)
          BY <1>2 DEF Reduces, Stale
        <4> HIDE DEF x, y, d
        <4> QED BY <1>7, <1>8, <4>1
      <3>2. /\ \A j \in Layers : slab[p][j].cyc # cycle
            /\ \A m \in 1 .. Len(c) : Current(c[m]) => Behind(c, m, k)
            /\ Behind(c, Len(c) + 1, k)
        BY <1>5, <2>1, <3>1 DEF BarrierInv
      <3>3. ASSUME NEW m \in 1 .. Len(d), Behind(c, m, k) PROVE Behind(d, m, k)
        <4>1. PICK n \in 1 .. m - 1 : c[n].op = "await" /\ reduced + k < c[n].arg
          BY <3>3 DEF Behind
        <4> HIDE DEF c, d
        <4>2. n \in 1 .. Len(c)
          <5>1. Len(c) \in Nat /\ Len(d) = Len(c) + 1
            BY <1>2, <1>3
          <5> QED BY <5>1
        <4>3. d[n] = c[n]
          BY <1>3, <4>2
        <4> QED BY <4>1, <4>3 DEF Behind
      <3> HIDE DEF c, d, x, y
      <3>4. ASSUME NEW m \in 1 .. Len(d), Current(d[m]) PROVE Behind(c, m, k)
        BY <1>3, <1>4, <3>2, <3>4
      <3> QED BY <3>2, <3>3, <3>4
    <2>3. BucketInv(p)'
      <3> SUFFICES ASSUME NEW k \in 1 .. Len(y), NEW j \in Layers, Reduces(y[k], j)
                   PROVE  /\ GroupDone(j) /\ Done(p, j)'
                          /\ \A m \in 1 .. Len(d) :
                                Current(d[m]) /\ j <= d[m].arg => ran[p] + m <= y[k].after
                          /\ \A l \in 1 .. k - 1 : \A g \in Layers :
                                Reduces(y[l], g) => j < g
                          /\ reduced + k <= pending'[p]
        BY <1>1 DEF BucketInv
      <3>1. \A l \in 1 .. Len(x) : \A g \in Layers : Reduces(x[l], g) =>
               /\ GroupDone(g) /\ Done(p, g) /\ i < g
               /\ \A m \in 1 .. Len(c) :
                     Current(c[m]) /\ g <= c[m].arg => ran[p] + m <= x[l].after
               /\ \A n \in 1 .. l - 1 : \A h \in Layers : Reduces(x[n], h) => g < h
               /\ reduced + l <= pending[p]
        BY <1>5, <2>1 DEF BucketInv
      <3>2. CASE k \in 1 .. Len(x)
        <4>1. /\ GroupDone(j) /\ Done(p, j) /\ i < j
              /\ \A m \in 1 .. Len(c) :
                    Current(c[m]) /\ j <= c[m].arg => ran[p] + m <= x[k].after
              /\ \A n \in 1 .. k - 1 : \A h \in Layers : Reduces(x[n], h) => j < h
              /\ reduced + k <= pending[p]
          BY <1>7, <3>1, <3>2
        <4>2. \A n \in 1 .. k - 1 : y[n] = x[n]
          <5> HIDE DEF x, y
          <5> QED BY <1>2, <1>7, <3>2
        <4>3. \A m \in 1 .. Len(d) :
                 Current(d[m]) /\ j <= d[m].arg => ran[p] + m <= y[k].after
          <5>1. ~(j <= i)
            BY <1>2, <4>1
          <5> HIDE DEF c, d, x, y
          <5> QED BY <1>3, <1>4, <1>7, <3>2, <4>1, <5>1
        <4>4. reduced + k <= pending'[p]
          <5>1. \/ pending'[p] = pending[p]
                \/ pending'[p] = reduced + Len(y)
            BY DEF Stashes
          <5>2. k <= Len(y)
            BY <1>7
          <5> HIDE DEF x, y
          <5> QED BY <1>2, <1>7, <4>1, <5>1, <5>2
        <4>5. Done(p, j)'
          BY <1>5, <4>1
        <4> QED BY <4>1, <4>2, <4>3, <4>4, <4>5
      <3>3. CASE ~(k \in 1 .. Len(x))
        <4>1. /\ GroupDone(i) /\ k = Len(x) + 1 /\ Reduces(y[k], i)
              /\ y[k].after = ran[p] + Len(d) /\ pending'[p] = reduced + k
          <5> HIDE DEF x, y, d
          <5> QED BY <1>8, <3>3
        <4>2. j = i
          BY <4>1 DEF Reduces
        <4>3. Done(p, j)'
          BY <1>5, <4>2
        <4>4. \A m \in 1 .. Len(d) : ran[p] + m <= y[k].after
          <5> HIDE DEF x, y, d
          <5> QED BY <1>2, <1>3, <4>1
        <4>5. \A l \in 1 .. k - 1 : \A g \in Layers : Reduces(y[l], g) => j < g
          <5> HIDE DEF x, y
          <5>1. \A l \in 1 .. k - 1 : l \in 1 .. Len(x) /\ y[l] = x[l]
            BY <1>2, <1>7, <4>1
          <5> QED BY <3>1, <4>2, <5>1
        <4>6. reduced + k <= pending'[p]
          <5> HIDE DEF x, y
          <5> QED BY <1>2, <1>7, <4>1
        <4> QED BY <4>1, <4>2, <4>3, <4>4, <4>5, <4>6
      <3> QED BY <3>2, <3>3
    <2>4. GroupInv(p)'
      <3> SUFFICES ASSUME NEW j \in Layers, GroupDone(j)
                   PROVE  Summed(p, j)' \/ Waits(p, j)'
        BY DEF GroupInv
      <3>1. CASE Summed(p, j)
        <4>1. Done(p, j)' /\ i # j
          BY <1>2, <1>5, <3>1 DEF Summed
        <4>2. \A e : Reduces(e, i) => ~Reduces(e, j)
          BY <4>1 DEF Reduces
        <4>3. \A k \in 1 .. Len(y) : ~Reduces(y[k], j)
          <5>1. \A k \in 1 .. Len(x) : ~Reduces(x[k], j)
            BY <3>1 DEF Summed
          <5> HIDE DEF x, y, d
          <5> QED BY <1>7, <1>8, <4>2, <5>1
        <4> QED BY <1>1, <3>1, <4>1, <4>3 DEF Summed
      <3>2. CASE Waits(p, j)
        <4>1. \A h \in Group(j) : slab'[p][h].cyc = cycle' => slab'[p][h] = OneGrad(p)'
          BY <1>1, <3>2 DEF Waits
        <4>2. ASSUME Done(p, j)' PROVE \E k \in 1 .. Len(y) : Reduces(y[k], j)
          <5>1. CASE Done(p, j)
            <6>1. PICK k \in 1 .. Len(x) : Reduces(x[k], j)
              BY <3>2, <5>1 DEF Waits
            <6> QED BY <1>7, <6>1
          <5>2. CASE ~Done(p, j)
            <6>1. j = i
              BY <1>5, <4>2, <5>2
            <6>2. /\ Len(y) = Len(x) + 1 /\ Reduces(y[Len(y)], i)
              BY <1>11, <6>1 DEF Stashes
            <6>3. Len(y) \in 1 .. Len(y)
              <7> HIDE DEF x, y
              <7> QED BY <1>2, <6>2
            <6> QED BY <6>1, <6>2, <6>3
          <5> QED BY <5>1, <5>2
        <4> QED BY <1>1, <4>1, <4>2 DEF Waits
      <3> QED BY <2>1, <3>1, <3>2 DEF GroupInv
    <2> QED BY <2>2, <2>3, <2>4 DEF TpInv
  <1>12. ~Tp => AloneInv(p)'
    BY <1>1 DEF RankInv, AloneInv
  <1> QED BY <1>1, <1>9, <1>10, <1>11, <1>12 DEF RankInv

\* One element is queued.
LEMMA OneFacts ==
    ASSUME NEW o
    PROVE  /\ IsSeq(<<o>>) /\ Len(<<o>>) = 1 /\ <<o>>[1] = o
           /\ IsSeq(<<>>) /\ Len(<<>>) = 0
           /\ \A m \in 1 .. Len(<<o>>) : <<o>>[m] = o
           /\ \A m : ~(m \in 1 .. Len(<<>>))
  <1>1. Len(<<o>>) = 1 /\ Len(<<>>) = 0
    OBVIOUS
  <1> QED BY <1>1 DEF IsSeq

\* One collective is queued, or none.
LEMMA AppendOrNot ==
    ASSUME TrainType, NEW p \in Ranks, NEW e
    PROVE  /\ [nccl EXCEPT ![p] = Append(@, e)] = [nccl EXCEPT ![p] = @ \o <<e>>]
           /\ nccl = [nccl EXCEPT ![p] = @ \o <<>>]
  <1>1. IsSeq(nccl[p])
    BY DEF TrainType
  <1>2. /\ nccl[p] \in Seq({nccl[p][i] : i \in DOMAIN nccl[p]} \union {e})
        /\ nccl[p] \in Seq({nccl[p][i] : i \in DOMAIN nccl[p]})
    BY <1>1 DEF IsSeq
  <1>3. nccl[p] \o <<>> = nccl[p] /\ Append(nccl[p], e) = nccl[p] \o <<e>>
    BY <1>2, ConcatEmptySeq, AppendIsConcat
  <1> QED BY <1>3 DEF TrainType

\* The gradient of a layer and its reduce, or the gradient alone.
LEMMA GradsTrains ==
    ASSUME TrainInv, NEW p \in Ranks, Grads(p)
    PROVE  TrainInv'
  <1> DEFINE i == layer[p]
             o == GradOp(IF Tp THEN "stash" ELSE "write", i)
             e == [call |-> Call("bucket", i), after |-> Issued(p) + 1]
             ops == <<o>>
             calls == IF Tp /\ GroupDone(i) THEN <<e>> ELSE <<>>
  <1>1. /\ TrainType /\ host_pc[p] = "grads" /\ cfg' = cfg /\ cycle' = cycle
        /\ UNCHANGED gpuVars /\ StashOrWrite(p, i) /\ i \in Layers
        /\ Ranks' = Ranks /\ (Tp' <=> Tp) /\ reduced' = reduced
    BY DEF Grads, TrainInv, TrainType, cycleVars, gpuVars, Ranks, Tp
  <1>2. cycle > 0 /\ cycle \in Nat
    BY <1>1, CycleBegun
  <1>3. /\ Len(compute[p]) \in Nat /\ Len(nccl[p]) \in Nat /\ L \in Nat
        /\ Layers = 1 .. L /\ i \in Nat /\ 1 <= i
        /\ ran[p] \in Nat /\ reduced \in Nat
    BY <1>1, CycleAssumption, IsSeqFacts DEF TrainType, Layers
  <1>4. /\ OpType(o) /\ Current(o) /\ o.arg = i
        /\ e.call = <<cycle, "bucket", i>>
        /\ e.after = ran[p] + Len(compute[p]) + 1
    BY <1>1, <1>2 DEF OpType, Current, IsGrad, GradOp, Call, Issued
  <1>5. CallType(e)
    <2>1. e.call[1] = cycle /\ e.call[2] = "bucket" /\ e.call[3] = i
      BY <1>4
    <2> HIDE DEF e
    <2> QED BY <1>1, <1>2, <1>3, <1>4, <2>1 DEF CallType
  <1>6. /\ compute' = [compute EXCEPT ![p] = @ \o <<o>>]
        /\ \/ /\ Tp /\ GroupDone(i) /\ nccl' = [nccl EXCEPT ![p] = Append(@, e)]
              /\ pending' = [pending EXCEPT ![p] = Last(p) + 1]
           \/ ~(Tp /\ GroupDone(i)) /\ nccl' = nccl /\ pending' = pending
    <2>1. CASE Tp
      BY <1>1, <2>1 DEF StashOrWrite, Enqueue
    <2>2. CASE ~Tp
      BY <1>1, <2>2 DEF StashOrWrite, Enqueue
    <2> QED BY <2>1, <2>2
  <1>7. PICK pc, j : /\ host_pc' = [host_pc EXCEPT ![p] = pc]
                     /\ layer' = [layer EXCEPT ![p] = j]
                     /\ pc \in HostPc \ {"sync", "answered", "grads"}
                     /\ \/ i = 1 /\ pc = "finish" /\ j = 1
                        \/ i > 1 /\ pc # "finish" /\ j = i - 1
    <2>1. CASE i = 1
      <3>1. /\ host_pc' = [host_pc EXCEPT ![p] = "finish"]
            /\ layer' = [layer EXCEPT ![p] = 1]
            /\ "finish" \in HostPc \ {"sync", "answered", "grads"}
        BY <1>1, <2>1 DEF Grads, TrainType, HostPc
      <3> HIDE DEF i
      <3> QED BY <2>1, <3>1
    <2>2. CASE i # 1
      <3> DEFINE pc == IF RaisesAt(i - 1) THEN "raised" ELSE LayerTop(p)
      <3>1. /\ host_pc' = [host_pc EXCEPT ![p] = pc]
            /\ layer' = [layer EXCEPT ![p] = i - 1]
            /\ i > 1
        BY <1>3, <2>2 DEF Grads
      <3>2. pc \in HostPc \ {"sync", "answered", "grads"} /\ pc # "finish"
        BY DEF LayerTop, HostPc, Boundaries
      <3> HIDE DEF pc, i
      <3> QED BY <3>1, <3>2
    <2> QED BY <2>1, <2>2
  <1> HIDE DEF i, o, e
  <1>8. Enqueues(p, ops, calls)
    <2>1. nccl' = [nccl EXCEPT ![p] = @ \o calls] /\ IsSeq(calls)
      <3>1. CASE Tp /\ GroupDone(i)
        BY <1>1, <1>6, <3>1, AppendOrNot, OneFacts
      <3>2. CASE ~(Tp /\ GroupDone(i))
        BY <1>1, <1>6, <3>2, AppendOrNot, OneFacts
      <3> QED BY <3>1, <3>2
    <2>2. IsSeq(<<o>>)
      BY OneFacts
    <2> HIDE DEF calls
    <2> QED BY <1>1, <1>6, <2>1, <2>2 DEF Enqueues
  <1>9. /\ host_pc' \in [Ranks -> HostPc] /\ layer' \in [Ranks -> Layers]
        /\ pending' \in [Ranks -> Nat]
        /\ host_pc'[p] = pc /\ layer'[p] = j
        /\ \A r \in Ranks \ {p} : /\ host_pc'[r] = host_pc[r] /\ layer'[r] = layer[r]
                                  /\ pending'[r] = pending[r]
    <2>1. j \in Layers
      BY <1>1, <1>3, <1>7
    <2>2. Last(p) + 1 \in Nat
      BY <1>3 DEF Last
    <2>3. /\ pending' \in [Ranks -> Nat]
          /\ \A r \in Ranks \ {p} : pending'[r] = pending[r]
      <3>1. pending \in [Ranks -> Nat]
        BY <1>1 DEF TrainType
      <3> QED BY <1>6, <2>2, <3>1
    <2> QED BY <1>1, <1>7, <2>1, <2>3 DEF TrainType
  <1>10. TrainType'
    <2>1. \A m \in 1 .. Len(ops) : OpType(ops[m])
      <3>1. \A m \in 1 .. Len(ops) : ops[m] = o
        BY OneFacts
      <3> HIDE DEF ops
      <3> QED BY <1>4, <3>1
    <2>2. \A k \in 1 .. Len(calls) : CallType(calls[k])
      <3>1. \A k \in 1 .. Len(calls) : calls[k] = e
        BY OneFacts
      <3> HIDE DEF calls
      <3> QED BY <1>5, <3>1
    <2> HIDE DEF calls, ops
    <2> QED BY <1>1, <1>8, <1>9, <2>1, <2>2, EnqueueTyped
  <1>11. \A r \in Ranks \ {p} : RankInv(r)'
    <2> HIDE DEF calls, ops
    <2>1. \A r \in Ranks : RankInv(r)
      BY <1>2 DEF TrainInv
    <2> QED BY <1>1, <1>8, <1>9, <2>1, EnqueueOthers
  <1>12. Stashes(p, i)
    <2>1. /\ Grown(compute[p], compute'[p]) /\ Grown(nccl[p], nccl'[p])
          /\ Len(compute'[p]) = Len(compute[p]) + 1
          /\ compute'[p][Len(compute[p]) + 1] = o
      <3>1. Len(ops) = 1 /\ ops[1] = o /\ 1 \in 1 .. 1
        BY OneFacts
      <3> HIDE DEF calls, ops
      <3>2. /\ Grown(compute[p], compute'[p]) /\ Grown(nccl[p], nccl'[p])
            /\ Len(compute'[p]) = Len(compute[p]) + Len(ops)
            /\ \A m \in 1 .. Len(ops) :
                  compute'[p][Len(compute[p]) + m] = ops[m]
        BY <1>1, <1>8, EnqueueFacts
      <3> QED BY <3>1, <3>2
    <2>2. \A h \in Layers : Done(p, h)' <=> Done(p, h) \/ h = i
      <3>1. CASE i = 1
        <4>1. pc = "finish"
          BY <1>7, <3>1
        <4>2. \A h \in Layers : Done(p, h)'
          BY <1>9, <4>1 DEF Done, HostEnds
        <4>3. \A h \in Layers : h > layer[p] \/ h = i
          BY <1>3, <3>1 DEF i
        <4> QED BY <4>2, <4>3 DEF Done
      <3>2. CASE i # 1
        <4>1. pc \notin HostEnds /\ j = i - 1
          BY <1>7, <3>2 DEF HostEnds
        <4>2. \A h \in Layers : h > i - 1 <=> h > i \/ h = i
          BY <1>3
        <4> QED BY <1>1, <1>9, <4>1, <4>2 DEF Done, HostEnds, i
      <3> QED BY <3>1, <3>2
    <2>3. CASE Tp /\ GroupDone(i)
      <3>1. calls = <<e>>
        BY <2>3
      <3>2. /\ Len(nccl'[p]) = Len(nccl[p]) + 1 /\ nccl'[p][Len(nccl[p]) + 1] = e
        <4>1. Len(calls) = 1 /\ calls[1] = e /\ 1 \in 1 .. 1
          BY <3>1, OneFacts
        <4> HIDE DEF calls, ops
        <4>2. /\ Len(nccl'[p]) = Len(nccl[p]) + Len(calls)
              /\ \A k \in 1 .. Len(calls) : nccl'[p][Len(nccl[p]) + k] = calls[k]
          BY <1>1, <1>8, EnqueueFacts
        <4> QED BY <4>1, <4>2
      <3>3. pending'[p] = reduced + Len(nccl'[p])
        BY <1>1, <1>3, <1>6, <2>3, <3>2 DEF Last, TrainType
      <3>4. /\ Reduces(nccl'[p][Len(nccl'[p])], i)
            /\ nccl'[p][Len(nccl'[p])].after = ran[p] + Len(compute'[p])
        <4>1. Reduces(e, i)
          BY <1>4 DEF Reduces
        <4>2. nccl'[p][Len(nccl'[p])] = e
          BY <3>2
        <4>3. e.after = ran[p] + Len(compute'[p])
          BY <1>3, <1>4, <2>1
        <4> QED BY <4>1, <4>2, <4>3
      <3>5. Current(compute'[p][Len(compute'[p])]) /\ compute'[p][Len(compute'[p])].arg = i
        BY <1>4, <2>1
      <3> QED
        BY <1>1, <1>7, <1>9, <2>1, <2>2, <2>3, <3>2, <3>3, <3>4, <3>5
        DEF Stashes, gpuVars, i
    <2>4. CASE ~(Tp /\ GroupDone(i))
      <3>1. nccl'[p] = nccl[p] /\ pending'[p] = pending[p]
        BY <1>6, <2>4
      <3>2. Current(compute'[p][Len(compute'[p])]) /\ compute'[p][Len(compute'[p])].arg = i
        BY <1>4, <2>1
      <3> QED
        BY <1>1, <1>7, <1>9, <2>1, <2>2, <2>4, <3>1, <3>2
        DEF Stashes, gpuVars, i
    <2> QED BY <2>3, <2>4
  <1>13. RankInv(p)'
    <2>1. RankInv(p)
      BY <1>2 DEF TrainInv
    <2> QED BY <1>1, <1>12, <2>1, StashKeeps
  <1> QED BY <1>1, <1>2, <1>10, <1>11, <1>13 DEF TrainInv

-----------------------------------------------------------------------------
(***************************************************************************)
(* The end of a cycle, and the next one.                                   *)
(***************************************************************************)
\* What ends a cycle: the masters are collected behind the wait for the last
\* reduce, and published behind the clip; one rank alone only publishes.
EndOps(p) ==
    IF Tp THEN (Wait(p) \o <<Op("collect", 0)>>) \o <<AwaitOp(Last(p) + 1), Op("publish", 0)>>
    ELSE <<Op("publish", 0)>>

\* t is s with a and b behind it.
JoinedTwo(s, a, b, t) ==
    /\ IsSeq(t) /\ Len(t) = Len(s) + 2 /\ Grown(s, t)
    /\ t[Len(s) + 1] = a /\ t[Len(s) + 2] = b

\* Two operations are queued.
LEMMA JoinTwo ==
    ASSUME NEW s, IsSeq(s), NEW a, NEW b, NEW t, t = s \o <<a, b>>
    PROVE  JoinedTwo(s, a, b, t)
  <1> DEFINE u == <<a, b>>
  <1>1. IsSeq(u) /\ Len(u) = 2 /\ u[1] = a /\ u[2] = b
    BY DEF IsSeq
  <1> HIDE DEF u
  <1>2. Joined(s, u, t)
    BY <1>1, JoinFacts DEF u
  <1>3. 1 \in 1 .. Len(u) /\ 2 \in 1 .. Len(u)
    BY <1>1
  <1> QED BY <1>1, <1>2, <1>3 DEF Joined, JoinedTwo

\* One collect, behind the wait for the last reduce, and one publish, last.
LEMMA EndOpsFacts ==
    ASSUME TrainType, NEW p \in Ranks
    PROVE  LET ops == EndOps(p)
           IN  /\ IsSeq(ops) /\ Len(ops) \in Nat \ {0}
               /\ \A m \in 1 .. Len(ops) : OpType(ops[m]) /\ ~IsGrad(ops[m])
               /\ ops[Len(ops)].op = "publish"
               /\ \A m \in 1 .. Len(ops) - 1 : ops[m].op # "publish"
               /\ ~Tp => \A m \in 1 .. Len(ops) : ops[m].op # "collect"
               /\ Tp => \E c \in 1 .. Len(ops) - 1 :
                           /\ ops[c].op = "collect"
                           /\ \A m \in 1 .. Len(ops) : ops[m].op = "collect" => m = c
                           /\ pending[p] # 0 =>
                                 \E n \in 1 .. c - 1 : ops[n].op = "await"
                                                       /\ ops[n].arg = pending[p]
  <1> DEFINE ops == EndOps(p)
             o == Op("collect", 0)
             a == AwaitOp(Last(p) + 1)
             b == Op("publish", 0)
             w == AwaitOp(pending[p])
  <1>1. /\ o.op = "collect" /\ a.op = "await" /\ b.op = "publish" /\ w.op = "await"
        /\ w.arg = pending[p] /\ a.arg = reduced + Len(nccl[p]) + 1
    BY DEF Op, AwaitOp, Last
  <1>2. a.arg \in Nat /\ w.arg \in Nat
    <2>1. Len(nccl[p]) \in Nat /\ reduced \in Nat /\ pending[p] \in Nat
      BY IsSeqFacts DEF TrainType
    <2> QED BY <1>1, <2>1
  <1> HIDE DEF o, a, b, w
  <1>3. \A e \in {o, a, b, w} : OpType(e) /\ ~IsGrad(e)
    BY <1>1, <1>2 DEF OpType, IsGrad
  <1>4. CASE Tp /\ pending[p] = 0
    <2>1. ops = (<<>> \o <<o>>) \o <<a, b>>
      BY <1>4 DEF EndOps, Wait, o, a, b
    <2>2. <<>> \o <<o>> = <<o>>
      <3>1. <<o>> \in Seq({o})
        OBVIOUS
      <3> QED BY <3>1, ConcatEmptySeq
    <2> HIDE DEF ops
    <2>3. /\ IsSeq(ops) /\ Len(ops) = 3 /\ ops[1] = o /\ ops[2] = a /\ ops[3] = b
      <3> DEFINE s == <<o>>
      <3>1. IsSeq(s) /\ Len(s) = 1 /\ s[1] = o
        BY OneFacts
      <3>2. ops = s \o <<a, b>>
        BY <2>1, <2>2
      <3> HIDE DEF s
      <3>3. JoinedTwo(s, a, b, ops)
        BY <3>1, <3>2, JoinTwo
      <3>4. /\ IsSeq(ops) /\ Len(ops) = Len(s) + 2 /\ Grown(s, ops)
            /\ ops[Len(s) + 1] = a /\ ops[Len(s) + 2] = b
        BY <3>3 DEF JoinedTwo
      <3> QED BY <3>1, <3>4 DEF Grown
    <2>4. \A m \in 1 .. Len(ops) : m = 1 \/ m = 2 \/ m = 3
      BY <2>3
    <2>5. \A m \in 1 .. Len(ops) : ops[m] \in {o, a, b, w}
      BY <2>3, <2>4
    <2>6. 1 \in 1 .. Len(ops) - 1 /\ \A m \in 1 .. Len(ops) - 1 : m = 1 \/ m = 2
      BY <2>3
    <2>7. \A m \in 1 .. Len(ops) : ops[m].op = "collect" => m = 1
      BY <1>1, <2>3, <2>4
    <2>8. \A m \in 1 .. Len(ops) - 1 : ops[m].op # "publish"
      BY <1>1, <2>3, <2>6
    <2> QED BY <1>1, <1>3, <1>4, <2>3, <2>5, <2>6, <2>7, <2>8 DEF ops
  <1>5. CASE Tp /\ pending[p] # 0
    <2>1. ops = (<<w>> \o <<o>>) \o <<a, b>>
      BY <1>5 DEF EndOps, Wait, o, a, b, w
    <2> DEFINE s == <<w>> \o <<o>>
    <2>2. IsSeq(s) /\ Len(s) = 2 /\ s[1] = w /\ s[2] = o
      <3> DEFINE u == <<w>>
                 v == <<o>>
      <3>1. /\ IsSeq(u) /\ Len(u) = 1 /\ u[1] = w
            /\ IsSeq(v) /\ Len(v) = 1 /\ v[1] = o
        BY OneFacts
      <3>2. s = u \o v
        OBVIOUS
      <3> HIDE DEF u, v, s
      <3>3. Joined(u, v, s)
        BY <3>1, <3>2, JoinFacts
      <3> QED BY <3>1, <3>3 DEF Joined, Grown
    <2> HIDE DEF ops, s
    <2>3. /\ IsSeq(ops) /\ Len(ops) = 4
          /\ ops[1] = w /\ ops[2] = o /\ ops[3] = a /\ ops[4] = b
      <3>1. ops = s \o <<a, b>>
        BY <2>1 DEF s
      <3>2. JoinedTwo(s, a, b, ops)
        BY <2>2, <3>1, JoinTwo
      <3>3. /\ IsSeq(ops) /\ Len(ops) = Len(s) + 2 /\ Grown(s, ops)
            /\ ops[Len(s) + 1] = a /\ ops[Len(s) + 2] = b
        BY <3>2 DEF JoinedTwo
      <3> QED BY <2>2, <3>3 DEF Grown
    <2>4. \A m \in 1 .. Len(ops) : m = 1 \/ m = 2 \/ m = 3 \/ m = 4
      BY <2>3
    <2>5. \A m \in 1 .. Len(ops) : ops[m] \in {o, a, b, w}
      BY <2>3, <2>4
    <2>6. /\ 2 \in 1 .. Len(ops) - 1 /\ 1 \in 1 .. 2 - 1
          /\ \A m \in 1 .. Len(ops) - 1 : m = 1 \/ m = 2 \/ m = 3
      BY <2>3
    <2>7. \A m \in 1 .. Len(ops) : ops[m].op = "collect" => m = 2
      BY <1>1, <2>3, <2>4
    <2>8. \A m \in 1 .. Len(ops) - 1 : ops[m].op # "publish"
      BY <1>1, <2>3, <2>6
    <2>9. \E n \in 1 .. 2 - 1 : ops[n].op = "await" /\ ops[n].arg = pending[p]
      BY <1>1, <2>3, <2>6
    <2> QED BY <1>1, <1>3, <1>5, <2>3, <2>5, <2>6, <2>7, <2>8, <2>9 DEF ops
  <1>6. CASE ~Tp
    <2>1. ops = <<b>>
      BY <1>6 DEF EndOps, b
    <2> HIDE DEF ops
    <2>2. IsSeq(ops) /\ Len(ops) = 1 /\ ops[1] = b /\ \A m \in 1 .. Len(ops) : ops[m] = b
      BY <2>1, OneFacts
    <2>3. \A m : ~(m \in 1 .. Len(ops) - 1)
      BY <2>2
    <2> QED BY <1>1, <1>3, <1>6, <2>2, <2>3 DEF ops
  <1> QED BY <1>4, <1>5, <1>6

\* Rank p is to wait for the end of its cycle.
LEMMA FinishSyncs ==
    ASSUME TrainType, NEW p \in Ranks, RankInv(p), host_pc[p] = "finish",
           NEW calls, Enqueues(p, EndOps(p), calls), host_pc'[p] = "sync",
           \A k \in 1 .. Len(calls) : calls[k].call[2] # "bucket"
    PROVE  SyncInv(p)'
  <1> DEFINE ops == EndOps(p)
             c == compute[p]
             d == compute'[p]
             x == nccl[p]
             y == nccl'[p]
             n == Len(ops)
  <1>1. /\ n \in Nat \ {0}
        /\ \A m \in 1 .. n : ~IsGrad(ops[m])
        /\ ops[n].op = "publish"
        /\ \A m \in 1 .. n - 1 : ops[m].op # "publish"
        /\ ~Tp => \A m \in 1 .. n : ops[m].op # "collect"
        /\ Tp => \E h \in 1 .. n - 1 :
                    /\ ops[h].op = "collect"
                    /\ \A m \in 1 .. n : ops[m].op = "collect" => m = h
                    /\ pending[p] # 0 =>
                          \E l \in 1 .. h - 1 : ops[l].op = "await"
                                                /\ ops[l].arg = pending[p]
    BY EndOpsFacts
  <1>2. /\ Len(d) = Len(c) + n
        /\ \A m \in 1 .. n : d[Len(c) + m] = ops[m]
        /\ \A m \in 1 .. Len(d) : ~(m <= Len(c)) =>
              m - Len(c) \in 1 .. n /\ d[m] = ops[m - Len(c)]
    <2> HIDE DEF ops
    <2> QED BY EnqueueFacts DEF ops
  <1>3. Grown(c, d) /\ Grown(x, y)
    BY EnqueueFacts
  <1>4. /\ Len(c) \in Nat /\ Len(d) \in Nat /\ Len(x) \in Nat
        /\ \A m \in 1 .. Len(c) : d[m] = c[m]
        /\ \A k \in 1 .. Len(x) : y[k] = x[k]
    BY <1>3 DEF Grown
  <1>5. \A m \in 1 .. Len(c) : ~Ends(c[m])
    BY DEF RankInv, SyncInv
  <1>6. \A k \in 1 .. Len(y) : ~(k <= Len(x)) => y[k].call[2] # "bucket"
    <2>1. \A k \in 1 .. Len(y) : ~(k <= Len(x)) =>
             k - Len(x) \in 1 .. Len(calls) /\ y[k] = calls[k - Len(x)]
      BY EnqueueFacts
    <2> QED BY <2>1
  <1>7. cfg' = cfg /\ cycle' = cycle /\ reduced' = reduced /\ (Tp' <=> Tp)
    BY DEF Enqueues, gpuVars, Tp, Ranks
  <1> HIDE DEF ops, c, d, x, y, n
  <1>8. \A m \in 1 .. Len(d) :
           \/ m \in 1 .. Len(c) /\ d[m] = c[m] /\ ~Ends(d[m])
           \/ /\ m - Len(c) \in 1 .. n /\ d[m] = ops[m - Len(c)] /\ ~IsGrad(d[m])
              /\ ~(m <= Len(c)) /\ (Len(c) + (m - Len(c)) = m)
    BY <1>1, <1>2, <1>4, <1>5
  <1>9. /\ Len(d) > 0 /\ d[Len(d)].op = "publish"
        /\ \A m \in 1 .. Len(d) - 1 : d[m].op # "publish"
    <2>1. n \in 1 .. n /\ Len(d) > 0
      BY <1>1, <1>2, <1>4
    <2>2. d[Len(d)].op = "publish"
      BY <1>1, <1>2, <2>1
    <2>3. ASSUME NEW m \in 1 .. Len(d) - 1 PROVE d[m].op # "publish"
      <3>1. m \in 1 .. Len(d)
        BY <1>1, <1>2, <1>4
      <3>2. CASE ~Ends(d[m])
        BY <3>2 DEF Ends
      <3>3. CASE m - Len(c) \in 1 .. n /\ d[m] = ops[m - Len(c)] /\ ~(m <= Len(c))
        <4>1. m - Len(c) \in 1 .. n - 1
          BY <1>1, <1>2, <1>4, <3>3
        <4> QED BY <1>1, <3>3, <4>1
      <3> QED BY <1>8, <3>1, <3>2, <3>3
    <2> QED BY <2>1, <2>2, <2>3
  <1>10. Publishes(p)'
    <2>1. d # <<>>
      BY <1>9
    <2> QED BY <1>9, <2>1 DEF Publishes, d
  <1>11. CASE ~Tp
    <2>1. \A m \in 1 .. Len(d) : d[m].op # "collect"
      <3>1. \A m \in 1 .. Len(d) : ~Ends(d[m]) => d[m].op # "collect"
        BY DEF Ends
      <3> QED BY <1>1, <1>8, <1>11, <3>1
    <2>2. \A m \in 1 .. Len(d) : IsGrad(d[m]) => m < Len(d)
      BY <1>1, <1>2, <1>4, <1>8
    <2>3. Collected(p)'
      BY <1>7, <1>11, <2>1, <2>2 DEF Collected, Current, d
    <2> QED BY <1>10, <2>3 DEF SyncInv
  <1>12. CASE Tp
    <2>1. PICK h \in 1 .. n - 1 :
             /\ ops[h].op = "collect"
             /\ \A m \in 1 .. n : ops[m].op = "collect" => m = h
             /\ pending[p] # 0 =>
                   \E l \in 1 .. h - 1 : ops[l].op = "await" /\ ops[l].arg = pending[p]
      BY <1>1, <1>12
    <2>0. PICK q \in Nat : q = Len(c) + h
      BY <1>1, <1>4
    <2>2. q \in 1 .. Len(d) /\ d[q].op = "collect" /\ h \in 1 .. n
      BY <1>1, <1>2, <1>4, <2>0, <2>1
    <2>3. ASSUME NEW m \in 1 .. Len(d)
          PROVE  /\ IsGrad(d[m]) => m < q
                 /\ d[m].op = "collect" => m = q
      <3>1. CASE m \in 1 .. Len(c) /\ ~Ends(d[m])
        <4>1. d[m].op # "collect"
          BY <3>1 DEF Ends
        <4> QED BY <1>1, <1>4, <2>0, <2>1, <3>1, <4>1
      <3>2. CASE /\ m - Len(c) \in 1 .. n /\ d[m] = ops[m - Len(c)] /\ ~IsGrad(d[m])
                 /\ Len(c) + (m - Len(c)) = m
        <4>1. d[m].op = "collect" => m - Len(c) = h
          BY <2>1, <3>2
        <4> QED BY <1>1, <1>4, <2>0, <2>1, <3>2, <4>1
      <3> QED BY <1>8, <3>1, <3>2
    <2>4. ASSUME NEW k \in 1 .. Len(y), NEW i \in Layers, Reduces(y[k], i)
          PROVE  \E l \in 1 .. q - 1 : d[l].op = "await" /\ reduced + k <= d[l].arg
      <3>1. k \in 1 .. Len(x) /\ y[k] = x[k]
        <4>1. y[k].call[2] = "bucket"
          BY <2>4 DEF Reduces
        <4>2. k <= Len(x)
          BY <1>6, <4>1
        <4> QED BY <1>4, <4>2
      <3>2. reduced + k <= pending[p]
        BY <1>12, <2>4, <3>1 DEF RankInv, TpInv, BucketInv, x
      <3>3. pending[p] # 0
        BY <1>4, <3>1, <3>2 DEF TrainType
      <3>4. PICK l \in 1 .. h - 1 : ops[l].op = "await" /\ ops[l].arg = pending[p]
        BY <2>1, <3>3
      <3>5. l \in 1 .. n /\ Len(c) + l \in 1 .. q - 1
        BY <1>1, <1>4, <2>0, <2>1, SMTT(30)
      <3>6. d[Len(c) + l] = ops[l]
        BY <1>2, <3>5
      <3> QED BY <3>2, <3>4, <3>5, <3>6
    <2>5. CollectsAt(p, q)'
      <3>1. \A o : Current(o)' => IsGrad(o)
        BY DEF Current, IsGrad
      <3>2. \A e, i : Reduces(e, i)' <=> Reduces(e, i)
        BY <1>7 DEF Reduces
      <3>3. /\ d[q].op = "collect"
            /\ \A m \in 1 .. Len(d) : (IsGrad(d[m]) => m < q) /\ (d[m].op = "collect" => m = q)
            /\ \A k \in 1 .. Len(y) : \A i \in Layers : Reduces(y[k], i) =>
                  \E l \in 1 .. q - 1 : d[l].op = "await" /\ reduced' + k <= d[l].arg
        BY <1>7, <2>2, <2>3, <2>4
      <3> QED BY <1>7, <3>1, <3>2, <3>3 DEF CollectsAt, d, y
    <2>6. Collects(p)'
      BY <2>2, <2>5 DEF Collects, d
    <2> QED BY <1>7, <1>10, <1>12, <2>6 DEF SyncInv
  <1> QED BY <1>11, <1>12

\* The host enqueues the end of its cycle.
LEMMA FinishTrains ==
    ASSUME TrainInv, NEW p \in Ranks, Finish(p)
    PROVE  TrainInv'
  <1> DEFINE ops == EndOps(p)
             s == Wait(p) \o <<Op("collect", 0)>>
             e == [call |-> Call("clip", 0), after |-> Issued(p) + Len(s)]
             calls == IF Tp THEN <<e>> ELSE <<>>
  <1>1. /\ TrainType /\ host_pc[p] = "finish" /\ cfg' = cfg /\ cycle' = cycle
        /\ UNCHANGED gpuVars /\ layer' = layer
        /\ host_pc' = [host_pc EXCEPT ![p] = "sync"]
        /\ Ranks' = Ranks /\ (Tp' <=> Tp) /\ reduced' = reduced
    BY DEF Finish, TrainInv, cycleVars, gpuVars, Ranks, Tp
  <1>2. cycle > 0 /\ cycle \in Nat
    BY <1>1, CycleBegun
  <1>3. Len(s) \in Nat
    <2>1. IsSeq(<<AwaitOp(pending[p])>>) /\ IsSeq(<<>>) /\ IsSeq(<<Op("collect", 0)>>)
      BY OneFacts
    <2>2. IsSeq(Wait(p))
      BY <2>1 DEF Wait
    <2>3. Joined(Wait(p), <<Op("collect", 0)>>, s)
      BY <2>1, <2>2, JoinFacts
    <2>4. IsSeq(s)
      BY <2>3 DEF Joined
    <2> HIDE DEF s
    <2> QED BY <2>4, IsSeqFacts
  <1>4. /\ e.call = <<cycle, "clip", 0>>
        /\ e.after = ran[p] + Len(compute[p]) + Len(s)
    BY DEF Call, Issued
  <1>5. CallType(e) /\ e.call[2] # "bucket" /\ e.call[1] = cycle
    <2>1. e.call[1] = cycle /\ e.call[2] = "clip" /\ e.after \in Nat
      <3>1. Len(compute[p]) \in Nat /\ ran[p] \in Nat
        BY <1>1, IsSeqFacts DEF TrainType
      <3> HIDE DEF e, s
      <3> QED BY <1>3, <1>4, <3>1
    <2> HIDE DEF e
    <2> QED BY <1>2, <2>1 DEF CallType
  <1>6. /\ compute' = [compute EXCEPT ![p] = @ \o ops]
        /\ nccl' = [nccl EXCEPT ![p] = @ \o calls]
        /\ pending' = [pending EXCEPT ![p] = 0] \/ pending' = pending
    <2>1. CASE Tp
      <3>1. /\ nccl' = [nccl EXCEPT ![p] = Append(@, e)]
            /\ compute' = [compute EXCEPT ![p] = @ \o ops]
            /\ pending' = [pending EXCEPT ![p] = 0]
        BY <2>1 DEF Finish, Enqueue, EndOps
      <3> HIDE DEF e, ops
      <3> QED BY <1>1, <2>1, <3>1, AppendOrNot
    <2>2. CASE ~Tp
      <3>1. compute' = [compute EXCEPT ![p] = @ \o ops] /\ nccl' = nccl /\ pending' = pending
        BY <2>2 DEF Finish, Enqueue, EndOps
      <3> HIDE DEF ops, e
      <3> QED BY <1>1, <2>2, <3>1, AppendOrNot
    <2> QED BY <2>1, <2>2
  <1> HIDE DEF e, s
  <1>7. IsSeq(calls) /\ \A k \in 1 .. Len(calls) : calls[k] = e
    BY OneFacts
  <1> HIDE DEF calls
  <1>8. IsSeq(ops) /\ \A m \in 1 .. Len(ops) : OpType(ops[m]) /\ ~IsGrad(ops[m])
    BY <1>1, EndOpsFacts
  <1>9. Enqueues(p, ops, calls)
    BY <1>1, <1>6, <1>7, <1>8 DEF Enqueues
  <1>10. /\ host_pc' \in [Ranks -> HostPc] /\ layer' \in [Ranks -> Layers]
         /\ pending' \in [Ranks -> Nat]
         /\ host_pc'[p] = "sync"
         /\ \A r \in Ranks \ {p} : /\ host_pc'[r] = host_pc[r] /\ layer'[r] = layer[r]
                                   /\ pending'[r] = pending[r]
    <2>1. /\ host_pc' \in [Ranks -> HostPc] /\ layer' \in [Ranks -> Layers]
          /\ host_pc'[p] = "sync"
          /\ \A r \in Ranks \ {p} : host_pc'[r] = host_pc[r] /\ layer'[r] = layer[r]
      <3>1. "sync" \in HostPc
        BY DEF HostPc
      <3> QED BY <1>1, <3>1 DEF TrainType
    <2>2. /\ pending' \in [Ranks -> Nat]
          /\ \A r \in Ranks \ {p} : pending'[r] = pending[r]
      BY <1>1, <1>6 DEF TrainType
    <2> QED BY <2>1, <2>2
  <1>11. /\ \A k \in 1 .. Len(calls) : CallType(calls[k])
         /\ \A k \in 1 .. Len(calls) : calls[k].call[2] # "bucket"
         /\ \A k \in 1 .. Len(calls) : calls[k].call[1] = cycle
    BY <1>5, <1>7
  <1>12. \A r \in Ranks : RankInv(r)
    BY <1>2 DEF TrainInv
  <1>13. SyncInv(p)'
    BY <1>1, <1>9, <1>10, <1>11, <1>12, FinishSyncs
  <1> HIDE DEF ops
  <1>14. TrainType'
    BY <1>1, <1>8, <1>9, <1>10, <1>11, EnqueueTyped
  <1>15. \A r \in Ranks \ {p} : RankInv(r)'
    BY <1>1, <1>9, <1>10, <1>12, EnqueueOthers
  <1>16. Goes(p)
    <2>1. /\ Grown(compute[p], compute'[p]) /\ Grown(nccl[p], nccl'[p])
          /\ \A m \in 1 .. Len(compute'[p]) : ~(m <= Len(compute[p])) =>
                /\ m - Len(compute[p]) \in 1 .. Len(ops)
                /\ compute'[p][m] = ops[m - Len(compute[p])]
          /\ \A k \in 1 .. Len(nccl'[p]) : ~(k <= Len(nccl[p])) =>
                /\ k - Len(nccl[p]) \in 1 .. Len(calls)
                /\ nccl'[p][k] = calls[k - Len(nccl[p])]
      BY <1>1, <1>9, EnqueueFacts
    <2>2. \A m \in 1 .. Len(compute'[p]) :
             ~(m <= Len(compute[p])) => ~IsGrad(compute'[p][m])
      BY <1>8, <2>1
    <2>3. \A k \in 1 .. Len(nccl'[p]) : ~(k <= Len(nccl[p])) =>
             nccl'[p][k].call[1] = cycle /\ nccl'[p][k].call[2] # "bucket"
      BY <1>11, <2>1
    <2>4. \A i : Done(p, i)' <=> Done(p, i)
      BY <1>1, <1>10 DEF Done, HostEnds
    <2> QED BY <1>1, <1>10, <2>1, <2>2, <2>3, <2>4 DEF Goes, gpuVars
  <1>17. RankInv(p)'
    <2>1. RankInv(p) /\ reduced \in Nat
      BY <1>1, <1>12 DEF TrainType
    <2> QED BY <1>2, <1>13, <1>16, <2>1, GoesKeeps DEF RankInv
  <1> QED BY <1>1, <1>2, <1>14, <1>15, <1>17 DEF TrainInv

\* The host answers, its stream having run dry.
LEMMA AnswerTrains ==
    ASSUME TrainInv, NEW p \in Ranks, Answer(p)
    PROVE  TrainInv'
  <1>1. /\ TrainType /\ host_pc[p] = "sync" /\ compute[p] = <<>>
        /\ cfg' = cfg /\ cycle' = cycle /\ layer' = layer
        /\ UNCHANGED gpuVars /\ UNCHANGED queueVars
        /\ host_pc' = [host_pc EXCEPT ![p] = "answered"]
    BY DEF Answer, TrainInv, cycleVars
  <1>2. /\ Ranks' = Ranks /\ (Tp' <=> Tp) /\ FinalGrad' = FinalGrad
        /\ ran' = ran /\ reduced' = reduced /\ slab' = slab /\ grads' = grads
        /\ served' = served /\ compute' = compute /\ nccl' = nccl /\ pending' = pending
    BY <1>1 DEF Ranks, Tp, FinalGrad, gpuVars, queueVars
  <1>3. cycle > 0 /\ cycle \in Nat
    BY <1>1, CycleBegun
  <1>4. \A r \in Ranks : RankInv(r)
    BY <1>3 DEF TrainInv
  <1>5. TrainType'
    <2>1. host_pc' \in [Ranks -> HostPc]
      BY <1>1 DEF TrainType, HostPc
    <2>2. GradSet' = GradSet /\ (\A o : OpType(o)' <=> OpType(o))
          /\ (\A e : CallType(e)' <=> CallType(e))
      BY <1>1, <1>2 DEF GradSet, OpType, CallType
    <2> QED BY <1>1, <1>2, <2>1, <2>2 DEF TrainType
  <1>6. ASSUME NEW r \in Ranks \ {p} PROVE RankInv(r)'
    <2>1. SameRank(r)
      BY <1>1, <1>2 DEF SameRank, TrainType
    <2> QED BY <1>4, <2>1, SameRankKeeps
  <1>7. RankInv(p)'
    <2>1. host_pc'[p] = "answered"
      BY <1>1 DEF TrainType
    <2>2. /\ Grown(compute[p], compute'[p]) /\ Grown(nccl[p], nccl'[p])
          /\ Len(compute[p]) = 0 /\ Len(nccl[p]) \in Nat
      BY <1>1, <1>2, IsSeqFacts DEF Grown, TrainType
    <2>3. Goes(p)
      BY <1>1, <1>2, <2>1, <2>2 DEF Goes, Done, HostEnds
    <2>4. Published(p)
      BY <1>1, <1>4 DEF RankInv, SyncInv, Publishes
    <2>5. SyncInv(p)'
      BY <1>2, <2>1, <2>2, <2>4 DEF SyncInv, Published, Final
    <2>6. RankInv(p) /\ reduced \in Nat
      BY <1>1, <1>4 DEF TrainType
    <2> QED BY <1>3, <2>3, <2>5, <2>6, GoesKeeps DEF RankInv
  <1> QED BY <1>1, <1>2, <1>3, <1>5, <1>6, <1>7 DEF TrainInv

\* A new cycle: whatever the streams hold is of an earlier one.
LEMMA TriggerTrains ==
    ASSUME TrainInv, Trigger
    PROVE  TrainInv'
  <1>1. /\ TrainType /\ cfg' = cfg /\ cycle' = cycle + 1 /\ cycle \in Nat
        /\ host_pc' = [r \in Ranks |-> "first"] /\ layer' = [r \in Ranks |-> L]
        /\ UNCHANGED gpuVars /\ UNCHANGED queueVars
        /\ \A r \in Ranks : host_pc[r] \in {"answered", "raised"}
    BY DEF Trigger, TrainInv, TrainType
  <1>2. /\ Ranks' = Ranks /\ (Tp' <=> Tp)
        /\ ran' = ran /\ reduced' = reduced /\ slab' = slab /\ grads' = grads
        /\ served' = served /\ compute' = compute /\ nccl' = nccl /\ pending' = pending
    BY <1>1 DEF Ranks, Tp, gpuVars, queueVars
  <1>3. L \in Layers /\ Layers = 1 .. L /\ L \in Nat
    BY CycleAssumption DEF Layers
  <1>4. TrainType'
    <2>1. /\ host_pc' \in [Ranks -> HostPc] /\ layer' \in [Ranks -> Layers]
      BY <1>1, <1>3 DEF HostPc, Boundaries
    <2>2. ASSUME NEW o, OpType(o) PROVE OpType(o)'
      BY <1>1, <1>2, <2>2 DEF OpType
    <2>3. ASSUME NEW e, CallType(e) PROVE CallType(e)'
      BY <1>1, <2>3 DEF CallType
    <2>4. ASSUME NEW r \in Ranks, NEW i \in Layers
          PROVE  slab[r][i].cyc <= cycle' /\ grads[r][i].cyc <= cycle'
      <3>1. /\ slab[r][i].cyc \in Nat /\ slab[r][i].cyc <= cycle
            /\ grads[r][i].cyc \in Nat /\ grads[r][i].cyc <= cycle
        BY <1>1 DEF TrainType, GradSet
      <3> QED BY <1>1, <3>1
    <2>5. GradSet' = GradSet
      BY <1>2 DEF GradSet
    <2> QED BY <1>1, <1>2, <2>1, <2>2, <2>3, <2>4, <2>5 DEF TrainType
  <1>5. ASSUME NEW r \in Ranks PROVE RankInv(r)'
    <2>1. \A m \in 1 .. Len(compute[r]) : ~Current(compute[r][m])'
      <3>1. \A m \in 1 .. Len(compute[r]) : OpType(compute[r][m])
        BY <1>1 DEF TrainType
      <3> QED BY <1>1, <1>2, <3>1 DEF OpType, Current, IsGrad
    <2>2. \A i \in Layers : slab[r][i].cyc # cycle' /\ grads[r][i].cyc # cycle'
      <3>1. \A i \in Layers : slab[r][i].cyc <= cycle /\ grads[r][i].cyc <= cycle
        BY <1>1 DEF TrainType
      <3>2. \A i \in Layers : slab[r][i].cyc \in Nat /\ grads[r][i].cyc \in Nat
        BY <1>1 DEF TrainType, GradSet
      <3> QED BY <1>1, <3>1, <3>2
    <2>3. \A i \in Layers : ~Done(r, i)'
      BY <1>1, <1>3 DEF Done, HostEnds
    <2>4. \A k \in 1 .. Len(nccl[r]) : \A i : ~Reduces(nccl[r][k], i)'
      <3>1. \A k \in 1 .. Len(nccl[r]) : CallType(nccl[r][k])
        BY <1>1 DEF TrainType
      <3> QED BY <1>1, <1>2, <3>1 DEF Reduces, CallType
    <2>5. host_pc'[r] = "first"
      BY <1>1
    <2>6. \A m \in 1 .. Len(compute[r]) : ~Ends(compute[r][m])
      <3>1. CASE cycle = 0
        <4>1. Len(compute[r]) = 0
          BY <3>1 DEF TrainInv
        <4> QED BY <4>1
      <3>2. CASE cycle # 0
        <4>1. SyncInv(r) /\ host_pc[r] # "sync"
          BY <1>1, <3>2 DEF TrainInv, RankInv
        <4> QED BY <4>1 DEF SyncInv
      <3> QED BY <3>1, <3>2
    <2>7. QueueInv(r)'
      <3>1. \A i \in Layers : Dest(r)'[i].cyc # cycle'
        BY <1>2, <2>2 DEF Dest
      <3> QED BY <1>2, <2>1, <2>3, <3>1 DEF QueueInv
    <2>8. SyncInv(r)'
      BY <1>2, <2>5, <2>6 DEF SyncInv
    <2>9. TpInv(r)'
      <3>1. BarrierInv(r)'
        BY <1>2, <2>1, <2>2, <2>5 DEF BarrierInv
      <3>2. BucketInv(r)'
        BY <1>2, <2>4 DEF BucketInv
      <3>3. GroupInv(r)'
        <4>1. \A i \in Layers : Waits(r, i)'
          BY <1>2, <2>2, <2>3 DEF Waits, Group
        <4> QED BY <4>1 DEF GroupInv
      <3> QED BY <3>1, <3>2, <3>3 DEF TpInv
    <2>10. AloneInv(r)'
      BY <1>2, <2>2 DEF AloneInv
    <2> QED BY <2>7, <2>8, <2>9, <2>10 DEF RankInv
  <1> QED BY <1>1, <1>2, <1>4, <1>5 DEF TrainInv

-----------------------------------------------------------------------------
(***************************************************************************)
(* A GPU runs what is at the head of its compute stream.                   *)
(***************************************************************************)
\* Without tensor parallelism there is one rank.
LEMMA OneRank ==
    ASSUME cfg \in Configs, ~Tp, NEW p \in Ranks
    PROVE  Ranks = {p}
  <1>1. IsFiniteSet(Ranks) /\ Ranks # {}
    BY CycleAssumption DEF Ranks
  <1>2. Cardinality(Ranks) \in Nat /\ Cardinality(Ranks) # 0
    BY <1>1, FS_CardinalityType, FS_EmptySet
  <1>3. Cardinality(Ranks) = 1
    <2> DEFINE n == Cardinality(Ranks)
    <2>1. n \in Nat /\ n # 0 /\ ~(n > 1)
      BY <1>2 DEF Tp
    <2> HIDE DEF n
    <2>2. n = 1
      BY <2>1
    <2> QED BY <2>2 DEF n
  <1>4. PICK x : Ranks = {x}
    BY <1>1, <1>3, FS_Singleton
  <1> QED BY <1>4

\* A layer's group has a last layer, which closes it.
LEMMA GroupCloses ==
    ASSUME NEW i \in Layers
    PROVE  \E j \in Layers : GroupDone(j) /\ Group(j) = Group(i) /\ i \in Group(i)
  <1>1. i \in Group(i) /\ Group(i) \in SUBSET Layers /\ Layers \subseteq Nat
    BY CycleAssumption DEF Group, Layers
  <1>2. PICK j \in Group(i) : \A h \in Group(i) : j <= h
    BY <1>1, LeastNatural
  <1>3. Group(j) = Group(i) /\ j \in Layers
    BY <1>2 DEF Group
  <1> QED BY <1>1, <1>2, <1>3 DEF GroupDone

\* Layers of one group have the same group.
LEMMA GroupsSame ==
    ASSUME NEW i \in Layers, NEW j \in Group(i)
    PROVE  j \in Layers /\ Group(j) = Group(i)
  BY DEF Group

\* What rank p's GPU does to what is trained, d being what is left of c.
Runs(p, c, d) ==
    /\ cfg' = cfg /\ cycle' = cycle /\ reduced' = reduced
    /\ host_pc' = host_pc /\ layer' = layer /\ nccl' = nccl /\ pending' = pending
    /\ c # <<>> /\ IsSeq(c) /\ IsSeq(d) /\ Len(c) = Len(d) + 1
    /\ Len(c) \in Nat /\ Len(d) \in Nat
    /\ \A m \in 1 .. Len(d) : m + 1 \in 1 .. Len(c) /\ d[m] = c[m + 1]
    /\ 1 \in 1 .. Len(c)
    /\ ran'[p] = ran[p] + 1
    /\ c[1].op = "await" => reduced >= c[1].arg
    /\ IsGrad(c[1]) => /\ c[1].arg \in Layers
                       /\ c[1].op = (IF Tp THEN "stash" ELSE "write")
    /\ \A i \in Layers : slab'[p][i] =
          IF c[1].op = "stash" /\ i = c[1].arg THEN Grad(p, c[1]) ELSE slab[p][i]
    /\ \A i \in Layers : grads'[p][i] =
          IF c[1].op = "collect" THEN slab[p][i]
          ELSE IF c[1].op = "write" /\ i = c[1].arg THEN Grad(p, c[1])
          ELSE grads[p][i]
    /\ \A i \in Layers : served'[p][i] =
          IF c[1].op = "publish" THEN grads[p][i] ELSE served[p][i]
    /\ Ranks' = Ranks /\ (Tp' <=> Tp)

\* What a GPU runs is its own, and of the type of what it held.
LEMMA RunFacts ==
    ASSUME TrainType, NEW p \in Ranks, RunCompute(p)
    PROVE  /\ Runs(p, compute[p], compute'[p])
           /\ \A r \in Ranks \ {p} : SameRank(r)
           /\ TrainType'
  <1> DEFINE c == compute[p]
             d == compute'[p]
             o == compute[p][1]
  <1>1. /\ cfg' = cfg /\ cycle' = cycle /\ UNCHANGED hostVars /\ UNCHANGED <<nccl, pending, reduced>>
        /\ c # <<>> /\ compute' = [compute EXCEPT ![p] = Tail(@)]
        /\ ran' = [ran EXCEPT ![p] = @ + 1]
        /\ Ranks' = Ranks /\ (Tp' <=> Tp)
    BY DEF RunCompute, cycleVars, Ranks, Tp
  <1>2. IsSeq(c) /\ Head(c) = o /\ Len(c) \in Nat /\ Len(c) > 0
    BY <1>1, IsSeqFacts DEF TrainType
  <1>3. d = Tail(c)
    BY <1>1 DEF TrainType
  <1>4. /\ IsSeq(d) /\ Len(d) = Len(c) - 1
        /\ \A m \in 1 .. Len(c) - 1 : d[m] = c[m + 1]
    BY <1>1, <1>2, <1>3, TailFacts
  <1>5. /\ Len(c) = Len(d) + 1 /\ Len(d) \in Nat /\ 1 \in 1 .. Len(c)
        /\ \A m \in 1 .. Len(d) : m + 1 \in 1 .. Len(c) /\ d[m] = c[m + 1]
    <2> HIDE DEF c, d
    <2> QED BY <1>2, <1>4
  <1>6. OpType(o)
    BY <1>5 DEF TrainType
  <1>7. /\ o.op = "await" => reduced >= o.arg
        /\ slab' = IF o.op = "stash" THEN [slab EXCEPT ![p][o.arg] = Grad(p, o)] ELSE slab
        /\ grads' = CASE o.op = "collect" -> [grads EXCEPT ![p] = slab[p]]
                      [] o.op = "write" -> [grads EXCEPT ![p][o.arg] = Grad(p, o)]
                      [] OTHER -> grads
        /\ served' = IF o.op = "publish" THEN [served EXCEPT ![p] = grads[p]] ELSE served
    <2>1. Head(compute[p]) = o
      BY <1>2
    <2> HIDE DEF o
    <2> QED BY <2>1 DEF RunCompute
  <1> HIDE DEF c, d, o
  <1>8. IsGrad(o) => /\ o.arg \in Layers /\ o.cyc \in Nat /\ o.cyc <= cycle
                     /\ o.op = (IF Tp THEN "stash" ELSE "write")
                     /\ Grad(p, o) \in GradSet /\ Grad(p, o).cyc = o.cyc
    BY <1>6 DEF OpType, Grad, GradSet
  <1>9. /\ slab \in [Ranks -> [Layers -> GradSet]]
        /\ grads \in [Ranks -> [Layers -> GradSet]]
        /\ served \in [Ranks -> [Layers -> GradSet]]
        /\ \A r \in Ranks : \A i \in Layers : slab[r][i].cyc <= cycle /\ grads[r][i].cyc <= cycle
    BY DEF TrainType
  <1>10. /\ slab' \in [Ranks -> [Layers -> GradSet]]
         /\ \A r \in Ranks \ {p} : slab'[r] = slab[r]
         /\ \A i \in Layers : slab'[p][i] =
               IF o.op = "stash" /\ i = o.arg THEN Grad(p, o) ELSE slab[p][i]
    <2>1. CASE o.op = "stash"
      <3>1. IsGrad(o)
        BY <2>1 DEF IsGrad
      <3> QED BY <1>7, <1>8, <1>9, <2>1, <3>1
    <2>2. CASE o.op # "stash"
      BY <1>7, <1>9, <2>2
    <2> QED BY <2>1, <2>2
  <1>11. /\ grads' \in [Ranks -> [Layers -> GradSet]]
         /\ \A r \in Ranks \ {p} : grads'[r] = grads[r]
         /\ \A i \in Layers : grads'[p][i] =
               IF o.op = "collect" THEN slab[p][i]
               ELSE IF o.op = "write" /\ i = o.arg THEN Grad(p, o)
               ELSE grads[p][i]
    <2>1. CASE o.op = "write"
      <3>1. IsGrad(o)
        BY <2>1 DEF IsGrad
      <3> QED BY <1>7, <1>8, <1>9, <2>1, <3>1
    <2>2. CASE o.op = "collect"
      BY <1>7, <1>9, <2>2
    <2>3. CASE o.op # "write" /\ o.op # "collect"
      BY <1>7, <1>9, <2>3
    <2> QED BY <2>1, <2>2, <2>3
  <1>12. /\ served' \in [Ranks -> [Layers -> GradSet]]
         /\ \A r \in Ranks \ {p} : served'[r] = served[r]
         /\ \A i \in Layers : served'[p][i] =
               IF o.op = "publish" THEN grads[p][i] ELSE served[p][i]
    BY <1>7, <1>9
  <1>13. Runs(p, compute[p], compute'[p])
    BY <1>1, <1>2, <1>4, <1>5, <1>7, <1>8, <1>10, <1>11, <1>12
    DEF Runs, c, d, o, hostVars, TrainType
  <1>14. \A r \in Ranks \ {p} : SameRank(r)
    BY <1>1, <1>10, <1>11, <1>12 DEF SameRank, hostVars, TrainType
  <1>15. TrainType'
    <2>1. GradSet' = GradSet /\ (\A e : OpType(e)' <=> OpType(e))
          /\ (\A e : CallType(e)' <=> CallType(e))
      BY <1>1 DEF GradSet, OpType, CallType
    <2>2. /\ \A r \in Ranks : IsSeq(compute'[r])
          /\ \A r \in Ranks : \A m \in 1 .. Len(compute'[r]) : OpType(compute'[r][m])
      <3>1. /\ \A r \in Ranks : IsSeq(compute[r])
            /\ \A r \in Ranks : \A m \in 1 .. Len(compute[r]) : OpType(compute[r][m])
        BY DEF TrainType
      <3>2. \A r \in Ranks \ {p} : compute'[r] = compute[r]
        BY <1>1 DEF TrainType
      <3> QED BY <1>4, <1>5, <3>1, <3>2 DEF c, d
    <2>3. ASSUME NEW r \in Ranks, NEW i \in Layers
          PROVE  slab'[r][i].cyc <= cycle /\ grads'[r][i].cyc <= cycle
      <3>1. o.op \in {"stash", "write"} => Grad(p, o).cyc <= cycle
        BY <1>8 DEF IsGrad
      <3>2. CASE r # p
        BY <1>9, <1>10, <1>11, <3>2
      <3>3. CASE r = p
        <4>1. slab[p][i].cyc <= cycle /\ grads[p][i].cyc <= cycle
          BY <1>9
        <4>2. slab'[p][i] \in {slab[p][i], Grad(p, o)} /\ (o.op # "stash" => slab'[p][i] = slab[p][i])
          BY <1>10
        <4>3. slab'[p][i].cyc <= cycle
          BY <3>1, <4>1, <4>2
        <4>4. /\ grads'[p][i] \in {slab[p][i], grads[p][i], Grad(p, o)}
              /\ o.op # "write" => grads'[p][i] \in {slab[p][i], grads[p][i]}
          BY <1>11
        <4>5. grads'[p][i].cyc <= cycle
          BY <3>1, <4>1, <4>4
        <4> QED BY <3>3, <4>3, <4>5
      <3> QED BY <3>2, <3>3
    <2>4. compute' = [r \in Ranks |-> compute'[r]] /\ ran' \in [Ranks -> Nat]
      <3>1. /\ compute' = [compute EXCEPT ![p] = Tail(@)]
            /\ ran' = [ran EXCEPT ![p] = @ + 1]
        BY <1>1
      <3>2. compute = [r \in Ranks |-> compute[r]] /\ ran \in [Ranks -> Nat]
        BY DEF TrainType
      <3>3. compute' = [r \in Ranks |-> compute'[r]]
        BY <3>1, <3>2
      <3>4. ran' \in [Ranks -> Nat]
        BY <3>1, <3>2
      <3> QED BY <3>3, <3>4
    <2>5. host_pc' = host_pc /\ layer' = layer
      BY <1>1 DEF hostVars
    <2>6. /\ slab' \in [Ranks -> [Layers -> GradSet]]
          /\ grads' \in [Ranks -> [Layers -> GradSet]]
          /\ served' \in [Ranks -> [Layers -> GradSet]]
      BY <1>10, <1>11, <1>12
    <2>7. /\ cfg \in Configs /\ cycle \in Nat /\ reduced \in Nat
          /\ host_pc \in [Ranks -> HostPc] /\ layer \in [Ranks -> Layers]
          /\ pending \in [Ranks -> Nat] /\ nccl = [r \in Ranks |-> nccl[r]]
          /\ \A r \in Ranks : IsSeq(nccl[r])
          /\ \A r \in Ranks : \A k \in 1 .. Len(nccl[r]) : CallType(nccl[r][k])
      BY DEF TrainType
    <2> QED
      BY <1>1, <2>1, <2>2, <2>3, <2>4, <2>5, <2>6, <2>7 DEF TrainType
  <1> QED BY <1>13, <1>14, <1>15

\* The queue moves up: what ran is written, the rest keeps its order.
LEMMA RunQueue ==
    ASSUME NEW p, NEW c, NEW d, c = compute[p], d = compute'[p],
           Runs(p, c, d), QueueInv(p), cycle \in Nat,
           ~Tp => c[1].op # "collect"
    PROVE  /\ QueueInv(p)'
           /\ \A i \in Layers : Dest(p)'[i].cyc = cycle =>
                 \/ /\ Dest(p)'[i] = Dest(p)[i] /\ ~(IsGrad(c[1]) /\ c[1].arg = i)
                 \/ Current(c[1]) /\ c[1].arg = i /\ Dest(p)'[i] = OneGrad(p)
           /\ \A i \in Layers : Dest(p)[i].cyc = cycle => Dest(p)'[i] = Dest(p)[i]
  <1> DEFINE o == c[1]
  <1>1. /\ cycle' = cycle /\ (Tp' <=> Tp)
        /\ Len(c) = Len(d) + 1 /\ Len(c) \in Nat /\ Len(d) \in Nat
        /\ \A m \in 1 .. Len(d) : m + 1 \in 1 .. Len(c) /\ d[m] = c[m + 1]
        /\ 1 \in 1 .. Len(c)
        /\ IsGrad(o) => o.arg \in Layers /\ o.op = (IF Tp THEN "stash" ELSE "write")
    BY DEF Runs
  <1>2. \A i \in Layers : Dest(p)'[i] =
           IF IsGrad(o) /\ i = o.arg THEN Grad(p, o) ELSE Dest(p)[i]
    <2>1. CASE Tp
      <3>1. Dest(p)' = slab'[p] /\ Dest(p) = slab[p]
        BY <1>1, <2>1 DEF Dest
      <3>2. o.op = "stash" <=> IsGrad(o)
        BY <1>1, <2>1 DEF IsGrad
      <3>3. \A i \in Layers : slab'[p][i] =
               IF o.op = "stash" /\ i = o.arg THEN Grad(p, o) ELSE slab[p][i]
        BY DEF Runs
      <3> HIDE DEF o
      <3> QED BY <3>1, <3>2, <3>3
    <2>2. CASE ~Tp
      <3>1. Dest(p)' = grads'[p] /\ Dest(p) = grads[p]
        BY <1>1, <2>2 DEF Dest
      <3>2. (o.op = "write" <=> IsGrad(o)) /\ o.op # "collect"
        BY <1>1, <2>2 DEF IsGrad
      <3>3. \A i \in Layers : grads'[p][i] =
               IF o.op = "collect" THEN slab[p][i]
               ELSE IF o.op = "write" /\ i = o.arg THEN Grad(p, o)
               ELSE grads[p][i]
        BY DEF Runs
      <3> HIDE DEF o
      <3> QED BY <3>1, <3>2, <3>3
    <2> QED BY <2>1, <2>2
  <1>3. /\ \A m \in 1 .. Len(c) :
              IsGrad(c[m]) =>
                 /\ Current(c[m]) =>
                       /\ Done(p, c[m].arg)
                       /\ \A n \in 1 .. m - 1 : Current(c[n]) => c[m].arg < c[n].arg
                 /\ ~Current(c[m]) => \A n \in 1 .. m - 1 : ~Current(c[n])
        /\ \A i \in Layers :
              Dest(p)[i].cyc = cycle =>
                 /\ Done(p, i)
                 /\ \A m \in 1 .. Len(c) : IsGrad(c[m]) => Current(c[m]) /\ c[m].arg < i
        /\ \A i \in Layers :
              Done(p, i) => \/ Dest(p)[i].cyc = cycle
                            \/ \E m \in 1 .. Len(c) : Current(c[m]) /\ c[m].arg = i
    BY DEF QueueInv
  <1>4. /\ \A e : Current(e)' <=> Current(e)
        /\ \A i : Done(p, i)' <=> Done(p, i)
    BY <1>1 DEF Current, Done, Runs
  <1>5. Grad(p, o).cyc = o.cyc /\ (o.cyc = cycle => Grad(p, o) = OneGrad(p))
    BY DEF Grad, OneGrad
  <1>6. \A e : Current(e) <=> IsGrad(e) /\ e.cyc = cycle
    BY DEF Current
  <1>7. \A i \in Layers : Dest(p)[i].cyc = cycle /\ IsGrad(o) => o.arg < i
    BY <1>1, <1>3
  <1>8. \A i \in Layers : i \in Nat
    BY CycleAssumption DEF Layers
  <1> HIDE DEF o
  <1>9. \A i \in Layers : Dest(p)[i].cyc = cycle => Dest(p)'[i] = Dest(p)[i]
    BY <1>2, <1>7, <1>8
  <1>10. \A i \in Layers : Dest(p)'[i].cyc = cycle =>
            \/ Dest(p)'[i] = Dest(p)[i] /\ ~(IsGrad(o) /\ o.arg = i)
            \/ Current(o) /\ o.arg = i /\ Dest(p)'[i] = OneGrad(p)
    BY <1>2, <1>5, <1>6
  <1>11. \A m \in 1 .. Len(d) : \A n \in 1 .. m - 1 :
            n \in 1 .. Len(d) /\ n + 1 \in 1 .. (m + 1) - 1 /\ n + 1 \in 1 .. Len(c)
            /\ d[n] = c[n + 1]
    <2> SUFFICES ASSUME NEW m \in 1 .. Len(d), NEW n \in 1 .. m - 1
                 PROVE  n \in 1 .. Len(d) /\ n + 1 \in 1 .. (m + 1) - 1
      BY <1>1
    <2> QED BY <1>1
  <1>12. ASSUME NEW m \in 1 .. Len(d), IsGrad(d[m])
         PROVE  /\ Current(d[m]) =>
                     /\ Done(p, d[m].arg)
                     /\ \A n \in 1 .. m - 1 : Current(d[n]) => d[m].arg < d[n].arg
                /\ ~Current(d[m]) => \A n \in 1 .. m - 1 : ~Current(d[n])
    <2>1. m + 1 \in 1 .. Len(c) /\ d[m] = c[m + 1]
      BY <1>1
    <2>2. /\ Current(c[m + 1]) =>
                /\ Done(p, c[m + 1].arg)
                /\ \A n \in 1 .. (m + 1) - 1 : Current(c[n]) => c[m + 1].arg < c[n].arg
          /\ ~Current(c[m + 1]) => \A n \in 1 .. (m + 1) - 1 : ~Current(c[n])
      BY <1>3, <1>12, <2>1
    <2> QED BY <1>11, <2>1, <2>2
  <1>13. ASSUME NEW m \in 1 .. Len(d), IsGrad(d[m]), Current(o)
         PROVE  Current(d[m]) /\ d[m].arg < o.arg
    <2>1. m + 1 \in 1 .. Len(c) /\ d[m] = c[m + 1] /\ 1 \in 1 .. (m + 1) - 1
      BY <1>1
    <2>2. o = c[1]
      BY DEF o
    <2>3. /\ Current(c[m + 1]) =>
                \A n \in 1 .. (m + 1) - 1 : Current(c[n]) => c[m + 1].arg < c[n].arg
          /\ ~Current(c[m + 1]) => \A n \in 1 .. (m + 1) - 1 : ~Current(c[n])
      BY <1>3, <1>13, <2>1
    <2> QED BY <1>13, <2>1, <2>2, <2>3
  <1>14. ASSUME NEW i \in Layers, Dest(p)'[i].cyc = cycle
         PROVE  /\ Done(p, i)
                /\ \A m \in 1 .. Len(d) : IsGrad(d[m]) => Current(d[m]) /\ d[m].arg < i
    <2>1. CASE Dest(p)'[i] = Dest(p)[i]
      <3>1. Dest(p)[i].cyc = cycle
        BY <1>14, <2>1
      <3>2. /\ Done(p, i)
            /\ \A m \in 1 .. Len(c) : IsGrad(c[m]) => Current(c[m]) /\ c[m].arg < i
        BY <1>3, <3>1
      <3>3. \A m \in 1 .. Len(d) : m + 1 \in 1 .. Len(c) /\ d[m] = c[m + 1]
        BY <1>1
      <3> QED BY <3>2, <3>3
    <2>2. CASE Current(o) /\ o.arg = i
      <3>1. Done(p, o.arg)
        BY <1>1, <1>3, <1>6, <2>2 DEF o
      <3> QED BY <1>13, <2>2, <3>1
    <2> QED BY <1>10, <1>14, <2>1, <2>2
  <1>15. ASSUME NEW i \in Layers, Done(p, i)
         PROVE  \/ Dest(p)'[i].cyc = cycle
                \/ \E m \in 1 .. Len(d) : Current(d[m]) /\ d[m].arg = i
    <2>1. CASE Dest(p)[i].cyc = cycle
      BY <1>9, <2>1
    <2>2. CASE \E m \in 1 .. Len(c) : Current(c[m]) /\ c[m].arg = i
      <3>1. PICK m \in 1 .. Len(c) : Current(c[m]) /\ c[m].arg = i
        BY <2>2
      <3>2. CASE m = 1
        <4>1. Current(o) /\ o.arg = i
          BY <3>1, <3>2 DEF o
        <4> QED BY <1>2, <1>5, <1>6, <4>1
      <3>3. CASE m # 1
        <4>1. m - 1 \in 1 .. Len(d) /\ (m - 1) + 1 = m
          BY <1>1, <3>3
        <4>2. d[m - 1] = c[m]
          BY <1>1, <4>1
        <4> QED BY <3>1, <4>1, <4>2
      <3> QED BY <3>2, <3>3
    <2> QED BY <1>3, <1>15, <2>1, <2>2
  <1>16. QueueInv(p)'
    BY <1>1, <1>4, <1>12, <1>14, <1>15 DEF QueueInv
  <1> QED BY <1>9, <1>10, <1>16 DEF o

\* What waits for a collective still does: it is not what ran.
LEMMA BehindTail ==
    ASSUME NEW p, NEW c, NEW d, Runs(p, c, d), reduced \in Nat,
           c[1].op = "await" => c[1].arg \in Nat,
           NEW m \in 1 .. Len(d) + 1, NEW k \in Nat \ {0}, Behind(c, m + 1, k)
    PROVE  Behind(d, m, k)
  <1>1. /\ Len(c) = Len(d) + 1 /\ Len(c) \in Nat /\ Len(d) \in Nat
        /\ \A j \in 1 .. Len(d) : d[j] = c[j + 1]
        /\ c[1].op = "await" => reduced >= c[1].arg
    BY DEF Runs
  <1>2. PICK n \in 1 .. (m + 1) - 1 : c[n].op = "await" /\ reduced + k < c[n].arg
    BY DEF Behind
  <1>3. n # 1
    <2>1. SUFFICES ASSUME n = 1 PROVE FALSE
      OBVIOUS
    <2>2. reduced >= c[1].arg /\ c[1].arg \in Nat /\ reduced + k < c[1].arg
      BY <1>1, <1>2, <2>1
    <2> QED BY <2>2
  <1>4. n - 1 \in 1 .. m - 1 /\ n - 1 \in 1 .. Len(d) /\ (n - 1) + 1 = n
    BY <1>1, <1>3
  <1>5. d[n - 1] = c[n]
    BY <1>1, <1>4
  <1> QED BY <1>2, <1>4, <1>5 DEF Behind

\* The collectives are where they were, and no gradient ran too early.
LEMMA RunTp ==
    ASSUME NEW p, NEW c, NEW d, c = compute[p], d = compute'[p],
           Runs(p, c, d), QueueInv(p), TpInv(p), Tp, cycle \in Nat, reduced \in Nat,
           ran[p] \in Nat, Len(nccl[p]) \in Nat,
           \A m \in 1 .. Len(c) : c[m].op = "await" => c[m].arg \in Nat
    PROVE  TpInv(p)'
  <1> DEFINE o == c[1]
             x == nccl[p]
  <1>1. /\ cycle' = cycle /\ (Tp' <=> Tp) /\ Ranks' = Ranks /\ reduced' = reduced
        /\ host_pc' = host_pc /\ nccl' = nccl /\ pending' = pending
        /\ ran'[p] = ran[p] + 1
        /\ Len(c) = Len(d) + 1 /\ Len(c) \in Nat /\ Len(d) \in Nat
        /\ \A m \in 1 .. Len(d) : m + 1 \in 1 .. Len(c) /\ d[m] = c[m + 1]
        /\ 1 \in 1 .. Len(c)
    BY DEF Runs
  <1>2. /\ FinalGrad' = FinalGrad /\ OneGrad(p)' = OneGrad(p)
        /\ \A i : Done(p, i)' <=> Done(p, i)
        /\ \A e : Current(e)' <=> Current(e)
        /\ \A e : Stale(e)' <=> Stale(e)
        /\ \A e, i : Reduces(e, i)' <=> Reduces(e, i)
        /\ \A s, m, k : Behind(s, m, k)' <=> Behind(s, m, k)
    BY <1>1 DEF FinalGrad, OneGrad, Done, Current, Stale, Reduces, Behind, Runs
  <1>3. /\ \A i \in Layers : slab'[p][i].cyc = cycle =>
              \/ slab'[p][i] = slab[p][i]
              \/ Current(o) /\ slab'[p][i] = OneGrad(p)
        /\ \A i \in Layers : slab[p][i].cyc = cycle => slab'[p][i] = slab[p][i]
    <2>1. Dest(p) = slab[p] /\ Dest(p)' = slab'[p]
      BY <1>1 DEF Dest
    <2>2. /\ \A i \in Layers : Dest(p)'[i].cyc = cycle =>
                \/ Dest(p)'[i] = Dest(p)[i] /\ ~(IsGrad(o) /\ o.arg = i)
                \/ Current(o) /\ o.arg = i /\ Dest(p)'[i] = OneGrad(p)
          /\ \A i \in Layers : Dest(p)[i].cyc = cycle => Dest(p)'[i] = Dest(p)[i]
      BY RunQueue
    <2> QED BY <2>1, <2>2
  <1>4. BarrierInv(p) /\ BucketInv(p) /\ GroupInv(p)
    BY DEF TpInv
  <1>5. ASSUME NEW k \in 1 .. Len(x), NEW m \in 1 .. Len(d) + 1, Behind(c, m + 1, k)
        PROVE  Behind(d, m, k)
    <2>1. k \in Nat \ {0} /\ (c[1].op = "await" => c[1].arg \in Nat)
      BY <1>1
    <2> QED BY <1>5, <2>1, BehindTail
  <1>6. BarrierInv(p)'
    <2> SUFFICES ASSUME NEW k \in 1 .. Len(x), Stale(x[k])
                 PROVE  /\ \A i \in Layers : slab'[p][i].cyc # cycle
                        /\ \A m \in 1 .. Len(d) : Current(d[m]) => Behind(d, m, k)
                        /\ host_pc[p] = "grads" => Behind(d, Len(d) + 1, k)
      BY <1>1, <1>2 DEF BarrierInv
    <2>1. /\ \A i \in Layers : slab[p][i].cyc # cycle
          /\ \A m \in 1 .. Len(c) : Current(c[m]) => Behind(c, m, k)
          /\ host_pc[p] = "grads" => Behind(c, Len(c) + 1, k)
      BY <1>4 DEF BarrierInv
    <2>2. ~Current(o)
      <3>1. ~Behind(c, 1, k)
        BY DEF Behind
      <3> QED BY <1>1, <2>1, <3>1
    <2>3. \A i \in Layers : slab'[p][i].cyc # cycle
      BY <1>3, <2>1, <2>2
    <2>4. ASSUME NEW m \in 1 .. Len(d), Current(d[m]) PROVE Behind(d, m, k)
      <3>1. m + 1 \in 1 .. Len(c) /\ d[m] = c[m + 1] /\ m \in 1 .. Len(d) + 1
        BY <1>1
      <3>2. Behind(c, m + 1, k)
        BY <2>1, <2>4, <3>1
      <3> QED BY <1>5, <3>1, <3>2
    <2>5. ASSUME host_pc[p] = "grads" PROVE Behind(d, Len(d) + 1, k)
      <3>1. Len(d) + 1 \in 1 .. Len(d) + 1
        BY <1>1
      <3>2. Behind(c, (Len(d) + 1) + 1, k)
        BY <1>1, <2>1, <2>5
      <3> QED BY <1>5, <3>1, <3>2
    <2> QED BY <2>3, <2>4, <2>5
  <1>7. BucketInv(p)'
    <2>1. ASSUME NEW k \in 1 .. Len(x), NEW i \in Layers, Reduces(x[k], i)
          PROVE  /\ GroupDone(i) /\ Done(p, i)
                 /\ \A m \in 1 .. Len(c) :
                       Current(c[m]) /\ i <= c[m].arg => ran[p] + m <= x[k].after
                 /\ \A l \in 1 .. k - 1 : \A j \in Layers : Reduces(x[l], j) => i < j
                 /\ host_pc[p] \notin {"sync", "answered"} => reduced + k <= pending[p]
      BY <1>4, <2>1 DEF BucketInv
    <2>2. ASSUME NEW k \in 1 .. Len(x), NEW i \in Layers, Reduces(x[k], i),
                 NEW m \in 1 .. Len(d), Current(d[m]), i <= d[m].arg
          PROVE  ran'[p] + m <= x[k].after
      <3>1. m + 1 \in 1 .. Len(c) /\ d[m] = c[m + 1]
        BY <1>1
      <3>2. ran[p] + (m + 1) <= x[k].after
        BY <2>1, <2>2, <3>1
      <3> DEFINE a == ran[p]
                 b == ran'[p]
      <3>3. a \in Nat /\ m \in Nat /\ b = a + 1
        BY <1>1
      <3> HIDE DEF a, b
      <3>4. a + (m + 1) = b + m
        BY <3>3
      <3> QED BY <3>2, <3>4 DEF a, b
    <2> QED BY <1>1, <1>2, <2>1, <2>2 DEF BucketInv
  <1>8. GroupInv(p)'
    <2> SUFFICES ASSUME NEW i \in Layers, GroupDone(i)
                 PROVE  Summed(p, i)' \/ Waits(p, i)'
      BY DEF GroupInv
    <2>1. Group(i) \subseteq Layers
      BY DEF Group
    <2>2. CASE Summed(p, i)
      <3>1. \A j \in Group(i) : slab'[p][j] = FinalGrad
        <4>1. FinalGrad.cyc = cycle
          BY DEF FinalGrad
        <4>2. \A j \in Group(i) : slab[p][j] = FinalGrad
          BY <2>2 DEF Summed
        <4> HIDE DEF FinalGrad
        <4> QED BY <1>3, <2>1, <4>1, <4>2
      <3> QED BY <1>1, <1>2, <2>2, <3>1 DEF Summed
    <2>3. CASE Waits(p, i)
      <3>1. \A j \in Group(i) : slab'[p][j].cyc = cycle => slab'[p][j] = OneGrad(p)
        BY <1>3, <2>1, <2>3 DEF Waits
      <3> QED BY <1>1, <1>2, <2>3, <3>1 DEF Waits
    <2> QED BY <1>4, <2>2, <2>3 DEF GroupInv
  <1> QED BY <1>6, <1>7, <1>8 DEF TpInv

\* With every stash run and every reduce of this cycle behind it, each slab
\* holds the sum over all ranks.
LEMMA AllSummed ==
    ASSUME NEW p, Tp, QueueInv(p), GroupInv(p), \A i \in Layers : Done(p, i),
           \A m \in 1 .. Len(compute[p]) : ~Current(compute[p][m]),
           \A k \in 1 .. Len(nccl[p]) : \A i \in Layers : ~Reduces(nccl[p][k], i)
    PROVE  Final(slab[p])
  <1> SUFFICES ASSUME NEW i \in Layers PROVE slab[p][i] = FinalGrad
    BY DEF Final
  <1>1. PICK j \in Layers : GroupDone(j) /\ Group(j) = Group(i) /\ i \in Group(i)
    BY GroupCloses
  <1>2. Summed(p, j) \/ Waits(p, j)
    BY <1>1 DEF GroupInv
  <1>3. ~Waits(p, j)
    BY DEF Waits
  <1> QED BY <1>1, <1>2, <1>3 DEF Summed

\* One rank's own gradients are the sum.
LEMMA AllWritten ==
    ASSUME NEW p \in Ranks, cfg \in Configs, ~Tp, QueueInv(p), AloneInv(p),
           \A i \in Layers : Done(p, i),
           \A m \in 1 .. Len(compute[p]) : ~Current(compute[p][m])
    PROVE  Final(grads[p])
  <1> SUFFICES ASSUME NEW i \in Layers PROVE grads[p][i] = FinalGrad
    BY DEF Final
  <1>1. grads[p][i].cyc = cycle
    BY DEF QueueInv, Dest
  <1>2. grads[p][i] = OneGrad(p)
    BY <1>1 DEF AloneInv
  <1> QED BY <1>2, OneRank DEF OneGrad, FinalGrad

\* Collect, clip and publish run in that order, behind all they need.
LEMMA RunSync ==
    ASSUME NEW p \in Ranks, NEW c, NEW d, c = compute[p], d = compute'[p],
           Runs(p, c, d), RankInv(p), cfg \in Configs, reduced \in Nat,
           Len(nccl[p]) \in Nat,
           \A m \in 1 .. Len(c) : c[m].op = "await" => c[m].arg \in Nat
    PROVE  SyncInv(p)'
  <1> DEFINE o == c[1]
             x == nccl[p]
  <1>1. /\ cycle' = cycle /\ (Tp' <=> Tp) /\ Ranks' = Ranks /\ reduced' = reduced
        /\ host_pc' = host_pc /\ nccl' = nccl
        /\ Len(c) = Len(d) + 1 /\ Len(c) \in Nat /\ Len(d) \in Nat
        /\ \A m \in 1 .. Len(d) : m + 1 \in 1 .. Len(c) /\ d[m] = c[m + 1]
        /\ 1 \in 1 .. Len(c) /\ c # <<>> /\ IsSeq(d)
        /\ o.op = "await" => reduced >= o.arg
        /\ IsGrad(o) => o.op = (IF Tp THEN "stash" ELSE "write")
    BY DEF Runs
  <1>2. /\ FinalGrad' = FinalGrad
        /\ \A e : Current(e)' <=> Current(e)
        /\ \A e, i : Reduces(e, i)' <=> Reduces(e, i)
        /\ \A g : Final(g)' <=> Final(g)
    BY <1>1 DEF FinalGrad, Current, Reduces, Final
  <1>3. host_pc[p] # "answered"
    BY <1>1 DEF RankInv, SyncInv, Published
  <1>4. CASE host_pc[p] # "sync"
    <2>1. \A m \in 1 .. Len(c) : ~Ends(c[m])
      BY <1>4 DEF RankInv, SyncInv
    <2>2. \A m \in 1 .. Len(d) : ~Ends(d[m])
      BY <1>1, <2>1
    <2> QED BY <1>1, <1>3, <1>4, <2>2 DEF SyncInv
  <1>5. CASE host_pc[p] = "sync"
    <2>1. \A i \in Layers : Done(p, i)
      BY <1>5 DEF Done, HostEnds
    <2>2. Publishes(p) /\ ((Tp /\ Collects(p)) \/ Collected(p))
      BY <1>1, <1>5 DEF RankInv, SyncInv, Published
    <2>3. ASSUME Len(d) > 0 PROVE Publishes(p)'
      <3>1. /\ c[Len(c)].op = "publish"
            /\ \A m \in 1 .. Len(c) - 1 : c[m].op # "publish"
        BY <2>2 DEF Publishes
      <3>2. Len(d) \in 1 .. Len(d) /\ Len(d) + 1 = Len(c)
        BY <1>1, <2>3
      <3>3. d[Len(d)].op = "publish"
        BY <1>1, <3>1, <3>2
      <3>4. \A m \in 1 .. Len(d) - 1 : m \in 1 .. Len(d) /\ m + 1 \in 1 .. Len(c) - 1
        BY <1>1
      <3>5. \A m \in 1 .. Len(d) - 1 : d[m].op # "publish"
        BY <1>1, <3>1, <3>4
      <3>6. d # <<>>
        BY <2>3
      <3> QED BY <3>3, <3>5, <3>6 DEF Publishes
    <2>4. CASE Tp /\ Collects(p)
      <3>1. PICK h \in 1 .. Len(c) : CollectsAt(p, h)
        BY <2>4 DEF Collects
      <3>2. /\ c[h].op = "collect"
            /\ \A m \in 1 .. Len(c) : (Current(c[m]) => m < h) /\ (c[m].op = "collect" => m = h)
            /\ \A k \in 1 .. Len(x) : \A i \in Layers : Reduces(x[k], i) =>
                  \E n \in 1 .. h - 1 : c[n].op = "await" /\ reduced + k <= c[n].arg
        BY <3>1 DEF CollectsAt
      <3>3. Len(d) > 0
        <4>1. c[Len(c)].op = "publish"
          BY <2>2 DEF Publishes
        <4>2. ASSUME Len(d) = 0 PROVE FALSE
          <5>1. h = Len(c)
            BY <1>1, <4>2
          <5> QED BY <3>2, <4>1, <5>1
        <4> QED BY <1>1, <4>2
      <3>4. CASE h = 1
        <4>1. \A m \in 1 .. Len(c) : ~Current(c[m])
          <5>1. \A m \in 1 .. Len(c) : ~(m < 1)
            BY <1>1
          <5> QED BY <3>2, <3>4, <5>1
        <4>2. \A k \in 1 .. Len(x) : \A i \in Layers : ~Reduces(x[k], i)
          <5>1. \A n : ~(n \in 1 .. 1 - 1)
            OBVIOUS
          <5> QED BY <3>2, <3>4, <5>1
        <4>3. Final(slab[p])
          BY <2>1, <2>4, <4>1, <4>2, AllSummed DEF RankInv, TpInv
        <4>4. \A i \in Layers : grads'[p][i] = slab[p][i]
          BY <3>2, <3>4 DEF Runs
        <4>5. Final(grads'[p])
          BY <4>3, <4>4 DEF Final
        <4>6. \A m \in 1 .. Len(d) : d[m].op # "collect"
          <5>1. \A m \in 1 .. Len(d) : m + 1 \in 1 .. Len(c) /\ m + 1 # 1
            BY <1>1
          <5> QED BY <1>1, <3>2, <3>4, <5>1
        <4>7. Collected(p)'
          BY <1>1, <1>2, <2>4, <4>5, <4>6 DEF Collected
        <4> QED BY <1>1, <1>3, <1>5, <2>3, <3>3, <4>7 DEF SyncInv
      <3>5. CASE h # 1
        <4>1. h - 1 \in 1 .. Len(d) /\ (h - 1) + 1 = h
          BY <1>1, <3>5
        <4>2. d[h - 1].op = "collect"
          BY <1>1, <3>2, <4>1
        <4>3. ASSUME NEW m \in 1 .. Len(d)
              PROVE  (Current(d[m]) => m < h - 1) /\ (d[m].op = "collect" => m = h - 1)
          <5>1. m + 1 \in 1 .. Len(c) /\ d[m] = c[m + 1]
            BY <1>1
          <5>2. (Current(d[m]) => m + 1 < h) /\ (d[m].op = "collect" => m + 1 = h)
            BY <3>2, <5>1
          <5> QED BY <1>1, <5>2
        <4>4. ASSUME NEW k \in 1 .. Len(x), NEW i \in Layers, Reduces(x[k], i)
              PROVE  \E n \in 1 .. (h - 1) - 1 : d[n].op = "await" /\ reduced + k <= d[n].arg
          <5>1. PICK n \in 1 .. h - 1 : c[n].op = "await" /\ reduced + k <= c[n].arg
            BY <3>2, <4>4
          <5>2. n \in 1 .. Len(c) /\ c[n].arg \in Nat
            BY <1>1, <5>1
          <5>3. n # 1
            <6>1. SUFFICES ASSUME n = 1 PROVE FALSE
              OBVIOUS
            <6>2. reduced >= c[n].arg
              BY <1>1, <5>1, <6>1
            <6> QED BY <5>1, <5>2, <6>2
          <5>4. n - 1 \in 1 .. (h - 1) - 1 /\ n - 1 \in 1 .. Len(d) /\ (n - 1) + 1 = n
            BY <1>1, <5>3
          <5>5. d[n - 1] = c[n]
            BY <1>1, <5>4
          <5> QED BY <5>1, <5>4, <5>5
        <4>5. CollectsAt(p, h - 1)'
          BY <1>1, <1>2, <4>2, <4>3, <4>4 DEF CollectsAt
        <4>6. Collects(p)'
          BY <4>1, <4>5 DEF Collects
        <4> QED BY <1>1, <1>3, <1>5, <2>3, <2>4, <3>3, <4>6 DEF SyncInv
      <3> QED BY <3>4, <3>5
    <2>5. CASE Collected(p)
      <3>1. /\ \A m \in 1 .. Len(c) : c[m].op # "collect"
            /\ Tp => Final(grads[p])
            /\ ~Tp => \A m \in 1 .. Len(c) : Current(c[m]) => m < Len(c)
        BY <2>5 DEF Collected
      <3>2. CASE Len(d) = 0
        <4>1. o.op = "publish"
          <5>1. c[Len(c)].op = "publish" /\ Len(c) = 1
            BY <1>1, <2>2, <3>2 DEF Publishes
          <5> QED BY <5>1
        <4>2. d = <<>>
          BY <1>1, <3>2, IsSeqFacts
        <4>3. Final(grads[p])
          <5>1. CASE Tp
            BY <3>1, <5>1
          <5>2. CASE ~Tp
            <6>1. \A m \in 1 .. Len(c) : ~Current(c[m])
              <7>1. \A m \in 1 .. Len(c) : ~(m < Len(c))
                BY <1>1, <3>2
              <7> QED BY <3>1, <5>2, <7>1
            <6> QED BY <2>1, <5>2, <6>1, AllWritten DEF RankInv
          <5> QED BY <5>1, <5>2
        <4>4. \A i \in Layers : served'[p][i] = grads[p][i]
          BY <4>1 DEF Runs
        <4>5. Published(p)'
          BY <1>2, <4>2, <4>3, <4>4 DEF Published, Final
        <4> QED BY <1>1, <1>3, <1>5, <4>5 DEF SyncInv
      <3>3. CASE Len(d) > 0
        <4>1. \A m \in 1 .. Len(d) : d[m].op # "collect"
          BY <1>1, <3>1
        <4>2. ASSUME Tp PROVE Final(grads'[p])
          <5>1. o.op # "collect" /\ o.op # "write"
            BY <1>1, <3>1, <4>2 DEF IsGrad
          <5>2. \A i \in Layers : grads'[p][i] = grads[p][i]
            BY <5>1 DEF Runs
          <5> QED BY <3>1, <4>2, <5>2 DEF Final
        <4>3. ASSUME ~Tp, NEW m \in 1 .. Len(d), Current(d[m]) PROVE m < Len(d)
          <5>1. m + 1 \in 1 .. Len(c) /\ d[m] = c[m + 1]
            BY <1>1
          <5>2. m + 1 < Len(c)
            BY <3>1, <4>3, <5>1
          <5> QED BY <1>1, <5>2
        <4>4. Collected(p)'
          BY <1>1, <1>2, <4>1, <4>2, <4>3 DEF Collected
        <4> QED BY <1>1, <1>3, <1>5, <2>3, <3>3, <4>4 DEF SyncInv
      <3> QED BY <1>1, <3>2, <3>3
    <2> QED BY <2>2, <2>4, <2>5
  <1> QED BY <1>4, <1>5

\* A GPU runs an operation.
LEMMA RunTrains ==
    ASSUME TrainInv, NEW p \in Ranks, RunCompute(p)
    PROVE  TrainInv'
  <1> DEFINE c == compute[p]
             d == compute'[p]
  <1>1. /\ TrainType /\ Runs(p, c, d) /\ TrainType'
        /\ \A r \in Ranks \ {p} : SameRank(r)
    BY RunFacts DEF TrainInv
  <1>2. cycle > 0 /\ cycle \in Nat /\ cycle' = cycle /\ Ranks' = Ranks /\ (Tp' <=> Tp)
    <2>1. compute[p] # <<>>
      BY <1>1 DEF Runs
    <2> QED BY <1>1, <2>1, CycleBegun DEF Runs
  <1>3. \A r \in Ranks : RankInv(r)
    BY <1>2 DEF TrainInv
  <1>4. \A r \in Ranks \ {p} : RankInv(r)'
    BY <1>1, <1>3, SameRankKeeps
  <1>5. /\ cfg \in Configs /\ reduced \in Nat /\ ran[p] \in Nat /\ Len(nccl[p]) \in Nat
        /\ \A m \in 1 .. Len(c) : c[m].op = "await" => c[m].arg \in Nat
    BY <1>1, IsSeqFacts DEF TrainType, OpType
  <1>6. QueueInv(p) /\ (Tp => TpInv(p)) /\ (~Tp => AloneInv(p))
    BY <1>3 DEF RankInv
  <1>7. ~Tp => c[1].op # "collect"
    <2>1. c # <<>> /\ 1 \in 1 .. Len(c)
      BY <1>1 DEF Runs
    <2>2. CASE host_pc[p] = "sync"
      BY <1>3, <2>1, <2>2 DEF RankInv, SyncInv, Collected, Published
    <2>3. CASE host_pc[p] # "sync"
      BY <1>3, <2>1, <2>3 DEF RankInv, SyncInv, Ends
    <2> QED BY <2>2, <2>3
  <1>8. /\ QueueInv(p)'
        /\ \A i \in Layers : Dest(p)'[i].cyc = cycle =>
              \/ /\ Dest(p)'[i] = Dest(p)[i] /\ ~(IsGrad(c[1]) /\ c[1].arg = i)
              \/ Current(c[1]) /\ c[1].arg = i /\ Dest(p)'[i] = OneGrad(p)
    BY <1>1, <1>2, <1>6, <1>7, RunQueue
  <1>9. SyncInv(p)'
    BY <1>1, <1>3, <1>5, RunSync
  <1>10. Tp => TpInv(p)'
    BY <1>1, <1>2, <1>5, <1>6, RunTp
  <1>11. ~Tp => AloneInv(p)'
    <2> SUFFICES ASSUME ~Tp, NEW i \in Layers, grads'[p][i].cyc = cycle
                 PROVE  grads'[p][i] = OneGrad(p)
      BY <1>2 DEF AloneInv, OneGrad
    <2>1. Dest(p)' = grads'[p] /\ Dest(p) = grads[p]
      BY <1>2 DEF Dest
    <2> QED BY <1>6, <1>8, <2>1 DEF AloneInv
  <1>12. RankInv(p)'
    BY <1>2, <1>8, <1>9, <1>10, <1>11 DEF RankInv
  <1> QED BY <1>1, <1>2, <1>4, <1>12 DEF TrainInv

-----------------------------------------------------------------------------
(***************************************************************************)
(* NCCL runs the collective at the head of every rank's queue.             *)
(***************************************************************************)
\* What a collective does to rank r, of whose queue x it leaves y: the slabs
\* that change are those of the group it reduces.
Reduced(r, x, y) ==
    /\ cfg' = cfg /\ cycle' = cycle /\ reduced' = reduced + 1
    /\ host_pc' = host_pc /\ layer' = layer /\ compute' = compute /\ pending' = pending
    /\ ran' = ran /\ grads' = grads /\ served' = served
    /\ x = nccl[r] /\ y = nccl'[r] /\ Len(x) = Len(y) + 1
    /\ Len(x) \in Nat /\ Len(y) \in Nat /\ IsSeq(y)
    /\ \A k \in 1 .. Len(y) : k + 1 \in 1 .. Len(x) /\ y[k] = x[k + 1]
    /\ 1 \in 1 .. Len(x) /\ x[1].after <= ran[r]
    /\ \A i \in Layers : slab'[r][i].cyc = slab[r][i].cyc
    /\ \A i \in Layers : slab'[r][i] # slab[r][i] =>
          x[1].call[2] = "bucket" /\ i \in Group(x[1].call[3])
    /\ Tp /\ Ranks' = Ranks /\ (Tp' <=> Tp)

\* The sum of a group over the ranks.
SumOf(i) == UNION {slab[q][i].parts : q \in Ranks}

\* A reduced gradient is one of the same cycle.
LEMMA ReducedGrad ==
    ASSUME NEW g \in GradSet, NEW s \in SUBSET Ranks
    PROVE  LET h == [g EXCEPT !.parts = s, !.sums = @ + 1]
           IN  /\ h \in GradSet /\ h.cyc = g.cyc
               /\ h.parts = s /\ h.sums = g.sums + 1
  <1> DEFINE n == g.sums + 1
             h == [g EXCEPT !.parts = s, !.sums = n]
  <1>1. n \in Nat
    BY DEF GradSet
  <1>2. h = [g EXCEPT !.parts = s, !.sums = @ + 1]
    OBVIOUS
  <1> HIDE DEF n
  <1>3. h \in GradSet
    BY <1>1, Zenon DEF GradSet
  <1>4. h.cyc = g.cyc
    BY DEF GradSet
  <1>5. h.parts = s /\ h.sums = n
    BY DEF GradSet
  <1> HIDE DEF h
  <1> QED BY <1>2, <1>3, <1>4, <1>5 DEF n

\* Gradients with the same fields are the same.
LEMMA SameGrad ==
    ASSUME NEW g \in GradSet, NEW h \in GradSet,
           g.cyc = h.cyc, g.parts = h.parts, g.sums = h.sums
    PROVE  g = h
  BY SMTT(60) DEF GradSet

\* What is left of the queues, and what is summed.
LEMMA ReduceFacts ==
    ASSUME TrainType, AllReduce
    PROVE  /\ \A r \in Ranks : Reduced(r, nccl[r], nccl'[r])
           /\ \A r \in Ranks : \A i \in Layers :
                 nccl[r][1].call[2] = "bucket" /\ i \in Group(nccl[r][1].call[3]) =>
                    slab'[r][i] = [slab[r][i] EXCEPT !.parts = SumOf(i), !.sums = @ + 1]
           /\ \A r, q \in Ranks : nccl[r][1].call = nccl[q][1].call
           /\ TrainType'
  <1>1. /\ Tp /\ cfg' = cfg /\ cycle' = cycle /\ UNCHANGED hostVars
        /\ reduced' = reduced + 1 /\ UNCHANGED <<ran, grads, served, compute, pending>>
        /\ nccl' = [r \in Ranks |-> Tail(nccl[r])]
        /\ \A r \in Ranks : nccl[r] # <<>>
        /\ Ranks' = Ranks /\ (Tp' <=> Tp)
    BY DEF AllReduce, cycleVars, Ranks, Tp
  <1>2. \A r \in Ranks : /\ IsSeq(nccl[r]) /\ Len(nccl[r]) \in Nat /\ Len(nccl[r]) > 0
                         /\ Head(nccl[r]) = nccl[r][1]
    BY <1>1, IsSeqFacts DEF TrainType
  <1>3. \A r \in Ranks :
           /\ IsSeq(nccl'[r]) /\ Len(nccl'[r]) = Len(nccl[r]) - 1
           /\ \A k \in 1 .. Len(nccl[r]) - 1 : nccl'[r][k] = nccl[r][k + 1]
    <2> SUFFICES ASSUME NEW r \in Ranks
                 PROVE  /\ IsSeq(nccl'[r]) /\ Len(nccl'[r]) = Len(nccl[r]) - 1
                        /\ \A k \in 1 .. Len(nccl[r]) - 1 : nccl'[r][k] = nccl[r][k + 1]
      OBVIOUS
    <2>1. nccl'[r] = Tail(nccl[r]) /\ nccl[r] # <<>> /\ IsSeq(nccl[r])
      BY <1>1, <1>2
    <2> QED BY <2>1, TailFacts
  <1>4. \A r \in Ranks :
           /\ Len(nccl[r]) = Len(nccl'[r]) + 1 /\ Len(nccl'[r]) \in Nat
           /\ 1 \in 1 .. Len(nccl[r])
           /\ \A k \in 1 .. Len(nccl'[r]) :
                 k + 1 \in 1 .. Len(nccl[r]) /\ nccl'[r][k] = nccl[r][k + 1]
    BY <1>2, <1>3
  <1>5. /\ \A r \in Ranks : nccl[r][1].after <= ran[r]
        /\ \A r, q \in Ranks : nccl[r][1].call = nccl[q][1].call
        /\ slab' = [r \in Ranks |-> [i \in Layers |->
              IF i \in (IF nccl[r][1].call[2] = "bucket" THEN Group(nccl[r][1].call[3]) ELSE {})
              THEN [slab[r][i] EXCEPT !.parts = SumOf(i), !.sums = @ + 1]
              ELSE slab[r][i]]]
    <2>1. /\ \A r \in Ranks : Head(nccl[r]).after <= ran[r]
          /\ \A r, q \in Ranks : Head(nccl[r]).call = Head(nccl[q]).call
          /\ slab' = [r \in Ranks |-> [i \in Layers |->
                IF i \in (IF Head(nccl[r]).call[2] = "bucket"
                          THEN Group(Head(nccl[r]).call[3]) ELSE {})
                THEN [slab[r][i] EXCEPT !.parts = SumOf(i), !.sums = @ + 1]
                ELSE slab[r][i]]]
      BY DEF AllReduce, SumOf
    <2> QED BY <1>2, <2>1
  <1>6. \A r \in Ranks : \A i \in Layers : slab[r][i] \in GradSet /\ slab[r][i].cyc <= cycle
    BY DEF TrainType
  <1>7. ASSUME NEW r \in Ranks, NEW i \in Layers
        PROVE  LET g == [slab[r][i] EXCEPT !.parts = SumOf(i), !.sums = @ + 1]
               IN  g \in GradSet /\ g.cyc = slab[r][i].cyc
    <2>1. SumOf(i) \in SUBSET Ranks
      BY <1>6 DEF SumOf, GradSet
    <2>2. slab[r][i] \in GradSet
      BY <1>6
    <2> QED BY <2>1, <2>2, ReducedGrad
  <1>8. /\ \A r \in Ranks : \A i \in Layers :
              /\ slab'[r][i] \in GradSet /\ slab'[r][i].cyc = slab[r][i].cyc
              /\ slab'[r][i] # slab[r][i] =>
                    nccl[r][1].call[2] = "bucket" /\ i \in Group(nccl[r][1].call[3])
              /\ nccl[r][1].call[2] = "bucket" /\ i \in Group(nccl[r][1].call[3]) =>
                    slab'[r][i] = [slab[r][i] EXCEPT !.parts = SumOf(i), !.sums = @ + 1]
        /\ slab' = [r \in Ranks |-> [i \in Layers |-> slab'[r][i]]]
    <2>1. slab' = [r \in Ranks |-> [i \in Layers |-> slab'[r][i]]]
      BY <1>5
    <2>2. ASSUME NEW r \in Ranks, NEW i \in Layers
          PROVE  /\ slab'[r][i] \in GradSet /\ slab'[r][i].cyc = slab[r][i].cyc
                 /\ slab'[r][i] # slab[r][i] =>
                       nccl[r][1].call[2] = "bucket" /\ i \in Group(nccl[r][1].call[3])
                 /\ nccl[r][1].call[2] = "bucket" /\ i \in Group(nccl[r][1].call[3]) =>
                       slab'[r][i] = [slab[r][i] EXCEPT !.parts = SumOf(i), !.sums = @ + 1]
      <3> DEFINE g == [slab[r][i] EXCEPT !.parts = SumOf(i), !.sums = @ + 1]
      <3>1. g \in GradSet /\ g.cyc = slab[r][i].cyc
        BY <1>7
      <3>2. slab'[r][i] =
               IF i \in (IF nccl[r][1].call[2] = "bucket" THEN Group(nccl[r][1].call[3]) ELSE {})
               THEN g ELSE slab[r][i]
        BY <1>5
      <3>3. slab[r][i] \in GradSet
        BY <1>6
      <3>4. slab'[r][i] =
               IF nccl[r][1].call[2] = "bucket" /\ i \in Group(nccl[r][1].call[3])
               THEN g ELSE slab[r][i]
        <4> HIDE DEF g
        <4> QED BY <3>2
      <3>5. /\ nccl[r][1].call[2] = "bucket" /\ i \in Group(nccl[r][1].call[3]) =>
                  slab'[r][i] = g
            /\ ~(nccl[r][1].call[2] = "bucket" /\ i \in Group(nccl[r][1].call[3])) =>
                  slab'[r][i] = slab[r][i]
        <4> HIDE DEF g
        <4> QED BY <3>4
      <3>6. slab'[r][i] \in GradSet /\ slab'[r][i].cyc = slab[r][i].cyc
        <4> HIDE DEF g
        <4> QED BY <3>1, <3>3, <3>5, SMTT(30)
      <3> QED BY <3>5, <3>6
    <2> QED BY <2>1, <2>2, Zenon
  <1>9. ASSUME NEW r \in Ranks PROVE Reduced(r, nccl[r], nccl'[r])
    BY <1>1, <1>2, <1>3, <1>4, <1>5, <1>8, ZenonT(40) DEF Reduced, hostVars
  <1>10. TrainType'
    <2>1. GradSet' = GradSet /\ (\A e : OpType(e)' <=> OpType(e))
          /\ (\A e : CallType(e)' <=> CallType(e))
      BY <1>1 DEF GradSet, OpType, CallType
    <2>2. ASSUME NEW r \in Ranks
          PROVE  \A k \in 1 .. Len(nccl'[r]) : CallType(nccl'[r][k])
      <3>1. \A k \in 1 .. Len(nccl[r]) : CallType(nccl[r][k])
        BY DEF TrainType
      <3> QED BY <1>4, <3>1
    <2>3. nccl' = [r \in Ranks |-> nccl'[r]]
      BY <1>1
    <2>4. slab' \in [Ranks -> [Layers -> GradSet]]
      <3>1. \A r \in Ranks : [i \in Layers |-> slab'[r][i]] \in [Layers -> GradSet]
        BY <1>8
      <3> DEFINE f(r) == [i \in Layers |-> slab'[r][i]]
      <3>2. slab' = [r \in Ranks |-> f(r)] /\ \A r \in Ranks : f(r) \in [Layers -> GradSet]
        BY <1>8, <3>1
      <3> HIDE DEF f
      <3> QED BY <3>2, SMTT(30)
    <2>5. /\ cfg \in Configs /\ cycle \in Nat /\ reduced \in Nat
          /\ host_pc \in [Ranks -> HostPc] /\ layer \in [Ranks -> Layers]
          /\ ran \in [Ranks -> Nat] /\ pending \in [Ranks -> Nat]
          /\ compute = [r \in Ranks |-> compute[r]]
          /\ \A r \in Ranks : IsSeq(compute[r])
          /\ \A r \in Ranks : \A m \in 1 .. Len(compute[r]) : OpType(compute[r][m])
          /\ grads \in [Ranks -> [Layers -> GradSet]]
          /\ served \in [Ranks -> [Layers -> GradSet]]
          /\ \A r \in Ranks : \A i \in Layers :
                slab[r][i].cyc <= cycle /\ grads[r][i].cyc <= cycle
      BY SMTT(30) DEF TrainType
    <2>6. \A r \in Ranks : \A i \in Layers : slab'[r][i].cyc <= cycle
      BY <1>8, <2>5
    <2>7. /\ host_pc' = host_pc /\ layer' = layer /\ ran' = ran /\ compute' = compute
          /\ grads' = grads /\ served' = served /\ pending' = pending
          /\ reduced' \in Nat
      BY <1>1, <2>5 DEF hostVars
    <2>8. \A r \in Ranks : IsSeq(nccl'[r])
      BY <1>3
    <2> QED
      BY <1>1, <2>1, <2>2, <2>3, <2>4, <2>5, <2>6, <2>7, <2>8,
         ZenonT(40)
      DEF TrainType
  <1> QED BY <1>5, <1>8, <1>9, <1>10, Zenon

\* A bucket of this cycle is at the head only when every stash of its group
\* has run on every rank: what it sums are the ranks' own gradients.
LEMMA BucketSums ==
    ASSUME TrainType, AllReduce, \A r \in Ranks : RankInv(r),
           NEW r \in Ranks, NEW b \in Layers, Reduces(nccl[r][1], b)
    PROVE  /\ GroupDone(b) /\ Done(r, b)
           /\ \A j \in Group(b) : slab'[r][j] = FinalGrad
  <1>1. /\ Tp /\ \A q \in Ranks : Reduced(q, nccl[q], nccl'[q])
        /\ \A q \in Ranks : Reduces(nccl[q][1], b)
    BY ReduceFacts DEF Reduced, Reduces
  <1>2. Group(b) \subseteq Layers /\ Layers \subseteq Nat
    BY CycleAssumption DEF Group, Layers
  <1>3. ASSUME NEW q \in Ranks
        PROVE  /\ GroupDone(b) /\ Done(q, b)
               /\ \A j \in Group(b) : slab[q][j] = OneGrad(q)
    <2>1. /\ 1 \in 1 .. Len(nccl[q]) /\ Reduces(nccl[q][1], b)
          /\ nccl[q][1].after <= ran[q]
      BY <1>1 DEF Reduced
    <2>2. QueueInv(q) /\ BucketInv(q) /\ GroupInv(q)
      BY <1>1 DEF RankInv, TpInv
    <2>3. /\ GroupDone(b) /\ Done(q, b)
          /\ \A m \in 1 .. Len(compute[q]) :
                Current(compute[q][m]) /\ b <= compute[q][m].arg =>
                   ran[q] + m <= nccl[q][1].after
      BY <2>1, <2>2 DEF BucketInv
    <2>4. Waits(q, b)
      BY <2>1, <2>2, <2>3 DEF GroupInv, Summed
    <2>5. ASSUME NEW j \in Group(b) PROVE slab[q][j] = OneGrad(q)
      <3>1. b <= j /\ j \in Layers
        BY <1>2, <2>3, <2>5 DEF GroupDone
      <3>2. Done(q, j)
        <4>1. layer[q] \in Nat /\ b \in Nat /\ j \in Nat
          BY <1>2, <3>1 DEF TrainType
        <4> QED BY <2>3, <3>1, <4>1 DEF Done
      <3>3. ASSUME NEW m \in 1 .. Len(compute[q]), Current(compute[q][m]),
                   compute[q][m].arg = j
            PROVE  FALSE
        <4>1. ran[q] + m <= nccl[q][1].after
          BY <2>3, <3>1, <3>3
        <4>2. /\ ran[q] \in Nat /\ m \in Nat /\ m > 0
              /\ nccl[q][1].after \in Nat /\ Len(compute[q]) \in Nat
          BY <2>1, IsSeqFacts DEF TrainType, CallType
        <4> QED BY <2>1, <4>1, <4>2, SMTT(30)
      <3>4. Dest(q)[j].cyc = cycle
        BY <2>2, <3>1, <3>2, <3>3 DEF QueueInv
      <3> QED BY <1>1, <2>4, <2>5, <3>4 DEF Waits, Dest
    <2> QED BY <2>3, <2>5
  <1>4. ASSUME NEW j \in Group(b) PROVE slab'[r][j] = FinalGrad
    <2>1. j \in Layers
      BY <1>2, <1>4
    <2>2. \A q \in Ranks : slab[q][j] = OneGrad(q)
      BY <1>3, <1>4
    <2>3. SumOf(j) = Ranks
      <3>1. \A q \in Ranks : slab[q][j].parts = {q}
        <4> TAKE q \in Ranks
        <4>1. slab[q][j] = OneGrad(q)
          BY <2>2
        <4> QED BY <4>1 DEF OneGrad
      <3> QED BY <3>1 DEF SumOf
    <2>4. nccl[r][1].call[2] = "bucket" /\ nccl[r][1].call[3] = b
      BY DEF Reduces
    <2>5. slab'[r][j] = [slab[r][j] EXCEPT !.parts = SumOf(j), !.sums = @ + 1]
      BY <1>4, <2>1, <2>4, ReduceFacts
    <2>6. /\ slab'[r][j] \in GradSet /\ slab'[r][j].cyc = slab[r][j].cyc
          /\ slab'[r][j].parts = Ranks /\ slab'[r][j].sums = slab[r][j].sums + 1
      <3>1. slab[r][j] \in GradSet /\ Ranks \in SUBSET Ranks
        BY <2>1 DEF TrainType
      <3> DEFINE g == slab[r][j]
                 h == [g EXCEPT !.parts = Ranks, !.sums = @ + 1]
      <3> HIDE DEF g
      <3>2. g \in GradSet
        BY <3>1 DEF g
      <3>3. h \in GradSet /\ h.cyc = g.cyc /\ h.parts = Ranks /\ h.sums = g.sums + 1
        BY <3>1, <3>2, ReducedGrad
      <3>4. slab'[r][j] = h
        BY <2>3, <2>5 DEF g
      <3> HIDE DEF h
      <3> QED BY <3>3, <3>4 DEF g
    <2>7. slab[r][j].cyc = cycle /\ slab[r][j].sums + 1 = 1
      <3>1. slab[r][j] = OneGrad(r)
        BY <2>2
      <3> QED BY <3>1 DEF OneGrad
    <2>8. /\ FinalGrad \in GradSet /\ FinalGrad.cyc = cycle
          /\ FinalGrad.parts = Ranks /\ FinalGrad.sums = 1
      BY <1>1 DEF FinalGrad, GradSet, TrainType
    <2> QED BY <2>6, <2>7, <2>8, SameGrad
  <1> QED BY <1>3, <1>4

\* The queues move up, and the group's slabs are summed.
LEMMA ReduceKeeps ==
    ASSUME TrainType, AllReduce, \A r \in Ranks : RankInv(r), NEW r \in Ranks
    PROVE  RankInv(r)'
  <1> DEFINE x == nccl[r]
             y == nccl'[r]
             c == compute[r]
             e == nccl[r][1]
  <1>1. /\ cfg' = cfg /\ cycle' = cycle /\ reduced' = reduced + 1
        /\ host_pc' = host_pc /\ layer' = layer /\ compute' = compute /\ pending' = pending
        /\ ran' = ran /\ grads' = grads /\ served' = served
        /\ Len(x) = Len(y) + 1 /\ Len(x) \in Nat /\ Len(y) \in Nat
        /\ \A k \in 1 .. Len(y) : k + 1 \in 1 .. Len(x) /\ y[k] = x[k + 1]
        /\ 1 \in 1 .. Len(x) /\ e.after <= ran[r]
        /\ \A i \in Layers : slab'[r][i].cyc = slab[r][i].cyc
        /\ \A i \in Layers : slab'[r][i] # slab[r][i] =>
              e.call[2] = "bucket" /\ i \in Group(e.call[3])
        /\ Tp /\ Ranks' = Ranks /\ (Tp' <=> Tp)
    BY ReduceFacts DEF Reduced
  <1>2. /\ FinalGrad' = FinalGrad /\ OneGrad(r)' = OneGrad(r)
        /\ \A i : Done(r, i)' <=> Done(r, i)
        /\ \A o : Current(o)' <=> Current(o)
        /\ \A a : Stale(a)' <=> Stale(a)
        /\ \A a, i : Reduces(a, i)' <=> Reduces(a, i)
        /\ \A g : Final(g)' <=> Final(g)
    BY <1>1 DEF FinalGrad, OneGrad, Done, Current, Stale, Reduces, Final
  <1>3. QueueInv(r) /\ SyncInv(r) /\ BarrierInv(r) /\ BucketInv(r) /\ GroupInv(r)
    BY <1>1 DEF RankInv, TpInv
  <1>4. reduced \in Nat /\ cycle \in Nat /\ Layers \subseteq Nat
        /\ \A m \in 1 .. Len(c) : c[m].op = "await" => c[m].arg \in Nat
    BY CycleAssumption DEF TrainType, Layers, OpType
  <1>5. \A k \in 1 .. Len(y) : reduced + (k + 1) = reduced' + k
    BY <1>1, <1>4
  <1>6. QueueInv(r)'
    <2>1. \A i \in Layers : Dest(r)'[i].cyc = Dest(r)[i].cyc
      BY <1>1 DEF Dest
    <2> QED BY <1>1, <1>2, <1>3, <2>1 DEF QueueInv
  <1>7. SyncInv(r)'
    <2>1. ASSUME NEW h \in 1 .. Len(c), CollectsAt(r, h) PROVE CollectsAt(r, h)'
      <3>1. /\ c[h].op = "collect"
            /\ \A m \in 1 .. Len(c) : (Current(c[m]) => m < h) /\ (c[m].op = "collect" => m = h)
            /\ \A k \in 1 .. Len(x) : \A i \in Layers : Reduces(x[k], i) =>
                  \E n \in 1 .. h - 1 : c[n].op = "await" /\ reduced + k <= c[n].arg
        BY <2>1 DEF CollectsAt
      <3>2. \A k \in 1 .. Len(y) : \A i \in Layers : Reduces(y[k], i) =>
               \E n \in 1 .. h - 1 : c[n].op = "await" /\ reduced' + k <= c[n].arg
        <4> SUFFICES ASSUME NEW k \in 1 .. Len(y), NEW i \in Layers, Reduces(y[k], i)
                     PROVE  \E n \in 1 .. h - 1 : c[n].op = "await" /\ reduced' + k <= c[n].arg
          OBVIOUS
        <4>1. k + 1 \in 1 .. Len(x) /\ Reduces(x[k + 1], i)
          BY <1>1
        <4>2. PICK n \in 1 .. h - 1 : c[n].op = "await" /\ reduced + (k + 1) <= c[n].arg
          BY <3>1, <4>1
        <4> QED BY <1>5, <4>2
      <3> QED BY <1>1, <1>2, <3>1, <3>2 DEF CollectsAt
    <2>2. Collects(r) => Collects(r)'
      BY <1>1, <2>1 DEF Collects
    <2>3. /\ Publishes(r)' <=> Publishes(r)
          /\ Collected(r)' <=> Collected(r)
          /\ Published(r)' <=> Published(r)
      BY <1>1, <1>2 DEF Publishes, Collected, Published
    <2> QED BY <1>1, <1>3, <2>2, <2>3 DEF SyncInv
  <1>8. BarrierInv(r)'
    <2> SUFFICES ASSUME NEW k \in 1 .. Len(y), Stale(y[k])
                 PROVE  /\ \A i \in Layers : slab'[r][i].cyc # cycle
                        /\ \A m \in 1 .. Len(c) : Current(c[m]) => Behind(c, m, k)'
                        /\ host_pc[r] = "grads" => Behind(c, Len(c) + 1, k)'
      BY <1>1, <1>2 DEF BarrierInv
    <2>1. k + 1 \in 1 .. Len(x) /\ Stale(x[k + 1])
      BY <1>1
    <2>2. /\ \A i \in Layers : slab[r][i].cyc # cycle
          /\ \A m \in 1 .. Len(c) : Current(c[m]) => Behind(c, m, k + 1)
          /\ host_pc[r] = "grads" => Behind(c, Len(c) + 1, k + 1)
      BY <1>3, <2>1 DEF BarrierInv
    <2>3. \A s, m : Behind(s, m, k + 1) => Behind(s, m, k)'
      BY <1>5 DEF Behind
    <2> QED BY <1>1, <2>2, <2>3
  <1>9. BucketInv(r)'
    <2>1. ASSUME NEW k \in 1 .. Len(y), NEW i \in Layers, Reduces(y[k], i)
          PROVE  /\ GroupDone(i) /\ Done(r, i)
                 /\ \A m \in 1 .. Len(c) :
                       Current(c[m]) /\ i <= c[m].arg => ran[r] + m <= y[k].after
                 /\ \A l \in 1 .. k - 1 : \A j \in Layers : Reduces(y[l], j) => i < j
                 /\ host_pc[r] \notin {"sync", "answered"} => reduced' + k <= pending[r]
      <3>1. k + 1 \in 1 .. Len(x) /\ y[k] = x[k + 1]
        BY <1>1
      <3>2. /\ GroupDone(i) /\ Done(r, i)
            /\ \A m \in 1 .. Len(c) :
                  Current(c[m]) /\ i <= c[m].arg => ran[r] + m <= x[k + 1].after
            /\ \A l \in 1 .. (k + 1) - 1 : \A j \in Layers : Reduces(x[l], j) => i < j
            /\ host_pc[r] \notin {"sync", "answered"} => reduced + (k + 1) <= pending[r]
        BY <1>3, <2>1, <3>1 DEF BucketInv
      <3>3. \A l \in 1 .. k - 1 : l \in 1 .. Len(y) /\ l + 1 \in 1 .. (k + 1) - 1
        BY <1>1
      <3>4. \A l \in 1 .. k - 1 : y[l] = x[l + 1]
        BY <1>1, <3>3
      <3> QED BY <1>5, <3>1, <3>2, <3>3, <3>4
    <2> QED BY <1>1, <1>2, <2>1 DEF BucketInv
  <1>10. GroupInv(r)'
    <2> SUFFICES ASSUME NEW i \in Layers, GroupDone(i)
                 PROVE  Summed(r, i)' \/ Waits(r, i)'
      BY DEF GroupInv
    <2>1. i \in Group(i) /\ Group(i) \subseteq Layers
      BY DEF Group
    <2>2. Summed(r, i) \/ Waits(r, i)
      BY <1>3 DEF GroupInv
    <2>3. \A k \in 1 .. Len(y) : Reduces(y[k], i) =>
             k + 1 \in 1 .. Len(x) /\ Reduces(x[k + 1], i)
      BY <1>1
    <2>4. (\E k \in 1 .. Len(x) : Reduces(x[k], i)) /\ ~Reduces(e, i) =>
             \E k \in 1 .. Len(y) : Reduces(y[k], i)
      <3> SUFFICES ASSUME NEW k \in 1 .. Len(x), Reduces(x[k], i), ~Reduces(e, i)
                   PROVE  \E l \in 1 .. Len(y) : Reduces(y[l], i)
        OBVIOUS
      <3>1. k # 1
        OBVIOUS
      <3>2. k - 1 \in 1 .. Len(y) /\ (k - 1) + 1 = k
        BY <1>1, <3>1
      <3>3. y[k - 1] = x[k]
        BY <1>1, <3>2
      <3> QED BY <3>2, <3>3
    <2>5. ASSUME ~Reduces(e, i), \A j \in Group(i) : slab'[r][j] = slab[r][j]
          PROVE  Summed(r, i)' \/ Waits(r, i)'
      <3>1. CASE Summed(r, i)
        BY <1>1, <1>2, <2>3, <2>5, <3>1 DEF Summed
      <3>2. CASE Waits(r, i)
        BY <1>1, <1>2, <2>4, <2>5, <3>2 DEF Waits
      <3> QED BY <2>2, <3>1, <3>2
    <2>6. CASE \E b \in Layers : Reduces(e, b)
      <3>1. PICK b \in Layers : Reduces(e, b)
        BY <2>6
      <3>2. /\ GroupDone(b) /\ Done(r, b)
            /\ \A j \in Group(b) : slab'[r][j] = FinalGrad
        BY <3>1, BucketSums
      <3>3. e.call[2] = "bucket" /\ e.call[3] = b
        BY <3>1 DEF Reduces
      <3>4. CASE i = b
        <4>1. \A k \in 1 .. Len(y) : ~Reduces(y[k], b)
          <5> SUFFICES ASSUME NEW k \in 1 .. Len(y), Reduces(y[k], b) PROVE FALSE
            OBVIOUS
          <5>1. k + 1 \in 1 .. Len(x) /\ Reduces(x[k + 1], b) /\ 1 \in 1 .. (k + 1) - 1
            BY <1>1
          <5>2. b < b
            BY <1>3, <3>1, <5>1 DEF BucketInv
          <5> QED BY <1>4, <5>2
        <4> QED BY <1>1, <1>2, <3>2, <3>4, <4>1 DEF Summed
      <3>5. CASE i # b
        <4>1. ~Reduces(e, i)
          BY <3>3, <3>5 DEF Reduces
        <4>2. \A j \in Group(i) : j \notin Group(b)
          <5> SUFFICES ASSUME NEW j \in Group(i), j \in Group(b) PROVE FALSE
            OBVIOUS
          <5>1. Group(i) = Group(j) /\ Group(b) = Group(j) /\ b \in Group(b)
            BY GroupsSame DEF Group
          <5>2. i <= b /\ b <= i /\ i \in Nat /\ b \in Nat
            BY <1>4, <2>1, <3>2, <5>1 DEF GroupDone
          <5> QED BY <3>5, <5>2
        <4>3. \A j \in Group(i) : slab'[r][j] = slab[r][j]
          BY <1>1, <2>1, <3>3, <4>2
        <4> QED BY <2>5, <4>1, <4>3
      <3> QED BY <3>4, <3>5
    <2>7. CASE Stale(e)
      <3>1. /\ \A j \in Layers : slab[r][j].cyc # cycle
            /\ ~Reduces(e, i)
        <4>1. \A j \in Layers : slab[r][j].cyc # cycle
          BY <1>1, <1>3, <2>7 DEF BarrierInv
        <4>2. e.call[1] # cycle
          BY <1>4, <2>7 DEF Stale
        <4> QED BY <4>1, <4>2 DEF Reduces
      <3>2. ~Summed(r, i)
        BY <2>1, <3>1 DEF Summed, FinalGrad
      <3>3. \A j \in Group(i) : slab'[r][j].cyc # cycle
        BY <1>1, <2>1, <3>1
      <3> QED BY <1>1, <1>2, <2>2, <2>4, <3>1, <3>2, <3>3 DEF Waits
    <2>8. CASE ~(\E b \in Layers : Reduces(e, b)) /\ ~Stale(e)
      <3>1. e.call[2] # "bucket"
        <4>1. CallType(e)
          BY <1>1 DEF TrainType
        <4>2. SUFFICES ASSUME e.call[2] = "bucket" PROVE FALSE
          OBVIOUS
        <4>3. e.call[1] = cycle /\ e.call[3] \in Layers
          BY <1>4, <2>8, <4>1, <4>2, SMTT(30) DEF CallType, Stale
        <4> QED BY <2>8, <4>2, <4>3 DEF Reduces
      <3>2. \A j \in Group(i) : slab'[r][j] = slab[r][j]
        BY <1>1, <2>1, <3>1
      <3> QED BY <2>5, <2>8, <3>2
    <2> QED BY <2>6, <2>7, <2>8
  <1> QED BY <1>1, <1>6, <1>7, <1>8, <1>9, <1>10, SMTT(30) DEF RankInv, TpInv

\* The collective runs on every rank.
LEMMA ReduceTrains ==
    ASSUME TrainInv, AllReduce
    PROVE  TrainInv'
  <1>1. TrainType /\ \A r \in Ranks : nccl[r] # <<>>
    BY DEF TrainInv, AllReduce
  <1>2. PICK q : q \in Ranks
    BY <1>1, CycleAssumption DEF TrainType, Ranks
  <1>3. cycle > 0 /\ cycle \in Nat
    BY <1>1, <1>2, CycleBegun
  <1>4. \A r \in Ranks : RankInv(r)
    BY <1>3 DEF TrainInv
  <1>5. TrainType' /\ Ranks' = Ranks /\ cycle' = cycle
    BY <1>1, <1>2, ReduceFacts DEF Reduced
  <1>6. \A r \in Ranks : RankInv(r)'
    BY <1>1, <1>4, ReduceKeeps
  <1> QED BY <1>3, <1>5, <1>6 DEF TrainInv

-----------------------------------------------------------------------------
\* On every rank and at every step each gradient of the cycle waits in the
\* stream, in the slab or in a reduce, in order behind what a cycle given up
\* has left, and what is collected or published has been summed.
THEOREM TrainInvariant == Spec => []TrainInv
  <1>1. Init => TrainInv
    <2> SUFFICES ASSUME Init PROVE TrainInv
      OBVIOUS
    <2>1. /\ cfg \in Configs /\ cycle = 0
          /\ host_pc = [r \in Ranks |-> "answered"] /\ layer = [r \in Ranks |-> L]
          /\ compute = [r \in Ranks |-> <<>>] /\ nccl = [r \in Ranks |-> <<>>]
          /\ ran = [r \in Ranks |-> 0] /\ reduced = 0 /\ pending = [r \in Ranks |-> 0]
          /\ slab = [r \in Ranks |-> NoGrad] /\ grads = [r \in Ranks |-> NoGrad]
          /\ served = [r \in Ranks |-> NoGrad]
      BY DEF Init
    <2>2. L \in Layers /\ "answered" \in HostPc
      BY CycleAssumption DEF Layers, HostPc
    <2>3. /\ NoGrad \in [Layers -> GradSet]
          /\ \A i \in Layers : NoGrad[i].cyc = 0
      <3>1. [cyc |-> 0, parts |-> {}, sums |-> 0] \in GradSet
        BY DEF GradSet
      <3> QED BY <3>1 DEF NoGrad
    <2>4. IsSeq(<<>>) /\ Len(<<>>) = 0 /\ (\A m : ~(m \in 1 .. Len(<<>>)))
      BY OneFacts
    <2> HIDE DEF NoGrad
    <2>5. TrainType
      <3>1. \A r \in Ranks : compute[r] = <<>> /\ nccl[r] = <<>>
        BY <2>1
      <3>2. \A r \in Ranks : IsSeq(compute[r]) /\ IsSeq(nccl[r])
        BY <2>4, <3>1
      <3>3. /\ \A r \in Ranks : \A m \in 1 .. Len(compute[r]) : OpType(compute[r][m])
            /\ \A r \in Ranks : \A k \in 1 .. Len(nccl[r]) : CallType(nccl[r][k])
        BY <2>4, <3>1
      <3>4. \A r \in Ranks : \A i \in Layers :
               slab[r][i].cyc <= cycle /\ grads[r][i].cyc <= cycle
        BY <2>1, <2>3
      <3> QED BY <2>1, <2>2, <2>3, <3>2, <3>3, <3>4 DEF TrainType
    <2> QED BY <2>1, <2>5 DEF TrainInv
  <1>2. BoundaryInv /\ TrainInv /\ [Next]_vars => TrainInv'
    <2> SUFFICES ASSUME BoundaryInv, TrainInv, [Next]_vars PROVE TrainInv'
      OBVIOUS
    <2>1. CASE Trigger
      BY <2>1, TriggerTrains
    <2>2. CASE Agree
      BY <2>2, AgreeTrains
    <2>3. CASE AllReduce
      BY <2>3, ReduceTrains
    <2>4. ASSUME NEW p \in Ranks, Child(p) PROVE TrainInv'
      <3>1. CASE RecordEvent(p)
        BY <3>1, RecordTrains
      <3>2. CASE Forward(p) \/ Ffn(p) \/ Attn(p)
        BY <3>2, LayerTrains
      <3>3. CASE Grads(p)
        BY <3>3, GradsTrains
      <3>4. CASE Finish(p)
        BY <3>4, FinishTrains
      <3>5. CASE Answer(p)
        BY <3>5, AnswerTrains
      <3> QED BY <2>4, <3>1, <3>2, <3>3, <3>4, <3>5 DEF Child
    <2>5. ASSUME NEW p \in Ranks, RunCompute(p) PROVE TrainInv'
      BY <2>5, RunTrains
    <2>6. CASE UNCHANGED vars
      <3>1. /\ cfg' = cfg /\ cycle' = cycle /\ reduced' = reduced
            /\ host_pc' = host_pc /\ layer' = layer /\ compute' = compute
            /\ ran' = ran /\ nccl' = nccl /\ pending' = pending
            /\ slab' = slab /\ grads' = grads /\ served' = served
            /\ Ranks' = Ranks
        BY <2>6 DEF vars, cycleVars, hostVars, gpuVars, queueVars, Ranks
      <3>2. \A r \in Ranks : SameRank(r)
        BY <3>1 DEF SameRank
      <3>3. TrainType'
        <4>1. GradSet' = GradSet /\ (\A o : OpType(o)' <=> OpType(o))
              /\ (\A e : CallType(e)' <=> CallType(e))
          BY <3>1 DEF GradSet, OpType, CallType, Tp
        <4> QED BY <3>1, <4>1 DEF TrainInv, TrainType
      <3>4. cycle > 0 => \A r \in Ranks : RankInv(r)'
        BY <3>2, SameRankKeeps DEF TrainInv
      <3> QED BY <3>1, <3>3, <3>4 DEF TrainInv
    <2> QED BY <2>1, <2>2, <2>3, <2>4, <2>5, <2>6 DEF Next, Run
  <1> QED BY <1>1, <1>2, BoundaryInvariant, PTL DEF Spec

\* Whatever order hosts, compute streams and collectives run in, for every
\* number of ranks and layers, every grouping of them, every run-ahead and a
\* cycle given up half-way before: an answered cycle serves the step made from
\* this cycle's gradients of every layer, each summed over all ranks by
\* exactly one reduce (tp.py:122, trainer.py:513).
THEOREM TrainsOnEveryRank == Spec => []ServesWhatWasTrained
  <1>1. TrainInv => ServesWhatWasTrained
    BY DEF TrainInv, RankInv, SyncInv, Published, Final, FinalGrad,
           ServesWhatWasTrained
  <1> QED BY <1>1, TrainInvariant, PTL
=============================================================================
