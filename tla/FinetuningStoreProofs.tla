----------------------- MODULE FinetuningStoreProofs -----------------------
(***************************************************************************)
(* The bucket index is coherent after every sequence of claims, commits,   *)
(* releases and epochs, for every corpus, and the store implements the     *)
(* plain pool of samples.                                                  *)
(***************************************************************************)
EXTENDS FinetuningStore, TLAPS

\* The record every operation returns, so that a field of it can be read off.
StoreRecord ==
    /\ store = [buckets |-> store.buckets, lengths |-> store.lengths,
                trained |-> store.trained, claimed |-> store.claimed,
                epoch |-> store.epoch]
    /\ store.trained \subseteq Samples
    /\ store.claimed \subseteq Samples
    /\ store.trained \intersect store.claimed = {}
    /\ store.epoch \in 0 .. TotalEpochs

\* Keys of the index are exactly the lengths that still have a selectable
\* sample, and each bucket holds exactly those samples.
Index ==
    /\ store.lengths = LengthsOf(Samples \ (store.trained \union store.claimed))
    /\ store.buckets =
         [l \in store.lengths |->
            OfLength(Samples \ (store.trained \union store.claimed), l)]

IInv == StoreRecord /\ Index

\* load builds a coherent index.
LEMMA InitIInv == Init => IInv
  BY StoreAssumption
  DEF Init, Fresh, IInv, StoreRecord, Index

\* claim takes samples out of their buckets and drops the emptied ones.
LEMMA ClaimIInv ==
  ASSUME IInv, NEW S \in SUBSET Corpus, store' = Claim(store, S)
  PROVE  /\ IInv'
         /\ AsPool' = Pool!Claim(AsPool, S \intersect Samples)
<1> DEFINE taken == (S \intersect Samples) \ (store.trained \union store.claimed)
           open  == Samples \ (store.trained \union store.claimed)
           drained == {l \in LengthsOf(taken) \intersect DOMAIN store.buckets :
                         store.buckets[l] \ OfLength(taken, l) = {}}
<1>1. store' = [buckets |-> [l \in DOMAIN store.buckets \ drained |->
                               store.buckets[l] \ OfLength(taken, l)],
                lengths |-> store.lengths \ drained,
                trained |-> store.trained,
                claimed |-> store.claimed \union taken,
                epoch   |-> store.epoch]
  BY DEF IInv, StoreRecord, Claim
<1>2. StoreRecord'
  BY <1>1 DEF IInv, StoreRecord
<1>3. Samples \ (store'.trained \union store'.claimed) = open \ taken
  BY <1>1
<1>4. DOMAIN store.buckets = store.lengths /\ store.lengths = LengthsOf(open)
  BY DEF IInv, Index
<1>5. \A l \in store.lengths :
         store.buckets[l] \ OfLength(taken, l) = OfLength(open \ taken, l)
  BY DEF IInv, Index, OfLength
<1>6. store.lengths \ drained = LengthsOf(open \ taken)
  BY <1>4, <1>5 DEF LengthsOf, OfLength
<1>7. Index'
  <2>0. /\ store'.lengths = store.lengths \ drained
        /\ store'.buckets = [l \in store.lengths \ drained |->
                               store.buckets[l] \ OfLength(taken, l)]
    BY <1>1, <1>4
  <2> HIDE DEF taken, open, drained
  <2>1. store'.lengths = LengthsOf(open \ taken)
    BY <2>0, <1>6
  <2>2. store'.buckets = [l \in store'.lengths |-> OfLength(open \ taken, l)]
    BY <2>0, <1>5
  <2> QED BY <1>3, <2>1, <2>2 DEF Index
<1>8. AsPool' = Pool!Claim(AsPool, S \intersect Samples)
  <2>1. AsPool' = [trained |-> store.trained,
                   claimed |-> store.claimed \union taken,
                   epoch |-> store.epoch]
    BY <1>1 DEF AsPool
  <2>2. (S \intersect Samples) \intersect Pool!Selectable(AsPool) = taken
    BY DEF AsPool, Pool!Selectable
  <2> HIDE DEF taken
  <2>3. Pool!Claim(AsPool, S \intersect Samples)
          = [AsPool EXCEPT !.claimed = @ \union taken]
    BY <2>2 DEF Pool!Claim
  <2> QED BY <2>1, <2>3 DEF AsPool
<1> QED BY <1>2, <1>7, <1>8 DEF IInv

\* commit_claimed does not touch the index.
LEMMA CommitIInv ==
  ASSUME IInv, NEW S \in SUBSET Corpus, store' = CommitClaimed(store, S)
  PROVE  /\ IInv'
         /\ AsPool' = Pool!CommitClaimed(AsPool, S \intersect Samples)
<1> DEFINE done == S \intersect store.claimed
<1>1. store' = [buckets |-> store.buckets, lengths |-> store.lengths,
                trained |-> store.trained \union done,
                claimed |-> store.claimed \ done,
                epoch   |-> store.epoch]
  BY DEF IInv, StoreRecord, CommitClaimed
<1>2. StoreRecord'
  BY <1>1 DEF IInv, StoreRecord
<1>3. store'.trained \union store'.claimed = store.trained \union store.claimed
  BY <1>1
<1>4. Index'
  BY <1>1, <1>3 DEF IInv, Index
<1>5. AsPool' = Pool!CommitClaimed(AsPool, S \intersect Samples)
  <2>1. AsPool' = [trained |-> store.trained \union done,
                   claimed |-> store.claimed \ done,
                   epoch |-> store.epoch]
    BY <1>1 DEF AsPool
  <2>2. /\ AsPool.claimed = store.claimed /\ AsPool.trained = store.trained
        /\ AsPool.epoch = store.epoch
        /\ (S \intersect Samples) \intersect AsPool.claimed = done
        /\ store.claimed \ (S \intersect Samples) = store.claimed \ done
    BY DEF AsPool, IInv, StoreRecord
  <2> QED BY <2>1, <2>2 DEF Pool!CommitClaimed
<1> QED BY <1>2, <1>4, <1>5 DEF IInv

\* release_claimed puts samples back and restores the buckets it needs.
LEMMA ReleaseIInv ==
  ASSUME IInv, NEW S \in SUBSET Corpus, store' = ReleaseClaimed(store, S)
  PROVE  /\ IInv'
         /\ AsPool' = Pool!ReleaseClaimed(AsPool, S \intersect Samples)
<1> DEFINE back == S \intersect store.claimed
           open == Samples \ (store.trained \union store.claimed)
           made == LengthsOf(back) \ DOMAIN store.buckets
<1>1. store' = [buckets |-> [l \in DOMAIN store.buckets \union made |->
                               OfLength(back, l) \union
                                 (IF l \in made THEN {} ELSE store.buckets[l])],
                lengths |-> store.lengths \union made,
                trained |-> store.trained,
                claimed |-> store.claimed \ back,
                epoch   |-> store.epoch]
  BY DEF IInv, StoreRecord, ReleaseClaimed
<1>2. StoreRecord'
  BY <1>1 DEF IInv, StoreRecord
<1>3. Samples \ (store'.trained \union store'.claimed) = open \union back
  BY <1>1 DEF IInv, StoreRecord
<1>4. DOMAIN store.buckets = store.lengths /\ store.lengths = LengthsOf(open)
  BY DEF IInv, Index
<1>5. store.lengths \union made = LengthsOf(open \union back)
  BY <1>4 DEF LengthsOf
<1>6. \A l \in store.lengths \union made :
         OfLength(back, l) \union (IF l \in made THEN {} ELSE store.buckets[l])
           = OfLength(open \union back, l)
  <2> SUFFICES ASSUME NEW l \in store.lengths \union made
               PROVE  OfLength(back, l)
                        \union (IF l \in made THEN {} ELSE store.buckets[l])
                        = OfLength(open \union back, l)
    OBVIOUS
  <2>1. CASE l \in made
    <3>1. OfLength(open, l) = {}
      BY <2>1, <1>4 DEF LengthsOf, OfLength
    <3> QED BY <2>1, <3>1 DEF OfLength
  <2>2. CASE l \notin made
    <3>1. store.buckets[l] = OfLength(open, l)
      BY <2>2, <1>4 DEF IInv, Index
    <3> QED BY <2>2, <3>1 DEF OfLength
  <2> QED BY <2>1, <2>2
<1>7. Index'
  <2>0. /\ store'.lengths = store.lengths \union made
        /\ store'.buckets = [l \in store.lengths \union made |->
                               OfLength(back, l) \union
                                 (IF l \in made THEN {} ELSE store.buckets[l])]
    BY <1>1, <1>4
  <2> HIDE DEF back, open, made
  <2>1. store'.lengths = LengthsOf(open \union back)
    BY <2>0, <1>5
  <2>2. store'.buckets = [l \in store'.lengths |-> OfLength(open \union back, l)]
    BY <2>0, <1>6
  <2> QED BY <1>3, <2>1, <2>2 DEF Index
<1>8. AsPool' = Pool!ReleaseClaimed(AsPool, S \intersect Samples)
  BY <1>1 DEF AsPool, Pool!ReleaseClaimed, IInv, StoreRecord
<1> QED BY <1>2, <1>7, <1>8 DEF IInv

\* No bucket left means nothing is selectable.
LEMMA NoBucketNoSample ==
  ASSUME IInv, ~HasNext(store)
  PROVE  Samples \ (store.trained \union store.claimed) = {}
  BY DEF IInv, Index, HasNext, LengthsOf

\* advance_epoch starts from a full, coherent index.
LEMMA NextEpochIInv ==
  ASSUME IInv, NextEpoch
  PROVE  /\ IInv'
         /\ ~Pool!HasNext(AsPool) /\ Pool!CanAdvance(AsPool)
         /\ AsPool' = Pool!AdvanceEpoch(AsPool)
         /\ store.trained = Samples
<1>1. store' = Fresh(store.epoch + 1) /\ store.epoch < TotalEpochs
                /\ store.claimed = {}
  BY DEF NextEpoch, CanAdvance, HasClaimed
<1>2. Samples \ store.trained = {}
  BY <1>1, NoBucketNoSample DEF NextEpoch
<1>3. IInv'
  BY <1>1, StoreAssumption DEF Fresh, IInv, StoreRecord, Index
<1>4. ~Pool!HasNext(AsPool) /\ Pool!CanAdvance(AsPool)
  BY <1>1, <1>2
  DEF AsPool, Pool!HasNext, Pool!Selectable, Pool!CanAdvance, Pool!HasClaimed
<1>5. AsPool' = Pool!AdvanceEpoch(AsPool)
  BY <1>1 DEF AsPool, Pool!AdvanceEpoch, Fresh
<1> QED BY <1>1, <1>2, <1>3, <1>4, <1>5 DEF IInv, StoreRecord

\* Every operation of the store keeps the index coherent.
LEMMA NextIInv == IInv /\ [Next]_store => IInv'
<1> SUFFICES ASSUME IInv, [Next]_store PROVE IInv'
  OBVIOUS
<1>1. CASE ClaimSome   BY <1>1, ClaimIInv DEF ClaimSome
<1>2. CASE CommitSome  BY <1>2, CommitIInv DEF CommitSome
<1>3. CASE ReleaseSome BY <1>3, ReleaseIInv DEF ReleaseSome
<1>4. CASE NextEpoch   BY <1>4, NextEpochIInv
<1>5. CASE UNCHANGED store
  BY <1>5 DEF IInv, StoreRecord, Index
<1> QED BY <1>1, <1>2, <1>3, <1>4, <1>5 DEF Next

\* The index is exactly the selectable samples by length, for every corpus
\* and every sequence of claims, commits, releases and epochs.
THEOREM Invariance == Spec => []IInv
  BY InitIInv, NextIInv, PTL DEF Spec

\* No sample is ever both claimed and trained, and the fields keep their types.
THEOREM TypeCorrect == Spec => []TypeOK
<1>1. IInv => TypeOK
  BY DEF IInv, StoreRecord, Index, TypeOK, LengthsOf, OfLength
<1> QED BY <1>1, Invariance, PTL

\* For every corpus: the two indexes name exactly the selectable samples.
THEOREM IndexCoherent == Spec => []BucketsCoherent
<1>1. IInv => BucketsCoherent
  BY DEF IInv, Index, BucketsCoherent, AsPool, Pool!Selectable, LengthsOf,
         OfLength
<1> QED BY <1>1, Invariance, PTL

\* For every corpus: an epoch ends only when all its samples were trained.
THEOREM EpochsComplete == Spec => EpochEndsTrained
<1>1. IInv /\ [Next]_store
        => [store.epoch' # store.epoch => store.trained = Samples]_store
  <2> SUFFICES ASSUME IInv, Next
               PROVE  store.epoch' # store.epoch => store.trained = Samples
    OBVIOUS
  <2>1. CASE ClaimSome   BY <2>1 DEF ClaimSome, Claim, IInv, StoreRecord
  <2>2. CASE CommitSome  BY <2>2 DEF CommitSome, CommitClaimed, IInv, StoreRecord
  <2>3. CASE ReleaseSome BY <2>3 DEF ReleaseSome, ReleaseClaimed, IInv, StoreRecord
  <2>4. CASE NextEpoch   BY <2>4, NextEpochIInv
  <2> QED BY <2>1, <2>2, <2>3, <2>4 DEF Next
<1> QED BY <1>1, Invariance, PTL DEF Spec, EpochEndsTrained

\* A peek at one length sees the selectable samples of that length, minus
\* what the caller excludes; a length without a bucket has none.
LEMMA HitsAreOpen ==
  ASSUME IInv, NEW exclude, NEW l
  PROVE  Hits(store, l, exclude)
           = OfLength(Pool!Selectable(AsPool) \ exclude, l)
<1> DEFINE open == Samples \ (store.trained \union store.claimed)
<1>1. DOMAIN store.buckets = store.lengths /\ store.lengths = LengthsOf(open)
  BY DEF IInv, Index
<1>2. Pool!Selectable(AsPool) = open
  BY DEF AsPool, Pool!Selectable
<1>3. CASE l \in store.lengths
  <2>1. store.buckets[l] = OfLength(open, l)
    BY <1>3 DEF IInv, Index
  <2>2. Hits(store, l, exclude) = (OfLength(open, l) \ store.trained) \ exclude
    BY <1>1, <1>3, <2>1 DEF Hits
  <2> QED BY <1>2, <2>2 DEF OfLength
<1>4. CASE l \notin store.lengths
  <2>1. Hits(store, l, exclude) = {}
    BY <1>1, <1>4 DEF Hits
  <2>2. OfLength(open \ exclude, l) = {}
    BY <1>1, <1>4 DEF OfLength, LengthsOf
  <2> QED BY <1>2, <2>1, <2>2
<1> QED BY <1>3, <1>4

\* Walking the lengths upwards finds the shortest selectable samples.
LEMMA PopNextIsSmallest ==
  ASSUME IInv, NEW exclude
  PROVE  PopNext(store, exclude) = Pool!Smallest(AsPool, exclude)
<1> DEFINE T == Pool!Selectable(AsPool) \ exclude
           first == {m \in store.lengths : \A k \in store.lengths :
                       k < m => Hits(store, k, exclude) = {}}
<1>1. T \subseteq Samples /\ \A s \in T : Len[s] \in store.lengths
  BY DEF IInv, Index, LengthsOf, AsPool, Pool!Selectable
<1>2. \A l : Hits(store, l, exclude) = {s \in T : Len[s] = l}
  BY HitsAreOpen DEF OfLength
<1>3. \A s \in Samples : Len[s] \in Nat
  BY StoreAssumption DEF Len, Samples
<1>4. Pool!Smallest(AsPool, exclude)
        = {s \in T : \A t \in T : Len[s] <= Len[t]}
  BY DEF Pool!Smallest
<1>5. store.lengths \subseteq Nat
  BY <1>3 DEF IInv, Index, LengthsOf
<1>6. PopNext(store, exclude) = UNION {Hits(store, l, exclude) : l \in first}
  BY DEF PopNext
<1> HIDE DEF T
<1>7. \A s \in T : Len[s] \in first
                     <=> \A t \in T : Len[s] <= Len[t]
  BY <1>1, <1>2, <1>3, <1>5
<1>8. UNION {Hits(store, l, exclude) : l \in first}
        = {s \in T : Len[s] \in first}
  BY <1>2
<1> QED BY <1>4, <1>6, <1>7, <1>8

\* Walking the lengths down from a budget finds the longest samples that fit.
LEMMA PopBestUnderIsLargest ==
  ASSUME IInv, NEW exclude, NEW max \in Nat
  PROVE  PopBestUnder(store, max, exclude)
           = Pool!LargestUnder(AsPool, max, exclude)
<1> DEFINE T == {s \in Pool!Selectable(AsPool) \ exclude : Len[s] <= max}
           within == {m \in store.lengths : m <= max}
           first == {m \in within : \A k \in within :
                       k > m => Hits(store, k, exclude) = {}}
<1>1. /\ T \subseteq Samples
      /\ \A s \in T : Len[s] \in store.lengths /\ Len[s] <= max
  BY DEF IInv, Index, LengthsOf, AsPool, Pool!Selectable
<1>2. \A l \in within : Hits(store, l, exclude) = {s \in T : Len[s] = l}
  BY HitsAreOpen DEF OfLength
<1>3. \A s \in Samples : Len[s] \in Nat
  BY StoreAssumption DEF Len, Samples
<1>4. Pool!LargestUnder(AsPool, max, exclude)
        = {s \in T : \A t \in T : Len[t] <= Len[s]}
  BY DEF Pool!LargestUnder
<1>5. within \subseteq Nat
  BY <1>3 DEF IInv, Index, LengthsOf
<1>6. PopBestUnder(store, max, exclude)
        = UNION {Hits(store, l, exclude) : l \in first}
  BY DEF PopBestUnder
<1>7. \A s \in T : Len[s] \in within
  BY <1>1
<1> HIDE DEF T, within
<1>8. \A s \in T : Len[s] \in first <=> \A t \in T : Len[t] <= Len[s]
  BY <1>1, <1>2, <1>3, <1>5, <1>7
<1>9. UNION {Hits(store, l, exclude) : l \in first}
        = {s \in T : Len[s] \in first}
  BY <1>2, <1>7
<1> QED BY <1>4, <1>6, <1>8, <1>9

\* For every corpus, every exclusion and every budget, the bucket walks return
\* what a search of the whole pool would: the index costs no sample.
THEOREM PeeksCorrect == Spec => []PeeksAgree
<1>1. IInv => PeeksAgree
  BY PopNextIsSmallest, PopBestUnderIsLargest, StoreAssumption DEF PeeksAgree
<1> QED BY <1>1, Invariance, PTL

\* The bucketed store implements the pool its callers rely on.
THEOREM Refinement == Spec => ImplementsPool
<1>1. Init => Pool!Init
  BY DEF Init, Fresh, AsPool, Pool!Init, Pool!EmptyPool
<1>2. IInv /\ [Next]_store => [Pool!Next]_AsPool
  <2> SUFFICES ASSUME IInv, [Next]_store PROVE [Pool!Next]_AsPool
    OBVIOUS
  <2>1. CASE ClaimSome
    <3>1. PICK S \in SUBSET Corpus : store' = Claim(store, S)
      BY <2>1 DEF ClaimSome
    <3>2. AsPool' = Pool!Claim(AsPool, S \intersect Samples)
      BY <3>1, ClaimIInv
    <3> QED BY <3>2 DEF Pool!Next
  <2>2. CASE CommitSome
    <3>1. PICK S \in SUBSET Corpus : store' = CommitClaimed(store, S)
      BY <2>2 DEF CommitSome
    <3>2. AsPool' = Pool!CommitClaimed(AsPool, S \intersect Samples)
      BY <3>1, CommitIInv
    <3> QED BY <3>2 DEF Pool!Next
  <2>3. CASE ReleaseSome
    <3>1. PICK S \in SUBSET Corpus : store' = ReleaseClaimed(store, S)
      BY <2>3 DEF ReleaseSome
    <3>2. AsPool' = Pool!ReleaseClaimed(AsPool, S \intersect Samples)
      BY <3>1, ReleaseIInv
    <3> QED BY <3>2 DEF Pool!Next
  <2>4. CASE NextEpoch
    BY <2>4, NextEpochIInv DEF Pool!Next
  <2>5. CASE UNCHANGED store
    BY <2>5 DEF AsPool
  <2> QED BY <2>1, <2>2, <2>3, <2>4, <2>5 DEF Next
<1> QED BY <1>1, <1>2, Invariance, PTL DEF Spec, ImplementsPool, Pool!Spec
=============================================================================
