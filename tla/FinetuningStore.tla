-------------------------- MODULE FinetuningStore --------------------------
(***************************************************************************)
(* The length-bucketed sample store (finetuning_store.py).  A bucket is    *)
(* the deque of selectable samples of one length; the order inside a deque *)
(* is left out, so a peek may return any sample of the length it picks.    *)
(***************************************************************************)
EXTENDS Naturals

CONSTANTS
    Corpus,       \* the lines of the corpus file
    CorpusLen,    \* tokens of every line
    Capacity,     \* max_saved_finetuning_tokens
    TotalEpochs   \* total_epochs

ASSUME StoreAssumption ==
    /\ CorpusLen \in [Corpus -> Nat \ {0}]
    /\ Capacity \in Nat
    /\ TotalEpochs \in Nat \ {0}

VARIABLE store    \* [buckets, lengths, trained, claimed, epoch]

\* load() drops every sample that can never fit the activation buffer.
Samples == {s \in Corpus : CorpusLen[s] <= Capacity}
Len == [s \in Samples |-> CorpusLen[s]]

LengthsOf(S) == {Len[s] : s \in S}
OfLength(S, l) == {s \in S : Len[s] = l}

(***************************************************************************)
(* _build_templates and _reset_epoch_structures.                           *)
(***************************************************************************)
Fresh(epoch) ==
    [buckets |-> [l \in LengthsOf(Samples) |-> OfLength(Samples, l)],
     lengths |-> LengthsOf(Samples),
     trained |-> {}, claimed |-> {}, epoch |-> epoch]

(***************************************************************************)
(* Peeks.  Each scans sorted_lengths from one end, skips a length without  *)
(* a bucket and a sample that is trained or excluded, and stops at the     *)
(* first hit; the result is the set of samples it may return.              *)
(***************************************************************************)
Hits(st, l, exclude) ==
    IF l \in DOMAIN st.buckets
    THEN (st.buckets[l] \ st.trained) \ exclude
    ELSE {}

PopNext(st, exclude) ==
    UNION {Hits(st, l, exclude) : l \in
             {m \in st.lengths : \A k \in st.lengths :
                                   k < m => Hits(st, k, exclude) = {}}}

\* Mutant: a sample of exactly max tokens does not fit.
PopBestBelow(st, max, exclude) ==
    LET within == {m \in st.lengths : m < max}
    IN  UNION {Hits(st, l, exclude) : l \in
                 {m \in within : \A k \in within :
                                   k > m => Hits(st, k, exclude) = {}}}

PopBestUnder(st, max, exclude) ==
    LET within == {m \in st.lengths : m <= max}
    IN  UNION {Hits(st, l, exclude) : l \in
                 {m \in within : \A k \in within :
                                   k > m => Hits(st, k, exclude) = {}}}

HasNext(st) == DOMAIN st.buckets # {}

HasClaimed(st) == st.claimed # {}

(***************************************************************************)
(* claim: skips samples already trained or claimed, takes the rest out of  *)
(* their buckets, and deletes a bucket it empties with its length.         *)
(***************************************************************************)
Claim(st, S) ==
    LET taken   == (S \intersect Samples) \ (st.trained \union st.claimed)
        drained == {l \in LengthsOf(taken) \intersect DOMAIN st.buckets :
                       st.buckets[l] \ OfLength(taken, l) = {}}
    IN  [st EXCEPT
           !.claimed = @ \union taken,
           !.buckets = [l \in DOMAIN @ \ drained |-> @[l] \ OfLength(taken, l)],
           !.lengths = @ \ drained]

\* Mutant: samples nobody claimed become trained.
CommitAny(st, S) ==
    [st EXCEPT !.claimed = @ \ S, !.trained = @ \union (S \intersect Samples)]

\* commit_claimed: only a claimed sample becomes trained.
CommitClaimed(st, S) ==
    LET done == S \intersect st.claimed
    IN  [st EXCEPT !.claimed = @ \ done, !.trained = @ \union done]

\* Mutant: the length of a bucket made again is not put back in the list.
ReleaseForgetsLength(st, S) ==
    LET back == S \intersect st.claimed
        made == LengthsOf(back) \ DOMAIN st.buckets
    IN  [st EXCEPT
           !.claimed = @ \ back,
           !.buckets = [l \in DOMAIN @ \union made |->
                          OfLength(back, l) \union
                            (IF l \in made THEN {} ELSE @[l])]]

\* release_claimed: back to the bucket, which is made again if it was deleted.
ReleaseClaimed(st, S) ==
    LET back == S \intersect st.claimed
        made == LengthsOf(back) \ DOMAIN st.buckets
    IN  [st EXCEPT
           !.claimed = @ \ back,
           !.buckets = [l \in DOMAIN @ \union made |->
                          OfLength(back, l) \union
                            (IF l \in made THEN {} ELSE @[l])],
           !.lengths = @ \union made]

\* Mutant: the epoch ends under the steps in flight.
CanAdvanceAnyway(st) == st.epoch < TotalEpochs

\* advance_epoch: refused past the last epoch and while a sample is claimed.
CanAdvance(st) == st.epoch < TotalEpochs /\ ~HasClaimed(st)

-----------------------------------------------------------------------------
Init == store = Fresh(0)

ClaimSome   == \E S \in SUBSET Corpus : store' = Claim(store, S)
CommitSome  == \E S \in SUBSET Corpus : store' = CommitClaimed(store, S)
ReleaseSome == \E S \in SUBSET Corpus : store' = ReleaseClaimed(store, S)

\* Both callers (admit_ft_to_step, next_ft_requests) ask for the next epoch
\* only when has_next() is False.
NextEpoch ==
    /\ ~HasNext(store)
    /\ CanAdvance(store)
    /\ store' = Fresh(store.epoch + 1)

Next == ClaimSome \/ CommitSome \/ ReleaseSome \/ NextEpoch

Spec == Init /\ [][Next]_store

-----------------------------------------------------------------------------
\* The pool this store implements: the same state without the index.
AsPool == [trained |-> store.trained, claimed |-> store.claimed,
           epoch |-> store.epoch]

Pool == INSTANCE SamplePool WITH pool <- AsPool, InputLen <- Len

\* Types of the store's fields; no sample is both claimed and trained.
TypeOK ==
    /\ store.trained \subseteq Samples
    /\ store.claimed \subseteq Samples
    /\ store.trained \intersect store.claimed = {}
    /\ store.epoch \in 0 .. TotalEpochs
    /\ store.lengths \subseteq LengthsOf(Samples)
    /\ store.buckets \in [DOMAIN store.buckets -> SUBSET Samples]

\* The two indexes agree and lose nothing: sorted_lengths lists exactly the
\* lengths that have a bucket, no bucket is empty, and the bucket of length l
\* holds exactly the samples of length l that are neither claimed nor trained.
\* Every claim / release / commit sequence must keep this; the code updates
\* the deque, the dict key and the sorted list in three separate places.
BucketsCoherent ==
    /\ DOMAIN store.buckets = store.lengths
    /\ \A l \in DOMAIN store.buckets :
          /\ store.buckets[l] # {}
          /\ store.buckets[l] = OfLength(Pool!Selectable(AsPool), l)
    /\ LengthsOf(Pool!Selectable(AsPool)) = store.lengths

\* Both peeks return what a linear search over the selectable samples would:
\* the shortest one, and the longest one that fits, whatever is excluded.
PeeksAgree ==
    \A exclude \in SUBSET Samples :
      /\ PopNext(store, exclude) = Pool!Smallest(AsPool, exclude)
      /\ \A max \in 0 .. Capacity :
           PopBestUnder(store, max, exclude)
             = Pool!LargestUnder(AsPool, max, exclude)

\* An epoch ends only when every loaded sample was trained in it: nothing is
\* in a bucket, in flight, or lost between the two.
EpochEndsTrained ==
    [][store.epoch' # store.epoch => store.trained = Samples]_store

\* The bucketed store implements the pool: buckets and sorted lengths are an
\* index that no caller can tell from the plain sets.
ImplementsPool == Pool!Spec
=============================================================================
