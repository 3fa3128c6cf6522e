----------------------------- MODULE SamplePool -----------------------------
(***************************************************************************)
(* What the finetuning store promises its callers, without the length      *)
(* buckets it is built from: in the current epoch every sample is exactly  *)
(* one of selectable, claimed by a step in flight, or trained.             *)
(*                                                                         *)
(* The operators take and return the state as a record, so that a module   *)
(* that composes the pool with other components can apply several of them  *)
(* inside one step of the engine thread.                                   *)
(***************************************************************************)
EXTENDS Naturals

CONSTANTS
    Samples,      \* the samples kept by FinetuningStore.load
    InputLen,     \* input_len of every sample
    TotalEpochs   \* finetune.num_epochs

VARIABLE pool     \* [trained, claimed, epoch]

PoolType == [trained : SUBSET Samples, claimed : SUBSET Samples,
             epoch : 0 .. TotalEpochs]

EmptyPool == [trained |-> {}, claimed |-> {}, epoch |-> 0]

(***************************************************************************)
(* Queries.                                                                *)
(***************************************************************************)
Selectable(p) == Samples \ (p.trained \union p.claimed)

HasNext(p) == Selectable(p) # {}

HasClaimed(p) == p.claimed # {}

\* The samples pop_next may return: the shortest selectable ones.
Smallest(p, exclude) ==
    LET open == Selectable(p) \ exclude
    IN  {s \in open : \A t \in open : InputLen[s] <= InputLen[t]}

\* The samples pop_best_under may return: the longest that fit in max tokens.
LargestUnder(p, max, exclude) ==
    LET open == {s \in Selectable(p) \ exclude : InputLen[s] <= max}
    IN  {s \in open : \A t \in open : InputLen[t] <= InputLen[s]}

(***************************************************************************)
(* Operations.                                                             *)
(***************************************************************************)
Claim(p, S) == [p EXCEPT !.claimed = @ \union (S \intersect Selectable(p))]

CommitClaimed(p, S) ==
    [trained |-> p.trained \union (S \intersect p.claimed),
     claimed |-> p.claimed \ S, epoch |-> p.epoch]

ReleaseClaimed(p, S) == [p EXCEPT !.claimed = @ \ S]

CanAdvance(p) == p.epoch < TotalEpochs /\ ~HasClaimed(p)

AdvanceEpoch(p) == [trained |-> {}, claimed |-> {}, epoch |-> p.epoch + 1]

-----------------------------------------------------------------------------
Init == pool = EmptyPool

\* Every caller asks for the next epoch only when nothing is selectable.
Next ==
    \/ \E S \in SUBSET Samples :
          \/ pool' = Claim(pool, S)
          \/ pool' = CommitClaimed(pool, S)
          \/ pool' = ReleaseClaimed(pool, S)
    \/ /\ ~HasNext(pool) /\ CanAdvance(pool)
       /\ pool' = AdvanceEpoch(pool)

Spec == Init /\ [][Next]_pool
=============================================================================
