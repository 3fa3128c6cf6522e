-------------------------- MODULE CoServingProofs --------------------------
(***************************************************************************)
(* The store and the activation buffer agree on every sample, and the      *)
(* engine uses the store and the coordinator as their callers must: for    *)
(* every corpus, capacity, set-up, pipeline depth and fault, whatever is   *)
(* admitted, cut short, rolled back, aborted or answered in whatever order.*)
(*                                                                         *)
(* Where steps do not overlap, the child reads every row as it was saved,  *)
(* and what the store counts as trained is what the child has read.        *)
(*                                                                         *)
(* Sums of samples' rows and queues of any length are dealt with by        *)
(* induction over finite sets and natural numbers, from the well-founded   *)
(* orders of the library: a set that has what it must has everything.      *)
(***************************************************************************)
EXTENDS CoServing, WellFoundedInduction, FiniteSetTheorems, SequenceTheorems,
        TLAPS

\* The pool is a record of the store's three fields; a step claims and lists a
\* sample together, and commits, releases and drops it together.
PoolInv == pool \in P!PoolType /\ ClaimsTracked

\* The store and the coordinator's list of samples stay as they are.
BufferUntouched == UNCHANGED <<pool, buffer_samples>>

-----------------------------------------------------------------------------
(***************************************************************************)
(* The store's operations.                                                 *)
(***************************************************************************)
\* What each operation does to the three fields.
LEMMA PoolEffects ==
  ASSUME NEW p \in P!PoolType, NEW S
  PROVE  /\ P!Claim(p, S) =
              [trained |-> p.trained,
               claimed |-> p.claimed \union (S \intersect P!Selectable(p)),
               epoch |-> p.epoch]
         /\ P!ReleaseClaimed(p, S) =
              [trained |-> p.trained, claimed |-> p.claimed \ S,
               epoch |-> p.epoch]
         /\ P!Claim(p, S) \in P!PoolType
         /\ P!ReleaseClaimed(p, S) \in P!PoolType
         /\ P!CommitClaimed(p, S) \in P!PoolType
<1>1. /\ p.trained \subseteq Samples /\ p.claimed \subseteq Samples
      /\ p.epoch \in 0 .. TotalEpochs
      /\ p = [trained |-> p.trained, claimed |-> p.claimed, epoch |-> p.epoch]
  BY DEF P!PoolType
<1>2. P!Selectable(p) \subseteq Samples
  BY DEF P!Selectable
<1>3. P!Claim(p, S) =
        [trained |-> p.trained,
         claimed |-> p.claimed \union (S \intersect P!Selectable(p)),
         epoch |-> p.epoch]
  BY <1>1 DEF P!Claim, P!PoolType
<1>4. P!ReleaseClaimed(p, S) =
        [trained |-> p.trained, claimed |-> p.claimed \ S, epoch |-> p.epoch]
  BY <1>1 DEF P!ReleaseClaimed, P!PoolType
<1>5. P!CommitClaimed(p, S) \in P!PoolType
  BY <1>1 DEF P!CommitClaimed, P!PoolType
<1> QED BY <1>1, <1>2, <1>3, <1>4, <1>5 DEF P!PoolType

\* A claim of S that gives back all but Q is a claim of Q, for Q within S.
LEMMA ClaimThenDrop ==
  ASSUME NEW p \in P!PoolType, NEW S, NEW Q \in SUBSET S,
         S \subseteq P!Selectable(p)
  PROVE  /\ P!ReleaseClaimed(P!Claim(p, S), S \ Q) = P!Claim(p, Q)
         /\ P!Claim(p, Q).claimed = p.claimed \union Q
<1>1. p.claimed \intersect S = {}
  BY DEF P!Selectable
<1>2. /\ P!Claim(p, S) \in P!PoolType
      /\ P!Claim(p, S) =
           [trained |-> p.trained, claimed |-> p.claimed \union S,
            epoch |-> p.epoch]
  <2>1. S \intersect P!Selectable(p) = S
    OBVIOUS
  <2> QED BY <2>1, PoolEffects
<1>3. P!Claim(p, Q) =
        [trained |-> p.trained, claimed |-> p.claimed \union Q,
         epoch |-> p.epoch]
  <2>1. Q \intersect P!Selectable(p) = Q
    OBVIOUS
  <2> QED BY <2>1, PoolEffects
<1>4. P!ReleaseClaimed(P!Claim(p, S), S \ Q) =
        [trained |-> p.trained,
         claimed |-> (p.claimed \union S) \ (S \ Q), epoch |-> p.epoch]
  <2> DEFINE q == P!Claim(p, S)
  <2>1. /\ q.trained = p.trained /\ q.claimed = p.claimed \union S
        /\ q.epoch = p.epoch /\ q \in P!PoolType
    BY <1>2
  <2> HIDE DEF q
  <2>2. P!ReleaseClaimed(q, S \ Q) =
          [trained |-> q.trained, claimed |-> q.claimed \ (S \ Q),
           epoch |-> q.epoch]
    BY <2>1, PoolEffects
  <2> QED BY <2>1, <2>2 DEF q
<1>5. (p.claimed \union S) \ (S \ Q) = p.claimed \union Q
  BY <1>1
<1> QED BY <1>3, <1>4, <1>5

\* The base scheduler schedules only samples that were admitted.
LEMMA ScheduledAreAdmitted ==
  ASSUME NEW S, NEW batch \in Batches(S), NEW tokens
  PROVE  SamplesOf(Scheduled(batch, tokens)) \subseteq S
<1>1. \A i \in DOMAIN batch : batch[i] \in S
  BY DEF Batches, SetToSeqs
<1> QED BY <1>1 DEF SamplesOf, Scheduled

-----------------------------------------------------------------------------
(***************************************************************************)
(* What the engine thread's steps do to the store and to buffer_samples.   *)
(***************************************************************************)
\* _schedule_step claims, lists and reserves the samples it schedules, and only
\* selectable ones.
LEMMA ScheduleEffect ==
  ASSUME PoolInv, ScheduleStep
  PROVE  \E Q \in SUBSET P!Selectable(pool) :
            /\ pool' = P!Claim(pool, Q)
            /\ pool'.claimed = pool.claimed \union Q
            /\ buffer_samples' = buffer_samples \union Q
<1>1. PICK S \in Admissible : \E batch \in Batches(S) :
         \E tokens \in IF work = 0 THEN {Total(S)} ELSE 0 .. Total(S) :
            /\ pool' = ReleaseDropped(P!Claim(pool, S), S,
                                      Scheduled(batch, tokens))
            /\ buffer_samples' = buffer_samples
                                   \union SamplesOf(Scheduled(batch, tokens))
  BY DEF ScheduleStep, C!Inject
<1>2. PICK Q \in SUBSET S :
         /\ pool' = P!ReleaseClaimed(P!Claim(pool, S), S \ Q)
         /\ buffer_samples' = buffer_samples \union Q
  <2>1. PICK batch \in Batches(S) :
          \E tokens \in IF work = 0 THEN {Total(S)} ELSE 0 .. Total(S) :
             /\ pool' = ReleaseDropped(P!Claim(pool, S), S,
                                       Scheduled(batch, tokens))
             /\ buffer_samples' = buffer_samples
                                    \union SamplesOf(Scheduled(batch, tokens))
    BY <1>1
  <2>2. PICK tokens :
          /\ pool' = ReleaseDropped(P!Claim(pool, S), S,
                                    Scheduled(batch, tokens))
          /\ buffer_samples' = buffer_samples
                                 \union SamplesOf(Scheduled(batch, tokens))
    BY <2>1
  <2>3. SamplesOf(Scheduled(batch, tokens)) \in SUBSET S
    BY ScheduledAreAdmitted
  <2> QED BY <2>2, <2>3 DEF ReleaseDropped
<1>3. S \subseteq P!Selectable(pool)
  <2>1. S \in Admissible
    BY <1>1
  <2>2. CASE MayAdmit
    BY <2>1, <2>2 DEF Admissible
  <2>3. CASE ~MayAdmit
    BY <2>1, <2>3 DEF Admissible
  <2> QED BY <2>2, <2>3
<1>4. /\ pool' = P!Claim(pool, Q)
      /\ P!Claim(pool, Q).claimed = pool.claimed \union Q
  <2>1. pool \in P!PoolType
    BY DEF PoolInv
  <2>2. /\ P!ReleaseClaimed(P!Claim(pool, S), S \ Q) = P!Claim(pool, Q)
        /\ P!Claim(pool, Q).claimed = pool.claimed \union Q
    BY <1>2, <1>3, <2>1, ClaimThenDrop
  <2> QED BY <1>2, <2>2
<1> QED BY <1>2, <1>3, <1>4

\* A rollback gives the step's samples back and drops them from the list.
LEMMA RollbackEffect ==
  ASSUME NEW step, RollbackFtStep(step)
  PROVE  \E Q :
            /\ pool' = P!ReleaseClaimed(pool, Q)
            /\ buffer_samples' = buffer_samples \ Q
  BY DEF RollbackFtStep, C!Rollback

\* Every other step commits the whole buffer, or ends an epoch that has no
\* sample in the buffer or left to admit, or touches neither.
LEMMA StepEffects ==
  ASSUME [Next]_vars
  PROVE  \/ BufferUntouched
         \/ /\ C!TakeAck
            /\ pool' = P!CommitClaimed(pool, buffer_samples)
            /\ buffer_samples' = {}
         \/ /\ ~P!HasNext(pool) /\ P!CanAdvance(pool)
            /\ pool' = P!AdvanceEpoch(pool)
            /\ UNCHANGED buffer_samples
         \/ ScheduleStep
         \/ \E step : RollbackFtStep(step)
<1> USE DEF BufferUntouched
<1>1. CASE InputThread \/ UNCHANGED vars
  BY <1>1 DEF InputThread, PutInput, CheckInFlight, SetAbort, vars, coord_vars
<1>2. CASE HandleRequest
  BY <1>2 DEF HandleRequest, coord_vars, C!StartFinetuning, C!StopFinetuning,
              C!buffer_vars
<1>3. CASE BeginStep \/ Drained
  BY <1>3 DEF BeginStep, Drained, coord_vars
<1>4. CASE PollBackward
  BY <1>4 DEF PollBackward, C!TakeAck, C!DisableStuck, C!TryEpochFlush,
              C!buffer_vars, coord_vars
<1>5. CASE CheckRps
  BY <1>5 DEF CheckRps, C!CheckRpsThrottle, C!buffer_vars
<1>6. CASE AdvanceEpoch
  BY <1>6 DEF AdvanceEpoch, NeedsEpoch, coord_vars
<1>7. CASE ScheduleStep
  BY <1>7
<1>8. CASE TierB
  BY <1>8 DEF TierB, coord_vars
<1>9. CASE ExecuteModel \/ EnterForward \/ FinishForward
  BY <1>9 DEF ExecuteModel, EnterForward, FinishForward, SaveRows, Capture,
              C!RecordCapture, coord_vars
<1>10. CASE UpdateFromOutput
  BY <1>10 DEF UpdateFromOutput, coord_vars
<1>11. CASE Child
  BY <1>11 DEF Child, ProcessActivations, ZeroFillLands, ChildDie, C!ChildAck,
               C!ChildDie, C!buffer_vars, coord_vars
<1>12. CASE Time
  BY <1>12 DEF Time, Tick, RateDecays, C!Tick, C!buffer_vars, coord_vars
<1> QED
  BY <1>1, <1>2, <1>3, <1>4, <1>5, <1>6, <1>7, <1>8, <1>9, <1>10, <1>11,
     <1>12 DEF Next, EngineThread

-----------------------------------------------------------------------------
\* The store opens its first epoch with nothing claimed and an empty buffer.
LEMMA InitPoolInv == Init => PoolInv
<1> SUFFICES ASSUME Init PROVE PoolInv
  OBVIOUS
<1>1. pool = P!EmptyPool /\ buffer_samples = {}
  BY DEF Init, C!Init, P!Init
<1>2. TotalEpochs \in Nat
  BY CoServingAssumption
<1> QED BY <1>1, <1>2 DEF PoolInv, ClaimsTracked, P!EmptyPool, P!PoolType

\* Every step keeps the store's claims and the buffer's samples the same.
LEMMA NextPoolInv == PoolInv /\ [Next]_vars => PoolInv'
<1> SUFFICES ASSUME PoolInv, [Next]_vars PROVE PoolInv'
  OBVIOUS
<1>1. pool \in P!PoolType /\ pool.claimed = buffer_samples
  BY DEF PoolInv, ClaimsTracked
<1>2. CASE BufferUntouched
  BY <1>1, <1>2 DEF BufferUntouched, PoolInv, ClaimsTracked
<1>3. CASE /\ pool' = P!CommitClaimed(pool, buffer_samples)
           /\ buffer_samples' = {}
  <2>1. pool' \in P!PoolType
    BY <1>1, <1>3, PoolEffects
  <2>2. pool'.claimed = {}
    BY <1>1, <1>3 DEF P!CommitClaimed
  <2> QED BY <1>3, <2>1, <2>2 DEF PoolInv, ClaimsTracked
<1>4. CASE /\ ~P!HasNext(pool) /\ P!CanAdvance(pool)
           /\ pool' = P!AdvanceEpoch(pool)
           /\ UNCHANGED buffer_samples
  <2>1. /\ buffer_samples' = {} /\ pool.epoch < TotalEpochs
        /\ pool.epoch \in 0 .. TotalEpochs /\ TotalEpochs \in Nat
    BY <1>1, <1>4, CoServingAssumption
    DEF P!CanAdvance, P!HasClaimed, P!PoolType
  <2>2. pool.epoch + 1 \in 0 .. TotalEpochs
    BY <2>1
  <2>3. pool' = [trained |-> {}, claimed |-> {}, epoch |-> pool.epoch + 1]
    BY <1>4 DEF P!AdvanceEpoch
  <2> QED BY <2>1, <2>2, <2>3 DEF PoolInv, ClaimsTracked, P!PoolType
<1>5. CASE ScheduleStep
  <2>1. PICK Q \in SUBSET P!Selectable(pool) :
          /\ pool' = P!Claim(pool, Q)
          /\ pool'.claimed = pool.claimed \union Q
          /\ buffer_samples' = buffer_samples \union Q
    BY <1>5, ScheduleEffect
  <2>2. pool' \in P!PoolType
    BY <1>1, <2>1, PoolEffects
  <2> QED BY <1>1, <2>1, <2>2 DEF PoolInv, ClaimsTracked
<1>6. CASE \E step : RollbackFtStep(step)
  <2>1. PICK Q : /\ pool' = P!ReleaseClaimed(pool, Q)
                 /\ buffer_samples' = buffer_samples \ Q
    BY <1>6, RollbackEffect
  <2>2. /\ pool' \in P!PoolType
        /\ pool'.claimed = pool.claimed \ Q
    BY <1>1, <2>1, PoolEffects
  <2> QED BY <1>1, <2>1, <2>2 DEF PoolInv, ClaimsTracked
<1> QED BY <1>2, <1>3, <1>4, <1>5, <1>6, StepEffects

\* Types and claims hold together, as the induction needs both.
THEOREM PoolInvariant == Spec => []PoolInv
  BY InitPoolInv, NextPoolInv, PTL DEF Spec

\* A sample is claimed in the store exactly while the coordinator lists it:
\* whatever is admitted, cut short, undone before it runs, aborted while it
\* runs, answered or given up, no claim is left that nobody commits or
\* releases, and none is taken from a sample on its way to the child.
THEOREM EveryClaimTracked == Spec => []ClaimsTracked
<1>1. PoolInv => ClaimsTracked
  BY DEF PoolInv
<1> QED BY <1>1, PoolInvariant, PTL

\* Every step of the engine is one step of the pool or leaves it alone: the
\* claim of a step and the release of what it did not schedule are together
\* one claim, and no epoch ends while a sample is selectable, in the buffer, in
\* flight or at the child.
THEOREM DrivesThePool == Spec => ImplementsPool
<1>1. Init => P!Init
  BY DEF Init
<1>2. PoolInv /\ [Next]_vars => [P!Next]_pool
  <2> SUFFICES ASSUME PoolInv, [Next]_vars, pool' # pool PROVE P!Next
    OBVIOUS
  <2>1. pool \in P!PoolType /\ pool.claimed = buffer_samples
    BY DEF PoolInv, ClaimsTracked
  <2>2. pool.claimed \subseteq Samples
    BY <2>1 DEF P!PoolType
  <2>3. CASE BufferUntouched
    BY <2>3 DEF BufferUntouched
  <2>4. CASE pool' = P!CommitClaimed(pool, buffer_samples)
    BY <2>1, <2>2, <2>4 DEF P!Next
  <2>5. CASE /\ ~P!HasNext(pool) /\ P!CanAdvance(pool)
             /\ pool' = P!AdvanceEpoch(pool)
    BY <2>5 DEF P!Next
  <2>6. CASE ScheduleStep
    <3>1. PICK Q \in SUBSET P!Selectable(pool) : pool' = P!Claim(pool, Q)
      BY <2>6, ScheduleEffect
    <3>2. Q \in SUBSET Samples
      BY DEF P!Selectable
    <3> QED BY <3>1, <3>2 DEF P!Next
  <2>7. CASE \E step : RollbackFtStep(step)
    <3>1. PICK Q : pool' = P!ReleaseClaimed(pool, Q)
      BY <2>7, RollbackEffect
    <3> DEFINE R == Q \intersect Samples
    <3>2. P!ReleaseClaimed(pool, Q) = P!ReleaseClaimed(pool, R)
      <4>1. pool.claimed \ Q = pool.claimed \ R
        BY <2>2
      <4> HIDE DEF R
      <4>2. P!ReleaseClaimed(pool, Q) =
              [trained |-> pool.trained, claimed |-> pool.claimed \ Q,
               epoch |-> pool.epoch]
        BY <2>1, PoolEffects
      <4>3. P!ReleaseClaimed(pool, R) =
              [trained |-> pool.trained, claimed |-> pool.claimed \ R,
               epoch |-> pool.epoch]
        BY <2>1, PoolEffects
      <4> QED BY <4>1, <4>2, <4>3
    <3>3. R \in SUBSET Samples
      OBVIOUS
    <3> HIDE DEF R
    <3> QED BY <3>1, <3>2, <3>3 DEF P!Next
  <2> QED BY <2>3, <2>4, <2>5, <2>6, <2>7, StepEffects
<1> QED BY <1>1, <1>2, PoolInvariant, PTL DEF Spec, ImplementsPool, P!Spec

-----------------------------------------------------------------------------
(***************************************************************************)
(* Sums.  SumFunctionOnSet adds the values of a function over a finite     *)
(* set, in an order nobody knows; the lemmas say that it does not matter.  *)
(***************************************************************************)
Pick(s) == CHOOSE x \in s : TRUE
SumStep(f, g, s) == IF s = {} THEN 0 ELSE f[Pick(s)] + g[s \ {Pick(s)}]
IsSum(f, S, g) == g = [s \in SUBSET S |-> SumStep(f, g, s)]

\* Induction over the subsets of a finite set: what holds of a set whenever it
\* holds of its proper subsets holds of all of them.
LEMMA SubsetInduction ==
  ASSUME NEW S, IsFiniteSet(S), NEW Good,
         \A T \in SUBSET S :
            (\A U \in SUBSET T : U # T => U \in Good) => T \in Good
  PROVE  SUBSET S \subseteq Good
<1> DEFINE R == StrictSubsetOrdering(S)
           F == FiniteSubsetsOf(S)
           Bad == (SUBSET S) \ Good
<1> SUFFICES ASSUME Bad # {} PROVE FALSE
  OBVIOUS
<1>1. IsWellFoundedOn(R, F)
  BY FS_StrictSubsetOrderingWellFounded
<1>2. Bad \subseteq F
  <2>1. \A T \in SUBSET S : IsFiniteSet(T)
    BY FS_Subset
  <2> QED BY <2>1 DEF FiniteSubsetsOf
<1>3. \A T, U \in SUBSET S : U \subseteq T /\ U # T => <<U, T>> \in R
  BY DEF StrictSubsetOrdering
<1> HIDE DEF R, F, Bad
<1>4. PICK T \in Bad : \A U \in Bad : ~(<<U, T>> \in R)
  BY <1>1, <1>2, WFMin
<1>5. T \in SUBSET S /\ T \notin Good
  BY <1>4 DEF Bad
<1>6. ASSUME NEW U \in SUBSET T, U # T PROVE U \in Good
  <2>1. U \in SUBSET S /\ <<U, T>> \in R
    BY <1>3, <1>5, <1>6
  <2> QED BY <1>4, <2>1 DEF Bad
<1> QED BY <1>5, <1>6

\* What the fold of the community modules computes.
LEMMA SumUnfold ==
  ASSUME NEW f, NEW S
  PROVE  SumFunctionOnSet(f, S) = (CHOOSE g : IsSum(f, S, g))[S]
  BY DEF SumFunctionOnSet, FoldFunctionOnSet, MapThenFoldSet, IsSum, SumStep,
         Pick

\* One step of it.
LEMMA SumAt ==
  ASSUME NEW f, NEW S, NEW g, IsSum(f, S, g), NEW s \in SUBSET S
  PROVE  /\ s = {} => g[s] = 0
         /\ s # {} => /\ Pick(s) \in s
                      /\ g[s] = f[Pick(s)] + g[s \ {Pick(s)}]
<1>1. g[s] = SumStep(f, g, s)
  BY DEF IsSum
<1> QED BY <1>1 DEF SumStep, Pick

\* Two computations agree on the sets both go through.
LEMMA SumAgree ==
  ASSUME NEW f, NEW S, NEW g, IsSum(f, S, g), NEW R, NEW h, IsSum(f, R, h),
         NEW s, IsFiniteSet(s), s \subseteq S, s \subseteq R
  PROVE  g[s] = h[s]
<1> DEFINE Good == {t \in SUBSET s : g[t] = h[t]}
<1>1. ASSUME NEW T \in SUBSET s, \A U \in SUBSET T : U # T => U \in Good
      PROVE  T \in Good
  <2>1. CASE T = {}
    BY <2>1, SumAt
  <2>2. CASE T # {}
    <3>1. /\ Pick(T) \in T
          /\ g[T] = f[Pick(T)] + g[T \ {Pick(T)}]
          /\ h[T] = f[Pick(T)] + h[T \ {Pick(T)}]
      BY <2>2, SumAt
    <3>2. T \ {Pick(T)} \in SUBSET T /\ T \ {Pick(T)} # T
      BY <3>1
    <3>3. g[T \ {Pick(T)}] = h[T \ {Pick(T)}]
      BY <1>1, <3>2
    <3> QED BY <3>1, <3>3
  <2> QED BY <2>1, <2>2
<1> HIDE DEF Good
<1>2. SUBSET s \subseteq Good
  BY <1>1, SubsetInduction
<1>3. s \in Good
  BY <1>2
<1> QED BY <1>3 DEF Good

\* The fold has a value.
LEMMA SumExists ==
  ASSUME NEW f, NEW S, IsFiniteSet(S)
  PROVE  \E g : IsSum(f, S, g)
<1> DEFINE Good == {s \in SUBSET S : \E g : IsSum(f, s, g)}
           G(s) == CHOOSE g : IsSum(f, s, g)
<1>1. ASSUME NEW T \in SUBSET S, \A U \in SUBSET T : U # T => U \in Good
      PROVE  T \in Good
  <2> DEFINE V(s) == G(s)[s]
             h == [s \in SUBSET T |->
                     IF s # T THEN V(s)
                     ELSE IF T = {} THEN 0 ELSE f[Pick(T)] + V(T \ {Pick(T)})]
  <2>1. \A U \in SUBSET T : U # T => IsSum(f, U, G(U)) /\ IsFiniteSet(U)
    <3>1. \A U \in SUBSET T : U # T => IsSum(f, U, G(U))
      BY <1>1
    <3>2. \A U \in SUBSET T : IsFiniteSet(U)
      BY FS_Subset
    <3> QED BY <3>1, <3>2
  <2> HIDE DEF G, Good
  <2>2. ASSUME NEW s \in SUBSET T PROVE h[s] = SumStep(f, h, s)
    <3>1. CASE s # T
      <4>1. h[s] = V(s) /\ IsSum(f, s, G(s))
        BY <2>1, <3>1
      <4>2. CASE s = {}
        <5>1. V(s) = 0
          BY <4>1, <4>2, SumAt
        <5> QED BY <4>1, <4>2, <5>1 DEF SumStep
      <4>3. CASE s # {}
        <5> DEFINE r == s \ {Pick(s)}
        <5>1. /\ Pick(s) \in s
              /\ V(s) = f[Pick(s)] + G(s)[r]
          BY <4>1, <4>3, SumAt
        <5>2. r \in SUBSET T /\ r # T /\ r \subseteq s
          BY <5>1
        <5>3. h[r] = V(r) /\ IsSum(f, r, G(r)) /\ IsFiniteSet(r)
          BY <2>1, <5>2
        <5> HIDE DEF r
        <5>4. G(s)[r] = G(r)[r]
          BY <4>1, <5>2, <5>3, SumAgree
        <5>5. SumStep(f, h, s) = f[Pick(s)] + h[r]
          BY <4>3 DEF SumStep, r
        <5> QED BY <4>1, <5>1, <5>3, <5>4, <5>5
      <4> QED BY <4>2, <4>3
    <3>2. CASE s = T
      <4>1. CASE T = {}
        BY <3>2, <4>1 DEF SumStep
      <4>2. CASE T # {}
        <5>1. Pick(T) \in T
          BY <4>2 DEF Pick
        <5>2. T \ {Pick(T)} \in SUBSET T /\ T \ {Pick(T)} # T
          BY <5>1
        <5>3. h[T \ {Pick(T)}] = V(T \ {Pick(T)})
          BY <5>2
        <5>4. h[s] = f[Pick(T)] + V(T \ {Pick(T)})
          BY <3>2, <4>2
        <5> QED BY <3>2, <4>2, <5>3, <5>4 DEF SumStep
      <4> QED BY <4>1, <4>2
    <3> QED BY <3>1, <3>2
  <2>3. IsSum(f, T, h)
    <3>1. h = [s \in SUBSET T |-> h[s]]
      OBVIOUS
    <3> HIDE DEF h
    <3> QED BY <2>2, <3>1 DEF IsSum
  <2> HIDE DEF h
  <2> QED BY <2>3 DEF Good
<1> HIDE DEF Good
<1>2. S \in Good
  <2>1. SUBSET S \subseteq Good
    BY <1>1, SubsetInduction
  <2> QED BY <2>1
<1> QED BY <1>2 DEF Good

\* The sum over the empty set, and over another one by the element the fold
\* happens to pick.
LEMMA SumRec ==
  ASSUME NEW f, NEW S, IsFiniteSet(S)
  PROVE  /\ S = {} => SumFunctionOnSet(f, S) = 0
         /\ S # {} => /\ Pick(S) \in S
                      /\ SumFunctionOnSet(f, S)
                           = f[Pick(S)] + SumFunctionOnSet(f, S \ {Pick(S)})
<1> DEFINE G(s) == CHOOSE g : IsSum(f, s, g)
           r == S \ {Pick(S)}
<1>1. r \subseteq S /\ IsFiniteSet(r)
  BY FS_Subset
<1>2. IsSum(f, S, G(S)) /\ IsSum(f, r, G(r))
  BY <1>1, SumExists
<1>3. /\ SumFunctionOnSet(f, S) = G(S)[S]
      /\ SumFunctionOnSet(f, r) = G(r)[r]
  BY SumUnfold
<1> HIDE DEF G
<1>4. G(S)[r] = G(r)[r]
  BY <1>1, <1>2, SumAgree
<1>5. /\ S = {} => G(S)[S] = 0
      /\ S # {} => Pick(S) \in S /\ G(S)[S] = f[Pick(S)] + G(S)[r]
  BY <1>2, SumAt
<1> QED BY <1>3, <1>4, <1>5

\* A sum of naturals is a natural.
LEMMA SumNat ==
  ASSUME NEW f, NEW S, IsFiniteSet(S), \A x \in S : f[x] \in Nat
  PROVE  SumFunctionOnSet(f, S) \in Nat
<1> DEFINE Good == {s \in SUBSET S : SumFunctionOnSet(f, s) \in Nat}
<1>1. ASSUME NEW T \in SUBSET S, \A U \in SUBSET T : U # T => U \in Good
      PROVE  T \in Good
  <2>1. IsFiniteSet(T)
    BY FS_Subset
  <2>2. CASE T = {}
    <3>1. SumFunctionOnSet(f, T) = 0
      BY <2>1, <2>2, SumRec
    <3> QED BY <3>1
  <2>3. CASE T # {}
    <3> DEFINE r == T \ {Pick(T)}
    <3>1. /\ Pick(T) \in T
          /\ SumFunctionOnSet(f, T) = f[Pick(T)] + SumFunctionOnSet(f, r)
      BY <2>1, <2>3, SumRec
    <3>2. r \in SUBSET T /\ r # T
      BY <3>1
    <3>3. SumFunctionOnSet(f, r) \in Nat
      BY <1>1, <3>2
    <3> HIDE DEF r
    <3> QED BY <3>1, <3>3
  <2> QED BY <2>2, <2>3
<1> HIDE DEF Good
<1>2. S \in Good
  <2>1. SUBSET S \subseteq Good
    BY <1>1, SubsetInduction
  <2> QED BY <2>1
<1> QED BY <1>2 DEF Good

\* The order does not matter: any element may be added first.
LEMMA SumRemove ==
  ASSUME NEW f, NEW S, IsFiniteSet(S), \A x \in S : f[x] \in Nat
  PROVE  \A x \in S : SumFunctionOnSet(f, S)
                        = f[x] + SumFunctionOnSet(f, S \ {x})
<1> DEFINE Good == {s \in SUBSET S :
                      \A x \in s : SumFunctionOnSet(f, s)
                                     = f[x] + SumFunctionOnSet(f, s \ {x})}
<1>1. ASSUME NEW T \in SUBSET S, \A U \in SUBSET T : U # T => U \in Good
      PROVE  T \in Good
  <2>1. IsFiniteSet(T)
    BY FS_Subset
  <2> SUFFICES ASSUME NEW x \in T
               PROVE  SumFunctionOnSet(f, T)
                        = f[x] + SumFunctionOnSet(f, T \ {x})
    OBVIOUS
  <2> DEFINE p == Pick(T)
             A == T \ {p}
             B == T \ {x}
             N == A \ {x}
  <2>2. /\ p \in T
        /\ SumFunctionOnSet(f, T) = f[p] + SumFunctionOnSet(f, A)
    BY <2>1, SumRec
  <2> HIDE DEF p
  <2>3. CASE p = x
    BY <2>2, <2>3
  <2>4. CASE p # x
    <3>1. /\ A \in SUBSET T /\ A # T /\ x \in A
          /\ B \in SUBSET T /\ B # T /\ p \in B
          /\ B \ {p} = N
      BY <2>2, <2>4
    <3>2. A \in Good /\ B \in Good
      BY <1>1, <3>1
    <3>3. SumFunctionOnSet(f, A) = f[x] + SumFunctionOnSet(f, N)
      BY <3>1, <3>2
    <3>4. SumFunctionOnSet(f, B) = f[p] + SumFunctionOnSet(f, N)
      BY <3>1, <3>2
    <3>5. SumFunctionOnSet(f, N) \in Nat
      <4>1. N \in SUBSET T /\ N \in SUBSET S
        OBVIOUS
      <4>2. IsFiniteSet(N)
        BY <4>1, FS_Subset
      <4> QED BY <4>1, <4>2, SumNat
    <3>6. f[p] \in Nat /\ f[x] \in Nat
      BY <2>2
    <3> HIDE DEF A, B, N
    <3> QED BY <2>2, <3>3, <3>4, <3>5, <3>6 DEF B
  <2> QED BY <2>3, <2>4
<1> HIDE DEF Good
<1>2. S \in Good
  <2>1. SUBSET S \subseteq Good
    BY <1>1, SubsetInduction
  <2> QED BY <2>1
<1> QED BY <1>2 DEF Good

\* The sum looks at the values on the set only.
LEMMA SumSame ==
  ASSUME NEW f, NEW g, NEW S, IsFiniteSet(S), \A x \in S : f[x] = g[x]
  PROVE  SumFunctionOnSet(f, S) = SumFunctionOnSet(g, S)
<1> DEFINE Good == {s \in SUBSET S :
                      SumFunctionOnSet(f, s) = SumFunctionOnSet(g, s)}
<1>1. ASSUME NEW T \in SUBSET S, \A U \in SUBSET T : U # T => U \in Good
      PROVE  T \in Good
  <2>1. IsFiniteSet(T)
    BY FS_Subset
  <2>2. CASE T = {}
    BY <2>1, <2>2, SumRec
  <2>3. CASE T # {}
    <3> DEFINE r == T \ {Pick(T)}
    <3>1. /\ Pick(T) \in T
          /\ SumFunctionOnSet(f, T) = f[Pick(T)] + SumFunctionOnSet(f, r)
          /\ SumFunctionOnSet(g, T) = g[Pick(T)] + SumFunctionOnSet(g, r)
      BY <2>1, <2>3, SumRec
    <3>2. r \in SUBSET T /\ r # T
      BY <3>1
    <3>3. SumFunctionOnSet(f, r) = SumFunctionOnSet(g, r)
      BY <1>1, <3>2
    <3> HIDE DEF r
    <3> QED BY <3>1, <3>3
  <2> QED BY <2>2, <2>3
<1> HIDE DEF Good
<1>2. S \in Good
  <2>1. SUBSET S \subseteq Good
    BY <1>1, SubsetInduction
  <2> QED BY <2>1
<1> QED BY <1>2 DEF Good

\* Rows are counted in order: the first i of them are the first i - 1 and one
\* more.
LEMMA SumPrefix ==
  ASSUME NEW f, NEW i \in Nat \ {0}, \A j \in 1 .. i : f[j] \in Nat
  PROVE  /\ SumFunctionOnSet(f, 1 .. i) = SumFunctionOnSet(f, 1 .. i - 1) + f[i]
         /\ SumFunctionOnSet(f, 1 .. i) \in Nat
         /\ SumFunctionOnSet(f, 1 .. i - 1) \in Nat
<1>1. /\ IsFiniteSet(1 .. i) /\ IsFiniteSet(1 .. i - 1)
  BY FS_Interval
<1>2. (1 .. i) \ {i} = 1 .. i - 1 /\ i \in 1 .. i
  OBVIOUS
<1>3. /\ SumFunctionOnSet(f, 1 .. i) \in Nat
      /\ SumFunctionOnSet(f, 1 .. i - 1) \in Nat
  BY <1>1, SumNat
<1>4. SumFunctionOnSet(f, 1 .. i) = f[i] + SumFunctionOnSet(f, (1 .. i) \ {i})
  BY <1>1, <1>2, SumRemove
<1>5. f[i] \in Nat
  BY <1>2
<1>6. SumFunctionOnSet(f, 1 .. i) = f[i] + SumFunctionOnSet(f, 1 .. i - 1)
  BY <1>2, <1>4
<1> QED BY <1>3, <1>5, <1>6

-----------------------------------------------------------------------------
(***************************************************************************)
(* Induction over the naturals, and the least of some of them.             *)
(***************************************************************************)
\* Every set of naturals that is not empty has a least element.
LEMMA LeastNatural ==
  ASSUME NEW T \in SUBSET Nat, T # {}
  PROVE  \E x \in T : \A y \in T : x <= y
<1> DEFINE R == OpToRel(<, Nat)
<1>1. IsWellFoundedOn(R, Nat)
  BY NatLessThanWellFounded
<1>2. \A x, y \in Nat : x < y => <<x, y>> \in R
  BY DEF OpToRel
<1> HIDE DEF R
<1>3. PICK x \in T : \A y \in T : ~(<<y, x>> \in R)
  BY <1>1, WFMin
<1>4. \A y \in T : ~(y < x)
  BY <1>2, <1>3
<1> QED BY <1>3, <1>4

\* A set that has m and, with n, n + 1, has every natural from m on.
LEMMA Upward ==
  ASSUME NEW m \in Nat, NEW T, m \in T,
         \A n \in Nat : m <= n /\ n \in T => n + 1 \in T
  PROVE  \A n \in Nat : m <= n => n \in T
<1> DEFINE Bad == {n \in Nat : m <= n /\ n \notin T}
<1> SUFFICES ASSUME Bad # {} PROVE FALSE
  OBVIOUS
<1>1. Bad \in SUBSET Nat
  OBVIOUS
<1> HIDE DEF Bad
<1>2. PICK x \in Bad : \A y \in Bad : x <= y
  BY <1>1, LeastNatural
<1>3. x \in Nat /\ m <= x /\ x \notin T
  BY <1>2 DEF Bad
<1>4. x - 1 \in Nat /\ m <= x - 1 /\ (x - 1) + 1 = x
  BY <1>3
<1>5. x - 1 \notin T
  BY <1>3, <1>4
<1>6. x - 1 \in Bad
  BY <1>4, <1>5 DEF Bad
<1>7. ~(x <= x - 1)
  BY <1>3
<1> QED BY <1>2, <1>6, <1>7

\* The shortest selectable samples exist when any is selectable.
LEMMA SmallestExists ==
  ASSUME NEW p, P!HasNext(p)
  PROVE  \E l \in 1 .. Capacity : \E s \in P!Smallest(p, {}) : SampleLen[s] = l
<1> DEFINE open == P!Selectable(p)
           T == {SampleLen[s] : s \in open}
<1>1. /\ open \subseteq Samples /\ open # {}
      /\ \A s \in open : SampleLen[s] \in 1 .. Capacity
  BY CoServingAssumption DEF P!HasNext, P!Selectable
<1>2. T \in SUBSET Nat /\ T # {}
  BY <1>1
<1>3. PICK l \in T : \A y \in T : l <= y
  BY <1>2, LeastNatural
<1>4. PICK s \in open : SampleLen[s] = l
  BY <1>3
<1>5. \A t \in open : SampleLen[s] <= SampleLen[t]
  BY <1>3, <1>4
<1>6. s \in P!Smallest(p, {})
  BY <1>4, <1>5 DEF P!Smallest
<1> QED BY <1>1, <1>4, <1>6

\* The length note_injection is asked about, one above Capacity if no sample
\* is left.
LEMMA NextLenRange ==
  ASSUME NEW p PROVE NextLen(p) \in C!NextLens
<1>1. Capacity \in Nat
  BY CoServingAssumption
<1>2. CASE P!HasNext(p)
  <2>1. NextLen(p) \in 1 .. Capacity
    BY <1>2, SmallestExists DEF NextLen
  <2> QED BY <1>1, <2>1 DEF C!NextLens
<1>3. CASE ~P!HasNext(p)
  BY <1>1, <1>3 DEF NextLen, C!NextLens
<1> QED BY <1>2, <1>3

-----------------------------------------------------------------------------
(***************************************************************************)
(* What _schedule_step schedules of a batch.                               *)
(***************************************************************************)
\* Rows of the samples of a batch, and of those before its i-th.
Lens(batch) == [j \in DOMAIN batch |-> SampleLen[batch[j]]]
RowsBefore(batch, i) == SumFunctionOnSet(Lens(batch), 1 .. i - 1)

\* A batch lists each of its samples once.
LEMMA BatchFacts ==
  ASSUME NEW S \in SUBSET Samples, NEW batch \in Batches(S)
  PROVE  /\ IsFiniteSet(S) /\ Cardinality(S) \in Nat
         /\ DOMAIN batch = 1 .. Cardinality(S)
         /\ \A i \in 1 .. Cardinality(S) :
               /\ batch[i] \in S
               /\ Lens(batch)[i] = SampleLen[batch[i]]
               /\ Lens(batch)[i] \in 1 .. Capacity
               /\ \A j \in 1 .. Cardinality(S) : i # j => batch[i] # batch[j]
<1>1. IsFiniteSet(S) /\ Cardinality(S) \in Nat
  BY CoServingAssumption, FS_Subset, FS_CardinalityType
<1>2. /\ batch \in [1 .. Cardinality(S) -> S]
      /\ \A i, j \in 1 .. Cardinality(S) : i # j => batch[i] # batch[j]
  BY DEF Batches, SetToSeqs
<1>3. \A s \in S : SampleLen[s] \in 1 .. Capacity
  BY CoServingAssumption
<1> QED BY <1>1, <1>2, <1>3 DEF Lens

\* The offset of the next sample is that of the last and its length.
LEMMA RowsBeforeNext ==
  ASSUME NEW S \in SUBSET Samples, NEW batch \in Batches(S)
  PROVE  /\ RowsBefore(batch, 1) = 0
         /\ \A i \in 1 .. Cardinality(S) :
               /\ RowsBefore(batch, i) \in Nat
               /\ RowsBefore(batch, i + 1) \in Nat
               /\ RowsBefore(batch, i + 1)
                    = RowsBefore(batch, i) + Lens(batch)[i]
<1>1. RowsBefore(batch, 1) = 0
  <2>1. 1 .. 1 - 1 = {} /\ IsFiniteSet(1 .. 1 - 1)
    BY FS_Interval
  <2>2. SumFunctionOnSet(Lens(batch), 1 .. 1 - 1) = 0
    BY <2>1, SumRec
  <2> QED BY <2>2 DEF RowsBefore
<1>2. ASSUME NEW i \in 1 .. Cardinality(S)
      PROVE  /\ RowsBefore(batch, i) \in Nat
             /\ RowsBefore(batch, i + 1) \in Nat
             /\ RowsBefore(batch, i + 1) = RowsBefore(batch, i) + Lens(batch)[i]
  <2>1. Cardinality(S) \in Nat
    BY BatchFacts
  <2>2. /\ i \in Nat \ {0} /\ (i + 1) - 1 = i
        /\ 1 .. i \subseteq 1 .. Cardinality(S)
    BY <2>1
  <2>3. \A j \in 1 .. i : Lens(batch)[j] \in Nat
    BY <2>2, BatchFacts, CoServingAssumption
  <2> DEFINE f == Lens(batch)
  <2>4. \A j \in 1 .. i : f[j] \in Nat
    BY <2>3
  <2> HIDE DEF f
  <2>5. /\ SumFunctionOnSet(f, 1 .. i) = SumFunctionOnSet(f, 1 .. i - 1) + f[i]
        /\ SumFunctionOnSet(f, 1 .. i) \in Nat
        /\ SumFunctionOnSet(f, 1 .. i - 1) \in Nat
    BY <2>2, <2>4, SumPrefix
  <2> QED BY <2>2, <2>5 DEF RowsBefore, f
<1> QED BY <1>1, <1>2

\* The lengths of a set of samples add up to those of a batch that lists them.
LEMMA TotalOfBatch ==
  ASSUME NEW S \in SUBSET Samples, NEW batch \in Batches(S)
  PROVE  /\ Total(S) = RowsBefore(batch, Cardinality(S) + 1)
         /\ Total(S) \in Nat
<1> DEFINE n == Cardinality(S)
           First(i) == {batch[j] : j \in 1 .. i}
           T == {i \in Nat : i <= n => SumFunctionOnSet(SampleLen, First(i))
                                         = RowsBefore(batch, i + 1)}
<1>1. /\ IsFiniteSet(S) /\ n \in Nat
      /\ \A i \in 1 .. n :
            /\ batch[i] \in S /\ Lens(batch)[i] = SampleLen[batch[i]]
            /\ \A j \in 1 .. n : i # j => batch[i] # batch[j]
  BY BatchFacts
<1>2. \A s \in S : SampleLen[s] \in Nat
  BY CoServingAssumption
<1>3. \A i \in 0 .. n : First(i) \subseteq S /\ IsFiniteSet(First(i))
  <2>1. \A i \in 0 .. n : First(i) \in SUBSET S
    BY <1>1
  <2> HIDE DEF First
  <2> QED BY <1>1, <2>1, FS_Subset
<1>4. 0 \in T
  <2>1. First(0) = {}
    OBVIOUS
  <2>2. SumFunctionOnSet(SampleLen, First(0)) = 0
    BY <2>1, FS_EmptySet, SumRec
  <2>3. RowsBefore(batch, 0 + 1) = 0
    BY RowsBeforeNext
  <2> HIDE DEF First
  <2> QED BY <2>2, <2>3
<1>5. ASSUME NEW i \in Nat, 0 <= i, i \in T PROVE i + 1 \in T
  <2> SUFFICES ASSUME i + 1 <= n
               PROVE  SumFunctionOnSet(SampleLen, First(i + 1))
                        = RowsBefore(batch, (i + 1) + 1)
    BY <1>5
  <2>1. i + 1 \in 1 .. n /\ i <= n /\ i \in 0 .. n /\ i + 1 \in 0 .. n
    BY <1>1
  <2>2. SumFunctionOnSet(SampleLen, First(i)) = RowsBefore(batch, i + 1)
    BY <1>5, <2>1
  <2>3. /\ First(i + 1) \ {batch[i + 1]} = First(i)
        /\ batch[i + 1] \in First(i + 1)
    <3>1. \A j \in 1 .. i : j \in 1 .. n /\ batch[j] # batch[i + 1]
      BY <1>1, <2>1
    <3>2. \A j \in 1 .. i + 1 : j \in 1 .. i \/ j = i + 1
      OBVIOUS
    <3> QED BY <3>1, <3>2
  <2>4. SumFunctionOnSet(SampleLen, First(i + 1))
          = SampleLen[batch[i + 1]] + SumFunctionOnSet(SampleLen, First(i))
    <3>1. /\ IsFiniteSet(First(i + 1))
          /\ \A x \in First(i + 1) : SampleLen[x] \in Nat
      BY <1>2, <1>3, <2>1
    <3> HIDE DEF First
    <3>2. \A x \in First(i + 1) :
             SumFunctionOnSet(SampleLen, First(i + 1))
               = SampleLen[x] + SumFunctionOnSet(SampleLen, First(i + 1) \ {x})
      BY <3>1, SumRemove
    <3> QED BY <2>3, <3>2
  <2>5. /\ RowsBefore(batch, (i + 1) + 1)
             = RowsBefore(batch, i + 1) + Lens(batch)[i + 1]
        /\ RowsBefore(batch, i + 1) \in Nat
        /\ Lens(batch)[i + 1] = SampleLen[batch[i + 1]]
        /\ SampleLen[batch[i + 1]] \in Nat
    BY <1>1, <1>2, <2>1, RowsBeforeNext
  <2> HIDE DEF First
  <2> QED BY <2>2, <2>4, <2>5
<1>6. n \in T
  <2> HIDE DEF T
  <2>1. \A i \in Nat : 0 <= i => i \in T
    BY <1>4, <1>5, Upward
  <2> QED BY <1>1, <2>1
<1>7. First(n) = S
  <2> DEFINE f == [j \in 1 .. n |-> batch[j]]
  <2>1. f \in Injection(1 .. n, S)
    BY <1>1 DEF Injection, IsInjective
  <2>2. Cardinality(1 .. n) = n
    BY <1>1, FS_Interval
  <2>3. f \in Surjection(1 .. n, S)
    <3> HIDE DEF f
    <3> QED BY <1>1, <2>1, <2>2, FS_Injection
  <2>4. \A s \in S : \E j \in 1 .. n : f[j] = s
    <3> HIDE DEF f
    <3> QED BY <2>3 DEF Surjection
  <2> QED BY <1>1, <2>4
<1>8. Total(S) = RowsBefore(batch, n + 1)
  <2>1. SumFunctionOnSet(SampleLen, First(n)) = RowsBefore(batch, n + 1)
    BY <1>1, <1>6
  <2> HIDE DEF First
  <2> QED BY <1>7, <2>1 DEF Total
<1>9. Total(S) \in Nat
  BY <1>1, <1>2, SumNat DEF Total
<1> QED BY <1>8, <1>9

\* Without inference or with any share of the admitted tokens, the samples are
\* cut after `tokens' rows: those scheduled are the first k of the batch, whole
\* but for the last.
LEMMA CutPoint ==
  ASSUME NEW S \in SUBSET Samples, NEW batch \in Batches(S),
         NEW tokens \in 1 .. Total(S)
  PROVE  \E k \in 1 .. Cardinality(S) :
            /\ k <= tokens
            /\ RowsBefore(batch, k) < tokens
            /\ tokens <= RowsBefore(batch, k + 1)
            /\ \A i \in 1 .. Cardinality(S) :
                  RowsBefore(batch, i) < tokens <=> i <= k
<1> DEFINE n == Cardinality(S)
           B(i) == RowsBefore(batch, i)
           Over == {i \in 1 .. n : tokens <= B(i + 1)}
           Behind(i) == {m \in Nat : m <= n => B(i + 1) <= B(m + 1)}
           Wide == {m \in Nat : m <= n => m <= B(m + 1)}
<1>1. /\ n \in Nat /\ tokens \in Nat \ {0}
      /\ B(1) = 0 /\ B(n + 1) = Total(S) /\ tokens <= B(n + 1)
      /\ \A i \in 1 .. n : /\ B(i) \in Nat /\ B(i + 1) \in Nat
                           /\ B(i + 1) > B(i)
  <2>1. /\ n \in Nat
        /\ \A i \in 1 .. n : Lens(batch)[i] \in 1 .. Capacity
    BY BatchFacts
  <2>2. /\ B(1) = 0
        /\ \A i \in 1 .. n : /\ B(i) \in Nat /\ B(i + 1) \in Nat
                             /\ B(i + 1) = B(i) + Lens(batch)[i]
    BY RowsBeforeNext
  <2>3. B(n + 1) = Total(S) /\ Total(S) \in Nat
    BY TotalOfBatch
  <2> HIDE DEF B, n
  <2>4. \A i \in 1 .. n : B(i + 1) > B(i)
    BY <2>1, <2>2, CoServingAssumption
  <2> QED BY <2>1, <2>2, <2>3, <2>4
<1> HIDE DEF B, n
<1>2. n \in 1 .. n
  <2>1. CASE n = 0
    BY <1>1, <2>1
  <2> QED BY <1>1, <2>1
<1>3. PICK k \in Over : \A y \in Over : k <= y
  <2>1. Over \in SUBSET Nat /\ Over # {}
    <3>1. n \in Over
      BY <1>1, <1>2
    <3>2. \A i \in 1 .. n : i \in Nat
      BY <1>1
    <3> QED BY <3>1, <3>2
  <2> HIDE DEF Over
  <2> QED BY <2>1, LeastNatural
<1>4. k \in 1 .. n /\ tokens <= B(k + 1)
  BY <1>3
<1>5. \A i \in 1 .. k : B(i) < tokens
  <2> SUFFICES ASSUME NEW i \in 1 .. k PROVE B(i) < tokens
    OBVIOUS
  <2>1. CASE i = 1
    BY <1>1, <2>1
  <2>2. CASE i # 1
    <3>1. i - 1 \in 1 .. n /\ ~(k <= i - 1) /\ (i - 1) + 1 = i
      BY <1>1, <1>4, <2>2
    <3>2. i - 1 \notin Over
      BY <1>3, <3>1
    <3>3. B(i) \in Nat
      BY <1>1, <3>1
    <3> QED BY <1>1, <3>1, <3>2, <3>3
  <2> QED BY <2>1, <2>2
<1>6. \A m \in Nat : k <= m => m \in Behind(k)
  <2>1. k \in Behind(k) /\ k \in Nat
    BY <1>1, <1>4
  <2>2. ASSUME NEW m \in Nat, k <= m, m \in Behind(k) PROVE m + 1 \in Behind(k)
    <3> SUFFICES ASSUME m + 1 <= n PROVE B(k + 1) <= B((m + 1) + 1)
      OBVIOUS
    <3>1. B(k + 1) <= B(m + 1)
      BY <1>1, <2>2
    <3>2. m + 1 \in 1 .. n
      BY <1>1
    <3>3. /\ B(m + 1) < B((m + 1) + 1) /\ B(m + 1) \in Nat
          /\ B((m + 1) + 1) \in Nat /\ B(k + 1) \in Nat
      BY <1>1, <1>4, <3>2
    <3> QED BY <3>1, <3>3
  <2> HIDE DEF Behind
  <2> QED BY <2>1, <2>2, Upward
<1>7. \A i \in 1 .. n : i > k => ~(B(i) < tokens)
  <2> SUFFICES ASSUME NEW i \in 1 .. n, i > k PROVE tokens <= B(i)
    BY <1>1
  <2>1. i - 1 \in Nat /\ k <= i - 1 /\ i - 1 <= n /\ (i - 1) + 1 = i
    BY <1>1, <1>4
  <2>2. B(k + 1) <= B(i)
    BY <1>6, <2>1
  <2>3. B(k + 1) \in Nat /\ B(i) \in Nat
    BY <1>1, <1>4
  <2> QED BY <1>1, <1>4, <2>2, <2>3
<1>8. k <= tokens
  <2>1. 0 \in Wide
    BY <1>1
  <2>2. ASSUME NEW m \in Nat, 0 <= m, m \in Wide PROVE m + 1 \in Wide
    <3> SUFFICES ASSUME m + 1 <= n PROVE m + 1 <= B((m + 1) + 1)
      OBVIOUS
    <3>1. m <= B(m + 1)
      BY <1>1, <2>2
    <3>2. m + 1 \in 1 .. n
      BY <1>1
    <3>3. /\ B(m + 1) < B((m + 1) + 1) /\ B(m + 1) \in Nat
          /\ B((m + 1) + 1) \in Nat
      BY <1>1, <3>2
    <3> QED BY <3>1, <3>3
  <2>3. k - 1 \in Wide
    <3> HIDE DEF Wide
    <3>1. \A m \in Nat : 0 <= m => m \in Wide
      BY <2>1, <2>2, Upward
    <3> QED BY <1>1, <1>4, <3>1
  <2>4. k - 1 <= B(k)
    <3>1. k - 1 <= n /\ (k - 1) + 1 = k
      BY <1>1, <1>4
    <3> QED BY <2>3, <3>1
  <2>5. B(k) < tokens /\ B(k) \in Nat
    BY <1>1, <1>4, <1>5
  <2> QED BY <1>1, <1>4, <2>4, <2>5
<1>9. B(k) < tokens
  BY <1>1, <1>4, <1>5
<1>10. \A i \in 1 .. n : B(i) < tokens <=> i <= k
  BY <1>1, <1>4, <1>5, <1>7
<1> QED BY <1>4, <1>8, <1>9, <1>10 DEF B, n

\* What is scheduled of a batch divides its rows into samples of the batch, and
\* has a sample exactly if it has a row.
LEMMA ScheduledRows ==
  ASSUME NEW S \in SUBSET Samples, NEW batch \in Batches(S),
         NEW tokens \in 0 .. Total(S)
  PROVE  LET segs == Scheduled(batch, tokens)
         IN  /\ tokens > 0 => RowsOf(segs) \in C!Splits(tokens)
             /\ tokens > 0 <=> SamplesOf(segs) # {}
             /\ SamplesOf(segs) \subseteq S
<1> DEFINE n == Cardinality(S)
           B(i) == RowsBefore(batch, i)
           f == Lens(batch)
           used == {i \in 1 .. n : B(i) < tokens}
           cut(i) == IF B(i) + f[i] <= tokens THEN f[i] ELSE tokens - B(i)
           segs == Scheduled(batch, tokens)
<1>1. /\ n \in Nat /\ DOMAIN batch = 1 .. n
      /\ \A i \in 1 .. n : /\ batch[i] \in S /\ f[i] = SampleLen[batch[i]]
                           /\ f[i] \in Nat \ {0}
  BY BatchFacts, CoServingAssumption
<1>2. /\ \A i \in 1 .. n : /\ B(i) \in Nat /\ B(i + 1) \in Nat
                           /\ B(i + 1) = B(i) + f[i]
      /\ tokens \in Nat
  BY RowsBeforeNext, TotalOfBatch
<1>3. segs = [i \in used |-> [sample |-> batch[i], n |-> cut(i)]]
  <2>1. \A i \in 1 .. n :
           SumFunctionOnSet([j \in DOMAIN batch |-> SampleLen[batch[j]]],
                            1 .. i - 1) = B(i)
    BY DEF RowsBefore, Lens
  <2> HIDE DEF n, B, f
  <2> QED BY <1>1, <2>1 DEF Scheduled
<1> HIDE DEF n, B, f, segs
<1>4. /\ SamplesOf(segs) = {batch[i] : i \in used}
      /\ RowsOf(segs) = [i \in used |-> cut(i)]
  <2> HIDE DEF cut, used
  <2> QED BY <1>3 DEF SamplesOf, RowsOf
<1>5. SamplesOf(segs) \subseteq S
  BY <1>1, <1>4
<1>6. CASE tokens = 0
  <2>1. used = {}
    BY <1>2, <1>6
  <2> QED BY <1>4, <1>5, <1>6, <2>1 DEF segs
<1>7. CASE tokens > 0
  <2>1. PICK k \in 1 .. n :
          /\ k <= tokens
          /\ B(k) < tokens /\ tokens <= B(k + 1)
          /\ \A i \in 1 .. n : B(i) < tokens <=> i <= k
    <3>1. tokens \in 1 .. Total(S)
      BY <1>2, <1>7, TotalOfBatch
    <3> QED BY <3>1, CutPoint DEF B, n
  <2>2. used = 1 .. k /\ k \in 1 .. tokens /\ k \in Nat
    BY <1>1, <1>2, <2>1
  <2> DEFINE shares == [i \in 1 .. k |-> cut(i)]
  <2>3. \A i \in 1 .. k - 1 : shares[i] = f[i] /\ f[i] <= tokens
    <3> SUFFICES ASSUME NEW i \in 1 .. k - 1
                 PROVE  cut(i) = f[i] /\ f[i] <= tokens
      BY <2>2
    <3>1. i \in 1 .. n /\ i + 1 \in 1 .. n /\ i + 1 <= k
      BY <1>1, <2>1
    <3>2. B(i + 1) < tokens
      BY <2>1, <3>1
    <3> QED BY <1>1, <1>2, <3>1, <3>2
  <2>4. shares[k] = tokens - B(k) /\ shares[k] \in 1 .. tokens
    <3>1. cut(k) = tokens - B(k)
      BY <1>1, <1>2, <2>1
    <3> QED BY <1>2, <2>1, <2>2, <3>1
  <2>5. shares \in [1 .. k -> 1 .. tokens]
    <3>1. \A i \in 1 .. k : i \in 1 .. k - 1 \/ i = k
      BY <2>2
    <3>2. \A i \in 1 .. k - 1 : i \in 1 .. n
      BY <1>1, <2>1
    <3>3. \A i \in 1 .. k - 1 : shares[i] \in 1 .. tokens
      <4> SUFFICES ASSUME NEW i \in 1 .. k - 1 PROVE shares[i] \in 1 .. tokens
        OBVIOUS
      <4>1. shares[i] = f[i] /\ f[i] <= tokens
        BY <2>3
      <4>2. f[i] \in Nat \ {0}
        BY <1>1, <3>2
      <4> HIDE DEF shares
      <4>3. f[i] \in 1 .. tokens
        BY <1>2, <4>1, <4>2
      <4> QED BY <4>1, <4>3
    <3>4. \A i \in 1 .. k : shares[i] \in 1 .. tokens
      <4> HIDE DEF shares
      <4> QED BY <2>4, <3>1, <3>3
    <3> QED BY <3>4
  <2>6. SumFunction(shares) = tokens
    <3>1. SumFunctionOnSet(shares, 1 .. k)
            = SumFunctionOnSet(shares, 1 .. k - 1) + shares[k]
      <4>1. k \in Nat \ {0} /\ \A j \in 1 .. k : shares[j] \in Nat
        <5> HIDE DEF shares
        <5> QED BY <1>2, <2>2, <2>5
      <4> HIDE DEF shares
      <4> QED BY <4>1, SumPrefix
    <3>2. SumFunctionOnSet(shares, 1 .. k - 1) = SumFunctionOnSet(f, 1 .. k - 1)
      <4>1. IsFiniteSet(1 .. k - 1)
        BY <2>2, FS_Interval
      <4> HIDE DEF shares
      <4> QED BY <2>3, <4>1, SumSame
    <3>3. SumFunctionOnSet(f, 1 .. k - 1) = B(k) /\ B(k) \in Nat
      BY <1>2, <2>1 DEF B, RowsBefore, f
    <3>4. DOMAIN shares = 1 .. k
      OBVIOUS
    <3> HIDE DEF shares
    <3>5. SumFunction(shares) = B(k) + (tokens - B(k))
      BY <2>4, <3>1, <3>2, <3>3, <3>4 DEF SumFunction
    <3> QED BY <1>2, <3>3, <3>5
  <2>7. RowsOf(segs) \in C!Splits(tokens)
    <3>1. RowsOf(segs) = shares
      BY <1>4, <2>2
    <3> HIDE DEF shares
    <3>2. [1 .. k -> 1 .. tokens]
            \in {[1 .. j -> 1 .. tokens] : j \in 1 .. tokens}
      BY <2>2
    <3>3. shares \in UNION {[1 .. j -> 1 .. tokens] : j \in 1 .. tokens}
      BY <2>5, <3>2
    <3>4. shares \in
            {lens \in UNION {[1 .. j -> 1 .. tokens] : j \in 1 .. tokens} :
               SumFunction(lens) = tokens}
      BY <2>6, <3>3
    <3> QED BY <3>1, <3>4 DEF C!Splits, SumFunction, SumFunctionOnSet,
           FoldFunctionOnSet, MapThenFoldSet, C!SumFunction, C!SumFunctionOnSet,
           C!FoldFunctionOnSet, C!MapThenFoldSet
  <2>8. SamplesOf(segs) # {}
    <3>1. k \in used
      BY <2>2
    <3> QED BY <1>4, <3>1
  <2> QED BY <1>5, <1>7, <2>7, <2>8 DEF segs
<1> QED BY <1>2, <1>6, <1>7

-----------------------------------------------------------------------------
(***************************************************************************)
(* Queues, and the reservations of a queue.                                *)
(***************************************************************************)
\* A sequence, whatever it holds.
IsSeq(t) == t \in Seq({t[i] : i \in DOMAIN t})

\* Its length counts its elements, and they determine it.
LEMMA SeqFacts ==
  ASSUME NEW t, IsSeq(t)
  PROVE  /\ Len(t) \in Nat /\ DOMAIN t = 1 .. Len(t)
         /\ t = [i \in 1 .. Len(t) |-> t[i]]
         /\ t = <<>> <=> Len(t) = 0
         /\ t # <<>> => Head(t) = t[1] /\ Last(t) = t[Len(t)]
<1> DEFINE T == {t[i] : i \in DOMAIN t}
<1>1. t \in Seq(T)
  BY DEF IsSeq
<1>2. /\ Len(t) \in Nat /\ DOMAIN t = 1 .. Len(t)
      /\ t \in [1 .. Len(t) -> T]
  BY <1>1, LenProperties
<1>3. t = <<>> <=> Len(t) = 0
  BY <1>1, EmptySeq
<1>4. t # <<>> => Head(t) = t[1]
  BY <1>1
<1> QED BY <1>2, <1>3, <1>4 DEF Last

\* A function over 1 .. n is a sequence.
LEMMA FunctionIsSeq ==
  ASSUME NEW n \in Nat, NEW t, t = [i \in 1 .. n |-> t[i]]
  PROVE  IsSeq(t) /\ Len(t) = n
<1> DEFINE T == {t[i] : i \in DOMAIN t}
<1>1. t \in [1 .. n -> T]
  OBVIOUS
<1>2. t \in Seq(T)
  BY <1>1, SeqDef
<1>3. Len(t) = n
  <2>1. Len(t) \in Nat /\ DOMAIN t = 1 .. Len(t)
    BY <1>2, LenProperties
  <2>2. DOMAIN t = 1 .. n
    OBVIOUS
  <2> QED BY <2>1, <2>2
<1> QED BY <1>2, <1>3 DEF IsSeq

\* Two sequences with the same elements are one.
LEMMA SameSeq ==
  ASSUME NEW s, NEW t, IsSeq(s), IsSeq(t), Len(s) = Len(t),
         \A i \in 1 .. Len(s) : s[i] = t[i]
  PROVE  s = t
<1>1. s = [i \in 1 .. Len(s) |-> s[i]] /\ t = [i \in 1 .. Len(t) |-> t[i]]
  BY SeqFacts
<1> QED BY <1>1

\* What is appended comes last, and moves no other.
LEMMA AppendFacts ==
  ASSUME NEW t, IsSeq(t), NEW e
  PROVE  LET a == Append(t, e)
         IN  /\ IsSeq(a) /\ Len(a) = Len(t) + 1 /\ a[Len(t) + 1] = e
             /\ a # <<>>
             /\ \A j \in 1 .. Len(t) : a[j] = t[j]
<1> DEFINE T == {t[i] : i \in DOMAIN t} \union {e}
           a == Append(t, e)
<1>1. t \in Seq(T) /\ e \in T
  <2> DEFINE R == {t[i] : i \in DOMAIN t}
  <2>1. t \in Seq(R) /\ R \subseteq T
    BY DEF IsSeq
  <2> HIDE DEF T, R
  <2>2. t \in Seq(T)
    BY <2>1, SeqMonotonic
  <2> QED BY <2>2 DEF T
<1>2. /\ a \in Seq(T) /\ Len(a) = Len(t) + 1 /\ a[Len(t) + 1] = e
      /\ a # <<>>
      /\ \A j \in 1 .. Len(t) : a[j] = t[j]
  BY <1>1, AppendProperties
<1>3. IsSeq(a)
  <2> HIDE DEF a
  <2>1. a = [i \in 1 .. Len(a) |-> a[i]] /\ Len(a) \in Nat
    BY <1>2, LenProperties
  <2> QED BY <2>1, FunctionIsSeq
<1> QED BY <1>2, <1>3

\* What is left when the one at the head, or the last one, is taken away.
LEMMA TailFacts ==
  ASSUME NEW t, IsSeq(t), t # <<>>
  PROVE  /\ IsSeq(Tail(t)) /\ Len(Tail(t)) = Len(t) - 1
         /\ \A j \in 1 .. Len(t) - 1 : Tail(t)[j] = t[j + 1]
         /\ IsSeq(Front(t)) /\ Len(Front(t)) = Len(t) - 1
         /\ \A j \in 1 .. Len(t) - 1 : Front(t)[j] = t[j]
<1> DEFINE T == {t[i] : i \in DOMAIN t}
           a == Tail(t)
           b == Front(t)
<1>1. t \in Seq(T) /\ Len(t) \in Nat \ {0} /\ \A i \in 1 .. Len(t) : t[i] \in T
  BY SeqFacts DEF IsSeq
<1>2. /\ a \in Seq(T) /\ Len(a) = Len(t) - 1
      /\ \A j \in 1 .. Len(t) - 1 : a[j] = t[j + 1]
  BY <1>1, HeadTailProperties
<1>3. /\ b \in Seq(T) /\ Len(b) = Len(t) - 1
      /\ \A j \in 1 .. Len(t) - 1 : b[j] = t[j]
  <2>1. b = SubSeq(t, 1, Len(t) - 1)
    BY DEF Front
  <2>2. \A i \in 1 .. Len(t) - 1 : t[i] \in T
    BY <1>1
  <2> HIDE DEF T, b
  <2>3. /\ SubSeq(t, 1, Len(t) - 1) \in Seq(T)
        /\ Len(SubSeq(t, 1, Len(t) - 1))
             = IF 1 <= Len(t) - 1 THEN Len(t) - 1 - 1 + 1 ELSE 0
        /\ \A i \in 1 .. Len(t) - 1 - 1 + 1 :
              SubSeq(t, 1, Len(t) - 1)[i] = t[1 + i - 1]
    BY <1>1, <2>2, SubSeqProperties
  <2>4. /\ b \in Seq(T)
        /\ Len(b) = IF 1 <= Len(t) - 1 THEN Len(t) - 1 - 1 + 1 ELSE 0
        /\ \A i \in 1 .. Len(t) - 1 - 1 + 1 : b[i] = t[1 + i - 1]
    BY <2>1, <2>3
  <2>5. Len(b) = Len(t) - 1 /\ Len(t) - 1 - 1 + 1 = Len(t) - 1
    <3> DEFINE m == Len(t)
    <3>1. m \in Nat \ {0} /\ Len(b) = IF 1 <= m - 1 THEN m - 1 - 1 + 1 ELSE 0
      BY <1>1, <2>4
    <3> HIDE DEF m
    <3>2. Len(b) = m - 1 /\ m - 1 - 1 + 1 = m - 1
      BY <3>1
    <3> QED BY <3>2 DEF m
  <2>6. \A i \in 1 .. Len(t) - 1 : 1 + i - 1 = i
    OBVIOUS
  <2> QED BY <2>4, <2>5, <2>6
<1>4. IsSeq(a) /\ IsSeq(b)
  <2> HIDE DEF a, b
  <2>1. /\ a = [i \in 1 .. Len(a) |-> a[i]] /\ Len(a) \in Nat
        /\ b = [i \in 1 .. Len(b) |-> b[i]] /\ Len(b) \in Nat
    BY <1>2, <1>3, LenProperties
  <2> QED BY <2>1, FunctionIsSeq
<1> QED BY <1>2, <1>3, <1>4

\* The reservations of the first steps of a queue, step by step.
Held(step, queue) ==
    IF HoldsRows(step) THEN Append(queue, AsReservation(step)) ELSE queue
IsHeld(q, n, h) ==
    h = [i \in 0 .. n |-> IF i = 0 THEN <<>> ELSE Held(q[i], h[i - 1])]
ReservedOf(q, n) == CHOOSE h : IsHeld(q, n, h)

\* What the operator of the coordinator computes.
LEMMA ReservedUnfold ==
  ASSUME NEW q
  PROVE  ReservationsOf(q) = ReservedOf(q, Len(q))[Len(q)]
  BY DEF ReservationsOf, ReservedOf, IsHeld, Held

\* They can be computed, whatever the queue is.
LEMMA ReservedExists ==
  ASSUME NEW q, NEW n \in Nat
  PROVE  IsHeld(q, n, ReservedOf(q, n))
<1> DEFINE T == {m \in Nat : \E h : IsHeld(q, m, h)}
<1>1. 0 \in T
  <2> DEFINE h == [i \in 0 .. 0 |-> <<>>]
  <2>1. \A i \in 0 .. 0 : i = 0
    OBVIOUS
  <2>2. h = [i \in 0 .. 0 |-> IF i = 0 THEN <<>> ELSE Held(q[i], h[i - 1])]
    BY <2>1
  <2> HIDE DEF h
  <2>3. IsHeld(q, 0, h)
    BY <2>2 DEF IsHeld
  <2> QED BY <2>3
<1>2. \A m \in Nat : 0 <= m /\ m \in T => m + 1 \in T
  <2> SUFFICES ASSUME NEW m \in Nat, NEW g, IsHeld(q, m, g)
               PROVE  \E h : IsHeld(q, m + 1, h)
    OBVIOUS
  <2> DEFINE h == [i \in 0 .. m + 1 |->
                     IF i = m + 1 THEN Held(q[m + 1], g[m]) ELSE g[i]]
  <2>1. \A i \in 0 .. m : g[i] = IF i = 0 THEN <<>> ELSE Held(q[i], g[i - 1])
    BY DEF IsHeld
  <2>2. ASSUME NEW i \in 0 .. m + 1
        PROVE  h[i] = IF i = 0 THEN <<>> ELSE Held(q[i], h[i - 1])
    <3>1. CASE i = m + 1
      <4>1. h[i] = Held(q[i], g[i - 1]) /\ h[i - 1] = g[i - 1] /\ i # 0
        BY <3>1
      <4> HIDE DEF h
      <4> QED BY <4>1
    <3>2. CASE i \in 0 .. m
      <4>1. h[i] = g[i] /\ (i # 0 => h[i - 1] = g[i - 1])
        BY <3>2
      <4> HIDE DEF h
      <4> QED BY <2>1, <3>2, <4>1
    <3> QED BY <3>1, <3>2
  <2>3. IsHeld(q, m + 1, h)
    <3>1. h = [i \in 0 .. m + 1 |-> h[i]]
      OBVIOUS
    <3> HIDE DEF h
    <3> QED BY <2>2, <3>1 DEF IsHeld
  <2> QED BY <2>3
<1> HIDE DEF T
<1>3. \A m \in Nat : 0 <= m => m \in T
  <2>1. T \in SUBSET Nat
    BY DEF T
  <2> QED BY <1>1, <1>2, Upward
<1>4. \E h : IsHeld(q, n, h)
  BY <1>3 DEF T
<1> QED BY <1>4 DEF ReservedOf

\* Queues that agree on their first m steps agree on what those reserve.
LEMMA ReservedAgree ==
  ASSUME NEW q, NEW n \in Nat, NEW r, NEW k \in Nat, NEW m \in Nat,
         m <= n, m <= k, \A i \in 1 .. m : q[i] = r[i]
  PROVE  ReservedOf(q, n)[m] = ReservedOf(r, k)[m]
<1> DEFINE g == ReservedOf(q, n)
           h == ReservedOf(r, k)
           T == {i \in Nat : i <= m => g[i] = h[i]}
<1>1. /\ \A i \in 0 .. n : g[i] = IF i = 0 THEN <<>> ELSE Held(q[i], g[i - 1])
      /\ \A i \in 0 .. k : h[i] = IF i = 0 THEN <<>> ELSE Held(r[i], h[i - 1])
  <2>1. IsHeld(q, n, g) /\ IsHeld(r, k, h)
    BY ReservedExists
  <2> HIDE DEF g, h
  <2> QED BY <2>1 DEF IsHeld
<1> HIDE DEF g, h
<1>2. 0 \in T
  BY <1>1
<1>3. \A i \in Nat : 0 <= i /\ i \in T => i + 1 \in T
  <2> SUFFICES ASSUME NEW i \in Nat, g[i] = h[i], i + 1 <= m
               PROVE  g[i + 1] = h[i + 1]
    OBVIOUS
  <2>1. /\ i + 1 \in 0 .. n /\ i + 1 \in 0 .. k /\ i + 1 \in 1 .. m
        /\ i + 1 # 0 /\ (i + 1) - 1 = i
    OBVIOUS
  <2>2. g[i + 1] = Held(q[i + 1], g[i]) /\ h[i + 1] = Held(r[i + 1], h[i])
    BY <1>1, <2>1
  <2> QED BY <2>1, <2>2
<1> HIDE DEF T
<1>4. \A i \in Nat : 0 <= i => i \in T
  BY <1>2, <1>3, Upward
<1> QED BY <1>4 DEF T, g, h

\* The reservations of a queue are those of all but its last step, and that
\* step's own if it holds rows; an empty queue has none.
LEMMA ReservationsStep ==
  ASSUME NEW q, IsSeq(q)
  PROVE  /\ q = <<>> => ReservationsOf(q) = <<>>
         /\ q # <<>> => ReservationsOf(q)
                          = Held(q[Len(q)], ReservationsOf(Front(q)))
<1> DEFINE n == Len(q)
           g == ReservedOf(q, n)
<1>1. n \in Nat /\ (q = <<>> <=> n = 0)
  BY SeqFacts
<1>2. \A i \in 0 .. n : g[i] = IF i = 0 THEN <<>> ELSE Held(q[i], g[i - 1])
  <2>1. IsHeld(q, n, g)
    BY <1>1, ReservedExists
  <2> HIDE DEF g
  <2> QED BY <2>1 DEF IsHeld
<1>3. ReservationsOf(q) = g[n]
  BY ReservedUnfold
<1>4. q # <<>> => g[n - 1] = ReservationsOf(Front(q))
  <2> SUFFICES ASSUME q # <<>> PROVE g[n - 1] = ReservationsOf(Front(q))
    OBVIOUS
  <2> DEFINE f == Front(q)
  <2>1. Len(f) = n - 1 /\ \A i \in 1 .. n - 1 : f[i] = q[i]
    BY TailFacts
  <2> HIDE DEF f, n
  <2>2. n - 1 \in Nat /\ n - 1 <= n /\ n - 1 <= n - 1
    BY <1>1
  <2>3. ReservedOf(q, n)[n - 1] = ReservedOf(f, n - 1)[n - 1]
    BY <1>1, <2>1, <2>2, ReservedAgree
  <2>4. ReservationsOf(f) = ReservedOf(f, n - 1)[n - 1]
    BY <2>1, ReservedUnfold
  <2> QED BY <2>3, <2>4 DEF f
<1> HIDE DEF n, g
<1> QED BY <1>1, <1>2, <1>3, <1>4 DEF n

\* A step that is added reserves its rows after all others.
LEMMA ReservationsAppend ==
  ASSUME NEW q, IsSeq(q), NEW step
  PROVE  ReservationsOf(Append(q, step)) = Held(step, ReservationsOf(q))
<1> DEFINE a == Append(q, step)
<1>1. /\ IsSeq(a) /\ Len(a) = Len(q) + 1 /\ a[Len(q) + 1] = step /\ a # <<>>
      /\ \A j \in 1 .. Len(q) : a[j] = q[j]
  BY AppendFacts
<1> HIDE DEF a
<1>2. Len(q) \in Nat
  BY SeqFacts
<1>3. Front(a) = q
  <2>1. /\ IsSeq(Front(a)) /\ Len(Front(a)) = Len(q)
        /\ \A j \in 1 .. Len(q) : Front(a)[j] = q[j]
    BY <1>1, <1>2, TailFacts
  <2> QED BY <2>1, SameSeq
<1>4. ReservationsOf(a) = Held(a[Len(a)], ReservationsOf(Front(a)))
  BY <1>1, ReservationsStep
<1> QED BY <1>1, <1>3, <1>4 DEF a

\* They are a sequence no longer than the queue, and each is the reservation of
\* a step of the queue.
LEMMA ReservationsType ==
  ASSUME NEW q, IsSeq(q)
  PROVE  /\ IsSeq(ReservationsOf(q)) /\ Len(ReservationsOf(q)) <= Len(q)
         /\ \A i \in 1 .. Len(ReservationsOf(q)) :
               \E k \in 1 .. Len(q) :
                  HoldsRows(q[k]) /\ ReservationsOf(q)[i] = AsReservation(q[k])
<1> DEFINE Typed(p) ==
             /\ IsSeq(ReservationsOf(p)) /\ Len(ReservationsOf(p)) <= Len(p)
             /\ \A i \in 1 .. Len(ReservationsOf(p)) :
                   \E k \in 1 .. Len(p) :
                      HoldsRows(p[k])
                        /\ ReservationsOf(p)[i] = AsReservation(p[k])
           T == {n \in Nat : \A p : IsSeq(p) /\ Len(p) = n => Typed(p)}
<1>1. 0 \in T
  <2> SUFFICES ASSUME NEW p, IsSeq(p), Len(p) = 0 PROVE Typed(p)
    OBVIOUS
  <2>1. p = <<>>
    BY SeqFacts
  <2>2. ReservationsOf(p) = <<>>
    BY <2>1, ReservationsStep
  <2>3. IsSeq(<<>>) /\ Len(<<>>) = 0
    BY <2>1
  <2> DEFINE r == ReservationsOf(p)
  <2>4. IsSeq(r) /\ Len(r) = 0 /\ Len(r) <= Len(p)
    BY <2>2, <2>3
  <2> HIDE DEF r
  <2>5. 1 .. Len(r) = {}
    BY <2>4
  <2> QED BY <2>4, <2>5 DEF r
<1>2. \A n \in Nat : 0 <= n /\ n \in T => n + 1 \in T
  <2> SUFFICES ASSUME NEW n \in Nat, n \in T,
                      NEW p, IsSeq(p), Len(p) = n + 1
               PROVE  Typed(p)
    OBVIOUS
  <2> DEFINE f == Front(p)
             r == ReservationsOf(f)
             s == p[Len(p)]
  <2>1. p # <<>>
    BY SeqFacts
  <2>2. /\ IsSeq(f) /\ Len(f) = n
        /\ \A j \in 1 .. n : f[j] = p[j]
    BY <2>1, TailFacts
  <2>3. Typed(f)
    BY <2>2
  <2>4. /\ IsSeq(r) /\ Len(r) <= n
        /\ \A i \in 1 .. Len(r) :
              \E k \in 1 .. n : HoldsRows(f[k]) /\ r[i] = AsReservation(f[k])
    BY <2>2, <2>3
  <2>5. ReservationsOf(p) = Held(s, r)
    BY <2>1, ReservationsStep
  <2> HIDE DEF f, r, s, Typed, T
  <2>6. \A i \in 1 .. Len(r) :
           \E k \in 1 .. n + 1 : HoldsRows(p[k]) /\ r[i] = AsReservation(p[k])
    <3> SUFFICES ASSUME NEW i \in 1 .. Len(r)
                 PROVE  \E k \in 1 .. n + 1 :
                           HoldsRows(p[k]) /\ r[i] = AsReservation(p[k])
      OBVIOUS
    <3>1. PICK k \in 1 .. n : HoldsRows(f[k]) /\ r[i] = AsReservation(f[k])
      BY <2>4
    <3>2. k \in 1 .. n + 1 /\ f[k] = p[k]
      BY <2>2
    <3> QED BY <3>1, <3>2
  <2>7. Len(r) \in Nat
    BY <2>4, SeqFacts
  <2>8. CASE ~HoldsRows(s)
    <3>1. ReservationsOf(p) = r
      BY <2>5, <2>8 DEF Held
    <3>2. Len(r) <= n + 1
      BY <2>4, <2>7
    <3> QED BY <2>4, <2>6, <3>1, <3>2 DEF Typed
  <2>9. CASE HoldsRows(s)
    <3> DEFINE a == Append(r, AsReservation(s))
    <3>1. ReservationsOf(p) = a
      BY <2>5, <2>9 DEF Held
    <3>2. /\ IsSeq(a) /\ Len(a) = Len(r) + 1
          /\ a[Len(r) + 1] = AsReservation(s)
          /\ \A j \in 1 .. Len(r) : a[j] = r[j]
      BY <2>4, AppendFacts
    <3> HIDE DEF a
    <3>3. Len(a) <= n + 1
      BY <2>4, <2>7, <3>2
    <3>4. \A i \in 1 .. Len(a) :
             \E k \in 1 .. n + 1 :
                HoldsRows(p[k]) /\ a[i] = AsReservation(p[k])
      <4>1. \A i \in 1 .. Len(a) : i \in 1 .. Len(r) \/ i = Len(r) + 1
        BY <2>7, <3>2
      <4>2. n + 1 \in 1 .. n + 1
        OBVIOUS
      <4>3. HoldsRows(p[n + 1]) /\ a[Len(r) + 1] = AsReservation(p[n + 1])
        BY <2>9, <3>2 DEF s
      <4> QED BY <2>6, <3>2, <4>1, <4>2, <4>3
    <3> QED BY <3>1, <3>2, <3>3, <3>4 DEF Typed
  <2> QED BY <2>8, <2>9
<1> HIDE DEF T
<1>3. \A n \in Nat : 0 <= n => n \in T
  <2>1. T \in SUBSET Nat
    BY DEF T
  <2> QED BY <1>1, <1>2, Upward
<1>4. Len(q) \in Nat
  BY SeqFacts
<1>5. Typed(q)
  <2>1. Len(q) \in T
    BY <1>3, <1>4
  <2> HIDE DEF Typed
  <2> QED BY <2>1 DEF T
<1> QED BY <1>5

\* A step that is processed takes its reservation, the oldest, with it.
LEMMA ReservationsTail ==
  ASSUME NEW q, IsSeq(q), q # <<>>
  PROVE  IF HoldsRows(q[1])
         THEN /\ ReservationsOf(q) # <<>>
              /\ ReservationsOf(q)[1] = AsReservation(q[1])
              /\ ReservationsOf(Tail(q)) = Tail(ReservationsOf(q))
         ELSE ReservationsOf(Tail(q)) = ReservationsOf(q)
<1> DEFINE Oldest(p) ==
             IF HoldsRows(p[1])
             THEN /\ ReservationsOf(p) # <<>>
                  /\ ReservationsOf(p)[1] = AsReservation(p[1])
                  /\ ReservationsOf(Tail(p)) = Tail(ReservationsOf(p))
             ELSE ReservationsOf(Tail(p)) = ReservationsOf(p)
           T == {n \in Nat : \A p : IsSeq(p) /\ Len(p) = n => Oldest(p)}
<1>1. 1 \in T
  <2> SUFFICES ASSUME NEW p, IsSeq(p), Len(p) = 1 PROVE Oldest(p)
    OBVIOUS
  <2>1. p # <<>>
    BY SeqFacts
  <2>2. /\ IsSeq(Front(p)) /\ Len(Front(p)) = 0
        /\ IsSeq(Tail(p)) /\ Len(Tail(p)) = 0
    BY <2>1, TailFacts
  <2>3. Front(p) = <<>> /\ Tail(p) = <<>>
    BY <2>2, SeqFacts
  <2>4. IsSeq(<<>>) /\ Len(<<>>) = 0
    BY <2>2, <2>3
  <2>5. ReservationsOf(<<>>) = <<>>
    BY <2>4, ReservationsStep
  <2>6. ReservationsOf(p) = Held(p[1], <<>>)
    BY <2>1, <2>3, <2>5, ReservationsStep
  <2>7. CASE ~HoldsRows(p[1])
    BY <2>3, <2>5, <2>6, <2>7 DEF Held
  <2>8. CASE HoldsRows(p[1])
    <3> DEFINE e == AsReservation(p[1])
               a == Append(<<>>, e)
    <3>1. ReservationsOf(p) = a
      BY <2>6, <2>8 DEF Held
    <3>2. IsSeq(a) /\ Len(a) = 1 /\ a[1] = e /\ a # <<>>
      <4> HIDE DEF e
      <4>1. /\ IsSeq(a) /\ Len(a) = Len(<<>>) + 1 /\ a[Len(<<>>) + 1] = e
            /\ a # <<>>
        BY <2>4, AppendFacts
      <4> HIDE DEF a
      <4>2. Len(<<>>) + 1 = 1
        BY <2>4
      <4> QED BY <4>1, <4>2
    <3> HIDE DEF a
    <3>3. Tail(a) = <<>>
      <4>1. IsSeq(Tail(a)) /\ Len(Tail(a)) = 0
        BY <3>2, TailFacts
      <4> QED BY <4>1, SeqFacts
    <3> HIDE DEF e
    <3>4. /\ ReservationsOf(p) # <<>> /\ ReservationsOf(p)[1] = e
          /\ ReservationsOf(Tail(p)) = Tail(ReservationsOf(p))
      BY <2>3, <2>5, <3>1, <3>2, <3>3
    <3> QED BY <2>8, <3>4 DEF e
  <2> QED BY <2>7, <2>8
<1>2. \A n \in Nat : 1 <= n /\ n \in T => n + 1 \in T
  <2> SUFFICES ASSUME NEW n \in Nat, 1 <= n, n \in T,
                      NEW p, IsSeq(p), Len(p) = n + 1
               PROVE  Oldest(p)
    OBVIOUS
  <2> DEFINE f == Front(p)
             t == Tail(p)
             s == p[n + 1]
  <2>1. p # <<>>
    BY SeqFacts
  <2>2. /\ IsSeq(f) /\ Len(f) = n /\ \A j \in 1 .. n : f[j] = p[j]
        /\ IsSeq(t) /\ Len(t) = n /\ \A j \in 1 .. n : t[j] = p[j + 1]
    BY <2>1, TailFacts
  <2>3. Oldest(f)
    <3> HIDE DEF Oldest, f
    <3> QED BY <2>2
  <2> HIDE DEF f, t, Oldest, T
  <2>4. f # <<>> /\ t # <<>> /\ f[1] = p[1] /\ t[n] = s
    BY <2>2, SeqFacts DEF s
  <2>5. Front(t) = Tail(f)
    <3>1. /\ IsSeq(Front(t)) /\ Len(Front(t)) = n - 1
          /\ \A j \in 1 .. n - 1 : Front(t)[j] = t[j]
          /\ IsSeq(Tail(f)) /\ Len(Tail(f)) = n - 1
          /\ \A j \in 1 .. n - 1 : Tail(f)[j] = f[j + 1]
      <4>1. /\ IsSeq(Front(t)) /\ Len(Front(t)) = Len(t) - 1
            /\ \A j \in 1 .. Len(t) - 1 : Front(t)[j] = t[j]
        BY <2>2, <2>4, TailFacts
      <4>2. /\ IsSeq(Tail(f)) /\ Len(Tail(f)) = Len(f) - 1
            /\ \A j \in 1 .. Len(f) - 1 : Tail(f)[j] = f[j + 1]
        BY <2>2, <2>4, TailFacts
      <4>3. Len(t) = n /\ Len(f) = n
        BY <2>2
      <4> QED BY <4>1, <4>2, <4>3
    <3>2. \A j \in 1 .. n - 1 : j \in 1 .. n /\ j + 1 \in 1 .. n
      OBVIOUS
    <3>3. \A j \in 1 .. n - 1 : Front(t)[j] = Tail(f)[j]
      BY <2>2, <3>1, <3>2
    <3> QED BY <3>1, <3>3, SameSeq
  <2>6. /\ ReservationsOf(p) = Held(s, ReservationsOf(f))
        /\ ReservationsOf(t) = Held(s, ReservationsOf(Tail(f)))
    BY <2>1, <2>2, <2>4, <2>5, ReservationsStep DEF f, s
  <2>7. CASE ~HoldsRows(p[1])
    <3>1. ReservationsOf(Tail(f)) = ReservationsOf(f)
      BY <2>3, <2>4, <2>7 DEF Oldest
    <3> QED BY <2>6, <2>7, <3>1 DEF Oldest, t
  <2>8. CASE HoldsRows(p[1])
    <3> DEFINE r == ReservationsOf(f)
    <3>1. /\ r # <<>> /\ r[1] = AsReservation(p[1])
          /\ ReservationsOf(Tail(f)) = Tail(r)
      BY <2>3, <2>4, <2>8 DEF Oldest
    <3>2. IsSeq(r) /\ Len(r) \in Nat \ {0}
      BY <2>2, <3>1, ReservationsType, SeqFacts
    <3>3. ReservationsOf(p) = Held(s, r) /\ ReservationsOf(t) = Held(s, Tail(r))
      BY <2>6, <3>1
    <3> HIDE DEF r
    <3>4. /\ Held(s, r) # <<>> /\ Held(s, r)[1] = r[1]
          /\ Held(s, Tail(r)) = Tail(Held(s, r))
      <4>1. CASE ~HoldsRows(s)
        BY <3>1, <4>1 DEF Held
      <4>2. CASE HoldsRows(s)
        <5> DEFINE e == AsReservation(s)
                   a == Append(r, e)
                   b == Append(Tail(r), e)
                   k == Len(r)
        <5>1. /\ IsSeq(a) /\ Len(a) = k + 1 /\ a[k + 1] = e /\ a # <<>>
              /\ \A j \in 1 .. k : a[j] = r[j]
          BY <3>2, AppendFacts
        <5>2. /\ IsSeq(Tail(r)) /\ Len(Tail(r)) = k - 1
              /\ \A j \in 1 .. k - 1 : Tail(r)[j] = r[j + 1]
          BY <3>1, <3>2, TailFacts
        <5>3. /\ IsSeq(b) /\ Len(b) = (k - 1) + 1 /\ b[(k - 1) + 1] = e
              /\ \A j \in 1 .. k - 1 : b[j] = Tail(r)[j]
          BY <5>2, AppendFacts
        <5> HIDE DEF a, b, e
        <5>4. /\ IsSeq(Tail(a)) /\ Len(Tail(a)) = (k + 1) - 1
              /\ \A j \in 1 .. (k + 1) - 1 : Tail(a)[j] = a[j + 1]
          BY <5>1, TailFacts
        <5> HIDE DEF k
        <5>5. k \in Nat \ {0}
          BY <3>2 DEF k
        <5>6. \A j \in 1 .. k : b[j] = Tail(a)[j]
          <6> SUFFICES ASSUME NEW j \in 1 .. k PROVE b[j] = Tail(a)[j]
            OBVIOUS
          <6>1. CASE j = k
            BY <5>1, <5>3, <5>4, <5>5, <6>1
          <6>2. CASE j \in 1 .. k - 1
            <7>1. j + 1 \in 1 .. k /\ j \in 1 .. (k + 1) - 1
              BY <5>5, <6>2
            <7>2. b[j] = Tail(r)[j] /\ Tail(r)[j] = r[j + 1]
              BY <5>2, <5>3, <6>2
            <7>3. Tail(a)[j] = a[j + 1] /\ a[j + 1] = r[j + 1]
              BY <5>1, <5>4, <7>1
            <7> QED BY <7>2, <7>3
          <6>3. j = k \/ j \in 1 .. k - 1
            BY <5>5
          <6> QED BY <6>1, <6>2, <6>3
        <5>7. b = Tail(a)
          <6>1. Len(b) = k /\ Len(Tail(a)) = k
            BY <5>3, <5>4, <5>5
          <6> QED BY <5>3, <5>4, <5>6, <6>1, SameSeq
        <5>8. a[1] = r[1]
          BY <5>1, <5>5
        <5> QED BY <4>2, <5>1, <5>7, <5>8 DEF Held, a, b, e
      <4> QED BY <4>1, <4>2
    <3> QED BY <2>8, <3>1, <3>3, <3>4 DEF Oldest, t
  <2> QED BY <2>7, <2>8
<1> HIDE DEF T
<1>3. \A n \in Nat : 1 <= n => n \in T
  <2>1. T \in SUBSET Nat
    BY DEF T
  <2> QED BY <1>1, <1>2, Upward
<1>4. Len(q) \in Nat /\ 1 <= Len(q)
  BY SeqFacts
<1>5. Oldest(q)
  <2>1. Len(q) \in T
    BY <1>3, <1>4
  <2> HIDE DEF Oldest
  <2> QED BY <2>1 DEF T
<1> QED BY <1>5

\* Without the oldest, without the newest.
LEMMA WithoutEnds ==
  ASSUME IsSeq(Reservations), Reservations # <<>>
  PROVE  /\ C!Without(1) = Tail(Reservations)
         /\ C!Without(Len(Reservations)) = Front(Reservations)
<1> DEFINE r == Reservations
           n == Len(r) - 1
<1>1. /\ IsSeq(Tail(r)) /\ Len(Tail(r)) = n
      /\ \A j \in 1 .. n : Tail(r)[j] = r[j + 1]
      /\ IsSeq(Front(r)) /\ Len(Front(r)) = n
      /\ \A j \in 1 .. n : Front(r)[j] = r[j]
  BY TailFacts
<1>2. Len(r) \in Nat
  BY SeqFacts
<1>3. /\ Tail(r) = [j \in 1 .. n |-> Tail(r)[j]]
      /\ Front(r) = [j \in 1 .. n |-> Front(r)[j]]
  <2> HIDE DEF r, n
  <2> QED BY <1>1, SeqFacts
<1>4. /\ C!Without(1) = [j \in 1 .. n |-> r[IF j < 1 THEN j ELSE j + 1]]
      /\ C!Without(Len(r))
           = [j \in 1 .. n |-> r[IF j < Len(r) THEN j ELSE j + 1]]
  BY DEF C!Without
<1> HIDE DEF r
<1>5. \A j \in 1 .. n : /\ (IF j < 1 THEN j ELSE j + 1) = j + 1
                        /\ (IF j < Len(r) THEN j ELSE j + 1) = j
  BY <1>2
<1> HIDE DEF n
<1>6. /\ C!Without(1) = Tail(r)
      /\ C!Without(Len(r)) = Front(r)
  BY <1>1, <1>3, <1>4, <1>5
<1> QED BY <1>6 DEF r

-----------------------------------------------------------------------------
(***************************************************************************)
(* The engine's invariant.                                                 *)
(***************************************************************************)
\* A step of the queue, and the rows it was given: they divide into samples.
IsStep(step) ==
    step = [inf |-> step.inf, segs |-> step.segs, n |-> step.n,
            off |-> step.off, snap |-> step.snap, state |-> step.state]

RowsFit(step) ==
    /\ step.n \in Nat
    /\ step.n > 0 => RowsOf(step.segs) \in C!Splits(step.n)

\* Its forward is over; only a step with samples can have been aborted.
Ran(step) == step.state = "saved" \/ (step.state = "aborted" /\ step.n > 0)

CountInv ==
    /\ setup \in Setups
    /\ fill_count \in Nat /\ reserved_fill \in Nat
    /\ rate \in 0 .. CloseRps + 1

QueueInv ==
    /\ IsSeq(batch_queue)
    /\ Len(batch_queue) <= setup.queue_size
    /\ \A i \in 1 .. Len(batch_queue) :
          IsStep(batch_queue[i]) /\ RowsFit(batch_queue[i])

\* Where the engine thread is tells which steps have run: at most the newest
\* one has not, and it has room to schedule only with every step run.
Between == {"top", "grace", "drain", "poll", "rps", "admit"}
InStep == {"pending", "exec", "forward"}

ThreadInv ==
    /\ pc \in Between \union InStep \union {"update"}
    /\ pc \in Between => Len(batch_queue) < setup.queue_size
    /\ pc \notin Between => Len(batch_queue) > 0
    /\ pc \in InStep => batch_queue[Len(batch_queue)].state = "scheduled"
    /\ pc \in {"pending", "forward"} => batch_queue[Len(batch_queue)].n > 0
    /\ \A i \in 1 .. Len(batch_queue) :
          i < Len(batch_queue) \/ pc \notin InStep => Ran(batch_queue[i])

\* With the store's part, PoolInv, the engine's inductive invariant.
QueuesInv == CountInv /\ QueueInv /\ ThreadInv

\* The step that is about to run, or running, is reserved last, behind aborted
\* ones only.
LEMMA NewestReserved ==
  ASSUME QueueInv, ThreadInv, pc \in InStep,
         batch_queue[Len(batch_queue)].n > 0
  PROVE  LET s == batch_queue[Len(batch_queue)]
             rest == ReservationsOf(Front(batch_queue))
             i == Len(Reservations)
         IN  /\ IsSeq(rest) /\ Reservations = Append(rest, AsReservation(s))
             /\ i \in DOMAIN Reservations /\ i \in Nat /\ i = Len(rest) + 1
             /\ Reservations[i] = AsReservation(s)
             /\ C!NextToRun(i) /\ C!Without(i) = rest
<1> DEFINE q == batch_queue
           k == Len(q)
           s == q[k]
           rest == ReservationsOf(Front(q))
           r == Reservations
           i == Len(r)
<1>1. /\ IsSeq(q) /\ k > 0 /\ s.state = "scheduled" /\ s.n > 0
      /\ \A j \in 1 .. k : j < k => Ran(q[j])
  BY DEF QueueInv, ThreadInv, Between, InStep
<1>2. k \in Nat /\ q # <<>>
  BY <1>1, SeqFacts
<1>3. /\ IsSeq(Front(q)) /\ Len(Front(q)) = k - 1
      /\ \A j \in 1 .. k - 1 : Front(q)[j] = q[j]
  BY <1>1, <1>2, TailFacts
<1>4. r = Append(rest, AsReservation(s))
  <2>1. HoldsRows(s)
    BY <1>1 DEF HoldsRows
  <2>2. ReservationsOf(q) = Held(s, rest)
    BY <1>1, <1>2, ReservationsStep
  <2> QED BY <2>1, <2>2 DEF Held, Reservations
<1>5. /\ IsSeq(rest)
      /\ \A j \in 1 .. Len(rest) : \E m \in 1 .. k - 1 :
            HoldsRows(q[m]) /\ rest[j] = AsReservation(q[m])
  <2> DEFINE f == Front(q)
  <2>1. /\ IsSeq(rest)
        /\ \A j \in 1 .. Len(rest) : \E m \in 1 .. Len(f) :
              HoldsRows(f[m]) /\ rest[j] = AsReservation(f[m])
    BY <1>3, ReservationsType
  <2>2. Len(f) = k - 1 /\ \A j \in 1 .. k - 1 : f[j] = q[j]
    BY <1>3
  <2> HIDE DEF f, rest, q, k
  <2> QED BY <2>1, <2>2
<1> HIDE DEF rest, r, q
<1>6. /\ IsSeq(r) /\ r # <<>> /\ Len(r) = Len(rest) + 1 /\ Len(rest) \in Nat
      /\ r[Len(rest) + 1] = AsReservation(s)
      /\ \A j \in 1 .. Len(rest) : r[j] = rest[j]
  <2> DEFINE e == AsReservation(s)
  <2> HIDE DEF e, s
  <2>1. r = Append(rest, e)
    BY <1>4 DEF e
  <2>2. Len(rest) \in Nat
    BY <1>5, SeqFacts
  <2> QED BY <1>5, <2>1, <2>2, AppendFacts DEF e
<1>7. i \in DOMAIN r /\ i \in Nat
  BY <1>6, SeqFacts
<1>8. C!NextToRun(i)
  <2>1. ~AsReservation(s).aborted
    BY <1>1 DEF AsReservation
  <2>2. \A j \in 1 .. i - 1 : r[j].aborted
    <3> SUFFICES ASSUME NEW j \in 1 .. i - 1 PROVE r[j].aborted
      OBVIOUS
    <3>1. j \in 1 .. Len(rest)
      BY <1>6
    <3>2. PICK m \in 1 .. k - 1 :
             HoldsRows(q[m]) /\ rest[j] = AsReservation(q[m])
      BY <1>5, <3>1
    <3>3. Ran(q[m])
      BY <1>1, <1>2, <3>2
    <3>4. q[m].state = "aborted"
      BY <3>2, <3>3 DEF Ran, HoldsRows
    <3>5. AsReservation(q[m]).aborted
      BY <3>4 DEF AsReservation
    <3>6. rest[j].aborted
      BY <3>2, <3>5
    <3> QED BY <1>6, <3>1, <3>6
  <2> QED BY <1>6, <1>7, <2>1, <2>2 DEF C!NextToRun, r
<1>9. C!Without(i) = rest
  <2>1. C!Without(i) = Front(r)
    BY <1>6, WithoutEnds DEF r
  <2>2. /\ IsSeq(Front(r)) /\ Len(Front(r)) = Len(rest)
        /\ \A j \in 1 .. Len(rest) : Front(r)[j] = r[j]
    <3>1. /\ IsSeq(Front(r)) /\ Len(Front(r)) = Len(r) - 1
          /\ \A j \in 1 .. Len(r) - 1 : Front(r)[j] = r[j]
      BY <1>6, TailFacts
    <3>2. Len(r) - 1 = Len(rest)
      BY <1>6
    <3> QED BY <3>1, <3>2
  <2>3. Front(r) = rest
    BY <1>5, <1>6, <2>2, SameSeq
  <2> QED BY <2>1, <2>3
<1> QED BY <1>4, <1>5, <1>6, <1>7, <1>8, <1>9 DEF r, rest, q

\* A step whose forward is over leaves its queue well formed, and its rows are
\* saved or stay reserved for the rollback.
LEMMA RunStep ==
  ASSUME QueueInv, ThreadInv, pc \in InStep, NEW state \in {"saved", "aborted"},
         state = "aborted" => batch_queue[Len(batch_queue)].n > 0,
         AfterExecute(Executed(state)), UNCHANGED setup
  PROVE  /\ QueueInv' /\ ThreadInv'
         /\ LET s == batch_queue[Len(batch_queue)]
                rest == ReservationsOf(Front(batch_queue))
            IN  Reservations' =
                  IF state = "saved" THEN rest
                  ELSE Append(rest, [AsReservation(s) EXCEPT !.aborted = TRUE])
<1> DEFINE q == batch_queue
           k == Len(q)
           s == q[k]
           t == [s EXCEPT !.state = state]
           p == batch_queue'
           rest == ReservationsOf(Front(q))
<1>1. /\ IsSeq(q) /\ k > 0 /\ k <= setup.queue_size
      /\ \A j \in 1 .. k : IsStep(q[j]) /\ RowsFit(q[j])
      /\ \A j \in 1 .. k : j < k => Ran(q[j])
  BY DEF QueueInv, ThreadInv, Between, InStep
<1>2. /\ k \in Nat /\ q # <<>> /\ k \in 1 .. k
      /\ DOMAIN q = 1 .. k /\ q = [j \in 1 .. k |-> q[j]]
  BY <1>1, SeqFacts
<1>3. p = [q EXCEPT ![k] = t]
  BY DEF AfterExecute, Executed
<1>4. /\ IsStep(t) /\ RowsFit(t) /\ t.state = state /\ t.n = s.n
      /\ AsReservation(t)
           = [AsReservation(s) EXCEPT !.aborted = (state = "aborted")]
  <2>1. IsStep(s) /\ RowsFit(s)
    BY <1>1, <1>2
  <2> HIDE DEF s
  <2>2. t = [inf |-> s.inf, segs |-> s.segs, n |-> s.n, off |-> s.off,
             snap |-> s.snap, state |-> state]
    BY <2>1 DEF IsStep
  <2> HIDE DEF t
  <2>3. /\ t.inf = s.inf /\ t.segs = s.segs /\ t.n = s.n /\ t.off = s.off
        /\ t.snap = s.snap /\ t.state = state
    BY <2>2
  <2> QED BY <2>1, <2>2, <2>3 DEF IsStep, RowsFit, AsReservation
<1>5. /\ IsSeq(p) /\ Len(p) = k /\ p # <<>> /\ p[k] = t
      /\ \A j \in 1 .. k - 1 : p[j] = q[j]
  <2>1. p = [j \in 1 .. k |-> IF j = k THEN t ELSE q[j]]
    BY <1>2, <1>3
  <2> HIDE DEF p, q, t
  <2>2. /\ p = [j \in 1 .. k |-> p[j]] /\ p[k] = t
        /\ \A j \in 1 .. k - 1 : p[j] = q[j]
    BY <1>2, <2>1
  <2> HIDE DEF k
  <2>3. IsSeq(p) /\ Len(p) = k
    BY <1>2, <2>2, FunctionIsSeq
  <2>4. p # <<>>
    BY <1>1, <2>3, SeqFacts
  <2> QED BY <2>2, <2>3, <2>4
<1>6. \A j \in 1 .. k : IsStep(p[j]) /\ RowsFit(p[j])
  <2>1. \A j \in 1 .. k : j = k \/ j \in 1 .. k - 1
    BY <1>2
  <2> QED BY <1>1, <1>4, <1>5, <2>1
<1>7. QueueInv'
  <2>1. setup' = setup
    OBVIOUS
  <2> QED BY <1>1, <1>5, <1>6, <2>1 DEF QueueInv
<1>8. \A j \in 1 .. k : Ran(p[j])
  <2>1. \A j \in 1 .. k : j = k \/ (j \in 1 .. k - 1 /\ j < k)
    BY <1>2
  <2>2. Ran(t)
    BY <1>4 DEF Ran
  <2> QED BY <1>1, <1>5, <2>1, <2>2
<1>9. /\ pc' \in {"top", "update"}
      /\ pc' = "top" => Len(p) < setup.queue_size
  BY DEF AfterExecute
<1>10. ThreadInv'
  <2>1. /\ pc' \in Between \/ pc' = "update"
        /\ pc' \notin InStep /\ pc' \notin {"pending", "forward"}
        /\ pc' \in Between => pc' = "top"
    BY <1>9 DEF Between, InStep
  <2>2. setup' = setup
    OBVIOUS
  <2> QED BY <1>1, <1>5, <1>8, <1>9, <2>1, <2>2 DEF ThreadInv
<1>11. Front(p) = Front(q)
  <2>1. /\ IsSeq(Front(q)) /\ Len(Front(q)) = k - 1
        /\ \A j \in 1 .. k - 1 : Front(q)[j] = q[j]
    BY <1>1, <1>2, TailFacts
  <2>2. /\ IsSeq(Front(p)) /\ Len(Front(p)) = k - 1
        /\ \A j \in 1 .. k - 1 : Front(p)[j] = p[j]
    <3> HIDE DEF p, k
    <3> QED BY <1>5, TailFacts
  <2> QED BY <1>5, <2>1, <2>2, SameSeq
<1>12. ReservationsOf(p) = Held(t, rest)
  <2> HIDE DEF p, q, t
  <2>1. ReservationsOf(p) = Held(p[Len(p)], ReservationsOf(Front(p)))
    BY <1>5, ReservationsStep
  <2> QED BY <1>5, <1>11, <2>1
<1>13. ReservationsOf(p) = IF state = "saved" THEN rest
                           ELSE Append(rest, [AsReservation(s)
                                                EXCEPT !.aborted = TRUE])
  <2>1. CASE state = "saved"
    BY <1>4, <1>12, <2>1 DEF Held, HoldsRows
  <2>2. CASE state = "aborted"
    <3>1. HoldsRows(t)
      BY <1>4, <2>2 DEF HoldsRows
    <3>2. AsReservation(t) = [AsReservation(s) EXCEPT !.aborted = TRUE]
      BY <1>4, <2>2
    <3> HIDE DEF t, s, rest, p
    <3> QED BY <1>12, <2>2, <3>1, <3>2 DEF Held
  <2> QED BY <2>1, <2>2
<1> QED BY <1>7, <1>10, <1>13 DEF Reservations

-----------------------------------------------------------------------------
(***************************************************************************)
(* Every step keeps the engine's invariant and is a step of the            *)
(* coordinator's callers, or changes nothing of it.                        *)
(***************************************************************************)
\* The coordinator and the reservations stay as they are.
LEMMA CoordinatorUntouched ==
  ASSUME UNCHANGED <<coord_vars, Reservations>>
  PROVE  UNCHANGED C!vars
  BY DEF coord_vars, C!vars, C!coord_vars, C!buffer_vars, C!gate_vars,
         C!backward_vars

\* A step that leaves the queue alone keeps it, if the thread's label moves on
\* only between steps.
LEMMA QueueUntouched ==
  ASSUME QueueInv, ThreadInv, UNCHANGED <<setup, batch_queue>>,
         \/ UNCHANGED pc
         \/ pc \in Between /\ pc' \in Between
         \/ pc \in Between /\ pc' = "update" /\ batch_queue # <<>>
  PROVE  QueueInv' /\ ThreadInv' /\ UNCHANGED Reservations
<1>1. QueueInv' /\ UNCHANGED Reservations
  BY DEF QueueInv, Reservations
<1>2. ThreadInv'
  <2>1. CASE UNCHANGED pc
    BY <2>1 DEF ThreadInv
  <2>2. CASE pc \in Between /\ pc' \in Between
    <3>1. /\ pc \notin InStep /\ pc' \notin InStep
          /\ pc' \notin {"pending", "forward"}
      BY <2>2 DEF Between, InStep
    <3> QED BY <2>2, <3>1 DEF ThreadInv
  <2>3. CASE pc \in Between /\ pc' = "update" /\ batch_queue # <<>>
    <3>1. /\ pc \notin InStep /\ pc' \notin InStep /\ pc' \notin Between
          /\ pc' \notin {"pending", "forward"}
      BY <2>3 DEF Between, InStep
    <3>2. Len(batch_queue) \in Nat /\ Len(batch_queue) # 0
      BY <2>3, SeqFacts DEF QueueInv
    <3>3. Len(batch_queue) > 0
      BY <3>2
    <3> QED BY <2>3, <3>1, <3>3 DEF ThreadInv
  <2> QED BY <2>1, <2>2, <2>3
<1> QED BY <1>1, <1>2

\* What _schedule_step puts into the queue.
StepOf(segs, tokens) ==
    [inf |-> work > 0, segs |-> segs, n |-> tokens,
     off |-> C!CurrentOffset, snap |-> C!Snapshot, state |-> "scheduled"]

\* _schedule_step with the samples S admitted, in the order of batch, of which
\* tokens rows are scheduled.
Schedules(S, batch, tokens) ==
    LET segs == Scheduled(batch, tokens)
        step == StepOf(segs, tokens)
    IN  /\ C!Inject(Total(S), NextLen(P!Claim(pool, S)), tokens,
                    NextLen(pool'), SamplesOf(segs))
        /\ batch_queue' = Append(batch_queue, step)
        /\ pc' = IF Interruptible /\ ~retried /\ FtOnly(step)
                 THEN "pending" ELSE "exec"

\* A set of samples that admission may choose fits the free rows and holds
\* nothing that is in the buffer or on its way to it.
LEMMA AdmissibleFits ==
  ASSUME PoolInv, CountInv, NEW S \in Admissible
  PROVE  /\ S \in SUBSET (Samples \ buffer_samples) /\ S \in SUBSET Samples
         /\ Total(S) \in 0 .. C!Budget
<1>1. Capacity \in Nat /\ StepTokens \in Nat
  BY CoServingAssumption DEF CountInv, StepTokens
<1>2. C!SpaceRemaining \in Nat
  BY <1>1 DEF CountInv, C!SpaceRemaining, C!Monus
<1>3. /\ C!Budget \in Nat
      /\ C!Budget > 0 => C!Budget = C!SpaceRemaining
  BY <1>2 DEF C!Budget
<1>4. CASE ~MayAdmit
  <2>1. S = {}
    BY <1>4 DEF Admissible
  <2>2. Total(S) = 0
    BY <2>1, FS_EmptySet, SumRec DEF Total
  <2> QED BY <1>3, <2>1, <2>2
<1>5. CASE MayAdmit
  <2>1. S \in SUBSET P!Selectable(pool) /\ Total(S) <= TokenCap
    BY <1>5 DEF Admissible
  <2>2. S \in SUBSET (Samples \ buffer_samples)
    BY <2>1 DEF PoolInv, ClaimsTracked, P!Selectable
  <2>3. IsFiniteSet(S) /\ \A s \in S : SampleLen[s] \in Nat
    BY <2>2, CoServingAssumption, FS_Subset
  <2>4. Total(S) \in Nat
    BY <2>3, SumNat DEF Total
  <2>5. C!Budget > 0
    BY <1>5 DEF MayAdmit
  <2>6. TokenCap <= C!SpaceRemaining /\ TokenCap \in Nat
    BY <1>1, <1>2 DEF TokenCap
  <2>7. Total(S) \in 0 .. C!Budget
    BY <1>2, <1>3, <2>1, <2>4, <2>5, <2>6
  <2> QED BY <2>2, <2>7
<1> QED BY <1>4, <1>5

\* _schedule_step injects what it admitted and reserves what it scheduled.
LEMMA ScheduleSimulates ==
  ASSUME PoolInv, QueuesInv, ScheduleStep
  PROVE  QueuesInv' /\ C!Schedule
<1>1. PICK S \in Admissible : \E batch \in Batches(S) :
         \E tokens \in IF work = 0 THEN {Total(S)} ELSE 0 .. Total(S) :
            Schedules(S, batch, tokens)
  BY DEF ScheduleStep, StepOf, Schedules
<1>2. PICK batch \in Batches(S) :
         \E tokens \in IF work = 0 THEN {Total(S)} ELSE 0 .. Total(S) :
            Schedules(S, batch, tokens)
  BY <1>1
<1>3. PICK tokens \in IF work = 0 THEN {Total(S)} ELSE 0 .. Total(S) :
            Schedules(S, batch, tokens)
  BY <1>2
<1> DEFINE segs == Scheduled(batch, tokens)
           step == StepOf(segs, tokens)
           Q == SamplesOf(segs)
           q == batch_queue
           k == Len(q)
           b1 == NextLen(P!Claim(pool, S))
           b2 == NextLen(pool')
<1>4. /\ C!Inject(Total(S), b1, tokens, b2, Q)
      /\ batch_queue' = Append(q, step)
      /\ pc' = "pending" \/ pc' = "exec"
      /\ pc' = "pending" => FtOnly(step)
  BY <1>3 DEF Schedules
<1>5. /\ S \in SUBSET Samples /\ S \in SUBSET (Samples \ buffer_samples)
      /\ Total(S) \in 0 .. C!Budget /\ Total(S) \in Nat
      /\ tokens \in 0 .. Total(S) /\ tokens \in Nat
  <2>1. /\ S \in SUBSET Samples /\ S \in SUBSET (Samples \ buffer_samples)
        /\ Total(S) \in 0 .. C!Budget
    BY AdmissibleFits DEF QueuesInv
  <2>2. Total(S) \in Nat
    BY <2>1, TotalOfBatch
  <2>3. tokens \in 0 .. Total(S)
    BY <2>2
  <2> QED BY <2>1, <2>2, <2>3
<1>6. /\ tokens > 0 => RowsOf(segs) \in C!Splits(tokens)
      /\ tokens > 0 <=> Q # {}
      /\ Q \in SUBSET (Samples \ buffer_samples)
  <2>1. /\ tokens > 0 => RowsOf(segs) \in C!Splits(tokens)
        /\ tokens > 0 <=> Q # {}
        /\ Q \subseteq S
    BY <1>5, ScheduledRows
  <2> QED BY <1>5, <2>1
<1>7. b1 \in C!NextLens /\ b2 \in C!NextLens
  BY NextLenRange
<1>8. /\ setup' = setup /\ rate' = rate
      /\ pc = "admit"
  BY DEF ScheduleStep
<1>9. /\ step.n = tokens /\ step.segs = segs /\ step.state = "scheduled"
      /\ IsStep(step) /\ RowsFit(step)
      /\ AsReservation(step) =
           [n |-> tokens, off |-> C!CurrentOffset, samples |-> Q,
            snap |-> C!Snapshot, aborted |-> FALSE]
      /\ HoldsRows(step) <=> tokens > 0
      /\ FtOnly(step) => tokens > 0
  <2> HIDE DEF segs
  <2>1. step = [inf |-> work > 0, segs |-> segs, n |-> tokens,
                off |-> C!CurrentOffset, snap |-> C!Snapshot,
                state |-> "scheduled"]
    BY DEF StepOf
  <2> HIDE DEF step
  <2>2. /\ step.n = tokens /\ step.segs = segs /\ step.state = "scheduled"
        /\ step.off = C!CurrentOffset /\ step.snap = C!Snapshot
        /\ IsStep(step)
    BY <2>1 DEF IsStep
  <2>3. RowsFit(step)
    BY <1>5, <1>6, <2>2 DEF RowsFit
  <2>4. AsReservation(step) =
           [n |-> tokens, off |-> C!CurrentOffset, samples |-> Q,
            snap |-> C!Snapshot, aborted |-> FALSE]
    BY <2>2 DEF AsReservation
  <2>5. /\ HoldsRows(step) <=> tokens > 0
        /\ FtOnly(step) => tokens > 0
    BY <2>2 DEF HoldsRows, FtOnly
  <2> QED BY <2>2, <2>3, <2>4, <2>5
<1> HIDE DEF segs, step, Q, b1, b2
<1>10. /\ IsSeq(q) /\ k \in Nat /\ k < setup.queue_size
       /\ \A i \in 1 .. k : IsStep(q[i]) /\ RowsFit(q[i]) /\ Ran(q[i])
       /\ setup.queue_size \in 1 .. Depth
  <2>1. pc \in Between /\ pc \notin InStep
    BY <1>8 DEF Between, InStep
  <2>2. IsSeq(q) /\ k \in Nat
    BY SeqFacts DEF QueuesInv, QueueInv
  <2>3. setup.queue_size \in 1 .. Depth
    BY CoServingAssumption DEF QueuesInv, CountInv
  <2> QED BY <2>1, <2>2, <2>3 DEF QueuesInv, QueueInv, ThreadInv
<1> DEFINE p == batch_queue'
<1>11. /\ IsSeq(p) /\ Len(p) = k + 1 /\ p[k + 1] = step
       /\ \A i \in 1 .. k : p[i] = q[i]
  <2>1. p = Append(q, step)
    BY <1>4
  <2> HIDE DEF q, p
  <2> QED BY <1>10, <2>1, AppendFacts
<1>12. Reservations' = Held(step, Reservations)
  BY <1>4, <1>10, ReservationsAppend DEF Reservations
<1>13. Len(Reservations) < Depth
  <2>1. IsSeq(Reservations) /\ Len(Reservations) <= k
    BY <1>10, ReservationsType DEF Reservations
  <2>2. Len(Reservations) \in Nat
    BY <2>1, SeqFacts
  <2> QED BY <1>10, <2>1, <2>2, CoServingAssumption
<1>14. C!Schedule
  <2>1. Reservations' =
          IF tokens = 0 THEN Reservations
          ELSE Append(Reservations,
                      [n |-> tokens, off |-> C!CurrentOffset, samples |-> Q,
                       snap |-> C!Snapshot, aborted |-> FALSE])
    BY <1>5, <1>9, <1>12 DEF Held
  <2> QED BY <1>4, <1>5, <1>6, <1>7, <1>13, <2>1 DEF C!Schedule
<1>15. CountInv'
  <2>1. fill_count' = fill_count /\ reserved_fill' = reserved_fill + tokens
    BY <1>4 DEF C!Inject
  <2> QED BY <1>5, <1>8, <2>1 DEF QueuesInv, CountInv
<1>16. QueueInv' /\ ThreadInv'
  <2>1. \A i \in 1 .. k + 1 : i \in 1 .. k \/ i = k + 1
    BY <1>10
  <2>2. k + 1 <= setup.queue_size /\ k + 1 > 0 /\ k + 1 \in Nat
    BY <1>10, CoServingAssumption
  <2>3. \A i \in 1 .. k + 1 : IsStep(p[i]) /\ RowsFit(p[i])
    BY <1>9, <1>10, <1>11, <2>1
  <2>4. \A i \in 1 .. k + 1 : i < k + 1 => Ran(p[i])
    BY <1>10, <1>11, <2>1
  <2>5. pc' \in InStep /\ pc' \notin Between /\ pc' # "forward"
    BY <1>4 DEF InStep, Between
  <2>6. pc' = "pending" => p[k + 1].n > 0
    BY <1>4, <1>9, <1>11
  <2>7. QueueInv'
    BY <1>8, <1>11, <2>2, <2>3 DEF QueueInv
  <2>8. p[Len(p)].state = "scheduled"
    BY <1>9, <1>11
  <2>9. ThreadInv'
    BY <1>11, <2>2, <2>4, <2>5, <2>6, <2>8 DEF ThreadInv
  <2> QED BY <2>7, <2>9
<1> QED BY <1>14, <1>15, <1>16 DEF QueuesInv

\* Counters stay natural numbers whatever is subtracted.
LEMMA MonusNat ==
  ASSUME NEW a \in Nat, NEW b \in Nat
  PROVE  C!Monus(a, b) \in Nat
  BY DEF C!Monus

\* Tier B undoes the step it has just scheduled, the last to be reserved.
LEMMA TierBSimulates ==
  ASSUME QueuesInv, TierB
  PROVE  QueuesInv' /\ (C!Undo \/ UNCHANGED C!vars)
<1> DEFINE q == batch_queue
           k == Len(q)
           s == q[k]
<1>1. /\ pc = "pending" /\ pc \in InStep /\ pc \notin Between
      /\ setup' = setup /\ rate' = rate
  BY DEF TierB, InStep, Between
<1>2. /\ IsSeq(q) /\ k \in Nat /\ k > 0 /\ q # <<>> /\ k <= setup.queue_size
      /\ s.n > 0 /\ s.state = "scheduled"
      /\ \A i \in 1 .. k : IsStep(q[i]) /\ RowsFit(q[i])
      /\ \A i \in 1 .. k : i < k => Ran(q[i])
      /\ Last(q) = s
  <2>1. IsSeq(q) /\ k > 0
    BY <1>1 DEF QueuesInv, QueueInv, ThreadInv
  <2>2. k \in Nat /\ q # <<>> /\ Last(q) = s
    BY <2>1, SeqFacts
  <2> QED BY <1>1, <2>1, <2>2 DEF QueuesInv, QueueInv, ThreadInv
<1>3. CASE input_queue = <<>>
  <2>1. UNCHANGED <<coord_vars, batch_queue, setup, rate>> /\ pc' = "exec"
    BY <1>1, <1>3 DEF TierB
  <2>2. UNCHANGED C!vars
    BY <2>1, CoordinatorUntouched DEF Reservations
  <2>3. CountInv'
    BY <2>1 DEF QueuesInv, CountInv, coord_vars
  <2>4. QueueInv' /\ ThreadInv'
    <3>1. /\ pc' \in InStep /\ pc' \notin Between
          /\ pc' \notin {"pending", "forward"}
      BY <2>1 DEF InStep, Between
    <3> QED BY <1>1, <2>1, <3>1 DEF QueuesInv, QueueInv, ThreadInv
  <2> QED BY <2>2, <2>3, <2>4 DEF QueuesInv
<1>4. CASE input_queue # <<>>
  <2>1. /\ RollbackFtStep(s) /\ batch_queue' = Front(q) /\ pc' = "drain"
    BY <1>2, <1>4 DEF TierB
  <2>2. C!Rollback(s.n, SamplesOf(s.segs), s.snap)
    BY <2>1 DEF RollbackFtStep
  <2> DEFINE rest == ReservationsOf(Front(q))
             i == Len(Reservations)
  <2>3. /\ i \in DOMAIN Reservations /\ Reservations[i] = AsReservation(s)
        /\ C!NextToRun(i) /\ C!Without(i) = rest
    BY <1>1, <1>2, NewestReserved DEF QueuesInv
  <2>4. /\ AsReservation(s).n = s.n
        /\ AsReservation(s).samples = SamplesOf(s.segs)
        /\ AsReservation(s).snap = s.snap
    BY DEF AsReservation
  <2>5. Reservations' = rest
    BY <2>1 DEF Reservations
  <2>6. C!Undo
    <3> HIDE DEF i, rest, q, s
    <3>1. C!Rollback(Reservations[i].n, Reservations[i].samples,
                     Reservations[i].snap)
      BY <2>2, <2>3, <2>4
    <3>2. ~Reservations[i].aborted
      BY <2>3 DEF C!NextToRun
    <3>3. Reservations' = C!Without(i)
      BY <2>3, <2>5
    <3> QED BY <2>3, <3>1, <3>2, <3>3 DEF C!Undo, i
  <2>7. CountInv'
    <3>1. /\ fill_count' = fill_count
          /\ reserved_fill' = C!Monus(reserved_fill, s.n)
      BY <2>2 DEF C!Rollback
    <3>2. s.n \in Nat
      BY <1>2 DEF RowsFit
    <3> QED BY <1>1, <3>1, <3>2, MonusNat DEF QueuesInv, CountInv
  <2>8. QueueInv' /\ ThreadInv'
    <3> DEFINE p == batch_queue'
    <3>1. /\ IsSeq(p) /\ Len(p) = k - 1
          /\ \A j \in 1 .. k - 1 : p[j] = q[j]
      <4>1. /\ IsSeq(Front(q)) /\ Len(Front(q)) = k - 1
            /\ \A j \in 1 .. k - 1 : Front(q)[j] = q[j]
        BY <1>2, TailFacts
      <4> QED BY <2>1, <4>1
    <3>2. \A j \in 1 .. k - 1 : IsStep(p[j]) /\ RowsFit(p[j]) /\ Ran(p[j])
      BY <1>2, <3>1
    <3>3. /\ pc' \in Between /\ pc' \notin InStep
          /\ pc' \notin {"pending", "forward"}
      BY <2>1 DEF Between, InStep
    <3>4. setup.queue_size \in Nat /\ k - 1 < setup.queue_size
      BY <1>2, CoServingAssumption DEF QueuesInv, CountInv
    <3>5. k - 1 <= setup.queue_size
      BY <1>2, <3>4
    <3>6. QueueInv'
      BY <1>1, <3>1, <3>2, <3>5 DEF QueueInv
    <3>7. ThreadInv'
      BY <1>1, <3>1, <3>2, <3>3, <3>4 DEF ThreadInv
    <3> QED BY <3>6, <3>7
  <2> QED BY <2>6, <2>7, <2>8 DEF QueuesInv
<1> QED BY <1>3, <1>4

\* A forward that saves its rows is a capture; one that gives up leaves them to
\* the rollback; a step without rows is not the coordinator's business.
LEMMA ForwardSimulates ==
  ASSUME QueuesInv, ExecuteModel \/ EnterForward \/ FinishForward
  PROVE  QueuesInv' /\ (C!Capture \/ C!Abort \/ UNCHANGED C!vars)
<1> DEFINE q == batch_queue
           k == Len(q)
           s == q[k]
           rest == ReservationsOf(Front(q))
           i == Len(Reservations)
<1>1. /\ pc \in {"exec", "forward"} /\ pc \in InStep /\ pc \notin Between
      /\ setup' = setup /\ rate' = rate
      /\ pc = "forward" => s.n > 0
  BY DEF ExecuteModel, EnterForward, FinishForward, InStep, Between, QueuesInv,
         ThreadInv
<1>2. /\ IsSeq(q) /\ k \in Nat /\ k > 0 /\ q # <<>> /\ Last(q) = s
      /\ s.state = "scheduled" /\ RowsFit(s) /\ s.n \in Nat
  <2>1. IsSeq(q) /\ k > 0 /\ s.state = "scheduled"
    BY <1>1 DEF QueuesInv, QueueInv, ThreadInv
  <2>2. k \in Nat /\ q # <<>> /\ Last(q) = s
    BY <2>1, SeqFacts
  <2>3. RowsFit(s)
    BY <2>1, <2>2 DEF QueuesInv, QueueInv
  <2> QED BY <2>1, <2>2, <2>3 DEF RowsFit
<1>3. s.n > 0 =>
        /\ IsSeq(rest) /\ Reservations = Append(rest, AsReservation(s))
        /\ i \in DOMAIN Reservations /\ i \in Nat /\ i = Len(rest) + 1
        /\ Reservations[i] = AsReservation(s)
        /\ C!NextToRun(i) /\ C!Without(i) = rest
  BY <1>1, NewestReserved DEF QueuesInv
<1>4. ASSUME NEW state \in {"saved", "aborted"}, state = "aborted" => s.n > 0,
             AfterExecute(Executed(state))
      PROVE  /\ QueueInv' /\ ThreadInv'
             /\ Reservations' =
                  IF state = "saved" THEN rest
                  ELSE Append(rest, [AsReservation(s) EXCEPT !.aborted = TRUE])
  BY <1>1, <1>4, RunStep DEF QueuesInv
<1>5. CASE /\ s.n > 0 /\ SaveRows(s) /\ AfterExecute(Executed("saved"))
  <2>1. /\ QueueInv' /\ ThreadInv' /\ Reservations' = rest
    BY <1>4, <1>5
  <2>2. C!RecordCapture(s.n, RowsOf(s.segs))
    BY <1>5 DEF SaveRows, Capture
  <2>3. Reservations[i].n = s.n
    BY <1>3, <1>5 DEF AsReservation
  <2>4. RowsOf(s.segs) \in C!Splits(s.n)
    BY <1>2, <1>5 DEF RowsFit
  <2>5. C!Capture
    <3> HIDE DEF i, rest, s, q
    <3>1. \E lens \in C!Splits(Reservations[i].n) :
             C!RecordCapture(Reservations[i].n, lens)
      BY <2>2, <2>3, <2>4
    <3> QED BY <1>3, <1>5, <2>1, <3>1 DEF C!Capture
  <2>6. CountInv'
    <3>1. /\ fill_count' = fill_count + s.n
          /\ reserved_fill' = C!Monus(reserved_fill, s.n)
      BY <2>2 DEF C!RecordCapture
    <3> HIDE DEF s
    <3>2. fill_count' \in Nat
      BY <1>2, <3>1 DEF QueuesInv, CountInv
    <3> QED BY <1>1, <1>2, <3>1, <3>2, MonusNat DEF QueuesInv, CountInv
  <2> QED BY <2>1, <2>5, <2>6 DEF QueuesInv
<1>6. CASE /\ s.n = 0 /\ UNCHANGED coord_vars /\ AfterExecute(Executed("saved"))
  <2>1. /\ QueueInv' /\ ThreadInv' /\ Reservations' = rest
    BY <1>4, <1>6
  <2>2. ReservationsOf(q) = Held(s, rest)
    BY <1>2, ReservationsStep
  <2>3. ~HoldsRows(s)
    BY <1>6 DEF HoldsRows
  <2>4. Reservations = rest
    BY <2>2, <2>3 DEF Held, Reservations
  <2>5. UNCHANGED C!vars
    BY <1>6, <2>1, <2>4, CoordinatorUntouched
  <2>6. CountInv'
    BY <1>1, <1>6 DEF QueuesInv, CountInv, coord_vars
  <2> QED BY <2>1, <2>5, <2>6 DEF QueuesInv
<1>7. CASE /\ s.n > 0 /\ UNCHANGED coord_vars
           /\ AfterExecute(Executed("aborted"))
  <2> DEFINE t == [AsReservation(s) EXCEPT !.aborted = TRUE]
  <2>1. /\ QueueInv' /\ ThreadInv' /\ Reservations' = Append(rest, t)
    BY <1>4, <1>7
  <2>2. [Reservations EXCEPT ![i].aborted = TRUE]
          = [Reservations EXCEPT ![i] = t]
    BY <1>3, <1>7
  <2>3. Append(rest, t) = [Reservations EXCEPT ![i] = t]
    <3> DEFINE e == AsReservation(s)
               r == Reservations
               a == Append(rest, t)
    <3> HIDE DEF t
    <3>1. /\ IsSeq(rest) /\ r = Append(rest, e) /\ i = Len(rest) + 1
      BY <1>3, <1>7
    <3>2. Len(rest) \in Nat
      <4> HIDE DEF rest
      <4> QED BY <3>1, SeqFacts
    <3> HIDE DEF rest, e, r, i
    <3>3. /\ IsSeq(r) /\ Len(r) = i /\ \A j \in 1 .. Len(rest) : r[j] = rest[j]
      BY <3>1, AppendFacts
    <3>4. /\ IsSeq(a) /\ Len(a) = i /\ a[i] = t
          /\ \A j \in 1 .. Len(rest) : a[j] = rest[j]
      BY <3>1, AppendFacts
    <3> HIDE DEF a
    <3>5. /\ a = [j \in 1 .. i |-> a[j]] /\ DOMAIN r = 1 .. i
          /\ r = [j \in 1 .. i |-> r[j]]
      BY <3>3, <3>4, SeqFacts
    <3>6. \A j \in 1 .. i : a[j] = IF j = i THEN t ELSE r[j]
      <4>1. \A j \in 1 .. i : j = i \/ j \in 1 .. Len(rest)
        BY <3>1, <3>2
      <4>2. \A j \in 1 .. Len(rest) : j # i
        BY <3>1, <3>2
      <4> QED BY <3>3, <3>4, <4>1, <4>2
    <3>7. [r EXCEPT ![i] = t] = [j \in 1 .. i |-> IF j = i THEN t ELSE r[j]]
      BY <3>5
    <3>8. a = [r EXCEPT ![i] = t]
      BY <3>5, <3>6, <3>7
    <3> QED BY <3>8 DEF a, r
  <2>4. C!Abort
    <3> HIDE DEF i, rest, s, q, t
    <3>1. Reservations' = [Reservations EXCEPT ![i].aborted = TRUE]
      BY <2>1, <2>2, <2>3
    <3>2. UNCHANGED C!coord_vars
      BY <1>7 DEF coord_vars, C!coord_vars, C!buffer_vars, C!gate_vars,
                  C!backward_vars
    <3> QED BY <1>3, <1>7, <3>1, <3>2 DEF C!Abort
  <2>5. CountInv'
    BY <1>1, <1>7 DEF QueuesInv, CountInv, coord_vars
  <2> QED BY <2>1, <2>4, <2>5 DEF QueuesInv
<1>8. CASE /\ s.n > 0 /\ UNCHANGED <<coord_vars, batch_queue>>
           /\ pc' = "forward"
  <2>1. UNCHANGED C!vars
    BY <1>8, CoordinatorUntouched DEF Reservations
  <2>2. CountInv'
    BY <1>1, <1>8 DEF QueuesInv, CountInv, coord_vars
  <2>3. QueueInv' /\ ThreadInv'
    <3>1. pc' \in InStep /\ pc' \notin Between
      BY <1>8 DEF InStep, Between
    <3> QED BY <1>1, <1>8, <3>1 DEF QueuesInv, QueueInv, ThreadInv
  <2> QED BY <2>1, <2>2, <2>3 DEF QueuesInv
<1>9. CASE ExecuteModel
  <2>1. CASE s.n > 0
    BY <1>2, <1>5, <1>9, <2>1 DEF ExecuteModel
  <2>2. CASE ~(s.n > 0)
    <3>1. s.n = 0
      BY <1>2, <2>2
    <3> QED BY <1>2, <1>6, <1>9, <2>2, <3>1 DEF ExecuteModel
  <2> QED BY <2>1, <2>2
<1>10. CASE EnterForward
  <2>1. s.n > 0 /\ UNCHANGED coord_vars
    BY <1>2, <1>10 DEF EnterForward, FtOnly
  <2>2. \/ AfterExecute(Executed("aborted"))
        \/ UNCHANGED batch_queue /\ pc' = "forward"
    BY <1>10 DEF EnterForward
  <2> QED BY <1>7, <1>8, <2>1, <2>2
<1>11. CASE FinishForward
  <2>1. s.n > 0
    BY <1>1, <1>11 DEF FinishForward
  <2>2. \/ SaveRows(s) /\ AfterExecute(Executed("saved"))
        \/ AfterExecute(Executed("aborted")) /\ UNCHANGED coord_vars
    BY <1>2, <1>11 DEF FinishForward
  <2> QED BY <1>5, <1>7, <2>1, <2>2
<1> QED BY <1>9, <1>10, <1>11

\* The output of an aborted step rolls it back, the oldest to be reserved; any
\* other output is not the coordinator's business.
LEMMA UpdateSimulates ==
  ASSUME QueuesInv, UpdateFromOutput
  PROVE  QueuesInv' /\ (C!Undo \/ UNCHANGED C!vars)
<1> DEFINE q == batch_queue
           k == Len(q)
           s == q[1]
           p == batch_queue'
           r == Reservations
<1>1. /\ pc \notin Between /\ pc \notin InStep /\ pc' = "top"
      /\ setup' = setup /\ rate' = rate /\ p = Tail(q)
  BY DEF UpdateFromOutput, InStep, Between
<1>2. /\ IsSeq(q) /\ k \in Nat /\ k > 0 /\ q # <<>> /\ Head(q) = s
      /\ k <= setup.queue_size
      /\ \A i \in 1 .. k : IsStep(q[i]) /\ RowsFit(q[i]) /\ Ran(q[i])
  <2>1. IsSeq(q) /\ k > 0
    BY <1>1 DEF QueuesInv, QueueInv, ThreadInv
  <2>2. k \in Nat /\ q # <<>> /\ Head(q) = s
    BY <2>1, SeqFacts
  <2> QED BY <1>1, <2>1, <2>2 DEF QueuesInv, QueueInv, ThreadInv
<1>3. s.n \in Nat /\ Ran(s)
  <2>1. 1 \in 1 .. k
    BY <1>2
  <2> HIDE DEF s
  <2>2. RowsFit(s) /\ Ran(s)
    BY <1>2, <2>1 DEF s
  <2> QED BY <2>2 DEF RowsFit
<1>4. /\ IsSeq(p) /\ Len(p) = k - 1 /\ \A j \in 1 .. k - 1 : p[j] = q[j + 1]
  <2>1. /\ IsSeq(Tail(q)) /\ Len(Tail(q)) = k - 1
        /\ \A j \in 1 .. k - 1 : Tail(q)[j] = q[j + 1]
    BY <1>2, TailFacts
  <2> QED BY <1>1, <2>1
<1>5. QueueInv' /\ ThreadInv'
  <2>1. \A j \in 1 .. k - 1 : IsStep(p[j]) /\ RowsFit(p[j]) /\ Ran(p[j])
    <3> SUFFICES ASSUME NEW j \in 1 .. k - 1
                 PROVE  IsStep(p[j]) /\ RowsFit(p[j]) /\ Ran(p[j])
      OBVIOUS
    <3>1. j + 1 \in 1 .. k /\ p[j] = q[j + 1]
      BY <1>2, <1>4
    <3> QED BY <1>2, <3>1
  <2>2. /\ pc' \in Between /\ pc' \notin InStep
        /\ pc' \notin {"pending", "forward"}
    BY <1>1 DEF Between, InStep
  <2>3. setup.queue_size \in Nat /\ k - 1 < setup.queue_size
    BY <1>2, CoServingAssumption DEF QueuesInv, CountInv
  <2>4. k - 1 <= setup.queue_size
    BY <1>2, <2>3
  <2>5. QueueInv'
    BY <1>1, <1>4, <2>1, <2>4 DEF QueueInv
  <2>6. ThreadInv'
    BY <1>1, <1>4, <2>1, <2>2, <2>3 DEF ThreadInv
  <2> QED BY <2>5, <2>6
<1>6. IF HoldsRows(s)
      THEN r # <<>> /\ r[1] = AsReservation(s) /\ Reservations' = Tail(r)
      ELSE UNCHANGED Reservations
  <2>1. IF HoldsRows(s)
        THEN /\ ReservationsOf(q) # <<>>
             /\ ReservationsOf(q)[1] = AsReservation(s)
             /\ ReservationsOf(Tail(q)) = Tail(ReservationsOf(q))
        ELSE ReservationsOf(Tail(q)) = ReservationsOf(q)
    BY <1>2, ReservationsTail
  <2> QED BY <1>1, <2>1 DEF Reservations
<1> HIDE DEF p
<1>7. CASE s.state # "aborted"
  <2>1. ~HoldsRows(s)
    BY <1>3, <1>7 DEF Ran, HoldsRows
  <2>2. UNCHANGED coord_vars
    BY <1>2, <1>7 DEF UpdateFromOutput
  <2>3. UNCHANGED C!vars
    BY <1>6, <2>1, <2>2, CoordinatorUntouched
  <2>4. CountInv'
    BY <1>1, <2>2 DEF QueuesInv, CountInv, coord_vars
  <2> QED BY <1>5, <2>3, <2>4 DEF QueuesInv
<1>8. CASE s.state = "aborted"
  <2>1. HoldsRows(s)
    BY <1>3, <1>8 DEF Ran, HoldsRows
  <2>2. /\ r # <<>> /\ r[1] = AsReservation(s) /\ Reservations' = Tail(r)
    BY <1>6, <2>1
  <2>3. C!Rollback(s.n, SamplesOf(s.segs), s.snap)
    BY <1>2, <1>8 DEF UpdateFromOutput, RollbackFtStep
  <2>4. IsSeq(r) /\ 1 \in DOMAIN r
    <3>1. IsSeq(r)
      BY <1>2, ReservationsType DEF Reservations
    <3>2. Len(r) \in Nat /\ Len(r) # 0 /\ DOMAIN r = 1 .. Len(r)
      BY <2>2, <3>1, SeqFacts
    <3> QED BY <3>1, <3>2
  <2>5. Reservations' = C!Without(1)
    BY <2>2, <2>4, WithoutEnds
  <2>6. /\ AsReservation(s).n = s.n /\ AsReservation(s).aborted
        /\ AsReservation(s).samples = SamplesOf(s.segs)
        /\ AsReservation(s).snap = s.snap
    BY <1>8 DEF AsReservation
  <2>7. C!Undo
    <3> HIDE DEF s, q
    <3>1. C!Rollback(r[1].n, r[1].samples, r[1].snap)
      BY <2>2, <2>3, <2>6
    <3>2. r[1].aborted
      BY <2>2, <2>6
    <3> QED BY <2>4, <2>5, <3>1, <3>2 DEF C!Undo, r
  <2>8. CountInv'
    <3>1. /\ fill_count' = fill_count
          /\ reserved_fill' = C!Monus(reserved_fill, s.n)
      BY <2>3 DEF C!Rollback
    <3> QED BY <1>1, <1>3, <3>1, MonusNat DEF QueuesInv, CountInv
  <2> QED BY <1>5, <2>7, <2>8 DEF QueuesInv
<1> QED BY <1>7, <1>8

\* The rest of the engine thread, the input thread, the child and time leave
\* the queue alone.
LEMMA OthersSimulate ==
  ASSUME QueuesInv,
         \/ InputThread \/ HandleRequest \/ BeginStep \/ Drained
         \/ PollBackward \/ CheckRps \/ AdvanceEpoch \/ Child \/ Time
         \/ UNCHANGED vars
  PROVE  QueuesInv' /\ [C!Next]_(C!vars)
<1>1. ASSUME UNCHANGED <<setup, batch_queue>>,
             \/ UNCHANGED pc
             \/ pc \in Between /\ pc' \in Between
             \/ pc \in Between /\ pc' = "update" /\ batch_queue # <<>>,
             fill_count' \in Nat, reserved_fill' \in Nat,
             rate' \in 0 .. CloseRps + 1
      PROVE  QueuesInv' /\ UNCHANGED Reservations
  <2>1. QueueInv' /\ ThreadInv' /\ UNCHANGED Reservations
    BY <1>1, QueueUntouched DEF QueuesInv
  <2>2. CountInv'
    BY <1>1 DEF QueuesInv, CountInv
  <2> QED BY <2>1, <2>2 DEF QueuesInv
<1>2. /\ fill_count \in Nat /\ reserved_fill \in Nat
      /\ rate \in 0 .. CloseRps + 1 /\ CloseRps \in Nat
  BY CoServingAssumption DEF QueuesInv, CountInv
<1>3. CASE \/ InputThread \/ BeginStep \/ Drained \/ AdvanceEpoch
           \/ ZeroFillLands \/ RateDecays \/ UNCHANGED vars
  <2>1. UNCHANGED coord_vars
    BY <1>3 DEF InputThread, PutInput, CheckInFlight, SetAbort, BeginStep,
                Drained, AdvanceEpoch, ZeroFillLands, RateDecays, vars
  <2>2. UNCHANGED <<setup, batch_queue>>
    BY <1>3 DEF InputThread, PutInput, CheckInFlight, SetAbort, BeginStep,
                Drained, AdvanceEpoch, ZeroFillLands, RateDecays, vars,
                engine_vars
  <2>3. \/ UNCHANGED pc
        \/ pc \in Between /\ pc' \in Between
        \/ pc \in Between /\ pc' = "update" /\ batch_queue # <<>>
    BY <1>3 DEF InputThread, PutInput, CheckInFlight, SetAbort, BeginStep,
                Drained, AdvanceEpoch, ZeroFillLands, RateDecays, vars,
                engine_vars, Between
  <2>4. rate' \in 0 .. CloseRps + 1
    BY <1>2, <1>3 DEF InputThread, PutInput, CheckInFlight, SetAbort, BeginStep,
                Drained, AdvanceEpoch, ZeroFillLands, RateDecays, vars
  <2>5. fill_count' \in Nat /\ reserved_fill' \in Nat
    BY <1>2, <2>1 DEF coord_vars
  <2>6. QueuesInv' /\ UNCHANGED Reservations
    BY <1>1, <2>2, <2>3, <2>4, <2>5
  <2> QED BY <2>1, <2>6, CoordinatorUntouched
<1>4. CASE HandleRequest
  <2>1. /\ UNCHANGED <<setup, batch_queue, pc>>
        /\ fill_count' = fill_count /\ reserved_fill' = reserved_fill
    BY <1>4 DEF HandleRequest, coord_vars, C!StartFinetuning, C!StopFinetuning,
                C!buffer_vars
  <2>2. rate' \in 0 .. CloseRps + 1
    BY <1>2, <1>4 DEF HandleRequest
  <2>3. QueuesInv' /\ UNCHANGED Reservations
    BY <1>1, <1>2, <2>1, <2>2
  <2>4. UNCHANGED coord_vars \/ C!StartFinetuning \/ C!StopFinetuning
    BY <1>4 DEF HandleRequest
  <2>5. CASE UNCHANGED coord_vars
    BY <2>3, <2>5, CoordinatorUntouched
  <2>6. CASE C!StartFinetuning \/ C!StopFinetuning
    BY <2>3, <2>6 DEF C!Next, C!Switch
  <2> QED BY <2>3, <2>4, <2>5, <2>6
<1>5. CASE PollBackward
  <2>1. /\ UNCHANGED <<setup, batch_queue, rate>>
        /\ pc \in Between /\ pc' \in Between
    BY <1>5 DEF PollBackward, Between
  <2>2. C!TakeAck \/ C!DisableStuck \/ C!TryEpochFlush \/ UNCHANGED coord_vars
    BY <1>5 DEF PollBackward
  <2>3. fill_count' \in Nat /\ reserved_fill' \in Nat
    BY <1>2, <2>2 DEF C!TakeAck, C!DisableStuck, C!TryEpochFlush,
                      C!buffer_vars, coord_vars
  <2>4. QueuesInv' /\ UNCHANGED Reservations
    BY <1>1, <1>2, <2>1, <2>3
  <2>5. CASE UNCHANGED coord_vars
    BY <2>4, <2>5, CoordinatorUntouched
  <2>6. CASE C!TakeAck \/ C!DisableStuck \/ C!TryEpochFlush
    BY <2>4, <2>6 DEF C!Next, C!Poll
  <2> QED BY <2>2, <2>4, <2>5, <2>6
<1>6. CASE CheckRps
  <2>1. /\ UNCHANGED <<setup, batch_queue, rate>>
        /\ pc \in Between /\ pc' \in Between
    BY <1>6 DEF CheckRps, Between
  <2>2. \E held \in BOOLEAN : C!CheckRpsThrottle(rate, held)
    BY <1>6 DEF CheckRps
  <2>3. fill_count' \in Nat /\ reserved_fill' \in Nat
    BY <1>2, <2>2 DEF C!CheckRpsThrottle, C!buffer_vars
  <2>4. QueuesInv' /\ UNCHANGED Reservations
    BY <1>1, <1>2, <2>1, <2>3
  <2>5. C!Throttle
    BY <1>2, <2>2, <2>4 DEF C!Throttle
  <2> QED BY <2>4, <2>5 DEF C!Next
<1>7. CASE ProcessActivations \/ ChildDie \/ Tick
  <2>1. UNCHANGED <<setup, batch_queue, pc, rate>>
    BY <1>7 DEF ProcessActivations, ChildDie, Tick, engine_vars
  <2>2. C!ChildAck \/ C!ChildDie \/ C!Tick
    BY <1>7 DEF ProcessActivations, ChildDie, Tick
  <2>3. fill_count' \in Nat /\ reserved_fill' \in Nat
    BY <1>2, <2>2 DEF C!ChildAck, C!ChildDie, C!Tick, C!buffer_vars
  <2>4. QueuesInv' /\ UNCHANGED Reservations
    BY <1>1, <1>2, <2>1, <2>3
  <2> QED BY <2>2, <2>4 DEF C!Next, C!Child
<1> QED BY <1>3, <1>4, <1>5, <1>6, <1>7 DEF Child, Time

\* The engine starts with nothing in flight.
LEMMA InitQueuesInv == Init => QueuesInv /\ C!Init
<1> SUFFICES ASSUME Init PROVE QueuesInv /\ C!Init
  OBVIOUS
<1>1. /\ setup \in Setups /\ batch_queue = <<>> /\ C!Init /\ pc = "top"
      /\ rate = 0
  BY DEF Init
<1>2. IsSeq(<<>>) /\ Len(<<>>) = 0
  BY DEF IsSeq
<1>3. CountInv
  BY <1>1, CoServingAssumption DEF CountInv, C!Init
<1>4. setup.queue_size \in Nat /\ 0 < setup.queue_size
  BY <1>1, CoServingAssumption
<1>5. QueueInv
  BY <1>1, <1>2, <1>4 DEF QueueInv
<1>6. ThreadInv
  BY <1>1, <1>2, <1>4 DEF ThreadInv, Between, InStep
<1> QED BY <1>1, <1>3, <1>5, <1>6 DEF QueuesInv

\* Every step of the engine is a step of the coordinator's callers.
LEMMA StepSimulates ==
  ASSUME PoolInv, QueuesInv, [Next]_vars
  PROVE  QueuesInv' /\ [C!Next]_(C!vars)
<1>1. CASE ScheduleStep
  BY <1>1, ScheduleSimulates DEF C!Next
<1>2. CASE TierB
  BY <1>2, TierBSimulates DEF C!Next
<1>3. CASE ExecuteModel \/ EnterForward \/ FinishForward
  BY <1>3, ForwardSimulates DEF C!Next
<1>4. CASE UpdateFromOutput
  BY <1>4, UpdateSimulates DEF C!Next
<1>5. CASE \/ InputThread \/ HandleRequest \/ BeginStep \/ Drained
           \/ PollBackward \/ CheckRps \/ AdvanceEpoch \/ Child \/ Time
           \/ UNCHANGED vars
  BY <1>5, OthersSimulate
<1> QED BY <1>1, <1>2, <1>3, <1>4, <1>5 DEF Next, EngineThread

\* The store's claims, the counters, the queue and the thread's label: what the
\* refinement needs to know of every state.
THEOREM EngineInvariant == Spec => [](PoolInv /\ QueuesInv)
<1>1. Init => PoolInv /\ QueuesInv
  BY InitPoolInv, InitQueuesInv
<1>2. PoolInv /\ QueuesInv /\ [Next]_vars => (PoolInv /\ QueuesInv)'
  BY NextPoolInv, StepSimulates
<1> QED BY <1>1, <1>2, PTL DEF Spec

\* Every step of the engine is a step of the callers' protocol the coordinator
\* is checked and proved against, or touches nothing of it: what it reserves
\* fits the budget and divides into samples that are not in the buffer, the
\* oldest reservation that has not been aborted is the one whose rows are
\* saved, and only an aborted head or the step just scheduled is undone.
THEOREM DrivesTheCoordinator == Spec => ImplementsCoordinator
<1>1. Init => C!Init
  BY InitQueuesInv
<1>2. PoolInv /\ QueuesInv /\ [Next]_vars => [C!Next]_(C!vars)
  BY StepSimulates
<1> QED BY <1>1, <1>2, EngineInvariant, PTL
        DEF Spec, ImplementsCoordinator, C!Spec

-----------------------------------------------------------------------------
(***************************************************************************)
(* The rows of the buffer, where steps do not overlap.                     *)
(***************************************************************************)
\* One step in flight, or none that can be aborted; and no late zero-fill.
Serial == \A s \in Setups : s.queue_size = 1 \/ ~s.interruptible
Punctual == "late_zero" \notin Faults

\* Only the newest step can hold rows.
Newest == batch_queue[Len(batch_queue)]
Holding == batch_queue # <<>> /\ HoldsRows(Newest)
HeldSamples == IF Holding THEN SamplesOf(Newest.segs) ELSE {}

\* A step lists a sample once, and is aborted only where tier C is on.
StepsInv ==
    /\ \A k \in 1 .. Len(batch_queue) :
         /\ \A i, j \in DOMAIN batch_queue[k].segs :
              i # j =>
                batch_queue[k].segs[i].sample # batch_queue[k].segs[j].sample
         /\ batch_queue[k].state = "aborted" => Interruptible
    /\ pc = "forward" => Interruptible

\* What is reserved is the newest step's, behind the rows saved and within the
\* buffer; while the child has the buffer nothing is.
ReserveInv ==
    /\ reserved_fill = IF Holding THEN Newest.n ELSE 0
    /\ fill_count + reserved_fill <= Capacity
    /\ Holding => Newest.off = fill_count
    /\ pending_backward => ~Holding
    /\ job # "none" => pending_backward

\* The rows saved: sample_lens cuts them into samples, own[i] in the i-th.
RowsUpTo(lens, i) == SumFunctionOnSet(lens, 1 .. i - 1)

LensInv ==
    /\ IsSeq(sample_lens)
    /\ \A i \in 1 .. Len(sample_lens) : sample_lens[i] \in Nat \ {0}
    /\ RowsUpTo(sample_lens, Len(sample_lens) + 1) = fill_count

SavedAs(own) ==
    /\ own \in [1 .. Len(sample_lens) -> buffer_samples \ HeldSamples]
    /\ \A s \in buffer_samples \ HeldSamples :
          \E i \in 1 .. Len(sample_lens) : own[i] = s
    /\ \A i, j \in 1 .. Len(sample_lens) : i # j => own[i] # own[j]
    /\ \A i \in 1 .. Len(sample_lens) :
       \A r \in RowsUpTo(sample_lens, i) .. RowsUpTo(sample_lens, i + 1) - 1 :
          rows[r] = own[i]

RowsInv ==
    /\ rows = [r \in 0 .. Capacity - 1 |-> rows[r]]
    /\ ~zeroing
    /\ HeldSamples \subseteq buffer_samples
    /\ job # "ack" => \E own : SavedAs(own)

BufferInv == StepsInv /\ ReserveInv /\ LensInv /\ RowsInv

\* What the ack commits: samples that were not trained, and that were read.
CommitInv ==
    /\ pool.trained \intersect pool.claimed = {}
    /\ job = "ack" => trained_rows = buffer_samples

\* The offset of the next sample is that of the last and its length.
LEMMA RowsUpToNext ==
  ASSUME NEW L, NEW m \in Nat, \A i \in 1 .. m : L[i] \in Nat \ {0}
  PROVE  /\ RowsUpTo(L, 1) = 0
         /\ \A i \in 1 .. m + 1 : RowsUpTo(L, i) \in Nat
         /\ \A i \in 1 .. m : RowsUpTo(L, i + 1) = RowsUpTo(L, i) + L[i]
<1>1. RowsUpTo(L, 1) = 0
  <2>1. 1 .. 1 - 1 = {}
    OBVIOUS
  <2> QED BY <2>1, FS_EmptySet, SumRec DEF RowsUpTo
<1>2. ASSUME NEW i \in 1 .. m
      PROVE  /\ RowsUpTo(L, i + 1) = RowsUpTo(L, i) + L[i]
             /\ RowsUpTo(L, i + 1) \in Nat
  <2>1. i \in Nat \ {0} /\ (i + 1) - 1 = i /\ \A j \in 1 .. i : L[j] \in Nat
    OBVIOUS
  <2>2. /\ SumFunctionOnSet(L, 1 .. i) = SumFunctionOnSet(L, 1 .. i - 1) + L[i]
        /\ SumFunctionOnSet(L, 1 .. i) \in Nat
    BY <2>1, SumPrefix
  <2> QED BY <2>1, <2>2 DEF RowsUpTo
<1>3. \A i \in 1 .. m + 1 : RowsUpTo(L, i) \in Nat
  <2> SUFFICES ASSUME NEW i \in 1 .. m + 1 PROVE RowsUpTo(L, i) \in Nat
    OBVIOUS
  <2>1. i = 1 \/ (i - 1 \in 1 .. m /\ i = (i - 1) + 1)
    OBVIOUS
  <2>2. CASE i = 1
    BY <1>1, <2>2
  <2>3. CASE i - 1 \in 1 .. m /\ i = (i - 1) + 1
    <3> DEFINE j == i - 1
    <3>1. j \in 1 .. m /\ i = j + 1
      BY <2>3
    <3> HIDE DEF j
    <3> QED BY <1>2, <3>1
  <2> QED BY <2>1, <2>2, <2>3
<1> QED BY <1>1, <1>2, <1>3

\* Later samples lie behind earlier ones.
LEMMA RowsUpToGrow ==
  ASSUME NEW L, NEW m \in Nat, \A i \in 1 .. m : L[i] \in Nat \ {0}
  PROVE  \A i, j \in 1 .. m + 1 : i <= j => RowsUpTo(L, i) <= RowsUpTo(L, j)
<1> SUFFICES ASSUME NEW i \in 1 .. m + 1
             PROVE  \A j \in 1 .. m + 1 :
                       i <= j => RowsUpTo(L, i) <= RowsUpTo(L, j)
  OBVIOUS
<1> DEFINE T == {j \in Nat : j <= m + 1 => RowsUpTo(L, i) <= RowsUpTo(L, j)}
<1>1. /\ \A j \in 1 .. m + 1 : RowsUpTo(L, j) \in Nat
      /\ \A j \in 1 .. m : RowsUpTo(L, j + 1) = RowsUpTo(L, j) + L[j]
  BY RowsUpToNext
<1>2. i \in T
  BY <1>1
<1>3. \A j \in Nat : i <= j /\ j \in T => j + 1 \in T
  <2> SUFFICES ASSUME NEW j \in Nat, i <= j, j + 1 <= m + 1,
                      RowsUpTo(L, i) <= RowsUpTo(L, j)
               PROVE  RowsUpTo(L, i) <= RowsUpTo(L, j + 1)
    OBVIOUS
  <2>1. j \in 1 .. m /\ j \in 1 .. m + 1 /\ L[j] \in Nat \ {0}
    OBVIOUS
  <2>2. RowsUpTo(L, j) \in Nat /\ RowsUpTo(L, i) \in Nat
    BY <1>1, <2>1
  <2> QED BY <1>1, <2>1, <2>2
<1> HIDE DEF T
<1>4. \A j \in Nat : i <= j => j \in T
  <2>1. T \in SUBSET Nat /\ i \in Nat
    BY DEF T
  <2> QED BY <1>2, <1>3, <2>1, Upward
<1> QED BY <1>4 DEF T

\* Every row is one sample's.
LEMMA RowOwner ==
  ASSUME NEW L, NEW m \in Nat, \A i \in 1 .. m : L[i] \in Nat \ {0},
         NEW x \in Nat, x < RowsUpTo(L, m + 1)
  PROVE  \E i \in 1 .. m :
            /\ RowsUpTo(L, i) <= x /\ x < RowsUpTo(L, i + 1)
            /\ \A j \in 1 .. m :
                  RowsUpTo(L, j) <= x /\ x < RowsUpTo(L, j + 1) => j = i
<1> DEFINE B(i) == RowsUpTo(L, i)
           Over == {i \in 1 .. m + 1 : x < B(i)}
<1>1. /\ B(1) = 0 /\ x < B(m + 1)
      /\ \A i \in 1 .. m + 1 : B(i) \in Nat
      /\ \A i, j \in 1 .. m + 1 : i <= j => B(i) <= B(j)
  BY RowsUpToNext, RowsUpToGrow
<1> HIDE DEF B
<1>2. PICK e \in Over : \A y \in Over : e <= y
  <2>1. Over \in SUBSET Nat /\ m + 1 \in Over
    BY <1>1
  <2> HIDE DEF Over
  <2>2. Over # {}
    BY <2>1
  <2> QED BY <2>1, <2>2, LeastNatural
<1>3. e \in 1 .. m + 1 /\ x < B(e) /\ e # 1
  BY <1>1
<1> DEFINE i == e - 1
<1>4. i \in 1 .. m /\ i + 1 = e /\ i \in 1 .. m + 1
  BY <1>3
<1>5. B(i) <= x
  <2>1. i \notin Over
    <3>1. i < e
      BY <1>3
    <3> QED BY <1>2, <1>3, <3>1
  <2>2. ~(x < B(i)) /\ B(i) \in Nat
    BY <1>1, <1>4, <2>1
  <2> QED BY <2>2
<1>6. ASSUME NEW j \in 1 .. m, B(j) <= x, x < B(j + 1)
      PROVE  j = i
  <2>1. /\ j \in 1 .. m + 1 /\ j + 1 \in 1 .. m + 1
        /\ B(j) \in Nat /\ B(j + 1) \in Nat /\ B(i) \in Nat /\ B(e) \in Nat
    BY <1>1, <1>3, <1>4
  <2>2. e <= j + 1
    BY <1>2, <1>6, <2>1
  <2>3. ~(e <= j)
    <3>1. e <= j => B(e) <= B(j)
      BY <1>1, <1>3, <2>1
    <3> QED BY <1>3, <1>6, <2>1, <3>1
  <2> QED BY <1>3, <2>2, <2>3
<1>7. x < B(i + 1)
  BY <1>3, <1>4
<1> HIDE DEF i
<1> QED BY <1>4, <1>5, <1>6, <1>7 DEF B

\* N starts with the m lengths of L, and k lengths of M come behind them.
Behind(N, L, m, M, k) ==
    /\ m \in Nat /\ \A i \in 1 .. m : L[i] \in Nat \ {0} /\ N[i] = L[i]
    /\ k \in Nat /\ \A i \in 1 .. k : M[i] \in Nat \ {0} /\ N[m + i] = M[i]

\* Lengths behind others count their rows from the end of those.
LEMMA RowsBehind ==
  ASSUME NEW N, NEW L, NEW m, NEW M, NEW k, Behind(N, L, m, M, k)
  PROVE  /\ \A i \in 1 .. m + k : N[i] \in Nat \ {0}
         /\ \A i \in 1 .. m + 1 : RowsUpTo(N, i) = RowsUpTo(L, i)
         /\ \A i \in 1 .. k + 1 :
               RowsUpTo(N, m + i) = RowsUpTo(L, m + 1) + RowsUpTo(M, i)
<1>. /\ m \in Nat /\ \A i \in 1 .. m : L[i] \in Nat \ {0} /\ N[i] = L[i]
     /\ k \in Nat /\ \A i \in 1 .. k : M[i] \in Nat \ {0} /\ N[m + i] = M[i]
  BY DEF Behind
<1>1. ASSUME NEW i \in 1 .. m + k
      PROVE  N[i] \in Nat \ {0}
  <2>1. CASE i <= m
    BY <2>1
  <2>2. CASE ~(i <= m)
    <3> DEFINE j == i - m
    <3>1. j \in 1 .. k /\ i = m + j
      BY <2>2
    <3> HIDE DEF j
    <3> QED BY <3>1
  <2> QED BY <2>1, <2>2
<1>2. ASSUME NEW i \in 1 .. m + 1
      PROVE  RowsUpTo(N, i) = RowsUpTo(L, i)
  <2>1. IsFiniteSet(1 .. i - 1)
    BY FS_Interval
  <2>2. \A j \in 1 .. i - 1 : N[j] = L[j]
    OBVIOUS
  <2> QED BY <2>1, <2>2, SumSame DEF RowsUpTo
<1> DEFINE a == RowsUpTo(L, m + 1)
           T == {j \in Nat : j <= k + 1 =>
                               RowsUpTo(N, m + j) = a + RowsUpTo(M, j)}
<1>3. a \in Nat
  <2>1. m + 1 \in 1 .. m + 1
    OBVIOUS
  <2> QED BY <2>1, RowsUpToNext
<1>4. 1 \in T
  <2>1. RowsUpTo(M, 1) = 0
    BY RowsUpToNext
  <2>2. RowsUpTo(N, m + 1) = a
    BY <1>2
  <2> HIDE DEF a
  <2> QED BY <1>3, <2>1, <2>2
<1>5. \A j \in Nat : 1 <= j /\ j \in T => j + 1 \in T
  <2> SUFFICES ASSUME NEW j \in Nat, 1 <= j, j + 1 <= k + 1,
                      RowsUpTo(N, m + j) = a + RowsUpTo(M, j)
               PROVE  RowsUpTo(N, m + (j + 1)) = a + RowsUpTo(M, j + 1)
    OBVIOUS
  <2>1. /\ j \in 1 .. k /\ j \in 1 .. k + 1 /\ m + j \in 1 .. m + k
        /\ (m + j) + 1 = m + (j + 1) /\ m + k \in Nat
    OBVIOUS
  <2>2. RowsUpTo(M, j + 1) = RowsUpTo(M, j) + M[j] /\ RowsUpTo(M, j) \in Nat
    BY <2>1, RowsUpToNext
  <2>3. \A i \in 1 .. m + k : RowsUpTo(N, i + 1) = RowsUpTo(N, i) + N[i]
    BY <1>1, <2>1, RowsUpToNext
  <2>4. RowsUpTo(N, m + (j + 1)) = RowsUpTo(N, m + j) + M[j] /\ M[j] \in Nat
    <3>1. RowsUpTo(N, (m + j) + 1) = RowsUpTo(N, m + j) + N[m + j]
      BY <2>1, <2>3
    <3> QED BY <2>1, <3>1
  <2> HIDE DEF a
  <2> QED BY <1>3, <2>2, <2>4
<1> HIDE DEF T
<1>6. \A j \in Nat : 1 <= j => j \in T
  <2>1. T \in SUBSET Nat
    BY DEF T
  <2> QED BY <1>4, <1>5, <2>1, Upward
<1> QED BY <1>1, <1>2, <1>6 DEF T

\* A queue behind another one.
LEMMA ConcatFacts ==
  ASSUME NEW s, IsSeq(s), NEW t, IsSeq(t)
  PROVE  LET c == s \o t
         IN  /\ IsSeq(c) /\ Len(c) = Len(s) + Len(t)
             /\ \A j \in 1 .. Len(s) : c[j] = s[j]
             /\ \A j \in 1 .. Len(t) : c[Len(s) + j] = t[j]
<1> DEFINE S == {s[i] : i \in DOMAIN s}
           T == {t[i] : i \in DOMAIN t}
           c == s \o t
<1>1. s \in Seq(S \union T) /\ t \in Seq(S \union T)
  <2>1. s \in Seq(S) /\ t \in Seq(T)
    BY DEF IsSeq
  <2> HIDE DEF S, T
  <2> QED BY <2>1, SeqMonotonic
<1>2. Len(s) \in Nat /\ Len(t) \in Nat
  BY <1>1, LenProperties
<1>3. /\ c \in Seq(S \union T) /\ Len(c) = Len(s) + Len(t)
      /\ \A j \in 1 .. Len(s) + Len(t) :
            c[j] = IF j <= Len(s) THEN s[j] ELSE t[j - Len(s)]
  <2> HIDE DEF S, T
  <2> QED BY <1>1, ConcatProperties
<1>4. IsSeq(c)
  <2> HIDE DEF c
  <2>1. c = [i \in 1 .. Len(c) |-> c[i]] /\ Len(c) \in Nat
    BY <1>3, LenProperties
  <2> QED BY <2>1, FunctionIsSeq
<1>5. /\ \A j \in 1 .. Len(s) : c[j] = s[j]
      /\ \A j \in 1 .. Len(t) : c[Len(s) + j] = t[j]
  <2> HIDE DEF c
  <2> QED BY <1>2, <1>3
<1> QED BY <1>3, <1>4, <1>5

\* The rows of a step divide into those of its samples.
LEMMA StepRows ==
  ASSUME NEW step, RowsFit(step), step.n > 0
  PROVE  LET M == RowsOf(step.segs)
         IN  \E k \in Nat \ {0} :
                /\ DOMAIN step.segs = 1 .. k
                /\ M = [i \in 1 .. k |-> M[i]] /\ IsSeq(M) /\ Len(M) = k
                /\ \A i \in 1 .. k : /\ M[i] = step.segs[i].n
                                     /\ M[i] \in Nat \ {0}
                /\ RowsUpTo(M, k + 1) = step.n
<1> DEFINE M == RowsOf(step.segs)
           n == step.n
<1>1. M \in C!Splits(n) /\ n \in Nat
  BY DEF RowsFit
<1>2. DOMAIN M = DOMAIN step.segs /\ \A i \in DOMAIN M : M[i] = step.segs[i].n
  BY DEF RowsOf
<1> HIDE DEF M, n
<1>3. M \in UNION {[1 .. j -> 1 .. n] : j \in 1 .. n} /\ SumFunction(M) = n
  BY <1>1 DEF C!Splits, SumFunction, SumFunctionOnSet, FoldFunctionOnSet,
              MapThenFoldSet, C!SumFunction, C!SumFunctionOnSet,
              C!FoldFunctionOnSet, C!MapThenFoldSet
<1>4. PICK k \in 1 .. n : M \in [1 .. k -> 1 .. n]
  BY <1>3
<1>5. k \in Nat \ {0} /\ (k + 1) - 1 = k
  BY <1>1
<1>6. /\ DOMAIN M = 1 .. k /\ M = [i \in 1 .. k |-> M[i]]
      /\ \A i \in 1 .. k : M[i] \in Nat \ {0}
  BY <1>1, <1>4
<1>7. IsSeq(M) /\ Len(M) = k
  BY <1>5, <1>6, FunctionIsSeq
<1>8. RowsUpTo(M, k + 1) = n
  BY <1>3, <1>5, <1>6 DEF RowsUpTo, SumFunction
<1> QED BY <1>2, <1>5, <1>6, <1>7, <1>8 DEF M, n

-----------------------------------------------------------------------------
(***************************************************************************)
(* Every step keeps the rows of the buffer.                                *)
(***************************************************************************)
\* Where a step can be aborted it is alone, so the steps before the newest one
\* are saved, and between steps none holds rows.
LEMMA SerialSteps ==
  ASSUME Serial, QueuesInv, StepsInv
  PROVE  /\ \A i \in 1 .. Len(batch_queue) :
               i < Len(batch_queue) => batch_queue[i].state = "saved"
         /\ pc \in Between => ~Holding
         /\ pc \in InStep => (Holding <=> Newest.n > 0)
         /\ pc = "update" =>
              IF Newest.state = "aborted"
              THEN Len(batch_queue) = 1 /\ Holding
              ELSE Newest.state = "saved" /\ ~Holding
<1> DEFINE q == batch_queue
           k == Len(q)
<1>1. /\ IsSeq(q) /\ k \in Nat /\ k <= setup.queue_size
      /\ q = <<>> <=> k = 0
      /\ setup.queue_size \in Nat
      /\ Interruptible => setup.queue_size = 1
  <2>1. IsSeq(q)
    BY DEF QueuesInv, QueueInv
  <2>2. k \in Nat /\ (q = <<>> <=> k = 0)
    BY <2>1, SeqFacts
  <2>3. setup \in Setups /\ k <= setup.queue_size
    BY DEF QueuesInv, QueueInv, CountInv
  <2>4. Interruptible => setup.queue_size = 1
    BY <2>3 DEF Serial, Interruptible
  <2>5. setup.queue_size \in Nat
    BY <2>3, CoServingAssumption
  <2> QED BY <2>1, <2>2, <2>3, <2>4, <2>5
<1>2. \A i \in 1 .. k : /\ q[i].state = "aborted" => Interruptible
                        /\ i < k \/ pc \notin InStep => Ran(q[i])
  BY DEF StepsInv, QueuesInv, ThreadInv
<1>3. \A i \in 1 .. k : i < k => q[i].state = "saved"
  <2> SUFFICES ASSUME NEW i \in 1 .. k, i < k PROVE q[i].state = "saved"
    OBVIOUS
  <2>1. ~Interruptible
    BY <1>1
  <2> QED BY <1>2, <2>1 DEF Ran
<1>4. k > 0 => k \in 1 .. k
  BY <1>1
<1>5. ASSUME pc \in Between PROVE ~Holding
  <2>1. pc \notin InStep /\ k < setup.queue_size
    BY <1>5 DEF Between, InStep, QueuesInv, ThreadInv
  <2>2. CASE k = 0
    BY <1>1, <2>2 DEF Holding
  <2>3. CASE k > 0
    <3>1. ~Interruptible
      BY <1>1, <2>1, <2>3
    <3>2. q[k].state = "saved"
      BY <1>2, <1>4, <2>1, <2>3, <3>1 DEF Ran
    <3> QED BY <3>2 DEF Holding, HoldsRows, Newest
  <2> QED BY <1>1, <2>2, <2>3
<1>6. ASSUME pc \in InStep PROVE Holding <=> Newest.n > 0
  <2>1. k > 0 /\ q[k].state = "scheduled"
    BY <1>6 DEF Between, InStep, QueuesInv, ThreadInv
  <2> QED BY <1>1, <2>1 DEF Holding, HoldsRows, Newest
<1>7. ASSUME pc = "update"
      PROVE  IF Newest.state = "aborted" THEN k = 1 /\ Holding
             ELSE Newest.state = "saved" /\ ~Holding
  <2>1. pc \notin InStep /\ k > 0
    BY <1>7 DEF Between, InStep, QueuesInv, ThreadInv
  <2>2. Ran(q[k])
    BY <1>2, <1>4, <2>1
  <2>3. CASE Newest.state = "aborted"
    <3>1. Interruptible
      BY <1>2, <1>4, <2>1, <2>3 DEF Newest
    <3>2. k = 1
      BY <1>1, <2>1, <3>1
    <3>3. Holding
      BY <1>1, <2>1, <2>2, <2>3 DEF Ran, Holding, HoldsRows, Newest
    <3> QED BY <2>3, <3>2, <3>3
  <2>4. CASE Newest.state # "aborted"
    BY <2>2, <2>4 DEF Ran, Holding, HoldsRows, Newest
  <2> QED BY <2>3, <2>4
<1> QED BY <1>3, <1>5, <1>6, <1>7

\* The rows saved and whose they are do not change with what is not saved.
LEMMA SavedStays ==
  ASSUME LensInv, RowsInv, fill_count \in Nat, UNCHANGED sample_lens,
         fill_count' = fill_count,
         (buffer_samples \ HeldSamples)' = buffer_samples \ HeldSamples,
         \A r \in 0 .. fill_count - 1 : rows'[r] = rows[r],
         job' # "ack" => job # "ack"
  PROVE  LensInv' /\ (job' # "ack" => (\E own : SavedAs(own))')
<1> DEFINE L == sample_lens
           m == Len(L)
<1>1. /\ IsSeq(L) /\ \A i \in 1 .. m : L[i] \in Nat \ {0}
      /\ RowsUpTo(L, m + 1) = fill_count
  BY DEF LensInv
<1>2. m \in Nat
  BY <1>1, SeqFacts
<1>3. LensInv'
  BY <1>1 DEF LensInv
<1>4. ASSUME job' # "ack" PROVE (\E own : SavedAs(own))'
  <2>1. PICK own : SavedAs(own)
    BY <1>4 DEF RowsInv
  <2>2. ASSUME NEW i \in 1 .. m,
               NEW r \in RowsUpTo(L, i) .. RowsUpTo(L, i + 1) - 1
        PROVE  rows'[r] = own[i]
    <3>1. /\ i + 1 \in 1 .. m + 1 /\ i \in 1 .. m + 1 /\ m + 1 \in 1 .. m + 1
          /\ i + 1 <= m + 1
      BY <1>2
    <3>2. RowsUpTo(L, i) \in Nat /\ RowsUpTo(L, i + 1) \in Nat
      BY <1>1, <1>2, <3>1, RowsUpToNext
    <3>3. RowsUpTo(L, i + 1) <= fill_count
      BY <1>1, <1>2, <3>1, RowsUpToGrow
    <3>4. r \in 0 .. fill_count - 1
      BY <3>2, <3>3
    <3>5. rows[r] = own[i]
      BY <2>1 DEF SavedAs
    <3> QED BY <3>4, <3>5
  <2>3. SavedAs(own)'
    <3>1. /\ own \in [1 .. m -> (buffer_samples \ HeldSamples)']
          /\ \A s \in (buffer_samples \ HeldSamples)' :
                \E i \in 1 .. m : own[i] = s
          /\ \A i, j \in 1 .. m : i # j => own[i] # own[j]
      BY <2>1 DEF SavedAs
    <3> QED BY <2>2, <3>1 DEF SavedAs
  <2> QED BY <2>3
<1> QED BY <1>3, <1>4

\* The rows of a step that runs to its end land behind those saved, each of its
\* samples in the rows its length gives it.
LEMMA SavesBehind ==
  ASSUME QueuesInv, BufferInv, Holding, SaveRows(Newest), ~Holding',
         UNCHANGED zeroing
  PROVE  LensInv' /\ RowsInv'
<1> DEFINE L == sample_lens
           m == Len(L)
           segs == Newest.segs
           n == Newest.n
           M == RowsOf(segs)
           N == L \o M
           fill == fill_count
           before(i) == SumFunctionOnSet(M, 1 .. i - 1)
           owner(r) == {i \in DOMAIN segs :
                          /\ Newest.off + before(i) <= r
                          /\ r < Newest.off + before(i) + segs[i].n}
<1>1. /\ Capacity \in Nat /\ fill \in Nat
      /\ fill + reserved_fill <= Capacity /\ reserved_fill = n
      /\ Newest.off = fill /\ job = "none"
      /\ rows = [r \in 0 .. Capacity - 1 |-> rows[r]]
  BY CoServingAssumption DEF BufferInv, ReserveInv, RowsInv, QueuesInv, CountInv
<1>2. /\ RowsFit(Newest) /\ n \in Nat /\ n > 0
      /\ \A i, j \in DOMAIN segs : i # j => segs[i].sample # segs[j].sample
  <2>1. IsSeq(batch_queue) /\ batch_queue # <<>>
    BY DEF QueuesInv, QueueInv, Holding
  <2>2. Len(batch_queue) \in 1 .. Len(batch_queue)
    <3>1. Len(batch_queue) \in Nat /\ Len(batch_queue) # 0
      BY <2>1, SeqFacts
    <3> QED BY <3>1
  <2>3. RowsFit(Newest)
    BY <2>2 DEF QueuesInv, QueueInv, Newest
  <2>4. \A i, j \in DOMAIN segs : i # j => segs[i].sample # segs[j].sample
    BY <2>2 DEF BufferInv, StepsInv, Newest
  <2> QED BY <2>3, <2>4 DEF RowsFit, Holding, HoldsRows
<1>3. PICK k \in Nat \ {0} :
        /\ DOMAIN segs = 1 .. k /\ IsSeq(M) /\ Len(M) = k
        /\ \A i \in 1 .. k : M[i] = segs[i].n /\ M[i] \in Nat \ {0}
        /\ RowsUpTo(M, k + 1) = n
  BY <1>2, StepRows
<1>4. /\ IsSeq(L) /\ m \in Nat /\ \A i \in 1 .. m : L[i] \in Nat \ {0}
      /\ RowsUpTo(L, m + 1) = fill
  <2>1. /\ IsSeq(L) /\ \A i \in 1 .. m : L[i] \in Nat \ {0}
        /\ RowsUpTo(L, m + 1) = fill
    BY DEF BufferInv, LensInv
  <2> QED BY <2>1, SeqFacts
<1>5. /\ IsSeq(N) /\ Len(N) = m + k
      /\ \A i \in 1 .. m : N[i] = L[i]
      /\ \A i \in 1 .. k : N[m + i] = M[i]
  <2>0. IsSeq(L) /\ IsSeq(M)
    BY <1>3, <1>4
  <2> HIDE DEF L, M
  <2>1. /\ IsSeq(N) /\ Len(N) = Len(L) + Len(M)
        /\ \A i \in 1 .. Len(L) : N[i] = L[i]
        /\ \A i \in 1 .. Len(M) : N[Len(L) + i] = M[i]
    BY <2>0, ConcatFacts
  <2> QED BY <1>3, <2>1
<1>6. /\ sample_lens' = N /\ fill' = fill + n
      /\ UNCHANGED buffer_samples
      /\ rows' = [r \in DOMAIN rows |->
                    IF owner(r) = {} THEN rows[r]
                    ELSE segs[CHOOSE i \in owner(r) : TRUE].sample]
  BY DEF SaveRows, Capture, C!RecordCapture
<1>7. \A i \in 1 .. k + 1 : before(i) = RowsUpTo(M, i)
  BY DEF RowsUpTo
<1> HIDE DEF before
<1>8. /\ \A i \in 1 .. k + 1 : RowsUpTo(M, i) \in Nat
      /\ \A i \in 1 .. k : RowsUpTo(M, i + 1) = RowsUpTo(M, i) + M[i]
  <2> HIDE DEF M
  <2> QED BY <1>3, RowsUpToNext
<1>9. ASSUME NEW r \in 0 .. fill - 1
      PROVE  r \in DOMAIN rows /\ rows'[r] = rows[r]
  <2>1. r \in DOMAIN rows
    <3>1. r \in 0 .. Capacity - 1
      BY <1>1, <1>2
    <3> QED BY <1>1, <3>1
  <2>2. owner(r) = {}
    <3> SUFFICES ASSUME NEW i \in 1 .. k PROVE ~(fill + before(i) <= r)
      BY <1>1, <1>3
    <3>1. before(i) \in Nat
      BY <1>7, <1>8
    <3> QED BY <1>1, <3>1
  <2> HIDE DEF owner
  <2> QED BY <1>6, <2>1, <2>2
<1>10. ASSUME NEW i \in 1 .. k,
              NEW r \in fill + RowsUpTo(M, i) .. (fill + RowsUpTo(M, i + 1)) - 1
       PROVE  r \in DOMAIN rows /\ rows'[r] = segs[i].sample
  <2>1. /\ i \in 1 .. k + 1 /\ i + 1 \in 1 .. k + 1 /\ k + 1 \in 1 .. k + 1
        /\ i + 1 <= k + 1
    OBVIOUS
  <2>2. RowsUpTo(M, i) \in Nat /\ RowsUpTo(M, i + 1) \in Nat
    BY <1>8, <2>1
  <2>3. RowsUpTo(M, i + 1) <= n
    <3>1. RowsUpTo(M, i + 1) <= RowsUpTo(M, k + 1)
      <4> HIDE DEF M
      <4> QED BY <1>3, <2>1, RowsUpToGrow
    <3> QED BY <1>3, <3>1
  <2>4. r \in 0 .. Capacity - 1
    BY <1>1, <1>2, <2>2, <2>3
  <2> DEFINE x == r - fill
  <2>5. /\ x \in Nat /\ x < RowsUpTo(M, k + 1) /\ r = fill + x
        /\ RowsUpTo(M, i) <= x /\ x < RowsUpTo(M, i + 1)
    <3> DEFINE a == RowsUpTo(M, i)
               b == RowsUpTo(M, i + 1)
    <3>1. /\ fill \in Nat /\ a \in Nat /\ b \in Nat /\ n \in Nat /\ b <= n
          /\ r \in fill + a .. (fill + b) - 1 /\ RowsUpTo(M, k + 1) = n
      BY <1>1, <1>2, <1>3, <2>2, <2>3
    <3> HIDE DEF a, b, fill, n, M
    <3>2. x \in Nat /\ x < n /\ r = fill + x /\ a <= x /\ x < b
      BY <3>1
    <3> QED BY <3>1, <3>2 DEF a, b
  <2> HIDE DEF x
  <2>6. \A j \in 1 .. k : RowsUpTo(M, j) <= x /\ x < RowsUpTo(M, j + 1) => j = i
    <3>1. \E e \in 1 .. k : \A j \in 1 .. k :
             RowsUpTo(M, j) <= x /\ x < RowsUpTo(M, j + 1) => j = e
      <4> HIDE DEF M
      <4> QED BY <1>3, <2>5, RowOwner
    <3> QED BY <2>5, <3>1
  <2>7. \A j \in 1 .. k : j \in owner(r) <=>
           RowsUpTo(M, j) <= x /\ x < RowsUpTo(M, j + 1)
    <3> SUFFICES ASSUME NEW j \in 1 .. k
                 PROVE  j \in owner(r) <=>
                          RowsUpTo(M, j) <= x /\ x < RowsUpTo(M, j + 1)
      OBVIOUS
    <3>1. j \in 1 .. k + 1
      OBVIOUS
    <3>2. /\ before(j) = RowsUpTo(M, j) /\ RowsUpTo(M, j) \in Nat
          /\ RowsUpTo(M, j + 1) = RowsUpTo(M, j) + segs[j].n
          /\ segs[j].n \in Nat
      BY <1>3, <1>7, <1>8, <3>1
    <3>3. j \in owner(r) <=> /\ fill + before(j) <= r
                             /\ r < fill + before(j) + segs[j].n
      BY <1>1, <1>3
    <3> DEFINE a == RowsUpTo(M, j)
               b == segs[j].n
    <3>4. /\ a \in Nat /\ b \in Nat /\ fill \in Nat /\ x \in Nat /\ r = fill + x
          /\ j \in owner(r) <=> fill + a <= r /\ r < fill + a + b
          /\ RowsUpTo(M, j + 1) = a + b
      BY <1>1, <2>5, <3>2, <3>3
    <3> HIDE DEF owner, a, b, fill
    <3>5. j \in owner(r) <=> a <= x /\ x < a + b
      BY <3>4
    <3> QED BY <3>4, <3>5 DEF a
  <2>8. owner(r) = {i}
    <3>1. \A j \in owner(r) : j \in 1 .. k
      BY <1>3
    <3> HIDE DEF owner
    <3> QED BY <2>5, <2>6, <2>7, <3>1
  <2> HIDE DEF owner, segs
  <2> QED BY <1>1, <1>6, <2>4, <2>8
<1>11. /\ \A i \in 1 .. m + k : N[i] \in Nat \ {0}
       /\ \A i \in 1 .. m + 1 : RowsUpTo(N, i) = RowsUpTo(L, i)
       /\ \A i \in 1 .. k + 1 : RowsUpTo(N, m + i) = fill + RowsUpTo(M, i)
  <2> HIDE DEF N, M, L
  <2>1. /\ \A i \in 1 .. m + k : N[i] \in Nat \ {0}
        /\ \A i \in 1 .. m + 1 : RowsUpTo(N, i) = RowsUpTo(L, i)
        /\ \A i \in 1 .. k + 1 :
              RowsUpTo(N, m + i) = RowsUpTo(L, m + 1) + RowsUpTo(M, i)
    <3>1. Behind(N, L, m, M, k)
      BY <1>3, <1>4, <1>5 DEF Behind
    <3> HIDE DEF m
    <3> QED BY <3>1, RowsBehind
  <2> QED BY <1>4, <2>1
<1>12. LensInv'
  <2>1. RowsUpTo(N, (m + k) + 1) = fill + n
    <3>1. k + 1 \in 1 .. k + 1 /\ m + (k + 1) = (m + k) + 1
      BY <1>4
    <3> QED BY <1>3, <1>11, <3>1
  <2> HIDE DEF N
  <2> QED BY <1>5, <1>6, <1>11, <2>1 DEF LensInv
<1>13. /\ HeldSamples = SamplesOf(segs) /\ HeldSamples' = {}
       /\ HeldSamples \subseteq buffer_samples
  BY DEF HeldSamples, BufferInv, RowsInv
<1>14. PICK own : SavedAs(own)
  BY <1>1 DEF BufferInv, RowsInv
<1>15. PICK all :
         all = [i \in 1 .. m + k |-> IF i <= m THEN own[i]
                                    ELSE segs[i - m].sample]
  OBVIOUS
<1>16. /\ \A i \in 1 .. m : i \in 1 .. m + k /\ all[i] = own[i]
       /\ \A i \in 1 .. k : m + i \in 1 .. m + k
                            /\ all[m + i] = segs[i].sample
       /\ \A i \in 1 .. m + k : i \in 1 .. m \/ \E j \in 1 .. k : i = m + j
       /\ all = [i \in 1 .. m + k |-> all[i]]
  <2>1. \A i \in 1 .. m : i \in 1 .. m + k /\ i <= m
    BY <1>4
  <2>2. \A i \in 1 .. k : m + i \in 1 .. m + k /\ ~(m + i <= m)
                          /\ (m + i) - m = i
    BY <1>4
  <2>3. ASSUME NEW i \in 1 .. m + k, ~(i \in 1 .. m)
        PROVE  \E j \in 1 .. k : i = m + j
    <3>1. i - m \in 1 .. k /\ i = m + (i - m)
      BY <1>4, <2>3
    <3> QED BY <3>1
  <2> HIDE DEF m, segs
  <2> QED BY <1>15, <2>1, <2>2, <2>3
<1>17. /\ \A i \in 1 .. m : own[i] \in buffer_samples \ HeldSamples
       /\ \A s \in buffer_samples \ HeldSamples : \E i \in 1 .. m : own[i] = s
       /\ \A i, j \in 1 .. m : i # j => own[i] # own[j]
       /\ \A i \in 1 .. m :
          \A r \in RowsUpTo(L, i) .. RowsUpTo(L, i + 1) - 1 : rows[r] = own[i]
  BY <1>14 DEF SavedAs
<1>18. \A i \in 1 .. k : segs[i].sample \in HeldSamples
  BY <1>3, <1>13 DEF SamplesOf
<1>19. \A s \in HeldSamples : \E i \in 1 .. k : segs[i].sample = s
  BY <1>3, <1>13 DEF SamplesOf
<1> HIDE DEF segs, N, M, L, m, fill
<1>20. \A i \in 1 .. m + k : all[i] \in buffer_samples
  <2> SUFFICES ASSUME NEW i \in 1 .. m + k PROVE all[i] \in buffer_samples
    OBVIOUS
  <2>1. CASE i \in 1 .. m
    BY <1>16, <1>17, <2>1
  <2>2. CASE i \notin 1 .. m
    <3>1. PICK j \in 1 .. k : i = m + j
      BY <1>16, <2>2
    <3>2. all[i] = segs[j].sample
      BY <1>16, <3>1
    <3> QED BY <1>13, <1>18, <3>2
  <2> QED BY <2>1, <2>2
<1>21. \A s \in buffer_samples : \E i \in 1 .. m + k : all[i] = s
  <2> SUFFICES ASSUME NEW s \in buffer_samples
               PROVE  \E i \in 1 .. m + k : all[i] = s
    OBVIOUS
  <2>1. CASE s \in HeldSamples
    BY <1>16, <1>19, <2>1
  <2>2. CASE s \notin HeldSamples
    BY <1>16, <1>17, <2>2
  <2> QED BY <2>1, <2>2
<1>22. ASSUME NEW i \in 1 .. m + k, NEW j \in 1 .. m + k, i # j
       PROVE  all[i] # all[j]
  <2>1. CASE i \in 1 .. m /\ j \in 1 .. m
    BY <1>16, <1>17, <1>22, <2>1
  <2>2. CASE i \in 1 .. m /\ j \notin 1 .. m
    <3>1. PICK b \in 1 .. k : j = m + b
      BY <1>16, <2>2
    <3>2. all[j] \in HeldSamples
      BY <1>16, <1>18, <3>1
    <3> QED BY <1>16, <1>17, <2>2, <3>2
  <2>3. CASE i \notin 1 .. m /\ j \in 1 .. m
    <3>1. PICK a \in 1 .. k : i = m + a
      BY <1>16, <2>3
    <3>2. all[i] \in HeldSamples
      BY <1>16, <1>18, <3>1
    <3> QED BY <1>16, <1>17, <2>3, <3>2
  <2>4. CASE i \notin 1 .. m /\ j \notin 1 .. m
    <3>1. PICK a \in 1 .. k : i = m + a
      BY <1>16, <2>4
    <3>2. PICK b \in 1 .. k : j = m + b
      BY <1>16, <2>4
    <3>3. a # b
      BY <1>22, <3>1, <3>2
    <3>4. segs[a].sample # segs[b].sample
      BY <1>2, <1>3, <3>3
    <3> QED BY <1>16, <3>1, <3>2, <3>4
  <2> QED BY <2>1, <2>2, <2>3, <2>4
<1>23. ASSUME NEW i \in 1 .. m + k,
              NEW r \in RowsUpTo(N, i) .. RowsUpTo(N, i + 1) - 1
       PROVE  rows'[r] = all[i]
  <2>1. CASE i \in 1 .. m
    <3>1. /\ i \in 1 .. m + 1 /\ i + 1 \in 1 .. m + 1 /\ m + 1 \in 1 .. m + 1
          /\ i + 1 <= m + 1
      BY <1>4, <2>1
    <3>2. /\ RowsUpTo(N, i) = RowsUpTo(L, i)
          /\ RowsUpTo(N, i + 1) = RowsUpTo(L, i + 1)
      BY <1>11, <3>1
    <3>3. RowsUpTo(L, i) \in Nat /\ RowsUpTo(L, i + 1) \in Nat
      BY <1>4, <3>1, RowsUpToNext
    <3>4. RowsUpTo(L, i + 1) <= fill
      BY <1>4, <3>1, RowsUpToGrow
    <3>5. r \in 0 .. fill - 1
      BY <1>1, <3>2, <3>3, <3>4
    <3>6. rows[r] = own[i]
      BY <1>17, <2>1, <3>2
    <3> QED BY <1>9, <1>16, <2>1, <3>5, <3>6
  <2>2. CASE i \notin 1 .. m
    <3>1. PICK j \in 1 .. k : i = m + j
      BY <1>16, <2>2
    <3>2. j \in 1 .. k + 1 /\ j + 1 \in 1 .. k + 1 /\ i + 1 = m + (j + 1)
      BY <1>4, <3>1
    <3>3. /\ RowsUpTo(N, i) = fill + RowsUpTo(M, j)
          /\ RowsUpTo(N, i + 1) = fill + RowsUpTo(M, j + 1)
      BY <1>11, <3>1, <3>2
    <3>4. r \in fill + RowsUpTo(M, j) .. (fill + RowsUpTo(M, j + 1)) - 1
      <4> DEFINE lo == RowsUpTo(N, i)
                 hi == RowsUpTo(N, i + 1)
      <4>1. r \in lo .. hi - 1
        OBVIOUS
      <4>2. lo = fill + RowsUpTo(M, j) /\ hi = fill + RowsUpTo(M, j + 1)
        BY <3>3
      <4> HIDE DEF lo, hi
      <4> QED BY <4>1, <4>2
    <3>5. rows'[r] = segs[j].sample
      BY <1>10, <3>4
    <3> QED BY <1>16, <3>1, <3>5
  <2> QED BY <2>1, <2>2
<1>24. SavedAs(all)'
  <2>1. buffer_samples' \ HeldSamples' = buffer_samples
    BY <1>6, <1>13
  <2>2. all \in [1 .. m + k -> buffer_samples]
    BY <1>16, <1>20
  <2>3. sample_lens' = N /\ Len(N) = m + k
    BY <1>5, <1>6
  <2> DEFINE B == buffer_samples' \ HeldSamples'
             K == sample_lens'
             R == rows'
  <2>4. /\ all \in [1 .. Len(K) -> B]
        /\ \A s \in B : \E i \in 1 .. Len(K) : all[i] = s
        /\ \A i, j \in 1 .. Len(K) : i # j => all[i] # all[j]
        /\ \A i \in 1 .. Len(K) :
           \A r \in RowsUpTo(K, i) .. RowsUpTo(K, i + 1) - 1 : R[r] = all[i]
    <3>1. B = buffer_samples /\ K = N /\ Len(K) = m + k
      BY <2>1, <2>3
    <3> HIDE DEF B, K
    <3> QED BY <1>21, <1>22, <1>23, <2>2, <3>1
  <2> QED BY <2>4 DEF SavedAs
<1>25. rows' = [r \in 0 .. Capacity - 1 |-> rows'[r]]
  <2>1. DOMAIN rows = 0 .. Capacity - 1
    BY <1>1
  <2> HIDE DEF owner
  <2> QED BY <1>6, <2>1
<1>26. ~zeroing'
  BY DEF BufferInv, RowsInv
<1>27. HeldSamples' \subseteq buffer_samples'
  BY <1>13
<1> QED BY <1>12, <1>24, <1>25, <1>26, <1>27 DEF RowsInv

\* _schedule_step puts a step of new samples behind the others, in rows that are
\* free, and only while the child does not have the buffer.
LEMMA ScheduledStep ==
  ASSUME PoolInv, QueuesInv, ScheduleStep
  PROVE  \E step :
           /\ IsSeq(batch_queue') /\ Len(batch_queue') = Len(batch_queue) + 1
           /\ batch_queue'[Len(batch_queue')] = step
           /\ \A i \in 1 .. Len(batch_queue) : batch_queue'[i] = batch_queue[i]
           /\ step.state = "scheduled" /\ step.off = C!CurrentOffset
           /\ step.n \in 0 .. C!Budget
           /\ \A i, j \in DOMAIN step.segs :
                 i # j => step.segs[i].sample # step.segs[j].sample
           /\ SamplesOf(step.segs) \intersect buffer_samples = {}
           /\ step.n = 0 => SamplesOf(step.segs) = {}
           /\ reserved_fill' = reserved_fill + step.n
           /\ buffer_samples' = buffer_samples \union SamplesOf(step.segs)
           /\ UNCHANGED <<fill_count, sample_lens, pending_backward, job>>
<1>1. PICK S \in Admissible : \E batch \in Batches(S) :
         \E tokens \in IF work = 0 THEN {Total(S)} ELSE 0 .. Total(S) :
            Schedules(S, batch, tokens)
  BY DEF ScheduleStep, StepOf, Schedules
<1>2. PICK batch \in Batches(S) :
         \E tokens \in IF work = 0 THEN {Total(S)} ELSE 0 .. Total(S) :
            Schedules(S, batch, tokens)
  BY <1>1
<1>3. PICK tokens \in IF work = 0 THEN {Total(S)} ELSE 0 .. Total(S) :
            Schedules(S, batch, tokens)
  BY <1>2
<1> DEFINE segs == Scheduled(batch, tokens)
           step == StepOf(segs, tokens)
           q == batch_queue
           p == batch_queue'
<1>4. /\ p = Append(q, step)
      /\ C!Inject(Total(S), NextLen(P!Claim(pool, S)), tokens, NextLen(pool'),
                  SamplesOf(segs))
  BY <1>3 DEF Schedules
<1>5. /\ S \in SUBSET Samples /\ S \in SUBSET (Samples \ buffer_samples)
      /\ Total(S) \in 0 .. C!Budget /\ tokens \in 0 .. Total(S)
      /\ tokens \in 0 .. C!Budget
  <2>1. /\ S \in SUBSET Samples /\ S \in SUBSET (Samples \ buffer_samples)
        /\ Total(S) \in 0 .. C!Budget
    BY AdmissibleFits DEF QueuesInv
  <2>2. tokens \in 0 .. Total(S)
    <3>1. Total(S) \in Nat
      BY <2>1, TotalOfBatch
    <3> QED BY <3>1
  <2>3. C!Budget \in Nat
    <3>1. Capacity \in Nat
      BY CoServingAssumption
    <3> QED BY <3>1 DEF C!Budget, C!SpaceRemaining, C!Monus, QueuesInv, CountInv
  <2> DEFINE b == C!Budget
             t == Total(S)
  <2>4. t \in 0 .. b /\ b \in Nat /\ tokens \in 0 .. t
    BY <2>1, <2>2, <2>3
  <2> HIDE DEF b, t
  <2>5. tokens \in 0 .. b
    BY <2>4
  <2> QED BY <2>1, <2>2, <2>5 DEF b
<1>6. /\ tokens > 0 <=> SamplesOf(segs) # {}
      /\ SamplesOf(segs) \subseteq S
  BY <1>5, ScheduledRows
<1>7. \A i, j \in DOMAIN segs : i # j => segs[i].sample # segs[j].sample
  <2>1. /\ DOMAIN segs \subseteq DOMAIN batch
        /\ \A i \in DOMAIN segs : segs[i].sample = batch[i]
    BY DEF Scheduled
  <2>2. \A i, j \in DOMAIN batch : i # j => batch[i] # batch[j]
    BY <1>5, BatchFacts
  <2> HIDE DEF segs
  <2> QED BY <2>1, <2>2
<1>8. /\ step.n = tokens /\ step.segs = segs /\ step.state = "scheduled"
      /\ step.off = C!CurrentOffset
  BY DEF StepOf
<1> HIDE DEF segs, step, q, p
<1>9. /\ IsSeq(p) /\ Len(p) = Len(q) + 1 /\ p[Len(p)] = step
      /\ \A i \in 1 .. Len(q) : p[i] = q[i]
  <2>1. IsSeq(q)
    BY DEF QueuesInv, QueueInv, q
  <2> QED BY <1>4, <2>1, AppendFacts
<1>10. /\ reserved_fill' = reserved_fill + tokens
       /\ buffer_samples' = buffer_samples \union SamplesOf(segs)
       /\ UNCHANGED <<fill_count, sample_lens, pending_backward, job>>
  BY <1>4 DEF C!Inject, C!backward_vars
<1>11. /\ SamplesOf(segs) \intersect buffer_samples = {}
       /\ tokens = 0 => SamplesOf(segs) = {}
  BY <1>5, <1>6
<1> HIDE DEF step
<1>12. /\ step.n \in 0 .. C!Budget
       /\ \A i, j \in DOMAIN step.segs :
             i # j => step.segs[i].sample # step.segs[j].sample
       /\ SamplesOf(step.segs) \intersect buffer_samples = {}
       /\ step.n = 0 => SamplesOf(step.segs) = {}
       /\ reserved_fill' = reserved_fill + step.n
       /\ buffer_samples' = buffer_samples \union SamplesOf(step.segs)
  BY <1>5, <1>7, <1>8, <1>10, <1>11
<1> QED BY <1>8, <1>9, <1>10, <1>12 DEF p, q

\* The samples of a step that is scheduled are not saved yet.
LEMMA ScheduleKeeps ==
  ASSUME Serial, PoolInv, QueuesInv, BufferInv, ScheduleStep
  PROVE  BufferInv'
<1> DEFINE q == batch_queue
           p == batch_queue'
           k == Len(q)
<1>1. PICK step :
        /\ IsSeq(p) /\ Len(p) = k + 1 /\ p[Len(p)] = step
        /\ \A i \in 1 .. k : p[i] = q[i]
        /\ step.state = "scheduled" /\ step.off = C!CurrentOffset
        /\ step.n \in 0 .. C!Budget
        /\ \A i, j \in DOMAIN step.segs :
              i # j => step.segs[i].sample # step.segs[j].sample
        /\ SamplesOf(step.segs) \intersect buffer_samples = {}
        /\ step.n = 0 => SamplesOf(step.segs) = {}
        /\ reserved_fill' = reserved_fill + step.n
        /\ buffer_samples' = buffer_samples \union SamplesOf(step.segs)
        /\ UNCHANGED <<fill_count, sample_lens, pending_backward, job>>
  BY ScheduledStep
<1>2. /\ pc = "admit" /\ pc' # "forward" /\ UNCHANGED <<setup, rows, zeroing>>
  BY DEF ScheduleStep, gpu_vars
<1>3. ~Holding /\ HeldSamples = {}
  <2>1. ~Holding
    BY <1>2, SerialSteps DEF Between, BufferInv
  <2> QED BY <2>1 DEF HeldSamples
<1>4. /\ fill_count \in Nat /\ Capacity \in Nat /\ reserved_fill = 0
      /\ fill_count <= Capacity
  BY <1>3, CoServingAssumption DEF BufferInv, ReserveInv, QueuesInv, CountInv
<1>5. /\ step.n \in Nat
      /\ step.n > 0 \/ step.n = 0
      /\ step.n > 0 => ~pending_backward
      /\ fill_count + step.n <= Capacity /\ step.off = fill_count
  <2>1. C!SpaceRemaining = Capacity - fill_count
    BY <1>4 DEF C!SpaceRemaining, C!Monus
  <2>2. /\ C!Budget \in 0 .. Capacity - fill_count
        /\ C!Budget > 0 => ~pending_backward
    BY <1>4, <2>1 DEF C!Budget
  <2>3. C!CurrentOffset = fill_count
    BY <1>4 DEF C!CurrentOffset
  <2> DEFINE b == C!Budget
             n == step.n
  <2>4. b \in 0 .. Capacity - fill_count /\ n \in 0 .. b
    BY <1>1, <2>2
  <2> HIDE DEF b, n
  <2>5. /\ n \in Nat /\ (n > 0 \/ n = 0) /\ (n > 0 => b > 0)
        /\ fill_count + n <= Capacity
    BY <1>4, <2>4
  <2> QED BY <1>1, <2>2, <2>3, <2>5 DEF b, n
<1>6. k \in Nat
  BY SeqFacts DEF QueuesInv, QueueInv
<1>7. Newest' = step
  BY <1>1 DEF Newest
<1>8. /\ Holding' <=> step.n > 0
      /\ HeldSamples' = SamplesOf(step.segs)
  <2>1. p # <<>>
    <3> HIDE DEF p, k
    <3>1. Len(p) # 0
      BY <1>1, <1>6
    <3> QED BY <1>1, <3>1, SeqFacts
  <2>2. Holding' <=> step.n > 0
    BY <1>1, <1>7, <2>1 DEF Holding, HoldsRows
  <2>3. HeldSamples' = IF step.n > 0 THEN SamplesOf(step.segs) ELSE {}
    BY <1>7, <2>2 DEF HeldSamples
  <2>4. step.n > 0 \/ step.n = 0
    BY <1>5
  <2> QED BY <1>1, <2>2, <2>3, <2>4
<1>9. StepsInv'
  <2>1. Interruptible' = Interruptible
    BY <1>2 DEF Interruptible
  <2>2. ASSUME NEW i \in 1 .. Len(p)
        PROVE  /\ \A a, b \in DOMAIN p[i].segs :
                     a # b => p[i].segs[a].sample # p[i].segs[b].sample
               /\ p[i].state = "aborted" => Interruptible
    <3>1. CASE i = Len(p)
      BY <1>1, <3>1
    <3>2. CASE i # Len(p)
      <4>1. i \in 1 .. k
        BY <1>1, <1>6, <3>2
      <4> QED BY <1>1, <4>1 DEF BufferInv, StepsInv
    <3> QED BY <3>1, <3>2
  <2> QED BY <1>2, <2>1, <2>2 DEF StepsInv
<1>10. ReserveInv'
  <2>1. reserved_fill' = step.n
    BY <1>1, <1>4, <1>5
  <2>2. step.n > 0 \/ step.n = 0
    BY <1>5
  <2>3. pending_backward' => ~Holding'
    BY <1>1, <1>5, <1>8
  <2>4. job' # "none" => pending_backward'
    BY <1>1 DEF BufferInv, ReserveInv
  <2>5. reserved_fill' = IF Holding' THEN Newest'.n ELSE 0
    BY <1>7, <1>8, <2>1, <2>2
  <2>6. fill_count' = fill_count
    BY <1>1
  <2> QED BY <1>5, <1>7, <2>1, <2>3, <2>4, <2>5, <2>6 DEF ReserveInv
<1>11. LensInv' /\ (job' # "ack" => (\E own : SavedAs(own))')
  <2>1. (buffer_samples \ HeldSamples)' = buffer_samples \ HeldSamples
    BY <1>1, <1>3, <1>8
  <2> QED BY <1>1, <1>2, <1>4, <2>1, SavedStays DEF BufferInv
<1>12. RowsInv'
  <2>1. HeldSamples' \subseteq buffer_samples'
    BY <1>1, <1>8
  <2> QED BY <1>2, <1>11, <2>1 DEF BufferInv, RowsInv
<1> QED BY <1>9, <1>10, <1>11, <1>12 DEF BufferInv

\* A step whose forward is over keeps what it was given.
LEMMA RanKeeps ==
  ASSUME QueuesInv, BufferInv, pc \in InStep, UNCHANGED setup,
         NEW state \in {"saved", "aborted"}, state = "aborted" => Interruptible,
         AfterExecute(Executed(state))
  PROVE  /\ StepsInv'
         /\ Newest'.n = Newest.n /\ Newest'.off = Newest.off
         /\ Newest'.segs = Newest.segs
         /\ Holding' <=> Newest.n > 0 /\ state = "aborted"
<1> DEFINE q == batch_queue
           k == Len(q)
           p == batch_queue'
           t == [q[k] EXCEPT !.state = state]
<1>1. /\ IsSeq(q) /\ k \in Nat /\ k > 0 /\ k \in 1 .. k /\ q # <<>>
      /\ DOMAIN q = 1 .. k /\ q = [i \in 1 .. k |-> q[i]]
      /\ IsStep(q[k])
  <2>1. IsSeq(q) /\ k > 0 /\ \A i \in 1 .. k : IsStep(q[i])
    BY DEF QueuesInv, QueueInv, ThreadInv, InStep, Between
  <2>2. /\ k \in Nat /\ q # <<>> /\ DOMAIN q = 1 .. k
        /\ q = [i \in 1 .. k |-> q[i]]
    BY <2>1, SeqFacts
  <2>3. k \in 1 .. k
    BY <2>1, <2>2
  <2> QED BY <2>1, <2>2, <2>3
<1>2. p = [q EXCEPT ![k] = t]
  BY DEF AfterExecute, Executed
<1>3. /\ t.n = q[k].n /\ t.off = q[k].off /\ t.segs = q[k].segs
      /\ t.state = state
  <2> DEFINE s == q[k]
  <2>1. s = [inf |-> s.inf, segs |-> s.segs, n |-> s.n, off |-> s.off,
             snap |-> s.snap, state |-> s.state]
    BY <1>1 DEF IsStep
  <2> HIDE DEF s
  <2>2. [s EXCEPT !.state = state] =
          [inf |-> s.inf, segs |-> s.segs, n |-> s.n, off |-> s.off,
           snap |-> s.snap, state |-> state]
    BY <2>1
  <2> QED BY <2>2 DEF s
<1> HIDE DEF t
<1>4. /\ p = [i \in 1 .. k |-> IF i = k THEN t ELSE q[i]]
  BY <1>1, <1>2
<1> HIDE DEF q, p
<1>5. /\ Len(p) = k /\ p # <<>> /\ p[k] = t
      /\ \A i \in 1 .. k : i # k => p[i] = q[i]
  <2>1. /\ p = [i \in 1 .. k |-> p[i]] /\ p[k] = t
        /\ \A i \in 1 .. k : i # k => p[i] = q[i]
    BY <1>1, <1>4
  <2> HIDE DEF k
  <2>2. IsSeq(p) /\ Len(p) = k
    BY <1>1, <2>1, FunctionIsSeq
  <2>3. p # <<>>
    BY <1>1, <2>2, SeqFacts
  <2> QED BY <2>1, <2>2, <2>3
<1>6. /\ Newest = q[k] /\ Newest' = t
  BY <1>5 DEF Newest, q, p
<1>7. /\ Newest'.n = Newest.n /\ Newest'.off = Newest.off
      /\ Newest'.segs = Newest.segs /\ Newest'.state = state
  BY <1>3, <1>6
<1>8. Holding' <=> Newest.n > 0 /\ state = "aborted"
  <2>1. Holding' <=> Newest'.n > 0 /\ Newest'.state # "saved"
    BY <1>5 DEF Holding, HoldsRows, p
  <2> QED BY <1>7, <2>1
<1>9. StepsInv'
  <2>1. ASSUME NEW i \in 1 .. k
        PROVE  /\ \A a, b \in DOMAIN q[i].segs :
                     a # b => q[i].segs[a].sample # q[i].segs[b].sample
               /\ q[i].state = "aborted" => Interruptible
    BY DEF BufferInv, StepsInv, q
  <2>2. ASSUME NEW i \in 1 .. k
        PROVE  /\ \A a, b \in DOMAIN p[i].segs :
                     a # b => p[i].segs[a].sample # p[i].segs[b].sample
               /\ p[i].state = "aborted" => Interruptible
    <3>1. CASE i = k
      BY <1>3, <1>5, <2>1, <3>1
    <3>2. CASE i # k
      BY <1>5, <2>1, <3>2
    <3> QED BY <3>1, <3>2
  <2>3. Interruptible' = Interruptible /\ pc' # "forward"
    BY DEF Interruptible, AfterExecute
  <2> QED BY <1>5, <2>2, <2>3 DEF StepsInv, p
<1> QED BY <1>7, <1>8, <1>9

\* A forward saves its rows, or zeroes no other step's.
LEMMA ForwardKeeps ==
  ASSUME Serial, QueuesInv, BufferInv,
         ExecuteModel \/ EnterForward \/ FinishForward
  PROVE  BufferInv'
<1> DEFINE s == Newest
<1>1. /\ pc \in {"exec", "forward"} /\ pc \in InStep
      /\ UNCHANGED <<setup, zeroing>>
  BY DEF ExecuteModel, EnterForward, FinishForward, InStep
<1>2. /\ Last(batch_queue) = s /\ s.n \in Nat
      /\ s.n > 0 \/ s.n = 0
  <2>1. IsSeq(batch_queue) /\ Len(batch_queue) > 0
    BY <1>1 DEF QueuesInv, QueueInv, ThreadInv, InStep, Between
  <2>2. Last(batch_queue) = s /\ Len(batch_queue) \in 1 .. Len(batch_queue)
    <3>1. batch_queue # <<>> /\ Len(batch_queue) \in Nat
      BY <2>1, SeqFacts
    <3> QED BY <2>1, <3>1, SeqFacts DEF Newest
  <2>3. RowsFit(s)
    BY <2>2 DEF QueuesInv, QueueInv, Newest
  <2> QED BY <2>2, <2>3 DEF RowsFit
<1>3. Holding <=> s.n > 0
  BY <1>1, SerialSteps DEF BufferInv
<1>4. /\ fill_count \in Nat /\ reserved_fill \in Nat /\ Capacity \in Nat
      /\ fill_count + reserved_fill <= Capacity
      /\ reserved_fill = IF Holding THEN s.n ELSE 0
      /\ Holding => s.off = fill_count /\ ~pending_backward /\ job = "none"
      /\ job # "none" => pending_backward
  BY CoServingAssumption DEF BufferInv, ReserveInv, QueuesInv, CountInv
<1>5. CASE /\ s.n > 0 /\ SaveRows(s) /\ AfterExecute(Executed("saved"))
  <2>1. StepsInv' /\ ~Holding'
    BY <1>1, <1>5, RanKeeps
  <2>2. LensInv' /\ RowsInv'
    BY <1>1, <1>3, <1>5, <2>1, SavesBehind
  <2>3. /\ fill_count' = fill_count + s.n
        /\ reserved_fill' = C!Monus(reserved_fill, s.n)
        /\ \/ C!TriggerBackward
           \/ UNCHANGED <<pending_backward, job>>
    BY <1>5 DEF SaveRows, Capture, C!RecordCapture, C!backward_vars
  <2>4. reserved_fill' = 0 /\ fill_count' + 0 <= Capacity
    BY <1>2, <1>3, <1>4, <1>5, <2>3 DEF C!Monus
  <2>5. job' # "none" => pending_backward'
    BY <1>4, <2>3 DEF C!TriggerBackward
  <2>6. ReserveInv'
    BY <2>1, <2>4, <2>5 DEF ReserveInv
  <2> QED BY <2>1, <2>2, <2>6 DEF BufferInv
<1>6. CASE /\ s.n = 0 /\ UNCHANGED <<rows, coord_vars>>
           /\ AfterExecute(Executed("saved"))
  <2>1. StepsInv' /\ ~Holding' /\ ~Holding
    BY <1>1, <1>3, <1>6, RanKeeps
  <2>2. UNCHANGED <<fill_count, reserved_fill, sample_lens, buffer_samples,
                    pending_backward, job>>
    BY <1>6 DEF coord_vars
  <2>3. HeldSamples = {} /\ HeldSamples' = {}
    BY <2>1 DEF HeldSamples
  <2>4. ReserveInv'
    BY <1>4, <2>1, <2>2 DEF ReserveInv
  <2>5. LensInv' /\ (job' # "ack" => (\E own : SavedAs(own))')
    BY <1>4, <1>6, <2>2, <2>3, SavedStays DEF BufferInv
  <2>6. RowsInv'
    BY <1>1, <1>6, <2>2, <2>3, <2>5 DEF BufferInv, RowsInv
  <2> QED BY <2>1, <2>4, <2>5, <2>6 DEF BufferInv
<1>7. CASE /\ s.n > 0 /\ Interruptible /\ ZeroRows(s) /\ UNCHANGED coord_vars
           /\ AfterExecute(Executed("aborted"))
  <2>1. /\ StepsInv' /\ Holding' /\ Holding
        /\ Newest'.n = s.n /\ Newest'.off = s.off /\ Newest'.segs = s.segs
    BY <1>1, <1>3, <1>7, RanKeeps
  <2>2. UNCHANGED <<fill_count, reserved_fill, sample_lens, buffer_samples,
                    pending_backward, job>>
    BY <1>7 DEF coord_vars
  <2>3. HeldSamples' = HeldSamples
    BY <2>1 DEF HeldSamples
  <2>4. ReserveInv'
    BY <1>4, <2>1, <2>2 DEF ReserveInv
  <2>5. /\ rows = [r \in 0 .. Capacity - 1 |-> rows[r]]
        /\ rows' = [r \in DOMAIN rows |->
                      IF s.off <= r /\ r < s.off + s.n THEN Zero ELSE rows[r]]
    BY <1>7 DEF ZeroRows, BufferInv, RowsInv
  <2>6. \A r \in 0 .. fill_count - 1 : rows'[r] = rows[r]
    <3> SUFFICES ASSUME NEW r \in 0 .. fill_count - 1 PROVE rows'[r] = rows[r]
      OBVIOUS
    <3>1. ~(s.off <= r) /\ r \in 0 .. Capacity - 1
      BY <1>4, <2>1
    <3>2. r \in DOMAIN rows
      BY <2>5, <3>1
    <3> HIDE DEF s
    <3> QED BY <2>5, <3>1, <3>2
  <2>7. rows' = [r \in 0 .. Capacity - 1 |-> rows'[r]]
    <3>1. DOMAIN rows = 0 .. Capacity - 1
      BY <2>5
    <3> HIDE DEF s
    <3> QED BY <2>5, <3>1
  <2>8. LensInv' /\ (job' # "ack" => (\E own : SavedAs(own))')
    BY <1>4, <2>2, <2>3, <2>6, SavedStays DEF BufferInv
  <2>9. RowsInv'
    BY <1>1, <2>2, <2>3, <2>7, <2>8 DEF BufferInv, RowsInv
  <2> QED BY <2>1, <2>4, <2>8, <2>9 DEF BufferInv
<1>8. CASE /\ Interruptible /\ UNCHANGED <<coord_vars, batch_queue, rows>>
  <2>1. UNCHANGED <<fill_count, reserved_fill, sample_lens, buffer_samples,
                    pending_backward, job>>
    BY <1>8 DEF coord_vars
  <2>2. Newest' = Newest /\ Holding' = Holding /\ HeldSamples' = HeldSamples
    BY <1>8 DEF Newest, Holding, HeldSamples
  <2>3. StepsInv'
    <3>1. Interruptible' = Interruptible
      BY <1>1 DEF Interruptible
    <3> QED BY <1>8, <3>1 DEF BufferInv, StepsInv
  <2>4. ReserveInv'
    BY <1>4, <2>1, <2>2 DEF ReserveInv
  <2>5. LensInv' /\ (job' # "ack" => (\E own : SavedAs(own))')
    BY <1>4, <1>8, <2>1, <2>2, SavedStays DEF BufferInv
  <2>6. RowsInv'
    BY <1>1, <1>8, <2>1, <2>2, <2>5 DEF BufferInv, RowsInv
  <2> QED BY <2>3, <2>4, <2>5, <2>6 DEF BufferInv
<1>9. CASE ExecuteModel
  BY <1>2, <1>5, <1>6, <1>9 DEF ExecuteModel
<1>10. CASE EnterForward
  <2>1. s.n > 0 /\ UNCHANGED coord_vars /\ Interruptible
    BY <1>2, <1>10 DEF EnterForward, FtOnly
  <2>2. \/ ZeroRows(s) /\ AfterExecute(Executed("aborted"))
        \/ UNCHANGED <<batch_queue, rows>>
    BY <1>2, <1>10 DEF EnterForward
  <2> QED BY <1>7, <1>8, <2>1, <2>2
<1>11. CASE FinishForward
  <2>1. s.n > 0 /\ Interruptible
    BY <1>11
    DEF FinishForward, BufferInv, StepsInv, QueuesInv, ThreadInv, Newest
  <2>2. \/ SaveRows(s) /\ AfterExecute(Executed("saved"))
        \/ /\ ZeroRows(s) /\ AfterExecute(Executed("aborted"))
           /\ UNCHANGED coord_vars
    BY <1>2, <1>11 DEF FinishForward
  <2> QED BY <1>5, <1>7, <2>1, <2>2
<1> QED BY <1>9, <1>10, <1>11

\* A rollback gives up the only rows that are reserved.
LEMMA RollbackKeeps ==
  ASSUME QueuesInv, BufferInv, Holding, RollbackFtStep(Newest), ~Holding',
         StepsInv', UNCHANGED <<rows, zeroing>>
  PROVE  BufferInv'
<1> DEFINE s == Newest
<1>1. /\ fill_count \in Nat /\ Capacity \in Nat
      /\ fill_count + reserved_fill <= Capacity /\ reserved_fill = s.n
      /\ reserved_fill \in Nat
      /\ job # "none" => pending_backward
  BY CoServingAssumption DEF BufferInv, ReserveInv, QueuesInv, CountInv
<1>2. /\ reserved_fill' = C!Monus(reserved_fill, s.n)
      /\ buffer_samples' = buffer_samples \ SamplesOf(s.segs)
      /\ UNCHANGED <<fill_count, sample_lens, pending_backward, job>>
  BY DEF RollbackFtStep, C!Rollback, C!backward_vars
<1>3. HeldSamples = SamplesOf(s.segs) /\ HeldSamples' = {}
  BY DEF HeldSamples
<1>4. ReserveInv'
  <2>1. reserved_fill' = 0
    BY <1>1, <1>2 DEF C!Monus
  <2> HIDE DEF s
  <2>2. fill_count' + 0 <= Capacity
    BY <1>1, <1>2
  <2> QED BY <1>1, <1>2, <2>1, <2>2 DEF ReserveInv
<1>5. LensInv' /\ (job' # "ack" => (\E own : SavedAs(own))')
  <2>1. (buffer_samples \ HeldSamples)' = buffer_samples \ HeldSamples
    BY <1>2, <1>3
  <2> QED BY <1>1, <1>2, <2>1, SavedStays DEF BufferInv
<1>6. RowsInv'
  BY <1>3, <1>5 DEF BufferInv, RowsInv
<1> QED BY <1>4, <1>5, <1>6 DEF BufferInv

\* What is left of a queue without its first or its last step.
LEMMA FewerSteps ==
  ASSUME QueuesInv, BufferInv, UNCHANGED setup, pc' # "forward",
         batch_queue # <<>>,
         batch_queue' = Tail(batch_queue) \/ batch_queue' = Front(batch_queue)
  PROVE  StepsInv'
<1> DEFINE q == batch_queue
           p == batch_queue'
           k == Len(q)
<1>1. IsSeq(q) /\ k \in Nat /\ q # <<>>
  BY SeqFacts DEF QueuesInv, QueueInv
<1>2. /\ Len(p) = k - 1
      /\ \A i \in 1 .. k - 1 : p[i] = q[i + 1] \/ p[i] = q[i]
  <2>1. /\ Len(Tail(q)) = k - 1 /\ \A i \in 1 .. k - 1 : Tail(q)[i] = q[i + 1]
        /\ Len(Front(q)) = k - 1 /\ \A i \in 1 .. k - 1 : Front(q)[i] = q[i]
    BY <1>1, TailFacts
  <2>2. p = Tail(q) \/ p = Front(q)
    OBVIOUS
  <2> HIDE DEF p, q
  <2> QED BY <2>1, <2>2
<1>3. \A i \in 1 .. k :
         /\ \A a, b \in DOMAIN q[i].segs :
               a # b => q[i].segs[a].sample # q[i].segs[b].sample
         /\ q[i].state = "aborted" => Interruptible
  BY DEF BufferInv, StepsInv
<1> HIDE DEF p, q
<1>4. \A i \in 1 .. k - 1 : \E j \in 1 .. k : p[i] = q[j]
  <2>1. \A i \in 1 .. k - 1 : i \in 1 .. k /\ i + 1 \in 1 .. k
    BY <1>1
  <2> HIDE DEF k
  <2> QED BY <1>2, <2>1
<1>5. \A i \in 1 .. Len(p) :
         /\ \A a, b \in DOMAIN p[i].segs :
               a # b => p[i].segs[a].sample # p[i].segs[b].sample
         /\ p[i].state = "aborted" => Interruptible
  <2> SUFFICES ASSUME NEW i \in 1 .. Len(p)
               PROVE  /\ \A a, b \in DOMAIN p[i].segs :
                            a # b => p[i].segs[a].sample # p[i].segs[b].sample
                      /\ p[i].state = "aborted" => Interruptible
    OBVIOUS
  <2>1. PICK j \in 1 .. k : p[i] = q[j]
    BY <1>2, <1>4
  <2> QED BY <1>3, <2>1
<1>6. Interruptible' = Interruptible
  BY DEF Interruptible
<1> QED BY <1>5, <1>6 DEF StepsInv, p

\* Tier B undoes the step it has just scheduled, whose rows are not saved.
LEMMA TierBKeeps ==
  ASSUME Serial, QueuesInv, BufferInv, TierB
  PROVE  BufferInv'
<1> DEFINE q == batch_queue
           k == Len(q)
<1>1. /\ pc = "pending" /\ pc \in InStep /\ pc' # "forward"
      /\ UNCHANGED <<setup, rows, zeroing>>
  BY DEF TierB, InStep, gpu_vars
<1>2. /\ IsSeq(q) /\ k \in Nat /\ k > 0 /\ q # <<>> /\ Last(q) = Newest
      /\ Newest.n > 0
  <2>1. IsSeq(q) /\ k > 0 /\ Newest.n > 0
    BY <1>1 DEF QueuesInv, QueueInv, ThreadInv, InStep, Between, Newest
  <2>2. k \in Nat /\ q # <<>>
    BY <2>1, SeqFacts
  <2> QED BY <2>1, <2>2, SeqFacts DEF Newest
<1>3. /\ Holding
      /\ \A i \in 1 .. k : i < k => q[i].state = "saved"
  BY <1>1, <1>2, SerialSteps DEF BufferInv
<1>4. CASE input_queue = <<>>
  <2>1. UNCHANGED <<fill_count, reserved_fill, sample_lens, buffer_samples,
                    pending_backward, job, batch_queue>>
    BY <1>4 DEF TierB, coord_vars
  <2>2. Newest' = Newest /\ Holding' = Holding /\ HeldSamples' = HeldSamples
    BY <2>1 DEF Newest, Holding, HeldSamples
  <2>3. StepsInv'
    <3>1. Interruptible' = Interruptible
      BY <1>1 DEF Interruptible
    <3> QED BY <1>1, <2>1, <3>1 DEF BufferInv, StepsInv
  <2>4. ReserveInv'
    BY <2>1, <2>2 DEF BufferInv, ReserveInv
  <2>5. LensInv' /\ (job' # "ack" => (\E own : SavedAs(own))')
    BY <1>1, <2>1, <2>2, SavedStays DEF BufferInv, QueuesInv, CountInv
  <2>6. RowsInv'
    BY <1>1, <2>1, <2>2, <2>5 DEF BufferInv, RowsInv
  <2> QED BY <2>3, <2>4, <2>5, <2>6 DEF BufferInv
<1>5. CASE input_queue # <<>>
  <2>1. RollbackFtStep(Newest) /\ batch_queue' = Front(q)
    BY <1>2, <1>5 DEF TierB
  <2>2. ~Holding'
    <3> DEFINE p == batch_queue'
    <3>1. /\ IsSeq(p) /\ Len(p) = k - 1 /\ \A i \in 1 .. k - 1 : p[i] = q[i]
      <4>1. /\ IsSeq(Front(q)) /\ Len(Front(q)) = k - 1
            /\ \A i \in 1 .. k - 1 : Front(q)[i] = q[i]
        BY <1>2, TailFacts
      <4> QED BY <2>1, <4>1
    <3>2. ASSUME p # <<>> PROVE p[Len(p)].state = "saved"
      <4>1. Len(p) # 0 /\ Len(p) \in Nat
        <5> HIDE DEF p
        <5> QED BY <3>1, <3>2, SeqFacts
      <4>2. k - 1 \in 1 .. k - 1 /\ k - 1 \in 1 .. k /\ k - 1 < k
        BY <1>2, <3>1, <4>1
      <4> QED BY <1>3, <3>1, <4>2
    <3> QED BY <3>2 DEF Holding, HoldsRows, Newest
  <2>3. StepsInv'
    BY <1>1, <1>2, <2>1, FewerSteps
  <2> QED BY <1>1, <1>3, <2>1, <2>2, <2>3, RollbackKeeps
<1> QED BY <1>4, <1>5

\* An aborted step is the only one, and the rows it was to save are given up.
LEMMA UpdateKeeps ==
  ASSUME Serial, QueuesInv, BufferInv, UpdateFromOutput
  PROVE  BufferInv'
<1> DEFINE q == batch_queue
           p == batch_queue'
           k == Len(q)
<1>1. /\ pc = "update" /\ pc' # "forward" /\ p = Tail(q)
      /\ UNCHANGED <<setup, rows, zeroing>>
  BY DEF UpdateFromOutput, gpu_vars
<1>2. IsSeq(q) /\ k \in Nat /\ k > 0 /\ q # <<>> /\ Head(q) = q[1]
  <2>1. IsSeq(q) /\ k > 0
    BY <1>1 DEF QueuesInv, QueueInv, ThreadInv, InStep, Between
  <2>2. k \in Nat /\ q # <<>>
    BY <2>1, SeqFacts
  <2> QED BY <2>1, <2>2, SeqFacts
<1>3. /\ \A i \in 1 .. k : i < k => q[i].state = "saved"
      /\ IF Newest.state = "aborted" THEN k = 1 /\ Holding
         ELSE Newest.state = "saved" /\ ~Holding
  BY <1>1, SerialSteps DEF BufferInv
<1>4. /\ IsSeq(p) /\ Len(p) = k - 1 /\ \A i \in 1 .. k - 1 : p[i] = q[i + 1]
      /\ p = <<>> <=> k - 1 = 0
  <2>1. /\ IsSeq(Tail(q)) /\ Len(Tail(q)) = k - 1
        /\ \A i \in 1 .. k - 1 : Tail(q)[i] = q[i + 1]
    BY <1>2, TailFacts
  <2>2. /\ IsSeq(p) /\ Len(p) = k - 1 /\ \A i \in 1 .. k - 1 : p[i] = q[i + 1]
    BY <1>1, <2>1
  <2> HIDE DEF p
  <2>3. p = <<>> <=> Len(p) = 0
    BY <2>2, SeqFacts
  <2> QED BY <2>2, <2>3
<1>5. StepsInv'
  BY <1>1, <1>2, FewerSteps
<1>6. CASE Newest.state = "aborted"
  <2>1. k = 1 /\ Holding /\ q[1] = Newest
    BY <1>3, <1>6 DEF Newest
  <2>2. RollbackFtStep(Newest)
    BY <1>2, <1>6, <2>1 DEF UpdateFromOutput
  <2>3. ~Holding'
    BY <1>4, <2>1 DEF Holding
  <2> QED BY <1>1, <1>5, <2>1, <2>2, <2>3, RollbackKeeps
<1>7. CASE Newest.state # "aborted"
  <2>1. Newest.state = "saved" /\ ~Holding
    BY <1>3, <1>7
  <2>2. Head(q).state = "saved"
    <3>1. 1 \in 1 .. k /\ (1 = k \/ 1 < k)
      <4>1. k \in Nat /\ k > 0
        BY <1>2
      <4> HIDE DEF k
      <4> QED BY <4>1
    <3>2. CASE 1 < k
      BY <1>2, <1>3, <3>1, <3>2
    <3>3. CASE 1 = k
      BY <1>2, <2>1, <3>3 DEF Newest
    <3> QED BY <3>1, <3>2, <3>3
  <2>3. UNCHANGED <<fill_count, reserved_fill, sample_lens, buffer_samples,
                    pending_backward, job>>
    BY <2>2 DEF UpdateFromOutput, coord_vars
  <2>4. ~Holding'
    <3>1. ASSUME p # <<>> PROVE p[Len(p)].state = "saved"
      <4>1. k - 1 \in 1 .. k - 1 /\ (k - 1) + 1 = k
        BY <1>2, <1>4, <3>1
      <4>2. p[k - 1] = q[k]
        BY <1>4, <4>1
      <4> QED BY <1>4, <2>1, <4>2 DEF Newest
    <3> QED BY <3>1 DEF Holding, HoldsRows, Newest
  <2>5. HeldSamples = {} /\ HeldSamples' = {}
    BY <2>1, <2>4 DEF HeldSamples
  <2>6. ReserveInv'
    BY <2>1, <2>3, <2>4 DEF BufferInv, ReserveInv
  <2>7. LensInv' /\ (job' # "ack" => (\E own : SavedAs(own))')
    BY <1>1, <2>3, <2>5, SavedStays DEF BufferInv, QueuesInv, CountInv
  <2>8. RowsInv'
    BY <1>1, <2>3, <2>5, <2>7 DEF BufferInv, RowsInv
  <2> QED BY <1>5, <2>6, <2>7, <2>8 DEF BufferInv
<1> QED BY <1>6, <1>7

\* The ack empties the buffer; what else the poll does leaves the rows alone.
LEMMA PollKeeps ==
  ASSUME Serial, QueuesInv, BufferInv, PollBackward
  PROVE  BufferInv'
<1>1. /\ pc = "poll" /\ pc' # "forward"
      /\ UNCHANGED <<setup, batch_queue, rows, zeroing>>
  BY DEF PollBackward, gpu_vars
<1>2. ~Holding /\ HeldSamples = {}
  <2>1. ~Holding
    BY <1>1, SerialSteps DEF Between, BufferInv
  <2> QED BY <2>1 DEF HeldSamples
<1>3. ~Holding' /\ HeldSamples' = {}
  BY <1>1, <1>2 DEF Holding, HeldSamples, Newest
<1>4. StepsInv'
  <2>1. Interruptible' = Interruptible
    BY <1>1 DEF Interruptible
  <2> QED BY <1>1, <2>1 DEF BufferInv, StepsInv
<1>5. /\ fill_count \in Nat /\ Capacity \in Nat /\ reserved_fill = 0
      /\ fill_count <= Capacity
  BY <1>2, CoServingAssumption DEF BufferInv, ReserveInv, QueuesInv, CountInv
<1>6. CASE C!TakeAck
  <2>1. /\ fill_count' = 0 /\ reserved_fill' = 0 /\ sample_lens' = <<>>
        /\ buffer_samples' = {} /\ job' = "none"
    BY <1>6 DEF C!TakeAck
  <2>2. ReserveInv'
    BY <1>3, <1>5, <2>1 DEF ReserveInv
  <2>3. LensInv'
    <3>1. IsSeq(<<>>) /\ Len(<<>>) = 0
      BY DEF IsSeq
    <3>2. RowsUpTo(<<>>, 0 + 1) = 0
      <4>1. 1 .. (0 + 1) - 1 = {}
        OBVIOUS
      <4> QED BY <4>1, FS_EmptySet, SumRec DEF RowsUpTo
    <3> QED BY <2>1, <3>1, <3>2 DEF LensInv
  <2>4. SavedAs(<<>>)'
    <3>1. <<>> \in [1 .. 0 -> {}] /\ 1 .. 0 = {} /\ Len(<<>>) = 0
      OBVIOUS
    <3>2. buffer_samples' \ HeldSamples' = {}
      BY <1>3, <2>1
    <3> QED BY <2>1, <3>1, <3>2 DEF SavedAs
  <2>5. RowsInv'
    BY <1>1, <1>3, <2>4 DEF BufferInv, RowsInv
  <2> QED BY <1>4, <2>2, <2>3, <2>5 DEF BufferInv
<1>7. CASE ~C!TakeAck
  <2>1. /\ UNCHANGED <<fill_count, reserved_fill, sample_lens, buffer_samples>>
        /\ \/ UNCHANGED <<pending_backward, job>>
           \/ ~pending_backward /\ pending_backward'
              /\ (job' = "work" \/ job' = job)
    BY <1>7 DEF PollBackward, C!DisableStuck, C!TryEpochFlush, C!CanFlush,
                C!TriggerBackward, C!buffer_vars, C!backward_vars, coord_vars
  <2>2. job # "none" => pending_backward
    BY DEF BufferInv, ReserveInv
  <2>3. /\ job' # "none" => pending_backward'
        /\ job' # "ack" => job # "ack"
    BY <2>1, <2>2
  <2>4. ReserveInv'
    BY <1>3, <1>5, <2>1, <2>3 DEF ReserveInv
  <2>5. LensInv' /\ (job' # "ack" => (\E own : SavedAs(own))')
    BY <1>1, <1>2, <1>3, <1>5, <2>1, <2>3, SavedStays DEF BufferInv
  <2>6. RowsInv'
    BY <1>1, <1>3, <2>5 DEF BufferInv, RowsInv
  <2> QED BY <1>4, <2>4, <2>5, <2>6 DEF BufferInv
<1> QED BY <1>6, <1>7

\* The child zeroes the rows of the samples it has just read, before it answers.
LEMMA AckKeeps ==
  ASSUME Punctual, QueuesInv, BufferInv, ProcessActivations
  PROVE  BufferInv'
<1>1. /\ pc' = pc /\ UNCHANGED <<setup, batch_queue, zeroing>>
      /\ UNCHANGED <<fill_count, reserved_fill, sample_lens, buffer_samples,
                     pending_backward>>
      /\ job = "work" /\ job' = "ack"
      /\ rows' = [r \in DOMAIN rows |-> Zero]
  BY DEF ProcessActivations, Punctual, C!ChildAck, C!buffer_vars, engine_vars
<1>2. Newest' = Newest /\ Holding' = Holding /\ HeldSamples' = HeldSamples
  BY <1>1 DEF Newest, Holding, HeldSamples
<1>3. StepsInv'
  <2>1. Interruptible' = Interruptible
    BY <1>1 DEF Interruptible
  <2> QED BY <1>1, <2>1 DEF BufferInv, StepsInv
<1>4. ReserveInv'
  BY <1>1, <1>2 DEF BufferInv, ReserveInv
<1>5. LensInv'
  BY <1>1 DEF BufferInv, LensInv
<1>6. RowsInv'
  <2>1. rows' = [r \in 0 .. Capacity - 1 |-> rows'[r]]
    <3>1. DOMAIN rows = 0 .. Capacity - 1
      BY DEF BufferInv, RowsInv
    <3> QED BY <1>1, <3>1
  <2> QED BY <1>1, <1>2, <2>1 DEF BufferInv, RowsInv
<1> QED BY <1>3, <1>4, <1>5, <1>6 DEF BufferInv

\* The rest leaves the rows and the queue alone.
LEMMA OthersKeep ==
  ASSUME Serial, QueuesInv, BufferInv,
         \/ InputThread \/ HandleRequest \/ BeginStep \/ Drained \/ CheckRps
         \/ AdvanceEpoch \/ ZeroFillLands \/ ChildDie \/ Time
         \/ UNCHANGED vars
  PROVE  BufferInv'
<1>1. ~ZeroFillLands
  BY DEF ZeroFillLands, BufferInv, RowsInv
<1>2. /\ UNCHANGED <<setup, batch_queue, rows, zeroing>>
      /\ UNCHANGED <<fill_count, reserved_fill, sample_lens, buffer_samples,
                     pending_backward>>
      /\ pc' = pc \/ pc' # "forward"
      /\ job' = job \/ (job' = "none" /\ job = "work")
  <2>1. CASE \/ InputThread \/ BeginStep \/ Drained \/ AdvanceEpoch
             \/ RateDecays \/ UNCHANGED vars
    BY <2>1 DEF InputThread, PutInput, CheckInFlight, SetAbort, BeginStep,
                Drained, AdvanceEpoch, RateDecays, vars, coord_vars,
                engine_vars, gpu_vars
  <2>2. CASE HandleRequest
    BY <2>2 DEF HandleRequest, C!StartFinetuning, C!StopFinetuning, coord_vars,
                C!buffer_vars, C!backward_vars, gpu_vars
  <2>3. CASE CheckRps
    BY <2>3 DEF CheckRps, C!CheckRpsThrottle, C!buffer_vars, C!backward_vars,
                gpu_vars
  <2>4. CASE ChildDie
    BY <2>4 DEF ChildDie, C!ChildDie, C!buffer_vars, engine_vars, gpu_vars
  <2>5. CASE Tick
    BY <2>5 DEF Tick, C!Tick, C!buffer_vars, engine_vars, gpu_vars
  <2> QED BY <1>1, <2>1, <2>2, <2>3, <2>4, <2>5 DEF Time
<1>3. Newest' = Newest /\ Holding' = Holding /\ HeldSamples' = HeldSamples
  BY <1>2 DEF Newest, Holding, HeldSamples
<1>4. StepsInv'
  <2>1. Interruptible' = Interruptible
    BY <1>2 DEF Interruptible
  <2> QED BY <1>2, <2>1 DEF BufferInv, StepsInv
<1>5. ReserveInv'
  BY <1>2, <1>3 DEF BufferInv, ReserveInv
<1>6. LensInv' /\ (job' # "ack" => (\E own : SavedAs(own))')
  BY <1>2, <1>3, SavedStays DEF BufferInv, QueuesInv, CountInv
<1>7. RowsInv'
  BY <1>2, <1>3, <1>6 DEF BufferInv, RowsInv
<1> QED BY <1>4, <1>5, <1>6, <1>7 DEF BufferInv

\* The buffer starts empty.
LEMMA InitBufferInv == Init => BufferInv
<1> SUFFICES ASSUME Init PROVE BufferInv
  OBVIOUS
<1>1. /\ batch_queue = <<>> /\ pc = "top" /\ ~zeroing
      /\ fill_count = 0 /\ reserved_fill = 0 /\ sample_lens = <<>>
      /\ buffer_samples = {} /\ job = "none"
      /\ rows = [r \in 0 .. Capacity - 1 |-> Zero]
  BY DEF Init, C!Init
<1>2. IsSeq(<<>>) /\ Len(<<>>) = 0 /\ 1 .. 0 = {} /\ <<>> \in [1 .. 0 -> {}]
  BY DEF IsSeq
<1>3. ~Holding /\ HeldSamples = {}
  BY <1>1 DEF Holding, HeldSamples
<1>4. StepsInv
  BY <1>1, <1>2 DEF StepsInv
<1>5. ReserveInv
  <2>1. Capacity \in Nat
    BY CoServingAssumption
  <2> QED BY <1>1, <1>3, <2>1 DEF ReserveInv
<1>6. LensInv
  <2>1. RowsUpTo(<<>>, 0 + 1) = 0
    <3>1. 1 .. (0 + 1) - 1 = {}
      OBVIOUS
    <3> QED BY <3>1, FS_EmptySet, SumRec DEF RowsUpTo
  <2> QED BY <1>1, <1>2, <2>1 DEF LensInv
<1>7. RowsInv
  <2>1. SavedAs(<<>>)
    BY <1>1, <1>2, <1>3 DEF SavedAs
  <2>2. rows = [r \in 0 .. Capacity - 1 |-> rows[r]]
    BY <1>1
  <2> QED BY <1>1, <1>3, <2>1, <2>2 DEF RowsInv
<1> QED BY <1>4, <1>5, <1>6, <1>7 DEF BufferInv

\* Every step keeps the rows as they should be.
LEMMA NextBufferInv ==
  ASSUME Serial, Punctual, PoolInv, QueuesInv, BufferInv, [Next]_vars
  PROVE  BufferInv'
<1>1. CASE ScheduleStep
  BY <1>1, ScheduleKeeps
<1>2. CASE TierB
  BY <1>2, TierBKeeps
<1>3. CASE ExecuteModel \/ EnterForward \/ FinishForward
  BY <1>3, ForwardKeeps
<1>4. CASE UpdateFromOutput
  BY <1>4, UpdateKeeps
<1>5. CASE PollBackward
  BY <1>5, PollKeeps
<1>6. CASE ProcessActivations
  BY <1>6, AckKeeps
<1>7. CASE \/ InputThread \/ HandleRequest \/ BeginStep \/ Drained \/ CheckRps
           \/ AdvanceEpoch \/ ZeroFillLands \/ ChildDie \/ Time
           \/ UNCHANGED vars
  BY <1>7, OthersKeep
<1> QED BY <1>1, <1>2, <1>3, <1>4, <1>5, <1>6, <1>7
        DEF Next, EngineThread, Child

-----------------------------------------------------------------------------
(***************************************************************************)
(* What the child reads, and what the ack commits.                         *)
(***************************************************************************)
\* When the child has the work, every row it will read is the saved row of a
\* sample in the buffer, and each of those has its rows.
LEMMA WorkReadsSaved ==
  ASSUME QueuesInv, BufferInv, job = "work"
  PROVE  BackwardReadsSaved /\ BackwardReads = buffer_samples
<1> DEFINE L == sample_lens
           m == Len(L)
           fill == fill_count
           lo(i) == RowsUpTo(L, i)
           hi(i) == RowsUpTo(L, i + 1)
<1>1. /\ IsSeq(L) /\ m \in Nat /\ DOMAIN L = 1 .. m
      /\ \A i \in 1 .. m : L[i] \in Nat \ {0}
      /\ RowsUpTo(L, m + 1) = fill /\ fill \in Nat
  <2>1. /\ IsSeq(L) /\ \A i \in 1 .. m : L[i] \in Nat \ {0}
        /\ RowsUpTo(L, m + 1) = fill /\ fill \in Nat
    BY DEF BufferInv, LensInv, QueuesInv, CountInv
  <2> QED BY <2>1, SeqFacts
<1>2. HeldSamples = {}
  BY DEF BufferInv, ReserveInv, HeldSamples
<1>3. PICK own : SavedAs(own)
  BY DEF BufferInv, RowsInv
<1>4. /\ own \in [1 .. m -> buffer_samples]
      /\ \A s \in buffer_samples : \E i \in 1 .. m : own[i] = s
      /\ \A i, j \in 1 .. m : i # j => own[i] # own[j]
      /\ \A i \in 1 .. m : \A r \in lo(i) .. hi(i) - 1 : rows[r] = own[i]
  BY <1>2, <1>3 DEF SavedAs
<1>5. ASSUME NEW i \in 1 .. m
      PROVE  /\ lo(i) \in Nat /\ hi(i) = lo(i) + L[i] /\ L[i] \in Nat \ {0}
             /\ hi(i) \in Nat /\ hi(i) <= fill
             /\ lo(i) \in lo(i) .. hi(i) - 1
  <2>1. /\ i \in 1 .. m + 1 /\ i + 1 \in 1 .. m + 1 /\ m + 1 \in 1 .. m + 1
        /\ i + 1 <= m + 1
    BY <1>1
  <2> HIDE DEF m, L
  <2>2. lo(i) \in Nat /\ hi(i) \in Nat /\ hi(i) = lo(i) + L[i]
    BY <1>1, <2>1, RowsUpToNext
  <2>3. hi(i) <= fill
    <3>1. RowsUpTo(L, i + 1) <= RowsUpTo(L, m + 1)
      BY <1>1, <2>1, RowsUpToGrow
    <3> QED BY <1>1, <3>1
  <2> HIDE DEF lo, hi
  <2>4. L[i] \in Nat \ {0}
    BY <1>1
  <2>5. lo(i) \in lo(i) .. hi(i) - 1
    BY <2>2, <2>4
  <2> QED BY <2>2, <2>3, <2>4, <2>5
<1>6. ASSUME NEW r \in 0 .. fill - 1
      PROVE  \E i \in 1 .. m : rows[r] = own[i]
  <2>1. r \in Nat /\ r < RowsUpTo(L, m + 1)
    BY <1>1
  <2>2. PICK i \in 1 .. m : lo(i) <= r /\ r < hi(i)
    <3> HIDE DEF m, L
    <3> QED BY <1>1, <2>1, RowOwner
  <2>3. r \in lo(i) .. hi(i) - 1
    <3>1. lo(i) \in Nat /\ hi(i) \in Nat
      BY <1>5
    <3> HIDE DEF lo, hi
    <3> QED BY <2>1, <2>2, <3>1
  <2> QED BY <1>4, <2>3
<1> HIDE DEF lo, hi
<1>7. BackwardReads = buffer_samples
  <2>1. BackwardReads = {rows[r] : r \in 0 .. fill - 1}
    BY DEF BackwardReads
  <2>2. \A s \in buffer_samples : \E r \in 0 .. fill - 1 : rows[r] = s
    <3> SUFFICES ASSUME NEW s \in buffer_samples
                 PROVE  \E r \in 0 .. fill - 1 : rows[r] = s
      OBVIOUS
    <3>1. PICK i \in 1 .. m : own[i] = s
      BY <1>4
    <3>2. lo(i) \in 0 .. fill - 1 /\ rows[lo(i)] = own[i]
      BY <1>1, <1>4, <1>5
    <3> QED BY <3>1, <3>2
  <2>3. \A r \in 0 .. fill - 1 : rows[r] \in buffer_samples
    BY <1>4, <1>6
  <2> QED BY <2>1, <2>2, <2>3
<1>8. ASSUME NEW i \in 1 .. m
      PROVE  Segment(i) = {own[i]} /\ own[i] \in buffer_samples
  <2>1. Segment(i) = {rows[r] : r \in lo(i) .. lo(i) + L[i] - 1}
    BY DEF Segment, lo, RowsUpTo
  <2>2. lo(i) + L[i] - 1 = hi(i) - 1
    BY <1>5
  <2>3. \A r \in lo(i) .. hi(i) - 1 : rows[r] = own[i]
    BY <1>4
  <2>4. lo(i) \in lo(i) .. hi(i) - 1
    BY <1>5
  <2> QED BY <1>4, <2>1, <2>2, <2>3, <2>4
<1>9. m = Cardinality(buffer_samples)
  <2>1. own \in Bijection(1 .. m, buffer_samples)
    BY <1>4 DEF Bijection, Injection, Surjection, IsInjective
  <2>2. ExistsBijection(1 .. m, buffer_samples)
    BY <2>1 DEF ExistsBijection
  <2> HIDE DEF m
  <2> QED BY <1>1, <2>2, FS_CountingElements
<1>10. SumFunction(L) = fill
  <2>1. 1 .. (m + 1) - 1 = 1 .. m
    BY <1>1
  <2> QED BY <1>1, <2>1 DEF SumFunction, RowsUpTo
<1> QED BY <1>1, <1>7, <1>8, <1>9, <1>10 DEF BackwardReadsSaved

\* The three invariants together, where steps do not overlap.
LEMMA BufferInvariant ==
  ASSUME Serial, Punctual
  PROVE  Spec => [](PoolInv /\ QueuesInv /\ BufferInv)
<1>1. Init => PoolInv /\ QueuesInv /\ BufferInv
  BY InitPoolInv, InitQueuesInv, InitBufferInv
<1>2. PoolInv /\ QueuesInv /\ BufferInv /\ [Next]_vars
        => (PoolInv /\ QueuesInv /\ BufferInv)'
  BY NextPoolInv, StepSimulates, NextBufferInv
<1> QED BY <1>1, <1>2, PTL DEF Spec

\* What the child is told to train on is what the steps saved, one sample to a
\* length, whatever was cut short, undone, aborted or given up before: for every
\* corpus, capacity and fault, where an aborted step is alone in flight and the
\* child's zero-fill lands before its answer.
THEOREM ReadsWhatWasSaved ==
  ASSUME Serial, Punctual
  PROVE  Spec => []BackwardReadsSaved
<1>1. QueuesInv /\ BufferInv => BackwardReadsSaved
  <2>1. CASE job = "work"
    BY <2>1, WorkReadsSaved
  <2>2. CASE job # "work"
    BY <2>2 DEF BackwardReadsSaved
  <2> QED BY <2>1, <2>2
<1> QED BY <1>1, BufferInvariant, PTL

\* While the answer waits to be taken, the buffer stays as it was read.
LEMMA AnswerWaits ==
  ASSUME Serial, PoolInv, QueuesInv, BufferInv, job = "ack", [Next]_vars
  PROVE  UNCHANGED <<buffer_samples, trained_rows>> \/ job' = "none"
<1>1. pending_backward /\ ~Holding
  BY DEF BufferInv, ReserveInv
<1>2. ~ProcessActivations
  BY DEF ProcessActivations, C!ChildAck
<1>3. CASE ScheduleStep
  <2>1. PICK step : /\ step.n \in 0 .. C!Budget
                    /\ step.n = 0 => SamplesOf(step.segs) = {}
                    /\ buffer_samples' = buffer_samples
                                           \union SamplesOf(step.segs)
    BY <1>3, ScheduledStep
  <2>2. C!Budget = 0
    BY <1>1 DEF C!Budget
  <2>3. step.n = 0
    BY <2>1, <2>2
  <2> QED BY <1>3, <2>1, <2>3 DEF ScheduleStep, gpu_vars
<1>4. CASE TierB
  <2>1. pc = "pending" /\ pc \in InStep
    BY <1>4 DEF TierB, InStep
  <2>2. Newest.n > 0
    BY <2>1 DEF QueuesInv, ThreadInv, Newest
  <2> QED BY <1>1, <2>1, <2>2, SerialSteps DEF BufferInv
<1>5. CASE UpdateFromOutput
  <2> DEFINE q == batch_queue
             k == Len(q)
  <2>1. pc = "update" /\ UNCHANGED trained_rows
    BY <1>5 DEF UpdateFromOutput, gpu_vars
  <2>2. k > 0 /\ k \in Nat /\ Head(q) = q[1]
    <3>1. IsSeq(q) /\ k > 0
      BY <2>1 DEF QueuesInv, QueueInv, ThreadInv, InStep, Between
    <3>2. k \in Nat /\ q # <<>>
      BY <3>1, SeqFacts
    <3> QED BY <3>1, <3>2, SeqFacts
  <2>3. /\ \A i \in 1 .. k : i < k => q[i].state = "saved"
        /\ Newest.state = "saved"
    BY <1>1, <2>1, SerialSteps DEF BufferInv
  <2>4. q[k].state = "saved"
    BY <2>3 DEF Newest
  <2> HIDE DEF k
  <2>5. Head(q).state = "saved"
    <3>1. 1 \in 1 .. k /\ (1 = k \/ 1 < k)
      BY <2>2
    <3>2. CASE 1 < k
      BY <2>2, <2>3, <3>1, <3>2
    <3>3. CASE 1 = k
      BY <2>2, <2>4, <3>3
    <3> QED BY <3>1, <3>2, <3>3
  <2> QED BY <1>5, <2>1, <2>5 DEF UpdateFromOutput, coord_vars
<1>6. CASE ExecuteModel \/ EnterForward \/ FinishForward
  BY <1>6 DEF ExecuteModel, EnterForward, FinishForward, SaveRows, Capture,
              C!RecordCapture, coord_vars
<1>7. CASE PollBackward
  <2>1. CASE C!TakeAck
    BY <2>1 DEF C!TakeAck
  <2>2. CASE ~C!TakeAck
    BY <1>7, <2>2 DEF PollBackward, C!DisableStuck, C!TryEpochFlush,
                      C!buffer_vars, coord_vars, gpu_vars
  <2> QED BY <2>1, <2>2
<1>8. CASE \/ InputThread \/ BeginStep \/ Drained \/ AdvanceEpoch
           \/ ZeroFillLands \/ UNCHANGED vars
  BY <1>8 DEF InputThread, PutInput, CheckInFlight, SetAbort, BeginStep,
              Drained, AdvanceEpoch, ZeroFillLands, vars, coord_vars, gpu_vars
<1>9. CASE HandleRequest \/ CheckRps
  BY <1>9 DEF HandleRequest, CheckRps, C!StartFinetuning, C!StopFinetuning,
              C!CheckRpsThrottle, coord_vars, C!buffer_vars, gpu_vars
<1>10. CASE ChildDie \/ Time
  BY <1>10 DEF ChildDie, Time, Tick, RateDecays, C!ChildDie, C!Tick,
               C!buffer_vars, coord_vars, gpu_vars
<1> QED BY <1>2, <1>3, <1>4, <1>5, <1>6, <1>7, <1>8, <1>9, <1>10
        DEF Next, EngineThread, Child

\* Only the child answers, and with what it has read.
LEMMA AnswersRead ==
  ASSUME "error" \notin Faults, QueuesInv, BufferInv, job # "ack",
         [Next]_vars, job' = "ack"
  PROVE  trained_rows' = buffer_samples /\ buffer_samples' = buffer_samples
<1>1. CASE ProcessActivations
  <2>1. /\ job = "work" /\ trained_rows' = BackwardReads
        /\ buffer_samples' = buffer_samples
    BY <1>1 DEF ProcessActivations, C!ChildAck, C!buffer_vars
  <2> QED BY <2>1, WorkReadsSaved
<1>2. CASE ~ProcessActivations
  <2>1. CASE \/ InputThread \/ BeginStep \/ Drained \/ AdvanceEpoch
             \/ ZeroFillLands \/ RateDecays \/ UNCHANGED vars
    BY <2>1 DEF InputThread, PutInput, CheckInFlight, SetAbort, BeginStep,
                Drained, AdvanceEpoch, ZeroFillLands, RateDecays, vars,
                coord_vars
  <2>2. CASE HandleRequest \/ CheckRps
    BY <2>2 DEF HandleRequest, CheckRps, C!StartFinetuning, C!StopFinetuning,
                C!CheckRpsThrottle, coord_vars, C!backward_vars
  <2>3. CASE PollBackward
    BY <2>3 DEF PollBackward, C!TakeAck, C!DisableStuck, C!TryEpochFlush,
                C!TriggerBackward, C!backward_vars, coord_vars
  <2>4. CASE ScheduleStep
    BY <2>4 DEF ScheduleStep, C!Inject, C!backward_vars
  <2>5. CASE TierB \/ UpdateFromOutput
    BY <2>5 DEF TierB, UpdateFromOutput, RollbackFtStep, C!Rollback,
                C!backward_vars, coord_vars
  <2>6. CASE ExecuteModel \/ EnterForward \/ FinishForward
    BY <2>6 DEF ExecuteModel, EnterForward, FinishForward, SaveRows, Capture,
                C!RecordCapture, C!TriggerBackward, C!backward_vars, coord_vars
  <2>7. CASE ChildDie \/ Tick
    BY <2>7 DEF ChildDie, Tick, C!ChildDie, C!Tick
  <2> QED BY <1>2, <2>1, <2>2, <2>3, <2>4, <2>5, <2>6, <2>7
          DEF Next, EngineThread, Child, Time
<1> QED BY <1>1, <1>2

\* What is trained of the pool and what is claimed stay apart.
LEMMA TrainedApart ==
  ASSUME PoolInv, pool.trained \intersect pool.claimed = {}, [Next]_vars
  PROVE  /\ pool'.trained \intersect pool'.claimed = {}
         /\ \/ pool'.trained \subseteq pool.trained
            \/ /\ C!TakeAck
               /\ pool'.trained \ pool.trained = buffer_samples
<1>1. pool \in P!PoolType /\ pool.claimed = buffer_samples
  BY DEF PoolInv, ClaimsTracked
<1>2. CASE BufferUntouched
  BY <1>2 DEF BufferUntouched
<1>3. CASE C!TakeAck /\ pool' = P!CommitClaimed(pool, buffer_samples)
  BY <1>1, <1>3 DEF P!CommitClaimed
<1>4. CASE pool' = P!AdvanceEpoch(pool)
  BY <1>4 DEF P!AdvanceEpoch
<1>5. CASE ScheduleStep
  <2>1. PICK Q \in SUBSET P!Selectable(pool) : pool' = P!Claim(pool, Q)
    BY <1>5, ScheduleEffect
  <2>2. /\ pool'.trained = pool.trained
        /\ pool'.claimed = pool.claimed \union (Q \intersect P!Selectable(pool))
    BY <1>1, <2>1, PoolEffects
  <2> QED BY <2>2 DEF P!Selectable
<1>6. CASE \E step : RollbackFtStep(step)
  <2>1. PICK Q : pool' = P!ReleaseClaimed(pool, Q)
    BY <1>6, RollbackEffect
  <2>2. pool'.trained = pool.trained /\ pool'.claimed = pool.claimed \ Q
    BY <1>1, <2>1, PoolEffects
  <2> QED BY <2>2
<1> QED BY <1>2, <1>3, <1>4, <1>5, <1>6, StepEffects

\* An ack commits what the backward read and nothing else: every sample of the
\* buffer, none of them trained before, where no backward fails.
THEOREM TrainsWhatWasRead ==
  ASSUME Serial, Punctual, "error" \notin Faults
  PROVE  Spec => CommitsWhatWasTrained
<1> DEFINE Inv == PoolInv /\ QueuesInv /\ BufferInv
<1>1. Init => CommitInv
  BY DEF Init, C!Init, P!Init, P!EmptyPool, CommitInv
<1>2. Inv /\ CommitInv /\ [Next]_vars => CommitInv'
  <2> SUFFICES ASSUME Inv, CommitInv, [Next]_vars PROVE CommitInv'
    OBVIOUS
  <2>1. pool'.trained \intersect pool'.claimed = {}
    BY TrainedApart DEF CommitInv
  <2>2. ASSUME job' = "ack" PROVE trained_rows' = buffer_samples'
    <3>1. CASE job = "ack"
      BY <2>2, <3>1, AnswerWaits DEF CommitInv
    <3>2. CASE job # "ack"
      BY <2>2, <3>2, AnswersRead
    <3> QED BY <3>1, <3>2
  <2> QED BY <2>1, <2>2 DEF CommitInv
<1>3. Inv /\ CommitInv /\ [Next]_vars
        => [pool'.trained \ pool.trained # {}
              => pool'.trained \ pool.trained = trained_rows]_vars
  <2> SUFFICES ASSUME Inv, CommitInv, [Next]_vars,
                      pool'.trained \ pool.trained # {}
               PROVE  pool'.trained \ pool.trained = trained_rows
    OBVIOUS
  <2>1. C!TakeAck /\ pool'.trained \ pool.trained = buffer_samples
    BY TrainedApart DEF CommitInv
  <2> QED BY <2>1 DEF C!TakeAck, CommitInv
<1>4. Spec => []Inv
  BY BufferInvariant
<1> HIDE DEF Inv
<1> QED BY <1>1, <1>2, <1>3, <1>4, PTL DEF Spec, CommitsWhatWasTrained
=============================================================================
