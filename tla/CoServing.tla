----------------------------- MODULE CoServing -----------------------------
(***************************************************************************)
(* The co-serving engine of a single-GPU server: the engine thread's busy  *)
(* loop with FinetuneScheduler (ft_scheduler.py) and the model runner      *)
(* (model_runner.py) in it, the input thread (engine_core.py), and the     *)
(* backward child (bwd_services/base.py).  It composes the finetuning      *)
(* store (SamplePool) with the coordinator (Coordinator) and adds the rows *)
(* of the activation buffer.                                               *)
(*                                                                         *)
(* A label of the engine thread ends where another thread or process may   *)
(* act on what the thread reads next.  Of inference only its presence in a *)
(* step is kept: a request is served in RequestSteps steps.                *)
(***************************************************************************)
EXTENDS Integers, Sequences, SequencesExt, FiniteSets

CONSTANTS
    Capacity,      \* max_saved_finetuning_tokens
    Samples,       \* samples kept by the store
    SampleLen,     \* tokens of every sample
    TotalEpochs,   \* num_epochs
    Depth,         \* steps the engine may keep in flight
    Setups,        \* configurations: batch_queue_size (1 sync, 2 async),
                   \* forward_interruptible, max_num_scheduled_tokens
    RpsEnabled, CloseRps, OpenRps,
    RequestSteps,  \* steps an inference request takes
    Commands,      \* what clients send: add, start, stop
    MaxInputs,     \* bound: how many of them
    StartOnLaunch, \* start_on_launch
    Faults         \* what may go wrong: death, slow, error, late_zero

ASSUME CoServingAssumption ==
    /\ Capacity \in Nat \ {0}
    /\ IsFiniteSet(Samples) /\ Samples # {}
    /\ SampleLen \in [Samples -> 1 .. Capacity]
    /\ TotalEpochs \in Nat \ {0}
    /\ Depth \in {1, 2} /\ RpsEnabled \in BOOLEAN
    /\ Setups \subseteq [queue_size : 1 .. Depth, interruptible : BOOLEAN,
                          step_tokens : Nat \ {0}]
    /\ CloseRps \in Nat \ {0} /\ OpenRps \in Nat
    /\ RequestSteps \in Nat \ {0}
    /\ Commands \subseteq {"add", "start", "stop"}
    /\ MaxInputs \in Nat
    /\ StartOnLaunch \in BOOLEAN
    /\ Faults \subseteq {"death", "slow", "error", "late_zero"}

VARIABLES
    setup,               \* the configuration
    \* the coordinator
    fill_count, reserved_fill, sample_lens, buffer_samples,
    admission_open, pending_backward, epoch_flush_pending, ft_started,
    rps_throttle_active, waited, job, alive,
    \* the store
    pool,
    \* the engine thread
    pc,                  \* its label
    retried,             \* tier B has rescheduled this step once
    batch_queue,         \* steps scheduled and not yet processed
    work,                \* steps the accepted inference requests still need
    finished_req_ids,    \* a finished request is to be reported
    \* the input thread
    input_queue, input_pc, inputs,
    ft_abort_event, ft_only_in_flight,
    rate,                \* arrivals in the rps window
    \* the GPU
    rows,                \* the activation buffer: whose row, or Zero
    zeroing,             \* the child's zero-fill has not landed
    trained_rows         \* samples the last backward read

coord_vars  == <<fill_count, reserved_fill, sample_lens, buffer_samples,
                 admission_open, pending_backward, epoch_flush_pending,
                 ft_started, rps_throttle_active, waited, job, alive>>
engine_vars == <<pc, retried, batch_queue, work, finished_req_ids>>
input_vars  == <<input_queue, input_pc, inputs>>
signal_vars == <<ft_abort_event, ft_only_in_flight>>
gpu_vars    == <<rows, zeroing, trained_rows>>
vars == <<setup, coord_vars, pool, engine_vars, input_vars, signal_vars, rate,
          gpu_vars>>

Interruptible == setup.interruptible
StepTokens == setup.step_tokens

Zero == "zero"

\* FinetuneScheduler.__init__
MinSampleLen ==
    CHOOSE l \in {SampleLen[s] : s \in Samples} :
       \A s \in Samples : l <= SampleLen[s]

P == INSTANCE SamplePool WITH InputLen <- SampleLen

(***************************************************************************)
(* A scheduled step: whether it carries inference, its finetuning samples  *)
(* with the rows each has in it, and the coordinator's side of it.         *)
(***************************************************************************)
SamplesOf(segs) == {segs[i].sample : i \in DOMAIN segs}
RowsOf(segs) == [i \in DOMAIN segs |-> segs[i].n]

HoldsRows(step) == step.n > 0 /\ step.state # "saved"

AsReservation(step) ==
    [n |-> step.n, off |-> step.off, samples |-> SamplesOf(step.segs),
     snap |-> step.snap, aborted |-> step.state = "aborted"]

\* The steps of a queue that hold rows, in their order.
ReservationsOf(queue) ==
    LET held[i \in 0 .. Len(queue)] ==
          IF i = 0 THEN <<>>
          ELSE IF HoldsRows(queue[i])
               THEN Append(held[i - 1], AsReservation(queue[i]))
               ELSE held[i - 1]
    IN  held[Len(queue)]

Reservations == ReservationsOf(batch_queue)

\* The coordinator is the same in every setup.
C == INSTANCE Coordinator WITH reservations <- Reservations,
                               Interruptible <- TRUE

FtOnly(step) == step.n > 0 /\ ~step.inf

-----------------------------------------------------------------------------
(***************************************************************************)
(* The input thread: put a message, then signal a running FT-only forward  *)
(* if the message was an ADD (FtInputQueue.put_nowait, on_input_add).      *)
(***************************************************************************)
PutInput ==
    /\ input_pc = "put" /\ inputs < MaxInputs
    /\ \E m \in Commands :
         /\ input_queue' = Append(input_queue, m)
         /\ input_pc' = IF m = "add" THEN "check" ELSE "put"
    /\ inputs' = inputs + 1
    /\ UNCHANGED <<setup, coord_vars, pool, engine_vars, signal_vars, rate,
                   gpu_vars>>

CheckInFlight ==
    /\ input_pc = "check"
    /\ input_pc' = IF ft_only_in_flight THEN "signal" ELSE "put"
    /\ UNCHANGED <<setup, coord_vars, pool, engine_vars, input_queue, inputs,
                   signal_vars, rate, gpu_vars>>

SetAbort ==
    /\ input_pc = "signal"
    /\ ft_abort_event' = TRUE
    /\ input_pc' = "put"
    /\ UNCHANGED <<setup, coord_vars, pool, engine_vars, input_queue, inputs,
                   ft_only_in_flight, rate, gpu_vars>>

-----------------------------------------------------------------------------
(***************************************************************************)
(* The engine thread.                                                      *)
(***************************************************************************)
InferenceInFlight == \E i \in DOMAIN batch_queue : batch_queue[i].inf

\* super().has_requests(): requests waiting, running (finetuning ones count
\* until their step is processed) or finished and not reported yet.
BaseHasRequests ==
    \/ work > 0 \/ InferenceInFlight
    \/ \E i \in DOMAIN batch_queue : batch_queue[i].n > 0
    \/ finished_req_ids

\* Mutant: the base scheduler's own requests are forgotten.
FinetuningOnlyRequests ==
    ft_started /\ (pending_backward \/ C!Budget >= MinSampleLen)

\* has_requests: keep stepping while finetuning is live.
HasRequests ==
    \/ BaseHasRequests
    \/ /\ ft_started
       /\ \/ pending_backward
          \/ epoch_flush_pending /\ fill_count + reserved_fill > 0
          \/ /\ C!Budget >= MinSampleLen
             /\ P!HasNext(pool) \/ pool.epoch < TotalEpochs

WouldStepBeFtOnly == work = 0 /\ ~InferenceInFlight

\* _handle_client_request, at the top of the loop, in tier A's grace poll and
\* in tier B's drain.
HandleRequest ==
    /\ pc \in {"top", "grace", "drain"}
    /\ input_queue # <<>>
    /\ input_queue' = Tail(input_queue)
    /\ \/ /\ Head(input_queue) = "add"          \* add_request
          /\ work' = work + RequestSteps
          /\ rate' = IF RpsEnabled /\ rate <= CloseRps THEN rate + 1 ELSE rate
          /\ UNCHANGED coord_vars
       \/ /\ Head(input_queue) = "start" /\ C!StartFinetuning
          /\ UNCHANGED <<work, rate>>
       \/ /\ Head(input_queue) = "stop" /\ C!StopFinetuning
          /\ UNCHANGED <<work, rate>>
    /\ UNCHANGED <<setup, pool, pc, retried, batch_queue, finished_req_ids,
                   input_pc, inputs, signal_vars, gpu_vars>>

\* With no requests and an empty batch queue the loop blocks on its input.
BeginStep ==
    /\ pc = "top" /\ input_queue = <<>>
    /\ \/ /\ HasRequests
          /\ pc' = IF Interruptible /\ WouldStepBeFtOnly THEN "grace"
                                                         ELSE "poll"
       \/ ~HasRequests /\ batch_queue # <<>> /\ pc' = "update"
    /\ retried' = FALSE
    /\ UNCHANGED <<setup, coord_vars, pool, batch_queue, work,
                   finished_req_ids, input_vars, signal_vars, rate, gpu_vars>>

Drained ==
    /\ pc \in {"grace", "drain"} /\ input_queue = <<>>
    /\ pc' = "poll"
    /\ UNCHANGED <<setup, coord_vars, pool, retried, batch_queue, work,
                   finished_req_ids, input_vars, signal_vars, rate, gpu_vars>>

\* _schedule_step: poll_backward with its on_backward_done hook, then
\* try_epoch_flush, which can only fire when no backward was pending.
PollBackward ==
    /\ pc = "poll"
    /\ \/ C!TakeAck /\ pool' = P!CommitClaimed(pool, buffer_samples)
       \/ C!DisableStuck /\ UNCHANGED pool
       \/ C!TryEpochFlush /\ UNCHANGED pool
       \/ /\ IF pending_backward THEN job # "ack" /\ ~C!Stuck ELSE ~C!CanFlush
          /\ UNCHANGED <<coord_vars, pool>>
    /\ pc' = IF RpsEnabled THEN "rps" ELSE "admit"
    /\ UNCHANGED <<setup, retried, batch_queue, work, finished_req_ids,
                   input_vars, signal_vars, rate, gpu_vars>>

CheckRps ==
    /\ pc = "rps"
    /\ \E held \in BOOLEAN : C!CheckRpsThrottle(rate, held)
    /\ pc' = "admit"
    /\ UNCHANGED <<setup, pool, retried, batch_queue, work, finished_req_ids,
                   input_vars, signal_vars, rate, gpu_vars>>

(***************************************************************************)
(* admit_ft_to_step.  Without inference it admits shortest first while the *)
(* next sample fits the free rows and the step's tokens; with inference    *)
(* the phase gate, the SLO headroom and the shapers may stop it anywhere.  *)
(***************************************************************************)
MayAdmit ==
    /\ C!Budget > 0
    /\ P!HasNext(pool) \/ pool.epoch < TotalEpochs - 1

TokenCap == IF C!SpaceRemaining < StepTokens THEN C!SpaceRemaining
                                             ELSE StepTokens

Total(S) == SumFunctionOnSet(SampleLen, S)

ShortestFirst(S) ==
    \A s \in S, t \in P!Selectable(pool) \ S : SampleLen[s] <= SampleLen[t]

Full(S) == \A t \in P!Smallest(pool, S) : Total(S) + SampleLen[t] > TokenCap

Admissible ==
    IF ~MayAdmit THEN {{}}
    ELSE {S \in SUBSET P!Selectable(pool) :
            /\ ShortestFirst(S)
            /\ Total(S) <= TokenCap
            /\ work = 0 => Full(S)}

\* Mutant: the epoch ends as soon as no sample is claimed.
NeedsEpochEarly == MayAdmit /\ P!CanAdvance(pool)

\* The store's epoch ends when the greedy loop finds no selectable sample;
\* the loop goes on in the new epoch.
NeedsEpoch == MayAdmit /\ ~P!HasNext(pool) /\ P!CanAdvance(pool)

AdvanceEpoch ==
    /\ pc = "admit" /\ NeedsEpoch
    /\ pool' = P!AdvanceEpoch(pool)
    /\ UNCHANGED <<setup, coord_vars, engine_vars, input_vars, signal_vars,
                   rate, gpu_vars>>

NextLen(p) ==
    IF P!HasNext(p)
    THEN CHOOSE l \in 1 .. Capacity :
           \E s \in P!Smallest(p, {}) : SampleLen[s] = l
    ELSE Capacity + 1

\* The orders in which shortest first may pick S.
Batches(S) ==
    {q \in SetToSeqs(S) :
       \A i, j \in DOMAIN q : i < j => SampleLen[q[i]] <= SampleLen[q[j]]}

(***************************************************************************)
(* The rest of _schedule_step: the base scheduler serves inference first,  *)
(* then the admitted samples in order until the step's tokens run out, so  *)
(* the last one may be cut short; samples it did not schedule go back to   *)
(* the store, and the rows that were scheduled are reserved.               *)
(***************************************************************************)
Scheduled(batch, tokens) ==
    LET before(i) == SumFunctionOnSet([j \in DOMAIN batch |-> SampleLen[batch[j]]],
                                      1 .. i - 1)
        used == {i \in DOMAIN batch : before(i) < tokens}
        rowsOf(i) == IF before(i) + SampleLen[batch[i]] <= tokens
                     THEN SampleLen[batch[i]] ELSE tokens - before(i)
    IN  [i \in used |-> [sample |-> batch[i], n |-> rowsOf(i)]]

ReleaseDropped(p, S, segs) == P!ReleaseClaimed(p, S \ SamplesOf(segs))

ScheduleStep ==
    /\ pc = "admit"
    /\ work = 0 => ~NeedsEpoch
    /\ \E S \in Admissible :
       \E batch \in Batches(S),
          tokens \in IF work = 0 THEN {Total(S)} ELSE 0 .. Total(S) :
         LET segs  == Scheduled(batch, tokens)
             step  == [inf |-> work > 0, segs |-> segs, n |-> tokens,
                       off |-> C!CurrentOffset, snap |-> C!Snapshot,
                       state |-> "scheduled"]
             claimed == P!Claim(pool, S)
         IN  /\ pool' = ReleaseDropped(claimed, S, segs)
             /\ C!Inject(Total(S), NextLen(claimed), tokens, NextLen(pool'),
                         SamplesOf(segs))
             /\ batch_queue' = Append(batch_queue, step)
             /\ pc' = IF Interruptible /\ ~retried /\ FtOnly(step)
                      THEN "pending" ELSE "exec"
    /\ work' = IF work > 0 THEN work - 1 ELSE 0
    /\ finished_req_ids' = FALSE
    /\ UNCHANGED <<setup, retried, input_vars, signal_vars, rate, gpu_vars>>

\* Mutants of the rollback: the samples stay claimed; admission is left as it
\* is; the abort event stays set.
RollbackKeepsClaims(step) ==
    /\ C!Rollback(step.n, SamplesOf(step.segs), step.snap)
    /\ ft_abort_event' = FALSE
    /\ UNCHANGED pool

RollbackKeepsGate(step) ==
    /\ C!Rollback(step.n, SamplesOf(step.segs), C!Snapshot)
    /\ pool' = P!ReleaseClaimed(pool, SamplesOf(step.segs))
    /\ ft_abort_event' = FALSE

RollbackKeepsEvent(step) ==
    /\ C!Rollback(step.n, SamplesOf(step.segs), step.snap)
    /\ pool' = P!ReleaseClaimed(pool, SamplesOf(step.segs))
    /\ UNCHANGED ft_abort_event

\* _rollback_ft_step
RollbackFtStep(step) ==
    /\ C!Rollback(step.n, SamplesOf(step.segs), step.snap)
    /\ pool' = P!ReleaseClaimed(pool, SamplesOf(step.segs))
    /\ ft_abort_event' = FALSE

\* Tier B: a message that landed since the drain undoes an FT-only step.
TierB ==
    /\ pc = "pending"
    /\ IF input_queue = <<>>
       THEN /\ pc' = "exec"
            /\ UNCHANGED <<coord_vars, pool, batch_queue, retried,
                           ft_abort_event>>
       ELSE /\ RollbackFtStep(Last(batch_queue))
            /\ batch_queue' = Front(batch_queue)
            /\ retried' = TRUE
            /\ pc' = "drain"
    /\ UNCHANGED <<setup, work, finished_req_ids, input_vars,
                   ft_only_in_flight, rate, gpu_vars>>

(***************************************************************************)
(* execute_model.  The newest step runs; the loop then returns to schedule *)
(* another one (async, head not done yet) or processes the oldest.         *)
(***************************************************************************)
Executed(state) == [batch_queue EXCEPT ![Len(batch_queue)].state = state]

AfterExecute(q) ==
    /\ batch_queue' = q
    /\ pc' \in IF /\ Last(q).inf \/ Last(q).n > 0
                  /\ Len(q) < setup.queue_size
                  /\ Head(q).state # "aborted"
               THEN {"top", "update"} ELSE {"update"}

Capture(step) == C!RecordCapture(step.n, RowsOf(step.segs))

\* accumulate the step's rows at its offset, then record_capture.
SaveRows(step) ==
    LET before(i) == SumFunctionOnSet(RowsOf(step.segs), 1 .. i - 1)
        owner(r) == {i \in DOMAIN step.segs :
                       /\ step.off + before(i) <= r
                       /\ r < step.off + before(i) + step.segs[i].n}
    IN  /\ rows' = [r \in DOMAIN rows |->
                      IF owner(r) = {} THEN rows[r]
                      ELSE step.segs[CHOOSE i \in owner(r) : TRUE].sample]
        /\ Capture(step)

\* Mutant: the rows are counted from the start of the buffer.
ZeroFirstRows(step) ==
    rows' = [r \in DOMAIN rows |-> IF r < step.n THEN Zero ELSE rows[r]]

ZeroRows(step) ==
    rows' = [r \in DOMAIN rows |->
               IF step.off <= r /\ r < step.off + step.n THEN Zero ELSE rows[r]]

\* A step that cannot be aborted: it carries inference, has no finetuning
\* samples, or forward_interruptible is off.
ExecuteModel ==
    /\ pc = "exec"
    /\ ~Interruptible \/ ~FtOnly(Last(batch_queue))
    /\ IF Last(batch_queue).n > 0
       THEN SaveRows(Last(batch_queue))
       ELSE UNCHANGED <<rows, coord_vars>>
    /\ AfterExecute(Executed("saved"))
    /\ UNCHANGED <<setup, pool, retried, work, finished_req_ids, input_vars,
                   signal_vars, rate, zeroing, trained_rows>>

\* Tier C at the entry of an FT-only forward: an event already set bails.
EnterForward ==
    /\ pc = "exec" /\ Interruptible /\ FtOnly(Last(batch_queue))
    /\ IF ft_abort_event
       THEN /\ ZeroRows(Last(batch_queue))
            /\ AfterExecute(Executed("aborted"))
            /\ UNCHANGED ft_only_in_flight
       ELSE /\ ft_only_in_flight' = TRUE
            /\ pc' = "forward"
            /\ UNCHANGED <<batch_queue, rows>>
    /\ UNCHANGED <<setup, coord_vars, pool, retried, work, finished_req_ids,
                   input_vars, ft_abort_event, rate, zeroing, trained_rows>>

\* The event is polled at every layer; a forward past the last poll finishes.
FinishForward ==
    /\ pc = "forward"
    /\ ft_only_in_flight' = FALSE
    /\ \/ /\ SaveRows(Last(batch_queue))
          /\ AfterExecute(Executed("saved"))
       \/ /\ ft_abort_event
          /\ ZeroRows(Last(batch_queue))
          /\ AfterExecute(Executed("aborted"))
          /\ UNCHANGED coord_vars
    /\ UNCHANGED <<setup, pool, retried, work, finished_req_ids, input_vars,
                   ft_abort_event, rate, zeroing, trained_rows>>

\* update_from_output for the oldest step.
UpdateFromOutput ==
    /\ pc = "update"
    /\ batch_queue' = Tail(batch_queue)
    /\ IF Head(batch_queue).state = "aborted"
       THEN RollbackFtStep(Head(batch_queue))
       ELSE UNCHANGED <<coord_vars, pool, ft_abort_event>>
    /\ finished_req_ids' = (finished_req_ids
                              \/ (Head(batch_queue).inf /\ work = 0))
    /\ pc' = "top"
    /\ UNCHANGED <<setup, retried, work, input_vars, ft_only_in_flight, rate,
                   gpu_vars>>

-----------------------------------------------------------------------------
(***************************************************************************)
(* The backward child and time.                                            *)
(***************************************************************************)
\* Mutant: the last row is left out.
ReadsAllButOne == {rows[r] : r \in 0 .. fill_count - 2}

\* The samples whose rows the backward reads: the n rows of the message.
BackwardReads == {rows[r] : r \in 0 .. fill_count - 1}

\* _handle_process_activations: run the backward over the rows, enqueue the
\* zero-fill, answer.  A failed backward is answered all the same.
ProcessActivations ==
    /\ ~zeroing                      \* the child's stream runs in order
    /\ C!ChildAck
    /\ \/ trained_rows' = BackwardReads
       \/ "error" \in Faults /\ trained_rows' = {}
    /\ IF "late_zero" \in Faults
       THEN zeroing' = TRUE /\ UNCHANGED rows
       ELSE rows' = [r \in DOMAIN rows |-> Zero] /\ UNCHANGED zeroing
    /\ UNCHANGED <<setup, pool, engine_vars, input_vars, signal_vars, rate>>

ZeroFillLands ==
    /\ zeroing
    /\ rows' = [r \in DOMAIN rows |-> Zero]
    /\ zeroing' = FALSE
    /\ UNCHANGED <<setup, coord_vars, pool, engine_vars, input_vars,
                   signal_vars, rate, trained_rows>>

ChildDie ==
    /\ "death" \in Faults
    /\ C!ChildDie
    /\ UNCHANGED <<setup, pool, engine_vars, input_vars, signal_vars, rate,
                   gpu_vars>>

Tick ==
    /\ "slow" \in Faults \/ ~alive
    /\ C!Tick
    /\ UNCHANGED <<setup, pool, engine_vars, input_vars, signal_vars, rate,
                   gpu_vars>>

\* Arrivals leave the rps window.
RateDecays ==
    /\ rate > 0
    /\ rate' = rate - 1
    /\ UNCHANGED <<setup, coord_vars, pool, engine_vars, input_vars,
                   signal_vars, gpu_vars>>

-----------------------------------------------------------------------------
Init ==
    /\ setup \in Setups
    /\ batch_queue = <<>>
    /\ C!Init /\ ft_started = StartOnLaunch
    /\ P!Init
    /\ pc = "top" /\ retried = FALSE /\ work = 0 /\ finished_req_ids = FALSE
    /\ input_queue = <<>> /\ input_pc = "put" /\ inputs = 0
    /\ ft_abort_event = FALSE /\ ft_only_in_flight = FALSE
    /\ rate = 0
    /\ rows = [r \in 0 .. Capacity - 1 |-> Zero]
    /\ zeroing = FALSE /\ trained_rows = {}

InputThread == PutInput \/ CheckInFlight \/ SetAbort

EngineThread ==
    \/ HandleRequest \/ BeginStep \/ Drained
    \/ PollBackward \/ CheckRps \/ AdvanceEpoch \/ ScheduleStep \/ TierB
    \/ ExecuteModel \/ EnterForward \/ FinishForward \/ UpdateFromOutput

Child == ProcessActivations \/ ZeroFillLands \/ ChildDie

Time == Tick \/ RateDecays

Next == InputThread \/ EngineThread \/ Child \/ Time

Spec == Init /\ [][Next]_vars

\* The engine thread and the GPU are never suspended for good, the input
\* thread finishes a signal it began, and time passes.
FairSpec ==
    /\ Spec
    /\ WF_vars(EngineThread)
    /\ WF_vars(ProcessActivations \/ ZeroFillLands)
    /\ WF_vars(CheckInFlight \/ SetAbort)
    /\ WF_vars(Tick) /\ WF_vars(RateDecays)

-----------------------------------------------------------------------------
Segment(i) ==
    LET before == SumFunctionOnSet(sample_lens, 1 .. i - 1)
    IN  {rows[r] : r \in before .. before + sample_lens[i] - 1}

\* What the child is told to train on is what the steps saved: sample_lens
\* cuts the first fill_count rows into segments that hold one sample each, no
\* sample twice, and together the samples the ack will commit.  Violated by a
\* step that overwrites or zeroes rows of another one, or by an offset, a
\* length or a sample list that disagree.
BackwardReadsSaved ==
    job = "work" =>
      /\ SumFunction(sample_lens) = fill_count
      /\ \A i \in DOMAIN sample_lens :
           \E s \in buffer_samples : Segment(i) = {s}
      /\ Len(sample_lens) = Cardinality(buffer_samples)
      /\ BackwardReads = buffer_samples

\* A sample is claimed in the store exactly while it is in the buffer or on
\* its way to it: no rollback, drop, ack or disable leaves a claim that nobody
\* will commit or release, which would hold the epoch for ever.
ClaimsTracked == pool.claimed = buffer_samples

\* A commit trains exactly the samples whose rows the last backward read.
CommitsWhatWasTrained ==
    [][pool'.trained \ pool.trained # {}
         => pool'.trained \ pool.trained = trained_rows]_vars

\* The engine drives the coordinator by its callers' protocol.
ImplementsCoordinator == C!Spec

\* The engine drives the store by its callers' protocol: what a step claims and
\* gives back is one claim, and an epoch ends only when every sample is trained
\* in it, none selectable and none in the buffer, in flight or at the child.
ImplementsPool == P!Spec

\* Every accepted request is served.
RequestsServed == (input_queue # <<>> \/ work > 0)
                     ~> (input_queue = <<>> /\ work = 0)

AllTrained == pool.epoch = TotalEpochs - 1 /\ pool.trained = Samples

\* If finetuning stays started every sample is trained in every epoch,
\* whatever arrives, stops, is aborted or rolled back meanwhile: the gate, the
\* flush and the child never leave a partly filled buffer behind.
TrainsEverything == <>[]ft_started => <>[]AllTrained
=============================================================================
