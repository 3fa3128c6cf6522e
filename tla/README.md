# DeltaServe-vLLM: TLA+ models and proofs

DeltaServe co-serves inference and LoRA fine-tuning on one vLLM engine. Fine-tuning
samples ride in inference steps; their activations are saved into a buffer in GPU
memory; when the buffer is full a *backward child* process, sharing the GPU through
CUDA IPC, trains on it and answers. This directory models the server in TLA+ - from the
start of its processes to the gradients the child publishes - model-checks it with TLC
and proves the store's and the coordinator's invariants with TLAPS. Line numbers are of
`src/deltaserve-plugin/deltaserve/`.

## 1. The system

| Part | Code | State it keeps | Operations |
|---|---|---|---|
| Finetuning store | `finetuning_store.py` | `samples` with `trained`, `claimed`; `len_buckets` (length to deque), `sorted_lengths`; `current_epoch` | `load`, `pop_next`, `pop_best_under`, `claim`, `commit_claimed`, `release_claimed`, `advance_epoch`, `has_next` |
| Coordinator | `coordinator.py` | `fill_count`, `reserved_fill`, `sample_lens`, `buffer_samples`; `admission_open`, `epoch_flush_pending`, `pending_backward`, `ft_started`, `rps_throttle_active`; ages | `reserve`, `release_reserve`, `snapshot/restore_admission`, `note_injection`, `record_capture`, `try_epoch_flush`, `poll_backward`, `check_rps_throttle`, start/stop; TP relay calls; `FtAbortPoller`, `FtArrivalSignal` |
| Finetune scheduler | `ft_scheduler.py` (`ft_injector.py`, `ft_scheduler_both.py`) | requests, features, admission shapers, estimator | `schedule`, `_schedule_step`, `admit_ft_to_step`, `_rollback_ft_step`, `update_from_output`, `has_requests`, save and load of the estimator's state |
| Engine hooks | `engine_core.py` | the engine's input queue | `FtInputQueue.put_nowait`, `on_input_add`, `EngineInputs.poll/drain`, launch pass, shutdown |
| Model runner | `model_runner.py` | current step, pause/throttle flags, timing ring, request states | `execute_model`, `_model_forward`, `_build_finetune_mask`, `_ft_timing_begin/end`, `_ft_after_forward`, `_ft_on_abort`, pause decisions, relay fields |
| Activation accumulator | `accumulate.py`, `ft_save_op.py` | the buffers, staged indexes | hooks, op table, `arm_op_step`, `accumulate_final`, `zero_offset_range` |
| Backward child | `bwd_services/base.py`, `backward_process.py` | shared views, counters, grant, arrivals | the command loop, `_handle_process_activations`, `_maybe_pause`, `poll_response`, death signal |
| Training | `bwd_services/llama3.py`, `qwen3.py`, `common/{trainer,graph,tp,head}.py` | optimizer, CUDA graphs with static buffers, buckets | forward/backward per layer, collectives, optimizer step, publication |
| Estimator | `estimator.py` | samples of measured steps, fitted coefficients | `add`, `check_refit`, `data_fit`, `predict`, export/import |
| Launch pass | `profiling_batch_generator.py`, `engine_core.py` | the shapes to run | `prepare`, `run_shape`, `reset_coord` |
| Worker and plugin | `worker.py`, `plugin.py`, `api.py`, `engine_config.py` | | start-up stages, orphan guard, wrapped engine methods, HTTP routes |
| The rest | `config*.py`, `cudagraph.py`, `ft_meta.py`, `step_trace.py`, layer arithmetic | configuration, graph keys | parsing, dispatch, logging |

How they interact on one GPU. One *engine thread* runs vLLM's busy loop: handle input
messages, `schedule`, execute the step, and process the output of the oldest step. With
async scheduling (the default) the loop schedules and runs step N+1 before it processes
the output of step N. An *input thread* puts client messages on the queue and, if
`forward_interruptible` is on, sets an event that the running FT-only forward polls at
every layer. The *child process* talks to its worker through a pipe, reads and clears
the activation buffer, and gives the GPU up at its layer boundaries when its grant is
cleared. Everything the runner does is enqueued on a CUDA stream and happens later.
With tensor parallelism there is a worker and a child per GPU: the scheduler's
coordinator has no child and talks to the workers' coordinators through the step
outputs, and the ranks decide by all-reduces.

A sample's life: `admit_ft_to_step` claims it; the base scheduler may drop it (released)
or cut it short; the scheduler reserves its rows and closes the gate when no other
sample fits; the forward saves the rows and `record_capture` moves them from reserved to
filled, handing the buffer over when it is full or due for a flush and nothing else is
reserved; the child trains, clears, answers; `poll_backward` commits the samples, empties
the account and reopens the gate. An FT-only step may instead be undone before it runs
(tier B) or aborted while it runs (tier C): its rows are zeroed, its reservation and
claims returned, the gate restored from the step's snapshot.

What is hard here: two steps in flight that share one account; decisions on admitted
rows while fewer are scheduled; rollbacks out of order; a signal set by a thread that
looked at a flag earlier; work enqueued and not yet executed; ranks that see arrivals,
acks and failures at different times and must act alike; a child that fails, dies, is
paused or late; processes that end at any moment of the start-up; and progress, where
gate, flush, throttle, grant and epoch end each wait for another. `PROJECT.json` lists
each hazard at its line with the properties that cover it.

## 2. Modules

| Module | Models |
|---|---|
| `SamplePool` | What the store promises: selectable, claimed or trained; an epoch ends when nothing is selectable or claimed. The abstract specification. Its operators take and return the state, so that `CoServing` applies several in one step. |
| `FinetuningStore` | The store as coded: buckets and sorted lengths. Refines `SamplePool` (`ImplementsPool`). |
| `Coordinator` | One action per coordinator operation, parameterised by its arguments, and a closing specification with the callers' protocol only (`Schedule`, `Capture`, `Abort`, `Undo`, `Poll`, ...): any admission, any drop, any split of rows into samples. |
| `CoServing` | One GPU: the engine thread, the input thread, the child and the buffer's rows; composes `SamplePool` and `Coordinator` and refines both (`ImplementsCoordinator`, `ImplementsPool`). |
| `TensorParallel` | Two coordinators' halves: the scheduler's account and every rank's child, joined by step outputs; the abort and ack votes. Uses the operations of `Coordinator` and refines its specification. |
| `GpuYield` | The grant: runner, GPU and children; deferred resume, throttle, pre-pauses, pause on arrival, votes, the run-ahead bound. |
| `BackwardCycle` | A cycle of training on every rank: hosts, compute streams, NCCL's stream; graph and eager regions, static buffers, buckets, optimizer step. |
| `SavePoints`, `ModelRunner` | Which hook or op saves what (pure operators of a configuration), and the stream a step becomes: masks, staged indexes, saves, final copies, zeroing, the capture event, the timing ring, request states. |
| `Launch` | Engine, workers, children and pipes: start-up stages, time-outs, deaths, the end. |
| `Profiling` | The plan of the launch pass, as pure operators of the options. |
| `StepEstimator` | `Launch` and `Profiling` with the steps of a server: launch pass, admission, samples, regimes, fits, the state file, shutdown and the next server. |
| `FinetuningStoreProofs`, `CoordinatorProofs`, `GpuYieldProofs`, `TensorParallelProofs`, `BackwardCycleProofs`, `ModelRunnerProofs`, `StepEstimatorProofs`, `CoServingProofs` | Theorems, and the lemmas they rest on. |
| `MC...` | Instances for TLC, each with its `.cfg`. |

### CoServing

The engine thread's program counter `pc` has one label per point where another thread or
the child may change what it reads next:

| `pc` | Code | Action |
|---|---|---|
| `top` | input handling; `has_requests` | `HandleRequest`, `BeginStep` |
| `grace` | tier A, `ft_scheduler.py:890-897` | `HandleRequest`, `Drained` |
| `poll` | `_schedule_step` 926-934 | `PollBackward` |
| `rps` | 936-956 | `CheckRps` |
| `admit` | 958-1107 with `admit_ft_to_step` | `AdvanceEpoch`, `ScheduleStep` |
| `pending`, `drain` | tier B, 899-905 | `TierB`, `HandleRequest`, `Drained` |
| `exec`, `forward` | `model_runner.py:101-328` | `ExecuteModel`, `EnterForward`, `FinishForward` |
| `update` | `update_from_output` | `UpdateFromOutput` |

`batch_queue` holds the steps scheduled and not processed, each with its samples, rows,
offset, snapshot and whether it has been saved or aborted. `rows` says of every buffer
row whose it is, or `Zero`; `trained_rows` what the last backward read. With inference in
the step, admission is a free choice of how many samples, shortest first, fit the free
rows and the step budget (what exactly it admits is `StepEstimator`'s subject), and the
base scheduler schedules any number of the admitted tokens; without inference the greedy
loop is exact. A request takes `RequestSteps` steps. The pending backward's age has the
two thresholds as its only values. The child reads the buffer at one instant: while
`pending_backward` holds nobody writes (`ChildOwnsBuffer`), so the instant does not
matter; the late zero-fill is a separate step. Left out: client ABORT messages, a grace
period of zero.

### TensorParallel

The engine's actions are `StartSchedule`, `Build`, `TakeTriggerCmd`, `TierB`, `Send`,
`Receive`, `Processed`; a rank runs `Begin`, `Layer`, `Relay`, `Output` with a queue
`todo` bounded by `MaxLag`. An all-reduce completes when every rank has
called *one*, whatever for: that the calls belong together is a property (`VotesMatch`),
not part of the model. The refinement maps a command, a count or an ack under way to the
state the single coordinator would have; the schedulers of both call the same operators.

### GpuYield

`gpu_grant` is the event `set_pause` clears and sets. `resume_evt` and `prefill_evt`
count the work of the stream still before them; `gpu` and `queued` are what the GPU has
yet to run for inference and for the child. All ranks process the same steps. The child's
5 s cap on a wait is left out on purpose: `CycleEnds` shows that it is never needed. With
the throttle a heavy prefill's pause may be released before its GPU prefill has
completed, although `config.py:476-491` says it is kept until then, so `PrefillProtected`
is stated without the throttle. `GrantAccounted` also shows that the local pre-pause of
`_trigger_backward` (`coordinator.py:772`) is redundant.

### BackwardCycle

A host only enqueues: an operation on its compute stream, or a collective, which is
queued behind the work before it. Values are sets of `<<cycle, layer, row>>`, zero is
empty, addition is union; `static` are the buffers the graphs read, shared by all
layers. A gradient is `[cyc, parts, sums]`: the cycle whose rows made it, the ranks it is
summed over and how often a reduce has been through it, so that a reduce left behind by a
cycle given up half-way, run after the next cycle's stash, would show. `fragile` regions may fail their capture or replay on one rank. What the run also
showed: after a graphed forward the tails of `static_ctx`, `static_o` and
`static_resid_mid` are *not* zero, since the padded attention gathers slot (0,0) into
them (`graph.py:757` and `913` say otherwise); it is harmless because
`_stage_ffn_inputs` zeroes them again, and the mutant of that operator shows that this is
what saves it. An exception is met by all ranks at the same layer: a rank that raises
alone leaves its peer in a collective, and only the stuck detection of the coordinator
ends that.

### ModelRunner

The host is up to `Depth` steps ahead of the GPU. `stream` holds the enqueued operations,
merged per step (`copy`, `forward`, `final`, `zero`, `done`). A row of a buffer holds the
sample token it was saved from, `Zero`, or `Other` for a value of another save point.
Batches are all orders of inference and samples; modes are those of
`FtCudagraphDispatcher.dispatch`; an aborted forward leaves at a layer boundary (hooks)
or before a graph segment. FT-only steps take as many samples as fit, which keeps the
`abort_overlap` case out. The rings have two slots, which the run shows to be enough at
depth 2 (with one, `HandsOverSamples` and `SlotSettled` fail); the code has four.

### Launch and StepEstimator

`Launch`: `engine`, `worker[r]` (a stage of the start-up, `up`, `failed`, `gone`),
`child[r]`, the two directions of every pipe, and `child_end`, whether the parent still
holds the child's end. The handlers are those of `BackwardService.run`, a time-out is
possible wherever the parent polls with a limit. On one GPU the worker is the engine's
process. `StepEstimator` adds, on one rank and one step at a time, the queues, the
buffer, the runner's timing ring and the estimator. `hot` marks a sample whose step shared
the GPU with the child's work: nobody measures it, and `FitsClean` says that it never
reaches a prediction it should not. `Share`, `Grant` and `Put` are the base scheduler's
token budget, `CurrentStepFeatures` what admission believes of it. A duration is never
computed: where admission compares a prediction with a deadline the verdict is open, and
a fit is the set of samples it was made from.

## 3. Runs

| Run | Question | Bounds |
|---|---|---|
| `store` | index coherence, peeks, refinement (with it the epoch's end) | 5 lines of lengths 1, 1, 2, 3 and one too long; 3 epochs: a bucket with two samples, buckets with one, a filtered line, two epoch ends |
| `coordinator` | the account with two steps in flight, aborts and rollbacks out of order | 4 rows, 3 samples, depth 2, tier C and throttle on |
| `coserving` | what the child is given, what the ack commits, how the store is used | two setups: async without interrupts, 2 tokens a step; one interruptible step at a time, 3 tokens; lengths 1, 1, 2; 4 rows; 2 epochs; 2 messages; throttle; dead and slow child |
| `coserving_live` | claims, refinement and progress | async and interruptible together, 2 samples, 3 rows, 2 tokens a step; slow, failing and late-zeroing child |
| `gpu_yield` | the grant | six setups: one rank and two, throttle, both resume policies, `always`, pause on arrival, run-ahead 0 and 1; one cycle, one arrival, up to 3 steps and 3 boundaries |
| `tensor_parallel` | relay, votes, refinement, progress | 2 ranks, 2 samples, 2 rows, depth 2, tier B and C, one layer, a rank may lag 2 steps |
| `backward_cycle` | collectives, static buffers, gradients | 3 layers in groups of 2; 2 cycles over batches of 1, 2+1 and 3 rows (one overflows the padded attention); six setups: one and two ranks, runners on both, one or none, captures that fail at start-up or in replay, an exception in layer 1 or 2, every saved-activation option |
| `model_runner` | what reaches the buffer, the estimator and the request table | samples of 1 and 2 tokens, 3 rows, depth 2, tier C; hooks only, mixed steps graphed, everything graphed |
| `server_life` | the processes; then the estimator | two ranks and one with every fault; one rank with the launch pass in the code's numbers for three configurations; one rank serving up to two requests and two samples in four small configurations (both phases, leaky bucket, prefill share, regime split), two of which start a second server |
| `abort_overlap`, `rps_wedge`, `retired_lost` | see below | the smallest instances that show it |

Why the bounds are enough: three samples and four rows give two steps in flight, a third
that must wait, a buffer that fills exactly, one the next sample cannot fill, and a
remainder at the epoch's end; two epochs make every epoch-end interaction happen before
the last; two cycles let every buffer, ring and slab be met stale once; three layers in
groups of two give a full group, a partial one and a layer in the middle; a lag of two
lets a rank hold steps on both sides of a trigger. Three ranks would add only more of the
same votes. `CHECK_DEADLOCK FALSE` is used where the server really stops: it blocks on
its input queue when there is nothing to do (CoServing, TensorParallel, ServerLife), it
has ended (ServerLife), or the bounded number of cycles is done (BackwardCycle).
Symmetry of samples is used only in runs without liveness.

Properties worth reading first:

* `BackwardReadsSaved` - what the child is given (`n`, `sample_lens`) cuts the buffer into
  segments that each hold one sample, and these are the samples the ack will commit.
* `HandsOverSamples` - the same at the level of tensors: every buffer, every save path,
  when the GPU has really done it.
* `ClaimsTracked` - a sample is claimed exactly while it is in, or on its way to, the
  buffer; otherwise its epoch would never end. `NoAdmissionWedge` - a closed gate always
  has somebody to open it. `TrainsEverything`, `RequestsServed` - progress.
* `TriggerConserved`, `ReopensTogether`, `VotesMatch` - the relay: a command is in exactly
  one place, the gate waits for all, the ranks' calls stay paired.
* `GrantAccounted`, `BlockedFreesGpu`, `CycleEnds` - a paused child is paused by somebody
  who will resume it, has really left the GPU, and finishes.
* `LockStep`, `FreshInputs`, `ServesWhatWasTrained` - the backward across ranks, fall-backs
  and failed cycles.
* `StepAsAdmitted` - the step that runs is the one admission judged. It has one
  exception: a running prompt's last chunk of one token is a decode for
  `_current_step_features` and prefill for `_features_from_output`.
* `FitsClean`, `ProfileSeedsRegimes`, `ProfileLeavesNoTrace` - the estimator.
* `AnswersMatch`, `NoOrphan`, `StartsOrFails` - the processes.

### Fairness

All weak; no strong fairness is used.

* `CoServing`: the engine thread as one action (nothing promises that a particular choice
  is ever taken); the child's work and its zero-fill, while it lives; the input thread
  finishing a signal it began (not clients sending messages); the clock (`Tick`,
  `RateDecays`). `TrainsEverything` is conditional on finetuning staying started, which a
  dead child or a stop command ends.
* `TensorParallel`: engine and workers run (they wait for each other only in the
  modelled calls), children answer. Arrivals and start/stop are not assumed.
* `GpuYield`: the engine steps - an idle engine with a pending backward does, since
  `has_requests` is true -, the GPUs run what is enqueued, children look at the grant,
  the arrival wait's time-out (`Clocks`) passes. The child's 5 s cap is not assumed.
* `BackwardCycle`: hosts and GPUs run. Nobody is assumed to hand over a next buffer.
* `Launch`: a worker, a child and the engine take the next step of their code if they
  can. Death, slowness and crashes are never assumed, nor that a poll times out unless
  nothing else can happen in it.

### Disagreements the runs show

Each is a run whose one property is violated.

* `abort_overlap` - async scheduling with `forward_interruptible`: an FT-only step
  aborted behind which a newer step holds rows leaves a hole, and a later sample is
  written over saved rows. `engine_config.py:11-13` says overlap cannot happen. It needs
  an FT-only step that does not fill the buffer; the shipped presets, whose step budget
  exceeds the buffer, close the gate in that step, but nothing forbids the other case.
* `rps_wedge` - the throttle is released in `schedule()` only, and with the throttle
  engaged `has_requests` (`ft_scheduler.py:610`) lets an idle engine block.
* `retired_lost` - tier B drops the output on which the retired ids were stamped
  (`ft_scheduler.py:1035`), so the runner keeps their states. The base scheduler's own
  `finished_req_ids` go the same way.

Because of these, `BackwardReadsSaved` is checked with two steps in flight *or* with
interrupts, not both; `TrainsEverything` without the throttle; `NoOrphanedState` without
messages that land after the drain.

More that the models brought out, without a run of its own:

* The child's answer precedes its zero-fill if the synchronisation commented out at
  `base.py:459` would be needed (`base.py:452` describes it), and a backward that raised
  is answered and committed like one that ran (`base.py:440`, `508` against
  `coordinator.py:299`). `coserving_live` has both faults and the properties that survive
  them; `BackwardReadsSaved` and `CommitsWhatWasTrained` are checked without.
* `has_requests` (`ft_scheduler.py:612`) stays true after the last epoch; the comment at
  618 says that the engine idles.
* Launch pass: with `graph_ft_batches` and the default `profile_num_repeats=2` the eager
  regime gets eight samples, the last of which is still in the runner's ring at the fit:
  seven are below `MIN_FIT_SAMPLES`, and the regime admission relies on most starts
  without coefficients. `engine_core.py:338` calls the dropped tail negligible.
  `ProfileSeedsRegimes` is violated for these options and is checked with three
  repetitions. The tail is not dropped either (340): serving's first steps push it.
* `check_refit` (`estimator.py:277`) never fires again once the tracker is at its cap.
* A regime with too few samples keeps its coefficients and loses its RMSE, and with it the
  safety margin (`estimator.py:437`, `518`).
* If the contended decode is the only regime with coefficients, `predict` raises and the
  engine ends (`Raises`; `estimator.py:405` says "predict returns 0"), and the state it
  saves on the way does the same to the next server. It needs a server without launch
  pass and a first refit with too few samples in every other regime.
* Under async scheduling the step scheduled before `record_capture` triggers a backward
  is stamped `bwd=False` while the child works beside it: `FitsClean` is checked for
  synchronous stepping, where it holds.
* An explicit save of the estimator's state, to any path, makes the shutdown hooks skip
  theirs, and the flag is set before the write has succeeded (`ft_scheduler.py:767`).
* `import_state` (`estimator.py:355`) says that regimes missing from the export keep their
  fit; the export writes every regime.
* Under TP the scheduler that has given up an overdue child is turned on again by the next
  relayed `ft_started` (`coordinator.py:849` says "disabled for the rest of this run").
* `FtAbortPoller.finish` absorbs an arrival, so an FT-only step scheduled already does not
  bail out at its entry, contrary to `model_runner.py:276-279`.
* `share_weights` is answered before the state is built, so a build longer than 120 s
  makes the next command time out; and a child whose build has failed under TP blocks its
  peer's first cycle.

## 4. Proofs

TLAPS proves these for every value of the constants.

`FinetuningStoreProofs`, from `StoreAssumption` (lengths are positive, at least one
epoch). The inductive invariant `IInv` is the shape of the record and `Index`: the
buckets' domain is `lengths`, no bucket is empty, each holds exactly the selectable
samples of its length. `BucketsCoherent` alone is not inductive without the types and
the disjointness of claimed and trained. From it: `TypeCorrect`, `IndexCoherent`,
`EpochsComplete` (nothing selectable and nothing claimed means everything trained, since
no bucket means no sample), `PeeksCorrect` (a walk over the buckets returns what a search
of the pool returns, since a bucket is the selectable samples of its length), and
`Refinement`, which maps each operation on the index to the operation on the sets.

`CoordinatorProofs`, from `CoordAssumption`.

* `TypeCorrect`.
* `GateNeverWedges` - for every depth and every order of rollbacks. `NoAdmissionWedge` is
  not inductive: a rollback restores a snapshot. `WedgeInv` adds `SnapOpen`: every
  snapshot held by a step was taken with the gate open, because a step gets rows only
  when the budget is positive.
* `TriggersSettled` - unconditional.
* `BufferNeverOverflows`, `RowsStayContiguous`, `ChildHasBufferAlone` - under
  `Serial == ~Interruptible \/ Depth = 1`, which is necessary for the second
  (`abort_overlap`). `BufInv` adds to them that the steps in flight are ordered, that
  each one's rows lie between `fill_count` and the end of the reserved rows
  (`HeldRows`), and that no step is aborted unless tier C is on.
* `SamplesStayAccounted` - also under `Serial`. `SampInv` adds `OnTheirWay`: while no row
  is saved, every sample the buffer lists belongs to a step in flight. That is what an
  undo of the last step needs to leave the buffer empty.

`GpuYieldProofs`, from `YieldAssumption`, for every configuration (ranks, throttle,
deferred resume, pause on arrival, run-ahead bound) and any number of steps, cycles and
arrivals. `YieldInv` is inductive; beyond the types it has four parts:

* `GrantInv`: a cleared grant is on record, or the step that cleared it has yet to put it
  there. The property speaks of the time between steps only; the invariant names who is
  about to write it down. Gives `GrantsAccounted`.
* `BehindInv`: every forward on the GPU that the grant was cleared for lies before the
  event the deferred resume waits for, and a relayed trigger's prefill before the event
  of the last prefill. Gives `PrefillsProtected`.
* `BarrierInv`: the children are on their way to one boundary and stop there together,
  and a runner knows whether its child is in a cycle (`CycleKnown`); otherwise a relayed
  trigger could restart one child of two.
* `LagInv`: the event of a ring slot waits for all segments but those enqueued since it
  was recorded (`Age`), so a child past its wait has at most `ahead` of them queued. With
  `BarrierInv` it gives `PausesFreeGpu`.

`TensorParallelProofs`, for any number of ranks, layers, slots of the broadcast queue and
steps. `VoteInv` compares the ranks in pairs: what the one ahead still has to process is
the end of what the one behind has (`Follows`); the steps between them need no all-reduce
(`SilentBetween`); the one ahead has met no all-reduce the other has not (`Lead`); and two
in one step have the same boundaries behind them and the same outcome (`Together`).
`VotesMatch` alone says nothing of a rank that has not reached its vote. From it:
`VotesAlwaysMatch` and `OutcomesAgree`. Nothing is assumed of when arrivals are seen, or
of when children answer.

The relay has an invariant of its own, `RelayInv`. While a backward is pending its token
is, for every rank, in exactly one place: the scheduler's stash, the step being built, a
step the rank has yet to process (`Ahead`), the child at work (`Outstanding`), or the
answer on its way back (`AckOnItsWay`); and a step that carries the command has no rows,
so tier B cannot undo it. `TriggerConserved` counts tokens and does not say where they
are; without the places a step that moves one could be a step that makes two. From it:
`TriggerIsConserved` and `ReopensAllTogether`.

`BackwardCycleProofs`, for any number of ranks, layers and buckets and any fall-backs.
`BoundaryInv`: a rank votes at a boundary. `OrderInv`: every collective in a rank's queue
is the successor (`Succ`) of the one before it, the next one the host will issue
(`NextCall`) is the successor of the last, and two ranks agree on what both have
enqueued. `LockStep` compares queues only; the successor relation is what makes a rank
that is ahead predict the others. From it: `CallsInLockStep`. `CycleAssumption` asks that a
batch be a sequence of lengths and that a set-up have finitely many ranks and at least one.

* `FreshInv` says what every static buffer and every cache holds between the forward of
  a layer and its gradients: the layer's rows, wherever the view is taken (`CacheInv`).
  `FreshInputs` speaks of what the kernels have read and forgets it after the layer. The
  proof rests on `SlotsApart`: the rows of a batch have distinct slots of the padded
  attention, and the rows past it share the first, with zeros once `_stage_ffn_inputs`
  and `_stage_attn_inputs` have run. That takes the sums of the samples before one
  (`Before`, a recursive function), by induction on the naturals in the first-order form
  described below. From it: `ReadsTheLayersRows`.
* `TrainInv` follows a gradient: enqueued behind those of the layers above and whatever a
  cycle given up half-way left (`QueueInv`); written in the slab; summed with its group by
  the one reduce submitted when the group is in, never before its stash has run
  (`BucketInv`, `GroupInv`); collected and published last (`SyncInv`). `BarrierInv` is
  what the served sums alone do not show: a gradient stands behind an inline reduce of its own
  cycle, and the communicator is one queue, so every collective of an earlier cycle runs
  first. From it: `TrainsOnEveryRank`.

`ModelRunnerProofs`, for every corpus, buffer, configuration of the save points and depth.
`TimingInv` says of every slot of the ring which step's events are in the stream and
which have been recorded (`OccupantInv`), that each whole forward has its end of step
behind it and the slots follow the order of the forwards (`StepsInv`), and that the ends
of steps in the stream are the steps in flight whose output cannot be read yet
(`AwaitedInv`). From it: `PairsAreTheStepsOwn`; `NoTimingDropped`, assuming
`Depth <= TimingRing` (the code: at most 2, and 4); and `NothingOrphaned`, assuming
`~LateArrivals`, which is necessary (`retired_lost`).

`RowsInv` speaks of the rows. `HandsOverSamples` looks at the buffers when the child reads;
before that they hold only part of what has been accounted for, since the host commits a
step's rows when it enqueues the copies. The invariant foresees the rest of the stream.

* `RowInv`: there is an order of the samples accounted for such that `sample_lens` are
  their lengths, and for every buffer and every row `Comes` holds: the row has its token,
  or an element of the stream, of a step that was not left, will save it there, and none
  behind that one touches it. Once the trigger has waited for the copies, the stream has
  no such element (`ReadingInv`), and the row has it.
* `PinInv`: the indexes of a step whose copy is still in the stream are in the staging slot
  used last, or in the one before it while the queue is full. So the slot staged next is
  free (`SlotSpared`). This needs `Depth <= PinRing` (the code: at most 2, and 4), the
  theorem's hypothesis; with one slot TLC finds the violation.
* `HoldInv`: while an aborted step holds rows, nothing else fits and the child is idle, so
  that no later step saves behind rows that will be given back.

Two facts about the data carry it. Whichever way the rows are gathered, as a slice, under
the mask or through the index tensors, they are the samples' tokens in the order of the
batch, wherever the inference request stands in it (`FlatSplit`, `HookLands`, `OpLands`);
and a forward that was not left saves each value into its own buffer, for any number of
layers and any set of save points, with a packed projection or without
(`WholeForwardFills`). Both need sums and joins of sequences of any length, by the
inductions described below. From it: `HandedOver`.

`StepEstimatorProofs`, from `LaunchAssumption` and `StepAssumption`, for every set of
deployments, faults and options. `StepAssumption` asks that the corpus be finite, its
samples have distinct positive lengths, and nobody but the profiler use the profiler's
request id (the code's prefix `__prof_`).

* `TalkInv`: what is on its way to a worker - in the pipe, in the child, or as a command
  the child has not read - is one event at most, and the one the worker's stage expects
  (`OneAnswer`). `AnswersMatch` looks at the pipe from the child alone, and is lost as
  soon as a second command is sent; the invariant counts the answers to come. Gives
  `AnswersAreAwaited`, whatever dies or times out.
* `FitInv`: the child works only beside steps stamped with it (`CompanyInv`), which holds
  because the trigger comes after a step and the answer is polled before one; hence every
  sample in the ring, the queue, the tracker and the file that had company is stamped,
  and a regime but the contended decode is never fitted from one (`SamplesInv`). With
  `NobodyBorrowsContended` it gives `FitsStayClean`.
* `TraceInv` says what the scheduler and the buffer hold. While the pass runs
  (`PassInv`) every queued request is the profiler's, no sample is taken and no work is
  asked for, and between two shapes the queues and the account are empty: after the last
  shape there is nothing to hand on. That every wave of the plan is a sequence of prompts,
  whatever the options, is `PlanOk`. While the server serves (`ServeInv`) a sample is free,
  in the step or in the buffer, the account is the sum of the samples held, and the step's
  finetuning tokens are those of the samples it carries. The last is not local:
  the buffer gets the tokens of the step but the samples as a whole, so that the account
  is right only because no sample is cut. From it: `LaunchLeavesNothing`.
* No sample is cut because admission asks for no more than the budget leaves
  (`AdmittedFits`) and its estimate of what inference takes is exact (`BudgetLeft`): if
  prefill and decodes as estimated leave a token, every request before the samples gets
  all it needs, so that the samples behind get theirs (`WholeWithSamples`,
  `SamplesAreWhole`). With the whole queue in the step the estimate is then what
  `_features_from_output` counts (`StepIsJudged`), but for the last chunk of one token.
  From it: `ServesAsAdmitted`. Both rest on sums over queues and sets of samples
  (`SumParts`, `SumImage`), by the inductions described below. The theorem speaks of a
  server that serves. In the pass, where admission is off, `StepAsAdmitted` says that
  the plan's own samples fit into a step, which is true only of a buffer not larger than
  the step's budget, and stays a matter of the run's configurations.

`CoServingProofs`, from `CoServingAssumption` (a finite corpus, samples that fit the
buffer), for every corpus, buffer, set of set-ups, depth and fault. The first two hold in
the setup of `abort_overlap` too, where the rows are not contiguous.

* `PoolInv` is `ClaimsTracked` and the shape of the pool. The point of its proof is
  `StepEffects`: of all the steps of all the threads only four kinds touch the pool or the
  coordinator's list, and `ClaimThenDrop`: a step claims its samples through one call and
  gives back what was not scheduled through another, and as the samples it picked were
  selectable, the two are one claim of what was scheduled. From it: `EveryClaimTracked`,
  and `DrivesThePool`, that the engine is a client of `SamplePool`. With the store's
  `Refinement` this closes the chain between the engine and the buckets.
* `QueuesInv` says where the thread can be with which steps in its queue: at most the
  newest one has not run, all have when it schedules, and the rows of each divide into
  samples (`RowsFit`). `ImplementsCoordinator` says nothing of the thread; without
  `ThreadInv` a capture could come out of order and a queue could be too long. From it,
  one lemma for each kind of step (`ScheduleSimulates`, `TierBSimulates`,
  `ForwardSimulates`, `UpdateSimulates`, `OthersSimulate`): `DrivesTheCoordinator`. What
  `CoordinatorProofs` shows of the coordinator, for its callers' protocol, thereby holds
  of the engine.
* `BufferInv` speaks of the rows one by one. `ReserveInv`: what is reserved is the newest
  step's, right behind the rows saved, and nothing is while a backward is pending.
  `LensInv` and `RowsInv`: the first `fill_count` rows divide, in the order of
  `sample_lens`, into those of the samples saved (`RowsUpTo`), and each row has the owner
  this gives it (`SavedAs`). `CommitInv`: an answer on its way names what is in the
  buffer, none of it trained. `BackwardReadsSaved` looks at the moment the child reads and
  says nothing of the steps before it. A step saves behind what is there (`SavesBehind`),
  and every other operation leaves the saved rows alone (`SavedStays`). From them:
  `ReadsWhatWasSaved` and `TrainsWhatWasRead`.

  These two have hypotheses. `Serial`: an abortable step is alone in flight; without it
  the first is false (`abort_overlap`). `Punctual`: the child zeroes the buffer before it
  answers; the fault `late_zero` and a failed backward (`"error"`, for the second theorem)
  are the deviations described in section 3. The setups of `CoServing.cfg` satisfy all of
  them.

`DrivesTheCoordinator` needs sums over sequences and queues of any length, by induction
over data. The library's induction theorems take an operator as a parameter, which the
provers cannot instantiate; but `WFMin` is first-order, and with the well-foundedness of
the naturals' order and of strict inclusion it gives `Upward` and `SubsetInduction`, in
which what is to be shown is a set. From these: `SumRec` and `SumRemove` (the order of a
sum does not matter), `TotalOfBatch`, `CutPoint` (the samples scheduled are the first ones
of the batch, whole but for the last), and `ReservationsStep`, `ReservationsTail` (the
reservations of a queue, at either end).

Since `CoServing` (for all constants) and `TensorParallel` (on the instance checked) refine
`Coordinator`, its theorems speak of them too.

Model-checked only: `NoOverflow`, `ChildOwnsBuffer` and `SamplesAccounted` for two
interruptible steps; that `TensorParallel` refines `Coordinator`; `StepAsAdmitted` of the
steps of the launch pass, and that the pass fits every regime (`ProfileSeedsRegimes`): both
depend on the numbers of the configuration. Beyond the prover: liveness under
fairness, ENABLED, and RECURSIVE operators, which the modules avoid.

## 5. Not modelled, and the plan

Not modelled because a model checker has nothing to say: the arithmetic of layers,
regression and sampling; parsing of configuration; the step trace and other logs, which
nothing reads back; HTTP; benchmarks, scripts and tests.

Left out of a modelled part: the dispatcher's key sets and capture at launch
(`cudagraph.py`), the layout of the step metadata; preemption of running requests and the
async queue-wait term of admission; `StepEstimator` under TP and with several epochs;
ping, checksum and the shutdown command of the child, which only tests send; an exception
or a failed build on one rank alone inside a cycle, which leaves the peer waiting until
the stuck detection gives the backward up; torch's rendezvous time-out, which is longer
than the parent's poll.

Next:

1. Proofs: `NoOverflow` and `ChildOwnsBuffer` without `Serial`; that `TensorParallel` refines `Coordinator`.
2. `StepEstimator` with two steps in flight, stating how many contaminated samples a cycle
   may leave.
3. Aborts at a hook or a segment under TP (`ModelRunner` with the votes of
   `TensorParallel`).
