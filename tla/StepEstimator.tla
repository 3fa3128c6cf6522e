--------------------------- MODULE StepEstimator ---------------------------
(***************************************************************************)
(* The steps of a server on one GPU, one at a time, as the execution-time   *)
(* estimator sees them: the launch pass (engine_core.py, Profiling), what   *)
(* admission reasons on (admit_ft_to_step of ft_scheduler.py), what the step *)
(* then is, the sample the runner takes of it, the tracker and the fits      *)
(* (estimator.py), and the state a server leaves to the next one.            *)
(*                                                                          *)
(* A predicted duration is a number of the hardware: where admission asks    *)
(* for one its verdict is left open.  Of a fit only the samples it is made   *)
(* from are kept.  The gate and the rows are Coordinator's and ModelRunner's *)
(* subject and appear with their effect only.                                *)
(***************************************************************************)
EXTENDS Launch, Profiling, FiniteSetsExt, SequencesExt

CONSTANTS
    Options,        \* the configurations of a run
    Samples,        \* of the corpus
    SampleLen

\* batch, capacity, max_len, split and repeats as in Profiling; phase:
\* coserving_admission_phase; match: match_prefill_workload_factor, 0 for none;
\* prop: ft_tokens_admission_constrain_factor, -1 for none; min_fit,
\* refit_every, max_steps and ring: MIN_FIT_SAMPLES, REFIT_EVERY, the size of
\* the tracker and _RING (8, 256, 10240 and 4).  kinds and launches bound a
\* run: the requests a client sends to a server, [id, len, max], each once, and
\* how often the server is started.
Kind == [id : STRING, len : Nat \ {0}, max : Nat \ {0}]
Option == [batch : Nat, capacity : Nat, max_len : Nat, split : BOOLEAN,
           repeats : Nat, phase : {"prefill", "both"}, match : Nat,
           prop : Nat \cup {-1}, min_fit : Nat, refit_every : Nat \ {0},
           max_steps : Nat, ring : Nat \ {0}, kinds : SUBSET Kind, launches : Nat]

ASSUME StepAssumption ==
    /\ Options # {} /\ Options \subseteq Option
    /\ IsFiniteSet(Samples) /\ SampleLen \in [Samples -> Nat \ {0}]
    /\ \A s, t \in Samples : SampleLen[s] = SampleLen[t] => s = t
    /\ \A o \in Options : \A k \in o.kinds : k.id # "prof"
    /\ "prof" \notin Samples

VARIABLES
    options,
    stage,          \* setup, profile, serving
    shape, wave,    \* the profiler's place in its plan
    running, waiting,   \* the queues of the scheduler
    sent,           \* the requests that have arrived
    pool,           \* the samples neither claimed nor trained
    held, fill,     \* the samples and the rows in the buffer
    unspent,        \* _unspent_prefill
    step,           \* the scheduled step, or NoStep
    ring,           \* the samples whose end event has not been read
    completed,      \* push_sample's queue
    tracker, last_refit,
    fitted,         \* the regimes with coefficients
    dirty,          \* those fitted from steps that shared the GPU
    file, saved,    \* the estimator's state on disk
    launches

queue_vars == <<running, waiting, sent>>
buffer_vars == <<pool, held, fill, unspent>>
model_vars == <<tracker, last_refit, fitted, dirty>>
profile_vars == <<stage, shape, wave>>
step_vars == <<options, profile_vars, queue_vars, buffer_vars, step, ring,
               completed, model_vars, file, saved, launches>>

NoStep == [none |-> TRUE]
NoFile == [none |-> TRUE]

\* A request in a queue; a sample travels as one (id, one token).
Req(id, len, max, ft) ==
    [id |-> id, len |-> len, max |-> max, ft |-> ft, computed |-> 0, got |-> 0]

\* What is left of the prompt and the tokens generated so far.
Need(req) == req.len + req.got - req.computed

SumLens(S) == SumFunctionOnSet(SampleLen, S)

\* What is left of each request of a queue.
Needs(queue) == [i \in DOMAIN queue |-> Need(queue[i])]

\* The i-th of a queue, with the budget spent in the order of the queue.
Share(queue, i) ==
    AtLeast(0, AtMost(Need(queue[i]),
        options.batch - SumFunctionOnSet(Needs(queue), 1..(i - 1))))
Shares(queue) == [i \in DOMAIN queue |-> Share(queue, i)]

-----------------------------------------------------------------------------
(***************************************************************************)
(* estimator.py: samples, regimes, tracker and fits.                        *)
(***************************************************************************)

\* StepFeatures.  k, p and the lengths only scale a prediction.
Features(t_in, t_ft, b_d, bwd) == [t_in |-> t_in, t_ft |-> t_ft, b_d |-> b_d, bwd |-> bwd]

Regime(f) ==
    CASE f.t_ft > 0 /\ options.split /\ (f.t_in > f.t_ft \/ f.b_d > 0) -> "ft_mixed"
      [] f.t_ft > 0 -> "eager"
      [] f.t_in > 0 -> "inf_prefill"
      [] f.bwd -> "decode_bwd"
      [] OTHER -> "decode_only"

\* Mutant: the contended steps are fitted like the others.
NeverContended(f) == FALSE

Contended(f) == f.bwd /\ f.t_in > 0

\* Of a sample the tracker's numbers are kept as far as a regime tells them
\* apart; hot: the child did work on the GPU meanwhile, which nobody measures.
Tracked(sample) ==
    LET f == sample.feats
        one(n) == IF n > 0 THEN 1 ELSE 0
    IN  [t_in |-> one(f.t_ft) + one(f.t_in - f.t_ft), t_ft |-> one(f.t_ft),
         b_d |-> one(f.b_d), bwd |-> f.bwd, hot |-> sample.hot]

\* add, for all that is queued: the tracker keeps the last max_steps.
Drained ==
    LET all == tracker \o [i \in DOMAIN completed |-> Tracked(completed[i])]
    IN  SubSeq(all, AtLeast(0, Len(all) - options.max_steps) + 1, Len(all))

CheckRefit(t) ==
    Len(t) > 0 /\ Len(t) % options.refit_every = 0 /\ Len(t) > last_refit

FitSamples(t, regime) ==
    {i \in DOMAIN t : ~Contended(t[i]) /\ Regime(t[i]) = regime}

Regimes == {"inf_prefill", "eager", "decode_only", "decode_bwd", "ft_mixed"}

\* data_fit: the regimes that have samples enough, the others keep theirs.
DataFit(t) ==
    LET enough == AtLeast(1, options.min_fit)
        fits == {r \in Regimes : Cardinality(FitSamples(t, r)) >= enough}
    IN  /\ fitted' = fitted \cup fits
        /\ dirty' = (dirty \ fits)
              \cup {r \in fits : \E i \in FitSamples(t, r) : t[i].hot}

\* Mutant: a regime without coefficients borrows any there are.
BorrowsAny(regime) == <<"eager", "ft_mixed", "inf_prefill", "decode_only", "decode_bwd">>

\* Whose coefficients a regime without its own borrows, the first there are.
\* Nobody borrows those of the contended decode.
Borrows(regime) ==
    (IF regime = "decode_bwd" THEN <<"decode_only">> ELSE <<>>)
    \o <<"eager", "ft_mixed", "inf_prefill", "decode_only">>

\* _select: the regime a prediction is made from, when there is a fit.
Select(regime, fits) ==
    LET order == <<regime>> \o Borrows(regime)
        usable == {i \in DOMAIN order : order[i] \in fits}
    IN  IF usable = {} THEN "none" ELSE order[Min(usable)]

\* predict, with no coefficients to compute with: the TypeError ends the engine.
Raises(regime, fits) == fits # {} /\ Select(regime, fits) = "none"

-----------------------------------------------------------------------------
(***************************************************************************)
(* Admission.                                                               *)
(***************************************************************************)

\* Mutant: the next chunk of a running prompt is taken for a decode token.
ChunksAsDecodes ==
    LET queue == running \o waiting
    IN  [t_in |-> SumFunctionOnSet(Shares(queue), Len(running)+1..Len(queue)),
         b_d |-> Len(running)]

\* _current_step_features: chunks of the running prompts and the head of the
\* waiting queue in what is left of the budget; the rest of running decodes.
CurrentStepFeatures ==
    LET queue == running \o waiting
        prefill == {i \in DOMAIN queue : i > Len(running) \/ Need(queue[i]) > 1}
    IN  [t_in |-> SumFunctionOnSet(Shares(queue), prefill),
         b_d |-> Len(queue) - Cardinality(prefill)]

\* One GPU: pending_backward is the worker's due.
Pending == \E r \in Ranks : due[r]

Closest(S) == CHOOSE s \in S : \A t \in S : SampleLen[s] <= SampleLen[t]

\* admit_ft_to_step takes the shortest first, up to a cap.
Greedy(cap) ==
    {S \in SUBSET pool :
        S = {} \/ (/\ SumLens(S) <= cap
                   /\ \A s \in S, t \in pool \ S : SampleLen[s] < SampleLen[t])}

Largest(sets) == CHOOSE S \in sets : \A T \in sets : Cardinality(T) <= Cardinality(S)

\* Mutant: the step's token budget is left to the base scheduler.
IgnoresBudget(f, rows) == options.capacity - rows

\* What the samples of the step may add up to, with rows in the buffer: its
\* room, what inference leaves of the step's budget, a share of the prefill.
TokenCap(f, rows) ==
    Min({options.capacity - rows, options.batch - f.t_in - f.b_d}
        \cup IF options.prop # -1 /\ f.t_in > 0 THEN {f.t_in * options.prop} ELSE {})

\* The leaky bucket: not enough prefill seen since the last sample.
Metered(f) == options.match > 0 /\ f.t_in > 0
Owing(f) == Metered(f) /\ (unspent + f.t_in) * options.match < SampleLen[Closest(pool)]

\* Stages 0 and 2: no backward, room, samples, and the phase.
MayAdmit(f, pending, rows) ==
    /\ ~pending /\ rows < options.capacity /\ pool # {}
    /\ ~(options.phase = "prefill" /\ f.t_in = 0 /\ f.b_d > 0)

HasDeadline(f) == f.b_d > 0 \/ (f.t_in > 0 /\ waiting # <<>>)

\* _unspent_prefill: spent by an admission; saved up by a step that owes, unless
\* the headroom check has turned it away before.
Unspent(f, S, eligible, ready) ==
    IF S # {} THEN {0}
    ELSE IF eligible /\ Owing(f)
         THEN {unspent + f.t_in} \cup {n \in {unspent} : ready /\ HasDeadline(f)}
    ELSE {unspent}

\* Stages 3 to 5: the sets of samples that may be claimed.  With a fit and a
\* deadline the predictions stop the loop anywhere, else it takes all that fit.
Admissible(f, pending, rows, ready) ==
    LET sets == {S \in Greedy(TokenCap(f, rows)) : Metered(f) => Cardinality(S) <= 1}
    IN  IF ~MayAdmit(f, pending, rows) \/ Owing(f) THEN {{}}
        ELSE IF ready /\ HasDeadline(f) THEN sets
        ELSE {Largest(sets)}

\* What admission predicts on the way: the step as it is, unless it is idle,
\* then the step with the first sample that fits.
AdmissionRaises(f, pending, rows, fits) ==
    /\ MayAdmit(f, pending, rows)
    /\ \/ f.b_d > 0 /\ f.t_in = 0 /\ Raises("decode_only", fits)
       \/ f.t_in > 0 /\ Raises("inf_prefill", fits)
       \/ Raises("eager", fits) /\ Greedy(TokenCap(f, rows)) # {{}}

-----------------------------------------------------------------------------
(***************************************************************************)
(* One step: schedule, execute, update.                                     *)
(***************************************************************************)
SampleReqs(S) ==
    LET sample(i) == CHOOSE s \in S : Cardinality({t \in S : SampleLen[t] < SampleLen[s]}) = i - 1
    IN  [i \in 1..Cardinality(S) |-> Req(sample(i), SampleLen[sample(i)], 1, TRUE)]

\* The base scheduler: the running requests, then the waiting ones up to one it
\* has no room for (blocks, max_num_seqs); prompts are cut to the budget.
Grant(queue, taken) ==
    [i \in DOMAIN queue |->
        [req |-> queue[i], n |-> IF i <= taken THEN Share(queue, i) ELSE 0]]

\* Mutant: the computed tokens are read after the base scheduler advanced them.
PrefillAfterStep(g) == g.req.computed + g.n < g.req.len

\* A request that still consumes its prompt is prefill.
IsPrefill(g) == g.req.computed < g.req.len

\* _features_from_output.
FeaturesFromOutput(granted, bwd) ==
    LET prefill == {i \in DOMAIN granted : IsPrefill(granted[i])}
        tokens(S) == SumFunctionOnSet([i \in DOMAIN granted |-> granted[i].n], S)
    IN  Features(tokens(prefill), tokens({i \in prefill : granted[i].req.ft}),
                 Cardinality({i \in DOMAIN granted \ prefill : granted[i].n > 0}), bwd)

\* schedule from the base scheduler on: queue is running, then waiting, then
\* what was admitted.  A sample that was not scheduled is dropped again.
\* judged: what admission reasoned on, if it admitted anything.
Put(queue, taken, judged, bwd) ==
    LET granted == Grant(queue, taken)
        ran(i) == granted[i].n > 0
        advanced == [i \in DOMAIN queue |->
                        [queue[i] EXCEPT !.computed = @ + granted[i].n]]
        samples == {queue[i].id : i \in {j \in DOMAIN queue : queue[j].ft /\ ran(j)}} \cap Samples
    IN  /\ running' = Picked(advanced, {i \in DOMAIN queue : i <= Len(running) \/ ran(i)})
        /\ waiting' = Picked(queue, {i \in DOMAIN queue :
                                       i > Len(running) /\ ~ran(i) /\ ~queue[i].ft})
        /\ pool' = pool \ samples
        /\ step' = IF \A i \in DOMAIN queue : ~ran(i) THEN NoStep
                   ELSE [feats |-> FeaturesFromOutput(granted, bwd),
                         samples |-> samples,
                         cut |-> \E i \in DOMAIN queue :
                                    queue[i].ft /\ granted[i].n \notin {0, Need(queue[i])},
                         refused |-> taken < Len(queue),
                         last |-> \E i \in DOMAIN running :
                                    Need(running[i]) = 1 /\ IsPrefill(granted[i]),
                         judged |-> judged]

UpAndIdle == engine = "serving" /\ step = NoStep /\ \A r \in Ranks : worker[r] = "up"

\* drain_completed_samples, and check_refit unless the profiler drives.
DrainAndRefit ==
    /\ tracker' = Drained /\ completed' = <<>>
    /\ IF stage = "serving" /\ CheckRefit(Drained)
       THEN last_refit' = Len(Drained) /\ DataFit(Drained)
       ELSE UNCHANGED <<last_refit, fitted, dirty>>

\* poll_backward: the samples of the cycle are trained, the buffer is empty.
Poll ==
    IF \E r \in Ranks : due[r] /\ answers[r] # <<>>
    THEN (\E r \in Ranks : TakeAck(r)) /\ held' = {} /\ fill' = 0
    ELSE UNCHANGED <<answers, due, held, fill>>

HasRequests == running # <<>> \/ waiting # <<>> \/ pool # {} \/ Pending

Export == [tracker |-> tracker, last_refit |-> last_refit, fitted |-> fitted, dirty |-> dirty]

\* save_estimator_state of the shutdown hooks: unless it was saved before.
SaveOnce(state_now) == file' = (IF saved THEN file ELSE state_now) /\ saved' = TRUE

\* An exception in the engine's loop ends it, by way of the shutdown hooks.
EngineRaises ==
    /\ engine' = "gone"
    /\ SaveOnce([tracker |-> tracker', last_refit |-> last_refit',
                 fitted |-> fitted', dirty |-> dirty'])

\* _schedule_step.
Schedule ==
    /\ stage = "serving" /\ UpAndIdle /\ HasRequests
    /\ UNCHANGED <<setup, worker, child, child_end, requests, state, verified,
                   cycles, options, profile_vars, sent, ring, launches>>
    /\ DrainAndRefit /\ Poll
    /\ LET f == CurrentStepFeatures
           queue == running \o waiting
       IN  \E S \in Admissible(f, Pending', fill', fitted' # {}),
              taken \in Len(running)..(Len(queue) + Cardinality(pool)) :
               /\ taken <= Len(queue) + Cardinality(S)
               /\ Put(queue \o SampleReqs(S), taken, IF S = {} THEN <<>> ELSE <<f>>, Pending')
               /\ unspent' \in Unspent(f, S, MayAdmit(f, Pending', fill'), fitted' # {})
               /\ IF \/ AdmissionRaises(f, Pending', fill', fitted')
                     \/ step' # NoStep /\ Raises(Regime(step'.feats), fitted')
                  THEN EngineRaises
                  ELSE UNCHANGED <<engine, file, saved>>

\* A sample the runner has timed: pushed when its slot is used again, if the
\* recording gate was open (record_timing).
Recording == stage = "serving" \/ shape > Len(Warmup(options))

PushSample(sample) == completed' = Append(completed, sample)

TakeTiming(hot) ==
    LET sample == [feats |-> step.feats, hot |-> hot, rec |-> Recording]
        full == Len(ring) = options.ring
    IN  /\ ring' = Append(IF full THEN Tail(ring) ELSE ring, sample)
        /\ IF full /\ Head(ring).rec THEN PushSample(Head(ring)) ELSE UNCHANGED completed

\* The next sample does not fit any more, or there is none.
CannotGrow(rows) == pool = {} \/ rows + SampleLen[Closest(pool)] > options.capacity

\* Mutant: the profiler's samples are handed to the child when they fill the buffer.
TriggersAlways(rows) == CannotGrow(rows)

\* record_capture: nothing is triggered while profiling.
Triggers(rows) == stage = "serving" /\ CannotGrow(rows)

\* The forward, with the child's unanswered work beside it, what it saves, and
\* update_from_output: samples leave, a request that has all its tokens too.
Execute ==
    /\ step # NoStep /\ engine = "serving"
    /\ \A r \in Ranks : worker[r] = "up" /\ (step.feats.t_ft > 0 => verified[r])
    /\ TakeTiming(\E r \in Ranks : due[r] /\ Alive(r) /\ answers[r] = <<>>)
    /\ held' = held \cup step.samples
    /\ fill' = fill + step.feats.t_ft
    /\ IF step.feats.t_ft > 0 /\ ~Pending /\ Triggers(fill') THEN SignalWork
       ELSE UNCHANGED <<requests, due, cycles>>
    /\ running' = LET sampled == [i \in DOMAIN running |->
                         IF Need(running[i]) = 0 THEN [running[i] EXCEPT !.got = @ + 1]
                                                 ELSE running[i]]
                  IN  Picked(sampled, {i \in DOMAIN sampled :
                                         ~sampled[i].ft /\ sampled[i].got < sampled[i].max})
    /\ step' = NoStep
    /\ UNCHANGED <<setup, engine, worker, child, child_end, answers, state, verified,
                   options, profile_vars, waiting, sent, pool, unspent, model_vars,
                   file, saved, launches>>

AddRequest(kind) ==
    /\ stage = "serving" /\ UpAndIdle /\ kind \notin sent
    /\ sent' = sent \cup {kind}
    /\ waiting' = Append(waiting, Req(kind.id, kind.len, kind.max, FALSE))
    /\ UNCHANGED <<launch_vars, options, profile_vars, running, buffer_vars, step,
                   ring, completed, model_vars, file, saved, launches>>

-----------------------------------------------------------------------------
(***************************************************************************)
(* The launch pass, and the state carried from one server to the next.      *)
(***************************************************************************)

\* Mutant: an imported sample has forgotten the backward beside it.
ForgetsBackward(t) == [i \in DOMAIN t |-> [t[i] EXCEPT !.bwd = FALSE]]

\* Every field of a sample is in the file.
Imported(t) == t

\* load_estimator_state replaces what there is.
Load ==
    IF file = NoFile THEN UNCHANGED model_vars
    ELSE /\ tracker' = Imported(file.tracker)
         /\ last_refit' = AtMost(file.last_refit, Len(file.tracker))
         /\ fitted' = file.fitted /\ dirty' = file.dirty

\* profile_execution_model: without profile_on_launch a saved state is all.
StartProfile ==
    IF options.repeats = 0 THEN stage' = "serving" /\ Load
    ELSE stage' = "profile" /\ UNCHANGED model_vars

\* before_busy_loop.
BeforeBusyLoop ==
    /\ stage = "setup" /\ UpAndIdle /\ setup.steps
    /\ StartProfile
    /\ UNCHANGED <<launch_vars, options, shape, wave, queue_vars, buffer_vars, step,
                   ring, completed, file, saved, launches>>

Prompts(lens, max, ft) == [i \in DOMAIN lens |-> Req("prof", lens[i], max, ft)]

\* There is a shape left to run.
ShapeLeft == shape <= Len(Plan(options))

\* _profiling_step, after the wave that belongs to it; admission is off.
ProfilingStep ==
    /\ stage = "profile" /\ UpAndIdle /\ ShapeLeft
    /\ LET s == Plan(options)[shape]
           w == WaveOf(s, wave)
           queue == running \o waiting \o Prompts(w.inf, w.max, FALSE) \o Prompts(w.ft, 1, TRUE)
       IN  /\ wave <= StepsOf(s)
           /\ Put(queue, Len(queue), <<>>, FALSE)
    /\ wave' = wave + 1
    /\ DrainAndRefit
    /\ UNCHANGED <<launch_vars, options, stage, shape, sent, held, fill, unspent, ring,
                   file, saved, launches>>

\* Mutant: the rows of a shape stay on the account.
KeepsRows == UNCHANGED <<held, fill>>

\* reset_coord.
ResetCoord == held' = {} /\ fill' = 0

\* purge_profiling_requests and reset_coord after every shape.
EndShape ==
    /\ stage = "profile" /\ UpAndIdle /\ ShapeLeft
    /\ wave > StepsOf(Plan(options)[shape])
    /\ running' = <<>> /\ waiting' = <<>> /\ ResetCoord
    /\ shape' = shape + 1 /\ wave' = 1
    /\ UNCHANGED <<launch_vars, options, stage, sent, pool, unspent, step, ring,
                   completed, model_vars, file, saved, launches>>

\* The final drain and the fit; a saved state then takes its place.
EndProfile ==
    /\ stage = "profile" /\ UpAndIdle /\ ~ShapeLeft
    /\ IF file = NoFile
       THEN tracker' = Drained /\ DataFit(Drained) /\ UNCHANGED last_refit
       ELSE Load
    /\ completed' = <<>> /\ stage' = "serving"
    /\ UNCHANGED <<launch_vars, options, shape, wave, queue_vars, buffer_vars, step,
                   ring, file, saved, launches>>

\* POST /save_estimator_state.
SaveState ==
    /\ stage = "serving" /\ UpAndIdle
    /\ file' = Export /\ saved' = TRUE
    /\ UNCHANGED <<launch_vars, options, profile_vars, queue_vars, buffer_vars, step,
                   ring, completed, model_vars, launches>>

\* A stop that was asked for: the hooks save the state first.
Shutdown ==
    /\ stage = "serving" /\ UpAndIdle
    /\ SaveOnce(Export) /\ engine' = "gone"
    /\ UNCHANGED <<setup, worker, child, child_end, pipe_vars, state, cycle_vars, options,
                   profile_vars, queue_vars, buffer_vars, step, ring, completed,
                   model_vars, launches>>

\* The next server on the same machine, with the state file of the last one.
Relaunch ==
    /\ setup.steps /\ launches < options.launches
    /\ engine = "gone" /\ \A r \in Ranks : ~Here(r) /\ ~Alive(r)
    /\ Restart
    /\ stage' = "setup" /\ shape' = 1 /\ wave' = 1
    /\ running' = <<>> /\ waiting' = <<>> /\ sent' = {}
    /\ pool' = Samples /\ held' = {} /\ fill' = 0 /\ unspent' = 0
    /\ step' = NoStep /\ ring' = <<>> /\ completed' = <<>>
    /\ tracker' = <<>> /\ last_refit' = 0 /\ fitted' = {} /\ dirty' = {}
    /\ saved' = FALSE
    /\ launches' = launches + 1
    /\ UNCHANGED <<options, file>>

Init ==
    /\ \E s \in Setups : InitFor(s)
    /\ options \in IF setup.steps THEN Options ELSE {CHOOSE o \in Options : TRUE}
    /\ stage = "setup" /\ shape = 1 /\ wave = 1
    /\ running = <<>> /\ waiting = <<>> /\ sent = {}
    /\ pool = Samples /\ held = {} /\ fill = 0 /\ unspent = 0
    /\ step = NoStep /\ ring = <<>> /\ completed = <<>>
    /\ tracker = <<>> /\ last_refit = 0 /\ fitted = {} /\ dirty = {}
    /\ saved = FALSE
    /\ file = NoFile /\ launches = 1

Next ==
    \/ LaunchNext /\ UNCHANGED step_vars
    \/ BeforeBusyLoop \/ ProfilingStep \/ EndShape \/ EndProfile
    \/ Schedule \/ Execute \/ (\E k \in options.kinds : AddRequest(k))
    \/ SaveState \/ Shutdown \/ Relaunch

vars == <<launch_vars, step_vars>>

Spec == Init /\ [][Next]_vars /\ LaunchFairness

-----------------------------------------------------------------------------
(***************************************************************************)
(* Properties.                                                              *)
(***************************************************************************)

\* A step that carries samples is the step admission judged: the same inference
\* prefill and decodes, and no sample cut short.  Only a request the base
\* scheduler has no room for takes something away, and a prompt's last chunk of
\* one token has been counted as a decode (_current_step_features, budget_left
\* against Scheduler.schedule and _features_from_output).
StepAsAdmitted ==
    step # NoStep =>
        /\ ~step.cut
        /\ \A i \in DOMAIN step.judged :
               \/ step.refused \/ step.last
               \/ /\ step.feats.t_in - step.feats.t_ft = step.judged[i].t_in
                  /\ step.feats.b_d = step.judged[i].b_d

\* No prediction but that of a decode beside the backward rests on steps that
\* ran beside it, whatever was stamped, recorded, carried over to another
\* server, dropped or borrowed on the way (feats.bwd, contended, data_fit,
\* export_state, _select).
FitsClean == \A regime \in Regimes \ {"decode_bwd"} : Select(regime, fitted) \notin dirty

\* The launch pass fits every regime admission predicts with (prepare,
\* profile_execution_model).
ProfileSeedsRegimes ==
    stage = "serving" /\ options.repeats > 0 =>
        {"inf_prefill", "decode_only", "eager"} \subseteq fitted

\* The pass drives the scheduler, the runner and the buffer of the server, and
\* leaves nothing of it there: no request, no row of the buffer, no sample
\* taken, and no work for the child (run_shape, reset_coord).
ProfileLeavesNoTrace ==
    /\ stage = "profile" => pool = Samples /\ \A r \in Ranks : cycles[r] = 0
    /\ stage = "serving" =>
          /\ fill = SumLens(held)
          /\ \A i \in DOMAIN running : running[i].id # "prof"
          /\ waiting # <<>> => Head(waiting).id # "prof"
=============================================================================
