------------------------------ MODULE GpuYield ------------------------------
(***************************************************************************)
(* How inference takes the GPU back from a running backward.  The model    *)
(* runner of every rank (model_runner.py) clears its child's grant for an  *)
(* inference prefill, or while a step is heavy (the fwd-token throttle),   *)
(* and sets it again when a CUDA event has fired or the load has dropped;  *)
(* the child (bwd_services/base.py) looks at the grant at its boundaries.  *)
(* With several ranks the children agree at every boundary.                *)
(*                                                                         *)
(* The ranks process the same steps, and the next step begins when every   *)
(* rank has finished the last one on the host; their GPUs lag behind by    *)
(* any amount.  A forward that raises ends the engine and is left out.     *)
(***************************************************************************)
EXTENDS Integers, Sequences, FiniteSets

CONSTANTS
    Configs,       \* the server configurations to consider
    MaxCycles,     \* bound: backward cycles
    MaxArrivals    \* bound: inference requests

\* ranks: 1 for the local trigger, more for the relayed one; throttle:
\* fwd_token_throttle_enable; until_done: pause_until_prefill_done; always:
\* pause_prefill_always; on_arrival: pause_on_arrival; ahead:
\* backward_run_ahead_boundaries (0: unbounded); steps and boundaries:
\* bounds of the model, the steps that carry inference and the _maybe_pause calls
\* of a backward cycle.
Config == [ranks : {1, 2}, throttle : BOOLEAN, until_done : BOOLEAN,
           always : BOOLEAN, on_arrival : BOOLEAN, ahead : Nat, steps : Nat,
           boundaries : Nat \ {0}]

ASSUME YieldAssumption ==
    /\ Configs \subseteq Config
    /\ MaxCycles \in Nat /\ MaxArrivals \in Nat

VARIABLES
    cfg,                 \* the configuration, fixed when the server starts
    steps, cycles,       \* how many of them so far
    arrivals,            \* FtArrivalSignal's counter
    \* the model runner of a rank
    runner_pc,
    step,                \* the step it processes
    gpu_grant,           \* the event it shares with its child
    throttle_held,       \* _throttle_held, mirrored in fwd_throttle_active
    resume_evt,          \* _ft_resume_evt and _ft_prefill_evt: the forwards
    prefill_evt,         \* left before the event fires, or None
    pending,             \* a backward is outstanding
    gpu,                 \* forwards on the GPU, oldest first
    \* the child of a rank
    child_pc,
    boundary,            \* boundaries of this cycle behind it
    arr_seen, arr_state, \* 0 idle, 1 pending, 2 paused for it
    arr_late,            \* _ARRIVAL_WAIT_S has passed
    queued,              \* its segments on the GPU
    ring, ring_pos       \* _boundary_events: segments left before each fires

runner_vars == <<runner_pc, step, gpu_grant, throttle_held, resume_evt,
                 prefill_evt, pending, gpu>>
arrival_vars == <<arr_seen, arr_state, arr_late>>
ring_vars == <<queued, ring, ring_pos>>
child_vars == <<child_pc, boundary, arrival_vars, ring_vars>>
bound_vars == <<cfg, steps, cycles, arrivals>>
vars == <<bound_vars, runner_vars, child_vars>>

Ranks == 1 .. cfg.ranks
Relay == cfg.ranks > 1                       \* relay_mode

None == -1
IsSet(evt) == evt # None
Fired(evt) == evt = 0

\* A step: does it schedule tokens, an inference prefill, enough inference
\* tokens for the throttle, and does it carry a relayed trigger.
Idle(trigger) == [tokens |-> FALSE, prefill |-> FALSE, heavy |-> FALSE,
                  trigger |-> trigger]
NoStep == Idle(FALSE)

StepKinds == [tokens : {TRUE}, prefill : BOOLEAN,
              heavy : IF cfg.throttle THEN BOOLEAN ELSE {FALSE},
              trigger : BOOLEAN]

-----------------------------------------------------------------------------
(***************************************************************************)
(* The engine.                                                             *)
(***************************************************************************)
AllAt(label) == \A r \in Ranks : runner_pc[r] = label

MayTrigger == cycles < MaxCycles /\ \A r \in Ranks : ~pending[r]

BeginStep ==
    /\ AllAt("idle")
    /\ \E s \in StepKinds \union {Idle(FALSE), Idle(TRUE)} :
         /\ s.tokens => steps < cfg.steps
         /\ s.trigger => Relay /\ MayTrigger
         /\ step' = [r \in Ranks |-> s]
         /\ steps' = IF s.tokens THEN steps + 1 ELSE steps
         /\ cycles' = IF s.trigger THEN cycles + 1 ELSE cycles
    /\ runner_pc' = [r \in Ranks |-> "before"]
    /\ UNCHANGED <<cfg, arrivals, gpu_grant, throttle_held, resume_evt,
                   prefill_evt, pending, gpu, child_vars>>

\* FtArrivalSignal.bump, by the input thread.
Arrive ==
    /\ cfg.on_arrival /\ arrivals < MaxArrivals
    /\ arrivals' = arrivals + 1
    /\ UNCHANGED <<cfg, steps, cycles, runner_vars, child_vars>>

\* _trigger_backward with a local child, between two steps: start it paused
\* if the throttle is engaged.
TriggerBackward ==
    /\ ~Relay /\ AllAt("idle") /\ MayTrigger
    /\ cycles' = cycles + 1
    /\ gpu_grant' = [r \in Ranks |-> IF throttle_held[r] THEN FALSE
                                                         ELSE gpu_grant[r]]
    /\ pending' = [r \in Ranks |-> TRUE]
    /\ child_pc' = [r \in Ranks |-> "start"]
    /\ UNCHANGED <<cfg, steps, arrivals, runner_pc, step, throttle_held,
                   resume_evt, prefill_evt, gpu, boundary, arrival_vars,
                   ring_vars>>

-----------------------------------------------------------------------------
(***************************************************************************)
(* The model runner.                                                       *)
(***************************************************************************)
\* _ft_maybe_resume_backward: the deferred resume is due.
ResumeDue(r) == IsSet(resume_evt[r]) /\ Fired(resume_evt[r])

\* Mutant: the deferred resume does not look at the throttle.
ResumeAnyway(r) == ResumeDue(r)

\* A pause by the throttle is not released by a deferred resume.
ResumeBackward(r) == ResumeDue(r) /\ ~throttle_held[r]

\* Mutant: no idle release; the throttle is left to _ft_pause_decision.
ThrottleReleaseLater(r) == throttle_held[r] /\ step[r].tokens /\ ~step[r].heavy

\* The idle release of the throttle: this step would not engage it.
ThrottleRelease(r) == throttle_held[r] /\ ~step[r].heavy

\* Mutant: a trigger does not wait for the prefill of the step before.
NoPreviousPrefill(r) == FALSE

\* The step before the trigger has a prefill on the GPU still.
PreviousPrefill(r) == IsSet(prefill_evt[r]) /\ ~Fired(prefill_evt[r])

PrePause(r) == step[r].prefill \/ step[r].heavy

BeforeStep(r) ==
    /\ runner_pc[r] = "before"
    /\ LET release == ThrottleRelease(r)
           held    == throttle_held[r] /\ ~release
           resumed == gpu_grant[r] \/ ResumeBackward(r) \/ release
           evt     == IF ResumeDue(r) THEN None ELSE resume_evt[r]
       IN  /\ throttle_held' = [throttle_held EXCEPT ![r] = held]
           /\ IF step[r].trigger
              THEN /\ gpu_grant' = [gpu_grant EXCEPT ![r] =
                        resumed /\ ~PrePause(r) /\ ~PreviousPrefill(r)]
                   /\ resume_evt' = [resume_evt EXCEPT ![r] =
                        IF PreviousPrefill(r) THEN prefill_evt[r] ELSE evt]
                   /\ pending' = [pending EXCEPT ![r] = TRUE]
                   /\ child_pc' = [child_pc EXCEPT ![r] = "start"]
              ELSE /\ gpu_grant' = [gpu_grant EXCEPT ![r] = resumed]
                   /\ resume_evt' = [resume_evt EXCEPT ![r] = evt]
                   /\ UNCHANGED <<pending, child_pc>>
    /\ runner_pc' = [runner_pc EXCEPT ![r] =
                       IF step[r].tokens THEN "decide" ELSE "relay"]
    /\ UNCHANGED <<bound_vars, step, prefill_evt, gpu, boundary, arrival_vars,
                   ring_vars>>

Considered(r) == pending[r] \/ cfg.always
PauseThrottle(r) == Considered(r) /\ step[r].heavy
PauseBwd(r) == Considered(r) /\ (step[r].prefill \/ step[r].heavy)

\* Mutant: a heavy step with a prefill is taken for a plain prefill.
HoldUnlessPrefill(r) == PauseThrottle(r) /\ ~step[r].prefill

\* The throttle, not the prefill, holds a pause that both ask for.
Hold(r) == PauseThrottle(r)

\* _ft_pause_decision, first half: release a throttle this step is below of.
DecideRelease(r) ==
    /\ runner_pc[r] = "decide"
    /\ IF throttle_held[r] /\ ~PauseThrottle(r)
       THEN /\ gpu_grant' = [gpu_grant EXCEPT ![r] = TRUE]
            /\ throttle_held' = [throttle_held EXCEPT ![r] = FALSE]
       ELSE UNCHANGED <<gpu_grant, throttle_held>>
    /\ runner_pc' = [runner_pc EXCEPT ![r] = "pause"]
    /\ UNCHANGED <<bound_vars, step, resume_evt, prefill_evt, pending, gpu,
                   child_vars>>

\* Second half: pause, and remember whether the throttle holds it.
DecidePause(r) ==
    /\ runner_pc[r] = "pause"
    /\ gpu_grant' = [gpu_grant EXCEPT ![r] = @ /\ ~PauseBwd(r)]
    /\ throttle_held' = [throttle_held EXCEPT ![r] =
                           IF PauseBwd(r) THEN Hold(r) ELSE @]
    /\ runner_pc' = [runner_pc EXCEPT ![r] = "forward"]
    /\ UNCHANGED <<bound_vars, step, resume_evt, prefill_evt, pending, gpu,
                   child_vars>>

\* A newer pause replaces the event to resume on.
NextResume(r, behind) == behind

(***************************************************************************)
(* The forward is enqueued; _ft_timing_end records the events behind it,   *)
(* and defers the resume or gives the grant back at once.  A pause decided *)
(* by the throttle is left to its release.                                 *)
(***************************************************************************)
Forward(r) ==
    /\ runner_pc[r] = "forward"
    /\ LET behind == Len(gpu[r]) + 1
           resume == PauseBwd(r) /\ ~PauseThrottle(r)
       IN  /\ gpu' = [gpu EXCEPT ![r] = Append(@,
                        [prefill |-> step[r].prefill,
                         paused |-> step[r].prefill /\ PauseBwd(r)])]
           /\ prefill_evt' = [prefill_evt EXCEPT ![r] =
                                IF Relay /\ step[r].prefill THEN behind ELSE @]
           /\ resume_evt' = [resume_evt EXCEPT ![r] =
                               IF resume /\ cfg.until_done
                               THEN NextResume(r, behind) ELSE @]
           /\ gpu_grant' = [gpu_grant EXCEPT ![r] =
                              @ \/ (resume /\ ~cfg.until_done)]
    /\ runner_pc' = [runner_pc EXCEPT ![r] = "relay"]
    /\ UNCHANGED <<bound_vars, step, throttle_held, pending, child_vars>>

(***************************************************************************)
(* The end of the step: sample_tokens polls the deferred resume again, and *)
(* the ack is taken once every rank's child has answered (the ranks vote;  *)
(* with one rank this is the scheduler's poll_backward).                   *)
(***************************************************************************)
EndStep ==
    /\ AllAt("relay")
    /\ gpu_grant' = [r \in Ranks |->
         gpu_grant[r] \/ (step[r].tokens /\ ResumeBackward(r))]
    /\ resume_evt' = [r \in Ranks |->
         IF step[r].tokens /\ ResumeDue(r) THEN None ELSE resume_evt[r]]
    /\ IF \A r \in Ranks : child_pc[r] = "answered"
       THEN /\ pending' = [r \in Ranks |-> FALSE]
            /\ child_pc' = [r \in Ranks |-> "wait"]
       ELSE UNCHANGED <<pending, child_pc>>
    /\ runner_pc' = [r \in Ranks |-> "idle"]
    /\ step' = [r \in Ranks |-> NoStep]
    /\ UNCHANGED <<bound_vars, throttle_held, prefill_evt, gpu, boundary,
                   arrival_vars, ring_vars>>

\* The GPU completes the oldest forward of a rank.
Passed(evt) == IF evt > 0 THEN evt - 1 ELSE evt

GpuDone(r) ==
    /\ gpu[r] # <<>>
    /\ gpu' = [gpu EXCEPT ![r] = Tail(@)]
    /\ resume_evt' = [resume_evt EXCEPT ![r] = Passed(@)]
    /\ prefill_evt' = [prefill_evt EXCEPT ![r] = Passed(@)]
    /\ UNCHANGED <<bound_vars, runner_pc, step, gpu_grant, throttle_held,
                   pending, child_vars>>

-----------------------------------------------------------------------------
(***************************************************************************)
(* The child.                                                              *)
(***************************************************************************)
NextSlot(pos) == (pos + 1) % (cfg.ahead + 1)

\* Mutant: the oldest event is not waited for.
NoWait(r) == TRUE

\* The oldest event of the ring has fired.
OldestFired(r) == cfg.ahead > 0 => ring[r][ring_pos[r]] = 0

\* _maybe_pause, the run-ahead bound: record an event behind the work enqueued
\* so far; Observe then waits for the oldest of the ring.
RecordEvent(r, work) ==
    IF cfg.ahead = 0 THEN UNCHANGED <<ring, ring_pos>>
    ELSE /\ ring' = [ring EXCEPT ![r][ring_pos[r]] = work]
         /\ ring_pos' = [ring_pos EXCEPT ![r] = NextSlot(@)]

\* _handle_process_activations begins: _arrivals_reset, and the first boundary.
ChildStart(r) ==
    /\ child_pc[r] = "start"
    /\ arr_seen' = [arr_seen EXCEPT ![r] = arrivals]
    /\ arr_state' = [arr_state EXCEPT ![r] = 0]
    /\ arr_late' = [arr_late EXCEPT ![r] = FALSE]
    /\ boundary' = [boundary EXCEPT ![r] = 0]
    /\ RecordEvent(r, queued[r])
    /\ child_pc' = [child_pc EXCEPT ![r] = "sync"]
    /\ UNCHANGED <<bound_vars, runner_vars, queued>>

\* _arrival_blocked: the state after one look, and its verdict.
ArrivalLook(r) ==
    IF ~cfg.on_arrival THEN [state |-> 0, seen |-> arr_seen[r], blocked |-> FALSE]
    ELSE
    LET s0 == IF arr_state[r] = 0 /\ arrivals # arr_seen[r] THEN 1 ELSE arr_state[r]
        s1 == IF s0 = 1 /\ ~gpu_grant[r] THEN 2 ELSE s0
        served == \/ s1 = 1 /\ arr_late[r]
                  \/ s1 = 2 /\ gpu_grant[r]
    IN  IF s1 = 0 \/ served
        THEN [state |-> 0, seen |-> IF served THEN arrivals ELSE arr_seen[r],
              blocked |-> FALSE]
        ELSE [state |-> s1, seen |-> arr_seen[r], blocked |-> TRUE]

\* `not g.is_set() or self._arrival_blocked(g)' does not look at arrivals while
\* the grant is cleared; the polls of the wait always do.
LookAtArrivals(r) ==
    /\ arr_state' = [arr_state EXCEPT ![r] = ArrivalLook(r).state]
    /\ arr_seen' = [arr_seen EXCEPT ![r] = ArrivalLook(r).seen]
    /\ arr_late' = [arr_late EXCEPT ![r] = @ /\ ArrivalLook(r).state = 1]

Observe(r) ==
    /\ child_pc[r] = "sync"
    /\ OldestFired(r)
    /\ IF gpu_grant[r]
       THEN /\ LookAtArrivals(r)
            /\ child_pc' = [child_pc EXCEPT ![r] =
                              IF ArrivalLook(r).blocked THEN "stop" ELSE "go"]
       ELSE /\ child_pc' = [child_pc EXCEPT ![r] = "stop"]
            /\ UNCHANGED arrival_vars
    /\ UNCHANGED <<bound_vars, runner_vars, boundary, ring_vars>>

\* Mutant: a child acts on its own observation.
StopsAlone(r) == child_pc[r] = "stop"

\* The MAX all-reduce: any cleared grant stops every rank.
Stops(r) == \E q \in Ranks : child_pc[q] = "stop"

Agree ==
    /\ \A r \in Ranks : child_pc[r] \in {"go", "stop"}
    /\ child_pc' = [r \in Ranks |-> IF Stops(r) THEN "blocked" ELSE "run"]
    /\ UNCHANGED <<bound_vars, runner_vars, boundary, arrival_vars, ring_vars>>

\* _pause_poll of a blocked child.
Poll(r) ==
    /\ child_pc[r] = "blocked"
    /\ LookAtArrivals(r)
    /\ child_pc' = [child_pc EXCEPT ![r] =
                      IF gpu_grant[r] /\ ~ArrivalLook(r).blocked
                      THEN "mine" ELSE "not_mine"]
    /\ UNCHANGED <<bound_vars, runner_vars, boundary, ring_vars>>

\* The MIN all-reduce: all may run again, or all poll again.
Resume ==
    /\ \A r \in Ranks : child_pc[r] \in {"mine", "not_mine"}
    /\ child_pc' = [r \in Ranks |->
         IF \E q \in Ranks : child_pc[q] = "not_mine" THEN "blocked" ELSE "run"]
    /\ UNCHANGED <<bound_vars, runner_vars, boundary, arrival_vars, ring_vars>>

\* The child enqueues the work up to its next boundary, or answers.
Segment(r) ==
    /\ child_pc[r] = "run"
    /\ boundary' = [boundary EXCEPT ![r] = @ + 1]
    /\ queued' = [queued EXCEPT ![r] = @ + 1]
    /\ IF boundary[r] + 1 = cfg.boundaries
       THEN /\ child_pc' = [child_pc EXCEPT ![r] = "drain"]
            /\ UNCHANGED <<ring, ring_pos>>
       ELSE /\ child_pc' = [child_pc EXCEPT ![r] = "sync"]
            /\ RecordEvent(r, queued[r] + 1)
    /\ UNCHANGED <<bound_vars, runner_vars, arrival_vars>>

\* The end event of the cycle has fired: answer.
Answer(r) ==
    /\ child_pc[r] = "drain" /\ queued[r] = 0
    /\ child_pc' = [child_pc EXCEPT ![r] = "answered"]
    /\ UNCHANGED <<bound_vars, runner_vars, boundary, arrival_vars, ring_vars>>

\* The GPU completes the oldest segment of a child.
SegmentDone(r) ==
    /\ queued[r] > 0
    /\ queued' = [queued EXCEPT ![r] = @ - 1]
    /\ ring' = [ring EXCEPT ![r] = [i \in DOMAIN @ |-> IF @[i] > 0 THEN @[i] - 1
                                                                  ELSE 0]]
    /\ UNCHANGED <<bound_vars, runner_vars, child_pc, boundary, arrival_vars,
                   ring_pos>>

\* _ARRIVAL_WAIT_S runs out.
ArrivalTimeout(r) ==
    /\ arr_state[r] = 1 /\ ~arr_late[r]
    /\ arr_late' = [arr_late EXCEPT ![r] = TRUE]
    /\ UNCHANGED <<bound_vars, runner_vars, child_pc, boundary, arr_seen,
                   arr_state, ring_vars>>

-----------------------------------------------------------------------------
Init ==
    /\ cfg \in Configs
    /\ steps = 0 /\ cycles = 0 /\ arrivals = 0
    /\ runner_pc = [r \in Ranks |-> "idle"]
    /\ step = [r \in Ranks |-> NoStep]
    /\ gpu_grant = [r \in Ranks |-> TRUE]
    /\ throttle_held = [r \in Ranks |-> FALSE]
    /\ resume_evt = [r \in Ranks |-> None] /\ prefill_evt = [r \in Ranks |-> None]
    /\ pending = [r \in Ranks |-> FALSE]
    /\ gpu = [r \in Ranks |-> <<>>]
    /\ child_pc = [r \in Ranks |-> "wait"]
    /\ boundary = [r \in Ranks |-> 0]
    /\ arr_seen = [r \in Ranks |-> 0] /\ arr_state = [r \in Ranks |-> 0]
    /\ arr_late = [r \in Ranks |-> FALSE]
    /\ queued = [r \in Ranks |-> 0]
    /\ ring = [r \in Ranks |-> [i \in 0 .. cfg.ahead |-> 0]]
    /\ ring_pos = [r \in Ranks |-> 0]

Engine == BeginStep \/ EndStep
          \/ \E r \in Ranks : \/ BeforeStep(r) \/ DecideRelease(r)
                              \/ DecidePause(r) \/ Forward(r)

Gpus == \E r \in Ranks : GpuDone(r) \/ SegmentDone(r)

Children == Agree \/ Resume
            \/ \E r \in Ranks : \/ ChildStart(r) \/ Observe(r) \/ Poll(r)
                                \/ Segment(r) \/ Answer(r)

Clocks == \E r \in Ranks : ArrivalTimeout(r)

Next == Engine \/ Gpus \/ Children \/ Clocks \/ Arrive \/ TriggerBackward

Spec == Init /\ [][Next]_vars

\* The engine keeps stepping while a backward is outstanding
\* (FinetuneScheduler.has_requests); hosts, GPUs, children and clocks run.  Each
\* loop of a component passes through every rank, and forwards, segments and
\* arrivals are finitely many, so no rank is starved by another.
FairSpec == Spec /\ WF_vars(Engine) /\ WF_vars(Gpus) /\ WF_vars(Children)
                 /\ WF_vars(Clocks)

-----------------------------------------------------------------------------
\* Whoever clears the grant is on record: between steps a cleared grant has a
\* deferred resume that later steps poll, or a throttle that is held and will be
\* released, or the training would stop; and a throttle on record keeps it
\* cleared, whatever an earlier prefill's resume does, so that a cycle triggered
\* meanwhile starts paused (coordinator.py:772 relies on it).
GrantAccounted ==
    \A r \in Ranks :
       /\ ~gpu_grant[r] /\ runner_pc[r] = "idle" => IsSet(resume_evt[r]) \/ throttle_held[r]
       /\ throttle_held[r] => ~gpu_grant[r]

\* Without the throttle, a backward never has the grant while an inference
\* prefill that paused it, or one that was running when a relayed trigger
\* started it, is still on the GPU (pause_until_prefill_done, and the
\* pre-pause of _ft_before_step).
PrefillProtected ==
    cfg.until_done /\ ~cfg.throttle =>
      \A r \in Ranks : \A i \in DOMAIN gpu[r] :
         \/ gpu[r][i].paused
         \/ Relay /\ pending[r] /\ gpu[r][i].prefill
         => ~gpu_grant[r]

\* A pause empties the GPU: a blocked child has no more segments there than it
\* may run ahead, and no peer is a segment further, whose next residual
\* all-reduce would spin until the child is resumed (base.py:107).
BlockedFreesGpu ==
    \A r, q \in Ranks : child_pc[q] = "blocked" =>
       /\ boundary[r] = boundary[q] /\ child_pc[r] # "run"
       /\ cfg.ahead > 0 => queued[q] <= cfg.ahead

\* While the engine steps, every cycle ends although no wait is ever cut short
\* by the child's 5 s cap: no resume is missed, on no interleaving of deferred
\* resumes, throttle, triggers and arrivals.
CycleEnds == (\E r \in Ranks : child_pc[r] = "start")
                 ~> (\A r \in Ranks : child_pc[r] = "answered")
=============================================================================
