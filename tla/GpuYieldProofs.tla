--------------------------- MODULE GpuYieldProofs ---------------------------
(***************************************************************************)
(* The pause protocol is safe for every number of steps, cycles and        *)
(* boundaries and every configuration: whoever clears the grant is on      *)
(* record, a prefill keeps the GPU to itself, and a blocked child stands   *)
(* at the boundary of its peers with a bounded tail of work on the GPU.    *)
(***************************************************************************)
EXTENDS GpuYield, TLAPS

RunnerPc == {"idle", "before", "decide", "pause", "forward", "relay"}

ChildPc == {"wait", "start", "sync", "go", "stop", "blocked", "mine",
            "not_mine", "run", "drain", "answered"}

StepType == [tokens : BOOLEAN, prefill : BOOLEAN, heavy : BOOLEAN,
             trigger : BOOLEAN]

OnGpu == [prefill : BOOLEAN, paused : BOOLEAN]

EventType == Nat \union {None}

\* Types of the model runners' state.
RunnerType ==
    /\ cfg \in Config
    /\ runner_pc \in [Ranks -> RunnerPc]
    /\ step \in [Ranks -> StepType]
    /\ gpu_grant \in [Ranks -> BOOLEAN]
    /\ throttle_held \in [Ranks -> BOOLEAN]
    /\ resume_evt \in [Ranks -> EventType]
    /\ prefill_evt \in [Ranks -> EventType]
    /\ pending \in [Ranks -> BOOLEAN]
    /\ gpu \in [Ranks -> Seq(OnGpu)]

\* A step that schedules nothing asks for no pause; only a configured
\* throttle finds a step heavy; only a relayed trigger travels with a step.
StepMakesSense ==
    \A r \in Ranks :
       /\ step[r].prefill \/ step[r].heavy => step[r].tokens
       /\ step[r].heavy => cfg.throttle
       /\ step[r].trigger => Relay

\* Types of the children's state that the proofs need.
ChildType ==
    /\ child_pc \in [Ranks -> ChildPc]
    /\ boundary \in [Ranks -> Nat]
    /\ queued \in [Ranks -> Nat]
    /\ ring \in [Ranks -> [0 .. cfg.ahead -> Nat]]
    /\ ring_pos \in [Ranks -> 0 .. cfg.ahead]

-----------------------------------------------------------------------------
\* The configuration and the set of ranks are fixed when the server starts.
LEMMA CfgFixed == [Next]_vars => cfg' = cfg /\ Ranks' = Ranks /\ Relay' = Relay
<1> SUFFICES ASSUME [Next]_vars PROVE cfg' = cfg
  BY DEF Ranks, Relay
<1> USE DEF bound_vars
<1>1. CASE Engine
  BY <1>1 DEF Engine, BeginStep, EndStep, BeforeStep, DecideRelease,
              DecidePause, Forward
<1>2. CASE Gpus
  BY <1>2 DEF Gpus, GpuDone, SegmentDone
<1>3. CASE Children
  BY <1>3 DEF Children, Agree, Resume, ChildStart, Observe, Poll, Segment, Answer
<1>4. CASE Clocks \/ Arrive \/ TriggerBackward
  BY <1>4 DEF Clocks, ArrivalTimeout, Arrive, TriggerBackward
<1> QED BY <1>1, <1>2, <1>3, <1>4 DEF Next, vars

\* The steps a rank may be given.
LEMMA StepKindsType ==
  ASSUME cfg \in Config, NEW s \in StepKinds \union {Idle(FALSE), Idle(TRUE)}
  PROVE  /\ s \in StepType
         /\ s.prefill \/ s.heavy => s.tokens
         /\ s.heavy => cfg.throttle
<1>1. cfg.throttle \in BOOLEAN
  BY DEF Config
<1>2. CASE s \in StepKinds
  BY <1>1, <1>2 DEF StepKinds, StepType
<1>3. \A b \in BOOLEAN : /\ Idle(b) \in StepType
                         /\ ~Idle(b).prefill /\ ~Idle(b).heavy
  BY DEF Idle, StepType
<1> QED BY <1>2, <1>3

\* Every operation keeps the runners' types.
LEMMA NextRunnerType ==
  ASSUME RunnerType, StepMakesSense, [Next]_vars
  PROVE  RunnerType' /\ StepMakesSense'
<1>0. cfg' = cfg /\ Ranks' = Ranks /\ Relay' = Relay
  BY CfgFixed
<1> USE <1>0 DEF RunnerType, StepMakesSense
<1> HIDE DEF Ranks, Relay
<1>1. CASE BeginStep
  <2>1. PICK s \in StepKinds \union {Idle(FALSE), Idle(TRUE)} :
          step' = [r \in Ranks |-> s] /\ (s.trigger => Relay)
    BY <1>1 DEF BeginStep
  <2>2. /\ s \in StepType
        /\ s.prefill \/ s.heavy => s.tokens
        /\ s.heavy => cfg.throttle
    BY StepKindsType
  <2>3. runner_pc' \in [Ranks -> RunnerPc]
    BY <1>1 DEF BeginStep, RunnerPc
  <2>4. UNCHANGED <<gpu_grant, throttle_held, resume_evt, prefill_evt, pending,
                    gpu>>
    BY <1>1 DEF BeginStep
  <2> QED BY <2>1, <2>2, <2>3, <2>4
<1>2. ASSUME NEW r \in Ranks, BeforeStep(r) PROVE RunnerType' /\ StepMakesSense'
  <2>1. UNCHANGED <<step, prefill_evt, gpu>>
    BY <1>2 DEF BeforeStep
  <2>2. /\ runner_pc' \in [Ranks -> RunnerPc]
        /\ pending' \in [Ranks -> BOOLEAN]
    BY <1>2 DEF BeforeStep, RunnerPc
  <2>3. resume_evt' \in [Ranks -> EventType]
    BY <1>2 DEF BeforeStep, EventType
  <2>4. /\ gpu_grant' \in [Ranks -> BOOLEAN]
        /\ throttle_held' \in [Ranks -> BOOLEAN]
    BY <1>2, Zenon DEF BeforeStep
  <2> QED BY <2>1, <2>2, <2>3, <2>4
<1>3. ASSUME NEW r \in Ranks, DecideRelease(r)
      PROVE  RunnerType' /\ StepMakesSense'
  BY <1>3 DEF DecideRelease, RunnerPc
<1>4. ASSUME NEW r \in Ranks, DecidePause(r)
      PROVE  RunnerType' /\ StepMakesSense'
  <2>1. UNCHANGED <<step, resume_evt, prefill_evt, pending, gpu>>
    BY <1>4 DEF DecidePause
  <2>2. runner_pc' \in [Ranks -> RunnerPc]
    BY <1>4 DEF DecidePause, RunnerPc
  <2>3. /\ gpu_grant' \in [Ranks -> BOOLEAN]
        /\ throttle_held' \in [Ranks -> BOOLEAN]
    BY <1>4 DEF DecidePause, Hold, PauseThrottle
  <2> QED BY <2>1, <2>2, <2>3
<1>5. ASSUME NEW r \in Ranks, Forward(r) PROVE RunnerType' /\ StepMakesSense'
  <2>1. UNCHANGED <<step, throttle_held, pending>>
    BY <1>5 DEF Forward
  <2>2. runner_pc' \in [Ranks -> RunnerPc]
    BY <1>5 DEF Forward, RunnerPc
  <2>3. Len(gpu[r]) + 1 \in Nat
    OBVIOUS
  <2>4. /\ resume_evt' \in [Ranks -> EventType]
        /\ prefill_evt' \in [Ranks -> EventType]
    BY <1>5, <2>3 DEF Forward, EventType, NextResume
  <2>5. gpu_grant' \in [Ranks -> BOOLEAN]
    BY <1>5 DEF Forward
  <2>6. gpu' \in [Ranks -> Seq(OnGpu)]
    <3> DEFINE f == [prefill |-> step[r].prefill,
                     paused |-> step[r].prefill /\ PauseBwd(r)]
    <3>1. f \in OnGpu
      BY DEF OnGpu, StepType
    <3>2. gpu' = [gpu EXCEPT ![r] = Append(@, f)]
      BY <1>5 DEF Forward
    <3> HIDE DEF f
    <3> QED BY <3>1, <3>2
  <2> QED BY <2>1, <2>2, <2>4, <2>5, <2>6
<1>6. CASE EndStep
  <2>1. UNCHANGED <<throttle_held, prefill_evt, gpu>>
    BY <1>6 DEF EndStep
  <2>2. /\ runner_pc' \in [Ranks -> RunnerPc]
        /\ gpu_grant' \in [Ranks -> BOOLEAN]
        /\ pending' \in [Ranks -> BOOLEAN]
    BY <1>6 DEF EndStep, RunnerPc
  <2>3. resume_evt' \in [Ranks -> EventType]
    BY <1>6 DEF EndStep, EventType
  <2>4. /\ step' \in [Ranks -> StepType]
        /\ \A r \in Ranks : /\ ~step'[r].prefill /\ ~step'[r].heavy
                            /\ ~step'[r].trigger
    BY <1>6 DEF EndStep, NoStep, Idle, StepType
  <2> QED BY <2>1, <2>2, <2>3, <2>4
<1>7. ASSUME NEW r \in Ranks, GpuDone(r) PROVE RunnerType' /\ StepMakesSense'
  <2>1. UNCHANGED <<runner_pc, step, gpu_grant, throttle_held, pending>>
    BY <1>7 DEF GpuDone
  <2>2. /\ resume_evt' \in [Ranks -> EventType]
        /\ prefill_evt' \in [Ranks -> EventType]
    BY <1>7 DEF GpuDone, Passed, EventType, None
  <2>3. gpu' \in [Ranks -> Seq(OnGpu)]
    BY <1>7 DEF GpuDone
  <2> QED BY <2>1, <2>2, <2>3
<1>8. CASE TriggerBackward
  BY <1>8 DEF TriggerBackward
<1>9. CASE UNCHANGED runner_vars
  BY <1>9 DEF runner_vars
<1>10. CASE Arrive \/ Clocks \/ Children
             \/ \E r \in Ranks : SegmentDone(r)
  BY <1>9, <1>10
  DEF Arrive, Clocks, ArrivalTimeout, Children, Agree, Resume, ChildStart,
      Observe, Poll, Segment, Answer, SegmentDone
<1>11. CASE UNCHANGED vars
  BY <1>9, <1>11 DEF vars
<1> QED
  BY <1>1, <1>2, <1>3, <1>4, <1>5, <1>6, <1>7, <1>8, <1>10, <1>11
  DEF Next, Engine, Gpus

-----------------------------------------------------------------------------
(***************************************************************************)
(* The grant.                                                              *)
(***************************************************************************)
\* A cleared grant is on record, or the step that cleared it has still to put
\* it there; from the decision on, a throttle is held because of this step.
OnRecord(r) ==
    /\ throttle_held[r] => ~gpu_grant[r]
    /\ ~gpu_grant[r] =>
          \/ IsSet(resume_evt[r]) \/ throttle_held[r]
          \/ runner_pc[r] \in {"decide", "pause", "forward"} /\ PauseBwd(r)
    /\ runner_pc[r] \in {"pause", "forward"} /\ throttle_held[r]
          => PauseThrottle(r)
    /\ runner_pc[r] = "forward" /\ PauseBwd(r)
          => ~gpu_grant[r] /\ (PauseThrottle(r) => throttle_held[r])

GrantInv == \A r \in Ranks : OnRecord(r)

\* A rank's record does not depend on what the others do.
LEMMA OnRecordLocal ==
  ASSUME NEW r \in Ranks, cfg' = cfg, OnRecord(r),
         runner_pc'[r] = runner_pc[r], step'[r] = step[r],
         gpu_grant'[r] = gpu_grant[r], throttle_held'[r] = throttle_held[r],
         resume_evt'[r] = resume_evt[r], pending'[r] = pending[r]
  PROVE  OnRecord(r)'
  BY DEF OnRecord, PauseBwd, PauseThrottle, Considered, IsSet

\* Every operation keeps the record.
LEMMA NextGrant ==
  ASSUME RunnerType, StepMakesSense, GrantInv, [Next]_vars
  PROVE  GrantInv'
<1>0. cfg' = cfg /\ Ranks' = Ranks
  BY CfgFixed
<1> SUFFICES ASSUME NEW q \in Ranks PROVE OnRecord(q)'
  BY <1>0 DEF GrantInv
<1> HIDE DEF Ranks
<1> USE <1>0
<1>a. OnRecord(q)
  BY DEF GrantInv
<1>b. /\ runner_pc[q] \in RunnerPc /\ gpu_grant[q] \in BOOLEAN
      /\ throttle_held[q] \in BOOLEAN /\ resume_evt[q] \in EventType
      /\ prefill_evt[q] \in EventType /\ pending[q] \in BOOLEAN
      /\ step[q].prefill \/ step[q].heavy => step[q].tokens
  BY DEF RunnerType, StepMakesSense
<1> DEFINE Same == UNCHANGED <<runner_pc[q], step[q], gpu_grant[q],
                               throttle_held[q], resume_evt[q], pending[q]>>
<1>c. CASE Same
  BY <1>a, <1>c, OnRecordLocal
<1>1. CASE BeginStep
  <2>1. runner_pc[q] = "idle" /\ runner_pc'[q] = "before"
    BY <1>1 DEF BeginStep, AllAt
  <2>2. UNCHANGED <<gpu_grant, throttle_held, resume_evt>>
    BY <1>1 DEF BeginStep
  <2> QED BY <1>a, <2>1, <2>2 DEF OnRecord, IsSet
<1>2. ASSUME NEW r \in Ranks, BeforeStep(r) PROVE OnRecord(q)'
  <2>1. CASE q # r
    BY <1>2, <1>c, <2>1 DEF BeforeStep, RunnerType
  <2>2. CASE q = r
    <3>1. /\ runner_pc[q] = "before"
          /\ runner_pc'[q] = IF step[q].tokens THEN "decide" ELSE "relay"
          /\ throttle_held'[q] = (throttle_held[q] /\ ~ThrottleRelease(q))
          /\ step'[q] = step[q]
      BY <1>2, <2>2 DEF BeforeStep, RunnerType
    <3> DEFINE resumed == gpu_grant[q] \/ ResumeBackward(q) \/ ThrottleRelease(q)
               evt     == IF ResumeDue(q) THEN None ELSE resume_evt[q]
    <3>2. throttle_held'[q] => ~resumed
      BY <1>a, <3>1 DEF OnRecord, ResumeBackward
    <3>3. ~resumed => IsSet(evt) \/ throttle_held'[q]
      BY <1>a, <3>1 DEF OnRecord, ResumeBackward
    <3>4. CASE step[q].trigger
      <4>1. /\ gpu_grant'[q] = (resumed /\ ~PrePause(q) /\ ~PreviousPrefill(q))
            /\ resume_evt'[q] = IF PreviousPrefill(q) THEN prefill_evt[q]
                                                      ELSE evt
            /\ pending'[q]
        BY <1>2, <2>2, <3>4 DEF BeforeStep, RunnerType
      <4>2. throttle_held'[q] => ~gpu_grant'[q]
        BY <3>2, <4>1
      <4>3. PrePause(q) => PauseBwd(q)' /\ runner_pc'[q] = "decide"
        BY <1>b, <3>1, <4>1 DEF PrePause, PauseBwd, Considered
      <4>4. PreviousPrefill(q) => IsSet(resume_evt'[q])
        BY <4>1 DEF PreviousPrefill
      <4>5. ~PreviousPrefill(q) /\ ~resumed
              => IsSet(resume_evt'[q]) \/ throttle_held'[q]
        BY <3>3, <4>1
      <4>6. ~gpu_grant'[q] => ~resumed \/ PrePause(q) \/ PreviousPrefill(q)
        BY <4>1
      <4> HIDE DEF resumed, evt
      <4> QED BY <3>1, <4>2, <4>3, <4>4, <4>5, <4>6 DEF OnRecord, IsSet
    <3>5. CASE ~step[q].trigger
      <4>1. gpu_grant'[q] = resumed /\ resume_evt'[q] = evt
        BY <1>2, <2>2, <3>5 DEF BeforeStep, RunnerType
      <4> HIDE DEF resumed, evt
      <4> QED BY <3>1, <3>2, <3>3, <4>1 DEF OnRecord, IsSet
    <3> QED BY <3>4, <3>5
  <2> QED BY <2>1, <2>2
<1>3. ASSUME NEW r \in Ranks, DecideRelease(r) PROVE OnRecord(q)'
  <2>1. CASE q # r
    BY <1>3, <1>c, <2>1 DEF DecideRelease, RunnerType
  <2>2. CASE q = r
    <3>1. /\ runner_pc[q] = "decide" /\ runner_pc'[q] = "pause"
          /\ UNCHANGED <<step, resume_evt, pending>>
      BY <1>3, <2>2 DEF DecideRelease, RunnerType
    <3>2. PauseBwd(q)' = PauseBwd(q) /\ PauseThrottle(q)' = PauseThrottle(q)
      BY <3>1 DEF PauseBwd, PauseThrottle, Considered
    <3>3. CASE throttle_held[q] /\ ~PauseThrottle(q)
      <4>1. gpu_grant'[q] /\ ~throttle_held'[q]
        BY <1>3, <2>2, <3>3 DEF DecideRelease, RunnerType
      <4> QED BY <3>1, <4>1 DEF OnRecord
    <3>4. CASE ~(throttle_held[q] /\ ~PauseThrottle(q))
      <4>1. gpu_grant'[q] = gpu_grant[q] /\ throttle_held'[q] = throttle_held[q]
        BY <1>3, <2>2, <3>4 DEF DecideRelease
      <4> QED BY <1>a, <3>1, <3>2, <3>4, <4>1 DEF OnRecord, IsSet
    <3> QED BY <3>3, <3>4
  <2> QED BY <2>1, <2>2
<1>4. ASSUME NEW r \in Ranks, DecidePause(r) PROVE OnRecord(q)'
  <2>1. CASE q # r
    BY <1>4, <1>c, <2>1 DEF DecidePause, RunnerType
  <2>2. CASE q = r
    <3>1. /\ runner_pc[q] = "pause" /\ runner_pc'[q] = "forward"
          /\ UNCHANGED <<step, resume_evt, pending>>
          /\ gpu_grant'[q] = (gpu_grant[q] /\ ~PauseBwd(q))
          /\ throttle_held'[q] = IF PauseBwd(q) THEN PauseThrottle(q)
                                                ELSE throttle_held[q]
      BY <1>4, <2>2 DEF DecidePause, RunnerType, Hold
    <3>2. PauseBwd(q)' = PauseBwd(q) /\ PauseThrottle(q)' = PauseThrottle(q)
      BY <3>1 DEF PauseBwd, PauseThrottle, Considered
    <3>3. PauseThrottle(q) => PauseBwd(q)
      BY DEF PauseThrottle, PauseBwd
    <3> QED BY <1>a, <3>1, <3>2, <3>3 DEF OnRecord, IsSet
  <2> QED BY <2>1, <2>2
<1>5. ASSUME NEW r \in Ranks, Forward(r) PROVE OnRecord(q)'
  <2>1. CASE q # r
    BY <1>5, <1>c, <2>1 DEF Forward, RunnerType
  <2>2. CASE q = r
    <3> DEFINE resume == PauseBwd(q) /\ ~PauseThrottle(q)
    <3>1. /\ runner_pc[q] = "forward" /\ runner_pc'[q] = "relay"
          /\ throttle_held'[q] = throttle_held[q]
          /\ gpu_grant'[q] = (gpu_grant[q] \/ (resume /\ ~cfg.until_done))
          /\ resume_evt'[q] = IF resume /\ cfg.until_done
                              THEN Len(gpu[q]) + 1 ELSE resume_evt[q]
      BY <1>5, <2>2 DEF Forward, RunnerType, NextResume
    <3>2. Len(gpu[q]) + 1 # None
      BY DEF RunnerType, None
    <3> QED BY <1>a, <3>1, <3>2 DEF OnRecord, IsSet
  <2> QED BY <2>1, <2>2
<1>6. CASE EndStep
  <2>1. /\ runner_pc[q] = "relay" /\ runner_pc'[q] = "idle"
        /\ throttle_held'[q] = throttle_held[q]
        /\ gpu_grant'[q] = (gpu_grant[q]
                              \/ (step[q].tokens /\ ResumeBackward(q)))
        /\ resume_evt'[q] = IF step[q].tokens /\ ResumeDue(q) THEN None
                                                        ELSE resume_evt[q]
    BY <1>6 DEF EndStep, AllAt
  <2> QED BY <1>a, <2>1 DEF OnRecord, IsSet, ResumeBackward
<1>7. ASSUME NEW r \in Ranks, GpuDone(r) PROVE OnRecord(q)'
  <2>1. /\ UNCHANGED <<runner_pc, step, gpu_grant, throttle_held, pending>>
        /\ resume_evt'[q] \in {resume_evt[q], Passed(resume_evt[q])}
    BY <1>7 DEF GpuDone, RunnerType
  <2>2. IsSet(resume_evt[q]) => IsSet(resume_evt'[q])
    BY <1>b, <2>1 DEF Passed, IsSet, None, EventType
  <2>3. PauseBwd(q)' = PauseBwd(q) /\ PauseThrottle(q)' = PauseThrottle(q)
    BY <2>1 DEF PauseBwd, PauseThrottle, Considered
  <2> QED BY <1>a, <2>1, <2>2, <2>3 DEF OnRecord, IsSet
<1>8. CASE TriggerBackward
  <2>1. /\ runner_pc[q] = "idle"
        /\ UNCHANGED <<runner_pc, throttle_held, resume_evt>>
        /\ gpu_grant'[q] = IF throttle_held[q] THEN FALSE ELSE gpu_grant[q]
    BY <1>8 DEF TriggerBackward, AllAt
  <2> QED BY <1>a, <2>1 DEF OnRecord, IsSet
<1>9. CASE UNCHANGED runner_vars
  BY <1>c, <1>9 DEF runner_vars
<1>10. CASE Arrive \/ Clocks \/ Children
             \/ \E r \in Ranks : SegmentDone(r)
  BY <1>9, <1>10
  DEF Arrive, Clocks, ArrivalTimeout, Children, Agree, Resume, ChildStart,
      Observe, Poll, Segment, Answer, SegmentDone
<1>11. CASE UNCHANGED vars
  BY <1>9, <1>11 DEF vars
<1> QED
  BY <1>1, <1>2, <1>3, <1>4, <1>5, <1>6, <1>7, <1>8, <1>10, <1>11
  DEF Next, Engine, Gpus

-----------------------------------------------------------------------------
(***************************************************************************)
(* Prefills, without the throttle and with pause_until_prefill_done.       *)
(***************************************************************************)
\* A forward the backward must keep away from.
Guarded(r, i) ==
    gpu[r][i].paused \/ (Relay /\ pending[r] /\ gpu[r][i].prefill)

\* The event the deferred resume polls lies behind every guarded forward, and
\* the prefill event behind every prefill, so neither fires too early.
Behind(r) ==
    /\ ~throttle_held[r]
    /\ \A i \in DOMAIN gpu[r] :
          /\ gpu[r][i].paused => gpu[r][i].prefill
          /\ Relay /\ gpu[r][i].prefill => prefill_evt[r] >= i
          /\ Guarded(r, i) => resume_evt[r] >= i /\ ~gpu_grant[r]

BehindInv == cfg.until_done /\ ~cfg.throttle => \A r \in Ranks : Behind(r)

\* A rank's events do not depend on what the others do.
LEMMA BehindLocal ==
  ASSUME NEW r \in Ranks, cfg' = cfg, Behind(r), Relay' = Relay,
         gpu_grant'[r] = gpu_grant[r], throttle_held'[r] = throttle_held[r],
         resume_evt'[r] = resume_evt[r], prefill_evt'[r] = prefill_evt[r],
         pending'[r] = pending[r], gpu'[r] = gpu[r]
  PROVE  Behind(r)'
  BY DEF Behind, Guarded

\* No event that has fired lies behind a forward still on the GPU.
LEMMA NothingBehindFired ==
  ASSUME NEW r \in Ranks, RunnerType, Behind(r), ResumeDue(r)
  PROVE  \A i \in DOMAIN gpu[r] : ~Guarded(r, i)
<1>1. resume_evt[r] = 0
  BY DEF ResumeDue, Fired
<1>2. \A i \in DOMAIN gpu[r] : i \in Nat \ {0}
  BY DEF RunnerType
<1> QED BY <1>1, <1>2 DEF Behind

\* Every operation keeps the events behind what they stand for.
LEMMA NextBehind ==
  ASSUME RunnerType, StepMakesSense, GrantInv, BehindInv, [Next]_vars
  PROVE  BehindInv'
<1>0. cfg' = cfg /\ Ranks' = Ranks /\ Relay' = Relay
  BY CfgFixed
<1> SUFFICES ASSUME cfg.until_done, ~cfg.throttle, NEW q \in Ranks
             PROVE  Behind(q)'
  BY <1>0 DEF BehindInv
<1> HIDE DEF Ranks, Relay
<1> USE <1>0
<1>a. /\ Behind(q) /\ OnRecord(q)
      /\ ~throttle_held[q] /\ ~step[q].heavy
  BY DEF BehindInv, GrantInv, Behind, StepMakesSense
<1>b. /\ gpu[q] \in Seq(OnGpu)
      /\ resume_evt[q] \in EventType /\ prefill_evt[q] \in EventType
      /\ \A i \in DOMAIN gpu[q] : i \in Nat \ {0}
  BY DEF RunnerType
<1>c. CASE UNCHANGED <<gpu_grant[q], throttle_held[q], resume_evt[q],
                       prefill_evt[q], pending[q], gpu[q]>>
  BY <1>a, <1>c, BehindLocal
<1>1. CASE BeginStep
  BY <1>c, <1>1 DEF BeginStep
<1>2. ASSUME NEW r \in Ranks, BeforeStep(r) PROVE Behind(q)'
  <2>1. CASE q # r
    BY <1>2, <1>c, <2>1 DEF BeforeStep, RunnerType
  <2>2. CASE q = r
    <3>1. /\ gpu' = gpu /\ prefill_evt' = prefill_evt
          /\ ~throttle_held'[q]
      BY <1>2, <1>a, <2>2 DEF BeforeStep, RunnerType
    <3> DEFINE evt == IF ResumeDue(q) THEN None ELSE resume_evt[q]
    <3>2. \A i \in DOMAIN gpu[q] : Guarded(q, i) => evt >= i
      BY <1>a, NothingBehindFired DEF Behind
    <3>3. ~ThrottleRelease(q)
      BY <1>a DEF ThrottleRelease
    <3>4. \A i \in DOMAIN gpu[q] : Guarded(q, i)
             => ~(gpu_grant[q] \/ ResumeBackward(q) \/ ThrottleRelease(q))
      BY <1>a, <3>3, NothingBehindFired DEF Behind, ResumeBackward
    <3>5. CASE step[q].trigger
      <4>1. /\ gpu_grant'[q] =
                 (/\ gpu_grant[q] \/ ResumeBackward(q) \/ ThrottleRelease(q)
                  /\ ~PrePause(q) /\ ~PreviousPrefill(q))
            /\ resume_evt'[q] = IF PreviousPrefill(q) THEN prefill_evt[q]
                                                      ELSE evt
        BY <1>2, <2>2, <3>5 DEF BeforeStep, RunnerType
      <4>2. \A i \in DOMAIN gpu[q] : Relay /\ gpu[q][i].prefill
               => PreviousPrefill(q)
        BY <1>a, <1>b DEF Behind, PreviousPrefill, IsSet, Fired, None
      <4>3. CASE PreviousPrefill(q)
        <5>1. resume_evt'[q] = prefill_evt[q] /\ ~gpu_grant'[q]
          BY <4>1, <4>3
        <5>3. Relay
          BY <3>5 DEF StepMakesSense
        <5>4. \A i \in DOMAIN gpu[q] : Guarded(q, i)' => gpu[q][i].prefill
          BY <1>a, <3>1 DEF Guarded, Behind
        <5> QED BY <1>a, <3>1, <5>1, <5>3, <5>4 DEF Behind
      <4>4. CASE ~PreviousPrefill(q)
        <5>1. \A i \in DOMAIN gpu[q] : Guarded(q, i)' => Guarded(q, i)
          BY <3>1, <4>2, <4>4 DEF Guarded
        <5>2. resume_evt'[q] = evt
          BY <4>1, <4>4
        <5> HIDE DEF evt
        <5> QED BY <1>a, <3>1, <3>2, <3>4, <4>1, <5>1, <5>2 DEF Behind
      <4> QED BY <4>3, <4>4
    <3>6. CASE ~step[q].trigger
      <4>1. /\ gpu_grant'[q] =
                 (gpu_grant[q] \/ ResumeBackward(q) \/ ThrottleRelease(q))
            /\ resume_evt'[q] = evt /\ pending' = pending
        BY <1>2, <2>2, <3>6 DEF BeforeStep, RunnerType
      <4>2. \A i \in DOMAIN gpu[q] : Guarded(q, i)' = Guarded(q, i)
        BY <3>1, <4>1 DEF Guarded
      <4> HIDE DEF evt
      <4> QED BY <1>a, <3>1, <3>2, <3>4, <4>1, <4>2 DEF Behind
    <3> QED BY <3>5, <3>6
  <2> QED BY <2>1, <2>2
<1>3. ASSUME NEW r \in Ranks, DecideRelease(r) PROVE Behind(q)'
  <2>1. CASE q # r
    BY <1>3, <1>c, <2>1 DEF DecideRelease, RunnerType
  <2>2. CASE q = r
    BY <1>3, <1>a, <1>c, <2>2 DEF DecideRelease
  <2> QED BY <2>1, <2>2
<1>4. ASSUME NEW r \in Ranks, DecidePause(r) PROVE Behind(q)'
  <2>1. CASE q # r
    BY <1>4, <1>c, <2>1 DEF DecidePause, RunnerType
  <2>2. CASE q = r
    <3>1. /\ UNCHANGED <<resume_evt, prefill_evt, pending, gpu>>
          /\ gpu_grant'[q] = (gpu_grant[q] /\ ~PauseBwd(q))
          /\ throttle_held'[q] = IF PauseBwd(q) THEN PauseThrottle(q)
                                                ELSE throttle_held[q]
      BY <1>4, <2>2 DEF DecidePause, RunnerType, Hold
    <3>2. ~throttle_held'[q]
      BY <1>a, <3>1 DEF PauseThrottle
    <3>3. \A i : Guarded(q, i)' = Guarded(q, i)
      BY <3>1 DEF Guarded
    <3> QED BY <1>a, <3>1, <3>2, <3>3 DEF Behind
  <2> QED BY <2>1, <2>2
<1>5. ASSUME NEW r \in Ranks, Forward(r) PROVE Behind(q)'
  <2>1. CASE q # r
    BY <1>5, <1>c, <2>1 DEF Forward, RunnerType
  <2>2. CASE q = r
    <3>0. PICK n \in Nat : n = Len(gpu[q]) + 1
      BY <1>b
    <3> DEFINE f == [prefill |-> step[q].prefill,
                     paused |-> step[q].prefill /\ PauseBwd(q)]
    <3>1. /\ runner_pc[q] = "forward"
          /\ throttle_held'[q] = throttle_held[q] /\ pending' = pending
          /\ gpu_grant'[q] = gpu_grant[q]
          /\ resume_evt'[q] = IF PauseBwd(q) THEN n ELSE resume_evt[q]
          /\ prefill_evt'[q] = IF Relay /\ step[q].prefill THEN n
                                                     ELSE prefill_evt[q]
          /\ gpu'[q] = Append(gpu[q], f)
      BY <1>5, <1>a, <2>2, <3>0
      DEF Forward, RunnerType, NextResume, PauseThrottle
    <3>2. /\ n \in Nat \ {0} /\ DOMAIN gpu'[q] = 1 .. n
          /\ \A i \in DOMAIN gpu[q] : gpu'[q][i] = gpu[q][i] /\ i <= n
          /\ gpu'[q][n] = f
          /\ \A i \in 1 .. n : i \in DOMAIN gpu[q] \/ i = n
      BY <1>b, <3>0, <3>1
    <3>3. /\ gpu'[q][n].prefill => step[q].prefill
          /\ gpu'[q][n].paused => gpu'[q][n].prefill /\ PauseBwd(q)
      <4>1. /\ gpu'[q][n].prefill = step[q].prefill
            /\ gpu'[q][n].paused = (step[q].prefill /\ PauseBwd(q))
        BY <3>2
      <4> QED BY <4>1
    <3>4. step[q].prefill /\ pending[q] => PauseBwd(q)
      BY DEF PauseBwd, Considered
    <3>5. PauseBwd(q) => ~gpu_grant[q]
      BY <1>a, <3>1 DEF OnRecord
    <3> HIDE DEF f
    <3>6. \A i \in DOMAIN gpu[q] :
            /\ gpu'[q][i].paused => gpu'[q][i].prefill
            /\ Relay /\ gpu'[q][i].prefill => prefill_evt'[q] >= i
            /\ Guarded(q, i)' => resume_evt'[q] >= i /\ ~gpu_grant'[q]
      <4> SUFFICES ASSUME NEW i \in DOMAIN gpu[q]
                   PROVE  /\ gpu'[q][i].paused => gpu'[q][i].prefill
                          /\ Relay /\ gpu'[q][i].prefill
                               => prefill_evt'[q] >= i
                          /\ Guarded(q, i)'
                               => resume_evt'[q] >= i /\ ~gpu_grant'[q]
        OBVIOUS
      <4>1. gpu'[q][i] = gpu[q][i] /\ i <= n
        BY <3>2
      <4>2. Guarded(q, i)' = Guarded(q, i)
        BY <3>1, <4>1 DEF Guarded
      <4>3. /\ gpu[q][i].paused => gpu[q][i].prefill
            /\ Relay /\ gpu[q][i].prefill => prefill_evt[q] >= i
            /\ Guarded(q, i) => resume_evt[q] >= i /\ ~gpu_grant[q]
        BY <1>a DEF Behind
      <4>4. i \in Nat
        BY <1>b
      <4>5. Relay /\ gpu'[q][i].prefill => prefill_evt'[q] >= i
        BY <3>1, <3>2, <4>1, <4>3, <4>4
      <4>6. Guarded(q, i)' => resume_evt'[q] >= i /\ ~gpu_grant'[q]
        BY <3>1, <3>2, <4>1, <4>2, <4>3, <4>4
      <4> QED BY <4>1, <4>3, <4>5, <4>6
    <3>7. /\ gpu'[q][n].paused => gpu'[q][n].prefill
          /\ Relay /\ gpu'[q][n].prefill => prefill_evt'[q] >= n
          /\ Guarded(q, n)' => resume_evt'[q] >= n /\ ~gpu_grant'[q]
      <4>1. pending'[q] = pending[q]
        BY <3>1
      <4>2. Guarded(q, n)' => PauseBwd(q)
        BY <3>3, <3>4, <4>1 DEF Guarded
      <4>3. n >= n
        BY <3>2
      <4>4. PauseBwd(q) => resume_evt'[q] >= n /\ ~gpu_grant'[q]
        BY <3>1, <3>5, <4>3
      <4>5. Relay /\ gpu'[q][n].prefill => prefill_evt'[q] >= n
        BY <3>1, <3>3, <4>3
      <4> QED BY <3>3, <4>2, <4>4, <4>5
    <3>8. \A i \in DOMAIN gpu'[q] :
            /\ gpu'[q][i].paused => gpu'[q][i].prefill
            /\ Relay /\ gpu'[q][i].prefill => prefill_evt'[q] >= i
            /\ Guarded(q, i)' => resume_evt'[q] >= i /\ ~gpu_grant'[q]
      <4> SUFFICES ASSUME NEW i \in DOMAIN gpu'[q]
                   PROVE  /\ gpu'[q][i].paused => gpu'[q][i].prefill
                          /\ Relay /\ gpu'[q][i].prefill
                               => prefill_evt'[q] >= i
                          /\ Guarded(q, i)'
                               => resume_evt'[q] >= i /\ ~gpu_grant'[q]
        OBVIOUS
      <4>1. i \in DOMAIN gpu[q] \/ i = n
        BY <3>2
      <4> QED BY <3>6, <3>7, <4>1
    <3> QED BY <1>a, <3>1, <3>8 DEF Behind
  <2> QED BY <2>1, <2>2
<1>6. CASE EndStep
  <2>1. /\ UNCHANGED <<prefill_evt, gpu, throttle_held>>
        /\ gpu_grant'[q] = (gpu_grant[q]
                              \/ (step[q].tokens /\ ResumeBackward(q)))
        /\ resume_evt'[q] = IF step[q].tokens /\ ResumeDue(q) THEN None
                                                        ELSE resume_evt[q]
        /\ pending'[q] => pending[q]
    BY <1>6 DEF EndStep
  <2>2. \A i \in DOMAIN gpu[q] : Guarded(q, i)' => Guarded(q, i)
    BY <2>1 DEF Guarded
  <2>3. \A i \in DOMAIN gpu[q] : Guarded(q, i) => ~ResumeDue(q)
    BY <1>a, NothingBehindFired
  <2> QED BY <1>a, <2>1, <2>2, <2>3 DEF Behind, ResumeBackward
<1>7. ASSUME NEW r \in Ranks, GpuDone(r) PROVE Behind(q)'
  <2>1. CASE q # r
    BY <1>7, <1>c, <2>1 DEF GpuDone, RunnerType
  <2>2. CASE q = r
    <3>1. /\ gpu[q] # <<>> /\ gpu'[q] = Tail(gpu[q])
          /\ resume_evt'[q] = Passed(resume_evt[q])
          /\ prefill_evt'[q] = Passed(prefill_evt[q])
          /\ UNCHANGED <<gpu_grant, throttle_held, pending>>
      BY <1>7, <2>2 DEF GpuDone, RunnerType
    <3>2. \A i \in DOMAIN gpu'[q] :
            /\ i + 1 \in DOMAIN gpu[q] /\ gpu'[q][i] = gpu[q][i + 1]
            /\ i \in Nat \ {0}
      BY <1>b, <3>1
    <3>3. \A e \in EventType, i \in Nat \ {0} : e >= i + 1 => Passed(e) >= i
      BY DEF EventType, Passed, None
    <3>4. \A i \in DOMAIN gpu'[q] : Guarded(q, i)' = Guarded(q, i + 1)
      BY <3>1, <3>2 DEF Guarded
    <3> QED BY <1>a, <1>b, <3>1, <3>2, <3>3, <3>4 DEF Behind
  <2> QED BY <2>1, <2>2
<1>8. CASE TriggerBackward
  <2>1. /\ ~Relay
        /\ UNCHANGED <<resume_evt, prefill_evt, gpu, throttle_held>>
        /\ gpu_grant'[q] = IF throttle_held[q] THEN FALSE ELSE gpu_grant[q]
    BY <1>8 DEF TriggerBackward
  <2>2. \A i : Guarded(q, i)' => Guarded(q, i)
    BY <2>1 DEF Guarded
  <2> QED BY <1>a, <2>1, <2>2 DEF Behind
<1>9. CASE UNCHANGED runner_vars
  BY <1>c, <1>9 DEF runner_vars
<1>10. CASE Arrive \/ Clocks \/ Children
             \/ \E r \in Ranks : SegmentDone(r)
  BY <1>9, <1>10
  DEF Arrive, Clocks, ArrivalTimeout, Children, Agree, Resume, ChildStart,
      Observe, Poll, Segment, Answer, SegmentDone
<1>11. CASE UNCHANGED vars
  BY <1>9, <1>11 DEF vars
<1> QED
  BY <1>1, <1>2, <1>3, <1>4, <1>5, <1>6, <1>7, <1>8, <1>10, <1>11
  DEF Next, Engine, Gpus

-----------------------------------------------------------------------------
(***************************************************************************)
(* The children.                                                           *)
(***************************************************************************)
\* The slots of the ring come round.
LEMMA NextSlotCases ==
  ASSUME cfg \in Config, NEW pos \in 0 .. cfg.ahead
  PROVE  NextSlot(pos) = IF pos = cfg.ahead THEN 0 ELSE pos + 1
<1>1. cfg.ahead \in Nat
  BY DEF Config
<1>2. pos \in Nat /\ pos <= cfg.ahead
  BY <1>1
<1>3. CASE pos = cfg.ahead
  <2>1. \A n \in Nat : (n + 1) % (n + 1) = 0
    BY SMT
  <2> QED BY <1>1, <1>3, <2>1 DEF NextSlot
<1>4. CASE pos # cfg.ahead
  <2>1. \A m, n \in Nat : m < n => (m + 1) % (n + 1) = m + 1
    BY SMT
  <2> QED BY <1>1, <1>2, <1>4, <2>1 DEF NextSlot
<1> QED BY <1>3, <1>4

\* What recording an event does to the ring.
LEMMA RecordType ==
  ASSUME RunnerType, ChildType, cfg' = cfg, Ranks' = Ranks, NEW r \in Ranks,
         NEW work \in Nat, RecordEvent(r, work)
  PROVE  /\ ring' \in [Ranks -> [0 .. cfg.ahead -> Nat]]
         /\ ring_pos' \in [Ranks -> 0 .. cfg.ahead]
<1> HIDE DEF Ranks
<1>1. cfg \in Config /\ cfg.ahead \in Nat
  BY DEF RunnerType, Config
<1>2. CASE cfg.ahead = 0
  BY <1>2 DEF RecordEvent, ChildType
<1>3. CASE cfg.ahead # 0
  <2>1. NextSlot(ring_pos[r]) \in 0 .. cfg.ahead
    <3>1. ring_pos[r] \in 0 .. cfg.ahead
      BY DEF ChildType
    <3> QED BY <1>1, <3>1, NextSlotCases
  <2>2. [ring[r] EXCEPT ![ring_pos[r]] = work] \in [0 .. cfg.ahead -> Nat]
    BY DEF ChildType
  <2>3. ring' = [ring EXCEPT ![r] = [ring[r] EXCEPT ![ring_pos[r]] = work]]
    BY <1>3 DEF RecordEvent
  <2>4. ring' \in [Ranks -> [0 .. cfg.ahead -> Nat]]
    BY <2>2, <2>3 DEF ChildType
  <2>5. ring_pos' \in [Ranks -> 0 .. cfg.ahead]
    BY <1>3, <2>1 DEF RecordEvent, ChildType
  <2> QED BY <2>4, <2>5
<1> QED BY <1>2, <1>3

\* Every operation keeps the children's types.
LEMMA NextChildType ==
  ASSUME RunnerType, ChildType, [Next]_vars
  PROVE  ChildType'
<1>0. cfg' = cfg /\ Ranks' = Ranks
  BY CfgFixed
<1> HIDE DEF Ranks
<1> USE <1>0
<1>1. CASE UNCHANGED <<child_pc, boundary, queued, ring, ring_pos>>
  BY <1>1 DEF ChildType
<1>2. ASSUME child_pc' \in [Ranks -> ChildPc],
             UNCHANGED <<boundary, queued, ring, ring_pos>>
      PROVE  ChildType'
  BY <1>2 DEF ChildType
<1>3. CASE BeginStep \/ Arrive \/ Clocks
  BY <1>1, <1>3 DEF BeginStep, Arrive, Clocks, ArrivalTimeout, child_vars,
                    ring_vars, arrival_vars
<1>4. CASE \E r \in Ranks : \/ DecideRelease(r) \/ DecidePause(r)
                            \/ Forward(r) \/ GpuDone(r)
  BY <1>1, <1>4 DEF DecideRelease, DecidePause, Forward, GpuDone, child_vars,
                    ring_vars
<1>5. CASE TriggerBackward
  BY <1>2, <1>5 DEF TriggerBackward, ring_vars, ChildPc
<1>6. CASE EndStep
  BY <1>2, <1>6 DEF EndStep, ring_vars, ChildType, ChildPc
<1>7. ASSUME NEW r \in Ranks, BeforeStep(r) PROVE ChildType'
  BY <1>2, <1>7 DEF BeforeStep, ring_vars, ChildType, ChildPc
<1>8. ASSUME NEW r \in Ranks, ChildStart(r) PROVE ChildType'
  <2>1. queued[r] \in Nat
    BY DEF ChildType
  <2>2. /\ ring' \in [Ranks -> [0 .. cfg.ahead -> Nat]]
        /\ ring_pos' \in [Ranks -> 0 .. cfg.ahead]
    BY <1>8, <2>1, RecordType DEF ChildStart
  <2> QED BY <1>8, <2>2 DEF ChildStart, ChildType, ChildPc
<1>9. ASSUME NEW r \in Ranks, Observe(r) \/ Poll(r) \/ Answer(r)
      PROVE  ChildType'
  BY <1>2, <1>9 DEF Observe, Poll, Answer, ring_vars, ChildType, ChildPc
<1>10. CASE Agree \/ Resume
  BY <1>2, <1>10 DEF Agree, Resume, ring_vars, ChildPc
<1>11. ASSUME NEW r \in Ranks, Segment(r) PROVE ChildType'
  <2>1. queued[r] + 1 \in Nat
    BY DEF ChildType
  <2>2. /\ ring' \in [Ranks -> [0 .. cfg.ahead -> Nat]]
        /\ ring_pos' \in [Ranks -> 0 .. cfg.ahead]
    BY <1>11, <2>1, RecordType DEF Segment, ChildType
  <2>3. /\ boundary' = [boundary EXCEPT ![r] = @ + 1]
        /\ queued' = [queued EXCEPT ![r] = @ + 1]
    BY <1>11 DEF Segment
  <2>4. child_pc' \in [Ranks -> ChildPc]
    BY <1>11 DEF Segment, ChildType, ChildPc
  <2>5. boundary' \in [Ranks -> Nat] /\ queued' \in [Ranks -> Nat]
    BY <2>3 DEF ChildType
  <2> QED BY <2>2, <2>4, <2>5 DEF ChildType
<1>12. ASSUME NEW r \in Ranks, SegmentDone(r) PROVE ChildType'
  <2>1. /\ UNCHANGED <<child_pc, boundary, ring_pos>>
        /\ queued[r] > 0
        /\ queued' = [queued EXCEPT ![r] = @ - 1]
        /\ ring' = [ring EXCEPT ![r] =
                       [i \in DOMAIN @ |-> IF @[i] > 0 THEN @[i] - 1 ELSE 0]]
    BY <1>12 DEF SegmentDone
  <2>2. queued' \in [Ranks -> Nat]
    BY <2>1 DEF ChildType
  <2>3. [i \in DOMAIN ring[r] |-> IF ring[r][i] > 0 THEN ring[r][i] - 1 ELSE 0]
          \in [0 .. cfg.ahead -> Nat]
    <3>1. /\ DOMAIN ring[r] = 0 .. cfg.ahead
          /\ \A i \in 0 .. cfg.ahead : ring[r][i] \in Nat
      BY DEF ChildType
    <3>2. \A n \in Nat : (IF n > 0 THEN n - 1 ELSE 0) \in Nat
      OBVIOUS
    <3> QED BY <3>1, <3>2
  <2>4. ring' \in [Ranks -> [0 .. cfg.ahead -> Nat]]
    BY <2>1, <2>3 DEF ChildType
  <2> QED BY <2>1, <2>2, <2>4 DEF ChildType
<1>13. CASE UNCHANGED vars
  BY <1>1, <1>13 DEF vars, child_vars, ring_vars
<1> QED
  BY <1>3, <1>4, <1>5, <1>6, <1>7, <1>8, <1>9, <1>10, <1>11, <1>12, <1>13
  DEF Next, Engine, Gpus, Children

\* The boundary a child has reached, or is on its way to.
Target(r) ==
    IF child_pc[r] \in {"wait", "start"} THEN 0
    ELSE IF child_pc[r] = "run" THEN boundary[r] + 1
    ELSE boundary[r]

Stopped == {"blocked", "mine", "not_mine"}

\* The children are on their way to one boundary, and stop there together.
InStep(r, q) ==
    /\ Target(r) = Target(q)
    /\ child_pc[r] \in Stopped <=> child_pc[q] \in Stopped

\* A child is in a cycle exactly while its runner has a backward outstanding,
\* and a relayed trigger finds none.
CycleKnown(r) ==
    /\ pending[r] <=> child_pc[r] # "wait"
    /\ runner_pc[r] = "before" /\ step[r].trigger => ~pending[r]

BarrierInv == /\ \A r, q \in Ranks : InStep(r, q)
              /\ \A r \in Ranks : CycleKnown(r)

\* How many boundaries ago the event of a slot was recorded.
Age(r, i) == IF i < ring_pos[r] THEN ring_pos[r] - 1 - i
             ELSE ring_pos[r] + cfg.ahead - i

\* An event waits for all but the segments enqueued since it was recorded, so
\* that a child past its wait has at most run_ahead_boundaries of them.
Lag(r) ==
    cfg.ahead > 0 =>
      /\ child_pc[r] # "drain" =>
           \A i \in 0 .. cfg.ahead : ring[r][i] + Age(r, i) >= queued[r]
      /\ child_pc[r] \in Stopped \union {"go", "stop"} => queued[r] <= cfg.ahead

LagInv == \A r \in Ranks : Lag(r)

\* Two children stay in step while neither moves.
LEMMA InStepLocal ==
  ASSUME NEW r \in Ranks, NEW q \in Ranks, InStep(r, q),
         child_pc'[r] = child_pc[r], boundary'[r] = boundary[r],
         child_pc'[q] = child_pc[q], boundary'[q] = boundary[q]
  PROVE  InStep(r, q)'
  BY DEF InStep, Target

\* Moving to another label of the same boundary keeps a child in step.
LEMMA InStepMove ==
  ASSUME \A r, q \in Ranks : InStep(r, q), Ranks' = Ranks,
         \A r \in Ranks : /\ Target(r)' = Target(r)
                          /\ child_pc'[r] \in Stopped <=> child_pc[r] \in Stopped
  PROVE  \A r, q \in Ranks : InStep(r, q)'
  BY DEF InStep

\* Every operation keeps the children in step.
LEMMA NextBarrier ==
  ASSUME RunnerType, ChildType, BarrierInv, [Next]_vars
  PROVE  BarrierInv'
<1>0. cfg' = cfg /\ Ranks' = Ranks
  BY CfgFixed
<1> HIDE DEF Ranks
<1> USE <1>0
<1>a. \A r \in Ranks :
        /\ child_pc[r] \in ChildPc /\ boundary[r] \in Nat
        /\ CycleKnown(r) /\ \A q \in Ranks : InStep(r, q)
  BY DEF ChildType, BarrierInv
<1>b. CASE UNCHANGED <<child_pc, boundary, pending, runner_pc, step>>
  BY <1>a, <1>b DEF BarrierInv, CycleKnown, InStep, Target
<1>1. CASE BeginStep
  <2>1. UNCHANGED <<child_pc, boundary, pending>>
    BY <1>1 DEF BeginStep, child_vars
  <2>2. \A r \in Ranks : step'[r].trigger => ~pending[r]
    BY <1>1 DEF BeginStep, MayTrigger
  <2> QED BY <1>a, <2>1, <2>2 DEF BarrierInv, CycleKnown, InStep, Target
<1>2. ASSUME NEW p \in Ranks, BeforeStep(p) PROVE BarrierInv'
  <2>1. /\ runner_pc[p] = "before" /\ boundary' = boundary /\ step' = step
        /\ runner_pc' = [runner_pc EXCEPT ![p] =
                           IF step[p].tokens THEN "decide" ELSE "relay"]
    BY <1>2 DEF BeforeStep
  <2>2. CASE step[p].trigger
    <3>1. /\ pending' = [pending EXCEPT ![p] = TRUE]
          /\ child_pc' = [child_pc EXCEPT ![p] = "start"]
      BY <1>2, <2>2 DEF BeforeStep
    <3>2. child_pc[p] = "wait"
      BY <1>a, <2>1, <2>2 DEF CycleKnown
    <3>3. \A r \in Ranks :
            child_pc'[r] = IF r = p THEN "start" ELSE child_pc[r]
      BY <3>1 DEF ChildType
    <3>4. \A r \in Ranks : /\ Target(r)' = Target(r)
                           /\ child_pc'[r] \in Stopped
                                <=> child_pc[r] \in Stopped
      BY <2>1, <3>2, <3>3 DEF Target, Stopped
    <3>5. \A r \in Ranks : CycleKnown(r)'
      BY <1>a, <2>1, <3>1 DEF CycleKnown, RunnerType, ChildType
    <3> QED BY <1>a, <3>4, <3>5, InStepMove DEF BarrierInv
  <2>3. CASE ~step[p].trigger
    <3>1. UNCHANGED <<pending, child_pc>>
      BY <1>2, <2>3 DEF BeforeStep
    <3>2. \A r \in Ranks : CycleKnown(r)'
      BY <1>a, <2>1, <3>1 DEF CycleKnown, RunnerType
    <3> QED BY <1>a, <2>1, <3>1, <3>2, InStepLocal DEF BarrierInv
  <2> QED BY <2>2, <2>3
<1>3. ASSUME NEW p \in Ranks,
             DecideRelease(p) \/ DecidePause(p) \/ Forward(p)
      PROVE  BarrierInv'
  <2>1. /\ UNCHANGED <<child_pc, boundary, pending, step>>
        /\ \A r \in Ranks : runner_pc'[r] = "before" => runner_pc[r] = "before"
    BY <1>3 DEF DecideRelease, DecidePause, Forward, child_vars, RunnerType
  <2>2. \A r \in Ranks : CycleKnown(r)'
    BY <1>a, <2>1 DEF CycleKnown
  <2> QED BY <1>a, <2>1, <2>2, InStepLocal DEF BarrierInv
<1>4. CASE EndStep
  <2>1. /\ boundary' = boundary
        /\ \A r \in Ranks : runner_pc'[r] = "idle"
    BY <1>4 DEF EndStep
  <2>2. CASE \A r \in Ranks : child_pc[r] = "answered"
    <3>1. \A r \in Ranks : ~pending'[r] /\ child_pc'[r] = "wait"
      BY <1>4, <2>2 DEF EndStep
    <3> QED BY <2>1, <3>1 DEF BarrierInv, CycleKnown, InStep, Target, Stopped
  <2>3. CASE ~\A r \in Ranks : child_pc[r] = "answered"
    <3>1. UNCHANGED <<pending, child_pc>>
      BY <1>4, <2>3 DEF EndStep
    <3>2. \A r \in Ranks : CycleKnown(r)'
      BY <1>a, <2>1, <3>1 DEF CycleKnown
    <3> QED BY <1>a, <2>1, <3>1, <3>2, InStepLocal DEF BarrierInv
  <2> QED BY <2>2, <2>3
<1>5. CASE TriggerBackward
  <2>1. /\ boundary' = boundary
        /\ \A r \in Ranks : /\ child_pc[r] = "wait" /\ child_pc'[r] = "start"
                            /\ pending'[r] /\ runner_pc'[r] = "idle"
    BY <1>a, <1>5 DEF TriggerBackward, MayTrigger, AllAt, CycleKnown
  <2> QED BY <2>1 DEF BarrierInv, CycleKnown, InStep, Target, Stopped
<1>6. ASSUME NEW p \in Ranks,
             ChildStart(p) \/ Observe(p) \/ Poll(p) \/ Segment(p) \/ Answer(p)
      PROVE  BarrierInv'
  <2>1. UNCHANGED <<pending, runner_pc, step>>
    BY <1>6 DEF ChildStart, Observe, Poll, Segment, Answer, runner_vars
  <2>2. \A r \in Ranks \ {p} : UNCHANGED <<child_pc[r], boundary[r]>>
    BY <1>6 DEF ChildStart, Observe, Poll, Segment, Answer, ChildType
  <2>3. /\ child_pc[p] # "wait" /\ child_pc'[p] # "wait"
        /\ child_pc'[p] \in Stopped <=> child_pc[p] \in Stopped
    BY <1>6 DEF ChildStart, Observe, Poll, Segment, Answer, ChildType, Stopped
  <2>4. Target(p)' = Target(p)
    BY <1>6 DEF ChildStart, Observe, Poll, Segment, Answer, ChildType, Target
  <2>5. \A r \in Ranks : /\ Target(r)' = Target(r)
                         /\ child_pc'[r] \in Stopped <=> child_pc[r] \in Stopped
    BY <2>2, <2>3, <2>4 DEF Target
  <2>6. \A r \in Ranks : CycleKnown(r)'
    BY <1>a, <2>1, <2>2, <2>3 DEF CycleKnown
  <2> QED BY <1>a, <2>5, <2>6, InStepMove DEF BarrierInv
<1>7. CASE Agree
  <2>1. /\ UNCHANGED <<pending, runner_pc, step, boundary>>
        /\ \A r \in Ranks : child_pc[r] \in {"go", "stop"}
        /\ \/ \A r \in Ranks : child_pc'[r] = "blocked"
           \/ \A r \in Ranks : child_pc'[r] = "run"
    BY <1>7 DEF Agree, runner_vars, Stops
  <2>2. \A r, q \in Ranks : boundary[r] = boundary[q]
    BY <1>a, <2>1 DEF InStep, Target
  <2>3. \A r, q \in Ranks : InStep(r, q)'
    BY <2>1, <2>2 DEF InStep, Target, Stopped
  <2>4. \A r \in Ranks : CycleKnown(r)'
    BY <1>a, <2>1 DEF CycleKnown
  <2> QED BY <2>3, <2>4 DEF BarrierInv
<1>8. CASE Resume
  <2>1. /\ UNCHANGED <<pending, runner_pc, step, boundary>>
        /\ \A r \in Ranks : child_pc[r] \in {"mine", "not_mine"}
        /\ \/ \A r \in Ranks : child_pc'[r] = "blocked"
           \/ \A r \in Ranks : child_pc'[r] = "run"
    BY <1>8 DEF Resume, runner_vars
  <2>2. \A r, q \in Ranks : boundary[r] = boundary[q]
    BY <1>a, <2>1 DEF InStep, Target
  <2>3. \A r, q \in Ranks : InStep(r, q)'
    BY <2>1, <2>2 DEF InStep, Target, Stopped
  <2>4. \A r \in Ranks : CycleKnown(r)'
    BY <1>a, <2>1 DEF CycleKnown
  <2> QED BY <2>3, <2>4 DEF BarrierInv
<1>9. CASE Arrive \/ Clocks \/ Gpus
  BY <1>b, <1>9 DEF Arrive, Clocks, ArrivalTimeout, Gpus, GpuDone, SegmentDone,
                    child_vars, runner_vars
<1>10. CASE UNCHANGED vars
  BY <1>b, <1>10 DEF vars, child_vars, runner_vars
<1> QED
  BY <1>1, <1>2, <1>3, <1>4, <1>5, <1>6, <1>7, <1>8, <1>9, <1>10
  DEF Next, Engine, Children

\* An event recorded behind all the work of a child makes the others one
\* boundary older.
LEMMA RecordLag ==
  ASSUME RunnerType, ChildType, cfg' = cfg, cfg.ahead > 0, NEW r \in Ranks,
         NEW work \in Nat, RecordEvent(r, work), work \in {queued[r], queued[r] + 1},
         \A i \in 0 .. cfg.ahead : ring[r][i] + Age(r, i) >= queued[r]
  PROVE  \A i \in 0 .. cfg.ahead : ring'[r][i] + Age(r, i)' >= work
<1> HIDE DEF Ranks
<1>1. /\ cfg \in Config /\ cfg.ahead \in Nat
      /\ ring_pos[r] \in 0 .. cfg.ahead /\ queued[r] \in Nat
      /\ \A i \in 0 .. cfg.ahead : ring[r][i] \in Nat
  BY DEF RunnerType, Config, ChildType
<1>2. ring_pos'[r] = IF ring_pos[r] = cfg.ahead THEN 0 ELSE ring_pos[r] + 1
  <2>1. ring_pos'[r] = NextSlot(ring_pos[r])
    BY <1>1 DEF RecordEvent, ChildType
  <2> QED BY <1>1, <2>1, NextSlotCases
<1>3. \A i \in 0 .. cfg.ahead :
         ring'[r][i] = IF i = ring_pos[r] THEN work ELSE ring[r][i]
  BY <1>1 DEF RecordEvent, ChildType
<1>4. SUFFICES ASSUME NEW i \in 0 .. cfg.ahead
               PROVE  ring'[r][i] + Age(r, i)' >= work
  OBVIOUS
<1>5. CASE i = ring_pos[r]
  <2>1. Age(r, i)' = 0
    BY <1>1, <1>2, <1>5 DEF Age
  <2> QED BY <1>3, <1>5, <2>1
<1>6. CASE i # ring_pos[r]
  <2>1. Age(r, i)' = Age(r, i) + 1 /\ Age(r, i) \in Nat
    BY <1>1, <1>2, <1>6 DEF Age
  <2>2. ring'[r][i] = ring[r][i] /\ ring[r][i] + Age(r, i) >= queued[r]
    BY <1>3, <1>6
  <2> QED BY <1>1, <2>1, <2>2
<1> QED BY <1>5, <1>6

\* A child that does not touch its ring keeps its lag.
LEMMA LagMove ==
  ASSUME NEW r \in Ranks, cfg' = cfg, Lag(r),
         queued'[r] = queued[r], ring'[r] = ring[r], ring_pos'[r] = ring_pos[r],
         child_pc[r] # "drain" \/ child_pc'[r] = "drain",
         child_pc'[r] \in Stopped \union {"go", "stop"}
           => child_pc[r] \in Stopped \union {"go", "stop"}
  PROVE  Lag(r)'
  BY DEF Lag, Age

\* Every operation keeps the tail of a paused child bounded.
LEMMA NextLag ==
  ASSUME RunnerType, ChildType, BarrierInv, LagInv, [Next]_vars
  PROVE  LagInv'
<1>0. cfg' = cfg /\ Ranks' = Ranks
  BY CfgFixed
<1> HIDE DEF Ranks
<1> SUFFICES ASSUME NEW q \in Ranks PROVE Lag(q)'
  BY <1>0 DEF LagInv
<1> USE <1>0
<1>a. /\ Lag(q) /\ CycleKnown(q)
      /\ cfg.ahead \in Nat /\ child_pc[q] \in ChildPc
      /\ queued[q] \in Nat /\ ring_pos[q] \in 0 .. cfg.ahead
      /\ \A i \in 0 .. cfg.ahead : ring[q][i] \in Nat
  <2>1. Lag(q) /\ CycleKnown(q)
    BY DEF LagInv, BarrierInv
  <2>2. cfg.ahead \in Nat
    BY DEF RunnerType, Config
  <2> QED BY <2>1, <2>2 DEF ChildType
<1>b. CASE UNCHANGED <<child_pc[q], queued[q], ring[q], ring_pos[q]>>
  BY <1>a, <1>b, LagMove
<1>1. CASE BeginStep \/ Arrive \/ Clocks
  BY <1>b, <1>1 DEF BeginStep, Arrive, Clocks, ArrivalTimeout, child_vars,
                    ring_vars
<1>2. CASE \E r \in Ranks : \/ DecideRelease(r) \/ DecidePause(r)
                            \/ Forward(r) \/ GpuDone(r)
  BY <1>b, <1>2 DEF DecideRelease, DecidePause, Forward, GpuDone, child_vars,
                    ring_vars
<1>3. ASSUME NEW r \in Ranks, BeforeStep(r) PROVE Lag(q)'
  <2>1. UNCHANGED ring_vars
    BY <1>3 DEF BeforeStep
  <2>2. \/ child_pc'[q] = child_pc[q]
        \/ child_pc[q] = "wait" /\ child_pc'[q] = "start"
    BY <1>a, <1>3 DEF BeforeStep, ChildType, CycleKnown
  <2> QED BY <1>a, <2>1, <2>2, LagMove DEF ring_vars, Stopped
<1>4. CASE EndStep
  <2>1. UNCHANGED ring_vars
    BY <1>4 DEF EndStep
  <2>2. \/ child_pc'[q] = child_pc[q]
        \/ child_pc[q] = "answered" /\ child_pc'[q] = "wait"
    BY <1>4 DEF EndStep
  <2> QED BY <1>a, <2>1, <2>2, LagMove DEF ring_vars, Stopped
<1>5. CASE TriggerBackward
  <2>1. /\ UNCHANGED ring_vars
        /\ child_pc[q] = "wait" /\ child_pc'[q] = "start"
    BY <1>a, <1>5 DEF TriggerBackward, MayTrigger, CycleKnown
  <2> QED BY <1>a, <2>1, LagMove DEF ring_vars, Stopped
<1>6. ASSUME NEW r \in Ranks, ChildStart(r) PROVE Lag(q)'
  <2>1. CASE q # r
    BY <1>6, <1>b, <2>1 DEF ChildStart, ChildType, RecordEvent
  <2>2. CASE q = r
    <3>1. /\ child_pc[q] = "start" /\ child_pc'[q] = "sync"
          /\ queued' = queued /\ RecordEvent(q, queued[q])
      BY <1>6, <2>2 DEF ChildStart, ChildType
    <3>2. cfg.ahead > 0 =>
            \A i \in 0 .. cfg.ahead : ring'[q][i] + Age(q, i)' >= queued'[q]
      BY <1>a, <3>1, RecordLag DEF Lag
    <3> QED BY <3>1, <3>2 DEF Lag, Stopped
  <2> QED BY <2>1, <2>2
<1>7. ASSUME NEW r \in Ranks, Observe(r) PROVE Lag(q)'
  <2>1. CASE q # r
    BY <1>7, <1>b, <2>1 DEF Observe, ChildType, ring_vars
  <2>2. CASE q = r
    <3>1. /\ UNCHANGED ring_vars /\ child_pc[q] = "sync"
          /\ child_pc'[q] \in {"go", "stop"}
          /\ cfg.ahead > 0 => ring[q][ring_pos[q]] = 0
      BY <1>7, <2>2 DEF Observe, ChildType, OldestFired
    <3>2. Age(q, ring_pos[q]) = cfg.ahead
      BY <1>a DEF Age
    <3>3. cfg.ahead > 0 => queued[q] <= cfg.ahead
      BY <1>a, <3>1, <3>2 DEF Lag
    <3>4. cfg.ahead > 0 =>
            \A i \in 0 .. cfg.ahead : ring[q][i] + Age(q, i) >= queued[q]
      BY <1>a, <3>1 DEF Lag
    <3> QED BY <3>1, <3>3, <3>4 DEF Lag, Age, ring_vars
  <2> QED BY <2>1, <2>2
<1>8. CASE Agree \/ Resume
  <2>1. /\ UNCHANGED ring_vars
        /\ child_pc[q] \in Stopped \union {"go", "stop"}
        /\ child_pc'[q] \in {"blocked", "run"}
    BY <1>8 DEF Agree, Resume, Stopped
  <2> QED BY <1>a, <2>1, LagMove DEF ring_vars, Stopped
<1>9. ASSUME NEW r \in Ranks, Poll(r) PROVE Lag(q)'
  <2>1. /\ UNCHANGED ring_vars
        /\ \/ child_pc'[q] = child_pc[q]
           \/ child_pc[q] = "blocked" /\ child_pc'[q] \in {"mine", "not_mine"}
    BY <1>9 DEF Poll, ChildType
  <2> QED BY <1>a, <2>1, LagMove DEF ring_vars, Stopped
<1>10. ASSUME NEW r \in Ranks, Segment(r) PROVE Lag(q)'
  <2>1. CASE q # r
    BY <1>10, <1>b, <2>1 DEF Segment, ChildType, RecordEvent
  <2>2. CASE q = r
    <3>1. /\ child_pc[q] = "run" /\ queued'[q] = queued[q] + 1
          /\ \/ child_pc'[q] = "drain"
             \/ child_pc'[q] = "sync" /\ RecordEvent(q, queued[q] + 1)
      BY <1>10, <2>2 DEF Segment, ChildType
    <3>2. CASE child_pc'[q] = "drain"
      BY <3>2 DEF Lag, Stopped
    <3>3. CASE child_pc'[q] = "sync" /\ RecordEvent(q, queued[q] + 1)
      <4>1. cfg.ahead > 0 =>
              \A i \in 0 .. cfg.ahead :
                 ring'[q][i] + Age(q, i)' >= queued[q] + 1
        BY <1>a, <3>1, <3>3, RecordLag DEF Lag
      <4> QED BY <3>1, <3>3, <4>1 DEF Lag, Stopped
    <3> QED BY <3>1, <3>2, <3>3
  <2> QED BY <2>1, <2>2
<1>11. ASSUME NEW r \in Ranks, Answer(r) PROVE Lag(q)'
  <2>1. CASE q # r
    BY <1>11, <1>b, <2>1 DEF Answer, ChildType, ring_vars
  <2>2. CASE q = r
    <3>1. /\ queued[q] = 0 /\ UNCHANGED ring_vars /\ child_pc'[q] = "answered"
      BY <1>11, <2>2 DEF Answer, ChildType
    <3>2. \A i \in 0 .. cfg.ahead : Age(q, i) \in Nat
      BY <1>a DEF Age
    <3>3. \A i \in 0 .. cfg.ahead : ring[q][i] + Age(q, i) >= queued[q]
      BY <1>a, <3>1, <3>2
    <3> QED BY <3>1, <3>3 DEF Lag, Age, ring_vars, Stopped
  <2> QED BY <2>1, <2>2
<1>12. ASSUME NEW r \in Ranks, SegmentDone(r) PROVE Lag(q)'
  <2>1. CASE q # r
    BY <1>12, <1>b, <2>1 DEF SegmentDone, ChildType
  <2>2. CASE q = r
    <3>1. /\ queued[q] > 0 /\ queued'[q] = queued[q] - 1
          /\ UNCHANGED <<child_pc, ring_pos>>
          /\ \A i \in 0 .. cfg.ahead :
               ring'[q][i] = IF ring[q][i] > 0 THEN ring[q][i] - 1 ELSE 0
      BY <1>12, <2>2 DEF SegmentDone, ChildType
    <3>2. \A i \in 0 .. cfg.ahead : Age(q, i)' = Age(q, i) /\ Age(q, i) \in Nat
      BY <1>a, <3>1 DEF Age
    <3>3. \A i \in 0 .. cfg.ahead :
             ring[q][i] + Age(q, i) >= queued[q]
               => ring'[q][i] + Age(q, i)' >= queued'[q]
      BY <1>a, <3>1, <3>2
    <3> QED BY <1>a, <3>1, <3>3 DEF Lag
  <2> QED BY <2>1, <2>2
<1>13. CASE UNCHANGED vars
  BY <1>b, <1>13 DEF vars, child_vars, ring_vars
<1> QED
  BY <1>1, <1>2, <1>3, <1>4, <1>5, <1>6, <1>7, <1>8, <1>9, <1>10, <1>11, <1>12,
     <1>13
  DEF Next, Engine, Gpus, Children

-----------------------------------------------------------------------------
(***************************************************************************)
(* The theorems.                                                           *)
(***************************************************************************)
YieldInv ==
    /\ RunnerType /\ StepMakesSense /\ ChildType
    /\ GrantInv /\ BehindInv /\ BarrierInv /\ LagInv

\* A server starts with every grant given and every child waiting.
LEMMA InitYield == Init => YieldInv
<1> SUFFICES ASSUME Init PROVE YieldInv
  OBVIOUS
<1> HIDE DEF Ranks
<1>1. cfg \in Config /\ cfg.ahead \in Nat
  BY YieldAssumption DEF Init, Config
<1>2. RunnerType /\ StepMakesSense
  <2>1. NoStep \in StepType
    BY DEF NoStep, Idle, StepType
  <2>2. ~NoStep.prefill /\ ~NoStep.heavy /\ ~NoStep.trigger
    BY DEF NoStep, Idle
  <2> QED BY <1>1, <2>1, <2>2
          DEF Init, RunnerType, RunnerPc, EventType, StepMakesSense
<1>3. ChildType
  <2>1. [i \in 0 .. cfg.ahead |-> 0] \in [0 .. cfg.ahead -> Nat]
    OBVIOUS
  <2>2. 0 \in 0 .. cfg.ahead
    BY <1>1
  <2> QED BY <2>1, <2>2 DEF Init, ChildType, ChildPc
<1>4. GrantInv
  BY DEF Init, GrantInv, OnRecord
<1>5. BehindInv
  BY DEF Init, BehindInv, Behind
<1>6. BarrierInv
  BY DEF Init, BarrierInv, InStep, CycleKnown, Target, Stopped
<1>7. LagInv
  <2>1. \A r \in Ranks, i \in 0 .. cfg.ahead : Age(r, i) \in Nat
    BY <1>1 DEF Init, Age
  <2> QED BY <1>1, <2>1 DEF Init, LagInv, Lag, Stopped
<1> QED BY <1>2, <1>3, <1>4, <1>5, <1>6, <1>7 DEF YieldInv

\* The inductive invariant of the protocol.
THEOREM YieldInvariant == Spec => []YieldInv
<1>1. YieldInv /\ [Next]_vars => YieldInv'
  BY NextRunnerType, NextChildType, NextGrant, NextBehind, NextBarrier, NextLag
  DEF YieldInv
<1> QED BY <1>1, InitYield, PTL DEF Spec

\* For every configuration and every interleaving of steps, triggers, deferred
\* resumes and throttle: between steps a cleared grant has somebody on record
\* who gives it back, and a throttle on record keeps it cleared.
THEOREM GrantsAccounted == Spec => []GrantAccounted
<1>1. YieldInv => GrantAccounted
  BY DEF YieldInv, GrantInv, OnRecord, GrantAccounted
<1> QED BY <1>1, YieldInvariant, PTL

\* For every number of ranks the configurations allow, and GPUs that lag by any
\* amount: the grant stays cleared while a guarded prefill is on the GPU.
THEOREM PrefillsProtected == Spec => []PrefillProtected
<1>1. YieldInv => PrefillProtected
  BY DEF YieldInv, BehindInv, Behind, Guarded, PrefillProtected
<1> QED BY <1>1, YieldInvariant, PTL

\* For every run-ahead bound and number of boundaries: a blocked child stands
\* at its peers' boundary with at most that many segments on the GPU.
THEOREM PausesFreeGpu == Spec => []BlockedFreesGpu
<1>1. YieldInv => BlockedFreesGpu
  <2> SUFFICES ASSUME YieldInv, NEW r \in Ranks, NEW q \in Ranks,
                      child_pc[q] = "blocked"
               PROVE  /\ boundary[r] = boundary[q] /\ child_pc[r] # "run"
                      /\ cfg.ahead > 0 => queued[q] <= cfg.ahead
    BY DEF BlockedFreesGpu
  <2> HIDE DEF Ranks
  <2>1. InStep(q, r) /\ Lag(q)
    BY DEF YieldInv, BarrierInv, LagInv
  <2> QED BY <2>1 DEF InStep, Lag, Target, Stopped
<1> QED BY <1>1, YieldInvariant, PTL
=============================================================================
