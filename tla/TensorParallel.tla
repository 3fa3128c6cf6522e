--------------------------- MODULE TensorParallel ---------------------------
(***************************************************************************)
(* The server over several GPUs.  The scheduler's coordinator (relay_mode) *)
(* owns the account of the buffer but no child; every rank's worker has a  *)
(* coordinator of its own that owns a child but no account.  The trigger   *)
(* of a backward rides on a SchedulerOutput to every rank; the saved       *)
(* counts, the ack and the ft_started flag ride back on the                *)
(* ModelRunnerOutput of one rank.  The ranks decide together, by all-      *)
(* reduces over the CPU group, whether to abandon a finetuning-only        *)
(* forward (FtAbortPoller) and whether every child has answered.           *)
(*                                                                         *)
(* The all-reduce does not know what it reduces: it completes when every   *)
(* rank has called it, whatever for.                                       *)
(***************************************************************************)
EXTENDS Integers, Sequences, FiniteSets

CONSTANTS
    Ranks,          \* of the TP group
    OutputRank,     \* whose output reaches the scheduler
    Capacity, MinSampleLen, Samples, Depth, Interruptible,
    Layers,         \* boundaries at which a forward polls for arrivals
    MaxLag,         \* steps the broadcast queue holds for a slow rank
    MaxInputs       \* bound: inference requests, and POST /start_finetuning
                    \* and /stop_finetuning

ASSUME TPAssumption ==
    /\ OutputRank \in Ranks /\ IsFiniteSet(Ranks)
    /\ Capacity \in Nat \ {0} /\ MinSampleLen \in 1 .. Capacity
    /\ Depth \in Nat \ {0} /\ Interruptible \in BOOLEAN
    /\ MaxLag \in Nat \ {0}
    /\ Layers \in Nat \ {0} /\ MaxInputs \in Nat

VARIABLES
    \* the scheduler's coordinator
    fill_count, reserved_fill, sample_lens, buffer_samples,
    admission_open, pending_backward, epoch_flush_pending, ft_started,
    rps_throttle_active, waited,
    alive,           \* its view of the child: never known to be dead
    trigger_cmd,     \* _pending_trigger_cmd: none, or work
    \* the engine
    engine_pc,
    drained,         \* requests drained from the input queue
    built,           \* the step schedule() returns
    in_flight,       \* steps sent and not processed, oldest first
    received,        \* what is left to apply of the output being processed
    outputs,         \* outputs on their way to the engine
    waiting,         \* requests no step carries yet
    \* the arrival signal
    arrivals, unsignalled, switches,
    \* a rank
    todo,            \* steps it was sent, the one it processes first
    rank_pc,
    layer,           \* boundaries behind it
    observed,        \* what it brings to the all-reduce
    aborted,         \* the forward was abandoned
    done,            \* the ack its output carries
    seen, entry,     \* FtAbortPoller.seen, _entry
    relay,           \* relay_backward_outstanding: none, pending, ack
    child,           \* idle, work, answered
    worker_started   \* ft_started of the workers' coordinators

account == <<fill_count, reserved_fill, sample_lens, buffer_samples,
             admission_open, pending_backward, epoch_flush_pending,
             ft_started, rps_throttle_active, waited, alive>>
coord_vars  == <<account, trigger_cmd>>
engine_vars == <<engine_pc, drained, built, in_flight, received, waiting>>
signal_vars == <<arrivals, unsignalled>>
rank_vars   == <<todo, rank_pc, layer, observed, aborted, done, seen, entry,
                 relay>>
vars == <<coord_vars, engine_vars, outputs, signal_vars, switches, rank_vars,
          child, worker_started>>

IdleStep == [inf |-> FALSE, n |-> 0, off |-> 0, samples |-> {},
             snap |-> [admission |-> TRUE, flush |-> FALSE], cmd |-> FALSE]
NoOutput == [aborted |-> FALSE, started |-> TRUE, done |-> FALSE, n |-> 0]

FtOnly(step) == step.n > 0 /\ ~step.inf

HoldsRows(step) == step.n > 0

Reservations ==
    LET held == SelectSeq(in_flight \o 
                           (IF engine_pc \in {"take", "built"} THEN <<built>>
                           ELSE <<>>),
                          HoldsRows)
    IN  [i \in DOMAIN held |->
           [n |-> held[i].n, off |-> held[i].off, samples |-> held[i].samples,
            snap |-> held[i].snap,
            aborted |-> i = 1 /\ engine_pc = "update" /\ received.aborted]]

\* The scheduler's coordinator: the one of the single-GPU server, whose hand-off
\* to the child under relay_mode is the command it stashes.
S == INSTANCE Coordinator
       WITH RpsEnabled <- FALSE, CloseRps <- 1, OpenRps <- 0,
            job <- trigger_cmd, reservations <- Reservations

\* The single-GPU server it should behave like: one child holds the work until
\* the ranks have taken their acks, and an ack while that is on its way.
AckOnItsWay ==
    \/ received.done
    \/ \E i \in DOMAIN outputs : outputs[i].done
    \/ done[OutputRank]

C == INSTANCE Coordinator
       WITH RpsEnabled <- FALSE, CloseRps <- 1, OpenRps <- 0,
            job <- IF ~pending_backward THEN "none"
                   ELSE IF AckOnItsWay THEN "ack" ELSE "work",
            reservations <- Reservations

-----------------------------------------------------------------------------
(***************************************************************************)
(* The engine.                                                             *)
(***************************************************************************)
\* Put by the input thread, then signalled (put_nowait, on_input_add).
Arrive ==
    /\ arrivals + unsignalled + switches < MaxInputs
    /\ waiting' = waiting + 1
    /\ unsignalled' = unsignalled + 1
    /\ UNCHANGED <<coord_vars, engine_pc, drained, built, in_flight, received,
                   outputs, arrivals, switches, rank_vars, child,
                   worker_started>>

Bump ==
    /\ unsignalled > 0
    /\ unsignalled' = unsignalled - 1
    /\ arrivals' = arrivals + 1
    /\ UNCHANGED <<coord_vars, engine_vars, outputs, switches, rank_vars,
                   child, worker_started>>

\* Mutant: a pending backward keeps the engine idle, as on one GPU it could.
HasRequestsUnlessPending ==
    \/ waiting > 0 \/ in_flight # <<>>
    \/ /\ ft_started
       /\ \/ epoch_flush_pending /\ fill_count + reserved_fill > 0
          \/ S!Budget >= MinSampleLen

\* has_requests
HasRequests ==
    \/ waiting > 0 \/ in_flight # <<>>
    \/ /\ ft_started
       /\ \/ pending_backward
          \/ epoch_flush_pending /\ fill_count + reserved_fill > 0
          \/ S!Budget >= MinSampleLen

\* poll_backward in relay mode looks for a stuck backward only.
PollRelay ==
    \/ pending_backward /\ S!DisableStuck
    \/ S!TryEpochFlush
    \/ ~(pending_backward /\ S!Stuck) /\ ~S!CanFlush /\ UNCHANGED coord_vars

\* Drain the input queue and begin _schedule_step.
StartSchedule ==
    /\ \/ engine_pc = "idle" /\ HasRequests /\ Len(in_flight) < Depth
       \/ engine_pc = "again"
    /\ drained' = waiting
    /\ PollRelay
    /\ engine_pc' = "build"
    /\ UNCHANGED <<built, in_flight, received, outputs, waiting, signal_vars,
                   switches, rank_vars, child, worker_started>>

\* Which sample the store picks does not matter here.
OneOf(T) == IF T = {} THEN {} ELSE {CHOOSE t \in T : TRUE}

\* The rest of _schedule_step, for a step that carries n finetuning rows.
Build ==
    /\ engine_pc = "build"
    /\ \E n \in 0 .. S!Budget, nextLen \in {MinSampleLen, Capacity + 1},
          new \in {{}, OneOf(Samples \ buffer_samples)} :
         /\ (n > 0) <=> (new # {})
         /\ S!Inject(n, nextLen, n, nextLen, new)
         /\ built' = [inf |-> drained > 0, n |-> n, off |-> S!CurrentOffset,
                      samples |-> new, snap |-> S!Snapshot, cmd |-> FALSE]
    /\ engine_pc' = IF trigger_cmd = "none" THEN "built" ELSE "take"
    /\ UNCHANGED <<drained, in_flight, received, outputs, waiting, signal_vars,
                   switches, rank_vars, child, worker_started>>

\* take_trigger_cmd, last of schedule(): the step carries the command.
TakeTriggerCmd ==
    /\ engine_pc = "take"
    /\ built' = [built EXCEPT !.cmd = TRUE]
    /\ trigger_cmd' = "none"
    /\ engine_pc' = "built"
    /\ UNCHANGED <<account, drained, in_flight, received, outputs, waiting,
                   signal_vars, switches, rank_vars, child, worker_started>>

\* Mutant: tier B discards whatever step was built.
PreemptAny == TRUE

Preempt == FtOnly(built)

\* Tier B: a request landed after the drain; undo the step and schedule again.
TierB ==
    /\ engine_pc = "built"
    /\ Interruptible /\ Preempt /\ drained < waiting
    /\ S!Rollback(built.n, built.samples, built.snap)
    /\ built' = IdleStep
    /\ engine_pc' = "again"
    /\ UNCHANGED <<drained, in_flight, received, outputs, waiting,
                   signal_vars, switches, rank_vars, child, worker_started>>

\* The step is broadcast to the workers.
Send ==
    /\ engine_pc = "built"
    /\ \A r \in Ranks : Len(todo[r]) < MaxLag
    /\ in_flight' = Append(in_flight, built)
    /\ todo' = [r \in Ranks |-> Append(todo[r], built)]
    /\ waiting' = waiting - drained
    /\ drained' = 0
    /\ built' = IdleStep
    /\ engine_pc' = "idle"
    /\ UNCHANGED <<coord_vars, received, outputs, signal_vars, switches,
                   rank_pc, layer, observed, aborted, done, seen, entry, relay,
                   child, worker_started>>

\* The engine takes the output of the oldest step.
Receive ==
    /\ engine_pc = "idle" /\ outputs # <<>>
    /\ received' = Head(outputs)
    /\ outputs' = Tail(outputs)
    /\ engine_pc' = "update"
    /\ UNCHANGED <<coord_vars, drained, built, in_flight, waiting, signal_vars,
                   switches, rank_vars, child, worker_started>>

apply_unchanged == <<drained, built, outputs, waiting, signal_vars, switches,
                     rank_vars, child, worker_started>>

\* update_from_output of an abandoned step: _rollback_ft_step first.
RollbackStep ==
    /\ engine_pc = "update" /\ received.aborted
    /\ LET step == Head(in_flight)
       IN  S!Rollback(step.n, step.samples, step.snap)
    /\ in_flight' = [in_flight EXCEPT ![1].n = 0]
    /\ received' = [received EXCEPT !.aborted = FALSE]
    /\ UNCHANGED <<engine_pc, apply_unchanged>>

\* _apply_relay, first: mirror the workers' ft_started.
MirrorStarted ==
    /\ engine_pc = "update" /\ ~received.aborted
    /\ received.started # ft_started
    /\ IF received.started THEN S!StartFinetuning ELSE S!StopFinetuning
    /\ UNCHANGED <<engine_pc, in_flight, received,
                   apply_unchanged>>

\* Mutant: the ack empties the account and leaves the gate closed.
ApplyDoneKeepsGate ==
    /\ engine_pc = "update" /\ ~received.aborted
    /\ received.started = ft_started
    /\ received.done
    /\ fill_count' = 0 /\ reserved_fill' = 0
    /\ sample_lens' = <<>> /\ buffer_samples' = {}
    /\ pending_backward' = FALSE
    /\ waited' = 0
    /\ received' = [received EXCEPT !.done = FALSE]
    /\ UNCHANGED <<admission_open, rps_throttle_active, alive,
                   epoch_flush_pending, ft_started, trigger_cmd, engine_pc,
                   in_flight, apply_unchanged>>

\* apply_relayed_done
ApplyDone ==
    /\ engine_pc = "update" /\ ~received.aborted
    /\ received.started = ft_started
    /\ received.done
    /\ fill_count' = 0 /\ reserved_fill' = 0
    /\ sample_lens' = <<>> /\ buffer_samples' = {}
    /\ pending_backward' = FALSE /\ admission_open' = TRUE
    /\ waited' = 0
    /\ UNCHANGED <<rps_throttle_active, alive>>
    /\ received' = [received EXCEPT !.done = FALSE]
    /\ UNCHANGED <<epoch_flush_pending, ft_started, trigger_cmd, engine_pc,
                   in_flight, apply_unchanged>>

\* apply_relayed_saved: record_capture on the scheduler's side.
ApplySaved ==
    /\ engine_pc = "update" /\ ~received.aborted
    /\ received.started = ft_started /\ ~received.done
    /\ received.n > 0
    /\ S!RecordCapture(received.n, <<received.n>>)
    /\ in_flight' = [in_flight EXCEPT ![1].n = 0]
    /\ received' = [received EXCEPT !.n = 0]
    /\ UNCHANGED <<engine_pc, apply_unchanged>>

Processed ==
    /\ engine_pc = "update" /\ ~received.aborted
    /\ received.started = ft_started /\ ~received.done /\ received.n = 0
    /\ in_flight' = Tail(in_flight)
    /\ received' = NoOutput
    /\ engine_pc' = "idle"
    /\ UNCHANGED <<coord_vars, apply_unchanged>>

\* backward_dead_after_s runs out.
Overdue ==
    /\ pending_backward /\ waited < S!DeadAge
    /\ waited' = S!DeadAge
    /\ UNCHANGED <<fill_count, reserved_fill, sample_lens, buffer_samples,
                   admission_open, pending_backward, epoch_flush_pending,
                   ft_started, rps_throttle_active, alive, trigger_cmd,
                   engine_vars, outputs, signal_vars, switches, rank_vars,
                   child, worker_started>>

\* POST /start_finetuning and /stop_finetuning reach the workers only.
Switch ==
    /\ arrivals + unsignalled + switches < MaxInputs
    /\ switches' = switches + 1
    /\ worker_started' = ~worker_started
    /\ UNCHANGED <<coord_vars, engine_vars, outputs, signal_vars, rank_vars,
                   child>>

-----------------------------------------------------------------------------
(***************************************************************************)
(* A rank.                                                                 *)
(***************************************************************************)
Current(r) == Head(todo[r])
Voting == {"entry", "layer", "ack"}

rank_unchanged == <<coord_vars, engine_vars, signal_vars, switches,
                    worker_started>>

\* execute_model begins: execute_trigger if the step carries the command, then
\* FtAbortPoller.entry before a finetuning-only forward, note_served before
\* another one.
Begin(r) ==
    /\ rank_pc[r] = "idle" /\ todo[r] # <<>>
    /\ IF Current(r).cmd
       THEN /\ relay' = [relay EXCEPT ![r] = "pending"]
            /\ child' = [child EXCEPT ![r] = "work"]
       ELSE UNCHANGED <<relay, child>>
    /\ IF FtOnly(Current(r)) /\ Interruptible
       THEN /\ entry' = [entry EXCEPT ![r] = arrivals]
            /\ observed' = [observed EXCEPT ![r] = arrivals # seen[r]]
            /\ rank_pc' = [rank_pc EXCEPT ![r] = "entry"]
            /\ UNCHANGED seen
       ELSE /\ seen' = [seen EXCEPT ![r] = IF Current(r).inf /\ Interruptible
                                           THEN arrivals ELSE @]
            /\ rank_pc' = [rank_pc EXCEPT ![r] = "relay"]
            /\ UNCHANGED <<entry, observed>>
    /\ layer' = [layer EXCEPT ![r] = 0]
    /\ UNCHANGED <<rank_unchanged, outputs, todo, aborted, done>>

\* FtAbortPoller.layer, at the next boundary of the forward.
Layer(r) ==
    /\ rank_pc[r] = "forward"
    /\ layer' = [layer EXCEPT ![r] = @ + 1]
    /\ observed' = [observed EXCEPT ![r] = arrivals # entry[r]]
    /\ rank_pc' = [rank_pc EXCEPT ![r] = "layer"]
    /\ UNCHANGED <<rank_unchanged, outputs, todo, aborted, done, seen, entry,
                   relay, child>>

\* relay_backward_outstanding
Outstanding(r) == relay[r] # "none"

(***************************************************************************)
(* The forward is over: FtAbortPoller.finish.  Then the relay fields: poll *)
(* the own child and, while a backward is outstanding, vote.               *)
(***************************************************************************)
Relay(r) ==
    /\ rank_pc[r] = "relay"
    /\ seen' = [seen EXCEPT ![r] = IF FtOnly(Current(r)) /\ Interruptible
                                   THEN arrivals ELSE @]
    /\ LET answer == relay[r] = "pending" /\ child[r] = "answered"
       IN  /\ relay' = [relay EXCEPT ![r] = IF answer THEN "ack" ELSE @]
           /\ child' = [child EXCEPT ![r] = IF answer THEN "idle" ELSE @]
           /\ observed' = [observed EXCEPT ![r] = relay'[r] = "ack"]
    /\ rank_pc' = [rank_pc EXCEPT ![r] = IF Outstanding(r) THEN "ack"
                                                           ELSE "output"]
    /\ entry' = [entry EXCEPT ![r] = 0]               \* not read again
    /\ UNCHANGED <<rank_unchanged, outputs, todo, layer, aborted, done>>

\* Mutants: a rank goes by what it observed itself.
AnyObservedAlone(r) == observed[r]
AllObservedAlone(r) == observed[r]

AnyObserved(r) == \E q \in Ranks : observed[q]      \* ReduceOp.MAX
AllObserved(r) == \A q \in Ranks : observed[q]      \* ReduceOp.MIN

\* The all-reduce completes; every rank goes on from the call it made.
AllReduce ==
    /\ \A r \in Ranks : rank_pc[r] \in Voting
    /\ aborted' = [r \in Ranks |->
         aborted[r] \/ (rank_pc[r] \in {"entry", "layer"} /\ AnyObserved(r))]
    /\ done' = [r \in Ranks |-> rank_pc[r] = "ack" /\ AllObserved(r)]
    /\ relay' = [r \in Ranks |-> IF done'[r] THEN "none" ELSE relay[r]]
    /\ rank_pc' = [r \in Ranks |->
         CASE rank_pc[r] = "ack" -> "output"
           [] rank_pc[r] # "ack" /\ (aborted'[r] \/ layer[r] = Layers) -> "relay"
           [] OTHER -> "forward"]
    /\ observed' = [r \in Ranks |-> FALSE]
    /\ UNCHANGED <<rank_unchanged, outputs, todo, layer, seen, entry, child>>

\* Rank q has launched the forward of the step rank r processes.
Launched(q, r) ==
    \/ Len(todo[q]) < Len(todo[r])
    \/ Len(todo[q]) = Len(todo[r]) /\ rank_pc[q] \in {"relay", "ack", "output"}

(***************************************************************************)
(* The step's ModelRunnerOutput; only one rank's reaches the scheduler.  A *)
(* forward is not over before every rank has launched it: its layers end   *)
(* in all-reduces on the GPU.                                              *)
(***************************************************************************)
Output(r) ==
    /\ rank_pc[r] = "output"
    /\ ~aborted[r] /\ (Current(r).inf \/ Current(r).n > 0) =>
         \A q \in Ranks : Launched(q, r)
    /\ outputs' = IF r # OutputRank THEN outputs
                  ELSE Append(outputs,
                         [aborted |-> aborted[r], started |-> worker_started,
                          done |-> done[r],
                          n |-> IF aborted[r] THEN 0 ELSE Current(r).n])
    /\ todo' = [todo EXCEPT ![r] = Tail(@)]
    /\ aborted' = [aborted EXCEPT ![r] = FALSE]
    /\ done' = [done EXCEPT ![r] = FALSE]
    /\ layer' = [layer EXCEPT ![r] = 0]
    /\ rank_pc' = [rank_pc EXCEPT ![r] = "idle"]
    /\ UNCHANGED <<rank_unchanged, observed, seen, entry, relay, child>>

\* A rank's child answers.  One that has died is one that never does: relay
\* mode does not ask whether the child is alive.
ChildAnswer(r) ==
    /\ child[r] = "work"
    /\ child' = [child EXCEPT ![r] = "answered"]
    /\ UNCHANGED <<rank_unchanged, outputs, rank_vars>>

-----------------------------------------------------------------------------
Init ==
    /\ fill_count = 0 /\ reserved_fill = 0
    /\ sample_lens = <<>> /\ buffer_samples = {}
    /\ admission_open = TRUE /\ pending_backward = FALSE
    /\ epoch_flush_pending = FALSE /\ waited = 0
    /\ rps_throttle_active = FALSE /\ alive = TRUE
    /\ ft_started \in BOOLEAN /\ worker_started = TRUE
    /\ trigger_cmd = "none"
    /\ engine_pc = "idle" /\ drained = 0 /\ waiting = 0
    /\ built = IdleStep /\ in_flight = <<>> /\ received = NoOutput
    /\ outputs = <<>>
    /\ arrivals = 0 /\ unsignalled = 0 /\ switches = 0
    /\ todo = [r \in Ranks |-> <<>>]
    /\ rank_pc = [r \in Ranks |-> "idle"] /\ layer = [r \in Ranks |-> 0]
    /\ observed = [r \in Ranks |-> FALSE]
    /\ aborted = [r \in Ranks |-> FALSE] /\ done = [r \in Ranks |-> FALSE]
    /\ seen = [r \in Ranks |-> 0] /\ entry = [r \in Ranks |-> 0]
    /\ relay = [r \in Ranks |-> "none"] /\ child = [r \in Ranks |-> "idle"]

Engine == \/ StartSchedule \/ Build \/ TakeTriggerCmd \/ TierB \/ Send \/ Receive
          \/ RollbackStep \/ MirrorStarted \/ ApplyDone \/ ApplySaved
          \/ Processed

Workers == AllReduce \/ \E r \in Ranks : Begin(r) \/ Layer(r) \/ Relay(r)
                                         \/ Output(r)

Children == \E r \in Ranks : ChildAnswer(r)

Next == \/ Engine \/ Workers \/ Children \/ Arrive \/ Bump \/ Switch \/ Overdue

Spec == Init /\ [][Next]_vars

\* The engine and the workers run, and so do the children.  One condition for
\* engine and workers is enough: each is bounded by what the other has sent.
FairSpec == Spec /\ WF_vars(Engine \/ Workers) /\ WF_vars(Children)

-----------------------------------------------------------------------------
\* Ranks that wait in the all-reduce wait in the same one: whatever each of
\* them has seen of arrivals and of its child, and whatever is idle, aborted
\* or rolled back, the numbers of calls stay equal (coordinator.py:188).
VotesMatch ==
    \A r, q \in Ranks :
       rank_pc[r] \in Voting /\ rank_pc[q] \in Voting => rank_pc[r] = rank_pc[q]

\* Ranks that have left the forward of one step left it the same way.
SameOutcome ==
    \A r, q \in Ranks :
       /\ rank_pc[r] \in {"relay", "ack", "output"}
       /\ rank_pc[q] \in {"relay", "ack", "output"}
       /\ Len(todo[r]) = Len(todo[q])
       => aborted[r] = aborted[q] /\ layer[r] = layer[q]

\* A backward the scheduler waits for is, for every rank, in exactly one
\* place: stashed, on a step the rank has not begun, with the rank, or
\* answered by all; and with none is it when the scheduler waits for none.
Commands(steps) == Cardinality({i \in DOMAIN steps : steps[i].cmd})

Unbegun(r) == IF rank_pc[r] = "idle" \/ todo[r] = <<>> THEN todo[r]
              ELSE Tail(todo[r])

One(b) == IF b THEN 1 ELSE 0

TriggerConserved ==
    \A r \in Ranks :
       One(trigger_cmd = "work") + One(built.cmd) + Commands(Unbegun(r))
         + One(Outstanding(r)) + One(AckOnItsWay) = One(pending_backward)

\* Admission reopens only after every rank's child has finished with the
\* buffer, so no rank's next step writes into rows its child still reads
\* (the ack race of coordinator.py:992).
ReopensTogether ==
    [][pending_backward /\ ~pending_backward' =>
         \A r \in Ranks : child[r] = "idle" /\ ~Outstanding(r)]_vars

\* The scheduler's account goes through the steps of the single-GPU
\* coordinator, although trigger, counts and ack travel.
ImplementsCoordinator == C!Spec

\* If finetuning stays started and the children answer, every backward the
\* scheduler waits for ends, on idle, aborted and inference steps.
BackwardEnds ==
    [](ft_started /\ worker_started) =>
      (pending_backward ~> ~pending_backward)
=============================================================================
