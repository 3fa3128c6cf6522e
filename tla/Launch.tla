------------------------------- MODULE Launch -------------------------------
(***************************************************************************)
(* The processes of a server and how they start, talk and end: the engine, *)
(* one worker per rank (worker.py), one backward child per worker           *)
(* (backward_process.py, bwd_services/base.py) and the two pipes between    *)
(* them.  On one GPU the worker is the engine process itself; under tensor  *)
(* parallelism every worker is a process of its own.                        *)
(*                                                                          *)
(* A message is its command or event; the tensors it maps, the meta data    *)
(* and the hashes it carries are left out.                                  *)
(***************************************************************************)
EXTENDS Integers, Sequences, FiniteSets

CONSTANTS
    Setups,         \* the deployments of a run
    MaxCycles       \* backwards asked for in one life of the server

(* ranks: tensor_parallel_size; adapter: finetuning_lora_path is set; hash:  *)
(* print_activation_hash; steps: the engine's steps are modelled in full     *)
(* (StepEstimator); faults: what may go wrong.                               *)
Faults == {"arch", "build", "pin", "slow", "child", "crash"}
Setup == [ranks : SUBSET Nat, adapter : BOOLEAN, hash : BOOLEAN,
          steps : BOOLEAN, faults : SUBSET Faults]

ASSUME LaunchAssumption ==
    /\ \A s \in Setups : s \in Setup /\ s.ranks # {} /\ IsFiniteSet(s.ranks)
    /\ MaxCycles \in Nat

VARIABLES
    setup,
    engine,         \* init (building the executor), serving, gone
    worker,         \* where each worker stands in its start-up
    child,          \* where each backward child stands
    child_end,      \* the worker still holds the child's end of the pipe
    requests,       \* the pipe to the child
    answers,        \* the pipe from the child
    state,          \* of the child: none, failed or built (_build_state)
    verified,       \* _ft_accum_verified
    due,            \* pending_backward, at the worker
    cycles          \* work signals sent to each child

launch_vars == <<setup, engine, worker, child, child_end, requests, answers,
                 state, verified, due, cycles>>
pipe_vars == <<requests, answers>>
cycle_vars == <<verified, due, cycles>>

Ranks == setup.ranks
Tp == Cardinality(Ranks) > 1
May(fault) == fault \in setup.faults

\* Where a worker stands and waits for an answer: the hand-shake, or the
\* command it has sent.
Waiting == {"ready", "share_weights", "share_activations",
            "share_lora_buffers", "hash_activations"}

Alive(r) == child[r] \notin {"none", "dead"}
Here(r) == worker[r] \notin {"gone", "failed"}

InitFor(s) ==
    /\ setup = s
    /\ engine = "init"
    /\ worker = [r \in s.ranks |-> "device"]
    /\ child = [r \in s.ranks |-> "none"]
    /\ child_end = [r \in s.ranks |-> FALSE]
    /\ requests = [r \in s.ranks |-> <<>>]
    /\ answers = [r \in s.ranks |-> <<>>]
    /\ state = [r \in s.ranks |-> "none"]
    /\ verified = [r \in s.ranks |-> ~s.hash]
    /\ due = [r \in s.ranks |-> FALSE]
    /\ cycles = [r \in s.ranks |-> 0]

-----------------------------------------------------------------------------
(***************************************************************************)
(* The worker's side.                                                       *)
(***************************************************************************)
Send(r, cmd) == requests' = [requests EXCEPT ![r] = Append(@, cmd)]

\* What is sent to a child without asking for an answer is lost on a dead one
\* (set_corpus_meta, notify_buffer_full).
Notified(r, cmds) == IF Alive(r) THEN requests[r] \o cmds ELSE requests[r]

\* Mutant: start() leaves the child's end of the pipe open in the worker.
KeepsChildEnd(r) == child_end' = [child_end EXCEPT ![r] = TRUE]

\* child_conn.close(): from here only the child can keep the pipe open.
ClosesChildEnd(r) == UNCHANGED child_end

\* BackwardProcess.start: spawn the child and wait for its hand-shake.
Start(r) ==
    /\ child' = [child EXCEPT ![r] = "boot"]
    /\ ClosesChildEnd(r)
    /\ worker' = [worker EXCEPT ![r] = "ready"]

\* init_device: adopt the runner, start the child.
StartWorker(r) ==
    /\ engine # "gone" /\ worker[r] = "device"
    /\ Start(r)
    /\ UNCHANGED <<setup, engine, pipe_vars, state, cycle_vars>>

\* _maybe_share_finetuning_weights: under TP the ranks gather the LM head
\* first, a collective all of them must have reached.
ShareWeights(r) ==
    /\ worker[r] = "load"
    /\ Tp => \A q \in Ranks : worker[q] \notin {"device", "ready", "failed", "gone"}
    /\ Send(r, "share_weights")
    /\ worker' = [worker EXCEPT ![r] = "share_weights"]
    /\ UNCHANGED <<setup, engine, child, child_end, answers, state, cycle_vars>>

\* _maybe_setup_finetuning_accumulator: buffers and hooks, then the buffers
\* go to the child.
ShareActivations(r) ==
    /\ worker[r] = "accumulator"
    /\ Send(r, "share_activations")
    /\ worker' = [worker EXCEPT ![r] = "share_activations"]
    /\ UNCHANGED <<setup, engine, child, child_end, answers, state, cycle_vars>>

\* _maybe_share_ft_served_lora: nothing to share without an adapter, or when
\* it cannot be pinned.
ShareLora(r) ==
    /\ worker[r] = "lora"
    /\ \/ /\ setup.adapter
          /\ Send(r, "share_lora_buffers")
          /\ worker' = [worker EXCEPT ![r] = "share_lora_buffers"]
       \/ /\ ~setup.adapter \/ May("pin")
          /\ worker' = [worker EXCEPT ![r] = "up"]
          /\ UNCHANGED requests
    /\ UNCHANGED <<setup, engine, child, child_end, answers, state, cycle_vars>>

\* What a worker does next when the answer it waits for is there.
NextStage == [ready |-> "load", share_weights |-> "accumulator",
              share_activations |-> "lora", share_lora_buffers |-> "up",
              hash_activations |-> "up"]

\* recv: whatever message is first in the pipe is taken for the answer.
TakeAnswer(r) ==
    /\ worker[r] \in Waiting /\ answers[r] # <<>>
    /\ answers' = [answers EXCEPT ![r] = Tail(@)]
    /\ worker' = [worker EXCEPT ![r] = NextStage[worker[r]]]
    /\ UNCHANGED <<setup, engine, child, child_end, requests, state, cycle_vars>>

Fails(r) ==
    /\ worker' = [worker EXCEPT ![r] = "failed"]
    /\ UNCHANGED <<setup, engine, child, child_end, pipe_vars, state, cycle_vars>>

\* The child is gone and so is the last end it held: recv raises EOFError.
PipeCloses(r) ==
    /\ worker[r] \in Waiting /\ answers[r] = <<>>
    /\ child[r] = "dead" /\ ~child_end[r]
    /\ Fails(r)

\* A child that will not answer: it is dead, or waits in _build_state for a
\* peer that is.
CannotAnswer(r) ==
    child[r] = "dead" \/ (child[r] = "build" /\ \E q \in Ranks : child[q] = "dead")

\* poll(timeout): 120 s for the shared tensors, 30 s for the hashes; the
\* hand-shake alone is a recv without a limit.
GivesUp(r) == worker[r] \in Waiting \ {"ready"} /\ (May("slow") \/ CannotAnswer(r))

TimesOut(r) == GivesUp(r) /\ answers[r] = <<>> /\ Fails(r)

-----------------------------------------------------------------------------
(***************************************************************************)
(* The child's side: service_main and the loop of BackwardService.run.      *)
(***************************************************************************)
Goes(r, pc) == child' = [child EXCEPT ![r] = pc]

Answer(r, event) == answers' = [answers EXCEPT ![r] = Append(@, event)]

\* arm_parent_death_signal, after arming: the parent died before it.
ParentGone(r) == ~Here(r)

\* service_main: arm, pick the service of the architecture, say ready.
Boot(r) ==
    /\ child[r] = "boot"
    /\ IF ParentGone(r)
       THEN Goes(r, "dead") /\ UNCHANGED answers
       ELSE \/ Goes(r, "recv") /\ Answer(r, "ready")
            \/ May("arch") /\ Goes(r, "dead") /\ UNCHANGED answers
    /\ UNCHANGED <<setup, engine, worker, child_end, requests, state, cycle_vars>>

\* Mutant: the corpus meta is acknowledged like the other commands.
AnswersAll == [share_weights      |-> "weights_received",
               share_activations  |-> "activations_received",
               share_lora_buffers |-> "lora_buffers_received",
               hash_activations   |-> "activation_hashes",
               set_corpus_meta    |-> "corpus_meta"]

\* The commands the loop answers at once; set_corpus_meta is fire-and-forget
\* and process_activations is answered when its cycle has ended.
Answers == [share_weights      |-> "weights_received",
            share_activations  |-> "activations_received",
            share_lora_buffers |-> "lora_buffers_received",
            hash_activations   |-> "activation_hashes"]

\* One message of the loop.  Received weights are acknowledged before the
\* state is built from them.
HandleCommand(r) ==
    LET cmd == Head(requests[r])
    IN  /\ child[r] = "recv" /\ requests[r] # <<>> /\ cmd # "process_activations"
        /\ requests' = [requests EXCEPT ![r] = Tail(@)]
        /\ IF cmd \in DOMAIN Answers THEN Answer(r, Answers[cmd])
                                     ELSE UNCHANGED answers
        /\ IF cmd = "share_weights" THEN Goes(r, "build") ELSE UNCHANGED child
        /\ UNCHANGED <<setup, engine, worker, child_end, state, cycle_vars>>

\* init_backward_tp_group: the children meet.
Met == \A q \in Ranks : child[q] = "build" \/ state[q] # "none"

\* _build_state behind the meeting: weights, optimizer, buffers, graphs.
BuildState == {"built"} \cup {x \in {"failed"} : May("build")}

\* A build that raises leaves the child without a state, and going on.
Build(r) ==
    /\ child[r] = "build" /\ Met
    /\ \E ok \in BuildState : state' = [state EXCEPT ![r] = ok]
    /\ Goes(r, "recv")
    /\ UNCHANGED <<setup, engine, worker, child_end, pipe_vars, cycle_vars>>

\* _handle_process_activations: without a state the cycle raises at once; the
\* buffers are cleaned and the answer is sent all the same.
HandleWork(r) ==
    /\ child[r] = "recv" /\ requests[r] # <<>>
    /\ Head(requests[r]) = "process_activations"
    /\ requests' = [requests EXCEPT ![r] = Tail(@)]
    /\ IF state[r] = "built" THEN Goes(r, "compute") /\ UNCHANGED answers
                             ELSE Answer(r, "done") /\ UNCHANGED child
    /\ UNCHANGED <<setup, engine, worker, child_end, state, cycle_vars>>

\* The collectives of a cycle, which the children pass together ...
Reduce ==
    /\ \A r \in Ranks : child[r] = "compute"
    /\ child' = [r \in Ranks |-> "tail"]
    /\ UNCHANGED <<setup, engine, worker, child_end, pipe_vars, state, cycle_vars>>

\* ... and what each of them does after the last one.
Finish(r) ==
    /\ child[r] = "tail"
    /\ Goes(r, "recv") /\ Answer(r, "done")
    /\ UNCHANGED <<setup, engine, worker, child_end, requests, state, cycle_vars>>

\* recv raises EOFError: the worker's end is closed.
LoopEnds(r) ==
    /\ child[r] = "recv" /\ requests[r] = <<>> /\ ~Here(r)
    /\ Goes(r, "dead")
    /\ UNCHANGED <<setup, engine, worker, child_end, pipe_vars, state, cycle_vars>>

\* Mutant: the child never armed the signal.
NoDeathSignal(r) == FALSE

\* PR_SET_PDEATHSIG, once armed: SIGKILL wherever the child stands.
DeathSignal(r) == child[r] \notin {"none", "boot", "dead"} /\ ~Here(r)

Killed(r) ==
    /\ DeathSignal(r)
    /\ Goes(r, "dead")
    /\ UNCHANGED <<setup, engine, worker, child_end, pipe_vars, state, cycle_vars>>

-----------------------------------------------------------------------------
(***************************************************************************)
(* The engine: it serves when every worker has loaded, and it does not      *)
(* outlive one; the workers do not outlive the engine.                      *)
(***************************************************************************)

\* The executor raises, or the engine loop does: the process ends.
EngineGivesUp ==
    /\ engine # "gone" /\ \E r \in Ranks : worker[r] = "failed"
    /\ engine' = "gone"
    /\ UNCHANGED <<setup, worker, child, child_end, pipe_vars, state, cycle_vars>>

\* The workers armed the signal before they touched the device; on one GPU
\* the worker is the engine's own process.
WorkerOrphaned(r) ==
    /\ engine = "gone" /\ Here(r)
    /\ worker' = [worker EXCEPT ![r] = "gone"]
    /\ UNCHANGED <<setup, engine, child, child_end, pipe_vars, state, cycle_vars>>

\* The scheduler is built after the workers have loaded.  On one GPU it sends
\* the size of the corpus to the child at once.
Serve ==
    /\ engine = "init" /\ \A r \in Ranks : worker[r] = "up"
    /\ engine' = "serving"
    /\ requests' = [r \in Ranks |->
                      Notified(r, IF Tp THEN <<>> ELSE <<"set_corpus_meta">>)]
    /\ UNCHANGED <<setup, worker, child, child_end, answers, state, cycle_vars>>

\* _maybe_verify_ft_accumulation: once, in the first finetuning step and
\* before its rows are recorded.
HashActivations(r) ==
    /\ engine = "serving" /\ worker[r] = "up" /\ ~verified[r]
    /\ Send(r, "hash_activations")
    /\ worker' = [worker EXCEPT ![r] = "hash_activations"]
    /\ verified' = [verified EXCEPT ![r] = TRUE]
    /\ UNCHANGED <<setup, engine, child, child_end, answers, state, due, cycles>>

\* Every child that is alive gets the work signal, under TP behind the corpus
\* size the first time.
SignalWork ==
    /\ requests' = [r \in Ranks |->
          Notified(r, (IF Tp /\ cycles[r] = 0 THEN <<"set_corpus_meta">> ELSE <<>>)
                      \o <<"process_activations">>)]
    /\ due' = [r \in Ranks |-> TRUE]
    /\ cycles' = [r \in Ranks |-> cycles[r] + 1]

Ready == \A r \in Ranks : worker[r] = "up" /\ verified[r] /\ ~due[r]

\* A full buffer on every rank; between which steps is StepEstimator's subject.
TriggerBackward ==
    /\ engine = "serving" /\ ~setup.steps /\ Ready
    /\ \A r \in Ranks : cycles[r] < MaxCycles
    /\ SignalWork
    /\ UNCHANGED <<setup, engine, worker, child, child_end, answers, state, verified>>

\* poll_response: any message counts as the answer.
TakeAck(r) ==
    /\ due[r] /\ answers[r] # <<>>
    /\ answers' = [answers EXCEPT ![r] = Tail(@)]
    /\ due' = [due EXCEPT ![r] = FALSE]

PollBackward(r) ==
    /\ engine = "serving" /\ ~setup.steps /\ worker[r] = "up"
    /\ TakeAck(r)
    /\ UNCHANGED <<setup, engine, worker, child, child_end, requests, state,
                   verified, cycles>>

\* Faults: the engine process is killed, a child is killed.
EngineCrashes ==
    /\ May("crash") /\ engine # "gone"
    /\ engine' = "gone"
    /\ UNCHANGED <<setup, worker, child, child_end, pipe_vars, state, cycle_vars>>

ChildDies(r) ==
    /\ May("child") /\ Alive(r)
    /\ Goes(r, "dead")
    /\ UNCHANGED <<setup, engine, worker, child_end, pipe_vars, state, cycle_vars>>

\* The server is started again.
Restart ==
    /\ engine' = "init"
    /\ worker' = [r \in Ranks |-> "device"]
    /\ child' = [r \in Ranks |-> "none"]
    /\ child_end' = [r \in Ranks |-> FALSE]
    /\ requests' = [r \in Ranks |-> <<>>]
    /\ answers' = [r \in Ranks |-> <<>>]
    /\ state' = [r \in Ranks |-> "none"]
    /\ verified' = [r \in Ranks |-> ~setup.hash]
    /\ due' = [r \in Ranks |-> FALSE]
    /\ cycles' = [r \in Ranks |-> 0]
    /\ UNCHANGED setup

-----------------------------------------------------------------------------
WorkerSteps(r) ==
    \/ StartWorker(r) \/ ShareWeights(r) \/ ShareActivations(r) \/ ShareLora(r)
    \/ TakeAnswer(r) \/ PipeCloses(r) \/ TimesOut(r) \/ WorkerOrphaned(r)

ChildSteps(r) ==
    \/ Boot(r) \/ HandleCommand(r) \/ Build(r) \/ HandleWork(r) \/ Finish(r)
    \/ LoopEnds(r) \/ Killed(r)

EngineSteps == EngineGivesUp \/ Serve

LaunchNext ==
    \/ \E r \in Ranks : WorkerSteps(r) \/ ChildSteps(r) \/ ChildDies(r)
                        \/ HashActivations(r) \/ PollBackward(r)
    \/ Reduce \/ EngineSteps \/ TriggerBackward \/ EngineCrashes

\* Every process that can go on does; faults need not happen, and a backward
\* need not be asked for.
LaunchFairness ==
    /\ \A s \in Setups : \A r \in s.ranks :
          WF_launch_vars(r \in Ranks /\ WorkerSteps(r))
    /\ \A s \in Setups : \A r \in s.ranks :
          WF_launch_vars(r \in Ranks /\ ChildSteps(r))
    /\ WF_launch_vars(Reduce) /\ WF_launch_vars(EngineSteps)

-----------------------------------------------------------------------------
(***************************************************************************)
(* Properties.                                                              *)
(***************************************************************************)
Awaited(r) == IF worker[r] = "ready" THEN "ready" ELSE Answers[worker[r]]

\* The messages carry no number: every recv takes what is first in the pipe,
\* and the coordinator's poll takes anything for the end of a backward.  No
\* message is ever there but the one its reader waits for (poll_response,
\* share_*, hash_activations, set_corpus_meta).
AnswersMatch ==
    \A r \in Ranks : Here(r) /\ answers[r] # <<>> =>
        /\ Len(answers[r]) = 1
        /\ \/ worker[r] \in Waiting /\ Head(answers[r]) = Awaited(r)
           \/ worker[r] = "up" /\ due[r] /\ Head(answers[r]) = "done"

\* When the engine is gone, by whatever cause and at whatever moment of the
\* start-up or of a cycle, no worker and no child stays behind
\* (arm_parent_death_signal, the EOF of the loop).
NoOrphan ==
    engine = "gone" ~> (\A r \in Ranks : ~Here(r) /\ ~Alive(r))

\* A start either ends in a server or in an error: a child that dies, cannot
\* build or waits for a dead peer leaves nobody waiting for ever (the closed
\* pipe end, the limits of the polls).
StartsOrFails == engine = "init" ~> engine # "init"
=============================================================================
