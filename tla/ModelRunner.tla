---------------------------- MODULE ModelRunner ----------------------------
(***************************************************************************)
(* The data plane of a step on one GPU: what DeltaServeModelRunner          *)
(* (model_runner.py) puts on the stream for the scheduled batch, how the    *)
(* activation rows get into the shared buffer (accumulate.py,               *)
(* ft_save_op.py, cudagraph.py), which timing pairs reach the estimator and *)
(* which request states the runner keeps.                                   *)
(*                                                                          *)
(* The host runs ahead of the GPU: a step only enqueues its work, and up to *)
(* Depth of them are outstanding.  A batch is the order its requests have   *)
(* in the InputBatch, which need not be the order they were scheduled in.   *)
(* A row holds the token whose activations were saved to it.                *)
(***************************************************************************)
EXTENDS Integers, Sequences, SequencesExt, FiniteSets, FiniteSetsExt, SavePoints

CONSTANTS
    Samples, SampleLen,  \* finetuning samples and their tokens
    Capacity,            \* max_saved_finetuning_tokens
    Depth,               \* batch queue: 1 sync, 2 async scheduling
    PinRing,             \* staging slots of the index tensors
    TimingRing,          \* _RING
    Configs,             \* the configurations of a run (SavePoints)
    Interruptible,       \* forward_interruptible
    LateArrivals         \* an arrival may follow the drain of the inputs (tier B)

ASSUME ModelRunnerAssumption ==
    /\ IsFiniteSet(Samples) /\ "inference" \notin Samples
    /\ Capacity \in Nat \ {0} /\ SampleLen \in [Samples -> 1 .. Capacity]
    /\ Depth \in {1, 2}
    /\ PinRing \in Nat \ {0} /\ TimingRing \in Nat \ {0}
    /\ Configs \subseteq SaveConfig
    /\ Interruptible \in BOOLEAN /\ LateArrivals \in BOOLEAN

VARIABLES
    config,              \* what is saved, and which batches replay graphs
    pc,                  \* the engine thread: step, or sync in a trigger
    flights,             \* steps executed and not yet processed
    event,               \* ft_abort_event
    arrival,             \* a request waits to be scheduled
    \* the coordinator
    fill, sample_lens, buffer_samples,
    child,               \* reading the buffer, or idle
    \* the runner's cached request states
    cached,              \* finetuning ids in self.requests
    retired,             \* _ft_retired_pending
    \* timing
    timing_owner, timing_pos,
    start_evt, end_evt,  \* the step each event last fired for
    \* the index tensors
    idx_pin, idx_pin_pos,
    ft_idx,              \* ft_src and ft_dst on the GPU
    \* the GPU
    stream,              \* work enqueued and not yet executed
    rows                 \* buffer -> row -> token

host_vars   == <<config, pc, flights, event, arrival>>
coord_vars  == <<fill, sample_lens, buffer_samples, child>>
state_vars  == <<cached, retired>>
ring_vars   == <<timing_owner, timing_pos>>
event_vars  == <<start_evt, end_evt>>
pin_vars    == <<idx_pin, idx_pin_pos>>
vars == <<host_vars, coord_vars, state_vars, ring_vars, event_vars, pin_vars,
          ft_idx, stream, rows>>

None == "none"
Zero == <<None, 0>>
Inference == "inference"
Scratch == Capacity + 1
Other == <<"other", 0>>   \* a value of another save point

-----------------------------------------------------------------------------
(***************************************************************************)
(* A batch: the finetuning samples of the step and at most one inference   *)
(* request of one token, in InputBatch order.                              *)
(***************************************************************************)
LengthOf(r) == IF r = Inference THEN 1 ELSE SampleLen[r]
TokensOf(r) == [k \in 1 .. LengthOf(r) |-> <<r, k>>]

Flat(batch) == FlattenSeq([i \in DOMAIN batch |-> TokensOf(batch[i])])

\* The members of a set of positions, the least first.
InOrder(S) ==
    [k \in 1 .. Cardinality(S) |->
        CHOOSE i \in S : Cardinality({j \in S : j <= i}) = k]

FtOf(batch) ==
    LET at == InOrder({i \in DOMAIN batch : batch[i] # Inference})
    IN  [k \in DOMAIN at |-> batch[at[k]]]

HasFt(batch) == \E i \in DOMAIN batch : batch[i] # Inference
FtOnly(batch) == \A i \in DOMAIN batch : batch[i] # Inference

Tokens(S) == SumFunctionOnSet(SampleLen, S)

\* _build_finetune_mask: the flat positions of the finetuning tokens, in order.
FtPositions(flat) == InOrder({i \in DOMAIN flat : flat[i][1] # Inference})

\* Mutant: the samples are taken to sit next to each other.
TakenForContiguous(positions) == TRUE

\* The span of the finetuning tokens has no inference row inside it.
Contiguous(positions) ==
    Last(positions) - Head(positions) + 1 = Len(positions)

\* The lengths line up with the rows: batch order.
SampleLens(batch) ==
    LET ft == FtOf(batch) IN [i \in DOMAIN ft |-> SampleLen[ft[i]]]

\* The step may save through the op, inside a captured forward.
GraphStep(batch) ==
    HasFt(batch) /\ (IF FtOnly(batch) THEN "ft_only" ELSE "mixed") \in config.graphed

\* Which forward the dispatcher picks: the plain one, the eager one with hooks,
\* or the one captured with the save op.
Mode(batch) == IF ~HasFt(batch) THEN "plain"
               ELSE IF GraphStep(batch) THEN "has_ft" ELSE "eager"

\* What a hook saves: a slice of the step's rows, or the rows under the mask.
HookRows(flat) ==
    LET at == FtPositions(flat)
    IN  IF Contiguous(at)
        THEN SubSeq(flat, Head(at), Head(at) + Len(at) - 1)
        ELSE [i \in DOMAIN at |-> flat[at[i]]]

Clip(n, offset) == Min({n, Capacity - offset})

HookWrites(flat, offset) ==
    LET saved == HookRows(flat)
    IN  [r \in offset + 1 .. offset + Clip(Len(saved), offset) |-> saved[r - offset]]

\* arm_op_step: slot i gathers row src into buffer row dst; the rest of the
\* staging slot sends row 1 to the scratch row.
StageIndexes(positions, offset) ==
    [i \in 1 .. Capacity |->
       IF i <= Clip(Len(positions), offset)
       THEN [src |-> positions[i], dst |-> offset + i]
       ELSE [src |-> 1, dst |-> Scratch]]

ScratchOnly == [i \in 1 .. Capacity |-> [src |-> 1, dst |-> Scratch]]

\* dserve_save_rows with the index tensors the GPU holds when it runs.  The
\* batch is padded to its captured size, so every src exists.
OpWrites(idx, flat) ==
    [r \in {idx[i].dst : i \in 1 .. Capacity} \ {Scratch} |->
        LET i == CHOOSE j \in 1 .. Capacity : idx[j].dst = r
        IN  IF idx[i].src \in DOMAIN flat THEN flat[idx[i].src] ELSE Zero]

-----------------------------------------------------------------------------
(***************************************************************************)
(* Scheduling.  Of the coordinator only the account of rows is kept: rows  *)
(* saved, and rows an aborted step still holds.                            *)
(***************************************************************************)
Claimed == buffer_samples \cup UNION {flights[i].claims : i \in DOMAIN flights}
Reserved == Tokens(UNION {flights[i].claims : i \in DOMAIN flights})
Space == Capacity - fill - Reserved

Fits(S) == S \subseteq Samples \ Claimed /\ Tokens(S) <= Space
Fillable == IF child = "idle" THEN {S \in SUBSET Samples : Fits(S)} ELSE {{}}

\* An FT-only step takes samples until none is left that fits.
Filled(S) == ~ \E T \in Fillable : S \subseteq T /\ S # T

Batches ==
    (UNION {SetToSeqs(S \cup {Inference}) : S \in Fillable})
      \cup (IF arrival THEN {}
            ELSE UNION {SetToSeqs(S) : S \in {S \in Fillable : S # {} /\ Filled(S)}})

\* A fresh request id per injection (FinetuneInjector).
InUse == cached \cup retired \cup UNION {flights[i].ids : i \in DOMAIN flights}
FreshId(s) == CHOOSE id \in {<<s, g>> : g \in 1 .. 3} :
                 id \notin InUse \/ \A g \in 1 .. 3 : <<s, g>> \in InUse
FreshIds(batch) == {FreshId(s) : s \in ToSet(FtOf(batch))}

\* The ids stamped on the step's output: those of the output tier B discards
\* are gone with it.
Stamped(discarded) == IF discarded THEN {} ELSE retired

\* schedule() with a rollback in tier B: the first output was FT-only.
MayDiscard ==
    /\ LateArrivals /\ Interruptible /\ ~arrival
    /\ \E S \in Fillable : S # {}

-----------------------------------------------------------------------------
(***************************************************************************)
(* Timing: the slot's previous occupant is pushed if its end event fired;  *)
(* the slot is free until the step has been enqueued whole.  The tag of a  *)
(* step stands for its features.                                           *)
(***************************************************************************)
Tag(batch) == IF HasFt(batch) THEN "ft" ELSE Inference

\* query(): nothing enqueued will record the slot's end event again.
EndFired(slot) == \A i \in DOMAIN stream :
                     stream[i].op = "forward" /\ stream[i].ends
                        => stream[i].slot # slot

\* _ft_timing_begin: the slot's occupant would be pushed now, with the time
\* between the step its start event and the step its end event last fired for.
Pushed(slot) == timing_owner[slot] # None /\ EndFired(slot)

\* Mutant: an aborted step leaves the slot's occupant.
KeptSlot == timing_owner

FreedSlot == [timing_owner EXCEPT ![timing_pos] = None]
OwnedSlot(tag) == [timing_owner EXCEPT ![timing_pos] = tag]

\* Mutant: one pair of events for every step.
SameSlot(i) == i

NextSlot(i) == (i + 1) % TimingRing
NextPin(i) == (i + 1) % PinRing

(***************************************************************************)
(* What a step enqueues.                                                   *)
(***************************************************************************)
Arm(batch) == IF Mode(batch) = "has_ft"
              THEN <<[op |-> "copy", slot |-> idx_pin_pos]>> ELSE <<>>

Forward(batch, offset, points, ends) ==
    <<[op |-> "forward", slot |-> timing_pos, tag |-> Tag(batch),
       points |-> points, ends |-> ends,
       flat |-> IF Mode(batch) = "has_ft" THEN Flat(batch) ELSE <<>>,
       writes |-> IF Mode(batch) = "eager" THEN HookWrites(Flat(batch), offset)
                  ELSE <<>>]>>

AfterForward(batch, offset) ==
    IF HasFt(batch)
    THEN <<[op |-> "final", writes |-> HookWrites(Flat(batch), offset)]>>
    ELSE <<>>

ArmPin(batch, offset) ==
    IF Mode(batch) = "has_ft"
    THEN /\ idx_pin' = [idx_pin EXCEPT ![idx_pin_pos] =
                          StageIndexes(FtPositions(Flat(batch)), offset)]
         /\ idx_pin_pos' = NextPin(idx_pin_pos)
    ELSE UNCHANGED pin_vars

\* The engine thread schedules while the batch queue has room.
MayEnqueue == pc = "step" /\ Len(flights) < Depth

\* What every step does before its forward: take the retired ids off the
\* output, admit the new requests, stage the indexes, drain the timing slot.
Begin(batch, discarded) ==
    /\ MayEnqueue
    /\ discarded => MayDiscard
    /\ cached' = (cached \ Stamped(discarded)) \cup FreshIds(batch)
    /\ retired' = {}
    /\ ArmPin(batch, fill + Reserved)
    /\ start_evt' = [start_evt EXCEPT ![timing_pos] = None]
    /\ end_evt' = [end_evt EXCEPT ![timing_pos] = None]
    /\ UNCHANGED <<config, pc, child, ft_idx, rows>>

\* execute_model: the forward is enqueued whole and, with one GPU, its rows are
\* committed at once.  An arrival during an FT-only step that its last poll
\* missed leaves the event set.
ForwardDone(batch, discarded, missed) ==
    LET offset == fill + Reserved
        ft == FtOf(batch)
    IN
    /\ FtOnly(batch) => ~event
    /\ missed => FtOnly(batch) /\ Interruptible
    /\ Begin(batch, discarded)
    /\ stream' = stream \o Arm(batch) \o Forward(batch, offset, Len(Hooks(config)), TRUE)
                   \o AfterForward(batch, offset) \o <<[op |-> "done"]>>
    /\ timing_owner' = OwnedSlot(Tag(batch))
    /\ timing_pos' = NextSlot(timing_pos)
    /\ fill' = fill + Tokens(ToSet(ft))
    /\ sample_lens' = sample_lens \o SampleLens(batch)
    /\ buffer_samples' = buffer_samples \cup ToSet(ft)
    /\ event' = (event \/ missed)
    /\ arrival' = (missed \/ (arrival /\ FtOnly(batch)))
    /\ flights' = Append(flights, [ids |-> FreshIds(batch), claims |-> {},
                                   aborted |-> FALSE, done |-> FALSE])

\* Where a request that has come leaves the forward of an FT-only batch.
Boundaries(batch) ==
    IF GraphStep(batch) THEN SegmentBoundaries(config) ELSE HookBoundaries(config)

\* _ft_on_abort: an FT-only forward left at its entry, because the event was
\* set, or on its way, because a request came.
ForwardAborted(batch, discarded, points) ==
    LET offset == fill + Reserved
        n == Tokens(ToSet(batch))
    IN
    /\ Interruptible /\ FtOnly(batch)
    /\ points \in IF event THEN {0} ELSE Boundaries(batch)
    /\ Begin(batch, discarded)
    /\ stream' = stream \o Arm(batch) \o Forward(batch, offset, points, FALSE)
                   \o <<[op |-> "zero", zeroed |-> offset + 1 .. offset + n]>>
    /\ timing_owner' = FreedSlot
    /\ event' = TRUE
    /\ arrival' = ~event
    /\ flights' = Append(flights, [ids |-> FreshIds(batch), claims |-> ToSet(batch),
                                   aborted |-> TRUE, done |-> TRUE])
    /\ UNCHANGED <<timing_pos, fill, sample_lens, buffer_samples>>

\* Mutant: a rolled-back step's ids are not reported to the runner.
RetiredUnlessAborted(step) == IF step.aborted THEN {} ELSE step.ids

\* update_from_output of the oldest step: its ids are to be dropped by the
\* runner, retired or rolled back.
RetiredBy(step) == step.ids

UpdateFromOutput ==
    /\ pc = "step" /\ flights # <<>> /\ Head(flights).done
    /\ flights' = Tail(flights)
    /\ retired' = retired \cup RetiredBy(Head(flights))
    /\ event' = (event /\ ~Head(flights).aborted)
    /\ UNCHANGED <<config, pc, arrival, coord_vars, cached, ring_vars, event_vars,
                   pin_vars, ft_idx, stream, rows>>

-----------------------------------------------------------------------------
(***************************************************************************)
(* The trigger.  When it comes is the coordinator's affair; that no row is *)
(* reserved then is the theorem TriggersSettled.                           *)
(***************************************************************************)
TriggerBackward ==
    /\ pc = "step" /\ child = "idle" /\ fill > 0 /\ Reserved = 0
    /\ pc' = "sync"
    /\ UNCHANGED <<config, flights, event, arrival, coord_vars, state_vars,
                   ring_vars, event_vars, pin_vars, ft_idx, stream, rows>>

\* capture_done_evt: recorded behind the last step's saves.
CaptureDone == \A i \in DOMAIN stream : stream[i].op # "final"

SendWork ==
    /\ pc = "sync" /\ CaptureDone
    /\ pc' = "step"
    /\ child' = "reading"
    /\ UNCHANGED <<config, flights, event, arrival, fill, sample_lens,
                   buffer_samples, state_vars, ring_vars, event_vars, pin_vars,
                   ft_idx, stream, rows>>

\* The child has zeroed the buffer and answered.
BackwardDone ==
    /\ child = "reading" /\ pc = "step"
    /\ child' = "idle"
    /\ fill' = 0 /\ sample_lens' = <<>> /\ buffer_samples' = {}
    /\ rows' = [p \in DOMAIN rows |-> [r \in 1 .. Capacity |-> Zero]]
    /\ UNCHANGED <<host_vars, state_vars, ring_vars, event_vars, pin_vars, ft_idx,
                   stream>>

-----------------------------------------------------------------------------
(***************************************************************************)
(* The GPU takes the stream in order.  What it has read of the index       *)
(* tensors and of a staging slot is overwritten whole before it is read    *)
(* again, and is forgotten here.                                           *)
(***************************************************************************)
Save(saves, writes) ==
    rows' = [b \in DOMAIN rows |->
               IF b \in DOMAIN saves
               THEN [r \in 1 .. Capacity |->
                       IF r \notin DOMAIN writes THEN rows[b][r]
                       ELSE IF saves[b] = b THEN writes[r] ELSE Other]
               ELSE rows[b]]

Each(S) == [b \in S |-> b]

CopyPending(slot, ops) ==
    \E i \in DOMAIN ops : ops[i].op = "copy" /\ ops[i].slot = slot

Executes(op) ==
    /\ stream # <<>> /\ Head(stream).op = op
    /\ stream' = Tail(stream)
    /\ UNCHANGED <<config, pc, event, arrival, coord_vars, state_vars, ring_vars>>

ExecCopy ==
    /\ Executes("copy")
    /\ ft_idx' = idx_pin[Head(stream).slot]
    /\ idx_pin' = IF CopyPending(Head(stream).slot, Tail(stream)) THEN idx_pin
                  ELSE [idx_pin EXCEPT ![Head(stream).slot] = ScratchOnly]
    /\ UNCHANGED <<flights, event_vars, idx_pin_pos, rows>>

ExecForward ==
    /\ Executes("forward")
    /\ LET f == Head(stream)
       IN  /\ start_evt' = [start_evt EXCEPT ![f.slot] = f.tag]
           /\ end_evt' = IF f.ends THEN [end_evt EXCEPT ![f.slot] = f.tag]
                                   ELSE end_evt
           /\ IF f.flat # <<>>
              THEN Save(OpSaves(config, f.points), OpWrites(ft_idx, f.flat))
              ELSE Save(HookSaves(config, f.points), f.writes)
    /\ ft_idx' = ScratchOnly
    /\ UNCHANGED <<flights, pin_vars>>

ExecFinal ==
    /\ Executes("final")
    /\ Save(Each(FinalBuffers(config)), Head(stream).writes)
    /\ UNCHANGED <<flights, event_vars, pin_vars, ft_idx>>

\* zero_offset_range
ExecZero ==
    /\ Executes("zero")
    /\ Save(Each(DOMAIN rows), [r \in Head(stream).zeroed |-> Zero])
    /\ UNCHANGED <<flights, event_vars, pin_vars, ft_idx>>

\* The step's output can be read.
ExecDone ==
    /\ Executes("done")
    /\ LET i == CHOOSE i \in DOMAIN flights :
                   ~flights[i].done /\ \A j \in 1 .. i - 1 : flights[j].done
       IN  flights' = [flights EXCEPT ![i].done = TRUE]
    /\ UNCHANGED <<event_vars, pin_vars, ft_idx, rows>>

Gpu == ExecCopy \/ ExecForward \/ ExecFinal \/ ExecZero \/ ExecDone

-----------------------------------------------------------------------------
Init ==
    /\ config \in Configs
    /\ pc = "step" /\ flights = <<>> /\ event = FALSE /\ arrival = FALSE
    /\ fill = 0 /\ sample_lens = <<>> /\ buffer_samples = {} /\ child = "idle"
    /\ cached = {} /\ retired = {}
    /\ timing_owner = [i \in 0 .. TimingRing - 1 |-> None] /\ timing_pos = 0
    /\ start_evt = timing_owner /\ end_evt = timing_owner
    /\ ft_idx = ScratchOnly
    /\ idx_pin = [i \in 0 .. PinRing - 1 |-> ft_idx] /\ idx_pin_pos = 0
    /\ stream = <<>>
    /\ rows = [b \in Buffers(config) |-> [r \in 1 .. Capacity |-> Zero]]

Next ==
    \/ /\ MayEnqueue
       /\ \E batch \in Batches, discarded \in BOOLEAN :
             \/ \E missed \in BOOLEAN : ForwardDone(batch, discarded, missed)
             \/ \E points \in 0 .. Len(Hooks(config)) :
                   ForwardAborted(batch, discarded, points)
    \/ UpdateFromOutput
    \/ TriggerBackward \/ SendWork \/ BackwardDone
    \/ Gpu

Spec == Init /\ [][Next]_vars

-----------------------------------------------------------------------------
\* What the child is handed: at every save point the saved rows are whole
\* samples, the same ones in the same order, each counted sample once, with
\* sample_lens cutting them apart.
HandsOverSamples ==
    child = "reading" =>
       \E order \in SetToSeqs(buffer_samples) :
          /\ sample_lens = [i \in DOMAIN order |-> SampleLen[order[i]]]
          /\ \A p \in DOMAIN rows : SubSeq(rows[p], 1, fill) = Flat(order)

\* The estimator is fed a step's features with the time between that step's
\* own start and end events, never a neighbour's.
TimesItsOwnStep ==
    \A slot \in DOMAIN timing_owner :
       Pushed(slot) => /\ start_evt[slot] = timing_owner[slot]
                       /\ end_evt[slot] = timing_owner[slot]

\* A slot is reused only when its last occupant's end event has fired, so no
\* step's timing is dropped.
SlotSettled ==
    [][\A slot \in DOMAIN timing_owner :
          timing_owner[slot] # None /\ timing_owner'[slot] # timing_owner[slot]
             => EndFired(slot)]_vars

\* The runner forgets every finetuning request it has cached: its id is in a
\* step in flight or on its way back to the runner.
NoOrphanedState ==
    cached \subseteq retired \cup UNION {flights[i].ids : i \in DOMAIN flights}
=============================================================================
