---------------------------- MODULE BackwardCycle ----------------------------
(***************************************************************************)
(* One backward cycle after another in the children of all ranks           *)
(* (bwd_services/common/trainer.py, graph.py, tp.py and the two families). *)
(*                                                                         *)
(* A child's host runs process_backward and only enqueues: kernels on its  *)
(* compute stream, collectives on NCCL's stream.  The GPU runs both later. *)
(* Ranks meet in two places: the votes at the pause boundaries, which      *)
(* block the host, and the collectives, which block the GPU.  A layer may  *)
(* run its forward, its FFN backward and its attention backward eagerly or *)
(* as a CUDA graph that reads static buffers shared by all layers; each    *)
(* rank falls back to eager on its own when a capture or a replay fails.   *)
(*                                                                         *)
(* Data: the value of row k of layer i in cycle c is {<<c, i, k>>}, zero   *)
(* is {}, and adding is union.  Arithmetic, dtypes and the arithmetic of   *)
(* the families are left out; what a vote decides is in GpuYield.          *)
(***************************************************************************)
EXTENDS Naturals, Sequences, FiniteSets

CONSTANTS
    Configs,        \* set-ups of the children (MCBackwardCycle has examples)
    Batches,        \* sequences of sample lengths that fill a buffer
    L,              \* layers
    GroupLayers,    \* layers per gradient bucket (BUCKET_LAYERS)
    SMax,           \* rows of the static buffers (max_saved_finetuning_tokens)
    BnMax, LMax,    \* samples and positions of the padded attention
    MaxCycles       \* bound of the model: cycles

Layers == 1 .. L

ASSUME CycleAssumption ==
    /\ {L, GroupLayers, SMax, BnMax, LMax} \subseteq Nat \ {0}
    /\ MaxCycles \in Nat /\ Batches \subseteq Seq(Nat)
    /\ \A c \in Configs : IsFiniteSet(c.ranks) /\ c.ranks # {}

VARIABLES
    cfg,            \* the set-up: ranks, runner, saved activations, run-ahead
    cycle,          \* number of the current cycle
    sample_lens,    \* the samples of the current cycle
    host_pc,        \* where each rank's host is in process_backward
    layer,          \* the layer it works on
    voting,         \* it has recorded its boundary event and votes
    failed,         \* graphs the rank no longer uses: *_failed of the runner
    cache,          \* whether the layer's cache is the static views
    static,         \* the static buffers, as the compute stream leaves them
    used,           \* what the layer's backward kernels have read
    compute,        \* compute stream: work not yet run
    ran,            \* compute stream: number of operations run
    nccl,           \* collectives enqueued and not yet run
    reduced,        \* number of collectives run
    pending,        \* CommQueue._pending: the last collective submitted
    slab,           \* FactorBucket.flat, by layer
    grads,          \* .grad of the fp32 masters, by layer
    served          \* the served LoRA buffers, by layer

hostVars == <<host_pc, layer, voting>>
graphVars == <<failed, cache, static, used>>
gpuVars == <<ran, reduced, slab, grads, served>>
queueVars == <<compute, nccl, pending>>
cycleVars == <<cfg, cycle, sample_lens>>
vars == <<cycleVars, hostVars, graphVars, gpuVars, queueVars>>

Ranks == cfg.ranks
Tp == Cardinality(Ranks) > 1

(***************************************************************************)
(* Rows, padded slots and batches.                                         *)
(***************************************************************************)
RowNums == 1 .. SMax
Slots == (1 .. BnMax) \X (1 .. LMax)
NoRows == [k \in RowNums |-> {}]
NoSlots == [s \in Slots |-> {}]

Before[j \in Nat] == IF j = 0 THEN 0 ELSE Before[j - 1] + sample_lens[j]
N == Before[Len(sample_lens)]

\* begin_backward: the padded attention can take this batch.
AttnFit ==
    /\ N <= SMax
    /\ Len(sample_lens) <= BnMax
    /\ \A j \in DOMAIN sample_lens : sample_lens[j] <= LMax

\* static_bn_idx, static_pos_idx: rows past the batch point at the first slot.
SlotOf(k) ==
    IF k > N THEN <<1, 1>>
    ELSE LET j == CHOOSE j \in DOMAIN sample_lens :
                     Before[j - 1] < k /\ k <= Before[j]
         IN  <<j, k - Before[j - 1]>>

\* The rows of a layer in this cycle, and the first n rows of a buffer.
Rows(i) == [k \in RowNums |-> IF k <= N THEN {<<cycle, i, k>>} ELSE {}]
View(buf) == [k \in RowNums |-> IF k <= N THEN buf[k] ELSE {}]

\* index_put_ with accumulate, and the gather back to the flat layout.
Scatter(pad, buf) ==
    [s \in Slots |-> pad[s] \union UNION {buf[k] : k \in {r \in RowNums : SlotOf(r) = s}}]
Gather(pad) == [k \in RowNums |-> pad[SlotOf(k)]]

(***************************************************************************)
(* Streams and collectives.                                                *)
(***************************************************************************)
Issued(r) == ran[r] + Len(compute[r])
Last(r) == reduced + Len(nccl[r])
Call(kind, i) == <<cycle, kind, i>>

\* What enqueuing a sequence of operations, or a collective, does to rank r.
\* An inline collective runs after what its stream holds and its stream waits
\* for it; one on the comm stream only runs after what the compute stream holds.
Enqueue(r, ops) == compute' = [compute EXCEPT ![r] = @ \o ops]
Collective(r, call) == [call |-> call, after |-> Issued(r)]
AwaitOp(n) == [op |-> "await", arg |-> n]
Op(op, i) == [op |-> op, arg |-> i]
GradOp(op, i) == [op |-> op, arg |-> i, cyc |-> cycle]

InlineReduce(r, call) ==
    IF Tp THEN /\ nccl' = [nccl EXCEPT ![r] = Append(@, Collective(r, call))]
               /\ Enqueue(r, <<AwaitOp(Last(r) + 1)>>)
          ELSE UNCHANGED <<nccl, compute>>

(***************************************************************************)
(* Pause boundaries.  Every rank reaches every boundary: the first one,    *)
(* those of the head, and one per layer, at its top when there is no       *)
(* runner and between the two backward graphs when there is one.           *)
(***************************************************************************)
HasRunner(r) == r \in cfg.runner

\* Mutant: no boundary in a layer whose attention backward runs eagerly.
PausesMidLayerIfGraphed(r) == HasRunner(r) /\ <<"attn", 0>> \notin failed[r]

PausesMidLayer(r) == HasRunner(r)

\* Where the host goes when it starts on layer i.
LayerTop(r) == IF HasRunner(r) THEN "forward" ELSE "top"
Boundaries == {"first", "head", "top", "mid"}

AfterBoundary(r) ==
    CASE host_pc[r] = "first" -> "head"
      [] host_pc[r] = "head" -> LayerTop(r)
      [] host_pc[r] = "top" -> "forward"
      [] host_pc[r] = "mid" -> "attn"

\* _maybe_pause records an event and waits for the one cfg.ahead boundaries
\* back; 0 turns the bound off.
RecordEvent(r) ==
    /\ host_pc[r] \in Boundaries /\ ~voting[r]
    /\ voting' = [voting EXCEPT ![r] = TRUE]
    /\ IF cfg.ahead = 0 THEN UNCHANGED compute ELSE Enqueue(r, <<Op("event", 0)>>)
    /\ UNCHANGED <<cycleVars, host_pc, layer, graphVars, gpuVars, nccl, pending>>

Passed(r) ==
    \/ cfg.ahead = 0
    \/ Cardinality({k \in DOMAIN compute[r] : compute[r][k].op = "event"}) <= cfg.ahead

\* The ranks go on together, whatever the vote made them wait for.
Agree ==
    /\ \A r \in Ranks : voting[r] /\ Passed(r)
    /\ voting' = [r \in Ranks |-> FALSE]
    /\ host_pc' = [r \in Ranks |-> AfterBoundary(r)]
    /\ UNCHANGED <<cycleVars, layer, graphVars, gpuVars, queueVars>>

(***************************************************************************)
(* The rematerialised forward of a layer.                                  *)
(***************************************************************************)
\* The forward's only collective, on the graphed and on the eager path.
\* Mutant: only the graphed path runs it.
NeedsReduceIfGraphed(graphed) == Tp /\ ~cfg.resid_mid /\ graphed

NeedsReduce(graphed) == Tp /\ ~cfg.resid_mid

StageForwardInputs(st, i) ==
    [st EXCEPT !.layer_in = Rows(i),
               !.resid_mid = IF cfg.resid_mid THEN Rows(i) ELSE @,
               !.pad = NoSlots]

\* The captured body: q/k/v flat and scattered, attention, O projection.
GraphForwardCore(st) ==
    LET pad == Scatter(st.pad, st.layer_in)
    IN  [st EXCEPT !.flat = st.layer_in, !.pad = pad,
                   !.o = IF cfg.resid_mid THEN @ ELSE Gather(pad)]

ForwardTail(st) ==
    [st EXCEPT !.resid_mid = IF cfg.resid_mid THEN @
                             ELSE [k \in RowNums |-> st.layer_in[k] \union st.o[k]],
               !.gate = st.layer_in]

\* The graph of a region is used unless its capture or an earlier replay has
\* failed; a replay that raises is not tried again (bound of the model: the
\* graphs in cfg.fragile).
Usable(r, region) == HasRunner(r) /\ region \notin failed[r]

Falls(r, region) ==
    /\ region \in cfg.fragile[r]
    /\ failed' = [failed EXCEPT ![r] = @ \union {region}]

GraphedForward(r, i) ==
    /\ Usable(r, <<"fwd", i>>) /\ AttnFit /\ cfg.gate_up
    /\ LET staged == StageForwardInputs(static[r], i)
       IN  \/ /\ static' = [static EXCEPT ![r] = ForwardTail(GraphForwardCore(staged))]
              /\ cache' = [cache EXCEPT ![r] = "static"]
              /\ IF NeedsReduce(TRUE) THEN InlineReduce(r, Call("o", i))
                                      ELSE UNCHANGED <<nccl, compute>>
              /\ UNCHANGED failed
           \/ /\ Falls(r, <<"fwd", i>>)
              /\ static' = [static EXCEPT ![r] = staged]
              /\ cache' = [cache EXCEPT ![r] = "eager"]
              /\ IF NeedsReduce(FALSE) THEN InlineReduce(r, Call("o", i))
                                       ELSE UNCHANGED <<nccl, compute>>

LayerForward(r, i) ==
    /\ ~(Usable(r, <<"fwd", i>>) /\ AttnFit /\ cfg.gate_up)
    /\ cache' = [cache EXCEPT ![r] = "eager"]
    /\ IF NeedsReduce(FALSE) THEN InlineReduce(r, Call("o", i))
                             ELSE UNCHANGED <<nccl, compute>>
    /\ UNCHANGED <<failed, static>>

Forward(r) ==
    /\ host_pc[r] = "forward"
    /\ GraphedForward(r, layer[r]) \/ LayerForward(r, layer[r])
    /\ host_pc' = [host_pc EXCEPT ![r] = "ffn"]
    /\ UNCHANGED <<cycleVars, layer, voting, used, gpuVars, pending>>

(***************************************************************************)
(* The backward of a layer.                                                *)
(***************************************************************************)
\* A tensor of the layer's cache: a view of the static buffer, or the eager
\* forward's own tensor.
Cached(r, field) ==
    IF cache[r] = "static" THEN View(static[r][field]) ELSE Rows(layer[r])

\* Mutant: the forward graph's outputs are taken to be in place already.
FfnInputsInPlace(st, resid_mid, gate) == st

StageFfnInputs(st, resid_mid, gate) ==
    [st EXCEPT !.resid_mid = resid_mid, !.gate = gate]

FfnBackward(r, i) ==
    LET resid_mid == Cached(r, "resid_mid")
        gate == Cached(r, "gate")
        staged == StageFfnInputs(static[r], resid_mid, gate)
    IN  \/ /\ Usable(r, <<"ffn", i>>)
           /\ static' = [static EXCEPT ![r] = staged]
           /\ \/ /\ used' = [used EXCEPT ![r] = {staged.resid_mid, staged.gate}]
                 /\ UNCHANGED failed
              \/ /\ Falls(r, <<"ffn", i>>)
                 /\ used' = [used EXCEPT ![r] = {resid_mid, gate}]
        \/ /\ ~Usable(r, <<"ffn", i>>)
           /\ used' = [used EXCEPT ![r] = {resid_mid, gate}]
           /\ UNCHANGED <<failed, static>>

Ffn(r) ==
    /\ host_pc[r] = "ffn"
    /\ FfnBackward(r, layer[r])
    /\ InlineReduce(r, Call("ffn", layer[r]))
    /\ host_pc' = [host_pc EXCEPT ![r] = IF PausesMidLayer(r) THEN "mid" ELSE "attn"]
    /\ UNCHANGED <<cycleVars, layer, voting, cache, gpuVars, pending>>

\* q/k/v are scattered again, from the flat copies, over zeroed slots.
StageAttnInputs(st, qkv) == [st EXCEPT !.pad = Scatter(NoSlots, qkv)]

AttnBackward(r) ==
    LET qkv == Cached(r, "flat")
        staged == StageAttnInputs(static[r], qkv)
    IN  \/ /\ Usable(r, <<"attn", 0>>) /\ AttnFit
           /\ static' = [static EXCEPT ![r] = staged]
           /\ \/ /\ used' = [used EXCEPT ![r] = @ \union {View(Gather(staged.pad))}]
                 /\ UNCHANGED failed
              \/ /\ Falls(r, <<"attn", 0>>)
                 /\ used' = [used EXCEPT ![r] = @ \union {qkv}]
        \/ /\ ~(Usable(r, <<"attn", 0>>) /\ AttnFit)
           /\ used' = [used EXCEPT ![r] = @ \union {qkv}]
           /\ UNCHANGED <<failed, static>>

Attn(r) ==
    /\ host_pc[r] = "attn"
    /\ AttnBackward(r)
    /\ InlineReduce(r, Call("x", layer[r]))
    /\ host_pc' = [host_pc EXCEPT ![r] = "grads"]
    /\ UNCHANGED <<cycleVars, layer, voting, cache, gpuVars, pending>>

(***************************************************************************)
(* Gradients, buckets, the step and the answer.                            *)
(***************************************************************************)
\* Layers go down from L; a group is GroupLayers of them, the last one what
\* is left.
Group(i) == {j \in Layers : (L - j) \div GroupLayers = (L - i) \div GroupLayers}

\* Mutant: a group is submitted only when it is full.
ClosesFullGroup(i) == (L - i + 1) % GroupLayers = 0

GroupDone(i) == \A j \in Group(i) : i <= j

\* The replicated gradients go to the bucket, and the bucket to the comm
\* stream when its last layer is in; one rank alone writes its masters.
StashOrWrite(r, i) ==
    IF ~Tp THEN Enqueue(r, <<GradOp("write", i)>>) /\ UNCHANGED <<nccl, pending>>
    ELSE /\ Enqueue(r, <<GradOp("stash", i)>>)
         /\ IF GroupDone(i)
            THEN /\ nccl' = [nccl EXCEPT ![r] = Append(@,
                       [call |-> Call("bucket", i), after |-> Issued(r) + 1])]
                 /\ pending' = [pending EXCEPT ![r] = Last(r) + 1]
            ELSE UNCHANGED <<nccl, pending>>

\* An error that every rank meets at the top of the same layer: the cycle is
\* given up and answered, and whatever the streams still hold stays there.
RaisesAt(i) == cycle = 1 /\ cfg.raise_at = i

Grads(r) ==
    /\ host_pc[r] = "grads"
    /\ StashOrWrite(r, layer[r])
    /\ used' = [used EXCEPT ![r] = {}]
    /\ \/ /\ layer[r] = 1
          /\ host_pc' = [host_pc EXCEPT ![r] = "finish"] /\ UNCHANGED layer
       \/ /\ layer[r] > 1
          /\ layer' = [layer EXCEPT ![r] = @ - 1]
          /\ host_pc' = [host_pc EXCEPT ![r] =
                           IF RaisesAt(layer[r] - 1) THEN "raised" ELSE LayerTop(r)]
    /\ UNCHANGED <<cycleVars, voting, failed, cache, static, gpuVars>>

\* CommQueue.wait: the compute stream waits for every submitted reduce.
\* Mutant: it does not.
NoWait(r) == <<>>

Wait(r) == IF pending[r] = 0 THEN <<>> ELSE <<AwaitOp(pending[r])>>

\* Reduced gradients to the masters, clip with one collective over the norms,
\* optimizer step, publish.
Finish(r) ==
    /\ host_pc[r] = "finish"
    /\ IF Tp
       THEN LET ops == Wait(r) \o <<Op("collect", 0)>>
            IN  /\ nccl' = [nccl EXCEPT ![r] = Append(@,
                      [call |-> Call("clip", 0), after |-> Issued(r) + Len(ops)])]
                /\ Enqueue(r, ops \o <<AwaitOp(Last(r) + 1), Op("publish", 0)>>)
                /\ pending' = [pending EXCEPT ![r] = 0]
       ELSE Enqueue(r, <<Op("publish", 0)>>) /\ UNCHANGED <<nccl, pending>>
    /\ host_pc' = [host_pc EXCEPT ![r] = "sync"]
    /\ UNCHANGED <<cycleVars, layer, voting, graphVars, gpuVars>>

\* The host waits for the event at the cycle's end, and answers.
Answer(r) ==
    /\ host_pc[r] = "sync" /\ compute[r] = <<>>
    /\ host_pc' = [host_pc EXCEPT ![r] = "answered"]
    /\ UNCHANGED <<cycleVars, layer, voting, graphVars, gpuVars, queueVars>>

\* Every rank has answered, and the next full buffer is handed over.
Trigger ==
    /\ \A r \in Ranks : host_pc[r] \in {"answered", "raised"}
    /\ cycle < MaxCycles
    /\ cycle' = cycle + 1
    /\ sample_lens' \in Batches
    /\ host_pc' = [r \in Ranks |-> "first"]
    /\ layer' = [r \in Ranks |-> L]
    /\ used' = [r \in Ranks |-> {}]
    /\ UNCHANGED <<cfg, voting, failed, cache, static, gpuVars, queueVars>>

(***************************************************************************)
(* The GPUs.                                                               *)
(***************************************************************************)
\* Layer i's gradient: the cycle whose rows made it, the ranks it is summed
\* over, and how often it has been reduced.
Grad(r, o) == [cyc |-> o.cyc, parts |-> {r}, sums |-> 0]

RunCompute(r) ==
    /\ compute[r] # <<>>
    /\ LET o == Head(compute[r])
       IN  /\ o.op = "await" => reduced >= o.arg
           /\ slab' = IF o.op = "stash" THEN [slab EXCEPT ![r][o.arg] = Grad(r, o)]
                      ELSE slab
           /\ grads' = CASE o.op = "collect" -> [grads EXCEPT ![r] = slab[r]]
                         [] o.op = "write" -> [grads EXCEPT ![r][o.arg] = Grad(r, o)]
                         [] OTHER -> grads
           /\ served' = IF o.op = "publish" THEN [served EXCEPT ![r] = grads[r]]
                        ELSE served
    /\ compute' = [compute EXCEPT ![r] = Tail(@)]
    /\ ran' = [ran EXCEPT ![r] = @ + 1]
    /\ UNCHANGED <<cycleVars, hostVars, graphVars, nccl, pending, reduced>>

\* NCCL runs the collectives of a communicator in the order they were issued,
\* each when every rank's stream has got there.
AllReduce ==
    /\ Tp
    /\ \A r \in Ranks : nccl[r] # <<>> /\ Head(nccl[r]).after <= ran[r]
    /\ LET call == [r \in Ranks |-> Head(nccl[r]).call]
           group(r) == IF call[r][2] = "bucket" THEN Group(call[r][3]) ELSE {}
           sum(i) == UNION {slab[q][i].parts : q \in Ranks}
       IN  /\ \A r, q \in Ranks : call[r] = call[q]
           /\ slab' = [r \in Ranks |-> [i \in Layers |->
                         IF i \in group(r) THEN [slab[r][i] EXCEPT !.parts = sum(i), !.sums = @ + 1]
                         ELSE slab[r][i]]]
    /\ nccl' = [r \in Ranks |-> Tail(nccl[r])]
    /\ reduced' = reduced + 1
    /\ UNCHANGED <<cycleVars, hostVars, graphVars, ran, grads, served, compute, pending>>

-----------------------------------------------------------------------------
\* The runner captures every graph when it is built; captures that fail are
\* remembered (cfg.uncaptured, by rank).
Prepared(c, r) == IF r \in c.runner THEN c.uncaptured[r] ELSE {}

NoGrad == [i \in Layers |-> [cyc |-> 0, parts |-> {}, sums |-> 0]]

Init ==
    /\ cfg \in Configs
    /\ cycle = 0 /\ sample_lens = <<>>
    /\ host_pc = [r \in Ranks |-> "answered"]
    /\ layer = [r \in Ranks |-> L] /\ voting = [r \in Ranks |-> FALSE]
    /\ failed = [r \in Ranks |-> Prepared(cfg, r)]
    /\ cache = [r \in Ranks |-> "eager"]
    /\ static = [r \in Ranks |-> [layer_in |-> NoRows, o |-> NoRows,
                                  resid_mid |-> NoRows, gate |-> NoRows,
                                  flat |-> NoRows, pad |-> NoSlots]]
    /\ used = [r \in Ranks |-> {}]
    /\ compute = [r \in Ranks |-> <<>>] /\ ran = [r \in Ranks |-> 0]
    /\ nccl = [r \in Ranks |-> <<>>] /\ reduced = 0
    /\ pending = [r \in Ranks |-> 0]
    /\ slab = [r \in Ranks |-> NoGrad] /\ grads = [r \in Ranks |-> NoGrad]
    /\ served = [r \in Ranks |-> NoGrad]

Child(r) == RecordEvent(r) \/ Forward(r) \/ Ffn(r) \/ Attn(r) \/ Grads(r)
            \/ Finish(r) \/ Answer(r)

\* What the hosts and the GPUs do on their own.
Run == Agree \/ AllReduce \/ \E r \in Ranks : Child(r) \/ RunCompute(r)

Next == Trigger \/ Run

Spec == Init /\ [][Next]_vars

\* Some host or GPU that can go on does; a buffer may never fill again.
FairSpec == Spec /\ WF_vars(Run)

-----------------------------------------------------------------------------
\* The ranks issue the same collectives in the same order, whichever layers,
\* regions or whole runners have fallen back to eager on which rank, and
\* after a cycle that was given up half-way: what is enqueued on one rank is
\* a prefix of what is enqueued on another (graph.py:911, tp.py:122).
LockStep ==
    \A r, q \in Ranks : \A k \in DOMAIN nccl[r] \cap DOMAIN nccl[q] :
       nccl[r][k].call = nccl[q][k].call

\* The backward kernels of a layer read that layer's rows of this cycle and
\* zeros behind them: nothing that another layer, an earlier and longer
\* cycle, a failed replay or the scatter of the unused rows has left in the
\* static buffers (graph.py:185, 511, 607, 732).
FreshInputs == \A r \in Ranks : used[r] \subseteq {Rows(layer[r])}

\* A cycle is answered only when the served LoRA buffers hold the step made
\* from this cycle's gradients of every layer, each summed over all ranks by
\* exactly one reduce: never a slab still waiting for it, half a group, the
\* slab of an earlier cycle, or one that a reduce left behind by a cycle given
\* up half-way has summed a second time (tp.py:122, trainer.py:513).
ServesWhatWasTrained ==
    \A r \in Ranks :
       cycle > 0 /\ host_pc[r] = "answered" =>
          \A i \in Layers :
             served[r][i] = [cyc |-> cycle, parts |-> Ranks,
                             sums |-> IF Tp THEN 1 ELSE 0]

\* Every cycle is answered by every rank: no host waits in a vote, and no GPU
\* in a collective, that the others never join (base.py:157, trainer.py:431).
CycleEnds ==
    \A c \in 1 .. MaxCycles :
       cycle = c /\ host_pc # [r \in Ranks |-> "answered"]
          ~> \A r \in Ranks : host_pc[r] \in {"answered", "raised"}
=============================================================================
