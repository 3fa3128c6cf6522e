----------------------------- MODULE SavePoints -----------------------------
(***************************************************************************)
(* What of a finetuning token is saved, by which hook and into which        *)
(* buffer (accumulate.py).  All operators take the configuration o they     *)
(* depend on:                                                                *)
(*   o.layers    num_hidden_layers                                          *)
(*   o.qkv, o.ctx, o.resid_mid   save_attn_qkv, save_attn_ctx, save_resid_mid *)
(*   o.pre       the family saves q and k before the per-head norm (Qwen3)   *)
(*   o.hash      print_activation_hash                                      *)
(*   o.graphed   the batches that replay has_ft graphs: mixed, ft_only      *)
(* A buffer is its kind and its layer.                                      *)
(***************************************************************************)
EXTENDS Integers, Sequences, SequencesExt

SaveConfig == [layers : Nat \ {0}, qkv : BOOLEAN, ctx : BOOLEAN, resid_mid : BOOLEAN,
               pre : BOOLEAN, hash : BOOLEAN, graphed : SUBSET {"mixed", "ft_only"}]

Qkv == <<"attn_qh", "attn_kh", "attn_vh">>
OpNames == <<"layer_in", "resid_mid", "mlp_gate_up">> \o Qkv \o <<"attn_ctx">>

LayerKinds(o) ==
    {"layer_in", "mlp_gate_up"}
    \cup (IF o.qkv THEN ToSet(Qkv) ELSE {})
    \cup (IF o.ctx THEN {"attn_ctx"} ELSE {})
    \cup (IF o.resid_mid THEN {"resid_mid"} ELSE {})

FinalIn(o) == <<"final_in", o.layers>>

\* Filled behind the forward (accumulate_final).
FinalBuffers(o) ==
    {<<"concat_input_ids", o.layers>>}
    \cup (IF o.hash THEN {<<"final_hidden", o.layers>>} ELSE {})

Buffers(o) ==
    (LayerKinds(o) \X (0 .. o.layers - 1)) \cup {FinalIn(o)} \cup FinalBuffers(o)

\* Mutant: a layer takes as many slots as it has buffers.
PackedOpTable(o) ==
    LET kinds == SelectSeq(OpNames, LAMBDA k : k \in LayerKinds(o))
        per == Len(kinds)
    IN  [slot \in 0 .. 7 * o.layers |->
            IF slot < per * o.layers THEN <<kinds[(slot % per) + 1], slot \div per>>
            ELSE FinalIn(o)]

\* install_save_points: the buffer of a slot.  One that is not saved has a slot
\* of its own all the same.
OpTable(o) ==
    [slot \in 0 .. 7 * o.layers |->
        IF slot = 7 * o.layers THEN FinalIn(o)
        ELSE <<OpNames[(slot % 7) + 1], slot \div 7>>]

\* A hook takes values of its layer and knows the slot of the first.
Hook(kinds, layer, slot) ==
    [takes |-> [j \in DOMAIN kinds |-> <<kinds[j], layer>>], slot |-> slot]

QkvHooks(o, i) ==
    IF ~o.qkv THEN <<>>
    ELSE IF o.pre THEN [j \in 1 .. 3 |-> Hook(<<Qkv[j]>>, i, 7 * i + 2 + j)]
    ELSE <<Hook(Qkv, i, 7 * i + 3)>>

\* Up to the attention of the layer, and from its output on.
BeforeAttention(o, i) == <<Hook(<<"layer_in">>, i, 7 * i)>> \o QkvHooks(o, i)

AfterAttention(o, i) ==
    (IF o.ctx THEN <<Hook(<<"attn_ctx">>, i, 7 * i + 6)>> ELSE <<>>)
    \o (IF o.resid_mid THEN <<Hook(<<"resid_mid">>, i, 7 * i + 1)>> ELSE <<>>)
    \o <<Hook(<<"mlp_gate_up">>, i, 7 * i + 2)>>

LayerHooks(o, i) == BeforeAttention(o, i) \o AfterAttention(o, i)

UpToLayer(o, i) == FlattenSeq([k \in 1 .. i |-> LayerHooks(o, k - 1)])

\* register_hooks, in the order a forward reaches their modules.
Hooks(o) == UpToLayer(o, o.layers) \o <<Hook(<<"final_in">>, o.layers, 7 * o.layers)>>

\* LocalAbortPoller.hook_check: a forward with hooks is left behind the first
\* hook of a layer; how many hooks have run then.
HookBoundaries(o) == {Len(UpToLayer(o, i)) + 1 : i \in 0 .. o.layers - 1}

\* segment_poll: a captured forward is left before a segment, the first one or
\* one that starts behind the attention of a layer.
SegmentBoundaries(o) ==
    {0} \cup {Len(UpToLayer(o, i)) + Len(BeforeAttention(o, i)) : i \in 0 .. o.layers - 1}

\* What the first n hooks save, buffer by buffer: an active hook copies to the
\* buffer of what it takes ...
HookSaves(o, n) ==
    LET hooks == Hooks(o)
        taken == UNION {ToSet(hooks[i].takes) : i \in 1 .. n}
    IN  [b \in taken |-> b]

\* ... and an inactive one issues the op for its slots, which look the buffer up.
OpSaves(o, n) ==
    LET hooks == Hooks(o)
        taps == UNION {{<<hooks[i], j>> : j \in DOMAIN hooks[i].takes} : i \in 1 .. n}
        target(t) == OpTable(o)[t[1].slot + t[2] - 1]
    IN  [b \in {target(t) : t \in taps} |->
            LET t == CHOOSE x \in taps : target(x) = b IN t[1].takes[t[2]]]
=============================================================================
