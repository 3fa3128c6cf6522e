-------------------------- MODULE MCBackwardCycle --------------------------
\* Set-ups of the backward children: one rank and two; runners on both ranks,
\* on one of them and on none; start-up captures that failed on one rank; with
\* and without the saved residual and the saved gate and up projections; the
\* run-ahead bound off, at its smallest and at its default.
EXTENDS BackwardCycle

CONSTANTS r1, r2

Setup(ranks, runner, uncaptured, fragile, saved, ahead,
      raise) ==
    [ranks |-> ranks, runner |-> runner,
     uncaptured |-> [r \in ranks |-> IF r = r1 THEN uncaptured ELSE {}],
     fragile |-> [r \in ranks |-> IF r = r1 THEN fragile ELSE {}],
     resid_mid |-> "resid_mid" \in saved, gate_up |-> "gate_up" \in saved,
     ahead |-> ahead, raise_at |-> raise]

Both == {r1, r2}
AllForwards == {<<"fwd", i>> : i \in Layers}

MCConfigs ==
    { Setup({r1}, {r1}, {<<"ffn", 2>>}, {<<"fwd", 3>>, <<"ffn", 1>>, <<"attn", 0>>},
            {"gate_up"}, 2, 0),
      Setup({r1}, {}, {}, {}, {}, 1, 2),
      Setup(Both, Both, {}, {<<"fwd", 2>>, <<"attn", 0>>}, {"gate_up"}, 1, 2),
      Setup(Both, Both, AllForwards, {<<"ffn", 3>>}, {"gate_up", "resid_mid"}, 2, 0),
      Setup(Both, {r1}, {<<"attn", 0>>}, {}, {"gate_up"}, 1, 0),
      Setup(Both, {r2}, {}, {}, {"gate_up"}, 0, 1) }

\* One sample, two samples, and one that overflows the padded attention.
MCBatches == {<<1>>, <<2, 1>>, <<3>>}
=============================================================================
