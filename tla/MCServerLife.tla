---------------------------- MODULE MCServerLife ----------------------------
(* Three families of servers: two ranks whose start and end are studied with *)
(* every fault; one rank that runs the launch pass with the numbers of the   *)
(* code; and one rank that serves two requests and finetunes two samples,    *)
(* with small numbers, and is started again from what it saved.              *)
EXTENDS StepEstimator

Deployment(ranks, adapter, hash, steps, faults) ==
    [ranks |-> ranks, adapter |-> adapter, hash |-> hash, steps |-> steps, faults |-> faults]

MCSetups == {Deployment({0, 1}, TRUE, TRUE, FALSE, Faults),
             Deployment({0}, TRUE, FALSE, FALSE, Faults),
             Deployment({0}, FALSE, FALSE, TRUE, {})}

Long == [id |-> "long", len |-> 5, max |-> 2]
Short == [id |-> "short", len |-> 2, max |-> 2]
Steady == [id |-> "steady", len |-> 1, max |-> 6]

Base == [batch |-> 512, capacity |-> 64, max_len |-> 1024, split |-> FALSE,
         repeats |-> 1, phase |-> "prefill", match |-> 0, prop |-> -1,
         min_fit |-> 8, refit_every |-> 256, max_steps |-> 10240, ring |-> 4,
         kinds |-> {}, launches |-> 1]

Small == [Base EXCEPT !.batch = 4, !.capacity = 3, !.repeats = 0, !.min_fit = 1,
                      !.refit_every = 2, !.max_steps = 3, !.ring = 1]

MCOptions == {Base,
              [Base EXCEPT !.split = TRUE, !.repeats = 3],
              [Base EXCEPT !.batch = 2048, !.capacity = 256, !.max_len = 4096],
              [Small EXCEPT !.phase = "both", !.kinds = {Long, Short}],
              [Small EXCEPT !.split = TRUE, !.match = 1, !.prop = 1, !.kinds = {Long, Short}],
              [Small EXCEPT !.phase = "both", !.kinds = {Short}, !.launches = 2, !.refit_every = 3],
              [Small EXCEPT !.min_fit = 2, !.refit_every = 4, !.max_steps = 4,
                            !.kinds = {Steady}, !.launches = 2]}

MCSamples == {"s1", "s2"}
MCSampleLen == [s \in MCSamples |-> IF s = "s1" THEN 1 ELSE 2]
=============================================================================
