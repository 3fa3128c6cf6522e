--------------------------- MODULE MCModelRunner ---------------------------
(* A sample of one token and one of two, in a buffer for both.  The rings  *)
(* are smaller than the code's four, so that a slot is reused sooner.      *)
EXTENDS ModelRunner

CONSTANTS a, b

MCSamples == {a, b}
MCSampleLen == [s \in MCSamples |-> IF s = a THEN 1 ELSE 2]

(* Two layers with the least that is saved; one with everything, q and k     *)
(* before and behind the rotation.                                           *)
Least == [layers |-> 2, qkv |-> FALSE, ctx |-> FALSE, resid_mid |-> FALSE,
          pre |-> FALSE, hash |-> FALSE, graphed |-> {"mixed"}]
Most == [layers |-> 1, qkv |-> TRUE, ctx |-> TRUE, resid_mid |-> TRUE,
         pre |-> FALSE, hash |-> TRUE, graphed |-> {"mixed", "ft_only"}]

Eager == [Most EXCEPT !.pre = TRUE, !.ctx = FALSE, !.graphed = {}]

MCConfigs == {Eager, Least, Most}
EagerConfigs == {Eager}
=============================================================================
