---------------------------- MODULE MCCoServing ----------------------------
(* Two short samples and a long one, a buffer for two or three of them.    *)
EXTENDS CoServing

CONSTANTS a, b, c

MCSamples == {a, b, c}
MCSampleLen == [s \in MCSamples |-> IF s = c THEN 2 ELSE 1]
FewSamples == {a, c}
FewSampleLen == [s \in FewSamples |-> IF s = c THEN 2 ELSE 1]
UnitLen == [s \in MCSamples |-> 1]
Symmetry == Permutations({a, b})

Setup(queue_size, interruptible, step_tokens) ==
    [queue_size |-> queue_size, interruptible |-> interruptible,
     step_tokens |-> step_tokens]

\* Asynchronous scheduling without interrupts, and one interruptible step.
BothSetups == {Setup(2, FALSE, 2), Setup(1, TRUE, 3)}
LiveSetups == {Setup(2, TRUE, 2)}
OverlapSetups == {Setup(2, TRUE, 1)}
SyncSetups == {Setup(1, FALSE, 3)}
=============================================================================
