-------------------------- MODULE MCBatchScheduler --------------------------
(* Instances of BatchScheduler for TLC.                                    *)
EXTENDS BatchScheduler
CONSTANTS w1, w2, c1, c2

OneLoadedModel == [s \in Sessions |-> "A"]
TwoLoadedModels == [s \in Sessions |-> IF s > 2 THEN "B" ELSE "A"]

Ask(s, n) == [session |-> s, tokens |-> n, valid |-> TRUE]
Wrong(s) == [session |-> s, tokens |-> 1, valid |-> FALSE]
Prefill(requests) == [kind |-> "prefill", requests |-> requests]
Decode(requests) == [kind |-> "decode", requests |-> requests]

ThreadsSym == Permutations(Workers) \cup Permutations(Callers)

(* Two models: pairs that are staged side by side on a machine too small   *)
(* for both, a batch that cannot be staged, and what is refused.           *)
MixedBatches == {Decode(<<Ask(3, 1), Ask(1, 1)>>), Decode(<<Ask(1, 1), Ask(2, 1)>>),
                 Decode(<<Ask(4, 1), Ask(3, 1)>>), Decode(<<Ask(1, 1), Ask(1, 1)>>),
                 Prefill(<<Ask(2, 1), Ask(1, 1)>>), Prefill(<<Ask(2, 1), Ask(3, 1)>>)}
(* A pair that is staged or split, and work of one of the two.             *)
OverlapBatches == {Decode(<<Ask(2, 1), Ask(1, 1)>>), Decode(<<Ask(1, 1)>>)}
(* Work that fails: a wrong token, a full context, a pass that ends badly. *)
FailingBatches == {Decode(<<Ask(2, 1), Ask(1, 1)>>), Decode(<<Wrong(1)>>),
                   Prefill(<<Ask(1, 2)>>)}

(* Session calls, and a staged batch of another scheduler.                 *)
DirectPasses == {<<Ask(1, 1)>>, <<Ask(2, 1), Ask(1, 1)>>}
NoCalls == {}
=============================================================================
