---------------------------- MODULE MCExpertCache ----------------------------
(* Instances of ExpertCache for TLC: calls, sizes and groups of the runs.   *)
EXTENDS ExpertCache, TLC
CONSTANTS k1, k2, k3, c1, c2, w1, w2

UnitSize == [k \in Key |-> 1]
MixedSize == [k \in Key |-> IF k = k3 THEN 2 ELSE 1]
OneGroup == [k \in Key |-> 0]
TwoGroups == [k \in Key |-> IF k = k1 THEN 0 ELSE 1]
LayerOf == [k \in Key |-> IF k = k1 THEN 0 ELSE IF k = k2 THEN 1 ELSE 2]
FirstTwoAdjacent == {<<k1, k2>>, <<k2, k1>>}
Threads == Permutations(Client) \cup Permutations(Worker)

Base == [op |-> "acquire", keys |-> << >>, group |-> 0, any |-> TRUE,
         target |-> 1, ready |-> TRUE, capacity |-> TRUE]
Acquire(k) == [Base EXCEPT !.keys = <<k>>]
Prefetch(k) == [Base EXCEPT !.op = "prefetch", !.keys = <<k>>]
Request(keys) == [Base EXCEPT !.op = "request", !.keys = keys]
Try(keys) == [Base EXCEPT !.op = "try", !.keys = keys]
Wait(keys) == [Base EXCEPT !.op = "wait", !.keys = keys]
Resolve(group, keys) == [Base EXCEPT !.op = "resolve", !.keys = keys, !.group = group]
Sync == [Base EXCEPT !.op = "sync"]

(* One session predicts and resolves a layer while another demands.         *)
PredictCalls == {Acquire(k1), Prefetch(k1), Prefetch(k2), Resolve(0, <<k2>>), Sync,
                 Acquire(k3), Prefetch(k3), Try(<<k1, k2>>)}
(* Two sessions demand pairs of two sizes, alone and in opposite batches,   *)
(* with every waiting mode.                                                 *)
DemandCalls == {Acquire(k3), Wait(<<k2, k1>>),
                [Wait(<<k1, k2>>) EXCEPT !.target = 2, !.any = FALSE],
                [Wait(<<k2>>) EXCEPT !.ready = FALSE, !.capacity = FALSE]}
(* Read-ahead and predictions of three layers, whose ranges touch.          *)
ReadAheadCalls == {Acquire(k1), Prefetch(k2), Prefetch(k3), Request(<<k1, k2, k3>>),
                   Resolve(0, << >>)}
(* Batches in opposite orders on a cache that holds one pair, and every     *)
(* kind of sleep.                                                           *)
SleepCalls == {Wait(<<k1, k2>>), Wait(<<k2, k1>>), Prefetch(k2), Sync}
(* The smallest traffic in which a promoted read leaves a reference behind. *)
PromoteCalls == {Acquire(k1), Acquire(k2), Prefetch(k1)}
=============================================================================
