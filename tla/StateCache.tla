---------------------------- MODULE StateCache ----------------------------
(***************************************************************************)
(* The cache of one layer and its transaction: src/kernels/statecache.cpp  *)
(* and the undo log of src/kernels/latentattention.cpp.                    *)
(*                                                                         *)
(* `rows' is what a cache remembers, as the tokens that produced it: the   *)
(* key and value rows of an attention layer, the rows folded into the      *)
(* recurrent state of a Gated DeltaNet layer ("delta"), or the window and  *)
(* compressor of a latent layer. Each kind takes rows back in its own way: *)
(*   "kv", "sliding"  the row count of begin; the rows stay where they are *)
(*   "delta"          a snapshot at begin and one after each recorded row  *)
(*                    but the last                                         *)
(*   "latent"         an undo log with the state before each row           *)
(***************************************************************************)
EXTENDS Integers, Sequences

CONSTANTS Token,     \* the values of a row
          Retained   \* the rows that a sliding layer keeps, sliding_window - 1

ASSUME RetainedAssumption == Retained \in Nat

CacheKind == {"kv", "sliding", "delta", "latent"}

LayerCache == [kind : CacheKind, rows : Seq(Token), active : BOOLEAN, count : Nat,
               initial : Seq(Token), expected : Nat, recorded : Nat,
               saved : Seq(Seq(Token))]

Fresh(kind) ==
  [kind |-> kind, rows |-> <<>>, active |-> FALSE, count |-> 0,
   initial |-> <<>>, expected |-> 0, recorded |-> 0, saved |-> <<>>]

\* first_slot # 0: trim_sliding_cache has moved the start of the ring.
Ring(c) == c.kind = "sliding" /\ Len(c.rows) > Retained

CanBegin(c) == c.kind = "latent" \/ (~c.active /\ ~Ring(c))

Begin(c, expected) ==
  IF c.kind = "latent"
  THEN [c EXCEPT !.active = TRUE, !.saved = <<>>]
  ELSE [c EXCEPT !.active = TRUE, !.count = Len(c.rows), !.expected = expected,
                 !.recorded = 0, !.saved = <<>>,
                 !.initial = IF c.kind = "delta" THEN c.rows ELSE <<>>]

\* A latent layer writes at the position the caller gives, the others at
\* their end.
Before(c, position) ==
  IF c.kind = "latent" /\ position < Len(c.rows) THEN SubSeq(c.rows, 1, position) ELSE c.rows

Record(c, position, row) ==
  LET grown == Append(Before(c, position), row)
  IN  CASE ~c.active -> [c EXCEPT !.rows = grown]
        [] c.active /\ c.kind = "latent" ->
             [c EXCEPT !.rows = grown, !.saved = Append(c.saved, c.rows)]
        [] c.active /\ c.kind = "delta" ->
             [c EXCEPT !.rows = grown, !.recorded = c.recorded + 1,
                       !.saved = IF c.recorded + 1 < c.expected THEN Append(c.saved, grown)
                                                                ELSE c.saved]
        [] c.active /\ c.kind \in {"kv", "sliding"} ->
             [c EXCEPT !.rows = grown, !.recorded = c.recorded + 1]

\* The checks that finish makes on every cache before it changes any.
CanFinish(c, committed) ==
  c.active =>
    IF c.kind = "latent"
    THEN c.saved = <<>> \/ committed <= Len(c.saved)
    ELSE /\ committed <= c.recorded
         /\ committed # 0 => c.recorded = c.expected
         /\ c.kind = "delta" /\ committed \notin {0, c.recorded} => committed <= Len(c.saved)
         /\ ~Ring(c)

\* mutant: the snapshot after the first row that was not committed.
LateSnapshot(c, committed) ==
  IF c.active /\ c.kind = "delta" /\ committed \in 1..(c.recorded - 1)
  THEN c.saved[IF committed + 1 <= Len(c.saved) THEN committed + 1 ELSE committed]
  ELSE IF c.active /\ c.kind = "latent"
  THEN IF committed < Len(c.saved) THEN c.saved[committed + 1] ELSE c.rows
  ELSE IF c.active /\ c.kind = "delta" /\ committed = 0 THEN c.initial
  ELSE IF c.active /\ c.kind # "delta" THEN SubSeq(c.rows, 1, c.count + committed)
  ELSE c.rows

\* The content after `committed' rows of the transaction.
Restored(c, committed) ==
  CASE ~c.active -> c.rows
    [] c.active /\ c.kind = "latent" ->
         IF committed < Len(c.saved) THEN c.saved[committed + 1] ELSE c.rows
    [] c.active /\ c.kind = "delta" ->
         IF committed = 0 THEN c.initial
         ELSE IF committed < c.recorded THEN c.saved[committed] ELSE c.rows
    [] c.active /\ c.kind \in {"kv", "sliding"} -> SubSeq(c.rows, 1, c.count + committed)

Finish(c, committed) == [Fresh(c.kind) EXCEPT !.rows = Restored(c, committed)]
=============================================================================
