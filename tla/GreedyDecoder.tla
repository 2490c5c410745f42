--------------------------- MODULE GreedyDecoder ---------------------------
(***************************************************************************)
(* What a Session promises to the reader of a stream: every token it emits *)
(* is the model's own next token after what it was fed and what it has     *)
(* emitted since, as if tokens were decoded one at a time. Chunks, caches, *)
(* drafts, verification and rollback do not exist here.                    *)
(***************************************************************************)
EXTENDS Integers, Sequences

CONSTANTS Best(_)    \* the next token of the model after a sequence of tokens

VARIABLES context,   \* the tokens the model was fed
          unfed      \* the tokens emitted by the running generation, not fed yet

Init == context = <<>> /\ unfed = <<>>

\* A token is emitted: Session::emit_token.
Emit == unfed' = Append(unfed, Best(context \o unfed)) /\ UNCHANGED context

\* Some of the emitted tokens become context.
Feed ==
  \E n \in 1..Len(unfed) :
    /\ context' = context \o SubSeq(unfed, 1, n)
    /\ unfed' = SubSeq(unfed, n + 1, Len(unfed))

\* A prompt, or a token the caller chose, is added.
Prompt ==
  /\ Len(context') > Len(context)
  /\ SubSeq(context', 1, Len(context)) = context
  /\ unfed' = <<>>

Reset == context' = <<>> /\ unfed' = <<>>

\* The generation returns or its stream is given up.
Stop == unfed' = <<>> /\ UNCHANGED context

Next == Emit \/ Feed \/ Prompt \/ Reset \/ Stop

Spec == Init /\ [][Next]_<<context, unfed>>
=============================================================================
