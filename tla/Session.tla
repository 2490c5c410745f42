------------------------------ MODULE Session ------------------------------
(***************************************************************************)
(* One Session and its speculative generation: src/engine/session.cpp and  *)
(* src/engine/executor_speculative.cpp.                                    *)
(*                                                                         *)
(* Every operation holds the mutex of the Session, except that emit_token  *)
(* releases it around the caller's callback: there the callback itself or  *)
(* another thread may call prefill, decode or reset in the middle of the   *)
(* generation. An execution is one forward_model at a time, row by row;    *)
(* each of its steps may fail. A speculative generation drafts a block of  *)
(* tokens, executes all of them inside a cache transaction, emits the ones *)
(* the model itself would have chosen while the transaction is still open  *)
(* and then keeps as many rows as it emitted.                              *)
(*                                                                         *)
(* Sampling is greedy (temperature 0). A stop token ends a generation the  *)
(* way a callback that returns false does and is the same step here.       *)
(***************************************************************************)
EXTENDS StateCache, FiniteSetsExt

CONSTANTS
  Layers,          \* number of layers of the target model
  Models,          \* [drafts, layers]: how it drafts, the kind of each layer
  Greedy(_),       \* the most likely token given what each layer remembers
  Prompts,         \* the prompts of prefill and generate
  ContextLimit,    \* context_limit of the model
  ChunkSize,       \* prefill_chunk_size
  BlockSize,       \* tokens drafted at a time
  MaximumNew,      \* largest max_new_tokens asked for
  Careless,        \* callbacks of a speculative generation may execute
  NoPosition       \* no pending target row

Layer == 1..Layers

ASSUME SessionAssumption ==
  /\ Layers \in Nat \ {0} /\ ContextLimit \in Nat \ {0} /\ ChunkSize \in Nat \ {0}
  /\ BlockSize \in Nat \ {0} /\ MaximumNew \in Nat \ {0} /\ Careless \in BOOLEAN
  /\ Prompts \subseteq Seq(Token) \ {<<>>} /\ NoPosition \notin Nat
  /\ Models \subseteq [drafts : {"none", "dspark", "mtp"}, layers : [Layer -> CacheKind]]
  /\ \A m \in Models, l \in Layer :
       (m.layers[l] = "latent") = (m.drafts = "dspark")

VARIABLES
  model,           \* the model of the Session
  layers,          \* state->layers
  draft,           \* state->speculative_layers, one layer of the draft model
  pending,         \* position of mtp_pending_target_hidden
  context_on,      \* state->use_speculative_context
  failed,          \* state->execution_failed
  context,         \* the tokens committed; token_count is their number
  running,         \* the execution that holds the mutex: its tokens, rows done
  gen              \* the generation: where it is and its local variables

vars == <<model, layers, draft, pending, context_on, failed, context, running, gen>>

token_count == Len(context)
NotRunning == [ids |-> <<>>, done |-> 0]
Held == running # NotRunning

Idle == [at |-> "idle", speculative |-> FALSE, max |-> 0, start |-> 0, stream |-> <<>>,
         active |-> FALSE, verifying |-> FALSE, ids |-> <<>>, outputs |-> <<>>,
         accepted |-> 0, emitted |-> 0, expected |-> 0, go_on |-> TRUE, touched |-> FALSE]

DraftKind == IF model.drafts = "dspark" THEN "latent" ELSE "kv"
FreshLayers(m) == [l \in Layer |-> Fresh(m.layers[l])]
Anchor == gen.stream[Len(gen.stream)]
Remaining == gen.max - Len(gen.stream)

Init ==
  /\ model \in Models
  /\ layers = FreshLayers(model) /\ draft = Fresh(DraftKind) /\ pending = NoPosition
  /\ context_on = TRUE /\ failed = FALSE /\ context = <<>>
  /\ running = NotRunning /\ gen = Idle

-----------------------------------------------------------------------------
(* Calls from outside, while no operation holds the mutex.                  *)

Unlocked == ~Held /\ gen.at \in {"idle", "callback"}

\* The code lets a callback call anything. Unless Careless, it is assumed
\* that nobody executes on the Session during a callback of a speculative
\* generation: the caches are half verified then, or draft a continuation of
\* what was there before.
Permitted(execution) ==
  gen.at = "idle" \/ Careless \/ ~(execution /\ gen.speculative)

Touch == gen' = IF gen.at = "idle" THEN gen ELSE [gen EXCEPT !.touched = TRUE]

\* mutant: validate_execution_state is not called.
AcceptsFailed(number) == number <= ContextLimit - Min({token_count, ContextLimit})

Accepts(number) == ~failed /\ number <= ContextLimit - Min({token_count, ContextLimit})

StartExecution(ids) ==
  running' = [ids |-> ids, done |-> 0] /\ failed' = TRUE

Prefill ==
  /\ Unlocked /\ Permitted(TRUE) /\ Touch
  /\ \E ids \in Prompts : Accepts(Len(ids)) /\ StartExecution(ids)
  /\ UNCHANGED <<model, layers, draft, pending, context_on, context>>

Decode ==
  /\ Unlocked /\ Permitted(TRUE) /\ Touch
  /\ \E id \in Token : Accepts(1) /\ StartExecution(<<id>>)
  /\ UNCHANGED <<model, layers, draft, pending, context_on, context>>

Reset ==
  /\ Unlocked /\ Permitted(FALSE) /\ Touch
  /\ layers' = FreshLayers(model) /\ draft' = Fresh(DraftKind) /\ pending' = NoPosition
  /\ context_on' = TRUE /\ failed' = FALSE /\ context' = <<>>
  /\ UNCHANGED <<model, running>>

-----------------------------------------------------------------------------
(* An execution: prefill_unlocked and decode_unlocked.                      *)

Row == running.done + 1
ChunkEnds == (Row % ChunkSize) = 0 \/ Row = Len(running.ids)
ChunkStart == running.done - (running.done % ChunkSize)

\* update_speculative_context after the rows `hidden' of the target, the
\* first at `position'; `ids' are the tokens they are aligned with.
Tracks == model.drafts # "none" /\ context_on
Aligned(direct, position) ==
  model.drafts = "mtp" => pending \in {NoPosition} \cup (IF direct THEN {} ELSE {position - 1})

\* mutant: the row that waited for its token is dropped at a chunk boundary.
TrackedWithoutPending(direct, hidden, ids, position) ==
  IF model.drafts = "dspark"
  THEN /\ draft' = [draft EXCEPT !.rows = Before(draft, position) \o hidden]
       /\ pending' = pending
  ELSE /\ draft' = [draft EXCEPT !.rows =
                      @ \o SubSeq(ids, IF direct THEN 1 ELSE 2,
                                  IF direct THEN Len(ids) - 1 ELSE Len(ids))]
       /\ pending' = position + Len(hidden) - 1

Tracked(direct, hidden, ids, position) ==
  IF model.drafts = "dspark"
  THEN /\ draft' = [draft EXCEPT !.rows = Before(draft, position) \o hidden]
       /\ pending' = pending
  ELSE /\ draft' = [draft EXCEPT !.rows =
                      @ \o IF direct \/ pending = NoPosition
                           THEN SubSeq(ids, IF direct THEN 1 ELSE 2,
                                       IF direct THEN Len(ids) - 1 ELSE Len(ids))
                           ELSE ids]
       /\ pending' = position + Len(hidden) - 1

Forwarded(row, position) == [l \in Layer |-> Record(layers[l], position, row)]

\* The layers up to some layer have the row, the others do not.
Broken(row, position) ==
  \E last \in 0..Layers :
    layers' = [l \in Layer |-> IF l <= last THEN Record(layers[l], position, row) ELSE layers[l]]

ExecuteRow ==
  /\ Held
  /\ layers' = Forwarded(running.ids[Row], token_count + running.done)
  /\ IF Tracks /\ ChunkEnds
     THEN LET rows == SubSeq(running.ids, ChunkStart + 1, Row)
          IN  /\ Aligned(FALSE, token_count + ChunkStart)
              /\ Tracked(FALSE, rows, rows, token_count + ChunkStart)
     ELSE UNCHANGED <<draft, pending>>
  /\ IF Row < Len(running.ids)
     THEN running' = [running EXCEPT !.done = Row] /\ UNCHANGED <<failed, context, gen>>
     ELSE /\ running' = NotRunning
          /\ context' = context \o running.ids /\ failed' = FALSE
          /\ gen' = IF gen.at = "prefill"
                    THEN [gen EXCEPT !.at = "sample", !.start = token_count + Len(running.ids)]
                    ELSE IF gen.at = "decode" THEN [gen EXCEPT !.at = "sample"] ELSE gen
  /\ UNCHANGED <<model, context_on>>

\* A forward or the update of the draft context fails: failed stays set.
ExecutionFails ==
  /\ Held
  /\ Broken(running.ids[Row], token_count + running.done)
  /\ running' = NotRunning
  /\ gen' = IF gen.at \in {"prefill", "decode"} THEN Idle ELSE gen
  /\ UNCHANGED <<model, draft, pending, context_on, failed, context>>

-----------------------------------------------------------------------------
(* A generation: generate, generate_unlocked and generate_speculative.      *)

Locked(at) == ~Held /\ gen.at = at

Generate ==
  /\ Locked("idle") /\ ~failed
  /\ \E ids \in Prompts \cup {<<>>}, speculative \in BOOLEAN, max \in 1..MaximumNew :
       LET use == speculative /\ model.drafts # "none"
       IN  /\ use => context_on \/ token_count = 0
           /\ context_on' = use
           /\ IF ids # <<>> /\ Accepts(Len(ids))
              THEN /\ StartExecution(ids)
                   /\ gen' = [Idle EXCEPT !.at = "prefill", !.speculative = use,
                                          !.max = max, !.active = TRUE]
              ELSE UNCHANGED <<running, failed, gen>>
  /\ UNCHANGED <<model, layers, draft, pending, context>>

\* sample_unlocked, or the next accepted token, and the first half of
\* emit_token: the mutex is released for the callback.
NextToken == IF gen.at = "sample" THEN Greedy([l \in Layer |-> layers[l].rows])
                                  ELSE gen.outputs[gen.emitted + 1]

Emit ==
  /\ ~Held /\ gen.at \in {"sample", "emit"}
  /\ gen' = [gen EXCEPT !.at = "callback", !.stream = Append(@, NextToken),
                        !.verifying = (gen.at = "emit"), !.expected = token_count,
                        !.emitted = IF gen.at = "emit" THEN @ + 1 ELSE 0]
  /\ UNCHANGED <<model, layers, draft, pending, context_on, failed, context, running>>

\* finish_cache(state->layers, committed): when it is refused, failed is
\* left set and the transaction open.
Settled(caches, committed) ==
  IF \A l \in Layer : CanFinish(caches[l], committed)
  THEN layers' = [l \in Layer |-> Finish(caches[l], committed)] /\ failed' = failed
  ELSE layers' = caches /\ failed' = TRUE

\* The second half of emit_token: the callback returned.
Unchanged == token_count = gen.expected

CallbackReturns ==
  /\ Locked("callback") /\ Unchanged
  /\ \E wanted \in BOOLEAN :
       LET more == wanted /\ Remaining > 0
       IN  gen' = [gen EXCEPT !.go_on = more,
                     !.at = IF gen.verifying
                            THEN IF more /\ gen.emitted < Len(gen.outputs) THEN "emit" ELSE "settle"
                            ELSE IF more THEN "loop" ELSE "return"]
  /\ UNCHANGED <<model, layers, draft, pending, context_on, failed, context, running>>

\* The callback changed the Session, or threw.
GiveUp ==
  /\ Locked("callback")
  /\ IF gen.speculative THEN Settled(layers, 0) ELSE UNCHANGED <<layers, failed>>
  /\ gen' = Idle
  /\ UNCHANGED <<model, draft, pending, context_on, context, running>>

CallbackModified == ~Unchanged /\ GiveUp

CallbackThrows == GiveUp

Return ==
  /\ Locked("return") /\ gen' = Idle
  /\ UNCHANGED <<model, layers, draft, pending, context_on, failed, context, running>>

\* The next token is decoded alone: a plain generation, the last token, or
\* a generation that no longer drafts.
DecodesAlone == ~gen.speculative \/ Remaining = 1 \/ ~gen.active

DecodeAnchor ==
  /\ Locked("loop") /\ DecodesAlone
  /\ IF Accepts(1)
     THEN StartExecution(<<Anchor>>) /\ gen' = [gen EXCEPT !.at = "decode"]
     ELSE gen' = Idle /\ UNCHANGED <<running, failed>>
  /\ UNCHANGED <<model, layers, draft, pending, context_on, context>>

-----------------------------------------------------------------------------
(* Drafting: propose_speculative inside a transaction of the draft cache.   *)
(* That cache is never a ring and its rows are counted as expected, so that *)
(* finishing its transaction is never refused.                              *)

InSync ==
  IF model.drafts = "mtp" THEN pending = token_count - 1
                          ELSE Len(draft.rows) = token_count

BeginDraft ==
  /\ Locked("loop") /\ ~DecodesAlone
  /\ IF CanBegin(draft) /\ InSync
     THEN /\ draft' = Begin(draft, BlockSize)
          /\ gen' = [gen EXCEPT !.at = "draft", !.ids = <<Anchor>>]
     ELSE gen' = Idle /\ UNCHANGED draft
  /\ UNCHANGED <<model, layers, pending, context_on, failed, context, running>>

DraftRow ==
  /\ Locked("draft") /\ Len(gen.ids) <= BlockSize
  /\ draft' = Record(draft, token_count + Len(gen.ids) - 1, gen.ids[Len(gen.ids)])
  /\ \E id \in Token : gen' = [gen EXCEPT !.ids = Append(@, id)]
  /\ UNCHANGED <<model, layers, pending, context_on, failed, context, running>>

DraftFails ==
  /\ Locked("draft") /\ Len(gen.ids) <= BlockSize
  /\ draft' = Finish(draft, 0) /\ gen' = Idle
  /\ UNCHANGED <<model, layers, pending, context_on, failed, context, running>>

\* A proposal of Qwen MTP commits one row of context, which uses up the
\* pending target row; one of DSpark commits none.
DraftRows == IF model.drafts = "mtp" THEN 1 ELSE 0

\* Confidence may cut a DSpark proposal down to nothing; then the rest of
\* the generation is decoded token by token.
EndDraft ==
  /\ Locked("draft") /\ Len(gen.ids) = BlockSize + 1
  /\ draft' = Finish(draft, DraftRows)
  /\ pending' = IF model.drafts = "mtp" THEN NoPosition ELSE pending
  /\ \E count \in (IF model.drafts = "mtp" THEN 1 ELSE 0)..Min({BlockSize, Remaining - 1}) :
       gen' = IF count = 0 THEN [gen EXCEPT !.at = "loop", !.active = FALSE, !.ids = <<>>]
              ELSE [gen EXCEPT !.at = "verify", !.ids = SubSeq(@, 1, count + 1)]
  /\ UNCHANGED <<model, layers, context_on, failed, context, running>>

-----------------------------------------------------------------------------
(* Verification: the anchor and the draft are executed in a transaction of  *)
(* the target caches. Qwen MTP forwards one token at a time, DSpark the     *)
(* whole batch, which is row by row here too.                               *)

BeginVerify ==
  /\ Locked("verify")
  /\ IF \A l \in Layer : CanBegin(layers[l])
     THEN /\ layers' = [l \in Layer |-> Begin(layers[l], Len(gen.ids))]
          /\ gen' = [gen EXCEPT !.at = "forward", !.outputs = <<>>,
                                  !.accepted = 0]
     ELSE gen' = Idle /\ UNCHANGED layers
  /\ UNCHANGED <<model, draft, pending, context_on, failed, context, running>>

Verified == Len(gen.outputs)

VerifyRow ==
  /\ Locked("forward")
  /\ layers' = Forwarded(gen.ids[Verified + 1], token_count + Verified)
  /\ gen' = [gen EXCEPT !.outputs = Append(@, Greedy([l \in Layer |-> layers'[l].rows])),
                        !.at = IF Verified + 1 < Len(gen.ids) THEN "forward" ELSE "compare"]
  /\ UNCHANGED <<model, draft, pending, context_on, failed, context, running>>

VerifyFails ==
  /\ Locked("forward")
  /\ \E last \in 0..Layers :
       Settled([l \in Layer |->
                  IF l <= last THEN Record(layers[l], token_count + Verified, gen.ids[Verified + 1])
                               ELSE layers[l]], 0)
  /\ gen' = Idle
  /\ UNCHANGED <<model, draft, pending, context_on, context, running>>

\* sample_unlocked refuses the logits.
SampleFails ==
  /\ \/ Locked("sample") /\ UNCHANGED <<layers, failed>>
     \/ Locked("compare") /\ Settled(layers, 0)
  /\ gen' = Idle
  /\ UNCHANGED <<model, draft, pending, context_on, context, running>>

\* mutant: the draft is compared with the target's choice after it.
MatchesNextRow == gen.outputs[gen.accepted + 2] = gen.ids[gen.accepted + 2]

\* The next draft is what the target chose in its place.
Matches == gen.outputs[gen.accepted + 1] = gen.ids[gen.accepted + 2]

Compared == gen.accepted < Len(gen.ids) - 1 => ~Matches

AcceptDraft ==
  /\ Locked("compare") /\ ~Compared
  /\ gen' = [gen EXCEPT !.accepted = @ + 1]
  /\ UNCHANGED <<model, layers, draft, pending, context_on, failed, context, running>>

RejectsAll == gen.accepted = 0 /\ model.drafts = "dspark"

Accept ==
  /\ Locked("compare") /\ Compared /\ ~RejectsAll
  /\ gen' = [gen EXCEPT !.at = "emit", !.emitted = 0,
                        !.outputs = Append(SubSeq(gen.ids, 2, gen.accepted + 1),
                                           gen.outputs[gen.accepted + 1])]
  /\ UNCHANGED <<model, layers, draft, pending, context_on, failed, context, running>>

\* mutant: it goes on drafting.
AlwaysDrafting == TRUE

\* speculative_active after DSpark proposed nothing the target accepts.
StillDrafting == FALSE

RejectAll ==
  /\ Locked("compare") /\ Compared /\ RejectsAll
  /\ layers' = [l \in Layer |-> Finish(layers[l], 0)] /\ failed' = FALSE
  /\ gen' = [gen EXCEPT !.at = "loop", !.active = StillDrafting, !.ids = <<>>, !.outputs = <<>>]
  /\ UNCHANGED <<model, draft, pending, context_on, context, running>>

\* finish_cache(emitted), update_speculative_context (a speculative
\* generation has context_on), commit_execution.
Committed == SubSeq(gen.ids, 1, gen.emitted)

SettlePermitted ==
  /\ \A l \in Layer : CanFinish(layers[l], gen.emitted)
  /\ Aligned(TRUE, token_count)

Settle ==
  /\ Locked("settle") /\ SettlePermitted
  /\ layers' = [l \in Layer |-> Finish(layers[l], gen.emitted)]
  /\ Tracked(TRUE, Committed, SubSeq(gen.outputs, 1, gen.emitted), token_count)
  /\ context' = context \o Committed /\ failed' = FALSE
  /\ gen' = [gen EXCEPT !.at = IF gen.go_on THEN "loop" ELSE "return",
                        !.ids = <<>>, !.outputs = <<>>, !.emitted = 0, !.verifying = FALSE]
  /\ UNCHANGED <<model, context_on, running>>

\* The rows cannot be taken back (a sliding ring), or the draft context
\* cannot be updated.
SettleFails ==
  /\ Locked("settle")
  /\ layers' = IF \A l \in Layer : CanFinish(layers[l], gen.emitted)
               THEN [l \in Layer |-> Finish(layers[l], gen.emitted)] ELSE layers
  /\ failed' = TRUE /\ gen' = Idle
  /\ UNCHANGED <<model, draft, pending, context_on, context, running>>

-----------------------------------------------------------------------------
Calls == Prefill \/ Decode \/ Reset \/ Generate

Callback == CallbackReturns \/ CallbackModified \/ CallbackThrows

Steps ==
  \/ ExecuteRow \/ ExecutionFails
  \/ Emit \/ Return \/ DecodeAnchor
  \/ BeginDraft \/ DraftRow \/ DraftFails \/ EndDraft
  \/ BeginVerify \/ VerifyRow \/ VerifyFails \/ SampleFails \/ AcceptDraft \/ Accept \/ RejectAll
  \/ Settle \/ SettleFails

Next == Calls \/ Callback \/ Steps

\* Every step of an operation is taken, and every callback returns, however
\* many calls it makes.
Spec == Init /\ [][Next]_vars /\ WF_vars(Steps) /\ SF_vars(Callback)

-----------------------------------------------------------------------------
\* Whenever no forward is running and no failure is recorded, each layer
\* remembers exactly the committed tokens; if a verification is open, that
\* is what it remembers once it is taken back. Rollback after a failure, a
\* throwing callback or a partial acceptance, whatever the kind of layer
\* (statecache.cpp, latentattention.cpp, session.cpp finish_cache).
CachesMatchPosition ==
  ~failed /\ ~Held => \A l \in Layer : Restored(layers[l], 0) = context

\* The draft model is never ahead of or behind the target: its context has
\* a row for each committed token, or misses the last one while the target
\* row of that token is pending (executor_speculative.cpp).
DraftInStep ==
  (~failed /\ ~Held /\ gen.at # "draft" /\ Tracks /\ context # <<>>) =>
     /\ Len(draft.rows) = token_count - (IF pending = NoPosition THEN 0 ELSE 1)
     /\ pending \in {NoPosition, token_count - 1}

\* What a generation emits is what decoding one token at a time would emit,
\* whatever was drafted, rejected, chunked or rolled back before
\* (generate_speculative against generate_unlocked).
unfed ==
  IF gen.at \in {"idle", "prefill"} \/ gen.touched THEN <<>>
  ELSE SubSeq(gen.stream, token_count - gen.start + 1, Len(gen.stream))

Decoder == INSTANCE GreedyDecoder WITH Best <- LAMBDA s : Greedy([l \in Layer |-> s])
SpeculationIsExact == Decoder!Spec

\* Once an execution has failed nothing but reset makes the Session usable:
\* no later call executes, and no generation that was under way around the
\* failed call clears the mark (validate_execution_state).
FailedUntilReset ==
  [][failed /\ ~Held => (failed' /\ ~Held') \/ (Unlocked /\ context' = <<>>)]_vars

\* Even if callbacks execute during a speculation, a failed Session executes
\* nothing that is asked of it until it is reset; only the commit of a
\* speculative generation around the failed call takes the mark away
\* (commit_execution, session.cpp:195).
ForgottenBySpeculation ==
  [][failed /\ ~Held =>
       \/ failed' /\ ~Held'
       \/ Unlocked /\ context' = <<>>
       \/ gen.speculative /\ gen.touched /\ (Settle \/ RejectAll)]_vars

\* A generation returns, even if every draft is rejected.
GenerateReturns == gen.at # "idle" ~> gen.at = "idle"
=============================================================================
