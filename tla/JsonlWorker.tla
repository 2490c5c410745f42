---------------------------- MODULE JsonlWorker ----------------------------
(***************************************************************************)
(* The worker process of one Session: examples/ncnn_moe_worker.cpp.        *)
(*                                                                         *)
(* A request loop reads one JSON object per line and answers it; a         *)
(* generation runs on a thread of its own, of which there is one at most,  *)
(* with a third thread that emits metrics. Loop and generation share two   *)
(* atomic flags, generation_running and cancel_requested, and the output,  *)
(* a line at a time under a mutex. The Session itself is what Session.tla  *)
(* shows: `rows' are the tokens that it has executed.                      *)
(***************************************************************************)
EXTENDS Integers, Sequences, SequencesExt

CONSTANTS
  Token,
  Conversations,   \* what `messages' encodes to, and the raw prompts
  Ids,             \* request_id of generations
  AnyId,           \* a cancel without a request_id
  ContextLimit,    \* maximum_context_tokens
  MaximumNew,      \* largest max_new_tokens asked for
  NoRequest

ASSUME WorkerAssumption ==
  /\ Conversations \subseteq Seq(Token) \ {<<>>} /\ AnyId \notin Ids
  /\ ContextLimit \in Nat \ {0} /\ MaximumNew \in Nat \ {0}

VARIABLES
  input, closed,       \* stdin: the lines to read, no more will come
  output,              \* stdout: the events no one has read
  loop,                \* where the request loop is, the request in its hands
  generation_running,
  cancel_requested,
  active_request_id,
  rows,                \* the tokens that the Session has executed
  committed_tokens,    \* the tokens that the worker takes it to hold
  thread,              \* generation_thread: its request and local variables
  cancelled_id         \* whom the last cancel since it was started named

workerVars == <<input, closed, output, loop, generation_running, cancel_requested,
                active_request_id, rows, committed_tokens, thread, cancelled_id>>

Event(name) == [event |-> name, token |-> 0]
TokenEvent(t) == [event |-> "token", token |-> t]
TokenEvents(tokens) == [i \in DOMAIN tokens |-> TokenEvent(tokens[i])]

\* Nobody reads the output of a worker whose input is closed.
Says(events) == output' = IF closed THEN <<>> ELSE output \o events

NoThread == [at |-> "none", id |-> AnyId, conversation |-> <<>>, prompt |-> <<>>,
             prompt_count |-> 0, track_prefix |-> FALSE, max |-> 0, tokens |-> <<>>,
             pending |-> <<>>, stopped |-> FALSE, metrics |-> "off", ok |-> TRUE]

WorkerInit ==
  /\ input = <<>> /\ closed = FALSE /\ output = <<>>
  /\ loop = [at |-> "read", request |-> NoRequest]
  /\ generation_running = FALSE /\ cancel_requested = FALSE /\ active_request_id = AnyId
  /\ rows = <<>> /\ committed_tokens = <<>>
  /\ thread = NoThread /\ cancelled_id = AnyId

-----------------------------------------------------------------------------
(* The request loop.                                                        *)

Handling(op) == loop.at = "handle" /\ loop.request.op = op
Request == loop.request
NextLine == loop' = [at |-> "read", request |-> NoRequest]

\* generation_thread.join() when it is joinable: the loop waits.
Joined == thread.at \in {"none", "exited"}

ReadLine ==
  /\ loop.at = "read" /\ input # <<>>
  /\ input' = Tail(input)
  /\ loop' = [at |-> IF thread.at # "none" /\ ~generation_running THEN "reap" ELSE "handle",
              request |-> Head(input)]
  /\ UNCHANGED <<closed, output, generation_running, cancel_requested, active_request_id,
                 rows, committed_tokens, thread, cancelled_id>>

Reap ==
  /\ loop.at = "reap" /\ Joined
  /\ thread' = NoThread /\ loop' = [loop EXCEPT !.at = "handle"]
  /\ UNCHANGED <<input, closed, output, generation_running, cancel_requested, active_request_id,
                 rows, committed_tokens, cancelled_id>>

\* invalid_argument: the request is answered and changes nothing.
Refuse ==
  /\ Says(<<Event("error")>>) /\ NextLine
  /\ UNCHANGED <<input, closed, generation_running, cancel_requested, active_request_id,
                 rows, committed_tokens, thread, cancelled_id>>

RefuseWhileRunning ==
  /\ loop.at = "handle" /\ generation_running
  /\ Request.op \in {"generate", "reset", "compact"}
  /\ Refuse

Stats ==
  /\ Handling("stats") /\ Says(<<Event("stats")>>) /\ NextLine
  /\ UNCHANGED <<input, closed, generation_running, cancel_requested, active_request_id,
                 rows, committed_tokens, thread, cancelled_id>>

Reset ==
  /\ Handling("reset") /\ ~generation_running
  /\ committed_tokens' = <<>> /\ rows' = <<>>
  /\ Says(<<Event("reset")>>) /\ NextLine
  /\ UNCHANGED <<input, closed, generation_running, cancel_requested, active_request_id,
                 thread, cancelled_id>>

\* The Session is reset and executes the replayed tokens, or fails to and
\* is reset again.
Compact ==
  /\ Handling("compact") /\ ~generation_running
  /\ IF Len(Request.prompt) > ContextLimit
     THEN Says(<<Event("error")>>) /\ UNCHANGED <<rows, committed_tokens>>
     ELSE \/ /\ rows' = Request.prompt
             /\ committed_tokens' = IF Request.messages THEN Request.prompt ELSE <<>>
             /\ Says(<<Event("compacted")>>)
          \/ /\ rows' = <<>> /\ committed_tokens' = <<>>
             /\ Says(<<Event("error")>>)
  /\ NextLine
  /\ UNCHANGED <<input, closed, generation_running, cancel_requested, active_request_id,
                 thread, cancelled_id>>

-----------------------------------------------------------------------------
(* handle_generate and prepare_generation.                                  *)

\* mutant: the lengths alone decide.
LongerThanCommitted ==
  /\ committed_tokens # <<>> /\ Len(committed_tokens) = Len(rows)
  /\ Len(Request.prompt) > Len(committed_tokens)

\* The Session already holds the beginning of the conversation.
PrefixReused ==
  /\ committed_tokens # <<>> /\ Len(committed_tokens) = Len(rows)
  /\ Len(Request.prompt) > Len(committed_tokens)
  /\ IsPrefix(committed_tokens, Request.prompt)

PromptCount == IF Request.messages THEN Len(Request.prompt) ELSE Len(rows) + Len(Request.prompt)
Overflows == PromptCount > ContextLimit \/ Request.max > ContextLimit - PromptCount

Prepared ==
  IF ~Request.messages THEN committed_tokens' = <<>> /\ rows' = rows
  ELSE /\ rows' = IF PrefixReused THEN rows ELSE <<>>
       /\ committed_tokens' = Request.prompt

\* mutant: a cancel of an earlier generation is kept.
KeepsCancel == cancel_requested

CancelAtStart == FALSE

\* mutant: nothing is said when the thread cannot be started.
StartFailsSilently == <<>>

StartFailsEvents == <<Event("error")>>

Generate ==
  /\ Handling("generate") /\ ~generation_running /\ Joined
  /\ NextLine
  /\ IF Overflows
     THEN /\ Says(<<Event("error")>>) /\ thread' = NoThread
          /\ UNCHANGED <<generation_running, cancel_requested, active_request_id, rows,
                         committed_tokens, cancelled_id>>
     ELSE /\ Prepared /\ cancel_requested' = CancelAtStart /\ cancelled_id' = NoRequest
          /\ generation_running' = TRUE /\ active_request_id' = Request.id
          /\ output' = output
          /\ thread' = [NoThread EXCEPT
               !.at = "prefill", !.id = Request.id, !.max = Request.max,
               !.conversation = IF Request.messages THEN Request.prompt ELSE rows \o Request.prompt,
               !.prompt = IF Request.messages /\ PrefixReused
                          THEN SubSeq(Request.prompt, Len(rows) + 1, Len(Request.prompt))
                          ELSE Request.prompt,
               !.prompt_count = PromptCount, !.track_prefix = Request.messages,
               !.metrics = IF Request.metrics THEN "on" ELSE "off"]
  /\ UNCHANGED <<input, closed>>

\* std::thread throws: the Session may have been reset for it.
GenerateCannotStart ==
  /\ Handling("generate") /\ ~generation_running /\ Joined /\ ~Overflows
  /\ rows' = IF Request.messages /\ ~PrefixReused THEN <<>> ELSE rows
  /\ committed_tokens' = <<>>
  /\ cancel_requested' = CancelAtStart /\ active_request_id' = AnyId
  /\ thread' = NoThread
  /\ Says(StartFailsEvents) /\ NextLine
  /\ UNCHANGED <<input, closed, generation_running, cancelled_id>>

-----------------------------------------------------------------------------
(* handle_cancel, shutdown and the end of the input.                        *)

Cancels == generation_running /\ Request.id \in {AnyId, active_request_id}

RefuseCancel == Handling("cancel") /\ ~Cancels /\ Refuse

CheckCancel ==
  /\ Handling("cancel") /\ Cancels
  /\ loop' = [loop EXCEPT !.at = "cancel"]
  /\ UNCHANGED <<input, closed, output, generation_running, cancel_requested, active_request_id,
                 rows, committed_tokens, thread, cancelled_id>>

StoreCancel ==
  /\ loop.at = "cancel"
  /\ cancel_requested' = TRUE /\ cancelled_id' = Request.id
  /\ loop' = [loop EXCEPT !.at = "cancelled"]
  /\ UNCHANGED <<input, closed, output, generation_running, active_request_id,
                 rows, committed_tokens, thread>>

AnswerCancel ==
  /\ loop.at = "cancelled" /\ Says(<<Event("cancel_requested")>>) /\ NextLine
  /\ UNCHANGED <<input, closed, generation_running, cancel_requested, active_request_id,
                 rows, committed_tokens, thread, cancelled_id>>

Shutdown ==
  /\ \/ Handling("shutdown") /\ loop' = [loop EXCEPT !.at = "shutdown"]
     \/ loop.at = "read" /\ input = <<>> /\ closed /\ loop' = [loop EXCEPT !.at = "eof"]
  /\ cancel_requested' = TRUE /\ cancelled_id' = AnyId
  /\ UNCHANGED <<input, closed, output, generation_running, active_request_id,
                 rows, committed_tokens, thread>>

Exit ==
  /\ loop.at \in {"shutdown", "eof"} /\ Joined
  /\ thread' = NoThread /\ loop' = [at |-> "done", request |-> NoRequest]
  /\ Says(IF loop.at = "shutdown" THEN <<Event("shutdown")>> ELSE <<>>)
  /\ UNCHANGED <<input, closed, generation_running, cancel_requested, active_request_id,
                 rows, committed_tokens, cancelled_id>>

-----------------------------------------------------------------------------
(* execute_generate on its thread.                                          *)

loopVars == <<input, closed, loop, cancel_requested, active_request_id, cancelled_id>>

ExecutePrompt ==
  /\ thread.at = "prefill"
  /\ rows' = rows \o thread.prompt /\ thread' = [thread EXCEPT !.at = "sample"]
  /\ UNCHANGED <<loopVars, output, generation_running, committed_tokens>>

\* A token, in the callback: its text may end in the middle of a character,
\* and then its event waits for the tokens that complete it.
EmitToken ==
  /\ thread.at = "sample"
  /\ \E t \in Token, complete \in BOOLEAN :
       LET waiting == Append(thread.pending, t)
       IN  /\ Says(IF complete THEN TokenEvents(waiting) ELSE <<>>)
           /\ thread' = [thread EXCEPT !.at = "check", !.tokens = Append(@, t),
                                       !.pending = IF complete THEN <<>> ELSE waiting]
  /\ UNCHANGED <<loopVars, generation_running, rows, committed_tokens>>

\* The callback returns ~cancel_requested; a stop token or max_new_tokens
\* end the generation as well.
EndToken ==
  /\ thread.at = "check"
  /\ \E ends \in BOOLEAN :
       /\ Len(thread.tokens) = thread.max => ends
       /\ thread' = [thread EXCEPT !.stopped = cancel_requested,
                                   !.at = IF cancel_requested \/ ends THEN "join" ELSE "feed"]
  /\ UNCHANGED <<loopVars, output, generation_running, rows, committed_tokens>>

FeedToken ==
  /\ thread.at = "feed"
  /\ rows' = Append(rows, Last(thread.tokens)) /\ thread' = [thread EXCEPT !.at = "sample"]
  /\ UNCHANGED <<loopVars, output, generation_running, committed_tokens>>

\* generate returns an error, or decoding a token throws.
GenerationFails ==
  /\ thread.at \in {"prefill", "sample", "feed"}
  /\ thread' = [thread EXCEPT !.at = "join", !.ok = FALSE]
  /\ UNCHANGED <<loopVars, output, generation_running, rows, committed_tokens>>

\* The metrics thread: one line of it at most is part of the model.
EmitMetrics ==
  /\ thread.metrics = "on"
  /\ \/ thread' = [thread EXCEPT !.metrics = "idle"] /\ Says(<<Event("metrics")>>)
     \/ thread' = [thread EXCEPT !.metrics = "failed"] /\ output' = output
  /\ UNCHANGED <<loopVars, generation_running, rows, committed_tokens>>

\* mutant: the metrics thread is not joined before the terminal event.
StillEmitting == thread.metrics

MetricsJoined == "off"

\* metrics_error is thrown here; unwinding joins as well.
JoinMetrics ==
  /\ thread.at = "join"
  /\ thread' = [thread EXCEPT !.at = "settle", !.ok = @ /\ thread.metrics # "failed",
                              !.metrics = MetricsJoined]
  /\ UNCHANGED <<loopVars, output, generation_running, rows, committed_tokens>>

\* max_new_tokens ends the answer in the middle of a character, and the text
\* of it cannot be completed.
FlushThrows ==
  /\ thread.at = "settle" /\ thread.ok /\ ~thread.stopped /\ ~cancel_requested
  /\ Len(thread.tokens) = thread.max /\ thread.pending # <<>>
  /\ thread' = [thread EXCEPT !.ok = FALSE]
  /\ UNCHANGED <<loopVars, output, generation_running, rows, committed_tokens>>

\* The tokens of the answer that the Session has executed.
Fed == SubSeq(thread.tokens, 1, Len(rows) - thread.prompt_count)
Tracks ==
  /\ thread.track_prefix
  /\ Len(rows) \in thread.prompt_count..(thread.prompt_count + Len(thread.tokens))

SettleSession ==
  /\ thread.at = "settle"
  /\ Says(TokenEvents(thread.pending))
  /\ thread' = [thread EXCEPT !.at = "finish", !.pending = <<>>]
  /\ IF thread.ok
     THEN /\ committed_tokens' = IF Tracks THEN committed_tokens \o Fed ELSE <<>>
          /\ rows' = rows
     ELSE committed_tokens' = <<>> /\ rows' = <<>>
  /\ UNCHANGED <<loopVars, generation_running>>

\* A terminal event may immediately trigger the next request.
Finish ==
  /\ thread.at = "finish"
  /\ generation_running' = FALSE /\ thread' = [thread EXCEPT !.at = "publish"]
  /\ UNCHANGED <<loopVars, output, rows, committed_tokens>>

Publish ==
  /\ thread.at = "publish"
  /\ Says(<<Event(IF thread.ok THEN "done" ELSE "error")>>)
  /\ thread' = [thread EXCEPT !.at = "exited"]
  /\ UNCHANGED <<loopVars, generation_running, rows, committed_tokens>>

-----------------------------------------------------------------------------
LoopSteps ==
  \/ ReadLine \/ Reap \/ RefuseWhileRunning \/ Stats \/ Reset \/ Compact
  \/ Generate \/ GenerateCannotStart
  \/ RefuseCancel \/ CheckCancel \/ StoreCancel \/ AnswerCancel \/ Shutdown \/ Exit

ThreadSteps ==
  \/ ExecutePrompt \/ EmitToken \/ EndToken \/ FeedToken \/ GenerationFails
  \/ JoinMetrics \/ FlushThrows \/ SettleSession \/ Finish \/ Publish

-----------------------------------------------------------------------------
\* What the model sees is the conversation that was sent: an answer starts
\* with the Session holding exactly that, whether the worker reused what
\* the Session held or not, and whatever requests, failures and
\* cancellations came before (prepare_generation, execute_generate).
ConversationIsExact ==
  thread.at = "sample" => rows = thread.conversation \o thread.tokens

\* A generation is only ever stopped by a cancel that named it or by the end
\* of the worker, however late the cancel of an earlier one was stored
\* (handle_cancel against handle_generate).
CancelHitsItsTarget ==
  thread.stopped => cancelled_id \in {AnyId, thread.id}
=============================================================================
