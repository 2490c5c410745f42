---------------------------- MODULE WorkerClient ----------------------------
(***************************************************************************)
(* The synchronous client of a worker, WorkerClient of tools/ncnn_moe.py,  *)
(* over the pipes of its process. A call sends one request and reads until *)
(* the event that ends it. The user may interrupt it: an interrupted       *)
(* generation sends a cancel and reads on to the end of the generation,    *)
(* any other call is left with its answer unread.                          *)
(***************************************************************************)
EXTENDS JsonlWorker

CONSTANTS
  MaximumCalls,        \* bound on the requests of a client
  MaximumInterrupts    \* bound on the interrupts of the user

ASSUME ClientAssumption == MaximumCalls \in Nat /\ MaximumInterrupts \in Nat

VARIABLE client

vars == <<workerVars, client>>

Init ==
  /\ WorkerInit
  /\ client = [at |-> "idle", id |-> AnyId, tokens |-> <<>>, calls |-> 0, interrupts |-> 0]

unread == <<closed, output, loop, generation_running, cancel_requested, active_request_id,
            rows, committed_tokens, thread, cancelled_id>>
unsent == <<input, closed, loop, generation_running, cancel_requested, active_request_id,
            rows, committed_tokens, thread, cancelled_id>>

Line == [op |-> "stats", id |-> AnyId, prompt |-> <<>>, messages |-> FALSE, max |-> 0,
         metrics |-> FALSE]
Send(line) == input' = Append(input, line)

\* request: one line, one event.
Call ==
  /\ client.at = "idle" /\ client.calls < MaximumCalls
  /\ \/ \E op \in {"stats", "reset"} : Send([Line EXCEPT !.op = op])
     \/ \E id \in Ids \cup {AnyId} : Send([Line EXCEPT !.op = "cancel", !.id = id])
     \/ \E prompt \in Conversations, messages \in BOOLEAN :
          Send([Line EXCEPT !.op = "compact", !.prompt = prompt, !.messages = messages])
  /\ client' = [client EXCEPT !.at = "waiting", !.calls = @ + 1]
  /\ UNCHANGED unread

GenerateCall ==
  /\ client.at = "idle" /\ client.calls < MaximumCalls
  /\ \E id \in Ids, prompt \in Conversations, messages, metrics \in BOOLEAN, max \in 1..MaximumNew :
       /\ Send([op |-> "generate", id |-> id, prompt |-> prompt, messages |-> messages,
                max |-> max, metrics |-> metrics])
       /\ client' = [client EXCEPT !.at = "generating", !.id = id, !.tokens = <<>>,
                                   !.calls = @ + 1]
  /\ UNCHANGED unread

\* _read_event.
Reads == output # <<>> /\ output' = Tail(output) /\ UNCHANGED unsent

ReadAnswer ==
  /\ client.at = "waiting" /\ Reads
  /\ client' = [client EXCEPT !.at = "idle"]

ReadGeneration ==
  /\ client.at \in {"generating", "draining"} /\ Reads
  /\ client' = [client EXCEPT
       !.at = IF Head(output).event \in {"done", "error"} THEN "idle" ELSE @,
       !.tokens = IF Head(output).event = "token" THEN Append(@, Head(output).token) ELSE @]

\* KeyboardInterrupt.
Interrupted == client.interrupts > 0
CanInterrupt == client.interrupts < MaximumInterrupts

InterruptGeneration ==
  /\ client.at = "generating" /\ CanInterrupt
  /\ Send([Line EXCEPT !.op = "cancel", !.id = client.id])
  /\ client' = [client EXCEPT !.at = "draining", !.interrupts = @ + 1]
  /\ UNCHANGED unread

InterruptCall ==
  /\ client.at \in {"waiting", "draining"} /\ CanInterrupt
  /\ client' = [client EXCEPT !.at = "idle", !.interrupts = @ + 1]
  /\ UNCHANGED <<input, unread>>

Close ==
  /\ client.at = "idle" /\ Send([Line EXCEPT !.op = "shutdown"])
  /\ client' = [client EXCEPT !.at = "closing"]
  /\ UNCHANGED unread

\* The process of the client ends: its pipes are closed.
Gone == [client EXCEPT !.at = "closed", !.id = AnyId, !.tokens = <<>>]
Vanish ==
  /\ client.at # "closed" /\ closed' = TRUE /\ output' = <<>>
  /\ client' = Gone
  /\ UNCHANGED <<input, loop, generation_running, cancel_requested, active_request_id,
                 rows, committed_tokens, thread, cancelled_id>>

ReadClosing ==
  /\ client.at = "closing" /\ Reads
  /\ client' = [client EXCEPT !.at = IF Head(output).event \in {"shutdown", "error"}
                                     THEN "terminating" ELSE @]

\* _terminate: the worker is told to end, and killed if it does not.
Terminate ==
  /\ client.at = "terminating"
  /\ client' = Gone
  /\ closed' = TRUE /\ output' = <<>> /\ thread' = NoThread
  /\ loop' = [at |-> "done", request |-> NoRequest]
  /\ UNCHANGED <<input, generation_running, cancel_requested, active_request_id,
                 rows, committed_tokens, cancelled_id>>

Worker == LoopSteps \/ ThreadSteps \/ EmitMetrics
Reading == ReadAnswer \/ ReadGeneration \/ ReadClosing \/ Terminate
User == Call \/ GenerateCall \/ InterruptGeneration \/ InterruptCall \/ Close \/ Vanish

Next == (Worker /\ UNCHANGED client) \/ Reading \/ User

\* The threads of the worker and the reader run; the user may do nothing,
\* and metrics may never be due.
Spec ==
  /\ Init /\ [][Next]_vars
  /\ WF_vars(LoopSteps /\ UNCHANGED client) /\ WF_vars(ThreadSteps /\ UNCHANGED client)
  /\ WF_vars(Reading)

-----------------------------------------------------------------------------
\* As long as the user interrupts nothing, client and worker are in step:
\* between calls both pipes are empty and no thread will write to them, and
\* during a generation the tokens that the client has read, those in the
\* pipe and those that wait for the rest of a character are exactly the
\* tokens generated (execute_generate, request and generate of the client).
BetweenCalls ==
  client.at = "idle" =>
    /\ input = <<>> /\ output = <<>>
    /\ ~generation_running /\ thread.metrics # "on" /\ thread.at \in {"none", "exited"}

TokensIn(events) ==
  LET among[n \in 0..Len(events)] ==
        IF n = 0 THEN <<>>
        ELSE IF events[n].event = "token" THEN Append(among[n - 1], events[n].token)
        ELSE among[n - 1]
  IN  among[Len(events)]

TokensConserved ==
  client.at = "generating" /\ thread.at # "none" /\ input = <<>> /\ loop.at = "read" =>
    client.tokens \o TokensIn(output) \o thread.pending = thread.tokens

InStep == ~Interrupted => BetweenCalls /\ TokensConserved

\* Every call ends, interrupted or not, and the worker ends with its client
\* (run, handle_generate, close).
CallsEnd ==
  /\ client.at \notin {"idle", "closed"} ~> client.at \in {"idle", "closed"}
  /\ client.at = "closed" ~> loop.at = "done"
=============================================================================
