------------------------- MODULE WorkerClientProofs -------------------------
(***************************************************************************)
(* Proofs about the worker process and its client. Three facts are         *)
(* inductive together: types, where a cancel is aimed while it is on its   *)
(* way through the loop, and what the worker knows of the Session at every *)
(* place of a generation. On top of them stand the phases of a call, which *)
(* say where its request and its answer are, and that need the tokens of a *)
(* pipe that grows at one end and shrinks at the other.                    *)
(***************************************************************************)
EXTENDS WorkerClient, CollectionFacts, SequenceTheorems, TLAPS

LineType ==
  [op : {"stats", "reset", "cancel", "compact", "generate", "shutdown"},
   id : Ids \cup {AnyId}, prompt : Seq(Token), messages : BOOLEAN, max : Nat,
   metrics : BOOLEAN]

EventType ==
  [event : {"token", "metrics", "done", "error", "stats", "reset", "compacted",
            "cancel_requested", "shutdown"},
   token : Token \cup {0}]

ThreadType ==
  [at : {"none", "prefill", "sample", "check", "feed", "join", "settle", "finish",
         "publish", "exited"},
   id : Ids \cup {AnyId}, conversation : Seq(Token), prompt : Seq(Token),
   prompt_count : Nat, track_prefix : BOOLEAN, max : Nat, tokens : Seq(Token),
   pending : Seq(Token), stopped : BOOLEAN, metrics : {"off", "on", "idle", "failed"},
   ok : BOOLEAN]

ClientType ==
  [at : {"idle", "waiting", "generating", "draining", "closing", "terminating", "closed"},
   id : Ids \cup {AnyId}, tokens : Seq(Token \cup {0}), calls : Nat, interrupts : Nat]

TypeOK ==
  /\ input \in Seq(LineType) /\ closed \in BOOLEAN /\ output \in Seq(EventType)
  /\ loop.at \in {"read", "reap", "handle", "cancel", "cancelled", "shutdown", "eof", "done"}
  /\ loop = [at |-> loop.at, request |-> loop.request]
  /\ loop.at \in {"reap", "handle", "cancel", "cancelled", "shutdown"} => loop.request \in LineType
  /\ generation_running \in BOOLEAN /\ cancel_requested \in BOOLEAN
  /\ active_request_id \in Ids \cup {AnyId}
  /\ rows \in Seq(Token) /\ committed_tokens \in Seq(Token)
  /\ thread \in ThreadType
  /\ client \in ClientType

\* A cancel that was checked still names the generation it was checked
\* against when it is stored.
CancelAimed ==
  /\ loop.at = "cancel" => loop.request.id \in {AnyId, active_request_id}
  /\ thread.at # "none" => thread.id = active_request_id
  /\ thread.at # "none" /\ cancel_requested => cancelled_id \in {AnyId, thread.id}
  /\ thread.at = "none" => ~thread.stopped

Unsettled == thread.at \in {"prefill", "sample", "check", "feed", "join", "settle"}
Generating == Unsettled \/ thread.at = "finish"
AllButLast == SubSeq(thread.tokens, 1, Len(thread.tokens) - 1)

\* What the Session holds and what the worker takes it to hold, at each
\* place of a generation and between two.
PrefixKept ==
  /\ Generating => generation_running
  /\ ~Unsettled /\ loop.at # "done" => committed_tokens \in {<<>>, rows}
  /\ Unsettled =>
       /\ committed_tokens = IF thread.track_prefix THEN thread.conversation ELSE <<>>
       /\ thread.prompt_count = Len(thread.conversation)
  /\ thread.at = "prefill" =>
       thread.tokens = <<>> /\ thread.conversation = rows \o thread.prompt
  /\ thread.at = "sample" => rows = thread.conversation \o thread.tokens
  /\ thread.at \in {"check", "feed"} \/ (thread.at \in {"join", "settle"} /\ thread.ok) =>
       thread.tokens # <<>> /\ rows = thread.conversation \o AllButLast

IInv == TypeOK /\ CancelAimed /\ PrefixKept /\ CancelHitsItsTarget

\* Where client and worker are in a call that nobody interrupts: the request
\* is on its way, or it was taken and its answer, the last event of it at the
\* latest, is on its way back.
AtRest ==
  ~generation_running /\ thread.at \in {"none", "exited"} /\ thread.metrics # "on"
Taken == input = <<>> /\ loop.at = "read"
Asked(ops) ==
  \/ Len(input) = 1 /\ Head(input).op \in ops /\ loop.at = "read"
  \/ input = <<>> /\ loop.at \in {"reap", "handle"} /\ loop.request.op \in ops
Ends(e) == e.event \in {"done", "error"}
NoneEnds(events) == \A i \in 1..Len(events) : ~Ends(events[i])
LastEnds(events) ==
  /\ events # <<>> /\ Ends(events[Len(events)])
  /\ \A i \in 1..Len(events) - 1 : ~Ends(events[i])
Conserved == client.tokens \o TokensIn(output) \o thread.pending = thread.tokens

Answering ==
  \/ Asked({"generate"}) /\ AtRest /\ output = <<>> /\ client.tokens = <<>>
  \/ Taken /\ thread.at \notin {"none", "exited"} /\ NoneEnds(output) /\ Conserved
  \/ Taken /\ AtRest /\ LastEnds(output) /\ (thread.at # "none" => Conserved)

\* A generation that is over says nothing more, and only an interrupted
\* client drains one.
Silent ==
  /\ thread.at \in {"none", "settle", "finish", "publish", "exited"} => thread.metrics # "on"
  /\ thread.at \in {"none", "publish", "exited"} /\ loop.at # "done" => ~generation_running
  /\ client.at = "draining" => Interrupted

PhaseOK ==
  ~Interrupted /\ client.at \in {"idle", "waiting", "generating"} =>
    /\ ~closed
    /\ client.at = "idle" => AtRest /\ Taken /\ output = <<>>
    /\ client.at = "waiting" =>
         /\ AtRest
         /\ \/ Asked({"stats", "reset", "compact", "cancel"}) /\ output = <<>>
            \/ Taken /\ Len(output) = 1
    /\ client.at = "generating" => Answering

-----------------------------------------------------------------------------
(* Types.                                                                   *)

LEMMA EventsTyped ==
  /\ \A s \in Seq(Token) : TokenEvents(s) \in Seq(EventType)
  /\ \A name \in {"metrics", "done", "error", "stats", "reset", "compacted",
                   "cancel_requested", "shutdown"} : <<Event(name)>> \in Seq(EventType)
  /\ <<>> \in Seq(EventType)
<1>1. ASSUME NEW s \in Seq(Token)
      PROVE  TokenEvents(s) \in Seq(EventType)
  <2>1. Len(s) \in Nat /\ DOMAIN s = 1..Len(s) /\ \A i \in 1..Len(s) : s[i] \in Token
    BY LenProperties, ElementOfSeq
  <2>2. \A i \in 1..Len(s) : TokenEvent(s[i]) \in EventType
    BY <2>1 DEF TokenEvent, EventType
  <2>3. [i \in 1..Len(s) |-> TokenEvent(s[i])] \in Seq(EventType)
    BY <2>1, <2>2
  <2> QED
    BY <2>1, <2>3 DEF TokenEvents
<1>2. ASSUME NEW name \in {"metrics", "done", "error", "stats", "reset", "compacted",
                          "cancel_requested", "shutdown"}
      PROVE  <<Event(name)>> \in Seq(EventType)
  BY DEF Event, EventType
<1> QED
  BY <1>1, <1>2

LEMMA SaysTyped ==
  ASSUME output \in Seq(EventType), NEW events \in Seq(EventType), Says(events)
  PROVE  output' \in Seq(EventType)
BY ConcatProperties, EmptySeq DEF Says

LEMMA LoopKeepsType ==
  ASSUME TypeOK, LoopSteps, UNCHANGED client
  PROVE  TypeOK'
<1> USE DEF TypeOK
<1>0. NoThread \in ThreadType /\ TypeOK
  BY EmptySeq DEF NoThread, ThreadType
<1>1. CASE ReadLine
  <2>1. Head(input) \in LineType /\ Tail(input) \in Seq(LineType)
    BY <1>1, HeadTailProperties DEF ReadLine
  <2> QED
    BY <1>1, <2>1 DEF ReadLine
<1>2. CASE Reap
  BY <1>0, <1>2 DEF Reap
<1>3. CASE RefuseWhileRunning
  BY <1>3, EventsTyped, SaysTyped DEF RefuseWhileRunning, Refuse, NextLine
<1>4. CASE Stats
  BY <1>4, EventsTyped, SaysTyped DEF Stats, NextLine
<1>5. CASE Reset
  BY <1>5, EventsTyped, SaysTyped, EmptySeq DEF Reset, NextLine
<1>6. CASE Compact
  <2>1. Request.prompt \in Seq(Token)
    BY <1>6 DEF Compact, Handling, Request, LineType
  <2>2. rows' \in Seq(Token) /\ committed_tokens' \in Seq(Token)
    BY <1>6, <2>1, EmptySeq DEF Compact
  <2>3. output' \in Seq(EventType)
    BY <1>6, EventsTyped, SaysTyped DEF Compact
  <2> QED
    BY <1>6, <2>2, <2>3 DEF Compact, NextLine
<1>7. CASE Generate
  <2>1. Request \in LineType
    BY <1>7 DEF Generate, Handling, Request
  <2>2. CASE Overflows
    BY <1>0, <1>7, <2>2, EventsTyped, SaysTyped DEF Generate, NextLine
  <2>3. CASE ~Overflows
    <3>1. /\ Request.prompt \in Seq(Token) /\ Request.id \in Ids \cup {AnyId}
          /\ Request.max \in Nat /\ Request.messages \in BOOLEAN
      BY <2>1 DEF LineType
    <3>2. rows' \in Seq(Token) /\ committed_tokens' \in Seq(Token)
      BY <1>7, <2>3, <3>1, EmptySeq DEF Generate, Prepared
    <3>3. PromptCount \in Nat
      BY <3>1, LenProperties DEF PromptCount
    <3>4. rows \o Request.prompt \in Seq(Token)
      BY <3>1, ConcatProperties
    <3>5. PrefixReused => SubSeq(Request.prompt, Len(rows) + 1, Len(Request.prompt)) \in Seq(Token)
      BY <3>1, LenProperties, ElementOfSeq, SubSeqProperties
    <3>6. thread' \in ThreadType
      <4> DEFINE conversation == IF Request.messages THEN Request.prompt
                                 ELSE rows \o Request.prompt
                 prompt == IF Request.messages /\ PrefixReused
                           THEN SubSeq(Request.prompt, Len(rows) + 1, Len(Request.prompt))
                           ELSE Request.prompt
                 count == PromptCount
                 metrics == IF Request.metrics THEN "on" ELSE "off"
      <4>1. /\ conversation \in Seq(Token) /\ prompt \in Seq(Token) /\ count \in Nat
            /\ metrics \in {"on", "off"}
        BY <3>1, <3>3, <3>4, <3>5
      <4>2. thread' = [NoThread EXCEPT
               !.at = "prefill", !.id = Request.id, !.max = Request.max,
               !.conversation = conversation, !.prompt = prompt, !.prompt_count = count,
               !.track_prefix = Request.messages, !.metrics = metrics]
        BY <1>7, <2>3 DEF Generate
      <4> HIDE DEF conversation, prompt, count, metrics
      <4> QED
        BY <3>1, <4>1, <4>2, EmptySeq DEF NoThread, ThreadType
    <3> QED
      BY <1>7, <2>3, <3>1, <3>2, <3>6 DEF Generate, NextLine, CancelAtStart
  <2> QED
    BY <2>2, <2>3
<1>8. CASE GenerateCannotStart
  <2>1. rows' \in Seq(Token) /\ committed_tokens' \in Seq(Token)
    BY <1>8, EmptySeq DEF GenerateCannotStart
  <2>2. output' \in Seq(EventType)
    BY <1>8, EventsTyped, SaysTyped DEF GenerateCannotStart, StartFailsEvents
  <2> QED
    BY <1>0, <1>8, <2>1, <2>2 DEF GenerateCannotStart, NextLine, CancelAtStart
<1>9. CASE RefuseCancel
  BY <1>9, EventsTyped, SaysTyped DEF RefuseCancel, Refuse, NextLine
<1>10. CASE CheckCancel
  BY <1>10 DEF CheckCancel, Handling
<1>11. CASE StoreCancel
  BY <1>11 DEF StoreCancel
<1>12. CASE AnswerCancel
  BY <1>12, EventsTyped, SaysTyped DEF AnswerCancel, NextLine
<1>13. CASE Shutdown
  BY <1>13 DEF Shutdown, Handling
<1>14. CASE Exit
  <2>1. output' \in Seq(EventType)
    BY <1>14, EventsTyped, SaysTyped DEF Exit
  <2> QED
    BY <1>0, <1>14, <2>1 DEF Exit
<1> QED
  BY <1>1, <1>2, <1>3, <1>4, <1>5, <1>6, <1>7, <1>8, <1>9, <1>10, <1>11, <1>12, <1>13, <1>14
     DEF LoopSteps

LEMMA ThreadKeepsType ==
  ASSUME TypeOK, PrefixKept, ThreadSteps \/ EmitMetrics, UNCHANGED client
  PROVE  TypeOK'
<1> USE DEF TypeOK
<1>0. TypeOK /\ thread \in ThreadType
  OBVIOUS
<1>1. CASE ExecutePrompt
  BY <1>1, ConcatProperties DEF ExecutePrompt, loopVars, ThreadType
<1>2. CASE EmitToken
  <2>1. PICK t \in Token, complete \in BOOLEAN :
          LET waiting == Append(thread.pending, t)
          IN  /\ Says(IF complete THEN TokenEvents(waiting) ELSE <<>>)
              /\ thread' = [thread EXCEPT !.at = "check", !.tokens = Append(@, t),
                                          !.pending = IF complete THEN <<>> ELSE waiting]
    BY <1>2 DEF EmitToken
  <2>2. Append(thread.pending, t) \in Seq(Token) /\ Append(thread.tokens, t) \in Seq(Token)
    BY AppendProperties DEF ThreadType
  <2>3. output' \in Seq(EventType)
    BY <2>1, <2>2, EventsTyped, SaysTyped
  <2>4. thread' \in ThreadType
    BY <2>1, <2>2, EmptySeq DEF ThreadType
  <2> QED
    BY <1>2, <2>3, <2>4 DEF EmitToken, loopVars
<1>3. CASE EndToken
  BY <1>3, ZenonT(60) DEF EndToken, loopVars, ThreadType
<1>4. CASE FeedToken
  <2>1. thread.tokens \in Seq(Token) /\ thread.tokens # <<>>
    BY <1>4 DEF FeedToken, PrefixKept, ThreadType
  <2>2. Last(thread.tokens) \in Token
    BY <2>1, EmptySeq, ElementOfSeq DEF Last
  <2>3. rows' \in Seq(Token)
    BY <1>4, <2>2, AppendProperties DEF FeedToken
  <2>4. thread' \in ThreadType
    BY <1>4 DEF FeedToken, ThreadType
  <2> QED
    BY <1>4, <2>3, <2>4 DEF FeedToken, loopVars
<1>5. CASE GenerationFails
  BY <1>5 DEF GenerationFails, loopVars, ThreadType
<1>6. CASE JoinMetrics
  BY <1>6, ZenonT(60) DEF JoinMetrics, MetricsJoined, loopVars, ThreadType
<1>7. CASE FlushThrows
  BY <1>7 DEF FlushThrows, loopVars, ThreadType
<1>8. CASE SettleSession
  <2>1. thread' \in ThreadType
    BY <1>8, EmptySeq DEF SettleSession, ThreadType
  <2>2. output' \in Seq(EventType)
    BY <1>8, EventsTyped, SaysTyped DEF SettleSession, ThreadType
  <2>3. Tracks => Fed \in Seq(Token)
    <3>1. /\ thread.tokens \in Seq(Token) /\ Len(thread.tokens) \in Nat
          /\ Len(rows) \in Nat /\ thread.prompt_count \in Nat
      BY LenProperties DEF ThreadType
    <3> SUFFICES ASSUME Tracks PROVE Fed \in Seq(Token)
      OBVIOUS
    <3> DEFINE fed == Len(rows) - thread.prompt_count
    <3>2. fed \in 0..Len(thread.tokens) /\ fed \in Int
      BY <3>1 DEF Tracks
    <3> HIDE DEF fed
    <3>3. \A i \in 1..fed : thread.tokens[i] \in Token
      BY <3>1, <3>2, ElementOfSeq
    <3>4. SubSeq(thread.tokens, 1, fed) \in Seq(Token)
      BY <3>2, <3>3, SubSeqProperties
    <3> QED
      BY <3>4 DEF Fed, fed
  <2>4. rows' \in Seq(Token) /\ committed_tokens' \in Seq(Token)
    BY <1>8, <2>3, ConcatProperties, EmptySeq, ZenonT(60) DEF SettleSession
  <2> QED
    BY <1>8, <2>1, <2>2, <2>4 DEF SettleSession, loopVars
<1>9. CASE Finish
  BY <1>9 DEF Finish, loopVars, ThreadType
<1>10. CASE Publish
  BY <1>10, EventsTyped, SaysTyped DEF Publish, loopVars, ThreadType
<1>11. CASE EmitMetrics
  <2>1. output' \in Seq(EventType)
    BY <1>11, EventsTyped, SaysTyped DEF EmitMetrics
  <2>2. thread' \in ThreadType
    BY <1>11, ZenonT(60) DEF EmitMetrics, ThreadType
  <2> QED
    BY <1>11, <2>1, <2>2 DEF EmitMetrics, loopVars
<1> QED
  BY <1>1, <1>2, <1>3, <1>4, <1>5, <1>6, <1>7, <1>8, <1>9, <1>10, <1>11 DEF ThreadSteps

LEMMA LineTyped ==
  /\ Line \in LineType
  /\ \A op \in {"stats", "reset", "shutdown"} : [Line EXCEPT !.op = op] \in LineType
  /\ \A id \in Ids \cup {AnyId} : [Line EXCEPT !.op = "cancel", !.id = id] \in LineType
  /\ \A prompt \in Conversations, messages \in BOOLEAN :
       [Line EXCEPT !.op = "compact", !.prompt = prompt, !.messages = messages] \in LineType
<1> USE WorkerAssumption, EmptySeq DEF LineType
<1>1. Line \in LineType
  BY DEF Line
<1> QED
  BY <1>1 DEF Line

LEMMA SendTyped ==
  ASSUME input \in Seq(LineType), NEW line \in LineType, Send(line)
  PROVE  input' \in Seq(LineType)
BY AppendProperties DEF Send

LEMMA ClientKeepsType ==
  ASSUME TypeOK, Reading \/ User
  PROVE  TypeOK'
<1> USE DEF TypeOK
<1>0. /\ client \in ClientType /\ NoThread \in ThreadType /\ Gone \in ClientType
      /\ <<>> \in Seq(EventType)
  BY EmptySeq DEF NoThread, ThreadType, Gone, ClientType
<1>w. /\ [client EXCEPT !.at = "waiting", !.calls = @ + 1] \in ClientType
      /\ [client EXCEPT !.at = "draining", !.interrupts = @ + 1] \in ClientType
      /\ [client EXCEPT !.at = "idle", !.interrupts = @ + 1] \in ClientType
  <2> client \in ClientType
    OBVIOUS
  <2> HIDE DEF TypeOK
  <2>1. client.calls + 1 \in Nat /\ client.interrupts + 1 \in Nat
    BY DEF ClientType
  <2> QED
    BY <2>1 DEF ClientType
<1>1. CASE Call
  <2>1. input' \in Seq(LineType)
    <3>1. PICK line \in LineType : Send(line)
      BY <1>1, LineTyped DEF Call
    <3> QED
      BY <3>1, SendTyped
  <2> QED
    BY <1>1, <2>1, <1>w DEF Call, unread
<1>2. CASE GenerateCall
  <2>1. PICK id \in Ids, prompt \in Conversations, messages \in BOOLEAN, metrics \in BOOLEAN,
             max \in 1..MaximumNew :
          /\ Send([op |-> "generate", id |-> id, prompt |-> prompt, messages |-> messages,
                   max |-> max, metrics |-> metrics])
          /\ client' = [client EXCEPT !.at = "generating", !.id = id, !.tokens = <<>>,
                                      !.calls = @ + 1]
    BY <1>2 DEF GenerateCall
  <2>2. [op |-> "generate", id |-> id, prompt |-> prompt, messages |-> messages,
         max |-> max, metrics |-> metrics] \in LineType
    BY WorkerAssumption DEF LineType
  <2>3. input' \in Seq(LineType)
    BY <2>1, <2>2, SendTyped
  <2>4. client' \in ClientType
    <3> client \in ClientType
      OBVIOUS
    <3> HIDE DEF TypeOK
    <3>1. client.calls + 1 \in Nat /\ id \in Ids \cup {AnyId}
      BY DEF ClientType
    <3>2. [client EXCEPT !.at = "generating", !.id = id, !.tokens = <<>>, !.calls = @ + 1]
            \in ClientType
      BY <3>1, EmptySeq DEF ClientType
    <3> QED
      BY <2>1, <3>2
  <2> QED
    BY <1>2, <2>3, <2>4 DEF GenerateCall, unread
<1>3. CASE ReadAnswer
  <2>1. output' \in Seq(EventType)
    BY <1>3, HeadTailProperties DEF ReadAnswer, Reads
  <2> QED
    BY <1>3, <2>1 DEF ReadAnswer, Reads, unsent, ClientType
<1>4. CASE ReadGeneration
  <2>1. output' \in Seq(EventType) /\ Head(output) \in EventType
    BY <1>4, HeadTailProperties DEF ReadGeneration, Reads
  <2>2. Append(client.tokens, Head(output).token) \in Seq(Token \cup {0})
    BY <2>1, AppendProperties DEF ClientType, EventType
  <2>3. client' \in ClientType
    BY <1>4, <2>2 DEF ReadGeneration, ClientType
  <2> QED
    BY <1>4, <2>1, <2>3 DEF ReadGeneration, Reads, unsent
<1>5. CASE InterruptGeneration
  <2>1. client.id \in Ids \cup {AnyId}
    BY DEF ClientType
  <2>2. input' \in Seq(LineType)
    BY <1>5, <2>1, LineTyped, SendTyped DEF InterruptGeneration
  <2> QED
    BY <1>5, <1>w, <2>2 DEF InterruptGeneration, unread
<1>6. CASE InterruptCall
  BY <1>6, <1>w DEF InterruptCall, unread
<1>7. CASE Close
  <2>1. input' \in Seq(LineType)
    BY <1>7, LineTyped, SendTyped DEF Close
  <2> QED
    BY <1>7, <2>1 DEF Close, unread, ClientType
<1>8. CASE Vanish
  BY <1>0, <1>8 DEF Vanish
<1>9. CASE ReadClosing
  <2>1. output' \in Seq(EventType)
    BY <1>9, HeadTailProperties DEF ReadClosing, Reads
  <2> QED
    BY <1>9, <2>1 DEF ReadClosing, Reads, unsent, ClientType
<1>10. CASE Terminate
  BY <1>0, <1>10 DEF Terminate
<1> QED
  BY <1>1, <1>2, <1>3, <1>4, <1>5, <1>6, <1>7, <1>8, <1>9, <1>10 DEF Reading, User

-----------------------------------------------------------------------------
(* Cancellation.                                                            *)

LEMMA CancelStaysAimed ==
  ASSUME TypeOK, CancelAimed, CancelHitsItsTarget, Next
  PROVE  CancelAimed' /\ CancelHitsItsTarget'
<1> USE DEF TypeOK, ThreadType, CancelAimed, CancelHitsItsTarget
<1>1. CASE LoopSteps /\ UNCHANGED client
  <2> USE <1>1
  <2>1. CASE Reap \/ Exit
    BY <2>1 DEF Reap, Exit, NoThread
  <2>2. CASE Generate
    <3>1. CASE Overflows
      BY <2>2, <3>1 DEF Generate, NextLine, NoThread
    <3>2. CASE ~Overflows
      <4>1. /\ ~cancel_requested' /\ active_request_id' = Request.id /\ loop'.at = "read"
        BY <2>2, <3>2 DEF Generate, NextLine, CancelAtStart
      <4>2. thread'.at = "prefill" /\ thread'.id = Request.id /\ ~thread'.stopped
        BY <2>2, <3>2 DEF Generate, NoThread
      <4> QED
        BY <4>1, <4>2
    <3> QED
      BY <3>1, <3>2
  <2>3. CASE GenerateCannotStart
    BY <2>3 DEF GenerateCannotStart, NextLine, NoThread, CancelAtStart
  <2>4. CASE CheckCancel
    BY <2>4 DEF CheckCancel, Cancels, Request
  <2>5. CASE StoreCancel
    BY <2>5 DEF StoreCancel, Request
  <2>6. CASE Shutdown
    BY <2>6 DEF Shutdown
  <2>7. CASE ReadLine
    BY <2>7 DEF ReadLine
  <2>8. CASE RefuseWhileRunning \/ Stats \/ Reset \/ Compact \/ RefuseCancel \/ AnswerCancel
    BY <2>8 DEF RefuseWhileRunning, Stats, Reset, Compact, RefuseCancel, Refuse, AnswerCancel,
               NextLine
  <2> QED
    BY <2>1, <2>2, <2>3, <2>4, <2>5, <2>6, <2>7, <2>8 DEF LoopSteps
<1>2. CASE (ThreadSteps \/ EmitMetrics) /\ UNCHANGED client
  <2> USE <1>2 DEF loopVars
  <2>0. ASSUME thread'.id = thread.id, thread.at # "none", thread'.at # "none",
               thread'.stopped = thread.stopped, UNCHANGED loopVars
        PROVE  CancelAimed' /\ CancelHitsItsTarget'
    BY <2>0
  <2>1. CASE EmitToken
    BY <2>1 DEF EmitToken
  <2>2. CASE EndToken
    BY <2>2 DEF EndToken
  <2>3. CASE EmitMetrics
    BY <2>3 DEF EmitMetrics
  <2>4. CASE ExecutePrompt \/ FeedToken \/ GenerationFails \/ JoinMetrics
    BY <2>0, <2>4 DEF ExecutePrompt, FeedToken, GenerationFails, JoinMetrics
  <2>5. CASE FlushThrows \/ SettleSession \/ Finish \/ Publish
    <3>1. thread'.id = thread.id /\ thread'.stopped = thread.stopped /\ thread'.at # "none"
      <4>1. CASE FlushThrows
        BY <4>1 DEF FlushThrows
      <4>2. CASE SettleSession
        BY <4>2 DEF SettleSession
      <4>3. CASE Finish \/ Publish
        BY <4>3 DEF Finish, Publish
      <4> QED
        BY <2>5, <4>1, <4>2, <4>3
    <3>2. thread.at # "none" /\ UNCHANGED loopVars
      BY <2>5 DEF FlushThrows, SettleSession, Finish, Publish
    <3> QED
      BY <2>0, <3>1, <3>2
  <2> QED
    BY <2>1, <2>2, <2>3, <2>4, <2>5 DEF ThreadSteps
<1>3. CASE Terminate
  BY <1>3 DEF Terminate, NoThread
<1>4. CASE ReadAnswer \/ ReadGeneration \/ ReadClosing
  BY <1>4 DEF ReadAnswer, ReadGeneration, ReadClosing, Reads, unsent
<1>5. CASE User
  <2>1. UNCHANGED <<loop, cancel_requested, active_request_id, cancelled_id, thread>>
    BY <1>5 DEF User, Call, GenerateCall, InterruptGeneration, InterruptCall, Close, Vanish,
               unread
  <2> QED
    BY <2>1
<1> QED
  BY <1>1, <1>2, <1>3, <1>4, <1>5 DEF Next, Worker, Reading

-----------------------------------------------------------------------------
(* The conversation.                                                        *)

LEMMA LastAdded ==
  ASSUME NEW S, NEW s \in Seq(S), NEW x \in S
  PROVE  SubSeq(Append(s, x), 1, Len(Append(s, x)) - 1) = s
<1> DEFINE more == Append(s, x)
<1>1. /\ more \in Seq(S) /\ Len(more) = Len(s) + 1 /\ Len(s) \in Nat
      /\ \A i \in 1..Len(s) : more[i] = s[i] /\ s[i] \in S
  BY AppendProperties, LenProperties, ElementOfSeq
<1> HIDE DEF more
<1>2. /\ SubSeq(more, 1, Len(s)) \in Seq(S) /\ Len(SubSeq(more, 1, Len(s))) = Len(s)
      /\ \A i \in 1..Len(s) : SubSeq(more, 1, Len(s))[i] = more[i]
  <2>1. \A i \in 1..Len(s) : more[i] \in S
    BY <1>1
  <2>2. 1 \in Int /\ Len(s) \in Int /\ Len(s) - 1 + 1 = Len(s)
    BY <1>1
  <2> QED
    BY <1>1, <2>1, <2>2, SubSeqProperties, SMT
<1>3. SubSeq(more, 1, Len(s)) = s
  BY <1>1, <1>2, SeqEqual
<1>4. Len(more) - 1 = Len(s)
  BY <1>1
<1> QED
  BY <1>3, <1>4 DEF more

LEMMA LastReturned ==
  ASSUME NEW S, NEW base \in Seq(S), NEW s \in Seq(S), s # <<>>
  PROVE  Append(base \o SubSeq(s, 1, Len(s) - 1), Last(s)) = base \o s
<1>1. PICK front \in Seq(S), x \in S : s = Append(front, x)
  BY SequenceEmptyOrAppend
<1>2. SubSeq(s, 1, Len(s) - 1) = front
  BY <1>1, LastAdded
<1>3. Last(s) = x
  BY <1>1, AppendProperties DEF Last
<1>4. base \o front \in Seq(S) /\ <<x>> \in Seq(S)
  BY ConcatProperties
<1>5. Append(base \o front, x) = (base \o front) \o <<x>>
  BY <1>4, AppendIsConcat
<1>6. (base \o front) \o <<x>> = base \o (front \o <<x>>)
  BY <1>4, ConcatAssociative, SMTT(60)
<1>7. s = front \o <<x>>
  BY <1>1, AppendIsConcat
<1> QED
  BY <1>2, <1>3, <1>5, <1>6, <1>7

LEMMA PrefixCompleted ==
  ASSUME NEW S, NEW s \in Seq(S), NEW t \in Seq(S), IsPrefix(s, t)
  PROVE  s \o SubSeq(t, Len(s) + 1, Len(t)) = t
<1>1. Len(s) <= Len(t) /\ SubSeq(s, 1, Len(s)) = SubSeq(t, 1, Len(s))
  BY DEF IsPrefix
<1>2. Len(s) \in Nat /\ Len(t) \in Nat
  BY LenProperties
<1>3. SubSeq(s, 1, Len(s)) = s /\ SubSeq(t, 1, Len(t)) = t
  BY SubSeqFull
<1>4. 1 \in 1..Len(t) + 1 /\ Len(s) \in (1 - 1)..Len(t) /\ Len(t) \in Len(s)..Len(t)
  BY <1>1, <1>2
<1>5. SubSeq(t, 1, Len(s)) \o SubSeq(t, Len(s) + 1, Len(t)) = SubSeq(t, 1, Len(t))
  BY <1>4, ConcatAdjacentSubSeq
<1> QED
  BY <1>1, <1>3, <1>5

\* A generation starts from what the worker knows of the Session: a reused
\* prefix is the Session's, and the prompt is the rest of the conversation.
LEMMA GenerateStartsExact ==
  ASSUME TypeOK, PrefixKept, Generate, ~Overflows
  PROVE  PrefixKept'
<1>1. /\ Request \in LineType /\ Request.prompt \in Seq(Token) /\ Request.messages \in BOOLEAN
      /\ rows \in Seq(Token) /\ committed_tokens \in Seq(Token)
  BY DEF TypeOK, Generate, Handling, Request, LineType
<1>2. committed_tokens \in {<<>>, rows}
  BY DEF PrefixKept, Generate, Handling, Joined, Unsettled
<1>3. /\ generation_running' /\ thread'.at = "prefill" /\ thread'.tokens = <<>>
      /\ thread'.track_prefix = Request.messages
      /\ thread'.conversation = IF Request.messages THEN Request.prompt
                                ELSE rows \o Request.prompt
      /\ thread'.prompt = IF Request.messages /\ PrefixReused
                          THEN SubSeq(Request.prompt, Len(rows) + 1, Len(Request.prompt))
                          ELSE Request.prompt
      /\ thread'.prompt_count = PromptCount
  BY ZenonT(60) DEF Generate, NoThread
<1>4. Prepared
  BY DEF Generate
<1>5. /\ committed_tokens' = IF thread'.track_prefix THEN thread'.conversation ELSE <<>>
      /\ thread'.prompt_count = Len(thread'.conversation)
  BY <1>1, <1>3, <1>4, ConcatProperties DEF Prepared, PromptCount
<1>6. thread'.conversation = rows' \o thread'.prompt
  <2>1. CASE ~Request.messages
    BY <1>3, <1>4, <2>1 DEF Prepared
  <2>2. CASE Request.messages /\ ~PrefixReused
    BY <1>1, <1>3, <1>4, <2>2, ConcatEmptySeq DEF Prepared
  <2>3. CASE Request.messages /\ PrefixReused
    <3>1. IsPrefix(rows, Request.prompt)
      BY <1>2, <2>3 DEF PrefixReused
    <3>2. rows \o SubSeq(Request.prompt, Len(rows) + 1, Len(Request.prompt)) = Request.prompt
      BY <1>1, <3>1, PrefixCompleted
    <3>3. rows' = rows
      BY <1>4, <2>3 DEF Prepared
    <3> QED
      BY <1>3, <2>3, <3>2, <3>3
  <2> QED
    BY <1>1, <2>1, <2>2, <2>3
<1> QED
  BY <1>3, <1>5, <1>6 DEF PrefixKept, Unsettled, Generating

LEMMA LoopKeepsPrefix ==
  ASSUME TypeOK, PrefixKept, LoopSteps
  PROVE  PrefixKept'
<1> USE DEF PrefixKept, Unsettled, Generating, AllButLast
<1>0. loop.at # "done"
  BY DEF LoopSteps, ReadLine, Reap, RefuseWhileRunning, Stats, Reset, Compact, Generate,
         GenerateCannotStart, RefuseCancel, CheckCancel, StoreCancel, AnswerCancel, Shutdown,
         Exit, Handling
<1>1. CASE Reap \/ Exit
  <2>1. /\ thread.at \in {"none", "exited"} /\ thread'.at = "none"
        /\ UNCHANGED <<generation_running, rows, committed_tokens>>
    BY <1>1 DEF Reap, Exit, Joined, NoThread
  <2> QED
    BY <1>0, <2>1
<1>2. CASE Reset
  BY <1>2 DEF Reset
<1>3. CASE Compact
  BY <1>0, <1>3 DEF Compact
<1>4. CASE Generate
  <2>1. CASE Overflows
    BY <1>0, <1>4, <2>1 DEF Generate, Joined, NoThread
  <2> QED
    BY <1>4, <2>1, GenerateStartsExact
<1>5. CASE GenerateCannotStart
  BY <1>5 DEF GenerateCannotStart, NoThread
<1>6. CASE ReadLine \/ RefuseWhileRunning \/ Stats \/ RefuseCancel \/ CheckCancel
           \/ StoreCancel \/ AnswerCancel \/ Shutdown
  <2>1. UNCHANGED <<generation_running, rows, committed_tokens, thread>>
    BY <1>6 DEF ReadLine, RefuseWhileRunning, Stats, RefuseCancel, Refuse, CheckCancel,
                StoreCancel, AnswerCancel, Shutdown
  <2> QED
    BY <1>0, <2>1
<1> QED
  BY <1>1, <1>2, <1>3, <1>4, <1>5, <1>6 DEF LoopSteps

LEMMA ThreadKeepsPrefix ==
  ASSUME TypeOK, PrefixKept, ThreadSteps \/ EmitMetrics
  PROVE  PrefixKept'
<1> DEFINE SameRequest ==
      /\ thread'.conversation = thread.conversation /\ thread'.prompt = thread.prompt
      /\ thread'.prompt_count = thread.prompt_count
      /\ thread'.track_prefix = thread.track_prefix
           Reaches(place) == thread'.at = place /\ SameRequest /\ UNCHANGED loop
           Unfed == thread'.tokens # <<>>
                    /\ rows' = thread'.conversation
                                 \o SubSeq(thread'.tokens, 1, Len(thread'.tokens) - 1)
<1>0. /\ rows \in Seq(Token) /\ committed_tokens \in Seq(Token)
      /\ thread.conversation \in Seq(Token) /\ thread.tokens \in Seq(Token)
      /\ thread.prompt \in Seq(Token) /\ thread.prompt_count \in Nat
      /\ thread.track_prefix \in BOOLEAN /\ thread.ok \in BOOLEAN
      /\ thread \in ThreadType
  BY DEF TypeOK, ThreadType
\* A step that stays before the settling keeps what was committed.
<1>a. ASSUME NEW place \in {"sample", "check", "feed", "join", "settle"}, Unsettled, Reaches(place),
             UNCHANGED <<generation_running, committed_tokens>>,
             place = "sample" => rows' = thread'.conversation \o thread'.tokens,
             place \in {"check", "feed"} \/ (place \in {"join", "settle"} /\ thread'.ok) => Unfed
      PROVE  PrefixKept'
  BY <1>a DEF PrefixKept, Unsettled, Generating, AllButLast
<1>1. CASE ExecutePrompt
  <2>1. /\ Reaches("sample") /\ rows' = rows \o thread.prompt /\ thread.at = "prefill"
        /\ thread'.tokens = thread.tokens /\ UNCHANGED <<generation_running, committed_tokens>>
    BY <1>0, <1>1 DEF ExecutePrompt, loopVars, ThreadType
  <2>2. rows' = thread'.conversation \o thread'.tokens
    <3>1. rows' = thread.conversation /\ thread'.tokens = <<>>
      BY <2>1 DEF PrefixKept
    <3> QED
      BY <1>0, <2>1, <3>1, ConcatEmptySeq
  <2> QED
    BY <1>a, <2>1, <2>2 DEF Unsettled
<1>2. CASE EmitToken
  <2>1. PICK t \in Token : /\ thread'.tokens = Append(thread.tokens, t)
                           /\ Reaches("check") /\ thread.at = "sample"
                           /\ UNCHANGED <<generation_running, committed_tokens, rows>>
    BY <1>0, <1>2 DEF EmitToken, loopVars, ThreadType
  <2>2. Unfed
    <3>1. thread'.tokens # <<>>
      BY <1>0, <2>1, AppendProperties
    <3>2. SubSeq(thread'.tokens, 1, Len(thread'.tokens) - 1) = thread.tokens
      BY <1>0, <2>1, LastAdded
    <3>3. rows' = thread'.conversation \o thread.tokens
      BY <2>1 DEF PrefixKept
    <3> QED
      BY <3>1, <3>2, <3>3
  <2> QED
    BY <1>a, <2>1, <2>2 DEF Unsettled
<1>3. CASE EndToken
  <2>1. PICK place \in {"join", "feed"} :
          /\ Reaches(place) /\ thread.at = "check" /\ thread'.tokens = thread.tokens
          /\ UNCHANGED <<generation_running, committed_tokens, rows>>
    BY <1>0, <1>3 DEF EndToken, loopVars, ThreadType
  <2>2. Unfed
    BY <2>1 DEF PrefixKept, AllButLast
  <2> QED
    BY <1>a, <2>1, <2>2 DEF Unsettled
<1>4. CASE FeedToken
  <2>1. /\ Reaches("sample") /\ thread.at = "feed" /\ thread'.tokens = thread.tokens
        /\ rows' = Append(rows, Last(thread.tokens))
        /\ UNCHANGED <<generation_running, committed_tokens>>
    BY <1>0, <1>4 DEF FeedToken, loopVars, ThreadType
  <2>2. rows' = thread'.conversation \o thread'.tokens
    BY <1>0, <2>1, LastReturned, ZenonT(60) DEF PrefixKept, AllButLast
  <2> QED
    BY <1>a, <2>1, <2>2 DEF Unsettled
<1>5. CASE GenerationFails
  <2>1. /\ Reaches("join") /\ Unsettled /\ ~thread'.ok
        /\ UNCHANGED <<generation_running, committed_tokens, rows>>
    BY <1>0, <1>5 DEF GenerationFails, loopVars, ThreadType, Unsettled
  <2> QED
    BY <1>a, <2>1
<1>6. CASE JoinMetrics
  <2>1. /\ Reaches("settle") /\ thread.at = "join" /\ thread'.tokens = thread.tokens
        /\ thread'.ok => thread.ok
        /\ UNCHANGED <<generation_running, committed_tokens, rows>>
    BY <1>0, <1>6 DEF JoinMetrics, loopVars, ThreadType
  <2>2. thread'.ok => Unfed
    BY <2>1 DEF PrefixKept, AllButLast
  <2> QED
    BY <1>a, <2>1, <2>2 DEF Unsettled
<1>7. CASE FlushThrows
  <2>1. /\ Reaches("settle") /\ Unsettled /\ ~thread'.ok
        /\ UNCHANGED <<generation_running, committed_tokens, rows>>
    BY <1>0, <1>7 DEF FlushThrows, loopVars, ThreadType, Unsettled
  <2> QED
    BY <1>a, <2>1
<1>8. CASE SettleSession
  <2>1. /\ thread'.at = "finish" /\ thread.at = "settle" /\ UNCHANGED generation_running
    BY <1>0, <1>8 DEF SettleSession, loopVars, ThreadType
  <2>2. committed_tokens' \in {<<>>, rows'}
    <3>1. CASE ~thread.ok \/ ~Tracks
      BY <1>8, <3>1 DEF SettleSession
    <3>2. CASE thread.ok /\ Tracks
      <4>1. /\ rows' = rows /\ committed_tokens' = thread.conversation \o Fed
        BY <1>8, <2>1, <3>2 DEF SettleSession, PrefixKept, Unsettled, Tracks
      <4>2. /\ thread.tokens # <<>> /\ rows = thread.conversation \o AllButLast
            /\ thread.prompt_count = Len(thread.conversation)
        BY <2>1, <3>2 DEF PrefixKept, Unsettled
      <4>3. Len(rows) - thread.prompt_count = Len(thread.tokens) - 1
        <5>1. PICK front \in Seq(Token), x \in Token : thread.tokens = Append(front, x)
          BY <1>0, <4>2, SequenceEmptyOrAppend
        <5>2. AllButLast = front /\ Len(thread.tokens) = Len(front) + 1
          BY <5>1, LastAdded, AppendProperties DEF AllButLast
        <5>3. Len(rows) = Len(thread.conversation) + Len(front)
          BY <1>0, <4>2, <5>2, ConcatProperties
        <5>4. Len(front) \in Nat /\ Len(thread.conversation) \in Nat
          BY <1>0, LenProperties
        <5> QED
          BY <4>2, <5>2, <5>3, <5>4
      <4> QED
        BY <4>1, <4>2, <4>3 DEF Fed, AllButLast
    <3> QED
      BY <3>1, <3>2
  <2> QED
    BY <2>1, <2>2 DEF PrefixKept, Unsettled, Generating
<1>9. CASE Finish
  <2>1. /\ thread'.at = "publish" /\ thread.at = "finish"
        /\ UNCHANGED <<rows, committed_tokens, loop>>
    BY <1>0, <1>9 DEF Finish, loopVars, ThreadType
  <2> QED
    BY <2>1 DEF PrefixKept, Unsettled, Generating
<1>10. CASE Publish
  <2>1. /\ thread'.at = "exited" /\ thread.at = "publish"
        /\ UNCHANGED <<rows, committed_tokens, loop>>
    BY <1>0, <1>10 DEF Publish, loopVars, ThreadType
  <2> QED
    BY <2>1 DEF PrefixKept, Unsettled, Generating
<1>11. CASE EmitMetrics
  <2>1. /\ Reaches(thread.at) /\ thread'.tokens = thread.tokens /\ thread'.ok = thread.ok
        /\ UNCHANGED <<generation_running, committed_tokens, rows>>
    BY <1>0, <1>11 DEF EmitMetrics, loopVars, ThreadType
  <2> QED
    BY <2>1 DEF PrefixKept, Unsettled, Generating, AllButLast
<1> QED
  BY <1>1, <1>2, <1>3, <1>4, <1>5, <1>6, <1>7, <1>8, <1>9, <1>10, <1>11 DEF ThreadSteps

LEMMA ClientKeepsPrefix ==
  ASSUME TypeOK, PrefixKept, Reading \/ User
  PROVE  PrefixKept'
<1>1. CASE Terminate
  BY <1>1 DEF Terminate, NoThread, PrefixKept, Unsettled, Generating
<1>2. CASE ReadAnswer \/ ReadGeneration \/ ReadClosing \/ User
  <2>1. UNCHANGED <<generation_running, rows, committed_tokens, thread, loop>>
    BY <1>2 DEF ReadAnswer, ReadGeneration, ReadClosing, Reads, unsent, User, Call, GenerateCall,
               InterruptGeneration, InterruptCall, Close, Vanish, unread
  <2> QED
    BY <2>1 DEF PrefixKept, Unsettled, Generating, AllButLast
<1> QED
  BY <1>1, <1>2 DEF Reading

-----------------------------------------------------------------------------
(* The tokens in the pipe.                                                  *)

\* The tokens among the first n events, with or without event number n.
Step(events, before, n) ==
  IF events[n].event = "token" THEN Append(before, events[n].token) ELSE before
Among(events, n, f) ==
  f \in [0..n -> Seq(Token \cup {0})] /\ f[0] = <<>>
  /\ \A i \in 1..n : f[i] = Step(events, f[i - 1], i)

LEMMA AmongExists ==
  ASSUME NEW events \in Seq(EventType)
  PROVE  \A n \in 0..Len(events) : \E f : Among(events, n, f)
<1> DEFINE G == {n \in 0..Len(events) : \E f : Among(events, n, f)}
<1>0. Len(events) \in Nat
  BY LenProperties
<1>1. 0 \in G
  <2> DEFINE f == [i \in 0..0 |-> <<>>]
  <2>1. Among(events, 0, f)
    BY EmptySeq DEF Among
  <2> QED
    BY <1>0, <2>1
<1>2. ASSUME NEW n \in 0..Len(events), n \in G, n < Len(events)
      PROVE  n + 1 \in G
  <2>1. PICK f : Among(events, n, f)
    BY <1>2
  <2> DEFINE last == Step(events, f[n], n + 1)
             g == [i \in 0..n + 1 |-> IF i = n + 1 THEN last ELSE f[i]]
  <2>2. f[n] \in Seq(Token \cup {0})
    BY <2>1 DEF Among
  <2>3. events[n + 1] \in EventType
    BY <1>0, <1>2, ElementOfSeq
  <2>4. last \in Seq(Token \cup {0})
    BY <2>2, <2>3, AppendProperties DEF Step, EventType
  <2> HIDE DEF last
  <2>5. g \in [0..n + 1 -> Seq(Token \cup {0})] /\ g[0] = <<>>
    BY <2>1, <2>4 DEF Among
  <2>6. ASSUME NEW i \in 1..n + 1
        PROVE  g[i] = Step(events, g[i - 1], i)
    <3>1. CASE i = n + 1
      <4>1. g[i] = last /\ g[i - 1] = f[n]
        BY <3>1
      <4> QED
        BY <3>1, <4>1 DEF last
    <3>2. CASE i # n + 1
      <4>1. g[i] = f[i] /\ g[i - 1] = f[i - 1] /\ i \in 1..n
        BY <3>2
      <4> QED
        BY <2>1, <4>1 DEF Among
    <3> QED
      BY <3>1, <3>2
  <2>7. Among(events, n + 1, g)
    BY <2>5, <2>6 DEF Among
  <2> HIDE DEF g
  <2>8. n + 1 \in 0..Len(events)
    BY <1>0, <1>2
  <2> QED
    BY <2>7, <2>8
<1> HIDE DEF G
<1>3. \A n \in 0..Len(events) : n \in G
  BY <1>0, <1>1, <1>2, UpTo
<1> QED
  BY <1>3 DEF G

LEMMA TokensInDef ==
  ASSUME NEW events \in Seq(EventType)
  PROVE  \E f : Among(events, Len(events), f) /\ TokensIn(events) = f[Len(events)]
<1> DEFINE L == Len(events)
           Def(f) == f = [n \in 0..L |->
                            IF n = 0 THEN <<>>
                            ELSE IF events[n].event = "token" THEN Append(f[n - 1], events[n].token)
                            ELSE f[n - 1]]
           among == CHOOSE f : Def(f)
<1>0. L \in Nat
  BY LenProperties
<1>1. PICK f : Among(events, L, f)
  BY <1>0, AmongExists
<1>2. Def(f)
  <2> DEFINE body(n) == IF n = 0 THEN <<>>
                        ELSE IF events[n].event = "token" THEN Append(f[n - 1], events[n].token)
                        ELSE f[n - 1]
  <2>1. f = [n \in 0..L |-> f[n]]
    BY <1>1 DEF Among
  <2>2. ASSUME NEW n \in 0..L
        PROVE  f[n] = body(n)
    <3>1. CASE n = 0
      BY <1>1, <3>1 DEF Among
    <3>2. CASE n # 0
      <4>1. n \in 1..L
        BY <1>0, <3>2
      <4> QED
        BY <1>1, <3>2, <4>1 DEF Among, Step
    <3> QED
      BY <3>1, <3>2
  <2> HIDE DEF body
  <2>3. f = [n \in 0..L |-> body(n)]
    BY <2>1, <2>2
  <2> QED
    BY <2>3 DEF body
<1>3. Def(among)
  BY <1>2
<1>4. TokensIn(events) = among[L]
  BY DEF TokensIn
<1> HIDE DEF among
<1>5. \A n \in 0..L : n \in {k \in 0..L : among[k] = f[k]}
  <2> DEFINE G == {k \in 0..L : among[k] = f[k]}
  <2>1. 0 \in G
    BY <1>0, <1>1, <1>3 DEF Among
  <2>2. ASSUME NEW n \in 0..L, n \in G, n < L
        PROVE  n + 1 \in G
    <3>1. n + 1 \in 0..L /\ n + 1 # 0 /\ (n + 1) - 1 = n /\ n + 1 \in 1..L
      BY <1>0, <2>2
    <3>2. among[n + 1] = Step(events, among[n], n + 1)
      BY <1>3, <3>1 DEF Step
    <3>3. f[n + 1] = Step(events, f[n], n + 1)
      BY <1>1, <3>1 DEF Among
    <3> QED
      BY <2>2, <3>1, <3>2, <3>3
  <2> HIDE DEF G
  <2> QED
    BY <1>0, <2>1, <2>2, UpTo DEF G
<1> QED
  BY <1>0, <1>1, <1>4, <1>5

\* Two walks over events that agree on the first n agree there.
LEMMA AmongSame ==
  ASSUME NEW s \in Seq(EventType), NEW t \in Seq(EventType), NEW n \in 0..Len(s),
         n <= Len(t), \A i \in 1..n : s[i] = t[i],
         NEW f, NEW g, Among(s, Len(s), f), Among(t, Len(t), g)
  PROVE  f[n] = g[n]
<1> DEFINE G == {k \in 0..n : f[k] = g[k]}
<1>0. Len(s) \in Nat /\ Len(t) \in Nat /\ n \in Nat
  BY LenProperties
<1>1. 0 \in G
  BY <1>0 DEF Among
<1>2. ASSUME NEW k \in 0..n, k \in G, k < n
      PROVE  k + 1 \in G
  <2>1. k + 1 \in 1..Len(s) /\ k + 1 \in 1..Len(t) /\ k + 1 \in 1..n /\ (k + 1) - 1 = k
    BY <1>0, <1>2
  <2>2. f[k + 1] = Step(s, f[k], k + 1) /\ g[k + 1] = Step(t, g[k], k + 1)
    BY <2>1 DEF Among
  <2>3. f[k + 1] = g[k + 1]
    BY <1>2, <2>1, <2>2 DEF Step
  <2> QED
    BY <1>0, <2>1, <2>3
<1> HIDE DEF G
<1>3. \A k \in 0..n : k \in G
  BY <1>0, <1>1, <1>2, UpTo
<1> QED
  BY <1>0, <1>3 DEF G

LEMMA TokensInAppend ==
  ASSUME NEW s \in Seq(EventType), NEW e \in EventType
  PROVE  TokensIn(Append(s, e)) =
           IF e.event = "token" THEN Append(TokensIn(s), e.token) ELSE TokensIn(s)
<1> DEFINE t == Append(s, e)
           L == Len(s)
<1>1. /\ t \in Seq(EventType) /\ Len(t) = L + 1 /\ L \in Nat
      /\ \A i \in 1..L : t[i] = s[i]
      /\ t[L + 1] = e
  BY AppendProperties, LenProperties
<1> HIDE DEF t
<1>2. PICK f : Among(s, L, f) /\ TokensIn(s) = f[L]
  BY TokensInDef
<1>3. PICK g : Among(t, Len(t), g) /\ TokensIn(t) = g[Len(t)]
  BY <1>1, TokensInDef
<1>4. f[L] = g[L]
  <2>1. L \in 0..Len(s) /\ L <= Len(t) /\ \A i \in 1..L : s[i] = t[i]
    BY <1>1
  <2> QED
    BY <1>1, <1>2, <1>3, <2>1, AmongSame
<1>5. g[L + 1] = Step(t, g[L], L + 1)
  <2>1. L + 1 \in 1..Len(t) /\ (L + 1) - 1 = L
    BY <1>1
  <2> QED
    BY <1>3, <2>1 DEF Among
<1> QED
  BY <1>1, <1>2, <1>3, <1>4, <1>5 DEF Step, t

LEMMA TokensInTyped ==
  /\ TokensIn(<<>>) = <<>>
  /\ \A s \in Seq(EventType) : TokensIn(s) \in Seq(Token \cup {0})
<1>1. ASSUME NEW s \in Seq(EventType)
      PROVE  /\ TokensIn(s) \in Seq(Token \cup {0})
             /\ s = <<>> => TokensIn(s) = <<>>
  <2>1. PICK f : Among(s, Len(s), f) /\ TokensIn(s) = f[Len(s)]
    BY TokensInDef
  <2>2. Len(s) \in Nat /\ (s = <<>> => Len(s) = 0)
    BY LenProperties, EmptySeq
  <2> QED
    BY <2>1, <2>2 DEF Among
<1> QED
  BY <1>1, EmptySeq

\* The first event, then the others.
LEMMA TokensInTail ==
  ASSUME NEW s \in Seq(EventType), s # <<>>
  PROVE  TokensIn(s) = (IF Head(s).event = "token" THEN <<Head(s).token>> ELSE <<>>)
                         \o TokensIn(Tail(s))
<1> DEFINE t == Tail(s)
           L == Len(t)
<1>1. /\ t \in Seq(EventType) /\ Head(s) \in EventType /\ Len(s) = L + 1 /\ L \in Nat
      /\ \A i \in 1..L : t[i] = s[i + 1] /\ t[i] \in EventType
      /\ s[1] = Head(s)
  BY HeadTailProperties, LenProperties, ElementOfSeq, EmptySeq
<1>2. PICK first \in Seq(Token \cup {0}) :
        first = IF Head(s).event = "token" THEN <<Head(s).token>> ELSE <<>>
  <2>1. Head(s).token \in Token \cup {0}
    BY <1>1 DEF EventType
  <2>2. <<Head(s).token>> \in Seq(Token \cup {0})
    BY <2>1
  <2>3. <<>> \in Seq(Token \cup {0})
    BY EmptySeq
  <2> QED
    BY <2>2, <2>3
<1>3. PICK f : Among(s, L + 1, f) /\ TokensIn(s) = f[L + 1]
  BY <1>1, TokensInDef
<1>4. PICK g : Among(t, L, g) /\ TokensIn(t) = g[L]
  BY <1>1, TokensInDef
<1> DEFINE G == {n \in 0..L : f[n + 1] = first \o g[n]}
<1> HIDE DEF t
<1>5. 0 \in G
  <2>1. f[1] = Step(s, <<>>, 1) /\ g[0] = <<>>
    <3>1. 1 \in 1..L + 1 /\ 1 - 1 = 0
      BY <1>1
    <3> QED
      BY <1>3, <1>4, <3>1 DEF Among
  <2>2. f[1] = first
    BY <1>1, <1>2, <2>1 DEF Step
  <2>3. first \o <<>> = first
    BY <1>2, ConcatEmptySeq
  <2> QED
    <3>1. 0 + 1 = 1 /\ 0 \in 0..L
      BY <1>1
    <3>2. f[0 + 1] = first \o g[0]
      BY <2>1, <2>2, <2>3, <3>1
    <3> QED
      BY <3>1, <3>2
<1>6. ASSUME NEW n \in 0..L, n \in G, n < L
      PROVE  n + 1 \in G
  <2>1. n + 1 \in 1..L /\ n + 2 \in 1..L + 1 /\ (n + 2) - 1 = n + 1 /\ (n + 1) + 1 = n + 2
        /\ (n + 1) - 1 = n /\ n \in 0..L /\ n + 1 \in 0..L
    BY <1>1, <1>6
  <2>2. f[n + 2] = Step(s, f[n + 1], n + 2) /\ g[n + 1] = Step(t, g[n], n + 1)
    BY <1>3, <1>4, <2>1 DEF Among
  <2>3. s[n + 2] = t[n + 1] /\ t[n + 1] \in EventType
    BY <1>1, <2>1
  <2>4. g[n] \in Seq(Token \cup {0})
    BY <1>4, <2>1 DEF Among
  <2>5. f[n + 1] = first \o g[n]
    BY <1>6
  <2>6. CASE s[n + 2].event = "token"
    <3>1. PICK x \in Token \cup {0} : x = s[n + 2].token
      BY <2>3 DEF EventType
    <3>2. f[n + 2] = Append(first \o g[n], x) /\ g[n + 1] = Append(g[n], x)
      BY <2>2, <2>3, <2>5, <2>6, <3>1 DEF Step
    <3>3. first \o g[n] \in Seq(Token \cup {0}) /\ <<x>> \in Seq(Token \cup {0})
      BY <1>2, <2>4, <3>1, ConcatProperties
    <3>4. Append(first \o g[n], x) = (first \o g[n]) \o <<x>>
      BY <3>1, <3>3, AppendIsConcat
    <3>5. Append(g[n], x) = g[n] \o <<x>>
      BY <2>4, <3>1, AppendIsConcat
    <3>6. (first \o g[n]) \o <<x>> = first \o (g[n] \o <<x>>)
      <4>1. PICK V, r, z : V = Token \cup {0} /\ r = g[n] /\ z = <<x>>
        OBVIOUS
      <4>2. first \in Seq(V) /\ r \in Seq(V) /\ z \in Seq(V)
        BY <1>2, <2>4, <3>3, <4>1
      <4>3. (first \o r) \o z = first \o (r \o z)
        BY <4>2, ConcatAssociative, SMTT(60)
      <4> QED
        BY <4>1, <4>3, Zenon
    <3> QED
      BY <2>1, <3>2, <3>4, <3>5, <3>6
  <2>7. CASE s[n + 2].event # "token"
    BY <2>1, <2>2, <2>3, <2>5, <2>7 DEF Step
  <2> QED
    BY <2>6, <2>7
<1> HIDE DEF G
<1>7. \A n \in 0..L : n \in G
  BY <1>1, <1>5, <1>6, UpTo
<1>8. f[L + 1] = first \o g[L]
  <2>1. L \in 0..L
    BY <1>1
  <2> QED
    BY <1>7, <2>1 DEF G
<1> QED
  BY <1>2, <1>3, <1>4, <1>8 DEF t

\* The events of some tokens, after others.
LEMMA TokensInConcat ==
  ASSUME NEW s \in Seq(EventType), NEW t \in Seq(Token)
  PROVE  TokensIn(s \o TokenEvents(t)) = TokensIn(s) \o t
<1> DEFINE e == TokenEvents(t)
           all == s \o e
           M == Len(s)
           L == Len(t)
<1>1. /\ e \in Seq(EventType) /\ Len(e) = L /\ L \in Nat /\ M \in Nat
      /\ \A i \in 1..L : e[i] = TokenEvent(t[i]) /\ t[i] \in Token
  <2>1. DOMAIN t = 1..L /\ L \in Nat /\ M \in Nat /\ \A i \in 1..L : t[i] \in Token
    BY LenProperties, ElementOfSeq
  <2>2. e \in Seq(EventType)
    BY EventsTyped
  <2>3. e = [i \in 1..L |-> TokenEvent(t[i])]
    BY <2>1 DEF TokenEvents
  <2>4. DOMAIN e = 1..L /\ Len(e) \in Nat /\ DOMAIN e = 1..Len(e)
    BY <2>2, <2>3, LenProperties
  <2>5. Len(e) = L
    BY <2>1, <2>4
  <2> QED
    BY <2>1, <2>2, <2>3, <2>5
<1> HIDE DEF e
<1>2. /\ all \in Seq(EventType) /\ Len(all) = M + L
      /\ \A i \in 1..M : all[i] = s[i]
      /\ \A k \in 1..L : all[M + k] = e[k]
  <2>1. all \in Seq(EventType) /\ Len(all) = Len(s) + Len(e)
    BY <1>1, ConcatProperties
  <2>2. \A i \in 1..Len(s) + Len(e) : all[i] = IF i <= Len(s) THEN s[i] ELSE e[i - Len(s)]
    BY <1>1, ConcatProperties
  <2> HIDE DEF all
  <2>3. ASSUME NEW k \in 1..L
        PROVE  all[M + k] = e[k]
    <3>1. M + k \in 1..M + L /\ ~(M + k <= M) /\ (M + k) - M = k
      BY <1>1
    <3> QED
      BY <1>1, <2>2, <3>1
  <2>4. ASSUME NEW i \in 1..M
        PROVE  all[i] = s[i]
    BY <1>1, <2>2, <2>4
  <2> QED
    BY <1>1, <2>1, <2>3, <2>4
<1> HIDE DEF all
<1>3. PICK f : Among(s, M, f) /\ TokensIn(s) = f[M]
  BY TokensInDef
<1>4. PICK g : Among(all, Len(all), g) /\ TokensIn(all) = g[Len(all)]
  BY <1>2, TokensInDef
<1>5. f[M] = g[M]
  <2>1. M \in 0..Len(s) /\ M <= Len(all) /\ \A i \in 1..M : s[i] = all[i]
    BY <1>1, <1>2
  <2>2. PICK a : a = all
    OBVIOUS
  <2>3. /\ a \in Seq(EventType) /\ Among(s, Len(s), f) /\ Among(a, Len(a), g)
        /\ M \in 0..Len(s) /\ M <= Len(a) /\ \A i \in 1..M : s[i] = a[i]
    BY <1>2, <1>3, <1>4, <2>1, <2>2
  <2> HIDE DEF M
  <2> QED
    BY <2>3, AmongSame
<1>6. PICK V, r : V = Token \cup {0} /\ r = TokensIn(s) /\ r \in Seq(V) /\ t \in Seq(V)
  BY TokensInTyped
<1>7. \A k \in 0..L : SubSeq(t, 1, k) \in Seq(V) /\ SubSeq(t, 1, 0) = <<>>
                      /\ (k < L => SubSeq(t, 1, k + 1) = Append(SubSeq(t, 1, k), t[k + 1]))
  <2>1. SubSeq(t, 1, 0) = <<>>
    BY <1>1, SubSeqEmpty
  <2>2. ASSUME NEW k \in 0..L
        PROVE  SubSeq(t, 1, k) \in Seq(V)
    BY <1>1, <1>6, <2>2, SubSeqProperties
  <2>3. ASSUME NEW k \in 0..L, k < L
        PROVE  SubSeq(t, 1, k + 1) = Append(SubSeq(t, 1, k), t[k + 1])
    <3>1. k + 1 \in 1..L /\ k + 1 >= 1 /\ (k + 1) - 1 = k
      BY <1>1, <2>3
    <3> QED
      BY <1>1, <1>6, <2>2, <2>3, <3>1, SubSeqRecursiveSecond
  <2> QED
    BY <2>1, <2>2, <2>3
<1> DEFINE G == {k \in 0..L : g[M + k] = r \o SubSeq(t, 1, k)}
<1>8. 0 \in G
  <2>1. r \o <<>> = r
    BY <1>6, ConcatEmptySeq
  <2>2. M + 0 = M /\ 0 \in 0..L
    BY <1>1
  <2>3. g[M + 0] = r \o SubSeq(t, 1, 0)
    BY <1>3, <1>5, <1>6, <1>7, <2>1, <2>2
  <2> QED
    BY <2>2, <2>3
<1>9. ASSUME NEW k \in 0..L, k \in G, k < L
      PROVE  k + 1 \in G
  <2>1. /\ k + 1 \in 1..L /\ k + 1 \in 0..L /\ M + k + 1 \in 1..M + L /\ (M + k + 1) - 1 = M + k
        /\ M + (k + 1) = M + k + 1
    BY <1>1, <1>9
  <2>2. g[M + k + 1] = Step(all, g[M + k], M + k + 1)
    BY <1>2, <1>4, <2>1 DEF Among
  <2>3. all[M + k + 1] = TokenEvent(t[k + 1]) /\ t[k + 1] \in Token
    BY <1>1, <1>2, <2>1
  <2>4. g[M + k] = r \o SubSeq(t, 1, k)
    BY <1>9
  <2>5. PICK y, x, q : y = SubSeq(t, 1, k) /\ x = t[k + 1] /\ q = r \o y
    OBVIOUS
  <2>6. y \in Seq(V) /\ x \in V /\ q \in Seq(V) /\ <<x>> \in Seq(V)
    BY <1>6, <1>7, <2>3, <2>5, ConcatProperties
  <2>7. Append(q, x) = q \o <<x>> /\ Append(y, x) = y \o <<x>>
    BY <2>6, AppendIsConcat
  <2>8. (r \o y) \o <<x>> = r \o (y \o <<x>>)
    BY <1>6, <2>6, ConcatAssociative, SMTT(60)
  <2>9. g[M + k + 1] = Append(q, x)
    BY <2>2, <2>3, <2>4, <2>5 DEF Step, TokenEvent
  <2>10. SubSeq(t, 1, k + 1) = Append(y, x)
    BY <1>7, <1>9, <2>5
  <2> QED
    BY <2>1, <2>5, <2>7, <2>8, <2>9, <2>10
<1> HIDE DEF G
<1>10. \A k \in 0..L : k \in G
  BY <1>1, <1>8, <1>9, UpTo
<1>11. g[M + L] = r \o SubSeq(t, 1, L)
  <2>1. L \in 0..L
    BY <1>1
  <2> QED
    BY <1>10, <2>1 DEF G
<1>12. SubSeq(t, 1, L) = t
  BY SubSeqFull
<1> QED
  BY <1>2, <1>4, <1>6, <1>11, <1>12 DEF all, e

-----------------------------------------------------------------------------
(* The phases of a call.                                                    *)

LEMMA StaysSilent ==
  ASSUME TypeOK, Silent, Next
  PROVE  Silent'
<1> USE DEF Silent, Interrupted
<1>0. thread \in ThreadType /\ client \in ClientType
  BY DEF TypeOK
<1>1. CASE LoopSteps /\ UNCHANGED client
  <2>0. loop.at # "done"
    BY <1>1 DEF LoopSteps, ReadLine, Reap, RefuseWhileRunning, Stats, Reset, Compact, Generate,
           GenerateCannotStart, RefuseCancel, CheckCancel, StoreCancel, AnswerCancel, Shutdown,
           Exit, Handling
  <2>1. CASE Reap \/ Exit
    BY <1>1, <2>0, <2>1 DEF Reap, Exit, Joined, NoThread
  <2>2. CASE Generate
    <3>1. CASE Overflows
      BY <1>1, <2>2, <3>1 DEF Generate, NoThread
    <3>2. CASE ~Overflows
      <4>1. thread'.at = "prefill"
        BY <2>2, <3>2 DEF Generate, NoThread
      <4> QED
        BY <1>1, <4>1
    <3> QED
      BY <3>1, <3>2
  <2>3. CASE GenerateCannotStart
    BY <1>1, <2>3 DEF GenerateCannotStart, NoThread
  <2>4. CASE ReadLine \/ RefuseWhileRunning \/ Stats \/ RefuseCancel \/ CheckCancel
             \/ StoreCancel \/ AnswerCancel \/ Shutdown \/ Reset \/ Compact
    <3>1. UNCHANGED <<generation_running, thread>>
      BY <2>4 DEF ReadLine, RefuseWhileRunning, Stats, RefuseCancel, Refuse, CheckCancel,
                  StoreCancel, AnswerCancel, Shutdown, Reset, Compact
    <3> QED
      BY <1>1, <2>0, <3>1
  <2> QED
    BY <1>1, <2>1, <2>2, <2>3, <2>4 DEF LoopSteps
<1>2. CASE (ThreadSteps \/ EmitMetrics) /\ UNCHANGED client
  <2> USE <1>0, <1>2 DEF loopVars, ThreadType
  <2>1. CASE ExecutePrompt \/ FeedToken \/ GenerationFails
    BY <2>1 DEF ExecutePrompt, FeedToken, GenerationFails
  <2>2. CASE EmitToken
    BY <2>2 DEF EmitToken
  <2>3. CASE EndToken
    BY <2>3 DEF EndToken
  <2>4. CASE JoinMetrics
    BY <2>4 DEF JoinMetrics, MetricsJoined
  <2>5. CASE FlushThrows
    BY <2>5 DEF FlushThrows
  <2>6. CASE SettleSession
    BY <2>6 DEF SettleSession
  <2>7. CASE Finish \/ Publish
    BY <2>7 DEF Finish, Publish
  <2>8. CASE EmitMetrics
    BY <2>8 DEF EmitMetrics
  <2> QED
    BY <2>1, <2>2, <2>3, <2>4, <2>5, <2>6, <2>7, <2>8 DEF ThreadSteps
<1>3. CASE Terminate
  BY <1>0, <1>3 DEF Terminate, NoThread, Gone, ClientType
<1>4. CASE (Reading /\ ~Terminate) \/ User
  <2>1. UNCHANGED <<generation_running, thread, loop>>
    BY <1>4 DEF Reading, User, ReadAnswer, ReadGeneration, ReadClosing, Reads, unsent, Call,
      GenerateCall, InterruptGeneration, InterruptCall, Close, Vanish, unread
  <2>2. client'.at = "draining" => client'.interrupts > 0
    <3>1. client.interrupts \in Nat /\ client.at = "draining" => client.interrupts > 0
      BY <1>0 DEF ClientType
    <3>2. CASE ReadAnswer \/ ReadGeneration \/ ReadClosing
      BY <1>0, <3>1, <3>2 DEF ReadAnswer, ReadGeneration, ReadClosing, ClientType
    <3>3. CASE Call \/ GenerateCall \/ Close \/ Vanish
      BY <1>0, <3>1, <3>3 DEF Call, GenerateCall, Close, Vanish, Gone, ClientType
    <3>4. CASE InterruptGeneration \/ InterruptCall
      <4>1. client.interrupts + 1 > 0
        BY <1>0 DEF ClientType
      <4> QED
        BY <1>0, <3>4, <4>1 DEF InterruptGeneration, InterruptCall, ClientType
    <3> QED
      BY <1>4, <3>2, <3>3, <3>4 DEF Reading, User
  <2> QED
    BY <2>1, <2>2
<1> QED
  BY <1>1, <1>2, <1>3, <1>4 DEF Next, Worker, Reading

\* One event that is no token leaves the tokens as they are.
LEMMA SaysOne ==
  ASSUME output \in Seq(EventType), ~closed,
         NEW name \in {"metrics", "done", "error", "stats", "reset", "compacted",
                       "cancel_requested", "shutdown"},
         Says(<<Event(name)>>)
  PROVE  /\ output' \in Seq(EventType) /\ output' # <<>> /\ Len(output') = Len(output) + 1
         /\ \A i \in 1..Len(output) : output'[i] = output[i]
         /\ output'[Len(output')] = Event(name)
         /\ TokensIn(output') = TokensIn(output)
<1> DEFINE e == Event(name)
<1>1. e \in EventType /\ e.event # "token"
  BY DEF Event, EventType
<1> HIDE DEF e
<1>2. output' = Append(output, e)
  BY <1>1, AppendIsConcat DEF Says, e
<1>3. Len(output) \in Nat
  BY LenProperties
<1>4. TokensIn(output') = TokensIn(output)
  BY <1>1, <1>2, TokensInAppend
<1>5. /\ output' \in Seq(EventType) /\ Len(output') = Len(output) + 1
      /\ \A i \in 1..Len(output) : output'[i] = output[i]
      /\ output'[Len(output) + 1] = e
  BY <1>1, <1>2, AppendProperties
<1>6. output' # <<>>
  BY <1>3, <1>5, EmptySeq
<1> QED
  BY <1>4, <1>5, <1>6 DEF e

LEMMA LoopKeepsPhase ==
  ASSUME TypeOK, Silent, PhaseOK, LoopSteps, UNCHANGED client
  PROVE  PhaseOK'
<1> SUFFICES ASSUME ~Interrupted, client.at \in {"idle", "waiting", "generating"}
             PROVE  PhaseOK'
  BY DEF PhaseOK, Interrupted
<1>0. /\ ~closed /\ ~closed' /\ output \in Seq(EventType) /\ input \in Seq(LineType)
      /\ client.at \in {"waiting", "generating"} /\ AtRest /\ output = <<>> /\ ~Taken
      /\ ~generation_running
      /\ client.at = "waiting" => Asked({"stats", "reset", "compact", "cancel"})
      /\ client.at = "generating" => Asked({"generate"}) /\ client.tokens = <<>>
  <2>1. ~closed /\ output \in Seq(EventType) /\ input \in Seq(LineType)
    BY DEF PhaseOK, TypeOK
  <2>2. ~Taken
    BY <2>1 DEF Taken, LoopSteps, ReadLine, Reap, RefuseWhileRunning, Stats, Reset, Compact,
      Generate, GenerateCannotStart, RefuseCancel, Refuse, CheckCancel, StoreCancel, AnswerCancel,
      Shutdown, Exit, Handling
  <2>3. closed' = closed
    BY DEF LoopSteps, ReadLine, Reap, RefuseWhileRunning, Stats, Reset, Compact,
      Generate, GenerateCannotStart, RefuseCancel, Refuse, CheckCancel, StoreCancel, AnswerCancel,
      Shutdown, Exit
  <2> QED
    BY <2>1, <2>2, <2>3 DEF PhaseOK, Answering, AtRest
<1> DEFINE ops == IF client.at = "waiting" THEN {"stats", "reset", "compact", "cancel"}
                  ELSE {"generate"}
\* Until the request is answered it stays asked.
<1>a. ASSUME AtRest', Asked(ops)', output' = output
      PROVE  PhaseOK'
  BY <1>0, <1>a DEF PhaseOK, Answering
<1>b. ASSUME AtRest', Taken', client.at = "waiting", NEW name \in {"error", "stats", "reset", "compacted"},
             Says(<<Event(name)>>)
      PROVE  PhaseOK'
  <2>1. Len(output') = Len(output) + 1 /\ Len(output) = 0
    BY <1>0, <1>b, SaysOne, EmptySeq
  <2>2. Len(output') = 1
    BY <2>1
  <2> QED
    BY <1>0, <1>b, <2>2 DEF PhaseOK
<1>c. ASSUME AtRest', Taken', client.at = "generating", Says(<<Event("error")>>),
             thread'.at = "none"
      PROVE  PhaseOK'
  <2>1. /\ Len(output') = Len(output) + 1 /\ Len(output) = 0 /\ output' # <<>>
        /\ output'[Len(output')] = Event("error")
    BY <1>0, <1>c, SaysOne, EmptySeq
  <2>2. Len(output') - 1 = 0
    BY <2>1
  <2>3. LastEnds(output')
    BY <2>1, <2>2 DEF LastEnds, Ends, Event
  <2> QED
    BY <1>0, <1>c, <2>3 DEF PhaseOK, Answering
<1>1. CASE ReadLine
  <2>1. Len(input) = 1 /\ Head(input).op \in ops
    BY <1>0, <1>1 DEF Asked, ReadLine
  <2>2. input' = <<>>
    <3>1. Tail(input) \in Seq(LineType) /\ Len(Tail(input)) = 0
      BY <1>0, <1>1, <2>1, HeadTailProperties DEF ReadLine
    <3> QED
      BY <1>1, <3>1, EmptySeq DEF ReadLine
  <2>3. loop'.at \in {"reap", "handle"} /\ loop'.request = Head(input)
    BY <1>1 DEF ReadLine
  <2>4. AtRest' /\ output' = output
    BY <1>0, <1>1 DEF ReadLine, AtRest
  <2> HIDE DEF ops
  <2>5. Asked(ops)'
    BY <2>1, <2>2, <2>3 DEF Asked, ops
  <2> QED
    BY <1>a, <2>4, <2>5
<1>2. CASE ~ReadLine
  <2>1. input = <<>> /\ loop.at \in {"reap", "handle"} /\ Request.op \in ops
    <3>1. loop.at # "read"
      BY <1>0, <1>2 DEF LoopSteps, Reap, RefuseWhileRunning, Stats, Reset, Compact,
        Generate, GenerateCannotStart, RefuseCancel, Refuse, CheckCancel, StoreCancel, AnswerCancel,
        Shutdown, Exit, Handling
    <3> QED
      BY <1>0, <3>1 DEF Asked, Request
  <2>2. CASE Reap
    <3>1. loop'.at = "handle" /\ loop'.request = Request /\ input' = input
      <4>1. loop = [at |-> loop.at, request |-> loop.request]
        BY DEF TypeOK
      <4> QED
        BY <2>2, <4>1 DEF Reap, Request
    <3>2. AtRest' /\ output' = output
      BY <1>0, <2>2 DEF Reap, AtRest, NoThread
    <3> HIDE DEF ops
    <3>3. Asked(ops)'
      BY <2>1, <3>1 DEF Asked, Request, ops
    <3> QED
      BY <1>a, <3>2, <3>3
  <2>3. CASE Stats \/ Reset \/ Compact \/ RefuseCancel
    <3>1. AtRest' /\ Taken' /\ client.at = "waiting"
      BY <1>0, <2>1, <2>3 DEF AtRest, Taken, Stats, Reset, Compact, RefuseCancel, Refuse,
           NextLine, Handling, Request
    <3>2. \E name \in {"error", "stats", "reset", "compacted"} : Says(<<Event(name)>>)
      BY <2>3 DEF Stats, Reset, Compact, RefuseCancel, Refuse
    <3> QED
      BY <1>b, <3>1, <3>2
  <2>4. CASE Generate \/ GenerateCannotStart
    <3>1. client.at = "generating"
      BY <1>0, <2>1, <2>4 DEF Generate, GenerateCannotStart, Handling, Request
    <3>2. Taken'
      BY <2>1, <2>4 DEF Generate, GenerateCannotStart, NextLine, Taken
    <3>3. CASE GenerateCannotStart
      BY <1>0, <1>c, <3>1, <3>2, <3>3
         DEF GenerateCannotStart, StartFailsEvents, AtRest, NoThread
    <3>4. CASE Generate /\ Overflows
      BY <1>0, <1>c, <3>1, <3>2, <3>4 DEF Generate, AtRest, NoThread
    <3>5. CASE Generate /\ ~Overflows
      <4>1. thread'.at = "prefill" /\ thread'.tokens = <<>> /\ thread'.pending = <<>>
            /\ output' = output
        BY <3>5 DEF Generate, NoThread
      <4>2. NoneEnds(output')
        BY <1>0, <4>1, EmptySeq DEF NoneEnds
      <4>3. Conserved'
        <5>1. client'.tokens = <<>> /\ TokensIn(output') = <<>> /\ <<>> \o <<>> = <<>>
          BY <1>0, <3>1, <4>1, TokensInTyped, ConcatEmptySeq, EmptySeq
        <5> QED
          BY <4>1, <5>1 DEF Conserved
      <4> QED
        BY <1>0, <3>1, <3>2, <4>1, <4>2, <4>3 DEF PhaseOK, Answering
    <3> QED
      BY <2>4, <3>3, <3>4, <3>5
  <2>5. ~(RefuseWhileRunning \/ CheckCancel \/ StoreCancel \/ AnswerCancel \/ Shutdown \/ Exit)
    BY <1>0, <2>1 DEF RefuseWhileRunning, CheckCancel, Cancels, StoreCancel, AnswerCancel,
                      Shutdown, Exit, Handling, Request
  <2> QED
    BY <1>2, <2>2, <2>3, <2>4, <2>5 DEF LoopSteps
<1> QED
  BY <1>1, <1>2

LEMMA NoneEndsSaid ==
  ASSUME NEW s \in Seq(EventType), NEW t \in Seq(EventType), NoneEnds(s), NoneEnds(t)
  PROVE  NoneEnds(s \o t)
<1>1. Len(s) \in Nat /\ Len(t) \in Nat
  BY LenProperties
<1>2. Len(s \o t) = Len(s) + Len(t)
  BY ConcatProperties
<1>3. ASSUME NEW i \in 1..Len(s) + Len(t)
      PROVE  ~Ends((s \o t)[i])
  <2>1. (s \o t)[i] = IF i <= Len(s) THEN s[i] ELSE t[i - Len(s)]
    BY ConcatProperties
  <2>2. CASE i <= Len(s)
    BY <1>1, <2>1, <2>2 DEF NoneEnds
  <2>3. CASE ~(i <= Len(s))
    <3>1. i - Len(s) \in 1..Len(t)
      BY <1>1, <2>3
    <3> QED
      BY <2>1, <2>3, <3>1 DEF NoneEnds
  <2> QED
    BY <2>2, <2>3
<1> QED
  BY <1>2, <1>3 DEF NoneEnds

LEMMA TokensDoNotEnd ==
  ASSUME NEW t \in Seq(Token)
  PROVE  NoneEnds(TokenEvents(t))
<1>1. TokenEvents(t) = [i \in DOMAIN t |-> TokenEvent(t[i])]
  BY DEF TokenEvents
<1>2. TokenEvents(t) \in Seq(EventType)
  BY EventsTyped
<1>3. DOMAIN TokenEvents(t) = 1..Len(TokenEvents(t)) /\ DOMAIN TokenEvents(t) = DOMAIN t
  BY <1>1, <1>2, LenProperties
<1> QED
  BY <1>1, <1>3 DEF NoneEnds, Ends, TokenEvent

LEMMA ThreadKeepsPhase ==
  ASSUME TypeOK, PrefixKept, Silent, PhaseOK, ThreadSteps \/ EmitMetrics, UNCHANGED client
  PROVE  PhaseOK'
<1> SUFFICES ASSUME ~Interrupted, client.at \in {"idle", "waiting", "generating"}
             PROVE  PhaseOK'
  BY DEF PhaseOK, Interrupted
<1> DEFINE Out == TokensIn(output)
<1>0. /\ ~closed /\ output \in Seq(EventType) /\ thread \in ThreadType
      /\ client.tokens \in Seq(Token \cup {0}) /\ Out \in Seq(Token \cup {0})
      /\ thread.pending \in Seq(Token) /\ thread.tokens \in Seq(Token)
  <2>1. ~closed /\ output \in Seq(EventType) /\ thread \in ThreadType /\ client \in ClientType
    BY DEF PhaseOK, TypeOK
  <2> QED
    BY <2>1, TokensInTyped DEF ThreadType, ClientType
<1>1. ~AtRest
  BY DEF AtRest, ThreadSteps, ExecutePrompt, EmitToken, EndToken, FeedToken, GenerationFails,
         EmitMetrics, JoinMetrics, FlushThrows, SettleSession, Finish, Publish
<1>2. /\ client.at = "generating" /\ Taken /\ thread.at \notin {"none", "exited"}
      /\ NoneEnds(output) /\ Conserved
  BY <1>1 DEF PhaseOK, Answering
<1>3. Taken' /\ closed' = closed
  BY <1>2 DEF Taken, loopVars, ThreadSteps, ExecutePrompt, EmitToken, EndToken, FeedToken,
       GenerationFails, EmitMetrics, JoinMetrics, FlushThrows, SettleSession, Finish, Publish
<1>a. ASSUME thread'.at \notin {"none", "exited"}, NoneEnds(output'), Conserved'
      PROVE  PhaseOK'
  BY <1>0, <1>2, <1>3, <1>a DEF PhaseOK, Answering
<1>b. ASSUME thread'.at \notin {"none", "exited"}, output' = output,
             thread'.tokens = thread.tokens, thread'.pending = thread.pending
      PROVE  PhaseOK'
  <2>1. NoneEnds(output') /\ Conserved'
    BY <1>2, <1>b DEF Conserved
  <2> QED
    BY <1>a, <1>b, <2>1
\* Some tokens go out, and those that were pending with them.
<1>c. ASSUME NEW t \in Seq(Token), Says(TokenEvents(t))
      PROVE  NoneEnds(output') /\ TokensIn(output') = Out \o t
  <2>1. output' = output \o TokenEvents(t) /\ TokenEvents(t) \in Seq(EventType)
    BY <1>0, <1>c, EventsTyped DEF Says
  <2>2. TokensIn(output \o TokenEvents(t)) = TokensIn(output) \o t
    BY <1>0, TokensInConcat
  <2>3. NoneEnds(output \o TokenEvents(t))
    BY <1>0, <1>2, <2>1, TokensDoNotEnd, NoneEndsSaid
  <2> QED
    BY <2>1, <2>2, <2>3
<1>d. PICK V, a, b, c : /\ V = Token \cup {0} /\ a = client.tokens /\ b = Out /\ c = thread.pending
                        /\ a \in Seq(V) /\ b \in Seq(V) /\ c \in Seq(V)
  BY <1>0
<1>f. a \in Seq(V) /\ b \in Seq(V) /\ c \in Seq(V)
  BY <1>d
<1>e. (a \o b) \o c = thread.tokens
  BY <1>2, <1>d DEF Conserved
<1>4. CASE EmitToken
  <2>1. PICK t \in Token, complete \in BOOLEAN :
          LET waiting == Append(thread.pending, t)
          IN  /\ Says(IF complete THEN TokenEvents(waiting) ELSE <<>>)
              /\ thread' = [thread EXCEPT !.at = "check", !.tokens = Append(@, t),
                                          !.pending = IF complete THEN <<>> ELSE waiting]
    BY <1>4 DEF EmitToken
  <2>d. PICK d : d = <<t>>
    OBVIOUS
  <2>2. d = <<t>> /\ d \in Seq(V)
    <3>1. t \in V
      BY <1>d
    <3> QED
      BY <2>d, <3>1
  <2>f. d \in Seq(V)
    BY <2>2
  <2>e. /\ (a \o b) \o (c \o d) = a \o (b \o (c \o d))
        /\ (a \o b) \o (c \o d) = ((a \o b) \o c) \o d
    <3>1. PICK p, q : p = a \o b /\ q = c \o d
      OBVIOUS
    <3>2. p \in Seq(V) /\ q \in Seq(V)
      BY <1>f, <2>f, <3>1, ConcatProperties
    <3>3. (a \o b) \o q = a \o (b \o q)
      BY <1>f, <3>2, ConcatAssociative, SMTT(60)
    <3>4. (p \o c) \o d = p \o (c \o d)
      BY <1>f, <2>f, <3>2, ConcatAssociative, SMTT(60)
    <3> QED
      BY <3>1, <3>3, <3>4
  <2>3. /\ Append(thread.pending, t) \in Seq(Token) /\ Append(thread.pending, t) = c \o d
        /\ Append(thread.tokens, t) = ((a \o b) \o c) \o d
    <3>1. Append(thread.pending, t) = thread.pending \o <<t>> /\ Append(thread.pending, t) \in Seq(Token)
      BY <1>0, AppendIsConcat, AppendProperties
    <3>2. Append(thread.tokens, t) = thread.tokens \o <<t>>
      BY <1>0, AppendIsConcat
    <3> QED
      BY <1>d, <1>e, <2>2, <3>1, <3>2
  <2>4. /\ thread'.at = "check" /\ thread'.tokens = Append(thread.tokens, t)
        /\ thread'.pending = IF complete THEN <<>> ELSE Append(thread.pending, t)
    BY <1>0, <2>1 DEF ThreadType
  <2>5. CASE complete
    <3>1. NoneEnds(output') /\ TokensIn(output') = b \o (c \o d)
      BY <1>c, <1>d, <2>1, <2>3, <2>5
    <3>2. (a \o (b \o (c \o d))) \o <<>> = ((a \o b) \o c) \o d
      <4>1. a \o (b \o (c \o d)) \in Seq(V)
        BY <1>f, <2>f, ConcatProperties
      <4>2. (a \o (b \o (c \o d))) \o <<>> = a \o (b \o (c \o d))
        BY <4>1, ConcatEmptySeq
      <4> QED
        BY <2>e, <4>2
    <3>3. Conserved'
      BY <1>d, <2>3, <2>4, <2>5, <3>1, <3>2 DEF Conserved
    <3> QED
      BY <1>a, <2>4, <3>1, <3>3
  <2>6. CASE ~complete
    <3>1. output' = output
      BY <1>0, <2>1, <2>6, ConcatEmptySeq DEF Says
    <3>2. (a \o b) \o (c \o d) = ((a \o b) \o c) \o d
      BY <2>e
    <3>3. Conserved'
      BY <1>d, <2>3, <2>4, <2>6, <3>1, <3>2 DEF Conserved
    <3> QED
      BY <1>2, <1>a, <2>4, <3>1, <3>3
  <2> QED
    BY <2>5, <2>6
<1>5. CASE SettleSession
  <2>1. /\ thread'.at = "finish" /\ thread'.tokens = thread.tokens /\ thread'.pending = <<>>
        /\ Says(TokenEvents(thread.pending))
    BY <1>0, <1>5 DEF SettleSession, ThreadType
  <2>2. NoneEnds(output') /\ TokensIn(output') = b \o c
    BY <1>0, <1>c, <1>d, <2>1
  <2>3. (a \o (b \o c)) \o <<>> = (a \o b) \o c
    <3>1. a \o (b \o c) \in Seq(V) /\ (a \o b) \o c = a \o (b \o c)
      BY <1>f, ConcatProperties, ConcatAssociative, SMTT(60)
    <3> QED
      BY <3>1, ConcatEmptySeq
  <2>4. Conserved'
    BY <1>d, <1>e, <2>1, <2>2, <2>3 DEF Conserved
  <2> QED
    BY <1>a, <2>1, <2>2, <2>4
<1>6. CASE EmitMetrics
  <2>1. thread'.at = thread.at /\ thread'.tokens = thread.tokens /\ thread'.pending = thread.pending
    BY <1>0, <1>6 DEF EmitMetrics, ThreadType
  <2>2. CASE output' = output
    BY <1>2, <1>b, <2>1, <2>2
  <2>3. CASE Says(<<Event("metrics")>>)
    <3>1. /\ Len(output') = Len(output) + 1 /\ \A i \in 1..Len(output) : output'[i] = output[i]
          /\ output'[Len(output')] = Event("metrics") /\ TokensIn(output') = TokensIn(output)
          /\ Len(output) \in Nat
      BY <1>0, <2>3, SaysOne, LenProperties
    <3>2. NoneEnds(output')
      <4> SUFFICES ASSUME NEW i \in 1..Len(output')
                   PROVE  ~Ends(output'[i])
        BY DEF NoneEnds
      <4>1. CASE i = Len(output')
        BY <3>1, <4>1 DEF Ends, Event
      <4>2. CASE i # Len(output')
        <5>1. i \in 1..Len(output)
          BY <3>1, <4>2
        <5> QED
          BY <1>2, <3>1, <5>1 DEF NoneEnds
      <4> QED
        BY <4>1, <4>2
    <3>3. Conserved'
      BY <1>2, <2>1, <3>1 DEF Conserved
    <3> QED
      BY <1>2, <1>a, <2>1, <3>2, <3>3
  <2> QED
    BY <1>6, <2>2, <2>3 DEF EmitMetrics
<1>7. CASE Publish
  <2>1. PICK name \in {"done", "error"} : Says(<<Event(name)>>)
    BY <1>7 DEF Publish
  <2>2. /\ output' # <<>> /\ Len(output') = Len(output) + 1 /\ Len(output) \in Nat
        /\ \A i \in 1..Len(output) : output'[i] = output[i]
        /\ output'[Len(output')] = Event(name) /\ TokensIn(output') = TokensIn(output)
    BY <1>0, <2>1, SaysOne, LenProperties
  <2>3. LastEnds(output')
    <3>1. Len(output') - 1 = Len(output)
      BY <2>2
    <3> QED
      BY <1>2, <2>2, <3>1 DEF LastEnds, NoneEnds, Ends, Event
  <2>4. /\ thread'.at = "exited" /\ thread'.tokens = thread.tokens
        /\ thread'.pending = thread.pending /\ thread'.metrics = thread.metrics
        /\ generation_running' = generation_running
    BY <1>0, <1>7 DEF Publish, ThreadType
  <2>5. AtRest'
    BY <1>2, <1>7, <2>4 DEF AtRest, Silent, Publish, Taken
  <2>6. Conserved'
    BY <1>2, <2>2, <2>4 DEF Conserved
  <2> QED
    BY <1>0, <1>2, <1>3, <2>3, <2>5, <2>6 DEF PhaseOK, Answering
<1>8. CASE ExecutePrompt \/ FeedToken \/ GenerationFails
  <2>1. /\ thread'.at \notin {"none", "exited"} /\ output' = output
        /\ thread'.tokens = thread.tokens /\ thread'.pending = thread.pending
    BY <1>0, <1>8 DEF ExecutePrompt, FeedToken, GenerationFails, loopVars, ThreadType
  <2> QED
    BY <1>b, <2>1
<1>9. CASE EndToken
  <2>1. /\ thread'.at \notin {"none", "exited"} /\ output' = output
        /\ thread'.tokens = thread.tokens /\ thread'.pending = thread.pending
    BY <1>0, <1>9 DEF EndToken, loopVars, ThreadType
  <2> QED
    BY <1>b, <2>1
<1>10. CASE JoinMetrics \/ FlushThrows \/ Finish
  <2>1. /\ thread'.at \notin {"none", "exited"} /\ output' = output
        /\ thread'.tokens = thread.tokens /\ thread'.pending = thread.pending
    BY <1>0, <1>10 DEF JoinMetrics, FlushThrows, Finish, loopVars, ThreadType
  <2> QED
    BY <1>b, <2>1
<1> QED
  BY <1>4, <1>5, <1>6, <1>7, <1>8, <1>9, <1>10 DEF ThreadSteps

LEMMA ClientKeepsPhase ==
  ASSUME TypeOK, Silent, PhaseOK, Reading \/ User
  PROVE  PhaseOK'
<1>0. /\ output \in Seq(EventType) /\ input \in Seq(LineType) /\ client \in ClientType
      /\ thread \in ThreadType
  BY DEF TypeOK
<1>1. CASE Terminate \/ Vanish \/ Close \/ ReadClosing
  <2>1. client'.at \notin {"idle", "waiting", "generating"}
    BY <1>0, <1>1 DEF Terminate, Vanish, Close, ReadClosing, Gone, ClientType
  <2> QED
    BY <2>1 DEF PhaseOK
<1>2. CASE InterruptGeneration \/ InterruptCall
  <2>1. client'.interrupts = client.interrupts + 1 /\ client.interrupts \in Nat
    BY <1>0, <1>2 DEF InterruptGeneration, InterruptCall, ClientType
  <2> QED
    BY <2>1 DEF PhaseOK, Interrupted
<1>3. CASE Call
  <2>1. PICK line \in LineType : Send(line) /\ line.op \in {"stats", "reset", "compact", "cancel"}
    BY <1>3, LineTyped DEF Call, Line
  <2>2. client'.at = "waiting" /\ client'.interrupts = client.interrupts /\ client.at = "idle"
    BY <1>0, <1>3 DEF Call, ClientType
  <2>3. UNCHANGED <<closed, output, loop, generation_running, thread>>
    BY <1>3 DEF Call, unread
  <2> SUFFICES ASSUME ~Interrupted
               PROVE  PhaseOK'
    BY <2>2 DEF PhaseOK, Interrupted
  <2>4. ~closed /\ AtRest /\ Taken /\ output = <<>>
    BY <2>2 DEF PhaseOK
  <2>5. Len(input') = 1 /\ Head(input') = line
    BY <2>1, <2>4 DEF Send, Taken
  <2> QED
    BY <2>1, <2>2, <2>3, <2>4, <2>5 DEF PhaseOK, AtRest, Asked, Taken
<1>4. CASE GenerateCall
  <2>1. PICK line \in LineType : Send(line) /\ line.op = "generate"
    <3>1. PICK id \in Ids, prompt \in Conversations, messages \in BOOLEAN, metrics \in BOOLEAN,
               max \in 1..MaximumNew :
            Send([op |-> "generate", id |-> id, prompt |-> prompt, messages |-> messages,
                  max |-> max, metrics |-> metrics])
      BY <1>4 DEF GenerateCall
    <3> DEFINE line == [op |-> "generate", id |-> id, prompt |-> prompt, messages |-> messages,
                        max |-> max, metrics |-> metrics]
    <3>2. line \in LineType /\ line.op = "generate"
      BY WorkerAssumption DEF LineType
    <3> QED
      BY <3>1, <3>2
  <2>2. /\ client'.at = "generating" /\ client'.interrupts = client.interrupts
        /\ client.at = "idle" /\ client'.tokens = <<>>
    BY <1>0, <1>4 DEF GenerateCall, ClientType
  <2>3. UNCHANGED <<closed, output, loop, generation_running, thread>>
    BY <1>4 DEF GenerateCall, unread
  <2> SUFFICES ASSUME ~Interrupted
               PROVE  PhaseOK'
    BY <2>2 DEF PhaseOK, Interrupted
  <2>4. ~closed /\ AtRest /\ Taken /\ output = <<>>
    BY <2>2 DEF PhaseOK
  <2>5. Len(input') = 1 /\ Head(input') = line
    BY <2>1, <2>4 DEF Send, Taken
  <2> QED
    BY <2>1, <2>2, <2>3, <2>4, <2>5 DEF PhaseOK, Answering, AtRest, Asked, Taken
<1>5. CASE ReadAnswer
  <2>1. client'.at = "idle" /\ client'.interrupts = client.interrupts /\ client.at = "waiting"
    BY <1>0, <1>5 DEF ReadAnswer, ClientType
  <2>2. /\ output # <<>> /\ output' = Tail(output)
        /\ UNCHANGED <<input, closed, loop, generation_running, thread>>
    BY <1>5 DEF ReadAnswer, Reads, unsent
  <2> SUFFICES ASSUME ~Interrupted
               PROVE  PhaseOK'
    BY <2>1 DEF PhaseOK, Interrupted
  <2>3. ~closed /\ AtRest /\ Taken /\ Len(output) = 1
    BY <2>1, <2>2 DEF PhaseOK
  <2>4. output' = <<>>
    <3>1. Tail(output) \in Seq(EventType) /\ Len(Tail(output)) = 0
      BY <1>0, <2>2, <2>3, HeadTailProperties
    <3> QED
      BY <2>2, <3>1, EmptySeq
  <2> QED
    BY <2>1, <2>2, <2>3, <2>4 DEF PhaseOK, AtRest, Taken
<1>6. CASE ReadGeneration
  <2>1. /\ client'.at = IF Head(output).event \in {"done", "error"} THEN "idle" ELSE client.at
        /\ client'.tokens = IF Head(output).event = "token"
                            THEN Append(client.tokens, Head(output).token) ELSE client.tokens
        /\ client'.interrupts = client.interrupts /\ client.at \in {"generating", "draining"}
    BY <1>0, <1>6 DEF ReadGeneration, ClientType
  <2>2. /\ output # <<>> /\ output' = Tail(output)
        /\ UNCHANGED <<input, closed, loop, generation_running, thread>>
    BY <1>6 DEF ReadGeneration, Reads, unsent
  <2> SUFFICES ASSUME ~Interrupted
               PROVE  PhaseOK'
    BY <2>1 DEF PhaseOK, Interrupted
  <2>3. client.at = "generating"
    BY <2>1 DEF Silent
  <2>4. /\ Taken /\ ~closed
        /\ \/ thread.at \notin {"none", "exited"} /\ NoneEnds(output) /\ Conserved
           \/ AtRest /\ LastEnds(output) /\ (thread.at # "none" => Conserved)
    BY <2>2, <2>3 DEF PhaseOK, Answering
  <2>5. /\ Head(output) = output[1] /\ Head(output) \in EventType /\ output' \in Seq(EventType)
        /\ Len(output') = Len(output) - 1 /\ Len(output) \in Nat /\ Len(output) > 0
        /\ \A i \in 1..Len(output) - 1 : output'[i] = output[i + 1]
    BY <1>0, <2>2, HeadTailProperties, LenProperties, EmptySeq
  <2>6. Conserved => Conserved'
    <3> SUFFICES ASSUME Conserved
                 PROVE  Conserved'
      OBVIOUS
    <3>1. PICK V, a, b, first :
            /\ V = Token \cup {0} /\ a = client.tokens /\ b = TokensIn(output')
            /\ first = IF Head(output).event = "token" THEN <<Head(output).token>> ELSE <<>>
      OBVIOUS
    <3>2. a \in Seq(V) /\ b \in Seq(V) /\ first \in Seq(V)
      <4>1. Head(output).token \in V /\ client.tokens \in Seq(V)
        BY <1>0, <2>5, <3>1 DEF EventType, ClientType
      <4>2. first \in Seq(V)
        <5>1. <<Head(output).token>> \in Seq(V) /\ <<>> \in Seq(V)
          BY <4>1, EmptySeq
        <5> QED
          BY <3>1, <5>1
      <4>3. TokensIn(output') \in Seq(Token \cup {0})
        BY <2>5, TokensInTyped
      <4> QED
        BY <3>1, <4>1, <4>2, <4>3
    <3>3. TokensIn(output) = first \o b
      BY <1>0, <2>2, <3>1, TokensInTail
    <3>4. client'.tokens = a \o first
      <4>1. CASE Head(output).event = "token"
        <5>1. Head(output).token \in V
          BY <2>5, <3>1 DEF EventType
        <5> QED
          BY <2>1, <3>1, <3>2, <4>1, <5>1, AppendIsConcat
      <4>2. CASE Head(output).event # "token"
        BY <2>1, <3>1, <3>2, <4>2, ConcatEmptySeq
      <4> QED
        BY <4>1, <4>2
    <3>5. (a \o first) \o b = a \o (first \o b)
      BY <3>2, ConcatAssociative, SMTT(60)
    <3> QED
      BY <2>2, <3>1, <3>3, <3>4, <3>5 DEF Conserved
  <2>7. CASE thread.at \notin {"none", "exited"} /\ NoneEnds(output) /\ Conserved
    <3>1. ~Ends(Head(output))
      BY <2>5, <2>7 DEF NoneEnds
    <3>2. NoneEnds(output')
      <4>1. ASSUME NEW i \in 1..Len(output')
            PROVE  ~Ends(output'[i])
        <5>1. i + 1 \in 1..Len(output) /\ output'[i] = output[i + 1]
          BY <2>5
        <5> QED
          BY <2>7, <5>1 DEF NoneEnds
      <4> QED
        BY <4>1 DEF NoneEnds
    <3>3. client'.at = "generating"
      BY <2>1, <2>3, <3>1 DEF Ends
    <3> QED
      BY <2>2, <2>4, <2>6, <2>7, <3>2, <3>3 DEF PhaseOK, Answering, Taken
  <2>8. CASE AtRest /\ LastEnds(output) /\ (thread.at # "none" => Conserved)
    <3>1. CASE Len(output) = 1
      <4>1. client'.at = "idle"
        BY <2>1, <2>5, <2>8, <3>1 DEF LastEnds, Ends
      <4>2. output' = <<>>
        BY <2>5, <3>1, EmptySeq
      <4> QED
        BY <2>2, <2>4, <2>8, <4>1, <4>2 DEF PhaseOK, AtRest, Taken
    <3>2. CASE Len(output) # 1
      <4>1. ~Ends(Head(output))
        <5>1. 1 \in 1..Len(output) - 1
          BY <2>5, <3>2
        <5> QED
          BY <2>5, <2>8, <5>1 DEF LastEnds
      <4>2. client'.at = "generating"
        BY <2>1, <2>3, <4>1 DEF Ends
      <4>3. LastEnds(output')
        <5>1. output' # <<>> /\ output'[Len(output')] = output[Len(output)]
          <6>1. /\ Len(output) - 1 \in 1..Len(output) - 1 /\ (Len(output) - 1) + 1 = Len(output)
                /\ Len(output') # 0
            BY <2>5, <3>2
          <6>2. output'[Len(output) - 1] = output[(Len(output) - 1) + 1]
            BY <2>5, <6>1
          <6> QED
            BY <2>5, <6>1, <6>2, EmptySeq
        <5>2. ASSUME NEW i \in 1..Len(output') - 1
              PROVE  ~Ends(output'[i])
          <6>1. i + 1 \in 1..Len(output) - 1 /\ i \in 1..Len(output) - 1
            BY <2>5
          <6> QED
            BY <2>5, <2>8, <6>1 DEF LastEnds
        <5> QED
          BY <2>8, <5>1, <5>2 DEF LastEnds
      <4> QED
        BY <2>2, <2>4, <2>6, <2>8, <4>2, <4>3 DEF PhaseOK, Answering, Taken, AtRest
    <3> QED
      BY <3>1, <3>2
  <2> QED
    BY <2>4, <2>7, <2>8
<1> QED
  BY <1>1, <1>2, <1>3, <1>4, <1>5, <1>6 DEF Reading, User

-----------------------------------------------------------------------------
(* Theorems.                                                                *)

LEMMA InitHolds ==
  ASSUME Init
  PROVE  IInv
<1> USE DEF Init, WorkerInit
<1>1. TypeOK
  BY EmptySeq DEF TypeOK, NoThread, ThreadType, ClientType
<1>2. CancelAimed /\ CancelHitsItsTarget
  BY DEF CancelAimed, CancelHitsItsTarget, NoThread
<1>3. PrefixKept
  BY DEF PrefixKept, Unsettled, Generating, NoThread
<1> QED
  BY <1>1, <1>2, <1>3 DEF IInv

LEMMA StepHolds ==
  ASSUME IInv, [Next]_vars
  PROVE  IInv'
<1>1. CASE Next
  <2>1. CancelAimed' /\ CancelHitsItsTarget'
    BY <1>1, CancelStaysAimed DEF IInv
  <2>2. TypeOK'
    BY <1>1, LoopKeepsType, ThreadKeepsType, ClientKeepsType DEF IInv, Next, Worker
  <2>3. PrefixKept'
    BY <1>1, LoopKeepsPrefix, ThreadKeepsPrefix, ClientKeepsPrefix DEF IInv, Next, Worker
  <2> QED
    BY <2>1, <2>2, <2>3 DEF IInv
<1>2. CASE UNCHANGED vars
  <2> USE <1>2 DEF vars, workerVars
  <2>1. TypeOK'
    BY DEF IInv, TypeOK
  <2>2. CancelAimed' /\ CancelHitsItsTarget'
    BY DEF IInv, CancelAimed, CancelHitsItsTarget
  <2>3. PrefixKept'
    BY DEF IInv, PrefixKept, Unsettled, Generating, AllButLast
  <2> QED
    BY <2>1, <2>2, <2>3 DEF IInv
<1> QED
  BY <1>1, <1>2

\* Types, the aim of a cancel and what is known of the Session are
\* preserved together, by every step of the worker and of its client.
THEOREM WorkerInvariant == Spec => []IInv
<1>1. Init => IInv
  BY InitHolds
<1>2. IInv /\ [Next]_vars => IInv'
  BY StepHolds
<1> QED
  BY <1>1, <1>2, PTL DEF Spec

\* A generation is only ever stopped by a cancel that named it or by the
\* end of the worker, for every history of calls and interrupts
\* (handle_cancel against handle_generate).
THEOREM CancelsHitTheirTarget == Spec => []CancelHitsItsTarget
<1>1. IInv => CancelHitsItsTarget
  BY DEF IInv
<1> QED
  BY <1>1, WorkerInvariant, PTL

\* A generation answers the conversation that was sent, for every sequence
\* of conversations, reused prefixes, failures and cancels
\* (prepare_generation, execute_generate).
THEOREM ConversationsExact == Spec => []ConversationIsExact
<1>1. IInv => ConversationIsExact
  BY DEF IInv, PrefixKept, ConversationIsExact
<1> QED
  BY <1>1, WorkerInvariant, PTL

\* The phases of a call are preserved, given the rest.
LEMMA ConversationHolds ==
  /\ Init => Silent /\ PhaseOK
  /\ IInv /\ Silent /\ PhaseOK /\ [Next]_vars => Silent' /\ PhaseOK'
<1>1. Init => Silent /\ PhaseOK
  BY EmptySeq DEF Init, WorkerInit, Silent, PhaseOK, AtRest, Taken, NoThread
<1>2. ASSUME IInv, Silent, PhaseOK, Next
      PROVE  Silent' /\ PhaseOK'
  <2>1. Silent'
    BY <1>2, StaysSilent DEF IInv
  <2>2. PhaseOK'
    BY <1>2, LoopKeepsPhase, ThreadKeepsPhase, ClientKeepsPhase DEF IInv, Next, Worker
  <2> QED
    BY <2>1, <2>2
<1>3. ASSUME Silent, PhaseOK, UNCHANGED vars
      PROVE  Silent' /\ PhaseOK'
  BY <1>3 DEF vars, workerVars, Silent, PhaseOK, Interrupted, AtRest, Taken, Asked, Answering,
              Conserved
<1> QED
  BY <1>1, <1>2, <1>3

\* As long as nothing is interrupted, no event of one call is left for the
\* next, and the tokens read, in the pipe and held back are those that were
\* generated, for every sequence of calls (request and generate of the
\* client, execute_generate).
THEOREM StayInStep == Spec => []InStep
<1>1. Silent /\ PhaseOK => InStep
  <2> SUFFICES ASSUME Silent, PhaseOK, ~Interrupted
               PROVE  BetweenCalls /\ TokensConserved
    BY DEF InStep
  <2>1. BetweenCalls
    BY DEF BetweenCalls, PhaseOK, AtRest, Taken
  <2>2. TokensConserved
    <3> SUFFICES ASSUME client.at = "generating", thread.at # "none", input = <<>>, loop.at = "read"
                 PROVE  Conserved
      BY DEF TokensConserved, Conserved
    <3>1. ~Asked({"generate"})
      BY EmptySeq DEF Asked
    <3> QED
      BY <3>1 DEF PhaseOK, Answering
  <2> QED
    BY <2>1, <2>2
<1> DEFINE All == IInv /\ Silent /\ PhaseOK
<1>2. Init => All
  BY InitHolds, ConversationHolds
<1>3. All /\ [Next]_vars => All'
  BY StepHolds, ConversationHolds
<1>4. All => InStep
  BY <1>1
<1> HIDE DEF All
<1> QED
  BY <1>2, <1>3, <1>4, PTL DEF Spec
=============================================================================
