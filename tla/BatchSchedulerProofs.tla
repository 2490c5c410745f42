------------------------ MODULE BatchSchedulerProofs ------------------------
(***************************************************************************)
(* Safety of the batch scheduler for any number of sessions, workers,      *)
(* callers and batches.                                                    *)
(***************************************************************************)
EXTENDS BatchScheduler, CollectionFacts

-----------------------------------------------------------------------------
(* The types, group by group.                                              *)
QueueTypes ==
    /\ queue \in Seq(Work)
    /\ Reserved \subseteq Sessions
    /\ session_queues \in [Reserved -> Seq(Work)]
BatchRecord == [kind : {"prefill", "decode"}, requests : Seq(Request),
                promise : {"pending", "ready", "broken"},
                results : Seq(Result), remaining : Int]
BatchTypes == batches \in Seq(BatchRecord) /\ executed \subseteq Work
CallerTypes ==
    /\ caller \in [Callers -> [step : {"idle", "lock"} \cup Submitting,
                               batch : Nat, slot : Nat, requests : Seq(Request)]]
    /\ direct_calls \in Nat
WorkerTypes ==
    /\ worker \in [Workers -> {"ready", "asleep", "lease", "measure", "extend", "lock",
                               "release", "announce", "complete", "exited"}]
    /\ work \in [Workers -> Work]
    /\ shutdown \in {"no", "flagged", "notified", "joined"}
OutcomeTypes == outcome \in [Workers -> Seq(Result)]
BudgetTypes ==
    /\ active \in Lease
    /\ lease \in [Workers -> Lease] /\ extra \in [Workers -> Lease]
    /\ team \in [Workers -> Nat]
SessionTypes ==
    /\ holder \in [Sessions -> Threads \cup {Nobody}]
    /\ token_count \in [Sessions -> Nat]
    /\ execution_failed \in [Sessions -> BOOLEAN]

(* The type invariant is the conjunction of the groups.                    *)
LEMMA Types ==
  TypeOK <=> /\ QueueTypes /\ BatchTypes /\ CallerTypes /\ WorkerTypes
             /\ OutcomeTypes /\ BudgetTypes /\ SessionTypes
  BY DEF TypeOK, QueueTypes, BatchTypes, BatchRecord, CallerTypes, WorkerTypes,
         OutcomeTypes, BudgetTypes, SessionTypes

(* Where a caller is in a submission agrees with the batch it submits; a   *)
(* prefill is enqueued for one session only.                               *)
Submits(c) ==
    /\ caller[c].batch \in DOMAIN batches
    /\ caller[c].requests = batches[caller[c].batch].requests
    /\ caller[c].slot \in DOMAIN caller[c].requests
    /\ SessionsIn(caller[c].requests) \subseteq Sessions
    /\ batches[caller[c].batch].kind = "prefill" =>
           /\ caller[c].step = "enqueue" => Len(caller[c].requests) = 1
           /\ caller[c].step = "notify" => caller[c].slot = Len(caller[c].requests)
CallersSane ==
    \A c \in Callers :
        /\ caller[c].step \in Submitting => Submits(c)
        /\ caller[c].step = "lock" => SessionsIn(caller[c].requests) \subseteq Sessions

-----------------------------------------------------------------------------
(* Which steps touch which variables.                                      *)

(* The queues change in submissions, in Take and in ReleaseSessions.       *)
LEMMA QueueSteps ==
  ASSUME [Next]_vars
  PROVE  \/ UNCHANGED queue_vars
         \/ \E c \in Callers : TryEnqueueBatch(c) \/ EnqueueSession(c)
         \/ \E w \in Workers : Take(w) \/ ReleaseSessions(w)
  BY DEF Next, vars, queue_vars, CallerStep, SubmitStep, DirectStep, WorkerStep,
         Submit, NotifyOne, Throw, StartDirect, LockDirect, RunDirect, Reset, CommitGeneration,
         Wait, Leave, AcquireCompute, MeasureTeam, PrepareTeam, LockSession,
         Execute, NotifyAll, Complete, Stop, NotifyStop, Join

(* The batches change when they are submitted, refused, abandoned, answered.*)
LEMMA BatchSteps ==
  ASSUME [Next]_vars
  PROVE  \/ UNCHANGED batches
         \/ \E c \in Callers : Submit(c) \/ TryEnqueueBatch(c) \/ Throw(c)
         \/ \E w \in Workers : Complete(w)
  BY DEF Next, vars, CallerStep, SubmitStep, DirectStep, WorkerStep,
         EnqueueSession, NotifyOne, StartDirect, LockDirect, RunDirect, Reset, CommitGeneration,
         Wait, Take, Leave, AcquireCompute, MeasureTeam, PrepareTeam, LockSession,
         Execute, ReleaseSessions, NotifyAll, Stop, NotifyStop, Join

(* A caller moves only by its own submissions and calls.                   *)
LEMMA CallerSteps ==
  ASSUME [Next]_vars
  PROVE  \/ UNCHANGED caller
         \/ \E c \in Callers : \/ Submit(c) \/ SubmitStep(c)
                               \/ StartDirect(c) \/ RunDirect(c)
  BY DEF Next, vars, CallerStep, DirectStep, WorkerStep,
         LockDirect, Reset, CommitGeneration,
         Wait, Take, Leave, AcquireCompute, MeasureTeam, PrepareTeam, LockSession,
         Execute, ReleaseSessions, NotifyAll, Complete, Stop, NotifyStop, Join

(* A session changes by a pass, a reset or the commit of a generation.      *)
LEMMA SessionSteps ==
  ASSUME [Next]_vars
  PROVE  \/ UNCHANGED <<token_count, execution_failed>>
         \/ \E c \in Callers : RunDirect(c) \/ Reset(c) \/ CommitGeneration(c)
         \/ \E w \in Workers : Execute(w)
  BY ZenonT(30) DEF Next, vars, session_vars, CallerStep, SubmitStep, DirectStep, WorkerStep,
         Submit, TryEnqueueBatch, EnqueueSession, NotifyOne, Throw, StartDirect,
         LockDirect, Wait, Take, Leave, AcquireCompute, MeasureTeam, PrepareTeam,
         LockSession, ReleaseSessions, NotifyAll, Complete, Stop, NotifyStop, Join

-----------------------------------------------------------------------------
(* Sessions.                                                               *)

(* A pass never extends nor revives a session that failed.                 *)
LEMMA RunSparesFailed ==
  ASSUME SessionTypes, NEW requests, NEW code, Run(requests, code),
         NEW s \in Sessions, execution_failed[s]
  PROVE  execution_failed'[s] /\ token_count'[s] = token_count[s]
  <1>1. CASE s \in SessionsIn(requests)
    <2>1. PICK i \in DOMAIN requests : requests[i].session = s
      BY <1>1 DEF SessionsIn
    <2>2. Refusal(requests[i]) = "InternalError"
      BY <2>1 DEF Refusal
    <2>3. ~Accepted(requests)
      BY <2>2 DEF Accepted
    <2> QED BY <2>3 DEF Run
  <1>2. CASE s \notin SessionsIn(requests)
    BY <1>2 DEF Run, SessionTypes
  <1> QED BY <1>1, <1>2

(* FailedUntilReset is an action property: it holds in every step from a   *)
(* state with well-typed sessions.                                         *)
LEMMA FailedStays ==
  ASSUME SessionTypes, [Next]_vars
  PROVE  \A s \in Sessions : execution_failed[s] =>
           \/ execution_failed'[s] /\ token_count'[s] = token_count[s]
           \/ \E c \in Callers : Reset(c) \/ CommitGeneration(c)
  <1>1. CASE UNCHANGED <<token_count, execution_failed>>
    BY <1>1
  <1>2. CASE \E c \in Callers : RunDirect(c)
    BY <1>2, RunSparesFailed DEF RunDirect
  <1>3. CASE \E w \in Workers : Execute(w)
    BY <1>3, RunSparesFailed DEF Execute
  <1>4. CASE \E c \in Callers : Reset(c) \/ CommitGeneration(c)
    BY <1>4
  <1> QED BY <1>1, <1>2, <1>3, <1>4, SessionSteps

(* What a pass adds to a session is what one of the requests asks for it.  *)
LEMMA TokensAsked ==
  ASSUME NEW requests \in Seq(Request), NEW s \in SessionsIn(requests)
  PROVE  \E i \in DOMAIN requests :
             /\ requests[i].session = s /\ requests[i].tokens \in Nat
             /\ TokensOf(requests, s) = requests[i].tokens
  <1> DEFINE P(i) == i \in DOMAIN requests /\ requests[i].session = s
             i == CHOOSE j \in DOMAIN requests : requests[j].session = s
  <1>1. \E j \in DOMAIN requests : requests[j].session = s
    BY DEF SessionsIn
  <1>2. i \in DOMAIN requests /\ requests[i].session = s
    BY <1>1
  <1>3. requests[i] \in Request
    BY <1>2, ElementOfSeq, LenProperties
  <1> QED BY <1>2, <1>3 DEF TokensOf, Request

(* A pass keeps the sessions well typed and within the context.            *)
LEMMA RunTypes ==
  ASSUME SessionTypes, SchedulerAssumption, NEW requests \in Seq(Request), NEW code,
         Run(requests, code)
  PROVE  /\ token_count' \in [Sessions -> Nat]
         /\ execution_failed' \in [Sessions -> BOOLEAN]
  <1>1. CASE UNCHANGED token_count
    BY <1>1 DEF SessionTypes, Run
  <1>2. CASE token_count' = [s \in Sessions |-> token_count[s] +
              (IF s \in SessionsIn(requests) THEN TokensOf(requests, s) ELSE 0)]
    <2>1. \A s \in SessionsIn(requests) : TokensOf(requests, s) \in Nat
      BY TokensAsked
    <2>2. token_count' \in [Sessions -> Nat]
      BY <1>2, <2>1 DEF SessionTypes
    <2> QED BY <2>2 DEF Run, SessionTypes
  <1> QED BY <1>1, <1>2 DEF Run

(* A pass never takes a session beyond the context.                        *)
LEMMA RunFits ==
  ASSUME SessionTypes, SchedulerAssumption, NEW requests \in Seq(Request), NEW code,
         Run(requests, code), ContextLength > 0, NEW s \in Sessions,
         token_count'[s] > token_count[s]
  PROVE  token_count'[s] <= ContextLength
  <1>0. token_count[s] \in Nat /\ ContextLength \in Nat
    BY DEF SessionTypes, SchedulerAssumption
  <1>1. token_count' # token_count
    BY <1>0
  <1>2. /\ Accepted(requests)
        /\ token_count'[s] = token_count[s] +
               (IF s \in SessionsIn(requests) THEN TokensOf(requests, s) ELSE 0)
    BY <1>1 DEF Run
  <1>3. s \in SessionsIn(requests)
    BY <1>0, <1>2
  <1>4. PICK i \in DOMAIN requests :
            /\ requests[i].session = s /\ requests[i].tokens \in Nat
            /\ TokensOf(requests, s) = requests[i].tokens
    BY <1>3, TokensAsked
  <1>5. Refusal(requests[i]) = "ok"
    BY <1>2 DEF Accepted
  <1>6. FitsContext(requests[i])
    BY <1>5 DEF Refusal, RefusalOfArguments, Malformed
  <1> QED BY <1>0, <1>2, <1>3, <1>4, <1>6 DEF FitsContext, Least

(* The requests of a work; the work of a split batch has one.              *)
LEMMA WorkRequests ==
  ASSUME NEW w \in Work
  PROVE  /\ w.requests \in Seq(Request)
         /\ w.slot > 0 => Len(w.requests) = 1
  BY DEF Work

(* The lock of a session is taken and given back by threads.               *)
LEMMA HolderType ==
  ASSUME SessionTypes, CallerTypes, [Next]_vars
  PROVE  holder' \in [Sessions -> Threads \cup {Nobody}]
  <1>1. \A S : Unlocked(S) \in [Sessions -> Threads \cup {Nobody}]
    BY DEF Unlocked, SessionTypes
  <1>2. \A S : \A thread \in Threads :
            Lock(thread, S) => holder' \in [Sessions -> Threads \cup {Nobody}]
    BY DEF Lock, SessionTypes
  <1>3. ASSUME NEW c \in Callers, RunDirect(c) \/ LockDirect(c)
        PROVE  holder' \in [Sessions -> Threads \cup {Nobody}]
    BY <1>1, <1>2, <1>3 DEF RunDirect, LockDirect, Threads
  <1>4. ASSUME NEW w \in Workers, Execute(w) \/ LockSession(w)
        PROVE  holder' \in [Sessions -> Threads \cup {Nobody}]
    BY <1>1, <1>2, <1>4 DEF Execute, LockSession, Threads
  <1>5. CASE UNCHANGED holder
    BY <1>5 DEF SessionTypes
  <1> QED
    BY <1>3, <1>4, <1>5
    DEF Next, vars, session_vars, CallerStep, SubmitStep, DirectStep, WorkerStep,
        Submit, TryEnqueueBatch, EnqueueSession, NotifyOne, Throw, StartDirect, Reset, CommitGeneration,
        Wait, Take, Leave, AcquireCompute, MeasureTeam, PrepareTeam,
        ReleaseSessions, NotifyAll, Complete, Stop, NotifyStop, Join

(* Every step keeps the sessions well typed.                               *)
LEMMA SessionsStep ==
  ASSUME SchedulerAssumption, SessionTypes, CallerTypes, WorkerTypes, [Next]_vars
  PROVE  SessionTypes'
  <1>1. ASSUME NEW c \in Callers, RunDirect(c)
        PROVE  /\ token_count' \in [Sessions -> Nat]
               /\ execution_failed' \in [Sessions -> BOOLEAN]
    <2>1. caller[c].requests \in Seq(Request)
      BY DEF CallerTypes
    <2> QED BY <1>1, <2>1, RunTypes DEF RunDirect
  <1>2. ASSUME NEW w \in Workers, Execute(w)
        PROVE  /\ token_count' \in [Sessions -> Nat]
               /\ execution_failed' \in [Sessions -> BOOLEAN]
    <2>1. work[w].requests \in Seq(Request)
      BY WorkRequests DEF WorkerTypes
    <2> QED BY <1>2, <2>1, RunTypes DEF Execute
  <1>3. ASSUME NEW c \in Callers, Reset(c)
        PROVE  /\ token_count' \in [Sessions -> Nat]
               /\ execution_failed' \in [Sessions -> BOOLEAN]
    BY <1>3 DEF Reset, SessionTypes
  <1>4. ASSUME NEW c \in Callers, CommitGeneration(c)
        PROVE  /\ token_count' \in [Sessions -> Nat]
               /\ execution_failed' \in [Sessions -> BOOLEAN]
    <2>1. PICK requests \in DirectCalls :
              LET s == requests[1].session
              IN  /\ Len(requests) = 1
                  /\ token_count' = [token_count EXCEPT ![s] = @ + requests[1].tokens]
                  /\ execution_failed' = [execution_failed EXCEPT ![s] = FALSE]
      BY <1>4 DEF CommitGeneration
    <2>2. requests \in Seq(Request)
      BY <2>1 DEF SchedulerAssumption
    <2>3. requests[1] \in Request
      BY <2>1, <2>2, ElementOfSeq
    <2>4. requests[1].tokens \in Nat
      BY <2>3 DEF Request
    <2>5. \A s \in Sessions : token_count[s] + requests[1].tokens \in Nat
      BY <2>4 DEF SessionTypes
    <2> QED BY <2>1, <2>5 DEF SessionTypes
  <1>5. ASSUME UNCHANGED <<token_count, execution_failed>>
        PROVE  /\ token_count' \in [Sessions -> Nat]
               /\ execution_failed' \in [Sessions -> BOOLEAN]
    BY <1>5 DEF SessionTypes
  <1>6. /\ token_count' \in [Sessions -> Nat]
        /\ execution_failed' \in [Sessions -> BOOLEAN]
    BY <1>1, <1>2, <1>3, <1>4, <1>5, SessionSteps
  <1> QED BY <1>6, HolderType DEF SessionTypes

(* A step that lengthens a session respects the context, unless it commits *)
(* a speculative generation.                                               *)
LEMMA LongerFits ==
  ASSUME SchedulerAssumption, SessionTypes, CallerTypes, WorkerTypes, [Next]_vars,
         NEW s \in Sessions, ContextLength > 0, token_count'[s] > token_count[s]
  PROVE  token_count'[s] <= ContextLength \/ \E c \in Callers : CommitGeneration(c)
  <1>0. token_count[s] \in Nat /\ ContextLength \in Nat
    BY DEF SessionTypes, SchedulerAssumption
  <1>1. ASSUME NEW c \in Callers, RunDirect(c)
        PROVE  token_count'[s] <= ContextLength
    <2>1. caller[c].requests \in Seq(Request)
      BY DEF CallerTypes
    <2> QED BY <1>1, <2>1, RunFits DEF RunDirect
  <1>2. ASSUME NEW w \in Workers, Execute(w)
        PROVE  token_count'[s] <= ContextLength
    <2>1. work[w].requests \in Seq(Request)
      BY WorkRequests DEF WorkerTypes
    <2> QED BY <1>2, <2>1, RunFits DEF Execute
  <1>3. ASSUME NEW c \in Callers, Reset(c)
        PROVE  token_count'[s] <= ContextLength
    <2>1. token_count'[s] \in {0, token_count[s]}
      BY <1>3 DEF Reset, SessionTypes
    <2> QED BY <1>0, <2>1
  <1>4. CASE UNCHANGED <<token_count, execution_failed>>
    BY <1>0, <1>4
  <1> QED BY <1>1, <1>2, <1>3, <1>4, SessionSteps

-----------------------------------------------------------------------------
(* Submissions.                                                            *)

(* The parts of a submission.                                              *)
LEMMA SubmissionTypes ==
  ASSUME SchedulerAssumption, NEW sub \in Submissions
  PROVE  /\ sub.kind \in {"prefill", "decode"} /\ sub.requests \in Seq(Request)
         /\ DOMAIN sub.requests = 1 .. Len(sub.requests) /\ Len(sub.requests) \in Nat
  <1>1. sub \in Submission
    BY DEF SchedulerAssumption
  <1>2. sub.kind \in {"prefill", "decode"} /\ sub.requests \in Seq(Request)
    BY <1>1 DEF Submission
  <1> QED BY <1>2, LenProperties

(* A list of equal errors, one for each request.                           *)
LEMMA AllFailType ==
  ASSUME NEW requests \in Seq(Request), NEW code \in Code
  PROVE  AllFail(requests, code) \in Seq(Result)
  <1>1. Failure(code) \in Result
    BY DEF Failure, Result, Code
  <1>2. DOMAIN requests = 1 .. Len(requests) /\ Len(requests) \in Nat
    BY LenProperties
  <1>3. AllFail(requests, code) \in [1 .. Len(requests) -> Result]
    BY <1>1, <1>2 DEF AllFail
  <1> QED BY <1>2, <1>3, SeqDef

-----------------------------------------------------------------------------
(* The queues.                                                             *)

(* The closures that a submission makes of its batch are work.             *)
LEMMA WorkOfBatch ==
  ASSUME BatchTypes, NEW b \in DOMAIN batches
  PROVE  /\ WholeBatch(b) \in Work
         /\ \A i \in DOMAIN batches[b].requests : OneRequest(b, i) \in Work
  <1>1. batches[b] \in BatchRecord /\ b \in Nat
    BY ElementOfSeq, LenProperties DEF BatchTypes
  <1>2. batches[b].kind \in {"prefill", "decode"} /\ batches[b].requests \in Seq(Request)
    BY <1>1 DEF BatchRecord
  <1>3. WholeBatch(b) \in Work
    BY <1>1, <1>2 DEF WholeBatch, Work
  <1>4. ASSUME NEW i \in DOMAIN batches[b].requests
        PROVE  OneRequest(b, i) \in Work
    <2>1. i \in Nat /\ batches[b].requests[i] \in Request
      BY <1>2, ElementOfSeq, LenProperties
    <2>2. /\ <<batches[b].requests[i]>> \in Seq(Request)
          /\ Len(<<batches[b].requests[i]>>) = 1
      BY <2>1
    <2> QED BY <1>1, <1>2, <2>1, <2>2 DEF OneRequest, Work
  <1> QED BY <1>3, <1>4

(* Reserving sessions of the scheduler keeps what was pending.             *)
LEMMA ReserveTypes ==
  ASSUME QueueTypes, NEW S \in SUBSET Sessions
  PROVE  /\ DOMAIN Reserve(S) = Reserved \cup S
         /\ DOMAIN Reserve(S) \subseteq Sessions
         /\ Reserve(S) \in [DOMAIN Reserve(S) -> Seq(Work)]
  <1>1. << >> \in Seq(Work)
    OBVIOUS
  <1>2. \A s \in Reserved : session_queues[s] \in Seq(Work)
    BY DEF QueueTypes
  <1> QED BY <1>1, <1>2 DEF Reserve, QueueTypes

(* A submission puts work of its batch in the queues and nothing else.     *)
LEMMA SubmitKeepsQueues ==
  ASSUME QueueTypes, BatchTypes, CallersSane, NEW c \in Callers,
         TryEnqueueBatch(c) \/ EnqueueSession(c)
  PROVE  QueueTypes'
  <1> DEFINE b == caller[c].batch
             requests == caller[c].requests
             request == requests[caller[c].slot]
  <1>1. Submits(c)
    BY DEF CallersSane, TryEnqueueBatch, EnqueueSession, Submitting
  <1>2. /\ b \in DOMAIN batches /\ caller[c].slot \in DOMAIN batches[b].requests
        /\ SessionsIn(requests) \in SUBSET Sessions
        /\ request.session \in Sessions
    BY <1>1 DEF Submits, SessionsIn
  <1>3. /\ WholeBatch(b) \in Work
        /\ OneRequest(b, caller[c].slot) \in Work
    BY <1>2, WorkOfBatch
  <1>4. queue \in Seq(Work) /\ \A x \in Work : Append(queue, x) \in Seq(Work)
    BY AppendProperties DEF QueueTypes
  <1>5. CASE TryEnqueueBatch(c)
    <2>1. CASE UNCHANGED queue_vars
      BY <2>1 DEF queue_vars, QueueTypes, Reserved
    <2>2. CASE /\ session_queues' = Reserve(SessionsIn(requests))
               /\ queue' = Append(queue, WholeBatch(b))
      <3>1. queue' \in Seq(Work)
        BY <1>3, <1>4, <2>2
      <3> QED BY <1>2, <2>2, <3>1, ReserveTypes DEF QueueTypes, Reserved
    <2> QED BY <1>5, <2>1, <2>2 DEF TryEnqueueBatch, queue_vars
  <1>6. CASE EnqueueSession(c)
    <2> DEFINE s == request.session
               new == IF batches[b].kind = "prefill" THEN WholeBatch(b)
                      ELSE OneRequest(b, caller[c].slot)
    <2>1. new \in Work
      BY <1>3
    <2>2. CASE s \in Reserved
      <3>1. /\ session_queues' = [session_queues EXCEPT ![s] = Append(@, new)]
            /\ UNCHANGED queue
        BY <1>6, <2>2 DEF EnqueueSession, Behind
      <3>2. Append(session_queues[s], new) \in Seq(Work)
        BY <2>1, <2>2, AppendProperties DEF QueueTypes
      <3> HIDE DEF new
      <3> QED BY <2>2, <3>1, <3>2 DEF QueueTypes, Reserved
    <2>3. CASE s \notin Reserved
      <3>1. session_queues' = Reserve({s}) /\ queue' = Append(queue, new)
        BY <1>6, <2>3 DEF EnqueueSession
      <3>2. queue' \in Seq(Work)
        BY <1>4, <2>1, <3>1
      <3> HIDE DEF new
      <3> QED BY <1>2, <3>1, <3>2, ReserveTypes DEF QueueTypes, Reserved
    <2> QED BY <2>2, <2>3
  <1> QED BY <1>5, <1>6

(* What release_sessions makes ready is work that was waiting.             *)
LEMMA ReleaseKeepsQueues ==
  ASSUME SchedulerAssumption, QueueTypes, NEW w \in Workers, ReleaseSessions(w)
  PROVE  QueueTypes'
  <1> DEFINE S == SessionsOf(work[w])
             kept == Reserved \ (S \ Waiting(S))
  <1>1. PICK first \in Ascending(Waiting(S)) :
            /\ session_queues' = [s \in kept |->
                   IF s \in S THEN Tail(session_queues[s]) ELSE session_queues[s]]
            /\ queue' = queue \o [i \in DOMAIN first |-> Head(session_queues[first[i]])]
    BY DEF ReleaseSessions
  <1>2. \A s \in Reserved : session_queues[s] \in Seq(Work)
    BY DEF QueueTypes
  <1>3. \A s \in Waiting(S) : /\ Head(session_queues[s]) \in Work
                              /\ Tail(session_queues[s]) \in Seq(Work)
    BY <1>2, HeadTailProperties DEF Waiting
  <1>4. [i \in DOMAIN first |-> Head(session_queues[first[i]])] \in Seq(Work)
    <2>0. Waiting(S) \subseteq Sessions /\ IsFiniteSet(Sessions)
      BY DEF Waiting, QueueTypes, SchedulerAssumption
    <2>1. PICK n \in Nat : first \in [1 .. n -> Waiting(S)]
      BY <1>1, <2>0, FS_Subset, FS_CardinalityType DEF Ascending
    <2>2. [i \in DOMAIN first |-> Head(session_queues[first[i]])] \in [1 .. n -> Work]
      BY <1>3, <2>1
    <2> QED BY <2>2, SeqDef
  <1>5. queue' \in Seq(Work)
    BY <1>1, <1>4, ConcatProperties DEF QueueTypes
  <1>6. session_queues' \in [kept -> Seq(Work)]
    <2>1. \A s \in kept : s \in S => s \in Waiting(S)
      BY DEF Waiting
    <2> QED BY <1>1, <1>2, <1>3, <2>1
  <1> QED BY <1>5, <1>6 DEF QueueTypes, Reserved

(* Every step keeps the queues well typed.                                 *)
LEMMA QueueTypesStep ==
  ASSUME SchedulerAssumption, QueueTypes, BatchTypes, CallersSane, [Next]_vars
  PROVE  QueueTypes'
  <1>1. ASSUME NEW w \in Workers, Take(w)
        PROVE  QueueTypes'
    <2>1. /\ queue # << >> /\ queue' = Tail(queue) /\ UNCHANGED session_queues
      BY <1>1 DEF Take
    <2>2. queue' \in Seq(Work)
      BY <2>1, HeadTailProperties DEF QueueTypes
    <2> QED BY <2>1, <2>2 DEF QueueTypes, Reserved
  <1>2. ASSUME UNCHANGED queue_vars
        PROVE  QueueTypes'
    BY <1>2 DEF queue_vars, QueueTypes, Reserved
  <1> QED BY <1>1, <1>2, QueueSteps, SubmitKeepsQueues, ReleaseKeepsQueues

-----------------------------------------------------------------------------
(* The other types.                                                        *)

(* What Published makes of a batch is a batch.                             *)
LEMMA PublishedType ==
  ASSUME NEW batch \in BatchRecord, NEW slot, NEW results \in Seq(Result),
         slot # 0 => Len(results) = 1
  PROVE  Published(batch, slot, results) \in BatchRecord
  <1>1. CASE slot = 0
    BY <1>1 DEF Published, PublishedAfter, BatchRecord
  <1>2. CASE slot # 0
    <2> DEFINE filled == [i \in DOMAIN batch.requests |->
                             IF i = slot THEN results[1]
                             ELSE IF i \in DOMAIN batch.results THEN batch.results[i]
                             ELSE Failure("InternalError")]
    <2>1. results[1] \in Result
      BY <1>2, ElementOfSeq
    <2>2. Failure("InternalError") \in Result
      BY DEF Failure, Result, Code
    <2>3. \A i \in DOMAIN batch.results : batch.results[i] \in Result
      BY ElementOfSeq, LenProperties DEF BatchRecord
    <2>4. DOMAIN batch.requests = 1 .. Len(batch.requests) /\ Len(batch.requests) \in Nat
      BY LenProperties DEF BatchRecord
    <2>5. filled \in [1 .. Len(batch.requests) -> Result]
      BY <2>1, <2>2, <2>3, <2>4
    <2>6. filled \in Seq(Result)
      BY <2>4, <2>5, SeqDef
    <2>7. Published(batch, slot, results) =
              [batch EXCEPT !.results = filled, !.remaining = batch.remaining - 1,
                  !.promise = IF batch.remaining = 1 THEN "ready" ELSE batch.promise]
      BY <1>2 DEF Published, PublishedAfter
    <2> HIDE DEF filled
    <2>8. batch.remaining - 1 \in Int /\ batch.promise \in {"pending", "ready", "broken"}
      BY DEF BatchRecord
    <2> DEFINE promise == IF batch.remaining = 1 THEN "ready" ELSE batch.promise
    <2>9. promise \in {"pending", "ready", "broken"}
      BY <2>8
    <2> HIDE DEF promise
    <2> QED BY <2>6, <2>7, <2>8, <2>9 DEF BatchRecord, promise
  <1> QED BY <1>1, <1>2

(* A worker that has run its work has one result for each of its requests. *)
OutcomesSane ==
    \A w \in Workers :
        worker[w] \in {"release", "announce", "complete"} =>
            Len(outcome[w]) = Len(work[w].requests)

(* A batch as it is when it is submitted.                                  *)
LEMMA SubmittedBatch ==
  ASSUME SchedulerAssumption, NEW sub \in Submissions, NEW results \in Seq(Result),
         NEW promise \in {"pending", "ready"}
  PROVE  Batch(sub, promise, results) \in BatchRecord
  BY SubmissionTypes DEF Batch, BatchRecord

(* Every step keeps the batches well typed.                                *)
LEMMA BatchTypesStep ==
  ASSUME SchedulerAssumption, BatchTypes, CallerTypes, WorkerTypes, OutcomeTypes,
         CallersSane, OutcomesSane, [Next]_vars
  PROVE  batches' \in Seq(BatchRecord)
  <1>0. batches \in Seq(BatchRecord)
    BY DEF BatchTypes
  <1>1. ASSUME NEW c \in Callers, Submit(c)
        PROVE  batches' \in Seq(BatchRecord)
    <2>1. PICK sub \in Submissions :
              \/ batches' = Append(batches, Batch(sub, "ready",
                                AllFail(sub.requests, "InvalidArgument")))
              \/ batches' = Append(batches, Batch(sub, "pending", << >>))
      BY <1>1 DEF Submit
    <2>2. AllFail(sub.requests, "InvalidArgument") \in Seq(Result)
      BY SubmissionTypes, AllFailType DEF Code
    <2>3. Batch(sub, "ready", AllFail(sub.requests, "InvalidArgument")) \in BatchRecord
      BY <2>2, SubmittedBatch
    <2>5. << >> \in Seq(Result)
      OBVIOUS
    <2>4. Batch(sub, "pending", << >>) \in BatchRecord
      BY <2>5, SubmittedBatch
    <2> QED BY <1>0, <2>1, <2>3, <2>4, AppendProperties
  <1>2. ASSUME NEW c \in Callers, TryEnqueueBatch(c)
        PROVE  batches' \in Seq(BatchRecord)
    <2> DEFINE b == caller[c].batch
               new == [batches[b] EXCEPT !.promise = "ready",
                          !.results = AllFail(caller[c].requests, "InvalidArgument")]
    <2>1. b \in DOMAIN batches
      BY <1>2 DEF CallersSane, Submits, TryEnqueueBatch, Submitting
    <2>2. AllFail(caller[c].requests, "InvalidArgument") \in Seq(Result)
      BY AllFailType DEF CallerTypes, Code
    <2>5. batches[b] \in BatchRecord
      BY <1>0, <2>1, ElementOfSeq, LenProperties
    <2>3. new \in BatchRecord
      BY <2>2, <2>5 DEF BatchRecord
    <2>4. UNCHANGED batches \/ batches' = [batches EXCEPT ![b] = new]
      BY <1>2 DEF TryEnqueueBatch
    <2> HIDE DEF new
    <2> QED BY <1>0, <2>1, <2>3, <2>4, ExceptSeq, LenProperties
  <1>3. ASSUME NEW c \in Callers, Throw(c)
        PROVE  batches' \in Seq(BatchRecord)
    <2> DEFINE b == caller[c].batch
               new == [batches[b] EXCEPT !.promise = "broken"]
    <2>1. b \in DOMAIN batches
      BY <1>3 DEF CallersSane, Submits, Throw, Submitting
    <2>2. batches[b] \in BatchRecord
      BY <1>0, <2>1, ElementOfSeq, LenProperties
    <2>4. new \in BatchRecord
      BY <2>2 DEF BatchRecord
    <2>3. batches' = [batches EXCEPT ![b] = new]
      BY <1>3 DEF Throw
    <2> HIDE DEF new
    <2> QED BY <1>0, <2>1, <2>4, <2>3, ExceptSeq, LenProperties
  <1>4. ASSUME NEW w \in Workers, Complete(w)
        PROVE  batches' \in Seq(BatchRecord)
    <2> DEFINE b == work[w].batch
               new == Published(batches[b], work[w].slot, outcome[w])
    <2>1. batches' = [batches EXCEPT ![b] = new]
      BY <1>4 DEF Complete
    <2>2. CASE b \in DOMAIN batches
      <3>1. batches[b] \in BatchRecord
        BY <1>0, <2>2, ElementOfSeq, LenProperties
      <3>2. outcome[w] \in Seq(Result) /\ Len(outcome[w]) = Len(work[w].requests)
        BY <1>4 DEF Complete, OutcomeTypes, OutcomesSane
      <3>3. work[w].slot \in Nat /\ (work[w].slot > 0 => Len(work[w].requests) = 1)
        BY DEF WorkerTypes, Work
      <3>4. new \in BatchRecord
        BY <3>1, <3>2, <3>3, PublishedType
      <3> HIDE DEF new
      <3> QED BY <1>0, <2>1, <2>2, <3>4, ExceptSeq, LenProperties
    <2>3. CASE b \notin DOMAIN batches
      <3>1. batches \in [1 .. Len(batches) -> BatchRecord] /\ Len(batches) \in Nat
        BY <1>0, LenProperties, ElementOfSeq
      <3> HIDE DEF new
      <3>2. batches' \in [1 .. Len(batches) -> BatchRecord]
        BY <2>1, <2>3, <3>1
      <3> QED BY <3>1, <3>2, SeqDef
    <2> QED BY <2>2, <2>3
  <1> QED BY <1>0, <1>1, <1>2, <1>3, <1>4, BatchSteps

-----------------------------------------------------------------------------
(* Callers.                                                                *)

(* Every step keeps the callers well typed.                                *)
LEMMA CallerTypesStep ==
  ASSUME SchedulerAssumption, BatchTypes, CallerTypes, [Next]_vars
  PROVE  CallerTypes'
  <1> DEFINE Caller == [step : {"idle", "lock"} \cup Submitting,
                        batch : Nat, slot : Nat, requests : Seq(Request)]
  <1>0. caller \in [Callers -> Caller] /\ Idle \in Caller
    BY DEF CallerTypes, Idle, NoRequests
  <1>1. ASSUME NEW c \in Callers, Submit(c)
        PROVE  caller' \in [Callers -> Caller]
    <2>1. PICK sub \in Submissions :
              \/ UNCHANGED caller
              \/ \E step \in Submitting : caller' = [caller EXCEPT ![c] =
                     [step |-> step, batch |-> Len(batches) + 1, slot |-> 1,
                      requests |-> sub.requests]]
      BY <1>1 DEF Submit, Submitting
    <2>2. Len(batches) + 1 \in Nat /\ sub.requests \in Seq(Request)
      BY LenProperties, SubmissionTypes DEF BatchTypes
    <2>3. \A step \in Submitting :
              [step |-> step, batch |-> Len(batches) + 1, slot |-> 1,
               requests |-> sub.requests] \in Caller
      BY <2>2
    <2> HIDE DEF Caller
    <2> QED BY <1>0, <2>1, <2>3
  <1>2. ASSUME NEW c \in Callers, SubmitStep(c)
        PROVE  caller' \in [Callers -> Caller]
    <2>1. caller[c] \in Caller /\ Len(caller[c].requests) \in Nat
      BY <1>0, LenProperties
    <2>2. \A step \in Submitting, slot \in Nat :
              [caller[c] EXCEPT !.step = step, !.slot = slot] \in Caller
      BY <2>1
    <2>3. \/ caller' = [caller EXCEPT ![c] = Idle]
          \/ \E step \in Submitting, slot \in Nat :
                 caller' = [caller EXCEPT ![c] =
                               [caller[c] EXCEPT !.step = step, !.slot = slot]]
      <3>1. CASE TryEnqueueBatch(c)
        <4>1. \/ caller' = [caller EXCEPT ![c] = Idle]
              \/ caller' = [caller EXCEPT ![c] = [caller[c] EXCEPT
                               !.step = "notify", !.slot = Len(caller[c].requests)]]
              \/ caller' = [caller EXCEPT ![c] = [caller[c] EXCEPT !.step = "enqueue"]]
          BY <3>1 DEF TryEnqueueBatch
        <4>2. [caller[c] EXCEPT !.step = "enqueue"] =
                  [caller[c] EXCEPT !.step = "enqueue", !.slot = caller[c].slot]
          BY <2>1
        <4> QED BY <2>1, <4>1, <4>2 DEF Submitting
      <3>2. CASE EnqueueSession(c)
        <4>1. caller' = [caller EXCEPT ![c] = [caller[c] EXCEPT !.step = "notify"]]
          BY <3>2 DEF EnqueueSession
        <4>2. [caller[c] EXCEPT !.step = "notify"] =
                  [caller[c] EXCEPT !.step = "notify", !.slot = caller[c].slot]
          BY <2>1
        <4> QED BY <2>1, <4>1, <4>2 DEF Submitting
      <3>3. CASE NotifyOne(c)
        <4>1. \/ caller' = [caller EXCEPT ![c] = Idle]
              \/ caller' = [caller EXCEPT ![c] = [caller[c] EXCEPT
                               !.step = "enqueue", !.slot = caller[c].slot + 1]]
          BY <3>3 DEF NotifyOne
        <4>2. caller[c].slot + 1 \in Nat
          BY <2>1
        <4> QED BY <4>1, <4>2 DEF Submitting
      <3>4. CASE Throw(c)
        BY <3>4 DEF Throw
      <3> QED BY <1>2, <3>1, <3>2, <3>3, <3>4 DEF SubmitStep
    <2> QED BY <1>0, <2>2, <2>3, ZenonT(30)
  <1>3. ASSUME NEW c \in Callers, StartDirect(c)
        PROVE  caller' \in [Callers -> Caller]
    <2>1. PICK requests \in DirectCalls : caller' =
              [caller EXCEPT ![c] = [Idle EXCEPT !.step = "lock", !.requests = requests]]
      BY <1>3 DEF StartDirect
    <2>2. requests \in Seq(Request)
      BY DEF SchedulerAssumption
    <2>3. [Idle EXCEPT !.step = "lock", !.requests = requests] \in Caller
      BY <2>2 DEF Idle
    <2> QED BY <1>0, <2>1, <2>3
  <1>4. ASSUME NEW c \in Callers, RunDirect(c)
        PROVE  caller' \in [Callers -> Caller]
    BY <1>0, <1>4 DEF RunDirect
  <1>5. caller' \in [Callers -> Caller]
    BY <1>0, <1>1, <1>2, <1>3, <1>4, CallerSteps
  <1>6. direct_calls \in Nat
    BY DEF CallerTypes
  <1>7. UNCHANGED direct_calls \/ direct_calls' = direct_calls + 1
    BY DEF Next, vars, CallerStep, SubmitStep, DirectStep, WorkerStep,
         Submit, TryEnqueueBatch, EnqueueSession, NotifyOne, Throw, StartDirect,
         LockDirect, RunDirect, Reset, CommitGeneration, Wait, Take, Leave, AcquireCompute, MeasureTeam,
         PrepareTeam, LockSession, Execute, ReleaseSessions, NotifyAll, Complete,
         Stop, NotifyStop, Join
  <1> QED BY <1>5, <1>6, <1>7 DEF CallerTypes

(* Accepted batches stay, with the requests they came with.                *)
BatchesStay ==
    \A b \in DOMAIN batches :
        /\ b \in DOMAIN batches'
        /\ batches'[b].kind = batches[b].kind
        /\ batches'[b].requests = batches[b].requests

(* No step removes a batch or changes its kind or its requests.            *)
LEMMA BatchesStayStep ==
  ASSUME BatchTypes, [Next]_vars
  PROVE  BatchesStay
  <1>0. \A b \in DOMAIN batches : batches[b] \in BatchRecord
    BY ElementOfSeq, LenProperties DEF BatchTypes
  <1>1. ASSUME NEW x, batches' = Append(batches, x)
        PROVE  BatchesStay
    BY <1>1, LenProperties DEF BatchTypes, BatchesStay
  <1>2. ASSUME NEW c \in Callers, TryEnqueueBatch(c)
        PROVE  BatchesStay
    BY <1>0, <1>2 DEF TryEnqueueBatch, BatchesStay, BatchRecord
  <1>3. ASSUME NEW c \in Callers, Throw(c)
        PROVE  BatchesStay
    BY <1>0, <1>3 DEF Throw, BatchesStay, BatchRecord
  <1>4. ASSUME NEW w \in Workers, Complete(w)
        PROVE  BatchesStay
    <2>1. \A slot, results : \A batch \in BatchRecord :
              /\ Published(batch, slot, results).kind = batch.kind
              /\ Published(batch, slot, results).requests = batch.requests
      BY DEF Published, PublishedAfter, BatchRecord
    <2>2. batches' = [batches EXCEPT ![work[w].batch] =
                          Published(batches[work[w].batch], work[w].slot, outcome[w])]
      BY <1>4 DEF Complete
    <2> QED BY <1>0, <2>1, <2>2 DEF BatchesStay
  <1>5. ASSUME NEW c \in Callers, Submit(c)
        PROVE  BatchesStay
    BY <1>1, <1>5 DEF Submit
  <1>6. ASSUME UNCHANGED batches
        PROVE  BatchesStay
    BY <1>6 DEF BatchesStay
  <1> QED BY <1>2, <1>3, <1>4, <1>5, <1>6, BatchSteps

(* What is known of a caller that does not move stays true.                *)
LEMMA OthersStaySane ==
  ASSUME CallersSane, BatchesStay, NEW c \in Callers, UNCHANGED caller[c]
  PROVE  /\ caller'[c].step \in Submitting => Submits(c)'
         /\ caller'[c].step = "lock" => SessionsIn(caller'[c].requests) \subseteq Sessions
  <1>1. ASSUME caller[c].step \in Submitting
        PROVE  Submits(c)'
    <2>1. Submits(c)
      BY <1>1 DEF CallersSane
    <2>2. /\ caller[c].batch \in DOMAIN batches'
          /\ batches'[caller[c].batch].kind = batches[caller[c].batch].kind
          /\ batches'[caller[c].batch].requests = batches[caller[c].batch].requests
      BY <2>1 DEF Submits, BatchesStay
    <2> QED BY <2>1, <2>2 DEF Submits, SessionsIn
  <1> QED BY <1>1 DEF CallersSane

(* A list that is neither empty nor longer than one has one element.       *)
LEMMA OneElement ==
  ASSUME NEW S, NEW list \in Seq(S), NEW i \in DOMAIN list, ~(Len(list) > 1)
  PROVE  Len(list) = 1 /\ i = 1
  <1> DEFINE n == Len(list)
  <1>1. n \in Nat /\ i \in 1 .. n
    BY LenProperties
  <1>2. ~(n > 1)
    OBVIOUS
  <1> HIDE DEF n
  <1>3. n = 1 /\ i = 1
    BY <1>1, <1>2
  <1> QED BY <1>3 DEF n

(* A submission that is not refused starts with its first request.         *)
LEMMA SubmitSane ==
  ASSUME SchedulerAssumption, BatchTypes, CallerTypes, NEW c \in Callers, Submit(c)
  PROVE  caller'[c].step \in Submitting => Submits(c)'
  <1>1. PICK sub \in Submissions :
          /\ caller[c] = Idle
          /\ IF sub.requests = NoRequests \/ Refused(sub)
             THEN UNCHANGED caller
             ELSE /\ batches' = Append(batches, Batch(sub, "pending", << >>))
                  /\ caller' = [caller EXCEPT ![c] =
                         [step |-> IF AttemptsStage(sub) THEN "stage" ELSE "enqueue",
                          batch |-> Len(batches) + 1, slot |-> 1,
                          requests |-> sub.requests]]
    BY DEF Submit
  <1>2. CASE sub.requests = NoRequests \/ Refused(sub)
    BY <1>1, <1>2 DEF Idle, Submitting
  <1>3. CASE ~(sub.requests = NoRequests \/ Refused(sub))
    <2> DEFINE new == Batch(sub, "pending", << >>)
               step == IF AttemptsStage(sub) THEN "stage" ELSE "enqueue"
    <2>1. /\ batches' = Append(batches, new)
          /\ caller'[c] = [step |-> step, batch |-> Len(batches) + 1, slot |-> 1,
                           requests |-> sub.requests]
      BY <1>1, <1>3 DEF CallerTypes
    <2>2. /\ Len(batches) + 1 \in DOMAIN batches'
          /\ batches'[Len(batches) + 1] = new
      BY <2>1, LenProperties DEF BatchTypes
    <2>3. new.kind = sub.kind /\ new.requests = sub.requests
      BY DEF Batch
    <2> HIDE DEF new
    <2>4. /\ sub.kind \in {"prefill", "decode"} /\ sub.requests \in Seq(Request)
          /\ DOMAIN sub.requests = 1 .. Len(sub.requests) /\ Len(sub.requests) \in Nat
      BY SubmissionTypes
    <2>5. 1 \in DOMAIN sub.requests
      BY <1>3, <2>4, EmptySeq DEF NoRequests
    <2>6. ~HasNull(sub.requests)
      BY <1>3, <2>4 DEF Refused, PrefillRefused, DecodeRefused
    <2>7. SessionsIn(sub.requests) \subseteq Sessions
      <3>1. \A i \in DOMAIN sub.requests : sub.requests[i] \in Request
        BY <2>4, ElementOfSeq
      <3> QED BY <2>6, <3>1 DEF HasNull, SessionsIn, Request
    <2>8. sub.kind = "prefill" /\ step = "enqueue" => Len(sub.requests) = 1
      <3>1. sub.kind = "prefill" /\ ~AttemptsStage(sub) => ~(Len(sub.requests) > 1)
        BY DEF AttemptsStage
      <3>3. ~(Len(sub.requests) > 1) => Len(sub.requests) = 1
        BY <2>4, <2>5, OneElement
      <3> QED BY <3>1, <3>3
    <2>9. step # "notify"
      OBVIOUS
    <2> HIDE DEF step
    <2> QED BY <2>1, <2>2, <2>3, <2>5, <2>7, <2>8, <2>9 DEF Submits, SessionsIn
  <1> QED BY <1>2, <1>3

(* A submission in progress goes from request to request.                  *)
LEMMA SubmitStepSane ==
  ASSUME CallerTypes, CallersSane, BatchesStay, NEW c \in Callers, SubmitStep(c)
  PROVE  caller'[c].step \in Submitting => Submits(c)'
  <1> DEFINE b == caller[c].batch
             n == Len(caller[c].requests)
  <1>1. Submits(c)
    BY DEF CallersSane, SubmitStep, TryEnqueueBatch, EnqueueSession, NotifyOne, Throw,
           Submitting
  <1>2. /\ b \in DOMAIN batches /\ b \in DOMAIN batches'
        /\ batches'[b].kind = batches[b].kind
        /\ batches'[b].requests = batches[b].requests
    BY <1>1 DEF Submits, BatchesStay
  <1>3. /\ caller[c].requests \in Seq(Request) /\ n \in Nat
        /\ DOMAIN caller[c].requests = 1 .. n
        /\ caller[c].slot \in 1 .. n
    BY <1>1, LenProperties DEF CallerTypes, Submits
  <1>4. ASSUME NEW step \in Submitting, NEW slot \in 1 .. n,
               caller'[c] = [caller[c] EXCEPT !.step = step, !.slot = slot],
               batches[b].kind = "prefill" =>
                   /\ step = "enqueue" => n = 1
                   /\ step = "notify" => slot = n
        PROVE  Submits(c)'
    <2>1. /\ caller'[c].batch = b /\ caller'[c].requests = caller[c].requests
          /\ caller'[c].step = step /\ caller'[c].slot = slot
      BY <1>4 DEF CallerTypes
    <2> QED BY <1>1, <1>2, <1>3, <1>4, <2>1 DEF Submits, SessionsIn
  <1>5. CASE TryEnqueueBatch(c)
    <2>1. CASE caller'[c] = Idle
      <3>1. caller'[c].step = "idle"
        BY <2>1 DEF Idle
      <3> QED BY <3>1 DEF Submitting
    <2>2. CASE caller'[c] = [caller[c] EXCEPT !.step = "notify", !.slot = n]
      <3>1. n \in 1 .. n /\ "notify" \in Submitting
        BY <1>3 DEF Submitting
      <3> QED BY <1>4, <2>2, <3>1
    <2>3. CASE /\ caller'[c] = [caller[c] EXCEPT !.step = "enqueue"]
               /\ batches[b].kind # "prefill"
      <3>1. caller'[c] = [caller[c] EXCEPT !.step = "enqueue", !.slot = caller[c].slot]
        BY <2>3 DEF CallerTypes
      <3> QED BY <1>3, <1>4, <2>3, <3>1 DEF Submitting
    <2> QED BY <1>5, <2>1, <2>2, <2>3 DEF TryEnqueueBatch, CallerTypes
  <1>6. CASE EnqueueSession(c)
    <2>1. caller'[c] = [caller[c] EXCEPT !.step = "notify", !.slot = caller[c].slot]
      BY <1>6 DEF EnqueueSession, CallerTypes
    <2>2. batches[b].kind = "prefill" => caller[c].slot = n
      <3>1. caller[c].step = "enqueue"
        BY <1>6 DEF EnqueueSession
      <3>2. batches[b].kind = "prefill" => n = 1
        BY <1>1, <3>1 DEF Submits
      <3> HIDE DEF n
      <3> QED BY <1>3, <3>2
    <2> QED BY <1>3, <1>4, <2>1, <2>2 DEF Submitting
  <1>7. CASE NotifyOne(c)
    <2>1. CASE caller[c].slot < n
      <3>1. caller'[c] = [caller[c] EXCEPT !.step = "enqueue",
                                           !.slot = caller[c].slot + 1]
        BY <1>7, <2>1 DEF NotifyOne, CallerTypes
      <3>2. batches[b].kind # "prefill"
        <4>1. caller[c].step = "notify"
          BY <1>7 DEF NotifyOne
        <4> QED BY <1>1, <1>3, <2>1, <4>1 DEF Submits
      <3>3. caller[c].slot + 1 \in 1 .. n /\ "enqueue" \in Submitting
        BY <1>3, <2>1 DEF Submitting
      <3> QED BY <1>4, <3>1, <3>2, <3>3
    <2>2. CASE ~(caller[c].slot < n)
      BY <1>7, <2>2 DEF NotifyOne, CallerTypes, Idle, Submitting
    <2> QED BY <2>1, <2>2
  <1>8. CASE Throw(c)
    BY <1>8 DEF Throw, CallerTypes, Idle, Submitting
  <1> QED BY <1>5, <1>6, <1>7, <1>8 DEF SubmitStep

(* Every step keeps the callers in line with the batches they submit.      *)
LEMMA CallersSaneStep ==
  ASSUME SchedulerAssumption, BatchTypes, CallerTypes, CallersSane, [Next]_vars
  PROVE  CallersSane'
  <1>1. BatchesStay
    BY BatchesStayStep
  <1> SUFFICES ASSUME NEW c \in Callers
               PROVE  /\ caller'[c].step \in Submitting => Submits(c)'
                      /\ caller'[c].step = "lock" =>
                             SessionsIn(caller'[c].requests) \subseteq Sessions
    BY DEF CallersSane, SessionsIn
  <1>2. CASE UNCHANGED caller[c]
    BY <1>1, <1>2, OthersStaySane
  <1>3. CASE Submit(c)
    <2>1. caller'[c].step # "lock"
      BY <1>3 DEF Submit, CallerTypes, Idle
    <2> QED BY <1>3, <2>1, SubmitSane
  <1>4. CASE SubmitStep(c)
    <2>1. caller'[c].step # "lock"
      <3>1. \/ caller'[c] = Idle
            \/ caller'[c].step \in Submitting
        <4>1. CASE TryEnqueueBatch(c)
          BY <4>1 DEF TryEnqueueBatch, CallerTypes, Submitting
        <4>2. CASE EnqueueSession(c)
          BY <4>2 DEF EnqueueSession, CallerTypes, Submitting
        <4>3. CASE NotifyOne(c)
          BY <4>3 DEF NotifyOne, CallerTypes, Submitting
        <4>4. CASE Throw(c)
          BY <4>4 DEF Throw, CallerTypes
        <4> QED BY <1>4, <4>1, <4>2, <4>3, <4>4 DEF SubmitStep
      <3> QED BY <3>1 DEF Idle, Submitting
    <2> QED BY <1>1, <1>4, <2>1, SubmitStepSane
  <1>5. CASE StartDirect(c)
    <2>1. PICK requests \in DirectCalls :
              caller'[c] = [Idle EXCEPT !.step = "lock", !.requests = requests]
      BY <1>5 DEF StartDirect, CallerTypes
    <2>2. SessionsIn(requests) \subseteq Sessions
      BY DEF SchedulerAssumption, SessionsIn
    <2> QED BY <2>1, <2>2 DEF Idle, Submitting
  <1>6. CASE RunDirect(c)
    BY <1>6 DEF RunDirect, CallerTypes, Idle, Submitting
  <1>7. \A d \in Callers \ {c} :
            Submit(d) \/ SubmitStep(d) \/ StartDirect(d) \/ RunDirect(d) => UNCHANGED caller[c]
    BY ZenonT(30) DEF Submit, SubmitStep, TryEnqueueBatch, EnqueueSession, NotifyOne, Throw,
           StartDirect, RunDirect, CallerTypes
  <1> QED BY <1>2, <1>3, <1>4, <1>5, <1>6, <1>7, CallerSteps

-----------------------------------------------------------------------------
(* Workers.                                                                *)

WorkerStates == {"ready", "asleep", "lease", "measure", "extend", "lock",
                 "release", "announce", "complete", "exited"}

(* Waking the sleepers keeps the states of the workers well typed.         *)
LEMMA WakeAllType ==
  ASSUME NEW next \in [Workers -> WorkerStates]
  PROVE  WakeAll(next) \in [Workers -> WorkerStates]
  BY DEF WakeAll, WorkerStates

(* Every step keeps the workers well typed.                                *)
LEMMA WorkerTypesStep ==
  ASSUME QueueTypes, WorkerTypes, [Next]_vars
  PROVE  WorkerTypes'
  <1>0. worker \in [Workers -> WorkerStates] /\ work \in [Workers -> Work]
    BY DEF WorkerTypes, WorkerStates
  <1>1. ASSUME NEW w \in Workers, WorkerStep(w)
        PROVE  worker' \in [Workers -> WorkerStates]
    <2>1. \A state \in WorkerStates :
              [worker EXCEPT ![w] = state] \in [Workers -> WorkerStates]
      BY <1>0
    <2>2. CASE NotifyAll(w)
      <3>1. "complete" \in WorkerStates
        BY DEF WorkerStates
      <3> QED BY <2>1, <2>2, <3>1, WakeAllType DEF NotifyAll
    <2>3. CASE AcquireCompute(w)
      <3>1. \/ worker' = [worker EXCEPT ![w] = "measure"]
            \/ worker' = [worker EXCEPT ![w] = "lock"]
        BY <2>3 DEF AcquireCompute
      <3> QED BY <2>1, <3>1 DEF WorkerStates
    <2>4. CASE LockSession(w)
      BY <1>0, <2>4 DEF LockSession
    <2>5. CASE \/ Wait(w) \/ Take(w) \/ Leave(w) \/ MeasureTeam(w) \/ PrepareTeam(w)
               \/ Execute(w) \/ ReleaseSessions(w) \/ Complete(w)
      <3>1. \E state \in WorkerStates : worker' = [worker EXCEPT ![w] = state]
        BY <2>5 DEF Wait, Take, Leave, MeasureTeam, PrepareTeam, Execute,
                    ReleaseSessions, Complete, WorkerStates
      <3> QED BY <2>1, <3>1
    <2> QED BY <1>1, <2>2, <2>3, <2>4, <2>5 DEF WorkerStep
  <1>2. ASSUME NEW c \in Callers, NotifyOne(c)
        PROVE  worker' \in [Workers -> WorkerStates]
    BY <1>0, <1>2 DEF NotifyOne, WorkerStates
  <1>3. ASSUME NotifyStop
        PROVE  worker' \in [Workers -> WorkerStates]
    BY <1>0, <1>3, WakeAllType DEF NotifyStop
  <1>4. worker' \in [Workers -> WorkerStates]
    <2>1. ASSUME UNCHANGED worker
          PROVE  worker' \in [Workers -> WorkerStates]
      BY <1>0, <2>1
    <2>2. \/ UNCHANGED worker
          \/ \E w \in Workers : WorkerStep(w)
          \/ \E c \in Callers : NotifyOne(c)
          \/ NotifyStop
      BY DEF Next, vars, CallerStep, SubmitStep, DirectStep, Submit, TryEnqueueBatch,
             EnqueueSession, Throw, StartDirect, LockDirect, RunDirect, Reset, CommitGeneration, Stop, Join
    <2> QED BY <1>1, <1>2, <1>3, <2>1, <2>2
  <1>5. ASSUME NEW w \in Workers, Take(w)
        PROVE  work' \in [Workers -> Work]
    <2>1. Head(queue) \in Work
      BY <1>5, HeadTailProperties DEF Take, QueueTypes
    <2> QED BY <1>0, <1>5, <2>1 DEF Take
  <1>6. ASSUME NEW w \in Workers, Complete(w)
        PROVE  work' \in [Workers -> Work]
    <2>1. << >> \in Seq(Request)
      OBVIOUS
    <2>2. NoWork \in Work
      BY <2>1 DEF NoWork, NoRequests, Work
    <2> QED BY <1>0, <1>6, <2>2 DEF Complete
  <1>7. work' \in [Workers -> Work]
    <2>1. \/ UNCHANGED work
          \/ \E w \in Workers : Take(w) \/ Complete(w)
      BY DEF Next, vars, CallerStep, SubmitStep, DirectStep, WorkerStep, Submit,
             TryEnqueueBatch, EnqueueSession, NotifyOne, Throw, StartDirect, LockDirect,
             RunDirect, Reset, CommitGeneration, Wait, Leave, AcquireCompute, MeasureTeam, PrepareTeam,
             LockSession, Execute, ReleaseSessions, NotifyAll, Stop, NotifyStop, Join
    <2> QED BY <1>0, <1>5, <1>6, <2>1
  <1>8. shutdown' \in {"no", "flagged", "notified", "joined"}
    <2>1. shutdown' \in {shutdown, "flagged", "notified", "joined"}
      BY DEF Next, vars, CallerStep, SubmitStep, DirectStep, WorkerStep, Submit,
             TryEnqueueBatch, EnqueueSession, NotifyOne, Throw, StartDirect, LockDirect,
             RunDirect, Reset, CommitGeneration, Wait, Take, Leave, AcquireCompute, MeasureTeam,
             PrepareTeam, LockSession, Execute, ReleaseSessions, NotifyAll, Complete,
             Stop, NotifyStop, Join
    <2> QED BY <2>1 DEF WorkerTypes
  <1> QED BY <1>4, <1>7, <1>8 DEF WorkerTypes, WorkerStates

(* Work that ran was work of a worker.                                     *)
LEMMA ExecutedStep ==
  ASSUME BatchTypes, WorkerTypes, [Next]_vars
  PROVE  executed' \subseteq Work
  <1>1. ASSUME NEW w \in Workers, Execute(w)
        PROVE  executed' \subseteq Work
    BY <1>1 DEF Execute, BatchTypes, WorkerTypes
  <1>2. \/ UNCHANGED executed
        \/ \E w \in Workers : Execute(w)
    BY DEF Next, vars, CallerStep, SubmitStep, DirectStep, WorkerStep, Submit,
           TryEnqueueBatch, EnqueueSession, NotifyOne, Throw, StartDirect, LockDirect,
           RunDirect, Reset, CommitGeneration, Wait, Take, Leave, AcquireCompute, MeasureTeam,
           PrepareTeam, LockSession, ReleaseSessions, NotifyAll, Complete,
           Stop, NotifyStop, Join
  <1> QED BY <1>1, <1>2 DEF BatchTypes

-----------------------------------------------------------------------------
(* Results.                                                                *)

(* A pass makes one result for each request.                               *)
LEMMA ResultsType ==
  ASSUME SessionTypes, NEW requests \in Seq(Request), NEW kind, NEW code \in Code,
         SessionsIn(requests) \subseteq Sessions
  PROVE  /\ Results(kind, requests, code) \in Seq(Result)
         /\ Len(Results(kind, requests, code)) = Len(requests)
  <1>1. DOMAIN requests = 1 .. Len(requests) /\ Len(requests) \in Nat
    BY LenProperties
  <1>2. \A i \in 1 .. Len(requests) : Success(kind, requests[i]) \in Result
    <2> SUFFICES ASSUME NEW i \in 1 .. Len(requests)
                 PROVE  Success(kind, requests[i]) \in Result
      OBVIOUS
    <2>1. requests[i] \in Request /\ requests[i].session \in Sessions
      BY <1>1, ElementOfSeq DEF SessionsIn
    <2>2. token_count[requests[i].session] \in Nat /\ requests[i].tokens \in Nat
      BY <2>1 DEF SessionTypes, Request
    <2> QED BY <2>1, <2>2 DEF Success, Result, Code
  <1>3. \A i \in 1 .. Len(requests) : Failure(code) \in Result
    BY DEF Failure, Result, Code
  <1>4. Results(kind, requests, code) \in [1 .. Len(requests) -> Result]
    BY <1>1, <1>2, <1>3 DEF Results, AllFail
  <1> HIDE DEF Results
  <1>5. Results(kind, requests, code) \in Seq(Result)
    BY <1>1, <1>4, SeqDef
  <1>6. 1 .. Len(requests) = 1 .. Len(Results(kind, requests, code))
    BY <1>4, <1>5, LenProperties
  <1> QED BY <1>1, <1>5, <1>6, LenProperties

(* What the reservations say of the sessions of work under way.            *)
LEMMA BusySessions ==
  ASSUME QueueTypes, ReservationExact, NEW w \in Busy
  PROVE  SessionsOf(work[w]) \subseteq Sessions
  BY DEF QueueTypes, ReservationExact

(* Every step keeps one result for each request until it is published.     *)
LEMMA OutcomesStep ==
  ASSUME QueueTypes, WorkerTypes, OutcomeTypes, SessionTypes, OutcomesSane,
         ReservationExact, [Next]_vars
  PROVE  OutcomeTypes' /\ OutcomesSane'
  <1>1. ASSUME NEW w \in Workers, Execute(w)
        PROVE  OutcomeTypes' /\ OutcomesSane'
    <2>1. w \in Busy
      BY <1>1 DEF Execute, Busy
    <2>2. work[w].requests \in Seq(Request) /\ SessionsIn(work[w].requests) \subseteq Sessions
      BY <2>1, BusySessions, WorkRequests DEF WorkerTypes, SessionsOf
    <2>3. PICK code \in Code :
              outcome' = [outcome EXCEPT ![w] = Results(work[w].kind, work[w].requests, code)]
      BY <1>1 DEF Execute
    <2> DEFINE results == Results(work[w].kind, work[w].requests, code)
    <2>4. results \in Seq(Result) /\ Len(results) = Len(work[w].requests)
      BY <2>2, ResultsType
    <2> HIDE DEF results
    <2>5. outcome' = [outcome EXCEPT ![w] = results]
      BY <2>3 DEF results
    <2>6. worker' = [worker EXCEPT ![w] = "release"] /\ UNCHANGED work
      BY <1>1 DEF Execute
    <2> QED BY <2>4, <2>5, <2>6 DEF OutcomeTypes, OutcomesSane, WorkerTypes
  <1>2. ASSUME NEW w \in Workers, Complete(w)
        PROVE  OutcomeTypes' /\ OutcomesSane'
    <2>1. << >> \in Seq(Result)
      OBVIOUS
    <2>2. /\ outcome' = [outcome EXCEPT ![w] = << >>]
          /\ work' = [work EXCEPT ![w] = NoWork]
          /\ worker' = [worker EXCEPT ![w] = "ready"]
      BY <1>2 DEF Complete
    <2> QED BY <2>1, <2>2 DEF OutcomeTypes, OutcomesSane, WorkerTypes
  <1>3. ASSUME UNCHANGED <<outcome, work>>,
               \A w \in Workers : worker'[w] \in {"release", "announce", "complete"} =>
                   worker[w] \in {"release", "announce", "complete"}
        PROVE  OutcomeTypes' /\ OutcomesSane'
    BY <1>3 DEF OutcomeTypes, OutcomesSane
  <1>4. ASSUME NEW w \in Workers, Take(w)
        PROVE  OutcomeTypes' /\ OutcomesSane'
    <2>1. /\ UNCHANGED outcome /\ worker' = [worker EXCEPT ![w] = "lease"]
          /\ work' = [work EXCEPT ![w] = Head(queue)]
      BY <1>4 DEF Take
    <2> QED BY <2>1 DEF OutcomeTypes, OutcomesSane, WorkerTypes
  <1>5. ASSUME NEW w \in Workers,
               Wait(w) \/ Leave(w) \/ AcquireCompute(w) \/ MeasureTeam(w)
                 \/ PrepareTeam(w) \/ LockSession(w) \/ ReleaseSessions(w) \/ NotifyAll(w)
        PROVE  OutcomeTypes' /\ OutcomesSane'
    <2>1. UNCHANGED <<outcome, work>>
      BY <1>5 DEF Wait, Leave, AcquireCompute, MeasureTeam, PrepareTeam, LockSession,
                  ReleaseSessions, NotifyAll
    <2>2. CASE NotifyAll(w)
      <3>1. worker' = WakeAll([worker EXCEPT ![w] = "complete"]) /\ worker[w] = "announce"
        BY <2>2 DEF NotifyAll
      <3> QED BY <1>3, <2>1, <3>1 DEF WakeAll, WorkerTypes
    <2>3. CASE ReleaseSessions(w)
      BY <1>3, <2>1, <2>3 DEF ReleaseSessions, WorkerTypes
    <2>4. CASE Wait(w) \/ Leave(w) \/ AcquireCompute(w) \/ MeasureTeam(w)
                 \/ PrepareTeam(w) \/ LockSession(w)
      <3>1. \E state : /\ worker' = [worker EXCEPT ![w] = state]
                       /\ state \notin {"release", "announce", "complete"}
        <4>1. CASE LockSession(w)
          BY <4>1 DEF LockSession, WorkerTypes
        <4>2. CASE AcquireCompute(w)
          <5>1. \/ worker' = [worker EXCEPT ![w] = "measure"]
                \/ worker' = [worker EXCEPT ![w] = "lock"]
            BY <4>2 DEF AcquireCompute
          <5> QED BY <5>1
        <4> QED BY <2>4, <4>1, <4>2 DEF Wait, Leave, MeasureTeam, PrepareTeam
      <3> QED BY <1>3, <2>1, <3>1 DEF WorkerTypes
    <2> QED BY <1>5, <2>2, <2>3, <2>4
  <1>6. ASSUME NEW c \in Callers, NotifyOne(c)
        PROVE  OutcomeTypes' /\ OutcomesSane'
    BY <1>3, <1>6 DEF NotifyOne, WorkerTypes
  <1>7. ASSUME NotifyStop
        PROVE  OutcomeTypes' /\ OutcomesSane'
    BY <1>3, <1>7 DEF NotifyStop, WakeAll, WorkerTypes
  <1>8. ASSUME UNCHANGED <<outcome, work, worker>>
        PROVE  OutcomeTypes' /\ OutcomesSane'
    BY <1>8 DEF OutcomeTypes, OutcomesSane
  <1>9. \/ \E c \in Callers : NotifyOne(c)
        \/ NotifyStop
        \/ UNCHANGED <<outcome, work, worker>>
        \/ \E w \in Workers : WorkerStep(w)
    BY ZenonT(30) DEF Next, vars, CallerStep, SubmitStep, DirectStep, Submit, TryEnqueueBatch,
           EnqueueSession, Throw, StartDirect, LockDirect, RunDirect, Reset, CommitGeneration,
           Stop, Join
  <1> QED BY <1>1, <1>2, <1>4, <1>5, <1>6, <1>7, <1>8, <1>9 DEF WorkerStep

-----------------------------------------------------------------------------
(* Reservations.                                                           *)

(* ReservationExact, of any queues and workers.                            *)
Exact(q, R, pending, B, at) ==
    /\ \A i, j \in DOMAIN q : i # j => Apart(q[i], q[j])
    /\ \A w \in B : \A i \in DOMAIN q : Apart(at[w], q[i])
    /\ \A v, w \in B : v # w => Apart(at[v], at[w])
    /\ \A s \in R : \/ \E i \in DOMAIN q : s \in SessionsOf(q[i])
                    \/ \E w \in B : s \in SessionsOf(at[w])
    /\ \A i \in DOMAIN q : SessionsOf(q[i]) \subseteq R
    /\ \A w \in B : SessionsOf(at[w]) \subseteq R
    /\ \A s \in R : \A i \in DOMAIN pending[s] : SessionsOf(pending[s][i]) = {s}

(* ReservationExact speaks of the queues and of the busy workers only.     *)
LEMMA ExactNow ==
  /\ ReservationExact <=> Exact(queue, Reserved, session_queues, Busy, work)
  /\ ReservationExact' <=> Exact(queue', Reserved', session_queues', Busy', work')
  BY DEF ReservationExact, Exact, Apart, SessionsOf, SessionsIn

(* Steps that move no work keep the reservations exact.                    *)
LEMMA ReservationFrame ==
  ASSUME ReservationExact, UNCHANGED queue_vars, Busy' = Busy,
         \A w \in Busy : work'[w] = work[w]
  PROVE  ReservationExact'
  <1>1. Exact(queue, Reserved, session_queues, Busy, work)
    BY ExactNow
  <1>2. /\ queue' = queue /\ session_queues' = session_queues /\ Busy' = Busy
        /\ Reserved' = Reserved /\ \A w \in Busy : work'[w] = work[w]
    BY DEF queue_vars, Reserved
  <1>3. Exact(queue, Reserved, session_queues, Busy, work')
    BY <1>1, <1>2 DEF Exact
  <1> QED BY <1>2, <1>3, ExactNow

(* New ready work whose sessions were free.                                *)
LEMMA ReservationOfNew ==
  ASSUME QueueTypes, ReservationExact, NEW S, Free(S), NEW new \in Work,
         SessionsOf(new) = S,
         queue' = Append(queue, new), session_queues' = Reserve(S),
         Busy' = Busy, UNCHANGED work
  PROVE  ReservationExact'
  <1> DEFINE n == Len(queue)
  <1>1. /\ n \in Nat /\ DOMAIN queue = 1 .. n /\ DOMAIN queue' = 1 .. n + 1
        /\ \A i \in 1 .. n : queue'[i] = queue[i]
        /\ queue'[n + 1] = new
    BY AppendProperties, LenProperties DEF QueueTypes
  <1> HIDE DEF n
  <1>2. \A i \in DOMAIN queue' : \/ i \in DOMAIN queue /\ queue'[i] = queue[i]
                                 \/ i = n + 1 /\ queue'[i] = new
    BY <1>1
  <1>3. /\ Reserved' = Reserved \cup S
        /\ \A s \in Reserved : session_queues'[s] = session_queues[s]
        /\ \A s \in S : session_queues'[s] = << >>
    BY DEF Reserve, Free, Reserved
  <1>4. \A i \in DOMAIN queue : SessionsOf(queue[i]) \subseteq Reserved
    BY DEF ReservationExact
  <1>5. \A w \in Busy : SessionsOf(work[w]) \subseteq Reserved
    BY DEF ReservationExact
  <1>6. /\ \A i \in DOMAIN queue : Apart(queue[i], new) /\ Apart(new, queue[i])
        /\ \A w \in Busy : Apart(work[w], new)
    BY <1>4, <1>5 DEF Free, Apart
  <1>7. \A i, j \in DOMAIN queue' : i # j => Apart(queue'[i], queue'[j])
    BY <1>2, <1>6 DEF ReservationExact
  <1>8. \A w \in Busy : \A i \in DOMAIN queue' : Apart(work[w], queue'[i])
    BY <1>2, <1>6 DEF ReservationExact
  <1>9. \A s \in Reserved' : \/ \E i \in DOMAIN queue' : s \in SessionsOf(queue'[i])
                             \/ \E w \in Busy : s \in SessionsOf(work[w])
    <2> SUFFICES ASSUME NEW s \in Reserved',
                        \A w \in Busy : s \notin SessionsOf(work[w])
                 PROVE  \E i \in DOMAIN queue' : s \in SessionsOf(queue'[i])
      OBVIOUS
    <2>1. CASE s \in S
      BY <1>1, <2>1
    <2>2. CASE s \in Reserved
      <3>1. PICK i \in DOMAIN queue : s \in SessionsOf(queue[i])
        BY <2>2 DEF ReservationExact
      <3> QED BY <1>1, <3>1
    <2> QED BY <1>3, <2>1, <2>2
  <1>10. \A i \in DOMAIN queue' : SessionsOf(queue'[i]) \subseteq Reserved'
    BY <1>2, <1>3, <1>4
  <1>11. \A w \in Busy : SessionsOf(work[w]) \subseteq Reserved'
    BY <1>3, <1>5
  <1>12. \A s \in Reserved' : \A i \in DOMAIN session_queues'[s] :
             SessionsOf(session_queues'[s][i]) = {s}
    <2> SUFFICES ASSUME NEW s \in Reserved', NEW i \in DOMAIN session_queues'[s]
                 PROVE  SessionsOf(session_queues'[s][i]) = {s}
      OBVIOUS
    <2>1. CASE s \in S
      BY <1>3, <2>1
    <2>2. CASE s \in Reserved
      BY <1>3, <2>2 DEF ReservationExact
    <2> QED BY <1>3, <2>1, <2>2
  <1>13. \A v, w \in Busy : v # w => Apart(work[v], work[w])
    BY DEF ReservationExact
  <1>14. Exact(queue', Reserved', session_queues', Busy, work)
    BY <1>7, <1>8, <1>9, <1>10, <1>11, <1>12, <1>13 DEF Exact
  <1> QED BY <1>14, ExactNow

(* New work behind the work that owns its session.                         *)
LEMMA ReservationOfPending ==
  ASSUME QueueTypes, ReservationExact, NEW s \in Reserved, NEW new \in Work,
         SessionsOf(new) = {s},
         session_queues' = [session_queues EXCEPT ![s] = Append(@, new)],
         UNCHANGED queue, Busy' = Busy, UNCHANGED work
  PROVE  ReservationExact'
  <1>1. Reserved' = Reserved
    BY DEF QueueTypes, Reserved
  <1>2. \A t \in Reserved : \A i \in DOMAIN session_queues'[t] :
            SessionsOf(session_queues'[t][i]) = {t}
    <2> SUFFICES ASSUME NEW t \in Reserved, NEW i \in DOMAIN session_queues'[t]
                 PROVE  SessionsOf(session_queues'[t][i]) = {t}
      OBVIOUS
    <2>1. CASE t # s
      <3>1. session_queues'[t] = session_queues[t]
        BY <2>1 DEF QueueTypes
      <3> QED BY <3>1 DEF ReservationExact
    <2>2. CASE t = s
      <3>1. session_queues'[s] = Append(session_queues[s], new)
        BY DEF QueueTypes
      <3>2. session_queues[s] \in Seq(Work)
        BY DEF QueueTypes
      <3>3. \/ i \in DOMAIN session_queues[s] /\ session_queues'[s][i] = session_queues[s][i]
            \/ session_queues'[s][i] = new
        BY <2>2, <3>1, <3>2, AppendProperties, LenProperties
      <3> QED BY <2>2, <3>3 DEF ReservationExact
    <2> QED BY <2>1, <2>2
  <1>3. Exact(queue, Reserved, session_queues, Busy, work)
    BY ExactNow
  <1>4. Exact(queue, Reserved, session_queues', Busy, work)
    BY <1>2, <1>3 DEF Exact
  <1> QED BY <1>1, <1>4, ExactNow

(* A worker that takes work becomes busy with what leaves the queue.       *)
LEMMA ReservationTake ==
  ASSUME QueueTypes, WorkerTypes, ReservationExact, NEW w \in Workers, Take(w)
  PROVE  ReservationExact'
  <1>1. /\ queue # << >> /\ queue' = Tail(queue) /\ UNCHANGED session_queues
        /\ worker[w] = "ready"
        /\ work' = [work EXCEPT ![w] = Head(queue)]
        /\ worker' = [worker EXCEPT ![w] = "lease"]
    BY DEF Take
  <1>2. /\ Busy' = Busy \cup {w} /\ w \notin Busy
        /\ work'[w] = Head(queue)
        /\ \A v \in Busy : work'[v] = work[v]
    BY <1>1 DEF Busy, WorkerTypes
  <1> DEFINE n == Len(queue)
  <1>3. n \in Nat /\ DOMAIN queue = 1 .. n /\ n >= 1
    BY <1>1, LenProperties, EmptySeq DEF QueueTypes
  <1>4. /\ DOMAIN queue' = 1 .. n - 1 /\ \A i \in 1 .. n - 1 : queue'[i] = queue[i + 1]
        /\ Head(queue) = queue[1]
    BY <1>1, HeadTailProperties, LenProperties DEF QueueTypes
  <1> HIDE DEF n
  <1>5. \A i \in DOMAIN queue' : /\ i + 1 \in DOMAIN queue /\ i + 1 # 1
                                 /\ queue'[i] = queue[i + 1]
    BY <1>3, <1>4
  <1>6. 1 \in DOMAIN queue /\ work'[w] = queue[1]
    BY <1>2, <1>3, <1>4
  <1>7. \A i, j \in DOMAIN queue' : i # j => Apart(queue'[i], queue'[j])
    <2> SUFFICES ASSUME NEW i \in DOMAIN queue', NEW j \in DOMAIN queue', i # j
                 PROVE  Apart(queue'[i], queue'[j])
      OBVIOUS
    <2>1. i + 1 # j + 1
      BY <1>3, <1>4
    <2> QED BY <1>5, <2>1 DEF ReservationExact
  <1>8. \A v \in Busy' : \A i \in DOMAIN queue' : Apart(work'[v], queue'[i])
    BY <1>2, <1>5, <1>6 DEF ReservationExact
  <1>9. \A u, v \in Busy' : u # v => Apart(work'[u], work'[v])
    <2> SUFFICES ASSUME NEW u \in Busy', NEW v \in Busy', u # v
                 PROVE  Apart(work'[u], work'[v])
      OBVIOUS
    <2>1. CASE u \in Busy /\ v \in Busy
      BY <1>2, <2>1 DEF ReservationExact
    <2>2. CASE u = w /\ v \in Busy
      BY <1>2, <1>6, <2>2 DEF ReservationExact, Apart
    <2>3. CASE v = w /\ u \in Busy
      BY <1>2, <1>6, <2>3 DEF ReservationExact, Apart
    <2> QED BY <1>2, <2>1, <2>2, <2>3
  <1>10. \A s \in Reserved : \/ \E i \in DOMAIN queue' : s \in SessionsOf(queue'[i])
                             \/ \E v \in Busy' : s \in SessionsOf(work'[v])
    <2> SUFFICES ASSUME NEW s \in Reserved
                 PROVE  \/ \E i \in DOMAIN queue' : s \in SessionsOf(queue'[i])
                        \/ \E v \in Busy' : s \in SessionsOf(work'[v])
      OBVIOUS
    <2>1. CASE \E v \in Busy : s \in SessionsOf(work[v])
      BY <1>2, <2>1
    <2>2. CASE \E i \in DOMAIN queue : s \in SessionsOf(queue[i])
      <3>1. PICK i \in DOMAIN queue : s \in SessionsOf(queue[i])
        BY <2>2
      <3>2. CASE i = 1
        BY <1>2, <1>6, <3>1, <3>2
      <3>3. CASE i # 1
        <4>1. i - 1 \in DOMAIN queue' /\ queue'[i - 1] = queue[i]
          BY <1>3, <1>4, <3>3
        <4> QED BY <3>1, <4>1
      <3> QED BY <3>2, <3>3
    <2> QED BY <2>1, <2>2 DEF ReservationExact
  <1>11. \A i \in DOMAIN queue' : SessionsOf(queue'[i]) \subseteq Reserved
    BY <1>5 DEF ReservationExact
  <1>12. \A v \in Busy' : SessionsOf(work'[v]) \subseteq Reserved
    BY <1>2, <1>6 DEF ReservationExact
  <1>13. Reserved' = Reserved /\ session_queues' = session_queues
    BY <1>1 DEF Reserved
  <1>14. \A s \in Reserved' : \A i \in DOMAIN session_queues'[s] :
             SessionsOf(session_queues'[s][i]) = {s}
    BY <1>13 DEF ReservationExact
  <1>15. Exact(queue', Reserved', session_queues', Busy', work')
    BY <1>7, <1>8, <1>9, <1>10, <1>11, <1>12, <1>13, <1>14 DEF Exact
  <1> QED BY <1>15, ExactNow

(* The work of a batch covers the sessions of its requests.                *)
LEMMA SubmitReservation ==
  ASSUME QueueTypes, BatchTypes, CallersSane, ReservationExact, NEW c \in Callers,
         TryEnqueueBatch(c) \/ EnqueueSession(c)
  PROVE  ReservationExact'
  <1> DEFINE b == caller[c].batch
             requests == caller[c].requests
             slot == caller[c].slot
             s == requests[slot].session
  <1>1. Submits(c)
    BY DEF CallersSane, TryEnqueueBatch, EnqueueSession, Submitting
  <1>2. /\ b \in DOMAIN batches /\ slot \in DOMAIN batches[b].requests
        /\ requests = batches[b].requests
    BY <1>1 DEF Submits
  <1>3. WholeBatch(b) \in Work /\ OneRequest(b, slot) \in Work
    BY <1>2, WorkOfBatch
  <1>4. SessionsOf(WholeBatch(b)) = SessionsIn(requests)
    BY <1>2 DEF SessionsOf, WholeBatch
  <1>5. SessionsOf(OneRequest(b, slot)) = {s}
    BY <1>2 DEF SessionsOf, OneRequest, SessionsIn
  <1>6. Busy' = Busy /\ UNCHANGED work
    BY DEF TryEnqueueBatch, EnqueueSession, Busy
  <1>7. CASE TryEnqueueBatch(c)
    <2>1. CASE UNCHANGED queue_vars
      BY <1>6, <2>1, ReservationFrame
    <2>2. CASE /\ Free(SessionsIn(requests))
               /\ session_queues' = Reserve(SessionsIn(requests))
               /\ queue' = Append(queue, WholeBatch(b))
      <3> DEFINE S == SessionsIn(requests)
      <3>1. /\ Free(S) /\ session_queues' = Reserve(S) /\ SessionsOf(WholeBatch(b)) = S
            /\ queue' = Append(queue, WholeBatch(b))
        BY <1>4, <2>2
      <3> HIDE DEF S
      <3> QED BY <1>3, <1>6, <3>1, ReservationOfNew
    <2> QED BY <1>7, <2>1, <2>2 DEF TryEnqueueBatch, queue_vars
  <1>8. CASE EnqueueSession(c)
    <2> DEFINE new == IF batches[b].kind = "prefill" THEN WholeBatch(b)
                      ELSE OneRequest(b, slot)
    <2>1. new \in Work
      BY <1>3
    <2>2. SessionsOf(new) = {s}
      <3>1. CASE batches[b].kind = "prefill"
        <4>1. Len(requests) = 1 /\ DOMAIN requests = {slot}
          <5>1. caller[c].step = "enqueue"
            BY <1>8 DEF EnqueueSession
          <5>2. Len(requests) = 1
            BY <1>1, <3>1, <5>1 DEF Submits
          <5>3. batches[b] \in BatchRecord
            BY <1>2, ElementOfSeq, LenProperties DEF BatchTypes
          <5>4. DOMAIN requests = 1 .. 1
            BY <1>2, <5>2, <5>3, LenProperties DEF BatchRecord
          <5> QED BY <1>2, <5>2, <5>4
        <4>2. SessionsIn(requests) = {s}
          BY <4>1 DEF SessionsIn
        <4> QED BY <1>4, <3>1, <4>2
      <3>2. CASE batches[b].kind # "prefill"
        BY <1>5, <3>2
      <3> QED BY <3>1, <3>2
    <2>3. IF s \in Reserved
          THEN /\ session_queues' = [session_queues EXCEPT ![s] = Append(@, new)]
               /\ UNCHANGED queue
          ELSE session_queues' = Reserve({s}) /\ queue' = Append(queue, new)
      BY <1>8 DEF EnqueueSession, Behind
    <2> HIDE DEF new, s, b
    <2>4. CASE s \in Reserved
      BY <1>6, <2>1, <2>2, <2>3, <2>4, ReservationOfPending
    <2>5. CASE s \notin Reserved
      <3>1. Free({s})
        BY <2>5 DEF Free
      <3> QED BY <1>6, <2>1, <2>2, <2>3, <2>5, <3>1, ReservationOfNew
    <2> QED BY <2>4, <2>5
  <1> QED BY <1>7, <1>8

(* A worker gives up its sessions and makes their next work ready.         *)
LEMMA ReservationRelease ==
  ASSUME SchedulerAssumption, QueueTypes, WorkerTypes, ReservationExact,
         NEW w \in Workers, ReleaseSessions(w)
  PROVE  ReservationExact'
  <1> DEFINE S == SessionsOf(work[w])
             waiting == Waiting(S)
             n == Len(queue)
  <1>1. PICK first \in Ascending(waiting) :
            /\ session_queues' = [s \in Reserved \ (S \ waiting) |->
                   IF s \in S THEN Tail(session_queues[s]) ELSE session_queues[s]]
            /\ queue' = queue \o [i \in DOMAIN first |-> Head(session_queues[first[i]])]
    BY DEF ReleaseSessions
  <1>2. /\ worker[w] = "release" /\ worker' = [worker EXCEPT ![w] = "announce"]
        /\ UNCHANGED work
    BY DEF ReleaseSessions
  <1>3. w \in Busy /\ Busy' = Busy \ {w}
    BY <1>2 DEF Busy, WorkerTypes
  <1>4. /\ waiting \subseteq S /\ waiting \subseteq Reserved
        /\ \A s \in waiting : session_queues[s] # << >>
    BY DEF Waiting
  <1> DEFINE heads == [i \in DOMAIN first |-> Head(session_queues[first[i]])]
  <1>5. PICK m \in Nat : /\ first \in [1 .. m -> waiting]
                         /\ \A i, j \in 1 .. m : i < j => first[i] < first[j]
                         /\ \A s \in waiting : \E i \in 1 .. m : first[i] = s
    <2>1. waiting \subseteq Sessions /\ IsFiniteSet(Sessions)
      BY <1>4 DEF QueueTypes, SchedulerAssumption
    <2>2. Cardinality(waiting) \in Nat
      BY <2>1, FS_Subset, FS_CardinalityType
    <2> QED BY <1>1, <2>2 DEF Ascending
  <1>6. \A i, j \in 1 .. m : i # j => first[i] # first[j]
    <2>1. \A i \in 1 .. m : first[i] \in Nat
      BY <1>4, <1>5 DEF QueueTypes, SchedulerAssumption
    <2>2. \A i, j \in 1 .. m : i # j => i < j \/ j < i
      OBVIOUS
    <2> QED BY <1>5, <2>1, <2>2
  <1>7. \A s \in waiting : /\ Head(session_queues[s]) \in Work
                           /\ SessionsOf(Head(session_queues[s])) = {s}
    <2> SUFFICES ASSUME NEW s \in waiting
                 PROVE  /\ Head(session_queues[s]) \in Work
                        /\ SessionsOf(Head(session_queues[s])) = {s}
      OBVIOUS
    <2>1. session_queues[s] \in Seq(Work) /\ session_queues[s] # << >> /\ s \in Reserved
      BY <1>4 DEF QueueTypes
    <2>2. /\ Head(session_queues[s]) = session_queues[s][1]
          /\ 1 \in DOMAIN session_queues[s] /\ Head(session_queues[s]) \in Work
      BY <2>1, HeadTailProperties, EmptySeq, LenProperties
    <2> QED BY <2>1, <2>2 DEF ReservationExact
  <1>8. heads \in Seq(Work) /\ Len(heads) = m /\ \A i \in 1 .. m : SessionsOf(heads[i]) = {first[i]}
    <2>1. heads \in [1 .. m -> Work]
      BY <1>5, <1>7
    <2>2. \A i \in 1 .. m : SessionsOf(heads[i]) = {first[i]}
      BY <1>5, <1>7
    <2> HIDE DEF heads
    <2>3. heads \in Seq(Work) /\ Len(heads) = m
      BY <1>5, <2>1, SeqDef, LenProperties
    <2> QED BY <2>2, <2>3
  <1>9. queue' = queue \o heads
    BY <1>1
  <1> HIDE DEF heads
  <1>10. /\ n \in Nat /\ DOMAIN queue = 1 .. n /\ DOMAIN queue' = 1 .. n + m
         /\ \A i \in 1 .. n : queue'[i] = queue[i]
         /\ \A i \in 1 .. m : queue'[n + i] = heads[i]
    <2>1. queue \in Seq(Work)
      BY DEF QueueTypes
    <2>2. /\ n \in Nat /\ DOMAIN queue = 1 .. n
          /\ queue' \in Seq(Work) /\ Len(queue') = n + m
      <3>1. n \in Nat /\ DOMAIN queue = 1 .. n
        BY <2>1, LenProperties
      <3>2. queue' \in Seq(Work) /\ Len(queue') = Len(queue) + Len(heads)
        BY <1>8, <1>9, <2>1, ConcatProperties, ZenonT(30)
      <3> QED BY <1>8, <3>1, <3>2
    <2>3. /\ \A i \in 1 .. n : queue'[i] = queue[i]
          /\ \A i \in 1 .. m : queue'[n + i] = heads[i]
      BY <1>5, <1>8, <1>9, <2>1, ConcatProperties, LenProperties
    <2> QED BY <2>2, <2>3, LenProperties
  <1> HIDE DEF n
  <1>11. \A i \in DOMAIN queue' :
             \/ i \in DOMAIN queue /\ queue'[i] = queue[i]
             \/ \E k \in 1 .. m : i = n + k /\ SessionsOf(queue'[i]) = {first[k]}
    <2> SUFFICES ASSUME NEW i \in DOMAIN queue', i \notin DOMAIN queue
                 PROVE  \E k \in 1 .. m : i = n + k /\ SessionsOf(queue'[i]) = {first[k]}
      BY <1>10
    <2>1. i - n \in 1 .. m /\ i = n + (i - n) /\ i \in Nat
      BY <1>5, <1>10
    <2>2. SessionsOf(queue'[n + (i - n)]) = {first[i - n]}
      BY <1>8, <1>10, <2>1
    <2>3. SessionsOf(queue'[i]) = {first[i - n]}
      BY <2>1, <2>2
    <2>4. PICK k \in 1 .. m : k = i - n
      BY <2>1
    <2> QED BY <2>1, <2>3, <2>4
  <1>12. /\ Reserved' = Reserved \ (S \ waiting)
         /\ \A s \in Reserved' : session_queues'[s] = IF s \in S THEN Tail(session_queues[s])
                                                      ELSE session_queues[s]
    BY <1>1 DEF Reserved
  (* what stays keeps away from the sessions given up *)
  <1>13. /\ \A i \in DOMAIN queue : SessionsOf(queue[i]) \cap S = {}
         /\ \A v \in Busy \ {w} : SessionsOf(work[v]) \cap S = {}
    BY <1>3 DEF ReservationExact, Apart
  <1>14. \A k \in 1 .. m : first[k] \in S /\ first[k] \in Reserved'
    BY <1>4, <1>5, <1>12
  <1> HIDE DEF S, waiting
  <1>15. \A i, j \in DOMAIN queue' : i # j => Apart(queue'[i], queue'[j])
    <2> SUFFICES ASSUME NEW i \in DOMAIN queue', NEW j \in DOMAIN queue', i # j
                 PROVE  Apart(queue'[i], queue'[j])
      OBVIOUS
    <2>1. CASE i \in DOMAIN queue /\ queue'[i] = queue[i] /\ j \in DOMAIN queue /\ queue'[j] = queue[j]
      BY <2>1 DEF ReservationExact
    <2>2. CASE i \in DOMAIN queue /\ queue'[i] = queue[i]
               /\ \E k \in 1 .. m : j = n + k /\ SessionsOf(queue'[j]) = {first[k]}
      BY <1>13, <1>14, <2>2 DEF Apart
    <2>3. CASE j \in DOMAIN queue /\ queue'[j] = queue[j]
               /\ \E k \in 1 .. m : i = n + k /\ SessionsOf(queue'[i]) = {first[k]}
      BY <1>13, <1>14, <2>3 DEF Apart
    <2>4. CASE /\ \E k \in 1 .. m : i = n + k /\ SessionsOf(queue'[i]) = {first[k]}
               /\ \E k \in 1 .. m : j = n + k /\ SessionsOf(queue'[j]) = {first[k]}
      BY <1>6, <2>4 DEF Apart
    <2> QED BY <1>11, <2>1, <2>2, <2>3, <2>4
  <1>16. \A v \in Busy' : \A i \in DOMAIN queue' : Apart(work[v], queue'[i])
    <2> SUFFICES ASSUME NEW v \in Busy', NEW i \in DOMAIN queue'
                 PROVE  Apart(work[v], queue'[i])
      OBVIOUS
    <2>1. CASE i \in DOMAIN queue /\ queue'[i] = queue[i]
      BY <1>3, <2>1 DEF ReservationExact
    <2>2. CASE \E k \in 1 .. m : i = n + k /\ SessionsOf(queue'[i]) = {first[k]}
      BY <1>3, <1>13, <1>14, <2>2 DEF Apart
    <2> QED BY <1>11, <2>1, <2>2
  <1>17. \A u, v \in Busy' : u # v => Apart(work[u], work[v])
    BY <1>3 DEF ReservationExact
  <1>18. ASSUME NEW s \in Reserved',
                \A v \in Busy' : s \notin SessionsOf(work[v])
         PROVE  \E i \in DOMAIN queue' : s \in SessionsOf(queue'[i])
    <2>1. CASE s \in waiting
      <3>1. PICK k \in 1 .. m : first[k] = s
        BY <1>5, <2>1
      <3>2. n + k \in DOMAIN queue' /\ SessionsOf(queue'[n + k]) = {s}
        BY <1>5, <1>8, <1>10, <3>1
      <3> QED BY <3>2
    <2>2. CASE s \notin waiting
      <3>1. s \in Reserved /\ s \notin S
        BY <1>12, <2>2
      <3>2. \A v \in Busy : s \notin SessionsOf(work[v])
        BY <1>3, <1>18, <3>1 DEF S
      <3>3. PICK i \in DOMAIN queue : s \in SessionsOf(queue[i])
        BY <3>1, <3>2 DEF ReservationExact
      <3>4. i \in DOMAIN queue' /\ queue'[i] = queue[i]
        BY <1>5, <1>10
      <3> QED BY <3>3, <3>4
    <2> QED BY <2>1, <2>2
  <1>19. \A i \in DOMAIN queue' : SessionsOf(queue'[i]) \subseteq Reserved'
    <2> SUFFICES ASSUME NEW i \in DOMAIN queue'
                 PROVE  SessionsOf(queue'[i]) \subseteq Reserved'
      OBVIOUS
    <2>1. CASE i \in DOMAIN queue /\ queue'[i] = queue[i]
      BY <1>12, <1>13, <2>1 DEF ReservationExact
    <2>2. CASE \E k \in 1 .. m : i = n + k /\ SessionsOf(queue'[i]) = {first[k]}
      BY <1>14, <2>2
    <2> QED BY <1>11, <2>1, <2>2
  <1>20. \A v \in Busy' : SessionsOf(work[v]) \subseteq Reserved'
    BY <1>3, <1>12, <1>13 DEF ReservationExact
  <1>21. \A s \in Reserved' : \A i \in DOMAIN session_queues'[s] :
             SessionsOf(session_queues'[s][i]) = {s}
    <2> SUFFICES ASSUME NEW s \in Reserved', NEW i \in DOMAIN session_queues'[s]
                 PROVE  SessionsOf(session_queues'[s][i]) = {s}
      OBVIOUS
    <2>1. CASE s \notin S
      BY <1>12, <2>1 DEF ReservationExact
    <2>2. CASE s \in S
      <3>1. s \in waiting /\ s \in Reserved /\ session_queues'[s] = Tail(session_queues[s])
        BY <1>12, <2>2
      <3>2. session_queues[s] \in Seq(Work) /\ session_queues[s] # << >>
        BY <1>4, <3>1 DEF QueueTypes
      <3>3. /\ i + 1 \in DOMAIN session_queues[s]
            /\ session_queues'[s][i] = session_queues[s][i + 1]
        BY <3>1, <3>2, HeadTailProperties, LenProperties
      <3> QED BY <3>1, <3>3 DEF ReservationExact
    <2> QED BY <2>1, <2>2
  <1>22. Exact(queue', Reserved', session_queues', Busy', work)
    BY <1>15, <1>16, <1>17, <1>18, <1>19, <1>20, <1>21 DEF Exact
  <1> QED BY <1>2, <1>22, ExactNow

(* Every step keeps the reservations exact.                                *)
LEMMA ReservationStep ==
  ASSUME SchedulerAssumption, QueueTypes, BatchTypes, WorkerTypes, CallersSane,
         ReservationExact, [Next]_vars
  PROVE  ReservationExact'
  <1>1. ASSUME UNCHANGED queue_vars, UNCHANGED work,
               \A w \in Workers : w \in Busy <=> worker'[w] \in
                   {"lease", "measure", "extend", "lock", "release"}
        PROVE  ReservationExact'
    <2>1. Busy' = Busy
      BY <1>1 DEF Busy
    <2> QED BY <1>1, <2>1, ReservationFrame
  <1>2. ASSUME UNCHANGED queue_vars, UNCHANGED work, NEW w \in Workers, NEW state,
               worker' = [worker EXCEPT ![w] = state],
               w \in Busy <=> state \in {"lease", "measure", "extend", "lock", "release"}
        PROVE  ReservationExact'
    BY <1>1, <1>2 DEF Busy, WorkerTypes
  <1>3. ASSUME NEW w \in Workers, Complete(w)
        PROVE  ReservationExact'
    <2>1. /\ UNCHANGED queue_vars /\ worker[w] = "complete"
          /\ work' = [work EXCEPT ![w] = NoWork]
          /\ worker' = [worker EXCEPT ![w] = "ready"]
      BY <1>3 DEF Complete
    <2>2. Busy' = Busy /\ \A v \in Busy : work'[v] = work[v]
      BY <2>1 DEF Busy, WorkerTypes
    <2> QED BY <2>1, <2>2, ReservationFrame
  <1>4. ASSUME NEW w \in Workers, Wait(w) \/ Leave(w) \/ MeasureTeam(w) \/ PrepareTeam(w)
                                  \/ Execute(w)
        PROVE  ReservationExact'
    <2>1. UNCHANGED queue_vars /\ UNCHANGED work
      BY <1>4 DEF Wait, Leave, MeasureTeam, PrepareTeam, Execute
    <2>2. \E state : /\ worker' = [worker EXCEPT ![w] = state]
                     /\ worker[w] \in {"lease", "measure", "extend", "lock", "release"}
                        <=> state \in {"lease", "measure", "extend", "lock", "release"}
      BY <1>4 DEF Wait, Leave, MeasureTeam, PrepareTeam, Execute
    <2> QED BY <1>2, <2>1, <2>2 DEF Busy
  <1>5. ASSUME NEW w \in Workers, AcquireCompute(w)
        PROVE  ReservationExact'
    <2>1. /\ UNCHANGED queue_vars /\ UNCHANGED work /\ worker[w] = "lease"
          /\ \/ worker' = [worker EXCEPT ![w] = "measure"]
             \/ worker' = [worker EXCEPT ![w] = "lock"]
      BY <1>5 DEF AcquireCompute
    <2> QED BY <1>2, <2>1 DEF Busy
  <1>6. ASSUME NEW w \in Workers, NotifyAll(w)
        PROVE  ReservationExact'
    <2>1. /\ UNCHANGED queue_vars /\ UNCHANGED work /\ worker[w] = "announce"
          /\ worker' = WakeAll([worker EXCEPT ![w] = "complete"])
      BY <1>6 DEF NotifyAll
    <2> QED BY <1>1, <2>1 DEF WakeAll, Busy, WorkerTypes
  <1>7. ASSUME NotifyStop
        PROVE  ReservationExact'
    BY <1>1, <1>7 DEF NotifyStop, WakeAll, Busy, WorkerTypes
  <1>8. ASSUME NEW c \in Callers, NotifyOne(c)
        PROVE  ReservationExact'
    BY <1>1, <1>8 DEF NotifyOne, Asleep, Busy, WorkerTypes
  <1>9. ASSUME UNCHANGED <<queue, session_queues, work, worker>>
        PROVE  ReservationExact'
    BY <1>1, <1>9 DEF Busy, queue_vars
  <1>10. \/ \E c \in Callers : TryEnqueueBatch(c) \/ EnqueueSession(c) \/ NotifyOne(c)
         \/ \E w \in Workers : WorkerStep(w)
         \/ NotifyStop
         \/ UNCHANGED <<queue, session_queues, work, worker>>
    BY DEF Next, vars, queue_vars, CallerStep, SubmitStep, DirectStep, Submit, Throw,
           StartDirect, LockDirect, RunDirect, Reset, CommitGeneration, Stop, Join
  <1>11. ASSUME NEW w \in Workers, LockSession(w)
         PROVE  ReservationExact'
    BY <1>9, <1>11 DEF LockSession, queue_vars
  <1> QED
    BY <1>3, <1>4, <1>5, <1>6, <1>7, <1>8, <1>9, <1>10, <1>11,
       SubmitReservation, ReservationTake, ReservationRelease DEF WorkerStep

-----------------------------------------------------------------------------
(* The thread budget.                                                      *)

(* f and g weigh the things of S and differ for one of them only.          *)
Changes(S, cap, f, g, x) ==
    /\ IsFiniteSet(S) /\ cap \in Nat /\ x \in S
    /\ f[x] \in 0 .. cap /\ g[x] \in 0 .. cap
    /\ \A y \in S : y # x => g[y] = f[y]

(* One weight that changes changes the sum by the difference.              *)
LEMMA WeightChanged ==
  ASSUME NEW S, NEW cap, NEW f, NEW g, NEW x, Changes(S, cap, f, g, x)
  PROVE  /\ Weight(S, cap, g) = Weight(S, cap, f) - f[x] + g[x]
         /\ Weight(S, cap, f) \in Nat /\ Weight(S, cap, g) \in Nat
  <1> DEFINE R == S \ {x}
  <1> USE DEF Changes
  <1>1. IsFiniteSet(R) /\ x \notin R /\ S = R \cup {x}
    BY FS_RemoveElement
  <1>2. OneMore(R, S, cap, f, x) /\ OneMore(R, S, cap, g, x)
    BY <1>1 DEF OneMore
  <1>3. {p \in R \X (1 .. cap) : p[2] <= g[p[1]]} = {p \in R \X (1 .. cap) : p[2] <= f[p[1]]}
    OBVIOUS
  <1>4. Weight(R, cap, g) = Weight(R, cap, f)
    BY <1>3 DEF Weight
  <1> HIDE DEF R, Changes
  <1>5. /\ Weight(S, cap, f) = Weight(R, cap, f) + f[x]
        /\ Weight(R, cap, f) \in Nat /\ f[x] \in Nat
    BY <1>2, WeightOneMore
  <1>6. Weight(S, cap, g) = Weight(R, cap, g) + g[x] /\ g[x] \in Nat
    BY <1>2, WeightOneMore
  <1> QED BY <1>4, <1>5, <1>6

(* What is granted is within the request and within what is left.          *)
LEMMA GrantFits ==
  ASSUME ThreadBudgetAssumption, NEW used \in Lease, used.count <= MaxThreads,
         used.base <= NumThreads, NEW requested \in Nat, NEW beyond \in BOOLEAN
  PROVE  LET new == Grant(used, requested, beyond)
         IN  /\ new \in Lease
             /\ new.count \in 0 .. MaxThreads /\ new.base \in 0 .. MaxThreads
             /\ used.count + new.count <= MaxThreads
             /\ used.base + new.base <= NumThreads
             /\ Available(used, beyond) # 0 /\ requested >= 1 => new.count >= 1
  <1> DEFINE free == MaxThreads - used.count
             basefree == NumThreads - used.base
             left == Available(used, beyond)
             count == Least(requested, left)
             base == Least(count, basefree)
  <1>1. free \in Nat /\ basefree \in Nat /\ MaxThreads \in Nat /\ NumThreads \in 1 .. MaxThreads
    BY DEF ThreadBudgetAssumption, Lease
  <1>2. left = free \/ left = Least(free, basefree)
    BY DEF Available
  <1> HIDE DEF free, basefree, left
  <1>3. left \in 0 .. free
    BY <1>1, <1>2 DEF Least
  <1>4. count \in 0 .. free /\ count <= requested /\ (left # 0 /\ requested >= 1 => count >= 1)
    BY <1>1, <1>3 DEF Least
  <1> HIDE DEF count
  <1>5. base \in 0 .. count /\ base <= basefree
    BY <1>1, <1>4 DEF Least
  <1> HIDE DEF base
  <1>6. Grant(used, requested, beyond) = [count |-> count, base |-> base]
    BY DEF Grant, count, base, basefree, left
  <1>7. used.count \in Nat /\ used.base \in Nat
    BY DEF Lease
  <1>8. /\ used.count + count <= MaxThreads /\ used.base + base <= NumThreads
        /\ count \in 0 .. MaxThreads /\ base \in 0 .. MaxThreads
    BY <1>1, <1>4, <1>5, <1>7 DEF free, basefree
  <1>9. [count |-> count, base |-> base] \in Lease
    BY <1>8 DEF Lease
  <1> QED BY <1>4, <1>6, <1>8, <1>9 DEF left

(* A team is chosen from what the budget shows.                            *)
LEMMA TeamSizeType ==
  ASSUME NEW units \in Nat, NEW items \in Nat, NEW per_item \in Nat, NEW available \in Nat
  PROVE  TeamSize(units, items, per_item, available) \in Nat
  <1> DEFINE m == Most(1, items)
             c == CeilDiv(units, m)
             useful == Least(Most(1, per_item), Most(1, c))
             size == Least(Most(1, available), m * useful)
  <1>1. m \in Nat /\ m >= 1
    BY DEF Most
  <1>2. c \in Int
    <2> HIDE DEF m
    <2>1. units + m - 1 \in Int
      BY <1>1
    <2> QED BY <1>1, <2>1 DEF CeilDiv
  <1>3. useful \in Nat
    <2> HIDE DEF c, m
    <2> QED BY <1>2 DEF Most, Least
  <1>4. m * useful \in Nat
    <2> HIDE DEF m, useful
    <2> QED BY <1>1, <1>3
  <1>5. size \in Nat
    <2> DEFINE product == m * useful
    <2>1. product \in Nat
      BY <1>4
    <2> HIDE DEF product
    <2>2. Least(Most(1, available), product) \in Nat
      BY <2>1 DEF Most, Least
    <2> QED BY <2>2 DEF product
  <1>6. TeamSize(units, items, per_item, available) = IF units = 0 THEN 1 ELSE size
    BY DEF TeamSize
  <1> HIDE DEF size
  <1> QED BY <1>5, <1>6

(* Every worker asks for one thread at least.                              *)
LEMMA TeamSizePositive ==
  ASSUME SchedulerAssumption, ThreadBudgetAssumption
  PROVE  team_size \in Nat /\ team_size >= 1
  <1> DEFINE n == Cardinality(Workers)
  <1>1. n \in Nat /\ n # 0 /\ n <= NumThreads
    BY FS_CardinalityType, FS_EmptySet DEF SchedulerAssumption
  <1>2. NumThreads \in Nat
    BY DEF ThreadBudgetAssumption
  <1> HIDE DEF n
  <1>3. n \in Nat /\ n >= 1 /\ NumThreads >= n
    BY <1>1, <1>2
  <1>4. NumThreads \div n \in Nat /\ NumThreads \div n >= 1
    BY <1>2, <1>3
  <1> QED BY <1>4 DEF team_size, n

(* The units of a work are a number.                                       *)
LEMMA WorkUnitsType ==
  ASSUME SchedulerAssumption, ThreadBudgetAssumption, NEW w \in Work
  PROVE  WorkUnits(w) \in Nat /\ Len(w.requests) \in Nat
  <1>1. w.requests \in Seq(Request) /\ Len(w.requests) \in Nat
    BY WorkRequests, LenProperties
  <1>2. CASE w.kind = "decode"
    <2> DEFINE n == Len(w.requests)
    <2>1. n \in Nat /\ team_size \in Nat
      BY <1>1, TeamSizePositive
    <2> HIDE DEF n
    <2>2. n * team_size \in Nat
      BY <2>1
    <2> QED BY <1>1, <1>2, <2>2 DEF WorkUnits, n
  <1>3. CASE w.kind # "decode"
    <2> DEFINE T(i) == {i} \X (1 .. w.requests[i].tokens)
               F == {T(i) : i \in DOMAIN w.requests}
    <2>1. DOMAIN w.requests = 1 .. Len(w.requests)
      BY <1>1, LenProperties
    <2>2. IsFiniteSet(DOMAIN w.requests)
      BY <1>1, <2>1, FS_Interval
    <2>3. IsFiniteSet(F)
      <3> DEFINE f == [i \in DOMAIN w.requests |-> T(i)]
      <3> HIDE DEF T
      <3>1. f \in Surjection(DOMAIN w.requests, F)
        BY DEF Surjection
      <3> QED BY <2>2, <3>1, FS_Surjection
    <2>4. \A t \in F : IsFiniteSet(t)
      <3> SUFFICES ASSUME NEW i \in DOMAIN w.requests
                   PROVE  IsFiniteSet(T(i))
        OBVIOUS
      <3> DEFINE n == w.requests[i].tokens
      <3>0. w.requests[i] \in Request
        BY <1>1, <2>1, ElementOfSeq
      <3>1. n \in Nat
        BY <3>0 DEF Request
      <3> HIDE DEF n
      <3>2. IsFiniteSet({i}) /\ IsFiniteSet(1 .. n)
        BY <3>1, 1 \in Int, n \in Int, FS_Singleton, FS_Interval
      <3> QED BY <3>2, FS_Product DEF n
    <2> HIDE DEF F
    <2>5. Cardinality(UNION F) \in Nat
      BY <2>3, <2>4, FS_UNION, FS_CardinalityType
    <2> QED BY <1>1, <1>3, <2>5 DEF WorkUnits, F
  <1> QED BY <1>2, <1>3

-----------------------------------------------------------------------------
(* The sums of the budget.                                                 *)

(* The leases of a worker follow its way through the code: nothing between *)
(* two works, one of compute threads from the grant on, one of extra       *)
(* threads during the pass; the pass uses no more than both.               *)
InLimits(l) == l.count \in 0 .. MaxThreads /\ l.base \in 0 .. MaxThreads
LeaseSane(w) ==
    /\ InLimits(lease[w]) /\ InLimits(extra[w])
    /\ worker[w] \in {"ready", "asleep", "lease", "exited"} => lease[w] = NoLease
    /\ worker[w] # "lock" => extra[w] = NoLease
    /\ worker[w] \in {"measure", "extend", "lock"} => lease[w].count >= 1
    /\ worker[w] = "lock" => team[w] <= lease[w].count + extra[w].count
LeasesSane == \A w \in Workers : LeaseSane(w)

(* The budget is the sum of the leases, and within its limits.             *)
BudgetSums ==
    /\ active.count = Counts(lease) + Counts(extra)
    /\ active.base = Bases(lease) + Bases(extra)
    /\ active.count <= MaxThreads /\ active.base <= NumThreads

(* The leases of one kind before and after that of worker w changed.       *)
Leases == {l \in [Workers -> Lease] : \A w \in Workers : InLimits(l[w])}
OneChanges(old, new, w) ==
    /\ old \in Leases /\ new \in Leases /\ w \in Workers
    /\ \A v \in Workers : v # w => new[v] = old[v]

(* One lease that changes changes the sums by the difference.              *)
LEMMA SumsChanged ==
  ASSUME SchedulerAssumption, ThreadBudgetAssumption, NEW old, NEW new, NEW w,
         OneChanges(old, new, w)
  PROVE  /\ Counts(new) = Counts(old) - old[w].count + new[w].count
         /\ Bases(new) = Bases(old) - old[w].base + new[w].base
         /\ Counts(old) \in Nat /\ Bases(old) \in Nat
         /\ Counts(new) \in Nat /\ Bases(new) \in Nat
         /\ old[w].count \in Nat /\ old[w].base \in Nat
         /\ new[w].count \in Nat /\ new[w].base \in Nat
  <1> DEFINE f == [v \in Workers |-> old[v].count]
             g == [v \in Workers |-> new[v].count]
             h == [v \in Workers |-> old[v].base]
             k == [v \in Workers |-> new[v].base]
  <1>1. IsFiniteSet(Workers) /\ MaxThreads \in Nat
    BY DEF SchedulerAssumption, ThreadBudgetAssumption
  <1>2. /\ Changes(Workers, MaxThreads, f, g, w) /\ Changes(Workers, MaxThreads, h, k, w)
        /\ f[w] = old[w].count /\ g[w] = new[w].count
        /\ h[w] = old[w].base /\ k[w] = new[w].base
    BY <1>1 DEF OneChanges, Leases, InLimits, Changes
  <1>3. /\ Counts(old) = Weight(Workers, MaxThreads, f)
        /\ Counts(new) = Weight(Workers, MaxThreads, g)
        /\ Bases(old) = Weight(Workers, MaxThreads, h)
        /\ Bases(new) = Weight(Workers, MaxThreads, k)
    BY DEF Counts, Bases, Total, Weight
  <1>4. /\ old[w].count \in Nat /\ old[w].base \in Nat
        /\ new[w].count \in Nat /\ new[w].base \in Nat
    BY DEF OneChanges, Leases, Lease
  <1> HIDE DEF f, g, h, k
  <1>5. /\ Weight(Workers, MaxThreads, g) = Weight(Workers, MaxThreads, f) - f[w] + g[w]
        /\ Weight(Workers, MaxThreads, f) \in Nat /\ Weight(Workers, MaxThreads, g) \in Nat
    BY <1>2, WeightChanged
  <1>6. /\ Weight(Workers, MaxThreads, k) = Weight(Workers, MaxThreads, h) - h[w] + k[w]
        /\ Weight(Workers, MaxThreads, h) \in Nat /\ Weight(Workers, MaxThreads, k) \in Nat
    BY <1>2, WeightChanged
  <1> QED BY <1>2, <1>3, <1>4, <1>5, <1>6

(* Nothing leased counts nothing.                                          *)
LEMMA NoLeaseFits ==
  ASSUME ThreadBudgetAssumption
  PROVE  NoLease \in Lease /\ InLimits(NoLease) /\ NoLease.count = 0 /\ NoLease.base = 0
  BY DEF ThreadBudgetAssumption, NoLease, Lease, InLimits

(* When the lease of a worker changes and the budget changes by the        *)
(* difference, within its limits, the budget remains the sum.              *)
LEMMA SumsFollow ==
  ASSUME SchedulerAssumption, ThreadBudgetAssumption, BudgetTypes, BudgetSums,
         NEW w, NEW old, NEW new,
         OneChanges(old, new, w),
         \/ /\ old = lease /\ new = lease' /\ UNCHANGED extra /\ extra \in Leases
         \/ /\ old = extra /\ new = extra' /\ UNCHANGED lease /\ lease \in Leases,
         active' = [count |-> active.count - old[w].count + new[w].count,
                    base |-> active.base - old[w].base + new[w].base],
         active.count - old[w].count + new[w].count <= MaxThreads,
         active.base - old[w].base + new[w].base <= NumThreads
  PROVE  BudgetSums' /\ active' \in Lease
  <1> DEFINE co == Counts(old)    cn == Counts(new)
             bo == Bases(old)     bn == Bases(new)
             oc == old[w].count   nc == new[w].count
             ob == old[w].base    nb == new[w].base
  <1>1. /\ cn = co - oc + nc /\ bn = bo - ob + nb
        /\ co \in Nat /\ cn \in Nat /\ bo \in Nat /\ bn \in Nat
        /\ oc \in Nat /\ nc \in Nat /\ ob \in Nat /\ nb \in Nat
    BY SumsChanged
  <1>2. PICK other : /\ \/ other = lease /\ old = extra
                        \/ other = extra /\ old = lease
                     /\ other \in Leases
                     /\ \/ other = lease' /\ new = extra'
                        \/ other = extra' /\ new = lease'
    OBVIOUS
  <1> DEFINE c == Counts(other)   b == Bases(other)
  <1>3. c \in Nat /\ b \in Nat
    <2>1. OneChanges(other, other, w)
      BY <1>2 DEF OneChanges
    <2> QED BY <2>1, SumsChanged
  <1>4. /\ Counts(lease) + Counts(extra) = co + c
        /\ Bases(lease) + Bases(extra) = bo + b
    <2>1. Counts(lease) \in Nat /\ Counts(extra) \in Nat /\ Bases(lease) \in Nat /\ Bases(extra) \in Nat
      BY <1>1, <1>2, <1>3
    <2> QED BY <1>2, <2>1
  <1>5. active.count = co + c /\ active.base = bo + b
    BY <1>4 DEF BudgetSums
  <1>6. /\ Counts(lease') + Counts(extra') = cn + c
        /\ Bases(lease') + Bases(extra') = bn + b
    <2>1. /\ Counts(lease') \in Nat /\ Counts(extra') \in Nat
          /\ Bases(lease') \in Nat /\ Bases(extra') \in Nat
      BY <1>1, <1>2, <1>3
    <2> QED BY <1>2, <2>1
  <1>7. active' = [count |-> active.count - oc + nc, base |-> active.base - ob + nb]
    OBVIOUS
  <1>8. active.count - oc + nc <= MaxThreads /\ active.base - ob + nb <= NumThreads
    OBVIOUS
  <1> HIDE DEF co, cn, bo, bn, oc, nc, ob, nb, c, b
  <1>9. active.count - oc + nc = cn + c /\ active.base - ob + nb = bn + b
    BY <1>1, <1>3, <1>5, SMTT(30)
  <1>10. active'.count = cn + c /\ active'.base = bn + b
    BY <1>7, <1>9
  <1>11. active' \in Lease
    <2>1. cn + c \in Nat /\ bn + b \in Nat
      BY <1>1, <1>3
    <2> QED BY <1>7, <1>9, <2>1 DEF Lease
  <1>12. (active.count)' = (Counts(lease))' + (Counts(extra))'
    BY <1>6, <1>10 DEF Counts, Total
  <1>13. (active.base)' = (Bases(lease))' + (Bases(extra))'
    BY <1>6, <1>10 DEF Bases, Total
  <1>14. active'.count <= MaxThreads /\ active'.base <= NumThreads
    BY <1>8, <1>9, <1>10
  <1>15. BudgetSums'
    BY <1>12, <1>13, <1>14 DEF BudgetSums
  <1> QED BY <1>11, <1>15

(* The budget of a scheduler keeps its types, its leases and its sums.     *)
BudgetInv == BudgetTypes /\ LeasesSane /\ BudgetSums

(* A step of one worker leaves the leases of the others alone.             *)
LEMMA OthersLease ==
  ASSUME LeasesSane, NEW w \in Workers, LeaseSane(w)',
         \A v \in Workers : v # w =>
             /\ worker'[v] = worker[v] /\ lease'[v] = lease[v]
             /\ extra'[v] = extra[v] /\ team'[v] = team[v]
  PROVE  LeasesSane'
  <1> SUFFICES ASSUME NEW v \in Workers
               PROVE  LeaseSane(v)'
    BY DEF LeasesSane
  <1>1. CASE v = w
    BY <1>1
  <1>2. CASE v # w
    <2>1. LeaseSane(v)
      BY DEF LeasesSane
    <2> QED BY <1>2, <2>1 DEF LeaseSane, InLimits
  <1> QED BY <1>1, <1>2

(* What the invariant says of the leases as functions.                     *)
LEMMA LeasesFit ==
  ASSUME BudgetInv
  PROVE  /\ lease \in Leases /\ extra \in Leases
         /\ lease \in [Workers -> Lease] /\ extra \in [Workers -> Lease]
         /\ team \in [Workers -> Nat]
         /\ active \in Lease /\ active.count \in Nat /\ active.base \in Nat
         /\ active.count <= MaxThreads /\ active.base <= NumThreads
  BY DEF BudgetInv, BudgetTypes, LeasesSane, LeaseSane, Leases, BudgetSums, Lease

(* acquire_compute: the first lease of a worker's work.                    *)
LEMMA AcquireKeepsBudget ==
  ASSUME SchedulerAssumption, ThreadBudgetAssumption, WorkerTypes, BudgetInv,
         NEW w \in Workers, AcquireCompute(w)
  PROVE  BudgetInv'
  <1> DEFINE new == Grant(active, team_size, FALSE)
  <1>1. /\ worker[w] = "lease" /\ Available(active, FALSE) # 0
        /\ lease' = [lease EXCEPT ![w] = new] /\ active' = Leased(active, new)
        /\ team' = [team EXCEPT ![w] = new.count] /\ UNCHANGED extra
        /\ worker' = [worker EXCEPT ![w] = IF Staged(work[w]) THEN "measure" ELSE "lock"]
    BY DEF AcquireCompute
  <1>2. /\ new \in Lease /\ InLimits(new)
        /\ active.count + new.count <= MaxThreads
        /\ active.base + new.base <= NumThreads /\ new.count >= 1
    <2>1. team_size \in Nat /\ team_size >= 1
      BY TeamSizePositive
    <2> QED BY <1>1, <2>1, GrantFits, LeasesFit DEF InLimits
  <1> HIDE DEF new
  <1>3. /\ lease[w] = NoLease /\ extra[w] = NoLease
    BY <1>1 DEF BudgetInv, LeasesSane, LeaseSane
  <1>4. OneChanges(lease, lease', w)
    BY <1>1, <1>2, LeasesFit DEF OneChanges, Leases
  <1>5. lease'[w] = new /\ team'[w] = new.count /\ extra'[w] = NoLease
        /\ worker'[w] \in {"measure", "lock"}
    BY <1>1, <1>3, LeasesFit DEF WorkerTypes
  <1>6. /\ new.count \in Nat /\ new.base \in Nat
        /\ NoLease.count = 0 /\ NoLease.base = 0 /\ InLimits(NoLease)
    BY <1>2, NoLeaseFits DEF Lease
  <1>7. /\ active.count - lease[w].count + lease'[w].count = active.count + new.count
        /\ active.base - lease[w].base + lease'[w].base = active.base + new.base
    BY <1>3, <1>5, <1>6, LeasesFit
  <1>8. active' = [count |-> active.count - lease[w].count + lease'[w].count,
                   base |-> active.base - lease[w].base + lease'[w].base]
    BY <1>1, <1>7 DEF Leased
  <1>9. BudgetSums' /\ active' \in Lease
    BY <1>1, <1>2, <1>4, <1>7, <1>8, LeasesFit, SumsFollow DEF BudgetInv
  <1>10. LeaseSane(w)'
    <2>1. team'[w] <= lease'[w].count + extra'[w].count
      BY <1>5, <1>6
    <2> QED BY <1>2, <1>5, <1>6, <2>1 DEF LeaseSane, InLimits
  <1>11. LeasesSane'
    <2>1. \A v \in Workers : v # w =>
             /\ worker'[v] = worker[v] /\ lease'[v] = lease[v]
             /\ extra'[v] = extra[v] /\ team'[v] = team[v]
      BY <1>1, LeasesFit DEF WorkerTypes
    <2> QED BY <1>10, <2>1, OthersLease DEF BudgetInv
  <1>12. BudgetTypes'
    BY <1>1, <1>2, <1>6, <1>9, LeasesFit DEF BudgetTypes
  <1> QED BY <1>9, <1>11, <1>12 DEF BudgetInv

(* The team that a staged pass asks for is a number of threads.            *)
LEMMA MeasureKeepsBudget ==
  ASSUME SchedulerAssumption, ThreadBudgetAssumption, WorkerTypes, BudgetInv,
         NEW w \in Workers, MeasureTeam(w)
  PROVE  BudgetInv'
  <1>1. /\ worker[w] = "measure" /\ team' = [team EXCEPT ![w] = DesiredTeam(w)]
        /\ worker' = [worker EXCEPT ![w] = "extend"]
        /\ UNCHANGED <<active, lease, extra>>
    BY DEF MeasureTeam
  <1>2. DesiredTeam(w) \in Nat
    <2> DEFINE left == lease[w].count + Available(active, TRUE)
               available == Most(1, Least(MaxThreads, left))
    <2>1. work[w] \in Work
      BY DEF WorkerTypes
    <2>2. /\ WorkUnits(work[w]) \in Nat /\ Len(work[w].requests) \in Nat
          /\ team_size \in Nat
      BY <2>1, WorkUnitsType, TeamSizePositive
    <2>3. MaxThreads \in Nat /\ left \in Int
      BY LeasesFit DEF ThreadBudgetAssumption, Lease, Available
    <2> HIDE DEF left
    <2>4. available \in Nat
      BY <2>3 DEF Most, Least
    <2>5. DesiredTeam(w) = TeamSize(WorkUnits(work[w]), Len(work[w].requests),
                                    team_size, available)
      BY DEF DesiredTeam, left
    <2> DEFINE units == WorkUnits(work[w])  items == Len(work[w].requests)
    <2>6. units \in Nat /\ items \in Nat /\ team_size \in Nat
      BY <2>2
    <2>7. DesiredTeam(w) = TeamSize(units, items, team_size, available)
      BY <2>5
    <2> HIDE DEF available, units, items
    <2>8. TeamSize(units, items, team_size, available) \in Nat
      BY <2>4, <2>6, TeamSizeType
    <2> QED BY <2>7, <2>8
  <1>3. BudgetSums'
    <2>1. BudgetSums
      BY DEF BudgetInv
    <2> QED BY <1>1, <2>1 DEF BudgetSums, Counts, Bases, Total
  <1>4. BudgetTypes'
    BY <1>1, <1>2, LeasesFit DEF BudgetTypes
  <1>5. LeaseSane(w)'
    <2>1. LeaseSane(w)
      BY DEF BudgetInv, LeasesSane
    <2>2. worker'[w] = "extend"
      BY <1>1 DEF WorkerTypes
    <2> QED BY <1>1, <2>1, <2>2 DEF LeaseSane, InLimits
  <1>6. LeasesSane'
    <2>1. \A v \in Workers : v # w =>
             /\ worker'[v] = worker[v] /\ lease'[v] = lease[v]
             /\ extra'[v] = extra[v] /\ team'[v] = team[v]
      BY <1>1, LeasesFit DEF WorkerTypes
    <2> QED BY <1>5, <2>1, OthersLease DEF BudgetInv
  <1> QED BY <1>3, <1>4, <1>6 DEF BudgetInv

(* prepare_staging_team: the second lease, within what is left by then.    *)
LEMMA PrepareKeepsBudget ==
  ASSUME SchedulerAssumption, ThreadBudgetAssumption, WorkerTypes, BudgetInv,
         NEW w \in Workers, PrepareTeam(w)
  PROVE  BudgetInv'
  <1> DEFINE new == IF team[w] > lease[w].count
                    THEN Grant(active, team[w] - lease[w].count, TRUE) ELSE NoLease
             size == WithinLease(team[w], lease[w].count + new.count)
  <1>1. /\ worker[w] = "extend" /\ UNCHANGED lease
        /\ extra' = [extra EXCEPT ![w] = new] /\ active' = Leased(active, new)
        /\ worker' = [worker EXCEPT ![w] = "lock"]
        /\ team' = [team EXCEPT ![w] = size]
    BY LeasesFit DEF PrepareTeam
  <1>2. /\ new \in Lease /\ InLimits(new)
        /\ active.count + new.count <= MaxThreads
        /\ active.base + new.base <= NumThreads
    <2>1. CASE team[w] > lease[w].count
      <3>1. team[w] - lease[w].count \in Nat
        BY <2>1, LeasesFit DEF Lease
      <3>2. new = Grant(active, team[w] - lease[w].count, TRUE)
        BY <2>1
      <3> HIDE DEF new
      <3> QED BY <3>1, <3>2, GrantFits, LeasesFit DEF InLimits
    <2>2. CASE ~(team[w] > lease[w].count)
      <3>1. new = NoLease
        BY <2>2
      <3> HIDE DEF new
      <3> QED BY <3>1, NoLeaseFits, LeasesFit
    <2> QED BY <2>1, <2>2
  <1> HIDE DEF new
  <1>3. lease[w].count \in Nat /\ lease[w].count >= 1 /\ extra[w] = NoLease
        /\ InLimits(lease[w])
    BY <1>1, LeasesFit DEF BudgetInv, LeasesSane, LeaseSane, Lease
  <1>4. OneChanges(extra, extra', w)
    BY <1>1, <1>2, LeasesFit DEF OneChanges, Leases
  <1>5. /\ new.count \in Nat /\ new.base \in Nat
        /\ NoLease.count = 0 /\ NoLease.base = 0
    BY <1>2, NoLeaseFits DEF Lease
  <1>6. size \in Nat /\ size <= lease[w].count + new.count
    <2> DEFINE t == team[w]  c == lease[w].count
    <2>1. t \in Nat /\ c \in Nat /\ c >= 1
      BY <1>3, LeasesFit
    <2>2. size = WithinLease(t, c + new.count)
      OBVIOUS
    <2> HIDE DEF t, c, size
    <2>3. size \in Nat /\ size <= c + new.count
      BY <1>5, <2>1, <2>2 DEF WithinLease, Most, Least
    <2> QED BY <2>3 DEF c
  <1> HIDE DEF size
  <1>7. /\ extra'[w] = new /\ team'[w] = size /\ lease'[w] = lease[w]
        /\ worker'[w] = "lock"
    BY <1>1, LeasesFit DEF WorkerTypes
  <1>8. /\ active.count - extra[w].count + extra'[w].count = active.count + new.count
        /\ active.base - extra[w].base + extra'[w].base = active.base + new.base
    BY <1>3, <1>5, <1>7, LeasesFit
  <1>9. active' = [count |-> active.count - extra[w].count + extra'[w].count,
                   base |-> active.base - extra[w].base + extra'[w].base]
    BY <1>1, <1>8 DEF Leased
  <1>10. BudgetSums' /\ active' \in Lease
    BY <1>1, <1>2, <1>4, <1>8, <1>9, LeasesFit, SumsFollow DEF BudgetInv
  <1>11. LeaseSane(w)'
    BY <1>2, <1>3, <1>6, <1>7 DEF LeaseSane, InLimits
  <1>12. LeasesSane'
    <2>1. \A v \in Workers : v # w =>
             /\ worker'[v] = worker[v] /\ lease'[v] = lease[v]
             /\ extra'[v] = extra[v] /\ team'[v] = team[v]
      BY <1>1, LeasesFit DEF WorkerTypes
    <2> QED BY <1>11, <2>1, OthersLease DEF BudgetInv
  <1>13. BudgetTypes'
    BY <1>1, <1>2, <1>6, <1>10, LeasesFit DEF BudgetTypes
  <1> QED BY <1>10, <1>12, <1>13 DEF BudgetInv

(* What is given back leaves the budget within its limit.                  *)
LEMMA GivenBack ==
  ASSUME NEW used \in Nat, NEW limit \in Nat, used <= limit, NEW given \in Nat, NEW nothing,
         nothing = 0
  PROVE  used - given + nothing = used - given /\ used - given + nothing <= limit
  OBVIOUS

(* The end of a pass gives the extra threads back.                         *)
LEMMA ExecuteKeepsBudget ==
  ASSUME SchedulerAssumption, ThreadBudgetAssumption, WorkerTypes, BudgetInv,
         NEW w \in Workers, Execute(w)
  PROVE  BudgetInv'
  <1>1. /\ worker[w] = "lock" /\ UNCHANGED lease
        /\ extra' = [extra EXCEPT ![w] = NoLease] /\ active' = Returned(active, extra[w])
        /\ team' = [team EXCEPT ![w] = lease[w].count]
        /\ worker' = [worker EXCEPT ![w] = "release"]
    BY DEF Execute
  <1>2. /\ NoLease \in Lease /\ InLimits(NoLease) /\ NoLease.count = 0 /\ NoLease.base = 0
    BY NoLeaseFits
  <1>3. OneChanges(extra, extra', w)
    BY <1>1, <1>2, LeasesFit DEF OneChanges, Leases
  <1>4. /\ extra'[w] = NoLease /\ team'[w] = lease[w].count /\ lease'[w] = lease[w]
        /\ worker'[w] = "release"
    BY <1>1, LeasesFit DEF WorkerTypes
  <1>5. extra[w].count \in Nat /\ extra[w].base \in Nat /\ lease[w].count \in Nat
    BY LeasesFit DEF Lease
  <1>6. /\ active.count - extra[w].count + extra'[w].count = active.count - extra[w].count
        /\ active.base - extra[w].base + extra'[w].base = active.base - extra[w].base
        /\ active.count - extra[w].count + extra'[w].count <= MaxThreads
        /\ active.base - extra[w].base + extra'[w].base <= NumThreads
    <2>1. extra'[w].count = 0 /\ extra'[w].base = 0
      BY <1>2, <1>4
    <2>2. /\ active.count \in Nat /\ active.base \in Nat
          /\ active.count <= MaxThreads /\ active.base <= NumThreads
          /\ MaxThreads \in Nat /\ NumThreads \in Nat
      BY LeasesFit DEF ThreadBudgetAssumption
    <2>3. /\ active.count - extra[w].count + extra'[w].count = active.count - extra[w].count
          /\ active.count - extra[w].count + extra'[w].count <= MaxThreads
      BY <1>5, <2>1, <2>2, GivenBack
    <2>4. /\ active.base - extra[w].base + extra'[w].base = active.base - extra[w].base
          /\ active.base - extra[w].base + extra'[w].base <= NumThreads
      BY <1>5, <2>1, <2>2, GivenBack
    <2> QED BY <2>3, <2>4
  <1>7. active' = [count |-> active.count - extra[w].count + extra'[w].count,
                   base |-> active.base - extra[w].base + extra'[w].base]
    BY <1>1, <1>6 DEF Returned
  <1>8. BudgetSums' /\ active' \in Lease
    BY <1>1, <1>3, <1>6, <1>7, LeasesFit, SumsFollow DEF BudgetInv
  <1>9. LeaseSane(w)'
    <2>1. LeaseSane(w)
      BY DEF BudgetInv, LeasesSane
    <2> QED BY <1>2, <1>4, <2>1 DEF LeaseSane, InLimits
  <1>10. LeasesSane'
    <2>1. \A v \in Workers : v # w =>
             /\ worker'[v] = worker[v] /\ lease'[v] = lease[v]
             /\ extra'[v] = extra[v] /\ team'[v] = team[v]
      BY <1>1, LeasesFit DEF WorkerTypes
    <2> QED BY <1>9, <2>1, OthersLease DEF BudgetInv
  <1>11. BudgetTypes'
    BY <1>1, <1>2, <1>5, <1>8, LeasesFit DEF BudgetTypes
  <1> QED BY <1>8, <1>10, <1>11 DEF BudgetInv

(* The end of a work gives its compute threads back.                       *)
LEMMA CompleteKeepsBudget ==
  ASSUME SchedulerAssumption, ThreadBudgetAssumption, WorkerTypes, BudgetInv,
         NEW w \in Workers, Complete(w)
  PROVE  BudgetInv'
  <1>1. /\ worker[w] = "complete" /\ UNCHANGED extra
        /\ lease' = [lease EXCEPT ![w] = NoLease] /\ active' = Returned(active, lease[w])
        /\ team' = [team EXCEPT ![w] = 0]
        /\ worker' = [worker EXCEPT ![w] = "ready"]
    BY DEF Complete
  <1>2. /\ NoLease \in Lease /\ InLimits(NoLease) /\ NoLease.count = 0 /\ NoLease.base = 0
    BY NoLeaseFits
  <1>3. OneChanges(lease, lease', w)
    BY <1>1, <1>2, LeasesFit DEF OneChanges, Leases
  <1>4. /\ lease'[w] = NoLease /\ extra'[w] = extra[w] /\ worker'[w] = "ready"
    BY <1>1, LeasesFit DEF WorkerTypes
  <1>5. lease[w].count \in Nat /\ lease[w].base \in Nat
    BY LeasesFit DEF Lease
  <1>6. /\ active.count - lease[w].count + lease'[w].count = active.count - lease[w].count
        /\ active.base - lease[w].base + lease'[w].base = active.base - lease[w].base
        /\ active.count - lease[w].count + lease'[w].count <= MaxThreads
        /\ active.base - lease[w].base + lease'[w].base <= NumThreads
    <2>1. lease'[w].count = 0 /\ lease'[w].base = 0
      BY <1>2, <1>4
    <2>2. /\ active.count \in Nat /\ active.base \in Nat
          /\ active.count <= MaxThreads /\ active.base <= NumThreads
          /\ MaxThreads \in Nat /\ NumThreads \in Nat
      BY LeasesFit DEF ThreadBudgetAssumption
    <2>3. /\ active.count - lease[w].count + lease'[w].count = active.count - lease[w].count
          /\ active.count - lease[w].count + lease'[w].count <= MaxThreads
      BY <1>5, <2>1, <2>2, GivenBack
    <2>4. /\ active.base - lease[w].base + lease'[w].base = active.base - lease[w].base
          /\ active.base - lease[w].base + lease'[w].base <= NumThreads
      BY <1>5, <2>1, <2>2, GivenBack
    <2> QED BY <2>3, <2>4
  <1>7. active' = [count |-> active.count - lease[w].count + lease'[w].count,
                   base |-> active.base - lease[w].base + lease'[w].base]
    BY <1>1, <1>6 DEF Returned
  <1>8. BudgetSums' /\ active' \in Lease
    BY <1>1, <1>3, <1>6, <1>7, LeasesFit, SumsFollow DEF BudgetInv
  <1>9. LeaseSane(w)'
    <2>1. LeaseSane(w)
      BY DEF BudgetInv, LeasesSane
    <2> QED BY <1>1, <1>2, <1>4, <2>1 DEF LeaseSane, InLimits
  <1>10. LeasesSane'
    <2>1. \A v \in Workers : v # w =>
             /\ worker'[v] = worker[v] /\ lease'[v] = lease[v]
             /\ extra'[v] = extra[v] /\ team'[v] = team[v]
      BY <1>1, LeasesFit DEF WorkerTypes
    <2> QED BY <1>9, <2>1, OthersLease DEF BudgetInv
  <1>11. BudgetTypes'
    BY <1>1, <1>2, <1>8, LeasesFit DEF BudgetTypes
  <1> QED BY <1>8, <1>10, <1>11 DEF BudgetInv

(* The other steps lease nothing, and no worker comes or goes where leases *)
(* are held.                                                               *)
LEMMA RestKeepsBudget ==
  ASSUME BudgetInv, UNCHANGED budget_vars,
         \A v \in Workers :
             \/ worker'[v] = worker[v]
             \/ worker[v] \in {"ready", "asleep"} /\ worker'[v] \in {"ready", "asleep", "lease", "exited"}
             \/ worker[v] = "release" /\ worker'[v] = "announce"
             \/ worker[v] = "announce" /\ worker'[v] = "complete"
  PROVE  BudgetInv'
  <1>1. BudgetTypes'
    BY DEF BudgetInv, BudgetTypes, budget_vars
  <1>2. BudgetSums'
    <2>1. BudgetSums
      BY DEF BudgetInv
    <2> QED BY <2>1 DEF BudgetSums, budget_vars, Counts, Bases, Total
  <1>3. LeasesSane'
    <2> SUFFICES ASSUME NEW v \in Workers
                 PROVE  LeaseSane(v)'
      BY DEF LeasesSane
    <2>1. LeaseSane(v)
      BY DEF BudgetInv, LeasesSane
    <2> QED BY <2>1 DEF LeaseSane, InLimits, budget_vars
  <1> QED BY <1>1, <1>2, <1>3 DEF BudgetInv

(* Every step keeps the budget exact.                                      *)
LEMMA BudgetStep ==
  ASSUME SchedulerAssumption, ThreadBudgetAssumption, WorkerTypes, BudgetInv, [Next]_vars
  PROVE  BudgetInv'
  <1>1. ASSUME NEW w \in Workers, WorkerStep(w)
        PROVE  BudgetInv'
    <2>1. CASE AcquireCompute(w)
      BY <2>1, AcquireKeepsBudget
    <2>2. CASE MeasureTeam(w)
      BY <2>2, MeasureKeepsBudget
    <2>3. CASE PrepareTeam(w)
      BY <2>3, PrepareKeepsBudget
    <2>4. CASE Execute(w)
      BY <2>4, ExecuteKeepsBudget
    <2>5. CASE Complete(w)
      BY <2>5, CompleteKeepsBudget
    <2>6. CASE Wait(w) \/ Take(w) \/ Leave(w) \/ LockSession(w) \/ ReleaseSessions(w)
      <3>1. UNCHANGED budget_vars
        BY <2>6 DEF Wait, Take, Leave, LockSession, ReleaseSessions
      <3>2. \/ UNCHANGED worker
            \/ /\ worker[w] = "ready"
               /\ \E state \in {"asleep", "lease", "exited"} :
                      worker' = [worker EXCEPT ![w] = state]
            \/ worker[w] = "release" /\ worker' = [worker EXCEPT ![w] = "announce"]
        BY <2>6 DEF Wait, Take, Leave, LockSession, ReleaseSessions
      <3> QED BY <3>1, <3>2, RestKeepsBudget DEF WorkerTypes
    <2>7. CASE NotifyAll(w)
      BY <2>7, RestKeepsBudget DEF NotifyAll, WakeAll, WorkerTypes
    <2> QED BY <1>1, <2>1, <2>2, <2>3, <2>4, <2>5, <2>6, <2>7 DEF WorkerStep
  <1>2. CASE NotifyStop
    BY <1>2, RestKeepsBudget DEF NotifyStop, WakeAll, WorkerTypes
  <1>3. CASE \E c \in Callers : NotifyOne(c)
    <2>1. UNCHANGED budget_vars
      BY <1>3 DEF NotifyOne
    <2>2. \/ UNCHANGED worker
          \/ \E v \in Workers : worker[v] = "asleep" /\ worker' = [worker EXCEPT ![v] = "ready"]
      BY <1>3 DEF NotifyOne, Asleep
    <2> QED BY <2>1, <2>2, RestKeepsBudget DEF WorkerTypes
  <1>4. CASE UNCHANGED budget_vars /\ UNCHANGED worker
    BY <1>4, RestKeepsBudget
  <1>5. \/ UNCHANGED budget_vars /\ UNCHANGED worker
        \/ \E w \in Workers : WorkerStep(w)
        \/ NotifyStop
        \/ \E c \in Callers : NotifyOne(c)
    <2>1. ASSUME NEW c \in Callers, Submit(c) \/ TryEnqueueBatch(c) \/ EnqueueSession(c) \/ Throw(c)
          PROVE  UNCHANGED budget_vars /\ UNCHANGED worker
      BY <2>1 DEF Submit, TryEnqueueBatch, EnqueueSession, Throw, budget_vars
    <2>2. ASSUME NEW c \in Callers,
                 StartDirect(c) \/ Reset(c) \/ CommitGeneration(c) \/ LockDirect(c) \/ RunDirect(c)
          PROVE  UNCHANGED budget_vars /\ UNCHANGED worker
      BY <2>2 DEF StartDirect, Reset, CommitGeneration, LockDirect, RunDirect, budget_vars
    <2>3. ASSUME Stop \/ Join \/ UNCHANGED vars
          PROVE  UNCHANGED budget_vars /\ UNCHANGED worker
      BY <2>3 DEF Stop, Join, vars, budget_vars
    <2>4. \/ \E c \in Callers : Submit(c) \/ TryEnqueueBatch(c) \/ EnqueueSession(c) \/ Throw(c)
          \/ \E c \in Callers :
                StartDirect(c) \/ Reset(c) \/ CommitGeneration(c) \/ LockDirect(c) \/ RunDirect(c)
          \/ \E c \in Callers : NotifyOne(c)
          \/ \E w \in Workers : WorkerStep(w)
          \/ NotifyStop
          \/ Stop \/ Join \/ UNCHANGED vars
      BY DEF Next, CallerStep, SubmitStep, DirectStep
    <2> QED BY <2>1, <2>2, <2>3, <2>4
  <1> QED BY <1>1, <1>2, <1>3, <1>4, <1>5

(* No thread is leased at first.                                           *)
LEMMA BudgetInit ==
  ASSUME SchedulerAssumption, ThreadBudgetAssumption, Init
  PROVE  BudgetInv
  <1>1. NoLease \in Lease /\ InLimits(NoLease) /\ NoLease.count = 0 /\ NoLease.base = 0
    BY NoLeaseFits
  <1>2. BudgetTypes
    BY <1>1 DEF Init, BudgetTypes
  <1>3. LeasesSane
    BY <1>1 DEF Init, LeasesSane, LeaseSane
  <1>4. Counts(lease) = 0 /\ Counts(extra) = 0 /\ Bases(lease) = 0 /\ Bases(extra) = 0
    <2> DEFINE f == [w \in Workers |-> NoLease.count]
               g == [w \in Workers |-> NoLease.base]
    <2>1. /\ Counts(lease) = Weight(Workers, MaxThreads, f)
          /\ Counts(extra) = Weight(Workers, MaxThreads, f)
          /\ Bases(lease) = Weight(Workers, MaxThreads, g)
          /\ Bases(extra) = Weight(Workers, MaxThreads, g)
      BY DEF Init, Counts, Bases, Total, Weight
    <2>2. /\ \A w \in Workers : f[w] = 0 /\ g[w] = 0
          /\ MaxThreads \in Nat
      BY <1>1 DEF ThreadBudgetAssumption
    <2> HIDE DEF f, g
    <2>3. Weight(Workers, MaxThreads, f) = 0
      BY <2>2, WeightOfZeros
    <2>4. Weight(Workers, MaxThreads, g) = 0
      BY <2>2, WeightOfZeros
    <2> QED BY <2>1, <2>3, <2>4
  <1>5. BudgetSums
    <2>1. active.count = 0 /\ active.base = 0
      BY <1>1 DEF Init
    <2> QED BY <1>4, <2>1 DEF BudgetSums, ThreadBudgetAssumption
  <1> QED BY <1>2, <1>3, <1>5 DEF BudgetInv

(* The passes under way use what their workers leased, no more.            *)
LEMMA TeamsFit ==
  ASSUME SchedulerAssumption, ThreadBudgetAssumption, BudgetInv
  PROVE  Total({w \in Workers : worker[w] = "lock"}, team) <= MaxThreads
  <1> DEFINE L == {w \in Workers : worker[w] = "lock"}
             f == [w \in Workers |-> lease[w].count]
             h == [w \in Workers |-> extra[w].count]
             A == {p \in L \X (1 .. MaxThreads) : p[2] <= team[p[1]]}
             B == {p \in Workers \X (1 .. MaxThreads) : p[2] <= f[p[1]]}
             C == {p \in Workers \X (1 .. MaxThreads) : p[2] <= h[p[1]]}
             A1 == {p \in A : p[2] <= f[p[1]]}
             A2 == {p \in A : ~(p[2] <= f[p[1]])}
             down == [p \in A2 |-> <<p[1], p[2] - f[p[1]]>>]
  <1>1. IsFiniteSet(Workers) /\ MaxThreads \in Nat
    BY DEF SchedulerAssumption, ThreadBudgetAssumption
  <1>2. IsFiniteSet(B) /\ IsFiniteSet(C)
    <2>1. B \in SUBSET (Workers \X (1 .. MaxThreads)) /\ C \in SUBSET (Workers \X (1 .. MaxThreads))
      OBVIOUS
    <2> HIDE DEF B, C
    <2>2. IsFiniteSet(1 .. MaxThreads)
      BY <1>1, FS_Interval, 1 \in Int, MaxThreads \in Int
    <2>3. IsFiniteSet(Workers \X (1 .. MaxThreads))
      BY <1>1, <2>2, FS_Product
    <2> QED BY <2>1, <2>3, FS_Subset
  <1>3. \A w \in L : /\ w \in Workers
                     /\ f[w] \in Nat /\ h[w] \in Nat /\ team[w] \in Nat
                     /\ team[w] <= f[w] + h[w]
    BY LeasesFit DEF BudgetInv, LeasesSane, LeaseSane, Lease
  <1>4. A1 \in SUBSET B
    BY <1>3
  <1>5. IsFiniteSet(A1) /\ Cardinality(A1) <= Cardinality(B)
    <2> HIDE DEF A1, B
    <2> QED BY <1>2, <1>4, FS_Subset
  <1>6. down \in Injection(A2, C)
    <2>1. ASSUME NEW p \in A2
          PROVE  down[p] \in C
      <3>1. PICK w \in L, n \in 1 .. MaxThreads : p = <<w, n>> /\ n <= team[w] /\ ~(n <= f[w])
        OBVIOUS
      <3>2. /\ f[w] \in Nat /\ h[w] \in Nat /\ team[w] \in Nat /\ w \in Workers
            /\ team[w] <= f[w] + h[w]
        BY <1>3
      <3>3. down[p] = <<w, n - f[w]>>
        BY <3>1
      <3> HIDE DEF f, h, L
      <3>4. n - f[w] \in 1 .. MaxThreads /\ n - f[w] <= h[w]
        BY <1>1, <3>1, <3>2
      <3> QED BY <3>2, <3>3, <3>4
    <2>2. ASSUME NEW p \in A2, NEW q \in A2, down[p] = down[q]
          PROVE  p = q
      <3>1. PICK w \in L, n \in 1 .. MaxThreads : p = <<w, n>>
        OBVIOUS
      <3>2. PICK v \in L, m \in 1 .. MaxThreads : q = <<v, m>>
        OBVIOUS
      <3>3. <<w, n - f[w]>> = <<v, m - f[v]>>
        BY <2>2, <3>1, <3>2
      <3>4. w = v /\ n - f[w] = m - f[w] /\ f[w] \in Nat
        BY <1>3, <3>3
      <3> HIDE DEF f, L
      <3>5. n = m
        BY <3>4
      <3> QED BY <3>1, <3>2, <3>4, <3>5
    <2> HIDE DEF A2, C
    <2>3. down \in [A2 -> C] /\ DOMAIN down = A2
      BY <2>1
    <2> HIDE DEF down
    <2> QED BY <2>2, <2>3 DEF Injection, IsInjective
  <1>7. IsFiniteSet(A2) /\ Cardinality(A2) <= Cardinality(C)
    <2> HIDE DEF A2, C, down
    <2> QED BY <1>2, <1>6, FS_Injection
  <1>8. A = A1 \cup A2
    OBVIOUS
  <1>9. Total(L, team) = Cardinality(A)
    BY DEF Total
  <1>10. Cardinality(B) + Cardinality(C) <= MaxThreads
    <2>1. Counts(lease) = Cardinality(B) /\ Counts(extra) = Cardinality(C)
      BY DEF Counts, Total
    <2> HIDE DEF B, C
    <2> QED BY <2>1 DEF BudgetInv, BudgetSums
  <1> HIDE DEF A, A1, A2, B, C, L
  <1>11. Cardinality(A) = Cardinality(A1) + Cardinality(A2) - Cardinality(A1 \cap A2)
    BY <1>5, <1>7, <1>8, FS_Union
  <1>12. /\ Cardinality(A1) \in Nat /\ Cardinality(A2) \in Nat
         /\ Cardinality(B) \in Nat /\ Cardinality(C) \in Nat
    BY <1>2, <1>5, <1>7, FS_CardinalityType
  <1>13. Cardinality(A1 \cap A2) \in Nat
    <2>1. A1 \cap A2 \in SUBSET A1
      OBVIOUS
    <2>2. IsFiniteSet(A1 \cap A2)
      BY <1>5, <2>1, FS_Subset
    <2> QED BY <2>2, FS_CardinalityType
  <1>14. Cardinality(A) <= MaxThreads
    BY <1>1, <1>5, <1>7, <1>10, <1>11, <1>12, <1>13
  <1> QED BY <1>9, <1>14 DEF L

-----------------------------------------------------------------------------
(* The inductive invariant of the sessions, the queues and the threads.    *)
Control ==
    /\ QueueTypes /\ BatchTypes /\ CallerTypes /\ WorkerTypes /\ OutcomeTypes
    /\ SessionTypes
    /\ CallersSane /\ OutcomesSane /\ ReservationExact

(* Nothing is submitted, reserved or locked at first.                      *)
LEMMA ControlInit ==
  ASSUME SchedulerAssumption, Init
  PROVE  Control
  <1>1. << >> \in Seq(Work) /\ << >> \in Seq(BatchRecord) /\ << >> \in Seq(Request)
        /\ << >> \in Seq(Result) /\ DOMAIN << >> = {}
    OBVIOUS
  <1>2. QueueTypes
    BY <1>1 DEF Init, QueueTypes, Reserved
  <1>3. BatchTypes
    BY <1>1 DEF Init, BatchTypes
  <1>4. CallerTypes
    BY <1>1 DEF Init, CallerTypes, Idle, NoRequests
  <1>5. NoWork \in Work
    BY <1>1 DEF NoWork, Work, NoRequests
  <1>6. WorkerTypes /\ OutcomeTypes
    BY <1>1, <1>5 DEF Init, WorkerTypes, OutcomeTypes
  <1>7. SessionTypes
    BY DEF Init, SessionTypes
  <1>9. CallersSane
    BY DEF Init, CallersSane, Idle, Submitting
  <1>10. OutcomesSane
    BY DEF Init, OutcomesSane
  <1>11. ReservationExact
    <2>1. Busy = {} /\ Reserved = {} /\ DOMAIN queue = {}
      BY <1>1 DEF Init, Busy, Reserved
    <2> QED BY <2>1 DEF ReservationExact
  <1> QED BY <1>2, <1>3, <1>4, <1>6, <1>7, <1>9, <1>10, <1>11 DEF Control

(* Every step keeps it.                                                    *)
LEMMA ControlStep ==
  ASSUME SchedulerAssumption, Control, [Next]_vars
  PROVE  Control'
  <1> USE DEF Control
  <1>1. QueueTypes'
    BY QueueTypesStep
  <1>2. BatchTypes'
    BY BatchTypesStep, ExecutedStep DEF BatchTypes
  <1>3. CallerTypes' /\ CallersSane'
    BY CallerTypesStep, CallersSaneStep
  <1>4. WorkerTypes'
    BY WorkerTypesStep
  <1>5. OutcomeTypes' /\ OutcomesSane'
    BY OutcomesStep
  <1>6. SessionTypes'
    BY SessionsStep
  <1>7. ReservationExact'
    BY ReservationStep
  <1> QED BY <1>1, <1>2, <1>3, <1>4, <1>5, <1>6, <1>7

-----------------------------------------------------------------------------
(* The locks of the sessions.                                              *)

(* A finite set of numbers has a greatest one.                             *)
LEMMA GreatestNumber ==
  ASSUME NEW T, T \subseteq Nat, T # {}, IsFiniteSet(T)
  PROVE  \E m \in T : \A n \in T : n <= m
  <1> DEFINE R == StrictSubsetOrdering(T)
             Above(k) == {j \in T : j > k}
             F == {Above(k) : k \in T}
  <1>1. F \subseteq FiniteSubsetsOf(T)
    BY FS_Subset DEF FiniteSubsetsOf
  <1>2. IsWellFoundedOn(R, FiniteSubsetsOf(T)) /\ F # {}
    BY FS_StrictSubsetOrderingWellFounded
  <1> HIDE DEF R, F
  <1>3. PICK I \in F : \A J \in F : ~ (<<J, I>> \in R)
    BY <1>1, <1>2, WFMin
  <1> USE DEF R, F
  <1>4. PICK m \in T : I = Above(m)
    BY <1>3
  <1>5. ASSUME NEW n \in T, n > m
        PROVE  FALSE
    <2>0. n \in Nat /\ m \in Nat
      OBVIOUS
    <2>1. /\ Above(n) \subseteq Above(m) /\ n \in Above(m) /\ n \notin Above(n)
          /\ Above(n) \in SUBSET T /\ Above(m) \in SUBSET T
      <3>1. ASSUME NEW j \in Above(n)
            PROVE  j \in Above(m)
        <4>1. j \in Nat /\ j > n
          OBVIOUS
        <4> QED BY <1>5, <2>0, <4>1
      <3>2. n \in Above(m) /\ n \notin Above(n)
        BY <1>5, <2>0
      <3> QED BY <3>1, <3>2
    <2>2. <<Above(n), Above(m)>> \in R
      BY <2>1 DEF StrictSubsetOrdering
    <2> QED BY <1>3, <1>4, <2>2
  <1> QED BY <1>5

(* What is held is held by a thread that is locking, one of its sessions,  *)
(* and only after the earlier ones.                                        *)
HeldInOrder(held, lockers, needs) ==
    \A s \in Sessions : held[s] # Nobody =>
        /\ held[s] \in lockers /\ s \in needs[held[s]]
        /\ \A r \in needs[held[s]] : r < s => held[r] = held[s]
Needs == [t \in Threads |-> SessionsToLock(t)]
LocksInOrder == HeldInOrder(holder, Lockers, Needs)

(* Whoever is about to lock sessions locks sessions of the program.        *)
LEMMA NeedsKnown ==
  ASSUME Control
  PROVE  /\ Lockers \subseteq Threads
         /\ \A t \in Lockers : SessionsToLock(t) \subseteq Sessions
         /\ \A t \in Lockers : Needs[t] = SessionsToLock(t)
  <1>1. Lockers \subseteq Threads
    BY DEF Lockers, Threads
  <1>2. ASSUME NEW t \in Lockers
        PROVE  SessionsToLock(t) \subseteq Sessions
    <2>1. CASE t \in Workers /\ worker[t] = "lock"
      <3>1. t \in Busy
        BY <2>1 DEF Busy
      <3> QED BY <2>1, <3>1, BusySessions DEF SessionsToLock, Control
    <2>2. CASE t \notin Workers
      <3>1. t \in Callers /\ caller[t].step = "lock"
        BY <1>2, <2>2 DEF Lockers
      <3> QED BY <2>2, <3>1 DEF SessionsToLock, Control, CallersSane
    <2>3. CASE t \in Workers /\ worker[t] # "lock"
      <3>1. t \in Callers
        BY <1>2, <2>3 DEF Lockers
      <3> QED BY <2>3, <3>1, SchedulerAssumption DEF SchedulerAssumption
    <2> QED BY <2>1, <2>2, <2>3
  <1>3. \A t \in Lockers : Needs[t] = SessionsToLock(t)
    BY <1>1 DEF Needs
  <1> QED BY <1>1, <1>2, <1>3

(* Locks taken in one order leave nobody in a circle: the owner of the     *)
(* last session that is held waits for nobody.                             *)
LEMMA OrderPreventsCircles ==
  ASSUME SchedulerAssumption, Control, LocksInOrder
  PROVE  NoCircularWait
  <1> SUFFICES ASSUME Lockers # {}
               PROVE  \E t \in Lockers : \A s \in SessionsToLock(t) : holder[s] \in {t, Nobody}
    BY DEF NoCircularWait
  <1> DEFINE Held == {s \in Sessions : holder[s] # Nobody}
  <1>1. Held \in SUBSET Sessions /\ IsFiniteSet(Sessions) /\ Held \subseteq Nat
    BY DEF SchedulerAssumption
  <1>2. CASE Held = {}
    BY <1>2, NeedsKnown
  <1>3. CASE Held # {}
    <2>1. IsFiniteSet(Held)
      <3> HIDE DEF Held
      <3> QED BY <1>1, FS_Subset
    <2>2. PICK m \in Held : \A n \in Held : n <= m
      <3> HIDE DEF Held
      <3> QED BY <1>1, <1>3, <2>1, GreatestNumber
    <2>3. holder[m] \in Lockers
      BY DEF LocksInOrder, HeldInOrder
    <2>4. ASSUME NEW s \in SessionsToLock(holder[m]), holder[s] \notin {holder[m], Nobody}
          PROVE  FALSE
      <3>1. s \in Held /\ s # m
        BY <2>3, <2>4, NeedsKnown
      <3>2. s < m
        BY <1>1, <2>2, <3>1
      <3>3. s \in Needs[holder[m]]
        BY <2>3, <2>4, NeedsKnown
      <3>4. holder[s] = holder[m]
        BY <3>2, <3>3 DEF LocksInOrder, HeldInOrder
      <3> QED BY <2>4, <3>4
    <2> QED BY <2>3, <2>4
  <1> QED BY <1>2, <1>3

(* A step that locks nothing and leaves the threads that lock alone.       *)
LEMMA LocksStay ==
  ASSUME LocksInOrder, Control, UNCHANGED holder,
         \A t \in Lockers : t \in Lockers' /\ SessionsToLock(t)' = SessionsToLock(t)
  PROVE  LocksInOrder'
  <1> DEFINE lockers == Lockers  needs == Needs  held == holder
             lockers2 == Lockers'  needs2 == Needs'  held2 == holder'
  <1>1. HeldInOrder(held, lockers, needs) /\ held2 = held
    BY DEF LocksInOrder
  <1>2. \A t \in lockers : t \in lockers2 /\ needs2[t] = needs[t]
    BY NeedsKnown DEF Needs, Threads
  <1> HIDE DEF lockers, needs, held, lockers2, needs2, held2
  <1>3. HeldInOrder(held2, lockers2, needs2)
    BY <1>1, <1>2 DEF HeldInOrder
  <1> QED BY <1>3 DEF LocksInOrder, HeldInOrder, lockers2, needs2, held2

(* The next mutex is taken behind the earlier ones.                        *)
LEMMA LocksTaken ==
  ASSUME LocksInOrder, Control, SchedulerAssumption, NEW t \in Lockers,
         Lock(t, SessionsToLock(t)), UNCHANGED <<worker, work, caller>>
  PROVE  LocksInOrder'
  <1> DEFINE lockers == Lockers  needs == Needs  held == holder
             lockers2 == Lockers'  needs2 == Needs'  held2 == holder'
  <1>1. PICK s \in SessionsToLock(t) :
            /\ holder[s] = Nobody /\ \A r \in SessionsToLock(t) : r < s => holder[r] = t
            /\ holder' = [holder EXCEPT ![s] = t]
    BY DEF Lock
  <1>2. lockers2 = lockers /\ needs2 = needs
    BY DEF Lockers, Needs, SessionsToLock, SessionsOf, SessionsIn
  <1>3. /\ HeldInOrder(held, lockers, needs) /\ t \in lockers /\ s \in needs[t]
        /\ held[s] = Nobody /\ \A r \in needs[t] : r < s => held[r] = t
        /\ held2 = [held EXCEPT ![s] = t]
        /\ \A u \in lockers : needs[u] \subseteq Sessions
        /\ DOMAIN held = Sessions
    BY <1>1, NeedsKnown DEF LocksInOrder, Control, SessionTypes
  <1>4. Sessions \subseteq Nat /\ t # Nobody
    BY NeedsKnown DEF SchedulerAssumption, Threads
  <1> HIDE DEF lockers, needs, held, lockers2, needs2, held2
  <1>5. ASSUME NEW x \in Sessions, held2[x] # Nobody
        PROVE  /\ held2[x] \in lockers /\ x \in needs[held2[x]]
               /\ \A r \in needs[held2[x]] : r < x => held2[r] = held2[x]
    <2>1. CASE x = s
      <3>1. held2[x] = t
        BY <1>3, <2>1
      <3>2. \A r \in needs[t] : r < x => held2[r] = t
        BY <1>3, <2>1
      <3> QED BY <1>3, <2>1, <3>1, <3>2
    <2>2. CASE x # s
      <3>1. held2[x] = held[x]
        BY <1>3, <2>2
      <3>2. /\ held[x] \in lockers /\ x \in needs[held[x]]
            /\ \A r \in needs[held[x]] : r < x => held[r] = held[x]
        BY <1>3, <1>5, <3>1 DEF HeldInOrder
      <3>3. \A r \in needs[held[x]] : r < x => held2[r] = held[x]
        BY <1>3, <1>5, <3>1, <3>2
      <3> QED BY <3>1, <3>2, <3>3
    <2> QED BY <2>1, <2>2
  <1>6. HeldInOrder(held2, lockers2, needs2)
    BY <1>2, <1>5 DEF HeldInOrder
  <1> QED BY <1>6 DEF LocksInOrder, HeldInOrder, lockers2, needs2, held2

(* A pass gives back all the sessions of its thread.                       *)
LEMMA LocksGivenBack ==
  ASSUME LocksInOrder, Control, NEW t \in Lockers,
         HoldsAll(t, SessionsToLock(t)), holder' = Unlocked(SessionsToLock(t)),
         \A u \in Lockers : u # t => u \in Lockers' /\ SessionsToLock(u)' = SessionsToLock(u)
  PROVE  LocksInOrder'
  <1> DEFINE lockers == Lockers  needs == Needs  held == holder
             lockers2 == Lockers'  needs2 == Needs'  held2 == holder'
  <1>1. /\ HeldInOrder(held, lockers, needs) /\ t \in lockers
        /\ \A r \in needs[t] : held[r] = t
        /\ held2 = [s \in Sessions |-> IF s \in needs[t] THEN Nobody ELSE held[s]]
        /\ \A u \in lockers : needs[u] \subseteq Sessions
    BY NeedsKnown DEF LocksInOrder, HoldsAll, Unlocked
  <1>2. \A u \in lockers : u # t => u \in lockers2 /\ needs2[u] = needs[u]
    BY NeedsKnown DEF Needs, Threads
  <1> HIDE DEF lockers, needs, held, lockers2, needs2, held2
  <1>3. ASSUME NEW x \in Sessions, held2[x] # Nobody
        PROVE  /\ held2[x] \in lockers2 /\ x \in needs2[held2[x]]
               /\ \A r \in needs2[held2[x]] : r < x => held2[r] = held2[x]
    <2>1. x \notin needs[t] /\ held2[x] = held[x]
      BY <1>1, <1>3
    <2>2. /\ held[x] \in lockers /\ x \in needs[held[x]]
          /\ \A r \in needs[held[x]] : r < x => held[r] = held[x]
      BY <1>1, <1>3, <2>1 DEF HeldInOrder
    <2>3. held[x] # t
      BY <2>1, <2>2
    <2>4. held[x] \in lockers2 /\ needs2[held[x]] = needs[held[x]]
      BY <1>2, <2>2, <2>3
    <2>5. \A r \in needs[held[x]] : r < x => held2[r] = held[x]
      BY <1>1, <2>2, <2>3
    <2> QED BY <2>1, <2>2, <2>4, <2>5
  <1>4. HeldInOrder(held2, lockers2, needs2)
    BY <1>3 DEF HeldInOrder
  <1> QED BY <1>4 DEF LocksInOrder, HeldInOrder, lockers2, needs2, held2

(* Every step keeps the order of the locks.                                *)
LEMMA LocksStep ==
  ASSUME SchedulerAssumption, Control, LocksInOrder, [Next]_vars
  PROVE  LocksInOrder'
  <1>1. Workers \cap Callers = {}
    BY DEF SchedulerAssumption
  <1>2. WorkerTypes /\ CallerTypes
    BY DEF Control
  <1>3. ASSUME NEW w \in Workers, LockSession(w)
        PROVE  LocksInOrder'
    <2>1. w \in Lockers /\ Lock(w, SessionsToLock(w)) /\ UNCHANGED <<worker, work, caller>>
      BY <1>3 DEF LockSession, Lockers, SessionsToLock
    <2> QED BY <2>1, LocksTaken
  <1>4. ASSUME NEW c \in Callers, LockDirect(c)
        PROVE  LocksInOrder'
    <2>1. c \in Lockers /\ Lock(c, SessionsToLock(c)) /\ UNCHANGED <<worker, work, caller>>
      BY <1>1, <1>4 DEF LockDirect, Lockers, SessionsToLock
    <2> QED BY <2>1, LocksTaken
  <1>5. ASSUME NEW w \in Workers, Execute(w)
        PROVE  LocksInOrder'
    <2>1. /\ w \in Lockers /\ HoldsAll(w, SessionsToLock(w))
          /\ holder' = Unlocked(SessionsToLock(w))
      BY <1>5 DEF Execute, Lockers, SessionsToLock
    <2>2. UNCHANGED <<work, caller>> /\ worker' = [worker EXCEPT ![w] = "release"]
      BY <1>5 DEF Execute
    <2>3. \A u \in Lockers : u # w => u \in Lockers' /\ SessionsToLock(u)' = SessionsToLock(u)
      BY <1>2, <2>2 DEF Lockers, SessionsToLock, SessionsOf, SessionsIn, WorkerTypes
    <2> QED BY <2>1, <2>3, LocksGivenBack
  <1>6. ASSUME NEW c \in Callers, RunDirect(c)
        PROVE  LocksInOrder'
    <2>1. /\ c \in Lockers /\ HoldsAll(c, SessionsToLock(c))
          /\ holder' = Unlocked(SessionsToLock(c))
      BY <1>1, <1>6 DEF RunDirect, Lockers, SessionsToLock
    <2>2. UNCHANGED <<work, worker>> /\ caller' = [caller EXCEPT ![c] = Idle]
      BY <1>6 DEF RunDirect
    <2>3. \A u \in Lockers : u # c => u \in Lockers' /\ SessionsToLock(u)' = SessionsToLock(u)
      BY <1>2, <2>2 DEF Lockers, SessionsToLock, SessionsOf, SessionsIn, CallerTypes
    <2> QED BY <2>1, <2>3, LocksGivenBack
  <1>7. ASSUME UNCHANGED holder,
               \A w \in Workers : worker[w] = "lock" => worker'[w] = "lock" /\ work'[w] = work[w],
               \A c \in Callers : caller[c].step = "lock" => caller'[c] = caller[c]
        PROVE  LocksInOrder'
    <2>1. ASSUME NEW w \in Workers, worker[w] = "lock"
          PROVE  w \in Lockers' /\ SessionsToLock(w)' = SessionsToLock(w)
      <3>1. worker'[w] = "lock" /\ work'[w] = work[w]
        BY <1>7, <2>1
      <3> QED BY <3>1 DEF Lockers, SessionsToLock, SessionsOf, SessionsIn
    <2>2. ASSUME NEW c \in Callers, caller[c].step = "lock"
          PROVE  c \in Lockers' /\ SessionsToLock(c)' = SessionsToLock(c)
      <3>1. caller'[c] = caller[c]
        BY <1>7, <2>2
      <3>2. c \notin Workers
        BY <1>1
      <3> QED BY <2>2, <3>1, <3>2 DEF Lockers, SessionsToLock, SessionsIn
    <2>3. \A t \in Lockers : t \in Lockers' /\ SessionsToLock(t)' = SessionsToLock(t)
      BY <2>1, <2>2 DEF Lockers
    <2> QED BY <1>7, <2>3, LocksStay
  <1>8. ASSUME NEW w \in Workers,
               \/ Wait(w) \/ Take(w) \/ Leave(w) \/ AcquireCompute(w) \/ MeasureTeam(w)
               \/ PrepareTeam(w) \/ ReleaseSessions(w) \/ NotifyAll(w) \/ Complete(w)
        PROVE  LocksInOrder'
    <2>1. UNCHANGED holder /\ UNCHANGED caller /\ worker[w] # "lock"
      BY <1>8 DEF Wait, Take, Leave, AcquireCompute, MeasureTeam, PrepareTeam,
                  ReleaseSessions, NotifyAll, Complete, session_vars
    <2>2. \A v \in Workers : v # w => work'[v] = work[v]
      BY <1>2, <1>8 DEF Wait, Take, Leave, AcquireCompute, MeasureTeam, PrepareTeam,
                  ReleaseSessions, NotifyAll, Complete, WorkerTypes
    <2>3. \A v \in Workers : v # w /\ worker[v] = "lock" => worker'[v] = "lock"
      BY <1>2, <1>8 DEF Wait, Take, Leave, AcquireCompute, MeasureTeam, PrepareTeam,
                  ReleaseSessions, NotifyAll, Complete, WorkerTypes, WakeAll
    <2> QED BY <1>7, <2>1, <2>2, <2>3
  <1>9. ASSUME NEW c \in Callers, \/ Submit(c) \/ SubmitStep(c) \/ StartDirect(c)
                                  \/ Reset(c) \/ CommitGeneration(c)
        PROVE  LocksInOrder'
    <2>1. UNCHANGED holder /\ UNCHANGED work
      BY <1>9 DEF Submit, SubmitStep, TryEnqueueBatch, EnqueueSession, NotifyOne, Throw,
                  StartDirect, Reset, CommitGeneration, session_vars
    <2>2. \A w \in Workers : worker[w] = "lock" => worker'[w] = "lock"
      BY <1>2, <1>9 DEF Submit, SubmitStep, TryEnqueueBatch, EnqueueSession, NotifyOne, Throw,
                  StartDirect, Reset, CommitGeneration, Asleep, WorkerTypes
    <2>3. \/ UNCHANGED caller
          \/ caller[c].step # "lock" /\ \E next : caller' = [caller EXCEPT ![c] = next]
      <3>1. CASE Submit(c) \/ StartDirect(c) \/ Reset(c) \/ CommitGeneration(c)
        <4>1. UNCHANGED caller \/ caller[c] = Idle
          BY <3>1 DEF Submit, StartDirect, Reset, CommitGeneration
        <4>2. UNCHANGED caller \/ \E next : caller' = [caller EXCEPT ![c] = next]
          BY <3>1 DEF Submit, StartDirect, Reset, CommitGeneration
        <4>3. Idle.step # "lock"
          BY DEF Idle
        <4> QED BY <4>1, <4>2, <4>3
      <3>2. CASE TryEnqueueBatch(c)
        <4>1. caller[c].step = "stage"
          BY <3>2 DEF TryEnqueueBatch
        <4>2. CASE UNCHANGED caller
          BY <4>2
        <4>3. \E next : caller' = [caller EXCEPT ![c] = next]
          BY <1>2, <3>2 DEF TryEnqueueBatch, CallerTypes
        <4> QED BY <4>1, <4>3
      <3>3. CASE EnqueueSession(c) \/ Throw(c)
        BY <3>3 DEF EnqueueSession, Throw
      <3>4. CASE NotifyOne(c)
        BY <3>4 DEF NotifyOne
      <3> QED BY <1>9, <3>1, <3>2, <3>3, <3>4 DEF SubmitStep
    <2>4. \A d \in Callers : caller[d].step = "lock" => caller'[d] = caller[d]
      BY <1>2, <2>3 DEF CallerTypes
    <2> QED BY <1>7, <2>1, <2>2, <2>4
  <1>10. CASE NotifyStop
    BY <1>2, <1>7, <1>10 DEF NotifyStop, WakeAll, WorkerTypes, session_vars
  <1>11. CASE Stop \/ Join \/ UNCHANGED vars
    BY <1>7, <1>11 DEF Stop, Join, vars, session_vars
  <1> QED
    BY <1>3, <1>4, <1>5, <1>6, <1>8, <1>9, <1>10, <1>11
    DEF Next, CallerStep, DirectStep, WorkerStep

-----------------------------------------------------------------------------
(* The control state of the scheduler is sane in every reachable state.    *)
THEOREM ControlInvariant == Spec => []Control
  <1>1. Init => Control
    BY ControlInit, SchedulerAssumption
  <1>2. Control /\ [Next]_vars => Control'
    BY ControlStep, SchedulerAssumption
  <1> QED BY <1>1, <1>2, PTL DEF Spec

(* A session is reserved exactly when one piece of work names it, whatever *)
(* is submitted, split, refused or rolled back meanwhile (release_sessions *)
(* and try_enqueue_batch, scheduler.cpp).                                  *)
THEOREM ReservationsExact == Spec => []ReservationExact
  <1>1. Control => ReservationExact
    BY DEF Control
  <1> QED BY <1>1, ControlInvariant, PTL

(* No prefill and no decode, scheduled or direct, takes a session beyond   *)
(* the context (scheduler.cpp:130, session.cpp:209), whatever batches,     *)
(* direct calls, generations, failures and resets came before it.          *)
THEOREM ContextKept == Spec => ContextRespected
  <1>1. Control /\ [Next]_vars =>
            [\A s \in Sessions :
                ContextLength > 0 /\ token_count'[s] > token_count[s] =>
                    \/ token_count'[s] <= ContextLength
                    \/ \E c \in Callers : CommitGeneration(c)]_vars
    BY LongerFits, SchedulerAssumption DEF Control
  <1> QED BY <1>1, ControlInvariant, PTL DEF Spec, ContextRespected

(* A session that failed neither grows nor recovers by a scheduled or a    *)
(* direct pass; only a reset or a generation's commit clears it.           *)
THEOREM FailureSticks == Spec => FailedUntilReset
  <1>1. Control /\ [Next]_vars =>
            [\A s \in Sessions : execution_failed[s] =>
                \/ execution_failed'[s] /\ token_count'[s] = token_count[s]
                \/ \E c \in Callers : Reset(c) \/ CommitGeneration(c)]_vars
    BY FailedStays DEF Control
  <1> QED BY <1>1, ControlInvariant, PTL DEF Spec, FailedUntilReset

(* The thread budget is exact in every reachable state.                    *)
THEOREM BudgetInvariant == Spec => []BudgetInv
  <1>1. Init => BudgetInv
    BY BudgetInit, SchedulerAssumption, ThreadBudgetAssumption
  <1>2. Control /\ BudgetInv /\ [Next]_vars => BudgetInv'
    BY BudgetStep, SchedulerAssumption, ThreadBudgetAssumption DEF Control
  <1> QED BY <1>1, <1>2, ControlInvariant, PTL DEF Spec

(* The budget counts the threads of the leases that live and never lends   *)
(* more than the machine has; its subtractions do not wrap; passes stay    *)
(* within what their workers leased (CpuThreadBudgetController, cpu.cpp).  *)
THEOREM BudgetNeverOverdrawn == Spec => []BudgetExact
  <1>1. BudgetInv => BudgetExact
    BY TeamsFit, SchedulerAssumption, ThreadBudgetAssumption
    DEF BudgetExact, BudgetInv, BudgetSums
  <1> QED BY <1>1, BudgetInvariant, PTL

(* Every variable keeps its type: no counter of the budget goes below      *)
(* zero, no queue holds anything but work.                                 *)
THEOREM TypeCorrect == Spec => []TypeOK
  <1>1. Control /\ BudgetInv => TypeOK
    BY Types DEF Control, BudgetInv
  <1> QED BY <1>1, ControlInvariant, BudgetInvariant, PTL

(* Sessions are locked in one order, by whoever is about to run them.      *)
THEOREM LockOrder == Spec => []LocksInOrder
  <1>1. Init => LocksInOrder
    BY DEF Init, LocksInOrder, HeldInOrder
  <1>2. Control /\ LocksInOrder /\ [Next]_vars => LocksInOrder'
    BY LocksStep, SchedulerAssumption
  <1> QED BY <1>1, <1>2, ControlInvariant, PTL DEF Spec

(* Staged batches, of this scheduler and of others, and single calls never *)
(* lock sessions in a circle (the sort of scheduler.cpp:83).               *)
THEOREM NoCircle == Spec => []NoCircularWait
  <1>1. Control /\ LocksInOrder => NoCircularWait
    BY OrderPreventsCircles, SchedulerAssumption
  <1> QED BY <1>1, ControlInvariant, LockOrder, PTL

-----------------------------------------------------------------------------
(* Wake-ups.  Each ready piece of work beyond the awake workers has a caller  *)
(* that is about to notify, unless somebody is about to wake everybody.      *)
ReadyWorkers == {w \in Workers : worker[w] = "ready"}
Notifying == {c \in Callers : caller[c].step = "notify"}
Announcing == \E w \in Workers : worker[w] = "announce"
Enough == Len(queue) <= Cardinality(ReadyWorkers) + Cardinality(Notifying)

(* The counts are numbers, and one member more or less changes them by one. *)
LEMMA CountsChange ==
  ASSUME SchedulerAssumption
  PROVE  /\ IsFiniteSet(ReadyWorkers) /\ IsFiniteSet(Notifying)
         /\ IsFiniteSet(ReadyWorkers)' /\ IsFiniteSet(Notifying)'
         /\ Cardinality(ReadyWorkers) \in Nat /\ Cardinality(Notifying) \in Nat
         /\ Cardinality(ReadyWorkers)' \in Nat /\ Cardinality(Notifying)' \in Nat
  <1>1. \A S \in SUBSET Workers : IsFiniteSet(S) /\ Cardinality(S) \in Nat
    BY FS_Subset, FS_CardinalityType DEF SchedulerAssumption
  <1>2. \A S \in SUBSET Callers : IsFiniteSet(S) /\ Cardinality(S) \in Nat
    BY FS_Subset, FS_CardinalityType DEF SchedulerAssumption
  <1>3. /\ ReadyWorkers \in SUBSET Workers /\ ReadyWorkers' \in SUBSET Workers
        /\ Notifying \in SUBSET Callers /\ Notifying' \in SUBSET Callers
    BY DEF ReadyWorkers, Notifying
  <1> QED BY <1>1, <1>2, <1>3

(* A submission gives a caller its notification together with its work.      *)
LEMMA SubmitConserves ==
  ASSUME SchedulerAssumption, Control, WorkConserving, NEW c \in Callers,
         Submit(c) \/ StartDirect(c) \/ RunDirect(c) \/ TryEnqueueBatch(c)
         \/ EnqueueSession(c) \/ Throw(c)
  PROVE  WorkConserving'
  <1> USE DEF Control, CallerTypes
  <1>1. worker' = worker
    BY DEF Submit, StartDirect, RunDirect, TryEnqueueBatch, EnqueueSession, Throw
  <1>2. ReadyWorkers' = ReadyWorkers /\ Asleep' = Asleep /\ (Announcing => Announcing')
    BY <1>1 DEF ReadyWorkers, Asleep, Announcing
  <1>3. \/ queue' = queue /\ Notifying \subseteq Notifying'
        \/ /\ \E new : queue' = Append(queue, new)
           /\ c \notin Notifying /\ Notifying' = Notifying \cup {c}
    <2>1. CASE Submit(c) \/ StartDirect(c) \/ RunDirect(c) \/ Throw(c)
      <3>1. queue' = queue
        BY <2>1 DEF Submit, StartDirect, RunDirect, Throw, queue_vars
      <3>2. caller[c].step # "notify"
        <4>1. caller[c] = Idle \/ caller[c].step \in {"lock", "stage", "enqueue"}
          BY <2>1 DEF Submit, StartDirect, RunDirect, Throw
        <4>2. Idle.step = "idle"
          BY DEF Idle
        <4> QED BY <4>1, <4>2
      <3>3. \A d \in Callers \ {c} : caller'[d] = caller[d]
        BY <2>1 DEF Submit, StartDirect, RunDirect, Throw
      <3> QED BY <3>1, <3>2, <3>3 DEF Notifying
    <2>2. CASE TryEnqueueBatch(c)
      <3>1. caller[c].step = "stage" /\ \A d \in Callers \ {c} : caller'[d] = caller[d]
        BY <2>2 DEF TryEnqueueBatch
      <3>2. \/ queue' = queue
            \/ (\E new : queue' = Append(queue, new)) /\ caller'[c].step = "notify"
        BY <2>2 DEF TryEnqueueBatch, queue_vars
      <3> QED BY <3>1, <3>2 DEF Notifying
    <2>3. CASE EnqueueSession(c)
      <3>1. caller[c].step = "enqueue" /\ \A d \in Callers \ {c} : caller'[d] = caller[d]
        BY <2>3 DEF EnqueueSession
      <3>2. caller'[c].step = "notify"
        BY <2>3 DEF EnqueueSession
      <3>3. queue' = queue \/ \E new : queue' = Append(queue, new)
        BY <2>3 DEF EnqueueSession
      <3> QED BY <3>1, <3>2, <3>3 DEF Notifying
    <2> QED BY <2>1, <2>2, <2>3
  <1>4. Enough => Enough'
    <2>1. CASE queue' = queue /\ Notifying \subseteq Notifying'
      <3>1. Cardinality(Notifying) <= Cardinality(Notifying')
        BY <2>1, CountsChange, FS_Subset
      <3>2. Len(queue) \in Nat
        BY LenProperties DEF QueueTypes
      <3> QED BY <1>2, <2>1, <3>1, <3>2, CountsChange DEF Enough
    <2>2. CASE /\ \E new : queue' = Append(queue, new)
               /\ c \notin Notifying /\ Notifying' = Notifying \cup {c}
      <3>1. Len(queue') = Len(queue) + 1 /\ Len(queue) \in Nat
        BY <2>2, LenProperties DEF QueueTypes
      <3>2. Cardinality(Notifying') = Cardinality(Notifying) + 1
        BY <2>2, CountsChange, FS_AddElement
      <3> QED BY <1>2, <3>1, <3>2, CountsChange DEF Enough
    <2> QED BY <1>3, <2>1, <2>2
  <1> QED BY <1>2, <1>4 DEF WorkConserving, Announcing, Enough, ReadyWorkers, Notifying

(* A notification wakes a worker, or finds them all awake.                   *)
LEMMA NotifyConserves ==
  ASSUME SchedulerAssumption, Control, WorkConserving, NEW c \in Callers, NotifyOne(c)
  PROVE  WorkConserving'
  <1> USE DEF Control, CallerTypes, WorkerTypes
  <1>1. /\ queue' = queue /\ caller[c].step = "notify"
        /\ \A d \in Callers \ {c} : caller'[d] = caller[d]
        /\ caller'[c].step # "notify"
    BY DEF NotifyOne, queue_vars, Idle
  <1>2. c \in Notifying /\ Notifying' = Notifying \ {c}
    BY <1>1 DEF Notifying
  <1>3. Cardinality(Notifying') = Cardinality(Notifying) - 1
    BY <1>2, CountsChange, FS_RemoveElement
  <1>4. CASE Asleep = {}
    <2>1. Asleep' = {}
      BY <1>4 DEF NotifyOne, Asleep
    <2> QED BY <2>1 DEF WorkConserving
  <1>5. CASE Asleep # {}
    <2>1. PICK w \in Asleep : worker' = [worker EXCEPT ![w] = "ready"]
      BY <1>5 DEF NotifyOne
    <2>2. w \notin ReadyWorkers /\ ReadyWorkers' = ReadyWorkers \cup {w}
      BY <2>1 DEF ReadyWorkers, Asleep
    <2>3. Cardinality(ReadyWorkers') = Cardinality(ReadyWorkers) + 1
      BY <2>2, CountsChange, FS_AddElement
    <2>4. Announcing => Announcing'
      BY <2>1 DEF Announcing, Asleep
    <2>5. Len(queue) \in Nat
      BY LenProperties DEF QueueTypes
    <2>6. Enough => Enough'
      BY <1>1, <1>3, <2>3, <2>5, CountsChange DEF Enough
    <2> QED BY <1>5, <2>4, <2>6 DEF WorkConserving, Announcing, Enough, ReadyWorkers, Notifying
  <1> QED BY <1>4, <1>5

(* A worker sleeps, leaves or takes work only by the look of the queue, and  *)
(* one that readies work announces it.                                      *)
LEMMA WorkerConserves ==
  ASSUME SchedulerAssumption, Control, WorkConserving, NEW w \in Workers, WorkerStep(w)
  PROVE  WorkConserving'
  <1> USE DEF Control, CallerTypes, WorkerTypes
  <1>1. caller' = caller /\ Notifying' = Notifying
    BY DEF WorkerStep, Wait, Take, Leave, AcquireCompute, MeasureTeam, PrepareTeam, LockSession,
           Execute, ReleaseSessions, NotifyAll, Complete, Notifying
  <1>2. Len(queue) \in Nat
    BY LenProperties DEF QueueTypes
  <1>3. CASE Wait(w) \/ Leave(w)
    <2>1. queue' = << >>
      BY <1>3 DEF Wait, Leave, MayLeave, queue_vars
    <2>2. Enough'
      BY <2>1, CountsChange DEF Enough
    <2> QED BY <2>2 DEF WorkConserving, Enough, ReadyWorkers, Notifying
  <1>4. CASE Take(w)
    <2>1. queue # << >> /\ queue' = Tail(queue) /\ worker' = [worker EXCEPT ![w] = "lease"]
          /\ worker[w] = "ready"
      BY <1>4 DEF Take
    <2>2. Len(queue') = Len(queue) - 1
      BY <2>1, HeadTailProperties DEF QueueTypes
    <2>3. w \in ReadyWorkers /\ ReadyWorkers' = ReadyWorkers \ {w} /\ Asleep' = Asleep
      BY <2>1 DEF ReadyWorkers, Asleep
    <2>4. Cardinality(ReadyWorkers') = Cardinality(ReadyWorkers) - 1
      BY <2>3, CountsChange, FS_RemoveElement
    <2>5. Enough => Enough'
      BY <1>1, <1>2, <2>2, <2>4, CountsChange DEF Enough
    <2>6. Announcing => Announcing'
      BY <2>1 DEF Announcing
    <2> QED BY <2>3, <2>5, <2>6 DEF WorkConserving, Announcing, Enough, ReadyWorkers, Notifying
  <1>5. CASE \/ AcquireCompute(w) \/ MeasureTeam(w) \/ PrepareTeam(w) \/ LockSession(w)
             \/ Execute(w) \/ Complete(w)
    <2>1. queue' = queue
      BY <1>5 DEF AcquireCompute, MeasureTeam, PrepareTeam, LockSession, Execute, Complete,
         queue_vars
    <2>2. \E next \in {"measure", "extend", "lock", "release", "ready"} :
             worker' = [worker EXCEPT ![w] = next]
      BY <1>5 DEF AcquireCompute, MeasureTeam, PrepareTeam, LockSession, Execute, Complete
    <2>3. worker[w] \notin {"ready", "asleep", "announce"}
      BY <1>5 DEF AcquireCompute, MeasureTeam, PrepareTeam, LockSession, Execute, Complete
    <2>4. Asleep' = Asleep /\ ReadyWorkers \subseteq ReadyWorkers' /\ (Announcing => Announcing')
      BY <2>2, <2>3 DEF Asleep, ReadyWorkers, Announcing
    <2>5. Cardinality(ReadyWorkers) <= Cardinality(ReadyWorkers')
      BY <2>4, CountsChange, FS_Subset
    <2>6. Enough => Enough'
      BY <1>1, <1>2, <2>1, <2>5, CountsChange DEF Enough
    <2> QED BY <2>4, <2>6 DEF WorkConserving, Announcing, Enough, ReadyWorkers, Notifying
  <1>6. CASE ReleaseSessions(w)
    BY <1>6 DEF ReleaseSessions, WorkConserving
  <1>7. CASE NotifyAll(w)
    <2>1. Asleep' = {}
      BY <1>7 DEF NotifyAll, WakeAll, Asleep
    <2> QED BY <2>1 DEF WorkConserving
  <1> QED BY <1>3, <1>4, <1>5, <1>6, <1>7 DEF WorkerStep

(* No worker sleeps through ready work: the notification follows the unlock,  *)
(* and until it comes it is owed by somebody (queue_ready, scheduler.cpp).    *)
THEOREM NobodySleepsThroughWork == Spec => []WorkConserving
  <1>1. Init => WorkConserving
    BY DEF Init, WorkConserving, Asleep
  <1>2. ASSUME Control, WorkConserving, [Next]_vars
        PROVE  WorkConserving'
    <2> USE SchedulerAssumption
    <2>1. ASSUME UNCHANGED <<worker, caller, queue>>
          PROVE  WorkConserving'
      BY <1>2, <2>1 DEF WorkConserving, Asleep
    <2>2. ASSUME NEW c \in Callers, Reset(c) \/ CommitGeneration(c) \/ LockDirect(c)
          PROVE  WorkConserving'
      BY <2>1, <2>2 DEF Reset, CommitGeneration, LockDirect, queue_vars
    <2>3. CASE Stop \/ Join \/ UNCHANGED vars
      BY <2>1, <2>3 DEF Stop, Join, vars, queue_vars
    <2>4. CASE NotifyStop
      <3>1. Asleep' = {}
        BY <2>4 DEF NotifyStop, WakeAll, Asleep
      <3> QED BY <3>1 DEF WorkConserving
    <2> QED BY <1>2, <2>2, <2>3, <2>4, SubmitConserves, NotifyConserves, WorkerConserves
            DEF Next, CallerStep, SubmitStep, DirectStep
  <1> QED BY <1>1, <1>2, ControlInvariant, PTL DEF Spec
=============================================================================
