--------------------------- MODULE BatchScheduler ---------------------------
(***************************************************************************)
(* The batch scheduler (src/src/engine/scheduler.cpp) with the sessions it *)
(* drives (Session::prefill, decode and reset of src/src/engine/           *)
(* session.cpp) and the thread budget its workers lease from.              *)
(* One critical section of queue_mutex, of a Session's mutex or of the     *)
(* budget's mutex is one action; a notification is performed after the     *)
(* unlock and is an action of its own.  A forward pass runs under the      *)
(* locks of all its sessions, so locking them is one action per session    *)
(* and the pass itself one action.  Tokens are counted, not computed;      *)
(* logits are named by the session they were computed for.  Statistics     *)
(* are left out.  The model is the OpenMP build: without OpenMP a worker   *)
(* skips MeasureTeam and PrepareTeam.                                      *)
(***************************************************************************)
EXTENDS CpuThreadBudget, FiniteSets, SequencesExt

CONSTANTS
    Sessions,         \* Session objects, numbered in the order of their addresses
    Workers,          \* worker threads
    Callers,          \* threads using the scheduler or a Session
    Nobody,
    ModelOf,          \* the loaded model of each session
    ContextLength,    \* max_context_length, 0 for none
    UseStagedDecode,  \* SchedulerOptions::use_staged_decode
    Submissions,      \* the batches a caller may submit: [kind, requests]
    DirectCalls,      \* request sequences that callers run outside this scheduler
    MayThrow,         \* an allocation inside a submission may fail
    MaxBatches,       \* bound on submissions
    MaxDirectCalls    \* bound on direct calls

NullSession == 0
Request == [session : Sessions \cup {NullSession}, tokens : Nat, valid : BOOLEAN]
Submission == [kind : {"prefill", "decode"}, requests : Seq(Request)]
NoRequests == << >>

ASSUME SchedulerAssumption ==
    /\ Sessions \subseteq Nat \ {NullSession} /\ IsFiniteSet(Sessions)
    /\ IsFiniteSet(Workers) /\ Workers # {} /\ IsFiniteSet(Callers)
    /\ Cardinality(Workers) <= NumThreads
    /\ Workers \cap Callers = {}
    /\ Nobody \notin Workers \cup Callers
    /\ ContextLength \in Nat
    /\ UseStagedDecode \in BOOLEAN /\ MayThrow \in BOOLEAN
    /\ Submissions \subseteq Submission
    /\ DirectCalls \subseteq Seq(Request)
    /\ \A requests \in DirectCalls : \A i \in DOMAIN requests :
           requests[i].session \in Sessions
    /\ MaxBatches \in Nat /\ MaxDirectCalls \in Nat

(* team_size: the threads of the base allowance each worker asks for.      *)
team_size == NumThreads \div Cardinality(Workers)

VARIABLES
    queue,            \* work ready to run
    session_queues,   \* pending work of the reserved sessions
    batches,          \* accepted batches: requests, promise, results, remaining
    executed,         \* history: works that ran
    caller,           \* where each calling thread is
    worker,           \* where each worker is
    work,             \* the work a worker took
    outcome,          \* its results, until they are published
    active,           \* leased threads
    lease, extra,     \* compute_lease and extra_compute of each worker
    team,             \* thread limit of each worker
    holder,           \* owner of each Session's mutex
    token_count, execution_failed,
    shutdown,         \* progress of the destructor
    direct_calls      \* bounded by MaxDirectCalls

queue_vars == <<queue, session_queues>>
budget_vars == <<active, lease, extra, team>>
session_vars == <<holder, token_count, execution_failed>>
vars == <<queue_vars, batches, executed, caller, worker, work, outcome,
          budget_vars, session_vars, shutdown, direct_calls>>

NoWork == [batch |-> 0, kind |-> "decode", slot |-> 0, requests |-> NoRequests]
(* A closure: slot 0 runs a whole batch, slot i its request i alone.       *)
WholeBatch(b) == [batch |-> b, kind |-> batches[b].kind, slot |-> 0,
                  requests |-> batches[b].requests]
OneRequest(b, i) == [batch |-> b, kind |-> batches[b].kind, slot |-> i,
                     requests |-> <<batches[b].requests[i]>>]
SessionsIn(requests) == {requests[i].session : i \in DOMAIN requests}
SessionsOf(w) == SessionsIn(w.requests)
Staged(w) == Len(w.requests) > 1

Failure(code) == [status |-> code, session |-> NullSession, length |-> 0]
AllFail(requests, code) == [i \in DOMAIN requests |-> Failure(code)]

stopping == shutdown # "no"
Idle == [step |-> "idle", batch |-> 0, slot |-> 0, requests |-> NoRequests]
Asleep == {w \in Workers : worker[w] = "asleep"}
Submitting == {"stage", "enqueue", "notify"}

Init ==
    /\ queue = << >>
    /\ session_queues = [s \in {} |-> << >>]
    /\ batches = << >>
    /\ executed = {}
    /\ caller = [c \in Callers |-> Idle]
    /\ worker = [w \in Workers |-> "ready"]
    /\ work = [w \in Workers |-> NoWork]
    /\ outcome = [w \in Workers |-> << >>]
    /\ active = NoLease
    /\ lease = [w \in Workers |-> NoLease]
    /\ extra = [w \in Workers |-> NoLease]
    /\ team = [w \in Workers |-> 0]
    /\ holder = [s \in Sessions |-> Nobody]
    /\ token_count = [s \in Sessions |-> 0]
    /\ execution_failed = [s \in Sessions |-> FALSE]
    /\ shutdown = "no"
    /\ direct_calls = 0

-----------------------------------------------------------------------------
(* Submissions.                                                            *)

Repeats(requests) ==
    \E i, j \in DOMAIN requests : i # j /\ requests[i].session = requests[j].session
HasNull(requests) == \E i \in DOMAIN requests : requests[i].session = NullSession
HasEmptyInput(requests) == \E i \in DOMAIN requests : requests[i].tokens = 0
OneModel(requests) ==
    \A i, j \in DOMAIN requests :
        ModelOf[requests[i].session] = ModelOf[requests[j].session]

(* What a submission refuses before it reserves anything.                  *)
PrefillRefused(requests) ==
    \/ HasNull(requests) \/ HasEmptyInput(requests)
    \/ Len(requests) > 1 /\ (~OneModel(requests) \/ Repeats(requests))
DecodeRefused(requests) == HasNull(requests) \/ Repeats(requests)
Refused(sub) == IF sub.kind = "prefill" THEN PrefillRefused(sub.requests)
                ELSE DecodeRefused(sub.requests)

AttemptsStage(sub) ==
    /\ Len(sub.requests) > 1
    /\ sub.kind = "decode" => UseStagedDecode /\ OneModel(sub.requests)

Batch(sub, promise, results) ==
    [kind |-> sub.kind, requests |-> sub.requests, promise |-> promise,
     results |-> results, remaining |-> Len(sub.requests)]

(* submit_prefill and submit_decode up to their first critical section.    *)
Submit(c) == \E sub \in Submissions :
    /\ caller[c] = Idle /\ ~stopping
    /\ Len(batches) < MaxBatches
    /\ IF sub.requests = NoRequests \/ Refused(sub)
       THEN /\ batches' = Append(batches, Batch(sub, "ready",
                                      AllFail(sub.requests, "InvalidArgument")))
            /\ UNCHANGED caller
       ELSE /\ batches' = Append(batches, Batch(sub, "pending", << >>))
            /\ caller' = [caller EXCEPT ![c] =
                   [step |-> IF AttemptsStage(sub) THEN "stage" ELSE "enqueue",
                    batch |-> Len(batches) + 1, slot |-> 1, requests |-> sub.requests]]
    /\ UNCHANGED <<queue_vars, executed, worker, work, outcome, budget_vars,
                   session_vars, shutdown, direct_calls>>

Reserved == DOMAIN session_queues
Reserve(S) == [s \in Reserved \cup S |->
                   IF s \in Reserved THEN session_queues[s] ELSE << >>]

NothingPending(S) == \A s \in S \cap Reserved : session_queues[s] = << >>
Free(S) == S \cap Reserved = {}

(* try_enqueue_batch: a batch is staged only when none of its sessions has *)
(* scheduler work; otherwise a prefill is refused and a decode is split.   *)
TryEnqueueBatch(c) ==
    /\ caller[c].step = "stage"
    /\ LET b == caller[c].batch
           S == SessionsIn(caller[c].requests)
       IN  IF Free(S)
           THEN /\ session_queues' = Reserve(S)
                /\ queue' = Append(queue, WholeBatch(b))
                /\ caller' = [caller EXCEPT ![c].step = "notify",
                                            ![c].slot = Len(caller[c].requests)]
                /\ UNCHANGED batches
           ELSE IF batches[b].kind = "prefill"
           THEN /\ batches' = [batches EXCEPT ![b].promise = "ready",
                       ![b].results = AllFail(caller[c].requests, "InvalidArgument")]
                /\ caller' = [caller EXCEPT ![c] = Idle]
                /\ UNCHANGED queue_vars
           ELSE /\ caller' = [caller EXCEPT ![c].step = "enqueue"]
                /\ UNCHANGED <<queue_vars, batches>>
    /\ UNCHANGED <<executed, worker, work, outcome, budget_vars, session_vars,
                   shutdown, direct_calls>>

Behind(list, new) == Append(list, new)

(* enqueue_session: a free session is reserved and its work made ready, a  *)
(* reserved one gets the work behind its earlier work.                     *)
EnqueueSession(c) ==
    /\ caller[c].step = "enqueue"
    /\ LET b == caller[c].batch
           s == caller[c].requests[caller[c].slot].session
           new == IF batches[b].kind = "prefill" THEN WholeBatch(b)
                  ELSE OneRequest(b, caller[c].slot)
       IN  IF s \in Reserved
           THEN /\ session_queues' = [session_queues EXCEPT ![s] = Behind(@, new)]
                /\ UNCHANGED queue
           ELSE /\ session_queues' = Reserve({s})
                /\ queue' = Append(queue, new)
    /\ caller' = [caller EXCEPT ![c].step = "notify"]
    /\ UNCHANGED <<batches, executed, worker, work, outcome, budget_vars,
                   session_vars, shutdown, direct_calls>>

(* queue_ready.notify_one(), then the next request of a split batch.       *)
NotifyOne(c) ==
    /\ caller[c].step = "notify"
    /\ IF Asleep = {} THEN UNCHANGED worker
       ELSE \E w \in Asleep : worker' = [worker EXCEPT ![w] = "ready"]
    /\ caller' = [caller EXCEPT ![c] =
           IF @.slot < Len(@.requests)
           THEN [@ EXCEPT !.step = "enqueue", !.slot = caller[c].slot + 1] ELSE Idle]
    /\ UNCHANGED <<queue_vars, batches, executed, work, outcome, budget_vars,
                   session_vars, shutdown, direct_calls>>

(* An allocation fails in try_enqueue_batch or enqueue_session: the        *)
(* reservations just made are rolled back, the requests enqueued before    *)
(* stay, and the exception takes the future from the caller.               *)
Throw(c) ==
    /\ MayThrow
    /\ caller[c].step \in {"stage", "enqueue"}
    /\ batches' = [batches EXCEPT ![caller[c].batch].promise = "broken"]
    /\ caller' = [caller EXCEPT ![c] = Idle]
    /\ UNCHANGED <<queue_vars, executed, worker, work, outcome, budget_vars,
                   session_vars, shutdown, direct_calls>>

-----------------------------------------------------------------------------
(* Sessions.                                                               *)

LockAny(thread, S) == \E s \in S :
    /\ holder[s] = Nobody
    /\ holder' = [holder EXCEPT ![s] = thread]
(* The next mutex of a set of sessions, taken in the order of addresses.   *)
Lock(thread, S) == \E s \in S :
    /\ holder[s] = Nobody
    /\ \A t \in S : t < s => holder[t] = thread
    /\ holder' = [holder EXCEPT ![s] = thread]
HoldsAll(thread, S) == \A s \in S : holder[s] = thread
Unlocked(S) == [s \in Sessions |-> IF s \in S THEN Nobody ELSE holder[s]]

(* Without the clamp of the code the unsigned difference wraps.            *)
FitsDifference(request) ==
    request.tokens <= (ContextLength - token_count[request.session]) % 2^16
FitsContext(request) ==
    request.tokens <= ContextLength - Least(token_count[request.session], ContextLength)
Malformed(request) ==
    \/ ContextLength > 0 /\ ~FitsContext(request)
    \/ ~request.valid

RefusalOfArguments(request) == IF Malformed(request) THEN "InvalidArgument" ELSE "ok"
Refusal(request) ==
    IF execution_failed[request.session] THEN "InternalError"
    ELSE RefusalOfArguments(request)
Accepted(requests) == \A i \in DOMAIN requests : Refusal(requests[i]) = "ok"
(* The first request that is refused decides for all.                      *)
RefusedWith(requests, code) == \E i \in DOMAIN requests :
    /\ Refusal(requests[i]) = code /\ code # "ok"
    /\ \A j \in DOMAIN requests : j < i => Refusal(requests[j]) = "ok"

TokensOf(requests, s) ==
    requests[CHOOSE i \in DOMAIN requests : requests[i].session = s].tokens

(* A pass over the requests under the locks of their sessions: one refused *)
(* request refuses all; a pass that fails leaves every session marked; one *)
(* that succeeds commits every session.                                    *)
Run(requests, code) ==
    \/ /\ RefusedWith(requests, code)
       /\ UNCHANGED <<token_count, execution_failed>>
    \/ /\ Accepted(requests) /\ code = "InternalError"
       /\ execution_failed' = [s \in Sessions |->
              s \in SessionsIn(requests) \/ execution_failed[s]]
       /\ UNCHANGED token_count
    \/ /\ Accepted(requests) /\ code = "ok"
       /\ token_count' = [s \in Sessions |-> token_count[s] +
              (IF s \in SessionsIn(requests) THEN TokensOf(requests, s) ELSE 0)]
       /\ execution_failed' = [s \in Sessions |->
              s \notin SessionsIn(requests) /\ execution_failed[s]]
Code == {"ok", "InvalidArgument", "InternalError"}

Success(kind, request) ==
    [status |-> "ok", session |-> request.session,
     length |-> request.tokens +
                (IF kind = "decode" THEN token_count[request.session] ELSE 0)]
InLockOrder(requests) ==
    [i \in DOMAIN requests |->
        requests[CHOOSE j \in DOMAIN requests :
            i = Cardinality({k \in DOMAIN requests :
                                requests[k].session <= requests[j].session})]]
ResultsInLockOrder(kind, requests, code) ==
    IF code = "ok" THEN [i \in DOMAIN requests |-> Success(kind, InLockOrder(requests)[i])]
    ELSE AllFail(requests, code)
Results(kind, requests, code) ==
    IF code = "ok" THEN [i \in DOMAIN requests |-> Success(kind, requests[i])]
    ELSE AllFail(requests, code)

(* A caller uses sessions outside this scheduler: Session::prefill or      *)
(* decode of one, or a staged batch of another scheduler over several.     *)
StartDirect(c) == \E requests \in DirectCalls :
    /\ caller[c] = Idle
    /\ direct_calls < MaxDirectCalls
    /\ direct_calls' = direct_calls + 1
    /\ caller' = [caller EXCEPT ![c] = [Idle EXCEPT !.step = "lock", !.requests = requests]]
    /\ UNCHANGED <<queue_vars, batches, executed, worker, work, outcome,
                   budget_vars, session_vars, shutdown>>

LockDirect(c) ==
    /\ caller[c].step = "lock"
    /\ Lock(c, SessionsIn(caller[c].requests))
    /\ UNCHANGED <<queue_vars, batches, executed, caller, worker, work, outcome,
                   budget_vars, token_count, execution_failed, shutdown, direct_calls>>

RunDirect(c) ==
    /\ caller[c].step = "lock"
    /\ HoldsAll(c, SessionsIn(caller[c].requests))
    /\ \E code \in Code : Run(caller[c].requests, code)
    /\ holder' = Unlocked(SessionsIn(caller[c].requests))
    /\ caller' = [caller EXCEPT ![c] = Idle]
    /\ UNCHANGED <<queue_vars, batches, executed, worker, work, outcome,
                   budget_vars, shutdown, direct_calls>>

(* Session::reset, in its one critical section.                            *)
Reset(c) == \E requests \in DirectCalls :
    /\ caller[c] = Idle /\ Len(requests) = 1
    /\ direct_calls < MaxDirectCalls
    /\ LET s == requests[1].session
       IN  /\ holder[s] = Nobody
           /\ token_count' = [token_count EXCEPT ![s] = 0]
           /\ execution_failed' = [execution_failed EXCEPT ![s] = FALSE]
    /\ direct_calls' = direct_calls + 1
    /\ UNCHANGED <<queue_vars, batches, executed, caller, worker, work, outcome,
                   budget_vars, holder, shutdown>>

(* Session::generate commits the tokens of a speculative round at the end  *)
(* of its critical section: with no check of the context, and clearing the *)
(* mark whoever set it.  Module Session has the rest of a generation; one  *)
(* that does not speculate is a direct prefill and direct decodes.         *)
CommitGeneration(c) == \E requests \in DirectCalls :
    /\ caller[c] = Idle /\ Len(requests) = 1
    /\ direct_calls < MaxDirectCalls
    /\ LET s == requests[1].session
       IN  /\ holder[s] = Nobody /\ token_count[s] > 0
           /\ token_count' = [token_count EXCEPT ![s] = @ + requests[1].tokens]
           /\ execution_failed' = [execution_failed EXCEPT ![s] = FALSE]
    /\ direct_calls' = direct_calls + 1
    /\ UNCHANGED <<queue_vars, batches, executed, caller, worker, work, outcome,
                   budget_vars, holder, shutdown>>

-----------------------------------------------------------------------------
(* Workers: worker_loop and the closure it runs.                           *)

(* queue_ready.wait: the predicate fails.                                  *)
Wait(w) ==
    /\ worker[w] = "ready" /\ ~stopping /\ queue = << >>
    /\ worker' = [worker EXCEPT ![w] = "asleep"]
    /\ UNCHANGED <<queue_vars, batches, executed, caller, work, outcome,
                   budget_vars, session_vars, shutdown, direct_calls>>

Take(w) ==
    /\ worker[w] = "ready" /\ queue # << >>
    /\ work' = [work EXCEPT ![w] = Head(queue)]
    /\ queue' = Tail(queue)
    /\ worker' = [worker EXCEPT ![w] = "lease"]
    /\ UNCHANGED <<session_queues, batches, executed, caller, outcome,
                   budget_vars, session_vars, shutdown, direct_calls>>

MayLeave == stopping /\ queue = << >>
Leave(w) ==
    /\ worker[w] = "ready" /\ MayLeave
    /\ worker' = [worker EXCEPT ![w] = "exited"]
    /\ UNCHANGED <<queue_vars, batches, executed, caller, work, outcome,
                   budget_vars, session_vars, shutdown, direct_calls>>

(* cpu_budget.acquire_compute: every release notifies all who wait, so the *)
(* wait is a guard.                                                        *)
AcquireCompute(w) ==
    /\ worker[w] = "lease"
    /\ Available(active, FALSE) # 0
    /\ LET new == Grant(active, team_size, FALSE)
       IN  /\ lease' = [lease EXCEPT ![w] = new]
           /\ active' = Leased(active, new)
           /\ team' = [team EXCEPT ![w] = new.count]
    /\ worker' = [worker EXCEPT ![w] = IF Staged(work[w]) THEN "measure" ELSE "lock"]
    /\ UNCHANGED <<queue_vars, batches, executed, caller, work, outcome, extra,
                   session_vars, shutdown, direct_calls>>

WorkUnits(w) ==
    IF w.kind = "decode" THEN Len(w.requests) * team_size
    ELSE Cardinality(UNION {{i} \X (1 .. w.requests[i].tokens) : i \in DOMAIN w.requests})
DesiredTeam(w) ==
    TeamSize(WorkUnits(work[w]), Len(work[w].requests), team_size,
             Most(1, Least(MaxThreads, lease[w].count + Available(active, TRUE))))

(* prepare_staging_team reads the budget to choose a team size ...         *)
MeasureTeam(w) ==
    /\ worker[w] = "measure"
    /\ team' = [team EXCEPT ![w] = DesiredTeam(w)]
    /\ worker' = [worker EXCEPT ![w] = "extend"]
    /\ UNCHANGED <<queue_vars, batches, executed, caller, work, outcome, active,
                   lease, extra, session_vars, shutdown, direct_calls>>

AsMeasured(size, leased) == size
WithinLease(size, leased) == Most(1, Least(size, leased))

(* ... and leases the threads it lacks from what is left by then.          *)
PrepareTeam(w) ==
    /\ worker[w] = "extend"
    /\ LET new == IF team[w] > lease[w].count
                  THEN Grant(active, team[w] - lease[w].count, TRUE) ELSE NoLease
       IN  /\ extra' = [extra EXCEPT ![w] = new]
           /\ active' = Leased(active, new)
           /\ team' = [team EXCEPT ![w] = WithinLease(@, lease[w].count + new.count)]
    /\ worker' = [worker EXCEPT ![w] = "lock"]
    /\ UNCHANGED <<queue_vars, batches, executed, caller, work, outcome, lease,
                   session_vars, shutdown, direct_calls>>

LockSession(w) ==
    /\ worker[w] = "lock"
    /\ Lock(w, SessionsOf(work[w]))
    /\ UNCHANGED <<queue_vars, batches, executed, caller, worker, work, outcome,
                   budget_vars, token_count, execution_failed, shutdown, direct_calls>>

(* The pass, the unlocking and the end of the extra lease.                 *)
Execute(w) ==
    /\ worker[w] = "lock"
    /\ HoldsAll(w, SessionsOf(work[w]))
    /\ \E code \in Code :
           /\ Run(work[w].requests, code)
           /\ outcome' = [outcome EXCEPT ![w] =
                  Results(work[w].kind, work[w].requests, code)]
    /\ holder' = Unlocked(SessionsOf(work[w]))
    /\ active' = Returned(active, extra[w])
    /\ extra' = [extra EXCEPT ![w] = NoLease]
    /\ team' = [team EXCEPT ![w] = lease[w].count]
    /\ executed' = executed \cup {work[w]}
    /\ worker' = [worker EXCEPT ![w] = "release"]
    /\ UNCHANGED <<queue_vars, batches, caller, work, lease, shutdown, direct_calls>>

(* release_sessions: a session without pending work is freed, the next     *)
(* pending work of the others becomes ready, in the order of the sessions. *)
Waiting(S) == {s \in S \cap Reserved : session_queues[s] # << >>}
Ascending(S) ==
    {f \in [1 .. Cardinality(S) -> S] :
        /\ \A i, j \in DOMAIN f : i < j => f[i] < f[j]
        /\ \A s \in S : \E i \in DOMAIN f : f[i] = s}
ReleaseSessions(w) ==
    /\ worker[w] = "release"
    /\ LET S == SessionsOf(work[w])
       IN \E first \in Ascending(Waiting(S)) :
           /\ session_queues' = [s \in Reserved \ (S \ Waiting(S)) |->
                  IF s \in S THEN Tail(session_queues[s]) ELSE session_queues[s]]
           /\ queue' = queue \o [i \in DOMAIN first |-> Head(session_queues[first[i]])]
    /\ worker' = [worker EXCEPT ![w] = "announce"]
    /\ UNCHANGED <<batches, executed, caller, work, outcome, budget_vars,
                   session_vars, shutdown, direct_calls>>

WakeNone(next) == next
WakeAll(next) == [w \in Workers |-> IF next[w] = "asleep" THEN "ready" ELSE next[w]]

NotifyAll(w) ==
    /\ worker[w] = "announce"
    /\ worker' = WakeAll([worker EXCEPT ![w] = "complete"])
    /\ UNCHANGED <<queue_vars, batches, executed, caller, work, outcome,
                   budget_vars, session_vars, shutdown, direct_calls>>

(* The results of a whole batch are published at once; of a split batch    *)
(* each request fills its slot and the last one publishes.                 *)
PublishedAfter(left, batch, slot, results) ==
    IF slot = 0 THEN [batch EXCEPT !.promise = "ready", !.results = results]
    ELSE [batch EXCEPT !.results =
                           [i \in DOMAIN batch.requests |->
                               IF i = slot THEN results[1]
                               ELSE IF i \in DOMAIN @ THEN @[i]
                               ELSE Failure("InternalError")],
                       !.remaining = @ - 1,
                       !.promise = IF batch.remaining = left THEN "ready" ELSE @]
PublishedLate(batch, slot, results) == PublishedAfter(0, batch, slot, results)
Published(batch, slot, results) == PublishedAfter(1, batch, slot, results)

(* promise.set_value or complete, and the end of the compute lease.        *)
Complete(w) ==
    /\ worker[w] = "complete"
    /\ batches' = [batches EXCEPT ![work[w].batch] =
                       Published(@, work[w].slot, outcome[w])]
    /\ active' = Returned(active, lease[w])
    /\ lease' = [lease EXCEPT ![w] = NoLease]
    /\ team' = [team EXCEPT ![w] = 0]
    /\ work' = [work EXCEPT ![w] = NoWork]
    /\ outcome' = [outcome EXCEPT ![w] = << >>]
    /\ worker' = [worker EXCEPT ![w] = "ready"]
    /\ UNCHANGED <<queue_vars, executed, caller, extra, session_vars, shutdown,
                   direct_calls>>

-----------------------------------------------------------------------------
(* The destructor.  No submission may be in progress: its object lives.    *)

Stop ==
    /\ shutdown = "no"
    /\ \A c \in Callers : caller[c].step \notin Submitting
    /\ shutdown' = "flagged"
    /\ UNCHANGED <<queue_vars, batches, executed, caller, worker, work, outcome,
                   budget_vars, session_vars, direct_calls>>

NotifyStop ==
    /\ shutdown = "flagged"
    /\ shutdown' = "notified"
    /\ worker' = WakeAll(worker)
    /\ UNCHANGED <<queue_vars, batches, executed, caller, work, outcome,
                   budget_vars, session_vars, direct_calls>>

Join ==
    /\ shutdown = "notified"
    /\ \A w \in Workers : worker[w] = "exited"
    /\ shutdown' = "joined"
    /\ UNCHANGED <<queue_vars, batches, executed, caller, worker, work, outcome,
                   budget_vars, session_vars, direct_calls>>

-----------------------------------------------------------------------------
SubmitStep(c) == TryEnqueueBatch(c) \/ EnqueueSession(c) \/ NotifyOne(c) \/ Throw(c)
DirectStep(c) == LockDirect(c) \/ RunDirect(c)
CallerStep(c) == SubmitStep(c) \/ DirectStep(c)
WorkerStep(w) ==
    \/ Wait(w) \/ Take(w) \/ Leave(w)
    \/ AcquireCompute(w) \/ MeasureTeam(w) \/ PrepareTeam(w)
    \/ LockSession(w) \/ Execute(w)
    \/ ReleaseSessions(w) \/ NotifyAll(w) \/ Complete(w)

Next ==
    \/ \E c \in Callers : Submit(c) \/ StartDirect(c) \/ Reset(c) \/ CommitGeneration(c)
                         \/ CallerStep(c)
    \/ \E w \in Workers : WorkerStep(w)
    \/ Stop \/ NotifyStop \/ Join

Spec == Init /\ [][Next]_vars

(* Threads run and passes end; nobody has to submit, call or destroy.      *)
Fairness ==
    /\ \A c \in Callers : WF_vars(CallerStep(c))
    /\ \A w \in Workers : WF_vars(WorkerStep(w))
    /\ WF_vars(NotifyStop) /\ WF_vars(Join)
FairSpec == Spec /\ Fairness
-----------------------------------------------------------------------------
(* Properties.                                                             *)

Work == {w \in [batch : Nat, kind : {"prefill", "decode"}, slot : Nat,
                 requests : Seq(Request)] : w.slot > 0 => Len(w.requests) = 1}
Result == [status : Code,
           session : Sessions \cup {NullSession}, length : Nat]
Threads == Workers \cup Callers

(* Every variable keeps its type: the shape of the work queues, of the     *)
(* batches and of each thread's place in the code.                         *)
TypeOK ==
    /\ queue \in Seq(Work)
    /\ Reserved \subseteq Sessions
    /\ session_queues \in [Reserved -> Seq(Work)]
    /\ batches \in Seq([kind : {"prefill", "decode"}, requests : Seq(Request),
                        promise : {"pending", "ready", "broken"},
                        results : Seq(Result), remaining : Int])
    /\ executed \subseteq Work
    /\ caller \in [Callers -> [step : {"idle", "lock"} \cup Submitting,
                               batch : Nat, slot : Nat, requests : Seq(Request)]]
    /\ worker \in [Workers -> {"ready", "asleep", "lease", "measure", "extend", "lock",
                               "release", "announce", "complete", "exited"}]
    /\ work \in [Workers -> Work]
    /\ outcome \in [Workers -> Seq(Result)]
    /\ active \in Lease
    /\ lease \in [Workers -> Lease] /\ extra \in [Workers -> Lease]
    /\ team \in [Workers -> Nat]
    /\ holder \in [Sessions -> Threads \cup {Nobody}]
    /\ token_count \in [Sessions -> Nat]
    /\ execution_failed \in [Sessions -> BOOLEAN]
    /\ shutdown \in {"no", "flagged", "notified", "joined"}
    /\ direct_calls \in Nat

(* Workers that took work whose sessions they have not released.           *)
Busy == {w \in Workers : worker[w] \in {"lease", "measure", "extend", "lock", "release"}}
Apart(v, w) == SessionsOf(v) \cap SessionsOf(w) = {}

(* A session is reserved exactly when one piece of work, ready or running, *)
(* names it, never two; what waits behind it is work of that session       *)
(* alone: "Presence reserves a Session, even while its pending queue is    *)
(* empty" (scheduler.cpp:73).                                              *)
ReservationExact ==
    /\ \A i, j \in DOMAIN queue : i # j => Apart(queue[i], queue[j])
    /\ \A w \in Busy : \A i \in DOMAIN queue : Apart(work[w], queue[i])
    /\ \A v, w \in Busy : v # w => Apart(work[v], work[w])
    /\ \A s \in Reserved : \/ \E i \in DOMAIN queue : s \in SessionsOf(queue[i])
                           \/ \E w \in Busy : s \in SessionsOf(work[w])
    /\ \A i \in DOMAIN queue : SessionsOf(queue[i]) \subseteq Reserved
    /\ \A w \in Busy : SessionsOf(work[w]) \subseteq Reserved
    /\ \A s \in Reserved : \A i \in DOMAIN session_queues[s] :
           SessionsOf(session_queues[s][i]) = {s}

(* No worker sleeps through ready work: when one is asleep, every ready    *)
(* piece of work has an awake worker or a notification under way.          *)
WorkConserving ==
    \/ Asleep = {}
    \/ \E w \in Workers : worker[w] = "announce"
    \/ Len(queue) <= Cardinality({w \in Workers : worker[w] = "ready"})
                     + Cardinality({c \in Callers : caller[c].step = "notify"})

(* A batch that is answered has a result for each request, in the order of *)
(* the requests, with the logits of that request's session; none of its    *)
(* work is left anywhere, so that its sessions can be submitted again ("A  *)
(* ready future must mean the staged Session reservations are already      *)
(* released", test_runtime_prefill_session.cpp:869).                       *)
AnswersComplete ==
    \A b \in DOMAIN batches : batches[b].promise = "ready" =>
        /\ DOMAIN batches[b].results = DOMAIN batches[b].requests
        /\ \A i \in DOMAIN batches[b].results :
               LET result == batches[b].results[i]
               IN  result.status = "ok" =>
                       result.session = batches[b].requests[i].session
        /\ \A i \in DOMAIN queue : queue[i].batch # b
        /\ \A w \in Busy : work[w].batch # b
        /\ \A s \in Reserved : \A i \in DOMAIN session_queues[s] :
               session_queues[s][i].batch # b

(* The sum of f over S, where f stays within the machine's threads.        *)
Total(S, f) == Cardinality({p \in S \X (1 .. MaxThreads) : p[2] <= f[p[1]]})
Counts(leases) == Total(Workers, [w \in Workers |-> leases[w].count])
Bases(leases) == Total(Workers, [w \in Workers |-> leases[w].base])

(* The budget counts the threads of the leases that live, never more than  *)
(* it has: its unsigned subtractions do not wrap.  The passes under way    *)
(* together use no more threads than the machine has.                      *)
BudgetExact ==
    /\ active.count = Counts(lease) + Counts(extra)
    /\ active.base = Bases(lease) + Bases(extra)
    /\ active.count <= MaxThreads /\ active.base <= NumThreads
    /\ Total({w \in Workers : worker[w] = "lock"}, team) <= MaxThreads

Lockers == {w \in Workers : worker[w] = "lock"} \cup {c \in Callers : caller[c].step = "lock"}
SessionsToLock(t) == IF t \in Workers THEN SessionsOf(work[t])
                     ELSE SessionsIn(caller[t].requests)

(* Whoever locks sessions, staged batches of this and of another scheduler *)
(* and single calls alike, somebody can go on to lock all it needs: the    *)
(* order of scheduler.cpp:83 admits no circle of threads that wait for     *)
(* each other.                                                             *)
NoCircularWait ==
    Lockers # {} =>
        \E t \in Lockers : \A s \in SessionsToLock(t) : holder[s] \in {t, Nobody}

(* No scheduled or direct prefill or decode takes a session beyond the     *)
(* model's context, though others use the session between submission and   *)
(* pass, and though a speculative generation, which has no such check      *)
(* (session.cpp:655), may have taken it there before.                      *)
ContextRespected ==
    [][\A s \in Sessions :
           ContextLength > 0 /\ token_count'[s] > token_count[s] =>
               \/ token_count'[s] <= ContextLength
               \/ \E c \in Callers : CommitGeneration(c)]_vars

(* "session is unavailable after an execution failure; reset is required"  *)
(* (scheduler.cpp:26): no scheduled or direct pass revives or extends a    *)
(* failed session.  A generation may: SessionNestedViolation shows it.     *)
FailedUntilReset ==
    [][\A s \in Sessions : execution_failed[s] =>
           \/ execution_failed'[s] /\ token_count'[s] = token_count[s]
           \/ \E c \in Callers : Reset(c) \/ CommitGeneration(c)]_vars

(* The work that owns a session now, then what waits behind it.            *)
Line(s) ==
    IF s \notin Reserved THEN << >>
    ELSE LET owners == {queue[i] : i \in DOMAIN queue} \cup {work[w] : w \in Busy}
         IN  <<CHOOSE o \in owners : s \in SessionsOf(o)>> \o session_queues[s]
ServedWorks ==
    {[batch |-> b, kind |-> sub.kind, slot |-> 0, requests |-> sub.requests] :
        b \in 1 .. MaxBatches, sub \in Submissions}
    \cup UNION {{[batch |-> b, kind |-> sub.kind, slot |-> i,
                  requests |-> <<sub.requests[i]>>] :
                    b \in 1 .. MaxBatches, i \in DOMAIN sub.requests}
                 : sub \in Submissions}
ServedRequests == {sub.requests : sub \in Submissions}
Serial == INSTANCE SerialSessions WITH
    Submissions <- ServedRequests,
    Works <- ServedWorks,
    line <- [s \in Sessions |-> Line(s)],
    executed <- executed,
    batch <- [b \in DOMAIN batches |-> [requests |-> batches[b].requests,
                                       promise |-> batches[b].promise]]

(* Every session's work runs one at a time in the order it was let in,     *)
(* each piece once, and each batch is answered once, after its work.       *)
SerialService == Serial!Spec

Unanswered(b) == b \in DOMAIN batches /\ batches[b].promise = "pending"

(* A batch that was accepted is answered, unless its submission threw.     *)
AcceptedAnswered ==
    \A b \in 1 .. MaxBatches : Unanswered(b) ~> ~Unanswered(b)

(* A destructor that began returns.                                        *)
DestructorReturns == stopping ~> shutdown = "joined"
=============================================================================
