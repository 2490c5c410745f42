# TLA+ models of the ncnn MoE runtime

This directory models the concurrent core of the runtime under `src/`: what its
threads share, in which order they may touch it, and what must hold whatever
that order is. It is meant to be read beside the code. Paths below are relative
to `src/src/` unless they start with `include/`, `examples/` or `tools/`.

- [Inventory of the system](#inventory-of-the-system)
- [Plan](#plan)
- [The host Expert cache](#the-host-expert-cache)
- [The batch scheduler](#the-batch-scheduler)
- [Expert waves and submissions](#expert-waves-and-submissions)
- [Session and state caches](#session-and-state-caches)
- [The worker process and its client](#the-worker-process-and-its-client)
- [Runs](#runs)
- [Fairness](#fairness)
- [Proofs](#proofs)
- [What the models found](#what-the-models-found)
- [What is not modelled](#what-is-not-modelled)

To repeat the checks: `tlc -config <run>.cfg <module>` for a run, where the
module is `MCExpertCache`, `MCBatchScheduler`, `MCExpertWaves`, `MCSession` or
`MCWorkerClient` by the name of the run; `tlapm <module>.tla` for the proofs of
a module.

## Inventory of the system

The runtime executes mixture-of-experts language models whose Expert weights do
not all fit in memory. A *session* walks the compiled graph token by token; at
every MoE layer the router picks Experts, and the layer needs their weights
("Expert pairs", a fused pair of matrices) from one of several places: a device
cache, a host cache, or the model file.

| Component | Source | State | Operations | Talks to |
| --- | --- | --- | --- | --- |
| Host Expert cache | `storage/expertcache.cpp` | key → Entry map, ARC lists and ghosts, byte counters, two work queues, worker threads | `acquire_pair`, `request_pairs`, `prefetch_pair`, `try_acquire_ready_pairs`, `wait_acquire_ready_pairs`, `resolve_predictions`, `wait_for_background_work`, destructor | executor (calls), victim cache, residency coordinator |
| Batch scheduler | `engine/scheduler.cpp` | work queue, per-session queues, workers, promises | `submit_prefill`, `submit_decode`, `stop_workers` | sessions |
| Session | `engine/session.cpp`, `engine/executor_speculative.cpp` | token count, caches, `execution_failed`, generation in progress | `prefill`, `decode`, `generate`, `reset`, callbacks | executor, state caches, scheduler |
| State caches | `kernels/statecache.cpp`, `kernels/latentattention.cpp` | per-layer key/value rows, an open transaction | `begin`, `record`, `commit`, `rollback` | session |
| Expert waves | `engine/expert.cpp` | the leases a layer holds | admit a wave, compute, release | Expert cache, Expert backend |
| Router prediction worker | `engine/executor.cpp` | a bounded queue of predictions, an adaptive switch | submit, drain, disable | Expert cache |
| CPU thread budget, task worker | `engine/cpu.cpp` | active threads, one-slot task | lease, release, run, wait | every compute thread |
| Expert residency coordinator | `storage/expertresidency.cpp` | reference counts of host and device copies by key | register, drop, query | Expert cache, Vulkan caches |
| Victim caches | `storage/expertcache_victim.cpp`, `backends/ncnn/expertbackend_vulkan.cpp` | payloads of evicted pairs, admission filter, asynchronous admissions | restore, admit, erase | Expert cache workers |
| Expert backends | `engine/expertbackend.cpp`, `backends/ncnn/expertbackend_vulkan.cpp` | device-resident Experts, reservations, demand batches | reserve, submit, wait, commit, abort | Expert waves |
| Expert transfers | `backends/ncnn/experttransfer_vulkan.cpp` | transfer lanes, staging blocks | acquire, upload, release | Expert backends |
| Graph memory planner | `graph/memoryplan.cpp`, `graph/graphmemory.cpp` | lifetimes and offsets of tensors | plan, query | graph executor |
| GPU submission budget | `graph/submissionbudget.h` | segments in flight | charge, flush | graph executor |
| JSONL worker, Python client | `examples/ncnn_moe_worker.cpp`, `tools/ncnn_moe.py` | requests in flight, sessions, cancellations | request, cancel, close | scheduler, session |
| Loading, adapters, tokenizer, compiler, kernels | `models/`, `graph/`, `kernels/` | none shared between threads | | |

What is hard, component by component, and what would make it correct:

- **Host Expert cache.** Every session, the prediction worker and several I/O
  threads share it. An entry is pinned by reference count, linked by raw
  pointer, queued by reference and may be demanded, cancelled, evicted or
  discarded while it is being read. Correct means: counters and lists stay
  exact on every path, nothing in use is evicted, no read is lost or done
  twice, every sleeper is woken, sessions do not block each other for ever.
- **Batch scheduler.** One session's requests must run one at a time and in
  order while batches over several sessions form and fail, and a stop must
  complete every promise.
- **Session.** Callbacks run without the lock and may call back; speculative
  decoding rolls caches back; `execution_failed` must mean that state is
  partial, no more and no less.
- **State caches.** A rollback restores what a commit would have kept.
- **Thread budget, residency tokens, transfer pool.** Counters with several
  owners: every acquisition is given back once, on failure paths too.
- **Multi-device submission.** All devices commit a batch or none does.
- **Graph memory planner.** Tensors alive together never overlap.
- **JSONL worker.** One terminal event per request, whatever is cancelled.

## Plan

1. `ExpertCache`, `MCExpertCache` and its proofs: the component that every
   thread shares. **Done.**
2. `SerialSessions`, `CpuThreadBudget`, `BatchScheduler` and its proofs: one
   serial line of work per session, every batch answered once; the scheduler
   with staged batches, direct calls and leases of threads implements it.
   **Done.**
3. `StateCache`, `Session`, `GreedyDecoder` and `SessionProofs`: transactions,
   callbacks, `execution_failed`; the session with speculation emits what the
   decoder of one token at a time would. **Done.**
4. `ExpertSubmission`, `MultiDeviceSubmission` and its proofs, `MultiDeviceDemand`,
   `ExpertWaves`: all devices commit or none does, and the layer that uses them.
   **Done.**
5. `JsonlWorker` and `WorkerClient`: the process and the other end of its pipes.
   **Done.**
6. Next: `ExpertResidency` (the device tokens, composed with `ExpertCache`),
   `CpuTaskWorker`, `ReuseFilter`, `TransferPool`, `VulkanVictimCache`,
   `GraphMemory` (the planner against "alive together implies disjoint"),
   `SubmissionBudget`.
7. Proofs: every safety property of the runs is proved except
   `ExhaustedMeansBusy`, and so are all refinements. To come: proofs about the
   modules of point 6 as they are written.

Each module is written to be proved about: parameters are `CONSTANTS` with a
named assumption, one action stands for one critical section, and no operator is
recursive.

## The host Expert cache

### Shape

`ExpertCache.tla` has two kinds of threads. A *client* is any thread inside a
public operation; a *worker* is one I/O thread running `worker_loop`. The cache
has one `std::mutex` and two condition variables.

A critical section without a loop is one action, enabled while `mutex = Nobody`.
A critical section that loops is several actions with `mutex` held by the
thread: admission evicts one entry (or one ghost) per action, a worker looks at
one queued candidate per action and publishes one entry per action, an
acquisition leases one entry per action. In between, only steps that need no
lock can happen, and those do happen: a lease dies, a file read ends, a returning
call or a worker drops its references. This matters because `use_count()` is
read inside the loops.

| Action | Code |
| --- | --- |
| `Start`, `Finish`, `Return` | entering and leaving a public operation; dropping the `shared_ptr`s it held |
| `EnqueueTooLarge`, `EnqueueMapped`, `EnqueueAbsent` | `enqueue_pair` up to its admission loop: too large, already mapped (promotion of a prediction), absent (ghost hit) |
| `Evict`, `TrimGhost`, `Insert`, `Exhausted` | rounds of the loop `while (resident_size > cache_size - size)` with `evict_one_locked` and `trim_ghosts_locked`, and its two ends |
| `Nap` | `ready.wait_for(1 ms)` in `wait_acquire_ready_pairs`, then the retry |
| `AwaitReady`, `TakeLease` | the waits of `acquire_pair` and `wait_acquire_ready_pairs` and the leases taken after them |
| `TryAcquire` | `try_acquire_ready_pairs` |
| `Release` | an `ExpertCacheLease` dies, at any time, without the lock |
| `ResolveOne`, `ResolveEnd` | `resolve_predictions`, in any order of the unordered map |
| `AwaitIdle` | `wait_for_background_work` |
| `Pop`, `PopNothing` | `worker_loop` takes the front of a queue, or sleeps, or leaves |
| `Window`, `Gather`, `GatherEnd` | coalescing: the 50 µs wait that releases the lock, the scan, the increment of `active_jobs` |
| `Load` | the file reads, unlocked; each may fail, a coalesced one for several pairs |
| `Publish`, `DropBatch`, `Retire`, `Notify` | results entry by entry under the lock, `batch.clear()` without it, `active_jobs` and the idle notification under it, the ready notification without it |
| `Stop`, `Withdraw`, `Finished` | the destructor: `stop_workers`, the residency tokens after the join, the end |

State maps name by name to the members of `ExpertCache` and `Entry`
(`expertcache.h:211-257`, `expertcache.cpp:79-121`). An Entry *object* is a pair
of a key and a copy number, since one key may have a mapped object and older,
unmapped ones that a lease still pins. `use_count() == 1` is `~Pinned(r)`: no
queue, batch, call or lease refers to the object. `arc_list`, `arc_recent` and
`arc_frequent` are the intrusive tag and the two lists of raw pointers;
`recent_ghost` and `frequent_ghost` are the ghost lists; `asleep` is the set of
threads blocked on a condition variable, which only the code's own notifications
(and time-outs) shrink.

### Abstractions

Payloads, ranges in files, tensor decoding and statistics are left out. A read
ends in success or failure by choice. What the residency coordinator answers
about a device copy is an arbitrary subset of `DeviceKeys` at each eviction. The
victim cache's `restore` and `admit` happen inside `Load` and `Evict` and change
nothing of the cache itself. Sizes are small numbers; the code's are 64-bit, and
its overflow guards (`arc_delta`, `cache_size - size`) are kept in the form in
which they are written. A forward-aware cache is assumed to know the layer of
every pair (`ForwardGroupsAssumption`), as the executor registers them.

The bound `Copy` limits how many objects of one key are alive at once; `Insert`
waits for a free one. A run with two copies covers an orphan and its successor.

### Properties

| Property | What it says | Why it is at risk |
| --- | --- | --- |
| `TypeOK` (proved, not run) | types; no unsigned counter goes below zero | nine places add or subtract bytes |
| `AccountingExact` | each byte counter is the sum of what it stands for | eviction, cancellation, discarded and failed reads, promotion between lists all adjust several counters |
| `CapacityRespected` (proved, not run) | resident bytes ≤ `cache_size` | |
| `NoDanglingPointer` | the lists link exactly the mapped entries, once | the lists hold raw pointers to objects the map owns |
| `GhostsExact` | one ghost per key, exact sizes, trimmed when the lock is free | reloads and evictions of the same key alternate |
| `EveryReadHasAnOwner` | queued entries are in the right queue, loading ones in one batch, none failed is mapped | promotion leaves references behind, cancellation and coalescing skip entries |
| `HostTokensExact` | advertised as host-resident iff servable | device copies are reclaimed on that word |
| `PinnedFitsCache` | one thread never pins more payload than the cache holds, where no clean-up takes a pair it pins | batches are cut to what fits while others free and orphan entries |
| `LeasedStaysMapped` | eviction and clean-up spare leased pairs | |
| `DemandFailsOnlyOnRead` | a pair that a demand was given fails under it only because a file read that covered it failed, its own or a coalesced one; nothing is said of demands that are refused as exhausted | cancellation races with promotion |
| `IdleMeansNoWorkerPin` | idle means no entry pinned by a worker | the order pins – counter – notification |
| `ExhaustedMeansBusy` | "exhausted" is only reported while something is in use | the searches of `evict_one_locked` |
| `PredictionsEvictedLast` | a forward-aware cache evicts a predicted pair for an exact read only when no unpredicted pair could go | six searches in order |
| `AwaitedReadsSettle`, `CallsReturn`, `StopDrains` | every sleep ends | lost wake-ups, two batches that want each other's capacity |

## The batch scheduler

### Shape

`BatchScheduler.tla` has *callers*, threads that submit batches or use a session
directly, and *workers*, threads in `worker_loop` (`engine/scheduler.cpp`). The
scheduler has one mutex and one condition variable, each `Session` a mutex of
its own, and the thread budget (`engine/cpu.cpp`) a mutex again. One critical
section is one action. Notifications come after the unlock and are actions of
their own (`NotifyOne`, `NotifyAll`, `NotifyStop`), so that every other thread
may act between a change and the news of it. A forward pass holds the mutexes of
all its sessions from the first to the last; taking each of them is a step
(`LockSession`, `LockDirect`), and the pass with the unlocking is one.

| Action | Code |
| --- | --- |
| `Submit` | `submit_prefill`, `submit_decode` up to their first critical section, with everything they refuse at once |
| `TryEnqueueBatch` | `try_enqueue_batch`: all sessions of a staged batch reserved together, or none |
| `EnqueueSession` | `enqueue_session`: reserve a session, or wait behind the work it has |
| `Throw` | a failed allocation in either of them, with its roll-back; what a split batch enqueued earlier stays |
| `StartDirect`, `LockDirect`, `RunDirect`, `Reset`, `CommitGeneration` | `Session::prefill`, `decode`, `reset` called by the user, a staged batch of another scheduler over the same sessions, and the commit of a speculative generation, which looks neither at `max_context_length` nor at the failure mark |
| `Wait`, `Take`, `Leave` | `queue_ready.wait` and what follows it in `worker_loop` |
| `AcquireCompute` | `acquire_compute` of the thread budget |
| `MeasureTeam`, `PrepareTeam` | `prepare_staging_team`: the budget is read first and extra threads leased later |
| `LockSession`, `Execute` | the staged pass, or the pass of one session, under the sessions' mutexes |
| `ReleaseSessions`, `NotifyAll` | `release_sessions` |
| `Complete` | `promise.set_value`, or the slot of a split batch in `complete`, and the end of the lease |
| `Stop`, `NotifyStop`, `Join` | `stop_workers` |

`queue` and `session_queues` are the scheduler's members; the presence of a
session in the map is its reservation, also while its queue is empty. `batches`
stands for the promises and the shared state of split batches (`results`,
`remaining`). `work` and `outcome` are the closure that a worker runs and its
results. `active`, `lease`, `extra` and `team` are the budget and what each
worker holds of it. `token_count` and `execution_failed` belong to the sessions.
`CpuThreadBudget.tla` is the arithmetic of the budget without the threads.
`executed` is history, for the refinement only.

`SerialSessions.tla` is what a user may rely on: every session has one line of
work, served in the order in which it was let in; work over several sessions
enters when all their lines are empty and runs when it heads all of them; a batch
is answered once, after its work ran and left the lines. The refinement maps a
session's line to the work that owns it, ready or running, followed by what is
pending; it is checked as the property `SerialService` and proved (`ServesSerially`).

### Abstractions

Logits and sampled tokens are left out, except that a result names the session
whose logits it carries, because a staged pass runs in the order of the locks and
answers in the order of the requests. A token is valid or not; a prompt is its
length. Where a pass ends badly is one outcome, the session being marked. Session
addresses are numbers, ordered as the code orders pointers. The counters of
`SchedulerStatistics` are left out. The model is the OpenMP build, in which
`prepare_staging_team` exists. Spurious wake-ups are left out: `Wait` re-tests
the predicate whenever a worker is awake, so that they would add no state. The
wait inside `acquire_compute` is a guard, since every release notifies all who
wait. Bounds: `MaxBatches` submissions and `MaxDirectCalls` direct calls.

### Properties

| Property | What it says | Why it is at risk |
| --- | --- | --- |
| `TypeOK` (proved, not run) | types; no counter of the budget goes below zero | unsigned subtractions |
| `ReservationExact` | a session is reserved iff one ready or running piece of work names it, and only its own work waits behind | staged and split batches reserve and release several sessions in different critical sections, a failed allocation rolls back half of it |
| `WorkConserving` | no worker sleeps through ready work | `notify_one` after the unlock; a release may make several works ready |
| `AnswersComplete` | an answered batch has each session's own logits in the requests' order, and no work left | results are made in lock order; slots are filled by several workers; the promise must come after the release |
| `BudgetExact` | the budget is the sum of the living leases and never exceeded | the team is measured before it is leased |
| `NoCircularWait` | whoever locks sessions, somebody can go on | staged passes of two schedulers and single calls lock the same mutexes |
| `ContextRespected` | no scheduled or direct prefill or decode takes a session beyond the context, also after a speculative generation did | checks at submission and in the pass, other users in between; the subtraction that checks must not wrap |
| `FailedUntilReset` | no scheduled or direct pass extends a failed session or takes its mark away | a staged pass commits several sessions |
| `SerialService` | the refinement | all of the above |
| `AcceptedAnswered`, `DestructorReturns` | accepted work is run and answered, also by a destructor that begins early | pending work of reserved sessions is in no queue a leaving worker looks at |

## Expert waves and submissions

### Shape

Five layers of modules, from the contract to its user:

- `ExpertSubmission.tla` is what a caller may rely on when it hands a batch to a
  backend (`engine/expertbackend.h:172-200`): work is reserved once, a result is
  one of the reserved, outputs appear together at a commit or not at all.
- `MultiDeviceSubmission.tla` is `MultiDeviceExpertBackend::Submission`: one child
  per device, private outputs, `wait`, `commit`, `abort` and the destructor. A round
  of a loop over the children is one action (`WaitChild`, `CommitChild`), so a
  refusal in the middle shows what it leaves behind. The children are external:
  any of them may be missing, answer with a wrong number of reservations or
  results, claim work it had not reserved, refuse to commit, or throw
  (`ChildThrows`). The module
  implements `ExpertSubmission` (`ContractHonoured`).
- `MultiDeviceDemand.tla` adds `MultiDeviceExpertDemandSubmission`: an upload cut
  into segments of neighbours on one device; the caller's pins are a contiguous
  prefix of what it asked for.
- `ExpertWaves.tla` is `forward_moe` (`engine/expert.cpp:1343-2396`) over both.

| Action of `ExpertWaves` | Code |
| --- | --- |
| `Start`, `SubmitResident`, `Prestage` | the submission of what is resident, the first upload in its shadow |
| `FinalizeWait`, `FinalizeCommit`, `FinalizeRecord`, `RecoveryFails`, `Recover`, `Finalized` | `finalize_backend` and the recovery on the CPU |
| `WaitPrestaged`, `Classify`, `NextList`, `ForwardOnCpu` | `forward_ready` over prestaged, cached and demanded lists |
| `Unsupported`, `BeginUpload`, `EndUpload`, `NothingPrepared`, `StartWave` | the device part of `forward_ready`: one wave |
| `FinishWait`, `FinishCommit`, `FinishRecord`, `ReleaseWave` | `finish_current_wave` and the return of its leases |
| `Acquire`, `Starve`, `WaitForBackgroundWork`, `Stalled`, `AllAcquired` | the loop that takes leases for what fits and waits for room when nothing does |
| `Last` | the checks after the last wave |
| `Throw`, `UnwindUpload`, `UnwindSubmission`, `WaveCleanup` | an exception anywhere, also out of one child of a submission, and the destructors in their order |
| `BackgroundEnds`, `OthersTake`, `OthersRelease` | external: uploads that end, leases of other sessions |

The layer runs in one of three modes: on the CPU, on the CPU with devices that
help ("assist"), or on the devices alone (`HybridExperts`). A backend with too few
rows is covered by "assist" with nothing supported. Whether weights
in memory are admitted at all (`can_admit` in `Start`) is a choice for the layer, whose
Experts share one layout. The shape checks that
`forward_moe` repeats for a raw single backend are those of
`MultiDeviceSubmission`. All Experts of a layer have the same kind of weights
(`host_cached`). Two paths of the code cannot be reached in device mode and are
not in the model: the filter of lines 1878-1905 after the prestage, and the CPU
fall-backs inside a wave. The host cache is a number of slots here; what goes on
inside is `ExpertCache`. `submit_batch` has a second user, `forward_cached_dense_ffn`
(`engine/expert.cpp:450`), which keeps the same contract.

### Properties

| Property | What it says | Why it is at risk |
| --- | --- | --- |
| `ContractHonoured` | several devices behave as one backend | a device refuses after another has committed; a device claims foreign work |
| `ComputedOnce` | each output is written once | waves, recovery, late finalizer and CPU all write outputs |
| `LeasesOutliveWork` | what a wave or an upload reads keeps its lease | exceptions unwind through three owners |
| `WaitsHoldOnlyTheWave` | the call never waits for room that it holds itself | a wave in flight keeps leases across the wait |
| `WavesArePinned` | a wave is made of Experts pinned on its own device | short, broken or hollow answers of the segments |
| `Returns` | `forward_moe` returns, unless other sessions take the host cache away from it for ever | retries, waits, recovery |

## Session and state caches

### Shape

`StateCache.tla` is the cache of one layer and its transaction: key/value and
sliding layers go back by row count, recurrent (Gated DeltaNet) layers by
snapshots, latent layers by an undo log. A cache is the sequence of tokens it
remembers. `Session.tla` composes several of them with `Session`
(`engine/session.cpp`) and the draft models (`engine/executor_speculative.cpp`).
Every operation holds the session's mutex except around the callback, where
`emit_token` lets it go: the callback itself or another thread may then call
`prefill`, `decode` or `reset`.

| Action | Code |
| --- | --- |
| `Prefill`, `Decode`, `Reset`, `Generate` | the public operations up to their first forward |
| `ExecuteRow`, `ExecutionFails` | one row of `prefill_unlocked`, of `decode` or of a chunk, and `commit_execution` after the last |
| `Emit`, `CallbackReturns`, `CallbackModified`, `CallbackThrows` | `emit_token` and the ways a callback ends |
| `DecodeAnchor`, `BeginDraft`, `DraftRow`, `DraftFails`, `EndDraft` | the token that is fed before drafting, and `propose_dspark` or `propose_mtp` |
| `BeginVerify`, `VerifyRow`, `VerifyFails`, `SampleFails` | the transaction in which the drafted tokens are executed |
| `AcceptDraft`, `Accept`, `RejectAll` | comparison with what the model itself would choose |
| `Settle`, `SettleFails` | `finish_cache` with the rows that were emitted, the draft context, `commit_execution` |
| `Return` | the end of a generation |

`GreedyDecoder.tla` is a decoder that feeds one token at a time. A generation
with speculation implements it: what was drafted, rejected, cut by chunks or
rolled back can never be seen in the stream (`SpeculationIsExact`).

### Abstractions

Sampling is greedy. A stop token ends a generation as a callback that returns
false does. A verification runs row by row. Statistics, metrics and the caches on
devices are left out, nested `generate` calls too, and so are the refusals of the
draft's own transaction, which never come (`DraftIsNeverRefused`). A speculative generation does not check
`max_context_length` (`generate_speculative`), and a refused `generate` has
already set `use_speculative_context`: both are as in the code. A sliding-window
model fails once its ring wraps inside a verification and then needs `reset`.

A callback may call anything, any number of times. With `Careless = FALSE` nobody
is assumed to execute on the session during a callback of a speculative
generation; resets are still made there, and executions during all other
generations. The code permits those executions, and most of what holds without
them is false with them: [What the models found](#what-the-models-found), 2 and 5.
What holds in either case is `ForgottenBySpeculation`; the run `Session` and the
theorems about its properties make the assumption.

### Properties

| Property | What it says | Why it is at risk |
| --- | --- | --- |
| `CachesMatchPosition` | after every operation, and after taking back an open verification, each layer holds exactly the committed tokens | four ways of rolling back; failures, throwing callbacks and partial acceptances in each |
| `DraftInStep` | the draft model's context lags by nothing, or by the one row that waits | chunks, proposals and rollbacks move it separately |
| `SpeculationIsExact` | the refinement of `GreedyDecoder` | all of the above |
| `FailedUntilReset` | a failed session does nothing until `reset` | `commit_execution` clears the mark, whoever set it |
| `ForgottenBySpeculation` (proved, not run) | whatever callbacks do, a failed session executes nothing that is asked of it, and only `reset` and the commit of a speculation that a callback interfered with take the mark away | the same, with executions nested in a speculation |
| `GenerateReturns` | a generation returns although every draft is rejected | the rounds of a speculation depend on counts that callbacks change |

## The worker process and its client

`JsonlWorker.tla` is `examples/ncnn_moe_worker.cpp`: a request loop that reads
lines, a generation thread, and a metrics thread. They share two atomic flags
(`generation_running`, `cancel_requested`) and the output; every load and store
that another thread may come between is an action of its own (`CheckCancel`,
`StoreCancel`, `AnswerCancel`; `EmitToken`, `EndToken`; `Finish`, `Publish`).
`WorkerClient.tla` is the Python class of that name at the other end of the pipes
(`tools/ncnn_moe.py:375-657`): calls, streaming, the interrupt that sends a cancel
and reads on, `close`, and a client that vanishes.

| Action | Code |
| --- | --- |
| `ReadLine`, `Reap` | `getline`, and the join of a thread that is no longer running |
| `RefuseWhileRunning`, `Refuse`..., `Stats`, `Reset`, `Compact` | the handlers, and `invalid_argument` |
| `Generate`, `GenerateCannotStart` | `handle_generate` with `prepare_generation`; `std::thread` throws |
| `CheckCancel`, `StoreCancel`, `AnswerCancel`, `RefuseCancel` | `handle_cancel` |
| `Shutdown`, `Exit` | `shutdown` and the end of the input |
| `ExecutePrompt`, `EmitToken`, `EndToken`, `FeedToken`, `GenerationFails` | `session->generate` with the callback of the worker |
| `EmitMetrics`, `JoinMetrics` | the metrics thread |
| `FlushThrows`, `SettleSession`, `Finish`, `Publish` | the end of `execute_generate`: pending text, `committed_tokens` or reset, the flag, the terminal event |
| `Call`, `GenerateCall`, `Read...`, `Interrupt...`, `Close`, `Terminate`, `Vanish` | the client |

The Session here is the tokens it has executed; what it does itself is
`Session.tla`. There is one session (`create_session` and further ones add
independent copies in a map whose references stay valid), the pipes are
unbounded, `reset` of the session does not fail, the text of requests and events
is reduced to what decides the control flow, and at most one line of metrics per
generation is written.

| Property | What it says | Why it is at risk |
| --- | --- | --- |
| `InStep` | while the user interrupts nothing, both pipes are empty between calls, no thread will write, and the tokens read, in the pipe and held back are those generated | the flag falls before the terminal event; metrics come from a third thread; tokens wait for the rest of a character |
| `ConversationIsExact` | an answer starts with the Session holding exactly the conversation that was sent | the prefix is reused after failures, cancels, raw prompts and compactions |
| `CancelHitsItsTarget` | a generation is stopped only by a cancel that names it | the cancel of the previous one may be stored late |
| `CallsEnd` | every call ends, and the worker ends with its client | failed thread starts, interrupts, joins |

## Runs

Pairs, threads, tokens and calls are small sets; between the runs of a
specification every action and every disjunct of its next-state relation fires.

| Run | Instance | Checks |
| --- | --- | --- |
| `ExpertCachePredict` | 2 clients, 1 worker, 3 pairs of which one is larger than the cache of 1 byte-unit, a read that may fail; acquire, prefetch, try, resolve, sync | no read is lost or done twice, residency tokens, idleness; with `resolve_predictions`, which cleans up beside every other call, the leases |
| `ExpertCacheDemand` | 2 clients, 1 worker, 3 pairs of sizes 1 and 2 in two layers, cache of 2, two objects per key, a read that may fail; acquisitions alone and in opposite batches in each waiting mode | counters, lists, ghosts, pins, searches |
| `ExpertCacheReadAhead` | 1 client, 2 workers that coalesce two adjacent pairs, forward-aware eviction over 3 layers, cache of 2, a device duplicate, cancellations, a read that may fail | no read is lost or done twice when reads coalesce; only a failed read that covered it fails a demanded pair, no cancellation or clean-up does; predictions are the last resort |
| `ExpertCacheLive` | 2 clients, 1 worker, opposed batches on a cache of one pair, every kind of sleep, shutdown, fairness | no two batches block each other, every sleep ends, shutdown drains |
| `ExpertCacheExhaustedViolation` | the smallest traffic that shows the finding | see below |
| `SchedulerMixed` | 4 sessions of 2 models, 2 callers, 2 workers, 3 threads, batches that are staged, split, refused or end in an exception | reservations, budget, answers, no lost notification, the refinement |
| `SchedulerDirect` | 2 sessions with a context of two tokens, 2 callers that also call sessions directly and from another scheduler, passes that fail | locks, context, failure marks |
| `SchedulerDrain` | 2 sessions, 1 caller with three overlapping batches, destructor at any time, fairness | pending work drains, answers and the destructor arrive |
| `ExpertWaves` | 3 Experts on 2 devices, one of them perhaps unsupported, host cache of 2 slots shared with other sessions, waves of 2, key-sharded or not, exceptions everywhere | the contract, outputs, leases, pins, termination |
| `Session` | 4 kinds of model (no draft, DSpark, Qwen MTP, sliding window) of two layers, prompts of 1 and 3 tokens, chunks of 2, drafts of 3, 5 new tokens, context of 5 | caches, draft context, exactness, failure, termination |
| `SessionNestedViolation` | the same with callbacks that execute during a speculation | see below |
| `WorkerClient` | 2 calls and 1 interrupt, 2 request ids, a conversation and its continuation, 2 new tokens, context of 4 | pipes, prefix, cancellation, termination |

Why the bounds are enough: two clients give every pairwise race on an entry
(demand against prediction, batch against batch, clean-up against both); a cache
of one pair makes every admission evict or fail, so that capacity is always at
its limit; sizes 1 and 2 make an admission evict twice; two layers make one
exceed its fair share; two workers are needed only where workers meet, in
coalescing. Three clients or a second failing read add interleavings of the same
pairs. For the scheduler, two workers and two callers give every race on a
session; two batches are two owners that want the same session, and the third of
`SchedulerDrain` waits behind one that already waits; four sessions let two
staged batches run side by side, and three threads are one too few for both.
For the waves, two slots for three Experts force several waves and a wait for
room; two devices are enough for one to refuse after the other. For the session,
a draft of three can be accepted in part, a ring of three rows wraps, and two
layers make any mismatch of position visible, because the next token depends on
both. For the worker, two generations are one to be cancelled late and one that
must not be hit; the safety properties were also checked with three calls
(4.1 million states). The safety theorems below do not depend on the bounds at all.

`SYMMETRY` is used in safety runs, over threads only: threads are never
compared or ordered by the model. `Copy`, `Key` and `Sessions` are not symmetric.
Deadlock is checked in every run of the cache: the only state without a successor
would be an error, since a finished system stutters by the action `Finished`. The
scheduler's runs have `CHECK_DEADLOCK FALSE`: a joined scheduler whose callers
used up their bound really has nothing left to do. What a deadlock would be there
is the subject of `NoCircularWait`, `DestructorReturns` and `AcceptedAnswered`.
`ExpertWaves`, `Session` and `WorkerClient` have `CHECK_DEADLOCK FALSE` for the
same reason: a layer that returned, a session whose context is full and a worker
that ended stop, and `Returns`, `GenerateReturns` and `CallsEnd` say that they do
not stop earlier.

## Fairness

In `ExpertCache`, `FairSpec` gives each client and each worker strong fairness over its steps, and
each client weak fairness over `Release`. The code justifies it as follows.
Threads are scheduled by the operating system and file reads end. The mutex is
taken again and again by other threads, so a thread that wants it is enabled
infinitely often rather than always: strong fairness says that it is not passed
over for ever, which `std::mutex` does not promise in theory but which the
code relies on; the only loop that retries sleeps 1 ms between attempts. A lease
is held for one computation, so it ends. No fairness is assumed for `Start` (no
one has to call the cache) nor for `Stop`. `CallsReturn` therefore excludes
behaviours in which new calls keep arriving for ever, because the code has no
queue that would protect a waiting batch from newcomers.

In `BatchScheduler`, `FairSpec` gives each worker, and each caller inside a
submission or a call, weak fairness: threads run and a pass ends. Weak fairness
is enough because the liveness run has no direct calls that could take a
session's mutex from a worker again and again. No fairness is assumed for
`Submit`, the direct calls or `Stop`: nobody has to use or to destroy a scheduler.

`ExpertWaves` is one thread (`WF_vars(Forward)`) beside uploads that end and other
sessions that give their leases back; exceptions are never due. In `Session`, the
steps of an operation have weak fairness: one thread runs at a time. The end of a
callback has strong fairness, since a callback may make any number of calls, each of
which takes the session away from it for a while, but comes to its end; one that never
returns would block the generation in the code as well. In `WorkerClient`, the loop, the generation thread and the
reader have weak fairness each; the user and the metrics have none.

## Proofs

Eight modules hold theorems. Those about the cache are proved for every finite set
of pairs, of workers and of copies, any set of clients, any calls, flags, sizes
and groups that satisfy `ConstantsAssumption` and `ForwardGroupsAssumption`; those
about the scheduler for every finite set of sessions, workers and callers, any
batches, direct calls, context and thread budget that satisfy
`SchedulerAssumption` and `ThreadBudgetAssumption`; those about submissions and
waves for any Experts and devices (`DevicesAssumption`, `WavesAssumption`); those
about the session for any models, layers, prompts, chunk and block sizes that
satisfy `SessionAssumption`, with a `Greedy` that chooses tokens and, except for
`FailureIsForgottenOnlyBySpeculation`, with `Careless = FALSE`; those about the worker and its client for any conversations, requests and
tokens that satisfy the assumptions of `JsonlWorker` and `WorkerClient`.

- `CollectionFacts`: lists without duplicates (append, remove at, tail) and
  finite sums. A sum of bytes is the cardinality of a set of (thing, byte)
  pairs, so that no recursion is needed; `WeightOneMore` is how one more thing
  changes a sum.
- `ExpertCacheProofs`: first the lists and their counters, without threads.
  `ResidencyStep` lists what an operation may do (touch, remove, insert) and
  `ResidencyPreserved` shows that each keeps lists and counters exact;
  `GhostStep` and `GhostsPreserved` do the same for ghosts. `VictimIsEvictable`
  shows that the search of `evict_one_locked` only returns a mapped, unpinned,
  Ready entry of one of the lists. Then threads, and the theorems.
- `BatchSchedulerProofs`: the scheduler's queues, locks, budget and wake-ups.
- `BatchServiceProofs`: its pieces of work from submission to answer, and the
  refinement of `SerialSessions`.
- `MultiDeviceSubmissionProofs`: the submission over several devices.
- `ExpertWavesProofs`: the layer that uses it.
- `SessionProofs`: state caches, the session, its draft model and its stream.
- `WorkerClientProofs`: the worker process and its client.

The argument for the cache. `AccountingExact` alone is not inductive: an eviction subtracts the
size of an entry from the counter of the list its tag names, so one needs that
the tag, the list and the map agree (`NoDanglingPointer`); an insertion adds an
entry under a key that must still be absent several steps after it was looked
up, which holds because the admission kept the mutex (`Control`); and
a sum over the cache only counts entries of at most `cache_size` bytes, so linked
pairs are remembered to fit. The inductive invariant `IInv` is therefore the
conjunction of `Residency` (map, tags, lists), `Accounting` (counters),
`GhostLists` (ghosts, target), `ThreadsInv` (types, and what each program
counter implies), `GhostsTrimmed` (ghosts outgrow the cache only inside an
admission) and `Jobs` (`active_jobs` is the sum of the batches being read or
retired, so that it never wraps). It was checked with TLC on the instances of
three runs before it was proved.

| Theorem | States |
| --- | --- |
| `Invariant` | `Spec => []IInv` |
| `TypeCorrect` | `Spec => []TypeOK` |
| `CountersExact` | `Spec => []AccountingExact` |
| `CapacityNeverExceeded` | `Spec => []CapacityRespected` |
| `PointersValid` | `Spec => []NoDanglingPointer` |
| `GhostHistoryExact` | `Spec => []GhostsExact` |

Who reads is a second invariant on top of `IInv`. `EveryReadHasAnOwner` says of a
`Loading` entry that one worker reads it, but a step of the demand path needs more:
that a `Queued` entry is in the queue its priority names (`QueuedIsListed`),
that a batch of a worker holds nothing queued and shares nothing with another
batch (`BatchesOwn`), that the map serves nothing that failed (`MapServes`), that
leases are on Ready entries that are no predictions (`LeasesServe`), and that what
a demand holds is nobody's prediction until it has been read (`DemandsKept`):
without the last, a clean-up of predictions could take an entry from under a
demand that waits for it. Their conjunction is `ReadsInv`. Three theorems come from
it as facts about steps: an entry under lease leaves the map in no step, a demand
fails only when a worker has recorded a read error for it, and an eviction takes
a prediction last.

| Theorem | States |
| --- | --- |
| `ReadsInvariant` | `Spec => [](IInv /\ ReadsInv)` |
| `ReadsHaveOwners` | `Spec => []EveryReadHasAnOwner` |
| `TokensAreExact` | `Spec => []HostTokensExact` |
| `LeasesAreSafe` | `Spec => LeasedStaysMapped` |
| `DemandsFailOnlyOnReads` | `Spec => DemandFailsOnlyOnRead` |
| `PredictionsGoLast` | `Spec => PredictionsEvictedLast` |
| `IdleMeansUnpinned` | without coalescing, `Spec => IdleMeansNoWorkerPin` |
| `PinsFit` | `Spec /\ [][~DropsPinned]_vars => []PinnedFitsCache` |

The last two carry the hypotheses that findings 3 and 4 below show to be needed.
`DropsPinned` is the step of a clean-up that removes a read pair which some call
still holds; all other clean-ups are allowed. The code does not prevent such a
step, so for calls beside it `PinnedFitsCache` is not promised.

The argument for the scheduler is in five layers.

- `Control` joins the types of everything but the budget with `ReservationExact`
  and two facts on the way; from its types the arithmetic of the context check
  follows (`ContextKept`). `CallersSane`: a caller in the
  middle of a submission knows its batch, its slot is one of the requests, a
  prefill that is enqueued has one request; otherwise `EnqueueSession` could
  reserve a session for work that runs others too. `OutcomesSane`: a worker past
  its pass has one result per request, so that the slot of a split batch has
  something to take. `ReservationExact` is inductive over these: work leaves the
  queue only for a busy worker, and `release_sessions` frees exactly the sessions
  that the worker's work names and makes ready one pending work of each of the
  others.
- `BudgetInv` follows the leases along the worker's program counter (none
  between two works, an extra one only during the pass, a team within both) and
  keeps `active` their sum. A sum is again the cardinality of a set of (worker,
  thread) pairs. That passes together never use more threads than the machine
  has (`TeamsFit`) compares two such sets.
- `LocksInOrder`: what is held is held by a thread that still locks, and with
  it all earlier sessions that this thread needs. The owner of the greatest
  session that is held then waits for nobody, hence `NoCircularWait`.

- `AnswerInv`: a piece of work is named by its batch and its slot and lies in one
  place (ready, behind a reserved session, or with a worker): `PiecesOnce`. What
  a batch still waits for (`Owed`) is the pieces that are alive and those its
  caller has not enqueued yet; `remaining` counts at least those, and one more for
  ever once a submission failed half-way, so that such a batch is never
  answered twice (`BatchRight`). A batch that is not split is one piece, with slot
  0, and owes no others. Results carry the session of their request from the
  pass to the promise (`ResultsMatch`). The lemmas `PiecesMove`, `PieceAdded` and
  `PieceGone` say what a step does to the set of living pieces, whatever the
  places are.
- `ServiceInv` relates the pieces to the history `executed`, so that the steps can
  be those of `SerialSessions`. The living pieces are those that have not run
  (`Unrun`) and those whose worker is past its pass (`Ended`). `RanOnce`: what ran
  has the requests of its batch, no caller still owes it, and no piece that has not
  run has its name; so `Execute` and `Admit` find the piece new. `NothingLost`: each
  request of a pending batch is owed, or is part of a living whole batch, or ran; so
  that the last completion finds all of them run. `BrokenApart`: an abandoned batch
  was being split and nobody submits it any more; so that its pieces never resolve
  it. `FromSubmissions` and `KindsKept`: pieces have the kind and requests of what was
  submitted. The proof of the refinement then has one lemma per kind of step
  (`SubmitServes`, `EnqueueServes`, `RefusalServes`, `ThrowServes`, `ExecuteServes`,
  `ReleaseServes`, `CompleteServes`); all other steps leave lines and answers alone
  (`LinesCalm`). A reserved session has one owner, which `OneOwner` derives from
  `ReservationExact`; a line is that owner in front of the session's pending queue,
  so that `release_sessions` takes the head of each line of the worker's work, and
  nothing else. TLC checked the parts of `ServiceInv` on the instances of the
  three scheduler runs before they were proved.

`WorkConserving` is inductive with `Control` alone: the notification that
`queue_ready` owes is still owed by a caller or a worker until it is sent.

| Theorem | States |
| --- | --- |
| `ControlInvariant`, `BudgetInvariant`, `LockOrder`, `AnswerInvariant`, `ServiceInvariant` | `Spec => []Control`, `[]BudgetInv`, `[]LocksInOrder`, `[]AnswerInv`, `[]ServiceInv` |
| `TypeCorrect` | `Spec => []TypeOK` |
| `ReservationsExact` | `Spec => []ReservationExact` |
| `ContextKept` | `Spec => ContextRespected` |
| `FailureSticks` | `Spec => FailedUntilReset` |
| `BudgetNeverOverdrawn` | `Spec => []BudgetExact` |
| `NoCircle` | `Spec => []NoCircularWait` |
| `NobodySleepsThroughWork` | `Spec => []WorkConserving` |
| `AnswersAreComplete` | `Spec => []AnswersComplete` |
| `ServesSerially` | `Spec => SerialService` |

The argument for submissions. The invariant says which children are still to be
waited for or committed in each loop, that private outputs are those of children
that committed, and that the caller's buffers hold either none or all of what
was executed; the refinement follows step by step:
a round over one child is a stutter of the contract, the end of a loop (`EndWait`,
`Publish`, `Destroy`) is its step.

| Theorem | States |
| --- | --- |
| `SubmissionTypeCorrect` | the types of a submission |
| `OutputsAllOrNothing` | the caller's buffers hold every executed output or none |
| `OnlyReservedExecutes` | what counts as executed had been reserved |
| `NoChildOutlives` | a destroyed submission has waited for each child and committed or aborted it |
| `SubmissionImplementsContract` | `SubmissionSpec` implements `ExpertSubmission` (`ContractHonoured`) |

The argument for the waves. `WavesSpec` implements `SubmissionSpec`
(`LayersUseSubmissions`): every step of the layer is a step of its submission or
leaves it alone, so the invariant of the submission and its contract hold in the
layer without being proved again. `WavesInv` adds, for each place of `forward_moe`,
which Experts have been computed (`WorkOK`: never a set of its own, always what
the lists `uncached`, `pending`, `demands` and the wave leave over), which lists
and submissions that place can have at all (`ModesOK`, `FirstBatch`), who holds
which lease (`LeasesOK`) and what an upload reads and pins (`UploadsOK`).
`ComputedOnce` is not inductive without the lists being disjoint, and they are
disjoint only because the Experts that a wave took have left them.

| Theorem | States |
| --- | --- |
| `WavesInvariant` | `WavesSpec => []WavesInv` |
| `OutputsWrittenOnce` | `WavesSpec => []ComputedOnce` |
| `LeasesAreLongEnough` | `WavesSpec => []LeasesOutliveWork` |
| `WaitsHoldLittle` | `WavesSpec => []WaitsHoldOnlyTheWave` |
| `WavesArePinnedAlways` | `WavesSpec => WavesArePinned` |
| `LayersUseSubmissions`, `LayersHonourContract` | `WavesSpec => SubmissionSpec`, and with it `ContractHonoured` |

The argument for the session is in three layers, each checked with TLC on the
instance of the run `Session` before it was proved. All three assume `~Careless`:
without it the first is false already (findings 2 and 5). What is proved without it
is `FailureIsForgottenOnlyBySpeculation`, from a small invariant of its own
(`FailureInv`): a session that failed and is not executing is either idle or in a
generation that a callback has touched.

- `SessionInv`. `FinishRestores` is the lemma about transactions: for each kind of
  layer, finishing with n rows leaves what begin and n records left.
  `CachesMatchPosition` is inductive only together with where an execution or a
  verification is (`Progress`: how many rows each layer is ahead of the committed
  tokens), what the program counter allows (`Control`) and the types (`Shapes`);
  `LayersHold` says what each layer remembers at each of these places.
- `DraftInv`. `DraftInStep` only speaks of moments without an execution, but a long
  prompt moves the draft model chunk by chunk, so `DraftFollows` follows it inside
  one (`Told`: the rows it has been told of), and inside its own transaction
  (`Drafting`: one row per token drafted). A proposal of Qwen MTP uses up the
  pending target row; `PendingInStep` says where in a generation there is one. Of
  the same invariant follows `DraftIsNeverRefused`: beginning and finishing the
  draft's transaction and updating its context always pass the checks the code
  makes, which is why the model has no such refusals.
- `StreamInv`. A stream that no callback disturbed (`Live`) is `Fed` tokens that
  are context and `Waiting` tokens that are not (`StreamCounted`). During a
  verification the outputs are what the model chooses after the context and the
  rows executed so far (`OutputsAreBest`), the block begins with what was emitted
  (`BlockInStream`), and what was accepted is what was drafted; so the next output
  is the choice after the context and everything emitted since. The refinement
  maps the unfed tail of the stream: `Emit` is a step of the decoder, `ExecuteRow`
  and `Settle` feed it, a disturbed stream is dropped, and all other steps
  stutter. `Greedy` stays an arbitrary function of what each layer remembers.

| Theorem | States |
| --- | --- |
| `FinishRestores` | a finished transaction keeps exactly the committed rows |
| `SessionIsConsistent`, `DraftInvariant`, `StreamInvariant` | `Spec => []SessionInv`, `[]DraftInv`, `[]StreamInv` |
| `CachesAlwaysMatch` | `Spec => []CachesMatchPosition` |
| `FailureLastsUntilReset` | `Spec => FailedUntilReset` |
| `FailureIsForgottenOnlyBySpeculation` | `Spec => ForgottenBySpeculation`, for any callbacks |
| `DraftStaysInStep` | `Spec => []DraftInStep` |
| `DraftIsNeverRefused` | the draft's transaction and updates are never refused |
| `SpeculationIsGreedy` | `Spec => SpeculationIsExact`: the session implements `GreedyDecoder` |

All but `FinishRestores` and `FailureIsForgottenOnlyBySpeculation` have the
hypothesis `~Careless`.

The argument for the worker and its client. `IInv` of `WorkerClientProofs` joins
`CancelHitsItsTarget` with two facts. `CancelAimed`: a cancel that was checked against
the running generation still names it when it is stored, because the thread that
reads requests is the only one that starts another. `PrefixKept`: at each place of
a generation, what the Session holds is the conversation and the tokens so far,
all or all but the last, or the worker knows that it does not. `InStep` needs
where both ends are in a call that nobody interrupts (`PhaseOK`): the request is on
its way or taken, its answer on its way back, the last event of it last in the
pipe (`LastEnds`), and the tokens read, in the pipe and held back are together
those that were generated (`Conserved`).

| Theorem | States |
| --- | --- |
| `WorkerInvariant` | `Spec => []IInv` |
| `CancelsHitTheirTarget` | `Spec => []CancelHitsItsTarget` |
| `ConversationsExact` | `Spec => []ConversationIsExact`: whenever a token is sampled, the Session holds the conversation sent and the answer so far |
| `StayInStep` | `Spec => []InStep`: as long as the user interrupted nothing |

Induction over data is mostly avoided: a sum is the cardinality of a set of pairs, a
position in a list is a quantifier. Where a bounded induction was needed, over the
elements of a list, `CollectionFacts` takes the least counterexample of a set of
numbers (`LeastNumber`) in place of the library's induction theorems, which the
installed provers cannot instantiate.

Only model-checked: the liveness properties (`AwaitedReadsSettle`, `CallsReturn`,
`StopDrains`, `DestructorReturns`, `AcceptedAnswered`, `GenerateReturns`, `Returns`,
`CallsEnd`), because the prover has no rules for fairness; and
`ExhaustedMeansBusy`, which the code violates except in the traffic of the run that
keeps it.

## What the models found

Two findings are runs that TLC must find violated, with the smallest traffic that
shows them.

1. **Exhausted by nothing** (`ExpertCacheExhaustedViolation`). Promoting a queued
   prediction leaves the low-priority reference behind. Until a worker pops it,
   the pair counts as used and cannot be evicted, and `acquire_pair` may fail
   with "exhausted by active expert leases or reads" although there are none.
2. **A failure that is forgotten** (`SessionNestedViolation`). An execution that a
   callback makes during a speculative generation fails. The generation goes on
   drafting and verifying over the half-written caches, and its next commit
   clears `execution_failed` (`engine/session.cpp:195`), although
   `include/ncnn/moe/session.h:212` promises that a failure requires a reset.

The others are exceptions to properties that hold otherwise, each with the change
of an instance that shows it.

3. **Idle while a worker pins an entry.** With read coalescing, a worker that has
   popped the last queued entry waits up to 50 µs with the lock released
   (`storage/expertcache.cpp:2966`). Its entry is `Loading`, the queues are empty
   and `active_jobs` has not been incremented yet, so `wait_for_background_work`
   returns. `IdleMeansNoWorkerPin` holds without coalescing
   (`ExpertCachePredict`) and fails with `Flags = {"Coalescing"}` and the calls
   `Prefetch(k1)` and `Sync`.
4. **A thread that pins more than the cache.** `resolve_predictions` removes a Ready
   prediction that a batch of another session has pinned but not leased; its bytes
   leave `resident_size` and the batch admits one more pair. `PinnedFitsCache`
   holds without concurrent clean-up (`ExpertCacheDemand`) and fails with the
   calls `Prefetch(k1)`, `Wait(<<k1, k2>>)` and `Resolve(0, << >>)` on a cache of
   one pair.
5. **A cache one row short.** A callback that decodes during a verification moves
   the caches under the open transaction; the session stays usable and
   `CachesMatchPosition` fails (`Models = {Mtp}`, `Careless = TRUE`). `emit_token`
   notices a change by `token_count` alone, so a reset followed by a prefill of
   the same length goes unseen as well.
6. **An answer left in the pipe.** An interrupt that arrives when the generation has
   just ended sends a cancel whose answer, `cancel_requested` or the error "no
   generation is active", comes after the terminal event at which the client stops
   reading (`tools/ncnn_moe.py:552-572`). The next call takes it for its own
   answer. `InStep` and `StayInStep` say nothing once the user has interrupted; without its
   `~Interrupted =>` it fails in a run of one call, also when only generations are
   interrupted.

7. **A context that is exceeded.** `generate_speculative` (`engine/session.cpp:655-920`)
   drafts, verifies and commits without looking at `max_context_length`, which
   `prefill_unlocked` and `decode` check (`engine/session.cpp:209`, `:281`): a
   speculative generation may leave the session beyond it, by up to a block. The
   difference `max_context_length - token_count` is then guarded against wrapping, so
   later calls are refused (`ContextRespected`).

## What is not modelled

The components with status `not_modelled` in `PROJECT.json` say why: either they
are next in the plan (residency tokens, task worker, Vulkan caches and transfers,
planner), or they are sequential numeric or parsing code in which a model would
only restate the code (kernels, compiler, adapters, tokenizer, loaders, which are
most of the repository's lines), or the state machine is that of the Vulkan API
and not the runtime's (command recording). What is left out of the components
that are modelled in part is under "Abstractions" or the table of each.
