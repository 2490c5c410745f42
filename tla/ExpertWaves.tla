---------------------------- MODULE ExpertWaves ----------------------------
(***************************************************************************)
(* forward_moe (src/src/engine/expert.cpp): one layer computes its active  *)
(* Experts.  What the devices already hold is submitted at once.  The rest *)
(* is computed in waves, as the host cache delivers weights: one wave is   *)
(* in flight on the devices while the upload of the next one runs, and the *)
(* host leases of a wave go back only when it is finished.  The layer runs *)
(* on the CPU alone ("cpu"), with the devices helping where they happen to *)
(* hold an Expert ("assist"), or on the devices alone ("device", the       *)
(* HybridExperts mode).  Any allocation may throw and any wait for host    *)
(* weights may fail.                                                       *)
(*                                                                         *)
(* The backend is the one over several devices, whose replies always have  *)
(* the right shape: the shape checks that forward_moe repeats for a single *)
(* backend are those of MultiDeviceSubmission.  The host cache is external *)
(* here (module ExpertCache): it has slots for pairs, some of them in use  *)
(* by other sessions or by uploads in the background.                      *)
(***************************************************************************)
EXTENDS MultiDeviceDemand

CONSTANTS
    SupportedSets,      \* which Experts support_vulkan_expert may accept
    HostSlots,          \* pairs the host cache can hold
    MaximumDemandWave   \* maximum_demand_wave, and the size of the prestage

ASSUME WavesAssumption ==
    /\ IsFiniteSet(Expert)
    /\ SupportedSets \subseteq SUBSET Expert
    /\ HostSlots \in Nat /\ MaximumDemandWave \in Nat \ {0}

VARIABLES
    mode,            \* "cpu", "assist" or "device"
    supported,       \* support_vulkan_expert
    host_cached,     \* weights come through model.expert_cache
    elsewhere,       \* host slots in use by other sessions
    admitted,        \* pairs an upload in the background still reads
    pc,              \* what forward_moe does next
    stage,           \* the list that forward_ready works on
    backend_status,
    lease,           \* Experts with active.lease
    prestaged,       \* prestaged_indices
    uncached, pending, demands,
    wave,            \* current_wave_indices
    stalled,         \* stalled_attempts
    computed,        \* how many times the output of an Expert was written
    result

host == <<elsewhere, admitted>>
fixed == <<mode, supported, host_cached>>
lists == <<stage, prestaged, uncached, pending, demands>>
device == <<placement, submission, upload>>
outcome == <<backend_status, computed, result>>
vars == <<fixed, host, device, lists, outcome, pc, lease, wave, stalled>>

GpuPriority == mode = "device"
Reserved == {e \in Expert : backend_status[e] = "Executed"}
Misses == {e \in supported : backend_status[e] = "NotResident"}
FailedWork == {e \in supported : backend_status[e] = "Failed"}
Free(leases, uploads) == HostSlots - elsewhere - Cardinality(leases \cup uploads)

WavesInit ==
    /\ SubmissionInit /\ UploadInit
    /\ mode \in {"cpu", "assist", "device"} /\ supported \in SupportedSets
    /\ host_cached \in BOOLEAN
    /\ elsewhere \in (IF host_cached THEN 0 .. HostSlots ELSE {0}) /\ admitted = {}
    /\ pc = "start" /\ stage = "prestaged"
    /\ backend_status = [e \in Expert |-> "NotResident"]
    /\ lease = {} /\ prestaged = {} /\ uncached = {} /\ pending = {} /\ demands = {}
    /\ wave = {} /\ stalled = 0
    /\ computed = [e \in Expert |-> 0]
    /\ result = "none"

Go(next) == pc' = next
Return(error) == result' = error /\ Go("unwind") /\ UNCHANGED <<backend_status, computed>>
ComputeOn(experts) == [e \in Expert |-> computed[e] + IF e \in experts THEN 1 ELSE 0]

-----------------------------------------------------------------------------
(* The batch of what the devices may already hold.                         *)

(* Weights in memory are admitted to the devices on the way, if the layout *)
(* that the Experts of the layer share allows it (can_admit).              *)
Start ==
    /\ pc = "start"
    /\ IF mode = "cpu" THEN Go("classify") /\ UNCHANGED device
       ELSE /\ Go("submit")
            /\ \E offered \in {{}, IF host_cached THEN {} ELSE supported} :
                   Admit(offered)
            /\ UNCHANGED upload
    /\ UNCHANGED <<fixed, host, lists, outcome, lease, wave, stalled>>

SubmitResident ==
    /\ pc = "submit"
    /\ Submit(supported)
    /\ backend_status' = planned'
    /\ Go(IF ~GpuPriority THEN "classify"
          ELSE IF \E e \in supported : planned'[e] = "Executed" THEN "prestage" ELSE "finalize")
    /\ UNCHANGED <<fixed, host, lists, upload, computed, result, lease, wave, stalled>>

(* While the resident Experts compute, the first misses whose weights are  *)
(* ready without a wait are uploaded.                                      *)
Prestage ==
    /\ pc = "prestage"
    /\ \E ready \in SUBSET First(MaximumDemandWave, Misses) :
          /\ host_cached => Free(ready, admitted) >= 0
          /\ ~host_cached => ready = First(MaximumDemandWave, Misses)
          /\ lease' = IF host_cached THEN ready ELSE {}
          /\ prestaged' = ready
          /\ IF ready = {} THEN UNCHANGED <<placement, upload>> ELSE BeginDemandBatch(ready)
    /\ Go("finalize")
    /\ UNCHANGED <<fixed, host, submission, stage, uncached, pending, demands, outcome, wave,
                   stalled>>

(* Work the CPU has to repeat: without priority for the devices, only what *)
(* was reserved, because the misses are already computed.                  *)
AnyFailure(e) ==   \* mutant
    final[e] = "Failed" \/ (backend_status[e] = "Executed" /\ final[e] # "Executed")
MustRecover(e) ==
    /\ GpuPriority \/ backend_status[e] # "NotResident"
    /\ \/ final[e] = "Failed"
       \/ /\ backend_status[e] = "Executed"
          /\ final[e] # "Executed" \/ (ExecutedIn(batch) # {} /\ ~committed)

(* finalize_backend waits, commits when something was executed, writes the *)
(* failures down and drops the submission.                                 *)
FinalizeWait ==
    /\ pc = "finalize" /\ exists /\ ~waited
    /\ Enter("wait")
    /\ UNCHANGED <<fixed, host, upload, lists, outcome, pc, lease, wave, stalled>>

FinalizeCommit ==
    /\ pc = "finalize" /\ exists /\ call = "none" /\ waited /\ ~committed /\ ~aborted
    /\ IF ExecutedIn(batch) # {} THEN Enter("commit") ELSE Abort
    /\ UNCHANGED <<fixed, host, upload, lists, outcome, pc, lease, wave, stalled>>

FinalizeRecord ==
    /\ pc = "finalize" /\ exists /\ call = "none" /\ waited /\ (committed \/ aborted)
    /\ backend_status' =
          [e \in Expert |->
              IF e \in batch /\ MustRecover(e) THEN "Failed" ELSE backend_status[e]]
    /\ computed' = ComputeOn(outputs)
    /\ Enter("destroy")
    /\ Go("recover")
    /\ UNCHANGED <<fixed, host, upload, lists, result, lease, wave, stalled>>

(* Failed work is an error on the devices alone; else the CPU does it, one *)
(* Expert of the host cache at a time, the others together.                *)
RecoveryFails ==
    /\ pc = "recover" /\ ~exists
    /\ GpuPriority /\ FailedWork # {}
    /\ Return("error")
    /\ UNCHANGED <<fixed, host, device, lists, lease, wave, stalled>>

Recover ==
    /\ pc = "recover" /\ ~exists
    /\ ~GpuPriority
    /\ \E e \in FailedWork :
          /\ computed[e] = 0 /\ \A f \in FailedWork : computed[f] = 0 => e <= f
          /\ host_cached => Free({e}, admitted) >= 0
          /\ computed' = ComputeOn(IF host_cached THEN {e} ELSE FailedWork)
    /\ UNCHANGED <<fixed, host, device, lists, backend_status, result, pc, lease, wave, stalled>>

Finalized ==
    /\ pc = "recover" /\ ~exists
    /\ IF GpuPriority
       THEN /\ FailedWork = {}
            /\ Go(IF uploading THEN "preload" ELSE "classify") /\ UNCHANGED result
       ELSE /\ \A e \in FailedWork : computed[e] > 0
            /\ Go("returned") /\ result' = "ok"
    /\ UNCHANGED <<fixed, host, device, lists, backend_status, computed, lease, wave, stalled>>

WaitPrestaged ==
    /\ pc = "preload"
    /\ WaitDemand
    /\ Go("classify")
    /\ UNCHANGED <<fixed, host, submission, lists, outcome, lease, wave, stalled>>

-----------------------------------------------------------------------------
(* The rest, in waves.                                                     *)

(* admit_vulkan_expert for leased pairs: always with priority for the      *)
(* devices, else for batches of enough rows.  A backend may drop it.  In   *)
(* mode "cpu" it returns at once: then there is no backend, or one row, or *)
(* the option that disables the devices, with which the compiler gives the *)
(* node to the CPU (modelloader.cpp:591, graph.cpp:389).                   *)
AdmitReady(ready) ==
    \E offered \in SUBSET (ready \cap supported) :
    \E background \in SUBSET offered :
       /\ mode = "cpu" => offered = {}
       /\ GpuPriority => offered = ready \cap supported
       /\ admitted' = admitted \cup background
       /\ key_placements' = Placed(offered)

(* Without priority for the devices, the leases of all pending Experts are *)
(* taken now if the cache has every pair ready.                            *)
Classify ==
    /\ pc = "classify"
    /\ LET rest == {e \in Expert : backend_status[e] = "NotResident"} \ prestaged
           waiting == IF host_cached THEN rest ELSE {}
       IN  /\ uncached' = rest \ waiting /\ pending' = waiting
           /\ \/ UNCHANGED <<lease, admitted, key_placements>>
              \/ /\ ~GpuPriority /\ Free(waiting, admitted) >= 0
                 /\ lease' = waiting
                 /\ AdmitReady(waiting)
    /\ demands' = prestaged /\ stage' = "prestaged" /\ prestaged' = {}
    /\ Go("ready")
    /\ UNCHANGED <<fixed, elsewhere, key_sharded, submission, upload, outcome, wave, stalled>>

(* forward_ready takes the next list.                                      *)
NextList ==
    /\ pc = "ready" /\ demands = {}
    /\ \/ /\ stage = "prestaged" /\ stage' = "uncached"
          /\ demands' = uncached /\ uncached' = {}
          /\ UNCHANGED <<pending, pc>>
       \/ /\ stage = "uncached" /\ stage' = "pending"
          /\ IF pending \subseteq lease THEN demands' = pending /\ pending' = {}
                                        ELSE UNCHANGED <<demands, pending>>
          /\ UNCHANGED <<uncached, pc>>
       \/ /\ stage = "pending" /\ Go("acquire")
          /\ UNCHANGED <<stage, uncached, pending, demands>>
    /\ UNCHANGED <<fixed, host, device, prestaged, outcome, lease, wave, stalled>>

ForwardOnCpu ==
    /\ pc = "ready" /\ demands # {} /\ ~GpuPriority
    /\ computed' = ComputeOn(demands)
    /\ lease' = lease \ demands
    /\ demands' = {}
    /\ UNCHANGED <<fixed, host, device, stage, prestaged, uncached, pending, backend_status,
                   result, pc, wave, stalled>>

Unsupported ==
    /\ pc = "ready" /\ GpuPriority /\ ~(demands \subseteq supported)
    /\ Return("error")
    /\ UNCHANGED <<fixed, host, device, lists, lease, wave, stalled>>

(* The upload of the next wave; the pins of the prestaged one are there.   *)
BeginUpload ==
    /\ pc = "ready" /\ GpuPriority /\ demands # {} /\ demands \subseteq supported
    /\ IF pins # {} THEN Go("prepared") /\ UNCHANGED <<placement, upload>>
       ELSE Go("uploading") /\ BeginDemandBatch(First(MaximumDemandWave, demands))
    /\ UNCHANGED <<fixed, host, submission, lists, outcome, lease, wave, stalled>>

EndUpload ==
    /\ pc = "uploading"
    /\ WaitDemand
    /\ Go("prepared")
    /\ UNCHANGED <<fixed, host, submission, lists, outcome, lease, wave, stalled>>

(* A zero prefix with no wave to finish: nothing will make room.           *)
NothingPrepared ==
    /\ pc = "prepared" /\ pins = {} /\ wave = {}
    /\ Return("error")
    /\ UNCHANGED <<fixed, host, device, lists, lease, wave, stalled>>

(* The prepared prefix, by its length, becomes the current wave.           *)
StartWave ==
    /\ pc = "prepared" /\ pins # {} /\ wave = {} /\ ~exists
    /\ LET next == First(Cardinality(pins), demands)
       IN  wave' = next /\ Submit(next) /\ demands' = demands \ next
    /\ pins' = {}
    /\ Go("ready")
    /\ UNCHANGED <<fixed, host, uploading, requested, stage, prestaged, uncached, pending,
                   outcome, lease, stalled>>

(* finish_current_wave: before the next wave starts or an upload is tried  *)
(* again, before a wait for host weights that have no room, and at the end.*)
NotWhenStarved == pc \in {"prepared", "last"} /\ wave # {}   \* mutant
Finishing == pc \in {"prepared", "starved", "last"} /\ wave # {}

FinishWait ==
    /\ Finishing /\ exists /\ ~waited
    /\ Enter("wait")
    /\ UNCHANGED <<fixed, host, upload, lists, outcome, pc, lease, wave, stalled>>

FinishCommit ==
    /\ Finishing /\ exists /\ waited /\ ~committed /\ ~aborted
    /\ Enter("commit")
    /\ UNCHANGED <<fixed, host, upload, lists, outcome, pc, lease, wave, stalled>>

FinishRecord ==
    /\ Finishing /\ exists /\ waited /\ (committed \/ aborted)
    /\ backend_status' = [e \in Expert |->
                             IF e \in wave /\ committed /\ final[e] = "Executed"
                             THEN "Executed" ELSE backend_status[e]]
    /\ computed' = ComputeOn(outputs)
    /\ Enter("destroy")
    /\ UNCHANGED <<fixed, host, upload, lists, result, pc, lease, wave, stalled>>

KeepLeases == lease   \* mutant
LeasesLeft == lease \ wave
ReleaseWave ==
    /\ Finishing /\ ~exists
    /\ lease' = LeasesLeft /\ wave' = {}
    /\ IF wave \subseteq Reserved
       THEN /\ Go(IF pc = "prepared" /\ pins = {} THEN "ready" ELSE pc)
            /\ UNCHANGED outcome
       ELSE Return("error")
    /\ UNCHANGED <<fixed, host, device, lists, stalled>>

(* The wait for host weights takes every pair that is ready, at least one. *)
Acquire ==
    /\ pc = "acquire" /\ pending # {}
    /\ \E ready \in SUBSET pending :
          /\ ready # {} /\ Free(lease \cup ready, admitted) >= 0
          /\ lease' = lease \cup ready
          /\ pending' = pending \ ready /\ demands' = ready
          /\ AdmitReady(ready)
    /\ stalled' = 0
    /\ Go("ready")
    /\ UNCHANGED <<fixed, elsewhere, key_sharded, submission, upload, stage, prestaged, uncached,
                   outcome, wave>>

(* No pending pair has room.  The current wave is finished, then uploads   *)
(* in the background are waited for; the devices alone give up after that  *)
(* has failed twice.                                                       *)
NoRoom(e) == Free(lease \cup {e}, admitted) < 0

Starve ==
    /\ pc = "acquire" /\ pending # {} /\ \A e \in pending : NoRoom(e)
    /\ Go("starved")
    /\ UNCHANGED <<fixed, host, device, lists, outcome, lease, wave, stalled>>

WaitForBackgroundWork ==
    /\ pc = "starved" /\ wave = {}
    /\ GpuPriority => stalled < 2
    /\ IF mode = "cpu" THEN \E e \in pending : ~NoRoom(e) ELSE admitted = {}
    /\ stalled' = IF GpuPriority THEN stalled + 1 ELSE 0
    /\ Go("acquire")
    /\ UNCHANGED <<fixed, host, device, lists, outcome, lease, wave>>

Stalled ==
    /\ pc = "starved" /\ wave = {} /\ GpuPriority /\ stalled = 2
    /\ Return("stalled")
    /\ UNCHANGED <<fixed, host, device, lists, lease, wave, stalled>>

AllAcquired ==
    /\ pc = "acquire" /\ pending = {}
    /\ Go("last")
    /\ UNCHANGED <<fixed, host, device, lists, outcome, lease, wave, stalled>>

(* After the last wave the devices alone must have executed everything;    *)
(* the devices that helped are finalized.                                  *)
Last ==
    /\ pc = "last" /\ wave = {}
    /\ \/ /\ GpuPriority /\ Reserved # Expert
          /\ Return("error")
       \/ /\ mode = "cpu" \/ (GpuPriority /\ Reserved = Expert)
          /\ Go("returned") /\ result' = "ok" /\ UNCHANGED <<backend_status, computed>>
       \/ /\ mode = "assist"
          /\ Go("finalize") /\ UNCHANGED outcome
    /\ UNCHANGED <<fixed, host, device, lists, lease, wave, stalled>>

-----------------------------------------------------------------------------
(* Exceptions and errors.                                                  *)

(* Between the calls into the submission, or out of one of them.           *)
Throw ==
    /\ pc \notin {"unwind", "returned"}
    /\ \/ call = "none" /\ UNCHANGED device
       \/ ChildThrows /\ UNCHANGED upload
    /\ Return("error")
    /\ UNCHANGED <<fixed, host, lists, lease, wave, stalled>>

(* The destructors: the upload, the submission, and at last WaveCleanup.   *)
UnwindUpload ==
    /\ pc = "unwind"
    /\ AbortDemand
    /\ UNCHANGED <<fixed, host, submission, lists, outcome, pc, lease, wave, stalled>>

UnwindSubmission ==
    /\ pc = "unwind" /\ ~uploading
    /\ Enter("destroy")
    /\ UNCHANGED <<fixed, host, upload, lists, outcome, pc, lease, wave, stalled>>

NoUpload == ~uploading   \* mutant: the leases are returned first
Drained == ~uploading /\ ~exists
WaveCleanup ==
    /\ pc = "unwind" /\ Drained
    /\ lease' = {} /\ pins' = {}
    /\ Go("returned")
    /\ UNCHANGED <<fixed, host, placement, submission, uploading, requested, lists, outcome,
                   wave, stalled>>

-----------------------------------------------------------------------------
InSubmission ==
    /\ SubmissionStep
    /\ UNCHANGED <<fixed, host, upload, lists, outcome, pc, lease, wave, stalled>>

(* The rest of the process: uploads end, other sessions take free slots    *)
(* and give them back.  Weights in memory take none, and nobody asks then  *)
(* how many are free.                                                      *)
BackgroundEnds ==
    /\ \E e \in admitted : admitted' = admitted \ {e}
    /\ UNCHANGED <<fixed, elsewhere, device, lists, outcome, pc, lease, wave, stalled>>

OthersRelease ==
    /\ elsewhere > 0 /\ elsewhere' = elsewhere - 1
    /\ UNCHANGED <<fixed, admitted, device, lists, outcome, pc, lease, wave, stalled>>

OthersTake ==
    /\ host_cached /\ Free(lease, admitted) > 0 /\ elsewhere' = elsewhere + 1
    /\ UNCHANGED <<fixed, admitted, device, lists, outcome, pc, lease, wave, stalled>>

Forward ==
    \/ Start \/ SubmitResident \/ Prestage
    \/ FinalizeWait \/ FinalizeCommit \/ FinalizeRecord
    \/ RecoveryFails \/ Recover \/ Finalized \/ WaitPrestaged
    \/ Classify \/ NextList \/ ForwardOnCpu \/ Unsupported
    \/ BeginUpload \/ EndUpload \/ NothingPrepared \/ StartWave
    \/ FinishWait \/ FinishCommit \/ FinishRecord \/ ReleaseWave
    \/ Acquire \/ Starve \/ WaitForBackgroundWork \/ Stalled \/ AllAcquired \/ Last
    \/ UnwindUpload \/ UnwindSubmission \/ WaveCleanup
    \/ InSubmission

WavesNext == Forward \/ Throw \/ BackgroundEnds \/ OthersRelease \/ OthersTake

WavesSpec ==
    /\ WavesInit /\ [][WavesNext]_vars
    /\ WF_vars(Forward) /\ WF_vars(BackgroundEnds) /\ WF_vars(OthersRelease)

-----------------------------------------------------------------------------
(* No output is written twice, by two waves or by a device and the CPU,    *)
(* and a layer that succeeds has written each of its outputs.              *)
ComputedOnce ==
    \A e \in Expert : computed[e] <= 1 /\ (result = "ok" => computed[e] = 1)

(* Weights outlive the work that reads them: what a wave in flight         *)
(* computes with and what an upload reads keeps its host lease, also while *)
(* an exception unwinds.                                                   *)
LeasesOutliveWork ==
    host_cached =>
        /\ exists /\ wave # {} => batch \subseteq lease
        /\ uploading => requested \subseteq lease

(* A wait for room in the host cache never waits for this very call: it    *)
(* holds at most the leases of the wave in flight, the call finishes that  *)
(* wave before it gives up, and nothing is held after the return.          *)
WaitsHoldOnlyTheWave ==
    /\ pc \in {"acquire", "starved"} => lease \subseteq wave
    /\ pc = "unwind" /\ result = "stalled" => lease = {}
    /\ pc = "returned" => lease = {} /\ ~exists /\ ~uploading

(* A wave is made of pinned Experts, each submitted to the device whose    *)
(* pin was taken, however short or broken the replies of the backends are. *)
WavesArePinned ==
    [][pc = "prepared" /\ exists' /\ ~exists =>
          /\ batch' \subseteq pins
          /\ \A e \in batch' : home'[e] = DemandDevice(e)]_vars

(* forward_moe returns, in every mode and whatever fails, unless other     *)
(* sessions take the host cache away from it for ever.                     *)
Returns == <>[][~OthersTake]_vars => <>(pc = "returned")
=============================================================================
