------------------------- MODULE ExpertWavesProofs -------------------------
(***************************************************************************)
(* What one layer of ExpertWaves promises for any number of Experts and    *)
(* devices, any cache size and any size of the demand waves: outputs are   *)
(* written once, weights outlive the work that reads them, a wait for room *)
(* holds nothing but the wave in flight, and a wave is made of pinned      *)
(* Experts.  The invariant says, for every point that forward_moe can be   *)
(* at, which Experts are computed, which are listed to be, which lists,    *)
(* wave and upload they are in, and who holds their leases.                *)
(***************************************************************************)
EXTENDS ExpertWaves, MultiDeviceSubmissionProofs, FiniteSetTheorems

(* Where the lists are worked on, and who was left to them.                *)
Waving == pc \in {"ready", "uploading", "prepared", "acquire", "starved", "last"}
Rest == {e \in Expert : backend_status[e] = "NotResident"}

(* Listed to be computed later.                                            *)
Waits == uncached \cup pending \cup demands

(* A list from its beginning.                                              *)
Prefix(p, s) == p \subseteq s /\ \A e \in p, f \in s : f < e => f \in p

WavesTypeOK ==
    /\ mode \in {"cpu", "assist", "device"} /\ supported \subseteq Expert
    /\ host_cached \in BOOLEAN
    /\ pc \in {"start", "submit", "prestage", "finalize", "recover", "preload", "classify", "ready",
               "uploading", "prepared", "acquire", "starved", "last", "unwind", "returned"}
    /\ stage \in {"prestaged", "uncached", "pending"}
    /\ backend_status \in [Expert -> Status]
    /\ lease \subseteq Expert /\ prestaged \subseteq Expert /\ uncached \subseteq Expert
    /\ pending \subseteq Expert /\ demands \subseteq Expert /\ wave \subseteq Expert
    /\ computed \in [Expert -> Nat]
    /\ result \in {"none", "ok", "error", "stalled"}
    /\ UploadTypeOK

(* Which of the three modes gets where, and with which submission.         *)
ModesOK ==
    /\ mode = "cpu" => ~exists /\ pc \notin {"submit", "finalize", "recover"}
    /\ ~GpuPriority =>
         /\ wave = {} /\ prestaged = {} /\ ~uploading /\ pins = {}
         /\ pc \notin {"prestage", "preload", "uploading", "prepared"}
    /\ pc \in {"start", "submit", "preload", "returned"} => ~exists
    /\ pc = "classify" /\ GpuPriority => ~exists
    /\ Waving /\ GpuPriority /\ exists => wave # {} /\ batch = wave
    /\ pc \in {"start", "submit", "prestage", "classify"} => wave = {}
    /\ GpuPriority /\ pc \in {"finalize", "recover", "preload"} => wave = {}
    /\ pc \in {"acquire", "starved", "last"} => stage = "pending" /\ demands = {}
    /\ pc = "last" => pending = {}
    /\ Waving /\ stage # "prestaged" => uncached = {}
    /\ Waving /\ ~host_cached => pending = {}
    /\ pc \notin {"unwind", "returned"} => result = "none"
    /\ pc = "unwind" => result # "ok"
    /\ pc = "returned" => ~uploading

(* The first submission asks for what is supported, and the layer goes by  *)
(* what was reserved.                                                      *)
FirstBatch ==
    exists /\ (pc \in {"prestage", "finalize"} \/ (mode = "assist" /\ (pc = "classify" \/ Waving)))
        => batch = supported /\ planned = backend_status

(* Whose output was written how often.                                     *)
Counted(experts) == computed = [e \in Expert |-> IF e \in experts THEN 1 ELSE 0]
Recovered(done) ==
    /\ Counted(Rest \cup Reserved \cup done)
    /\ ~host_cached => done \in {{}, FailedWork}

WorkOK ==
    /\ pc \in {"start", "submit"} => Rest = Expert
    /\ pc \in {"start", "submit", "prestage"} => Counted({}) /\ prestaged = {}
    /\ pc \in {"start", "submit", "prestage", "classify"} => Waits = {} /\ stage = "prestaged"
    /\ GpuPriority /\ pc \in {"finalize", "recover", "preload"} => Waits = {} /\ stage = "prestaged"
    /\ ~(GpuPriority /\ Waving) /\ pc \notin {"unwind", "returned"} => Expert \ Rest \subseteq supported
    /\ mode = "cpu" => Rest = Expert
    /\ GpuPriority =>
         /\ pc = "finalize" => Counted({})
         /\ pc \in {"recover", "preload", "classify"} \/ Waving => Counted(Reserved)
         /\ pc \in {"finalize", "recover", "preload", "classify"} =>
              prestaged \subseteq supported \ Reserved
         /\ pc \in {"preload", "classify"} => FailedWork = {}
    /\ ~GpuPriority =>
         /\ pc = "classify" => Counted({})
         /\ Waving => Counted(Rest \ Waits)
         /\ pc = "finalize" => Counted(Rest)
         /\ pc = "recover" => \E done \in SUBSET FailedWork : Recovered(done)
    /\ Waving =>
         /\ Waits \subseteq Rest /\ prestaged = {}
         /\ uncached \cap pending = {} /\ uncached \cap demands = {} /\ pending \cap demands = {}
         /\ Waits \cap wave = {}
         /\ exists /\ call # "destroy" => wave \subseteq Rest
    /\ \E experts \in SUBSET Expert : Counted(experts)
    /\ result = "ok" => Counted(Expert)

(* Who holds which leases.                                                 *)
LeasesOK ==
    /\ ~host_cached => lease = {}
    /\ pc \in {"start", "submit", "prestage", "returned"} => lease = {}
    /\ ~GpuPriority /\ pc \in {"classify", "finalize", "recover"} => lease = {}
    /\ GpuPriority /\ pc \in {"finalize", "recover", "preload", "classify"} =>
         lease = IF host_cached THEN prestaged ELSE {}
    /\ Waving =>
         /\ \/ lease \subseteq demands \cup wave
            \/ stage # "pending" /\ ~GpuPriority /\ pending \subseteq lease
               /\ lease \subseteq demands \cup pending
         /\ host_cached => uncached = {} /\ demands \cup wave \subseteq lease
    /\ pc = "unwind" /\ result = "stalled" => lease = {}

(* What an upload reads, and the pins it leaves.                           *)
UploadsOK ==
    /\ uploading => pc \in {"finalize", "recover", "preload", "uploading", "unwind"}
    /\ uploading /\ pc \in {"finalize", "recover", "preload"} => requested = prestaged
    /\ pc = "uploading" => requested = First(MaximumDemandWave, demands)
    /\ pc \in {"start", "submit", "prestage", "finalize", "recover", "preload", "uploading"} =>
         pins = {}
    /\ pc = "classify" => Prefix(pins, prestaged)
    /\ Waving => Prefix(pins, demands)

(* A demanded Expert goes to the device that its pin was taken on.         *)
PlacementsOK ==
    /\ \A e \in Expert : key_sharded => key_placements[e] = Unplaced
    /\ \A e \in Expert : key_placements[e] \in {Unplaced, DemandDevice(e)}
    /\ ~key_sharded => \A e \in pins \cup Accepted(requested) : key_placements[e] = DemandDevice(e)

(* What a commit leaves in the caller's buffers.                           *)
PublishedAll == exists /\ committed => outputs = ExecutedIn(batch)

(* The inductive invariant: the layer's, over that of its submission.      *)
LayerInv ==
    /\ WavesTypeOK /\ ModesOK /\ FirstBatch /\ WorkOK /\ LeasesOK /\ UploadsOK /\ PlacementsOK
    /\ LeasesOutliveWork

WavesInv == SubmissionInv /\ PublishedAll /\ LayerInv

-----------------------------------------------------------------------------
(* What a step of the submission leaves alone.                             *)
LEMMA SubmissionSteps ==
    ASSUME SubmissionInv, SubmissionStep
    PROVE  /\ exists /\ call # "none" /\ UNCHANGED placement
           /\ exists' => UNCHANGED <<batch, planned>>
           /\ exists' /\ call = "destroy" => call' = "destroy"
           /\ exists' /\ committed => UNCHANGED <<committed, outputs, final>>
           /\ exists' /\ committed' => committed \/ outputs' = ExecutedIn(batch)'
           /\ ~exists' => UNCHANGED outputs
<1> DEFINE Kept == /\ exists /\ call # "none" /\ UNCHANGED placement
                   /\ exists' => UNCHANGED <<batch, planned>>
                   /\ exists' /\ call = "destroy" => call' = "destroy"
                   /\ exists' /\ committed => UNCHANGED <<committed, outputs, final>>
                   /\ exists' /\ committed' => committed \/ outputs' = ExecutedIn(batch)'
                   /\ ~exists' => UNCHANGED outputs
<1>1. (call # "none" => exists) /\ (committed => waited)
  BY DEF SubmissionInv, Gone, Settled
<1>2. ASSUME NEW d \in Device, WaitChild(d) PROVE Kept
  BY <1>1, <1>2 DEF WaitChild
<1>3. ASSUME NEW d \in Device, CommitChild(d) PROVE Kept
  <2>1. /\ call = "commit" /\ ~committed /\ ~committed'
        /\ UNCHANGED <<placement, exists, batch, planned, final, outputs>>
    <3>1. Committing
      BY <1>3 DEF CommitChild
    <3>2. CASE AbortCommit
      BY <3>1, <3>2 DEF Committing, AbortCommit
    <3>3. CASE UNCHANGED <<placement, exists, batch, home, drained, well_shaped, planned, final,
                           waited, committed, aborted, outputs, call>>
      BY <3>1, <3>3 DEF Committing
    <3> QED
      BY <1>3, <3>2, <3>3, Zenon DEF CommitChild
  <2> QED
    BY <1>1, <2>1
<1>4. ASSUME EndWait PROVE Kept
  BY <1>1, <1>4 DEF EndWait
<1>5. ASSUME Publish PROVE Kept
  BY <1>1, <1>5 DEF Publish, Committing, ExecutedIn
<1>6. ASSUME call = "destroy" /\ Abort PROVE Kept
  BY <1>1, <1>6 DEF Abort
<1>7. ASSUME Destroy PROVE Kept
  BY <1>1, <1>7 DEF Destroy
<1>8. Kept
  <2> HIDE DEF Kept
  <2> QED
    BY <1>2, <1>3, <1>4, <1>5, <1>6, <1>7, Zenon DEF SubmissionStep
<1> QED
  BY <1>8

(* The reservations of a new submission answer its requests.               *)
LEMMA SubmitAsks ==
    ASSUME SubmissionInv, NEW requests \in SUBSET Expert, Submit(requests)
    PROVE  /\ ~exists /\ exists' /\ batch' = requests /\ outputs' = {}
           /\ ~waited' /\ ~committed' /\ ~aborted' /\ call' = "none"
           /\ UNCHANGED placement
           /\ planned' \in [Expert -> Status]
           /\ \A e \in Expert \ requests : planned'[e] = "NotResident"
           /\ home' = [e \in Expert |-> IF e \in requests THEN Placement(e) ELSE NoDevice]
<1>1. SubmissionInv'
  BY SubmitInv
<1>2. \A e \in Expert \ requests : planned'[e] = "NotResident"
  BY DEF Submit
<1>3. planned' \in [Expert -> Status]
  BY <1>1 DEF SubmissionInv, SubmissionTypeOK
<1> QED
  BY <1>2, <1>3 DEF Submit, SubmissionInv, Gone

LEMMA PublishedStays ==
    ASSUME SubmissionInv, PublishedAll, [SubmissionNext]_svars
    PROVE  PublishedAll'
<1>1. ASSUME NEW keys \in SUBSET Expert, Admit(keys) PROVE PublishedAll'
  BY <1>1 DEF Admit, submission, PublishedAll, ExecutedIn
<1>2. ASSUME NEW requests \in SUBSET Expert, Submit(requests) PROVE PublishedAll'
  BY <1>2, SubmitAsks DEF PublishedAll
<1>3. ASSUME NEW operation \in {"wait", "commit", "destroy"}, Enter(operation)
      PROVE  PublishedAll'
  BY <1>3 DEF Enter, PublishedAll, ExecutedIn
<1>4. CASE Abort
  BY <1>4 DEF Abort, PublishedAll, ExecutedIn
<1>5. CASE CommitRefused
  BY <1>5 DEF CommitRefused, PublishedAll, ExecutedIn
<1>6. CASE SubmissionStep
  BY <1>6, SubmissionSteps DEF PublishedAll, ExecutedIn
<1>7. CASE ChildThrows
  BY <1>7 DEF ChildThrows, PublishedAll, ExecutedIn
<1>8. CASE UNCHANGED svars
  BY <1>8 DEF svars, submission, PublishedAll, ExecutedIn
<1> QED
  BY <1>1, <1>2, <1>3, <1>4, <1>5, <1>6, <1>7, <1>8 DEF SubmissionNext

(* Whatever the layer does is to the submission one of its own steps: it   *)
(* is asked to admit, to submit, entered or aborted, or left alone.        *)
LEMMA AdmitsAre ==
    ASSUME NEW keys \in SUBSET Expert, key_placements' = Placed(keys),
           UNCHANGED <<key_sharded, submission>>
    PROVE  SubmissionNext
BY DEF SubmissionNext, Admit

LEMMA StepsOfSubmission ==
    ASSUME WavesTypeOK, WavesNext
    PROVE  [SubmissionNext]_svars
<1> USE DEF svars
<1>1. CASE Start
  BY <1>1 DEF Start, Admit, WavesTypeOK, device, placement, SubmissionNext
<1>2. CASE SubmitResident
  BY <1>2 DEF SubmitResident, WavesTypeOK, SubmissionNext
<1>3. CASE Prestage \/ BeginUpload
  <2>1. ASSUME NEW ready \in SUBSET Expert, BeginDemandBatch(ready), UNCHANGED submission
        PROVE  SubmissionNext
    <3>1. Accepted(ready) \in SUBSET Expert
      BY DEF Accepted
    <3> QED
      BY <2>1, <3>1, AdmitsAre DEF BeginDemandBatch
  <2>2. First(MaximumDemandWave, Misses) \subseteq Expert
        /\ First(MaximumDemandWave, demands) \subseteq Expert
    BY DEF First, Misses, WavesTypeOK
  <2> QED
    BY <1>3, <2>1, <2>2 DEF Prestage, BeginUpload
<1>4. CASE Classify \/ Acquire
  <2>1. ASSUME NEW ready, AdmitReady(ready), UNCHANGED <<key_sharded, submission>>
        PROVE  SubmissionNext
    BY <2>1, AdmitsAre DEF AdmitReady, WavesTypeOK
  <2> QED
    BY <1>4, <2>1 DEF Classify, Acquire, placement
<1>5. CASE StartWave
  <2>1. First(Cardinality(pins), demands) \in SUBSET Expert
    BY DEF First, WavesTypeOK
  <2> QED
    BY <1>5, <2>1 DEF StartWave, SubmissionNext
<1>6. CASE FinalizeWait \/ FinalizeRecord \/ FinishWait \/ FinishCommit \/ FinishRecord
           \/ UnwindSubmission
  BY <1>6 DEF FinalizeWait, FinalizeRecord, FinishWait, FinishCommit, FinishRecord,
     UnwindSubmission, SubmissionNext
<1>7. CASE FinalizeCommit
  BY <1>7 DEF FinalizeCommit, SubmissionNext
<1>8. CASE InSubmission
  BY <1>8 DEF InSubmission, SubmissionNext
<1>9. CASE \/ WaitPrestaged \/ EndUpload \/ UnwindUpload \/ WaveCleanup
  BY <1>9 DEF WaitPrestaged, EndUpload, UnwindUpload, WaveCleanup, WaitDemand, AbortDemand
<1>10. CASE \/ RecoveryFails \/ Recover \/ Finalized \/ NextList \/ ForwardOnCpu \/ Unsupported
            \/ NothingPrepared \/ ReleaseWave \/ Starve \/ WaitForBackgroundWork \/ Stalled
            \/ AllAcquired \/ Last \/ BackgroundEnds \/ OthersRelease \/ OthersTake
  <2>1. UNCHANGED device
    BY <1>10, Zenon DEF RecoveryFails, Recover, Finalized, NextList, ForwardOnCpu, Unsupported,
       NothingPrepared, ReleaseWave, Starve, WaitForBackgroundWork, Stalled, AllAcquired,
       Last, BackgroundEnds, OthersRelease, OthersTake
  <2> QED
    BY <2>1 DEF device
<1>11. CASE Throw
  BY <1>11 DEF Throw, ChildThrows, device, SubmissionNext
<1> QED
  BY <1>1, <1>2, <1>3, <1>4, <1>5, <1>6, <1>7, <1>8, <1>9, <1>10, <1>11, Zenon DEF WavesNext, Forward

-----------------------------------------------------------------------------
(* Lists of Experts: the first of them, and beginnings of a list.          *)
LEMMA FirstIsPrefix ==
    ASSUME NEW s, s \subseteq Nat, IsFiniteSet(s), NEW n \in Nat
    PROVE  Prefix(First(n, s), s)
<1> DEFINE below(e) == {f \in s : f < e}
<1>1. SUFFICES ASSUME NEW e \in First(n, s), NEW f \in s, f < e PROVE f \in First(n, s)
  BY DEF First, Prefix
<1>2. below(f) \subseteq below(e)
  <2>1. e \in Nat /\ f \in Nat /\ \A g \in s : g \in Nat
    BY DEF First
  <2>2. \A g \in s : g < f => g < e
    BY <1>1, <2>1
  <2> QED
    BY <2>2
<1>3. IsFiniteSet(below(e))
  BY FS_Subset
<1>4. Cardinality(below(f)) <= Cardinality(below(e)) /\ Cardinality(below(f)) \in Nat
      /\ Cardinality(below(e)) \in Nat
  BY <1>2, <1>3, FS_Subset, FS_CardinalityType
<1>5. Cardinality(below(e)) < n
  BY DEF First
<1>6. Cardinality(below(f)) < n
  BY <1>4, <1>5
<1> QED
  BY <1>6 DEF First

LEMMA FirstOfPrefix ==
    ASSUME NEW s, s \subseteq Nat, IsFiniteSet(s), NEW p, Prefix(p, s)
    PROVE  First(Cardinality(p), s) = p
<1> DEFINE below(e) == {f \in s : f < e}
<1>1. p \subseteq s /\ IsFiniteSet(p) /\ Cardinality(p) \in Nat
  BY FS_Subset, FS_CardinalityType DEF Prefix
<1>2. \A e \in s : IsFiniteSet(below(e)) /\ Cardinality(below(e)) \in Nat
  BY FS_Subset, FS_CardinalityType
<1>3. ASSUME NEW e \in p PROVE Cardinality(below(e)) < Cardinality(p)
  <2>1. below(e) \subseteq p \ {e}
    <3>1. e \in Nat
      BY <1>1
    <3>2. \A f \in s : f < e => f \in p /\ f # e
      BY <3>1 DEF Prefix
    <3> QED
      BY <3>2
  <2>2. IsFiniteSet(p \ {e}) /\ Cardinality(p \ {e}) = Cardinality(p) - 1
    BY <1>1, FS_RemoveElement
  <2>3. Cardinality(below(e)) <= Cardinality(p \ {e})
    BY <2>1, <2>2, FS_Subset
  <2> QED
    BY <1>1, <1>2, <2>2, <2>3
<1>4. ASSUME NEW e \in s \ p PROVE ~(Cardinality(below(e)) < Cardinality(p))
  <2>1. p \subseteq below(e)
    BY <1>1 DEF Prefix
  <2>2. Cardinality(p) <= Cardinality(below(e))
    BY <1>2, <2>1, FS_Subset
  <2> QED
    BY <1>1, <1>2, <2>2
<1> QED
  BY <1>1, <1>3, <1>4 DEF First

(* The segments of an upload: neighbours on one device, so that of two     *)
(* segments one lies before the other.                                     *)
LEMMA SegmentOf ==
    ASSUME NEW s, s \subseteq Nat, NEW e \in s, NEW f \in Segment(s, e)
    PROVE  Segment(s, f) = Segment(s, e) /\ e \in Segment(s, e)
<1>1. f \in s /\ DemandDevice(f) = DemandDevice(e)
      /\ \A h \in s : Between(e, f, h) => DemandDevice(h) = DemandDevice(e)
  BY DEF Segment, Between
<1>2. ASSUME NEW g \in Segment(s, e) PROVE g \in Segment(s, f)
  <2>1. \A h \in s : Between(f, g, h) => Between(e, f, h) \/ Between(e, g, h)
    BY <1>1, <1>2 DEF Between, Segment
  <2> QED
    BY <1>1, <1>2, <2>1 DEF Segment
<1>3. ASSUME NEW g \in Segment(s, f) PROVE g \in Segment(s, e)
  <2>1. \A h \in s : Between(e, g, h) => Between(e, f, h) \/ Between(f, g, h)
    BY <1>1, <1>3 DEF Between, Segment
  <2> QED
    BY <1>1, <1>3, <2>1 DEF Segment
<1>4. e \in Segment(s, e)
  BY DEF Segment, Between
<1> QED
  BY <1>2, <1>3, <1>4

LEMMA SegmentsInOrder ==
    ASSUME NEW s, s \subseteq Nat, NEW e \in s, NEW f \in s, e < f,
           Segment(s, e) # Segment(s, f),
           NEW a \in Segment(s, e), NEW b \in Segment(s, f)
    PROVE  a < b
<1> SUFFICES ASSUME b <= a PROVE FALSE
  BY DEF Segment
<1>1. /\ \A h \in s : Between(e, a, h) => DemandDevice(h) = DemandDevice(e)
      /\ \A h \in s : Between(f, b, h) => DemandDevice(h) = DemandDevice(f)
      /\ a \in s /\ b \in s
  BY DEF Segment
<1>2. DemandDevice(f) = DemandDevice(e)
  <2>1. CASE f <= a
    BY <1>1, <2>1 DEF Between
  <2>2. CASE a < f
    BY <1>1, <2>2 DEF Between
  <2> QED
    BY <1>1, <2>1, <2>2
<1>3. ASSUME NEW h \in s, Between(e, f, h) PROVE DemandDevice(h) = DemandDevice(e)
  <2>1. Between(e, a, h) \/ Between(f, b, h)
    BY <1>1, <1>3 DEF Between
  <2> QED
    BY <1>1, <1>2, <2>1
<1>4. f \in Segment(s, e)
  BY <1>3 DEF Segment
<1> QED
  BY <1>4, SegmentOf

(* However short the replies, the pins are those of a beginning of the     *)
(* requests that went to a device.                                         *)
LEMMA PinsArePrefix ==
    ASSUME IsFiniteSet(Expert), requested \subseteq Expert, WaitDemand
    PROVE  pins' \subseteq Accepted(requested) /\ Prefix(pins', requested)
<1> DEFINE all == Accepted(requested)
<1>1. all \subseteq requested /\ all \subseteq Nat /\ IsFiniteSet(all) /\ Expert \subseteq Nat
  BY OrderAssumption, FS_Subset DEF Accepted
<1>2. \A e \in all, f \in requested : f < e => f \in all
  BY OrderAssumption DEF Accepted
<1>3. PICK prepared \in [Segments(requested) -> 0 .. Cardinality(Expert) + 1] :
      \E invalid \in SUBSET Segments(requested) :
          LET valid == {s \in Segments(requested) \ invalid : prepared[s] <= Cardinality(s)}
              full == {s \in valid : prepared[s] = Cardinality(s)}
          IN  pins' = UNION {First(prepared[s], s) : s \in {t \in valid : PrefixOpen(full, t)}}
  BY DEF WaitDemand
<1>4. PICK invalid \in SUBSET Segments(requested) :
          LET valid == {s \in Segments(requested) \ invalid : prepared[s] <= Cardinality(s)}
              full == {s \in valid : prepared[s] = Cardinality(s)}
          IN  pins' = UNION {First(prepared[s], s) : s \in {t \in valid : PrefixOpen(full, t)}}
  BY <1>3
<1> DEFINE valid == {s \in Segments(requested) \ invalid : prepared[s] <= Cardinality(s)}
           full == {s \in valid : prepared[s] = Cardinality(s)}
<1>5. pins' = UNION {First(prepared[s], s) : s \in {t \in valid : PrefixOpen(full, t)}}
  BY <1>4
<1>6. ASSUME NEW s \in Segments(requested)
      PROVE  s \subseteq all /\ s \subseteq Nat /\ IsFiniteSet(s) /\ prepared[s] \in Nat
             /\ Prefix(First(prepared[s], s), s)
  <2>1. s \subseteq all /\ prepared[s] \in Nat
    BY DEF Segments, Segment
  <2>2. IsFiniteSet(s) /\ s \subseteq Nat
    BY <1>1, <2>1, FS_Subset
  <2> QED
    BY <2>1, <2>2, FirstIsPrefix
<1> HIDE DEF valid, full
<1>7. ASSUME NEW p \in pins', NEW f \in requested, f < p
      PROVE  f \in pins'
  <2>1. PICK s \in valid : PrefixOpen(full, s) /\ p \in First(prepared[s], s)
    BY <1>5
  <2>2. s \in Segments(requested)
    BY DEF valid
  <2>3. p \in s /\ p \in all /\ f \in all
    BY <1>2, <1>6, <1>7, <2>1, <2>2 DEF First
  <2>4. Segment(all, p) = s
    <3>1. PICK e \in all : s = Segment(all, e)
      BY <2>2 DEF Segments
    <3> QED
      BY <1>1, <2>3, <3>1, SegmentOf
  <2>5. CASE f \in s
    BY <1>5, <1>6, <1>7, <2>1, <2>2, <2>5 DEF Prefix
  <2>6. CASE f \notin s
    <3> DEFINE t == Segment(all, f)
    <3>1. t \in Segments(requested) /\ f \in t /\ t # s
      <4>1. t \in Segments(requested)
        BY <2>3 DEF Segments
      <4>2. f \in t
        BY <1>1, <2>3 DEF Segment, Between
      <4> QED
        BY <2>6, <4>1, <4>2
    <3>2. \A a \in t, b \in s : a < b
      BY <1>1, <1>7, <2>3, <2>4, <3>1, SegmentsInOrder
    <3> HIDE DEF t
    <3>3. t \in full
      BY <2>1, <3>1, <3>2 DEF PrefixOpen
    <3>4. PrefixOpen(full, t)
      <4>1. SUFFICES ASSUME NEW u \in Segments(requested), \A a \in u, b \in t : a < b
                     PROVE  u \in full
        BY DEF PrefixOpen
      <4>2. \A a \in u, b \in s : a < b
        BY <1>1, <1>6, <2>2, <3>1, <3>2, <4>1
      <4> QED
        BY <2>1, <4>2 DEF PrefixOpen
    <3>5. t \in valid /\ prepared[t] = Cardinality(t)
      BY <3>3 DEF full
    <3>6. First(prepared[t], t) = t
      BY <1>6, <3>1, <3>5, FirstOfPrefix DEF Prefix
    <3> QED
      BY <1>5, <3>1, <3>4, <3>5, <3>6
  <2> QED
    BY <2>5, <2>6
<1>8. pins' \subseteq all
  BY <1>5, <1>6 DEF First, valid
<1> QED
  BY <1>1, <1>7, <1>8 DEF Prefix

-----------------------------------------------------------------------------
LEMMA SameStatus ==
    ASSUME UNCHANGED <<backend_status, supported>>
    PROVE  Rest' = Rest /\ Reserved' = Reserved /\ Misses' = Misses /\ FailedWork' = FailedWork
BY DEF Rest, Reserved, Misses, FailedWork

(* Whoever is admitted or demanded is recorded on its device.              *)
LEMMA PlacementsKept ==
    ASSUME PlacementsOK, SubmissionTypeOK, NEW keys, key_sharded' = key_sharded,
           key_placements' = Placed(keys),
           pins' \cup Accepted(requested') \subseteq pins \cup Accepted(requested) \cup keys,
           pins' \cup Accepted(requested') \subseteq Expert
    PROVE  PlacementsOK'
<1>1. \A e \in Expert : DemandDevice(e)' = DemandDevice(e)
  BY DEF DemandDevice
<1>2. Accepted(requested)' = Accepted(requested')
  BY DEF Accepted, DemandDevice
<1>3. \A e \in Expert : key_placements'[e] = IF e \in keys /\ ~key_sharded THEN DemandDevice(e)
                                             ELSE key_placements[e]
  BY DEF Placed
<1> QED
  BY <1>1, <1>2, <1>3 DEF PlacementsOK

LEMMA SamePlacements ==
    ASSUME PlacementsOK, WavesTypeOK, SubmissionTypeOK, UNCHANGED placement,
           pins' \subseteq pins \cup Accepted(requested), requested' \in {{}, requested}
    PROVE  PlacementsOK'
<1>1. Accepted({}) = {} /\ Accepted(requested) \subseteq Expert /\ pins \subseteq Expert
  BY DEF Accepted, WavesTypeOK, UploadTypeOK
<1>2. key_placements' = Placed({})
  BY DEF placement, Placed, SubmissionTypeOK
<1>3. Accepted(requested') \subseteq Accepted(requested)
  BY <1>1
<1> QED
  BY <1>1, <1>2, <1>3, PlacementsKept DEF placement

-----------------------------------------------------------------------------
(* The layer's invariant, action by action.                                *)
USE DEF WavesInv, LayerInv, ModesOK, GpuPriority, Waving, Waits, fixed, host, lists, device,
        outcome, placement, submission, upload, Go, Return, WavesTypeOK, SubmissionInv

(* A step inside the submission, or of the rest of the process.            *)
LEMMA InTheBackend ==
    ASSUME WavesInv, exists' => exists /\ UNCHANGED <<batch, planned>>,
           exists' /\ call = "destroy" => call' = "destroy",
           UNCHANGED <<fixed, placement, upload, lists, outcome, pc, lease, wave>>
    PROVE  LayerInv'
<1>1. WavesTypeOK'
  BY DEF UploadTypeOK
<1>2. ModesOK'
  OBVIOUS
<1>3. FirstBatch'
  BY SameStatus DEF FirstBatch
<1>4. WorkOK'
  BY SameStatus DEF WorkOK, Counted, Recovered
<1>5. LeasesOK'
  BY DEF LeasesOK
<1>6. UploadsOK'
  BY DEF UploadsOK
<1>7. PlacementsOK'
  BY SamePlacements
<1>8. LeasesOutliveWork'
  BY DEF LeasesOutliveWork
<1> QED
  BY <1>1, <1>2, <1>3, <1>4, <1>5, <1>6, <1>7, <1>8

(* An error or an exception changes nothing but what happens next.         *)
LEMMA GivingUp ==
    ASSUME WavesInv, pc \notin {"unwind", "returned"}, pc' = "unwind", result' \in {"error", "stalled"},
           result' = "stalled" => lease = {},
           UNCHANGED <<fixed, placement, upload, exists, batch, planned, lists, backend_status,
                       computed, lease, wave>>
    PROVE  LayerInv'
<1>1. WavesTypeOK'
  BY DEF UploadTypeOK
<1>2. ModesOK'
  OBVIOUS
<1>3. FirstBatch'
  BY SameStatus DEF FirstBatch
<1>4. WorkOK'
  BY SameStatus DEF WorkOK, Counted, Recovered
<1>5. LeasesOK'
  BY DEF LeasesOK
<1>6. UploadsOK'
  BY DEF UploadsOK
<1>7. PlacementsOK'
  BY SamePlacements
<1>8. LeasesOutliveWork'
  BY DEF LeasesOutliveWork
<1> QED
  BY <1>1, <1>2, <1>3, <1>4, <1>5, <1>6, <1>7, <1>8

(* Between the attempts to lease what is pending.                          *)
LEMMA WaitingForRoom ==
    ASSUME WavesInv, pc \in {"acquire", "starved"}, pc' \in {"acquire", "starved", "last"},
           pc' = "last" => pending = {},
           UNCHANGED <<fixed, device, lists, outcome, lease, wave>>
    PROVE  LayerInv'
<1>1. WavesTypeOK'
  BY DEF UploadTypeOK
<1>2. ModesOK'
  OBVIOUS
<1>3. FirstBatch'
  BY SameStatus DEF FirstBatch
<1>4. WorkOK'
  BY SameStatus DEF WorkOK, Counted, Recovered
<1>5. LeasesOK'
  BY DEF LeasesOK
<1>6. UploadsOK'
  BY DEF UploadsOK
<1>7. PlacementsOK'
  BY SamePlacements
<1>8. LeasesOutliveWork'
  BY DEF LeasesOutliveWork
<1> QED
  BY <1>1, <1>2, <1>3, <1>4, <1>5, <1>6, <1>7, <1>8

LEMMA StartKeeps ==
    ASSUME WavesInv, Start
    PROVE  LayerInv'
<1>0. PICK keys \in SUBSET (IF host_cached THEN {} ELSE supported) :
         IF mode = "cpu" THEN UNCHANGED device ELSE Admit(keys) /\ UNCHANGED upload
  BY DEF Start
<1>1. /\ pc = "start" /\ pc' = IF mode = "cpu" THEN "classify" ELSE "submit"
      /\ UNCHANGED <<submission, upload, key_sharded, fixed, host, lists, outcome, lease, wave>>
      /\ key_placements' \in {key_placements, Placed(keys)}
  BY <1>0 DEF Start, Admit
<1>2. WavesTypeOK'
  BY <1>1 DEF UploadTypeOK
<1>3. ModesOK'
  BY <1>1
<1>4. FirstBatch'
  BY <1>1, SameStatus DEF FirstBatch
<1>5. WorkOK'
  BY <1>1, SameStatus DEF WorkOK, Counted, Recovered
<1>6. LeasesOK'
  BY <1>1 DEF LeasesOK
<1>7. UploadsOK'
  BY <1>1 DEF UploadsOK, Prefix
<1>8. PlacementsOK'
  <2>1. pins \cup Accepted(requested) \subseteq Expert
    BY DEF Accepted, UploadTypeOK
  <2>2. CASE key_placements' = key_placements
    BY <1>1, <2>2, SamePlacements
  <2>3. CASE key_placements' = Placed(keys)
    BY <1>1, <2>1, <2>3, PlacementsKept
  <2> QED
    BY <1>1, <2>2, <2>3
<1>9. LeasesOutliveWork'
  BY <1>1 DEF LeasesOutliveWork
<1> QED
  BY <1>2, <1>3, <1>4, <1>5, <1>6, <1>7, <1>8, <1>9

LEMMA SubmitResidentKeeps ==
    ASSUME WavesInv, SubmitResident
    PROVE  LayerInv'
<1>1. /\ pc = "submit" /\ pc' \in {"classify", "prestage", "finalize"}
      /\ pc' # "classify" <=> GpuPriority
      /\ exists' /\ batch' = supported /\ backend_status' = planned'
      /\ planned' \in [Expert -> Status] /\ \A e \in Expert \ supported : planned'[e] = "NotResident"
      /\ UNCHANGED <<placement, fixed, lists, upload, computed, result, lease, wave>>
  BY SubmitAsks DEF SubmitResident
<1>2. Expert \ Rest' \subseteq supported'
  BY <1>1 DEF Rest
<1>3. WavesTypeOK'
  BY <1>1 DEF UploadTypeOK
<1>4. ModesOK'
  BY <1>1
<1>5. FirstBatch'
  BY <1>1, SameStatus DEF FirstBatch
<1>6. WorkOK'
  BY <1>1, <1>2, SameStatus DEF WorkOK, Counted, Recovered
<1>7. LeasesOK'
  BY <1>1 DEF LeasesOK, WorkOK
<1>8. UploadsOK'
  BY <1>1 DEF UploadsOK, Prefix
<1>9. PlacementsOK'
  BY <1>1, SamePlacements
<1>10. LeasesOutliveWork'
  BY <1>1 DEF LeasesOutliveWork
<1> QED
  BY <1>3, <1>4, <1>5, <1>6, <1>7, <1>8, <1>9, <1>10

LEMMA PrestageKeeps ==
    ASSUME WavesInv, Prestage
    PROVE  LayerInv'
<1>1. PICK ready \in SUBSET First(MaximumDemandWave, Misses) :
        /\ lease' = IF host_cached THEN ready ELSE {}
        /\ prestaged' = ready
        /\ IF ready = {} THEN UNCHANGED <<placement, upload>> ELSE BeginDemandBatch(ready)
  BY DEF Prestage
<1>2. ready \subseteq supported /\ ready \cap Reserved = {} /\ ready \subseteq Expert
  BY <1>1 DEF First, Misses, Reserved
<1>3. /\ pc = "prestage" /\ pc' = "finalize" /\ pins' = pins /\ key_sharded' = key_sharded
      /\ UNCHANGED <<fixed, submission, stage, uncached, pending, demands, outcome, wave>>
  BY <1>1 DEF Prestage, BeginDemandBatch
<1>4. \/ ready = {} /\ UNCHANGED <<placement, upload>>
      \/ /\ uploading' = TRUE /\ requested' = ready
         /\ key_placements' = Placed(Accepted(ready))
  BY <1>1 DEF BeginDemandBatch
<1>5. GpuPriority
  BY <1>3
<1>6. WavesTypeOK'
  BY <1>1, <1>2, <1>3, <1>4, <1>5 DEF UploadTypeOK
<1>7. ModesOK'
  BY <1>3, <1>5
<1>8. FirstBatch'
  BY <1>3, SameStatus DEF FirstBatch
<1>9. WorkOK'
  BY <1>1, <1>2, <1>3, <1>4, <1>5, SameStatus DEF WorkOK, Counted, Recovered
<1>10. LeasesOK'
  BY <1>1, <1>2, <1>3, <1>5 DEF LeasesOK
<1>11. UploadsOK'
  BY <1>1, <1>2, <1>3, <1>4, <1>5 DEF UploadsOK
<1>12. PlacementsOK'
  <2>1. pins \subseteq Expert /\ Accepted(ready) \subseteq ready
    BY DEF Accepted, UploadTypeOK
  <2>2. CASE UNCHANGED <<placement, upload>>
    BY <2>2, SamePlacements
  <2>3. CASE requested' = ready /\ key_placements' = Placed(Accepted(ready))
    BY <1>2, <1>3, <2>1, <2>3, PlacementsKept
  <2> QED
    BY <1>4, <2>2, <2>3
<1>13. LeasesOutliveWork'
  BY <1>1, <1>2, <1>3, <1>4, <1>5 DEF LeasesOutliveWork, LeasesOK
<1> QED
  BY <1>6, <1>7, <1>8, <1>9, <1>10, <1>11, <1>12, <1>13

LEMMA FinalizeRecordKeeps ==
    ASSUME WavesInv, FinalizeRecord
    PROVE  LayerInv'
<1>1. /\ pc = "finalize" /\ pc' = "recover" /\ exists /\ batch = supported
      /\ planned = backend_status /\ (committed \/ aborted)
      /\ backend_status' = [e \in Expert |->
              IF e \in batch /\ MustRecover(e) THEN "Failed" ELSE backend_status[e]]
      /\ computed' = ComputeOn(outputs)
      /\ UNCHANGED <<placement, exists, batch, planned, fixed, upload, lists, result, lease, wave>>
      /\ call' = "destroy" /\ mode # "cpu" /\ result = "none"
  BY DEF FinalizeRecord, Enter, FirstBatch
<1>2. supported \subseteq Expert /\ backend_status \in [Expert -> Status]
      /\ computed \in [Expert -> Nat] /\ Expert \ Rest \subseteq supported
  BY <1>1 DEF WorkOK
<1>3. outputs = {e \in Reserved : ~MustRecover(e)} /\ outputs \subseteq Expert
  <2>1. CASE committed
    <3>1. outputs = ExecutedIn(batch)
      BY <1>1, <2>1 DEF PublishedAll
    <3>2. ASSUME NEW e \in Expert PROVE e \in outputs <=> e \in Reserved /\ ~MustRecover(e)
      BY <1>1, <1>2, <2>1, <3>1 DEF ExecutedIn, Reserved, Rest, MustRecover, ExecutedWasReserved
    <3> QED
      BY <1>2, <1>1, <3>1, <3>2 DEF ExecutedIn, Reserved
  <2>2. CASE ~committed
    <3>1. outputs = {}
      BY <1>1, <2>2 DEF Settled
    <3>2. ASSUME NEW e \in Reserved PROVE MustRecover(e)
      <4>1. e \in supported /\ backend_status[e] = "Executed"
        BY <1>2 DEF Reserved, Rest
      <4> QED
        BY <1>1, <2>2, <4>1 DEF ExecutedIn, MustRecover
    <3> QED
      BY <3>1, <3>2
  <2> QED
    BY <2>1, <2>2
<1>4. Reserved' = outputs /\ Reserved \subseteq supported
  BY <1>1, <1>2, <1>3 DEF Reserved, Rest
<1>5. Expert \ Rest' \subseteq supported /\ (~GpuPriority => Rest' = Rest)
  BY <1>1, <1>2 DEF Rest, MustRecover
<1>6. outputs \cap Rest = {} /\ outputs \subseteq Reserved
  BY <1>3 DEF Rest, Reserved
<1>7. backend_status' \in [Expert -> Status]
  BY <1>1, <1>2 DEF Status
<1>8. computed' = [e \in Expert |-> computed[e] + IF e \in outputs THEN 1 ELSE 0]
  BY <1>1 DEF ComputeOn
<1>9. WavesTypeOK'
  BY <1>1, <1>2, <1>7, <1>8 DEF UploadTypeOK
<1>10. ModesOK'
  BY <1>1
<1>11. FirstBatch'
  BY <1>1, SameStatus DEF FirstBatch
<1>12. WorkOK'
  <2>1. CASE GpuPriority
    <3>1. computed' = [e \in Expert |-> IF e \in Reserved' THEN 1 ELSE 0] /\ Reserved' \subseteq Expert
      BY <1>1, <1>3, <1>4, <1>8, <2>1 DEF WorkOK, Counted
    <3>2. prestaged \subseteq supported \ Reserved
      BY <1>1, <2>1 DEF WorkOK
    <3> QED
      BY <1>1, <1>4, <1>5, <1>6, <2>1, <3>1, <3>2 DEF WorkOK, Counted
  <2>2. CASE ~GpuPriority
    <3>1. computed' = [e \in Expert |-> IF e \in Rest' \cup Reserved' \cup {} THEN 1 ELSE 0]
      BY <1>1, <1>4, <1>5, <1>6, <1>8, <2>2 DEF WorkOK, Counted
    <3>2. Rest' \cup Reserved' \cup {} \subseteq Expert
      BY <1>3, <1>4 DEF Rest
    <3>3. Recovered({})'
      BY <3>1 DEF Recovered, Counted
    <3> QED
      BY <1>1, <1>5, <2>2, <3>2, <3>3 DEF WorkOK, Recovered
  <2> QED
    BY <2>1, <2>2
<1>13. LeasesOK'
  BY <1>1 DEF LeasesOK
<1>14. UploadsOK'
  BY <1>1 DEF UploadsOK
<1>15. PlacementsOK'
  BY <1>1, SamePlacements
<1>16. LeasesOutliveWork'
  BY <1>1 DEF LeasesOutliveWork
<1> QED
  BY <1>9, <1>10, <1>11, <1>12, <1>13, <1>14, <1>15, <1>16

LEMMA RecoverKeeps ==
    ASSUME WavesInv, Recover
    PROVE  LayerInv'
<1>1. PICK e \in FailedWork :
        /\ computed[e] = 0
        /\ computed' = ComputeOn(IF host_cached THEN {e} ELSE FailedWork)
  BY DEF Recover
<1>2. /\ pc = "recover" /\ ~GpuPriority /\ ~exists
      /\ UNCHANGED <<fixed, host, device, lists, backend_status, result, pc, lease, wave>>
  BY DEF Recover
<1>3. PICK done \in SUBSET FailedWork :
        /\ computed = [f \in Expert |-> IF f \in Rest \cup Reserved \cup done THEN 1 ELSE 0]
        /\ ~host_cached => done \in {{}, FailedWork}
  BY <1>2 DEF WorkOK, Recovered, Counted
<1>4. FailedWork \subseteq Expert /\ FailedWork \cap (Rest \cup Reserved) = {} /\ e \notin done
  <2>1. FailedWork \subseteq Expert /\ FailedWork \cap (Rest \cup Reserved) = {}
    BY DEF FailedWork, Rest, Reserved
  <2> QED
    BY <1>1, <1>3, <2>1
<1>5. PICK more \in SUBSET FailedWork :
        /\ computed' = [f \in Expert |-> IF f \in Rest \cup Reserved \cup more THEN 1 ELSE 0]
        /\ ~host_cached => more \in {{}, FailedWork}
  <2>1. CASE host_cached
    <3>1. computed' = [f \in Expert |-> IF f \in Rest \cup Reserved \cup (done \cup {e}) THEN 1 ELSE 0]
      BY <1>1, <1>3, <1>4, <2>1 DEF ComputeOn
    <3>2. done \cup {e} \in SUBSET FailedWork
      OBVIOUS
    <3> QED
      BY <2>1, <3>1, <3>2, Zenon
  <2>2. CASE ~host_cached
    <3>1. computed' = [f \in Expert |-> IF f \in Rest \cup Reserved \cup FailedWork THEN 1 ELSE 0]
      BY <1>1, <1>3, <1>4, <2>2 DEF ComputeOn
    <3> QED
      BY <2>2, <3>1
  <2> QED
    BY <2>1, <2>2
<1>6. Rest \cup Reserved \cup more \subseteq Expert
  BY <1>4 DEF Rest, Reserved
<1>7. WavesTypeOK'
  BY <1>2, <1>5 DEF UploadTypeOK
<1>8. ModesOK'
  BY <1>2
<1>9. FirstBatch'
  BY <1>2, SameStatus DEF FirstBatch
<1>10. WorkOK'
  <2>1. Rest' = Rest /\ Reserved' = Reserved /\ FailedWork' = FailedWork
    BY <1>2, SameStatus
  <2>2. Recovered(more)'
    BY <1>2, <1>5, <2>1 DEF Recovered, Counted
  <2>3. Counted(Rest \cup Reserved \cup more)'
    BY <2>2 DEF Recovered
  <2> QED
    BY <1>2, <1>6, <2>1, <2>2, <2>3 DEF WorkOK
<1>11. LeasesOK'
  BY <1>2 DEF LeasesOK
<1>12. UploadsOK'
  BY <1>2 DEF UploadsOK
<1>13. PlacementsOK'
  BY <1>2, SamePlacements
<1>14. LeasesOutliveWork'
  BY <1>2 DEF LeasesOutliveWork
<1> QED
  BY <1>7, <1>8, <1>9, <1>10, <1>11, <1>12, <1>13, <1>14

LEMMA FinalizedKeeps ==
    ASSUME WavesInv, Finalized
    PROVE  LayerInv'
<1>1. /\ pc = "recover" /\ ~exists
      /\ IF GpuPriority
         THEN FailedWork = {} /\ pc' = (IF uploading THEN "preload" ELSE "classify") /\ UNCHANGED result
         ELSE (\A e \in FailedWork : computed[e] > 0) /\ pc' = "returned" /\ result' = "ok"
      /\ UNCHANGED <<fixed, host, device, lists, backend_status, computed, lease, wave>>
  BY DEF Finalized
<1>2. ~GpuPriority => computed = [e \in Expert |-> IF e \in Expert THEN 1 ELSE 0]
  <2> SUFFICES ASSUME ~GpuPriority PROVE computed = [e \in Expert |-> IF e \in Expert THEN 1 ELSE 0]
    OBVIOUS
  <2>1. PICK done \in SUBSET FailedWork :
          computed = [f \in Expert |-> IF f \in Rest \cup Reserved \cup done THEN 1 ELSE 0]
    BY <1>1 DEF WorkOK, Recovered, Counted
  <2>2. Expert \ Rest \subseteq supported /\ FailedWork \subseteq Expert
        /\ FailedWork \cap (Rest \cup Reserved) = {}
    BY <1>1 DEF WorkOK, FailedWork, Rest, Reserved
  <2>3. FailedWork \subseteq done
    BY <1>1, <2>1, <2>2
  <2>4. Expert = Rest \cup Reserved \cup FailedWork
    BY <2>2 DEF Rest, Reserved, FailedWork, Status
  <2> QED
    BY <2>1, <2>3, <2>4
<1>3. WavesTypeOK'
  BY <1>1 DEF UploadTypeOK
<1>4. ModesOK'
  BY <1>1
<1>5. FirstBatch'
  BY <1>1, SameStatus DEF FirstBatch
<1>6. WorkOK'
  BY <1>1, <1>2, SameStatus DEF WorkOK, Counted, Recovered
<1>7. LeasesOK'
  BY <1>1 DEF LeasesOK
<1>8. UploadsOK'
  BY <1>1 DEF UploadsOK, Prefix
<1>9. PlacementsOK'
  BY <1>1, SamePlacements
<1>10. LeasesOutliveWork'
  BY <1>1 DEF LeasesOutliveWork
<1> QED
  BY <1>3, <1>4, <1>5, <1>6, <1>7, <1>8, <1>9, <1>10

LEMMA WaitPrestagedKeeps ==
    ASSUME WavesInv, WaitPrestaged
    PROVE  LayerInv'
<1>1. /\ pc = "preload" /\ pc' = "classify" /\ uploading /\ uploading' = FALSE /\ requested' = {}
      /\ UNCHANGED <<placement, fixed, host, submission, lists, outcome, lease, wave>> /\ WaitDemand
  BY DEF WaitPrestaged, WaitDemand
<1>2. pins' \subseteq Accepted(requested) /\ Prefix(pins', requested) /\ requested \subseteq Expert
  BY <1>1, PinsArePrefix, WavesAssumption DEF UploadTypeOK
<1>3. requested = prestaged /\ pins' \subseteq Expert
  BY <1>1, <1>2 DEF UploadsOK, Prefix
<1>4. WavesTypeOK'
  BY <1>1, <1>2, <1>3 DEF UploadTypeOK
<1>5. ModesOK'
  BY <1>1, <1>2, <1>3
<1>6. FirstBatch'
  BY <1>1, <1>2, <1>3, SameStatus DEF FirstBatch
<1>7. WorkOK'
  BY <1>1, <1>2, <1>3, SameStatus DEF WorkOK, Counted, Recovered
<1>8. LeasesOK'
  BY <1>1, <1>2, <1>3 DEF LeasesOK
<1>9. UploadsOK'
  BY <1>1, <1>2, <1>3 DEF UploadsOK
<1>10. PlacementsOK'
  BY <1>1, <1>2, <1>3, SamePlacements
<1>11. LeasesOutliveWork'
  BY <1>1, <1>2, <1>3 DEF LeasesOutliveWork
<1> QED
  BY <1>4, <1>5, <1>6, <1>7, <1>8, <1>9, <1>10, <1>11

LEMMA ClassifyKeeps ==
    ASSUME WavesInv, Classify
    PROVE  LayerInv'
<1> DEFINE rest == Rest \ prestaged
           waiting == IF host_cached THEN rest ELSE {}
<1>1. /\ pc = "classify" /\ pc' = "ready" /\ uncached' = rest \ waiting /\ pending' = waiting
      /\ demands' = prestaged /\ stage' = "prestaged" /\ prestaged' = {}
      /\ UNCHANGED <<fixed, key_sharded, submission, upload, outcome, wave>>
  BY DEF Classify, Rest
<1>2. \/ UNCHANGED <<lease, key_placements>>
      \/ ~GpuPriority /\ lease' = waiting /\ AdmitReady(waiting)
  BY DEF Classify, Rest
<1>3. prestaged \subseteq Rest
  BY <1>1 DEF WorkOK, Rest, Reserved, FailedWork, Status
<1>4. rest \subseteq Expert /\ waiting \subseteq rest /\ rest \cap prestaged = {}
      /\ rest \cup prestaged = Rest /\ (~host_cached => waiting = {})
      /\ (host_cached => waiting = rest)
  BY <1>3 DEF Rest
<1> HIDE DEF rest, waiting
<1>5. WavesTypeOK'
  BY <1>1, <1>2, <1>4 DEF UploadTypeOK
<1>6. ModesOK'
  BY <1>1, <1>4
<1>7. FirstBatch'
  BY <1>1, <1>2, SameStatus DEF FirstBatch
<1>8. WorkOK'
  BY <1>1, <1>3, <1>4, SameStatus DEF WorkOK, Counted, Recovered
<1>9. LeasesOK'
  BY <1>1, <1>2, <1>3, <1>4 DEF LeasesOK
<1>10. UploadsOK'
  BY <1>1 DEF UploadsOK
<1>11. PlacementsOK'
  <2>1. CASE key_placements' = key_placements
    BY <1>1, <2>1, SamePlacements
  <2>2. CASE AdmitReady(waiting)
    <3>1. PICK keys : key_placements' = Placed(keys)
      BY <2>2 DEF AdmitReady
    <3>2. pins \cup Accepted(requested) \subseteq Expert
      BY DEF Accepted, UploadTypeOK
    <3> QED
      BY <1>1, <3>1, <3>2, PlacementsKept
  <2> QED
    BY <1>2, <2>1, <2>2
<1>12. LeasesOutliveWork'
  BY <1>1 DEF LeasesOutliveWork, UploadsOK
<1> QED
  BY <1>5, <1>6, <1>7, <1>8, <1>9, <1>10, <1>11, <1>12

LEMMA NextListKeeps ==
    ASSUME WavesInv, NextList
    PROVE  LayerInv'
<1>1. WavesTypeOK'
  BY DEF NextList, UploadTypeOK
<1>2. ModesOK'
  BY DEF NextList
<1>3. FirstBatch'
  BY SameStatus DEF NextList, FirstBatch
<1>4. WorkOK'
  BY SameStatus DEF NextList, WorkOK, Counted, Recovered
<1>5. LeasesOK'
  BY DEF NextList, LeasesOK
<1>6. UploadsOK'
  BY DEF NextList, UploadsOK, Prefix
<1>7. PlacementsOK'
  BY SamePlacements DEF NextList
<1>8. LeasesOutliveWork'
  BY DEF NextList, LeasesOutliveWork
<1> QED
  BY <1>1, <1>2, <1>3, <1>4, <1>5, <1>6, <1>7, <1>8

LEMMA ForwardOnCpuKeeps ==
    ASSUME WavesInv, ForwardOnCpu
    PROVE  LayerInv'
<1>1. /\ pc = "ready" /\ ~GpuPriority /\ computed' = ComputeOn(demands) /\ lease' = lease \ demands
      /\ demands' = {}
      /\ UNCHANGED <<fixed, host, device, stage, prestaged, uncached, pending, backend_status,
                     result, pc, wave>>
  BY DEF ForwardOnCpu
<1>2. /\ computed = [e \in Expert |-> IF e \in Rest \ Waits THEN 1 ELSE 0]
      /\ Waits \subseteq Rest /\ demands \cap (uncached \cup pending) = {}
  BY <1>1 DEF WorkOK, Counted
<1>3. computed' = [e \in Expert |-> IF e \in Rest \ (uncached \cup pending) THEN 1 ELSE 0]
  BY <1>1, <1>2 DEF ComputeOn
<1>4. Counted(Rest \ Waits)' /\ Rest \ Waits' \subseteq Expert
  BY <1>1, <1>3, SameStatus DEF Counted, Rest
<1>5. lease' \subseteq lease
  BY <1>1
<1>6. WavesTypeOK'
  BY <1>1, <1>3, <1>5 DEF UploadTypeOK
<1>7. ModesOK'
  BY <1>1
<1>8. FirstBatch'
  BY <1>1, SameStatus DEF FirstBatch
<1>9. WorkOK'
  <2>1. Rest' = Rest
    BY <1>1, SameStatus
  <2>2. \E experts \in SUBSET Expert : Counted(experts)'
    BY <1>1, <1>4, <2>1
  <2> QED
    BY <1>1, <1>2, <1>4, <2>1, <2>2 DEF WorkOK
<1>10. LeasesOK'
  BY <1>1, <1>2 DEF LeasesOK
<1>11. UploadsOK'
  BY <1>1 DEF UploadsOK, Prefix
<1>12. PlacementsOK'
  BY <1>1, SamePlacements
<1>13. LeasesOutliveWork'
  BY <1>1 DEF LeasesOutliveWork
<1> QED
  BY <1>6, <1>7, <1>8, <1>9, <1>10, <1>11, <1>12, <1>13

LEMMA BeginUploadKeeps ==
    ASSUME WavesInv, BeginUpload
    PROVE  LayerInv'
<1> DEFINE next == First(MaximumDemandWave, demands)
<1>1. /\ pc = "ready" /\ GpuPriority /\ demands # {} /\ pins' = pins /\ key_sharded' = key_sharded
      /\ UNCHANGED <<fixed, host, submission, lists, outcome, lease, wave>>
      /\ \/ pins # {} /\ pc' = "prepared" /\ UNCHANGED <<placement, upload>>
         \/ /\ pins = {} /\ pc' = "uploading" /\ uploading' = TRUE /\ requested' = next
            /\ key_placements' = Placed(Accepted(next))
  BY DEF BeginUpload, BeginDemandBatch
<1>2. next \subseteq demands /\ Accepted(next) \subseteq next
  BY DEF First, Accepted
<1>3. (uploading' => UNCHANGED uploading \/ requested' = next) /\ ~uploading
  BY <1>1 DEF UploadsOK
<1> HIDE DEF next
<1>4. WavesTypeOK'
  BY <1>1, <1>2 DEF UploadTypeOK
<1>5. ModesOK'
  BY <1>1
<1>6. FirstBatch'
  BY <1>1, SameStatus DEF FirstBatch
<1>7. WorkOK'
  BY <1>1, SameStatus DEF WorkOK, Counted, Recovered
<1>8. LeasesOK'
  BY <1>1 DEF LeasesOK
<1>9. UploadsOK'
  BY <1>1 DEF UploadsOK, next
<1>10. PlacementsOK'
  <2>1. CASE UNCHANGED <<placement, upload>>
    BY <2>1, SamePlacements
  <2>2. CASE requested' = next /\ key_placements' = Placed(Accepted(next))
    <3>1. pins \subseteq Expert
      BY DEF UploadTypeOK
    <3> QED
      BY <1>1, <1>2, <2>2, <3>1, PlacementsKept
  <2> QED
    BY <1>1, <2>1, <2>2
<1>11. LeasesOutliveWork'
  BY <1>1, <1>2, <1>3 DEF LeasesOutliveWork, LeasesOK
<1> QED
  BY <1>4, <1>5, <1>6, <1>7, <1>8, <1>9, <1>10, <1>11

LEMMA EndUploadKeeps ==
    ASSUME WavesInv, EndUpload
    PROVE  LayerInv'
<1>1. /\ pc = "uploading" /\ pc' = "prepared" /\ uploading /\ uploading' = FALSE /\ requested' = {}
      /\ UNCHANGED <<placement, fixed, host, submission, lists, outcome, lease, wave>> /\ WaitDemand
  BY DEF EndUpload, WaitDemand
<1>2. pins' \subseteq Accepted(requested) /\ Prefix(pins', requested) /\ requested \subseteq Expert
  BY <1>1, PinsArePrefix, WavesAssumption DEF UploadTypeOK
<1>3. requested = First(MaximumDemandWave, demands)
  BY <1>1 DEF UploadsOK
<1>4. Prefix(requested, demands)
  <2>1. demands \subseteq Nat /\ IsFiniteSet(demands) /\ MaximumDemandWave \in Nat
    BY WavesAssumption, OrderAssumption, FS_Subset
  <2> QED
    BY <1>3, <2>1, FirstIsPrefix
<1>5. Prefix(pins', demands) /\ pins' \subseteq Expert
  BY <1>2, <1>4 DEF Prefix
<1>6. WavesTypeOK'
  BY <1>1, <1>2, <1>5 DEF UploadTypeOK
<1>7. ModesOK'
  BY <1>1, <1>2, <1>5
<1>8. FirstBatch'
  BY <1>1, <1>2, <1>5, SameStatus DEF FirstBatch
<1>9. WorkOK'
  BY <1>1, <1>2, <1>5, SameStatus DEF WorkOK, Counted, Recovered
<1>10. LeasesOK'
  BY <1>1, <1>2, <1>5 DEF LeasesOK
<1>11. UploadsOK'
  BY <1>1, <1>2, <1>5 DEF UploadsOK
<1>12. PlacementsOK'
  BY <1>1, <1>2, <1>5, SamePlacements
<1>13. LeasesOutliveWork'
  BY <1>1, <1>2, <1>5 DEF LeasesOutliveWork
<1> QED
  BY <1>6, <1>7, <1>8, <1>9, <1>10, <1>11, <1>12, <1>13

LEMMA StartWaveKeeps ==
    ASSUME WavesInv, StartWave
    PROVE  LayerInv'
<1>1. /\ pc = "prepared" /\ pc' = "ready" /\ pins # {} /\ wave = {} /\ GpuPriority
      /\ Prefix(pins, demands)
  BY DEF StartWave, UploadsOK
<1>2. First(Cardinality(pins), demands) = pins
  <2>1. demands \subseteq Nat /\ IsFiniteSet(demands)
    BY WavesAssumption, OrderAssumption, FS_Subset
  <2> QED
    BY <1>1, <2>1, FirstOfPrefix
<1>3. /\ wave' = pins /\ demands' = demands \ pins /\ pins' = {} /\ Submit(pins)
      /\ UNCHANGED <<fixed, host, uploading, requested, stage, prestaged, uncached, pending, outcome,
                     lease>>
  BY <1>2 DEF StartWave
<1>4. exists' /\ ~exists /\ batch' = pins /\ UNCHANGED placement /\ pins \subseteq demands
  BY <1>1, <1>3, SubmitAsks DEF UploadTypeOK, Prefix
<1>5. ~uploading
  BY <1>1 DEF UploadsOK
<1>6. WavesTypeOK'
  BY <1>1, <1>3, <1>4 DEF UploadTypeOK
<1>7. ModesOK'
  BY <1>1, <1>3, <1>4
<1>8. FirstBatch'
  BY <1>1, <1>3, <1>4, SameStatus DEF FirstBatch
<1>9. WorkOK'
  BY <1>1, <1>3, <1>4, SameStatus DEF WorkOK, Counted, Recovered
<1>10. LeasesOK'
  BY <1>1, <1>3, <1>4 DEF LeasesOK
<1>11. UploadsOK'
  BY <1>1, <1>3, <1>5 DEF UploadsOK, Prefix
<1>12. PlacementsOK'
  BY <1>1, <1>3, <1>4, SamePlacements
<1>13. LeasesOutliveWork'
  BY <1>1, <1>3, <1>4, <1>5 DEF LeasesOutliveWork, LeasesOK
<1> QED
  BY <1>6, <1>7, <1>8, <1>9, <1>10, <1>11, <1>12, <1>13

LEMMA FinishRecordKeeps ==
    ASSUME WavesInv, FinishRecord
    PROVE  LayerInv'
<1>1. /\ pc \in {"prepared", "starved", "last"} /\ pc' = pc /\ wave # {} /\ exists /\ GpuPriority
      /\ batch = wave /\ (committed \/ aborted) /\ call = "none" /\ call' = "destroy"
      /\ backend_status' = [e \in Expert |-> IF e \in wave /\ committed /\ final[e] = "Executed"
                                             THEN "Executed" ELSE backend_status[e]]
      /\ computed' = ComputeOn(outputs)
      /\ UNCHANGED <<placement, exists, batch, planned, fixed, upload, lists, result, lease, wave>>
  BY DEF FinishRecord, Finishing, Enter
<1>2. backend_status \in [Expert -> Status] /\ wave \subseteq Rest /\ Waits \cap wave = {}
      /\ Waits \subseteq Rest /\ computed = [e \in Expert |-> IF e \in Reserved THEN 1 ELSE 0]
  BY <1>1 DEF WorkOK, Counted
<1>3. outputs = {e \in wave : committed /\ final[e] = "Executed"}
  <2>1. CASE committed
    BY <1>1, <2>1 DEF PublishedAll, ExecutedIn
  <2>2. CASE ~committed
    BY <1>1, <2>2 DEF Settled
  <2> QED
    BY <2>1, <2>2
<1>4. Reserved' = Reserved \cup outputs /\ outputs \cap Reserved = {} /\ Waits \subseteq Rest'
      /\ backend_status' \in [Expert -> Status] /\ outputs \subseteq Expert
  BY <1>1, <1>2, <1>3 DEF Reserved, Rest, Status
<1>5. computed' = [e \in Expert |-> IF e \in Reserved' THEN 1 ELSE 0]
  BY <1>1, <1>2, <1>4 DEF ComputeOn
<1>6. Reserved' \subseteq Expert
  BY DEF Reserved
<1>7. WavesTypeOK'
  BY <1>1, <1>4, <1>5 DEF UploadTypeOK
<1>8. ModesOK'
  BY <1>1
<1>9. FirstBatch'
  BY <1>1, SameStatus DEF FirstBatch
<1>10. WorkOK'
  BY <1>1, <1>2, <1>4, <1>5, <1>6, SameStatus DEF WorkOK, Counted, Recovered
<1>11. LeasesOK'
  BY <1>1 DEF LeasesOK
<1>12. UploadsOK'
  BY <1>1 DEF UploadsOK
<1>13. PlacementsOK'
  BY <1>1, SamePlacements
<1>14. LeasesOutliveWork'
  BY <1>1 DEF LeasesOutliveWork
<1> QED
  BY <1>7, <1>8, <1>9, <1>10, <1>11, <1>12, <1>13, <1>14

LEMMA ReleaseWaveKeeps ==
    ASSUME WavesInv, ReleaseWave
    PROVE  LayerInv'
<1>1. /\ pc \in {"prepared", "starved", "last"} /\ wave # {} /\ ~exists /\ lease' = lease \ wave /\ wave' = {}
      /\ UNCHANGED <<fixed, host, device, lists>> /\ GpuPriority /\ ~uploading
  BY DEF ReleaseWave, Finishing, LeasesLeft, UploadsOK
<1>2. \/ /\ pc' = IF pc = "prepared" /\ pins = {} THEN "ready" ELSE pc
         /\ UNCHANGED outcome
      \/ pc' = "unwind" /\ result' = "error" /\ UNCHANGED <<backend_status, computed>>
  BY DEF ReleaseWave
<1>3. demands \cap wave = {} /\ lease' \subseteq lease
  BY <1>1 DEF WorkOK
<1>4. WavesTypeOK'
  BY <1>1, <1>2, <1>3 DEF UploadTypeOK
<1>5. ModesOK'
  BY <1>1, <1>2, <1>3
<1>6. FirstBatch'
  BY <1>1, <1>2, <1>3, SameStatus DEF FirstBatch
<1>7. WorkOK'
  BY <1>1, <1>2, <1>3, SameStatus DEF WorkOK, Counted, Recovered
<1>8. LeasesOK'
  BY <1>1, <1>2, <1>3 DEF LeasesOK
<1>9. UploadsOK'
  BY <1>1, <1>2, <1>3 DEF UploadsOK
<1>10. PlacementsOK'
  BY <1>1, <1>2, <1>3, SamePlacements
<1>11. LeasesOutliveWork'
  BY <1>1, <1>2, <1>3 DEF LeasesOutliveWork
<1> QED
  BY <1>4, <1>5, <1>6, <1>7, <1>8, <1>9, <1>10, <1>11

LEMMA AcquireKeeps ==
    ASSUME WavesInv, Acquire
    PROVE  LayerInv'
<1>1. PICK ready \in SUBSET pending :
        /\ ready # {} /\ lease' = lease \cup ready
        /\ pending' = pending \ ready /\ demands' = ready
        /\ AdmitReady(ready)
  BY DEF Acquire
<1>2. /\ pc = "acquire" /\ pc' = "ready"
      /\ UNCHANGED <<fixed, key_sharded, submission, upload, stage, prestaged, uncached, outcome, wave>>
  BY DEF Acquire
<1>3. demands = {} /\ stage = "pending" /\ pins = {} /\ host_cached
  BY <1>1, <1>2 DEF UploadsOK, Prefix
<1>4. WavesTypeOK'
  BY <1>1, <1>2, <1>3 DEF UploadTypeOK
<1>5. ModesOK'
  BY <1>1, <1>2, <1>3
<1>6. FirstBatch'
  BY <1>1, <1>2, <1>3, SameStatus DEF FirstBatch
<1>7. WorkOK'
  BY <1>1, <1>2, <1>3, SameStatus DEF WorkOK, Counted, Recovered
<1>8. LeasesOK'
  BY <1>1, <1>2, <1>3 DEF LeasesOK
<1>9. UploadsOK'
  BY <1>1, <1>2, <1>3 DEF UploadsOK, Prefix
<1>10. PlacementsOK'
  <2>1. PICK keys : key_placements' = Placed(keys)
    BY <1>1 DEF AdmitReady
  <2>2. pins \cup Accepted(requested) \subseteq Expert
    BY DEF Accepted, UploadTypeOK
  <2> QED
    BY <1>2, <2>1, <2>2, PlacementsKept
<1>11. LeasesOutliveWork'
  BY <1>1, <1>2, <1>3 DEF LeasesOutliveWork
<1> QED
  BY <1>4, <1>5, <1>6, <1>7, <1>8, <1>9, <1>10, <1>11

LEMMA LastKeeps ==
    ASSUME WavesInv, Last
    PROVE  LayerInv'
<1>1. WavesTypeOK'
  BY DEF Last, UploadTypeOK
<1>2. ModesOK'
  BY DEF Last, UploadsOK
<1>3. FirstBatch'
  BY SameStatus DEF Last, FirstBatch
<1>4. WorkOK'
  BY SameStatus DEF Last, WorkOK, Counted, Recovered
<1>5. LeasesOK'
  BY DEF Last, LeasesOK
<1>6. UploadsOK'
  BY DEF Last, UploadsOK
<1>7. PlacementsOK'
  BY SamePlacements DEF Last
<1>8. LeasesOutliveWork'
  BY DEF Last, LeasesOutliveWork
<1> QED
  BY <1>1, <1>2, <1>3, <1>4, <1>5, <1>6, <1>7, <1>8

LEMMA UnwindUploadKeeps ==
    ASSUME WavesInv, UnwindUpload
    PROVE  LayerInv'
<1>1. WavesTypeOK'
  BY DEF UnwindUpload, AbortDemand, UploadTypeOK
<1>2. ModesOK'
  BY DEF UnwindUpload, AbortDemand
<1>3. FirstBatch'
  BY SameStatus DEF UnwindUpload, AbortDemand, FirstBatch
<1>4. WorkOK'
  BY SameStatus DEF UnwindUpload, AbortDemand, WorkOK, Counted, Recovered
<1>5. LeasesOK'
  BY DEF UnwindUpload, AbortDemand, LeasesOK
<1>6. UploadsOK'
  BY DEF UnwindUpload, AbortDemand, UploadsOK
<1>7. PlacementsOK'
  BY SamePlacements DEF UnwindUpload, AbortDemand
<1>8. LeasesOutliveWork'
  BY DEF UnwindUpload, AbortDemand, LeasesOutliveWork
<1> QED
  BY <1>1, <1>2, <1>3, <1>4, <1>5, <1>6, <1>7, <1>8

LEMMA WaveCleanupKeeps ==
    ASSUME WavesInv, WaveCleanup
    PROVE  LayerInv'
<1>1. WavesTypeOK'
  BY DEF WaveCleanup, Drained, UploadTypeOK
<1>2. ModesOK'
  BY DEF WaveCleanup, Drained
<1>3. FirstBatch'
  BY SameStatus DEF WaveCleanup, Drained, FirstBatch
<1>4. WorkOK'
  BY SameStatus DEF WaveCleanup, Drained, WorkOK, Counted, Recovered
<1>5. LeasesOK'
  BY DEF WaveCleanup, Drained, LeasesOK
<1>6. UploadsOK'
  BY DEF WaveCleanup, Drained, UploadsOK
<1>7. PlacementsOK'
  BY SamePlacements DEF WaveCleanup, Drained
<1>8. LeasesOutliveWork'
  BY DEF WaveCleanup, Drained, LeasesOutliveWork
<1> QED
  BY <1>1, <1>2, <1>3, <1>4, <1>5, <1>6, <1>7, <1>8

-----------------------------------------------------------------------------
LEMMA SubmissionActions ==
    ASSUME WavesInv,
           FinalizeWait \/ FinalizeCommit \/ FinishWait \/ FinishCommit \/ UnwindSubmission
           \/ InSubmission \/ BackgroundEnds \/ OthersRelease \/ OthersTake
    PROVE  LayerInv'
<1>1. CASE FinalizeWait \/ FinishWait \/ FinishCommit \/ UnwindSubmission
  BY <1>1, InTheBackend DEF FinalizeWait, FinishWait, FinishCommit, UnwindSubmission, Enter
<1>2. CASE FinalizeCommit
  BY <1>2, InTheBackend DEF FinalizeCommit, Enter, Abort
<1>3. CASE InSubmission
  BY <1>3, InTheBackend, SubmissionSteps DEF InSubmission
<1>4. CASE BackgroundEnds \/ OthersRelease \/ OthersTake
  BY <1>4, InTheBackend DEF BackgroundEnds, OthersRelease, OthersTake
<1> QED
  BY <1>1, <1>2, <1>3, <1>4

LEMMA Failures ==
    ASSUME WavesInv, RecoveryFails \/ Unsupported \/ NothingPrepared \/ Stalled \/ Throw
    PROVE  LayerInv'
<1>1. Stalled => lease = {}
  BY DEF Stalled, LeasesOK
<1> QED
  BY <1>1, GivingUp DEF RecoveryFails, Unsupported, NothingPrepared, Stalled, Throw, ChildThrows

LEMMA WaitsForRoom ==
    ASSUME WavesInv, Starve \/ WaitForBackgroundWork \/ AllAcquired
    PROVE  LayerInv'
BY WaitingForRoom DEF Starve, WaitForBackgroundWork, AllAcquired

HIDE DEF WavesInv, LayerInv, ModesOK, GpuPriority, Waving, Waits, fixed, host, lists, device,
         outcome, placement, submission, upload, Go, Return, WavesTypeOK, SubmissionInv

LEMMA LayerStep ==
    ASSUME WavesInv, WavesNext
    PROVE  LayerInv'
BY SubmissionActions, Failures, WaitsForRoom, StartKeeps, SubmitResidentKeeps, PrestageKeeps,
   FinalizeRecordKeeps, RecoverKeeps, FinalizedKeeps, WaitPrestagedKeeps, ClassifyKeeps,
   NextListKeeps, ForwardOnCpuKeeps, BeginUploadKeeps, EndUploadKeeps, StartWaveKeeps,
   FinishRecordKeeps, ReleaseWaveKeeps, AcquireKeeps, LastKeeps, UnwindUploadKeeps,
   WaveCleanupKeeps, Zenon DEF WavesNext, Forward

LEMMA WavesInitially == WavesInit => WavesInv
<1> SUFFICES ASSUME WavesInit PROVE WavesInv
  OBVIOUS
<1>1. SubmissionInv /\ PublishedAll
  BY InitInv DEF WavesInit, SubmissionInit, PublishedAll
<1>2. WavesTypeOK /\ ModesOK /\ FirstBatch /\ LeasesOK /\ UploadsOK /\ LeasesOutliveWork
  BY WavesAssumption DEF WavesInit, SubmissionInit, UploadInit, WavesTypeOK, UploadTypeOK, ModesOK,
     FirstBatch, LeasesOK, UploadsOK, LeasesOutliveWork, Waving, GpuPriority, Status
<1>3. WorkOK
  BY DEF WavesInit, SubmissionInit, UploadInit, WorkOK, Counted, Rest, Waits, Waving, GpuPriority
<1>4. PlacementsOK
  BY DEF WavesInit, SubmissionInit, UploadInit, PlacementsOK, Accepted
<1> QED
  BY <1>1, <1>2, <1>3, <1>4 DEF WavesInv, LayerInv

LEMMA WavesKept ==
    ASSUME WavesInv, [WavesNext]_vars
    PROVE  WavesInv' /\ [SubmissionNext]_svars
<1>1. [SubmissionNext]_svars
  BY StepsOfSubmission DEF WavesInv, LayerInv, vars, svars, device
<1>2. SubmissionInv' /\ PublishedAll'
  BY <1>1, NextInv, PublishedStays DEF WavesInv
<1>3. LayerInv'
  <2>1. CASE UNCHANGED vars
    BY <2>1, InTheBackend DEF vars, fixed, host, device, lists, outcome, submission
  <2> QED
    BY <2>1, LayerStep
<1> QED
  BY <1>1, <1>2, <1>3 DEF WavesInv

(* Every state of a layer satisfies the invariant.                         *)
THEOREM WavesInvariant == WavesSpec => []WavesInv
<1>1. WavesInv /\ [WavesNext]_vars => WavesInv'
  BY WavesKept
<1> QED
  BY <1>1, WavesInitially, PTL DEF WavesSpec

(* No output is written twice, and a layer that succeeds has written all.  *)
THEOREM OutputsWrittenOnce == WavesSpec => []ComputedOnce
<1>1. WavesInv => ComputedOnce
  <2> SUFFICES ASSUME WavesInv PROVE ComputedOnce
    OBVIOUS
  <2>1. PICK experts \in SUBSET Expert : computed = [e \in Expert |-> IF e \in experts THEN 1 ELSE 0]
    BY DEF WavesInv, LayerInv, WorkOK, Counted
  <2>2. result = "ok" => computed = [e \in Expert |-> IF e \in Expert THEN 1 ELSE 0]
    BY DEF WavesInv, LayerInv, WorkOK, Counted
  <2> QED
    BY <2>1, <2>2 DEF ComputedOnce
<1> QED
  BY <1>1, WavesInvariant, PTL

(* Weights keep their host lease while a wave or an upload reads them.     *)
THEOREM LeasesAreLongEnough == WavesSpec => []LeasesOutliveWork
<1>1. WavesInv => LeasesOutliveWork
  BY DEF WavesInv, LayerInv
<1> QED
  BY <1>1, WavesInvariant, PTL

(* A wait for room never waits for what this very call holds.              *)
THEOREM WaitsHoldLittle == WavesSpec => []WaitsHoldOnlyTheWave
<1>1. WavesInv => WaitsHoldOnlyTheWave
  BY DEF WavesInv, LayerInv, WaitsHoldOnlyTheWave, LeasesOK, ModesOK, Waving
<1> QED
  BY <1>1, WavesInvariant, PTL

-----------------------------------------------------------------------------
LEMMA WaveOfPins ==
    ASSUME WavesInv, [WavesNext]_vars, pc = "prepared", exists', ~exists
    PROVE  /\ batch' \subseteq pins
           /\ \A e \in batch' : home'[e] = DemandDevice(e)
<1>1. StartWave
  <2>1. ASSUME NEW operation, Enter(operation) PROVE FALSE
    BY <2>1 DEF Enter
  <2>2. ~Abort
    BY DEF Abort
  <2>3. ~SubmissionStep
    BY SubmissionSteps DEF WavesInv
  <2>4. UNCHANGED device => FALSE
    BY DEF device, submission
  <2>5. ~ChildThrows
    BY DEF ChildThrows
  <2> QED
    BY <2>1, <2>2, <2>3, <2>4, <2>5, Zenon DEF WavesNext, Forward, Start, SubmitResident, Prestage,
       FinalizeWait, FinalizeCommit, FinalizeRecord, RecoveryFails, Recover, Finalized,
       WaitPrestaged, Classify, NextList, ForwardOnCpu, Unsupported, BeginUpload, EndUpload,
       NothingPrepared, FinishWait, FinishCommit, FinishRecord, ReleaseWave, Acquire, Starve,
       WaitForBackgroundWork, Stalled, AllAcquired, Last, Throw, UnwindUpload, UnwindSubmission,
       WaveCleanup, InSubmission, BackgroundEnds, OthersRelease, OthersTake, vars, device, submission
<1>2. Prefix(pins, demands) /\ demands \subseteq Expert
  BY DEF WavesInv, LayerInv, UploadsOK, WavesTypeOK, Waving
<1>3. First(Cardinality(pins), demands) = pins
  <2>1. demands \subseteq Nat /\ IsFiniteSet(demands)
    BY <1>2, WavesAssumption, OrderAssumption, FS_Subset
  <2> QED
    BY <1>2, <2>1, FirstOfPrefix
<1>4. Submit(pins) /\ pins \in SUBSET Expert
  BY <1>1, <1>2, <1>3 DEF StartWave, Prefix
<1>5. batch' = pins /\ home' = [e \in Expert |-> IF e \in pins THEN Placement(e) ELSE NoDevice]
  BY <1>4, SubmitAsks DEF WavesInv
<1>6. ASSUME NEW e \in pins PROVE Placement(e) = DemandDevice(e)
  <2>1. e \in Expert /\ DemandDevice(e) # Unplaced
    BY <1>4, DevicesAssumption DEF DemandDevice
  <2>2. key_placements[e] = IF key_sharded THEN Unplaced ELSE DemandDevice(e)
    BY <2>1 DEF WavesInv, LayerInv, PlacementsOK
  <2> QED
    BY <2>1, <2>2 DEF Placement, DemandDevice
<1> QED
  BY <1>4, <1>5, <1>6

(* A wave is made of pinned Experts, each submitted where its pin was taken.*)
THEOREM WavesArePinnedAlways == WavesSpec => WavesArePinned
<1>1. WavesInv /\ [WavesNext]_vars =>
        [pc = "prepared" /\ exists' /\ ~exists =>
            /\ batch' \subseteq pins
            /\ \A e \in batch' : home'[e] = DemandDevice(e)]_vars
  BY WaveOfPins
<1> QED
  BY <1>1, WavesInvariant, PTL DEF WavesSpec, WavesArePinned

(* To its submission a layer is a caller as its specification assumes one,  *)
(* so what is proved of the submission holds in a layer.                    *)
THEOREM LayersUseSubmissions == WavesSpec => SubmissionSpec
<1>1. WavesInit => SubmissionInit
  BY DEF WavesInit
<1>2. WavesInv /\ [WavesNext]_vars => [SubmissionNext]_<<placement, submission>>
  BY WavesKept DEF svars
<1> QED
  BY <1>1, <1>2, WavesInvariant, PTL DEF WavesSpec, SubmissionSpec

(* In a layer, too, the submission keeps the promise of a single backend.   *)
THEOREM LayersHonourContract == WavesSpec => ContractHonoured
BY LayersUseSubmissions, SubmissionImplementsContract, PTL
=============================================================================
