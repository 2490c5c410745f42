----------------------- MODULE MultiDeviceSubmission -----------------------
(***************************************************************************)
(* MultiDeviceExpertBackend::Submission (src/src/engine/expertbackend.cpp):*)
(* a batch of Expert requests spread over the backends of several devices. *)
(* Each device gets a submission of its own, a child, that writes into     *)
(* outputs private to the batch; the caller's buffers change only when     *)
(* every child that executed something has committed.  The children are    *)
(* external: one may be missing, answer with the wrong number of           *)
(* reservations or results, report work it had not reserved, or refuse to  *)
(* commit.  One round of a loop over the children is one action, so that   *)
(* it shows what a failure in the middle of the loop leaves behind.        *)
(***************************************************************************)
EXTENDS Naturals, FiniteSets

CONSTANTS
    Expert,       \* cache keys of the Experts
    Device,       \* indices of `backends', in order
    NoDevice,     \* an index beyond the last backend
    Unplaced,     \* no entry in key_placements
    GroupDevice,  \* backend_for_group, of the layer each key belongs to
    FallbackOf    \* fallback_backend: the hash of a key

Place == Device \cup {NoDevice, Unplaced}

ASSUME DevicesAssumption ==
    /\ Device \subseteq Nat
    /\ NoDevice \notin Device /\ Unplaced \notin Device \cup {NoDevice}
    /\ GroupDevice \in [Expert -> Device \cup {NoDevice}]
    /\ FallbackOf \in [Expert -> Device]

Status == {"NotResident", "Executed", "Failed"}

VARIABLES
    key_sharded,      \* created by create_key_sharded
    key_placements,   \* the device an Expert was last demanded or admitted on
    exists,           \* a Submission object is alive
    batch,            \* its client_requests
    home,             \* the device of each request
    child,            \* the state of each device's submission
    drained,          \* devices whose child was waited for
    well_shaped,      \* devices with reservation_shape_valid
    planned,
    final,
    waited,
    committed,
    aborted,
    private_outputs,  \* requests whose private output a child has committed
    outputs,          \* requests whose output the caller's buffer now holds
    call,             \* the operation in progress
    todo              \* devices its loop has not reached yet

placement == <<key_sharded, key_placements>>
submission == <<exists, batch, home, child, drained, well_shaped, planned,
                final, waited, committed, aborted, private_outputs, outputs,
                call, todo>>

(* select, admit and submit_batch: which device an Expert is demanded on,  *)
(* and which one is asked to execute it.                                   *)
DemandDevice(e) == IF key_sharded THEN FallbackOf[e] ELSE GroupDevice[e]
Placement(e) ==
    IF key_placements[e] = Unplaced THEN FallbackOf[e] ELSE key_placements[e]
Placed(keys) ==
    [e \in Expert |->
        IF e \in keys /\ ~key_sharded THEN DemandDevice(e) ELSE key_placements[e]]

Mine(d) == {e \in batch : home[e] = d}
Used == {home[e] : e \in batch} \ {NoDevice}
ExecutedIn(requests) == {e \in requests : final[e] = "Executed"}
NextChild(d) == d \in todo /\ \A other \in todo : d <= other

SubmissionTypeOK ==
    /\ key_sharded \in BOOLEAN
    /\ key_placements \in [Expert -> Place]
    /\ exists \in BOOLEAN
    /\ batch \subseteq Expert
    /\ home \in [Expert -> Device \cup {NoDevice}]
    /\ child \in [Device -> {"none", "null", "live", "committed", "aborted"}]
    /\ drained \subseteq Device /\ well_shaped \subseteq Device
    /\ planned \in [Expert -> Status] /\ final \in [Expert -> Status]
    /\ waited \in BOOLEAN /\ committed \in BOOLEAN /\ aborted \in BOOLEAN
    /\ private_outputs \subseteq Expert /\ outputs \subseteq Expert
    /\ call \in {"none", "wait", "commit", "destroy"}
    /\ todo \subseteq Device

SubmissionInit ==
    /\ key_sharded \in BOOLEAN
    /\ key_placements = [e \in Expert |-> Unplaced]
    /\ exists = FALSE /\ batch = {}
    /\ home = [e \in Expert |-> NoDevice]
    /\ child = [d \in Device |-> "none"]
    /\ drained = {} /\ well_shaped = {}
    /\ planned = [e \in Expert |-> "NotResident"]
    /\ final = [e \in Expert |-> "NotResident"]
    /\ waited = FALSE /\ committed = FALSE /\ aborted = FALSE
    /\ private_outputs = {} /\ outputs = {}
    /\ call = "none" /\ todo = {}

(* admit, and the record a demand leaves of its device.                    *)
Admit(keys) ==
    /\ key_placements' = Placed(keys)
    /\ UNCHANGED <<key_sharded, submission>>

(* submit_batch and the constructor: every device with requests is asked   *)
(* for its reservations.  A missing child, one with the wrong number of    *)
(* reservations and an unknown device fail their requests.                 *)
Submit(requests) ==
    LET place == [e \in Expert |-> IF e \in requests THEN Placement(e) ELSE NoDevice]
        asked == {place[e] : e \in requests} \ {NoDevice}
    IN  /\ ~exists /\ exists' = TRUE
        /\ batch' = requests /\ home' = place
        /\ \E answer \in [asked -> {"null", "malformed", "live"}] :
           \E reserved \in [requests -> Status] :
              LET plan == [e \in Expert |->
                              IF e \notin requests THEN "NotResident"
                              ELSE IF place[e] \in asked /\ answer[place[e]] = "live"
                              THEN reserved[e] ELSE "Failed"]
              IN  /\ planned' = plan /\ final' = plan
                  /\ child' = [d \in Device |->
                                  IF d \notin asked THEN "none"
                                  ELSE IF answer[d] = "malformed" THEN "aborted"
                                  ELSE answer[d]]
                  /\ well_shaped' = {d \in asked : answer[d] = "live"}
        /\ outputs' = {}
        /\ UNCHANGED <<placement, drained, private_outputs, waited, committed, aborted, call,
                       todo>>

(* The caller enters wait, commit or the destructor.                       *)
Enter(operation) ==
    /\ exists /\ call = "none"
    /\ operation \in {"wait", "commit", "destroy"}
    /\ operation = "wait" => ~waited
    /\ call' = operation /\ todo' = Used
    /\ UNCHANGED <<placement, exists, batch, home, child, drained, well_shaped, planned,
                   final, waited, committed, aborted, private_outputs, outputs>>

(* Results are refused when their number is wrong or they report work that *)
(* was not reserved.                                                       *)
TrustedShape(d, results, one_each) == d \in well_shaped /\ one_each   \* mutant
Trusted(d, results, one_each) ==
    /\ d \in well_shaped /\ one_each
    /\ \A e \in Mine(d) : results[e] = "Executed" => planned[e] = "Executed"

(* A round of the loop of wait: the results of one child.                  *)
WaitChild(d) ==
    /\ call # "none" /\ ~waited /\ NextChild(d)
    /\ todo' = todo \ {d}
    /\ \/ /\ child[d] = "null"
          /\ UNCHANGED <<child, drained, final>>
       \/ /\ child[d] # "null"
          /\ drained' = drained \cup {d}
          /\ \E results \in [Mine(d) -> Status], one_each \in BOOLEAN :
                LET valid == Trusted(d, results, one_each)
                IN  /\ final' = [e \in Expert |->
                                    IF e \notin Mine(d) THEN final[e]
                                    ELSE IF valid THEN results[e] ELSE "Failed"]
                    /\ child' = IF valid THEN child
                                ELSE [child EXCEPT ![d] = "aborted"]
    /\ UNCHANGED <<placement, exists, batch, home, well_shaped, planned, waited,
                   committed, aborted, private_outputs, outputs, call>>

EndWait ==
    /\ call # "none" /\ ~waited /\ todo = {}
    /\ waited' = TRUE
    /\ IF call = "wait" THEN call' = "none" /\ UNCHANGED todo
                        ELSE todo' = Used /\ UNCHANGED call
    /\ UNCHANGED <<placement, exists, batch, home, child, drained, well_shaped, planned,
                   final, committed, aborted, private_outputs, outputs>>

(* abort, by the caller or by the destructor: every child that has not     *)
(* committed.                                                              *)
Aborted(children) ==
    [d \in Device |-> IF children[d] = "live" THEN "aborted" ELSE children[d]]

Abort ==
    /\ exists
    /\ call = "none" \/ (call = "destroy" /\ waited)
    /\ IF committed \/ aborted THEN UNCHANGED <<aborted, child>>
       ELSE aborted' = TRUE /\ child' = Aborted(child)
    /\ UNCHANGED <<placement, exists, batch, home, drained, well_shaped, planned, final,
                   waited, committed, private_outputs, outputs, call, todo>>

CommitRefused ==
    /\ call = "commit" /\ waited
    /\ committed \/ aborted
    /\ call' = "none" /\ todo' = {}
    /\ UNCHANGED <<placement, exists, batch, home, child, drained, well_shaped, planned,
                   final, waited, committed, aborted, private_outputs, outputs>>

Committing == call = "commit" /\ waited /\ ~committed /\ ~aborted
AbortCommit ==
    /\ aborted' = TRUE /\ child' = Aborted(child)
    /\ call' = "none" /\ todo' = {}
    /\ UNCHANGED <<placement, exists, batch, home, drained, well_shaped, planned, final,
                   waited, committed, private_outputs, outputs>>

(* A round of the loop of commit.  A child without executed requests is    *)
(* aborted; one that refuses ends the commit with an abort of all.  So     *)
(* does an executed request without an output buffer, which is refused     *)
(* before the loop: it leaves the same as a first child that refuses.      *)
CommitChild(d) ==
    /\ Committing /\ NextChild(d)
    /\ \/ /\ child[d] \in {"live", "committed"} /\ ExecutedIn(Mine(d)) # {}
          /\ child' = [child EXCEPT ![d] = "committed"]
          /\ private_outputs' = private_outputs \cup ExecutedIn(Mine(d))
          /\ todo' = todo \ {d}
          /\ UNCHANGED <<placement, exists, batch, home, drained, well_shaped, planned,
                         final, waited, committed, aborted, outputs, call>>
       \/ /\ child[d] # "null" /\ ExecutedIn(Mine(d)) # {}
          /\ AbortCommit
       \/ /\ child[d] = "null" \/ ExecutedIn(Mine(d)) = {}
          /\ child' = IF child[d] = "live" THEN [child EXCEPT ![d] = "aborted"] ELSE child
          /\ todo' = todo \ {d}
          /\ UNCHANGED <<placement, exists, batch, home, drained, well_shaped, planned,
                         final, waited, committed, aborted, private_outputs, outputs, call>>

(* A child throws in the loop of wait or commit: the rounds before stay,   *)
(* and a later wait or commit begins again with the first child.           *)
ChildThrows ==
    /\ call \in {"wait", "commit"} /\ todo # {}
    /\ call' = "none" /\ todo' = {}
    /\ UNCHANGED <<placement, exists, batch, home, child, drained, well_shaped, planned,
                   final, waited, committed, aborted, private_outputs, outputs>>

(* The swaps into the caller's buffers, after the loop.                    *)
Publish ==
    /\ Committing /\ todo = {}
    /\ outputs' = ExecutedIn(batch)
    /\ committed' = TRUE
    /\ call' = "none"
    /\ UNCHANGED <<placement, exists, batch, home, child, drained, well_shaped, planned,
                   final, waited, aborted, private_outputs, todo>>

(* The destructor ends, after its wait and its abort.                      *)
Destroy ==
    /\ call = "destroy" /\ waited
    /\ committed \/ aborted
    /\ exists' = FALSE /\ batch' = {} /\ private_outputs' = {}
    /\ home' = [e \in Expert |-> NoDevice]
    /\ planned' = [e \in Expert |-> "NotResident"] /\ final' = planned'
    /\ child' = [d \in Device |-> "none"] /\ drained' = {} /\ well_shaped' = {}
    /\ waited' = FALSE /\ committed' = FALSE /\ aborted' = FALSE
    /\ call' = "none" /\ todo' = {}
    /\ UNCHANGED <<placement, outputs>>

(* One step inside an operation that the caller has entered.               *)
SubmissionStep ==
    \/ \E d \in Device : WaitChild(d) \/ CommitChild(d)
    \/ EndWait \/ Publish
    \/ call = "destroy" /\ Abort
    \/ Destroy

SubmissionNext ==
    \/ \E keys \in SUBSET Expert : Admit(keys)
    \/ \E requests \in SUBSET Expert : Submit(requests)
    \/ \E operation \in {"wait", "commit", "destroy"} : Enter(operation)
    \/ Abort \/ CommitRefused \/ ChildThrows
    \/ SubmissionStep

SubmissionSpec ==
    SubmissionInit /\ [][SubmissionNext]_<<placement, submission>>

-----------------------------------------------------------------------------
(* All or nothing: while a submission is alive the caller's buffers hold   *)
(* either every executed output, each of them written by a child that      *)
(* committed it, or none at all: a child that refuses after others have    *)
(* committed leaves nothing behind.                                        *)
AllOrNothing ==
    exists /\ outputs # {} =>
        committed /\ outputs = ExecutedIn(batch) /\ outputs \subseteq private_outputs

(* Only work that was reserved counts as executed, whatever the children   *)
(* report, and only work of a child whose reservations were well-formed.   *)
ExecutedWasReserved ==
    \A e \in batch : final[e] = "Executed" =>
        planned[e] = "Executed" /\ home[e] \in well_shaped

(* No child outlives the submission: when it goes, each of its children    *)
(* was waited for and has either committed or been aborted.                *)
ChildrenSettled ==
    [][exists /\ ~exists' =>
        \A d \in Used : child[d] # "null" =>
            d \in drained /\ child[d] \in {"committed", "aborted"}]_submission

(* The promise of the base class.                                          *)
Contract == INSTANCE ExpertSubmission WITH
    phase <- IF ~exists THEN "none"
             ELSE IF committed THEN "published"
             ELSE IF aborted THEN "withdrawn"
             ELSE IF waited THEN "finished" ELSE "reserved",
    reserved <- {e \in batch : planned[e] = "Executed"},
    executed <- IF waited /\ ~aborted THEN ExecutedIn(batch) ELSE {},
    output <- outputs

(* The submission over several devices keeps the promise that any single   *)
(* backend makes, however its children misbehave.                          *)
ContractHonoured == Contract!Spec
=============================================================================
