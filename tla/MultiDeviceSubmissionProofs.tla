-------------------- MODULE MultiDeviceSubmissionProofs --------------------
(***************************************************************************)
(* What MultiDeviceSubmission promises for any number of devices and       *)
(* Experts: the batch over several devices implements the contract of one  *)
(* backend (module ExpertSubmission).  The invariant says how far the loop *)
(* over the children has come: which of them were waited for, and which of *)
(* the executed outputs already lie in the private buffers.                *)
(***************************************************************************)
EXTENDS MultiDeviceSubmission, TLAPS

svars == <<placement, submission>>

Gone == ~exists => batch = {} /\ call = "none" /\ ~waited /\ ~committed /\ ~aborted
Settled == /\ committed => waited /\ ~aborted
           /\ exists /\ ~committed => outputs = {}
           /\ aborted \/ committed => \A d \in Used : child[d] # "live"
Answered == /\ \A d \in Used : child[d] # "none"
            /\ \A d \in well_shaped : child[d] # "null"
WaitProgress == exists /\ (waited \/ call # "none") =>
    \A d \in Used : (waited \/ d \notin todo) => child[d] = "null" \/ d \in drained
CommitProgress == Committing =>
    \A d \in Used \ todo : child[d] # "live" /\ ExecutedIn(Mine(d)) \subseteq private_outputs

(* The inductive invariant.                                                *)
SubmissionInv ==
    /\ SubmissionTypeOK /\ Gone /\ Settled /\ Answered /\ WaitProgress /\ CommitProgress
    /\ AllOrNothing /\ ExecutedWasReserved

LEMMA InitInv == SubmissionInit => SubmissionInv
<1> SUFFICES ASSUME SubmissionInit PROVE SubmissionInv
  OBVIOUS
<1>1. SubmissionTypeOK
  BY DevicesAssumption DEF SubmissionInit, SubmissionTypeOK, Status, Place
<1>2. Used = {}
  BY DEF SubmissionInit, Used
<1> QED
  BY <1>1, <1>2 DEF SubmissionInit, SubmissionInv, Gone, Settled, Answered, WaitProgress,
     CommitProgress, AllOrNothing, ExecutedWasReserved, Committing

(* An executed request lives on the device of a child that answered.       *)
LEMMA ExecutedHasChild ==
    ASSUME SubmissionInv, NEW e \in batch, final[e] = "Executed"
    PROVE  /\ e \in Expert /\ home[e] \in Device /\ home[e] \in Used
           /\ child[home[e]] # "null" /\ planned[e] = "Executed"
<1>1. e \in Expert /\ home[e] \in well_shaped /\ planned[e] = "Executed"
  BY DEF SubmissionInv, SubmissionTypeOK, ExecutedWasReserved
<1>2. home[e] \in Device /\ home[e] # NoDevice
  BY <1>1, DevicesAssumption DEF SubmissionInv, SubmissionTypeOK
<1>3. child[home[e]] # "null"
  BY <1>1 DEF SubmissionInv, Answered
<1> QED
  BY <1>1, <1>2, <1>3 DEF Used

LEMMA AdmitInv ==
    ASSUME SubmissionInv, NEW keys \in SUBSET Expert, Admit(keys)
    PROVE  SubmissionInv'
<1>1. key_placements' \in [Expert -> Place]
  BY DevicesAssumption DEF Admit, Placed, Place, DemandDevice, SubmissionInv, SubmissionTypeOK
<1> QED
  BY <1>1 DEF Admit, submission, SubmissionInv, SubmissionTypeOK, Gone, Settled, Answered,
     WaitProgress, CommitProgress, AllOrNothing, ExecutedWasReserved, Used, Committing,
     ExecutedIn, Mine

LEMMA SubmitInv ==
    ASSUME SubmissionInv, NEW requests \in SUBSET Expert, Submit(requests)
    PROVE  SubmissionInv'
<1> DEFINE place == [e \in Expert |-> IF e \in requests THEN Placement(e) ELSE NoDevice]
           asked == {place[e] : e \in requests} \ {NoDevice}
<1>1. PICK answer \in [asked -> {"null", "malformed", "live"}] :
      \E reserved \in [requests -> Status] :
         /\ planned' = [e \in Expert |->
                              IF e \notin requests THEN "NotResident"
                              ELSE IF place[e] \in asked /\ answer[place[e]] = "live"
                              THEN reserved[e] ELSE "Failed"]
         /\ final' = planned'
         /\ child' = [d \in Device |->
                                  IF d \notin asked THEN "none"
                                  ELSE IF answer[d] = "malformed" THEN "aborted"
                                  ELSE answer[d]]
         /\ well_shaped' = {d \in asked : answer[d] = "live"}
  <2>1. \E answer \in [asked -> {"null", "malformed", "live"}] :
        \E reserved \in [requests -> Status] :
              LET plan == [e \in Expert |->
                              IF e \notin requests THEN "NotResident"
                              ELSE IF place[e] \in asked /\ answer[place[e]] = "live"
                              THEN reserved[e] ELSE "Failed"]
              IN  /\ planned' = plan /\ final' = plan
                  /\ child' = [d \in Device |->
                                  IF d \notin asked THEN "none"
                                  ELSE IF answer[d] = "malformed" THEN "aborted"
                                  ELSE answer[d]]
                  /\ well_shaped' = {d \in asked : answer[d] = "live"}
    BY Zenon DEF Submit
  <2> HIDE DEF place, asked
  <2> QED
    BY <2>1
<1>2. /\ ~exists /\ exists' = TRUE /\ batch' = requests /\ home' = place /\ outputs' = {}
      /\ key_sharded' = key_sharded /\ key_placements' = key_placements
      /\ private_outputs' = private_outputs /\ drained' = drained
      /\ waited' = FALSE /\ committed' = FALSE /\ aborted' = FALSE
      /\ call' = "none" /\ todo' = todo
  BY DEF Submit, placement, SubmissionInv, Gone, SubmissionTypeOK
<1>3. \A e \in Expert : Placement(e) \in Device \cup {NoDevice}
  BY DevicesAssumption DEF Placement, SubmissionInv, SubmissionTypeOK, Place
<1>4. place \in [Expert -> Device \cup {NoDevice}]
  BY <1>3
<1>5. asked \subseteq Device
  BY <1>4
<1>6. /\ planned' \in [Expert -> Status] /\ final' = planned'
      /\ \A e \in requests : planned'[e] = "Executed" => place[e] \in well_shaped'
  BY <1>1 DEF Status
<1>7. /\ child' \in [Device -> {"none", "null", "live", "committed", "aborted"}]
      /\ \A d \in asked : child'[d] # "none"
      /\ \A d \in well_shaped' : child'[d] # "null"
  <2>1. \A d \in asked : answer[d] \in {"null", "malformed", "live"}
    BY <1>1
  <2>2. \A d \in Device : child'[d] = IF d \notin asked THEN "none"
                                     ELSE IF answer[d] = "malformed" THEN "aborted"
                                     ELSE answer[d]
    BY <1>1
  <2> HIDE DEF asked
  <2> QED
    BY <1>1, <1>5, <2>1, <2>2
<1>8. well_shaped' \subseteq Device
  BY <1>1, <1>5
<1> HIDE DEF place, asked
<1>9. SubmissionTypeOK'
  BY <1>2, <1>4, <1>6, <1>7, <1>8 DEF SubmissionTypeOK, SubmissionInv
<1>10. Used' = asked
  BY <1>2 DEF Used, asked
<1> QED
  BY <1>2, <1>6, <1>7, <1>9, <1>10 DEF SubmissionInv, Gone, Settled, Answered, WaitProgress,
     CommitProgress, AllOrNothing, ExecutedWasReserved, Committing

LEMMA EnterInv ==
    ASSUME SubmissionInv, NEW operation \in {"wait", "commit", "destroy"}, Enter(operation)
    PROVE  SubmissionInv'
<1>1. Used \subseteq Device
  BY DevicesAssumption DEF Used, SubmissionInv, SubmissionTypeOK
<1>2. Used' = Used /\ ExecutedIn(batch)' = ExecutedIn(batch)
  BY DEF Enter, Used, ExecutedIn
<1> QED
  BY <1>1, <1>2 DEF Enter, placement, SubmissionInv, SubmissionTypeOK, Gone, Settled, Answered,
     WaitProgress, CommitProgress, AllOrNothing, ExecutedWasReserved, Committing

LEMMA WaitChildInv ==
    ASSUME SubmissionInv, NEW d \in Device, WaitChild(d)
    PROVE  SubmissionInv'
<1>1. /\ call # "none" /\ ~waited /\ exists /\ ~committed /\ d \in todo
      /\ todo' = todo \ {d} /\ home' = home /\ batch' = batch /\ planned' = planned
      /\ well_shaped' = well_shaped
      /\ exists' = TRUE /\ waited' = FALSE /\ committed' = FALSE /\ aborted' = aborted /\ call' = call
      /\ outputs' = {} /\ private_outputs' = private_outputs
      /\ key_sharded' = key_sharded /\ key_placements' = key_placements
  BY DEF WaitChild, NextChild, placement, SubmissionInv, Gone, Settled, SubmissionTypeOK
<1>2. Used' = Used
  BY <1>1 DEF Used
<1>3. /\ final' \in [Expert -> Status]
      /\ child' \in [Device -> {"none", "null", "live", "committed", "aborted"}]
      /\ drained' \subseteq Device /\ drained \subseteq drained'
      /\ \A c \in Device : child'[c] = child[c] \/ (child[c] # "null" /\ child'[c] = "aborted")
      /\ child[d] = "null" \/ d \in drained'
      /\ \A e \in batch : final'[e] = "Executed" =>
            final[e] = "Executed" \/ (planned[e] = "Executed" /\ home[e] \in well_shaped)
  <2>1. CASE child[d] = "null"
    BY <2>1 DEF WaitChild, SubmissionInv, SubmissionTypeOK
  <2>2. CASE child[d] # "null"
    <3>1. PICK results \in [Mine(d) -> Status], one_each \in BOOLEAN :
             /\ final' = [e \in Expert |->
                             IF e \notin Mine(d) THEN final[e]
                             ELSE IF Trusted(d, results, one_each) THEN results[e] ELSE "Failed"]
             /\ child' = IF Trusted(d, results, one_each) THEN child
                         ELSE [child EXCEPT ![d] = "aborted"]
      BY <2>2, Zenon DEF WaitChild
    <3>2. drained' = drained \cup {d}
      BY <2>2 DEF WaitChild
    <3>3. Mine(d) \subseteq Expert /\ \A e \in Mine(d) : home[e] = d
      BY DEF Mine, SubmissionInv, SubmissionTypeOK
    <3>4. final' \in [Expert -> Status]
      BY <3>1, <3>3 DEF SubmissionInv, SubmissionTypeOK, Status
    <3>5. \A e \in batch : final'[e] = "Executed" =>
            final[e] = "Executed" \/ (planned[e] = "Executed" /\ home[e] \in well_shaped)
      BY <3>1, <3>3 DEF Trusted, SubmissionInv, SubmissionTypeOK
    <3>6. /\ child' \in [Device -> {"none", "null", "live", "committed", "aborted"}]
          /\ \A c \in Device : child'[c] = child[c] \/ (child[c] # "null" /\ child'[c] = "aborted")
      BY <2>2, <3>1 DEF SubmissionInv, SubmissionTypeOK
    <3> QED
      BY <3>2, <3>4, <3>5, <3>6 DEF SubmissionInv, SubmissionTypeOK
  <2> QED
    BY <2>1, <2>2
<1>4. SubmissionTypeOK'
  BY <1>1, <1>3 DEF SubmissionInv, SubmissionTypeOK
<1>5. Used \subseteq Device /\ well_shaped \subseteq Device
  BY DevicesAssumption DEF Used, SubmissionInv, SubmissionTypeOK
<1>6. Settled' /\ Answered'
  BY <1>1, <1>2, <1>3, <1>5 DEF SubmissionInv, Settled, Answered
<1>7. WaitProgress'
  BY <1>1, <1>2, <1>3, <1>5 DEF SubmissionInv, WaitProgress
<1>8. ExecutedWasReserved'
  BY <1>1, <1>3 DEF SubmissionInv, ExecutedWasReserved
<1> QED
  BY <1>1, <1>4, <1>6, <1>7, <1>8 DEF SubmissionInv, Gone, CommitProgress, Committing,
     AllOrNothing

LEMMA UsedDevices ==
    ASSUME SubmissionInv
    PROVE  Used \subseteq Device
BY DevicesAssumption DEF Used, SubmissionInv, SubmissionTypeOK

LEMMA EndWaitInv ==
    ASSUME SubmissionInv, EndWait
    PROVE  SubmissionInv'
<1>1. Used' = Used /\ Used \subseteq Device
  BY UsedDevices DEF EndWait, Used
<1>2. /\ todo = {} /\ call # "none" /\ waited = FALSE /\ committed = FALSE /\ exists = TRUE
      /\ waited' = TRUE /\ todo' \in {todo, Used} /\ call' \in {"none", call}
      /\ call' = "none" \/ todo' = Used
  BY DEF EndWait, SubmissionInv, SubmissionTypeOK, Settled, Gone
<1>3. /\ batch' = batch /\ home' = home /\ child' = child /\ drained' = drained
      /\ well_shaped' = well_shaped /\ planned' = planned /\ final' = final
      /\ committed' = committed /\ aborted' = aborted /\ exists' = exists
      /\ private_outputs' = private_outputs /\ outputs' = outputs
      /\ key_sharded' = key_sharded /\ key_placements' = key_placements
  BY DEF EndWait, placement
<1>4. SubmissionTypeOK'
  BY <1>1, <1>2, <1>3 DEF SubmissionInv, SubmissionTypeOK
<1>5. CommitProgress'
  BY <1>1, <1>2, <1>3 DEF CommitProgress, Committing
<1>6. WaitProgress' /\ Settled' /\ Answered'
  BY <1>1, <1>2, <1>3 DEF SubmissionInv, WaitProgress, Settled, Answered
<1> QED
  BY <1>1, <1>2, <1>3, <1>4, <1>5, <1>6 DEF SubmissionInv, Gone, AllOrNothing,
     ExecutedWasReserved

(* What every abort leaves.                                                *)
LEMMA AbortedChildren ==
    ASSUME SubmissionInv
    PROVE  /\ Aborted(child) \in [Device -> {"none", "null", "committed", "aborted"}]
           /\ \A d \in Device : /\ Aborted(child)[d] = "none" <=> child[d] = "none"
                                /\ Aborted(child)[d] = "null" <=> child[d] = "null"
                                /\ Aborted(child)[d] # "live"
BY DEF Aborted, SubmissionInv, SubmissionTypeOK

LEMMA AbortedInv ==
    ASSUME SubmissionInv, exists = TRUE, committed = FALSE,
           aborted' = TRUE, child' = Aborted(child),
           call' \in {"none", call}, call' = call \/ waited, todo' \in {todo, {}},
           todo' = todo \/ waited,
           UNCHANGED <<placement, exists, batch, home, drained, well_shaped, planned, final,
                       waited, committed, private_outputs, outputs>>
    PROVE  SubmissionInv'
<1>1. Used' = Used /\ Used \subseteq Device /\ well_shaped \subseteq Device
  BY UsedDevices DEF Used, SubmissionInv, SubmissionTypeOK
<1>2. SubmissionTypeOK'
  BY AbortedChildren DEF placement, SubmissionInv, SubmissionTypeOK
<1>3. Settled' /\ Answered'
  <2>1. /\ \A d \in Used : child'[d] # "none"
        /\ \A d \in well_shaped : child'[d] # "null"
        /\ \A d \in Used : child'[d] # "live"
    BY <1>1, AbortedChildren DEF SubmissionInv, Answered
  <2>2. Answered'
    BY <1>1, <2>1 DEF Answered
  <2>3. Settled'
    BY <1>1, <2>1 DEF SubmissionInv, Settled
  <2> QED
    BY <2>2, <2>3
<1>4. WaitProgress'
  BY <1>1, AbortedChildren DEF SubmissionInv, WaitProgress
<1> QED
  BY <1>1, <1>2, <1>3, <1>4 DEF SubmissionInv, Gone, CommitProgress, Committing, AllOrNothing,
     ExecutedWasReserved

LEMMA UnchangedInv ==
    ASSUME SubmissionInv, exists,
           call' = "none",
           UNCHANGED <<placement, exists, batch, home, child, drained, well_shaped, planned,
                       final, waited, committed, aborted, private_outputs, outputs>>,
           todo' \subseteq todo
    PROVE  SubmissionInv'
<1>1. Used' = Used /\ ExecutedIn(batch)' = ExecutedIn(batch)
  BY DEF Used, ExecutedIn
<1>2. SubmissionTypeOK'
  BY DEF placement, SubmissionInv, SubmissionTypeOK
<1>3. Gone' /\ Settled' /\ Answered' /\ CommitProgress'
  BY <1>1 DEF SubmissionInv, Gone, Settled, Answered, CommitProgress, Committing
<1>4. WaitProgress'
  BY <1>1 DEF SubmissionInv, WaitProgress
<1> QED
  BY <1>1, <1>2, <1>3, <1>4 DEF SubmissionInv, AllOrNothing, ExecutedWasReserved

LEMMA AbortInv ==
    ASSUME SubmissionInv, Abort
    PROVE  SubmissionInv'
<1>1. CASE committed \/ aborted
  <2>1. UNCHANGED svars
    BY <1>1 DEF Abort, svars, submission, placement
  <2>2. Used' = Used
    BY <2>1 DEF Used, svars, submission
  <2> QED
    BY <2>1, <2>2 DEF svars, placement, submission, SubmissionInv, SubmissionTypeOK, Gone,
       Settled, Answered, WaitProgress, CommitProgress, Committing, AllOrNothing,
       ExecutedWasReserved, ExecutedIn, Mine
<1>2. CASE ~(committed \/ aborted)
  <2>1. /\ exists = TRUE /\ committed = FALSE /\ aborted' = TRUE /\ child' = Aborted(child)
        /\ call' = call /\ todo' = todo
        /\ UNCHANGED <<placement, exists, batch, home, drained, well_shaped, planned, final,
                       waited, committed, private_outputs, outputs>>
    BY <1>2 DEF Abort, SubmissionInv, SubmissionTypeOK
  <2> QED
    BY <2>1, AbortedInv
<1> QED
  BY <1>1, <1>2

LEMMA CommitRefusedInv ==
    ASSUME SubmissionInv, CommitRefused
    PROVE  SubmissionInv'
<1>1. exists
  BY DEF CommitRefused, SubmissionInv, Gone
<1> QED
  BY <1>1, UnchangedInv DEF CommitRefused

LEMMA ChildThrowsInv ==
    ASSUME SubmissionInv, ChildThrows
    PROVE  SubmissionInv'
<1>1. exists
  BY DEF ChildThrows, SubmissionInv, Gone
<1> QED
  BY <1>1, UnchangedInv DEF ChildThrows

LEMMA AbortCommitInv ==
    ASSUME SubmissionInv, Committing, AbortCommit
    PROVE  SubmissionInv'
<1>1. exists = TRUE /\ committed = FALSE /\ waited
  BY DEF Committing, SubmissionInv, SubmissionTypeOK, Gone
<1> QED
  BY <1>1, AbortedInv DEF AbortCommit

LEMMA CommitChildInv ==
    ASSUME SubmissionInv, NEW d \in Device, CommitChild(d)
    PROVE  SubmissionInv'
<1>1. CASE AbortCommit
  BY <1>1, AbortCommitInv DEF CommitChild
<1>2. CASE /\ todo' = todo \ {d}
           /\ UNCHANGED <<placement, exists, batch, home, drained, well_shaped, planned,
                          final, waited, committed, aborted, outputs, call>>
           /\ \/ /\ child[d] \in {"live", "committed"} /\ ExecutedIn(Mine(d)) # {}
                 /\ child' = [child EXCEPT ![d] = "committed"]
                 /\ private_outputs' = private_outputs \cup ExecutedIn(Mine(d))
              \/ /\ child[d] = "null" \/ ExecutedIn(Mine(d)) = {}
                 /\ child' = IF child[d] = "live" THEN [child EXCEPT ![d] = "aborted"] ELSE child
                 /\ UNCHANGED private_outputs
  <2>1. Committing /\ d \in todo /\ exists = TRUE /\ waited = TRUE /\ committed = FALSE
        /\ aborted = FALSE
    BY DEF CommitChild, NextChild, Committing, SubmissionInv, SubmissionTypeOK, Gone
  <2>2. /\ Used' = Used /\ Used \subseteq Device /\ well_shaped \subseteq Device
        /\ ExecutedIn(Mine(d)) \subseteq Expert
    BY <1>2, UsedDevices DEF Used, ExecutedIn, Mine, SubmissionInv, SubmissionTypeOK
  <2>3. /\ child' \in [Device -> {"none", "null", "live", "committed", "aborted"}]
        /\ \A c \in Device : c # d => child'[c] = child[c]
        /\ child'[d] # "live"
        /\ child[d] = "null" => child'[d] = "null"
        /\ child[d] # "null" => child'[d] # "null"
        /\ child[d] # "none" => child'[d] # "none"
    BY <1>2 DEF SubmissionInv, SubmissionTypeOK
  <2>4. private_outputs \subseteq private_outputs' /\ private_outputs' \subseteq Expert
    BY <1>2, <2>2 DEF SubmissionInv, SubmissionTypeOK
  <2>5. ExecutedIn(Mine(d)) \subseteq private_outputs'
    <3>1. CASE child[d] = "null"
      BY <3>1, ExecutedHasChild DEF ExecutedIn, Mine
    <3>2. CASE child[d] # "null"
      BY <1>2, <3>2
    <3> QED
      BY <3>1, <3>2
  <2>6. SubmissionTypeOK'
    BY <1>2, <2>3, <2>4 DEF placement, SubmissionInv, SubmissionTypeOK
  <2>7. \A c \in Used : ExecutedIn(Mine(c))' = ExecutedIn(Mine(c))
    BY <1>2 DEF ExecutedIn, Mine
  <2>8. CommitProgress'
    BY <1>2, <2>1, <2>2, <2>3, <2>4, <2>5, <2>7 DEF SubmissionInv, CommitProgress
  <2>9. Settled' /\ Answered' /\ WaitProgress'
    BY <1>2, <2>1, <2>2, <2>3 DEF SubmissionInv, Settled, Answered, WaitProgress
  <2> QED
    BY <1>2, <2>1, <2>6, <2>8, <2>9 DEF SubmissionInv, Gone, AllOrNothing, ExecutedWasReserved
<1> QED
  BY <1>1, <1>2, Zenon DEF CommitChild

LEMMA PublishInv ==
    ASSUME SubmissionInv, Publish
    PROVE  SubmissionInv'
<1>1. Committing /\ todo = {} /\ exists = TRUE /\ waited = TRUE /\ committed' = TRUE
      /\ call' = "none" /\ outputs' = ExecutedIn(batch)
  BY DEF Publish, Committing, SubmissionInv, SubmissionTypeOK, Gone
<1>2. /\ Used' = Used /\ ExecutedIn(batch)' = ExecutedIn(batch)
      /\ ExecutedIn(batch) \subseteq Expert
  BY DEF Publish, Used, ExecutedIn, SubmissionInv, SubmissionTypeOK
<1>3. ExecutedIn(batch) \subseteq private_outputs
  <2>1. SUFFICES ASSUME NEW e \in batch, final[e] = "Executed" PROVE e \in private_outputs
    BY DEF ExecutedIn
  <2>2. home[e] \in Used
    BY <2>1, ExecutedHasChild
  <2>3. ExecutedIn(Mine(home[e])) \subseteq private_outputs
    BY <1>1, <2>2 DEF SubmissionInv, CommitProgress
  <2> QED
    BY <2>1, <2>3 DEF ExecutedIn, Mine
<1>4. SubmissionTypeOK'
  BY <1>1, <1>2 DEF Publish, placement, SubmissionInv, SubmissionTypeOK
<1>5. AllOrNothing'
  BY <1>1, <1>2, <1>3 DEF Publish, AllOrNothing
<1>6. Settled' /\ Answered' /\ WaitProgress'
  BY <1>1, <1>2 DEF Publish, Committing, SubmissionInv, CommitProgress, Settled, Answered,
     WaitProgress
<1> QED
  BY <1>1, <1>4, <1>5, <1>6 DEF Publish, SubmissionInv, Gone, CommitProgress, Committing,
     ExecutedWasReserved

LEMMA DestroyInv ==
    ASSUME SubmissionInv, Destroy
    PROVE  SubmissionInv'
<1>1. /\ exists' = FALSE /\ batch' = {} /\ private_outputs' = {} /\ drained' = {}
      /\ well_shaped' = {} /\ waited' = FALSE /\ committed' = FALSE /\ aborted' = FALSE
      /\ call' = "none" /\ todo' = {} /\ outputs' = outputs
      /\ home' = [e \in Expert |-> NoDevice] /\ child' = [d \in Device |-> "none"]
      /\ planned' = [e \in Expert |-> "NotResident"] /\ final' = planned'
      /\ key_sharded' = key_sharded /\ key_placements' = key_placements
  BY DEF Destroy, placement
<1>2. Used' = {}
  BY <1>1 DEF Used
<1>3. SubmissionTypeOK'
  BY <1>1 DEF SubmissionInv, SubmissionTypeOK, Status
<1> QED
  BY <1>1, <1>2, <1>3 DEF SubmissionInv, Gone, Settled, Answered, WaitProgress,
     CommitProgress, Committing, AllOrNothing, ExecutedWasReserved

LEMMA StutterInv ==
    ASSUME SubmissionInv, UNCHANGED svars
    PROVE  SubmissionInv'
<1>1. Used' = Used
  BY DEF Used, svars, submission
<1> QED
  BY <1>1 DEF svars, placement, submission, SubmissionInv, SubmissionTypeOK, Gone,
     Settled, Answered, WaitProgress, CommitProgress, Committing, AllOrNothing,
     ExecutedWasReserved, ExecutedIn, Mine

LEMMA NextInv ==
    ASSUME SubmissionInv, [SubmissionNext]_svars
    PROVE  SubmissionInv'
BY AdmitInv, SubmitInv, EnterInv, WaitChildInv, EndWaitInv, AbortInv, CommitRefusedInv,
   ChildThrowsInv, CommitChildInv, PublishInv, DestroyInv, StutterInv DEF SubmissionNext, SubmissionStep

LEMMA SubmissionInvariant == SubmissionSpec => []SubmissionInv
<1>1. SubmissionInv /\ [SubmissionNext]_svars => SubmissionInv'
  BY NextInv
<1> QED
  BY <1>1, InitInv, PTL DEF SubmissionSpec, svars

(* Every field of a submission over several devices keeps its type.        *)
THEOREM SubmissionTypeCorrect == SubmissionSpec => []SubmissionTypeOK
<1>1. SubmissionInv => SubmissionTypeOK
  BY DEF SubmissionInv
<1> QED
  BY <1>1, SubmissionInvariant, PTL

(* The caller's buffers get every executed output or none (commit).        *)
THEOREM OutputsAllOrNothing == SubmissionSpec => []AllOrNothing
<1>1. SubmissionInv => AllOrNothing
  BY DEF SubmissionInv
<1> QED
  BY <1>1, SubmissionInvariant, PTL

(* Whatever a backend replies, only work that a well-formed child had      *)
(* reserved counts as executed (wait).                                     *)
THEOREM OnlyReservedExecutes == SubmissionSpec => []ExecutedWasReserved
<1>1. SubmissionInv => ExecutedWasReserved
  BY DEF SubmissionInv
<1> QED
  BY <1>1, SubmissionInvariant, PTL

-----------------------------------------------------------------------------
LEMMA DestroySettles ==
    ASSUME SubmissionInv, [SubmissionNext]_svars, exists, ~exists', NEW d \in Used,
           child[d] # "null"
    PROVE  d \in drained /\ child[d] \in {"committed", "aborted"}
<1>1. Destroy
  BY Zenon DEF SubmissionNext, SubmissionStep, Admit, Submit, Enter, WaitChild, CommitChild,
     AbortCommit, EndWait, Abort, CommitRefused, ChildThrows, Publish, submission, svars
<1>2. waited /\ (committed \/ aborted) /\ d \in Device
  BY <1>1, UsedDevices DEF Destroy
<1> QED
  BY <1>2 DEF SubmissionInv, SubmissionTypeOK, Settled, Answered, WaitProgress

(* When a submission goes, each child that was ever created has been       *)
(* waited for and has committed or been aborted (the destructor).          *)
THEOREM NoChildOutlives == SubmissionSpec => ChildrenSettled
<1>1. SubmissionInv /\ [SubmissionNext]_svars =>
        [exists /\ ~exists' =>
            \A d \in Used : child[d] # "null" =>
                d \in drained /\ child[d] \in {"committed", "aborted"}]_submission
  BY DestroySettles
<1> QED
  BY <1>1, SubmissionInvariant, PTL DEF SubmissionSpec, svars, ChildrenSettled

-----------------------------------------------------------------------------
(* The refinement: what the contract sees of a state.                      *)
Phase == IF ~exists THEN "none"
         ELSE IF committed THEN "published"
         ELSE IF aborted THEN "withdrawn"
         ELSE IF waited THEN "finished" ELSE "reserved"
ReservedWork == {e \in batch : planned[e] = "Executed"}
ReportedWork == IF waited /\ ~aborted THEN ExecutedIn(batch) ELSE {}
View == <<Phase, ReservedWork, ReportedWork, outputs>>

LEMMA SameView ==
    ASSUME UNCHANGED View
    PROVE  UNCHANGED Contract!vars
BY DEF View, Phase, ReservedWork, ReportedWork, Contract!vars

LEMMA InitView == SubmissionInit => Contract!Init
BY DEF SubmissionInit, Contract!Init, ExecutedIn

LEMMA QuietSteps ==
    ASSUME UNCHANGED <<exists, batch, planned, waited, committed, aborted, outputs>>,
           waited /\ ~aborted => final' = final
    PROVE  UNCHANGED Contract!vars
<1>1. ReportedWork' = ReportedWork
  BY DEF ReportedWork, ExecutedIn
<1> QED
  BY <1>1, SameView DEF View, Phase, ReservedWork

LEMMA SubmitReserves ==
    ASSUME SubmissionInv, NEW requests \in SUBSET Expert, Submit(requests)
    PROVE  Contract!Reserve
<1>1. /\ ~exists /\ exists' /\ batch' = requests /\ outputs' = {}
      /\ ~waited' /\ ~committed' /\ ~aborted'
  BY DEF Submit, SubmissionInv, Gone
<1> QED
  BY <1>1 DEF Contract!Reserve

LEMMA EndWaitFinishes ==
    ASSUME SubmissionInv, EndWait
    PROVE  Contract!Finish \/ UNCHANGED Contract!vars
<1>1. /\ exists /\ ~waited /\ ~committed /\ waited' /\ exists' /\ ~committed'
      /\ aborted' = aborted /\ outputs' = outputs /\ batch' = batch /\ planned' = planned
      /\ final' = final
  BY DEF EndWait, SubmissionInv, Settled, Gone
<1>2. ExecutedIn(batch) \subseteq ReservedWork
  BY DEF ExecutedIn, ReservedWork, SubmissionInv, ExecutedWasReserved
<1>3. ExecutedIn(batch)' = ExecutedIn(batch) /\ ReservedWork' = ReservedWork
  BY <1>1 DEF ExecutedIn, ReservedWork
<1>4. CASE aborted
  <2>1. UNCHANGED View
    BY <1>1, <1>3, <1>4 DEF View, Phase, ReportedWork
  <2> QED
    BY <2>1, SameView
<1>5. CASE ~aborted
  <2>1. /\ Phase = "reserved" /\ Phase' = "finished" /\ ReportedWork' \in SUBSET ReservedWork
        /\ ReservedWork' = ReservedWork /\ outputs' = outputs
    BY <1>1, <1>2, <1>3, <1>5 DEF Phase, ReportedWork
  <2> QED
    BY <2>1 DEF Contract!Finish, Phase, ReportedWork, ReservedWork
<1> QED
  BY <1>4, <1>5

LEMMA AbortWithdraws ==
    ASSUME SubmissionInv, exists, ~committed, ~aborted, aborted' = TRUE,
           UNCHANGED <<exists, batch, planned, committed, outputs>>
    PROVE  Contract!Withdraw
BY DEF Contract!Withdraw

LEMMA PublishPublishes ==
    ASSUME SubmissionInv, Publish
    PROVE  Contract!Publish
<1>1. /\ exists /\ exists' /\ ~committed /\ committed' /\ ~aborted /\ ~aborted' /\ waited
      /\ waited' /\ outputs' = ExecutedIn(batch) /\ batch' = batch /\ planned' = planned
      /\ final' = final
  BY DEF Publish, Committing, SubmissionInv, Gone
<1>2. ExecutedIn(batch)' = ExecutedIn(batch)
  BY <1>1 DEF ExecutedIn
<1> QED
  BY <1>1, <1>2 DEF Contract!Publish

LEMMA DestroyDrops ==
    ASSUME SubmissionInv, Destroy
    PROVE  Contract!Drop
<1>1. /\ exists /\ (committed \/ aborted) /\ ~exists' /\ batch' = {} /\ ~waited'
      /\ outputs' = outputs
  BY DEF Destroy, SubmissionInv, Gone
<1> QED
  BY <1>1 DEF Contract!Drop

LEMMA StepView ==
    ASSUME SubmissionInv, [SubmissionNext]_svars
    PROVE  [Contract!Next]_(Contract!vars)
<1> SUFFICES Contract!Next \/ UNCHANGED Contract!vars
  OBVIOUS
<1>1. ASSUME NEW keys \in SUBSET Expert, Admit(keys) PROVE UNCHANGED Contract!vars
  BY <1>1, QuietSteps DEF Admit, submission
<1>2. ASSUME NEW requests \in SUBSET Expert, Submit(requests) PROVE Contract!Next
  BY <1>2, SubmitReserves DEF Contract!Next
<1>3. ASSUME NEW operation \in {"wait", "commit", "destroy"}, Enter(operation)
      PROVE UNCHANGED Contract!vars
  BY <1>3, QuietSteps DEF Enter
<1>4. ASSUME NEW d \in Device, WaitChild(d) PROVE UNCHANGED Contract!vars
  BY <1>4, QuietSteps DEF WaitChild
<1>5. CASE EndWait
  BY <1>5, EndWaitFinishes DEF Contract!Next
<1>6. CASE Abort
  <2>1. CASE committed \/ aborted
    BY <1>6, <2>1, QuietSteps DEF Abort
  <2>2. CASE ~(committed \/ aborted)
    BY <1>6, <2>2, AbortWithdraws DEF Abort, Contract!Next
  <2> QED
    BY <2>1, <2>2
<1>7. CASE CommitRefused
  BY <1>7, QuietSteps DEF CommitRefused
<1>8. ASSUME NEW d \in Device, CommitChild(d) PROVE Contract!Next \/ UNCHANGED Contract!vars
  <2>1. CASE AbortCommit
    BY <1>8, <2>1, AbortWithdraws DEF CommitChild, Committing, AbortCommit, SubmissionInv, Gone,
       Contract!Next
  <2>2. CASE UNCHANGED <<placement, exists, batch, home, drained, well_shaped, planned,
                         final, waited, committed, aborted, outputs, call>>
    BY <2>2, QuietSteps
  <2> QED
    BY <1>8, <2>1, <2>2, Zenon DEF CommitChild
<1>9. CASE Publish
  BY <1>9, PublishPublishes DEF Contract!Next
<1>10. CASE Destroy
  BY <1>10, DestroyDrops DEF Contract!Next
<1>11. CASE ChildThrows
  BY <1>11, QuietSteps DEF ChildThrows
<1>12. CASE UNCHANGED svars
  BY <1>12, QuietSteps DEF svars, submission
<1> QED
  BY <1>1, <1>2, <1>3, <1>4, <1>5, <1>6, <1>7, <1>8, <1>9, <1>10, <1>11, <1>12, Zenon
     DEF SubmissionNext, SubmissionStep

(* The submission over several devices implements the contract of a single *)
(* backend: it reserves, reports a part of what it reserved, publishes all *)
(* of that at once or withdraws, and is not dropped before.                *)
THEOREM SubmissionImplementsContract == SubmissionSpec => ContractHonoured
<1>1. SubmissionInv /\ [SubmissionNext]_svars => [Contract!Next]_(Contract!vars)
  BY StepView
<1> QED
  BY <1>1, InitView, SubmissionInvariant, PTL
     DEF SubmissionSpec, svars, ContractHonoured, Contract!Spec
=============================================================================
