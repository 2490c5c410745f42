-------------------------- MODULE ExpertSubmission --------------------------
(***************************************************************************)
(* What a caller may rely on when it gives a batch of Expert requests to a *)
(* backend (class ExpertSubmission of src/src/engine/expertbackend.h): the *)
(* backend first reserves some requests, later reports which of the        *)
(* reserved ones were executed, and then either all executed outputs reach *)
(* the caller in one step or none ever does.  A submission is never        *)
(* dropped before it was published or withdrawn.                           *)
(***************************************************************************)
CONSTANT Expert

VARIABLES
    phase,     \* where the submission is in its life
    reserved,  \* requests reserved as Executed
    executed,  \* requests reported as Executed
    output     \* requests whose output reached the caller's buffer

vars == <<phase, reserved, executed, output>>

Init == phase = "none" /\ reserved = {} /\ executed = {} /\ output = {}

Reserve ==
    /\ phase = "none" /\ phase' = "reserved"
    /\ reserved' \in SUBSET Expert
    /\ executed' = {} /\ output' = {}

Finish ==
    /\ phase = "reserved" /\ phase' = "finished"
    /\ executed' \in SUBSET reserved
    /\ UNCHANGED <<reserved, output>>

Publish ==
    /\ phase = "finished" /\ phase' = "published"
    /\ output' = executed
    /\ UNCHANGED <<reserved, executed>>

Withdraw ==
    /\ phase \in {"reserved", "finished"} /\ phase' = "withdrawn"
    /\ executed' = {}
    /\ UNCHANGED <<reserved, output>>

Drop ==
    /\ phase \in {"published", "withdrawn"} /\ phase' = "none"
    /\ reserved' = {} /\ executed' = {}
    /\ UNCHANGED output

Next == Reserve \/ Finish \/ Publish \/ Withdraw \/ Drop

Spec == Init /\ [][Next]_vars
=============================================================================
