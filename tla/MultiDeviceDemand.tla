------------------------- MODULE MultiDeviceDemand -------------------------
(***************************************************************************)
(* MultiDeviceExpertDemandSubmission (src/src/engine/expertbackend.cpp):   *)
(* one bounded upload of Expert weights to the devices, in the background  *)
(* of whatever the caller submits meanwhile.  The requests are cut into    *)
(* segments of neighbours that live on the same device, each segment is    *)
(* begun on its own backend, and the pins the caller gets are those of a   *)
(* contiguous prefix of its requests.  The backends are external and may   *)
(* refuse a segment, prepare a part of it or answer nonsense.              *)
(*                                                                         *)
(* Experts are numbered by their place among the active Experts of the     *)
(* layer, the order in which every list of requests names them.            *)
(***************************************************************************)
EXTENDS MultiDeviceSubmission

ASSUME OrderAssumption == Expert \subseteq Nat

VARIABLES
    uploading,  \* an ExpertDemandSubmission is alive
    requested,  \* its requests
    pins        \* requests whose nonempty pin the caller holds

upload == <<uploading, requested, pins>>

(* The first n members of a list of Experts.                               *)
First(n, experts) ==
    {e \in experts : Cardinality({f \in experts : f < e}) < n}


Between(e, f, g) == (e <= g /\ g <= f) \/ (f <= g /\ g <= e)

(* Requests up to the first whose device has no backend.                   *)
Accepted(requests) ==
    {e \in requests : \A f \in requests : f <= e => DemandDevice(f) # NoDevice}

(* The children: neighbours on the same device.                            *)
Segment(requests, e) ==
    {f \in requests : \A g \in requests :
                          Between(e, f, g) => DemandDevice(g) = DemandDevice(e)}
Segments(requests) == {Segment(Accepted(requests), e) : e \in Accepted(requests)}

UploadInit == uploading = FALSE /\ requested = {} /\ pins = {}

UploadTypeOK == uploading \in BOOLEAN /\ requested \subseteq Expert /\ pins \subseteq Expert

BeginDemandBatch(requests) ==
    /\ ~uploading /\ uploading' = TRUE
    /\ requested' = requests
    /\ key_placements' = Placed(Accepted(requests))
    /\ UNCHANGED <<key_sharded, pins>>

(* A child that has not finished its whole segment closes the prefix: the  *)
(* children after it are aborted and give no pins.                         *)
AlwaysOpen(full, s) == TRUE   \* mutant
PrefixOpen(full, s) ==
    \A t \in Segments(requested) : (\A e \in t, f \in s : e < f) => t \in full

(* wait: each child prepares a prefix of its segment; one that is missing, *)
(* reports more than it was asked or hands out a hollow pin gives none.    *)
WaitDemand ==
    /\ uploading /\ uploading' = FALSE
    /\ \E prepared \in [Segments(requested) -> 0 .. Cardinality(Expert) + 1] :
       \E invalid \in SUBSET Segments(requested) :
          LET valid == {s \in Segments(requested) \ invalid : prepared[s] <= Cardinality(s)}
              full == {s \in valid : prepared[s] = Cardinality(s)}
          IN  pins' = UNION {First(prepared[s], s) : s \in {t \in valid : PrefixOpen(full, t)}}
    /\ requested' = {}
    /\ UNCHANGED placement

(* abort, and the destructor of a submission nobody waited for.            *)
AbortDemand ==
    /\ uploading /\ uploading' = FALSE
    /\ requested' = {} /\ pins' = {}
    /\ UNCHANGED placement
=============================================================================
