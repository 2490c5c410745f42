--------------------------- MODULE SerialSessions ---------------------------
(***************************************************************************)
(* What the batch scheduler promises: every session has one line of work,  *)
(* served in the order in which it was let in; a piece of work that spans  *)
(* several sessions enters only when all their lines are empty and runs    *)
(* when it heads all of them; a batch is answered once, after all of its   *)
(* requests ran and left their lines.                                      *)
(* A work is a record with the number of its batch and the sequence of the *)
(* requests it runs; a request names its session.                          *)
(***************************************************************************)
EXTENDS Naturals, Sequences

CONSTANTS Sessions, Submissions, Works

VARIABLES
    line,      \* works let in and not yet retired, per session
    executed,  \* works that ran
    batch      \* sequence of [requests, promise]

vars == <<line, executed, batch>>

Served(work) == {work.requests[i].session : i \in DOMAIN work.requests}
InLine(work) == \E s \in Sessions : \E i \in DOMAIN line[s] : line[s][i] = work
AtHead(work) ==
    /\ Served(work) \subseteq Sessions
    /\ \A s \in Served(work) : line[s] # << >> /\ Head(line[s]) = work
Untouched(b) ==
    \A work \in Works : work.batch = b => ~InLine(work) /\ work \notin executed
Answered(b) ==
    /\ \A i \in DOMAIN batch[b].requests : \E work \in executed :
           /\ work.batch = b
           /\ \E j \in DOMAIN work.requests : work.requests[j] = batch[b].requests[i]
    /\ \A work \in Works : work.batch = b => ~InLine(work)

Init ==
    /\ line = [s \in Sessions |-> << >>]
    /\ executed = {}
    /\ batch = << >>

(* A submission is accepted, or answered at once with errors.              *)
Submit ==
    /\ \E requests \in Submissions, promise \in {"pending", "ready"} :
           batch' = Append(batch, [requests |-> requests, promise |-> promise])
    /\ UNCHANGED <<line, executed>>

Promise(b, from, to) ==
    /\ batch[b].promise = from
    /\ batch' = [batch EXCEPT ![b].promise = to]
    /\ UNCHANGED <<line, executed>>

(* A batch is turned away before any of its work was let in.               *)
Refuse(b) == Promise(b, "pending", "ready") /\ Untouched(b)

(* The submission ends in an exception: the caller gets no future.         *)
Abandon(b) == Promise(b, "pending", "broken")

Admit(work) ==
    /\ work.batch \in DOMAIN batch
    /\ batch[work.batch].promise = "pending"
    /\ UNCHANGED <<executed, batch>>
    /\ work \notin executed /\ ~InLine(work)
    /\ Len(work.requests) > 1 => \A s \in Served(work) : line[s] = << >>
    /\ line' = [s \in Sessions |->
                   IF s \in Served(work) THEN Append(line[s], work) ELSE line[s]]

Execute(work) ==
    /\ work \notin executed
    /\ executed' = executed \cup {work}
    /\ AtHead(work)
    /\ UNCHANGED <<line, batch>>

Retire(work) ==
    /\ work \in executed
    /\ UNCHANGED <<executed, batch>>
    /\ AtHead(work)
    /\ line' = [s \in Sessions |->
                   IF s \in Served(work) THEN Tail(line[s]) ELSE line[s]]

Resolve(b) == Promise(b, "pending", "ready") /\ Answered(b)

Next ==
    \/ Submit
    \/ \E b \in DOMAIN batch : Refuse(b) \/ Abandon(b) \/ Resolve(b)
    \/ \E work \in Works : Execute(work)
    \/ line' # line /\ \E work \in Works : Admit(work) \/ Retire(work)

Spec == Init /\ [][Next]_vars
=============================================================================
