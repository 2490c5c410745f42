------------------------- MODULE BatchServiceProofs -------------------------
(***************************************************************************)
(* The pieces of work of the batch scheduler, from submission to answer:   *)
(* none is lost, doubled or run twice, a batch is answered in full, and    *)
(* the scheduler implements SerialSessions.                                *)
(***************************************************************************)
EXTENDS BatchSchedulerProofs

-----------------------------------------------------------------------------
(* Answers.  A piece of work is named by its batch and its slot, and lies in  *)
(* one place: ready, behind a reserved session, or with a worker until its   *)
(* results are published.                                                   *)
Carrying == {w \in Workers : worker[w] \notin {"ready", "asleep", "exited"}}
PlacesIn(q, pending, C) ==
    {<<"ready", i, 0>> : i \in DOMAIN q}
    \cup (UNION {{<<"pending", s, i>> : i \in DOMAIN pending[s]} : s \in DOMAIN pending})
    \cup {<<"carried", w, 0>> : w \in C}
PieceIn(q, pending, carried, p) ==
    CASE p[1] = "ready" -> q[p[2]]
      [] p[1] = "pending" -> pending[p[2]][p[3]]
      [] OTHER -> carried[p[2]]
Places == PlacesIn(queue, session_queues, Carrying)
At(p) == PieceIn(queue, session_queues, work, p)
Name(piece) == <<piece.batch, piece.slot>>
Alive == {Name(At(p)) : p \in Places}

(* What a caller has still to enqueue of its batch, and what a batch waits    *)
(* for.                                                                     *)
CallerOwes(c, b, i) ==
    /\ caller[c].step \in Submitting /\ caller[c].batch = b
    /\ IF caller[c].step = "notify" THEN i > caller[c].slot ELSE i >= caller[c].slot
Owed(b) ==
    {i \in DOMAIN batches[b].requests :
        <<b, i>> \in Alive \/ \E c \in Callers : CallerOwes(c, b, i)}

(* Every piece is part of an accepted batch, and no piece is there twice.    *)
Known(piece) ==
    /\ piece.batch \in DOMAIN batches
    /\ IF piece.slot = 0 THEN piece.requests = batches[piece.batch].requests
       ELSE /\ piece.slot \in DOMAIN batches[piece.batch].requests
            /\ piece.requests = <<batches[piece.batch].requests[piece.slot]>>
PiecesKnown == \A p \in Places : Known(At(p))
PiecesOnce == \A p, q \in Places : Name(At(p)) = Name(At(q)) => p = q
Pieces == PiecesKnown /\ PiecesOnce
(* Callers submit different batches, from the first request on, and have not  *)
(* enqueued what they owe.                                                  *)
CallerApart(c) ==
    caller[c].step \in Submitting =>
        /\ \A d \in Callers : caller[d].step \in Submitting /\ caller[d].batch = caller[c].batch
                                  => c = d
        /\ caller[c].step = "stage" => caller[c].slot = 1
        /\ \A i \in DOMAIN caller[c].requests :
               CallerOwes(c, caller[c].batch, i) => <<caller[c].batch, i>> \notin Alive
CallersApart == \A c \in Callers : CallerApart(c)
(* A whole batch is one piece.  A split one is answered when nothing of it is *)
(* left, and never if its submission failed half-way.                       *)
BatchRight(b) ==
    /\ <<b, 0>> \in Alive => Owed(b) = {}
    /\ batches[b].promise = "ready" => <<b, 0>> \notin Alive /\ Owed(b) = {}
    /\ Owed(b) # {} =>
           IF batches[b].promise = "broken" THEN Cardinality(Owed(b)) < batches[b].remaining
                                            ELSE Cardinality(Owed(b)) <= batches[b].remaining
BatchesRight == \A b \in DOMAIN batches : BatchRight(b)
(* The results belong to the sessions of the requests.                       *)
Answers(results, requests) ==
    \A i \in DOMAIN results : results[i].status = "ok" => results[i].session = requests[i].session
BatchAnswers(batch) ==
    /\ Answers(batch.results, batch.requests)
    /\ batch.promise = "ready" => DOMAIN batch.results = DOMAIN batch.requests
OutcomesMatch ==
    \A w \in Workers : worker[w] \in {"release", "announce", "complete"} =>
        Answers(outcome[w], work[w].requests)
ResultsMatch == (\A b \in DOMAIN batches : BatchAnswers(batches[b])) /\ OutcomesMatch
AnswerInv == Pieces /\ CallersApart /\ BatchesRight /\ ResultsMatch

(* The pieces of each kind of place.                                         *)
LEMMA PlaceKinds ==
  ASSUME NEW q, NEW pending, NEW C, NEW carried
  PROVE  /\ \A p : p \in PlacesIn(q, pending, C) <=>
               \/ \E i \in DOMAIN q : p = <<"ready", i, 0>>
               \/ \E s \in DOMAIN pending : \E i \in DOMAIN pending[s] : p = <<"pending", s, i>>
               \/ \E w \in C : p = <<"carried", w, 0>>
         /\ \A i : PieceIn(q, pending, carried, <<"ready", i, 0>>) = q[i]
         /\ \A s, i : PieceIn(q, pending, carried, <<"pending", s, i>>) = pending[s][i]
         /\ \A w : PieceIn(q, pending, carried, <<"carried", w, 0>>) = carried[w]
  <1>1. ASSUME NEW p
        PROVE  p \in PlacesIn(q, pending, C) <=>
                 \/ \E i \in DOMAIN q : p = <<"ready", i, 0>>
                 \/ \E s \in DOMAIN pending : \E i \in DOMAIN pending[s] : p = <<"pending", s, i>>
                 \/ \E w \in C : p = <<"carried", w, 0>>
    <2>1. p \in PlacesIn(q, pending, C) <=>
              \/ p \in {<<"ready", i, 0>> : i \in DOMAIN q}
              \/ \E s \in DOMAIN pending : p \in {<<"pending", s, i>> : i \in DOMAIN pending[s]}
              \/ p \in {<<"carried", w, 0>> : w \in C}
      BY DEF PlacesIn
    <2>2. p \in {<<"ready", i, 0>> : i \in DOMAIN q} <=> \E i \in DOMAIN q : p = <<"ready", i, 0>>
      OBVIOUS
    <2>3. \A s : p \in {<<"pending", s, i>> : i \in DOMAIN pending[s]}
                   <=> \E i \in DOMAIN pending[s] : p = <<"pending", s, i>>
      OBVIOUS
    <2>4. p \in {<<"carried", w, 0>> : w \in C} <=> \E w \in C : p = <<"carried", w, 0>>
      OBVIOUS
    <2> QED BY <2>1, <2>2, <2>3, <2>4
  <1>2. \A i : PieceIn(q, pending, carried, <<"ready", i, 0>>) = q[i]
    BY DEF PieceIn
  <1>3. \A s, i : PieceIn(q, pending, carried, <<"pending", s, i>>) = pending[s][i]
    BY DEF PieceIn
  <1>4. \A w : PieceIn(q, pending, carried, <<"carried", w, 0>>) = carried[w]
    BY DEF PieceIn
  <1> QED BY <1>1, <1>2, <1>3, <1>4

(* Pieces that only move stay known and single.                              *)
LEMMA PiecesMove ==
  ASSUME Pieces, BatchesStay, NEW f \in [Places' -> Places],
         \A p, q \in Places' : f[p] = f[q] => p = q,
         \A p \in Places' : At(p)' = At(f[p])
  PROVE  Pieces' /\ Alive' \subseteq Alive
  <1>1. \A piece : Known(piece) => Known(piece)'
    BY DEF Known, BatchesStay
  <1>2. PiecesKnown'
    <2>1. \A p \in Places' : f[p] \in Places
      OBVIOUS
    <2> QED BY <1>1, <2>1 DEF Pieces, PiecesKnown
  <1>3. PiecesOnce'
    <2>1. \A p \in Places' : f[p] \in Places
      OBVIOUS
    <2> QED BY <2>1 DEF Pieces, PiecesOnce
  <1>4. Alive' \subseteq Alive
    BY DEF Alive
  <1> QED BY <1>2, <1>3, <1>4 DEF Pieces

(* A new piece with a name of its own is known and single.                   *)
LEMMA PieceAdded ==
  ASSUME Pieces, BatchesStay, NEW n, NEW piece, Places' = Places \cup {n},
         \A p \in Places : At(p)' = At(p),
         At(n)' = piece, Known(piece), Name(piece) \notin Alive
  PROVE  Pieces' /\ Alive' = Alive \cup {Name(piece)}
  <1>1. \A q : Known(q) => Known(q)'
    BY DEF Known, BatchesStay
  <1>2. PiecesKnown'
    BY <1>1 DEF Pieces, PiecesKnown
  <1>3. \A p \in Places : Name(At(p)) # Name(piece)
    BY DEF Alive
  <1>4. PiecesOnce'
    <2> SUFFICES ASSUME NEW p \in Places', NEW q \in Places', Name(At(p)') = Name(At(q)')
                 PROVE  p = q
      BY DEF PiecesOnce
    <2>1. CASE p \in Places /\ q \in Places
      BY <2>1 DEF Pieces, PiecesOnce
    <2>2. CASE p = n \/ q = n
      BY <1>3, <2>2
    <2> QED BY <2>1, <2>2
  <1>5. Alive' = Alive \cup {Name(piece)}
    BY DEF Alive
  <1> QED BY <1>2, <1>4, <1>5 DEF Pieces

(* A piece that leaves takes its name with it.                               *)
LEMMA PieceGone ==
  ASSUME Pieces, BatchesStay, NEW n \in Places, Places' = Places \ {n},
         \A p \in Places' : At(p)' = At(p)
  PROVE  Pieces' /\ Alive' = Alive \ {Name(At(n))}
  <1>1. \A q : Known(q) => Known(q)'
    BY DEF Known, BatchesStay
  <1>2. PiecesKnown'
    BY <1>1 DEF Pieces, PiecesKnown
  <1>3. PiecesOnce'
    BY DEF Pieces, PiecesOnce
  <1>4. \A p \in Places' : Name(At(p)) # Name(At(n))
    BY DEF Pieces, PiecesOnce
  <1>5. Alive' = Alive \ {Name(At(n))}
    BY <1>4 DEF Alive
  <1> QED BY <1>2, <1>3, <1>5 DEF Pieces

(* The places before and after a step.                                       *)
LEMMA PlacesNow ==
  /\ \A p : p \in Places <=>
        \/ \E i \in DOMAIN queue : p = <<"ready", i, 0>>
        \/ \E s \in Reserved : \E i \in DOMAIN session_queues[s] : p = <<"pending", s, i>>
        \/ \E w \in Carrying : p = <<"carried", w, 0>>
  /\ \A i : At(<<"ready", i, 0>>) = queue[i]
  /\ \A s, i : At(<<"pending", s, i>>) = session_queues[s][i]
  /\ \A w : At(<<"carried", w, 0>>) = work[w]
  BY PlaceKinds DEF Places, At, Reserved
(* The same after a step.                                                    *)
LEMMA PlacesNext ==
  /\ \A p : p \in Places' <=>
        \/ \E i \in DOMAIN queue' : p = <<"ready", i, 0>>
        \/ \E s \in Reserved' : \E i \in DOMAIN session_queues'[s] : p = <<"pending", s, i>>
        \/ \E w \in Carrying' : p = <<"carried", w, 0>>
  /\ \A i : At(<<"ready", i, 0>>)' = queue'[i]
  /\ \A s, i : At(<<"pending", s, i>>)' = session_queues'[s][i]
  /\ \A w : At(<<"carried", w, 0>>)' = work'[w]
  <1>1. Places' = PlacesIn(queue', session_queues', Carrying')
    BY DEF Places
  <1>2. \A p : p \in Places' <=>
        \/ \E i \in DOMAIN queue' : p = <<"ready", i, 0>>
        \/ \E s \in Reserved' : \E i \in DOMAIN session_queues'[s] : p = <<"pending", s, i>>
        \/ \E w \in Carrying' : p = <<"carried", w, 0>>
    BY <1>1, PlaceKinds DEF Reserved
  <1>3. \A p : At(p)' = PieceIn(queue', session_queues', work', p)
    BY DEF At
  <1>4. /\ \A i : At(<<"ready", i, 0>>)' = queue'[i]
        /\ \A s, i : At(<<"pending", s, i>>)' = session_queues'[s][i]
        /\ \A w : At(<<"carried", w, 0>>)' = work'[w]
    BY <1>3, PlaceKinds
  <1> QED BY <1>2, <1>4

(* Taking the first ready piece moves pieces.                                *)
LEMMA TakeMoves ==
  ASSUME QueueTypes, WorkerTypes, Pieces, BatchesStay, NEW w \in Workers, Take(w)
  PROVE  Pieces' /\ Alive' \subseteq Alive
  <1> DEFINE n == Len(queue)
             from(p) == IF p[1] = "ready" THEN <<"ready", p[2] + 1, 0>>
                        ELSE IF p = <<"carried", w, 0>> THEN <<"ready", 1, 0>>
                        ELSE p
             f == [p \in Places' |-> from(p)]
  <1>1. /\ worker[w] = "ready" /\ queue # << >>
        /\ work' = [work EXCEPT ![w] = Head(queue)] /\ queue' = Tail(queue)
        /\ worker' = [worker EXCEPT ![w] = "lease"] /\ session_queues' = session_queues
    BY DEF Take
  <1>2. /\ n \in Nat /\ DOMAIN queue = 1 .. n /\ DOMAIN queue' = 1 .. n - 1 /\ n > 0
        /\ \A i \in 1 .. n - 1 : queue'[i] = queue[i + 1]
        /\ Head(queue) = queue[1]
    <2>1. queue \in Seq(Work)
      BY DEF QueueTypes
    <2> QED BY <1>1, <2>1, HeadTailProperties, LenProperties, EmptySeq
  <1> HIDE DEF n
  <1>3. Carrying' = Carrying \cup {w} /\ w \notin Carrying
    BY <1>1 DEF Carrying, WorkerTypes
  <1>4. Reserved' = Reserved
    BY <1>1 DEF Reserved
  <1>5. \A v \in Carrying : work'[v] = work[v]
    BY <1>1, <1>3 DEF Carrying, WorkerTypes
  <1>6. work'[w] = queue[1]
    BY <1>1, <1>2 DEF WorkerTypes
  <1>7. ASSUME NEW p \in Places'
        PROVE  from(p) \in Places /\ At(p)' = At(from(p))
    <2>1. CASE \E i \in DOMAIN queue' : p = <<"ready", i, 0>>
      <3>1. PICK i \in 1 .. n - 1 : p = <<"ready", i, 0>>
        BY <1>2, <2>1
      <3>2. from(p) = <<"ready", i + 1, 0>> /\ i + 1 \in DOMAIN queue
        BY <1>2, <3>1
      <3> HIDE DEF from
      <3> QED BY <1>2, <3>1, <3>2, PlacesNow, PlacesNext
    <2>2. CASE \E s \in Reserved' : \E i \in DOMAIN session_queues'[s] : p = <<"pending", s, i>>
      <3>0. PICK s \in Reserved' : \E i \in DOMAIN session_queues'[s] : p = <<"pending", s, i>>
        BY <2>2
      <3>1. PICK i \in DOMAIN session_queues'[s] : p = <<"pending", s, i>>
        BY <3>0
      <3>2. from(p) = p
        BY <3>1
      <3> HIDE DEF from
      <3> QED BY <1>1, <1>4, <3>1, <3>2, PlacesNow, PlacesNext
    <2>3. CASE \E v \in Carrying' : p = <<"carried", v, 0>>
      <3>1. PICK v \in Carrying' : p = <<"carried", v, 0>>
        BY <2>3
      <3>2. CASE v = w
        <4>1. from(p) = <<"ready", 1, 0>> /\ 1 \in DOMAIN queue
          BY <1>2, <3>1, <3>2
        <4> HIDE DEF from
        <4> QED BY <1>6, <3>1, <3>2, <4>1, PlacesNow, PlacesNext
      <3>3. CASE v # w
        <4>1. from(p) = p /\ v \in Carrying
          BY <1>3, <3>1, <3>3
        <4> HIDE DEF from
        <4> QED BY <1>5, <3>1, <4>1, PlacesNow, PlacesNext
      <3> QED BY <3>2, <3>3
    <2> HIDE DEF from
    <2> QED BY <2>1, <2>2, <2>3, PlacesNext
  <1>8. ASSUME NEW p \in Places', NEW q \in Places', from(p) = from(q)
        PROVE  p = q
    <2>1. /\ p[1] = "ready" => \E i \in 1 .. n - 1 : p = <<"ready", i, 0>>
          /\ q[1] = "ready" => \E i \in 1 .. n - 1 : q = <<"ready", i, 0>>
          /\ p[1] # "ready" => \E a, b, c : p = <<a, b, c>>
          /\ q[1] # "ready" => \E a, b, c : q = <<a, b, c>>
      BY <1>2, PlacesNext
    <2>2. CASE p[1] = "ready" /\ q[1] = "ready"
      <3>1. PICK i \in 1 .. n - 1, j \in 1 .. n - 1 : p = <<"ready", i, 0>> /\ q = <<"ready", j, 0>>
        BY <2>1, <2>2
      <3>2. <<"ready", i + 1, 0>> = <<"ready", j + 1, 0>>
        BY <1>8, <3>1
      <3> QED BY <1>2, <3>1, <3>2
    <2>3. CASE p[1] = "ready" /\ q[1] # "ready"
      <3>1. PICK i \in 1 .. n - 1 : p = <<"ready", i, 0>>
        BY <2>1, <2>3
      <3>2. from(p) = <<"ready", i + 1, 0>> /\ i + 1 # 1
        BY <1>2, <3>1
      <3>3. from(q) = <<"ready", 1, 0>> \/ from(q) = q
        BY <2>3
      <3> QED BY <1>8, <2>3, <3>2, <3>3
    <2>4. CASE p[1] # "ready" /\ q[1] = "ready"
      <3>1. PICK i \in 1 .. n - 1 : q = <<"ready", i, 0>>
        BY <2>1, <2>4
      <3>2. from(q) = <<"ready", i + 1, 0>> /\ i + 1 # 1
        BY <1>2, <3>1
      <3>3. from(p) = <<"ready", 1, 0>> \/ from(p) = p
        BY <2>4
      <3> QED BY <1>8, <2>4, <3>2, <3>3
    <2>5. CASE p[1] # "ready" /\ q[1] # "ready"
      <3>1. from(p) = p \/ (from(p) = <<"ready", 1, 0>> /\ p = <<"carried", w, 0>>)
        BY <2>5
      <3>2. from(q) = q \/ (from(q) = <<"ready", 1, 0>> /\ q = <<"carried", w, 0>>)
        BY <2>5
      <3> QED BY <1>8, <2>5, <3>1, <3>2
    <2> QED BY <2>2, <2>3, <2>4, <2>5
  <1>9. f \in [Places' -> Places]
    BY <1>7
  <1> HIDE DEF from
  <1>10. /\ \A p, q \in Places' : f[p] = f[q] => p = q
         /\ \A p \in Places' : At(p)' = At(f[p])
    BY <1>7, <1>8
  <1> HIDE DEF f
  <1> QED BY <1>9, <1>10, PiecesMove

(* What ReleaseSessions does to the list of ready work.                      *)
LEMMA ReleaseAppends ==
  ASSUME SchedulerAssumption, QueueTypes, NEW w \in Workers, ReleaseSessions(w),
         NEW waiting, waiting = Waiting(SessionsOf(work[w]))
  PROVE  \E m \in Nat : \E first \in [1 .. m -> waiting] :
            /\ \A i, j \in 1 .. m : i # j => first[i] # first[j]
            /\ Len(queue) \in Nat
            /\ DOMAIN queue = 1 .. Len(queue) /\ DOMAIN queue' = 1 .. Len(queue) + m
            /\ \A i \in 1 .. Len(queue) : queue'[i] = queue[i]
            /\ \A i \in 1 .. m : queue'[Len(queue) + i] = Head(session_queues[first[i]])
  <1> DEFINE n == Len(queue)
  <1>1. PICK first \in Ascending(waiting) :
            queue' = queue \o [i \in DOMAIN first |-> Head(session_queues[first[i]])]
    BY DEF ReleaseSessions
  <1>2. /\ waiting \subseteq Sessions /\ IsFiniteSet(Sessions)
        /\ \A s \in waiting : session_queues[s] \in Seq(Work) /\ session_queues[s] # << >>
    BY DEF QueueTypes, SchedulerAssumption, Waiting
  <1>3. PICK m \in Nat : /\ first \in [1 .. m -> waiting]
                         /\ \A i, j \in 1 .. m : i < j => first[i] < first[j]
    BY <1>1, <1>2, FS_Subset, FS_CardinalityType DEF Ascending
  <1>4. \A i, j \in 1 .. m : i # j => first[i] # first[j]
    <2>1. \A i \in 1 .. m : first[i] \in Nat
      BY <1>2, <1>3 DEF SchedulerAssumption
    <2>2. \A i, j \in 1 .. m : i # j => i < j \/ j < i
      OBVIOUS
    <2> QED BY <1>3, <2>1, <2>2
  <1> DEFINE heads == [i \in DOMAIN first |-> Head(session_queues[first[i]])]
  <1>5. heads \in [1 .. m -> Work] /\ \A i \in 1 .. m : heads[i] = Head(session_queues[first[i]])
    BY <1>2, <1>3, HeadTailProperties
  <1>6. queue' = queue \o heads
    BY <1>1
  <1> HIDE DEF heads
  <1>7. heads \in Seq(Work) /\ Len(heads) = m
    BY <1>5, SeqDef, LenProperties
  <1>8. queue \in Seq(Work) /\ n \in Nat /\ DOMAIN queue = 1 .. n
    BY LenProperties DEF QueueTypes
  <1>9. queue' \in Seq(Work) /\ Len(queue') = n + m
    <2>1. queue' \in Seq(Work) /\ Len(queue') = Len(queue) + Len(heads)
      BY <1>6, <1>7, <1>8, ConcatProperties
    <2> QED BY <1>7, <2>1
  <1>10. /\ \A i \in 1 .. n : queue'[i] = queue[i]
         /\ \A i \in 1 .. m : queue'[n + i] = heads[i]
    BY <1>6, <1>7, <1>8, ConcatProperties, LenProperties
  <1>11. DOMAIN queue' = 1 .. n + m
    BY <1>9, LenProperties
  <1>12. \A i \in 1 .. m : queue'[n + i] = Head(session_queues[first[i]])
    BY <1>5, <1>10
  <1>13. /\ \A i, j \in 1 .. m : i # j => first[i] # first[j]
         /\ n \in Nat
         /\ DOMAIN queue = 1 .. n /\ DOMAIN queue' = 1 .. n + m
         /\ \A i \in 1 .. n : queue'[i] = queue[i]
         /\ \A i \in 1 .. m : queue'[n + i] = Head(session_queues[first[i]])
    BY <1>4, <1>8, <1>10, <1>11, <1>12
  <1>14. first \in [1 .. m -> waiting]
    BY <1>3
  <1> QED BY <1>13, <1>14

(* Releasing sessions moves the first pending piece of each waiting session. *)
LEMMA ReleaseMoves ==
  ASSUME SchedulerAssumption, QueueTypes, WorkerTypes, Pieces, BatchesStay,
         NEW w \in Workers, ReleaseSessions(w)
  PROVE  Pieces' /\ Alive' \subseteq Alive
  <1> DEFINE S == SessionsOf(work[w])
             waiting == Waiting(S)
             n == Len(queue)
  <1>1. PICK m \in Nat : \E first \in [1 .. m -> waiting] :
            /\ \A i, j \in 1 .. m : i # j => first[i] # first[j]
            /\ Len(queue) \in Nat
            /\ DOMAIN queue = 1 .. Len(queue) /\ DOMAIN queue' = 1 .. Len(queue) + m
            /\ \A i \in 1 .. Len(queue) : queue'[i] = queue[i]
            /\ \A i \in 1 .. m : queue'[Len(queue) + i] = Head(session_queues[first[i]])
    BY ReleaseAppends
  <1>2. PICK first \in [1 .. m -> waiting] :
            /\ \A i, j \in 1 .. m : i # j => first[i] # first[j]
            /\ n \in Nat
            /\ DOMAIN queue = 1 .. n /\ DOMAIN queue' = 1 .. n + m
            /\ \A i \in 1 .. n : queue'[i] = queue[i]
            /\ \A i \in 1 .. m : queue'[n + i] = Head(session_queues[first[i]])
    BY <1>1
  <1>3. /\ session_queues' = [s \in Reserved \ (S \ waiting) |->
               IF s \in S THEN Tail(session_queues[s]) ELSE session_queues[s]]
        /\ worker[w] = "release" /\ worker' = [worker EXCEPT ![w] = "announce"]
        /\ work' = work
    BY DEF ReleaseSessions
  <1>4. Carrying' = Carrying
    BY <1>3 DEF Carrying, WorkerTypes
  <1>5. /\ Reserved' = Reserved \ (S \ waiting)
        /\ \A s \in Reserved' : session_queues'[s] = IF s \in S THEN Tail(session_queues[s])
                                                     ELSE session_queues[s]
    BY <1>3 DEF Reserved
  <1>6. ASSUME NEW s \in waiting
        PROVE  /\ s \in Reserved /\ s \in S
               /\ 1 \in DOMAIN session_queues[s] /\ Head(session_queues[s]) = session_queues[s][1]
               /\ \A i \in DOMAIN Tail(session_queues[s]) :
                     /\ i \in Nat \ {0} /\ i + 1 \in DOMAIN session_queues[s]
                     /\ Tail(session_queues[s])[i] = session_queues[s][i + 1]
    <2>1. session_queues[s] \in Seq(Work) /\ session_queues[s] # << >> /\ s \in Reserved /\ s \in S
      BY <1>6 DEF QueueTypes, Waiting
    <2> QED BY <2>1, HeadTailProperties, EmptySeq, LenProperties
  <1>7. \A s \in Reserved' : s \in S => s \in waiting
    BY <1>5
  <1> DEFINE from(p) == IF p[1] = "ready" /\ p[2] > n THEN <<"pending", first[p[2] - n], 1>>
                        ELSE IF p[1] = "pending" /\ p[2] \in S THEN <<"pending", p[2], p[3] + 1>>
                        ELSE p
             f == [p \in Places' |-> from(p)]
  <1> HIDE DEF n, S, waiting
  <1>8. ASSUME NEW p \in Places'
        PROVE  \/ \E i \in 1 .. n : p = <<"ready", i, 0>> /\ from(p) = p
               \/ \E k \in 1 .. m : p = <<"ready", n + k, 0>> /\ from(p) = <<"pending", first[k], 1>>
               \/ \E s \in waiting : \E i \in DOMAIN Tail(session_queues[s]) :
                      p = <<"pending", s, i>> /\ from(p) = <<"pending", s, i + 1>>
               \/ \E s \in Reserved \ S : \E i \in DOMAIN session_queues[s] :
                      /\ s \in Reserved'
                      /\ p = <<"pending", s, i>> /\ from(p) = p
               \/ \E v \in Carrying : p = <<"carried", v, 0>> /\ from(p) = p
    <2>1. CASE \E i \in DOMAIN queue' : p = <<"ready", i, 0>>
      <3>1. PICK i \in 1 .. n + m : p = <<"ready", i, 0>>
        BY <1>2, <2>1
      <3>2. CASE i > n
        <4>1. PICK k \in 1 .. m : k = i - n
          BY <1>2, <3>1, <3>2
        <4>2. i = n + k /\ i - n = k
          BY <1>2, <4>1
        <4> QED BY <3>1, <3>2, <4>1, <4>2
      <3>3. CASE ~(i > n)
        <4>1. i \in 1 .. n
          BY <1>2, <3>1, <3>3
        <4> QED BY <3>1, <3>3, <4>1
      <3> QED BY <3>2, <3>3
    <2>2. CASE \E s \in Reserved' : \E i \in DOMAIN session_queues'[s] : p = <<"pending", s, i>>
      <3>0. PICK s \in Reserved' : \E i \in DOMAIN session_queues'[s] : p = <<"pending", s, i>>
        BY <2>2
      <3>1. PICK i \in DOMAIN session_queues'[s] : p = <<"pending", s, i>>
        BY <3>0
      <3>2. CASE s \in S
        BY <1>5, <1>7, <3>1, <3>2
      <3>3. CASE s \notin S
        BY <1>5, <3>1, <3>3
      <3> QED BY <3>2, <3>3
    <2>3. CASE \E v \in Carrying' : p = <<"carried", v, 0>>
      BY <1>4, <2>3
    <2> QED BY <2>1, <2>2, <2>3, PlacesNext
  <1> HIDE DEF from
  <1>9. ASSUME NEW p \in Places'
        PROVE  from(p) \in Places /\ At(p)' = At(from(p))
    <2>1. CASE \E i \in 1 .. n : p = <<"ready", i, 0>> /\ from(p) = p
      BY <1>2, <2>1, PlacesNow, PlacesNext
    <2>2. CASE \E k \in 1 .. m : p = <<"ready", n + k, 0>> /\ from(p) = <<"pending", first[k], 1>>
      <3>1. PICK k \in 1 .. m : p = <<"ready", n + k, 0>> /\ from(p) = <<"pending", first[k], 1>>
        BY <2>2
      <3>2. first[k] \in waiting
        BY <1>2
      <3>3. queue'[n + k] = session_queues[first[k]][1]
        BY <1>2, <1>6, <3>2
      <3>4. first[k] \in Reserved /\ 1 \in DOMAIN session_queues[first[k]]
        BY <1>6, <3>2
      <3> QED BY <3>1, <3>3, <3>4, PlacesNow, PlacesNext
    <2>3. CASE \E s \in waiting : \E i \in DOMAIN Tail(session_queues[s]) :
                  p = <<"pending", s, i>> /\ from(p) = <<"pending", s, i + 1>>
      <3>0. PICK s \in waiting : \E i \in DOMAIN Tail(session_queues[s]) :
                  p = <<"pending", s, i>> /\ from(p) = <<"pending", s, i + 1>>
        BY <2>3
      <3>1. PICK i \in DOMAIN Tail(session_queues[s]) :
                  p = <<"pending", s, i>> /\ from(p) = <<"pending", s, i + 1>>
        BY <3>0
      <3>2. /\ s \in Reserved /\ i + 1 \in DOMAIN session_queues[s] /\ s \in S
            /\ Tail(session_queues[s])[i] = session_queues[s][i + 1]
        BY <1>6, <3>1
      <3>3. session_queues'[s] = Tail(session_queues[s])
        BY <1>5, <3>2
      <3>4. from(p) \in Places /\ At(from(p)) = session_queues[s][i + 1]
        BY <3>1, <3>2, PlacesNow
      <3>5. At(p)' = session_queues'[s][i]
        BY <3>1, PlacesNext
      <3> QED BY <3>2, <3>3, <3>4, <3>5
    <2>4. CASE \E s \in Reserved \ S : \E i \in DOMAIN session_queues[s] :
                  /\ s \in Reserved'
                  /\ p = <<"pending", s, i>> /\ from(p) = p
      BY <1>5, <2>4, PlacesNow, PlacesNext
    <2>5. CASE \E v \in Carrying : p = <<"carried", v, 0>> /\ from(p) = p
      BY <1>3, <2>5, PlacesNow, PlacesNext
    <2> QED BY <1>8, <2>1, <2>2, <2>3, <2>4, <2>5
  <1>10. ASSUME NEW p \in Places', NEW q \in Places', from(p) = from(q)
         PROVE  p = q
    <2> DEFINE Moved(x, k) == k \in 1 .. m /\ x = <<"ready", n + k, 0>>
                              /\ from(x) = <<"pending", first[k], 1>> /\ first[k] \in S
               Advanced(x, s, i) == x = <<"pending", s, i>> /\ from(x) = <<"pending", s, i + 1>>
                                    /\ i \in Nat \ {0} /\ s \in S
               Still(x) == from(x) = x /\ \A s \in S : \A i : x # <<"pending", s, i>>
    <2>1. \A x \in Places' : \/ \E k : Moved(x, k)
                             \/ \E s, i : Advanced(x, s, i)
                             \/ Still(x)
      <3> SUFFICES ASSUME NEW x \in Places'
                   PROVE  \/ \E k : Moved(x, k)
                          \/ \E s, i : Advanced(x, s, i)
                          \/ Still(x)
        OBVIOUS
      <3>1. \A k \in 1 .. m : first[k] \in S
        BY <1>2, <1>6
      <3>2. CASE \E k \in 1 .. m : x = <<"ready", n + k, 0>> /\ from(x) = <<"pending", first[k], 1>>
        BY <3>1, <3>2
      <3>3. CASE \E s \in waiting : \E i \in DOMAIN Tail(session_queues[s]) :
                     x = <<"pending", s, i>> /\ from(x) = <<"pending", s, i + 1>>
        BY <1>6, <3>3
      <3>4. CASE Still(x)
        BY <3>4
      <3>5. \/ \E k \in 1 .. m : x = <<"ready", n + k, 0>> /\ from(x) = <<"pending", first[k], 1>>
            \/ \E s \in waiting : \E i \in DOMAIN Tail(session_queues[s]) :
                   x = <<"pending", s, i>> /\ from(x) = <<"pending", s, i + 1>>
            \/ Still(x)
        BY <1>8
      <3> QED BY <3>2, <3>3, <3>4, <3>5
    <2>2. ASSUME NEW j, NEW k, Moved(p, j), Moved(q, k)
          PROVE  p = q
      BY <1>2, <1>10, <2>2
    <2>3. ASSUME NEW x, NEW y, NEW k, NEW s, NEW i, Moved(x, k), Advanced(y, s, i)
          PROVE  from(x) # from(y)
      <3>1. i + 1 # 1
        BY <2>3
      <3> QED BY <2>3, <3>1
    <2>4. ASSUME NEW x, NEW y, NEW k, Moved(x, k), Still(y)
          PROVE  from(x) # from(y)
      BY <2>4
    <2>5. ASSUME NEW x, NEW y, NEW s, NEW i, Advanced(x, s, i), Still(y)
          PROVE  from(x) # from(y)
      BY <2>5
    <2>6. ASSUME NEW s, NEW i, NEW t, NEW j, Advanced(p, s, i), Advanced(q, t, j)
          PROVE  p = q
      <3>1. s = t /\ i + 1 = j + 1
        BY <1>10, <2>6
      <3> QED BY <2>6, <3>1
    <2>7. Still(p) /\ Still(q) => p = q
      BY <1>10
    <2> HIDE DEF Moved, Advanced, Still
    <2> QED BY <1>10, <2>1, <2>2, <2>3, <2>4, <2>5, <2>6, <2>7
  <1>11. f \in [Places' -> Places]
    BY <1>9
  <1>12. /\ \A p, q \in Places' : f[p] = f[q] => p = q
         /\ \A p \in Places' : At(p)' = At(f[p])
    BY <1>9, <1>10
  <1> HIDE DEF f
  <1> QED BY <1>11, <1>12, PiecesMove

(* Pieces that nobody touches stay.                                          *)
LEMMA PiecesStay ==
  ASSUME Pieces, BatchesStay, UNCHANGED queue_vars, Carrying' = Carrying,
         \A w \in Carrying : work'[w] = work[w]
  PROVE  Pieces' /\ Alive' \subseteq Alive
  <1>1. queue' = queue /\ session_queues' = session_queues /\ Reserved' = Reserved
    BY DEF queue_vars, Reserved
  <1>2. ASSUME NEW p
        PROVE  /\ p \in Places' <=> p \in Places
               /\ p \in Places => At(p)' = At(p)
    <2>1. p \in Places' <=> p \in Places
      BY <1>1, PlacesNow, PlacesNext
    <2>2. CASE \E i \in DOMAIN queue : p = <<"ready", i, 0>>
      BY <1>1, <2>1, <2>2, PlacesNow, PlacesNext
    <2>3. CASE \E s \in Reserved : \E i \in DOMAIN session_queues[s] : p = <<"pending", s, i>>
      BY <1>1, <2>1, <2>3, PlacesNow, PlacesNext
    <2>4. CASE \E w \in Carrying : p = <<"carried", w, 0>>
      BY <2>1, <2>4, PlacesNow, PlacesNext
    <2> QED BY <2>1, <2>2, <2>3, <2>4, PlacesNow
  <1> DEFINE f == [p \in Places' |-> p]
  <1>3. f \in [Places' -> Places]
    BY <1>2
  <1>4. /\ \A p, q \in Places' : f[p] = f[q] => p = q
        /\ \A p \in Places' : At(p)' = At(f[p])
    BY <1>2
  <1> HIDE DEF f
  <1> QED BY <1>3, <1>4, PiecesMove

(* A piece that becomes ready as it is made.                                 *)
LEMMA ReadyAdded ==
  ASSUME QueueTypes, Pieces, BatchesStay, NEW S, NEW new, Free(S),
         queue' = Append(queue, new), session_queues' = Reserve(S),
         UNCHANGED <<worker, work>>, Known(new), Name(new) \notin Alive
  PROVE  Pieces' /\ Alive' = Alive \cup {Name(new)}
  <1>0. PICK n, place : n = Len(queue) /\ place = <<"ready", n + 1, 0>>
    OBVIOUS
  <1>1. /\ n \in Nat /\ DOMAIN queue = 1 .. n /\ DOMAIN queue' = 1 .. n + 1
        /\ \A i \in 1 .. n : queue'[i] = queue[i]
        /\ queue'[n + 1] = new
    BY <1>0, LenProperties DEF QueueTypes
  <1>2. /\ Reserved' = Reserved \cup S
        /\ \A s \in Reserved : session_queues'[s] = session_queues[s]
        /\ \A s \in S : s \notin Reserved /\ session_queues'[s] = << >>
    BY DEF Reserve, Reserved, Free
  <1>3. Carrying' = Carrying /\ work' = work
    BY DEF Carrying
  <1>4. \A i : i \in 1 .. n + 1 <=> i \in 1 .. n \/ i = n + 1
    BY <1>1
  <1>5. ASSUME NEW p
        PROVE  p \in Places' <=> p \in Places \/ p = place
    <2>1. \A s \in S : DOMAIN session_queues'[s] = {}
      BY <1>2
    <2>2. (\E s \in Reserved' : \E i \in DOMAIN session_queues'[s] : p = <<"pending", s, i>>)
             <=> \E s \in Reserved : \E i \in DOMAIN session_queues[s] : p = <<"pending", s, i>>
      BY <1>2, <2>1
    <2>3. (\E i \in DOMAIN queue' : p = <<"ready", i, 0>>)
             <=> (\E i \in DOMAIN queue : p = <<"ready", i, 0>>) \/ p = place
      BY <1>0, <1>1, <1>4
    <2> QED BY <1>3, <2>2, <2>3, PlacesNow, PlacesNext
  <1>6. ASSUME NEW p \in Places
        PROVE  At(p)' = At(p)
    <2>2. CASE \E i \in DOMAIN queue : p = <<"ready", i, 0>>
      BY <1>1, <2>2, PlacesNow, PlacesNext
    <2>3. CASE \E s \in Reserved : \E i \in DOMAIN session_queues[s] : p = <<"pending", s, i>>
      BY <1>2, <2>3, PlacesNow, PlacesNext
    <2>4. CASE \E w \in Carrying : p = <<"carried", w, 0>>
      BY <1>3, <2>4, PlacesNow, PlacesNext
    <2> QED BY <2>2, <2>3, <2>4, PlacesNow
  <1>7. At(place)' = new
    BY <1>0, <1>1, PlacesNext
  <1>8. Places' = Places \cup {place}
    BY <1>5
  <1> QED BY <1>6, <1>7, <1>8, PieceAdded

(* A piece that waits behind the earlier work of its session.                *)
LEMMA PendingAdded ==
  ASSUME QueueTypes, Pieces, BatchesStay, NEW s \in Reserved, NEW new \in Work,
         session_queues' = [session_queues EXCEPT ![s] = Append(@, new)],
         UNCHANGED <<queue, worker, work>>, Known(new), Name(new) \notin Alive
  PROVE  Pieces' /\ Alive' = Alive \cup {Name(new)}
  <1>0. PICK n, place : n = Len(session_queues[s]) /\ place = <<"pending", s, n + 1>>
    OBVIOUS
  <1>10. session_queues[s] \in Seq(Work)
    BY DEF QueueTypes
  <1>1. session_queues'[s] = Append(session_queues[s], new)
    BY DEF QueueTypes
  <1>2. /\ n \in Nat /\ DOMAIN session_queues[s] = 1 .. n
        /\ DOMAIN session_queues'[s] = 1 .. n + 1
        /\ \A i \in 1 .. n : session_queues'[s][i] = session_queues[s][i]
        /\ session_queues'[s][n + 1] = new
    BY <1>0, <1>1, <1>10, LenProperties
  <1>3. /\ Reserved' = Reserved /\ queue' = queue
        /\ \A t \in Reserved \ {s} : session_queues'[t] = session_queues[t]
    BY DEF QueueTypes, Reserved
  <1>4. Carrying' = Carrying /\ work' = work
    BY DEF Carrying
  <1>5. \A i : i \in 1 .. n + 1 <=> i \in 1 .. n \/ i = n + 1
    BY <1>2
  <1>6. ASSUME NEW p
        PROVE  p \in Places' <=> p \in Places \/ p = place
    <2>1. (\E t \in Reserved' : \E i \in DOMAIN session_queues'[t] : p = <<"pending", t, i>>)
             <=> \/ \E t \in Reserved : \E i \in DOMAIN session_queues[t] : p = <<"pending", t, i>>
                 \/ p = place
      <3>1. \A t, i : (t \in Reserved' /\ i \in DOMAIN session_queues'[t])
                <=> (t \in Reserved /\ i \in DOMAIN session_queues[t]) \/ (t = s /\ i = n + 1)
        BY <1>2, <1>3, <1>5
      <3> QED BY <1>0, <3>1
    <2> QED BY <1>3, <1>4, <2>1, PlacesNow, PlacesNext
  <1>7. ASSUME NEW p \in Places
        PROVE  At(p)' = At(p)
    <2>2. CASE \E i \in DOMAIN queue : p = <<"ready", i, 0>>
      BY <1>3, <2>2, PlacesNow, PlacesNext
    <2>3. CASE \E t \in Reserved : \E i \in DOMAIN session_queues[t] : p = <<"pending", t, i>>
      <3>1. \A t \in Reserved : \A i \in DOMAIN session_queues[t] :
                session_queues'[t][i] = session_queues[t][i]
        BY <1>2, <1>3
      <3> QED BY <2>3, <3>1, PlacesNow, PlacesNext
    <2>4. CASE \E w \in Carrying : p = <<"carried", w, 0>>
      BY <1>4, <2>4, PlacesNow, PlacesNext
    <2> QED BY <2>2, <2>3, <2>4, PlacesNow
  <1>8. At(place)' = new
    BY <1>0, <1>2, PlacesNext
  <1>9. Places' = Places \cup {place}
    BY <1>6
  <1> QED BY <1>7, <1>8, <1>9, PieceAdded

(* Publishing its results removes a piece.                                   *)
LEMMA CompleteRemoves ==
  ASSUME WorkerTypes, Pieces, BatchesStay, NEW w \in Workers, Complete(w)
  PROVE  /\ w \in Carrying /\ Known(work[w]) /\ Name(work[w]) \in Alive
         /\ Pieces' /\ Alive' = Alive \ {Name(work[w])}
  <1> DEFINE place == <<"carried", w, 0>>
  <1>1. /\ worker[w] = "complete" /\ UNCHANGED queue_vars
        /\ work' = [work EXCEPT ![w] = NoWork] /\ worker' = [worker EXCEPT ![w] = "ready"]
    BY DEF Complete
  <1>2. w \in Carrying /\ Carrying' = Carrying \ {w}
    BY <1>1 DEF Carrying, WorkerTypes
  <1>3. queue' = queue /\ session_queues' = session_queues /\ Reserved' = Reserved
    BY <1>1 DEF queue_vars, Reserved
  <1>4. \A v \in Carrying' : work'[v] = work[v]
    BY <1>1, <1>2 DEF WorkerTypes, Carrying
  <1>5. ASSUME NEW p
        PROVE  p \in Places' <=> p \in Places /\ p # place
    <2>1. (\E v \in Carrying' : p = <<"carried", v, 0>>)
             <=> (\E v \in Carrying : p = <<"carried", v, 0>>) /\ p # place
      BY <1>2
    <2>2. (\E i \in DOMAIN queue : p = <<"ready", i, 0>>) => p # place
      OBVIOUS
    <2>3. (\E s \in Reserved : \E i \in DOMAIN session_queues[s] : p = <<"pending", s, i>>)
             => p # place
      OBVIOUS
    <2> HIDE DEF place
    <2> QED BY <1>3, <2>1, <2>2, <2>3, PlacesNow, PlacesNext
  <1>6. ASSUME NEW p \in Places'
        PROVE  At(p)' = At(p)
    <2>2. CASE \E i \in DOMAIN queue' : p = <<"ready", i, 0>>
      BY <1>3, <2>2, PlacesNow, PlacesNext
    <2>3. CASE \E s \in Reserved' : \E i \in DOMAIN session_queues'[s] : p = <<"pending", s, i>>
      BY <1>3, <2>3, PlacesNow, PlacesNext
    <2>4. CASE \E v \in Carrying' : p = <<"carried", v, 0>>
      BY <1>4, <2>4, PlacesNow, PlacesNext
    <2> QED BY <2>2, <2>3, <2>4, PlacesNext
  <1>7. place \in Places /\ At(place) = work[w]
    BY <1>2, PlacesNow
  <1> HIDE DEF place
  <1>8. Places' = Places \ {place}
    BY <1>5
  <1>9. Known(work[w]) /\ Name(work[w]) \in Alive
    BY <1>7 DEF Pieces, PiecesKnown, Alive
  <1> QED BY <1>2, <1>6, <1>7, <1>8, <1>9, PieceGone

(* What is owed is a finite set of requests.                                 *)
LEMMA OwedFinite ==
  ASSUME BatchTypes, NEW b \in DOMAIN batches
  PROVE  /\ Owed(b) \subseteq DOMAIN batches[b].requests
         /\ IsFiniteSet(Owed(b)) /\ Cardinality(Owed(b)) \in Nat
         /\ \A S \in SUBSET Owed(b) :
               /\ IsFiniteSet(S) /\ Cardinality(S) \in Nat
               /\ Cardinality(S) <= Cardinality(Owed(b))
               /\ S # Owed(b) => Cardinality(S) < Cardinality(Owed(b))
         /\ batches[b].remaining \in Int /\ batches[b].requests \in Seq(Request)
  <1>1. batches[b] \in BatchRecord
    BY ElementOfSeq, LenProperties DEF BatchTypes
  <1>2. batches[b].requests \in Seq(Request) /\ batches[b].remaining \in Int
    BY <1>1 DEF BatchRecord
  <1>3. /\ Len(batches[b].requests) \in Int /\ 1 \in Int
        /\ DOMAIN batches[b].requests = 1 .. Len(batches[b].requests)
    BY <1>2, LenProperties
  <1>4. IsFiniteSet(DOMAIN batches[b].requests)
    BY <1>3, FS_Interval
  <1>5. Owed(b) \subseteq DOMAIN batches[b].requests
    BY DEF Owed
  <1> QED BY <1>2, <1>4, <1>5, FS_Subset, FS_CardinalityType

(* A submission that goes on owes no more than before.                       *)
CallerKeeps(c) ==
    caller'[c].step \in Submitting =>
        /\ caller[c].step \in Submitting
        /\ caller'[c].batch = caller[c].batch
        /\ caller'[c].requests = caller[c].requests
        /\ caller'[c].step = "stage" => caller'[c] = caller[c]
        /\ \A b : \A i \in DOMAIN caller[c].requests :
               CallerOwes(c, b, i)' => CallerOwes(c, b, i)
CallersKeep == \A c \in Callers : CallerKeeps(c)

(* Submissions are the only steps that make a caller owe more.               *)
LEMMA CallersKeepStep ==
  ASSUME CallerTypes, CallersSane, [Next]_vars, \A c \in Callers : ~Submit(c)
  PROVE  CallersKeep
  <1> SUFFICES ASSUME NEW d \in Callers
               PROVE  CallerKeeps(d)
    BY DEF CallersKeep
  <1>1. ASSUME caller'[d] = caller[d]
        PROVE  CallerKeeps(d)
    BY <1>1 DEF CallerKeeps, CallerOwes
  <1>2. ASSUME caller'[d].step \notin Submitting
        PROVE  CallerKeeps(d)
    BY <1>2 DEF CallerKeeps
  <1>3. ASSUME NEW c \in Callers, StartDirect(c) \/ RunDirect(c) \/ Throw(c)
        PROVE  CallerKeeps(d)
    <2>1. c # d => caller'[d] = caller[d]
      BY <1>3 DEF StartDirect, RunDirect, Throw, CallerTypes
    <2>2. Idle.step \notin Submitting /\ "lock" \notin Submitting
      BY DEF Idle, Submitting
    <2>3. c = d => caller'[d].step \notin Submitting
      BY <1>3, <2>2 DEF StartDirect, RunDirect, Throw, CallerTypes
    <2> QED BY <1>1, <1>2, <2>1, <2>3
  <1>4. ASSUME NEW c \in Callers, TryEnqueueBatch(c) \/ EnqueueSession(c) \/ NotifyOne(c)
        PROVE  CallerKeeps(d)
    <2>1. c # d => caller'[d] = caller[d]
      BY <1>4 DEF TryEnqueueBatch, EnqueueSession, NotifyOne, CallerTypes
    <2>2. ASSUME c = d
          PROVE  CallerKeeps(d)
      <3>1. caller[d].step \in Submitting
        BY <1>4, <2>2 DEF TryEnqueueBatch, EnqueueSession, NotifyOne, Submitting
      <3>2. Idle.step \notin Submitting
        BY DEF Idle, Submitting
      <3>3. /\ caller[d].slot \in Nat /\ DOMAIN caller[d].requests = 1 .. Len(caller[d].requests)
            /\ Len(caller[d].requests) \in Nat
        <4>1. caller[d].slot \in Nat /\ caller[d].requests \in Seq(Request)
          BY DEF CallerTypes
        <4> QED BY <4>1, LenProperties
      <3>4. \/ caller'[d] = Idle
            \/ /\ caller'[d].batch = caller[d].batch
               /\ caller'[d].requests = caller[d].requests
               /\ \/ /\ caller[d].step = "stage" /\ caller'[d].step = "enqueue"
                     /\ caller'[d].slot = caller[d].slot
                  \/ /\ caller[d].step = "stage" /\ caller'[d].step = "notify"
                     /\ caller'[d].slot = Len(caller[d].requests)
                  \/ /\ caller[d].step = "enqueue" /\ caller'[d].step = "notify"
                     /\ caller'[d].slot = caller[d].slot
                  \/ /\ caller[d].step = "notify" /\ caller'[d].step = "enqueue"
                     /\ caller'[d].slot = caller[d].slot + 1
        <4>1. CASE TryEnqueueBatch(c)
          BY <2>2, <4>1 DEF TryEnqueueBatch, CallerTypes
        <4>2. CASE EnqueueSession(c)
          BY <2>2, <4>2 DEF EnqueueSession, CallerTypes
        <4>3. CASE NotifyOne(c)
          BY <2>2, <4>3 DEF NotifyOne, CallerTypes
        <4> QED BY <1>4, <4>1, <4>2, <4>3
      <3>5. CASE caller'[d] = Idle
        BY <1>2, <3>2, <3>5
      <3>6. CASE caller'[d] # Idle
        <4>1. \A b : \A i \in DOMAIN caller[d].requests :
                  CallerOwes(d, b, i)' => CallerOwes(d, b, i)
          <5> SUFFICES ASSUME NEW b, NEW i \in DOMAIN caller[d].requests, CallerOwes(d, b, i)'
                       PROVE  CallerOwes(d, b, i)
            OBVIOUS
          <5>1. i \in 1 .. Len(caller[d].requests)
            BY <3>3
          <5>2. /\ caller'[d].batch = b
                /\ IF caller'[d].step = "notify" THEN i > caller'[d].slot
                                                 ELSE i >= caller'[d].slot
            BY DEF CallerOwes
          <5>3. IF caller[d].step = "notify" THEN i > caller[d].slot ELSE i >= caller[d].slot
            BY <3>3, <3>4, <3>6, <5>1, <5>2
          <5> QED BY <3>1, <3>4, <3>6, <5>2, <5>3 DEF CallerOwes
        <4>2. caller'[d].step # "stage"
          BY <3>4, <3>6
        <4> QED BY <3>1, <3>4, <3>6, <4>1, <4>2 DEF CallerKeeps
      <3> QED BY <3>5, <3>6
    <2> QED BY <1>1, <2>1, <2>2
  <1> QED BY <1>1, <1>3, <1>4, CallerSteps DEF SubmitStep

(* Then batches wait for no more, ...                                        *)
LEMMA OwedShrinks ==
  ASSUME CallersKeep, CallersSane, BatchesStay, NEW b \in DOMAIN batches,
         \A i \in DOMAIN batches[b].requests : <<b, i>> \in Alive' => i \in Owed(b)
  PROVE  Owed(b)' \subseteq Owed(b)
  <1> SUFFICES ASSUME NEW i \in Owed(b)'
               PROVE  i \in Owed(b)
    OBVIOUS
  <1>1. /\ i \in DOMAIN batches'[b].requests
        /\ <<b, i>> \in Alive' \/ \E c \in Callers : CallerOwes(c, b, i)'
    BY DEF Owed
  <1>2. i \in DOMAIN batches[b].requests
    BY <1>1 DEF BatchesStay
  <1>3. CASE \E c \in Callers : CallerOwes(c, b, i)'
    <2>1. PICK c \in Callers : CallerOwes(c, b, i)'
      BY <1>3
    <2>2. caller'[c].step \in Submitting /\ caller'[c].batch = b
      BY <2>1 DEF CallerOwes
    <2>3. /\ caller[c].step \in Submitting /\ caller[c].batch = b
          /\ \A j \in DOMAIN caller[c].requests : CallerOwes(c, b, j)' => CallerOwes(c, b, j)
      BY <2>2 DEF CallersKeep, CallerKeeps
    <2>4. caller[c].requests = batches[b].requests
      BY <2>3 DEF CallersSane, Submits
    <2>5. CallerOwes(c, b, i)
      BY <1>2, <2>1, <2>3, <2>4
    <2> QED BY <1>2, <2>5 DEF Owed
  <1> QED BY <1>1, <1>2, <1>3

(* ... submissions stay apart, ...                                           *)
LEMMA ApartStays ==
  ASSUME CallersKeep, CallersApart, NEW New, Alive' \subseteq Alive \cup New,
         \A c \in Callers : \A b : \A i \in DOMAIN caller[c].requests :
             CallerOwes(c, b, i)' => <<b, i>> \notin New
  PROVE  CallersApart'
  <1> SUFFICES ASSUME NEW c \in Callers, caller'[c].step \in Submitting
               PROVE  CallerApart(c)'
    BY DEF CallersApart, CallerApart
  <1>1. /\ caller[c].step \in Submitting
        /\ caller'[c].batch = caller[c].batch
        /\ caller'[c].requests = caller[c].requests
        /\ caller'[c].step = "stage" => caller'[c] = caller[c]
        /\ \A b : \A i \in DOMAIN caller[c].requests :
               CallerOwes(c, b, i)' => CallerOwes(c, b, i)
    BY DEF CallersKeep, CallerKeeps
  <1>2. CallerApart(c)
    BY DEF CallersApart
  <1>3. ASSUME NEW d \in Callers, caller'[d].step \in Submitting,
               caller'[d].batch = caller'[c].batch
        PROVE  c = d
    <2>1. caller[d].step \in Submitting /\ caller[d].batch = caller[c].batch
      BY <1>1, <1>3 DEF CallersKeep, CallerKeeps
    <2> QED BY <1>1, <1>2, <2>1 DEF CallerApart
  <1>4. caller'[c].step = "stage" => caller'[c].slot = 1
    BY <1>1, <1>2 DEF CallerApart
  <1>5. ASSUME NEW b, b = caller'[c].batch, NEW i \in DOMAIN caller'[c].requests,
               CallerOwes(c, b, i)'
        PROVE  <<b, i>> \notin Alive'
    <2>1. b = caller[c].batch /\ i \in DOMAIN caller[c].requests /\ CallerOwes(c, b, i)
      BY <1>1, <1>5
    <2>2. <<b, i>> \notin Alive
      BY <1>1, <1>2, <2>1 DEF CallerApart
    <2>3. <<b, i>> \notin New
      BY <1>5, <2>1
    <2> QED BY <2>2, <2>3
  <1>6. \A i \in DOMAIN caller'[c].requests :
            CallerOwes(c, caller[c].batch, i)' => <<caller'[c].batch, i>> \notin Alive'
    BY <1>5 DEF CallerOwes
  <1> QED BY <1>3, <1>4, <1>6 DEF CallerApart

(* ... and a batch that is neither answered nor abandoned stays right.       *)
LEMMA BatchStays ==
  ASSUME BatchTypes, NEW b \in DOMAIN batches, BatchRight(b),
         <<b, 0>> \in Alive' => <<b, 0>> \in Alive, Owed(b)' \subseteq Owed(b),
         batches'[b].promise = batches[b].promise,
         batches'[b].remaining = batches[b].remaining
  PROVE  BatchRight(b)'
  <1>1. /\ Cardinality(Owed(b)) \in Nat /\ Cardinality(Owed(b)') \in Nat
        /\ Cardinality(Owed(b)') <= Cardinality(Owed(b))
        /\ batches[b].remaining \in Int
    BY OwedFinite
  <1>2. <<b, 0>> \in Alive' => Owed(b)' = {}
    BY DEF BatchRight
  <1>3. batches'[b].promise = "ready" => <<b, 0>> \notin Alive' /\ Owed(b)' = {}
    BY DEF BatchRight
  <1>4. ASSUME Owed(b)' # {}
        PROVE  IF batches'[b].promise = "broken"
               THEN Cardinality(Owed(b)') < batches'[b].remaining
               ELSE Cardinality(Owed(b)') <= batches'[b].remaining
    <2>1. Owed(b) # {}
      BY <1>4
    <2>2. IF batches[b].promise = "broken" THEN Cardinality(Owed(b)) < batches[b].remaining
                                           ELSE Cardinality(Owed(b)) <= batches[b].remaining
      BY <2>1 DEF BatchRight
    <2> QED BY <1>1, <2>2
  <1> QED BY <1>2, <1>3, <1>4 DEF BatchRight

(* Steps that add no piece and touch no batch.                               *)
LEMMA CalmStep ==
  ASSUME BatchTypes, CallersSane, CallersApart, BatchesRight, BatchesStay, CallersKeep,
         Alive' \subseteq Alive, UNCHANGED batches
  PROVE  CallersApart' /\ BatchesRight'
  <1>1. CallersApart'
    <2>0. PICK None : None = {}
      OBVIOUS
    <2>1. /\ Alive' \subseteq Alive \cup None
          /\ \A c \in Callers : \A b : \A i \in DOMAIN caller[c].requests :
                CallerOwes(c, b, i)' => <<b, i>> \notin None
      BY <2>0
    <2> QED BY <2>1, ApartStays
  <1>2. ASSUME NEW b \in DOMAIN batches'
        PROVE  BatchRight(b)'
    <2>1. b \in DOMAIN batches /\ BatchRight(b)
      BY <1>2 DEF BatchesRight
    <2>2. \A i \in DOMAIN batches[b].requests : <<b, i>> \in Alive' => i \in Owed(b)
      BY DEF Owed
    <2>3. Owed(b)' \subseteq Owed(b)
      BY <2>1, <2>2, OwedShrinks
    <2> QED BY <2>1, <2>3, BatchStays
  <1> QED BY <1>1, <1>2 DEF BatchesRight

(* A submission that has not yet enqueued its request: nothing of it is there,*)
(* nobody else will enqueue it, and its batch is not answered.               *)
LEMMA NextOwed ==
  ASSUME CallerTypes, CallersSane, CallersApart, BatchesRight, NEW c \in Callers,
         caller[c].step \in {"stage", "enqueue"}
  PROVE  LET b == caller[c].batch  i == caller[c].slot
         IN  /\ b \in DOMAIN batches /\ i \in DOMAIN batches[b].requests /\ i # 0
             /\ batches[b].requests = caller[c].requests
             /\ i \in Owed(b) /\ <<b, i>> \notin Alive /\ <<b, 0>> \notin Alive
             /\ batches[b].promise # "ready"
             /\ \A d \in Callers \ {c} :
                   ~(caller[d].step \in Submitting /\ caller[d].batch = b)
             /\ \A j \in DOMAIN batches[b].requests : j >= i => <<b, j>> \notin Alive
  <1> DEFINE b == caller[c].batch
             i == caller[c].slot
  <1>1. caller[c].step \in Submitting /\ caller[c].step # "notify"
    BY DEF Submitting
  <1>2. /\ b \in DOMAIN batches /\ i \in DOMAIN batches[b].requests
        /\ batches[b].requests = caller[c].requests
    BY <1>1 DEF CallersSane, Submits
  <1>3. i \in Nat /\ i # 0
    <2>1. caller[c].requests \in Seq(Request)
      BY DEF CallerTypes
    <2> QED BY <1>2, <2>1, LenProperties
  <1>4. \A j : j >= i => CallerOwes(c, b, j)
    BY <1>1 DEF CallerOwes
  <1>5. i >= i
    BY <1>3
  <1>6. i \in Owed(b)
    BY <1>2, <1>4, <1>5 DEF Owed
  <1>7. CallerApart(c) /\ BatchRight(b)
    BY <1>2 DEF CallersApart, BatchesRight
  <1>8. <<b, 0>> \notin Alive /\ batches[b].promise # "ready"
    BY <1>6, <1>7 DEF BatchRight
  <1>9. \A d \in Callers \ {c} : ~(caller[d].step \in Submitting /\ caller[d].batch = b)
    BY <1>1, <1>7 DEF CallerApart
  <1>10. \A j \in DOMAIN batches[b].requests : j >= i => <<b, j>> \notin Alive
    BY <1>1, <1>2, <1>4, <1>7 DEF CallerApart
  <1> QED BY <1>2, <1>3, <1>5, <1>6, <1>8, <1>9, <1>10

(* A submission that throws owes one request less than its batch waits for.  *)
LEMMA ThrowRight ==
  ASSUME BatchTypes, CallerTypes, CallersSane, CallersApart, BatchesRight, BatchesStay,
         CallersKeep, Alive' \subseteq Alive, NEW c \in Callers, Throw(c)
  PROVE  CallersApart' /\ BatchesRight'
  <1>0. PICK b, i : b = caller[c].batch /\ i = caller[c].slot
    OBVIOUS
  <1>1. /\ b \in DOMAIN batches /\ i \in DOMAIN batches[b].requests /\ i # 0
        /\ i \in Owed(b) /\ <<b, i>> \notin Alive /\ <<b, 0>> \notin Alive
        /\ batches[b].promise # "ready"
        /\ \A d \in Callers \ {c} : ~(caller[d].step \in Submitting /\ caller[d].batch = b)
    BY <1>0, NextOwed DEF Throw
  <1>2. CallersApart'
    <2>0. PICK None : None = {}
      OBVIOUS
    <2>1. /\ Alive' \subseteq Alive \cup None
          /\ \A d \in Callers : \A e : \A j \in DOMAIN caller[d].requests :
                CallerOwes(d, e, j)' => <<e, j>> \notin None
      BY <2>0
    <2> QED BY <2>1, ApartStays
  <1>3. \A e \in DOMAIN batches : Owed(e)' \subseteq Owed(e)
    <2> SUFFICES ASSUME NEW e \in DOMAIN batches
                 PROVE  Owed(e)' \subseteq Owed(e)
      OBVIOUS
    <2>1. \A j \in DOMAIN batches[e].requests : <<e, j>> \in Alive' => j \in Owed(e)
      BY DEF Owed
    <2> QED BY <2>1, OwedShrinks
  <1>4. i \notin Owed(b)'
    <2>1. caller'[c].step \notin Submitting /\ \A d \in Callers \ {c} : caller'[d] = caller[d]
      BY DEF Throw, CallerTypes, Idle, Submitting
    <2>2. \A d \in Callers : ~CallerOwes(d, b, i)'
      BY <1>1, <2>1 DEF CallerOwes
    <2> QED BY <1>1, <2>2 DEF Owed
  <1>5. /\ DOMAIN batches' = DOMAIN batches
        /\ batches'[b] = [batches[b] EXCEPT !.promise = "broken"]
        /\ \A e \in DOMAIN batches \ {b} : batches'[e] = batches[e]
    BY <1>0, <1>1 DEF Throw
  <1>6. batches'[b].promise = "broken" /\ batches'[b].remaining = batches[b].remaining
    <2>1. batches[b] \in BatchRecord
      BY <1>1, ElementOfSeq, LenProperties DEF BatchTypes
    <2> QED BY <1>5, <2>1 DEF BatchRecord
  <1>7. BatchRight(b)'
    <2>1. /\ Cardinality(Owed(b)) \in Nat /\ Cardinality(Owed(b)') \in Nat
          /\ Cardinality(Owed(b)') < Cardinality(Owed(b)) /\ batches[b].remaining \in Int
      BY <1>1, <1>3, <1>4, OwedFinite
    <2>2. Cardinality(Owed(b)) <= batches[b].remaining
      <3>1. BatchRight(b) /\ Owed(b) # {}
        BY <1>1 DEF BatchesRight
      <3>2. IF batches[b].promise = "broken" THEN Cardinality(Owed(b)) < batches[b].remaining
                                             ELSE Cardinality(Owed(b)) <= batches[b].remaining
        BY <3>1 DEF BatchRight
      <3> QED BY <2>1, <3>2
    <2>3. Cardinality(Owed(b)') < batches'[b].remaining
      BY <1>6, <2>1, <2>2
    <2>4. <<b, 0>> \notin Alive'
      BY <1>1
    <2> QED BY <1>6, <2>3, <2>4 DEF BatchRight
  <1>8. ASSUME NEW e \in DOMAIN batches', e # b
        PROVE  BatchRight(e)'
    <2>1. e \in DOMAIN batches /\ BatchRight(e) /\ batches'[e] = batches[e]
      BY <1>5, <1>8 DEF BatchesRight
    <2>2. Owed(e)' \subseteq Owed(e)
      BY <1>3, <2>1
    <2> QED BY <2>1, <2>2, BatchStays
  <1> QED BY <1>2, <1>7, <1>8 DEF BatchesRight

(* A submission that puts its whole batch in the queues owes nothing more.   *)
LEMMA WholePlaced ==
  ASSUME BatchTypes, CallerTypes, CallersSane, CallersApart, BatchesRight, BatchesStay,
         CallersKeep, UNCHANGED batches, NEW c \in Callers,
         caller[c].step \in {"stage", "enqueue"}, caller[c].slot = 1,
         caller'[c].step = "notify", caller'[c].slot = Len(caller[c].requests),
         \A d \in Callers \ {c} : caller'[d] = caller[d],
         NEW b, b = caller[c].batch, Alive' = Alive \cup {<<b, 0>>}
  PROVE  CallersApart' /\ BatchesRight'
  <1>1. /\ b \in DOMAIN batches
        /\ batches[b].requests = caller[c].requests
        /\ batches[b].promise # "ready"
        /\ \A d \in Callers \ {c} : ~(caller[d].step \in Submitting /\ caller[d].batch = b)
        /\ \A j \in DOMAIN batches[b].requests : j >= 1 => <<b, j>> \notin Alive
    BY NextOwed
  <1>2. \A e \in DOMAIN batches : \A j \in DOMAIN batches[e].requests : j \in Nat /\ j >= 1
    BY OwedFinite, LenProperties
  <1>3. \A d \in Callers : \A j \in DOMAIN caller[d].requests : j # 0
    <2>1. \A d \in Callers : caller[d].requests \in Seq(Request)
      BY DEF CallerTypes
    <2> QED BY <2>1, LenProperties
  <1>4. CallersApart'
    <2>0. PICK New : New = {<<b, 0>>}
      OBVIOUS
    <2>1. /\ Alive' \subseteq Alive \cup New
          /\ \A d \in Callers : \A e : \A j \in DOMAIN caller[d].requests :
                CallerOwes(d, e, j)' => <<e, j>> \notin New
      BY <1>3, <2>0
    <2> QED BY <2>1, ApartStays
  <1>5. Owed(b)' = {}
    <2> SUFFICES ASSUME NEW j \in Owed(b)'
                 PROVE  FALSE
      OBVIOUS
    <2>1. /\ j \in DOMAIN batches[b].requests
          /\ <<b, j>> \in Alive' \/ \E d \in Callers : CallerOwes(d, b, j)'
      BY DEF Owed
    <2>2. <<b, j>> \notin Alive'
      BY <1>1, <1>2, <2>1
    <2>3. PICK d \in Callers : CallerOwes(d, b, j)'
      BY <2>1, <2>2
    <2>4. d = c
      BY <1>1, <2>3 DEF CallerOwes
    <2>5. j > Len(caller[c].requests)
      BY <2>3, <2>4 DEF CallerOwes
    <2>6. j \in 1 .. Len(caller[c].requests) /\ Len(caller[c].requests) \in Nat
      BY <1>1, <2>1, OwedFinite, LenProperties
    <2> QED BY <2>5, <2>6
  <1>6. BatchRight(b)'
    BY <1>1, <1>5 DEF BatchRight
  <1>7. ASSUME NEW e \in DOMAIN batches', e # b
        PROVE  BatchRight(e)'
    <2>1. e \in DOMAIN batches /\ BatchRight(e)
      BY <1>7 DEF BatchesRight
    <2>2. \A j \in DOMAIN batches[e].requests : <<e, j>> \in Alive' => j \in Owed(e)
      BY <1>7 DEF Owed
    <2>3. Owed(e)' \subseteq Owed(e)
      BY <2>1, <2>2, OwedShrinks
    <2>4. <<e, 0>> \in Alive' => <<e, 0>> \in Alive
      BY <1>7
    <2> QED BY <2>1, <2>3, <2>4, BatchStays
  <1> QED BY <1>4, <1>6, <1>7 DEF BatchesRight

(* A submission that puts one request of its batch in the queues owes the    *)
(* next ones.                                                               *)
LEMMA RequestPlaced ==
  ASSUME BatchTypes, CallerTypes, CallersSane, CallersApart, BatchesRight, BatchesStay,
         CallersKeep, UNCHANGED batches, NEW c \in Callers,
         caller[c].step \in {"stage", "enqueue"},
         caller'[c].step = "notify", caller'[c].slot = caller[c].slot,
         \A d \in Callers \ {c} : caller'[d] = caller[d],
         NEW b, b = caller[c].batch, NEW i, i = caller[c].slot,
         Alive' = Alive \cup {<<b, i>>}
  PROVE  CallersApart' /\ BatchesRight'
  <1>1. /\ b \in DOMAIN batches /\ i # 0 /\ i \in Owed(b)
        /\ \A d \in Callers \ {c} : ~(caller[d].step \in Submitting /\ caller[d].batch = b)
    BY NextOwed
  <1>2. ~(i > i)
    BY DEF CallerTypes
  <1>3. CallersApart'
    <2>0. PICK New : New = {<<b, i>>}
      OBVIOUS
    <2>1. \A d \in Callers : ~CallerOwes(d, b, i)'
      BY <1>1, <1>2 DEF CallerOwes
    <2>2. /\ Alive' \subseteq Alive \cup New
          /\ \A d \in Callers : \A e : \A j \in DOMAIN caller[d].requests :
                CallerOwes(d, e, j)' => <<e, j>> \notin New
      BY <2>0, <2>1
    <2> QED BY <2>2, ApartStays
  <1>4. ASSUME NEW e \in DOMAIN batches'
        PROVE  BatchRight(e)'
    <2>1. e \in DOMAIN batches /\ BatchRight(e)
      BY <1>4 DEF BatchesRight
    <2>2. \A j \in DOMAIN batches[e].requests : <<e, j>> \in Alive' => j \in Owed(e)
      BY <1>1 DEF Owed
    <2>3. Owed(e)' \subseteq Owed(e)
      BY <2>1, <2>2, OwedShrinks
    <2>4. <<e, 0>> \in Alive' => <<e, 0>> \in Alive
      BY <1>1
    <2> QED BY <2>1, <2>3, <2>4, BatchStays
  <1> QED BY <1>3, <1>4 DEF BatchesRight

(* A staged submission that is refused owes nothing more.                    *)
LEMMA RefusedRight ==
  ASSUME BatchTypes, CallerTypes, CallersSane, CallersApart, BatchesRight, BatchesStay,
         CallersKeep, Alive' \subseteq Alive, NEW c \in Callers,
         caller[c].step = "stage", caller' = [caller EXCEPT ![c] = Idle],
         NEW b, b = caller[c].batch,
         DOMAIN batches' = DOMAIN batches,
         \A e \in DOMAIN batches \ {b} : batches'[e] = batches[e]
  PROVE  CallersApart' /\ BatchesRight'
  <1>0. caller[c].slot = 1
    BY DEF CallersApart, CallerApart, Submitting
  <1>1. /\ b \in DOMAIN batches /\ <<b, 0>> \notin Alive
        /\ \A d \in Callers \ {c} : ~(caller[d].step \in Submitting /\ caller[d].batch = b)
        /\ \A j \in DOMAIN batches[b].requests : j >= 1 => <<b, j>> \notin Alive
    BY <1>0, NextOwed
  <1>2. CallersApart'
    <2>0. PICK None : None = {}
      OBVIOUS
    <2>1. /\ Alive' \subseteq Alive \cup None
          /\ \A d \in Callers : \A e : \A j \in DOMAIN caller[d].requests :
                CallerOwes(d, e, j)' => <<e, j>> \notin None
      BY <2>0
    <2> QED BY <2>1, ApartStays
  <1>3. Owed(b)' = {}
    <2> SUFFICES ASSUME NEW j \in Owed(b)'
                 PROVE  FALSE
      OBVIOUS
    <2>1. j \in DOMAIN batches[b].requests
      BY <1>1 DEF Owed, BatchesStay
    <2>2. j >= 1
      BY <1>1, <2>1, OwedFinite, LenProperties
    <2>3. <<b, j>> \notin Alive'
      BY <1>1, <2>1, <2>2
    <2>4. caller'[c].step \notin Submitting /\ \A d \in Callers \ {c} : caller'[d] = caller[d]
      BY DEF CallerTypes, Idle, Submitting
    <2>5. \A d \in Callers : ~CallerOwes(d, b, j)'
      BY <1>1, <2>4 DEF CallerOwes
    <2> QED BY <2>3, <2>5 DEF Owed
  <1>4. BatchRight(b)'
    BY <1>1, <1>3 DEF BatchRight
  <1>5. ASSUME NEW e \in DOMAIN batches', e # b
        PROVE  BatchRight(e)'
    <2>1. e \in DOMAIN batches /\ BatchRight(e) /\ batches'[e] = batches[e]
      BY <1>5 DEF BatchesRight
    <2>2. \A j \in DOMAIN batches[e].requests : <<e, j>> \in Alive' => j \in Owed(e)
      BY DEF Owed
    <2>3. Owed(e)' \subseteq Owed(e)
      BY <2>1, <2>2, OwedShrinks
    <2> QED BY <2>1, <2>3, BatchStays
  <1> QED BY <1>2, <1>4, <1>5 DEF BatchesRight

(* Publishing the results of a whole batch answers it; publishing one result *)
(* answers the batch when it was the last one.                               *)
LEMMA CompleteRight ==
  ASSUME BatchTypes, CallerTypes, CallersSane, CallersApart, BatchesRight, BatchesStay,
         NEW w \in Workers, Complete(w), Known(work[w]), Name(work[w]) \in Alive,
         Alive' = Alive \ {Name(work[w])}
  PROVE  CallersApart' /\ BatchesRight'
  <1>0. PICK b, k : b = work[w].batch /\ k = work[w].slot
    OBVIOUS
  <1>1. /\ b \in DOMAIN batches /\ <<b, k>> \in Alive /\ Alive' = Alive \ {<<b, k>>}
        /\ k # 0 => k \in DOMAIN batches[b].requests
    BY <1>0 DEF Known, Name
  <1>2. caller' = caller /\ batches' = [batches EXCEPT ![b] = Published(@, k, outcome[w])]
    BY <1>0 DEF Complete
  <1>3. /\ DOMAIN batches' = DOMAIN batches
        /\ batches'[b] = Published(batches[b], k, outcome[w])
        /\ \A e \in DOMAIN batches \ {b} : batches'[e] = batches[e]
    BY <1>1, <1>2
  <1>4. batches[b] \in BatchRecord /\ batches[b].remaining \in Int
    <2>1. batches[b] \in BatchRecord
      BY <1>1, ElementOfSeq, LenProperties DEF BatchTypes
    <2> QED BY <2>1 DEF BatchRecord
  <1>5. CallersKeep
    BY <1>2 DEF CallersKeep, CallerKeeps, CallerOwes
  <1>6. CallersApart'
    <2>0. PICK None : None = {}
      OBVIOUS
    <2>1. /\ Alive' \subseteq Alive \cup None
          /\ \A d \in Callers : \A e : \A j \in DOMAIN caller[d].requests :
                CallerOwes(d, e, j)' => <<e, j>> \notin None
      BY <1>1, <2>0
    <2> QED BY <1>5, <2>1, ApartStays
  <1>7. \A e \in DOMAIN batches : Owed(e)' \subseteq Owed(e)
    <2> SUFFICES ASSUME NEW e \in DOMAIN batches
                 PROVE  Owed(e)' \subseteq Owed(e)
      OBVIOUS
    <2>1. \A j \in DOMAIN batches[e].requests : <<e, j>> \in Alive' => j \in Owed(e)
      BY <1>1 DEF Owed
    <2> QED BY <1>5, <2>1, OwedShrinks
  <1>8. BatchRight(b)
    BY <1>1 DEF BatchesRight
  <1>9. ASSUME k = 0
        PROVE  BatchRight(b)'
    <2>1. Owed(b)' = {}
      BY <1>1, <1>7, <1>8, <1>9 DEF BatchRight
    <2>2. <<b, 0>> \notin Alive'
      BY <1>1, <1>9
    <2> QED BY <2>1, <2>2 DEF BatchRight
  <1>10. ASSUME k # 0
         PROVE  BatchRight(b)'
    <2>1. k \in Owed(b)
      BY <1>1, <1>10 DEF Owed
    <2>2. <<b, 0>> \notin Alive /\ batches[b].promise # "ready"
      BY <1>8, <2>1 DEF BatchRight
    <2>3. k \notin Owed(b)'
      <3>1. \A d \in Callers : ~CallerOwes(d, b, k)
        <4> SUFFICES ASSUME NEW d \in Callers, CallerOwes(d, b, k)
                     PROVE  FALSE
          OBVIOUS
        <4>1. caller[d].step \in Submitting /\ caller[d].batch = b
          BY DEF CallerOwes
        <4>2. caller[d].requests = batches[b].requests /\ CallerApart(d)
          BY <4>1 DEF CallersSane, Submits, CallersApart
        <4> QED BY <1>1, <1>10, <4>1, <4>2 DEF CallerApart
      <3>2. \A d \in Callers : ~CallerOwes(d, b, k)'
        BY <1>2, <3>1 DEF CallerOwes
      <3> QED BY <1>1, <3>2 DEF Owed
    <2>4. /\ Cardinality(Owed(b)) \in Nat /\ Cardinality(Owed(b)') \in Nat
          /\ Cardinality(Owed(b)') < Cardinality(Owed(b))
          /\ IsFiniteSet(Owed(b)')
      BY <1>1, <1>7, <2>1, <2>3, OwedFinite
    <2>5. /\ batches'[b].remaining = batches[b].remaining - 1
          /\ batches'[b].promise = IF batches[b].remaining = 1 THEN "ready"
                                   ELSE batches[b].promise
      BY <1>3, <1>4, <1>10 DEF Published, PublishedAfter, BatchRecord
    <2>6. IF batches[b].promise = "broken" THEN Cardinality(Owed(b)) < batches[b].remaining
                                           ELSE Cardinality(Owed(b)) <= batches[b].remaining
      BY <1>8, <2>1 DEF BatchRight
    <2>7. <<b, 0>> \notin Alive'
      BY <1>1, <2>2
    <2>8. CASE batches[b].promise = "broken"
      <3>1. batches'[b].promise = "broken"
        BY <1>4, <2>4, <2>5, <2>6, <2>8
      <3>2. Cardinality(Owed(b)') < batches'[b].remaining
        BY <1>4, <2>4, <2>5, <2>6, <2>8
      <3> QED BY <2>7, <3>1, <3>2 DEF BatchRight
    <2>9. CASE batches[b].promise # "broken" /\ batches[b].remaining = 1
      <3>1. Cardinality(Owed(b)') = 0
        BY <1>4, <2>4, <2>6, <2>9
      <3>2. Owed(b)' = {}
        BY <2>4, <3>1, FS_EmptySet
      <3> QED BY <2>7, <3>2 DEF BatchRight
    <2>10. CASE batches[b].promise # "broken" /\ batches[b].remaining # 1
      <3>1. batches'[b].promise # "broken" /\ batches'[b].promise # "ready"
        BY <2>2, <2>5, <2>10
      <3>2. Cardinality(Owed(b)') <= batches'[b].remaining
        BY <1>4, <2>4, <2>5, <2>6, <2>10
      <3> QED BY <2>7, <3>1, <3>2 DEF BatchRight
    <2> QED BY <2>8, <2>9, <2>10
  <1>11. ASSUME NEW e \in DOMAIN batches', e # b
         PROVE  BatchRight(e)'
    <2>1. e \in DOMAIN batches /\ BatchRight(e) /\ batches'[e] = batches[e]
      BY <1>3, <1>11 DEF BatchesRight
    <2>2. Owed(e)' \subseteq Owed(e)
      BY <1>7, <2>1
    <2> QED BY <1>1, <2>1, <2>2, BatchStays
  <1> QED BY <1>6, <1>9, <1>10, <1>11 DEF BatchesRight

(* A new batch has no piece yet and is all owed, or answered and not owed.    *)
LEMMA SubmitRight ==
  ASSUME SchedulerAssumption, BatchTypes, CallerTypes, CallersSane, CallersApart,
         BatchesRight, BatchesStay, PiecesKnown, Alive' \subseteq Alive,
         NEW c \in Callers, Submit(c)
  PROVE  CallersApart' /\ BatchesRight'
  <1>0. PICK n : n = Len(batches) + 1
    OBVIOUS
  <1>1. PICK sub \in Submissions :
          /\ caller[c] = Idle
          /\ IF sub.requests = NoRequests \/ Refused(sub)
             THEN /\ batches' = Append(batches, Batch(sub, "ready",
                                                 AllFail(sub.requests, "InvalidArgument")))
                  /\ caller' = caller
             ELSE /\ batches' = Append(batches, Batch(sub, "pending", << >>))
                  /\ caller' = [caller EXCEPT ![c] =
                         [step |-> IF AttemptsStage(sub) THEN "stage" ELSE "enqueue",
                          batch |-> n, slot |-> 1, requests |-> sub.requests]]
    BY <1>0 DEF Submit
  <1>2. PICK promise, results :
          /\ promise \in {"ready", "pending"}
          /\ batches' = Append(batches, Batch(sub, promise, results))
          /\ promise = "ready" => caller' = caller
          /\ \/ caller' = caller
             \/ /\ caller'[c].batch = n /\ caller'[c].slot = 1
                /\ \A d \in Callers \ {c} : caller'[d] = caller[d]
    <2>1. CASE sub.requests = NoRequests \/ Refused(sub)
      BY <1>1, <2>1
    <2>2. CASE ~(sub.requests = NoRequests \/ Refused(sub))
      <3>1. /\ caller'[c].batch = n /\ caller'[c].slot = 1
            /\ \A d \in Callers \ {c} : caller'[d] = caller[d]
        BY <1>1, <2>2 DEF CallerTypes
      <3>2. batches' = Append(batches, Batch(sub, "pending", << >>))
        BY <1>1, <2>2
      <3> QED BY <3>1, <3>2
    <2> QED BY <2>1, <2>2
  <1>3. /\ DOMAIN batches' = DOMAIN batches \cup {n} /\ n \notin DOMAIN batches
        /\ batches'[n] = Batch(sub, promise, results)
        /\ \A e \in DOMAIN batches : batches'[e] = batches[e]
    BY <1>0, <1>2, LenProperties DEF BatchTypes
  <1>4. /\ batches'[n].requests = sub.requests /\ batches'[n].promise = promise
        /\ batches'[n].remaining = Len(sub.requests)
    BY <1>3 DEF Batch
  <1>5. \A k : <<n, k>> \notin Alive
    BY <1>3 DEF Alive, Name, PiecesKnown, Known
  <1>6. \A d \in Callers : caller[d].step \in Submitting =>
            caller[d].batch \in DOMAIN batches /\ caller[d].batch # n
    BY <1>3 DEF CallersSane, Submits
  <1>7. caller[c].step \notin Submitting
    BY <1>1 DEF Idle, Submitting
  <1>8. \A d \in Callers : \/ caller'[d] = caller[d]
                           \/ d = c /\ caller'[c].batch = n /\ caller'[c].slot = 1
    BY <1>2
  <1>9. CallersApart'
    <2> SUFFICES ASSUME NEW d \in Callers, caller'[d].step \in Submitting
                 PROVE  CallerApart(d)'
      BY DEF CallersApart, CallerApart
    <2>1. CASE caller'[d] = caller[d]
      <3>1. CallerApart(d) /\ caller[d].batch # n
        BY <1>6, <2>1 DEF CallersApart
      <3>2. ASSUME NEW e \in Callers, caller'[e].step \in Submitting,
                   caller'[e].batch = caller'[d].batch
            PROVE  d = e
        BY <1>8, <2>1, <3>1, <3>2 DEF CallerApart
      <3>3. caller'[d].step = "stage" => caller'[d].slot = 1
        BY <2>1, <3>1 DEF CallerApart
      <3>4. \A i \in DOMAIN caller'[d].requests :
                CallerOwes(d, caller[d].batch, i)' => <<caller'[d].batch, i>> \notin Alive'
        BY <2>1, <3>1 DEF CallerApart, CallerOwes
      <3> QED BY <2>1, <3>2, <3>3, <3>4 DEF CallerApart
    <2>2. CASE d = c /\ caller'[c].batch = n /\ caller'[c].slot = 1
      <3>1. ASSUME NEW e \in Callers, caller'[e].step \in Submitting, caller'[e].batch = n
            PROVE  d = e
        BY <1>6, <1>8, <2>2, <3>1
      <3>2. \A i : <<n, i>> \notin Alive'
        BY <1>5
      <3> QED BY <2>2, <3>1, <3>2 DEF CallerApart
    <2> QED BY <1>8, <2>1, <2>2
  <1>10. \A k : <<n, k>> \notin Alive'
    BY <1>5
  <1>11. BatchRight(n)'
    <2>1. CASE promise = "ready"
      <3>1. \A d \in Callers : \A i : ~CallerOwes(d, n, i)'
        BY <1>2, <1>6, <2>1 DEF CallerOwes
      <3>2. Owed(n)' = {}
        BY <1>10, <3>1 DEF Owed
      <3> QED BY <1>10, <3>2 DEF BatchRight
    <2>2. CASE promise = "pending"
      <3>1. Len(sub.requests) \in Nat /\ DOMAIN sub.requests = 1 .. Len(sub.requests)
        BY SubmissionTypes
      <3>2. Owed(n)' \subseteq 1 .. Len(sub.requests)
        BY <1>4, <3>1 DEF Owed
      <3>3. /\ IsFiniteSet(1 .. Len(sub.requests))
            /\ Cardinality(1 .. Len(sub.requests)) = Len(sub.requests)
        <4>1. 1 \in Int /\ Len(sub.requests) \in Int /\ ~(1 > Len(sub.requests) + 1)
          BY <3>1
        <4>2. 1 > Len(sub.requests) => Len(sub.requests) = 0
          BY <3>1
        <4>3. Len(sub.requests) - 1 + 1 = Len(sub.requests)
          BY <3>1
        <4> QED BY <4>1, <4>2, <4>3, FS_Interval
      <3>4. Cardinality(Owed(n)') <= Len(sub.requests)
        BY <3>2, <3>3, FS_Subset
      <3> QED BY <1>4, <1>10, <2>2, <3>4 DEF BatchRight
    <2> QED BY <1>2, <2>1, <2>2
  <1>12. ASSUME NEW e \in DOMAIN batches', e # n
         PROVE  BatchRight(e)'
    <2>1. e \in DOMAIN batches /\ BatchRight(e) /\ batches'[e] = batches[e]
      BY <1>3, <1>12 DEF BatchesRight
    <2>2. Owed(e)' \subseteq Owed(e)
      <3>1. \A d \in Callers : \A i : CallerOwes(d, e, i)' => CallerOwes(d, e, i)
        BY <1>8, <1>12 DEF CallerOwes
      <3> QED BY <2>1, <3>1 DEF Owed
    <2> QED BY <2>1, <2>2, BatchStays
  <1> QED BY <1>3, <1>9, <1>11, <1>12 DEF BatchesRight

(* Errors answer anything.                                                   *)
LEMMA AllFailAnswers ==
  ASSUME NEW requests, NEW code \in Code \ {"ok"}
  PROVE  /\ DOMAIN AllFail(requests, code) = DOMAIN requests
         /\ Answers(AllFail(requests, code), requests)
  BY DEF AllFail, Answers, Failure

(* A pass computes the results for the sessions of its requests, in order.   *)
LEMMA ResultsAnswer ==
  ASSUME NEW kind, NEW requests, NEW code \in Code
  PROVE  Answers(Results(kind, requests, code), requests)
  <1>1. CASE code = "ok"
    <2>1. Results(kind, requests, code) = [i \in DOMAIN requests |-> Success(kind, requests[i])]
      BY <1>1 DEF Results
    <2>2. \A i \in DOMAIN requests : Success(kind, requests[i]).session = requests[i].session
      BY DEF Success
    <2> QED BY <2>1, <2>2 DEF Answers
  <1>2. CASE code # "ok"
    <2>1. Results(kind, requests, code) = AllFail(requests, code)
      BY <1>2 DEF Results
    <2> QED BY <1>2, <2>1, AllFailAnswers
  <1> QED BY <1>1, <1>2

(* Publishing them keeps the results of the batch with their requests.       *)
LEMMA PublishedAnswers ==
  ASSUME NEW batch \in BatchRecord, BatchAnswers(batch), NEW slot, NEW results \in Seq(Result),
         NEW requests \in Seq(Request), Len(results) = Len(requests), Answers(results, requests),
         IF slot = 0 THEN requests = batch.requests
         ELSE slot \in DOMAIN batch.requests /\ requests = <<batch.requests[slot]>>
  PROVE  BatchAnswers(Published(batch, slot, results))
  <1>0. DOMAIN results = DOMAIN requests
    BY LenProperties
  <1>1. CASE slot = 0
    <2>1. /\ Published(batch, slot, results).results = results
          /\ Published(batch, slot, results).requests = batch.requests
      BY <1>1 DEF Published, PublishedAfter, BatchRecord
    <2> QED BY <1>0, <1>1, <2>1 DEF BatchAnswers
  <1>2. CASE slot # 0
    <2> DEFINE filled == [i \in DOMAIN batch.requests |->
                             IF i = slot THEN results[1]
                             ELSE IF i \in DOMAIN batch.results THEN batch.results[i]
                             ELSE Failure("InternalError")]
    <2>1. /\ Published(batch, slot, results).results = filled
          /\ Published(batch, slot, results).requests = batch.requests
      <3>1. Published(batch, slot, results) =
              [batch EXCEPT !.results = filled, !.remaining = batch.remaining - 1,
                  !.promise = IF batch.remaining = 1 THEN "ready" ELSE batch.promise]
        BY <1>2 DEF Published, PublishedAfter
      <3> HIDE DEF filled
      <3> QED BY <3>1 DEF BatchRecord
    <2>2. results[1].status = "ok" => results[1].session = batch.requests[slot].session
      <3>0. requests = <<batch.requests[slot]>>
        BY <1>2
      <3>1. 1 \in DOMAIN requests /\ requests[1] = batch.requests[slot]
        BY <3>0
      <3>2. 1 \in DOMAIN results
        BY <1>0, <3>1
      <3> QED BY <3>1, <3>2 DEF Answers
    <2>3. Failure("InternalError").status # "ok"
      BY DEF Failure
    <2>4. \A i \in DOMAIN batch.results : batch.results[i].status = "ok" =>
              batch.results[i].session = batch.requests[i].session
      BY DEF BatchAnswers, Answers
    <2>5. Answers(filled, batch.requests)
      BY <2>2, <2>3, <2>4 DEF Answers
    <2>6. DOMAIN filled = DOMAIN batch.requests
      OBVIOUS
    <2> HIDE DEF filled
    <2> QED BY <2>1, <2>5, <2>6 DEF BatchAnswers
  <1> QED BY <1>1, <1>2

(* Every step keeps the outcomes with the work they are the outcomes of.     *)
LEMMA OutcomesMatchStep ==
  ASSUME WorkerTypes, OutcomeTypes, OutcomesMatch, [Next]_vars
  PROVE  OutcomesMatch'
  <1> DEFINE Ran == {"release", "announce", "complete"}
  <1>1. ASSUME NEW w \in Workers, Execute(w)
        PROVE  OutcomesMatch'
    <2>1. PICK code \in Code :
              outcome' = [outcome EXCEPT ![w] = Results(work[w].kind, work[w].requests, code)]
      BY <1>1 DEF Execute
    <2>2. PICK results : results = Results(work[w].kind, work[w].requests, code)
      OBVIOUS
    <2>3. Answers(results, work[w].requests)
      BY <2>2, ResultsAnswer
    <2>4. /\ outcome' = [outcome EXCEPT ![w] = results]
          /\ worker' = [worker EXCEPT ![w] = "release"] /\ work' = work
      BY <1>1, <2>1, <2>2 DEF Execute
    <2>5. /\ outcome'[w] = results
          /\ \A v \in Workers \ {w} : outcome'[v] = outcome[v] /\ worker'[v] = worker[v]
      BY <2>4 DEF OutcomeTypes, WorkerTypes
    <2> QED BY <2>3, <2>4, <2>5 DEF OutcomesMatch
  <1>2. ASSUME NEW w \in Workers, worker'[w] \notin Ran,
               \A v \in Workers \ {w} : /\ worker'[v] = worker[v]
                                        /\ work'[v] = work[v] /\ outcome'[v] = outcome[v]
        PROVE  OutcomesMatch'
    BY <1>2 DEF OutcomesMatch
  <1>3. ASSUME outcome' = outcome, work' = work,
               \A w \in Workers : worker'[w] \in Ran => worker[w] \in Ran
        PROVE  OutcomesMatch'
    BY <1>3 DEF OutcomesMatch
  <1>4. ASSUME NEW w \in Workers, Take(w) \/ Complete(w)
        PROVE  OutcomesMatch'
    <2>1. /\ worker'[w] \in {"lease", "ready"}
          /\ \A v \in Workers \ {w} : /\ worker'[v] = worker[v]
                                      /\ work'[v] = work[v] /\ outcome'[v] = outcome[v]
      BY <1>4 DEF Take, Complete, WorkerTypes, OutcomeTypes
    <2> QED BY <1>2, <2>1
  <1>5. ASSUME NEW w \in Workers,
               Wait(w) \/ Leave(w) \/ AcquireCompute(w) \/ MeasureTeam(w)
                 \/ PrepareTeam(w) \/ LockSession(w)
        PROVE  OutcomesMatch'
    <2>1. outcome' = outcome /\ work' = work
      BY <1>5 DEF Wait, Leave, AcquireCompute, MeasureTeam, PrepareTeam, LockSession
    <2>2. \A v \in Workers : worker'[v] = worker[v] \/ worker'[v] \notin Ran
      BY <1>5 DEF Wait, Leave, AcquireCompute, MeasureTeam, PrepareTeam, LockSession, WorkerTypes
    <2> HIDE DEF Ran
    <2> QED BY <1>3, <2>1, <2>2
  <1>6. ASSUME NEW w \in Workers, ReleaseSessions(w)
        PROVE  OutcomesMatch'
    <2>1. /\ outcome' = outcome /\ work' = work
          /\ worker[w] = "release" /\ worker' = [worker EXCEPT ![w] = "announce"]
      BY <1>6 DEF ReleaseSessions
    <2>2. \A v \in Workers : worker'[v] \in Ran => worker[v] \in Ran
      BY <2>1 DEF WorkerTypes
    <2> HIDE DEF Ran
    <2> QED BY <1>3, <2>1, <2>2
  <1>7. ASSUME NEW w \in Workers, NotifyAll(w)
        PROVE  OutcomesMatch'
    <2>1. /\ outcome' = outcome /\ work' = work
          /\ worker[w] = "announce" /\ worker' = WakeAll([worker EXCEPT ![w] = "complete"])
      BY <1>7 DEF NotifyAll
    <2>2. \A v \in Workers : worker'[v] \in Ran => worker[v] \in Ran
      BY <2>1 DEF WorkerTypes, WakeAll
    <2> HIDE DEF Ran
    <2> QED BY <1>3, <2>1, <2>2
  <1>8. ASSUME NEW c \in Callers, NotifyOne(c)
        PROVE  OutcomesMatch'
    BY <1>3, <1>8 DEF NotifyOne, WorkerTypes
  <1>9. ASSUME NotifyStop
        PROVE  OutcomesMatch'
    BY <1>3, <1>9 DEF NotifyStop, WakeAll, WorkerTypes
  <1>10. ASSUME UNCHANGED <<outcome, work, worker>>
         PROVE  OutcomesMatch'
    BY <1>10 DEF OutcomesMatch
  <1>11. \/ \E c \in Callers : NotifyOne(c)
         \/ NotifyStop
         \/ UNCHANGED <<outcome, work, worker>>
         \/ \E w \in Workers : WorkerStep(w)
    BY ZenonT(30) DEF Next, vars, CallerStep, SubmitStep, DirectStep, Submit, TryEnqueueBatch,
           EnqueueSession, Throw, StartDirect, LockDirect, RunDirect, Reset, CommitGeneration,
           Stop, Join
  <1> QED BY <1>1, <1>4, <1>5, <1>6, <1>7, <1>8, <1>9, <1>10, <1>11 DEF WorkerStep

(* Every step keeps the results of the batches with their requests.          *)
LEMMA BatchAnswersStep ==
  ASSUME SchedulerAssumption, BatchTypes, CallersSane, OutcomeTypes, WorkerTypes, OutcomesSane,
         ResultsMatch, PiecesKnown, [Next]_vars
  PROVE  \A b \in DOMAIN batches' : BatchAnswers(batches'[b])
  <1>0. \A b \in DOMAIN batches : batches[b] \in BatchRecord /\ BatchAnswers(batches[b])
    BY ElementOfSeq, LenProperties DEF BatchTypes, ResultsMatch
  <1>1. ASSUME NEW c \in Callers, Submit(c)
        PROVE  \A b \in DOMAIN batches' : BatchAnswers(batches'[b])
    <2>1. PICK sub \in Submissions :
            \/ batches' = Append(batches, Batch(sub, "ready", AllFail(sub.requests, "InvalidArgument")))
            \/ batches' = Append(batches, Batch(sub, "pending", << >>))
      BY <1>1 DEF Submit
    <2>2. BatchAnswers(Batch(sub, "pending", << >>))
      BY DEF BatchAnswers, Answers, Batch
    <2>3. BatchAnswers(Batch(sub, "ready", AllFail(sub.requests, "InvalidArgument")))
      <3>1. /\ DOMAIN AllFail(sub.requests, "InvalidArgument") = DOMAIN sub.requests
            /\ Answers(AllFail(sub.requests, "InvalidArgument"), sub.requests)
        BY AllFailAnswers DEF Code
      <3> QED BY <3>1 DEF BatchAnswers, Batch
    <2>4. PICK new : batches' = Append(batches, new) /\ BatchAnswers(new)
      BY <2>1, <2>2, <2>3
    <2>5. \A b \in DOMAIN batches' : \/ b \in DOMAIN batches /\ batches'[b] = batches[b]
                                     \/ batches'[b] = new
      BY <2>4, LenProperties DEF BatchTypes
    <2> QED BY <1>0, <2>4, <2>5
  <1>2. ASSUME NEW x, NEW batch, x \in DOMAIN batches => BatchAnswers(batch),
               batches' = [batches EXCEPT ![x] = batch]
        PROVE  \A b \in DOMAIN batches' : BatchAnswers(batches'[b])
    BY <1>0, <1>2
  <1>3. ASSUME NEW c \in Callers, TryEnqueueBatch(c)
        PROVE  \A b \in DOMAIN batches' : BatchAnswers(batches'[b])
    <2>1. PICK x, results :
            /\ x = caller[c].batch
            /\ results = AllFail(caller[c].requests, "InvalidArgument")
      OBVIOUS
    <2>2. \/ batches' = batches
          \/ batches' = [batches EXCEPT ![x] =
                             [@ EXCEPT !.promise = "ready", !.results = results]]
      BY <1>3, <2>1 DEF TryEnqueueBatch
    <2>3. x \in DOMAIN batches => BatchAnswers([batches[x] EXCEPT !.promise = "ready",
                                                                 !.results = results])
      <3> SUFFICES ASSUME x \in DOMAIN batches
                   PROVE  BatchAnswers([batches[x] EXCEPT !.promise = "ready", !.results = results])
        OBVIOUS
      <3>1. caller[c].requests = batches[x].requests
        BY <1>3, <2>1 DEF TryEnqueueBatch, CallersSane, Submits, Submitting
      <3>2. DOMAIN results = DOMAIN batches[x].requests /\ Answers(results, batches[x].requests)
        BY <2>1, <3>1, AllFailAnswers DEF Code
      <3>3. batches[x] \in BatchRecord
        BY <1>0
      <3> QED BY <3>2, <3>3 DEF BatchAnswers, BatchRecord
    <2>4. CASE batches' = batches
      BY <1>0, <2>4
    <2>5. CASE batches' = [batches EXCEPT ![x] =
                               [@ EXCEPT !.promise = "ready", !.results = results]]
      BY <1>0, <2>3, <2>5
    <2> QED BY <2>2, <2>4, <2>5
  <1>4. ASSUME NEW c \in Callers, Throw(c)
        PROVE  \A b \in DOMAIN batches' : BatchAnswers(batches'[b])
    <2>1. PICK x : x = caller[c].batch
      OBVIOUS
    <2>2. batches' = [batches EXCEPT ![x] = [batches[x] EXCEPT !.promise = "broken"]]
      BY <1>4, <2>1 DEF Throw
    <2>3. x \in DOMAIN batches => BatchAnswers([batches[x] EXCEPT !.promise = "broken"])
      BY <1>0 DEF BatchAnswers, BatchRecord
    <2> QED BY <1>2, <2>2, <2>3
  <1>5. ASSUME NEW w \in Workers, Complete(w)
        PROVE  \A b \in DOMAIN batches' : BatchAnswers(batches'[b])
    <2>1. PICK x, slot, results, requests :
            x = work[w].batch /\ slot = work[w].slot /\ results = outcome[w]
            /\ requests = work[w].requests
      OBVIOUS
    <2>2. batches' = [batches EXCEPT ![x] = Published(batches[x], slot, results)]
      BY <1>5, <2>1 DEF Complete
    <2>3. Known(work[w])
      <3>1. w \in Carrying
        BY <1>5 DEF Complete, Carrying
      <3> QED BY <3>1, PlacesNow DEF PiecesKnown
    <2>4. /\ x \in DOMAIN batches
          /\ IF slot = 0 THEN requests = batches[x].requests
             ELSE slot \in DOMAIN batches[x].requests /\ requests = <<batches[x].requests[slot]>>
      BY <2>1, <2>3 DEF Known
    <2>5. results \in Seq(Result) /\ requests \in Seq(Request) /\ Len(results) = Len(requests)
      BY <1>5, <2>1, WorkRequests DEF Complete, OutcomeTypes, WorkerTypes, OutcomesSane
    <2>6. Answers(results, requests)
      BY <1>5, <2>1 DEF Complete, ResultsMatch, OutcomesMatch
    <2>7. BatchAnswers(Published(batches[x], slot, results))
      BY <1>0, <2>4, <2>5, <2>6, PublishedAnswers
    <2> QED BY <1>2, <2>2, <2>7
  <1>6. ASSUME UNCHANGED batches
        PROVE  \A b \in DOMAIN batches' : BatchAnswers(batches'[b])
    BY <1>0, <1>6
  <1> QED BY <1>1, <1>3, <1>4, <1>5, <1>6, BatchSteps

(* Only Take and Complete change who carries which piece.                    *)
LEMMA CarryingStays ==
  ASSUME WorkerTypes, [Next]_vars, \A w \in Workers : ~Take(w) /\ ~Complete(w)
  PROVE  Carrying' = Carrying /\ work' = work
  <1> DEFINE Out == {"ready", "asleep", "exited"}
  <1>1. ASSUME work' = work, \A v \in Workers : worker'[v] \in Out <=> worker[v] \in Out
        PROVE  Carrying' = Carrying /\ work' = work
    BY <1>1 DEF Carrying
  <1>2. ASSUME NEW w \in Workers, Wait(w) \/ Leave(w) \/ AcquireCompute(w) \/ MeasureTeam(w)
                 \/ PrepareTeam(w) \/ LockSession(w) \/ Execute(w) \/ ReleaseSessions(w)
        PROVE  Carrying' = Carrying /\ work' = work
    <2>1. work' = work
      BY <1>2 DEF Wait, Leave, AcquireCompute, MeasureTeam, PrepareTeam, LockSession, Execute,
                  ReleaseSessions
    <2>2. \/ worker' = worker
          \/ \E state : /\ worker' = [worker EXCEPT ![w] = state]
                        /\ state \in Out <=> worker[w] \in Out
      <3>1. CASE LockSession(w)
        BY <3>1 DEF LockSession
      <3>2. CASE AcquireCompute(w)
        <4>1. \/ worker' = [worker EXCEPT ![w] = "measure"]
              \/ worker' = [worker EXCEPT ![w] = "lock"]
          BY <3>2 DEF AcquireCompute
        <4>2. worker[w] = "lease"
          BY <3>2 DEF AcquireCompute
        <4> QED BY <4>1, <4>2
      <3>3. CASE Wait(w) \/ Leave(w)
        BY <3>3 DEF Wait, Leave
      <3>4. CASE MeasureTeam(w) \/ PrepareTeam(w) \/ Execute(w) \/ ReleaseSessions(w)
        BY <3>4 DEF MeasureTeam, PrepareTeam, Execute, ReleaseSessions
      <3> QED BY <1>2, <3>1, <3>2, <3>3, <3>4
    <2>3. \A v \in Workers : worker'[v] \in Out <=> worker[v] \in Out
      BY <2>2 DEF WorkerTypes
    <2> HIDE DEF Out
    <2> QED BY <1>1, <2>1, <2>3
  <1>3. ASSUME NEW w \in Workers, NotifyAll(w)
        PROVE  Carrying' = Carrying /\ work' = work
    <2>1. /\ worker[w] = "announce" /\ worker' = WakeAll([worker EXCEPT ![w] = "complete"])
          /\ work' = work
      BY <1>3 DEF NotifyAll
    <2>2. \A v \in Workers : worker'[v] \in Out <=> worker[v] \in Out
      BY <2>1 DEF WakeAll, WorkerTypes
    <2> HIDE DEF Out
    <2> QED BY <1>1, <2>1, <2>2
  <1>4. ASSUME NotifyStop
        PROVE  Carrying' = Carrying /\ work' = work
    <2>1. worker' = WakeAll(worker) /\ work' = work
      BY <1>4 DEF NotifyStop
    <2>2. \A v \in Workers : worker'[v] \in Out <=> worker[v] \in Out
      BY <2>1 DEF WakeAll
    <2> HIDE DEF Out
    <2> QED BY <1>1, <2>1, <2>2
  <1>5. ASSUME NEW c \in Callers, NotifyOne(c)
        PROVE  Carrying' = Carrying /\ work' = work
    <2>1. /\ work' = work
          /\ worker' = worker \/ \E v \in Asleep : worker' = [worker EXCEPT ![v] = "ready"]
      BY <1>5 DEF NotifyOne
    <2>2. \A v \in Workers : worker'[v] \in Out <=> worker[v] \in Out
      BY <2>1 DEF Asleep, WorkerTypes
    <2> HIDE DEF Out
    <2> QED BY <1>1, <2>1, <2>2
  <1>6. ASSUME UNCHANGED <<work, worker>>
        PROVE  Carrying' = Carrying /\ work' = work
    BY <1>6 DEF Carrying
  <1>7. \/ \E c \in Callers : NotifyOne(c)
        \/ NotifyStop
        \/ UNCHANGED <<work, worker>>
        \/ \E w \in Workers : WorkerStep(w)
    BY DEF Next, vars, CallerStep, SubmitStep, DirectStep, Submit, TryEnqueueBatch,
           EnqueueSession, Throw, StartDirect, LockDirect, RunDirect, Reset, CommitGeneration,
           Stop, Join
  <1> QED BY <1>2, <1>3, <1>4, <1>5, <1>6, <1>7 DEF WorkerStep

(* A staged submission leaves one whole piece, or none.                      *)
LEMMA TryEnqueueAnswers ==
  ASSUME SchedulerAssumption, Control, AnswerInv, BatchesStay, CallersKeep,
         NEW c \in Callers, TryEnqueueBatch(c)
  PROVE  Pieces' /\ CallersApart' /\ BatchesRight'
  <1> USE DEF Control, AnswerInv
  <1>0. PICK b, S, requests : /\ b = caller[c].batch /\ requests = caller[c].requests
                              /\ S = SessionsIn(requests)
    OBVIOUS
  <1>1. /\ caller[c].step = "stage" /\ worker' = worker /\ work' = work
        /\ IF Free(S)
           THEN /\ session_queues' = Reserve(S) /\ queue' = Append(queue, WholeBatch(b))
                /\ caller' = [caller EXCEPT ![c].step = "notify", ![c].slot = Len(requests)]
                /\ batches' = batches
           ELSE /\ UNCHANGED queue_vars
                /\ \/ /\ caller' = [caller EXCEPT ![c] = Idle]
                      /\ \E batch : batches' = [batches EXCEPT ![b] = batch]
                   \/ batches' = batches
    BY <1>0 DEF TryEnqueueBatch, queue_vars
  <1>2. caller[c].slot = 1
    BY <1>1 DEF CallersApart, CallerApart, Submitting
  <1>3. /\ b \in DOMAIN batches /\ batches[b].requests = requests
        /\ <<b, 0>> \notin Alive
    BY <1>0, <1>1, NextOwed
  <1>4. CASE Free(S)
    <2>1. Known(WholeBatch(b)) /\ Name(WholeBatch(b)) = <<b, 0>>
      BY <1>3 DEF Known, WholeBatch, Name
    <2>2. PICK new : new = WholeBatch(b)
      OBVIOUS
    <2>3. Pieces' /\ Alive' = Alive \cup {<<b, 0>>}
      <3>1. /\ queue' = Append(queue, new) /\ session_queues' = Reserve(S)
            /\ UNCHANGED <<worker, work>> /\ Known(new) /\ Name(new) \notin Alive
        BY <1>1, <1>3, <1>4, <2>1, <2>2
      <3>2. Pieces' /\ Alive' = Alive \cup {Name(new)}
        BY <1>4, <3>1, ReadyAdded
      <3> QED BY <2>1, <2>2, <3>2
    <2>4. /\ caller'[c].step = "notify" /\ caller'[c].slot = Len(caller[c].requests)
          /\ \A d \in Callers \ {c} : caller'[d] = caller[d]
          /\ UNCHANGED batches
      BY <1>0, <1>1, <1>4 DEF CallerTypes
    <2>5. CallersApart' /\ BatchesRight'
      BY <1>0, <1>1, <1>2, <2>3, <2>4, WholePlaced
    <2> QED BY <2>3, <2>5
  <1>5. CASE ~Free(S)
    <2>1. Pieces' /\ Alive' \subseteq Alive
      <3>1. UNCHANGED queue_vars /\ Carrying' = Carrying /\ \A w \in Carrying : work'[w] = work[w]
        BY <1>1, <1>5 DEF Carrying
      <3> QED BY <3>1, PiecesStay
    <2>2. CASE batches' = batches
      BY <2>1, <2>2, CalmStep
    <2>3. CASE /\ caller' = [caller EXCEPT ![c] = Idle]
               /\ \E batch : batches' = [batches EXCEPT ![b] = batch]
      <3>1. /\ DOMAIN batches' = DOMAIN batches
            /\ \A e \in DOMAIN batches \ {b} : batches'[e] = batches[e]
        BY <2>3
      <3> QED BY <1>0, <1>1, <2>1, <2>3, <3>1, RefusedRight
    <2> QED BY <1>1, <1>5, <2>1, <2>2, <2>3
  <1> QED BY <1>4, <1>5

(* A submission for one session leaves a piece of its batch.                 *)
LEMMA EnqueueAnswers ==
  ASSUME SchedulerAssumption, Control, AnswerInv, BatchesStay, CallersKeep,
         NEW c \in Callers, EnqueueSession(c)
  PROVE  Pieces' /\ CallersApart' /\ BatchesRight'
  <1> USE DEF Control, AnswerInv
  <1>0. PICK b, i, requests, s, new :
            /\ b = caller[c].batch /\ i = caller[c].slot /\ requests = caller[c].requests
            /\ s = requests[i].session
            /\ new = IF batches[b].kind = "prefill" THEN WholeBatch(b) ELSE OneRequest(b, i)
    OBVIOUS
  <1>1. /\ caller[c].step = "enqueue" /\ worker' = worker /\ work' = work
        /\ batches' = batches
        /\ caller' = [caller EXCEPT ![c].step = "notify"]
        /\ IF s \in Reserved
           THEN session_queues' = [session_queues EXCEPT ![s] = Append(@, new)] /\ queue' = queue
           ELSE session_queues' = Reserve({s}) /\ queue' = Append(queue, new)
    BY <1>0 DEF EnqueueSession, Behind
  <1>2. /\ b \in DOMAIN batches /\ batches[b].requests = requests
        /\ i \in DOMAIN batches[b].requests /\ i # 0
        /\ <<b, i>> \notin Alive /\ <<b, 0>> \notin Alive
    BY <1>0, <1>1, NextOwed
  <1>3. new \in Work
    BY <1>0, <1>2, WorkOfBatch
  <1>4. Known(new) /\ Name(new) = (IF batches[b].kind = "prefill" THEN <<b, 0>> ELSE <<b, i>>)
    BY <1>0, <1>2 DEF Known, Name, WholeBatch, OneRequest
  <1>5. Name(new) \notin Alive
    BY <1>2, <1>4
  <1>6. Pieces' /\ Alive' = Alive \cup {Name(new)}
    <2>1. CASE s \in Reserved
      <3>1. /\ session_queues' = [session_queues EXCEPT ![s] = Append(@, new)]
            /\ UNCHANGED <<queue, worker, work>>
        BY <1>1, <2>1
      <3> QED BY <1>3, <1>4, <1>5, <2>1, <3>1, PendingAdded
    <2>2. CASE s \notin Reserved
      <3>1. /\ session_queues' = Reserve({s}) /\ queue' = Append(queue, new)
            /\ UNCHANGED <<worker, work>> /\ Free({s})
        BY <1>1, <2>2 DEF Free
      <3> QED BY <1>4, <1>5, <3>1, ReadyAdded
    <2> QED BY <2>1, <2>2
  <1>7. /\ caller'[c].step = "notify" /\ caller'[c].slot = caller[c].slot
        /\ \A d \in Callers \ {c} : caller'[d] = caller[d]
    BY <1>1 DEF CallerTypes
  <1>8. CASE batches[b].kind = "prefill"
    <2>1. Len(caller[c].requests) = 1
      BY <1>0, <1>1, <1>8 DEF CallersSane, Submits, Submitting
    <2>2. caller[c].slot = 1
      <3>1. caller[c].requests \in Seq(Request) /\ caller[c].slot \in DOMAIN caller[c].requests
        BY <1>0, <1>2 DEF CallerTypes
      <3>2. ~(Len(caller[c].requests) > 1)
        BY <2>1
      <3> QED BY <3>1, <3>2, OneElement
    <2>3. caller'[c].slot = Len(caller[c].requests) /\ Alive' = Alive \cup {<<b, 0>>}
      BY <1>4, <1>6, <1>7, <1>8, <2>1, <2>2
    <2>4. CallersApart' /\ BatchesRight'
      BY <1>0, <1>1, <1>7, <2>2, <2>3, WholePlaced
    <2> QED BY <1>6, <2>4
  <1>9. CASE batches[b].kind # "prefill"
    <2>1. Alive' = Alive \cup {<<b, i>>}
      BY <1>4, <1>6, <1>9
    <2>2. CallersApart' /\ BatchesRight'
      BY <1>0, <1>1, <1>7, <2>1, RequestPlaced
    <2> QED BY <1>6, <2>2
  <1> QED BY <1>8, <1>9

(* Every step keeps the answers exact.                                       *)
LEMMA AnswerStep ==
  ASSUME SchedulerAssumption, Control, AnswerInv, [Next]_vars
  PROVE  AnswerInv'
  <1> USE DEF Control, AnswerInv
  <1>0. BatchesStay /\ PiecesKnown
    BY BatchesStayStep DEF Pieces
  <1>1. ResultsMatch'
    BY <1>0, BatchAnswersStep, OutcomesMatchStep DEF ResultsMatch
  <1>2. ASSUME NEW c \in Callers, Submit(c)
        PROVE  Pieces' /\ CallersApart' /\ BatchesRight'
    <2>1. UNCHANGED queue_vars /\ worker' = worker /\ work' = work
      BY <1>2 DEF Submit
    <2>2. Carrying' = Carrying /\ \A w \in Carrying : work'[w] = work[w]
      BY <2>1 DEF Carrying
    <2>3. Pieces' /\ Alive' \subseteq Alive
      BY <1>0, <2>1, <2>2, PiecesStay
    <2> QED BY <1>0, <1>2, <2>3, SubmitRight
  <1>3. ASSUME \A c \in Callers : ~Submit(c)
        PROVE  Pieces' /\ CallersApart' /\ BatchesRight'
    <2>1. CallersKeep
      BY <1>3, CallersKeepStep
    <2>2. ASSUME Pieces', Alive' \subseteq Alive, batches' = batches
          PROVE  Pieces' /\ CallersApart' /\ BatchesRight'
      BY <1>0, <2>1, <2>2, CalmStep
    <2>3. ASSUME NEW w \in Workers, Take(w)
          PROVE  Pieces' /\ CallersApart' /\ BatchesRight'
      BY <1>0, <2>2, <2>3, TakeMoves DEF Take
    <2>4. ASSUME NEW w \in Workers, ReleaseSessions(w)
          PROVE  Pieces' /\ CallersApart' /\ BatchesRight'
      BY <1>0, <2>2, <2>4, ReleaseMoves DEF ReleaseSessions
    <2>5. ASSUME NEW w \in Workers, Complete(w)
          PROVE  Pieces' /\ CallersApart' /\ BatchesRight'
      BY <1>0, <2>5, CompleteRemoves, CompleteRight
    <2>6. ASSUME NEW c \in Callers, TryEnqueueBatch(c)
          PROVE  Pieces' /\ CallersApart' /\ BatchesRight'
      BY <1>0, <2>1, <2>6, TryEnqueueAnswers
    <2>7. ASSUME NEW c \in Callers, EnqueueSession(c)
          PROVE  Pieces' /\ CallersApart' /\ BatchesRight'
      BY <1>0, <2>1, <2>7, EnqueueAnswers
    <2>8. ASSUME UNCHANGED queue_vars, \A w \in Workers : ~Take(w) /\ ~Complete(w)
          PROVE  Pieces' /\ CallersApart' /\ BatchesRight'
      <3>1. Carrying' = Carrying /\ work' = work
        BY <2>8, CarryingStays
      <3>2. Pieces' /\ Alive' \subseteq Alive
        BY <1>0, <2>8, <3>1, PiecesStay
      <3>3. CASE batches' = batches
        BY <2>2, <3>2, <3>3
      <3>4. CASE \E c \in Callers : Throw(c)
        BY <1>0, <2>1, <3>2, <3>4, ThrowRight
      <3>5. CASE \E c \in Callers : TryEnqueueBatch(c)
        BY <2>6, <3>5
      <3> QED BY <1>3, <2>8, <3>3, <3>4, <3>5, BatchSteps
    <2>9. CASE UNCHANGED queue_vars
      BY <2>3, <2>5, <2>8, <2>9
    <2> QED BY <2>3, <2>4, <2>6, <2>7, <2>9, QueueSteps
  <1> QED BY <1>1, <1>2, <1>3

(* At first there is nothing to answer.                                      *)
LEMMA AnswerStart ==
  ASSUME Init
  PROVE  AnswerInv
  <1>1. /\ DOMAIN queue = {} /\ Reserved = {} /\ Carrying = {} /\ DOMAIN batches = {}
    BY DEF Init, Reserved, Carrying
  <1>2. Places = {}
    BY <1>1, PlacesNow
  <1>3. Pieces
    BY <1>2 DEF Pieces, PiecesKnown, PiecesOnce
  <1>4. \A c \in Callers : caller[c].step \notin Submitting
    BY DEF Init, Idle, Submitting
  <1>5. CallersApart
    BY <1>4 DEF CallersApart, CallerApart
  <1>6. OutcomesMatch
    BY DEF Init, OutcomesMatch
  <1> QED BY <1>1, <1>3, <1>5, <1>6 DEF AnswerInv, BatchesRight, ResultsMatch

(* An answered batch has its results, and nothing of it is left.             *)
LEMMA AnsweredIsComplete ==
  ASSUME AnswerInv
  PROVE  AnswersComplete
  <1> SUFFICES ASSUME NEW b \in DOMAIN batches, batches[b].promise = "ready"
               PROVE  /\ DOMAIN batches[b].results = DOMAIN batches[b].requests
                      /\ \A i \in DOMAIN batches[b].results :
                             batches[b].results[i].status = "ok" =>
                                 batches[b].results[i].session = batches[b].requests[i].session
                      /\ \A i \in DOMAIN queue : queue[i].batch # b
                      /\ \A w \in Busy : work[w].batch # b
                      /\ \A s \in Reserved : \A i \in DOMAIN session_queues[s] :
                             session_queues[s][i].batch # b
    BY DEF AnswersComplete
  <1>1. /\ DOMAIN batches[b].results = DOMAIN batches[b].requests
        /\ Answers(batches[b].results, batches[b].requests)
    BY DEF AnswerInv, ResultsMatch, BatchAnswers
  <1>2. <<b, 0>> \notin Alive /\ Owed(b) = {}
    BY DEF AnswerInv, BatchesRight, BatchRight
  <1>3. \A p \in Places : At(p).batch # b
    <2> SUFFICES ASSUME NEW p \in Places, At(p).batch = b
                 PROVE  FALSE
      OBVIOUS
    <2>1. <<b, At(p).slot>> \in Alive
      BY DEF Alive, Name
    <2>2. At(p).slot # 0 => At(p).slot \in DOMAIN batches[b].requests
      BY DEF AnswerInv, Pieces, PiecesKnown, Known
    <2> QED BY <1>2, <2>1, <2>2 DEF Owed
  <1>4. Busy \subseteq Carrying
    BY DEF Busy, Carrying
  <1>5. \A i \in DOMAIN queue : queue[i].batch # b
    BY <1>3, PlacesNow
  <1>6. \A w \in Busy : work[w].batch # b
    BY <1>3, <1>4, PlacesNow
  <1>7. \A s \in Reserved : \A i \in DOMAIN session_queues[s] : session_queues[s][i].batch # b
    <2> SUFFICES ASSUME NEW s \in Reserved, NEW i \in DOMAIN session_queues[s]
                 PROVE  session_queues[s][i].batch # b
      OBVIOUS
    <2>1. <<"pending", s, i>> \in Places /\ At(<<"pending", s, i>>) = session_queues[s][i]
      BY PlacesNow
    <2> QED BY <1>3, <2>1
  <1> QED BY <1>1, <1>5, <1>6, <1>7 DEF Answers

(* The answers are the answers of the batches: every piece of accepted work   *)
(* is in one place at a time and none is lost or doubled on its way.         *)
THEOREM AnswerInvariant == Spec => []AnswerInv
  <1>1. Init => AnswerInv
    BY AnswerStart
  <1>2. Control /\ AnswerInv /\ [Next]_vars => AnswerInv'
    BY SchedulerAssumption, AnswerStep
  <1>3. Spec => []Control
    BY ControlInvariant
  <1> QED BY <1>1, <1>2, <1>3, PTL DEF Spec

(* A batch that is answered has a result for each request, with the logits   *)
(* of that request's session, and none of its work is left anywhere.         *)
THEOREM AnswersAreComplete == Spec => []AnswersComplete
  <1>1. AnswerInv => AnswersComplete
    BY AnsweredIsComplete
  <1> QED BY <1>1, AnswerInvariant, PTL

-----------------------------------------------------------------------------
(* Service.  The work that has not run, at the front of which the owners of   *)
(* the reserved sessions are, and the work that ran and is not answered yet.  *)
Starting == {w \in Workers : worker[w] \in {"lease", "measure", "extend", "lock"}}
Ending == {w \in Workers : worker[w] \in {"release", "announce", "complete"}}
Unrun == {queue[i] : i \in DOMAIN queue}
         \cup (UNION {{session_queues[s][i] : i \in DOMAIN session_queues[s]} : s \in Reserved})
         \cup {work[w] : w \in Starting}
Ended == {work[w] : w \in Ending}
Ran == {Name(piece) : piece \in executed}

(* Every batch was submitted, and pieces are of their batch's kind.          *)
FromSubmissions ==
    /\ Len(batches) <= MaxBatches
    /\ \A b \in DOMAIN batches : \E sub \in Submissions :
           batches[b].kind = sub.kind /\ batches[b].requests = sub.requests
KindsKept == \A piece \in Unrun \cup Ended : piece.kind = batches[piece.batch].kind

(* An abandoned batch is nobody's submission any more, and was being split.  *)
BrokenApart ==
    /\ \A c \in Callers : caller[c].step \in Submitting =>
           batches[caller[c].batch].promise # "broken"
    /\ \A b \in DOMAIN batches : batches[b].promise = "broken" => <<b, 0>> \notin Alive

(* What ran is known, is not enqueued again and does not run again.          *)
RanOnce ==
    /\ \A piece \in executed : Known(piece)
    /\ \A piece \in executed : \A c \in Callers : \A i \in DOMAIN caller[c].requests :
           CallerOwes(c, piece.batch, i) => piece.slot # 0 /\ piece.slot # i
    /\ \A piece \in Unrun : Name(piece) \notin Ran
    /\ Ended \subseteq executed

(* Each request of a batch is still to be enqueued, is under way, or ran.    *)
Covered(b, i) == <<b, 0>> \in Ran \/ <<b, i>> \in Ran
NothingLost ==
    \A b \in DOMAIN batches : batches[b].promise = "pending" =>
        \A i \in DOMAIN batches[b].requests :
            i \in Owed(b) \/ <<b, 0>> \in Alive \/ Covered(b, i)
ServiceInv == FromSubmissions /\ KindsKept /\ BrokenApart /\ RanOnce /\ NothingLost

(* What is in one of three places.                                           *)
LEMMA InPieces ==
  ASSUME NEW q, NEW R, NEW pending, NEW W, NEW at, NEW o
  PROVE  o \in {q[i] : i \in DOMAIN q}
               \cup (UNION {{pending[s][i] : i \in DOMAIN pending[s]} : s \in R})
               \cup {at[w] : w \in W}
         <=> \/ \E i \in DOMAIN q : o = q[i]
             \/ \E s \in R : \E i \in DOMAIN pending[s] : o = pending[s][i]
             \/ \E w \in W : o = at[w]
  <1>1. o \in UNION {{pending[s][i] : i \in DOMAIN pending[s]} : s \in R}
          <=> \E s \in R : o \in {pending[s][i] : i \in DOMAIN pending[s]}
    OBVIOUS
  <1>2. \A s : o \in {pending[s][i] : i \in DOMAIN pending[s]}
                 <=> \E i \in DOMAIN pending[s] : o = pending[s][i]
    OBVIOUS
  <1>3. o \in {q[i] : i \in DOMAIN q} <=> \E i \in DOMAIN q : o = q[i]
    OBVIOUS
  <1>4. o \in {at[w] : w \in W} <=> \E w \in W : o = at[w]
    OBVIOUS
  <1> QED BY <1>1, <1>2, <1>3, <1>4

(* The work that has not run, before and after a step.                       *)
LEMMA UnrunNow ==
  /\ \A o : o \in Unrun <=>
        \/ \E i \in DOMAIN queue : o = queue[i]
        \/ \E s \in Reserved : \E i \in DOMAIN session_queues[s] : o = session_queues[s][i]
        \/ \E w \in Starting : o = work[w]
  /\ \A o : o \in Unrun' <=>
        \/ \E i \in DOMAIN queue' : o = queue'[i]
        \/ \E s \in Reserved' : \E i \in DOMAIN session_queues'[s] : o = session_queues'[s][i]
        \/ \E w \in Starting' : o = work'[w]
  BY InPieces DEF Unrun

(* A name is alive when a piece that is not answered has it.                 *)
AliveByStage == Alive = {Name(o) : o \in Unrun \cup Ended}

(* The pieces by where they stand: before or after their pass.               *)
LEMMA PiecesByStage ==
  ASSUME WorkerTypes
  PROVE  /\ Carrying = Starting \cup Ending
         /\ \A o : o \in Unrun \cup Ended <=> \E p \in Places : At(p) = o
         /\ \A o : o \in Unrun <=>
               \E p \in Places : At(p) = o /\ \A w \in Ending : p # <<"carried", w, 0>>
         /\ AliveByStage
  <1>1. Carrying = Starting \cup Ending /\ Starting \cap Ending = {}
    BY DEF Carrying, Starting, Ending, WorkerTypes
  <1>2. \A p : p \in Places <=>
            \/ \E i \in DOMAIN queue : p = <<"ready", i, 0>>
            \/ \E s \in Reserved : \E i \in DOMAIN session_queues[s] : p = <<"pending", s, i>>
            \/ \E w \in Carrying : p = <<"carried", w, 0>>
    BY PlacesNow
  <1>3. \A o : o \in Unrun <=>
            \/ \E i \in DOMAIN queue : o = queue[i]
            \/ \E s \in Reserved : \E i \in DOMAIN session_queues[s] : o = session_queues[s][i]
            \/ \E w \in Starting : o = work[w]
    BY UnrunNow
  <1>4. \A o : o \in Ended <=> \E w \in Ending : o = work[w]
    BY DEF Ended
  <1>5. ASSUME NEW o
        PROVE  o \in Unrun <=>
                   \E p \in Places : At(p) = o /\ \A w \in Ending : p # <<"carried", w, 0>>
    <2>1. ASSUME o \in Unrun
          PROVE  \E p \in Places : At(p) = o /\ \A w \in Ending : p # <<"carried", w, 0>>
      <3>1. CASE \E i \in DOMAIN queue : o = queue[i]
        <4>1. PICK i \in DOMAIN queue : o = queue[i]
          BY <3>1
        <4>2. /\ <<"ready", i, 0>> \in Places /\ At(<<"ready", i, 0>>) = o
              /\ \A w : <<"ready", i, 0>> # <<"carried", w, 0>>
          BY <4>1, PlacesNow
        <4> QED BY <4>2
      <3>2. CASE \E s \in Reserved : \E i \in DOMAIN session_queues[s] : o = session_queues[s][i]
        <4>1. PICK s \in Reserved : \E i \in DOMAIN session_queues[s] : o = session_queues[s][i]
          BY <3>2
        <4>2. PICK i \in DOMAIN session_queues[s] : o = session_queues[s][i]
          BY <4>1
        <4>3. /\ <<"pending", s, i>> \in Places /\ At(<<"pending", s, i>>) = o
              /\ \A w : <<"pending", s, i>> # <<"carried", w, 0>>
          BY <4>2, PlacesNow
        <4> QED BY <4>3
      <3>3. CASE \E w \in Starting : o = work[w]
        <4>1. PICK w \in Starting : o = work[w]
          BY <3>3
        <4>2. /\ <<"carried", w, 0>> \in Places /\ At(<<"carried", w, 0>>) = o
              /\ \A v \in Ending : <<"carried", w, 0>> # <<"carried", v, 0>>
          BY <1>1, <4>1, PlacesNow
        <4> QED BY <4>2
      <3> QED BY <1>3, <2>1, <3>1, <3>2, <3>3
    <2>2. ASSUME NEW p \in Places, At(p) = o, \A w \in Ending : p # <<"carried", w, 0>>
          PROVE  o \in Unrun
      <3>1. CASE \E i \in DOMAIN queue : p = <<"ready", i, 0>>
        BY <1>3, <2>2, <3>1, PlacesNow
      <3>2. CASE \E s \in Reserved : \E i \in DOMAIN session_queues[s] : p = <<"pending", s, i>>
        BY <1>3, <2>2, <3>2, PlacesNow
      <3>3. CASE \E w \in Carrying : p = <<"carried", w, 0>>
        BY <1>1, <1>3, <2>2, <3>3, PlacesNow
      <3> QED BY <1>2, <3>1, <3>2, <3>3
    <2> QED BY <2>1, <2>2
  <1>6. ASSUME NEW o
        PROVE  o \in Unrun \cup Ended <=> \E p \in Places : At(p) = o
    <2>1. \A w \in Ending : <<"carried", w, 0>> \in Places /\ At(<<"carried", w, 0>>) = work[w]
      BY <1>1, PlacesNow
    <2>2. o \in Ended <=> \E w \in Ending : At(<<"carried", w, 0>>) = o
      BY <1>4, <2>1
    <2> QED BY <1>5, <2>1, <2>2
  <1>7. AliveByStage
    BY <1>6 DEF AliveByStage, Alive
  <1> QED BY <1>1, <1>5, <1>6, <1>7

(* No other piece has the name of what a worker carries.                     *)
LEMMA CarriedApart ==
  ASSUME WorkerTypes, Pieces, NEW w \in Carrying
  PROVE  /\ w \in Ending => \A o \in Unrun : Name(o) # Name(work[w])
         /\ \A v \in Carrying : v # w => Name(work[v]) # Name(work[w])
         /\ \A i \in DOMAIN queue : Name(queue[i]) # Name(work[w])
         /\ \A s \in Reserved : \A i \in DOMAIN session_queues[s] :
               Name(session_queues[s][i]) # Name(work[w])
  <1> DEFINE place == <<"carried", w, 0>>
  <1>1. place \in Places /\ At(place) = work[w]
    BY PlacesNow
  <1>2. \A p \in Places : p # place => Name(At(p)) # Name(work[w])
    BY <1>1 DEF Pieces, PiecesOnce
  <1>3. w \in Ending => \A o \in Unrun : Name(o) # Name(work[w])
    BY <1>2, PiecesByStage
  <1>4. \A v \in Carrying : v # w => Name(work[v]) # Name(work[w])
    <2>1. \A v \in Carrying : /\ <<"carried", v, 0>> \in Places /\ At(<<"carried", v, 0>>) = work[v]
                              /\ v # w => <<"carried", v, 0>> # place
      BY PlacesNow
    <2> QED BY <1>2, <2>1
  <1>5. \A i \in DOMAIN queue : Name(queue[i]) # Name(work[w])
    <2>1. \A i \in DOMAIN queue : /\ <<"ready", i, 0>> \in Places /\ At(<<"ready", i, 0>>) = queue[i]
                                  /\ <<"ready", i, 0>> # place
      BY PlacesNow
    <2> QED BY <1>2, <2>1
  <1>6. \A s \in Reserved : \A i \in DOMAIN session_queues[s] :
            Name(session_queues[s][i]) # Name(work[w])
    <2>1. \A s \in Reserved : \A i \in DOMAIN session_queues[s] :
            /\ <<"pending", s, i>> \in Places /\ At(<<"pending", s, i>>) = session_queues[s][i]
            /\ <<"pending", s, i>> # place
      BY PlacesNow
    <2> QED BY <1>2, <2>1
  <1> QED BY <1>3, <1>4, <1>5, <1>6

(* Taking and releasing move pieces and add or lose none.                    *)
LEMMA TakeKeepsPieces ==
  ASSUME QueueTypes, WorkerTypes, NEW w \in Workers, Take(w)
  PROVE  Unrun' = Unrun /\ Ended' = Ended
  <1>0. PICK n : n = Len(queue)
    OBVIOUS
  <1>1. /\ worker[w] = "ready" /\ queue # << >>
        /\ work' = [work EXCEPT ![w] = Head(queue)] /\ queue' = Tail(queue)
        /\ worker' = [worker EXCEPT ![w] = "lease"] /\ session_queues' = session_queues
    BY DEF Take
  <1>2. /\ n \in Nat /\ DOMAIN queue = 1 .. n /\ DOMAIN queue' = 1 .. n - 1 /\ n > 0
        /\ \A i \in 1 .. n - 1 : queue'[i] = queue[i + 1]
        /\ Head(queue) = queue[1]
    <2>1. queue \in Seq(Work)
      BY DEF QueueTypes
    <2> QED BY <1>0, <1>1, <2>1, HeadTailProperties, LenProperties, EmptySeq
  <1>3. Starting' = Starting \cup {w} /\ Ending' = Ending /\ w \notin Starting \cup Ending
    BY <1>1 DEF Starting, Ending, WorkerTypes
  <1>4. Reserved' = Reserved /\ work'[w] = queue[1] /\ \A v \in Workers \ {w} : work'[v] = work[v]
    BY <1>1, <1>2 DEF Reserved, WorkerTypes
  <1>5. Starting \subseteq Workers /\ Ending \subseteq Workers
    BY DEF Starting, Ending
  <1>6. Ended' = Ended
    BY <1>3, <1>4, <1>5 DEF Ended
  <1>7. \A o : (\E v \in Starting' : o = work'[v])
                 <=> o = queue[1] \/ \E v \in Starting : o = work[v]
    BY <1>3, <1>4, <1>5
  <1>8. \A o : (\E i \in DOMAIN queue : o = queue[i])
                 <=> o = queue[1] \/ \E i \in DOMAIN queue' : o = queue'[i]
    <2> SUFFICES ASSUME NEW o
                 PROVE  (\E i \in DOMAIN queue : o = queue[i])
                           <=> o = queue[1] \/ \E i \in DOMAIN queue' : o = queue'[i]
      OBVIOUS
    <2>1. ASSUME NEW i \in DOMAIN queue, o = queue[i], i # 1
          PROVE  \E j \in DOMAIN queue' : o = queue'[j]
      <3>1. i \in Nat /\ i - 1 \in 1 .. n - 1 /\ (i - 1) + 1 = i
        BY <1>2, <2>1
      <3>2. queue'[i - 1] = queue[i]
        BY <1>2, <3>1
      <3> QED BY <1>2, <2>1, <3>1, <3>2
    <2>2. ASSUME NEW j \in DOMAIN queue', o = queue'[j]
          PROVE  \E i \in DOMAIN queue : o = queue[i]
      <3>1. j \in 1 .. n - 1 /\ j + 1 \in 1 .. n
        BY <1>2
      <3> QED BY <1>2, <2>2, <3>1
    <2>3. 1 \in DOMAIN queue
      BY <1>2
    <2> QED BY <2>1, <2>2, <2>3
  <1>9. ASSUME NEW o
        PROVE  o \in Unrun' <=> o \in Unrun
    <2>1. (\E s \in Reserved' : \E i \in DOMAIN session_queues'[s] : o = session_queues'[s][i])
            <=> \E s \in Reserved : \E i \in DOMAIN session_queues[s] : o = session_queues[s][i]
      BY <1>1, <1>4
    <2>2. o \in Unrun' <=>
            \/ \E i \in DOMAIN queue' : o = queue'[i]
            \/ \E s \in Reserved' : \E i \in DOMAIN session_queues'[s] : o = session_queues'[s][i]
            \/ \E v \in Starting' : o = work'[v]
      BY UnrunNow
    <2>3. o \in Unrun <=>
            \/ \E i \in DOMAIN queue : o = queue[i]
            \/ \E s \in Reserved : \E i \in DOMAIN session_queues[s] : o = session_queues[s][i]
            \/ \E v \in Starting : o = work[v]
      BY UnrunNow
    <2> QED BY <1>7, <1>8, <2>1, <2>2, <2>3
  <1> QED BY <1>6, <1>9

(* Every waiting session has its next work made ready.                       *)
LEMMA ReleaseOrder ==
  ASSUME SchedulerAssumption, QueueTypes, NEW w \in Workers, ReleaseSessions(w),
         NEW waiting, waiting = Waiting(SessionsOf(work[w]))
  PROVE  /\ \A i \in DOMAIN queue : i \in DOMAIN queue' /\ queue'[i] = queue[i]
         /\ \A i \in DOMAIN queue' \ DOMAIN queue : \E s \in waiting :
               queue'[i] = Head(session_queues[s])
         /\ \A s \in waiting : \E i \in DOMAIN queue' : queue'[i] = Head(session_queues[s])
  <1>0. PICK n : n = Len(queue)
    OBVIOUS
  <1>1. PICK first \in Ascending(waiting) :
            queue' = queue \o [i \in DOMAIN first |-> Head(session_queues[first[i]])]
    BY DEF ReleaseSessions
  <1>2. /\ waiting \subseteq Sessions /\ IsFiniteSet(Sessions)
        /\ \A s \in waiting : session_queues[s] \in Seq(Work) /\ session_queues[s] # << >>
    BY DEF QueueTypes, SchedulerAssumption, Waiting
  <1>3. PICK m \in Nat : /\ first \in [1 .. m -> waiting]
                         /\ \A s \in waiting : \E i \in DOMAIN first : first[i] = s
    BY <1>1, <1>2, FS_Subset, FS_CardinalityType DEF Ascending
  <1> DEFINE heads == [i \in 1 .. m |-> Head(session_queues[first[i]])]
  <1>4. \A s \in waiting : Head(session_queues[s]) \in Work
    BY <1>2, HeadTailProperties
  <1>5. heads \in Seq(Work) /\ Len(heads) = m /\ queue \in Seq(Work)
    <2>1. \A i \in 1 .. m : heads[i] \in Work
      BY <1>3, <1>4
    <2> QED BY <2>1, LenProperties DEF QueueTypes
  <1>6. queue' = queue \o heads
    <2>1. DOMAIN first = 1 .. m
      BY <1>3
    <2> QED BY <1>1, <2>1
  <1>7. \A i \in 1 .. m : heads[i] = Head(session_queues[first[i]])
    OBVIOUS
  <1> HIDE DEF heads
  <1>8. /\ n \in Nat /\ DOMAIN queue = 1 .. n /\ DOMAIN queue' = 1 .. n + m
        /\ \A i \in 1 .. n : queue'[i] = queue[i]
        /\ \A i \in 1 .. m : queue'[n + i] = heads[i]
    <2>1. n \in Nat /\ DOMAIN queue = 1 .. n
      BY <1>0, <1>5, LenProperties
    <2>2. queue' \in Seq(Work) /\ Len(queue') = n + m
      <3>1. queue' \in Seq(Work) /\ Len(queue') = Len(queue) + Len(heads)
        BY <1>5, <1>6, ConcatProperties
      <3> QED BY <1>0, <1>5, <3>1
    <2>3. DOMAIN queue' = 1 .. n + m
      BY <2>2, LenProperties
    <2>4. /\ \A i \in 1 .. n : queue'[i] = queue[i]
          /\ \A i \in 1 .. m : queue'[n + i] = heads[i]
      BY <1>0, <1>5, <1>6, <2>1, ConcatProperties, LenProperties
    <2> QED BY <2>1, <2>3, <2>4
  <1>9. \A i \in DOMAIN queue : i \in DOMAIN queue' /\ queue'[i] = queue[i]
    BY <1>8
  <1>10. ASSUME NEW i \in DOMAIN queue' \ DOMAIN queue
         PROVE  \E s \in waiting : queue'[i] = Head(session_queues[s])
    <2>1. i \in Nat /\ i - n \in 1 .. m /\ n + (i - n) = i
      BY <1>8, <1>10
    <2>2. queue'[i] = Head(session_queues[first[i - n]]) /\ first[i - n] \in waiting
      BY <1>3, <1>7, <1>8, <2>1
    <2> QED BY <2>2
  <1>11. ASSUME NEW s \in waiting
         PROVE  \E i \in DOMAIN queue' : queue'[i] = Head(session_queues[s])
    <2>1. PICK j \in 1 .. m : first[j] = s
      BY <1>3
    <2>2. n + j \in 1 .. n + m
      BY <1>8
    <2> QED BY <1>7, <1>8, <2>1, <2>2
  <1> QED BY <1>9, <1>10, <1>11

(* A list is its head and the rest.                                          *)
LEMMA HeadAndTail ==
  ASSUME NEW S, NEW l \in Seq(S), l # << >>
  PROVE  /\ \A i \in DOMAIN l : i # 1 => \E j \in DOMAIN Tail(l) : l[i] = Tail(l)[j]
         /\ \A j \in DOMAIN Tail(l) : \E i \in DOMAIN l : l[i] = Tail(l)[j]
         /\ <<Head(l)>> \o Tail(l) = l /\ Head(l) \in S /\ Tail(l) \in Seq(S)
         /\ Head(l) = l[1] /\ 1 \in DOMAIN l
  <1>0. PICK n : n = Len(l)
    OBVIOUS
  <1>1. /\ n \in Nat /\ n > 0 /\ DOMAIN l = 1 .. n /\ Head(l) = l[1]
        /\ DOMAIN Tail(l) = 1 .. n - 1 /\ \A i \in 1 .. n - 1 : Tail(l)[i] = l[i + 1]
        /\ Tail(l) \in Seq(S) /\ Head(l) \in S /\ Len(Tail(l)) = n - 1
    BY <1>0, HeadTailProperties, LenProperties, EmptySeq
  <1>2. ASSUME NEW i \in DOMAIN l, i # 1
        PROVE  \E j \in DOMAIN Tail(l) : l[i] = Tail(l)[j]
    <2>1. i - 1 \in 1 .. n - 1 /\ (i - 1) + 1 = i
      BY <1>1, <1>2
    <2> QED BY <1>1, <2>1
  <1>3. ASSUME NEW i \in DOMAIN Tail(l)
        PROVE  \E j \in DOMAIN l : Tail(l)[i] = l[j]
    <2>1. i + 1 \in 1 .. n
      BY <1>1
    <2> QED BY <1>1, <2>1
  <1>4. 1 \in DOMAIN l
    BY <1>1
  <1>5. <<Head(l)>> \o Tail(l) = l
    <2> DEFINE t == <<Head(l)>> \o Tail(l)
    <2>1. <<Head(l)>> \in Seq(S) /\ Len(<<Head(l)>>) = 1 /\ <<Head(l)>>[1] = Head(l)
      BY <1>1
    <2>2. t \in Seq(S) /\ Len(t) = n
      <3>1. t \in Seq(S) /\ Len(t) = 1 + (n - 1)
        BY <1>1, <2>1, ConcatProperties
      <3> QED BY <1>1, <3>1
    <2>3. \A i \in 1 .. n : t[i] = l[i]
      <3> SUFFICES ASSUME NEW i \in 1 .. n
                   PROVE  t[i] = l[i]
        OBVIOUS
      <3>1. CASE i = 1
        BY <1>1, <2>1, <3>1, ConcatProperties
      <3>2. CASE i # 1
        <4>1. i \in 2 .. n /\ i - 1 \in 1 .. n - 1 /\ (i - 1) + 1 = i /\ i > 1
          BY <1>1, <3>2
        <4>2. t[i] = Tail(l)[i - 1]
          BY <1>1, <2>1, <4>1, ConcatProperties
        <4> QED BY <1>1, <4>1, <4>2
      <3> QED BY <3>1, <3>2
    <2> HIDE DEF t
    <2>4. t = l
      BY <1>0, <2>2, <2>3, SeqEqual
    <2> QED BY <2>4 DEF t
  <1> QED BY <1>1, <1>2, <1>3, <1>4, <1>5

(* An element of a list is its head or in the rest.                          *)
LEMMA HeadOrTail ==
  ASSUME NEW S, NEW l \in Seq(S), l # << >>, NEW o
  PROVE  (\E i \in DOMAIN l : o = l[i])
            <=> (o = Head(l) \/ \E i \in DOMAIN Tail(l) : o = Tail(l)[i])
  <1>1. \A i \in DOMAIN l : i # 1 => \E j \in DOMAIN Tail(l) : l[i] = Tail(l)[j]
    BY HeadAndTail
  <1>2. \A j \in DOMAIN Tail(l) : \E i \in DOMAIN l : l[i] = Tail(l)[j]
    BY HeadAndTail
  <1>3. Head(l) = l[1] /\ 1 \in DOMAIN l
    BY HeadAndTail
  <1>4. ASSUME NEW i \in DOMAIN l, o = l[i], o # Head(l)
        PROVE  \E j \in DOMAIN Tail(l) : o = Tail(l)[j]
    BY <1>1, <1>3, <1>4
  <1>5. ASSUME NEW j \in DOMAIN Tail(l), o = Tail(l)[j]
        PROVE  \E i \in DOMAIN l : o = l[i]
    BY <1>2, <1>5
  <1> QED BY <1>3, <1>4, <1>5

(* Releasing moves the heads of the waiting queues.                          *)
LEMMA ReleaseKeepsPieces ==
  ASSUME SchedulerAssumption, QueueTypes, WorkerTypes, NEW w \in Workers, ReleaseSessions(w)
  PROVE  Unrun' = Unrun /\ Ended' = Ended
  <1>0. PICK S, waiting : S = SessionsOf(work[w]) /\ waiting = Waiting(S)
    OBVIOUS
  <1>1. /\ session_queues' = [s \in Reserved \ (S \ waiting) |->
               IF s \in S THEN Tail(session_queues[s]) ELSE session_queues[s]]
        /\ worker[w] = "release" /\ worker' = [worker EXCEPT ![w] = "announce"]
        /\ work' = work
    BY <1>0 DEF ReleaseSessions
  <1>2. /\ \A i \in DOMAIN queue : i \in DOMAIN queue' /\ queue'[i] = queue[i]
        /\ \A i \in DOMAIN queue' \ DOMAIN queue : \E s \in waiting :
              queue'[i] = Head(session_queues[s])
        /\ \A s \in waiting : \E i \in DOMAIN queue' : queue'[i] = Head(session_queues[s])
    BY <1>0, ReleaseOrder
  <1>3. /\ waiting \subseteq S \cap Reserved
        /\ \A s \in Reserved : session_queues[s] \in Seq(Work)
        /\ \A s \in waiting : session_queues[s] # << >>
        /\ \A s \in (S \cap Reserved) \ waiting : session_queues[s] = << >>
    BY <1>0 DEF Waiting, QueueTypes
  <1>4. Starting' = Starting /\ Ending' = Ending
    BY <1>1 DEF Starting, Ending, WorkerTypes
  <1>5. Ended' = Ended
    BY <1>1, <1>4 DEF Ended
  <1>6. Reserved' = Reserved \ (S \ waiting)
    BY <1>1 DEF Reserved
  <1>7. ASSUME NEW o, NEW s \in waiting
        PROVE  /\ s \in Reserved /\ s \in Reserved' /\ session_queues'[s] = Tail(session_queues[s])
               /\ (\E i \in DOMAIN session_queues[s] : o = session_queues[s][i])
                    <=> \/ o = Head(session_queues[s])
                        \/ \E i \in DOMAIN session_queues'[s] : o = session_queues'[s][i]
    <2>1. s \in Reserved /\ s \in Reserved' /\ session_queues'[s] = Tail(session_queues[s])
      BY <1>1, <1>3, <1>6
    <2>2. PICK list \in Seq(Work) : list = session_queues[s] /\ list # << >>
      BY <1>3, <2>1
    <2>9. list \in Seq(Work) /\ list # << >>
      BY <2>2
    <2>4. (\E i \in DOMAIN list : o = list[i])
             <=> (o = Head(list) \/ \E i \in DOMAIN Tail(list) : o = Tail(list)[i])
      BY <2>9, HeadOrTail
    <2>3. (\E i \in DOMAIN session_queues[s] : o = session_queues[s][i])
             <=> \/ o = Head(session_queues[s])
                 \/ \E i \in DOMAIN Tail(session_queues[s]) : o = Tail(session_queues[s])[i]
      BY <2>2, <2>4
    <2> QED BY <2>1, <2>3
  <1>8. ASSUME NEW s \in Reserved', s \notin waiting
        PROVE  s \in Reserved /\ s \notin S /\ session_queues'[s] = session_queues[s]
    BY <1>1, <1>6, <1>8
  <1>9. ASSUME NEW o \in Unrun
        PROVE  o \in Unrun'
    <2>1. CASE \E i \in DOMAIN queue : o = queue[i]
      BY <1>2, <2>1, UnrunNow
    <2>2. CASE \E s \in Reserved : \E i \in DOMAIN session_queues[s] : o = session_queues[s][i]
      <3>1. PICK s \in Reserved : \E i \in DOMAIN session_queues[s] : o = session_queues[s][i]
        BY <2>2
      <3>2. CASE s \in waiting
        <4>1. \/ o = Head(session_queues[s])
              \/ \E i \in DOMAIN session_queues'[s] : o = session_queues'[s][i]
          BY <1>7, <3>1, <3>2, ZenonT(30)
        <4>2. CASE o = Head(session_queues[s])
          BY <1>2, <3>2, <4>2, UnrunNow
        <4>3. CASE \E i \in DOMAIN session_queues'[s] : o = session_queues'[s][i]
          BY <1>7, <3>2, <4>3, UnrunNow
        <4> QED BY <4>1, <4>2, <4>3
      <3>3. CASE s \notin waiting
        <4>1. s \notin S
          <5>1. ASSUME session_queues[s] = << >>
                PROVE  FALSE
            BY <3>1, <5>1
          <5> QED BY <1>3, <3>3, <5>1
        <4>2. s \in Reserved' /\ session_queues'[s] = session_queues[s]
          BY <1>6, <1>8, <3>3, <4>1
        <4> QED BY <3>1, <4>2, UnrunNow
      <3> QED BY <3>2, <3>3
    <2>3. CASE \E v \in Starting : o = work[v]
      BY <1>1, <1>4, <2>3, UnrunNow
    <2> QED BY <2>1, <2>2, <2>3, UnrunNow
  <1>10. ASSUME NEW o \in Unrun'
         PROVE  o \in Unrun
    <2>1. CASE \E i \in DOMAIN queue' : o = queue'[i]
      <3>1. PICK i \in DOMAIN queue' : o = queue'[i]
        BY <2>1
      <3>2. CASE i \in DOMAIN queue
        BY <1>2, <3>1, <3>2, UnrunNow
      <3>3. CASE i \notin DOMAIN queue
        <4>1. PICK s \in waiting : o = Head(session_queues[s])
          BY <1>2, <3>1, <3>3
        <4> QED BY <1>7, <4>1, UnrunNow
      <3> QED BY <3>2, <3>3
    <2>2. CASE \E s \in Reserved' : \E i \in DOMAIN session_queues'[s] : o = session_queues'[s][i]
      <3>1. PICK s \in Reserved' : \E i \in DOMAIN session_queues'[s] : o = session_queues'[s][i]
        BY <2>2
      <3>2. CASE s \in waiting
        BY <1>7, <3>1, <3>2, UnrunNow
      <3>3. CASE s \notin waiting
        BY <1>8, <3>1, <3>3, UnrunNow
      <3> QED BY <3>2, <3>3
    <2>3. CASE \E v \in Starting' : o = work'[v]
      BY <1>1, <1>4, <2>3, UnrunNow
    <2> QED BY <2>1, <2>2, <2>3, UnrunNow
  <1> QED BY <1>5, <1>9, <1>10

(* A submission adds one piece: the whole batch or its next request.         *)
NextPiece(c) ==
    LET b == caller[c].batch
    IN  IF caller[c].step = "stage" \/ batches[b].kind = "prefill" THEN WholeBatch(b)
        ELSE OneRequest(b, caller[c].slot)
Adds(c) ==
    /\ caller[c].step \in {"stage", "enqueue"}
    /\ Unrun' = Unrun \cup {NextPiece(c)} /\ Ended' = Ended
    /\ executed' = executed /\ batches' = batches

(* The elements of a longer list.                                            *)
LEMMA InAppended ==
  ASSUME NEW S, NEW l \in Seq(S), NEW x, NEW m, m = Append(l, x), NEW o
  PROVE  (\E i \in DOMAIN m : o = m[i]) <=> (o = x \/ \E i \in DOMAIN l : o = l[i])
  <1>0. PICK n : n = Len(l)
    OBVIOUS
  <1>1. /\ n \in Nat /\ DOMAIN l = 1 .. n /\ DOMAIN m = 1 .. n + 1 /\ m[n + 1] = x
        /\ \A i \in 1 .. n : m[i] = l[i]
    BY <1>0, LenProperties
  <1>2. ASSUME NEW i \in DOMAIN m, o = m[i], o # x
        PROVE  \E j \in DOMAIN l : o = l[j]
    <2>1. i \in 1 .. n
      BY <1>1, <1>2
    <2> QED BY <1>1, <1>2, <2>1
  <1>3. ASSUME NEW i \in DOMAIN l, o = l[i]
        PROVE  \E j \in DOMAIN m : o = m[j]
    <2>1. i \in DOMAIN m /\ m[i] = l[i]
      BY <1>1
    <2> QED BY <1>3, <2>1
  <1>4. n + 1 \in DOMAIN m
    BY <1>1
  <1> QED BY <1>0, <1>1, <1>2, <1>3, <1>4

(* Staging a batch or enqueueing a request adds that piece.                  *)
LEMMA EnqueueAdds ==
  ASSUME QueueTypes, BatchTypes, NEW c \in Callers,
         TryEnqueueBatch(c) \/ EnqueueSession(c)
  PROVE  \/ Adds(c)
         \/ /\ TryEnqueueBatch(c) /\ ~Free(SessionsIn(caller[c].requests))
            /\ Unrun' = Unrun /\ Ended' = Ended /\ executed' = executed
  <1>0. PICK new : new = NextPiece(c)
    OBVIOUS
  <1>1. /\ caller[c].step \in {"stage", "enqueue"} /\ executed' = executed
        /\ Starting' = Starting /\ Ending' = Ending /\ work' = work
    BY DEF TryEnqueueBatch, EnqueueSession, Starting, Ending
  <1>2. Ended' = Ended
    BY <1>1 DEF Ended
  <1>3. \A o : (\E w \in Starting' : o = work'[w]) <=> \E w \in Starting : o = work[w]
    BY <1>1
  <1>4. ASSUME NEW S, queue' = Append(queue, new), session_queues' = Reserve(S), Free(S)
        PROVE  Unrun' = Unrun \cup {new}
    <2>1. /\ Reserved' = Reserved \cup S
          /\ \A s \in Reserved : session_queues'[s] = session_queues[s]
          /\ \A s \in S : s \notin Reserved /\ session_queues'[s] = << >>
      BY <1>4 DEF Reserve, Reserved, Free
    <2> SUFFICES ASSUME NEW o
                 PROVE  o \in Unrun' <=> (o = new \/ o \in Unrun)
      OBVIOUS
    <2>2. (\E s \in Reserved' : \E i \in DOMAIN session_queues'[s] : o = session_queues'[s][i])
             <=> (\E s \in Reserved : \E i \in DOMAIN session_queues[s] : o = session_queues[s][i])
      <3>1. DOMAIN << >> = {}
        OBVIOUS
      <3> QED BY <2>1, <3>1
    <2>3. (\E i \in DOMAIN queue' : o = queue'[i])
             <=> (o = new \/ \E i \in DOMAIN queue : o = queue[i])
      <3>1. queue \in Seq(Work)
        BY DEF QueueTypes
      <3> QED BY <1>4, <3>1, InAppended
    <2>4. (\E w \in Starting' : o = work'[w]) <=> \E w \in Starting : o = work[w]
      BY <1>3
    <2>5. o \in Unrun' <=>
            \/ \E i \in DOMAIN queue' : o = queue'[i]
            \/ \E s \in Reserved' : \E i \in DOMAIN session_queues'[s] : o = session_queues'[s][i]
            \/ \E v \in Starting' : o = work'[v]
      BY UnrunNow
    <2>6. o \in Unrun <=>
            \/ \E i \in DOMAIN queue : o = queue[i]
            \/ \E s \in Reserved : \E i \in DOMAIN session_queues[s] : o = session_queues[s][i]
            \/ \E v \in Starting : o = work[v]
      BY UnrunNow
    <2> QED BY <2>2, <2>3, <2>4, <2>5, <2>6
  <1>5. ASSUME NEW s \in Reserved, queue' = queue,
               session_queues' = [session_queues EXCEPT ![s] = Append(@, new)]
        PROVE  Unrun' = Unrun \cup {new}
    <2>1. PICK l \in Seq(Work) : l = session_queues[s]
      BY DEF QueueTypes
    <2>2. /\ Reserved' = Reserved /\ session_queues'[s] = Append(l, new)
          /\ \A t \in Reserved \ {s} : session_queues'[t] = session_queues[t]
      BY <1>5, <2>1 DEF QueueTypes, Reserved
    <2>3. ASSUME NEW o
          PROVE  (\E i \in DOMAIN session_queues'[s] : o = session_queues'[s][i])
                    <=> (o = new \/ \E i \in DOMAIN session_queues[s] : o = session_queues[s][i])
      <3>1. PICK m : m = session_queues'[s] /\ m = Append(l, new)
        BY <2>2
      <3>2. (\E i \in DOMAIN m : o = m[i]) <=> (o = new \/ \E i \in DOMAIN l : o = l[i])
        BY <2>1, <3>1, InAppended
      <3> QED BY <2>1, <3>1, <3>2
    <2>4. ASSUME NEW o
          PROVE  o \in Unrun' <=> (o = new \/ o \in Unrun)
      <3>1. o \in Unrun' <=>
              \/ \E i \in DOMAIN queue' : o = queue'[i]
              \/ \E t \in Reserved' : \E i \in DOMAIN session_queues'[t] : o = session_queues'[t][i]
              \/ \E v \in Starting' : o = work'[v]
        BY UnrunNow
      <3>2. o \in Unrun <=>
              \/ \E i \in DOMAIN queue : o = queue[i]
              \/ \E t \in Reserved : \E i \in DOMAIN session_queues[t] : o = session_queues[t][i]
              \/ \E v \in Starting : o = work[v]
        BY UnrunNow
      <3>3. (\E t \in Reserved' : \E i \in DOMAIN session_queues'[t] : o = session_queues'[t][i])
               <=> \/ o = new
                   \/ \E t \in Reserved : \E i \in DOMAIN session_queues[t] : o = session_queues[t][i]
        <4>1. ASSUME NEW t \in Reserved', NEW i \in DOMAIN session_queues'[t],
                     o = session_queues'[t][i], o # new
              PROVE  \E u \in Reserved : \E j \in DOMAIN session_queues[u] :
                         o = session_queues[u][j]
          <5>1. CASE t = s
            BY <2>3, <4>1, <5>1
          <5>2. CASE t # s
            BY <2>2, <4>1, <5>2
          <5> QED BY <5>1, <5>2
        <4>2. ASSUME NEW t \in Reserved, NEW i \in DOMAIN session_queues[t],
                     o = session_queues[t][i]
              PROVE  \E u \in Reserved' : \E j \in DOMAIN session_queues'[u] :
                         o = session_queues'[u][j]
          <5>1. CASE t = s
            BY <2>2, <2>3, <4>2, <5>1
          <5>2. CASE t # s
            BY <2>2, <4>2, <5>2
          <5> QED BY <5>1, <5>2
        <4>3. o = new => \E i \in DOMAIN session_queues'[s] : o = session_queues'[s][i]
          BY <2>3
        <4> QED BY <2>2, <4>1, <4>2, <4>3
      <3> QED BY <1>3, <1>5, <3>1, <3>2, <3>3
    <2> QED BY <2>4
  <1>6. CASE EnqueueSession(c)
    <2>1. /\ caller[c].step = "enqueue" /\ batches' = batches
          /\ new = IF batches[caller[c].batch].kind = "prefill" THEN WholeBatch(caller[c].batch)
                   ELSE OneRequest(caller[c].batch, caller[c].slot)
      BY <1>0, <1>6 DEF EnqueueSession, NextPiece
    <2>2. \/ \E s \in Reserved : /\ queue' = queue
                /\ session_queues' = [session_queues EXCEPT ![s] = Append(@, new)]
          \/ \E s : /\ s \notin Reserved /\ queue' = Append(queue, new)
                    /\ session_queues' = Reserve({s})
      BY <1>6, <2>1 DEF EnqueueSession, Behind
    <2>3. \A s : s \notin Reserved => Free({s})
      BY DEF Free
    <2>4. Unrun' = Unrun \cup {new}
      BY <1>4, <1>5, <2>2, <2>3
    <2> QED BY <1>0, <1>1, <1>2, <2>1, <2>4 DEF Adds
  <1>7. CASE TryEnqueueBatch(c)
    <2>1. caller[c].step = "stage" /\ new = WholeBatch(caller[c].batch)
      BY <1>0, <1>7 DEF TryEnqueueBatch, NextPiece
    <2>2. CASE Free(SessionsIn(caller[c].requests))
      <3>1. /\ queue' = Append(queue, new) /\ batches' = batches
            /\ session_queues' = Reserve(SessionsIn(caller[c].requests))
        BY <1>7, <2>1, <2>2 DEF TryEnqueueBatch
      <3>2. Unrun' = Unrun \cup {new}
        BY <1>4, <2>2, <3>1
      <3> QED BY <1>0, <1>1, <1>2, <3>1, <3>2 DEF Adds
    <2>3. CASE ~Free(SessionsIn(caller[c].requests))
      <3>1. queue' = queue /\ session_queues' = session_queues
        BY <1>7, <2>3 DEF TryEnqueueBatch, queue_vars
      <3>2. Unrun' = Unrun
        BY <1>1, <3>1 DEF Unrun, Reserved
      <3> QED BY <1>1, <1>2, <1>7, <2>3, <3>2
    <2> QED BY <2>2, <2>3
  <1> QED BY <1>6, <1>7

(* A pass ends: its piece has run, and no piece that has not has its name.   *)
Runs(w) ==
    /\ Execute(w) /\ w \in Carrying
    /\ Unrun' \subseteq Unrun /\ Unrun \subseteq Unrun' \cup {work[w]}
    /\ work[w] \in Unrun
    /\ \A o \in Unrun' : Name(o) # Name(work[w])
    /\ Ended' = Ended \cup {work[w]} /\ executed' = executed \cup {work[w]}

(* A pass moves one piece from what has not run to what ran.                 *)
LEMMA ExecuteRuns ==
  ASSUME WorkerTypes, Pieces, NEW w \in Workers, Execute(w)
  PROVE  Runs(w)
  <1>1. /\ worker[w] = "lock" /\ worker' = [worker EXCEPT ![w] = "release"]
        /\ work' = work /\ queue' = queue /\ session_queues' = session_queues
        /\ executed' = executed \cup {work[w]}
    BY DEF Execute, queue_vars
  <1>2. /\ w \in Starting /\ Starting' = Starting \ {w} /\ Ending' = Ending \cup {w}
        /\ w \in Carrying /\ Starting \subseteq Carrying
    BY <1>1 DEF Starting, Ending, Carrying, WorkerTypes
  <1>3. Ended' = Ended \cup {work[w]}
    BY <1>1, <1>2 DEF Ended
  <1>4. Reserved' = Reserved
    BY <1>1 DEF Reserved
  <1>5. ASSUME NEW o \in Unrun'
        PROVE  o \in Unrun /\ Name(o) # Name(work[w])
    <2>1. CASE \E i \in DOMAIN queue' : o = queue'[i]
      BY <1>1, <1>2, <2>1, UnrunNow, CarriedApart
    <2>2. CASE \E s \in Reserved' : \E i \in DOMAIN session_queues'[s] : o = session_queues'[s][i]
      BY <1>1, <1>2, <1>4, <2>2, UnrunNow, CarriedApart
    <2>3. CASE \E v \in Starting' : o = work'[v]
      <3>1. PICK v \in Starting : o = work[v] /\ v # w
        BY <1>1, <1>2, <2>3
      <3>2. Name(work[v]) # Name(work[w])
        BY <1>2, <3>1, CarriedApart
      <3> QED BY <3>1, <3>2, UnrunNow
    <2> QED BY <2>1, <2>2, <2>3, UnrunNow
  <1>6. ASSUME NEW o \in Unrun, o # work[w]
        PROVE  o \in Unrun'
    <2>1. CASE \E i \in DOMAIN queue : o = queue[i]
      BY <1>1, <2>1, UnrunNow
    <2>2. CASE \E s \in Reserved : \E i \in DOMAIN session_queues[s] : o = session_queues[s][i]
      BY <1>1, <1>4, <2>2, UnrunNow
    <2>3. CASE \E v \in Starting : o = work[v]
      BY <1>1, <1>2, <1>6, <2>3, UnrunNow
    <2> QED BY <2>1, <2>2, <2>3, UnrunNow
  <1>7. work[w] \in Unrun
    BY <1>2, UnrunNow
  <1> QED BY <1>1, <1>2, <1>3, <1>5, <1>6, <1>7 DEF Runs

(* A piece is answered: it is gone, and the others stay where they are.      *)
Publishes(w) ==
    /\ Complete(w) /\ w \in Ending
    /\ Unrun' = Unrun /\ Ended' \subseteq Ended /\ Ended \subseteq Ended' \cup {work[w]}
    /\ work[w] \in Ended /\ executed' = executed

(* A completion takes one piece out of what ran.                             *)
LEMMA CompletePublishes ==
  ASSUME WorkerTypes, NEW w \in Workers, Complete(w)
  PROVE  Publishes(w)
  <1>1. /\ worker[w] = "complete" /\ worker' = [worker EXCEPT ![w] = "ready"]
        /\ work' = [work EXCEPT ![w] = NoWork]
        /\ queue' = queue /\ session_queues' = session_queues /\ executed' = executed
    BY DEF Complete, queue_vars
  <1>2. w \in Ending /\ Starting' = Starting /\ Ending' = Ending \ {w} /\ w \notin Starting
    BY <1>1 DEF Starting, Ending, WorkerTypes
  <1>3. \A v \in Workers \ {w} : work'[v] = work[v]
    BY <1>1 DEF WorkerTypes
  <1>4. Starting \subseteq Workers /\ Ending \subseteq Workers
    BY DEF Starting, Ending
  <1>5. Ended' \subseteq Ended /\ Ended \subseteq Ended' \cup {work[w]} /\ work[w] \in Ended
    BY <1>2, <1>3, <1>4 DEF Ended
  <1>6. \A v \in Starting : work'[v] = work[v]
    BY <1>2, <1>3, <1>4
  <1>7. Unrun' = Unrun
    <2> SUFFICES ASSUME NEW o
                 PROVE  o \in Unrun' <=> o \in Unrun
      OBVIOUS
    <2>1. (\E v \in Starting' : o = work'[v]) <=> \E v \in Starting : o = work[v]
      BY <1>2, <1>6
    <2>2. (\E s \in Reserved' : \E i \in DOMAIN session_queues'[s] : o = session_queues'[s][i])
            <=> (\E s \in Reserved : \E i \in DOMAIN session_queues[s] : o = session_queues[s][i])
      BY <1>1 DEF Reserved
    <2>3. o \in Unrun' <=>
            \/ \E i \in DOMAIN queue' : o = queue'[i]
            \/ \E s \in Reserved' : \E i \in DOMAIN session_queues'[s] : o = session_queues'[s][i]
            \/ \E v \in Starting' : o = work'[v]
      BY UnrunNow
    <2>4. o \in Unrun <=>
            \/ \E i \in DOMAIN queue : o = queue[i]
            \/ \E s \in Reserved : \E i \in DOMAIN session_queues[s] : o = session_queues[s][i]
            \/ \E v \in Starting : o = work[v]
      BY UnrunNow
    <2> QED BY <1>1, <2>1, <2>2, <2>3, <2>4
  <1> QED BY <1>1, <1>2, <1>5, <1>7 DEF Publishes

(* Any other step leaves the pieces and what ran alone.                      *)
Calm == Unrun' = Unrun /\ Ended' = Ended /\ executed' = executed

(* Workers begin and end their pieces in Take, Execute and Complete.         *)
LEMMA StagesStay ==
  ASSUME WorkerTypes, [Next]_vars,
         \A w \in Workers : ~Take(w) /\ ~Complete(w) /\ ~Execute(w)
  PROVE  Starting' = Starting /\ Ending' = Ending /\ work' = work /\ executed' = executed
  <1> DEFINE In(state) == state \in {"lease", "measure", "extend", "lock"}
             Out(state) == state \in {"release", "announce", "complete"}
  <1>0. work' = work
    BY CarryingStays
  <1>1. ASSUME \A v \in Workers : /\ In(worker'[v]) <=> In(worker[v])
                                  /\ Out(worker'[v]) <=> Out(worker[v])
        PROVE  Starting' = Starting /\ Ending' = Ending
    BY <1>1 DEF Starting, Ending
  <1>2. ASSUME NEW w \in Workers, NEW state, worker' = [worker EXCEPT ![w] = state],
               In(state) <=> In(worker[w]), Out(state) <=> Out(worker[w])
        PROVE  Starting' = Starting /\ Ending' = Ending
    <2> HIDE DEF In, Out
    <2>1. \A v \in Workers : /\ In(worker'[v]) <=> In(worker[v])
                             /\ Out(worker'[v]) <=> Out(worker[v])
      BY <1>2 DEF WorkerTypes
    <2> QED BY <1>1, <2>1
  <1>3. ASSUME NEW w \in Workers, WorkerStep(w)
        PROVE  /\ Starting' = Starting /\ Ending' = Ending /\ executed' = executed
    <2>1. CASE Wait(w) \/ Leave(w)
      BY <1>2, <2>1 DEF Wait, Leave
    <2>2. CASE AcquireCompute(w)
      <3>1. /\ worker[w] = "lease" /\ executed' = executed
            /\ \/ worker' = [worker EXCEPT ![w] = "measure"]
               \/ worker' = [worker EXCEPT ![w] = "lock"]
        BY <2>2 DEF AcquireCompute
      <3> QED BY <1>2, <3>1
    <2>3. CASE MeasureTeam(w) \/ PrepareTeam(w) \/ ReleaseSessions(w)
      BY <1>2, <2>3 DEF MeasureTeam, PrepareTeam, ReleaseSessions
    <2>4. CASE LockSession(w)
      BY <2>4 DEF LockSession, Starting, Ending
    <2>5. CASE NotifyAll(w)
      <3>1. /\ worker[w] = "announce" /\ executed' = executed
            /\ worker' = WakeAll([worker EXCEPT ![w] = "complete"])
        BY <2>5 DEF NotifyAll
      <3>2. \A v \in Workers : /\ In(worker'[v]) <=> In(worker[v])
                               /\ Out(worker'[v]) <=> Out(worker[v])
        BY <3>1 DEF WakeAll, WorkerTypes
      <3> QED BY <1>1, <3>1, <3>2
    <2> QED BY <1>3, <2>1, <2>2, <2>3, <2>4, <2>5 DEF WorkerStep
  <1>4. ASSUME NEW c \in Callers, NotifyOne(c)
        PROVE  /\ Starting' = Starting /\ Ending' = Ending /\ executed' = executed
    <2>1. \/ worker' = worker
          \/ \E w \in Workers : worker[w] = "asleep" /\ worker' = [worker EXCEPT ![w] = "ready"]
      BY <1>4 DEF NotifyOne, Asleep
    <2>2. executed' = executed
      BY <1>4 DEF NotifyOne
    <2>3. CASE worker' = worker
      BY <2>2, <2>3 DEF Starting, Ending
    <2> QED BY <1>2, <2>1, <2>2, <2>3
  <1>5. ASSUME NotifyStop
        PROVE  /\ Starting' = Starting /\ Ending' = Ending /\ executed' = executed
    <2>1. worker' = WakeAll(worker) /\ executed' = executed
      BY <1>5 DEF NotifyStop
    <2>2. \A v \in Workers : /\ In(worker'[v]) <=> In(worker[v])
                             /\ Out(worker'[v]) <=> Out(worker[v])
      BY <2>1 DEF WakeAll, WorkerTypes
    <2> QED BY <1>1, <2>1, <2>2
  <1>6. ASSUME worker' = worker
        PROVE  Starting' = Starting /\ Ending' = Ending
    BY <1>6 DEF Starting, Ending
  <1>7. \/ worker' = worker /\ executed' = executed
        \/ \E c \in Callers : NotifyOne(c)
        \/ \E w \in Workers : WorkerStep(w)
        \/ NotifyStop
    BY DEF Next, vars, CallerStep, SubmitStep, DirectStep, Submit, TryEnqueueBatch,
           EnqueueSession, Throw, StartDirect, LockDirect, RunDirect, Reset, CommitGeneration, Stop, Join
  <1> QED BY <1>0, <1>3, <1>4, <1>5, <1>6, <1>7

(* What a step does to the pieces.                                           *)
LEMMA PieceSteps ==
  ASSUME SchedulerAssumption, Control, AnswerInv, [Next]_vars
  PROVE  \/ Calm
         \/ \E c \in Callers : Adds(c)
         \/ \E w \in Workers : Runs(w) \/ Publishes(w)
  <1> USE DEF Control, AnswerInv
  <1>1. ASSUME NEW c \in Callers, TryEnqueueBatch(c) \/ EnqueueSession(c)
        PROVE  Adds(c) \/ Calm
    BY <1>1, EnqueueAdds DEF Calm
  <1>2. ASSUME NEW w \in Workers, Take(w)
        PROVE  Calm
    BY <1>2, TakeKeepsPieces DEF Take, Calm
  <1>3. ASSUME NEW w \in Workers, ReleaseSessions(w)
        PROVE  Calm
    BY <1>3, ReleaseKeepsPieces DEF ReleaseSessions, Calm
  <1>4. ASSUME NEW w \in Workers, Execute(w) \/ Complete(w)
        PROVE  Runs(w) \/ Publishes(w)
    BY <1>4, ExecuteRuns, CompletePublishes
  <1>5. ASSUME UNCHANGED queue_vars, \A w \in Workers : ~Take(w) /\ ~Complete(w) /\ ~Execute(w)
        PROVE  Calm
    <2>1. Starting' = Starting /\ Ending' = Ending /\ work' = work /\ executed' = executed
      BY <1>5, StagesStay
    <2>2. queue' = queue /\ session_queues' = session_queues
      BY <1>5 DEF queue_vars
    <2> QED BY <2>1, <2>2 DEF Calm, Unrun, Ended, Reserved
  <1> QED BY <1>1, <1>2, <1>3, <1>4, <1>5, QueueSteps

(* How promises change: never back to pending, and broken only by a throw.   *)
LEMMA PromiseSteps ==
  ASSUME BatchTypes, [Next]_vars, NEW b \in DOMAIN batches
  PROVE  /\ batches'[b].promise = "pending" => batches[b].promise = "pending"
         /\ batches'[b].promise = "broken" =>
               \/ batches[b].promise = "broken"
               \/ \E c \in Callers : Throw(c) /\ caller[c].batch = b
  <1>0. batches[b] \in BatchRecord
    BY ElementOfSeq, LenProperties DEF BatchTypes
  <1>1. ASSUME NEW c \in Callers, Submit(c)
        PROVE  batches'[b] = batches[b]
    <2>1. \E x : batches' = Append(batches, x)
      BY <1>1 DEF Submit
    <2> QED BY <2>1, LenProperties DEF BatchTypes
  <1>2. ASSUME NEW c \in Callers, TryEnqueueBatch(c)
        PROVE  batches'[b] = batches[b] \/ batches'[b].promise = "ready"
    <2>1. \/ batches' = batches
          \/ \E results : batches' = [batches EXCEPT ![caller[c].batch].promise = "ready",
                                                     ![caller[c].batch].results = results]
      BY <1>2 DEF TryEnqueueBatch
    <2> QED BY <1>0, <2>1 DEF BatchRecord
  <1>3. ASSUME NEW c \in Callers, Throw(c)
        PROVE  \/ batches'[b] = batches[b]
               \/ batches'[b].promise = "broken" /\ caller[c].batch = b
    BY <1>0, <1>3 DEF Throw, BatchRecord
  <1>4. ASSUME NEW w \in Workers, Complete(w)
        PROVE  batches'[b].promise \in {batches[b].promise, "ready"}
    <2>1. \A slot, results : \A batch \in BatchRecord :
              Published(batch, slot, results).promise \in {batch.promise, "ready"}
      BY DEF Published, PublishedAfter, BatchRecord
    <2>2. batches' = [batches EXCEPT ![work[w].batch] =
                          Published(batches[work[w].batch], work[w].slot, outcome[w])]
      BY <1>4 DEF Complete
    <2> QED BY <1>0, <2>1, <2>2
  <1> QED BY <1>1, <1>2, <1>3, <1>4, BatchSteps

(* Only a submission adds a batch, and it is pending when its caller has all *)
(* of it to enqueue.                                                         *)
LEMMA BatchesGrow ==
  ASSUME SchedulerAssumption, BatchTypes, CallerTypes, [Next]_vars
  PROVE  /\ DOMAIN batches' = DOMAIN batches /\ \A c \in Callers : ~Submit(c)
         \/ \E c \in Callers :
              /\ Submit(c) /\ DOMAIN batches' = DOMAIN batches \cup {Len(batches) + 1}
              /\ Len(batches) + 1 \notin DOMAIN batches /\ Len(batches) < MaxBatches
              /\ \A b \in DOMAIN batches : batches'[b] = batches[b]
              /\ \A d \in Callers \ {c} : caller'[d] = caller[d]
              /\ LET new == batches'[Len(batches) + 1]
                 IN  /\ \E sub \in Submissions : new.kind = sub.kind /\ new.requests = sub.requests
                     /\ \/ new.promise = "ready" /\ caller'[c].step \notin Submitting
                        \/ /\ new.promise = "pending" /\ caller'[c].batch = Len(batches) + 1
                           /\ caller'[c].step \in Submitting \ {"notify"} /\ caller'[c].slot = 1
                           /\ caller'[c].requests = new.requests
  <1>1. ASSUME NEW c \in Callers, Submit(c)
        PROVE  /\ DOMAIN batches' = DOMAIN batches \cup {Len(batches) + 1}
               /\ Len(batches) + 1 \notin DOMAIN batches /\ Len(batches) < MaxBatches
               /\ \A b \in DOMAIN batches : batches'[b] = batches[b]
               /\ \A d \in Callers \ {c} : caller'[d] = caller[d]
               /\ LET new == batches'[Len(batches) + 1]
                  IN  /\ \E sub \in Submissions :
                            new.kind = sub.kind /\ new.requests = sub.requests
                      /\ \/ new.promise = "ready" /\ caller'[c].step \notin Submitting
                         \/ /\ new.promise = "pending" /\ caller'[c].batch = Len(batches) + 1
                            /\ caller'[c].step \in Submitting \ {"notify"}
                            /\ caller'[c].slot = 1
                            /\ caller'[c].requests = new.requests
    <2>0. PICK n : n = Len(batches)
      OBVIOUS
    <2>1. /\ caller[c] = Idle /\ Len(batches) < MaxBatches
          /\ \E sub \in Submissions :
               \/ /\ batches' = Append(batches, Batch(sub, "ready",
                                    AllFail(sub.requests, "InvalidArgument")))
                  /\ caller' = caller
               \/ /\ batches' = Append(batches, Batch(sub, "pending", << >>))
                  /\ caller' = [caller EXCEPT ![c] =
                        [step |-> IF AttemptsStage(sub) THEN "stage" ELSE "enqueue",
                         batch |-> n + 1, slot |-> 1, requests |-> sub.requests]]
      BY <1>1, <2>0 DEF Submit
    <2>10. PICK sub \in Submissions : \E promise \in {"pending", "ready"} : \E results :
             /\ batches' = Append(batches, Batch(sub, promise, results))
             /\ IF promise = "ready" THEN caller' = caller
                ELSE caller' = [caller EXCEPT ![c] =
                        [step |-> IF AttemptsStage(sub) THEN "stage" ELSE "enqueue",
                         batch |-> n + 1, slot |-> 1, requests |-> sub.requests]]
      BY <2>1
    <2>11. PICK promise \in {"pending", "ready"} : \E results :
             /\ batches' = Append(batches, Batch(sub, promise, results))
             /\ IF promise = "ready" THEN caller' = caller
                ELSE caller' = [caller EXCEPT ![c] =
                        [step |-> IF AttemptsStage(sub) THEN "stage" ELSE "enqueue",
                         batch |-> n + 1, slot |-> 1, requests |-> sub.requests]]
      BY <2>10
    <2>2. PICK results :
             /\ batches' = Append(batches, Batch(sub, promise, results))
             /\ IF promise = "ready" THEN caller' = caller
                ELSE caller' = [caller EXCEPT ![c] =
                        [step |-> IF AttemptsStage(sub) THEN "stage" ELSE "enqueue",
                         batch |-> n + 1, slot |-> 1, requests |-> sub.requests]]
      BY <2>11
    <2>3. PICK new : new = Batch(sub, promise, results)
      OBVIOUS
    <2>4. new.kind = sub.kind /\ new.requests = sub.requests /\ new.promise = promise
      BY <2>3 DEF Batch
    <2>5. /\ n \in Nat /\ DOMAIN batches = 1 .. n /\ DOMAIN batches' = 1 .. n + 1
          /\ batches'[n + 1] = new /\ \A i \in 1 .. n : batches'[i] = batches[i]
      BY <2>0, <2>2, <2>3, LenProperties DEF BatchTypes
    <2>6. DOMAIN batches' = DOMAIN batches \cup {n + 1} /\ n + 1 \notin DOMAIN batches
      BY <2>5
    <2>7. \A d \in Callers \ {c} : caller'[d] = caller[d]
      BY <2>2 DEF CallerTypes
    <2>8. CASE promise = "ready"
      <3>1. caller'[c].step \notin Submitting
        BY <2>1, <2>2, <2>8 DEF Idle, Submitting
      <3> QED BY <2>0, <2>1, <2>2, <2>4, <2>5, <2>6, <2>7, <2>8, <3>1
    <2>9. CASE promise = "pending"
      <3>1. caller'[c] = [step |-> IF AttemptsStage(sub) THEN "stage" ELSE "enqueue",
                          batch |-> n + 1, slot |-> 1, requests |-> sub.requests]
        BY <2>2, <2>9 DEF CallerTypes
      <3>2. /\ caller'[c].step \in Submitting \ {"notify"} /\ caller'[c].batch = n + 1
            /\ caller'[c].slot = 1 /\ caller'[c].requests = sub.requests
        BY <3>1 DEF Submitting
      <3> QED BY <2>0, <2>1, <2>2, <2>4, <2>5, <2>6, <2>7, <2>9, <3>2
    <2> QED BY <2>11, <2>8, <2>9
  <1>2. ASSUME \A c \in Callers : ~Submit(c)
        PROVE  DOMAIN batches' = DOMAIN batches
    <2>1. ASSUME NEW c \in Callers, TryEnqueueBatch(c) \/ Throw(c)
          PROVE  DOMAIN batches' = DOMAIN batches
      BY <2>1 DEF TryEnqueueBatch, Throw
    <2>2. ASSUME NEW w \in Workers, Complete(w)
          PROVE  DOMAIN batches' = DOMAIN batches
      BY <2>2 DEF Complete
    <2> QED BY <1>2, <2>1, <2>2, BatchSteps
  <1> QED BY <1>1, <1>2

(* What a caller owes stays owed, is enqueued, or its batch is settled.      *)
LEMMA OwesLasts ==
  ASSUME SchedulerAssumption, Control, AnswerInv, [Next]_vars, NEW c \in Callers,
         NEW b \in DOMAIN batches, NEW i \in DOMAIN batches[b].requests, CallerOwes(c, b, i)
  PROVE  \/ CallerOwes(c, b, i)'
         \/ Adds(c) /\ NextPiece(c).batch = b /\ NextPiece(c).slot \in {0, i}
         \/ batches'[b].promise # "pending"
  <1> USE DEF Control, AnswerInv
  <1>0. /\ caller[c].step \in Submitting /\ caller[c].batch = b
        /\ IF caller[c].step = "notify" THEN i > caller[c].slot ELSE i >= caller[c].slot
        /\ caller[c].requests = batches[b].requests
    <2>1. caller[c].step \in Submitting /\ caller[c].batch = b
      BY DEF CallerOwes
    <2> QED BY <2>1 DEF CallerOwes, CallersSane, Submits
  <1>1. /\ caller[c].slot \in Nat /\ i \in Nat /\ Len(caller[c].requests) \in Nat
        /\ i <= Len(caller[c].requests) /\ batches[b] \in BatchRecord
    <2>1. caller[c].slot \in Nat /\ caller[c].requests \in Seq(Request)
      BY DEF CallerTypes
    <2>2. i \in 1 .. Len(caller[c].requests) /\ Len(caller[c].requests) \in Nat
      BY <1>0, <2>1, LenProperties
    <2>3. batches[b] \in BatchRecord
      BY ElementOfSeq, LenProperties DEF BatchTypes
    <2> QED BY <2>1, <2>2, <2>3
  <1>2. ASSUME caller'[c] = caller[c]
        PROVE  CallerOwes(c, b, i)'
    BY <1>2 DEF CallerOwes
  <1>3. ASSUME NEW d \in Callers, d # c,
               Submit(d) \/ SubmitStep(d) \/ StartDirect(d) \/ RunDirect(d)
        PROVE  caller'[c] = caller[c]
    BY <1>3 DEF Submit, SubmitStep, TryEnqueueBatch, EnqueueSession, NotifyOne, Throw,
                StartDirect, RunDirect, CallerTypes
  <1>4. ~Submit(c) /\ ~StartDirect(c) /\ ~RunDirect(c)
    <2>1. Idle.step = "idle" /\ caller[c].step # "idle" /\ caller[c].step # "lock"
      BY <1>0 DEF Idle, Submitting
    <2>2. caller[c] # Idle
      BY <2>1
    <2> QED BY <2>1, <2>2 DEF Submit, StartDirect, RunDirect
  <1>5. \A k : NextPiece(c).batch = b /\ NextPiece(c).slot \in {0, caller[c].slot}
    BY <1>0 DEF NextPiece, WholeBatch, OneRequest
  <1>6. CASE TryEnqueueBatch(c)
    <2>1. CASE Adds(c)
      <3>1. NextPiece(c).slot = 0
        BY <1>6 DEF TryEnqueueBatch, NextPiece, WholeBatch
      <3> QED BY <1>5, <2>1, <3>1
    <2>2. CASE ~Adds(c)
      <3>1. ~Free(SessionsIn(caller[c].requests))
        BY <1>6, <2>2, EnqueueAdds
      <3>2. CASE batches[b].kind = "prefill"
        <4>1. batches'[b].promise = "ready"
          BY <1>0, <1>1, <1>6, <3>1, <3>2 DEF TryEnqueueBatch, BatchRecord
        <4> QED BY <4>1
      <3>3. CASE batches[b].kind # "prefill"
        <4>1. caller' = [caller EXCEPT ![c].step = "enqueue"] /\ caller[c].step = "stage"
          BY <1>0, <1>6, <3>1, <3>3 DEF TryEnqueueBatch
        <4>2. /\ caller'[c].step = "enqueue" /\ caller'[c].batch = b
              /\ caller'[c].slot = caller[c].slot
          BY <1>0, <4>1 DEF CallerTypes
        <4> QED BY <1>0, <4>1, <4>2 DEF CallerOwes, Submitting
      <3> QED BY <3>2, <3>3
    <2> QED BY <2>1, <2>2
  <1>7. CASE EnqueueSession(c)
    <2>1. Adds(c)
      BY <1>7, EnqueueAdds DEF EnqueueSession, TryEnqueueBatch
    <2>2. caller[c].step = "enqueue" /\ caller' = [caller EXCEPT ![c].step = "notify"]
      BY <1>7 DEF EnqueueSession
    <2>3. /\ caller'[c].step = "notify" /\ caller'[c].batch = b
          /\ caller'[c].slot = caller[c].slot
      BY <1>0, <2>2 DEF CallerTypes
    <2>4. CASE i = caller[c].slot
      BY <1>5, <2>1, <2>4
    <2>5. CASE i # caller[c].slot
      <3>1. i > caller[c].slot
        BY <1>0, <1>1, <2>2, <2>5
      <3> QED BY <2>3, <3>1 DEF CallerOwes, Submitting
    <2> QED BY <2>4, <2>5
  <1>8. CASE NotifyOne(c)
    <2>1. /\ caller[c].step = "notify"
          /\ caller' = [caller EXCEPT ![c] =
               IF @.slot < Len(@.requests)
               THEN [@ EXCEPT !.step = "enqueue", !.slot = caller[c].slot + 1] ELSE Idle]
      BY <1>8 DEF NotifyOne
    <2>2. caller[c].slot < Len(caller[c].requests)
      BY <1>0, <1>1, <2>1
    <2>3. /\ caller'[c].step = "enqueue" /\ caller'[c].batch = b
          /\ caller'[c].slot = caller[c].slot + 1
      BY <1>0, <2>1, <2>2 DEF CallerTypes
    <2>4. i >= caller[c].slot + 1
      BY <1>0, <1>1, <2>1
    <2> QED BY <2>3, <2>4 DEF CallerOwes, Submitting
  <1>9. CASE Throw(c)
    BY <1>0, <1>1, <1>9 DEF Throw, BatchRecord
  <1>10. CASE UNCHANGED caller
    BY <1>2, <1>10
  <1>11. CASE SubmitStep(c)
    BY <1>6, <1>7, <1>8, <1>9, <1>11 DEF SubmitStep
  <1> QED BY <1>2, <1>3, <1>4, <1>10, <1>11, CallerSteps

(* A piece that is added is part of the batch its caller submits, and has    *)
(* neither a place nor run.                                                  *)
LEMMA AddedPiece ==
  ASSUME SchedulerAssumption, Control, AnswerInv, ServiceInv, NEW c \in Callers,
         caller[c].step \in {"stage", "enqueue"}
  PROVE  LET b == caller[c].batch  new == NextPiece(c)
         IN  /\ b \in DOMAIN batches /\ new.batch = b /\ new.kind = batches[b].kind
             /\ new.slot \in {0, caller[c].slot}
             /\ batches[b].promise = "pending"
             /\ <<b, 0>> \notin Alive /\ <<b, caller[c].slot>> \notin Alive
             /\ Known(new) /\ Name(new) \notin Alive /\ Name(new) \notin Ran
  <1> USE DEF Control, AnswerInv, ServiceInv
  <1>0. PICK b, k, new : b = caller[c].batch /\ k = caller[c].slot /\ new = NextPiece(c)
    OBVIOUS
  <1>1. /\ b \in DOMAIN batches /\ k \in DOMAIN batches[b].requests /\ k # 0
        /\ batches[b].requests = caller[c].requests
        /\ <<b, k>> \notin Alive /\ <<b, 0>> \notin Alive
        /\ batches[b].promise # "ready"
    BY <1>0, NextOwed
  <1>2. batches[b] \in BatchRecord
    BY <1>1, ElementOfSeq, LenProperties DEF BatchTypes
  <1>3. caller[c].step \in Submitting /\ caller[c].step # "notify"
    BY DEF Submitting
  <1>4. batches[b].promise = "pending"
    <2>1. batches[b].promise # "broken"
      BY <1>0, <1>3 DEF BrokenApart
    <2> QED BY <1>1, <1>2, <2>1 DEF BatchRecord
  <1>5. new = WholeBatch(b) \/ new = OneRequest(b, k)
    BY <1>0 DEF NextPiece
  <1>6. /\ new.batch = b /\ new.kind = batches[b].kind /\ new.slot \in {0, k}
    BY <1>5 DEF WholeBatch, OneRequest
  <1>7. Known(new)
    BY <1>1, <1>5 DEF WholeBatch, OneRequest, Known
  <1>8. Name(new) \notin Alive
    BY <1>1, <1>6 DEF Name
  <1>9. CallerOwes(c, b, k)
    <2>1. k \in Nat
      BY <1>0 DEF CallerTypes
    <2>2. k >= k
      BY <2>1
    <2> QED BY <1>0, <1>3, <2>2 DEF CallerOwes
  <1>10. Name(new) \notin Ran
    <2> SUFFICES ASSUME NEW piece \in executed, Name(piece) = Name(new)
                 PROVE  FALSE
      BY DEF Ran
    <2>1. piece.batch = b /\ piece.slot \in {0, k}
      BY <1>6 DEF Name
    <2>2. piece.slot # 0 /\ piece.slot # k
      BY <1>1, <1>9, <2>1 DEF RanOnce
    <2> QED BY <2>1, <2>2
  <1> QED BY <1>0, <1>1, <1>4, <1>6, <1>7, <1>8, <1>10

(* Names of pieces that a step makes: those of added ones only.              *)
LEMMA NamesStep ==
  ASSUME SchedulerAssumption, Control, AnswerInv, AliveByStage, AliveByStage', [Next]_vars
  PROVE  /\ \A n \in Alive' : n \in Alive \/ \E c \in Callers : Adds(c) /\ n = Name(NextPiece(c))
         /\ \A c \in Callers : Adds(c) => Name(NextPiece(c)) \in Alive'
         /\ Ended \subseteq executed =>
               /\ \A n \in Alive : n \in Alive' \/ n \in Ran'
               /\ Ended' \subseteq executed'
         /\ \A n \in Ran : n \in Ran'
         /\ \A o \in Unrun' \cup Ended' :
               o \in Unrun \cup Ended \/ \E c \in Callers : Adds(c) /\ o = NextPiece(c)
  <1>1. \/ Calm
        \/ \E c \in Callers : Adds(c)
        \/ \E w \in Workers : Runs(w) \/ Publishes(w)
    BY PieceSteps
  <1>2. \A o \in Unrun' \cup Ended' :
            o \in Unrun \cup Ended \/ \E c \in Callers : Adds(c) /\ o = NextPiece(c)
    <2>1. CASE Calm
      BY <2>1 DEF Calm
    <2>2. ASSUME NEW c \in Callers, Adds(c)
          PROVE  \A o \in Unrun' \cup Ended' : o \in Unrun \cup Ended \/ o = NextPiece(c)
      BY <2>2 DEF Adds
    <2>3. ASSUME NEW w \in Workers, Runs(w) \/ Publishes(w)
          PROVE  \A o \in Unrun' \cup Ended' : o \in Unrun \cup Ended
      BY <2>3 DEF Runs, Publishes
    <2> QED BY <1>1, <2>1, <2>2, <2>3
  <1>3. \A o \in Unrun' \cup Ended' : Name(o) \in Alive'
    BY DEF AliveByStage
  <1>4. \A n \in Alive' : n \in Alive \/ \E c \in Callers : Adds(c) /\ n = Name(NextPiece(c))
    <2> SUFFICES ASSUME NEW n \in Alive', n \notin Alive
                 PROVE  \E c \in Callers : Adds(c) /\ n = Name(NextPiece(c))
      OBVIOUS
    <2>1. PICK o \in Unrun' \cup Ended' : n = Name(o)
      BY DEF AliveByStage
    <2>2. o \notin Unrun \cup Ended
      BY <2>1 DEF AliveByStage
    <2> QED BY <1>2, <2>1, <2>2
  <1>5. \A c \in Callers : Adds(c) => Name(NextPiece(c)) \in Alive'
    BY <1>3 DEF Adds
  <1>6. executed \subseteq executed' /\ \A n \in Ran : n \in Ran'
    <2>1. executed \subseteq executed'
      BY <1>1 DEF Calm, Adds, Runs, Publishes
    <2> QED BY <2>1 DEF Ran
  <1>7. ASSUME Ended \subseteq executed
        PROVE  /\ \A o \in Unrun \cup Ended : Name(o) \in Alive' \/ Name(o) \in Ran'
               /\ Ended' \subseteq executed'
    <2>1. CASE Calm
      BY <1>3, <1>7, <2>1 DEF Calm
    <2>2. ASSUME NEW c \in Callers, Adds(c)
          PROVE  /\ \A o \in Unrun \cup Ended : Name(o) \in Alive'
                 /\ Ended' \subseteq executed'
      BY <1>3, <1>7, <2>2 DEF Adds
    <2>3. ASSUME NEW w \in Workers, Runs(w)
          PROVE  /\ \A o \in Unrun \cup Ended : Name(o) \in Alive'
                 /\ Ended' \subseteq executed'
      <3>1. \A o \in Unrun \cup Ended : o \in Unrun' \cup Ended'
        BY <2>3 DEF Runs
      <3>2. Ended' \subseteq executed'
        BY <1>7, <2>3 DEF Runs
      <3> QED BY <1>3, <3>1, <3>2
    <2>4. ASSUME NEW w \in Workers, Publishes(w)
          PROVE  /\ \A o \in Unrun \cup Ended : Name(o) \in Alive' \/ Name(o) \in Ran'
                 /\ Ended' \subseteq executed'
      <3>1. \A o \in Unrun \cup Ended : o \in Unrun' \cup Ended' \/ o = work[w]
        BY <2>4 DEF Publishes
      <3>2. work[w] \in executed' /\ Ended' \subseteq executed'
        BY <1>7, <2>4 DEF Publishes
      <3>3. Name(work[w]) \in Ran'
        BY <3>2 DEF Ran
      <3> QED BY <1>3, <3>1, <3>2, <3>3
    <2> QED BY <1>1, <2>1, <2>2, <2>3, <2>4
  <1>8. ASSUME Ended \subseteq executed
        PROVE  \A n \in Alive : n \in Alive' \/ n \in Ran'
    <2> SUFFICES ASSUME NEW n \in Alive
                 PROVE  n \in Alive' \/ n \in Ran'
      OBVIOUS
    <2>1. PICK o \in Unrun \cup Ended : n = Name(o)
      BY DEF AliveByStage
    <2> QED BY <1>7, <1>8, <2>1
  <1> QED BY <1>2, <1>4, <1>5, <1>6, <1>7, <1>8

(* An interval from one tells its length.                                    *)
LEMMA IntervalEnds ==
  ASSUME NEW m \in Nat, NEW n \in Nat, 1 .. n = 1 .. m
  PROVE  n = m
  <1>1. \A i \in Nat : i \in 1 .. n <=> i \in 1 .. m
    OBVIOUS
  <1>2. n <= m
    <2>1. CASE n = 0
      BY <2>1
    <2>2. CASE n # 0
      <3>1. n \in 1 .. n
        BY <2>2
      <3>2. n \in 1 .. m
        BY <1>1, <3>1
      <3> QED BY <3>2
    <2> QED BY <2>1, <2>2
  <1>3. m <= n
    <2>1. CASE m = 0
      BY <2>1
    <2>2. CASE m # 0
      <3>1. m \in 1 .. m
        BY <2>2
      <3>2. m \in 1 .. n
        BY <1>1, <3>1
      <3> QED BY <3>2
    <2> QED BY <2>1, <2>2
  <1> QED BY <1>2, <1>3

(* The pieces are of the kind of their batches.                              *)
LEMMA KindsStep ==
  ASSUME SchedulerAssumption, Control, AnswerInv, AliveByStage, AliveByStage',
         ServiceInv, [Next]_vars
  PROVE  FromSubmissions' /\ KindsKept'
  <1> USE DEF Control, AnswerInv, ServiceInv
  <1>0. BatchesStay /\ BatchTypes'
    BY BatchesStayStep, ControlStep
  <1>1. FromSubmissions'
    <2>1. Len(batches) \in Nat /\ DOMAIN batches = 1 .. Len(batches)
      BY LenProperties DEF BatchTypes
    <2>2. Len(batches') \in Nat /\ DOMAIN batches' = 1 .. Len(batches')
      BY <1>0, LenProperties DEF BatchTypes
    <2>3. CASE DOMAIN batches' = DOMAIN batches
      <3>1. Len(batches') = Len(batches)
        <4>1. 1 .. Len(batches') = 1 .. Len(batches)
          BY <2>1, <2>2, <2>3
        <4> QED BY <2>1, <2>2, <4>1, IntervalEnds
      <3> QED BY <1>0, <2>3, <3>1 DEF FromSubmissions, BatchesStay
    <2>4. CASE \E c \in Callers :
              /\ Submit(c) /\ DOMAIN batches' = DOMAIN batches \cup {Len(batches) + 1}
              /\ Len(batches) < MaxBatches
              /\ \A b \in DOMAIN batches : batches'[b] = batches[b]
              /\ LET new == batches'[Len(batches) + 1]
                 IN  \E sub \in Submissions : new.kind = sub.kind /\ new.requests = sub.requests
      <3>1. Len(batches') = Len(batches) + 1
        <4> DEFINE m == Len(batches)  n == Len(batches')
        <4>1. m \in Nat /\ n \in Nat /\ 1 .. n = (1 .. m) \cup {m + 1}
          BY <2>1, <2>2, <2>4
        <4> HIDE DEF m, n
        <4>2. 1 .. m + 1 = (1 .. m) \cup {m + 1} /\ m + 1 \in Nat
          BY <4>1
        <4>3. 1 .. n = 1 .. m + 1
          BY <4>1, <4>2
        <4>4. n = m + 1
          BY <4>1, <4>2, <4>3, IntervalEnds
        <4> QED BY <4>4 DEF m, n
      <3>2. Len(batches') <= MaxBatches
        BY <2>1, <2>4, <3>1 DEF SchedulerAssumption
      <3> QED BY <2>4, <3>2 DEF FromSubmissions
    <2> QED BY <2>3, <2>4, BatchesGrow
  <1>2. KindsKept'
    <2> SUFFICES ASSUME NEW o \in Unrun' \cup Ended'
                 PROVE  o.kind = batches'[o.batch].kind
      BY DEF KindsKept
    <2>1. CASE o \in Unrun \cup Ended
      <3>1. Known(o)
        BY <2>1, PiecesByStage DEF Pieces, PiecesKnown
      <3>2. o.batch \in DOMAIN batches
        BY <3>1 DEF Known
      <3> QED BY <1>0, <2>1, <3>2 DEF KindsKept, BatchesStay
    <2>2. ASSUME NEW c \in Callers, Adds(c), o = NextPiece(c)
          PROVE  o.kind = batches'[o.batch].kind
      <3>1. caller[c].step \in {"stage", "enqueue"} /\ batches' = batches
        BY <2>2 DEF Adds
      <3>2. o.batch = caller[c].batch /\ o.kind = batches[caller[c].batch].kind
        BY <2>2, <3>1, AddedPiece
      <3> QED BY <3>1, <3>2
    <2> QED BY <2>1, <2>2, NamesStep
  <1> QED BY <1>1, <1>2

(* Abandoned batches stay apart.                                             *)
LEMMA BrokenStep ==
  ASSUME SchedulerAssumption, Control, AnswerInv, AliveByStage, AliveByStage',
         ServiceInv, [Next]_vars
  PROVE  BrokenApart'
  <1> USE DEF Control, AnswerInv, ServiceInv
  <1>1. ASSUME NEW c \in Callers, Throw(c)
        PROVE  /\ caller[c].batch \in DOMAIN batches /\ <<caller[c].batch, 0>> \notin Alive
               /\ caller'[c].step \notin Submitting
               /\ \A d \in Callers \ {c} :
                     ~(caller[d].step \in Submitting /\ caller[d].batch = caller[c].batch)
    <2>1. caller[c].step \in {"stage", "enqueue"} /\ caller' = [caller EXCEPT ![c] = Idle]
      BY <1>1 DEF Throw
    <2>2. caller'[c].step \notin Submitting
      BY <2>1 DEF CallerTypes, Idle, Submitting
    <2> QED BY <2>1, <2>2, NextOwed
  <1>2. ASSUME NEW c \in Callers, caller'[c].step \in Submitting
        PROVE  batches'[caller'[c].batch].promise # "broken"
    <2>1. CASE \A d \in Callers : ~Submit(d)
      <3>1. /\ caller[c].step \in Submitting /\ caller'[c].batch = caller[c].batch
        BY <1>2, <2>1, CallersKeepStep DEF CallersKeep, CallerKeeps
      <3>2. caller[c].batch \in DOMAIN batches /\ batches[caller[c].batch].promise # "broken"
        BY <3>1 DEF CallersSane, Submits, BrokenApart
      <3>3. ~\E d \in Callers : Throw(d) /\ caller[d].batch = caller[c].batch
        BY <1>1, <1>2, <3>1
      <3> QED BY <3>1, <3>2, <3>3, PromiseSteps
    <2>2. ASSUME NEW d \in Callers, Submit(d),
                 \A b \in DOMAIN batches : batches'[b] = batches[b],
                 \A e \in Callers \ {d} : caller'[e] = caller[e],
                 LET new == batches'[Len(batches) + 1]
                 IN  \/ new.promise = "ready" /\ caller'[d].step \notin Submitting
                     \/ new.promise = "pending" /\ caller'[d].batch = Len(batches) + 1
          PROVE  batches'[caller'[c].batch].promise # "broken"
      <3>1. CASE c = d
        BY <1>2, <2>2, <3>1
      <3>2. CASE c # d
        <4>1. caller'[c] = caller[c]
          BY <2>2, <3>2
        <4>2. caller[c].batch \in DOMAIN batches /\ batches[caller[c].batch].promise # "broken"
          BY <1>2, <4>1 DEF CallersSane, Submits, BrokenApart
        <4> QED BY <2>2, <4>1, <4>2
      <3> QED BY <3>1, <3>2
    <2> QED BY <2>1, <2>2, BatchesGrow
  <1>3. ASSUME NEW b \in DOMAIN batches', batches'[b].promise = "broken"
        PROVE  <<b, 0>> \notin Alive'
    <2>1. b \in DOMAIN batches
      <3>1. ASSUME b \notin DOMAIN batches
            PROVE  batches'[b].promise # "broken"
        BY <1>3, <3>1, BatchesGrow
      <3> QED BY <1>3, <3>1
    <2>2. CASE batches[b].promise = "broken"
      <3>1. <<b, 0>> \notin Alive
        BY <2>1, <2>2 DEF BrokenApart
      <3>2. ASSUME NEW c \in Callers, Adds(c)
            PROVE  Name(NextPiece(c)) # <<b, 0>>
        <4>1. caller[c].step \in {"stage", "enqueue"}
          BY <3>2 DEF Adds
        <4>2. NextPiece(c).batch = caller[c].batch /\ batches[caller[c].batch].promise = "pending"
          BY <4>1, AddedPiece
        <4> QED BY <2>2, <4>2 DEF Name
      <3> QED BY <3>1, <3>2, NamesStep
    <2>3. CASE batches[b].promise # "broken"
      <3>1. PICK c \in Callers : Throw(c) /\ caller[c].batch = b
        BY <1>3, <2>1, <2>3, PromiseSteps
      <3>2. <<b, 0>> \notin Alive
        BY <1>1, <3>1
      <3>3. \A d \in Callers : ~Adds(d)
        <4>1. batches' # batches
          BY <1>3, <2>3
        <4> QED BY <4>1 DEF Adds
      <3> QED BY <3>2, <3>3, NamesStep
    <2> QED BY <2>2, <2>3
  <1> QED BY <1>2, <1>3 DEF BrokenApart

(* Nothing runs twice.                                                       *)
LEMMA RanStep ==
  ASSUME SchedulerAssumption, Control, AnswerInv, AliveByStage, AliveByStage',
         ServiceInv, [Next]_vars
  PROVE  RanOnce'
  <1> USE DEF Control, AnswerInv, ServiceInv
  <1>0. BatchesStay
    BY BatchesStayStep
  <1>1. \A piece : Known(piece) => Known(piece)'
    BY <1>0 DEF Known, BatchesStay
  <1>2. \/ Calm
        \/ \E c \in Callers : Adds(c)
        \/ \E w \in Workers : Runs(w) \/ Publishes(w)
    BY PieceSteps
  <1>3. \A piece \in executed' : piece \in executed \/ \E w \in Workers : Runs(w) /\ piece = work[w]
    BY <1>2 DEF Calm, Adds, Runs, Publishes
  <1>4. ASSUME NEW w \in Workers, Runs(w)
        PROVE  Known(work[w]) /\ Name(work[w]) \in Alive
    <2>1. work[w] \in Unrun
      BY <1>4 DEF Runs
    <2> QED BY <2>1, PiecesByStage DEF Pieces, PiecesKnown, AliveByStage
  <1>5. \A piece \in executed' : Known(piece) /\ Known(piece)'
    BY <1>1, <1>3, <1>4 DEF RanOnce
  <1>6. ASSUME NEW piece \in executed', NEW c \in Callers, NEW i \in DOMAIN caller[c].requests,
               CallerOwes(c, piece.batch, i)
        PROVE  piece.slot # 0 /\ piece.slot # i
    <2>1. CASE piece \in executed
      BY <1>6, <2>1 DEF RanOnce
    <2>2. ASSUME NEW w \in Workers, Runs(w), piece = work[w]
          PROVE  piece.slot # 0 /\ piece.slot # i
      <3>0. PICK b : b = piece.batch
        OBVIOUS
      <3>1. /\ caller[c].step \in Submitting /\ caller[c].batch = b
            /\ b \in DOMAIN batches /\ caller[c].requests = batches[b].requests
        BY <1>6, <3>0 DEF CallerOwes, CallersSane, Submits
      <3>2. i \in Owed(b)
        BY <1>6, <3>0, <3>1 DEF Owed
      <3>3. <<b, 0>> \notin Alive
        BY <3>1, <3>2 DEF BatchesRight, BatchRight
      <3>4. <<b, i>> \notin Alive
        BY <1>6, <3>0, <3>1 DEF CallersApart, CallerApart
      <3>5. <<b, piece.slot>> \in Alive
        BY <1>4, <2>2, <3>0 DEF Name
      <3> QED BY <3>3, <3>4, <3>5
    <2> QED BY <1>3, <2>1, <2>2
  <1>7. ASSUME NEW piece \in executed', NEW c \in Callers, NEW i \in DOMAIN caller'[c].requests,
               CallerOwes(c, piece.batch, i)'
        PROVE  piece.slot # 0 /\ piece.slot # i
    <2>0. caller'[c].step \in Submitting /\ caller'[c].batch = piece.batch
      BY <1>7 DEF CallerOwes
    <2>1. CASE \A d \in Callers : ~Submit(d)
      <3>1. CallerKeeps(c)
        BY <2>1, CallersKeepStep DEF CallersKeep
      <3>2. i \in DOMAIN caller[c].requests /\ CallerOwes(c, piece.batch, i)
        BY <1>7, <2>0, <3>1 DEF CallerKeeps
      <3> QED BY <1>6, <3>2
    <2>2. ASSUME NEW d \in Callers, Submit(d), Len(batches) + 1 \notin DOMAIN batches,
                 \A e \in Callers \ {d} : caller'[e] = caller[e],
                 \/ caller'[d].step \notin Submitting
                 \/ caller'[d].batch = Len(batches) + 1
          PROVE  piece.slot # 0 /\ piece.slot # i
      <3>1. piece.batch \in DOMAIN batches
        BY <1>5 DEF Known
      <3>2. c # d
        BY <2>0, <2>2, <3>1
      <3>3. caller'[c] = caller[c]
        BY <2>2, <3>2
      <3>4. CallerOwes(c, piece.batch, i)
        BY <1>7, <3>3 DEF CallerOwes
      <3> QED BY <1>6, <3>3, <3>4
    <2> QED BY <2>1, <2>2, BatchesGrow
  <1>8. ASSUME NEW o \in Unrun'
        PROVE  Name(o) \notin Ran'
    <2>1. CASE Calm
      <3>1. Ran' = Ran /\ o \in Unrun
        BY <2>1 DEF Calm, Ran
      <3> QED BY <3>1 DEF RanOnce
    <2>2. ASSUME NEW c \in Callers, Adds(c)
          PROVE  Name(o) \notin Ran'
      <3>1. Ran' = Ran /\ (o \in Unrun \/ o = NextPiece(c)) /\ caller[c].step \in {"stage", "enqueue"}
        BY <2>2 DEF Adds, Ran
      <3>2. Name(NextPiece(c)) \notin Ran
        BY <3>1, AddedPiece
      <3> QED BY <3>1, <3>2 DEF RanOnce
    <2>3. ASSUME NEW w \in Workers, Runs(w)
          PROVE  Name(o) \notin Ran'
      <3>1. o \in Unrun /\ Name(o) # Name(work[w])
        BY <2>3 DEF Runs
      <3>2. \A n \in Ran' : n \in Ran \/ n = Name(work[w])
        BY <2>3 DEF Runs, Ran
      <3> QED BY <3>1, <3>2 DEF RanOnce
    <2>4. ASSUME NEW w \in Workers, Publishes(w)
          PROVE  Name(o) \notin Ran'
      <3>1. Ran' = Ran /\ o \in Unrun
        BY <2>4 DEF Publishes, Ran
      <3> QED BY <3>1 DEF RanOnce
    <2> QED BY <1>2, <2>1, <2>2, <2>3, <2>4
  <1>9. Ended' \subseteq executed'
    BY NamesStep DEF RanOnce
  <1> QED BY <1>5, <1>7, <1>8, <1>9 DEF RanOnce

(* Nothing is lost.                                                          *)
LEMMA LostStep ==
  ASSUME SchedulerAssumption, Control, AnswerInv, AliveByStage, AliveByStage',
         ServiceInv, [Next]_vars
  PROVE  NothingLost'
  <1> USE DEF Control, AnswerInv, ServiceInv
  <1>0. BatchesStay /\ BatchTypes'
    BY BatchesStayStep, ControlStep
  <1> SUFFICES ASSUME NEW b \in DOMAIN batches', batches'[b].promise = "pending",
                      NEW i \in DOMAIN batches'[b].requests
               PROVE  \/ i \in Owed(b)' \/ <<b, 0>> \in Alive'
                      \/ <<b, 0>> \in Ran' \/ <<b, i>> \in Ran'
    BY DEF NothingLost, Covered
  <1>1. /\ \A n \in Alive : n \in Alive' \/ n \in Ran'
        /\ \A n \in Ran : n \in Ran'
        /\ \A c \in Callers : Adds(c) => Name(NextPiece(c)) \in Alive'
    BY NamesStep DEF RanOnce
  <1>2. <<b, i>> \in Alive' => i \in Owed(b)'
    BY DEF Owed
  <1>3. \A c \in Callers : CallerOwes(c, b, i)' => i \in Owed(b)'
    BY DEF Owed
  <1>4. CASE b \in DOMAIN batches
    <2>1. batches[b].promise = "pending"
      BY <1>4, PromiseSteps
    <2>2. i \in DOMAIN batches[b].requests
      BY <1>0, <1>4 DEF BatchesStay
    <2>3. i \in Owed(b) \/ <<b, 0>> \in Alive \/ <<b, 0>> \in Ran \/ <<b, i>> \in Ran
      BY <1>4, <2>1, <2>2 DEF NothingLost, Covered
    <2>4. CASE <<b, 0>> \in Alive \/ <<b, i>> \in Alive
      BY <1>1, <1>2, <2>4
    <2>5. CASE <<b, 0>> \in Ran \/ <<b, i>> \in Ran
      BY <1>1, <2>5
    <2>6. ASSUME NEW c \in Callers, CallerOwes(c, b, i)
          PROVE  i \in Owed(b)' \/ <<b, 0>> \in Alive'
      <3>1. \/ CallerOwes(c, b, i)'
            \/ Adds(c) /\ NextPiece(c).batch = b /\ NextPiece(c).slot \in {0, i}
        BY <1>4, <2>2, <2>6, OwesLasts
      <3>2. CASE Adds(c) /\ NextPiece(c).batch = b /\ NextPiece(c).slot \in {0, i}
        <4>1. Name(NextPiece(c)) \in {<<b, 0>>, <<b, i>>}
          BY <3>2 DEF Name
        <4> QED BY <1>1, <1>2, <3>2, <4>1
      <3> QED BY <1>3, <3>1, <3>2
    <2> QED BY <2>3, <2>4, <2>5, <2>6 DEF Owed
  <1>5. CASE b \notin DOMAIN batches
    <2>1. ASSUME NEW c \in Callers, caller'[c].batch = b, caller'[c].slot = 1,
                 caller'[c].step \in Submitting \ {"notify"}
          PROVE  i \in Owed(b)'
      <3>1. batches'[b] \in BatchRecord
        BY <1>0, ElementOfSeq, LenProperties DEF BatchTypes
      <3>2. batches'[b].requests \in Seq(Request)
        BY <3>1 DEF BatchRecord
      <3>3. i >= 1
        BY <3>2, LenProperties
      <3>4. CallerOwes(c, b, i)'
        BY <2>1, <3>3 DEF CallerOwes
      <3> QED BY <1>3, <3>4
    <2> QED BY <1>5, <2>1, BatchesGrow
  <1> QED BY <1>4, <1>5

(* At first nothing was submitted.                                           *)
LEMMA ServiceStart ==
  ASSUME SchedulerAssumption, Init
  PROVE  ServiceInv
  <1>1. /\ DOMAIN queue = {} /\ Reserved = {} /\ Carrying = {} /\ DOMAIN batches = {}
        /\ Len(batches) = 0 /\ executed = {} /\ Starting = {} /\ Ending = {}
    BY DEF Init, Reserved, Carrying, Starting, Ending
  <1>2. Unrun = {} /\ Ended = {}
    BY <1>1, UnrunNow DEF Ended
  <1>3. \A c \in Callers : caller[c].step \notin Submitting
    BY DEF Init, Idle, Submitting
  <1>4. FromSubmissions
    BY <1>1 DEF FromSubmissions, SchedulerAssumption
  <1> QED BY <1>1, <1>2, <1>3, <1>4
          DEF ServiceInv, KindsKept, BrokenApart, RanOnce, NothingLost

(* The work of every batch is let in once, runs once, and none of it is lost *)
(* before its batch is answered.                                             *)
THEOREM ServiceInvariant == Spec => []ServiceInv
  <1>1. Init => ServiceInv
    BY SchedulerAssumption, ServiceStart
  <1>2. Control /\ AnswerInv /\ AliveByStage /\ AliveByStage' /\ ServiceInv /\ [Next]_vars
          => ServiceInv'
    BY SchedulerAssumption, KindsStep, BrokenStep, RanStep, LostStep DEF ServiceInv
  <1>3. Control => AliveByStage
    BY PiecesByStage DEF Control
  <1>4. Spec => []Control
    BY ControlInvariant
  <1>5. Spec => []AnswerInv
    BY AnswerInvariant
  <1> QED BY <1>1, <1>2, <1>3, <1>4, <1>5, PTL DEF Spec

(* The lines of work, of any queues and workers.                             *)
OwnersIn(q, B, at) == {q[i] : i \in DOMAIN q} \cup {at[w] : w \in B}
LineIn(R, pending, owners, s) ==
    IF s \notin R THEN << >> ELSE <<CHOOSE o \in owners : s \in SessionsOf(o)>> \o pending[s]
Owners == OwnersIn(queue, Busy, work)

(* The line of a session, before and after a step.                           *)
LEMMA LineNow ==
  ASSUME NEW s
  PROVE  /\ Line(s) = LineIn(Reserved, session_queues, Owners, s)
         /\ Line(s)' = LineIn(Reserved', session_queues', Owners', s)
  BY DEF Line, LineIn, Owners, OwnersIn, SessionsOf, SessionsIn

(* A reserved session has one owner, at the head of its line.                *)
LEMMA OneOwner ==
  ASSUME NEW q, NEW R, NEW pending, NEW B, NEW at, Exact(q, R, pending, B, at), NEW s
  PROVE  LET owners == OwnersIn(q, B, at)
         IN  /\ s \notin R => LineIn(R, pending, owners, s) = << >>
             /\ s \in R => \E o \in owners : s \in SessionsOf(o)
             /\ \A o \in owners : s \in SessionsOf(o) =>
                   s \in R /\ LineIn(R, pending, owners, s) = <<o>> \o pending[s]
  <1> DEFINE owners == OwnersIn(q, B, at)
  <1>1. /\ \A i \in DOMAIN q : q[i] \in owners
        /\ \A w \in B : at[w] \in owners
        /\ \A o \in owners : (\E i \in DOMAIN q : o = q[i]) \/ (\E w \in B : o = at[w])
    BY DEF OwnersIn
  <1>2. s \notin R => LineIn(R, pending, owners, s) = << >>
    BY DEF LineIn
  <1> HIDE DEF owners
  <1>3. ASSUME s \in R
        PROVE  \E o \in owners : s \in SessionsOf(o)
    <2>1. \/ \E i \in DOMAIN q : s \in SessionsOf(q[i])
          \/ \E w \in B : s \in SessionsOf(at[w])
      BY <1>3 DEF Exact
    <2> QED BY <1>1, <2>1
  <1>4. ASSUME NEW o \in owners, NEW p \in owners, s \in SessionsOf(o), s \in SessionsOf(p)
        PROVE  o = p
    <2>1. ASSUME NEW i \in DOMAIN q, NEW j \in DOMAIN q, o = q[i], p = q[j]
          PROVE  o = p
      <3>1. i # j => Apart(q[i], q[j])
        BY DEF Exact
      <3> QED BY <1>4, <2>1, <3>1 DEF Apart
    <2>2. ASSUME NEW w \in B, NEW j \in DOMAIN q, s \in SessionsOf(at[w]), s \in SessionsOf(q[j])
          PROVE  FALSE
      <3>1. Apart(at[w], q[j])
        BY DEF Exact
      <3> QED BY <2>2, <3>1 DEF Apart
    <2>3. ASSUME NEW v \in B, NEW w \in B, o = at[v], p = at[w]
          PROVE  o = p
      <3>1. v # w => Apart(at[v], at[w])
        BY DEF Exact
      <3> QED BY <1>4, <2>3, <3>1 DEF Apart
    <2> QED BY <1>1, <1>4, <2>1, <2>2, <2>3
  <1>5. ASSUME NEW o \in owners, s \in SessionsOf(o)
        PROVE  s \in R /\ LineIn(R, pending, owners, s) = <<o>> \o pending[s]
    <2>1. s \in R
      <3>1. CASE \E i \in DOMAIN q : o = q[i]
        BY <1>5, <3>1 DEF Exact
      <3>2. CASE \E w \in B : o = at[w]
        BY <1>5, <3>2 DEF Exact
      <3> QED BY <1>1, <3>1, <3>2
    <2>2. (CHOOSE p \in owners : s \in SessionsOf(p)) = o
      BY <1>4, <1>5
    <2> QED BY <2>1, <2>2 DEF LineIn
  <1> QED BY <1>2, <1>3, <1>5 DEF owners

(* The same of the scheduler, before a step ...                              *)
LEMMA OwnerNow ==
  ASSUME ReservationExact, NEW s
  PROVE  /\ s \notin Reserved => Line(s) = << >>
         /\ s \in Reserved => \E o \in Owners : s \in SessionsOf(o)
         /\ \A o \in Owners : s \in SessionsOf(o) =>
               s \in Reserved /\ Line(s) = <<o>> \o session_queues[s]
  <1>1. Exact(queue, Reserved, session_queues, Busy, work)
    BY ExactNow
  <1> QED BY <1>1, OneOwner, LineNow DEF Owners

(* ... and after it.                                                         *)
LEMMA OwnerNext ==
  ASSUME ReservationExact', NEW s
  PROVE  /\ s \notin Reserved' => Line(s)' = << >>
         /\ s \in Reserved' => \E o \in Owners' : s \in SessionsOf(o)
         /\ \A o \in Owners' : s \in SessionsOf(o) =>
               s \in Reserved' /\ Line(s)' = <<o>> \o session_queues'[s]
  <1>1. Exact(queue', Reserved', session_queues', Busy', work')
    BY ExactNow
  <1>2. Owners' = OwnersIn(queue', Busy', work')
    BY DEF Owners
  <1> QED BY <1>1, <1>2, OneOwner, LineNow

(* The owners.                                                               *)
LEMMA OwnersNow ==
  /\ \A o : o \in Owners <=> (\E i \in DOMAIN queue : o = queue[i]) \/ (\E w \in Busy : o = work[w])
  /\ \A o : o \in Owners' <=>
        (\E i \in DOMAIN queue' : o = queue'[i]) \/ (\E w \in Busy' : o = work'[w])
  BY DEF Owners, OwnersIn

(* An element in front of a list.                                            *)
LEMMA InFront ==
  ASSUME NEW S, NEW o \in S, NEW p \in Seq(S), NEW l, l = <<o>> \o p
  PROVE  /\ l \in Seq(S) /\ l # << >> /\ Head(l) = o /\ Tail(l) = p
         /\ \A i \in DOMAIN l : l[i] = o \/ \E j \in DOMAIN p : l[i] = p[j]
         /\ \A x \in S : Append(l, x) = <<o>> \o Append(p, x)
         /\ p = << >> => l = Append(<< >>, o)
  <1>0. PICK n : n = Len(p)
    OBVIOUS
  <1>1. /\ n \in Nat /\ DOMAIN p = 1 .. n
        /\ <<o>> \in Seq(S) /\ Len(<<o>>) = 1 /\ <<o>>[1] = o
    BY <1>0, LenProperties
  <1>2. /\ l \in Seq(S) /\ Len(l) = n + 1
    <2>1. l \in Seq(S) /\ Len(l) = Len(<<o>>) + Len(p)
      BY <1>1, ConcatProperties
    <2> QED BY <1>0, <1>1, <2>1
  <1>3. DOMAIN l = 1 .. n + 1
    BY <1>2, LenProperties
  <1>4. l[1] = o /\ \A i \in 1 .. n : l[i + 1] = p[i]
    <2>1. l[1] = o
      BY <1>1, ConcatProperties
    <2>2. ASSUME NEW i \in 1 .. n
          PROVE  l[i + 1] = p[i]
      <3>1. i + 1 \in 2 .. n + 1 /\ i + 1 > 1 /\ (i + 1) - 1 = i
        BY <1>1
      <3> QED BY <1>0, <1>1, <3>1, ConcatProperties
    <2> QED BY <2>1, <2>2
  <1>5. l # << >> /\ Head(l) = o
    BY <1>1, <1>2, <1>4
  <1>6. Tail(l) = p
    <2>1. /\ Tail(l) \in Seq(S) /\ Len(Tail(l)) = (n + 1) - 1
          /\ \A i \in 1 .. Len(Tail(l)) : Tail(l)[i] = l[i + 1]
      BY <1>2, <1>5, HeadTailProperties
    <2>2. Len(Tail(l)) = n /\ \A i \in 1 .. n : Tail(l)[i] = p[i]
      BY <1>1, <1>4, <2>1
    <2> QED BY <1>0, <2>1, <2>2, SeqEqual
  <1>7. \A i \in DOMAIN l : l[i] = o \/ \E j \in DOMAIN p : l[i] = p[j]
    <2> SUFFICES ASSUME NEW i \in DOMAIN l, i # 1
                 PROVE  \E j \in DOMAIN p : l[i] = p[j]
      BY <1>4
    <2>1. i - 1 \in 1 .. n /\ (i - 1) + 1 = i
      BY <1>1, <1>3
    <2> QED BY <1>1, <1>4, <2>1
  <1>8. ASSUME NEW x \in S
        PROVE  Append(l, x) = <<o>> \o Append(p, x)
    <2>0. PICK m : m = Append(p, x)
      OBVIOUS
    <2>1. /\ m \in Seq(S) /\ Len(m) = n + 1 /\ m[n + 1] = x
          /\ \A i \in 1 .. n : m[i] = p[i]
      BY <1>0, <1>1, <2>0
    <2>2. PICK a, z : a = Append(l, x) /\ z = <<o>> \o m
      OBVIOUS
    <2>3. /\ a \in Seq(S) /\ Len(a) = (n + 1) + 1 /\ a[(n + 1) + 1] = x
          /\ \A i \in 1 .. n + 1 : a[i] = l[i]
      BY <1>1, <1>2, <2>2
    <2>4. z \in Seq(S) /\ Len(z) = 1 + (n + 1) /\ z[1] = o
      BY <1>1, <2>1, <2>2, ConcatProperties
    <2>5. ASSUME NEW i \in 1 .. (n + 1) + 1
          PROVE  a[i] = z[i]
      <3>1. CASE i = 1
        BY <1>1, <1>4, <2>3, <2>4, <3>1
      <3>2. ASSUME NEW j \in 1 .. n, i = j + 1
            PROVE  a[i] = z[i]
        <4>1. i \in 1 .. n + 1 /\ i > 1 /\ i <= 1 + (n + 1) /\ i - 1 = j
          BY <1>1, <3>2
        <4>2. z[i] = m[j]
          BY <1>1, <2>1, <2>2, <4>1, ConcatProperties
        <4>3. a[i] = p[j]
          BY <1>4, <2>3, <3>2, <4>1
        <4> QED BY <2>1, <4>2, <4>3
      <3>3. CASE i = (n + 1) + 1
        <4>1. i > 1 /\ i <= 1 + (n + 1) /\ i - 1 = n + 1
          BY <1>1, <3>3
        <4>2. z[i] = m[n + 1]
          BY <1>1, <2>1, <2>2, <4>1, ConcatProperties
        <4> QED BY <2>1, <2>3, <3>3, <4>2
      <3>4. i = 1 \/ i = (n + 1) + 1 \/ (i - 1 \in 1 .. n /\ i = (i - 1) + 1)
        BY <1>1
      <3> QED BY <3>1, <3>2, <3>3, <3>4
    <2>6. (n + 1) + 1 = 1 + (n + 1)
      BY <1>1
    <2>7. a = z
      BY <2>3, <2>4, <2>5, <2>6, SeqEqual
    <2> QED BY <2>0, <2>2, <2>7
  <1>9. ASSUME p = << >>
        PROVE  l = Append(<< >>, o)
    <2>1. n = 0
      BY <1>0, <1>9
    <2>2. PICK a : a = Append(<< >>, o)
      OBVIOUS
    <2>3. a \in Seq(S) /\ Len(a) = 1 /\ a[1] = o
      BY <2>2
    <2>4. Len(l) = 1 /\ \A i \in 1 .. 1 : l[i] = a[i]
      BY <1>2, <1>4, <2>1, <2>3
    <2>5. l = a
      BY <1>2, <2>3, <2>4, SeqEqual
    <2> QED BY <2>2, <2>5
  <1> QED BY <1>2, <1>5, <1>6, <1>7, <1>8, <1>9

(* What is in a line has not run or is about to give its sessions back.      *)
LEMMA LinesHold ==
  ASSUME Control, NEW s \in Sessions, NEW i \in DOMAIN Line(s)
  PROVE  \/ Line(s)[i] \in Unrun
         \/ \E w \in Ending : worker[w] = "release" /\ Line(s)[i] = work[w]
  <1> USE DEF Control
  <1>1. s \in Reserved
    <2>1. DOMAIN << >> = {}
      OBVIOUS
    <2> QED BY <2>1, OwnerNow
  <1>2. PICK o \in Owners : s \in SessionsOf(o) /\ Line(s) = <<o>> \o session_queues[s]
    BY <1>1, OwnerNow
  <1>3. \/ o \in Unrun
        \/ \E w \in Ending : worker[w] = "release" /\ o = work[w]
    <2>1. CASE \E j \in DOMAIN queue : o = queue[j]
      BY <2>1, UnrunNow
    <2>2. CASE \E w \in Busy : o = work[w]
      <3>1. PICK w \in Busy : o = work[w]
        BY <2>2
      <3>2. w \in Starting \/ (w \in Ending /\ worker[w] = "release")
        BY DEF Busy, Starting, Ending
      <3> QED BY <3>1, <3>2, UnrunNow
    <2> QED BY <1>2, <2>1, <2>2, OwnersNow
  <1>4. o \in Work /\ session_queues[s] \in Seq(Work)
    <2>1. \A j \in DOMAIN queue : queue[j] \in Work
      BY ElementOfSeq, LenProperties DEF QueueTypes
    <2>2. \A w \in Busy : work[w] \in Work
      BY DEF WorkerTypes, Busy
    <2>3. o \in Work
      BY <1>2, <2>1, <2>2, OwnersNow
    <2> QED BY <1>1, <2>3 DEF QueueTypes
  <1>5. Line(s)[i] = o \/ \E j \in DOMAIN session_queues[s] : Line(s)[i] = session_queues[s][j]
    BY <1>2, <1>4, InFront
  <1> QED BY <1>1, <1>3, <1>5, UnrunNow

-----------------------------------------------------------------------------

(* The steps of SerialSessions, in terms of the lines and of the batches.    *)
Lines == [s \in Sessions |-> Line(s)]
Book == [b \in DOMAIN batches |-> [requests |-> batches[b].requests,
                                   promise |-> batches[b].promise]]
ServiceStep == Serial!Next \/ UNCHANGED Serial!vars

(* A step that changes no line, no answer and nothing that ran.              *)
LEMMA ServiceStutters ==
  ASSUME \A s \in Sessions : Line(s)' = Line(s), executed' = executed,
         DOMAIN batches' = DOMAIN batches,
         \A b \in DOMAIN batches : batches'[b].requests = batches[b].requests
                                   /\ batches'[b].promise = batches[b].promise
  PROVE  ServiceStep
  BY DEF ServiceStep, Serial!vars

(* Work is let in.                                                           *)
LEMMA ServiceAdmits ==
  ASSUME NEW o \in ServedWorks, o.batch \in DOMAIN batches,
         batches[o.batch].promise = "pending",
         executed' = executed, batches' = batches, o \notin executed,
         \A s \in Sessions : \A i \in DOMAIN Line(s) : Line(s)[i] # o,
         Len(o.requests) > 1 => \A s \in SessionsOf(o) : Line(s) = << >>,
         SessionsOf(o) \subseteq Sessions,
         \A s \in Sessions : Line(s)' = IF s \in SessionsOf(o) THEN Append(Line(s), o)
                                        ELSE Line(s)
  PROVE  ServiceStep
  <1>1. Serial!Served(o) = SessionsOf(o)
    BY DEF Serial!Served, SessionsOf, SessionsIn
  <1>2. ~Serial!InLine(o)
    BY DEF Serial!InLine
  <1>3. Lines' = [s \in Sessions |-> IF s \in SessionsOf(o) THEN Append(Lines[s], o) ELSE Lines[s]]
    BY DEF Lines
  <1>4. Book' = Book /\ o.batch \in DOMAIN Book /\ Book[o.batch].promise = "pending"
    BY DEF Book
  <1>5. Len(o.requests) > 1 => \A s \in SessionsOf(o) : Lines[s] = << >>
    BY DEF Lines
  <1>6. Serial!Admit(o)
    BY <1>1, <1>2, <1>3, <1>4, <1>5 DEF Serial!Admit, Lines, Book
  <1>7. CASE Lines' = Lines
    BY <1>4, <1>7 DEF ServiceStep, Serial!vars, Lines, Book
  <1>8. CASE Lines' # Lines
    BY <1>6, <1>8 DEF ServiceStep, Serial!Next, Lines
  <1> QED BY <1>7, <1>8

(* Work that heads its lines runs ...                                        *)
LEMMA ServiceExecutes ==
  ASSUME NEW o \in ServedWorks, o \notin executed, executed' = executed \cup {o},
         batches' = batches, SessionsOf(o) \subseteq Sessions,
         \A s \in SessionsOf(o) : Line(s) # << >> /\ Head(Line(s)) = o,
         \A s \in Sessions : Line(s)' = Line(s)
  PROVE  ServiceStep
  <1>1. Serial!Served(o) = SessionsOf(o)
    BY DEF Serial!Served, SessionsOf, SessionsIn
  <1>2. Lines' = Lines /\ \A s \in SessionsOf(o) : Lines[s] # << >> /\ Head(Lines[s]) = o
    BY DEF Lines
  <1>3. Book' = Book
    BY DEF Book
  <1>4. Serial!AtHead(o)
    BY <1>1, <1>2 DEF Serial!AtHead, Lines
  <1>5. Serial!Execute(o)
    BY <1>2, <1>3, <1>4 DEF Serial!Execute, Lines, Book
  <1> QED BY <1>5 DEF ServiceStep, Serial!Next

(* ... and leaves them.                                                      *)
LEMMA ServiceRetires ==
  ASSUME NEW o \in ServedWorks, o \in executed, executed' = executed,
         batches' = batches, SessionsOf(o) \subseteq Sessions,
         \A s \in SessionsOf(o) : Line(s) # << >> /\ Head(Line(s)) = o,
         \A s \in Sessions : Line(s)' = IF s \in SessionsOf(o) THEN Tail(Line(s)) ELSE Line(s)
  PROVE  ServiceStep
  <1>1. Serial!Served(o) = SessionsOf(o)
    BY DEF Serial!Served, SessionsOf, SessionsIn
  <1>2. \A s \in SessionsOf(o) : Lines[s] # << >> /\ Head(Lines[s]) = o
    BY DEF Lines
  <1>3. Book' = Book
    BY DEF Book
  <1>4. Serial!AtHead(o)
    BY <1>1, <1>2 DEF Serial!AtHead, Lines
  <1>5. Lines' = [s \in Sessions |-> IF s \in SessionsOf(o) THEN Tail(Lines[s]) ELSE Lines[s]]
    BY DEF Lines
  <1>6. Serial!Retire(o)
    BY <1>1, <1>3, <1>4, <1>5 DEF Serial!Retire, Lines, Book
  <1>7. CASE Lines' = Lines
    BY <1>3, <1>7 DEF ServiceStep, Serial!vars, Lines, Book
  <1>8. CASE Lines' # Lines
    BY <1>6, <1>8 DEF ServiceStep, Serial!Next, Lines
  <1> QED BY <1>7, <1>8

(* A promise changes.                                                        *)
LEMMA PromiseChanges ==
  ASSUME NEW b \in DOMAIN batches, NEW to, DOMAIN batches' = DOMAIN batches,
         \A e \in DOMAIN batches : batches'[e].requests = batches[e].requests,
         \A e \in DOMAIN batches \ {b} : batches'[e].promise = batches[e].promise,
         batches[b].promise = "pending", batches'[b].promise = to,
         \A s \in Sessions : Line(s)' = Line(s), executed' = executed
  PROVE  Serial!Promise(b, "pending", to)
  <1>1. Book[b].promise = "pending" /\ Lines' = Lines
    BY DEF Book, Lines
  <1>2. Book' = [Book EXCEPT ![b].promise = to]
    BY DEF Book
  <1> QED BY <1>1, <1>2 DEF Serial!Promise, Book, Lines

(* A known piece of its batch's kind is a work of SerialSessions.            *)
LEMMA PieceServed ==
  ASSUME SchedulerAssumption, BatchTypes, FromSubmissions,
         NEW o \in Work, Known(o), o.kind = batches[o.batch].kind
  PROVE  o \in ServedWorks
  <1>1. /\ o = [batch |-> o.batch, kind |-> o.kind, slot |-> o.slot, requests |-> o.requests]
    BY DEF Work
  <1>2. o.batch \in 1 .. MaxBatches
    <2>1. Len(batches) \in Nat /\ DOMAIN batches = 1 .. Len(batches)
      BY LenProperties DEF BatchTypes
    <2>2. o.batch \in 1 .. Len(batches) /\ Len(batches) <= MaxBatches
      BY <2>1 DEF Known, FromSubmissions
    <2>3. MaxBatches \in Nat
      BY DEF SchedulerAssumption
    <2> QED BY <2>1, <2>2, <2>3
  <1>3. PICK sub \in Submissions : /\ batches[o.batch].kind = sub.kind
                                   /\ batches[o.batch].requests = sub.requests
    BY DEF FromSubmissions, Known
  <1>4. CASE o.slot = 0
    <2>1. o.requests = sub.requests
      BY <1>3, <1>4 DEF Known
    <2>2. o = [batch |-> o.batch, kind |-> sub.kind, slot |-> 0, requests |-> sub.requests]
      BY <1>1, <1>3, <1>4, <2>1
    <2>3. o \in {[batch |-> b, kind |-> sb.kind, slot |-> 0, requests |-> sb.requests] :
                    b \in 1 .. MaxBatches, sb \in Submissions}
      BY <1>2, <1>3, <2>2
    <2> QED BY <2>3 DEF ServedWorks
  <1>5. CASE o.slot # 0
    <2>1. o.slot \in DOMAIN sub.requests /\ o.requests = <<sub.requests[o.slot]>>
      BY <1>3, <1>5 DEF Known
    <2>2. o = [batch |-> o.batch, kind |-> sub.kind, slot |-> o.slot,
               requests |-> <<sub.requests[o.slot]>>]
      BY <1>1, <1>3, <2>1
    <2>3. o \in {[batch |-> b, kind |-> sub.kind, slot |-> i, requests |-> <<sub.requests[i]>>] :
                    b \in 1 .. MaxBatches, i \in DOMAIN sub.requests}
      BY <1>2, <2>1, <2>2
    <2>4. o \in UNION {{[batch |-> b, kind |-> sb.kind, slot |-> i, requests |-> <<sb.requests[i]>>] :
                          b \in 1 .. MaxBatches, i \in DOMAIN sb.requests} : sb \in Submissions}
      BY <1>3, <2>3
    <2> QED BY <2>4 DEF ServedWorks
  <1> QED BY <1>4, <1>5

(* So are the pieces the workers carry, ...                                  *)
LEMMA CarriedServed ==
  ASSUME SchedulerAssumption, Control, AnswerInv, ServiceInv, NEW w \in Carrying
  PROVE  work[w] \in ServedWorks /\ Known(work[w]) /\ work[w] \in Work
  <1>1. work[w] \in Work
    BY DEF Control, WorkerTypes, Carrying
  <1>2. work[w] \in Unrun \cup Ended /\ Known(work[w])
    <2>1. <<"carried", w, 0>> \in Places /\ At(<<"carried", w, 0>>) = work[w]
      BY PlacesNow
    <2>2. \A o : o \in Unrun \cup Ended <=> \E p \in Places : At(p) = o
      BY PiecesByStage DEF Control
    <2> QED BY <2>1, <2>2 DEF AnswerInv, Pieces, PiecesKnown
  <1>3. work[w].kind = batches[work[w].batch].kind
    BY <1>2 DEF ServiceInv, KindsKept
  <1> QED BY <1>1, <1>2, <1>3, PieceServed DEF Control, ServiceInv

(* ... and the piece a caller lets in.                                       *)
LEMMA NextServed ==
  ASSUME SchedulerAssumption, Control, AnswerInv, ServiceInv, NEW c \in Callers,
         caller[c].step \in {"stage", "enqueue"}
  PROVE  NextPiece(c) \in ServedWorks /\ NextPiece(c) \in Work
  <1>1. /\ caller[c].batch \in DOMAIN batches /\ NextPiece(c).batch = caller[c].batch
        /\ NextPiece(c).kind = batches[caller[c].batch].kind /\ Known(NextPiece(c))
    BY AddedPiece
  <1>2. NextPiece(c) \in Work
    <2>1. /\ caller[c].slot \in DOMAIN batches[caller[c].batch].requests
      BY DEF Control, CallersSane, Submits, Submitting
    <2>2. /\ WholeBatch(caller[c].batch) \in Work
          /\ OneRequest(caller[c].batch, caller[c].slot) \in Work
      BY <1>1, <2>1, WorkOfBatch DEF Control
    <2> QED BY <2>2 DEF NextPiece
  <1> QED BY <1>1, <1>2, PieceServed DEF Control, ServiceInv

(* A piece that is let in is in no line, and has not run.                    *)
LEMMA NextIsNew ==
  ASSUME SchedulerAssumption, Control, AnswerInv, ServiceInv, NEW c \in Callers,
         caller[c].step \in {"stage", "enqueue"}
  PROVE  /\ NextPiece(c) \notin executed
         /\ \A s \in Sessions : \A i \in DOMAIN Line(s) : Line(s)[i] # NextPiece(c)
  <1> PICK o : o = NextPiece(c)
    OBVIOUS
  <1>1. Name(o) \notin Alive /\ Name(o) \notin Ran
    BY AddedPiece
  <1>2. o \notin executed
    BY <1>1 DEF Ran
  <1>3. Alive = {Name(piece) : piece \in Unrun \cup Ended}
    BY PiecesByStage DEF Control, AliveByStage
  <1>4. \A w \in Ending : work[w] \in Ended
    BY DEF Ended
  <1>5. o \notin Unrun \cup Ended
    BY <1>1, <1>3
  <1>6. ASSUME NEW s \in Sessions, NEW i \in DOMAIN Line(s)
        PROVE  Line(s)[i] # o
    BY <1>4, <1>5, <1>6, LinesHold
  <1> QED BY <1>2, <1>6

(* The sessions of busy workers change hands in Take and ReleaseSessions.    *)
LEMMA BusyStays ==
  ASSUME WorkerTypes, [Next]_vars, \A w \in Workers : ~Take(w) /\ ~ReleaseSessions(w)
  PROVE  Busy' = Busy /\ \A v \in Busy : work'[v] = work[v]
  <1> DEFINE States == {"lease", "measure", "extend", "lock", "release"}
             Goal == Busy' = Busy /\ \A v \in Busy : work'[v] = work[v]
  <1>1. ASSUME work' = work, \A w \in Workers : worker[w] \in States <=> worker'[w] \in States
        PROVE  Goal
    BY <1>1 DEF Busy
  <1>2. ASSUME work' = work, NEW w \in Workers, NEW state,
               worker' = [worker EXCEPT ![w] = state], worker[w] \in States <=> state \in States
        PROVE  Goal
    BY <1>1, <1>2 DEF WorkerTypes
  <1>3. ASSUME NEW w \in Workers, Complete(w)
        PROVE  Goal
    <2>1. /\ worker[w] = "complete" /\ work' = [work EXCEPT ![w] = NoWork]
          /\ worker' = [worker EXCEPT ![w] = "ready"]
      BY <1>3 DEF Complete
    <2> QED BY <2>1 DEF Busy, WorkerTypes
  <1>4. ASSUME NEW w \in Workers, Wait(w) \/ Leave(w) \/ MeasureTeam(w) \/ PrepareTeam(w)
                                  \/ Execute(w)
        PROVE  Goal
    <2>1. work' = work
      BY <1>4 DEF Wait, Leave, MeasureTeam, PrepareTeam, Execute
    <2>2. \E state : /\ worker' = [worker EXCEPT ![w] = state]
                     /\ worker[w] \in States <=> state \in States
      BY <1>4 DEF Wait, Leave, MeasureTeam, PrepareTeam, Execute
    <2> HIDE DEF Goal, States
    <2> QED BY <1>2, <2>1, <2>2
  <1>5. ASSUME NEW w \in Workers, AcquireCompute(w)
        PROVE  Goal
    <2>1. /\ work' = work /\ worker[w] = "lease"
          /\ \/ worker' = [worker EXCEPT ![w] = "measure"]
             \/ worker' = [worker EXCEPT ![w] = "lock"]
      BY <1>5 DEF AcquireCompute
    <2>2. "measure" \in States /\ "lock" \in States /\ "lease" \in States
      OBVIOUS
    <2> HIDE DEF Goal, States
    <2> QED BY <1>2, <2>1, <2>2
  <1>6. ASSUME NEW w \in Workers, NotifyAll(w)
        PROVE  Goal
    <2>1. /\ work' = work /\ worker[w] = "announce"
          /\ worker' = WakeAll([worker EXCEPT ![w] = "complete"])
      BY <1>6 DEF NotifyAll
    <2>2. \A v \in Workers : worker[v] \in States <=> worker'[v] \in States
      BY <2>1 DEF WakeAll, WorkerTypes
    <2> HIDE DEF Goal, States
    <2> QED BY <1>1, <2>1, <2>2
  <1>7. ASSUME NotifyStop
        PROVE  Goal
    <2>1. \A v \in Workers : worker[v] \in States <=> worker'[v] \in States
      BY <1>7 DEF NotifyStop, WakeAll, WorkerTypes
    <2> QED BY <1>1, <1>7, <2>1 DEF NotifyStop
  <1>8. ASSUME NEW c \in Callers, NotifyOne(c)
        PROVE  Goal
    <2>1. \A v \in Workers : worker[v] \in States <=> worker'[v] \in States
      BY <1>8 DEF NotifyOne, Asleep, WorkerTypes
    <2> QED BY <1>1, <1>8, <2>1 DEF NotifyOne
  <1>9. ASSUME NEW w \in Workers, LockSession(w)
        PROVE  Goal
    BY <1>1, <1>9 DEF LockSession
  <1>10. ASSUME work' = work, worker' = worker
         PROVE  Goal
    BY <1>1, <1>10
  <1> HIDE DEF Goal
  <1>11. \/ \E c \in Callers : NotifyOne(c)
         \/ \E w \in Workers : WorkerStep(w)
         \/ NotifyStop
         \/ work' = work /\ worker' = worker
    BY DEF Next, vars, queue_vars, budget_vars, session_vars, CallerStep, SubmitStep, DirectStep,
           Submit, StartDirect, Reset, CommitGeneration, LockDirect, RunDirect, Throw, TryEnqueueBatch,
           EnqueueSession, Stop, Join
  <1> QED BY <1>3, <1>4, <1>5, <1>6, <1>7, <1>8, <1>9, <1>10, <1>11 DEF WorkerStep, Goal

(* With the queues and the busy workers, the owners and the lines stay.      *)
LEMMA LinesStay ==
  ASSUME Owners' = Owners, session_queues' = session_queues, NEW s
  PROVE  Line(s)' = Line(s)
  <1>1. Reserved' = Reserved
    BY DEF Reserved
  <1> QED BY <1>1, LineNow

(* Taking work leaves its sessions to the worker.                            *)
LEMMA TakeKeepsOwners ==
  ASSUME QueueTypes, WorkerTypes, NEW w \in Workers, Take(w)
  PROVE  Owners' = Owners /\ session_queues' = session_queues
  <1>0. PICK n : n = Len(queue)
    OBVIOUS
  <1>1. /\ worker[w] = "ready" /\ queue # << >>
        /\ work' = [work EXCEPT ![w] = Head(queue)] /\ queue' = Tail(queue)
        /\ worker' = [worker EXCEPT ![w] = "lease"] /\ session_queues' = session_queues
    BY DEF Take
  <1>2. PICK h : h = Head(queue)
    OBVIOUS
  <1>3. \A o : (\E i \in DOMAIN queue : o = queue[i])
                 <=> o = h \/ \E i \in DOMAIN queue' : o = queue'[i]
    <2> SUFFICES ASSUME NEW o
                 PROVE  (\E i \in DOMAIN queue : o = queue[i])
                           <=> o = h \/ \E i \in DOMAIN queue' : o = queue'[i]
      OBVIOUS
    <2>1. queue \in Seq(Work) /\ queue # << >>
      BY <1>1 DEF QueueTypes
    <2>2. (\E i \in DOMAIN queue : o = queue[i])
             <=> (o = Head(queue) \/ \E i \in DOMAIN Tail(queue) : o = Tail(queue)[i])
      BY <2>1, HeadOrTail
    <2> QED BY <1>1, <1>2, <2>2
  <1>4. Busy' = Busy \cup {w} /\ w \notin Busy /\ Busy \subseteq Workers
    BY <1>1 DEF Busy, WorkerTypes
  <1>5. work'[w] = h /\ \A v \in Workers \ {w} : work'[v] = work[v]
    BY <1>1, <1>2 DEF WorkerTypes
  <1>6. \A o : (\E v \in Busy' : o = work'[v]) <=> o = h \/ \E v \in Busy : o = work[v]
    BY <1>4, <1>5
  <1>7. ASSUME NEW o
        PROVE  o \in Owners' <=> o \in Owners
    <2>1. o \in Owners <=> (\E i \in DOMAIN queue : o = queue[i]) \/ (\E v \in Busy : o = work[v])
      BY OwnersNow
    <2>2. o \in Owners' <=>
            (\E i \in DOMAIN queue' : o = queue'[i]) \/ (\E v \in Busy' : o = work'[v])
      BY OwnersNow
    <2> QED BY <1>3, <1>6, <2>1, <2>2
  <1> QED BY <1>1, <1>7

(* Lines change only when work is let in or released.                        *)
LEMMA LinesCalm ==
  ASSUME Control, [Next]_vars, \A w \in Workers : ~ReleaseSessions(w),
         \A c \in Callers : ~TryEnqueueBatch(c) /\ ~EnqueueSession(c), NEW s
  PROVE  Line(s)' = Line(s)
  <1> USE DEF Control
  <1>1. CASE \E w \in Workers : Take(w)
    BY <1>1, TakeKeepsOwners, LinesStay
  <1>2. ASSUME \A w \in Workers : ~Take(w)
        PROVE  Line(s)' = Line(s)
    <2>1. queue' = queue /\ session_queues' = session_queues
      BY <1>2, QueueSteps DEF queue_vars
    <2>2. Busy' = Busy /\ \A v \in Busy : work'[v] = work[v]
      BY <1>2, BusyStays
    <2>3. Owners' = Owners
      BY <2>1, <2>2 DEF Owners, OwnersIn
    <2> QED BY <2>1, <2>3, LinesStay
  <1> QED BY <1>1, <1>2

(* Work of free sessions starts their lines, ...                             *)
LEMMA FreeAdmitted ==
  ASSUME Control, ReservationExact', NEW S, S \subseteq Sessions, Free(S),
         NEW o \in Work, SessionsOf(o) = S,
         queue' = Append(queue, o), session_queues' = Reserve(S),
         worker' = worker, work' = work
  PROVE  /\ \A s \in Sessions : Line(s)' = IF s \in S THEN Append(Line(s), o) ELSE Line(s)
         /\ \A s \in S : Line(s) = << >>
  <1> USE DEF Control
  <1>1. /\ Reserved' = Reserved \cup S
        /\ \A s \in Reserved : session_queues'[s] = session_queues[s]
        /\ \A s \in S : s \notin Reserved /\ session_queues'[s] = << >>
    BY DEF Reserve, Reserved, Free
  <1>2. Busy' = Busy
    BY DEF Busy
  <1>3. ASSUME NEW p
        PROVE  p \in Owners' <=> (p = o \/ p \in Owners)
    <2>1. (\E i \in DOMAIN queue' : p = queue'[i]) <=> (p = o \/ \E i \in DOMAIN queue : p = queue[i])
      <3>1. queue \in Seq(Work)
        BY DEF QueueTypes
      <3> QED BY <3>1, InAppended
    <2>2. p \in Owners <=> (\E i \in DOMAIN queue : p = queue[i]) \/ (\E w \in Busy : p = work[w])
      BY OwnersNow
    <2>3. p \in Owners' <=>
            (\E i \in DOMAIN queue' : p = queue'[i]) \/ (\E w \in Busy' : p = work'[w])
      BY OwnersNow
    <2> QED BY <1>2, <2>1, <2>2, <2>3
  <1>4. ASSUME NEW s \in S
        PROVE  Line(s) = << >> /\ Line(s)' = Append(Line(s), o)
    <2>1. Line(s) = << >>
      BY <1>1, OwnerNow
    <2>2. o \in Owners' /\ s \in SessionsOf(o)
      BY <1>3
    <2>3. Line(s)' = <<o>> \o session_queues'[s]
      BY <2>2, OwnerNext
    <2>4. PICK l : l = Line(s)'
      OBVIOUS
    <2>5. PICK e : e = << >>
      OBVIOUS
    <2>6. e \in Seq(Work) /\ l = <<o>> \o e
      <3>1. e \in Seq(Work)
        BY <2>5
      <3>2. session_queues'[s] = e
        BY <1>1, <2>5
      <3> QED BY <2>3, <2>4, <3>1, <3>2
    <2>7. l = Append(<< >>, o)
      BY <2>5, <2>6, InFront
    <2> QED BY <2>1, <2>4, <2>7
  <1>5. ASSUME NEW s \in Sessions, s \notin S
        PROVE  Line(s)' = Line(s)
    <2>1. CASE s \notin Reserved
      BY <1>1, <1>5, <2>1, OwnerNow, OwnerNext
    <2>2. CASE s \in Reserved
      <3>1. PICK p \in Owners : s \in SessionsOf(p) /\ Line(s) = <<p>> \o session_queues[s]
        BY <2>2, OwnerNow
      <3>2. p \in Owners'
        BY <1>3, <3>1
      <3>3. Line(s)' = <<p>> \o session_queues'[s]
        BY <3>1, <3>2, OwnerNext
      <3> QED BY <1>1, <2>2, <3>1, <3>3
    <2> QED BY <2>1, <2>2
  <1> QED BY <1>4, <1>5

(* ... and work of a reserved session goes to the end of its line.           *)
LEMMA PendingAdmitted ==
  ASSUME Control, ReservationExact', NEW t \in Reserved, NEW o \in Work,
         queue' = queue, session_queues' = [session_queues EXCEPT ![t] = Append(@, o)],
         worker' = worker, work' = work
  PROVE  \A s \in Sessions : Line(s)' = IF s \in {t} THEN Append(Line(s), o) ELSE Line(s)
  <1> USE DEF Control
  <1>1. PICK l \in Seq(Work) : l = session_queues[t]
    BY DEF QueueTypes
  <1>2. /\ Reserved' = Reserved /\ session_queues'[t] = Append(l, o)
        /\ \A s \in Reserved \ {t} : session_queues'[s] = session_queues[s]
    BY <1>1 DEF QueueTypes, Reserved
  <1>3. Owners' = Owners
    BY DEF Owners, OwnersIn, Busy
  <1>4. Line(t)' = Append(Line(t), o)
    <2>1. PICK p \in Owners : t \in SessionsOf(p) /\ Line(t) = <<p>> \o session_queues[t]
      BY OwnerNow
    <2>2. Line(t)' = <<p>> \o session_queues'[t]
      BY <1>3, <2>1, OwnerNext
    <2>3. p \in Work
      <3>1. \A j \in DOMAIN queue : queue[j] \in Work
        BY ElementOfSeq, LenProperties DEF QueueTypes
      <3>2. \A w \in Busy : work[w] \in Work
        BY DEF WorkerTypes, Busy
      <3> QED BY <2>1, <3>1, <3>2, OwnersNow
    <2>4. PICK k : k = Line(t)
      OBVIOUS
    <2>5. k = <<p>> \o l
      BY <1>1, <2>1, <2>4
    <2>6. Append(k, o) = <<p>> \o Append(l, o)
      BY <1>1, <2>3, <2>5, InFront
    <2> QED BY <1>2, <2>2, <2>4, <2>6
  <1>5. ASSUME NEW s \in Sessions, s # t
        PROVE  Line(s)' = Line(s)
    <2>1. CASE s \notin Reserved
      BY <1>2, <2>1, OwnerNow, OwnerNext
    <2>2. CASE s \in Reserved
      BY <1>2, <1>3, <1>5, <2>2, LineNow DEF LineIn
    <2> QED BY <2>1, <2>2
  <1> QED BY <1>4, <1>5

(* The sessions of the piece a caller lets in.                               *)
LEMMA NextSessions ==
  ASSUME Control, NEW c \in Callers, caller[c].step \in {"stage", "enqueue"}
  PROVE  /\ caller[c].requests = batches[caller[c].batch].requests
         /\ SessionsIn(caller[c].requests) \subseteq Sessions
         /\ caller[c].slot \in DOMAIN caller[c].requests
         /\ caller[c].step = "stage" =>
               /\ NextPiece(c) = WholeBatch(caller[c].batch)
               /\ SessionsOf(NextPiece(c)) = SessionsIn(caller[c].requests)
         /\ caller[c].step = "enqueue" =>
               /\ SessionsOf(NextPiece(c)) = {caller[c].requests[caller[c].slot].session}
               /\ Len(NextPiece(c).requests) = 1
  <1> DEFINE b == caller[c].batch
             requests == caller[c].requests
             slot == caller[c].slot
             s == requests[slot].session
  <1>1. Submits(c)
    BY DEF Control, CallersSane, Submitting
  <1>2. /\ b \in DOMAIN batches /\ slot \in DOMAIN requests
        /\ requests = batches[b].requests /\ SessionsIn(requests) \subseteq Sessions
    BY <1>1 DEF Submits
  <1>3. SessionsOf(WholeBatch(b)) = SessionsIn(requests) /\ WholeBatch(b).requests = requests
    BY <1>2 DEF SessionsOf, WholeBatch
  <1>4. SessionsOf(OneRequest(b, slot)) = {s} /\ Len(OneRequest(b, slot).requests) = 1
    BY <1>2 DEF SessionsOf, OneRequest, SessionsIn
  <1>5. caller[c].step = "stage" => NextPiece(c) = WholeBatch(b)
    BY DEF NextPiece
  <1>6. ASSUME caller[c].step = "enqueue"
        PROVE  SessionsOf(NextPiece(c)) = {s} /\ Len(NextPiece(c).requests) = 1
    <2>1. CASE batches[b].kind = "prefill"
      <3>1. Len(requests) = 1
        BY <1>1, <1>6, <2>1 DEF Submits
      <3>2. batches[b] \in BatchRecord
        BY <1>2, ElementOfSeq, LenProperties DEF Control, BatchTypes
      <3>3. DOMAIN requests = 1 .. 1
        BY <1>2, <3>1, <3>2, LenProperties DEF BatchRecord
      <3>4. DOMAIN requests = {slot}
        BY <1>2, <3>3
      <3>5. SessionsIn(requests) = {s}
        BY <3>4 DEF SessionsIn
      <3>6. NextPiece(c) = WholeBatch(b)
        BY <2>1 DEF NextPiece
      <3> QED BY <1>3, <3>1, <3>5, <3>6
    <2>2. CASE batches[b].kind # "prefill"
      <3>1. NextPiece(c) = OneRequest(b, slot)
        BY <1>6, <2>2 DEF NextPiece
      <3> QED BY <1>4, <3>1
    <2> QED BY <2>1, <2>2
  <1> QED BY <1>2, <1>3, <1>5, <1>6

(* Work that is let in is admitted to its lines.                             *)
LEMMA EnqueueServes ==
  ASSUME SchedulerAssumption, Control, ReservationExact', AnswerInv, ServiceInv,
         NEW c \in Callers,
         EnqueueSession(c) \/ (TryEnqueueBatch(c) /\ Free(SessionsIn(caller[c].requests)))
  PROVE  ServiceStep
  <1> PICK o : o = NextPiece(c)
    OBVIOUS
  <1>1. /\ caller[c].step \in {"stage", "enqueue"} /\ executed' = executed
        /\ batches' = batches /\ worker' = worker /\ work' = work
    BY DEF EnqueueSession, TryEnqueueBatch
  <1>2. o \in ServedWorks /\ o \in Work
    BY <1>1, NextServed
  <1>3. o.batch \in DOMAIN batches /\ batches[o.batch].promise = "pending"
    BY <1>1, AddedPiece
  <1>4. /\ o \notin executed
        /\ \A s \in Sessions : \A i \in DOMAIN Line(s) : Line(s)[i] # o
    BY <1>1, NextIsNew
  <1>5. ASSUME NEW S, S \subseteq Sessions, Free(S), SessionsOf(o) = S,
               queue' = Append(queue, o), session_queues' = Reserve(S)
        PROVE  ServiceStep
    <2>1. /\ \A s \in Sessions : Line(s)' = IF s \in SessionsOf(o) THEN Append(Line(s), o)
                                            ELSE Line(s)
          /\ \A s \in SessionsOf(o) : Line(s) = << >>
      BY <1>1, <1>2, <1>5, FreeAdmitted
    <2>2. SessionsOf(o) \subseteq Sessions
      BY <1>5
    <2> QED BY <1>1, <1>2, <1>3, <1>4, <2>1, <2>2, ServiceAdmits
  <1>6. CASE EnqueueSession(c)
    <2>1. PICK s \in Sessions : s = caller[c].requests[caller[c].slot].session
      BY <1>1, NextSessions DEF SessionsIn
    <2>2. /\ caller[c].step = "enqueue" /\ batches' = batches
          /\ o = IF batches[caller[c].batch].kind = "prefill" THEN WholeBatch(caller[c].batch)
                 ELSE OneRequest(caller[c].batch, caller[c].slot)
      BY <1>6 DEF EnqueueSession, NextPiece
    <2>3. SessionsOf(o) = {s} /\ Len(o.requests) = 1
      BY <2>1, <2>2, NextSessions
    <2>4. CASE s \in Reserved
      <3>1. queue' = queue /\ session_queues' = [session_queues EXCEPT ![s] = Append(@, o)]
        BY <1>6, <2>1, <2>2, <2>4 DEF EnqueueSession, Behind
      <3>2. \A t \in Sessions : Line(t)' = IF t \in {s} THEN Append(Line(t), o) ELSE Line(t)
        BY <1>1, <1>2, <2>3, <2>4, <3>1, PendingAdmitted
      <3>3. /\ \A t \in Sessions : Line(t)' = IF t \in SessionsOf(o) THEN Append(Line(t), o)
                                              ELSE Line(t)
            /\ SessionsOf(o) \subseteq Sessions /\ ~(Len(o.requests) > 1)
        BY <2>1, <2>3, <3>2
      <3> QED BY <1>1, <1>2, <1>3, <1>4, <3>3, ServiceAdmits
    <2>5. CASE s \notin Reserved
      <3>1. queue' = Append(queue, o) /\ session_queues' = Reserve({s})
        BY <1>6, <2>1, <2>2, <2>5 DEF EnqueueSession
      <3>2. Free({s}) /\ {s} \subseteq Sessions
        BY <2>1, <2>5 DEF Free
      <3> QED BY <1>5, <2>3, <3>1, <3>2
    <2> QED BY <2>4, <2>5
  <1>7. CASE TryEnqueueBatch(c) /\ Free(SessionsIn(caller[c].requests))
    <2>1. /\ caller[c].step = "stage" /\ session_queues' = Reserve(SessionsIn(caller[c].requests))
          /\ queue' = Append(queue, WholeBatch(caller[c].batch))
      BY <1>7 DEF TryEnqueueBatch
    <2>2. /\ o = WholeBatch(caller[c].batch) /\ SessionsOf(o) = SessionsIn(caller[c].requests)
          /\ SessionsIn(caller[c].requests) \subseteq Sessions
      BY <2>1, NextSessions
    <2>3. queue' = Append(queue, o)
      BY <2>1, <2>2
    <2> QED BY <1>5, <1>7, <2>1, <2>2, <2>3
  <1> QED BY <1>6, <1>7

(* A busy worker's piece heads the lines of its sessions.                    *)
LEMMA BusyHeads ==
  ASSUME Control, NEW w \in Busy
  PROVE  /\ SessionsOf(work[w]) \subseteq Sessions
         /\ \A s \in SessionsOf(work[w]) :
               /\ s \in Reserved /\ session_queues[s] \in Seq(Work)
               /\ Line(s) # << >> /\ Head(Line(s)) = work[w] /\ Tail(Line(s)) = session_queues[s]
  <1> PICK o : o = work[w]
    OBVIOUS
  <1>1. SessionsOf(o) \subseteq Sessions
    BY BusySessions DEF Control
  <1>2. o \in Work /\ o \in Owners
    <2>1. o \in Owners
      BY OwnersNow
    <2> QED BY <2>1 DEF Control, WorkerTypes, Busy
  <1>3. ASSUME NEW s \in SessionsOf(o)
        PROVE  /\ s \in Reserved /\ session_queues[s] \in Seq(Work)
               /\ Line(s) # << >> /\ Head(Line(s)) = o /\ Tail(Line(s)) = session_queues[s]
    <2>1. s \in Reserved /\ Line(s) = <<o>> \o session_queues[s]
      BY <1>2, OwnerNow DEF Control
    <2>2. PICK p \in Seq(Work) : p = session_queues[s]
      BY <2>1 DEF Control, QueueTypes
    <2>3. PICK l : l = Line(s)
      OBVIOUS
    <2>4. l = <<o>> \o p
      BY <2>1, <2>2, <2>3
    <2>5. l # << >> /\ Head(l) = o /\ Tail(l) = p
      BY <1>2, <2>2, <2>4, InFront
    <2> QED BY <2>1, <2>2, <2>3, <2>5
  <1> QED BY <1>1, <1>3

(* A pass runs the work at the head of its lines, for the first time.        *)
LEMMA ExecuteServes ==
  ASSUME SchedulerAssumption, Control, AnswerInv, ServiceInv, NEW w \in Workers, Execute(w)
  PROVE  ServiceStep
  <1>1. /\ worker[w] = "lock" /\ queue' = queue /\ session_queues' = session_queues
        /\ batches' = batches /\ work' = work /\ worker' = [worker EXCEPT ![w] = "release"]
    BY DEF Execute, queue_vars
  <1>2. w \in Busy /\ w \in Carrying /\ Busy' = Busy
    BY <1>1 DEF Busy, Carrying, Control, WorkerTypes
  <1>3. Runs(w)
    BY ExecuteRuns DEF Control, AnswerInv
  <1> PICK o : o = work[w]
    OBVIOUS
  <1>4. o \in ServedWorks
    BY <1>2, CarriedServed
  <1>5. o \notin executed /\ executed' = executed \cup {o}
    <2>1. o \in Unrun /\ executed' = executed \cup {o}
      BY <1>3 DEF Runs
    <2>2. Name(o) \notin Ran
      BY <2>1 DEF ServiceInv, RanOnce
    <2> QED BY <2>1, <2>2 DEF Ran
  <1>6. Owners' = Owners
    BY <1>1, <1>2 DEF Owners, OwnersIn
  <1>7. \A s \in Sessions : Line(s)' = Line(s)
    BY <1>1, <1>6, LinesStay
  <1>8. /\ SessionsOf(o) \subseteq Sessions
        /\ \A s \in SessionsOf(o) : Line(s) # << >> /\ Head(Line(s)) = o
    BY <1>2, BusyHeads
  <1> QED BY <1>1, <1>4, <1>5, <1>7, <1>8, ServiceExecutes

(* A release takes the work that ran from the head of its lines.             *)
LEMMA ReleaseServes ==
  ASSUME SchedulerAssumption, Control, ReservationExact', AnswerInv, ServiceInv,
         NEW w \in Workers, ReleaseSessions(w)
  PROVE  ServiceStep
  <1> USE DEF Control
  <1> PICK o, S, W : o = work[w] /\ S = SessionsOf(o) /\ W = Waiting(S)
    OBVIOUS
  <1>1. /\ worker[w] = "release" /\ executed' = executed /\ batches' = batches
        /\ work' = work /\ worker' = [worker EXCEPT ![w] = "announce"]
    BY DEF ReleaseSessions
  <1>2. /\ w \in Busy /\ w \in Carrying /\ w \in Ending
        /\ Busy' = Busy \ {w} /\ Busy \subseteq Workers
    BY <1>1 DEF Busy, Carrying, Ending, WorkerTypes
  <1>3. o \in ServedWorks
    BY <1>2, CarriedServed
  <1>4. o \in executed
    <2>1. o \in Ended
      BY <1>2 DEF Ended
    <2> QED BY <2>1 DEF ServiceInv, RanOnce
  <1>5. /\ S \subseteq Sessions
        /\ \A s \in S : /\ s \in Reserved /\ session_queues[s] \in Seq(Work)
                        /\ Line(s) # << >> /\ Head(Line(s)) = o /\ Tail(Line(s)) = session_queues[s]
    BY <1>2, BusyHeads
  <1>6. /\ Reserved' = Reserved \ (S \ W)
        /\ \A s \in W : session_queues'[s] = Tail(session_queues[s])
        /\ \A s \in Reserved \ S : session_queues'[s] = session_queues[s]
        /\ W = {s \in S \cap Reserved : session_queues[s] # << >>}
    BY DEF ReleaseSessions, Reserved, Waiting
  <1>7. /\ \A i \in DOMAIN queue : i \in DOMAIN queue' /\ queue'[i] = queue[i]
        /\ \A s \in W : \E i \in DOMAIN queue' : queue'[i] = Head(session_queues[s])
    BY ReleaseOrder
  <1>8. ASSUME NEW s \in S
        PROVE  Line(s)' = session_queues[s]
    <2>1. CASE s \in W
      <3>1. PICK list \in Seq(Work) : list = session_queues[s]
        BY <1>5
      <3>2. list # << >> /\ s \in Reserved
        BY <1>5, <1>6, <2>1, <3>1
      <3>3. /\ <<Head(list)>> \o Tail(list) = list
            /\ Head(list) = list[1] /\ 1 \in DOMAIN list
        BY <3>2, HeadAndTail
      <3>4. s \in SessionsOf(list[1])
        <4>1. \A i \in DOMAIN session_queues[s] : SessionsOf(session_queues[s][i]) = {s}
          BY <3>2 DEF ReservationExact
        <4>2. \A i \in DOMAIN list : SessionsOf(list[i]) = {s}
          BY <3>1, <4>1
        <4> QED BY <3>3, <4>2
      <3>5. list[1] \in Owners'
        BY <1>7, <2>1, <3>1, <3>3, OwnersNow
      <3>6. Line(s)' = <<list[1]>> \o session_queues'[s]
        BY <3>4, <3>5, OwnerNext
      <3>7. session_queues'[s] = Tail(list)
        BY <1>6, <2>1, <3>1
      <3> QED BY <3>1, <3>3, <3>6, <3>7
    <2>2. CASE s \notin W
      <3>1. session_queues[s] = << >> /\ s \notin Reserved'
        BY <1>5, <1>6, <2>2
      <3> QED BY <3>1, OwnerNext
    <2> QED BY <2>1, <2>2
  <1>9. ASSUME NEW s \in Sessions, s \notin S
        PROVE  Line(s)' = Line(s)
    <2>1. CASE s \notin Reserved
      BY <1>6, <2>1, OwnerNow, OwnerNext
    <2>2. CASE s \in Reserved
      <3>1. PICK p \in Owners : s \in SessionsOf(p) /\ Line(s) = <<p>> \o session_queues[s]
        BY <2>2, OwnerNow
      <3>2. p \in Owners'
        <4>1. CASE \E i \in DOMAIN queue : p = queue[i]
          BY <1>7, <4>1, OwnersNow
        <4>2. CASE \E v \in Busy : p = work[v]
          <5>1. PICK v \in Busy : p = work[v]
            BY <4>2
          <5>2. v # w
            BY <1>9, <3>1, <5>1
          <5>3. v \in Busy' /\ p = work'[v]
            BY <1>1, <1>2, <5>1, <5>2
          <5> QED BY <5>3, OwnersNow
        <4> QED BY <3>1, <4>1, <4>2, OwnersNow
      <3>3. Line(s)' = <<p>> \o session_queues'[s]
        BY <3>1, <3>2, OwnerNext
      <3>4. session_queues'[s] = session_queues[s]
        BY <1>6, <1>9, <2>2
      <3> QED BY <3>1, <3>3, <3>4
    <2> QED BY <2>1, <2>2
  <1>10. \A s \in Sessions : Line(s)' = IF s \in SessionsOf(o) THEN Tail(Line(s)) ELSE Line(s)
    BY <1>5, <1>8, <1>9
  <1>11. /\ SessionsOf(o) \subseteq Sessions
         /\ \A s \in SessionsOf(o) : Line(s) # << >> /\ Head(Line(s)) = o
    BY <1>5
  <1> QED BY <1>1, <1>3, <1>4, <1>10, <1>11, ServiceRetires

(* The batch of what is in a line is not answered: its pieces are alive.     *)
LEMMA LineAlive ==
  ASSUME Control, AnswerInv, NEW s \in Sessions, NEW i \in DOMAIN Line(s)
  PROVE  /\ Name(Line(s)[i]) \in Alive /\ Known(Line(s)[i])
         /\ \A w \in Workers : worker[w] = "complete" => Name(Line(s)[i]) # Name(work[w])
  <1> USE DEF Control
  <1> PICK o : o = Line(s)[i]
    OBVIOUS
  <1>1. \/ o \in Unrun
        \/ \E v \in Ending : worker[v] = "release" /\ o = work[v]
    BY LinesHold
  <1>2. o \in Unrun \cup Ended
    BY <1>1 DEF Ended
  <1>3. Name(o) \in Alive /\ Known(o)
    <2>1. \E p \in Places : At(p) = o
      BY <1>2, PiecesByStage
    <2> QED BY <2>1 DEF Alive, AnswerInv, Pieces, PiecesKnown
  <1>4. ASSUME NEW w \in Workers, worker[w] = "complete"
        PROVE  Name(o) # Name(work[w])
    <2>1. w \in Carrying /\ w \in Ending
      BY <1>4 DEF Carrying, Ending
    <2>2. CASE o \in Unrun
      BY <2>1, <2>2, CarriedApart DEF AnswerInv
    <2>3. CASE \E v \in Ending : worker[v] = "release" /\ o = work[v]
      <3>1. PICK v \in Ending : worker[v] = "release" /\ o = work[v]
        BY <2>3
      <3>2. v # w /\ v \in Carrying
        BY <1>4, <3>1 DEF Carrying, Ending
      <3> QED BY <2>1, <3>1, <3>2, CarriedApart DEF AnswerInv
    <2> QED BY <1>1, <2>2, <2>3
  <1> QED BY <1>3, <1>4

(* No line holds a piece of the batch.                                       *)
NotInLine(b) == \A s \in Sessions : \A i \in DOMAIN Line(s) : Line(s)[i].batch # b

(* A batch is turned away before any of its work was let in.                 *)
LEMMA RefusalServes ==
  ASSUME SchedulerAssumption, Control, AnswerInv, ServiceInv,
         NEW c \in Callers, TryEnqueueBatch(c), ~Free(SessionsIn(caller[c].requests))
  PROVE  ServiceStep
  <1> USE DEF Control
  <1> PICK b : b = caller[c].batch
    OBVIOUS
  <1>1. /\ caller[c].step = "stage" /\ executed' = executed /\ queue' = queue
        /\ session_queues' = session_queues /\ worker' = worker /\ work' = work
        /\ IF batches[b].kind = "prefill"
           THEN batches' = [batches EXCEPT ![b].promise = "ready",
                       ![b].results = AllFail(caller[c].requests, "InvalidArgument")]
           ELSE batches' = batches
    BY DEF TryEnqueueBatch, queue_vars
  <1>2. \A s \in Sessions : Line(s)' = Line(s)
    <2>1. Owners' = Owners
      BY <1>1 DEF Owners, OwnersIn, Busy
    <2> QED BY <1>1, <2>1, LinesStay
  <1>3. /\ b \in DOMAIN batches /\ batches[b].promise = "pending" /\ <<b, 0>> \notin Alive
    BY <1>1, AddedPiece
  <1>4. batches \in Seq(BatchRecord) /\ batches[b] \in BatchRecord
    BY <1>3, ElementOfSeq, LenProperties DEF BatchTypes
  <1>5. CASE batches[b].kind # "prefill"
    BY <1>1, <1>2, <1>5, ServiceStutters
  <1>6. CASE batches[b].kind = "prefill"
    <2>1. /\ DOMAIN batches' = DOMAIN batches
          /\ \A e \in DOMAIN batches \ {b} : batches'[e] = batches[e]
          /\ batches'[b].requests = batches[b].requests /\ batches'[b].promise = "ready"
      <3>1. batches' = [batches EXCEPT ![b].promise = "ready",
                            ![b].results = AllFail(caller[c].requests, "InvalidArgument")]
        BY <1>1, <1>6
      <3>2. DOMAIN batches' = DOMAIN batches
        BY <3>1
      <3>3. \A e \in DOMAIN batches \ {b} : batches'[e] = batches[e]
        BY <3>1
      <3>4. PICK B : B = batches[b]
        OBVIOUS
      <3>5. batches'[b] = [B EXCEPT !.promise = "ready",
                               !.results = AllFail(caller[c].requests, "InvalidArgument")]
        BY <1>3, <3>1, <3>4
      <3>6. batches'[b].requests = B.requests /\ batches'[b].promise = "ready"
        BY <1>4, <3>4, <3>5 DEF BatchRecord
      <3> QED BY <3>2, <3>3, <3>4, <3>6
    <2>2. Serial!Promise(b, "pending", "ready")
      BY <1>1, <1>2, <1>3, <2>1, PromiseChanges
    <2>3. /\ caller[c].requests = batches[b].requests /\ caller[c].slot = 1
          /\ \A j \in DOMAIN batches[b].requests : j >= 1 => <<b, j>> \notin Alive
      <3>1. caller[c].slot = 1
        BY <1>1 DEF AnswerInv, CallersApart, CallerApart, Submitting
      <3> QED BY <1>1, <3>1, NextOwed DEF AnswerInv
    <2>4. /\ \A j \in DOMAIN batches[b].requests : j >= 1
          /\ \A j \in DOMAIN batches[b].requests : CallerOwes(c, b, j)
      <3>1. \A j \in DOMAIN batches[b].requests : j >= 1
        BY <1>4, LenProperties DEF BatchRecord
      <3> QED BY <1>1, <2>3, <3>1 DEF CallerOwes, Submitting
    <2>5. NotInLine(b)
      <3> SUFFICES ASSUME NEW s \in Sessions, NEW i \in DOMAIN Line(s), Line(s)[i].batch = b
                   PROVE  FALSE
        BY DEF NotInLine
      <3> PICK o : o = Line(s)[i]
        OBVIOUS
      <3>1. <<b, o.slot>> \in Alive /\ (o.slot = 0 \/ o.slot \in DOMAIN batches[b].requests)
        BY LineAlive DEF Name, Known
      <3> QED BY <1>3, <2>3, <2>4, <3>1
    <2>6. ASSUME NEW piece \in executed, piece.batch = b
          PROVE  FALSE
      <3>1. piece.slot = 0 \/ piece.slot \in DOMAIN batches[b].requests
        BY <2>6 DEF ServiceInv, RanOnce, Known
      <3>2. \A j \in DOMAIN batches[b].requests : piece.slot # 0 /\ piece.slot # j
        BY <2>3, <2>4, <2>6 DEF ServiceInv, RanOnce
      <3>3. 1 \in DOMAIN batches[b].requests
        BY <1>1, <2>3, NextSessions
      <3> QED BY <3>1, <3>2, <3>3
    <2>7. Serial!Untouched(b)
      BY <2>5, <2>6 DEF Serial!Untouched, Serial!InLine, NotInLine
    <2>8. Serial!Refuse(b)
      BY <2>2, <2>7 DEF Serial!Refuse
    <2> QED BY <1>3, <2>8 DEF ServiceStep, Serial!Next
  <1> QED BY <1>5, <1>6

(* An exception abandons a batch.                                            *)
LEMMA ThrowServes ==
  ASSUME SchedulerAssumption, Control, AnswerInv, ServiceInv, NEW c \in Callers, Throw(c)
  PROVE  ServiceStep
  <1> PICK b : b = caller[c].batch
    OBVIOUS
  <1>1. /\ caller[c].step \in {"stage", "enqueue"} /\ executed' = executed /\ queue' = queue
        /\ session_queues' = session_queues /\ worker' = worker /\ work' = work
        /\ batches' = [batches EXCEPT ![b].promise = "broken"]
    BY DEF Throw, queue_vars
  <1>2. \A s \in Sessions : Line(s)' = Line(s)
    <2>1. Owners' = Owners
      BY <1>1 DEF Owners, OwnersIn, Busy
    <2> QED BY <1>1, <2>1, LinesStay
  <1>3. b \in DOMAIN batches /\ batches[b].promise = "pending"
    BY <1>1, AddedPiece
  <1>4. batches \in Seq(BatchRecord) /\ batches[b] \in BatchRecord
    BY <1>3, ElementOfSeq, LenProperties DEF Control, BatchTypes
  <1>5. /\ DOMAIN batches' = DOMAIN batches
        /\ \A e \in DOMAIN batches \ {b} : batches'[e] = batches[e]
        /\ batches'[b].requests = batches[b].requests /\ batches'[b].promise = "broken"
    BY <1>1, <1>3, <1>4 DEF BatchRecord
  <1>6. Serial!Promise(b, "pending", "broken")
    BY <1>1, <1>2, <1>3, <1>5, PromiseChanges
  <1> QED BY <1>3, <1>6 DEF ServiceStep, Serial!Next, Serial!Abandon

(* What completes a batch leaves nothing of it undone or under way.          *)
LEMMA LastIsAnswered ==
  ASSUME SchedulerAssumption, Control, AnswerInv, ServiceInv, NEW w \in Workers,
         worker[w] = "complete", NEW o, o = work[w], NEW b, b = o.batch,
         o.slot = 0 \/ (batches[b].promise = "pending" /\ Owed(b) = {o.slot})
  PROVE  /\ NotInLine(b)
         /\ \A i \in DOMAIN batches[b].requests : \E piece \in executed :
               /\ piece.batch = b
               /\ \E j \in DOMAIN piece.requests : piece.requests[j] = batches[b].requests[i]
  <1> USE DEF Control
  <1>1. w \in Carrying /\ w \in Ending
    BY DEF Carrying, Ending
  <1>2. Known(o) /\ o \in executed /\ Name(o) \in Alive
    <2>1. Known(o)
      BY <1>1, CarriedServed
    <2>2. o \in Ended
      BY <1>1 DEF Ended
    <2>3. o \in executed
      BY <2>2 DEF ServiceInv, RanOnce
    <2>4. Name(o) \in Alive
      BY <2>2, PiecesByStage DEF AliveByStage
    <2> QED BY <2>1, <2>3, <2>4
  <1>3. b \in DOMAIN batches /\ o.batch = b /\ Name(o) = <<b, o.slot>>
    BY <1>2 DEF Known, Name
  <1>4. <<b, 0>> \in Alive => Owed(b) = {}
    BY <1>3 DEF AnswerInv, BatchesRight, BatchRight
  <1>5. o.slot = 0 => Owed(b) = {}
    BY <1>2, <1>3, <1>4
  <1>6. o.slot # 0 => Owed(b) = {o.slot} /\ <<b, 0>> \notin Alive
    BY <1>4
  <1>7. NotInLine(b)
    <2> SUFFICES ASSUME NEW s \in Sessions, NEW i \in DOMAIN Line(s), Line(s)[i].batch = b
                 PROVE  FALSE
      BY DEF NotInLine
    <2> PICK p : p = Line(s)[i]
      OBVIOUS
    <2>1. /\ Name(p) \in Alive /\ Known(p) /\ Name(p) # Name(o) /\ p.batch = b
      BY LineAlive
    <2>2. /\ <<b, p.slot>> \in Alive /\ p.slot # o.slot
          /\ p.slot = 0 \/ p.slot \in DOMAIN batches[b].requests
      BY <1>3, <2>1 DEF Name, Known
    <2>3. p.slot # 0 => p.slot \in Owed(b)
      BY <2>2 DEF Owed
    <2> QED BY <1>5, <1>6, <2>2, <2>3
  <1>8. ASSUME NEW i \in DOMAIN batches[b].requests
        PROVE  \E piece \in executed :
                  /\ piece.batch = b
                  /\ \E j \in DOMAIN piece.requests : piece.requests[j] = batches[b].requests[i]
    <2>0. batches[b] \in BatchRecord
      BY <1>3, ElementOfSeq, LenProperties DEF BatchTypes
    <2>1. ASSUME NEW piece \in executed, piece.batch = b, piece.slot = 0 \/ piece.slot = i
          PROVE  \E j \in DOMAIN piece.requests : piece.requests[j] = batches[b].requests[i]
      <3>1. Known(piece) /\ i # 0
        BY <2>0, LenProperties DEF ServiceInv, RanOnce, BatchRecord
      <3>2. CASE piece.slot = 0
        BY <2>1, <3>1, <3>2 DEF Known
      <3>3. CASE piece.slot # 0
        <4>1. piece.requests = <<batches[b].requests[i]>>
          BY <2>1, <3>1, <3>3 DEF Known
        <4>2. 1 \in DOMAIN piece.requests /\ piece.requests[1] = batches[b].requests[i]
          BY <4>1
        <4> QED BY <4>2
      <3> QED BY <3>2, <3>3
    <2>2. CASE o.slot = 0
      BY <1>2, <1>3, <2>1, <2>2
    <2>3. CASE o.slot # 0
      <3>1. i = o.slot \/ Covered(b, i)
        BY <1>3, <1>6, <2>3 DEF ServiceInv, NothingLost
      <3>2. CASE i = o.slot
        BY <1>2, <1>3, <2>1, <3>2
      <3>3. CASE Covered(b, i)
        <4>1. PICK piece \in executed : Name(piece) = <<b, 0>> \/ Name(piece) = <<b, i>>
          BY <3>3 DEF Covered, Ran
        <4>2. piece.batch = b /\ (piece.slot = 0 \/ piece.slot = i)
          BY <4>1 DEF Name
        <4> QED BY <2>1, <4>1, <4>2
      <3> QED BY <3>1, <3>2, <3>3
    <2> QED BY <2>2, <2>3
  <1> QED BY <1>7, <1>8

(* Publishing the last answer of a batch resolves it.                        *)
LEMMA CompleteServes ==
  ASSUME SchedulerAssumption, Control, AnswerInv, ServiceInv, BatchesStay,
         NEW w \in Workers, Complete(w)
  PROVE  ServiceStep
  <1> USE DEF Control
  <1> PICK o, b, k : o = work[w] /\ b = o.batch /\ k = o.slot
    OBVIOUS
  <1>1. /\ worker[w] = "complete" /\ executed' = executed /\ queue' = queue
        /\ session_queues' = session_queues
        /\ batches' = [batches EXCEPT ![b] = Published(@, k, outcome[w])]
        /\ work' = [work EXCEPT ![w] = NoWork] /\ worker' = [worker EXCEPT ![w] = "ready"]
    BY DEF Complete, queue_vars
  <1>2. \A s \in Sessions : Line(s)' = Line(s)
    <2>1. Busy' = Busy /\ \A v \in Busy : work'[v] = work[v]
      BY <1>1 DEF Busy, WorkerTypes
    <2>2. Owners' = Owners
      BY <1>1, <2>1 DEF Owners, OwnersIn
    <2> QED BY <1>1, <2>2, LinesStay
  <1>3. /\ b \in DOMAIN batches /\ <<b, k>> \in Alive
        /\ k # 0 => k \in DOMAIN batches[b].requests /\ k \in Owed(b)
    <2>1. Known(o) /\ Name(o) \in Alive
      BY CompleteRemoves DEF AnswerInv
    <2>2. /\ b \in DOMAIN batches /\ <<b, k>> \in Alive
          /\ k # 0 => k \in DOMAIN batches[b].requests
      BY <2>1 DEF Known, Name
    <2> QED BY <2>2 DEF Owed
  <1>4. batches[b] \in BatchRecord
    BY <1>3, ElementOfSeq, LenProperties DEF BatchTypes
  <1>5. /\ DOMAIN batches' = DOMAIN batches
        /\ \A e \in DOMAIN batches \ {b} : batches'[e] = batches[e]
        /\ batches'[b] = Published(batches[b], k, outcome[w])
    BY <1>1, <1>3
  <1>6. /\ batches'[b].requests = batches[b].requests
        /\ k = 0 => batches'[b].promise = "ready"
        /\ k # 0 => batches'[b].promise = IF batches[b].remaining = 1 THEN "ready"
                                          ELSE batches[b].promise
    <2>1. batches'[b].requests = batches[b].requests
      BY <1>3 DEF BatchesStay
    <2>2. k = 0 => batches'[b].promise = "ready"
      BY <1>4, <1>5 DEF Published, PublishedAfter, BatchRecord
    <2>3. k # 0 => batches'[b].promise = IF batches[b].remaining = 1 THEN "ready"
                                         ELSE batches[b].promise
      BY <1>4, <1>5 DEF Published, PublishedAfter, BatchRecord
    <2> QED BY <2>1, <2>2, <2>3
  <1>7. CASE k # 0 /\ batches[b].remaining # 1
    <2>1. \A e \in DOMAIN batches : batches'[e].requests = batches[e].requests
                                    /\ batches'[e].promise = batches[e].promise
      BY <1>5, <1>6, <1>7
    <2> QED BY <1>1, <1>2, <1>5, <2>1, ServiceStutters
  <1>8. ASSUME k = 0 \/ batches[b].remaining = 1
        PROVE  ServiceStep
    <2>1. batches[b].promise = "pending" /\ (k # 0 => Owed(b) = {k})
      <3>1. BatchRight(b)
        BY <1>3 DEF AnswerInv, BatchesRight
      <3>2. CASE k = 0
        <4>1. batches[b].promise # "ready" /\ batches[b].promise # "broken"
          BY <1>3, <3>1, <3>2 DEF BatchRight, ServiceInv, BrokenApart
        <4>2. batches[b].promise \in {"pending", "ready", "broken"}
          BY <1>4 DEF BatchRecord
        <4> QED BY <3>2, <4>1, <4>2
      <3>3. CASE k # 0
        <4>1. PICK n : n = Cardinality(Owed(b))
          OBVIOUS
        <4>2. k \in Owed(b) /\ batches[b].remaining = 1 /\ Owed(b) # {}
          BY <1>3, <1>8, <3>3
        <4>3. /\ n \in Nat /\ Cardinality({k}) = 1
              /\ {k} # Owed(b) => Cardinality({k}) < n
              /\ Cardinality({k}) <= n
          <5>1. {k} \in SUBSET Owed(b)
            BY <4>2
          <5>2. Cardinality({k}) = 1
            BY FS_Singleton
          <5> QED BY <1>3, <4>1, <5>1, <5>2, OwedFinite
        <4>4. batches[b].promise # "ready"
          BY <3>1, <4>2 DEF BatchRight
        <4>5. IF batches[b].promise = "broken" THEN n < 1 ELSE n <= 1
          BY <3>1, <4>1, <4>2 DEF BatchRight
        <4>6. batches[b].promise # "broken" /\ {k} = Owed(b)
          BY <4>3, <4>5
        <4>7. batches[b].promise \in {"pending", "ready", "broken"}
          BY <1>4 DEF BatchRecord
        <4> QED BY <4>4, <4>6, <4>7
      <3> QED BY <3>2, <3>3
    <2>2. batches'[b].promise = "ready"
      BY <1>6, <1>8
    <2>3. Serial!Promise(b, "pending", "ready")
      <3>1. \A e \in DOMAIN batches : batches'[e].requests = batches[e].requests
        BY <1>5, <1>6
      <3>2. \A e \in DOMAIN batches \ {b} : batches'[e].promise = batches[e].promise
        BY <1>5
      <3> QED BY <1>1, <1>2, <1>3, <1>5, <2>1, <2>2, <3>1, <3>2, PromiseChanges
    <2>4. /\ NotInLine(b)
          /\ \A i \in DOMAIN batches[b].requests : \E piece \in executed :
                /\ piece.batch = b
                /\ \E j \in DOMAIN piece.requests : piece.requests[j] = batches[b].requests[i]
      <3>1. o.slot = 0 \/ (batches[b].promise = "pending" /\ Owed(b) = {o.slot})
        BY <2>1
      <3>2. worker[w] = "complete" /\ o = work[w] /\ b = o.batch
        BY <1>1
      <3> QED BY <3>1, <3>2, LastIsAnswered, SMTT(30)
    <2>5. Serial!Answered(b)
      <3>1. Book[b].requests = batches[b].requests
        BY <1>3 DEF Book
      <3>2. \A piece \in ServedWorks : piece.batch = b => ~Serial!InLine(piece)
        BY <2>4 DEF NotInLine, Serial!InLine
      <3>3. \A i \in DOMAIN Book[b].requests : \E piece \in executed :
               /\ piece.batch = b
               /\ \E j \in DOMAIN piece.requests : piece.requests[j] = Book[b].requests[i]
        BY <2>4, <3>1
      <3> QED BY <3>2, <3>3 DEF Serial!Answered, Book
    <2>6. Serial!Resolve(b)
      BY <2>3, <2>5 DEF Serial!Resolve
    <2> QED BY <1>3, <2>6 DEF ServiceStep, Serial!Next
  <1> QED BY <1>7, <1>8

(* A submission enters the book.                                             *)
LEMMA SubmitServes ==
  ASSUME SchedulerAssumption, Control, [Next]_vars, NEW c \in Callers, Submit(c)
  PROVE  ServiceStep
  <1> USE DEF Control
  <1> PICK n : n = Len(batches)
    OBVIOUS
  <1>1. /\ DOMAIN batches' = DOMAIN batches \cup {n + 1}
        /\ \A b \in DOMAIN batches : batches'[b] = batches[b]
        /\ \E sub \in Submissions : batches'[n + 1].requests = sub.requests
        /\ batches'[n + 1].promise \in {"pending", "ready"}
    BY BatchesGrow
  <1>2. n \in Nat /\ DOMAIN batches = 1 .. n /\ DOMAIN batches' = 1 .. n + 1
    <2>1. n \in Nat /\ DOMAIN batches = 1 .. n
      BY LenProperties DEF BatchTypes
    <2> QED BY <1>1, <2>1
  <1>3. /\ executed' = executed /\ queue' = queue /\ session_queues' = session_queues
        /\ worker' = worker /\ work' = work
    BY DEF Submit, queue_vars
  <1>4. \A s \in Sessions : Line(s)' = Line(s)
    <2>1. Owners' = Owners
      BY <1>3 DEF Owners, OwnersIn, Busy
    <2> QED BY <1>3, <2>1, LinesStay
  <1>5. PICK new : new = [requests |-> batches'[n + 1].requests,
                          promise |-> batches'[n + 1].promise]
    OBVIOUS
  <1>6. Book' = Append(Book, new)
    <2>1. PICK B, C : B = Book /\ C = Book'
      OBVIOUS
    <2>2. PICK T : T = {B[b] : b \in 1 .. n} \cup {new}
      OBVIOUS
    <2>3. /\ DOMAIN B = 1 .. n /\ DOMAIN C = 1 .. n + 1
          /\ \A b \in 1 .. n : C[b] = B[b]
          /\ C[n + 1] = new
      <3>1. DOMAIN B = 1 .. n /\ DOMAIN C = 1 .. n + 1
        BY <1>2, <2>1 DEF Book
      <3>2. n + 1 \in DOMAIN batches'
        BY <1>2
      <3>3. C[n + 1] = new
        BY <1>5, <2>1, <3>2 DEF Book
      <3>4. \A b \in DOMAIN batches : b \in DOMAIN batches' /\ batches'[b] = batches[b]
        BY <1>1
      <3>5. \A b \in DOMAIN batches : C[b] = B[b]
        BY <2>1, <3>4 DEF Book
      <3> QED BY <1>2, <3>1, <3>3, <3>5
    <2>4. B \in [1 .. n -> T] /\ C \in [1 .. n + 1 -> T]
      <3>1. B = [b \in 1 .. n |-> B[b]] /\ C = [b \in 1 .. n + 1 |-> C[b]]
        BY <1>2, <2>1 DEF Book
      <3>2. \A b \in 1 .. n : B[b] \in T
        BY <2>2
      <3>3. \A b \in 1 .. n + 1 : C[b] \in T
        <4> SUFFICES ASSUME NEW b \in 1 .. n + 1
                     PROVE  C[b] \in T
          OBVIOUS
        <4>1. b \in 1 .. n \/ b = n + 1
          BY <1>2
        <4> QED BY <2>2, <2>3, <4>1
      <3> QED BY <3>1, <3>2, <3>3
    <2>5. /\ B \in Seq(T) /\ Len(B) = n /\ C \in Seq(T) /\ Len(C) = n + 1 /\ new \in T
      <3>1. n \in Nat /\ n + 1 \in Nat
        BY <1>2
      <3>2. B \in Seq(T) /\ Len(B) = n
        BY <2>4, <3>1
      <3>3. C \in Seq(T) /\ Len(C) = n + 1
        BY <2>4, <3>1
      <3>4. new \in T
        BY <2>2
      <3> QED
        BY <3>2, <3>3, <3>4
    <2>6. PICK A : A = Append(B, new)
      OBVIOUS
    <2>7. A \in Seq(T) /\ Len(A) = n + 1 /\ A[n + 1] = new /\ \A b \in 1 .. n : A[b] = B[b]
      BY <1>2, <2>5, <2>6
    <2>8. \A b \in 1 .. n + 1 : C[b] = A[b]
      <3> SUFFICES ASSUME NEW b \in 1 .. n + 1
                   PROVE  C[b] = A[b]
        OBVIOUS
      <3>1. b \in 1 .. n \/ b = n + 1
        BY <1>2
      <3> QED BY <2>3, <2>7, <3>1
    <2>9. C = A
      BY <2>5, <2>7, <2>8, SeqEqual
    <2> QED BY <2>1, <2>6, <2>9
  <1>7. new.requests \in ServedRequests /\ new.promise \in {"pending", "ready"}
    BY <1>1, <1>5 DEF ServedRequests
  <1>8. Book' = Append(Book, [requests |-> new.requests, promise |-> new.promise])
    BY <1>5, <1>6
  <1>9. Lines' = Lines
    BY <1>4 DEF Lines
  <1>10. Serial!Submit
    BY <1>3, <1>7, <1>8, <1>9 DEF Serial!Submit, Book, Lines
  <1> QED BY <1>10 DEF ServiceStep, Serial!Next

(* Every step of the scheduler is a step of SerialSessions, or none.         *)
LEMMA StepServes ==
  ASSUME SchedulerAssumption, Control, Control', AnswerInv, ServiceInv, [Next]_vars
  PROVE  ServiceStep
  <1>1. ReservationExact'
    BY DEF Control
  <1>2. BatchesStay
    BY BatchesStayStep DEF Control
  <1>3. CASE \E c \in Callers : Submit(c)
    BY <1>3, SubmitServes
  <1>4. CASE \E c \in Callers : TryEnqueueBatch(c) \/ EnqueueSession(c)
    <2>1. PICK c \in Callers : TryEnqueueBatch(c) \/ EnqueueSession(c)
      BY <1>4
    <2> QED BY <1>1, <2>1, EnqueueServes, RefusalServes
  <1>5. CASE \E c \in Callers : Throw(c)
    BY <1>5, ThrowServes
  <1>6. CASE \E w \in Workers : Execute(w)
    BY <1>6, ExecuteServes
  <1>7. CASE \E w \in Workers : ReleaseSessions(w)
    BY <1>1, <1>7, ReleaseServes
  <1>8. CASE \E w \in Workers : Complete(w)
    BY <1>2, <1>8, CompleteServes
  <1>9. ASSUME \A c \in Callers : ~Submit(c) /\ ~TryEnqueueBatch(c) /\ ~EnqueueSession(c) /\ ~Throw(c),
               \A w \in Workers : ~Execute(w) /\ ~ReleaseSessions(w) /\ ~Complete(w)
        PROVE  ServiceStep
    <2>1. batches' = batches
      BY <1>9, BatchSteps
    <2>2. \A s \in Sessions : Line(s)' = Line(s)
      BY <1>9, LinesCalm
    <2>3. executed' = executed
      <3>1. executed' = executed \/ \E w \in Workers : Execute(w)
        BY DEF Next, vars, WorkerStep, CallerStep, SubmitStep, DirectStep, Submit, StartDirect, Reset, CommitGeneration,
               TryEnqueueBatch, EnqueueSession, NotifyOne, Throw, LockDirect, RunDirect, Wait, Take,
               Leave, AcquireCompute, MeasureTeam, PrepareTeam, LockSession, ReleaseSessions,
               NotifyAll, Complete, Stop, NotifyStop, Join
      <3> QED BY <1>9, <3>1
    <2> QED BY <2>1, <2>2, <2>3, ServiceStutters
  <1> QED BY <1>3, <1>4, <1>5, <1>6, <1>7, <1>8, <1>9

(* The scheduler starts with empty lines and an empty book.                  *)
LEMMA StartServes ==
  ASSUME Init
  PROVE  Serial!Init
  <1>1. Reserved = {} /\ executed = {} /\ DOMAIN batches = {}
    BY DEF Init, Reserved
  <1>2. \A s \in Sessions : Line(s) = << >>
    BY <1>1 DEF Line
  <1>3. Lines = [s \in Sessions |-> << >>]
    BY <1>2 DEF Lines
  <1>4. Book = << >>
    BY <1>1 DEF Book
  <1> QED BY <1>1, <1>3, <1>4 DEF Serial!Init, Lines, Book

(* Every session's work runs one at a time in the order it was let in, each  *)
(* piece once, and each batch is answered once, after its work: the          *)
(* scheduler implements SerialSessions.                                      *)
THEOREM ServesSerially == Spec => SerialService
  <1>1. Init => Serial!Init
    BY StartServes
  <1>2. Control /\ Control' /\ AnswerInv /\ ServiceInv /\ [Next]_vars
            => [Serial!Next]_(Serial!vars)
    <2>1. Control /\ Control' /\ AnswerInv /\ ServiceInv /\ [Next]_vars => ServiceStep
      BY SchedulerAssumption, StepServes
    <2> QED BY <2>1 DEF ServiceStep
  <1>3. Spec => [](Control /\ AnswerInv /\ ServiceInv)
    BY ControlInvariant, AnswerInvariant, ServiceInvariant, PTL
  <1> QED BY <1>1, <1>2, <1>3, PTL DEF Spec, SerialService, Serial!Spec

=============================================================================
