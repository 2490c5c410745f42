----------------------------- MODULE ExpertCache -----------------------------
(***************************************************************************)
(* The host Expert cache (src/src/storage/expertcache.cpp): an ARC cache of *)
(* file-backed Expert pairs filled by I/O worker threads, shared by the     *)
(* sessions of a model.  Every critical section of the one mutex is one     *)
(* action; a critical section that loops (admission evicts until the pair   *)
(* fits, a batch is gathered, published or leased entry by entry) is one    *)
(* action per iteration with `mutex' held in between, so that the steps     *)
(* that need no lock (dropping a pin, reading a file) interleave with it.   *)
(* Condition variables are explicit: a thread is in `asleep' until the      *)
(* notification the code performs takes it out.                             *)
(* Payloads, file layouts and the statistics counters are left out.         *)
(***************************************************************************)
EXTENDS Integers, FiniteSets, SequencesExt

CONSTANTS
    Key,          \* Expert pairs, named by their cache key
    Copy,         \* Entry objects of one key alive at once (a bound)
    Worker,       \* I/O threads
    Client,       \* threads calling the public operations
    Calls,        \* the calls a client may make (see CallType)
    Size,         \* resident bytes of each pair
    CacheSize,    \* cache_size
    NumGroups,    \* num_residency_groups
    GroupOf,      \* residency group of each pair, InvalidGroup if none
    Flags,        \* ExpertCacheOptionFlag bits that are set
    Adjacent,     \* pairs whose file ranges touch
    Unreadable,   \* keys whose read may fail
    DeviceKeys,   \* keys the residency coordinator may report on a device
    MaxBatch,     \* maximum_batch_size
    Nobody, NoEntry, NoCall

InvalidGroup == -1
Group == 0 .. NumGroups - 1
Ref == Key \X Copy                  \* an Entry object; its key never changes
KeyOf(r) == r[1]
SizeOf(r) == Size[KeyOf(r)]
Operation == {"acquire", "request", "prefetch", "try", "wait", "resolve", "sync"}
CallType == [op : Operation, keys : Seq(Key), group : Int,
             any : BOOLEAN, target : Nat, ready : BOOLEAN, capacity : BOOLEAN]

ASSUME ConstantsAssumption ==
    /\ IsFiniteSet(Key) /\ IsFiniteSet(Copy) /\ IsFiniteSet(Worker)
    /\ CacheSize \in Nat
    /\ NumGroups \in Nat
    /\ MaxBatch \in Nat \ {0}
    /\ Size \in [Key -> Nat \ {0}]
    /\ GroupOf \in [Key -> Int]
    /\ Calls \subseteq CallType
    /\ \A call \in Calls : call.op \in {"resolve", "sync"} \/ call.keys # << >>
    /\ Nobody \notin Client \cup Worker
    /\ Client \cap Worker = {}
    /\ NoEntry \notin Ref
    /\ NoCall \notin Calls
(* Forward-aware distances are compared between tracked layers only: a     *)
(* model that enables the flag files every Expert under its layer.         *)
ASSUME ForwardGroupsAssumption ==
    "ForwardAware" \in Flags => \A k \in Key : GroupOf[k] \in Group

VARIABLES
    entries,        \* the key -> Entry map
    state, flags, exact, arc_list,  \* fields of each Entry object; an object that
                                    \* does not exist is "Failed", without flags
    arc_recent, arc_frequent,                   \* ARC lists of Entry pointers
    arc_recent_size, arc_frequent_size, resident_size, residency_group_sizes,
    arc_recent_target_size,
    recent_ghost, frequent_ghost, recent_ghost_size, frequent_ghost_size,
    host,           \* Entries holding a host_residency token
    high_priority, low_priority, active_jobs, stopping,
    mutex,          \* the thread inside a multi-step critical section
    asleep,         \* threads waiting on a condition variable
    wpc, lane, batch, errors, cursor, completed,    \* locals of each worker
    pc, call, held, leases, hint                    \* locals of each client

entryVars == <<state, flags, exact, host>>
arcVars == <<arc_list, arc_recent, arc_frequent, arc_recent_size,
             arc_frequent_size, resident_size, residency_group_sizes>>
ghostVars == <<recent_ghost, frequent_ghost, recent_ghost_size, frequent_ghost_size>>
queueVars == <<high_priority, low_priority, active_jobs, stopping>>
workerVars == <<wpc, lane, batch, errors, cursor, completed>>
clientVars == <<pc, call, held, leases, hint>>
cacheVars == <<entries, entryVars, arcVars, ghostVars, arc_recent_target_size>>
vars == <<cacheVars, queueVars, mutex, asleep, workerVars, clientVars>>

Min2(a, b) == IF a <= b THEN a ELSE b
Max2(a, b) == IF a >= b THEN a ELSE b
Has(r, flag) == flag \in flags[r]
Mapped(r) == entries[KeyOf(r)] = r
Resident == {r \in Ref : Mapped(r)}
(* shared_ptrs other than the map's: use_count() = 1 iff mapped, not pinned. *)
InQueue(r) == r \in ToSet(high_priority) \cup ToSet(low_priority)
Leased(r) == \E c \in Client : r \in leases[c]
Pinned(r) == \/ InQueue(r)
             \/ \E w \in Worker : r \in batch[w]
             \/ \E c \in Client : r \in ToSet(held[c])
             \/ Leased(r)
Free(k) == {n \in Copy : ~Mapped(<<k, n>>) /\ ~Pinned(<<k, n>>)}
(* Bytes of a set of entries, counted one by one: a sum is a cardinality.   *)
Bytes(S) == {rb \in S \X (1 .. CacheSize) : rb[2] <= SizeOf(rb[1])}
TotalSize(S) == Cardinality(Bytes(S))
LinkedIn(list) == {r \in Ref : arc_list[r] = list}
QueuesEmpty == high_priority = << >> /\ low_priority = << >>   \* mutant of Quiet
Quiet == high_priority = << >> /\ low_priority = << >> /\ active_jobs = 0
NotifyWork(sleepers) == sleepers \ Worker
NotifyOneReady(sleepers) ==   \* mutant: notify_one for notify_all
    LET waiting == {c \in sleepers \cap Client : pc[c] = "await"}
    IN  sleepers \ (IF waiting = {} THEN {} ELSE {CHOOSE c \in waiting : TRUE})
NotifyReady(sleepers) == sleepers \ {c \in Client : pc[c] = "await"}
NotifyIdle(sleepers) == sleepers \ {c \in Client : pc[c] = "idle"}
NotifyIfIdle == IF Quiet' THEN NotifyIdle(asleep) ELSE asleep

Init ==
    /\ entries = [k \in Key |-> NoEntry]
    /\ state = [r \in Ref |-> "Failed"]
    /\ flags = [r \in Ref |-> {}]
    /\ exact = [r \in Ref |-> FALSE]
    /\ arc_list = [r \in Ref |-> "None"]
    /\ arc_recent = << >> /\ arc_frequent = << >>
    /\ arc_recent_size = 0 /\ arc_frequent_size = 0 /\ resident_size = 0
    /\ residency_group_sizes = [g \in Group |-> 0]
    /\ arc_recent_target_size = 0
    /\ recent_ghost = << >> /\ frequent_ghost = << >>
    /\ recent_ghost_size = 0 /\ frequent_ghost_size = 0
    /\ host = {}
    /\ high_priority = << >> /\ low_priority = << >>
    /\ active_jobs = 0 /\ stopping = FALSE
    /\ mutex = Nobody /\ asleep = {}
    /\ wpc = [w \in Worker |-> "pop"]
    /\ lane = [w \in Worker |-> "high"]
    /\ batch = [w \in Worker |-> {}]
    /\ errors = [w \in Worker |-> {}]
    /\ cursor = [w \in Worker |-> 1]
    /\ completed = [w \in Worker |-> 0]
    /\ pc = [c \in Client |-> "out"]
    /\ call = [c \in Client |-> NoCall]
    /\ held = [c \in Client |-> << >>]
    /\ leases = [c \in Client |-> {}]
    /\ hint = [c \in Client |-> [frequent |-> FALSE, ghost |-> FALSE]]
-----------------------------------------------------------------------------
(* ARC residency lists.  Each operator assigns all of arcVars.             *)

UnlinkFront(list, r) == Tail(list)   \* mutant: the iterator of another entry
Unlink(list, r) == RemoveAt(list, CHOOSE i \in DOMAIN list : list[i] = r)

ResizeGroup(r, delta) ==
    residency_group_sizes' =
        [g \in Group |-> IF g = GroupOf[KeyOf(r)]
                         THEN residency_group_sizes[g] + delta
                         ELSE residency_group_sizes[g]]

InsertUncounted(r, frequent) ==   \* mutant: the pair is not charged to the cache
    /\ arc_list' = [arc_list EXCEPT ![r] = "Recent"]
    /\ arc_recent' = Append(arc_recent, r)
    /\ UNCHANGED <<arc_recent_size, arc_frequent, arc_frequent_size, resident_size,
                   residency_group_sizes>>
InsertResident(r, frequent) ==
    /\ arc_list' = [arc_list EXCEPT ![r] = IF frequent THEN "Frequent" ELSE "Recent"]
    /\ IF frequent
       THEN /\ arc_frequent' = Append(arc_frequent, r)
            /\ arc_frequent_size' = arc_frequent_size + SizeOf(r)
            /\ UNCHANGED <<arc_recent, arc_recent_size>>
       ELSE /\ arc_recent' = Append(arc_recent, r)
            /\ arc_recent_size' = arc_recent_size + SizeOf(r)
            /\ UNCHANGED <<arc_frequent, arc_frequent_size>>
    /\ resident_size' = resident_size + SizeOf(r)
    /\ ResizeGroup(r, SizeOf(r))

TouchInPlace(r, repeated) ==   \* mutant: changes lists without its bytes
    /\ arc_recent' = IF arc_list[r] = "Recent" THEN Unlink(arc_recent, r) ELSE arc_recent
    /\ arc_frequent' = IF arc_list[r] = "Frequent" THEN arc_frequent ELSE Append(arc_frequent, r)
    /\ arc_list' = [arc_list EXCEPT ![r] = "Frequent"]
    /\ UNCHANGED <<arc_recent_size, arc_frequent_size, resident_size, residency_group_sizes>>
TouchResident(r, repeated) ==
    /\ IF arc_list[r] = "Recent" /\ repeated
       THEN /\ arc_recent' = Unlink(arc_recent, r)
            /\ arc_frequent' = Append(arc_frequent, r)
            /\ arc_list' = [arc_list EXCEPT ![r] = "Frequent"]
            /\ arc_recent_size' = arc_recent_size - SizeOf(r)
            /\ arc_frequent_size' = arc_frequent_size + SizeOf(r)
       ELSE /\ arc_recent' = IF arc_list[r] = "Recent"
                             THEN Append(Unlink(arc_recent, r), r) ELSE arc_recent
            /\ arc_frequent' = IF arc_list[r] = "Frequent"
                               THEN Append(Unlink(arc_frequent, r), r) ELSE arc_frequent
            /\ UNCHANGED <<arc_list, arc_recent_size, arc_frequent_size>>
    /\ UNCHANGED <<resident_size, residency_group_sizes>>

KeepHostToken(r) == UNCHANGED host   \* mutant
DropHostToken(r) == host' = host \ {r}

(* remove_resident_locked without its ghost, and the erasure from the map    *)
(* that goes with it.  Nobody reads the flags of an unmapped Entry: they are *)
(* reset here so that dead objects do not tell states apart.                *)
RemoveResident(r) ==
    /\ IF arc_list[r] = "None"
       THEN UNCHANGED <<arcVars, host>>
       ELSE /\ DropHostToken(r)
            /\ arc_list' = [arc_list EXCEPT ![r] = "None"]
            /\ IF arc_list[r] = "Recent"
               THEN /\ arc_recent' = Unlink(arc_recent, r)
                    /\ arc_recent_size' = arc_recent_size - SizeOf(r)
                    /\ UNCHANGED <<arc_frequent, arc_frequent_size>>
               ELSE /\ arc_frequent' = Unlink(arc_frequent, r)
                    /\ arc_frequent_size' = arc_frequent_size - SizeOf(r)
                    /\ UNCHANGED <<arc_recent, arc_recent_size>>
            /\ resident_size' = resident_size - SizeOf(r)
            /\ ResizeGroup(r, -SizeOf(r))
    /\ entries' = [entries EXCEPT ![KeyOf(r)] = NoEntry]
    /\ flags' = [flags EXCEPT ![r] = {}]
    /\ exact' = [exact EXCEPT ![r] = FALSE]
-----------------------------------------------------------------------------
(* ARC ghosts: keys evicted from each list, and the adaptive target.       *)

Forget(list, k) == IF k \in ToSet(list) THEN Unlink(list, k) ELSE list
Share(list, k) == IF k \in ToSet(list) THEN Size[k] ELSE 0

AddGhost(r) ==
    LET k == KeyOf(r)
        recent == Forget(recent_ghost, k)
        frequent == Forget(frequent_ghost, k)
        inRecent == arc_list[r] = "Recent"
    IN  /\ recent_ghost' = IF inRecent THEN Append(recent, k) ELSE recent
        /\ frequent_ghost' = IF inRecent THEN frequent ELSE Append(frequent, k)
        /\ recent_ghost_size' = recent_ghost_size - Share(recent_ghost, k)
                                 + (IF inRecent THEN Size[k] ELSE 0)
        /\ frequent_ghost_size' = frequent_ghost_size - Share(frequent_ghost, k)
                                   + (IF inRecent THEN 0 ELSE Size[k])

ArcDelta(required, numerator, denominator) ==
    IF denominator = 0 \/ numerator <= denominator THEN required
    ELSE LET ratio == numerator \div denominator
         IN  IF ratio > CacheSize \div required THEN CacheSize
             ELSE Min2(CacheSize, Max2(required, required * ratio))

InGhost(k) == k \in ToSet(recent_ghost) \cup ToSet(frequent_ghost)

RaisedTarget(delta) ==
    Min2(CacheSize, arc_recent_target_size + Min2(delta, CacheSize - arc_recent_target_size))
ChargedGhost(size, k) == size   \* mutant
FreedGhost(size, k) == size - Size[k]

(* consume_ghost_locked: a reload adapts the target and frees the ghost.   *)
ConsumeGhost(k) ==
    IF k \in ToSet(recent_ghost)
    THEN LET delta == ArcDelta(Size[k], frequent_ghost_size, recent_ghost_size)
         IN  /\ recent_ghost' = Unlink(recent_ghost, k)
             /\ recent_ghost_size' = FreedGhost(recent_ghost_size, k)
             /\ arc_recent_target_size' = RaisedTarget(delta)
             /\ UNCHANGED <<frequent_ghost, frequent_ghost_size>>
    ELSE IF k \in ToSet(frequent_ghost)
    THEN LET delta == ArcDelta(Size[k], recent_ghost_size, frequent_ghost_size)
         IN  /\ frequent_ghost' = Unlink(frequent_ghost, k)
             /\ frequent_ghost_size' = FreedGhost(frequent_ghost_size, k)
             /\ arc_recent_target_size' =
                    arc_recent_target_size - Min2(delta, arc_recent_target_size)
             /\ UNCHANGED <<recent_ghost, recent_ghost_size>>
    ELSE UNCHANGED <<ghostVars, arc_recent_target_size>>
-----------------------------------------------------------------------------
(* Choosing a victim.                                                      *)

EvictableIfPredicted(r, speculative, group, allowPredicted) ==   \* mutant
    /\ state[r] = "Ready" /\ Mapped(r) /\ ~Pinned(r)
    /\ group # InvalidGroup => GroupOf[KeyOf(r)] = group
Evictable(r, speculative, group, allowPredicted) ==
    /\ state[r] = "Ready"
    /\ speculative /\ Flags \cap {"ForwardAware", "SpecEviction"} = {} => Has(r, "Speculative")
    /\ "ForwardAware" \in Flags /\ ~speculative /\ ~allowPredicted => ~Has(r, "Speculative")
    /\ group # InvalidGroup => GroupOf[KeyOf(r)] = group
    /\ Mapped(r) /\ ~Pinned(r)

(* How many layers pass before a forward sweep at `anchor' needs r again.  *)
Distance(r, anchor) ==
    LET group == GroupOf[KeyOf(r)]
    IN  IF anchor \notin Group \/ group \notin Group THEN 0
        ELSE IF group > anchor THEN group - anchor ELSE NumGroups - anchor + group

(* find_victim_locked: furthest next use, then a device duplicate, then the *)
(* least recently used; NoEntry when nothing in the list is evictable.      *)
FindVictim(list, speculative, group, anchor, allowPredicted, onDevice) ==
    LET candidates == {i \in DOMAIN list :
                          Evictable(list[i], speculative, group, allowPredicted)}
        far(i) == Distance(list[i], anchor)
        dup(i) == KeyOf(list[i]) \in onDevice
        beats(i, j) == \/ far(i) > far(j)
                       \/ far(i) = far(j) /\ dup(i) /\ ~dup(j)
                       \/ far(i) = far(j) /\ dup(i) = dup(j) /\ i <= j
    IN  IF candidates = {} THEN NoEntry
        ELSE list[CHOOSE i \in candidates : \A j \in candidates : beats(i, j)]

FairShare == CacheSize \div NumGroups
Excess(g) == Max2(0, residency_group_sizes[g] - FairShare)

PreferredGroup(incoming, required) ==
    IF NumGroups = 0 \/ ("ForwardAware" \in Flags /\ incoming # InvalidGroup)
    THEN InvalidGroup
    ELSE IF incoming \in Group /\ residency_group_sizes[incoming] + required > FairShare
    THEN incoming
    ELSE LET over == {g \in Group : Excess(g) > 0}
         IN  IF over = {} THEN InvalidGroup
             ELSE CHOOSE g \in over : \A h \in over :
                     Excess(g) > Excess(h) \/ (Excess(g) = Excess(h) /\ g <= h)

(* evict_one_locked's searches <<list, group, predictions too>> in order:   *)
(* the list ARC prefers before the other one, the preferred group before    *)
(* any, predictions only as a last resort of an exact forward admission.    *)
OneListOnly(first, second, group, lastResort) ==   \* mutant: the other list is forgotten
    << <<first, group, FALSE>>, <<first, InvalidGroup, FALSE>> >>
Searches(first, second, group, lastResort) ==
    << <<first, group, FALSE>>, <<first, InvalidGroup, FALSE>>,
       <<second, group, FALSE>>, <<second, InvalidGroup, FALSE>> >>
    \o IF lastResort THEN << <<first, InvalidGroup, TRUE>>, <<second, InvalidGroup, TRUE>> >>
                     ELSE << >>

Victim(k, speculative, fromFrequentGhost, onDevice) ==
    LET preferRecent == \/ arc_recent_size > arc_recent_target_size
                        \/ fromFrequentGhost /\ arc_recent_size = arc_recent_target_size
        first == IF preferRecent THEN arc_recent ELSE arc_frequent
        second == IF preferRecent THEN arc_frequent ELSE arc_recent
        anchor == IF "ForwardAware" \in Flags THEN GroupOf[k] ELSE InvalidGroup
        group == PreferredGroup(GroupOf[k], Size[k])
        searches == Searches(first, second, group, ~speculative /\ anchor # InvalidGroup)
        found == [i \in DOMAIN searches |->
                     FindVictim(searches[i][1], speculative, searches[i][2], anchor,
                                searches[i][3], onDevice)]
        hits == {i \in DOMAIN found : found[i] # NoEntry}
    IN  IF hits = {} THEN NoEntry
        ELSE found[CHOOSE i \in hits : \A j \in hits : i <= j]
-----------------------------------------------------------------------------
(* Public operations, one client thread each.                              *)

Speculates(c) == call[c].op = "prefetch"
NextKey(c) == call[c].keys[Len(held[c]) + 1]

(* The call returns and drops the shared_ptrs it still holds.              *)
Finish(c) ==
    /\ pc' = [pc EXCEPT ![c] = "out"]
    /\ call' = [call EXCEPT ![c] = NoCall]
    /\ held' = [held EXCEPT ![c] = << >>]
    /\ hint' = [hint EXCEPT ![c] = [frequent |-> FALSE, ghost |-> FALSE]]

(* enqueue_pair returned an entry: the caller pins it and goes on.          *)
Admitted(c, r) ==
    /\ held' = [held EXCEPT ![c] = Append(@, r)]
    /\ pc' = [pc EXCEPT ![c] =
                 IF Len(held[c]) + 1 < Len(call[c].keys) THEN "admit"
                 ELSE IF call[c].op \in {"prefetch", "request"} THEN "return" ELSE "await"]
    /\ hint' = [hint EXCEPT ![c] = [frequent |-> FALSE, ghost |-> FALSE]]
    /\ UNCHANGED call

(* wait_acquire_ready_pairs first empties the caller's lease storage.       *)
Start(c) ==
    /\ pc[c] = "out" /\ ~stopping
    /\ \E request \in Calls :
          /\ call' = [call EXCEPT ![c] = request]
          /\ pc' = [pc EXCEPT ![c] = CASE request.op = "try" -> "try"
                                       [] request.op = "resolve" -> "resolve"
                                       [] request.op = "sync" -> "idle"
                                       [] OTHER -> "admit"]
          /\ leases' = IF request.op = "wait" THEN [leases EXCEPT ![c] = {}] ELSE leases
    /\ UNCHANGED <<cacheVars, queueVars, mutex, asleep, workerVars, held, hint>>

(* A pair larger than the whole cache: dropped or rejected, never queued.   *)
EnqueueTooLarge(c) ==
    /\ pc[c] = "admit" /\ Size[NextKey(c)] > CacheSize
    /\ Speculates(c) => mutex = Nobody
    /\ Finish(c)
    /\ UNCHANGED <<cacheVars, queueVars, mutex, asleep, workerVars, leases>>

(* An exact demand takes over a prediction that is not Ready yet.           *)
Promotes(r) == Has(r, "Speculative") /\ state[r] \in {"Queued", "Loading"}
ExactFlags(r) == (flags[r] \ {"Speculative", "DiscardWhenReady"}) \cup {"FirstExactMiss"}
NotRequeued(r) == high_priority   \* mutant
Requeued(r) == IF state[r] = "Queued" THEN Append(high_priority, r) ELSE high_priority

(* enqueue_pair on a mapped key: an exact demand takes over a prediction    *)
(* that is queued or being read; the low-priority reference stays behind.   *)
EnqueueMapped(c) ==
    LET k == NextKey(c)
        r == entries[k]
        demand == ~Speculates(c)
        reload == demand /\ ~exact[r] /\ InGhost(k)
    IN  /\ pc[c] = "admit" /\ mutex = Nobody
        /\ Size[k] <= CacheSize /\ r # NoEntry
        /\ IF reload THEN ConsumeGhost(k) ELSE UNCHANGED <<ghostVars, arc_recent_target_size>>
        /\ IF reload /\ arc_list[r] = "Recent" THEN TouchResident(r, TRUE)
                                               ELSE UNCHANGED arcVars
        /\ IF demand /\ Promotes(r)
           THEN /\ flags' = [flags EXCEPT ![r] = ExactFlags(r)]
                /\ high_priority' = Requeued(r)
                /\ asleep' = NotifyWork(asleep)
           ELSE UNCHANGED <<flags, high_priority, asleep>>
        /\ Admitted(c, r)
        /\ UNCHANGED <<entries, state, exact, host, low_priority, active_jobs, stopping,
                       mutex, workerVars, leases>>

(* enqueue_pair on an absent key: from here to Insert or Exhausted the      *)
(* mutex stays locked.                                                      *)
EnqueueAbsent(c) ==
    LET k == NextKey(c)
        reload == ~Speculates(c) /\ InGhost(k)
    IN  /\ pc[c] = "admit" /\ mutex = Nobody
        /\ Size[k] <= CacheSize /\ entries[k] = NoEntry /\ Free(k) # {}
        /\ hint' = [hint EXCEPT ![c] =
                       [frequent |-> reload,
                        ghost |-> reload /\ k \notin ToSet(recent_ghost)]]
        /\ IF reload THEN ConsumeGhost(k) ELSE UNCHANGED <<ghostVars, arc_recent_target_size>>
        /\ mutex' = c
        /\ pc' = [pc EXCEPT ![c] = "evict"]
        /\ UNCHANGED <<entries, entryVars, arcVars, queueVars, asleep, workerVars,
                       call, held, leases>>

Fits(k) == resident_size <= CacheSize - Size[k]
GhostsFit == recent_ghost_size + frequent_ghost_size <= CacheSize

(* One round of the admission loop.  Erasing the unpinned victim destroys it. *)
Evict(c) ==
    /\ pc[c] = "evict" /\ mutex = c /\ GhostsFit
    /\ ~Fits(NextKey(c))
    /\ \E onDevice \in SUBSET DeviceKeys :
          \E r \in {Victim(NextKey(c), Speculates(c), hint[c].ghost, onDevice)} \ {NoEntry} :
              /\ RemoveResident(r)
              /\ state' = [state EXCEPT ![r] = "Failed"]
              /\ IF Has(r, "Speculative") THEN UNCHANGED ghostVars ELSE AddGhost(r)
    /\ UNCHANGED <<arc_recent_target_size, queueVars, mutex,
                   asleep, workerVars, clientVars>>

(* One round of trim_ghosts_locked: the oldest ghost of the longer list.    *)
TrimGhost(c) ==
    /\ pc[c] = "evict" /\ mutex = c /\ ~GhostsFit
    /\ IF recent_ghost_size >= frequent_ghost_size /\ recent_ghost # << >>
       THEN /\ recent_ghost' = Tail(recent_ghost)
            /\ recent_ghost_size' = recent_ghost_size - Size[Head(recent_ghost)]
            /\ UNCHANGED <<frequent_ghost, frequent_ghost_size>>
       ELSE /\ frequent_ghost' = Tail(frequent_ghost)
            /\ frequent_ghost_size' = frequent_ghost_size - Size[Head(frequent_ghost)]
            /\ UNCHANGED <<recent_ghost, recent_ghost_size>>
    /\ UNCHANGED <<entries, entryVars, arcVars, arc_recent_target_size, queueVars, mutex,
                   asleep, workerVars, clientVars>>

Insert(c) ==
    LET k == NextKey(c)
        r == <<k, CHOOSE n \in Free(k) : TRUE>>
    IN  /\ pc[c] = "evict" /\ mutex = c /\ GhostsFit
        /\ Fits(k) /\ Free(k) # {}
        /\ entries' = [entries EXCEPT ![k] = r]
        /\ state' = [state EXCEPT ![r] = "Queued"]
        /\ flags' = [flags EXCEPT ![r] =
                        {IF Speculates(c) THEN "Speculative" ELSE "FirstExactMiss"}]
        /\ exact' = [exact EXCEPT ![r] = FALSE]
        /\ InsertResident(r, hint[c].frequent)
        /\ IF Speculates(c)
           THEN low_priority' = Append(low_priority, r) /\ UNCHANGED high_priority
           ELSE high_priority' = Append(high_priority, r) /\ UNCHANGED low_priority
        /\ asleep' = NotifyWork(asleep)
        /\ mutex' = Nobody
        /\ Admitted(c, r)
        /\ UNCHANGED <<host, ghostVars, arc_recent_target_size, active_jobs, stopping,
                       workerVars, leases>>

MayAlwaysNap(c) == call[c].ready /\ call[c].capacity   \* mutant: naps on its own pins
MayNap(c) == held[c] = << >> /\ call[c].ready /\ call[c].capacity

(* Nothing is evictable.  A prediction is dropped, acquire_pair fails, a     *)
(* batch stops at its admitted prefix, and only a call that holds nothing   *)
(* and may wait for capacity naps and tries again.                          *)
Exhausted(c) ==
    /\ pc[c] = "evict" /\ mutex = c /\ GhostsFit
    /\ ~Fits(NextKey(c))
    /\ Victim(NextKey(c), Speculates(c), hint[c].ghost, {}) = NoEntry
    /\ mutex' = Nobody
    /\ IF call[c].op \in {"prefetch", "acquire"} THEN Finish(c)
       ELSE /\ pc' = [pc EXCEPT ![c] =
                         IF call[c].op = "request" THEN "return"
                         ELSE IF MayNap(c) THEN "nap"
                         ELSE IF held[c] = << >> THEN "return" ELSE "await"]
            /\ hint' = [hint EXCEPT ![c] = [frequent |-> FALSE, ghost |-> FALSE]]
            /\ UNCHANGED <<call, held>>
    /\ UNCHANGED <<cacheVars, queueVars, asleep, workerVars, leases>>

(* ready.wait_for(1 ms), by time-out or by notification, and the retry.     *)
Nap(c) ==
    /\ pc[c] = "nap" /\ mutex = Nobody
    /\ IF stopping THEN Finish(c)
       ELSE /\ pc' = [pc EXCEPT ![c] = "admit"]
            /\ UNCHANGED <<call, held, hint>>
    /\ UNCHANGED <<cacheVars, queueVars, mutex, asleep, workerVars, leases>>

Return(c) ==
    /\ pc[c] = "return"
    /\ Finish(c)
    /\ UNCHANGED <<cacheVars, queueVars, mutex, asleep, workerVars, leases>>

Settled(r) == state[r] \in {"Ready", "Failed"}
HeldSet(c) == ToSet(held[c])
ReadyCount(c) == Cardinality({i \in DOMAIN held[c] : state[held[c][i]] = "Ready"})
(* The predicates of the waits on `ready'.                                 *)
WaitOver(c) ==
    IF call[c].op = "acquire" THEN Settled(held[c][1])
    ELSE \/ ~call[c].ready
         \/ ~call[c].any /\ call[c].target = 1 /\ Settled(held[c][1])
         \/ /\ call[c].any \/ call[c].target > 1
            /\ \/ \E r \in HeldSet(c) : state[r] = "Failed"
               \/ ReadyCount(c) >= Min2(call[c].target, Len(held[c]))

AwaitReady(c) ==
    /\ pc[c] = "await" /\ mutex = Nobody /\ c \notin asleep
    /\ IF ~WaitOver(c)
       THEN asleep' = asleep \cup {c} /\ UNCHANGED <<mutex, pc, call, held, hint>>
       ELSE IF (\E r \in HeldSet(c) : state[r] = "Failed") \/ ReadyCount(c) = 0
       THEN Finish(c) /\ UNCHANGED <<mutex, asleep>>
       ELSE /\ mutex' = c /\ pc' = [pc EXCEPT ![c] = "take"]
            /\ UNCHANGED <<asleep, call, held, hint>>
    /\ UNCHANGED <<cacheVars, queueVars, workerVars, leases>>

(* try_acquire_ready_pairs: all of the group or nothing.                    *)
TryAcquire(c) ==
    LET keys == call[c].keys
    IN  /\ pc[c] = "try" /\ mutex = Nobody
        /\ IF \A k \in ToSet(keys) : entries[k] # NoEntry /\ state[entries[k]] = "Ready"
           THEN /\ held' = [held EXCEPT ![c] = [i \in 1 .. Len(keys) |-> entries[keys[i]]]]
                /\ pc' = [pc EXCEPT ![c] = "take"]
                /\ mutex' = c
                /\ UNCHANGED <<call, hint>>
           ELSE Finish(c) /\ UNCHANGED mutex
        /\ UNCHANGED <<cacheVars, queueVars, asleep, workerVars, leases>>

(* One entry of an acquisition: a ready one becomes a lease.               *)
TakeLease(c) ==
    LET r == Head(held[c])
    IN  /\ pc[c] = "take" /\ mutex = c
        /\ IF state[r] = "Ready"
           THEN /\ TouchResident(r, exact[r])
                /\ exact' = [exact EXCEPT ![r] = TRUE]
                /\ flags' = [flags EXCEPT ![r] = @ \ {"Speculative", "FirstExactMiss"}]
                /\ leases' = [leases EXCEPT ![c] = @ \cup {r}]
           ELSE UNCHANGED <<arcVars, exact, flags, leases>>
        /\ IF Len(held[c]) = 1 THEN mutex' = Nobody /\ Finish(c)
           ELSE /\ held' = [held EXCEPT ![c] = Tail(@)]
                /\ UNCHANGED <<mutex, pc, call, hint>>
        /\ UNCHANGED <<entries, state, host, ghostVars, arc_recent_target_size, queueVars,
                       asleep, workerVars>>

(* The computation that used a pair ends, at any time.                     *)
Release(c) ==
    /\ \E r \in leases[c] : leases' = [leases EXCEPT ![c] = @ \ {r}]
    /\ UNCHANGED <<cacheVars, queueVars, mutex, asleep, workerVars, pc, call, held, hint>>

MispredictedOrRead(c) ==   \* mutant: pairs that were never predicted, or were demanded since
    {r \in Resident : /\ GroupOf[KeyOf(r)] = call[c].group
                      /\ KeyOf(r) \notin ToSet(call[c].keys)
                      /\ ~(state[r] = "Loading" /\ Has(r, "DiscardWhenReady"))}

(* Predictions of the layer that the router did not demand and that        *)
(* resolve_predictions has not dealt with yet.                              *)
Mispredicted(c) ==
    {r \in Resident : /\ Has(r, "Speculative")
                      /\ GroupOf[KeyOf(r)] = call[c].group
                      /\ KeyOf(r) \notin ToSet(call[c].keys)
                      /\ ~(state[r] = "Loading" /\ Has(r, "DiscardWhenReady"))}

ResolveOne(c) ==
    /\ pc[c] = "resolve" /\ mutex \in {Nobody, c}
    /\ \E r \in Mispredicted(c) :
          IF state[r] = "Loading"
          THEN /\ flags' = [flags EXCEPT ![r] = @ \cup {"DiscardWhenReady"}]
               /\ UNCHANGED <<entries, state, exact, arcVars, host>>
          ELSE /\ state' = [state EXCEPT ![r] = IF @ = "Queued" THEN "Failed" ELSE @]
               /\ RemoveResident(r)
    /\ mutex' = c
    /\ UNCHANGED <<ghostVars, arc_recent_target_size, queueVars, asleep,
                   workerVars, clientVars>>

ResolveEnd(c) ==
    /\ pc[c] = "resolve" /\ mutex \in {Nobody, c}
    /\ Mispredicted(c) = {}
    /\ mutex' = Nobody
    /\ asleep' = IF high_priority = << >> /\ active_jobs = 0 THEN NotifyIdle(asleep) ELSE asleep
    /\ Finish(c)
    /\ UNCHANGED <<cacheVars, queueVars, workerVars, leases>>

(* wait_for_background_work.                                                *)
AwaitIdle(c) ==
    /\ pc[c] = "idle" /\ mutex = Nobody /\ c \notin asleep
    /\ IF Quiet THEN Finish(c) /\ UNCHANGED asleep
       ELSE asleep' = asleep \cup {c} /\ UNCHANGED <<pc, call, held, hint>>
    /\ UNCHANGED <<cacheVars, queueVars, mutex, workerVars, leases>>

StopQuietly ==   \* mutant: the sleeping workers are not woken
    /\ ~stopping /\ \A c \in Client : pc[c] = "out"
    /\ mutex = Nobody
    /\ stopping' = TRUE
    /\ low_priority' = << >>
    /\ UNCHANGED <<cacheVars, high_priority, active_jobs, mutex, asleep, workerVars, clientVars>>
(* The destructor, once no thread is inside a call.  Leases may outlive it. *)
Stop ==
    /\ ~stopping /\ \A c \in Client : pc[c] = "out"
    /\ mutex = Nobody
    /\ stopping' = TRUE
    /\ low_priority' = << >>
    /\ asleep' = NotifyWork(asleep)
    /\ UNCHANGED <<cacheVars, high_priority, active_jobs, mutex, workerVars, clientVars>>
-----------------------------------------------------------------------------
(* The I/O workers.                                                        *)

Coalesces == "Coalescing" \in Flags
Lane(w) == IF lane[w] = "high" THEN high_priority ELSE low_priority
SetLane(name, queue) ==
    IF name = "high" THEN high_priority' = queue /\ UNCHANGED low_priority
                     ELSE low_priority' = queue /\ UNCHANGED high_priority

(* Pops the first entry still queued; references left behind by a           *)
(* cancellation or a promotion are discarded on the way.                    *)
Pop(w) ==
    LET name == IF high_priority # << >> THEN "high" ELSE "low"
        queue == IF high_priority # << >> THEN high_priority ELSE low_priority
        live == {i \in DOMAIN queue : state[queue[i]] = "Queued"}
        first == CHOOSE i \in live : \A j \in live : i <= j
        rest == IF live = {} THEN << >> ELSE SubSeq(queue, first + 1, Len(queue))
    IN  /\ wpc[w] = "pop" /\ mutex = Nobody /\ w \notin asleep
        /\ queue # << >>
        /\ SetLane(name, rest)
        /\ IF live = {}
           THEN /\ UNCHANGED <<state, batch, lane, cursor, active_jobs, mutex, wpc>>
                /\ asleep' = NotifyIfIdle
           ELSE /\ state' = [state EXCEPT ![queue[first]] = "Loading"]
                /\ batch' = [batch EXCEPT ![w] = {queue[first]}]
                /\ lane' = [lane EXCEPT ![w] = name]
                /\ IF ~Coalesces
                   THEN /\ wpc' = [wpc EXCEPT ![w] = "load"]
                        /\ active_jobs' = active_jobs + 1
                        /\ UNCHANGED <<mutex, cursor>>
                   ELSE /\ wpc' = [wpc EXCEPT ![w] = IF rest = << >> THEN "window" ELSE "gather"]
                        /\ mutex' = IF rest = << >> THEN Nobody ELSE w
                        /\ cursor' = [cursor EXCEPT ![w] = 1]
                        /\ UNCHANGED active_jobs
                /\ UNCHANGED asleep
        /\ UNCHANGED <<entries, flags, exact, host, arcVars, ghostVars,
                       arc_recent_target_size, stopping, errors, completed, clientVars>>

(* Nothing to do: wait on work_available, or leave once stopping.           *)
PopNothing(w) ==
    /\ wpc[w] = "pop" /\ mutex = Nobody /\ w \notin asleep
    /\ high_priority = << >> /\ low_priority = << >>
    /\ IF stopping THEN wpc' = [wpc EXCEPT ![w] = "exit"] /\ UNCHANGED asleep
                   ELSE asleep' = asleep \cup {w} /\ UNCHANGED wpc
    /\ UNCHANGED <<cacheVars, queueVars, mutex, lane, batch, errors, cursor, completed,
                   clientVars>>

(* work_available.wait_for(50 us): the lock is released with an entry already *)
(* in the batch; a time-out or any notification ends it.                    *)
Window(w) ==
    /\ wpc[w] = "window" /\ mutex = Nobody
    /\ mutex' = w
    /\ wpc' = [wpc EXCEPT ![w] = "gather"]
    /\ UNCHANGED <<cacheVars, queueVars, asleep, lane, batch, errors, cursor, completed,
                   clientVars>>

AdjacentTo(w, r) == \E q \in batch[w] : <<KeyOf(q), KeyOf(r)>> \in Adjacent
LeavesQueueAnyway(w, r) == TRUE   \* mutant: a candidate passed over is dropped
LeavesQueue(w, r) == state[r] # "Queued" \/ AdjacentTo(w, r)

(* One candidate of the coalescing scan: stale ones leave the queue,        *)
(* adjacent ones join the batch, the others are passed over.                *)
Gather(w) ==
    LET queue == Lane(w)
        r == queue[cursor[w]]
    IN  /\ wpc[w] = "gather" /\ mutex = w
        /\ cursor[w] <= Len(queue) /\ Cardinality(batch[w]) < MaxBatch
        /\ IF LeavesQueue(w, r)
           THEN SetLane(lane[w], RemoveAt(queue, cursor[w])) /\ UNCHANGED cursor
           ELSE /\ cursor' = [cursor EXCEPT ![w] = @ + 1]
                /\ UNCHANGED <<high_priority, low_priority>>
        /\ IF state[r] = "Queued" /\ AdjacentTo(w, r)
           THEN /\ state' = [state EXCEPT ![r] = "Loading"]
                /\ batch' = [batch EXCEPT ![w] = @ \cup {r}]
           ELSE UNCHANGED <<state, batch>>
        /\ UNCHANGED <<entries, flags, exact, host, arcVars, ghostVars,
                       arc_recent_target_size, active_jobs, stopping, mutex, asleep,
                       wpc, lane, errors, completed, clientVars>>

GatherEnd(w) ==
    /\ wpc[w] = "gather" /\ mutex = w
    /\ cursor[w] > Len(Lane(w)) \/ Cardinality(batch[w]) = MaxBatch
    /\ active_jobs' = active_jobs + Cardinality(batch[w])
    /\ mutex' = Nobody
    /\ wpc' = [wpc EXCEPT ![w] = "load"]
    /\ cursor' = [cursor EXCEPT ![w] = 1]
    /\ UNCHANGED <<cacheVars, high_priority, low_priority, stopping, asleep, lane, batch,
                   errors, completed, clientVars>>

(* Victim restore and file reads, without the lock.  Each unreadable pair    *)
(* may fail on its own; a failed coalesced read fails every pair it covers. *)
Load(w) ==
    LET unreadable == {r \in batch[w] : KeyOf(r) \in Unreadable}
    IN  /\ wpc[w] = "load"
        /\ \E failed \in SUBSET batch[w] :
              /\ \/ failed \subseteq unreadable
                 \/ Coalesces /\ unreadable \cap failed # {} /\ Cardinality(failed) > 1
              /\ errors' = [errors EXCEPT ![w] = failed]
        /\ wpc' = [wpc EXCEPT ![w] = "publish"]
        /\ UNCHANGED <<cacheVars, queueVars, mutex, asleep, lane, batch, cursor, completed,
                       clientVars>>

Discarded(r) == Has(r, "DiscardWhenReady") /\ Has(r, "Speculative")
FailsTogether(w, r) == errors[w] # {} \/ Discarded(r)   \* mutant: one error fails the batch
Fails(w, r) == r \in errors[w] \/ Discarded(r)

(* One entry of the batch becomes Ready or Failed.                         *)
Publish(w) ==
    /\ wpc[w] = "publish" /\ mutex \in {Nobody, w}
    /\ \E r \in {q \in batch[w] : state[q] = "Loading"} :
          LET last == \A q \in batch[w] : q = r \/ state[q] # "Loading"
          IN  /\ IF Fails(w, r)
                 THEN /\ state' = [state EXCEPT ![r] = "Failed"]
                      /\ IF Mapped(r) THEN RemoveResident(r)
                                      ELSE UNCHANGED <<entries, flags, exact, arcVars, host>>
                 ELSE /\ state' = [state EXCEPT ![r] = "Ready"]
                      /\ host' = host \cup {r}
                      /\ UNCHANGED <<entries, flags, exact, arcVars>>
              /\ mutex' = IF last THEN Nobody ELSE w
              /\ wpc' = [wpc EXCEPT ![w] = IF last THEN "drop" ELSE "publish"]
    /\ UNCHANGED <<ghostVars, arc_recent_target_size, queueVars, asleep, lane, batch,
                   errors, cursor, completed, clientVars>>

(* batch.clear(), outside the lock.                                        *)
DropBatch(w) ==
    /\ wpc[w] = "drop"
    /\ completed' = [completed EXCEPT ![w] = Cardinality(batch[w])]
    /\ batch' = [batch EXCEPT ![w] = {}]
    /\ errors' = [errors EXCEPT ![w] = {}]
    /\ lane' = [lane EXCEPT ![w] = "high"]
    /\ wpc' = [wpc EXCEPT ![w] = "retire"]
    /\ UNCHANGED <<cacheVars, queueVars, mutex, asleep, cursor, clientVars>>

Retire(w) ==
    /\ wpc[w] = "retire" /\ mutex = Nobody
    /\ active_jobs' = active_jobs - completed[w]
    /\ completed' = [completed EXCEPT ![w] = 0]
    /\ wpc' = [wpc EXCEPT ![w] = "notify"]
    /\ UNCHANGED <<cacheVars, high_priority, low_priority, stopping, mutex, lane, batch,
                   errors, cursor, clientVars>>
    /\ asleep' = NotifyIfIdle

Notify(w) ==
    /\ wpc[w] = "notify"
    /\ asleep' = NotifyReady(asleep)
    /\ wpc' = [wpc EXCEPT ![w] = "pop"]
    /\ UNCHANGED <<cacheVars, queueVars, mutex, lane, batch, errors, cursor, completed,
                   clientVars>>
-----------------------------------------------------------------------------
(* The destructor after joining the workers: pairs that a lease outlives are *)
(* no longer advertised.                                                    *)
Joined == stopping /\ \A w \in Worker : wpc[w] = "exit"
Withdraw ==
    /\ Joined /\ host # {}
    /\ host' = {}
    /\ UNCHANGED <<entries, state, flags, exact, arcVars, ghostVars, arc_recent_target_size,
                   queueVars, mutex, asleep, workerVars, clientVars>>

(* The system once the cache is destroyed and every lease is dead.          *)
Finished ==
    /\ Joined /\ host = {}
    /\ \A c \in Client : leases[c] = {}
    /\ UNCHANGED vars

ClientStep(c) ==
    \/ EnqueueTooLarge(c) \/ EnqueueMapped(c) \/ EnqueueAbsent(c)
    \/ Evict(c) \/ TrimGhost(c) \/ Insert(c) \/ Exhausted(c)
    \/ Nap(c) \/ Return(c) \/ AwaitReady(c) \/ TryAcquire(c) \/ TakeLease(c)
    \/ ResolveOne(c) \/ ResolveEnd(c) \/ AwaitIdle(c)
WorkerStep(w) ==
    \/ Pop(w) \/ PopNothing(w) \/ Window(w) \/ Gather(w) \/ GatherEnd(w)
    \/ Load(w) \/ Publish(w) \/ DropBatch(w) \/ Retire(w) \/ Notify(w)

Next ==
    \/ \E c \in Client : Start(c) \/ ClientStep(c) \/ Release(c)
    \/ \E w \in Worker : WorkerStep(w)
    \/ Stop \/ Withdraw
    \/ Finished

Spec == Init /\ [][Next]_vars
(* Threads are scheduled, reads end and computations release their leases;  *)
(* nothing obliges a client to start a call or the owner to stop the cache.   *)
(* Strong fairness is that of the mutex: a thread that finds it free again    *)
(* and again gets it, since a retrying thread sleeps 1 ms between two tries.  *)
FairSpec ==
    /\ Spec
    /\ \A c \in Client : SF_vars(ClientStep(c)) /\ WF_vars(Release(c))
    /\ \A w \in Worker : SF_vars(WorkerStep(w))
-----------------------------------------------------------------------------
TypeOK ==
    /\ entries \in [Key -> Ref \cup {NoEntry}]
    /\ state \in [Ref -> {"Queued", "Loading", "Ready", "Failed"}]
    /\ flags \in [Ref -> SUBSET {"Speculative", "FirstExactMiss", "DiscardWhenReady"}]
    /\ exact \in [Ref -> BOOLEAN]
    /\ arc_list \in [Ref -> {"None", "Recent", "Frequent"}]
    /\ arc_recent \in Seq(Ref) /\ arc_frequent \in Seq(Ref)
    /\ arc_recent_size \in Nat /\ arc_frequent_size \in Nat /\ resident_size \in Nat
    /\ residency_group_sizes \in [Group -> Nat]
    /\ arc_recent_target_size \in 0 .. CacheSize
    /\ recent_ghost \in Seq(Key) /\ frequent_ghost \in Seq(Key)
    /\ recent_ghost_size \in Nat /\ frequent_ghost_size \in Nat
    /\ host \subseteq Ref
    /\ high_priority \in Seq(Ref) /\ low_priority \in Seq(Ref)
    /\ active_jobs \in Nat /\ stopping \in BOOLEAN
    /\ mutex \in Client \cup Worker \cup {Nobody}
    /\ asleep \subseteq Client \cup Worker
    /\ wpc \in [Worker -> {"pop", "window", "gather", "load", "publish", "drop",
                           "retire", "notify", "exit"}]
    /\ lane \in [Worker -> {"high", "low"}]
    /\ batch \in [Worker -> SUBSET Ref] /\ errors \in [Worker -> SUBSET Ref]
    /\ cursor \in [Worker -> Nat \ {0}] /\ completed \in [Worker -> Nat]
    /\ pc \in [Client -> {"out", "admit", "evict", "nap", "return", "await", "take",
                          "try", "resolve", "idle"}]
    /\ call \in [Client -> Calls \cup {NoCall}]
    /\ held \in [Client -> Seq(Ref)] /\ leases \in [Client -> SUBSET Ref]
    /\ hint \in [Client -> [frequent : BOOLEAN, ghost : BOOLEAN]]
-----------------------------------------------------------------------------
(* The byte counters equal what they count, whatever sequence of admissions, *)
(* evictions, cancellations and failures led here, and the resident pairs    *)
(* fit the cache: no counter drifts and no unsigned subtraction wraps.       *)
AccountingExact ==
    /\ resident_size = TotalSize(Resident)
    /\ resident_size = arc_recent_size + arc_frequent_size
    /\ arc_recent_size = TotalSize(LinkedIn("Recent"))
    /\ arc_frequent_size = TotalSize(LinkedIn("Frequent"))
    /\ \A g \in Group : residency_group_sizes[g]
                             = TotalSize({r \in Resident : GroupOf[KeyOf(r)] = g})
CapacityRespected == resident_size <= CacheSize

(* The ARC lists hold raw pointers: each one points to an Entry the map keeps *)
(* alive, in the list its tag names, once, and no mapped Entry is unlinked.   *)
NoDanglingPointer ==
    /\ ToSet(arc_recent) = LinkedIn("Recent")
    /\ ToSet(arc_frequent) = LinkedIn("Frequent")
    /\ IsInjective(arc_recent) /\ IsInjective(arc_frequent)
    /\ Resident = LinkedIn("Recent") \cup LinkedIn("Frequent")

(* A key has one ghost at most, the ghost sizes are exact, and outside an     *)
(* eviction the two ghost lists together never outgrow the cache.             *)
GhostBytes(S) == Cardinality({kb \in S \X (1 .. CacheSize) : kb[2] <= Size[kb[1]]})
GhostsExact ==
    /\ recent_ghost_size = GhostBytes(ToSet(recent_ghost))
    /\ frequent_ghost_size = GhostBytes(ToSet(frequent_ghost))
    /\ IsInjective(recent_ghost) /\ IsInjective(frequent_ghost)
    /\ ToSet(recent_ghost) \cap ToSet(frequent_ghost) = {}
    /\ mutex = Nobody => GhostsFit

(* No read is lost or done twice: an entry that is queued is in the deque of  *)
(* its priority (until the destructor clears the predictions), an entry that  *)
(* is loading is in the batch of one worker, and the map keeps no failed one. *)
EveryReadHasAnOwner ==
    \A r \in Ref :
       /\ state[r] = "Loading" =>
             /\ Mapped(r)
             /\ \E w \in Worker : \A v \in Worker : r \in batch[v] <=> v = w
       /\ Mapped(r) =>
             /\ state[r] # "Failed"
             /\ state[r] = "Queued" =>
                   IF Has(r, "Speculative") THEN r \in ToSet(low_priority) \/ stopping
                                            ELSE r \in ToSet(high_priority)

(* A key is advertised as host-resident exactly while the cache can serve it, *)
(* so that a device copy is never reclaimed in favour of a copy that is gone. *)
HostTokensExact ==
    LET servable == {r \in Resident : state[r] = "Ready"}
    IN  host = servable \/ (Joined /\ host = {})

(* The payloads one thread pins fit the cache (expert.cpp's bounded waves).    *)
PinnedFitsCache ==
    \A c \in Client :
       TotalSize({r \in HeldSet(c) \cup leases[c] : state[r] # "Failed"}) <= CacheSize

(* Eviction and prediction clean-up never take a leased pair out of the map.  *)
LeasedStaysMapped ==
    [][\A c \in Client : \A r \in leases[c] : Mapped(r) => entries'[KeyOf(r)] = r]_vars

(* A pair that a demand has been given fails under it only because a file     *)
(* read that covered it failed, its own or one coalesced with a neighbour's:  *)
(* no cancellation, discarding of predictions or eviction reaches it.         *)
DemandFailsOnlyOnRead ==
    [][\A c \in Client : call[c] # NoCall /\ ~Speculates(c) =>
          \A r \in HeldSet(c) :
             state[r] # "Failed" /\ state'[r] = "Failed" =>
                \E w \in Worker : r \in errors[w]]_vars

(* wait_for_background_work returns with no Entry pinned by a worker.          *)
IdleMeansNoWorkerPin ==
    [][\A c \in Client : pc[c] = "idle" /\ pc'[c] = "out" =>
          \A w \in Worker : batch[w] = {}]_vars

(* acquire_pair reports exhaustion only while a lease, a call or a read keeps *)
(* some resident pair.                                                        *)
ExhaustedMeansBusy ==
    [][\A c \in Client :
          pc[c] = "evict" /\ pc'[c] = "out" /\ ~Speculates(c) =>
             \E r \in Resident :
                \/ state[r] # "Ready" \/ Leased(r)
                \/ \E d \in Client : r \in HeldSet(d)
                \/ \E w \in Worker : r \in batch[w]]_vars

(* A forward-aware cache gives up a prediction for an exact read only when no  *)
(* pair without a prediction could go.                                        *)
PredictionsEvictedLast ==
    [][\A c \in Client : \A r \in Resident :
          /\ "ForwardAware" \in Flags
          /\ pc[c] = "evict" /\ mutex = c /\ ~Speculates(c)
          /\ Has(r, "Speculative") /\ entries'[KeyOf(r)] = NoEntry
          => \A q \in Resident : state[q] = "Ready" /\ ~Pinned(q) => Has(q, "Speculative")]_vars

(* Whoever waits for admitted reads is woken: a result is never published      *)
(* between a waiter's test and its sleep without a later notification.         *)
AwaitedReadsSettle == \A c \in Client : pc[c] = "await" ~> pc[c] # "await"

(* Every call returns unless calls keep being started: no two calls wait for   *)
(* each other's pins, and an idle waiter is woken.                             *)
CallsReturn ==
    \/ []<><<\E c \in Client : pc[c] = "out" /\ pc'[c] # "out">>_vars
    \/ \A c \in Client : pc[c] # "out" ~> pc[c] = "out"

(* The destructor joins: every worker leaves, after every demanded read.       *)
StopDrains == stopping ~> (\A w \in Worker : wpc[w] = "exit") /\ high_priority = << >>
=============================================================================
