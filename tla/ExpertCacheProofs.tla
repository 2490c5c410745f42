--------------------------- MODULE ExpertCacheProofs ---------------------------
(***************************************************************************)
(* The safety theorems of the Expert cache, for any number of pairs, threads *)
(* and calls.  The invariant that is inductive, IInv, adds to the stated     *)
(* properties what each program counter implies (an admission in progress    *)
(* has the mutex, so its key stays absent) and who owns each counted job.    *)
(***************************************************************************)
EXTENDS ExpertCache, CollectionFacts

-----------------------------------------------------------------------------
(* What each operation on the ARC lists and on the ghost lists does to them,  *)
(* without threads: the steps ResidencyStep and GhostStep keep the lists     *)
(* without duplicates and every byte counter equal to the bytes it stands    *)
(* for.  Further on, every action of the cache is shown to be such a step.   *)

(* SizeOf as a function, to weigh sets of entries with.                     *)
RefSize == [r \in Ref |-> SizeOf(r)]

(* There are finitely many Entry objects (by the bound on copies).          *)
LEMMA RefsAreFinite ==
  IsFiniteSet(Ref) /\ \A S \in SUBSET Ref : IsFiniteSet(S)
  <1>1. IsFiniteSet(Ref)
    BY ConstantsAssumption, FS_Product DEF Ref
  <1> QED BY <1>1, FS_Subset

(* An Entry has the key and the bytes of a pair of the model.               *)
LEMMA SizeType ==
  ASSUME NEW r \in Ref
  PROVE  KeyOf(r) \in Key /\ SizeOf(r) \in Nat \ {0} /\ RefSize[r] = SizeOf(r)
  BY ConstantsAssumption DEF Ref, KeyOf, SizeOf, RefSize

(* The bytes of a set of entries are the weight of the set.                 *)
LEMMA TotalSizeIsWeight ==
  ASSUME NEW S \in SUBSET Ref
  PROVE  TotalSize(S) = Weight(S, CacheSize, RefSize) /\ TotalSize(S) \in Nat
  <1>1. IsFiniteSet(S) /\ CacheSize \in Nat
    BY RefsAreFinite, ConstantsAssumption
  <1>2. \A p \in S \X (1 .. CacheSize) : p[1] \in Ref /\ RefSize[p[1]] = SizeOf(p[1])
    BY SizeType
  <1>3. Bytes(S) = {p \in S \X (1 .. CacheSize) : p[2] <= RefSize[p[1]]}
    BY <1>2 DEF Bytes
  <1> QED BY <1>1, <1>3, WeightIsNat DEF TotalSize, Weight

(* A new entry adds its bytes to a set, if it fits the cache alone.         *)
LEMMA TotalSizeAdd ==
  ASSUME NEW S \in SUBSET Ref, NEW r \in Ref, r \notin S, SizeOf(r) <= CacheSize
  PROVE  TotalSize(S \cup {r}) = TotalSize(S) + SizeOf(r)
  <1>1. IsFiniteSet(S) /\ CacheSize \in Nat /\ S \cup {r} \in SUBSET Ref
    BY RefsAreFinite, ConstantsAssumption
  <1>2. RefSize[r] = SizeOf(r) /\ RefSize[r] \in 0 .. CacheSize
    BY <1>1, SizeType
  <1> DEFINE T == S \cup {r}
  <1>3. T = S \cup {r} /\ T \in SUBSET Ref
    OBVIOUS
  <1> HIDE DEF T
  <1>4. Weight(T, CacheSize, RefSize) = Weight(S, CacheSize, RefSize) + RefSize[r]
    <2>1. OneMore(S, T, CacheSize, RefSize, r)
      BY <1>1, <1>2, <1>3 DEF OneMore
    <2> QED BY <2>1, WeightOneMore
  <1>5. TotalSize(T) = TotalSize(S) + SizeOf(r)
    BY <1>2, <1>3, <1>4, TotalSizeIsWeight
  <1> QED BY <1>3, <1>5

(* An entry takes its bytes with it.                                        *)
LEMMA TotalSizeRemove ==
  ASSUME NEW S \in SUBSET Ref, NEW r \in S, SizeOf(r) <= CacheSize
  PROVE  TotalSize(S \ {r}) = TotalSize(S) - SizeOf(r)
  <1>1. IsFiniteSet(S) /\ CacheSize \in Nat /\ S \ {r} \in SUBSET Ref /\ r \in Ref
    BY RefsAreFinite, ConstantsAssumption
  <1>2. RefSize[r] = SizeOf(r) /\ RefSize[r] \in 0 .. CacheSize
    BY <1>1, SizeType
  <1> DEFINE T == S \ {r}
  <1>3. T = S \ {r} /\ T \in SUBSET Ref
    OBVIOUS
  <1> HIDE DEF T
  <1>4. Weight(T, CacheSize, RefSize) = Weight(S, CacheSize, RefSize) - RefSize[r]
    <2>1. IsFiniteSet(T)
      BY <1>3, RefsAreFinite
    <2>2. OneMore(T, S, CacheSize, RefSize, r)
      BY <1>1, <1>2, <1>3, <2>1 DEF OneMore
    <2> QED BY <2>2, WeightOneMore
  <1>5. TotalSize(T) = TotalSize(S) - SizeOf(r)
    BY <1>2, <1>3, <1>4, TotalSizeIsWeight
  <1> QED BY <1>3, <1>5

(* Unlinking a member of a list without duplicates. *)
LEMMA UnlinkSet ==
  ASSUME NEW S, NEW list \in Seq(S), NEW x \in ToSet(list)
  PROVE  /\ Unlink(list, x) \in Seq(S)
         /\ ToSet(Unlink(list, x)) \subseteq ToSet(list)
         /\ IsInjective(list) => /\ ToSet(Unlink(list, x)) = ToSet(list) \ {x}
                                 /\ IsInjective(Unlink(list, x))
  <1> DEFINE n == CHOOSE i \in DOMAIN list : list[i] = x
  <1>1. DOMAIN list = 1 .. Len(list)
    BY LenProperties
  <1>2. n \in DOMAIN list /\ list[n] = x
    BY DEF ToSet
  <1>3. Unlink(list, x) = RemoveAt(list, n)
    BY DEF Unlink
  <1> HIDE DEF n
  <1> QED BY <1>1, <1>2, <1>3, RemoveAtSet
-----------------------------------------------------------------------------
(* find_victim_locked returns an evictable entry of the list it scans.       *)
LEMMA DistanceType ==
  ASSUME NEW r \in Ref, NEW anchor \in Int
  PROVE  Distance(r, anchor) \in 0 .. NumGroups
  BY ConstantsAssumption, SizeType DEF Distance, Group

(* One scan of find_victim_locked returns an evictable entry of the list, if *)
(* it has any, and NoEntry otherwise.                                       *)
LEMMA ScanFinds ==
  ASSUME NEW list \in Seq(Ref), NEW speculative, NEW group, NEW anchor \in Int,
         NEW predicted, NEW onDevice,
         \E r \in ToSet(list) : Evictable(r, speculative, group, predicted)
  PROVE  LET r == FindVictim(list, speculative, group, anchor, predicted, onDevice)
         IN  r \in ToSet(list) /\ Evictable(r, speculative, group, predicted)
  <1> DEFINE candidates == {i \in DOMAIN list :
                              Evictable(list[i], speculative, group, predicted)}
             far(i) == Distance(list[i], anchor)
             dup(i) == KeyOf(list[i]) \in onDevice
             beats(i, j) == \/ far(i) > far(j)
                            \/ far(i) = far(j) /\ dup(i) /\ ~dup(j)
                            \/ far(i) = far(j) /\ dup(i) = dup(j) /\ i <= j
             best == CHOOSE i \in candidates : \A j \in candidates : beats(i, j)
  <1>1. candidates # {} /\ FindVictim(list, speculative, group, anchor, predicted, onDevice)
                            = list[best]
    BY DEF FindVictim, ToSet
  <1>2. candidates \subseteq Nat /\ \A i \in candidates : far(i) \in 0 .. NumGroups
    <2>1. DOMAIN list = 1 .. Len(list) /\ Len(list) \in Nat
      BY LenProperties
    <2>2. \A i \in DOMAIN list : list[i] \in Ref
      BY <2>1, ElementOfSeq
    <2>3. \A i \in DOMAIN list : far(i) \in 0 .. NumGroups
      BY <2>2, DistanceType
    <2>4. candidates \subseteq DOMAIN list
      OBVIOUS
    <2> HIDE DEF candidates, far
    <2> QED BY <2>1, <2>3, <2>4
  <1>3. \E i \in candidates : \A j \in candidates : beats(i, j)
    <2> DEFINE slack(i) == NumGroups - far(i)
    <2>1. {slack(i) : i \in candidates} \subseteq Nat
      BY <1>2, ConstantsAssumption
    <2>2. \E i \in candidates : \A j \in candidates : slack(i) <= slack(j)
      <3> DEFINE T == {slack(i) : i \in candidates}
      <3>1. T # {} /\ T \subseteq Nat
        BY <1>1, <2>1
      <3> HIDE DEF T, candidates, slack
      <3>2. PICK m \in T : \A n \in T : m <= n
        BY <3>1, LeastNumber
      <3> QED BY <3>2 DEF T
    <2>3. PICK top \in candidates : \A j \in candidates : far(j) <= far(top)
      BY <1>2, <2>2, ConstantsAssumption
    <2> DEFINE level == {i \in candidates : far(i) = far(top)}
               choice == IF \E i \in level : dup(i) THEN {i \in level : dup(i)} ELSE level
    <2>4. choice # {} /\ choice \subseteq Nat
      BY <1>2, <2>3
    <2> HIDE DEF choice
    <2>5. PICK i \in choice : \A j \in choice : i <= j
      BY <2>4, LeastNumber
    <2> USE DEF choice
    <2>6. i \in candidates /\ far(i) = far(top)
      BY <2>5
    <2> HIDE DEF candidates, far, dup
    <2>7. ASSUME NEW j \in candidates
          PROVE  beats(i, j)
      <3>1. CASE far(j) # far(top)
        BY <1>2, <2>3, <2>6, <3>1
      <3>2. CASE far(j) = far(top) /\ j \in choice
        <4>1. i <= j /\ dup(i) = dup(j)
          BY <2>5, <3>2, <2>6 DEF dup
        <4> QED BY <2>6, <3>2, <4>1
      <3>3. CASE far(j) = far(top) /\ j \notin choice
        <4>1. dup(i) /\ ~dup(j)
          BY <2>5, <2>7, <3>3
        <4> QED BY <2>6, <3>3, <4>1
      <3> QED BY <3>1, <3>2, <3>3
    <2> QED BY <2>6, <2>7
  <1>4. best \in candidates
    BY <1>3
  <1> QED BY <1>1, <1>4 DEF ToSet

LEMMA FoundVictim ==
  ASSUME NEW list \in Seq(Ref), NEW speculative, NEW group, NEW anchor \in Int,
         NEW predicted, NEW onDevice,
         FindVictim(list, speculative, group, anchor, predicted, onDevice) # NoEntry
  PROVE  LET r == FindVictim(list, speculative, group, anchor, predicted, onDevice)
         IN  r \in ToSet(list) /\ Evictable(r, speculative, group, predicted)
  <1>1. \E r \in ToSet(list) : Evictable(r, speculative, group, predicted)
    BY DEF FindVictim, ToSet
  <1> QED BY <1>1, ScanFinds

(* Whatever evict_one_locked picks is a Ready entry that the map holds and  *)
(* nobody pins, linked in one of the two lists.                             *)
LEMMA VictimIsEvictable ==
  ASSUME arc_recent \in Seq(Ref), arc_frequent \in Seq(Ref),
         NEW k \in Key, NEW speculative \in BOOLEAN, NEW fromGhost, NEW onDevice,
         Victim(k, speculative, fromGhost, onDevice) # NoEntry
  PROVE  LET r == Victim(k, speculative, fromGhost, onDevice)
         IN  r \in Ref /\ Mapped(r) /\ ~Pinned(r) /\ state[r] = "Ready"
  <1> DEFINE preferRecent == \/ arc_recent_size > arc_recent_target_size
                             \/ fromGhost /\ arc_recent_size = arc_recent_target_size
             first == IF preferRecent THEN arc_recent ELSE arc_frequent
             second == IF preferRecent THEN arc_frequent ELSE arc_recent
             anchor == IF "ForwardAware" \in Flags THEN GroupOf[k] ELSE InvalidGroup
             group == PreferredGroup(GroupOf[k], Size[k])
             searches == Searches(first, second, group, ~speculative /\ anchor # InvalidGroup)
             found == [i \in DOMAIN searches |->
                         FindVictim(searches[i][1], speculative, searches[i][2], anchor,
                                    searches[i][3], onDevice)]
             hits == {i \in DOMAIN found : found[i] # NoEntry}
             n == CHOOSE i \in hits : \A j \in hits : i <= j
             T == {first, second} \X {group, InvalidGroup} \X BOOLEAN
  <1>1. hits # {} /\ Victim(k, speculative, fromGhost, onDevice) = found[n]
    BY DEF Victim
  <1>2. anchor \in Int
    BY ConstantsAssumption DEF InvalidGroup
  <1>3. first \in Seq(Ref) /\ second \in Seq(Ref)
    OBVIOUS
  <1> HIDE DEF preferRecent, first, second, anchor, group
  <1>4. searches \in Seq(T)
    <2> DEFINE t1 == <<first, group, FALSE>>
               t2 == <<first, InvalidGroup, FALSE>>
               t3 == <<second, group, FALSE>>
               t4 == <<second, InvalidGroup, FALSE>>
               t5 == <<first, InvalidGroup, TRUE>>
               t6 == <<second, InvalidGroup, TRUE>>
               lastResort == ~speculative /\ anchor # InvalidGroup
    <2>1. t1 \in T /\ t2 \in T /\ t3 \in T /\ t4 \in T /\ t5 \in T /\ t6 \in T
      OBVIOUS
    <2>2. searches = <<t1, t2, t3, t4>> \o IF lastResort THEN <<t5, t6>> ELSE << >>
      BY DEF Searches
    <2> HIDE DEF T, t1, t2, t3, t4, t5, t6, searches, lastResort
    <2>3. <<t1, t2, t3, t4>> \in Seq(T) /\ <<t5, t6>> \in Seq(T) /\ << >> \in Seq(T)
      BY <2>1
    <2> QED BY <2>2, <2>3, ConcatProperties
  <1> HIDE DEF searches
  <1>5. hits \subseteq DOMAIN searches /\ DOMAIN searches \subseteq Nat
    BY <1>4, LenProperties
  <1>6. \A i \in DOMAIN searches : searches[i] \in T
    BY <1>4, LenProperties, ElementOfSeq
  <1> HIDE DEF hits
  <1>7. n \in hits
    BY <1>1, <1>5, LeastNumber
  <1> USE DEF hits
  <1> HIDE DEF n
  <1>8. /\ searches[n][1] \in Seq(Ref)
        /\ found[n] = FindVictim(searches[n][1], speculative, searches[n][2], anchor,
                                 searches[n][3], onDevice)
        /\ found[n] # NoEntry
    BY <1>3, <1>5, <1>6, <1>7
  <1>9. found[n] \in ToSet(searches[n][1])
        /\ Evictable(found[n], speculative, searches[n][2], searches[n][3])
    BY <1>2, <1>8, FoundVictim
  <1> QED BY <1>1, <1>8, <1>9, ElementsOf DEF Evictable
-----------------------------------------------------------------------------
(* The ARC lists and their byte counters.                                   *)
Residency ==
    /\ entries \in [Key -> Ref \cup {NoEntry}]
    /\ arc_list \in [Ref -> {"None", "Recent", "Frequent"}]
    /\ arc_recent \in Seq(Ref) /\ arc_frequent \in Seq(Ref)
    /\ NoDanglingPointer
    /\ \A r \in Ref : arc_list[r] # "None" => SizeOf(r) <= CacheSize

Accounting ==
    /\ residency_group_sizes \in [Group -> Nat]
    /\ AccountingExact
    /\ CapacityRespected

OfGroup(g) == {r \in Resident : GroupOf[KeyOf(r)] = g}

(* What a step may do to the lists: nothing, use an entry, forget a mapped   *)
(* entry, or add an entry that fits.                                        *)
Untouched == UNCHANGED <<entries, arcVars>>
Touched(r, repeated) == TouchResident(r, repeated) /\ UNCHANGED entries
Removed(r) == Mapped(r) /\ RemoveResident(r)
Inserted(r, frequent) ==
    /\ entries[KeyOf(r)] = NoEntry
    /\ resident_size <= CacheSize - SizeOf(r)
    /\ entries' = [entries EXCEPT ![KeyOf(r)] = r]
    /\ InsertResident(r, frequent)
ResidencyStep ==
    \/ Untouched
    \/ \E r \in Ref, b \in BOOLEAN : Touched(r, b) \/ Inserted(r, b)
    \/ \E r \in Ref : Removed(r)

(* The empty cache has exact lists and counters.                            *)
LEMMA ResidencyInit == Init => Residency /\ Accounting
  <1> SUFFICES ASSUME Init PROVE Residency /\ Accounting
    OBVIOUS
  <1>1. Resident = {} /\ LinkedIn("Recent") = {} /\ LinkedIn("Frequent") = {}
    BY ConstantsAssumption DEF Init, Resident, Mapped, LinkedIn, KeyOf, Ref
  <1>2. TotalSize({}) = 0
    BY WeightOfEmpty, TotalSizeIsWeight
  <1>3. Residency
    BY <1>1 DEF Init, Residency, NoDanglingPointer, ToSet, IsInjective
  <1>4. \A g \in Group : OfGroup(g) = {}
    BY <1>1 DEF OfGroup
  <1>5. residency_group_sizes \in [Group -> Nat]
        /\ \A g \in Group : residency_group_sizes[g] = TotalSize(OfGroup(g))
    BY <1>2, <1>4 DEF Init
  <1>6. AccountingExact
    <2>1. resident_size = 0 /\ arc_recent_size = 0 /\ arc_frequent_size = 0
      BY DEF Init
    <2>2. 0 = 0 + 0
      OBVIOUS
    <2> QED BY <1>1, <1>2, <1>5, <2>1, <2>2 DEF AccountingExact, OfGroup
  <1>7. Accounting
    BY <1>5, <1>6, ConstantsAssumption DEF Init, Accounting, CapacityRespected
  <1> QED BY <1>3, <1>7

(* TouchResident moves an entry within the lists.                            *)
LEMMA TouchKeepsLists ==
  ASSUME Residency, NEW r \in Ref, NEW b \in BOOLEAN, Touched(r, b)
  PROVE  Residency' /\ Resident' = Resident
  <1>1. Resident' = Resident
    BY DEF Touched, Resident, Mapped
  <1>2. CASE arc_list[r] = "Recent" /\ b
    <2>1. r \in ToSet(arc_recent) /\ r \notin ToSet(arc_frequent)
      BY <1>2 DEF Residency, NoDanglingPointer, LinkedIn
    <2>2. /\ arc_recent' = Unlink(arc_recent, r)
          /\ arc_frequent' = Append(arc_frequent, r)
          /\ arc_list' = [arc_list EXCEPT ![r] = "Frequent"]
          /\ entries' = entries
      BY <1>2 DEF Touched, TouchResident
    <2>3. /\ arc_recent' \in Seq(Ref) /\ arc_frequent' \in Seq(Ref)
          /\ ToSet(arc_recent') = ToSet(arc_recent) \ {r}
          /\ ToSet(arc_frequent') = ToSet(arc_frequent) \cup {r}
          /\ IsInjective(arc_recent') /\ IsInjective(arc_frequent')
      BY <2>1, <2>2, UnlinkSet, AppendSet DEF Residency, NoDanglingPointer
    <2>4. /\ LinkedIn("Recent")' = LinkedIn("Recent") \ {r}
          /\ LinkedIn("Frequent")' = LinkedIn("Frequent") \cup {r}
          /\ r \in LinkedIn("Recent")
      BY <1>2, <2>2 DEF LinkedIn, Residency
    <2>5. NoDanglingPointer'
      BY <1>1, <2>3, <2>4 DEF NoDanglingPointer, Residency
    <2>6. arc_list' \in [Ref -> {"None", "Recent", "Frequent"}]
          /\ \A q \in Ref : arc_list'[q] # "None" => SizeOf(q) <= CacheSize
      BY <1>2, <2>2 DEF Residency
    <2> QED BY <1>1, <2>2, <2>3, <2>5, <2>6 DEF Residency, SizeOf, KeyOf
  <1>3. CASE ~(arc_list[r] = "Recent" /\ b)
    <2>1. /\ arc_recent' = IF arc_list[r] = "Recent"
                           THEN Append(Unlink(arc_recent, r), r) ELSE arc_recent
          /\ arc_frequent' = IF arc_list[r] = "Frequent"
                             THEN Append(Unlink(arc_frequent, r), r) ELSE arc_frequent
          /\ arc_list' = arc_list /\ entries' = entries
      BY <1>3 DEF Touched, TouchResident
    <2>2. ASSUME NEW list \in Seq(Ref), r \in ToSet(list), IsInjective(list)
          PROVE  /\ Append(Unlink(list, r), r) \in Seq(Ref)
                 /\ ToSet(Append(Unlink(list, r), r)) = ToSet(list)
                 /\ IsInjective(Append(Unlink(list, r), r))
      <3>1. /\ Unlink(list, r) \in Seq(Ref)
            /\ ToSet(Unlink(list, r)) = ToSet(list) \ {r}
            /\ IsInjective(Unlink(list, r))
        BY <2>2, UnlinkSet
      <3> DEFINE rest == Unlink(list, r)
      <3> HIDE DEF rest
      <3>2. /\ Append(rest, r) \in Seq(Ref)
            /\ ToSet(Append(rest, r)) = ToSet(rest) \cup {r}
            /\ IsInjective(Append(rest, r))
        BY <3>1, AppendSet DEF rest
      <3> QED BY <2>2, <3>1, <3>2 DEF rest
    <2>3. /\ arc_recent' \in Seq(Ref) /\ arc_frequent' \in Seq(Ref)
          /\ ToSet(arc_recent') = ToSet(arc_recent)
          /\ ToSet(arc_frequent') = ToSet(arc_frequent)
          /\ IsInjective(arc_recent') /\ IsInjective(arc_frequent')
      BY <2>1, <2>2 DEF Residency, NoDanglingPointer, LinkedIn
    <2>4. \A name : LinkedIn(name)' = LinkedIn(name)
      BY <2>1 DEF LinkedIn
    <2> QED BY <1>1, <2>1, <2>3, <2>4 DEF Residency, NoDanglingPointer, SizeOf, KeyOf
  <1> QED BY <1>2, <1>3

(* ... and only moves its bytes from one list to the other.                  *)
LEMMA TouchKeepsAccounts ==
  ASSUME Residency, Accounting, NEW r \in Ref, NEW b \in BOOLEAN, Touched(r, b)
  PROVE  Accounting'
  <1>1. Resident' = Resident /\ Residency'
    BY TouchKeepsLists
  <1>2. resident_size' = resident_size /\ residency_group_sizes' = residency_group_sizes
    BY DEF Touched, TouchResident
  <1>3. /\ arc_recent_size' = TotalSize(LinkedIn("Recent"))'
        /\ arc_frequent_size' = TotalSize(LinkedIn("Frequent"))'
        /\ resident_size = arc_recent_size' + arc_frequent_size'
    <2>1. /\ arc_recent_size = TotalSize(LinkedIn("Recent"))
          /\ arc_frequent_size = TotalSize(LinkedIn("Frequent"))
          /\ resident_size = arc_recent_size + arc_frequent_size
      BY DEF Accounting, AccountingExact
    <2>2. LinkedIn("Recent") \in SUBSET Ref /\ LinkedIn("Frequent") \in SUBSET Ref
      BY DEF LinkedIn
    <2>3. arc_recent_size \in Nat /\ arc_frequent_size \in Nat /\ SizeOf(r) \in Nat
      BY <2>1, <2>2, TotalSizeIsWeight, SizeType
    <2>4. CASE arc_list[r] = "Recent" /\ b
      <3>1. /\ arc_recent_size' = arc_recent_size - SizeOf(r)
            /\ arc_frequent_size' = arc_frequent_size + SizeOf(r)
            /\ arc_list' = [arc_list EXCEPT ![r] = "Frequent"]
        BY <2>4 DEF Touched, TouchResident
      <3>2. /\ LinkedIn("Recent")' = LinkedIn("Recent") \ {r}
            /\ LinkedIn("Frequent")' = LinkedIn("Frequent") \cup {r}
            /\ r \in LinkedIn("Recent") /\ r \notin LinkedIn("Frequent")
        BY <2>4, <3>1 DEF LinkedIn, Residency
      <3>3. SizeOf(r) <= CacheSize
        BY <2>4 DEF Residency
      <3>4. /\ TotalSize(LinkedIn("Recent") \ {r}) = TotalSize(LinkedIn("Recent")) - SizeOf(r)
            /\ TotalSize(LinkedIn("Frequent") \cup {r})
                   = TotalSize(LinkedIn("Frequent")) + SizeOf(r)
        BY <2>2, <3>2, <3>3, TotalSizeAdd, TotalSizeRemove
      <3>5. resident_size = arc_recent_size' + arc_frequent_size'
        BY <2>1, <2>3, <3>1
      <3>6. /\ TotalSize(LinkedIn("Recent"))' = TotalSize(LinkedIn("Recent") \ {r})
            /\ TotalSize(LinkedIn("Frequent"))' = TotalSize(LinkedIn("Frequent") \cup {r})
        BY <3>2 DEF TotalSize, Bytes, SizeOf, KeyOf
      <3> QED BY <2>1, <3>1, <3>4, <3>5, <3>6
    <2>5. CASE ~(arc_list[r] = "Recent" /\ b)
      <3>1. arc_recent_size' = arc_recent_size /\ arc_frequent_size' = arc_frequent_size
            /\ arc_list' = arc_list
        BY <2>5 DEF Touched, TouchResident
      <3>2. \A name : LinkedIn(name)' = LinkedIn(name)
        BY <3>1 DEF LinkedIn
      <3> QED BY <2>1, <3>1, <3>2 DEF TotalSize, Bytes, SizeOf, KeyOf
    <2> QED BY <2>4, <2>5
  <1>4. AccountingExact'
    BY <1>1, <1>2, <1>3 DEF Accounting, AccountingExact, TotalSize, Bytes, SizeOf, KeyOf
  <1> QED BY <1>2, <1>4 DEF Accounting, CapacityRespected

(* remove_resident_locked, with the erasure from the map.                    *)
LEMMA RemoveKeepsLists ==
  ASSUME Residency, NEW r \in Ref, Removed(r)
  PROVE  /\ Residency'
         /\ r \in Resident /\ Resident' = Resident \ {r}
         /\ arc_list[r] # "None" /\ SizeOf(r) <= CacheSize
         /\ arc_list' = [arc_list EXCEPT ![r] = "None"]
  <1>1. r \in Resident /\ arc_list[r] \in {"Recent", "Frequent"} /\ SizeOf(r) <= CacheSize
    BY DEF Removed, Resident, Residency, NoDanglingPointer, LinkedIn
  <1>2. /\ entries' = [entries EXCEPT ![KeyOf(r)] = NoEntry]
        /\ arc_list' = [arc_list EXCEPT ![r] = "None"]
    BY <1>1 DEF Removed, RemoveResident
  <1>3. entries' \in [Key -> Ref \cup {NoEntry}]
        /\ arc_list' \in [Ref -> {"None", "Recent", "Frequent"}]
        /\ \A q \in Ref : arc_list'[q] # "None" => SizeOf(q) <= CacheSize
    BY <1>2 DEF Residency
  <1>4. Resident' = Resident \ {r}
    <2>1. ASSUME NEW q \in Ref
          PROVE  entries'[KeyOf(q)] = q <=> entries[KeyOf(q)] = q /\ q # r
      <3>1. KeyOf(q) \in Key /\ q # NoEntry /\ DOMAIN entries = Key
        BY SizeType, ConstantsAssumption DEF Residency
      <3>2. entries'[KeyOf(q)] = IF KeyOf(q) = KeyOf(r) THEN NoEntry ELSE entries[KeyOf(q)]
        BY <1>2, <3>1
      <3>3. entries[KeyOf(r)] = r
        BY DEF Removed, Mapped
      <3> QED BY <3>1, <3>2, <3>3
    <2> QED BY <2>1 DEF Resident, Mapped, KeyOf
  <1>5. /\ LinkedIn("Recent")' = LinkedIn("Recent") \ {r}
        /\ LinkedIn("Frequent")' = LinkedIn("Frequent") \ {r}
    BY <1>2 DEF LinkedIn, Residency
  <1>6. /\ arc_recent' \in Seq(Ref) /\ arc_frequent' \in Seq(Ref)
        /\ ToSet(arc_recent') = ToSet(arc_recent) \ {r}
        /\ ToSet(arc_frequent') = ToSet(arc_frequent) \ {r}
        /\ IsInjective(arc_recent') /\ IsInjective(arc_frequent')
    <2>1. CASE arc_list[r] = "Recent"
      <3>1. r \in ToSet(arc_recent) /\ r \notin ToSet(arc_frequent)
        BY <2>1 DEF Residency, NoDanglingPointer, LinkedIn
      <3>2. arc_recent' = Unlink(arc_recent, r) /\ arc_frequent' = arc_frequent
        BY <2>1 DEF Removed, RemoveResident
      <3> QED BY <3>1, <3>2, UnlinkSet DEF Residency, NoDanglingPointer
    <2>2. CASE arc_list[r] = "Frequent"
      <3>1. r \in ToSet(arc_frequent) /\ r \notin ToSet(arc_recent)
        BY <2>2 DEF Residency, NoDanglingPointer, LinkedIn
      <3>2. arc_frequent' = Unlink(arc_frequent, r) /\ arc_recent' = arc_recent
        BY <2>2 DEF Removed, RemoveResident
      <3> QED BY <3>1, <3>2, UnlinkSet DEF Residency, NoDanglingPointer
    <2> QED BY <1>1, <2>1, <2>2
  <1>7. NoDanglingPointer'
    BY <1>4, <1>5, <1>6 DEF NoDanglingPointer, Residency
  <1> QED BY <1>1, <1>2, <1>3, <1>4, <1>6, <1>7 DEF Residency, SizeOf, KeyOf

(* Counting without r gives the old count minus the bytes of r, if it was    *)
(* counted at all.                                                          *)
LEMMA TotalSizeWithout ==
  ASSUME NEW S \in SUBSET Ref, NEW r \in Ref, SizeOf(r) <= CacheSize
  PROVE  /\ TotalSize(S \ {r}) = TotalSize(S) - (IF r \in S THEN SizeOf(r) ELSE 0)
         /\ TotalSize(S) \in Nat /\ TotalSize(S \ {r}) \in Nat
  <1>1. TotalSize(S) \in Nat /\ TotalSize(S \ {r}) \in Nat
    BY TotalSizeIsWeight
  <1>2. CASE r \in S
    BY <1>1, <1>2, TotalSizeRemove
  <1>3. CASE r \notin S
    <2>1. S \ {r} = S
      BY <1>3
    <2> QED BY <1>1, <1>3, <2>1
  <1> QED BY <1>1, <1>2, <1>3

(* Counting with r gives the old count plus the bytes of r, if it counts.   *)
LEMMA TotalSizeWith ==
  ASSUME NEW S \in SUBSET Ref, NEW r \in Ref, r \notin S, SizeOf(r) <= CacheSize,
         NEW p \in BOOLEAN
  PROVE  /\ TotalSize(S \cup {q \in {r} : p}) = TotalSize(S) + (IF p THEN SizeOf(r) ELSE 0)
         /\ TotalSize(S) \in Nat /\ TotalSize(S \cup {q \in {r} : p}) \in Nat
  <1>1. TotalSize(S) \in Nat /\ TotalSize(S \cup {q \in {r} : p}) \in Nat
    BY TotalSizeIsWeight
  <1>2. CASE p
    <2>1. S \cup {q \in {r} : p} = S \cup {r}
      BY <1>2
    <2> QED BY <1>1, <1>2, <2>1, TotalSizeAdd
  <1>3. CASE ~p
    <2>1. S \cup {q \in {r} : p} = S
      BY <1>3
    <2> QED BY <1>1, <1>3, <2>1
  <1> QED BY <1>1, <1>2, <1>3

(* ... and takes its bytes from every counter they were charged to.         *)
LEMMA RemoveKeepsAccounts ==
  ASSUME Residency, Accounting, NEW r \in Ref, Removed(r)
  PROVE  Accounting'
  <1>1. /\ r \in Resident /\ Resident' = Resident \ {r}
        /\ arc_list[r] \in {"Recent", "Frequent"} /\ SizeOf(r) <= CacheSize
        /\ arc_list' = [arc_list EXCEPT ![r] = "None"]
    BY RemoveKeepsLists DEF Residency
  <1>2. /\ LinkedIn("Recent")' = LinkedIn("Recent") \ {r}
        /\ LinkedIn("Frequent")' = LinkedIn("Frequent") \ {r}
    BY <1>1 DEF LinkedIn, Residency
  <1>3. /\ resident_size' = resident_size - SizeOf(r)
        /\ arc_recent_size' = arc_recent_size - (IF arc_list[r] = "Recent" THEN SizeOf(r) ELSE 0)
        /\ arc_frequent_size'
               = arc_frequent_size - (IF arc_list[r] = "Frequent" THEN SizeOf(r) ELSE 0)
        /\ ResizeGroup(r, -SizeOf(r))
    <2>1. arc_recent_size \in Nat /\ arc_frequent_size \in Nat
      <3>1. LinkedIn("Recent") \in SUBSET Ref /\ LinkedIn("Frequent") \in SUBSET Ref
        BY DEF LinkedIn
      <3> QED BY <3>1, TotalSizeIsWeight DEF Accounting, AccountingExact
    <2>2. CASE arc_list[r] = "Recent"
      BY <2>1, <2>2 DEF Removed, RemoveResident
    <2>3. CASE arc_list[r] = "Frequent"
      BY <2>1, <2>3 DEF Removed, RemoveResident
    <2> QED BY <1>1, <2>2, <2>3
  <1>4. SizeOf(r) \in Nat /\ CacheSize \in Nat
    BY SizeType, ConstantsAssumption
  <1>5. /\ resident_size' = TotalSize(Resident \ {r})
        /\ resident_size \in Nat /\ resident_size' \in Nat
    <2>1. resident_size = TotalSize(Resident) /\ Resident \in SUBSET Ref
      BY DEF Accounting, AccountingExact, Resident
    <2>2. TotalSize(Resident \ {r}) = TotalSize(Resident) - SizeOf(r)
          /\ TotalSize(Resident) \in Nat /\ TotalSize(Resident \ {r}) \in Nat
      BY <1>1, <2>1, TotalSizeWithout
    <2> QED BY <1>3, <2>1, <2>2
  <1>6. /\ arc_recent_size' = TotalSize(LinkedIn("Recent") \ {r})
        /\ arc_frequent_size' = TotalSize(LinkedIn("Frequent") \ {r})
        /\ resident_size' = arc_recent_size' + arc_frequent_size'
    <2>1. /\ arc_recent_size = TotalSize(LinkedIn("Recent"))
          /\ arc_frequent_size = TotalSize(LinkedIn("Frequent"))
          /\ resident_size = arc_recent_size + arc_frequent_size
          /\ LinkedIn("Recent") \in SUBSET Ref /\ LinkedIn("Frequent") \in SUBSET Ref
          /\ r \in LinkedIn("Recent") <=> arc_list[r] = "Recent"
          /\ r \in LinkedIn("Frequent") <=> arc_list[r] = "Frequent"
      BY DEF Accounting, AccountingExact, LinkedIn
    <2>2. \A S \in SUBSET Ref : TotalSize(S) \in Nat
          /\ TotalSize(S \ {r}) = TotalSize(S) - (IF r \in S THEN SizeOf(r) ELSE 0)
      BY <1>1, TotalSizeWithout
    <2>3. arc_recent_size' = TotalSize(LinkedIn("Recent") \ {r})
      BY <1>3, <2>1, <2>2
    <2>4. arc_frequent_size' = TotalSize(LinkedIn("Frequent") \ {r})
      BY <1>3, <2>1, <2>2
    <2>5. arc_recent_size \in Nat /\ arc_frequent_size \in Nat
      BY <2>1, <2>2
    <2>6. resident_size' = arc_recent_size' + arc_frequent_size'
      BY <1>1, <1>3, <1>4, <2>1, <2>5
    <2> QED BY <2>3, <2>4, <2>6
  <1>7. ASSUME NEW g \in Group
        PROVE  /\ residency_group_sizes'[g] = TotalSize(OfGroup(g) \ {r})
               /\ residency_group_sizes'[g] \in Nat
    <2>1. residency_group_sizes'[g]
             = residency_group_sizes[g] - (IF r \in OfGroup(g) THEN SizeOf(r) ELSE 0)
      <3>1. r \in OfGroup(g) <=> g = GroupOf[KeyOf(r)]
        BY <1>1 DEF OfGroup
      <3>2. residency_group_sizes[g] \in Nat
        BY DEF Accounting
      <3>3. residency_group_sizes'[g] = IF g = GroupOf[KeyOf(r)]
                                        THEN residency_group_sizes[g] + (-SizeOf(r))
                                        ELSE residency_group_sizes[g]
        BY <1>3 DEF ResizeGroup
      <3> QED BY <1>4, <3>1, <3>2, <3>3
    <2>2. residency_group_sizes[g] = TotalSize(OfGroup(g)) /\ OfGroup(g) \in SUBSET Ref
      BY DEF Accounting, AccountingExact, OfGroup, Resident
    <2> QED BY <1>1, <2>1, <2>2, TotalSizeWithout
  <1>8. \A g \in Group : OfGroup(g)' = OfGroup(g) \ {r}
    BY <1>1 DEF OfGroup, KeyOf
  <1>9. residency_group_sizes' \in [Group -> Nat]
    BY <1>3, <1>7 DEF ResizeGroup
  <1>10. AccountingExact'
    BY <1>1, <1>2, <1>5, <1>6, <1>7, <1>8
       DEF AccountingExact, TotalSize, Bytes, SizeOf, KeyOf, OfGroup
  <1>11. CapacityRespected'
    BY <1>3, <1>4, <1>5 DEF Accounting, CapacityRespected
  <1> QED BY <1>9, <1>10, <1>11 DEF Accounting

(* insert_resident_locked of a new entry that fits.                          *)
LEMMA InsertKeepsLists ==
  ASSUME Residency, Accounting, NEW r \in Ref, NEW b \in BOOLEAN, Inserted(r, b)
  PROVE  /\ Residency'
         /\ r \notin Resident /\ Resident' = Resident \cup {r}
         /\ arc_list[r] = "None" /\ SizeOf(r) <= CacheSize
         /\ arc_list' = [arc_list EXCEPT ![r] = IF b THEN "Frequent" ELSE "Recent"]
  <1>1. resident_size \in Nat /\ CacheSize \in Nat /\ SizeOf(r) \in Nat
    <2>1. Resident \in SUBSET Ref
      BY DEF Resident
    <2> QED BY <2>1, SizeType, TotalSizeIsWeight, ConstantsAssumption
            DEF Accounting, AccountingExact
  <1>2. /\ resident_size <= CacheSize - SizeOf(r)
        /\ entries' = [entries EXCEPT ![KeyOf(r)] = r]
        /\ arc_list' = [arc_list EXCEPT ![r] = IF b THEN "Frequent" ELSE "Recent"]
    BY DEF Inserted, InsertResident
  <1>3. SizeOf(r) <= CacheSize
    BY <1>1, <1>2
  <1>4. r \notin Resident /\ arc_list[r] = "None"
    <2>1. r # NoEntry
      BY ConstantsAssumption
    <2>2. r \notin Resident
      BY <2>1 DEF Inserted, Resident, Mapped
    <2> QED BY <2>2 DEF Residency, NoDanglingPointer, LinkedIn
  <1>5. entries' \in [Key -> Ref \cup {NoEntry}]
        /\ arc_list' \in [Ref -> {"None", "Recent", "Frequent"}]
        /\ \A q \in Ref : arc_list'[q] # "None" => SizeOf(q) <= CacheSize
    BY <1>2, <1>3 DEF Residency
  <1>6. Resident' = Resident \cup {r}
    <2>1. ASSUME NEW q \in Ref
          PROVE  entries'[KeyOf(q)] = q <=> entries[KeyOf(q)] = q \/ q = r
      <3>1. KeyOf(q) \in Key /\ KeyOf(r) \in Key /\ q # NoEntry /\ DOMAIN entries = Key
        BY SizeType, ConstantsAssumption DEF Residency
      <3>2. entries'[KeyOf(q)] = IF KeyOf(q) = KeyOf(r) THEN r ELSE entries[KeyOf(q)]
        BY <1>2, <3>1
      <3>3. entries[KeyOf(r)] = NoEntry
        BY DEF Inserted
      <3> QED BY <3>1, <3>2, <3>3
    <2> QED BY <2>1 DEF Resident, Mapped, KeyOf
  <1>7. CASE b
    <2>1. arc_frequent' = Append(arc_frequent, r) /\ arc_recent' = arc_recent
          /\ arc_list' = [arc_list EXCEPT ![r] = "Frequent"]
      BY <1>2, <1>7 DEF Inserted, InsertResident
    <2>2. r \notin ToSet(arc_frequent)
      BY <1>4 DEF Residency, NoDanglingPointer, LinkedIn
    <2>3. /\ arc_recent' \in Seq(Ref) /\ arc_frequent' \in Seq(Ref)
          /\ ToSet(arc_recent') = ToSet(arc_recent)
          /\ ToSet(arc_frequent') = ToSet(arc_frequent) \cup {r}
          /\ IsInjective(arc_recent') /\ IsInjective(arc_frequent')
      BY <2>1, <2>2, AppendSet DEF Residency, NoDanglingPointer
    <2>4. /\ LinkedIn("Recent")' = LinkedIn("Recent")
          /\ LinkedIn("Frequent")' = LinkedIn("Frequent") \cup {r}
      BY <1>4, <2>1 DEF LinkedIn, Residency
    <2>5. NoDanglingPointer'
      BY <1>6, <2>3, <2>4 DEF NoDanglingPointer, Residency
    <2> QED BY <1>2, <1>3, <1>4, <1>5, <1>6, <2>3, <2>5 DEF Residency, SizeOf, KeyOf
  <1>8. CASE ~b
    <2>1. arc_recent' = Append(arc_recent, r) /\ arc_frequent' = arc_frequent
          /\ arc_list' = [arc_list EXCEPT ![r] = "Recent"]
      BY <1>2, <1>8 DEF Inserted, InsertResident
    <2>2. r \notin ToSet(arc_recent)
      BY <1>4 DEF Residency, NoDanglingPointer, LinkedIn
    <2>3. /\ arc_recent' \in Seq(Ref) /\ arc_frequent' \in Seq(Ref)
          /\ ToSet(arc_recent') = ToSet(arc_recent) \cup {r}
          /\ ToSet(arc_frequent') = ToSet(arc_frequent)
          /\ IsInjective(arc_recent') /\ IsInjective(arc_frequent')
      BY <2>1, <2>2, AppendSet DEF Residency, NoDanglingPointer
    <2>4. /\ LinkedIn("Recent")' = LinkedIn("Recent") \cup {r}
          /\ LinkedIn("Frequent")' = LinkedIn("Frequent")
      BY <1>4, <2>1 DEF LinkedIn, Residency
    <2>5. NoDanglingPointer'
      BY <1>6, <2>3, <2>4 DEF NoDanglingPointer, Residency
    <2> QED BY <1>2, <1>3, <1>4, <1>5, <1>6, <2>3, <2>5 DEF Residency, SizeOf, KeyOf
  <1> QED BY <1>7, <1>8

(* ... and charges its bytes to its list, its layer and the cache.          *)
LEMMA InsertKeepsAccounts ==
  ASSUME Residency, Accounting, NEW r \in Ref, NEW b \in BOOLEAN, Inserted(r, b)
  PROVE  Accounting'
  <1> DEFINE new(p) == {q \in {r} : p}
  <1>1. /\ r \notin Resident /\ Resident' = Resident \cup {r}
        /\ arc_list[r] = "None" /\ SizeOf(r) <= CacheSize
        /\ arc_list' = [arc_list EXCEPT ![r] = IF b THEN "Frequent" ELSE "Recent"]
    BY InsertKeepsLists
  <1>2. SizeOf(r) \in Nat /\ CacheSize \in Nat /\ GroupOf[KeyOf(r)] \in Int
    BY SizeType, ConstantsAssumption
  <1>3. /\ resident_size' = resident_size + SizeOf(r)
        /\ resident_size <= CacheSize - SizeOf(r)
        /\ ResizeGroup(r, SizeOf(r))
    BY DEF Inserted, InsertResident
  <1>4. /\ LinkedIn("Recent")' = LinkedIn("Recent") \cup new(~b)
        /\ LinkedIn("Frequent")' = LinkedIn("Frequent") \cup new(b)
        /\ r \notin LinkedIn("Recent") /\ r \notin LinkedIn("Frequent")
    BY <1>1 DEF LinkedIn, Residency
  <1>5. \A g \in Group : OfGroup(g)' = OfGroup(g) \cup new(GroupOf[KeyOf(r)] = g)
    BY <1>1 DEF OfGroup, KeyOf
  <1>6. /\ resident_size = TotalSize(Resident)
        /\ arc_recent_size = TotalSize(LinkedIn("Recent"))
        /\ arc_frequent_size = TotalSize(LinkedIn("Frequent"))
        /\ resident_size = arc_recent_size + arc_frequent_size
        /\ Resident \in SUBSET Ref
        /\ LinkedIn("Recent") \in SUBSET Ref /\ LinkedIn("Frequent") \in SUBSET Ref
    BY DEF Accounting, AccountingExact, LinkedIn, Resident
  <1>7. \A S \in SUBSET Ref : \A p \in BOOLEAN : r \notin S =>
            /\ TotalSize(S \cup new(p)) = TotalSize(S) + (IF p THEN SizeOf(r) ELSE 0)
            /\ TotalSize(S) \in Nat /\ TotalSize(S \cup new(p)) \in Nat
    BY <1>1, TotalSizeWith
  <1> HIDE DEF new
  <1>8. arc_recent_size \in Nat /\ arc_frequent_size \in Nat /\ resident_size \in Nat
    BY <1>6, TotalSizeIsWeight
  <1>9. /\ arc_recent_size' = arc_recent_size + (IF ~b THEN SizeOf(r) ELSE 0)
        /\ arc_frequent_size' = arc_frequent_size + (IF b THEN SizeOf(r) ELSE 0)
    BY <1>2, <1>8 DEF Inserted, InsertResident
  <1>10. /\ arc_recent_size' = TotalSize(LinkedIn("Recent") \cup new(~b))
         /\ arc_frequent_size' = TotalSize(LinkedIn("Frequent") \cup new(b))
    BY <1>4, <1>6, <1>7, <1>9
  <1>11. resident_size' = TotalSize(Resident \cup {r})
    BY <1>1, <1>3, <1>6, TotalSizeAdd
  <1>12. resident_size' = arc_recent_size' + arc_frequent_size'
    BY <1>2, <1>3, <1>6, <1>8, <1>9
  <1>13. ASSUME NEW g \in Group
         PROVE  /\ residency_group_sizes'[g]
                      = TotalSize(OfGroup(g) \cup new(GroupOf[KeyOf(r)] = g))
                /\ residency_group_sizes'[g] \in Nat
    <2>1. residency_group_sizes[g] = TotalSize(OfGroup(g)) /\ OfGroup(g) \in SUBSET Ref
          /\ r \notin OfGroup(g)
      BY <1>1 DEF Accounting, AccountingExact, OfGroup, Resident
    <2>2. residency_group_sizes[g] \in Nat
      BY DEF Accounting
    <2>3. residency_group_sizes'[g]
             = residency_group_sizes[g] + (IF GroupOf[KeyOf(r)] = g THEN SizeOf(r) ELSE 0)
      BY <1>2, <1>3, <2>2 DEF ResizeGroup
    <2> QED BY <1>7, <2>1, <2>3
  <1>14. residency_group_sizes' \in [Group -> Nat]
    BY <1>3, <1>13 DEF ResizeGroup
  <1>15. AccountingExact'
    <2>1. resident_size' = TotalSize(Resident)'
      BY <1>1, <1>11 DEF TotalSize, Bytes, SizeOf, KeyOf
    <2>2. /\ arc_recent_size' = TotalSize(LinkedIn("Recent"))'
          /\ arc_frequent_size' = TotalSize(LinkedIn("Frequent"))'
      BY <1>4, <1>10 DEF TotalSize, Bytes, SizeOf, KeyOf
    <2>3. \A g \in Group : residency_group_sizes'[g] = TotalSize(OfGroup(g))'
      BY <1>5, <1>13 DEF TotalSize, Bytes, SizeOf, KeyOf
    <2> QED BY <1>12, <2>1, <2>2, <2>3 DEF AccountingExact, OfGroup
  <1>16. CapacityRespected'
    BY <1>2, <1>3, <1>8 DEF CapacityRespected
  <1> QED BY <1>14, <1>15, <1>16 DEF Accounting

(* The lists and the counters stay exact through each kind of step.         *)
LEMMA ResidencyPreserved ==
  ASSUME Residency, Accounting, ResidencyStep
  PROVE  Residency' /\ Accounting'
  <1>1. CASE Untouched
    BY <1>1 DEF Untouched, arcVars, Residency, Accounting, NoDanglingPointer, AccountingExact,
                CapacityRespected, Resident, Mapped, LinkedIn, TotalSize, Bytes, SizeOf, KeyOf
  <1>2. CASE \E r \in Ref, b \in BOOLEAN : Touched(r, b)
    BY <1>2, TouchKeepsLists, TouchKeepsAccounts
  <1>3. CASE \E r \in Ref, b \in BOOLEAN : Inserted(r, b)
    BY <1>3, InsertKeepsLists, InsertKeepsAccounts
  <1>4. CASE \E r \in Ref : Removed(r)
    BY <1>4, RemoveKeepsLists, RemoveKeepsAccounts
  <1> QED BY <1>1, <1>2, <1>3, <1>4 DEF ResidencyStep
-----------------------------------------------------------------------------
(* The ghost lists and the adaptive target.                                 *)
GhostLists ==
    /\ arc_recent_target_size \in 0 .. CacheSize
    /\ recent_ghost \in Seq(Key) /\ frequent_ghost \in Seq(Key)
    /\ recent_ghost_size = GhostBytes(ToSet(recent_ghost))
    /\ frequent_ghost_size = GhostBytes(ToSet(frequent_ghost))
    /\ IsInjective(recent_ghost) /\ IsInjective(frequent_ghost)
    /\ ToSet(recent_ghost) \cap ToSet(frequent_ghost) = {}
    /\ \A k \in ToSet(recent_ghost) \cup ToSet(frequent_ghost) : Size[k] <= CacheSize

(* What a step may do to them: nothing, reload a key, remember an evicted    *)
(* pair, or trim.                                                           *)
GhostsUntouched == UNCHANGED <<ghostVars, arc_recent_target_size>>
Remembered(r) == arc_list[r] # "None" /\ AddGhost(r) /\ UNCHANGED arc_recent_target_size
Trimmed ==
    /\ ~GhostsFit
    /\ IF recent_ghost_size >= frequent_ghost_size /\ recent_ghost # << >>
       THEN /\ recent_ghost' = Tail(recent_ghost)
            /\ recent_ghost_size' = recent_ghost_size - Size[Head(recent_ghost)]
            /\ UNCHANGED <<frequent_ghost, frequent_ghost_size>>
       ELSE /\ frequent_ghost' = Tail(frequent_ghost)
            /\ frequent_ghost_size' = frequent_ghost_size - Size[Head(frequent_ghost)]
            /\ UNCHANGED <<recent_ghost, recent_ghost_size>>
    /\ UNCHANGED arc_recent_target_size
GhostStep ==
    \/ GhostsUntouched
    \/ \E k \in Key : ConsumeGhost(k)
    \/ \E r \in Ref : Remembered(r)
    \/ Trimmed

(* The bytes of a set of ghosts are the weight of the set.                  *)
LEMMA GhostBytesIsWeight ==
  ASSUME NEW S \in SUBSET Key
  PROVE  /\ IsFiniteSet(S)
         /\ GhostBytes(S) = Weight(S, CacheSize, Size) /\ GhostBytes(S) \in Nat
  <1>1. IsFiniteSet(S) /\ CacheSize \in Nat
    BY FS_Subset, ConstantsAssumption
  <1>2. GhostBytes(S) = Weight(S, CacheSize, Size)
    BY DEF GhostBytes, Weight
  <1>3. Weight(S, CacheSize, Size) \in Nat
    BY <1>1, WeightIsNat
  <1> QED BY <1>1, <1>2, <1>3

(* Dropping a ghost takes the bytes of its key.                             *)
LEMMA GhostBytesWithout ==
  ASSUME NEW S \in SUBSET Key, NEW k \in Key, Size[k] <= CacheSize
  PROVE  /\ GhostBytes(S \ {k}) = GhostBytes(S) - (IF k \in S THEN Size[k] ELSE 0)
         /\ GhostBytes((S \ {k}) \cup {k}) = GhostBytes(S \ {k}) + Size[k]
         /\ GhostBytes(S) \in Nat /\ GhostBytes(S \ {k}) \in Nat
  <1> DEFINE T == S \ {k}
  <1>1. CacheSize \in Nat /\ Size[k] \in Nat /\ Size[k] \in 0 .. CacheSize
    BY ConstantsAssumption
  <1>2. T \in SUBSET Key /\ T \cup {k} \in SUBSET Key /\ k \notin T
    OBVIOUS
  <1>3. /\ IsFiniteSet(S) /\ GhostBytes(S) = Weight(S, CacheSize, Size)
        /\ GhostBytes(S) \in Nat
    BY GhostBytesIsWeight
  <1>4. GhostBytes(T) = GhostBytes(S) - (IF k \in S THEN Size[k] ELSE 0)
    <2>1. CASE k \in S
      <3>1. Weight(T, CacheSize, Size) = Weight(S, CacheSize, Size) - Size[k]
        <4>1. IsFiniteSet(T)
          BY <1>2, GhostBytesIsWeight
        <4>2. OneMore(T, S, CacheSize, Size, k)
          BY <1>1, <2>1, <4>1 DEF OneMore
        <4> HIDE DEF T
        <4> QED BY <4>2, WeightOneMore
      <3>2. GhostBytes(T) = Weight(T, CacheSize, Size)
        BY <1>2, GhostBytesIsWeight
      <3> QED BY <1>3, <2>1, <3>1, <3>2
    <2>2. CASE k \notin S
      <3>1. T = S
        BY <2>2
      <3> QED BY <1>3, <2>2, <3>1
    <2> QED BY <2>1, <2>2
  <1> HIDE DEF T
  <1>5. GhostBytes(T \cup {k}) = GhostBytes(T) + Size[k] /\ GhostBytes(T) \in Nat
    <2>1. /\ IsFiniteSet(T) /\ GhostBytes(T) = Weight(T, CacheSize, Size)
          /\ GhostBytes(T) \in Nat
          /\ GhostBytes(T \cup {k}) = Weight(T \cup {k}, CacheSize, Size)
      BY <1>2, GhostBytesIsWeight
    <2>2. Weight(T \cup {k}, CacheSize, Size) = Weight(T, CacheSize, Size) + Size[k]
      <3> DEFINE U == T \cup {k}
      <3>1. OneMore(T, U, CacheSize, Size, k)
        BY <1>1, <1>2, <2>1 DEF OneMore
      <3> HIDE DEF U
      <3>2. Weight(U, CacheSize, Size) = Weight(T, CacheSize, Size) + Size[k]
        BY <3>1, WeightOneMore
      <3> USE DEF U
      <3> QED BY <3>2
    <2> QED BY <2>1, <2>2
  <1> QED BY <1>3, <1>4, <1>5 DEF T

(* The empty cache has no ghosts.                                           *)
LEMMA GhostInit == Init => GhostLists /\ GhostsFit
  <1> SUFFICES ASSUME Init PROVE GhostLists /\ GhostsFit
    OBVIOUS
  <1>1. GhostBytes({}) = 0
    BY WeightOfEmpty DEF GhostBytes, Weight
  <1>2. ToSet(recent_ghost) = {} /\ ToSet(frequent_ghost) = {}
    BY DEF Init, ToSet
  <1>3. IsInjective(recent_ghost) /\ IsInjective(frequent_ghost)
    BY DEF Init, IsInjective
  <1>4. /\ recent_ghost_size = 0 /\ frequent_ghost_size = 0 /\ arc_recent_target_size = 0
        /\ recent_ghost \in Seq(Key) /\ frequent_ghost \in Seq(Key)
        /\ CacheSize \in Nat
    BY ConstantsAssumption DEF Init
  <1>5. GhostLists
    BY <1>1, <1>2, <1>3, <1>4 DEF GhostLists
  <1>6. GhostsFit
    BY <1>4 DEF GhostsFit
  <1> QED BY <1>5, <1>6

(* Forgetting a key leaves the other ghosts.                                *)
LEMMA ForgetSet ==
  ASSUME NEW list \in Seq(Key), IsInjective(list), NEW k \in Key
  PROVE  /\ Forget(list, k) \in Seq(Key)
         /\ ToSet(Forget(list, k)) = ToSet(list) \ {k}
         /\ IsInjective(Forget(list, k))
  BY UnlinkSet DEF Forget

(* The adaptation step of the ARC target is a number of bytes within the    *)
(* cache.                                                                   *)
LEMMA ArcDeltaType ==
  ASSUME NEW required \in Nat \ {0}, NEW numerator \in Nat, NEW denominator \in Nat
  PROVE  ArcDelta(required, numerator, denominator) \in Nat
  <1> DEFINE ratio == numerator \div denominator
  <1>1. CASE denominator = 0 \/ numerator <= denominator
    BY <1>1 DEF ArcDelta
  <1>2. CASE ~(denominator = 0 \/ numerator <= denominator)
    <2>1. ratio \in Nat
      BY <1>2
    <2>2. ArcDelta(required, numerator, denominator)
             = IF ratio > CacheSize \div required THEN CacheSize
               ELSE Min2(CacheSize, Max2(required, required * ratio))
      BY <1>2 DEF ArcDelta
    <2> DEFINE product == required * ratio
    <2>3. product \in Int
      BY <2>1
    <2> HIDE DEF ratio, product
    <2>4. Min2(CacheSize, Max2(required, product)) \in Nat /\ CacheSize \in Nat
      BY <2>3, ConstantsAssumption DEF Min2, Max2
    <2> QED BY <2>2, <2>4 DEF product
  <1> QED BY <1>1, <1>2

(* A reload frees its ghost, and keeps the target within the cache.          *)
LEMMA ConsumeKeepsGhosts ==
  ASSUME GhostLists, NEW k \in Key, ConsumeGhost(k)
  PROVE  GhostLists' /\ (GhostsFit => GhostsFit')
  <1>1. /\ ToSet(recent_ghost) \in SUBSET Key /\ ToSet(frequent_ghost) \in SUBSET Key
        /\ recent_ghost_size \in Nat /\ frequent_ghost_size \in Nat
        /\ Size[k] \in Nat \ {0} /\ CacheSize \in Nat
    <2>1. ToSet(recent_ghost) \in SUBSET Key /\ ToSet(frequent_ghost) \in SUBSET Key
      BY ElementsOf DEF GhostLists
    <2> QED BY <2>1, GhostBytesIsWeight, ConstantsAssumption DEF GhostLists
  <1>2. CASE k \in ToSet(recent_ghost)
    <2> DEFINE delta == ArcDelta(Size[k], frequent_ghost_size, recent_ghost_size)
    <2>1. /\ recent_ghost' = Unlink(recent_ghost, k)
          /\ recent_ghost_size' = recent_ghost_size - Size[k]
          /\ arc_recent_target_size' = RaisedTarget(delta)
          /\ frequent_ghost' = frequent_ghost /\ frequent_ghost_size' = frequent_ghost_size
      BY <1>2 DEF ConsumeGhost, FreedGhost
    <2>2. delta \in Nat
      BY <1>1, ArcDeltaType
    <2> HIDE DEF delta
    <2>3. arc_recent_target_size' \in 0 .. CacheSize
      BY <1>1, <2>1, <2>2 DEF RaisedTarget, Min2, GhostLists
    <2>4. /\ recent_ghost' \in Seq(Key) /\ IsInjective(recent_ghost')
          /\ ToSet(recent_ghost') = ToSet(recent_ghost) \ {k}
      BY <1>2, <2>1, UnlinkSet DEF GhostLists
    <2>5. recent_ghost_size' = GhostBytes(ToSet(recent_ghost'))
      BY <1>1, <1>2, <2>1, <2>4, GhostBytesWithout DEF GhostLists
    <2>6. GhostsFit => GhostsFit'
      BY <1>1, <2>1 DEF GhostsFit
    <2> QED BY <2>1, <2>3, <2>4, <2>5, <2>6 DEF GhostLists, GhostBytes
  <1>3. CASE k \notin ToSet(recent_ghost) /\ k \in ToSet(frequent_ghost)
    <2> DEFINE delta == ArcDelta(Size[k], recent_ghost_size, frequent_ghost_size)
    <2>1. /\ frequent_ghost' = Unlink(frequent_ghost, k)
          /\ frequent_ghost_size' = frequent_ghost_size - Size[k]
          /\ arc_recent_target_size'
                 = arc_recent_target_size - Min2(delta, arc_recent_target_size)
          /\ recent_ghost' = recent_ghost /\ recent_ghost_size' = recent_ghost_size
      BY <1>3 DEF ConsumeGhost, FreedGhost
    <2>2. delta \in Nat
      BY <1>1, ArcDeltaType
    <2> HIDE DEF delta
    <2>3. arc_recent_target_size' \in 0 .. CacheSize
      BY <1>1, <2>1, <2>2 DEF Min2, GhostLists
    <2>4. /\ frequent_ghost' \in Seq(Key) /\ IsInjective(frequent_ghost')
          /\ ToSet(frequent_ghost') = ToSet(frequent_ghost) \ {k}
      BY <1>3, <2>1, UnlinkSet DEF GhostLists
    <2>5. frequent_ghost_size' = GhostBytes(ToSet(frequent_ghost'))
      BY <1>1, <1>3, <2>1, <2>4, GhostBytesWithout DEF GhostLists
    <2>6. GhostsFit => GhostsFit'
      BY <1>1, <2>1 DEF GhostsFit
    <2> QED BY <2>1, <2>3, <2>4, <2>5, <2>6 DEF GhostLists, GhostBytes
  <1>4. CASE k \notin ToSet(recent_ghost) /\ k \notin ToSet(frequent_ghost)
    <2>1. GhostsUntouched
      BY <1>4 DEF ConsumeGhost, GhostsUntouched
    <2> QED BY <2>1 DEF GhostsUntouched, ghostVars, GhostLists, GhostsFit, GhostBytes
  <1> QED BY <1>2, <1>3, <1>4

(* An eviction leaves one ghost of the pair, of the list it was evicted from.*)
LEMMA AddKeepsGhosts ==
  ASSUME Residency, GhostLists, NEW r \in Ref, Remembered(r)
  PROVE  GhostLists'
  <1> DEFINE k == KeyOf(r)
             recent == Forget(recent_ghost, k)
             frequent == Forget(frequent_ghost, k)
  <1>1. /\ k \in Key /\ Size[k] \in Nat \ {0} /\ Size[k] <= CacheSize
    BY SizeType DEF Remembered, Residency, SizeOf
  <1>2. /\ recent \in Seq(Key) /\ frequent \in Seq(Key)
        /\ ToSet(recent) = ToSet(recent_ghost) \ {k}
        /\ ToSet(frequent) = ToSet(frequent_ghost) \ {k}
        /\ IsInjective(recent) /\ IsInjective(frequent)
    BY <1>1, ForgetSet DEF GhostLists
  <1>3. /\ ToSet(recent_ghost) \in SUBSET Key /\ ToSet(frequent_ghost) \in SUBSET Key
        /\ recent_ghost_size \in Nat /\ frequent_ghost_size \in Nat
    <2>1. ToSet(recent_ghost) \in SUBSET Key /\ ToSet(frequent_ghost) \in SUBSET Key
      BY ElementsOf DEF GhostLists
    <2> QED BY <2>1, GhostBytesIsWeight DEF GhostLists
  <1>4. \A S \in SUBSET Key :
           /\ GhostBytes(S \ {k}) = GhostBytes(S) - (IF k \in S THEN Size[k] ELSE 0)
           /\ GhostBytes((S \ {k}) \cup {k}) = GhostBytes(S \ {k}) + Size[k]
           /\ GhostBytes(S) \in Nat /\ GhostBytes(S \ {k}) \in Nat
    BY <1>1, GhostBytesWithout
  <1>5. /\ recent_ghost_size - Share(recent_ghost, k) = GhostBytes(ToSet(recent_ghost) \ {k})
        /\ frequent_ghost_size - Share(frequent_ghost, k)
               = GhostBytes(ToSet(frequent_ghost) \ {k})
    BY <1>3, <1>4 DEF Share, GhostLists
  <1>6. arc_recent_target_size' \in 0 .. CacheSize
    BY DEF Remembered, GhostLists
  <1> HIDE DEF k, recent, frequent
  <1>7. CASE arc_list[r] = "Recent"
    <2>1. /\ recent_ghost' = Append(recent, k) /\ frequent_ghost' = frequent
          /\ recent_ghost_size' = recent_ghost_size - Share(recent_ghost, k) + Size[k]
          /\ frequent_ghost_size' = frequent_ghost_size - Share(frequent_ghost, k) + 0
      BY <1>7 DEF Remembered, AddGhost, k, recent, frequent
    <2>2. /\ recent_ghost' \in Seq(Key) /\ frequent_ghost' \in Seq(Key)
          /\ ToSet(recent_ghost') = (ToSet(recent_ghost) \ {k}) \cup {k}
          /\ ToSet(frequent_ghost') = ToSet(frequent_ghost) \ {k}
          /\ IsInjective(recent_ghost') /\ IsInjective(frequent_ghost')
      BY <1>1, <1>2, <2>1, AppendSet
    <2>3. /\ recent_ghost_size' = GhostBytes(ToSet(recent_ghost'))
          /\ frequent_ghost_size' = GhostBytes(ToSet(frequent_ghost'))
      <3>1. Size[k] \in Nat /\ GhostBytes(ToSet(recent_ghost) \ {k}) \in Nat
            /\ GhostBytes(ToSet(frequent_ghost) \ {k}) \in Nat
        BY <1>1, <1>3, <1>4
      <3>2. /\ GhostBytes(ToSet(recent_ghost'))
                   = GhostBytes(ToSet(recent_ghost) \ {k}) + Size[k]
            /\ GhostBytes(ToSet(frequent_ghost')) = GhostBytes(ToSet(frequent_ghost) \ {k})
        BY <1>3, <1>4, <2>2
      <3> QED BY <1>5, <2>1, <3>1, <3>2
    <2> QED BY <1>1, <1>6, <2>2, <2>3 DEF GhostLists, GhostBytes
  <1>8. CASE arc_list[r] # "Recent"
    <2>1. /\ recent_ghost' = recent /\ frequent_ghost' = Append(frequent, k)
          /\ recent_ghost_size' = recent_ghost_size - Share(recent_ghost, k) + 0
          /\ frequent_ghost_size' = frequent_ghost_size - Share(frequent_ghost, k) + Size[k]
      BY <1>8 DEF Remembered, AddGhost, k, recent, frequent
    <2>2. /\ recent_ghost' \in Seq(Key) /\ frequent_ghost' \in Seq(Key)
          /\ ToSet(recent_ghost') = ToSet(recent_ghost) \ {k}
          /\ ToSet(frequent_ghost') = (ToSet(frequent_ghost) \ {k}) \cup {k}
          /\ IsInjective(recent_ghost') /\ IsInjective(frequent_ghost')
      BY <1>1, <1>2, <2>1, AppendSet
    <2>3. /\ recent_ghost_size' = GhostBytes(ToSet(recent_ghost'))
          /\ frequent_ghost_size' = GhostBytes(ToSet(frequent_ghost'))
      <3>1. Size[k] \in Nat /\ GhostBytes(ToSet(recent_ghost) \ {k}) \in Nat
            /\ GhostBytes(ToSet(frequent_ghost) \ {k}) \in Nat
        BY <1>1, <1>3, <1>4
      <3>2. /\ GhostBytes(ToSet(recent_ghost')) = GhostBytes(ToSet(recent_ghost) \ {k})
            /\ GhostBytes(ToSet(frequent_ghost'))
                   = GhostBytes(ToSet(frequent_ghost) \ {k}) + Size[k]
        BY <1>3, <1>4, <2>2
      <3> QED BY <1>5, <2>1, <3>1, <3>2
    <2> QED BY <1>1, <1>6, <2>2, <2>3 DEF GhostLists, GhostBytes
  <1> QED BY <1>7, <1>8

(* Trimming finds a ghost to drop while the ghosts outgrow the cache.        *)
LEMMA TrimKeepsGhosts ==
  ASSUME GhostLists, Trimmed
  PROVE  GhostLists'
  <1>1. /\ ToSet(recent_ghost) \in SUBSET Key /\ ToSet(frequent_ghost) \in SUBSET Key
        /\ recent_ghost_size \in Nat /\ frequent_ghost_size \in Nat
        /\ CacheSize \in Nat
    <2>1. ToSet(recent_ghost) \in SUBSET Key /\ ToSet(frequent_ghost) \in SUBSET Key
      BY ElementsOf DEF GhostLists
    <2> QED BY <2>1, GhostBytesIsWeight, ConstantsAssumption DEF GhostLists
  <1>2. GhostBytes({}) = 0
    BY WeightOfEmpty DEF GhostBytes, Weight
  <1>3. /\ recent_ghost = << >> => recent_ghost_size = 0
        /\ frequent_ghost = << >> => frequent_ghost_size = 0
    <2>1. \A list : list = << >> => ToSet(list) = {}
      BY DEF ToSet
    <2> QED BY <1>2, <2>1 DEF GhostLists
  <1>4. CASE recent_ghost_size >= frequent_ghost_size /\ recent_ghost # << >>
    <2> DEFINE k == Head(recent_ghost)
    <2>1. /\ recent_ghost' = Tail(recent_ghost)
          /\ recent_ghost_size' = recent_ghost_size - Size[k]
          /\ frequent_ghost' = frequent_ghost /\ frequent_ghost_size' = frequent_ghost_size
      BY <1>4 DEF Trimmed
    <2>2. /\ k \in ToSet(recent_ghost)
          /\ recent_ghost' \in Seq(Key) /\ IsInjective(recent_ghost')
          /\ ToSet(recent_ghost') = ToSet(recent_ghost) \ {k}
      BY <1>4, <2>1, TailSet DEF GhostLists
    <2> HIDE DEF k
    <2>3. recent_ghost_size' = GhostBytes(ToSet(recent_ghost'))
      BY <1>1, <2>1, <2>2, GhostBytesWithout, ZenonT(60) DEF GhostLists
    <2> QED BY <2>1, <2>2, <2>3 DEF GhostLists, GhostBytes, Trimmed
  <1>5. CASE ~(recent_ghost_size >= frequent_ghost_size /\ recent_ghost # << >>)
    <2> DEFINE k == Head(frequent_ghost)
    <2>1. /\ frequent_ghost' = Tail(frequent_ghost)
          /\ frequent_ghost_size' = frequent_ghost_size - Size[k]
          /\ recent_ghost' = recent_ghost /\ recent_ghost_size' = recent_ghost_size
      BY <1>5 DEF Trimmed
    <2>2. frequent_ghost # << >>
      <3>1. recent_ghost_size + frequent_ghost_size > CacheSize
        BY <1>1 DEF Trimmed, GhostsFit
      <3>2. recent_ghost_size < frequent_ghost_size \/ recent_ghost_size = 0
        BY <1>1, <1>3, <1>5
      <3>3. frequent_ghost_size # 0
        BY <1>1, <3>1, <3>2
      <3> QED BY <1>3, <3>3
    <2>3. /\ k \in ToSet(frequent_ghost)
          /\ frequent_ghost' \in Seq(Key) /\ IsInjective(frequent_ghost')
          /\ ToSet(frequent_ghost') = ToSet(frequent_ghost) \ {k}
      BY <2>1, <2>2, TailSet DEF GhostLists
    <2> HIDE DEF k
    <2>4. frequent_ghost_size' = GhostBytes(ToSet(frequent_ghost'))
      BY <1>1, <2>1, <2>3, GhostBytesWithout, ZenonT(60) DEF GhostLists
    <2> QED BY <2>1, <2>3, <2>4 DEF GhostLists, GhostBytes, Trimmed
  <1> QED BY <1>4, <1>5

(* The ghost lists stay exact through each kind of step.                    *)
LEMMA GhostsPreserved ==
  ASSUME Residency, GhostLists, GhostStep
  PROVE  GhostLists'
  <1>1. CASE GhostsUntouched
    BY <1>1 DEF GhostsUntouched, ghostVars, GhostLists, GhostBytes
  <1> QED BY <1>1, ConsumeKeepsGhosts, AddKeepsGhosts, TrimKeepsGhosts DEF GhostStep

-----------------------------------------------------------------------------
(* The threads: types, and what each program counter implies.               *)
EntryTypes ==
    /\ state \in [Ref -> {"Queued", "Loading", "Ready", "Failed"}]
    /\ flags \in [Ref -> SUBSET {"Speculative", "FirstExactMiss", "DiscardWhenReady"}]
    /\ exact \in [Ref -> BOOLEAN]
    /\ host \subseteq Ref
QueueTypes ==
    /\ high_priority \in Seq(Ref) /\ low_priority \in Seq(Ref)
    /\ stopping \in BOOLEAN
LockTypes ==
    /\ mutex \in Client \cup Worker \cup {Nobody}
    /\ asleep \subseteq Client \cup Worker
WorkerTypes ==
    /\ wpc \in [Worker -> {"pop", "window", "gather", "load", "publish", "drop",
                           "retire", "notify", "exit"}]
    /\ lane \in [Worker -> {"high", "low"}]
    /\ batch \in [Worker -> SUBSET Ref] /\ errors \in [Worker -> SUBSET Ref]
    /\ cursor \in [Worker -> Nat \ {0}]
ClientTypes ==
    /\ pc \in [Client -> {"out", "admit", "evict", "nap", "return", "await", "take",
                          "try", "resolve", "idle"}]
    /\ call \in [Client -> Calls \cup {NoCall}]
    /\ held \in [Client -> Seq(Ref)] /\ leases \in [Client -> SUBSET Ref]
    /\ hint \in [Client -> [frequent : BOOLEAN, ghost : BOOLEAN]]

(* A call that admits pairs has pairs left to admit; one that waits for or   *)
(* takes its pairs holds some; and a call in the middle of a critical        *)
(* section has the mutex, so that the key it is admitting stays absent.      *)
Admitting(c) == call[c] \in Calls /\ Len(held[c]) < Len(call[c].keys)
Control(c) ==
    /\ pc[c] = "out" => held[c] = << >>
    /\ pc[c] \in {"admit", "evict", "nap"} => Admitting(c)
    /\ pc[c] \in {"await", "take"} => held[c] # << >>
    /\ pc[c] = "try" => call[c] \in Calls /\ call[c].keys # << >>
    /\ pc[c] \in {"evict", "take"} => mutex = c
    /\ pc[c] = "evict" => entries[NextKey(c)] = NoEntry /\ Size[NextKey(c)] <= CacheSize
ThreadsInv ==
    /\ EntryTypes /\ QueueTypes /\ LockTypes /\ WorkerTypes /\ ClientTypes
    /\ \A c \in Client : Control(c)

(* Ghosts outgrow the cache only inside the admission that trims them.       *)
GhostsTrimmed == GhostsFit \/ \E c \in Client : pc[c] = "evict"

(* The entries of the reads that active_jobs counts, worker by worker.       *)
MaxJobs == Cardinality(Ref)
Counted(w) == IF wpc[w] \in {"load", "publish", "drop"} THEN Cardinality(batch[w])
              ELSE IF wpc[w] = "retire" THEN completed[w] ELSE 0
Jobs ==
    /\ completed \in [Worker -> 0 .. MaxJobs]
    /\ active_jobs = Weight(Worker, MaxJobs, [w \in Worker |-> Counted(w)])
IInv == Residency /\ Accounting /\ GhostLists /\ ThreadsInv /\ GhostsTrimmed /\ Jobs

-----------------------------------------------------------------------------
(* What the actions that touch entries do, in terms of the entry they pick.  *)
LEMMA NextKeyType ==
  ASSUME ClientTypes, NEW c \in Client, Admitting(c)
  PROVE  /\ NextKey(c) \in Key
         /\ Speculates(c) \in BOOLEAN
         /\ call[c].keys \in Seq(Key)
  <1>1. call[c] \in CallType
    BY ConstantsAssumption DEF Admitting
  <1>2. call[c].keys \in Seq(Key) /\ call[c].op \in Operation
    BY <1>1 DEF CallType
  <1>3. Len(held[c]) \in Nat /\ Len(call[c].keys) \in Nat
    BY <1>2, LenProperties DEF ClientTypes
  <1>4. Len(held[c]) + 1 \in 1 .. Len(call[c].keys)
    BY <1>3 DEF Admitting
  <1> QED BY <1>2, <1>4, ElementOfSeq DEF NextKey, Speculates

(* One round of the admission loop takes out one linked entry of the map.   *)
LEMMA EvictEffect ==
  ASSUME Residency, ClientTypes, NEW c \in Client, Control(c), Evict(c)
  PROVE  \E r \in Ref :
            /\ Removed(r) /\ arc_list[r] # "None" /\ state[r] = "Ready" /\ ~Pinned(r)
            /\ state' = [state EXCEPT ![r] = "Failed"]
            /\ UNCHANGED ghostVars \/ AddGhost(r)
            /\ flags' = [flags EXCEPT ![r] = {}] /\ exact' = [exact EXCEPT ![r] = FALSE]
  <1>1. Admitting(c) /\ pc[c] = "evict"
    BY DEF Control, Evict
  <1>2. NextKey(c) \in Key /\ Speculates(c) \in BOOLEAN
    BY <1>1, NextKeyType
  <1>3. PICK onDevice \in SUBSET DeviceKeys :
          \E r \in {Victim(NextKey(c), Speculates(c), hint[c].ghost, onDevice)} \ {NoEntry} :
              /\ RemoveResident(r)
              /\ state' = [state EXCEPT ![r] = "Failed"]
              /\ IF Has(r, "Speculative") THEN UNCHANGED ghostVars ELSE AddGhost(r)
    BY DEF Evict
  <1> DEFINE r == Victim(NextKey(c), Speculates(c), hint[c].ghost, onDevice)
  <1>4. /\ r # NoEntry
        /\ RemoveResident(r) /\ state' = [state EXCEPT ![r] = "Failed"]
        /\ UNCHANGED ghostVars \/ AddGhost(r)
    BY <1>3
  <1>5. r \in Ref /\ Mapped(r) /\ state[r] = "Ready" /\ ~Pinned(r)
    BY <1>2, <1>4, VictimIsEvictable DEF Residency
  <1> HIDE DEF r
  <1>6. flags' = [flags EXCEPT ![r] = {}] /\ exact' = [exact EXCEPT ![r] = FALSE]
    BY <1>4 DEF RemoveResident
  <1>7. Removed(r)
    BY <1>5, <1>4 DEF Removed
  <1>8. arc_list[r] # "None"
    BY <1>5, <1>7, RemoveKeepsLists
  <1> QED BY <1>5, <1>4, <1>6, <1>7, <1>8

(* An admission maps and queues a new object of the absent key.             *)
LEMMA InsertEffect ==
  ASSUME Residency, ClientTypes, NEW c \in Client, Control(c), Insert(c)
  PROVE  \E r \in Ref :
            /\ KeyOf(r) = NextKey(c) /\ NextKey(c) \in Key /\ ~Pinned(r)
            /\ Inserted(r, hint[c].frequent) /\ hint[c].frequent \in BOOLEAN
            /\ state' = [state EXCEPT ![r] = "Queued"]
            /\ flags' = [flags EXCEPT ![r] =
                            {IF Speculates(c) THEN "Speculative" ELSE "FirstExactMiss"}]
            /\ exact' = [exact EXCEPT ![r] = FALSE]
            /\ IF Speculates(c)
               THEN low_priority' = Append(low_priority, r) /\ UNCHANGED high_priority
               ELSE high_priority' = Append(high_priority, r) /\ UNCHANGED low_priority
            /\ Admitted(c, r)
  <1> DEFINE k == NextKey(c)
             r == <<k, CHOOSE n \in Free(k) : TRUE>>
  <1>1. Admitting(c) /\ pc[c] = "evict"
    BY DEF Control, Insert
  <1>2. k \in Key
    BY <1>1, NextKeyType
  <1>3. Free(k) # {} /\ Free(k) \subseteq Copy
    BY DEF Insert, Free
  <1>4. r \in Ref /\ KeyOf(r) = k /\ ~Pinned(r)
    BY <1>2, <1>3 DEF Ref, KeyOf, Free
  <1>5. entries[k] = NoEntry
    BY <1>1 DEF Control
  <1>6. resident_size <= CacheSize - SizeOf(r)
    BY <1>4 DEF Insert, Fits, SizeOf
  <1>7. /\ entries' = [entries EXCEPT ![k] = r]
        /\ state' = [state EXCEPT ![r] = "Queued"]
        /\ flags' = [flags EXCEPT ![r] =
                        {IF Speculates(c) THEN "Speculative" ELSE "FirstExactMiss"}]
        /\ exact' = [exact EXCEPT ![r] = FALSE]
        /\ InsertResident(r, hint[c].frequent)
        /\ IF Speculates(c)
           THEN low_priority' = Append(low_priority, r) /\ UNCHANGED high_priority
           ELSE high_priority' = Append(high_priority, r) /\ UNCHANGED low_priority
        /\ Admitted(c, r)
    BY DEF Insert
  <1>8. hint[c].frequent \in BOOLEAN
    BY DEF ClientTypes
  <1> HIDE DEF r
  <1>9. Inserted(r, hint[c].frequent)
    BY <1>4, <1>5, <1>6, <1>7 DEF Inserted
  <1> QED BY <1>2, <1>4, <1>7, <1>8, <1>9

(* pop_first_ready_locked: the front of a lane leaves it, up to and including*)
(* the first entry that is still queued, which starts loading.              *)
LEMMA PopEffect ==
  ASSUME QueueTypes, NEW w \in Worker, Pop(w)
  PROVE  LET name == IF high_priority # << >> THEN "high" ELSE "low"
             queue == IF high_priority # << >> THEN high_priority ELSE low_priority
         IN  \E rest \in Seq(Ref) :
                /\ SetLane(name, rest)
                /\ \/ UNCHANGED <<state, batch, lane, cursor, active_jobs, mutex, wpc>>
                      /\ asleep' = NotifyIfIdle
                   \/ \E r \in Ref :
                        /\ state' = [state EXCEPT ![r] = "Loading"]
                        /\ batch' = [batch EXCEPT ![w] = {r}]
                        /\ lane' = [lane EXCEPT ![w] = name]
                        /\ \/ /\ wpc' = [wpc EXCEPT ![w] = "load"]
                              /\ active_jobs' = active_jobs + 1
                              /\ UNCHANGED <<mutex, cursor>>
                           \/ /\ wpc' \in {[wpc EXCEPT ![w] = "window"],
                                           [wpc EXCEPT ![w] = "gather"]}
                              /\ mutex' \in {Nobody, w}
                              /\ cursor' = [cursor EXCEPT ![w] = 1]
                              /\ UNCHANGED active_jobs
                        /\ UNCHANGED asleep
  <1> DEFINE name == IF high_priority # << >> THEN "high" ELSE "low"
             queue == IF high_priority # << >> THEN high_priority ELSE low_priority
             live == {i \in DOMAIN queue : state[queue[i]] = "Queued"}
             first == CHOOSE i \in live : \A j \in live : i <= j
             rest == IF live = {} THEN << >> ELSE SubSeq(queue, first + 1, Len(queue))
             r == queue[first]
  <1>1. queue \in Seq(Ref) /\ DOMAIN queue = 1 .. Len(queue) /\ Len(queue) \in Nat
    <2>1. queue \in Seq(Ref)
      BY DEF QueueTypes
    <2> QED BY <2>1, LenProperties
  <1>2. /\ SetLane(name, rest)
        /\ IF live = {}
           THEN /\ UNCHANGED <<state, batch, lane, cursor, active_jobs, mutex, wpc>>
                /\ asleep' = NotifyIfIdle
           ELSE /\ state' = [state EXCEPT ![r] = "Loading"]
                /\ batch' = [batch EXCEPT ![w] = {r}]
                /\ lane' = [lane EXCEPT ![w] = name]
                /\ IF ~Coalesces
                   THEN /\ wpc' = [wpc EXCEPT ![w] = "load"]
                        /\ active_jobs' = active_jobs + 1
                        /\ UNCHANGED <<mutex, cursor>>
                   ELSE /\ wpc' = [wpc EXCEPT ![w] = IF rest = << >> THEN "window" ELSE "gather"]
                        /\ mutex' = IF rest = << >> THEN Nobody ELSE w
                        /\ cursor' = [cursor EXCEPT ![w] = 1]
                        /\ UNCHANGED active_jobs
                /\ UNCHANGED asleep
    BY DEF Pop
  <1>3. CASE live = {}
    <2>1. rest = << >>
      BY <1>3
    <2>2. rest \in Seq(Ref)
      BY <2>1, EmptySeq
    <2> HIDE DEF rest, live
    <2> QED BY <1>2, <1>3, <2>2
  <1>4. CASE live # {}
    <2>1. live \subseteq Nat
      BY <1>1
    <2> HIDE DEF live
    <2>2. first \in live
      BY <1>4, <2>1, LeastNumber
    <2> USE DEF live
    <2> HIDE DEF first
    <2>3. first \in 1 .. Len(queue) /\ r \in Ref
      BY <1>1, <2>2, ElementOfSeq
    <2>4. rest \in Seq(Ref)
      <3>1. \A i \in first + 1 .. Len(queue) : queue[i] \in Ref
        BY <1>1, <2>3, ElementOfSeq
      <3>2. SubSeq(queue, first + 1, Len(queue)) \in Seq(Ref)
        BY <1>1, <2>3, <3>1, SubSeqProperties, first + 1 \in Int, Len(queue) \in Int
      <3> QED BY <1>4, <3>2
    <2> HIDE DEF rest, live, r
    <2> QED BY <1>2, <1>4, <2>3, <2>4
  <1> QED BY <1>3, <1>4
-----------------------------------------------------------------------------
(* Each group of variables keeps its types.                                 *)
LEMMA EntryTypesPreserved ==
  ASSUME Residency, Accounting, ThreadsInv, Next
  PROVE  EntryTypes'
  <1> USE DEF ThreadsInv
  <1>1. ASSUME UNCHANGED entryVars
        PROVE  EntryTypes'
    BY <1>1 DEF entryVars, EntryTypes
  <1>2. ASSUME NEW c \in Client,
               Start(c) \/ EnqueueTooLarge(c) \/ EnqueueAbsent(c) \/ TrimGhost(c)
               \/ Exhausted(c) \/ Nap(c) \/ Return(c) \/ AwaitReady(c) \/ TryAcquire(c)
               \/ Release(c) \/ ResolveEnd(c) \/ AwaitIdle(c)
        PROVE  UNCHANGED entryVars
    BY <1>2 DEF Start, EnqueueTooLarge, EnqueueAbsent, TrimGhost, Exhausted, Nap, Return,
                AwaitReady, TryAcquire, Release, ResolveEnd, AwaitIdle, cacheVars
  <1>3. ASSUME NEW w \in Worker,
               PopNothing(w) \/ Window(w) \/ GatherEnd(w) \/ Load(w) \/ DropBatch(w)
               \/ Retire(w) \/ Notify(w)
        PROVE  UNCHANGED entryVars
    BY <1>3 DEF PopNothing, Window, GatherEnd, Load, DropBatch, Retire, Notify, cacheVars
  <1>4. ASSUME Stop \/ Finished
        PROVE  UNCHANGED entryVars
    BY <1>4 DEF Stop, Finished, vars, cacheVars
  <1>5. ASSUME NEW c \in Client, EnqueueMapped(c)
        PROVE  EntryTypes'
    <2>1. Admitting(c)
      BY <1>5 DEF EnqueueMapped, Control
    <2>2. entries[NextKey(c)] \in Ref
      BY <1>5, <2>1, NextKeyType DEF EnqueueMapped, Residency
    <2>3. UNCHANGED <<state, exact, host>>
      BY <1>5 DEF EnqueueMapped
    <2>4. \/ flags' = [flags EXCEPT ![entries[NextKey(c)]] = ExactFlags(entries[NextKey(c)])]
          \/ flags' = flags
      BY <1>5 DEF EnqueueMapped
    <2> QED BY <2>2, <2>3, <2>4 DEF EntryTypes, ExactFlags
  <1>6. ASSUME NEW r \in Ref, RemoveResident(r)
        PROVE  /\ flags' \in [Ref -> SUBSET {"Speculative", "FirstExactMiss", "DiscardWhenReady"}]
               /\ exact' \in [Ref -> BOOLEAN] /\ host' \subseteq Ref
    <2>1. host' \subseteq host
      BY <1>6 DEF RemoveResident, DropHostToken
    <2> QED BY <1>6, <2>1 DEF RemoveResident, EntryTypes
  <1>7. ASSUME NEW c \in Client, Evict(c)
        PROVE  EntryTypes'
    <2>1. PICK r \in Ref : Removed(r) /\ state' = [state EXCEPT ![r] = "Failed"]
      BY <1>7, EvictEffect
    <2> QED BY <1>6, <2>1 DEF EntryTypes, Removed
  <1>8. ASSUME NEW c \in Client, Insert(c)
        PROVE  EntryTypes'
    <2>1. PICK r \in Ref :
            /\ state' = [state EXCEPT ![r] = "Queued"]
            /\ flags' = [flags EXCEPT ![r] =
                            {IF Speculates(c) THEN "Speculative" ELSE "FirstExactMiss"}]
            /\ exact' = [exact EXCEPT ![r] = FALSE]
      BY <1>8, InsertEffect
    <2>2. host' = host
      BY <1>8 DEF Insert
    <2> QED BY <2>1, <2>2 DEF EntryTypes
  <1>9. ASSUME NEW c \in Client, TakeLease(c)
        PROVE  EntryTypes'
    <2>1. held[c] # << >> /\ held[c] \in Seq(Ref)
      BY <1>9 DEF TakeLease, Control, ClientTypes
    <2> DEFINE r == Head(held[c])
    <2>2. r \in Ref
      BY <2>1, HeadTailProperties
    <2>3. /\ exact' = exact \/ exact' = [exact EXCEPT ![r] = TRUE]
          /\ flags' = flags
             \/ flags' = [flags EXCEPT ![r] = @ \ {"Speculative", "FirstExactMiss"}]
          /\ UNCHANGED <<state, host>>
      BY <1>9 DEF TakeLease
    <2> HIDE DEF r
    <2> QED BY <2>2, <2>3 DEF EntryTypes
  <1>10. ASSUME NEW c \in Client, ResolveOne(c)
         PROVE  EntryTypes'
    <2>1. PICK r \in Mispredicted(c) :
            \/ /\ flags' = [flags EXCEPT ![r] = @ \cup {"DiscardWhenReady"}]
               /\ UNCHANGED <<state, exact, host>>
            \/ /\ state' = [state EXCEPT ![r] = IF @ = "Queued" THEN "Failed" ELSE @]
               /\ RemoveResident(r)
      BY <1>10 DEF ResolveOne
    <2>2. r \in Ref
      BY DEF Mispredicted, Resident
    <2> QED BY <1>6, <2>1, <2>2 DEF EntryTypes
  <1>11. ASSUME NEW w \in Worker, Pop(w)
         PROVE  EntryTypes'
    <2>1. state' = state \/ \E r \in Ref : state' = [state EXCEPT ![r] = "Loading"]
      BY <1>11, PopEffect
    <2>2. UNCHANGED <<flags, exact, host>>
      BY <1>11 DEF Pop
    <2> QED BY <2>1, <2>2 DEF EntryTypes
  <1>12. ASSUME NEW w \in Worker, Gather(w)
         PROVE  EntryTypes'
    <2>1. state' = state \/ \E r : state' = [state EXCEPT ![r] = "Loading"]
      BY <1>12 DEF Gather
    <2>2. UNCHANGED <<flags, exact, host>>
      BY <1>12 DEF Gather
    <2> QED BY <2>1, <2>2 DEF EntryTypes
  <1>13. ASSUME NEW w \in Worker, Publish(w)
         PROVE  EntryTypes'
    <2>1. PICK r \in batch[w] :
            IF Fails(w, r)
            THEN /\ state' = [state EXCEPT ![r] = "Failed"]
                 /\ IF Mapped(r) THEN RemoveResident(r)
                                 ELSE UNCHANGED <<entries, flags, exact, arcVars, host>>
            ELSE /\ state' = [state EXCEPT ![r] = "Ready"]
                 /\ host' = host \cup {r}
                 /\ UNCHANGED <<entries, flags, exact, arcVars>>
      BY <1>13 DEF Publish
    <2>2. r \in Ref
      BY <2>1 DEF WorkerTypes
    <2>3. state' \in [Ref -> {"Queued", "Loading", "Ready", "Failed"}]
      BY <2>1 DEF EntryTypes
    <2>4. CASE Fails(w, r) /\ Mapped(r)
      BY <1>6, <2>1, <2>2, <2>3, <2>4 DEF EntryTypes
    <2>5. CASE ~(Fails(w, r) /\ Mapped(r))
      BY <2>1, <2>2, <2>3, <2>5 DEF EntryTypes
    <2> QED BY <2>4, <2>5
  <1>14. ASSUME Withdraw
         PROVE  EntryTypes'
    BY <1>14 DEF Withdraw, EntryTypes
  <1> QED BY <1>1, <1>2, <1>3, <1>4, <1>5, <1>7, <1>8, <1>9, <1>10, <1>11, <1>12, <1>13, <1>14
          DEF Next, ClientStep, WorkerStep

(* The two deques only hold Entry objects.                                  *)
LEMMA QueueTypesPreserved ==
  ASSUME Residency, ThreadsInv, Next
  PROVE  QueueTypes'
  <1> USE DEF ThreadsInv
  <1>1. ASSUME UNCHANGED <<high_priority, low_priority, stopping>>
        PROVE  QueueTypes'
    BY <1>1 DEF QueueTypes
  <1>2. ASSUME NEW c \in Client,
               Start(c) \/ EnqueueTooLarge(c) \/ EnqueueAbsent(c) \/ Evict(c) \/ TrimGhost(c)
               \/ Exhausted(c) \/ Nap(c) \/ Return(c) \/ AwaitReady(c) \/ TryAcquire(c)
               \/ TakeLease(c) \/ Release(c) \/ ResolveOne(c) \/ ResolveEnd(c) \/ AwaitIdle(c)
        PROVE  UNCHANGED <<high_priority, low_priority, stopping>>
    BY <1>2 DEF Start, EnqueueTooLarge, EnqueueAbsent, Evict, TrimGhost, Exhausted, Nap, Return,
                AwaitReady, TryAcquire, TakeLease, Release, ResolveOne, ResolveEnd, AwaitIdle,
                queueVars
  <1>3. ASSUME NEW w \in Worker,
               PopNothing(w) \/ Window(w) \/ GatherEnd(w) \/ Load(w) \/ Publish(w)
               \/ DropBatch(w) \/ Retire(w) \/ Notify(w)
        PROVE  UNCHANGED <<high_priority, low_priority, stopping>>
    BY <1>3 DEF PopNothing, Window, GatherEnd, Load, Publish, DropBatch, Retire, Notify,
                queueVars
  <1>4. ASSUME Withdraw \/ Finished
        PROVE  UNCHANGED <<high_priority, low_priority, stopping>>
    BY <1>4 DEF Withdraw, Finished, vars, queueVars
  <1>5. ASSUME NEW c \in Client, EnqueueMapped(c)
        PROVE  QueueTypes'
    <2>1. Admitting(c)
      BY <1>5 DEF EnqueueMapped, Control
    <2>2. entries[NextKey(c)] \in Ref
      BY <1>5, <2>1, NextKeyType DEF EnqueueMapped, Residency
    <2>3. /\ high_priority' = high_priority
             \/ high_priority' = Append(high_priority, entries[NextKey(c)])
          /\ UNCHANGED <<low_priority, stopping>>
      BY <1>5 DEF EnqueueMapped, Requeued
    <2> QED BY <2>2, <2>3, AppendProperties DEF QueueTypes
  <1>6. ASSUME NEW c \in Client, Insert(c)
        PROVE  QueueTypes'
    <2>1. PICK r \in Ref :
            IF Speculates(c)
            THEN low_priority' = Append(low_priority, r) /\ UNCHANGED high_priority
            ELSE high_priority' = Append(high_priority, r) /\ UNCHANGED low_priority
      BY <1>6, InsertEffect
    <2>2. stopping' = stopping
      BY <1>6 DEF Insert
    <2>3. Append(low_priority, r) \in Seq(Ref) /\ Append(high_priority, r) \in Seq(Ref)
      BY AppendProperties DEF QueueTypes
    <2> QED BY <2>1, <2>2, <2>3 DEF QueueTypes
  <1>7. ASSUME NEW w \in Worker, Pop(w)
        PROVE  QueueTypes'
    <2>1. PICK rest \in Seq(Ref), name \in {"high", "low"} : SetLane(name, rest)
      BY <1>7, PopEffect
    <2>2. stopping' = stopping
      BY <1>7 DEF Pop
    <2> QED BY <2>1, <2>2 DEF SetLane, QueueTypes
  <1>8. ASSUME NEW w \in Worker, Gather(w)
        PROVE  QueueTypes'
    <2>1. Lane(w) \in Seq(Ref) /\ cursor[w] \in 1 .. Len(Lane(w))
      <3>1. Lane(w) \in Seq(Ref)
        BY DEF Lane, QueueTypes
      <3>2. Len(Lane(w)) \in Nat
        BY <3>1, LenProperties
      <3>3. cursor[w] \in Nat \ {0} /\ cursor[w] <= Len(Lane(w))
        BY <1>8 DEF Gather, WorkerTypes
      <3> QED BY <3>1, <3>2, <3>3
    <2>2. RemoveAt(Lane(w), cursor[w]) \in Seq(Ref)
      BY <2>1, RemoveAtSet
    <2>3. /\ \/ SetLane(lane[w], RemoveAt(Lane(w), cursor[w]))
             \/ UNCHANGED <<high_priority, low_priority>>
          /\ stopping' = stopping
      BY <1>8 DEF Gather
    <2> QED BY <2>2, <2>3 DEF SetLane, QueueTypes
  <1>9. ASSUME Stop
        PROVE  QueueTypes'
    BY <1>9, EmptySeq DEF Stop, QueueTypes
  <1> QED BY <1>1, <1>2, <1>3, <1>4, <1>5, <1>6, <1>7, <1>8, <1>9
          DEF Next, ClientStep, WorkerStep

(* Only clients and workers lock the mutex or sleep.                        *)
LEMMA LockTypesPreserved ==
  ASSUME ThreadsInv, Next
  PROVE  LockTypes'
  <1> USE DEF ThreadsInv, LockTypes
  <1>1. ASSUME NEW c \in Client,
               Start(c) \/ EnqueueTooLarge(c) \/ Evict(c) \/ TrimGhost(c) \/ Nap(c)
               \/ Return(c) \/ Release(c)
        PROVE  LockTypes'
    BY <1>1 DEF Start, EnqueueTooLarge, Evict, TrimGhost, Nap, Return, Release
  <1>2. ASSUME NEW c \in Client,
               EnqueueAbsent(c) \/ Exhausted(c) \/ TryAcquire(c) \/ TakeLease(c)
               \/ ResolveOne(c)
        PROVE  LockTypes'
    BY <1>2 DEF EnqueueAbsent, Exhausted, TryAcquire, TakeLease, ResolveOne
  <1>3. ASSUME NEW c \in Client,
               EnqueueMapped(c) \/ Insert(c) \/ AwaitReady(c) \/ ResolveEnd(c) \/ AwaitIdle(c)
        PROVE  LockTypes'
    BY <1>3 DEF EnqueueMapped, Insert, AwaitReady, ResolveEnd, AwaitIdle, NotifyWork, NotifyIdle
  <1>4. ASSUME NEW w \in Worker, Pop(w)
        PROVE  LockTypes'
    <2>1. /\ asleep' = NotifyIfIdle \/ asleep' = asleep
          /\ mutex' = mutex \/ mutex' = Nobody \/ mutex' = w
      BY <1>4 DEF Pop
    <2> QED BY <2>1 DEF NotifyIfIdle, NotifyIdle
  <1>5. ASSUME NEW w \in Worker,
               PopNothing(w) \/ Window(w) \/ Gather(w) \/ GatherEnd(w) \/ Load(w)
               \/ DropBatch(w)
        PROVE  LockTypes'
    BY <1>5 DEF PopNothing, Window, Gather, GatherEnd, Load, DropBatch
  <1>6. ASSUME NEW w \in Worker, Publish(w) \/ Retire(w) \/ Notify(w)
        PROVE  LockTypes'
    BY <1>6 DEF Publish, Retire, Notify, NotifyIfIdle, NotifyIdle, NotifyReady
  <1>7. ASSUME Stop \/ Withdraw \/ Finished
        PROVE  LockTypes'
    BY <1>7 DEF Stop, Withdraw, Finished, vars, NotifyWork
  <1> QED BY <1>1, <1>2, <1>3, <1>4, <1>5, <1>6, <1>7 DEF Next, ClientStep, WorkerStep

(* A worker gathers and fails Entry objects only.                           *)
LEMMA WorkerTypesPreserved ==
  ASSUME ThreadsInv, Next
  PROVE  WorkerTypes'
  <1> USE DEF ThreadsInv
  <1>1. ASSUME UNCHANGED workerVars
        PROVE  WorkerTypes'
    BY <1>1 DEF workerVars, WorkerTypes
  <1>2. ASSUME NEW c \in Client,
               Start(c) \/ EnqueueTooLarge(c) \/ EnqueueMapped(c) \/ EnqueueAbsent(c)
               \/ Evict(c) \/ TrimGhost(c) \/ Insert(c) \/ Exhausted(c)
        PROVE  UNCHANGED workerVars
    BY <1>2 DEF Start, EnqueueTooLarge, EnqueueMapped, EnqueueAbsent, Evict, TrimGhost, Insert,
                Exhausted
  <1>3. ASSUME NEW c \in Client,
               Nap(c) \/ Return(c) \/ AwaitReady(c) \/ TryAcquire(c) \/ TakeLease(c)
               \/ Release(c) \/ ResolveOne(c) \/ ResolveEnd(c) \/ AwaitIdle(c)
        PROVE  UNCHANGED workerVars
    BY <1>3 DEF Nap, Return, AwaitReady, TryAcquire, TakeLease, Release, ResolveOne, ResolveEnd,
                AwaitIdle
  <1>4. ASSUME Stop \/ Withdraw \/ Finished
        PROVE  UNCHANGED workerVars
    BY <1>4 DEF Stop, Withdraw, Finished, vars
  <1>5. ASSUME NEW w \in Worker, Pop(w)
        PROVE  WorkerTypes'
    <2>1. errors' = errors
      BY <1>5 DEF Pop
    <2>2. CASE UNCHANGED <<batch, lane, cursor, wpc>>
      BY <2>1, <2>2 DEF WorkerTypes
    <2>3. CASE ~UNCHANGED <<batch, lane, cursor, wpc>>
      <3>1. PICK r \in Ref, name \in {"high", "low"} :
              /\ batch' = [batch EXCEPT ![w] = {r}]
              /\ lane' = [lane EXCEPT ![w] = name]
              /\ wpc' \in {[wpc EXCEPT ![w] = "load"], [wpc EXCEPT ![w] = "window"],
                           [wpc EXCEPT ![w] = "gather"]}
              /\ cursor' = cursor \/ cursor' = [cursor EXCEPT ![w] = 1]
        BY <1>5, <2>3, PopEffect
      <3> QED BY <2>1, <3>1 DEF WorkerTypes
    <2> QED BY <2>2, <2>3
  <1>6. ASSUME NEW w \in Worker, Gather(w)
        PROVE  WorkerTypes'
    <2> DEFINE r == Lane(w)[cursor[w]]
    <2>1. r \in Ref
      <3>1. Lane(w) \in Seq(Ref)
        BY DEF Lane, QueueTypes
      <3>2. Len(Lane(w)) \in Nat
        BY <3>1, LenProperties
      <3>3. cursor[w] \in 1 .. Len(Lane(w))
        BY <1>6, <3>2 DEF Gather, WorkerTypes
      <3> QED BY <3>1, <3>3, ElementOfSeq
    <2>2. /\ cursor' = cursor \/ cursor' = [cursor EXCEPT ![w] = @ + 1]
          /\ batch' = batch \/ batch' = [batch EXCEPT ![w] = @ \cup {r}]
          /\ UNCHANGED <<wpc, lane, errors>>
      BY <1>6 DEF Gather
    <2> HIDE DEF r
    <2> QED BY <2>1, <2>2 DEF WorkerTypes
  <1>7. ASSUME NEW w \in Worker,
               PopNothing(w) \/ Window(w) \/ GatherEnd(w) \/ Publish(w) \/ Notify(w)
        PROVE  WorkerTypes'
    <2>1. /\ wpc' = wpc \/ \E next \in {"exit", "gather", "load", "drop", "publish", "pop"} :
                               wpc' = [wpc EXCEPT ![w] = next]
          /\ cursor' = cursor \/ cursor' = [cursor EXCEPT ![w] = 1]
          /\ UNCHANGED <<lane, batch, errors>>
      BY <1>7 DEF PopNothing, Window, GatherEnd, Publish, Notify
    <2> QED BY <2>1 DEF WorkerTypes
  <1>8. ASSUME NEW w \in Worker, Load(w) \/ DropBatch(w) \/ Retire(w)
        PROVE  WorkerTypes'
    BY <1>8 DEF Load, DropBatch, Retire, WorkerTypes
  <1> QED BY <1>1, <1>2, <1>3, <1>4, <1>5, <1>6, <1>7, <1>8 DEF Next, ClientStep, WorkerStep

(* A call that returns leaves a client without a call.                      *)
LEMMA FinishTypes ==
  ASSUME ClientTypes, NEW c \in Client, Finish(c), leases' = leases
  PROVE  ClientTypes'
  BY EmptySeq DEF Finish, ClientTypes

(* An admission pins an Entry object.                                       *)
LEMMA AdmittedTypes ==
  ASSUME ClientTypes, NEW c \in Client, NEW r \in Ref, Admitted(c, r), leases' = leases
  PROVE  ClientTypes'
  <1>1. Append(held[c], r) \in Seq(Ref)
    BY AppendProperties DEF ClientTypes
  <1>2. /\ held' = [held EXCEPT ![c] = Append(held[c], r)]
        /\ \E next \in {"admit", "return", "await"} : pc' = [pc EXCEPT ![c] = next]
        /\ hint' = [hint EXCEPT ![c] = [frequent |-> FALSE, ghost |-> FALSE]]
        /\ call' = call
    BY DEF Admitted, ClientTypes
  <1> QED BY <1>1, <1>2 DEF ClientTypes

(* A client makes one of the calls of the model and pins Entry objects.     *)
LEMMA ClientTypesPreserved ==
  ASSUME Residency, Accounting, ThreadsInv, Next
  PROVE  ClientTypes'
  <1> USE DEF ThreadsInv
  <1>1. ASSUME UNCHANGED clientVars
        PROVE  ClientTypes'
    BY <1>1 DEF clientVars, ClientTypes
  <1>2. ASSUME NEW c \in Client, Evict(c) \/ TrimGhost(c) \/ ResolveOne(c)
        PROVE  UNCHANGED clientVars
    BY <1>2 DEF Evict, TrimGhost, ResolveOne
  <1>3. ASSUME NEW w \in Worker, WorkerStep(w)
        PROVE  UNCHANGED clientVars
    BY <1>3 DEF WorkerStep, Pop, PopNothing, Window, Gather, GatherEnd, Load, Publish,
                DropBatch, Retire, Notify
  <1>4. ASSUME Stop \/ Withdraw \/ Finished
        PROVE  UNCHANGED clientVars
    BY <1>4 DEF Stop, Withdraw, Finished, vars
  <1>5. ASSUME NEW c \in Client, Start(c)
        PROVE  ClientTypes'
    <2>1. PICK request \in Calls :
            /\ call' = [call EXCEPT ![c] = request]
            /\ \E next \in {"try", "resolve", "idle", "admit"} : pc' = [pc EXCEPT ![c] = next]
            /\ leases' = leases \/ leases' = [leases EXCEPT ![c] = {}]
            /\ UNCHANGED <<held, hint>>
      BY <1>5 DEF Start
    <2> QED BY <2>1 DEF ClientTypes
  <1>6. ASSUME NEW c \in Client, EnqueueTooLarge(c) \/ Return(c) \/ ResolveEnd(c)
        PROVE  ClientTypes'
    BY <1>6, FinishTypes DEF EnqueueTooLarge, Return, ResolveEnd
  <1>7. ASSUME NEW c \in Client, EnqueueMapped(c)
        PROVE  ClientTypes'
    <2>1. Admitting(c)
      BY <1>7 DEF EnqueueMapped, Control
    <2>2. entries[NextKey(c)] \in Ref
      BY <1>7, <2>1, NextKeyType DEF EnqueueMapped, Residency
    <2>3. Admitted(c, entries[NextKey(c)]) /\ leases' = leases
      BY <1>7 DEF EnqueueMapped
    <2> QED BY <2>2, <2>3, AdmittedTypes
  <1>8. ASSUME NEW c \in Client, EnqueueAbsent(c)
        PROVE  ClientTypes'
    <2>1. /\ \E f, g \in BOOLEAN : hint' = [hint EXCEPT ![c] = [frequent |-> f, ghost |-> g]]
          /\ pc' = [pc EXCEPT ![c] = "evict"]
          /\ UNCHANGED <<call, held, leases>>
      <3> DEFINE f == ~Speculates(c) /\ InGhost(NextKey(c))
                 g == f /\ NextKey(c) \notin ToSet(recent_ghost)
      <3>1. f \in BOOLEAN /\ g \in BOOLEAN
        OBVIOUS
      <3>2. hint' = [hint EXCEPT ![c] = [frequent |-> f, ghost |-> g]]
        BY <1>8 DEF EnqueueAbsent
      <3> HIDE DEF f, g
      <3>3. pc' = [pc EXCEPT ![c] = "evict"] /\ UNCHANGED <<call, held, leases>>
        BY <1>8 DEF EnqueueAbsent
      <3> QED BY <3>1, <3>2, <3>3
    <2> QED BY <2>1 DEF ClientTypes
  <1>9. ASSUME NEW c \in Client, Insert(c)
        PROVE  ClientTypes'
    <2>1. \E r \in Ref : Admitted(c, r)
      BY <1>9, InsertEffect
    <2>2. leases' = leases
      BY <1>9 DEF Insert
    <2> QED BY <2>1, <2>2, AdmittedTypes
  <1>10. ASSUME NEW c \in Client, Exhausted(c)
         PROVE  ClientTypes'
    <2>1. CASE call[c].op \in {"prefetch", "acquire"}
      BY <1>10, <2>1, FinishTypes DEF Exhausted
    <2>2. CASE call[c].op \notin {"prefetch", "acquire"}
      <3>1. /\ \E next \in {"return", "nap", "await"} : pc' = [pc EXCEPT ![c] = next]
            /\ hint' = [hint EXCEPT ![c] = [frequent |-> FALSE, ghost |-> FALSE]]
            /\ UNCHANGED <<call, held, leases>>
        BY <1>10, <2>2 DEF Exhausted
      <3> QED BY <3>1 DEF ClientTypes
    <2> QED BY <2>1, <2>2
  <1>11. ASSUME NEW c \in Client, Nap(c)
         PROVE  ClientTypes'
    <2>1. CASE stopping
      BY <1>11, <2>1, FinishTypes DEF Nap
    <2>2. CASE ~stopping
      <3>1. pc' = [pc EXCEPT ![c] = "admit"] /\ UNCHANGED <<call, held, hint, leases>>
        BY <1>11, <2>2 DEF Nap
      <3> QED BY <3>1 DEF ClientTypes
    <2> QED BY <2>1, <2>2
  <1>12. ASSUME NEW c \in Client, AwaitReady(c)
         PROVE  ClientTypes'
    <2>1. /\ \/ Finish(c)
             \/ /\ pc' = pc \/ pc' = [pc EXCEPT ![c] = "take"]
                /\ UNCHANGED <<call, held, hint>>
          /\ leases' = leases
      BY <1>12 DEF AwaitReady
    <2>2. CASE Finish(c)
      BY <2>1, <2>2, FinishTypes
    <2>3. CASE (pc' = pc \/ pc' = [pc EXCEPT ![c] = "take"]) /\ UNCHANGED <<call, held, hint>>
      BY <2>1, <2>3 DEF ClientTypes
    <2> QED BY <2>1, <2>2, <2>3
  <1>13. ASSUME NEW c \in Client, TryAcquire(c)
         PROVE  ClientTypes'
    <2> DEFINE keys == call[c].keys
               all == \A k \in ToSet(keys) : entries[k] # NoEntry /\ state[entries[k]] = "Ready"
               found == [i \in 1 .. Len(keys) |-> entries[keys[i]]]
    <2>1. leases' = leases
      BY <1>13 DEF TryAcquire
    <2>2. CASE ~all
      <3>1. Finish(c)
        BY <1>13, <2>2 DEF TryAcquire
      <3> QED BY <2>1, <3>1, FinishTypes
    <2>3. CASE all
      <3>1. keys \in Seq(Key)
        <4>1. call[c] \in CallType
          BY <1>13, ConstantsAssumption DEF TryAcquire, Control
        <4> QED BY <4>1 DEF CallType
      <3>2. Len(keys) \in Nat /\ \A i \in 1 .. Len(keys) : keys[i] \in ToSet(keys) /\ keys[i] \in Key
        BY <3>1, LenProperties, ElementOfSeq DEF ToSet
      <3>3. \A i \in 1 .. Len(keys) : entries[keys[i]] \in Ref
        BY <2>3, <3>2 DEF Residency
      <3>4. found \in [1 .. Len(keys) -> Ref]
        BY <3>3
      <3>5. /\ held' = [held EXCEPT ![c] = found]
            /\ pc' = [pc EXCEPT ![c] = "take"]
            /\ UNCHANGED <<call, hint>>
        BY <1>13, <2>3 DEF TryAcquire
      <3> HIDE DEF found, keys, all
      <3>6. found \in Seq(Ref)
        BY <3>2, <3>4, SeqDef
      <3> QED BY <2>1, <3>5, <3>6 DEF ClientTypes
    <2> QED BY <2>2, <2>3
  <1>14. ASSUME NEW c \in Client, TakeLease(c)
         PROVE  ClientTypes'
    <2> DEFINE r == Head(held[c])
    <2>1. held[c] # << >> /\ held[c] \in Seq(Ref)
      BY <1>14 DEF TakeLease, Control, ClientTypes
    <2>2. r \in Ref /\ Tail(held[c]) \in Seq(Ref)
      BY <2>1, HeadTailProperties
    <2>3. /\ leases' = leases \/ leases' = [leases EXCEPT ![c] = @ \cup {r}]
          /\ \/ Finish(c)
             \/ held' = [held EXCEPT ![c] = Tail(@)] /\ UNCHANGED <<pc, call, hint>>
      BY <1>14 DEF TakeLease
    <2> HIDE DEF r
    <2>4. leases' \in [Client -> SUBSET Ref]
      <3>1. leases \in [Client -> SUBSET Ref] /\ leases[c] \cup {r} \in SUBSET Ref
        BY <2>2 DEF ClientTypes
      <3> QED BY <2>3, <3>1
    <2>5. CASE Finish(c)
      BY <2>4, <2>5, EmptySeq DEF Finish, ClientTypes
    <2>6. CASE held' = [held EXCEPT ![c] = Tail(@)] /\ UNCHANGED <<pc, call, hint>>
      BY <2>2, <2>4, <2>6 DEF ClientTypes
    <2> QED BY <2>3, <2>5, <2>6
  <1>15. ASSUME NEW c \in Client, Release(c)
         PROVE  ClientTypes'
    BY <1>15 DEF Release, ClientTypes
  <1>16. ASSUME NEW c \in Client, AwaitIdle(c)
         PROVE  ClientTypes'
    <2>1. CASE Quiet
      BY <1>16, <2>1, FinishTypes DEF AwaitIdle
    <2>2. CASE ~Quiet
      BY <1>16, <2>2 DEF AwaitIdle, ClientTypes
    <2> QED BY <2>1, <2>2
  <1> QED BY <1>1, <1>2, <1>3, <1>4, <1>5, <1>6, <1>7, <1>8, <1>9, <1>10, <1>11, <1>12, <1>13,
             <1>14, <1>15, <1>16
          DEF Next, ClientStep

(* What the others do leaves a call where it is, and cannot change the map   *)
(* while the call has the mutex.                                            *)
LEMMA OthersLeaveCall ==
  ASSUME ThreadsInv, NEW c \in Client,
         \/ \E d \in Client \ {c} : Start(d) \/ ClientStep(d) \/ Release(d)
         \/ \E w \in Worker : WorkerStep(w)
         \/ Stop \/ Withdraw \/ Finished
  PROVE  /\ pc'[c] = pc[c] /\ call'[c] = call[c] /\ held'[c] = held[c]
         /\ mutex = c => mutex' = c /\ entries' = entries
  <1> DEFINE Same == pc'[c] = pc[c] /\ call'[c] = call[c] /\ held'[c] = held[c]
             Kept == mutex = c => mutex' = c /\ entries' = entries
  <1> USE DEF ThreadsInv, ClientTypes
  <1>1. ASSUME NEW d \in Client \ {c}, Finish(d)
        PROVE  Same
    BY <1>1 DEF Finish
  <1>2. ASSUME NEW d \in Client \ {c}, NEW r, Admitted(d, r)
        PROVE  Same
    BY <1>2 DEF Admitted
  <1>3. ASSUME NEW d \in Client \ {c}, Start(d) \/ EnqueueTooLarge(d) \/ Return(d) \/ Release(d)
        PROVE  Same /\ Kept
    <2>1. UNCHANGED <<mutex, entries>>
      BY <1>3 DEF Start, EnqueueTooLarge, Return, Release, cacheVars
    <2>2. Same
      BY <1>1, <1>3 DEF Start, EnqueueTooLarge, Return, Release
    <2> QED BY <2>1, <2>2
  <1>4. ASSUME NEW d \in Client \ {c}, EnqueueMapped(d)
        PROVE  Same /\ Kept
    <2>1. UNCHANGED <<mutex, entries>> /\ Admitted(d, entries[NextKey(d)])
      BY <1>4 DEF EnqueueMapped
    <2> QED BY <1>2, <2>1
  <1>5. ASSUME NEW d \in Client \ {c}, EnqueueAbsent(d)
        PROVE  Same /\ Kept
    <2>1. mutex = Nobody /\ pc' = [pc EXCEPT ![d] = "evict"] /\ UNCHANGED <<call, held>>
      BY <1>5 DEF EnqueueAbsent
    <2> QED BY <2>1, ConstantsAssumption
  <1>6. ASSUME NEW d \in Client \ {c}, Evict(d) \/ TrimGhost(d) \/ ResolveOne(d)
        PROVE  Same /\ Kept
    <2>1. mutex \in {Nobody, d} /\ UNCHANGED clientVars
      BY <1>6 DEF Evict, TrimGhost, ResolveOne
    <2> QED BY <2>1, ConstantsAssumption DEF clientVars
  <1>7. ASSUME NEW d \in Client \ {c}, Insert(d)
        PROVE  Same /\ Kept
    <2>1. mutex = d /\ \E r : Admitted(d, r)
      BY <1>7 DEF Insert
    <2> QED BY <1>2, <2>1
  <1>8. ASSUME NEW d \in Client \ {c}, Exhausted(d)
        PROVE  Same /\ Kept
    <2>1. mutex = d
      BY <1>8 DEF Exhausted
    <2>2. Same
      BY <1>1, <1>8 DEF Exhausted
    <2> QED BY <2>1, <2>2
  <1>9. ASSUME NEW d \in Client \ {c}, Nap(d) \/ AwaitReady(d) \/ TryAcquire(d) \/ AwaitIdle(d)
        PROVE  Same /\ Kept
    <2>1. mutex = Nobody
      BY <1>9 DEF Nap, AwaitReady, TryAcquire, AwaitIdle
    <2>2. Same
      BY <1>1, <1>9 DEF Nap, AwaitReady, TryAcquire, AwaitIdle
    <2> QED BY <2>1, <2>2, ConstantsAssumption
  <1>10. ASSUME NEW d \in Client \ {c}, TakeLease(d) \/ ResolveEnd(d)
         PROVE  Same /\ Kept
    <2>1. mutex \in {Nobody, d}
      BY <1>10 DEF TakeLease, ResolveEnd
    <2>2. Same
      BY <1>1, <1>10 DEF TakeLease, ResolveEnd
    <2> QED BY <2>1, <2>2, ConstantsAssumption
  <1>11. ASSUME NEW w \in Worker, WorkerStep(w)
         PROVE  Same /\ Kept
    <2>1. UNCHANGED clientVars
      BY <1>11 DEF WorkerStep, Pop, PopNothing, Window, Gather, GatherEnd, Load, Publish,
                  DropBatch, Retire, Notify
    <2>2. mutex \in {Nobody, w} \/ UNCHANGED <<mutex, entries>>
      BY <1>11 DEF WorkerStep, Pop, PopNothing, Window, Gather, GatherEnd, Load, Publish,
                  DropBatch, Retire, Notify, cacheVars
    <2> QED BY <2>1, <2>2, ConstantsAssumption DEF clientVars
  <1>12. ASSUME Stop \/ Withdraw \/ Finished
         PROVE  Same /\ Kept
    BY <1>12 DEF Stop, Withdraw, Finished, vars, clientVars, cacheVars
  <1> QED BY <1>3, <1>4, <1>5, <1>6, <1>7, <1>8, <1>9, <1>10, <1>11, <1>12 DEF ClientStep

(* An admission or an end of a call leaves it in order.                      *)
LEMMA FinishControl ==
  ASSUME ClientTypes, NEW c \in Client, Finish(c)
  PROVE  Control(c)'
  <1>1. pc'[c] = "out" /\ held'[c] = << >>
    BY DEF Finish, ClientTypes
  <1> QED BY <1>1 DEF Control

(* An admission goes on to the next key, or to wait for what it holds.      *)
LEMMA AdmittedControl ==
  ASSUME ClientTypes, NEW c \in Client, NEW r \in Ref, Admitting(c), Admitted(c, r)
  PROVE  Control(c)'
  <1>1. /\ held'[c] = Append(held[c], r) /\ call'[c] = call[c]
        /\ pc'[c] = IF Len(held[c]) + 1 < Len(call[c].keys) THEN "admit"
                    ELSE IF call[c].op \in {"prefetch", "request"} THEN "return" ELSE "await"
    BY DEF Admitted, ClientTypes
  <1>2. Len(held'[c]) = Len(held[c]) + 1 /\ held'[c] # << >>
    BY <1>1, AppendProperties DEF ClientTypes
  <1> QED BY <1>1, <1>2 DEF Control, Admitting

(* No step leaves a call in an impossible place.                            *)
LEMMA ControlPreserved ==
  ASSUME Residency, Accounting, ThreadsInv, Next, NEW c \in Client
  PROVE  Control(c)'
  <1> USE DEF ThreadsInv
  <1>0. Control(c)
    OBVIOUS
  <1>1. ASSUME pc'[c] = pc[c], call'[c] = call[c], held'[c] = held[c],
               mutex = c => mutex' = c /\ entries' = entries
        PROVE  Control(c)'
    BY <1>0, <1>1 DEF Control, Admitting, NextKey
  <1>2. ASSUME \/ \E d \in Client \ {c} : Start(d) \/ ClientStep(d) \/ Release(d)
               \/ \E w \in Worker : WorkerStep(w)
               \/ Stop \/ Withdraw \/ Finished
        PROVE  Control(c)'
    BY <1>1, <1>2, OthersLeaveCall
  <1>3. ASSUME Start(c)
        PROVE  Control(c)'
    <2>1. PICK request \in Calls :
            /\ call' = [call EXCEPT ![c] = request]
            /\ pc' = [pc EXCEPT ![c] = CASE request.op = "try" -> "try"
                                         [] request.op = "resolve" -> "resolve"
                                         [] request.op = "sync" -> "idle"
                                         [] OTHER -> "admit"]
      BY <1>3 DEF Start
    <2>2. pc[c] = "out" /\ held'[c] = << >>
      BY <1>3, <1>0 DEF Start, Control
    <2>3. /\ call'[c] = request
          /\ pc'[c] = CASE request.op = "try" -> "try"
                        [] request.op = "resolve" -> "resolve"
                        [] request.op = "sync" -> "idle"
                        [] OTHER -> "admit"
      BY <2>1 DEF ClientTypes
    <2>4. request.op \in {"resolve", "sync"} \/ request.keys # << >>
      BY ConstantsAssumption
    <2>5. request.keys \in Seq(Key)
      BY ConstantsAssumption DEF CallType
    <2>6. Len(<< >>) = 0 /\ (request.keys # << >> => Len(request.keys) > 0)
      BY <2>5, EmptySeq
    <2>7. CASE request.op = "try"
      BY <2>2, <2>3, <2>4, <2>7 DEF Control
    <2>8. CASE request.op \in {"resolve", "sync"}
      BY <2>3, <2>8 DEF Control
    <2>9. CASE request.op \notin {"try", "resolve", "sync"}
      <3>1. pc'[c] = "admit"
        BY <2>3, <2>9
      <3>2. Admitting(c)'
        BY <2>2, <2>3, <2>4, <2>6, <2>9 DEF Admitting
      <3> QED BY <3>1, <3>2 DEF Control
    <2> QED BY <2>7, <2>8, <2>9
  <1>4. ASSUME EnqueueTooLarge(c) \/ Return(c) \/ ResolveEnd(c)
        PROVE  Control(c)'
    BY <1>4, FinishControl DEF EnqueueTooLarge, Return, ResolveEnd
  <1>5. ASSUME EnqueueMapped(c)
        PROVE  Control(c)'
    <2>1. Admitting(c)
      BY <1>5 DEF EnqueueMapped, Control
    <2>2. entries[NextKey(c)] \in Ref /\ Admitted(c, entries[NextKey(c)])
      BY <1>5, <2>1, NextKeyType DEF EnqueueMapped, Residency
    <2> QED BY <2>1, <2>2, AdmittedControl
  <1>6. ASSUME EnqueueAbsent(c)
        PROVE  Control(c)'
    <2>1. Admitting(c)
      BY <1>6 DEF EnqueueAbsent, Control
    <2>2. /\ pc'[c] = "evict" /\ mutex' = c
          /\ call'[c] = call[c] /\ held'[c] = held[c] /\ entries' = entries
          /\ entries[NextKey(c)] = NoEntry /\ Size[NextKey(c)] <= CacheSize
      BY <1>6 DEF EnqueueAbsent, ClientTypes
    <2> QED BY <2>1, <2>2 DEF Control, Admitting, NextKey
  <1>7. ASSUME Evict(c) \/ TrimGhost(c)
        PROVE  Control(c)'
    <2>1. pc[c] = "evict" /\ UNCHANGED clientVars /\ mutex' = mutex
      BY <1>7 DEF Evict, TrimGhost
    <2>2. entries' = entries \/ \E r \in Ref : entries' = [entries EXCEPT ![KeyOf(r)] = NoEntry]
      BY <1>7, EvictEffect DEF TrimGhost, Removed, RemoveResident
    <2>3. NextKey(c) \in Key /\ entries[NextKey(c)] = NoEntry
      BY <2>1, NextKeyType DEF Control
    <2>4. entries'[NextKey(c)] = NoEntry
      BY <2>2, <2>3 DEF Residency
    <2> QED BY <1>0, <2>1, <2>4 DEF Control, Admitting, NextKey, clientVars
  <1>8. ASSUME Insert(c)
        PROVE  Control(c)'
    <2>1. Admitting(c)
      BY <1>8 DEF Insert, Control
    <2> QED BY <1>8, <2>1, InsertEffect, AdmittedControl
  <1>9. ASSUME Exhausted(c)
        PROVE  Control(c)'
    <2>1. Admitting(c)
      BY <1>9 DEF Exhausted, Control
    <2>2. CASE call[c].op \in {"prefetch", "acquire"}
      BY <1>9, <2>2, FinishControl DEF Exhausted
    <2>3. CASE call[c].op \notin {"prefetch", "acquire"}
      <3>1. /\ pc'[c] = IF call[c].op = "request" THEN "return"
                        ELSE IF MayNap(c) THEN "nap"
                        ELSE IF held[c] = << >> THEN "return" ELSE "await"
            /\ call'[c] = call[c] /\ held'[c] = held[c]
        BY <1>9, <2>3 DEF Exhausted, ClientTypes
      <3> QED BY <2>1, <3>1 DEF Control, Admitting
    <2> QED BY <2>2, <2>3
  <1>10. ASSUME Nap(c)
         PROVE  Control(c)'
    <2>1. CASE stopping
      BY <1>10, <2>1, FinishControl DEF Nap
    <2>2. CASE ~stopping
      <3>1. Admitting(c) /\ pc'[c] = "admit" /\ call'[c] = call[c] /\ held'[c] = held[c]
        BY <1>10, <2>2 DEF Nap, Control, ClientTypes
      <3> QED BY <3>1 DEF Control, Admitting
    <2> QED BY <2>1, <2>2
  <1>11. ASSUME AwaitReady(c)
         PROVE  Control(c)'
    <2>1. pc[c] = "await" /\ mutex = Nobody
      BY <1>11 DEF AwaitReady
    <2>2. \/ Finish(c)
          \/ UNCHANGED <<pc, call, held>>
          \/ mutex' = c /\ pc' = [pc EXCEPT ![c] = "take"] /\ UNCHANGED <<call, held>>
      BY <1>11 DEF AwaitReady
    <2>3. CASE Finish(c)
      BY <2>3, FinishControl
    <2>4. CASE UNCHANGED <<pc, call, held>>
      BY <1>0, <2>1, <2>4 DEF Control, Admitting
    <2>5. CASE mutex' = c /\ pc' = [pc EXCEPT ![c] = "take"] /\ UNCHANGED <<call, held>>
      <3>1. pc'[c] = "take" /\ held'[c] # << >>
        BY <1>0, <2>1, <2>5 DEF Control, ClientTypes
      <3> QED BY <2>5, <3>1 DEF Control
    <2> QED BY <2>2, <2>3, <2>4, <2>5
  <1>12. ASSUME TryAcquire(c)
         PROVE  Control(c)'
    <2> DEFINE keys == call[c].keys
               all == \A k \in ToSet(keys) : entries[k] # NoEntry /\ state[entries[k]] = "Ready"
               found == [i \in 1 .. Len(keys) |-> entries[keys[i]]]
    <2>1. CASE ~all
      <3>1. Finish(c)
        BY <1>12, <2>1 DEF TryAcquire
      <3> QED BY <3>1, FinishControl
    <2>2. CASE all
      <3>1. pc'[c] = "take" /\ mutex' = c /\ held'[c] = found
        BY <1>12, <2>2 DEF TryAcquire, ClientTypes
      <3>2. keys \in Seq(Key) /\ keys # << >>
        <4>1. call[c] \in CallType /\ keys # << >>
          BY <1>12, ConstantsAssumption DEF TryAcquire, Control
        <4> QED BY <4>1 DEF CallType
      <3>3. Len(keys) \in Nat \ {0}
        BY <3>2, EmptySeq
      <3>4. found # << >>
        <4>1. DOMAIN found = 1 .. Len(keys) /\ 1 \in DOMAIN found
          BY <3>3
        <4>2. DOMAIN << >> = {}
          OBVIOUS
        <4> HIDE DEF found
        <4> QED BY <4>1, <4>2
      <3> QED BY <3>1, <3>4 DEF Control
    <2> QED BY <2>1, <2>2
  <1>13. ASSUME TakeLease(c)
         PROVE  Control(c)'
    <2>1. pc[c] = "take" /\ mutex = c /\ held[c] # << >> /\ held[c] \in Seq(Ref)
      BY <1>13 DEF TakeLease, Control, ClientTypes
    <2>2. CASE Len(held[c]) = 1
      BY <1>13, <2>2, FinishControl DEF TakeLease
    <2>3. CASE Len(held[c]) # 1
      <3>1. held'[c] = Tail(held[c]) /\ pc'[c] = "take" /\ mutex' = c
        BY <1>13, <2>1, <2>3 DEF TakeLease, ClientTypes
      <3>2. Len(Tail(held[c])) = Len(held[c]) - 1 /\ Len(held[c]) \in Nat \ {0}
        BY <2>1, HeadTailProperties, EmptySeq
      <3>3. Len(Tail(held[c])) # 0
        BY <2>3, <3>2
      <3>4. Tail(held[c]) # << >>
        BY <3>3, EmptySeq
      <3> QED BY <3>1, <3>4 DEF Control
    <2> QED BY <2>2, <2>3
  <1>14. ASSUME Release(c) \/ ResolveOne(c) \/ AwaitIdle(c)
         PROVE  Control(c)'
    <2>1. CASE Finish(c)
      BY <2>1, FinishControl
    <2>2. CASE ~Finish(c)
      <3>1. UNCHANGED <<pc, call, held>>
        BY <1>14, <2>2 DEF Release, ResolveOne, AwaitIdle, clientVars
      <3>2. UNCHANGED <<mutex, entries>> \/ pc[c] = "resolve"
        BY <1>14 DEF Release, ResolveOne, AwaitIdle, cacheVars
      <3> QED BY <1>0, <3>1, <3>2 DEF Control, Admitting, NextKey
    <2> QED BY <2>1, <2>2
  <1> QED BY <1>2, <1>3, <1>4, <1>5, <1>6, <1>7, <1>8, <1>9, <1>10, <1>11, <1>12, <1>13, <1>14
          DEF Next, ClientStep
(* At first no thread is inside a call, a batch or the mutex.               *)
LEMMA ThreadsInit == Init => ThreadsInv
  <1> SUFFICES ASSUME Init PROVE ThreadsInv
    OBVIOUS
  <1>1. EntryTypes
    BY DEF Init, EntryTypes
  <1>2. QueueTypes
    BY EmptySeq DEF Init, QueueTypes
  <1>3. LockTypes
    BY DEF Init, LockTypes
  <1>4. WorkerTypes
    BY DEF Init, WorkerTypes
  <1>5. ClientTypes
    BY EmptySeq DEF Init, ClientTypes
  <1>6. ASSUME NEW c \in Client
        PROVE  Control(c)
    BY <1>6 DEF Init, Control
  <1> QED BY <1>1, <1>2, <1>3, <1>4, <1>5, <1>6 DEF ThreadsInv

(* The threads stay where their program counters say.                       *)
LEMMA ThreadsPreserved ==
  ASSUME Residency, Accounting, ThreadsInv, Next
  PROVE  ThreadsInv'
  <1>1. EntryTypes' /\ QueueTypes' /\ LockTypes' /\ WorkerTypes' /\ ClientTypes'
    BY EntryTypesPreserved, QueueTypesPreserved, LockTypesPreserved, WorkerTypesPreserved,
       ClientTypesPreserved
  <1>2. \A c \in Client : Control(c)'
    BY ControlPreserved
  <1> QED BY <1>1, <1>2 DEF ThreadsInv
-----------------------------------------------------------------------------
(* Every step of the cache is one of the steps that keep the lists exact.    *)
LEMMA ClientResidency ==
  ASSUME Residency, Accounting, ThreadsInv, NEW c \in Client,
         Start(c) \/ ClientStep(c) \/ Release(c)
  PROVE  ResidencyStep
  <1> USE DEF ThreadsInv
  <1>1. ASSUME Start(c) \/ EnqueueTooLarge(c) \/ EnqueueAbsent(c) \/ TrimGhost(c)
               \/ Exhausted(c) \/ Nap(c) \/ Return(c) \/ AwaitReady(c) \/ TryAcquire(c)
               \/ Release(c) \/ ResolveEnd(c) \/ AwaitIdle(c)
        PROVE  Untouched
    BY <1>1 DEF Start, EnqueueTooLarge, EnqueueAbsent, TrimGhost, Exhausted, Nap, Return,
                AwaitReady, TryAcquire, Release, ResolveEnd, AwaitIdle, cacheVars, Untouched
  <1>2. ASSUME EnqueueMapped(c)
        PROVE  Untouched \/ \E r \in Ref : Touched(r, TRUE)
    <2>1. Admitting(c)
      BY <1>2 DEF EnqueueMapped, Control
    <2>2. entries[NextKey(c)] \in Ref
      BY <1>2, <2>1, NextKeyType DEF EnqueueMapped, Residency
    <2>3. entries' = entries /\ (UNCHANGED arcVars \/ TouchResident(entries[NextKey(c)], TRUE))
      BY <1>2 DEF EnqueueMapped
    <2> QED BY <2>2, <2>3 DEF Untouched, Touched
  <1>3. ASSUME Evict(c)
        PROVE  \E r \in Ref : Removed(r)
    BY <1>3, EvictEffect
  <1>4. ASSUME Insert(c)
        PROVE  \E r \in Ref, b \in BOOLEAN : Inserted(r, b)
    BY <1>4, InsertEffect
  <1>5. ASSUME TakeLease(c)
        PROVE  Untouched \/ \E r \in Ref, b \in BOOLEAN : Touched(r, b)
    <2>1. held[c] \in Seq(Ref) /\ held[c] # << >>
      BY <1>5 DEF TakeLease, Control, ClientTypes
    <2> DEFINE r == Head(held[c])
    <2>2. r \in Ref
      BY <2>1, HeadTailProperties
    <2>3. exact[r] \in BOOLEAN
      BY <2>2 DEF EntryTypes
    <2>4. entries' = entries /\ (UNCHANGED arcVars \/ TouchResident(r, exact[r]))
      BY <1>5 DEF TakeLease
    <2> HIDE DEF r
    <2> QED BY <2>2, <2>3, <2>4 DEF Untouched, Touched
  <1>6. ASSUME ResolveOne(c)
        PROVE  Untouched \/ \E r \in Ref : Removed(r)
    <2>1. PICK r \in Mispredicted(c) :
             UNCHANGED <<entries, arcVars>> \/ RemoveResident(r)
      BY <1>6 DEF ResolveOne
    <2>2. r \in Ref /\ Mapped(r)
      BY DEF Mispredicted, Resident
    <2> QED BY <2>1, <2>2 DEF Untouched, Removed
  <1> QED BY <1>1, <1>2, <1>3, <1>4, <1>5, <1>6 DEF ClientStep, ResidencyStep

(* ... and so does any other step.                                          *)
LEMMA ResidencyEffect ==
  ASSUME Residency, Accounting, ThreadsInv, Next
  PROVE  ResidencyStep
  <1>1. ASSUME NEW w \in Worker,
               Pop(w) \/ PopNothing(w) \/ Window(w) \/ Gather(w) \/ GatherEnd(w) \/ Load(w)
               \/ DropBatch(w) \/ Retire(w) \/ Notify(w)
        PROVE  Untouched
    BY <1>1 DEF Pop, PopNothing, Window, Gather, GatherEnd, Load, DropBatch, Retire, Notify,
                cacheVars, Untouched
  <1>2. ASSUME NEW w \in Worker, Publish(w)
        PROVE  Untouched \/ \E r \in Ref : Removed(r)
    <2>1. PICK r \in batch[w] :
             UNCHANGED <<entries, arcVars>> \/ (Mapped(r) /\ RemoveResident(r))
      BY <1>2 DEF Publish
    <2>2. r \in Ref
      BY DEF ThreadsInv, WorkerTypes
    <2> QED BY <2>1, <2>2 DEF Untouched, Removed
  <1>3. ASSUME Stop \/ Withdraw \/ Finished
        PROVE  Untouched
    BY <1>3 DEF Stop, Withdraw, Finished, cacheVars, vars, Untouched
  <1> QED BY <1>1, <1>2, <1>3, ClientResidency DEF Next, WorkerStep, ResidencyStep
-----------------------------------------------------------------------------
(* Every step of the cache is one of the steps that keep the ghosts exact.   *)
LEMMA ClientGhosts ==
  ASSUME Residency, ThreadsInv, NEW c \in Client,
         Start(c) \/ ClientStep(c) \/ Release(c)
  PROVE  GhostStep
  <1> USE DEF ThreadsInv
  <1>1. ASSUME Start(c) \/ EnqueueTooLarge(c) \/ Insert(c) \/ TakeLease(c)
               \/ Exhausted(c) \/ Nap(c) \/ Return(c) \/ AwaitReady(c) \/ TryAcquire(c)
               \/ Release(c) \/ ResolveOne(c) \/ ResolveEnd(c) \/ AwaitIdle(c)
        PROVE  GhostsUntouched
    BY <1>1 DEF Start, EnqueueTooLarge, Insert, TakeLease, Exhausted, Nap, Return, AwaitReady,
                TryAcquire, Release, ResolveOne, ResolveEnd, AwaitIdle, cacheVars,
                GhostsUntouched
  <1>2. ASSUME EnqueueMapped(c) \/ EnqueueAbsent(c)
        PROVE  GhostsUntouched \/ \E k \in Key : ConsumeGhost(k)
    <2>1. Admitting(c)
      BY <1>2 DEF EnqueueMapped, EnqueueAbsent, Control
    <2>2. NextKey(c) \in Key
      BY <2>1, NextKeyType
    <2> QED BY <1>2, <2>2 DEF EnqueueMapped, EnqueueAbsent, GhostsUntouched
  <1>3. ASSUME Evict(c)
        PROVE  GhostsUntouched \/ \E r \in Ref : Remembered(r)
    <2>1. PICK r \in Ref : arc_list[r] # "None" /\ (UNCHANGED ghostVars \/ AddGhost(r))
      BY <1>3, EvictEffect
    <2>2. UNCHANGED arc_recent_target_size
      BY <1>3 DEF Evict
    <2> QED BY <2>1, <2>2 DEF GhostsUntouched, Remembered
  <1>4. ASSUME TrimGhost(c)
        PROVE  Trimmed
    BY <1>4 DEF TrimGhost, Trimmed
  <1> QED BY <1>1, <1>2, <1>3, <1>4 DEF ClientStep, GhostStep

(* Workers and the destructor do not look at the ghosts.                    *)
LEMMA OthersKeepGhosts ==
  ASSUME \/ \E w \in Worker : WorkerStep(w)
         \/ Stop \/ Withdraw \/ Finished
  PROVE  GhostsUntouched
  <1>1. ASSUME NEW w \in Worker, WorkerStep(w)
        PROVE  GhostsUntouched
    BY <1>1 DEF WorkerStep, Pop, PopNothing, Window, Gather, GatherEnd, Load, Publish,
                DropBatch, Retire, Notify, cacheVars, GhostsUntouched
  <1>2. ASSUME Stop \/ Withdraw \/ Finished
        PROVE  GhostsUntouched
    BY <1>2 DEF Stop, Withdraw, Finished, cacheVars, vars, GhostsUntouched
  <1> QED BY <1>1, <1>2

(* Every step is one of the steps on the ghosts.                            *)
LEMMA GhostEffect ==
  ASSUME Residency, ThreadsInv, Next
  PROVE  GhostStep
  BY ClientGhosts, OthersKeepGhosts DEF Next, GhostStep

(* A step that changes the ghosts ends inside the admission that trims them, *)
(* or only frees ghosts.                                                    *)
LEMMA GhostsTrimmedPreserved ==
  ASSUME Residency, GhostLists, ThreadsInv, GhostsTrimmed, Next
  PROVE  GhostsTrimmed'
  <1> USE DEF ThreadsInv
  <1>1. ASSUME GhostsFit, GhostsUntouched
        PROVE  GhostsFit'
    BY <1>1 DEF GhostsFit, GhostsUntouched, ghostVars
  <1>2. ASSUME NEW c \in Client, pc[c] = "evict",
               \/ \E d \in Client \ {c} : Start(d) \/ ClientStep(d) \/ Release(d)
               \/ \E w \in Worker : WorkerStep(w)
               \/ Stop \/ Withdraw \/ Finished
        PROVE  GhostsTrimmed'
    BY <1>2, OthersLeaveCall DEF GhostsTrimmed
  <1>3. ASSUME NEW c \in Client, Evict(c) \/ TrimGhost(c)
        PROVE  GhostsTrimmed'
    BY <1>3 DEF Evict, TrimGhost, clientVars, GhostsTrimmed
  <1>4. ASSUME NEW c \in Client, EnqueueAbsent(c)
        PROVE  GhostsTrimmed'
    <2>1. pc'[c] = "evict"
      BY <1>4 DEF EnqueueAbsent, ClientTypes
    <2> QED BY <2>1 DEF GhostsTrimmed
  <1>5. ASSUME NEW c \in Client, Insert(c) \/ Exhausted(c)
        PROVE  GhostsTrimmed'
    <2>1. GhostsFit /\ GhostsUntouched
      BY <1>5 DEF Insert, Exhausted, cacheVars, GhostsUntouched
    <2> QED BY <1>1, <2>1 DEF GhostsTrimmed
  <1>6. ASSUME NEW c \in Client, EnqueueMapped(c)
        PROVE  GhostsTrimmed'
    <2>1. mutex = Nobody /\ Admitting(c)
      BY <1>6 DEF EnqueueMapped, Control
    <2>2. \A d \in Client : pc[d] # "evict"
      BY <2>1, ConstantsAssumption DEF Control
    <2>3. GhostsFit
      BY <2>2 DEF GhostsTrimmed
    <2>4. NextKey(c) \in Key
      BY <2>1, NextKeyType
    <2>5. CASE ConsumeGhost(NextKey(c))
      BY <2>3, <2>4, <2>5, ConsumeKeepsGhosts DEF GhostsTrimmed
    <2>6. CASE GhostsUntouched
      BY <1>1, <2>3, <2>6 DEF GhostsTrimmed
    <2> QED BY <1>6, <2>5, <2>6 DEF EnqueueMapped, GhostsUntouched
  <1>7. ASSUME NEW c \in Client,
               Start(c) \/ EnqueueTooLarge(c) \/ TakeLease(c)
               \/ Nap(c) \/ Return(c) \/ AwaitReady(c) \/ TryAcquire(c)
               \/ Release(c) \/ ResolveOne(c) \/ ResolveEnd(c) \/ AwaitIdle(c)
        PROVE  GhostsTrimmed'
    <2>1. GhostsUntouched
      BY <1>7 DEF Start, EnqueueTooLarge, TakeLease, Nap, Return, AwaitReady, TryAcquire,
                  Release, ResolveOne, ResolveEnd, AwaitIdle, cacheVars, GhostsUntouched
    <2>2. CASE GhostsFit
      BY <1>1, <2>1, <2>2 DEF GhostsTrimmed
    <2>3. CASE ~GhostsFit
      <3>1. PICK d \in Client : pc[d] = "evict"
        BY <2>3 DEF GhostsTrimmed
      <3>2. CASE d # c
        BY <1>2, <1>7, <3>1, <3>2 DEF ClientStep
      <3>3. CASE d = c
        <4>1. Release(c)
          BY <1>7, <3>1, <3>3 DEF Start, EnqueueTooLarge, TakeLease, Nap, Return, AwaitReady,
                                  TryAcquire, ResolveOne, ResolveEnd, AwaitIdle
        <4> QED BY <3>1, <3>3, <4>1 DEF Release, GhostsTrimmed
      <3> QED BY <3>2, <3>3
    <2> QED BY <2>2, <2>3
  <1>8. ASSUME \/ \E w \in Worker : WorkerStep(w)
               \/ Stop \/ Withdraw \/ Finished
        PROVE  GhostsTrimmed'
    BY <1>1, <1>2, <1>8, OthersKeepGhosts DEF GhostsTrimmed
  <1> QED BY <1>3, <1>4, <1>5, <1>6, <1>7, <1>8 DEF Next, ClientStep
-----------------------------------------------------------------------------
(* active_jobs counts the entries of the batches being read, exactly.        *)
LEMMA JobsType ==
  MaxJobs \in Nat /\ IsFiniteSet(Worker) /\ \A S \in SUBSET Ref : Cardinality(S) \in 0 .. MaxJobs
  <1>1. MaxJobs \in Nat
    BY RefsAreFinite, FS_CardinalityType DEF MaxJobs
  <1>2. ASSUME NEW S \in SUBSET Ref
        PROVE  Cardinality(S) \in 0 .. MaxJobs
    <2>1. IsFiniteSet(S) /\ Cardinality(S) <= Cardinality(Ref)
      BY RefsAreFinite, FS_Subset
    <2>2. Cardinality(S) \in Nat
      BY <2>1, FS_CardinalityType
    <2> QED BY <1>1, <2>1, <2>2 DEF MaxJobs
  <1> QED BY <1>1, <1>2, ConstantsAssumption

(* A worker's share of active_jobs is at most every Entry object.           *)
LEMMA CountedType ==
  ASSUME WorkerTypes, completed \in [Worker -> 0 .. MaxJobs], NEW w \in Worker
  PROVE  Counted(w) \in 0 .. MaxJobs
  <1>1. Cardinality(batch[w]) \in 0 .. MaxJobs /\ completed[w] \in 0 .. MaxJobs
    BY JobsType DEF WorkerTypes
  <1>2. 0 \in 0 .. MaxJobs
    BY JobsType
  <1> QED BY <1>1, <1>2 DEF Counted

(* At first no job is counted.                                              *)
LEMMA JobsInit == Init => Jobs
  <1> SUFFICES ASSUME Init PROVE Jobs
    OBVIOUS
  <1>1. completed \in [Worker -> 0 .. MaxJobs]
    <2>1. 0 \in 0 .. MaxJobs
      BY JobsType
    <2> QED BY <2>1 DEF Init
  <1>2. \A w \in Worker : Counted(w) = 0
    BY DEF Init, Counted
  <1> DEFINE f == [w \in Worker |-> Counted(w)]
  <1>3. \A w \in Worker : f[w] = 0
    BY <1>2
  <1> HIDE DEF f
  <1>4. Weight(Worker, MaxJobs, f) = 0
    BY <1>3, JobsType, WeightOfZeros
  <1>5. active_jobs = 0
    BY DEF Init
  <1> USE DEF f
  <1> QED BY <1>1, <1>4, <1>5 DEF Jobs

(* One worker changes its share of active_jobs.                              *)
LEMMA JobsStep ==
  ASSUME WorkerTypes, WorkerTypes', Jobs, completed' \in [Worker -> 0 .. MaxJobs],
         NEW w \in Worker, \A v \in Worker \ {w} : Counted(v)' = Counted(v),
         active_jobs' = active_jobs - Counted(w) + Counted(w)'
  PROVE  Jobs'
  <1> DEFINE f == [v \in Worker |-> Counted(v)]
             g == [v \in Worker |-> Counted(v)']
  <1>1. f[w] = Counted(w) /\ g[w] = Counted(w)' /\ \A v \in Worker \ {w} : f[v] = g[v]
    OBVIOUS
  <1>2. Counted(w) \in 0 .. MaxJobs
    BY CountedType DEF Jobs
  <1>3. Counted(w)' \in 0 .. MaxJobs
    <2>1. Cardinality(batch'[w]) \in 0 .. MaxJobs /\ completed'[w] \in 0 .. MaxJobs
      BY JobsType DEF WorkerTypes
    <2>2. 0 \in 0 .. MaxJobs
      BY JobsType
    <2> QED BY <2>1, <2>2 DEF Counted
  <1>4. active_jobs = Weight(Worker, MaxJobs, f)
    BY DEF Jobs
  <1> HIDE DEF f, g
  <1>5. Weight(Worker, MaxJobs, g) = Weight(Worker, MaxJobs, f) - f[w] + g[w]
    <2> DEFINE R == Worker \ {w}
    <2>1. f[w] \in 0 .. MaxJobs /\ g[w] \in 0 .. MaxJobs
      BY <1>1, <1>2, <1>3
    <2>2. MaxJobs \in Nat /\ IsFiniteSet(R)
      BY JobsType, FS_RemoveElement
    <2>3. w \notin R /\ Worker = R \cup {w}
      OBVIOUS
    <2>4. OneMore(R, Worker, MaxJobs, f, w) /\ OneMore(R, Worker, MaxJobs, g, w)
      BY <2>1, <2>2, <2>3 DEF OneMore
    <2>5. Weight(R, MaxJobs, f) = Weight(R, MaxJobs, g)
      <3>1. {p \in R \X (1 .. MaxJobs) : p[2] <= f[p[1]]}
            = {p \in R \X (1 .. MaxJobs) : p[2] <= g[p[1]]}
        BY <1>1
      <3> QED BY <3>1 DEF Weight
    <2> HIDE DEF R
    <2>6. Weight(Worker, MaxJobs, g) = Weight(R, MaxJobs, g) + g[w] /\ g[w] \in Nat
      BY <2>4, WeightOneMore
    <2>7. Weight(R, MaxJobs, f) = Weight(Worker, MaxJobs, f) - f[w]
      BY <2>4, WeightOneMore
    <2> QED BY <2>5, <2>6, <2>7
  <1>6. active_jobs' = Weight(Worker, MaxJobs, g)
    BY <1>1, <1>4, <1>5
  <1> USE DEF g
  <1> QED BY <1>6 DEF Jobs

(* Only the workers change active_jobs.                                     *)
LEMMA ClientJobs ==
  ASSUME Jobs, \/ \E c \in Client : Start(c) \/ ClientStep(c) \/ Release(c)
               \/ Stop \/ Withdraw \/ Finished
  PROVE  Jobs'
  <1>1. ASSUME active_jobs' = active_jobs, UNCHANGED workerVars
        PROVE  Jobs'
    BY <1>1 DEF Jobs, Counted, workerVars
  <1>2. ASSUME NEW c \in Client,
               Start(c) \/ EnqueueTooLarge(c) \/ EnqueueMapped(c) \/ EnqueueAbsent(c)
               \/ Evict(c) \/ TrimGhost(c) \/ Insert(c) \/ Exhausted(c)
        PROVE  Jobs'
    BY <1>1, <1>2 DEF Start, EnqueueTooLarge, EnqueueMapped, EnqueueAbsent, Evict, TrimGhost,
                      Insert, Exhausted, queueVars
  <1>3. ASSUME NEW c \in Client,
               Nap(c) \/ Return(c) \/ AwaitReady(c) \/ TryAcquire(c) \/ TakeLease(c)
               \/ Release(c) \/ ResolveOne(c) \/ ResolveEnd(c) \/ AwaitIdle(c)
        PROVE  Jobs'
    BY <1>1, <1>3 DEF Nap, Return, AwaitReady, TryAcquire, TakeLease, Release, ResolveOne,
                      ResolveEnd, AwaitIdle, queueVars
  <1>4. ASSUME Stop \/ Withdraw \/ Finished
        PROVE  Jobs'
    BY <1>1, <1>4 DEF Stop, Withdraw, Finished, vars, queueVars
  <1> QED BY <1>2, <1>3, <1>4 DEF ClientStep

(* A worker counts its batch when it leaves the lock to read, and takes as  *)
(* much away when it retires the batch.                                     *)
LEMMA WorkerJobs ==
  ASSUME QueueTypes, WorkerTypes, WorkerTypes', Jobs, NEW w \in Worker, WorkerStep(w)
  PROVE  Jobs'
  <1> DEFINE OnlyMine == \A v \in Worker \ {w} :
                 wpc'[v] = wpc[v] /\ batch'[v] = batch[v] /\ completed'[v] = completed[v]
  <1>1. ASSUME OnlyMine, completed' \in [Worker -> 0 .. MaxJobs],
               active_jobs' = active_jobs - Counted(w) + Counted(w)'
        PROVE  Jobs'
    <2>1. \A v \in Worker \ {w} : Counted(v)' = Counted(v)
      BY <1>1 DEF Counted
    <2> QED BY <1>1, <2>1, JobsStep
  <1>2. active_jobs \in Nat /\ Counted(w) \in Nat
    <2>1. active_jobs \in Nat
      BY JobsType, WeightIsNat DEF Jobs
    <2>2. Counted(w) \in 0 .. MaxJobs
      BY CountedType DEF Jobs
    <2> QED BY <2>1, <2>2
  <1>3. completed \in [Worker -> 0 .. MaxJobs]
    BY DEF Jobs
  <1>4. ASSUME OnlyMine, UNCHANGED <<active_jobs, completed>>, Counted(w)' = Counted(w)
        PROVE  Jobs'
    BY <1>1, <1>2, <1>3, <1>4
  <1>5. ASSUME PopNothing(w) \/ Window(w) \/ Gather(w) \/ Notify(w)
        PROVE  Jobs'
    <2>1. OnlyMine
      BY <1>5 DEF PopNothing, Window, Gather, Notify, WorkerTypes
    <2>2. UNCHANGED <<active_jobs, completed>>
      BY <1>5 DEF PopNothing, Window, Gather, Notify, queueVars
    <2>3. wpc[w] \in {"pop", "window", "gather", "notify"}
          /\ wpc'[w] \in {"pop", "exit", "gather"}
      BY <1>5 DEF PopNothing, Window, Gather, Notify, WorkerTypes
    <2>4. Counted(w) = 0 /\ Counted(w)' = 0
      BY <2>3 DEF Counted
    <2> QED BY <1>4, <2>1, <2>2, <2>4
  <1>6. ASSUME Load(w) \/ Publish(w)
        PROVE  Jobs'
    <2>1. OnlyMine /\ batch' = batch
      BY <1>6 DEF Load, Publish, WorkerTypes
    <2>2. UNCHANGED <<active_jobs, completed>>
      BY <1>6 DEF Load, Publish, queueVars
    <2>3. wpc[w] \in {"load", "publish"} /\ wpc'[w] \in {"publish", "drop"}
      BY <1>6 DEF Load, Publish, WorkerTypes
    <2>4. Counted(w)' = Counted(w)
      BY <2>1, <2>3 DEF Counted
    <2> QED BY <1>4, <2>1, <2>2, <2>4
  <1>7. ASSUME Pop(w)
        PROVE  Jobs'
    <2>1. wpc[w] = "pop" /\ completed' = completed
      BY <1>7 DEF Pop
    <2>2. Counted(w) = 0
      BY <2>1 DEF Counted
    <2>3. \/ UNCHANGED <<batch, active_jobs, wpc>>
          \/ \E r \in Ref :
               /\ batch' = [batch EXCEPT ![w] = {r}]
               /\ \/ wpc' = [wpc EXCEPT ![w] = "load"] /\ active_jobs' = active_jobs + 1
                  \/ /\ wpc' \in {[wpc EXCEPT ![w] = "window"], [wpc EXCEPT ![w] = "gather"]}
                     /\ UNCHANGED active_jobs
      BY <1>7, PopEffect
    <2>4. OnlyMine
      BY <2>1, <2>3 DEF WorkerTypes
    <2>5. CASE active_jobs' = active_jobs
      <3>1. wpc'[w] \in {"pop", "window", "gather"}
        BY <1>2, <2>1, <2>3, <2>5 DEF WorkerTypes
      <3>2. Counted(w)' = 0
        BY <3>1 DEF Counted
      <3> QED BY <1>4, <2>1, <2>2, <2>4, <2>5, <3>2
    <2>6. CASE active_jobs' # active_jobs
      <3>1. /\ active_jobs' = active_jobs + 1 /\ wpc'[w] = "load"
            /\ \E r \in Ref : batch'[w] = {r}
        BY <2>3, <2>6 DEF WorkerTypes
      <3>2. Counted(w)' = 1
        BY <3>1, FS_Singleton DEF Counted
      <3> QED BY <1>1, <1>2, <1>3, <2>1, <2>2, <2>4, <3>1, <3>2
    <2> QED BY <2>5, <2>6
  <1>8. ASSUME GatherEnd(w)
        PROVE  Jobs'
    <2>1. OnlyMine /\ batch' = batch /\ completed' = completed
      BY <1>8 DEF GatherEnd, WorkerTypes
    <2>2. /\ wpc[w] = "gather" /\ wpc'[w] = "load"
          /\ active_jobs' = active_jobs + Cardinality(batch[w])
      BY <1>8 DEF GatherEnd, WorkerTypes
    <2>3. Counted(w) = 0 /\ Counted(w)' = Cardinality(batch[w])
      BY <2>1, <2>2 DEF Counted
    <2>4. active_jobs' = active_jobs - Counted(w) + Counted(w)'
      BY <1>2, <2>2, <2>3
    <2> QED BY <1>1, <1>3, <2>1, <2>4
  <1>9. ASSUME DropBatch(w)
        PROVE  Jobs'
    <2>1. /\ wpc[w] = "drop" /\ wpc' = [wpc EXCEPT ![w] = "retire"]
          /\ batch' = [batch EXCEPT ![w] = {}] /\ active_jobs' = active_jobs
          /\ completed' = [completed EXCEPT ![w] = Cardinality(batch[w])]
      BY <1>9 DEF DropBatch, queueVars
    <2>2. OnlyMine
      BY <1>3, <2>1 DEF WorkerTypes
    <2>3. Cardinality(batch[w]) \in 0 .. MaxJobs
      BY JobsType DEF WorkerTypes
    <2>4. completed' \in [Worker -> 0 .. MaxJobs]
      BY <1>3, <2>1, <2>3
    <2>5. wpc'[w] = "retire" /\ completed'[w] = Cardinality(batch[w])
      BY <1>3, <2>1 DEF WorkerTypes
    <2>6. Counted(w)' = Counted(w)
      BY <2>1, <2>5 DEF Counted
    <2> QED BY <1>1, <1>2, <2>1, <2>2, <2>4, <2>6
  <1>10. ASSUME Retire(w)
         PROVE  Jobs'
    <2>1. /\ wpc[w] = "retire" /\ wpc' = [wpc EXCEPT ![w] = "notify"]
          /\ batch' = batch /\ active_jobs' = active_jobs - completed[w]
          /\ completed' = [completed EXCEPT ![w] = 0]
      BY <1>10 DEF Retire
    <2>2. OnlyMine
      BY <1>3, <2>1 DEF WorkerTypes
    <2>3. 0 \in 0 .. MaxJobs
      BY JobsType
    <2>4. completed' \in [Worker -> 0 .. MaxJobs]
      BY <1>3, <2>1, <2>3
    <2>5. wpc'[w] = "notify"
      BY <2>1 DEF WorkerTypes
    <2>6. Counted(w) = completed[w] /\ Counted(w)' = 0
      BY <2>1, <2>5 DEF Counted
    <2>7. active_jobs' = active_jobs - Counted(w) + Counted(w)'
      BY <1>2, <2>1, <2>6
    <2> QED BY <1>1, <2>2, <2>4, <2>7
  <1> QED BY <1>5, <1>6, <1>7, <1>8, <1>9, <1>10 DEF WorkerStep

(* active_jobs stays exact.                                                 *)
LEMMA JobsPreserved ==
  ASSUME Residency, Accounting, ThreadsInv, Jobs, Next
  PROVE  Jobs'
  <1>1. QueueTypes /\ WorkerTypes /\ WorkerTypes'
    BY WorkerTypesPreserved DEF ThreadsInv
  <1> QED BY <1>1, ClientJobs, WorkerJobs DEF Next
-----------------------------------------------------------------------------
(* The inductive invariant.                                                  *)
LEMMA InvariantInit == Init => IInv
  <1> SUFFICES ASSUME Init PROVE IInv
    OBVIOUS
  <1> QED BY ResidencyInit, GhostInit, ThreadsInit, JobsInit DEF IInv, GhostsTrimmed

(* Every action keeps the inductive invariant.                              *)
LEMMA InvariantStep == IInv /\ Next => IInv'
  <1> SUFFICES ASSUME IInv, Next PROVE IInv'
    OBVIOUS
  <1>1. Residency /\ Accounting /\ GhostLists /\ ThreadsInv /\ GhostsTrimmed /\ Jobs
    BY DEF IInv
  <1>2. Residency' /\ Accounting'
    BY <1>1, ResidencyEffect, ResidencyPreserved
  <1>3. GhostLists'
    BY <1>1, GhostEffect, GhostsPreserved
  <1>4. ThreadsInv'
    BY <1>1, ThreadsPreserved
  <1>5. GhostsTrimmed'
    BY <1>1, GhostsTrimmedPreserved
  <1>6. Jobs'
    BY <1>1, JobsPreserved
  <1> QED BY <1>2, <1>3, <1>4, <1>5, <1>6 DEF IInv

(* A step of somebody else keeps it.                                        *)
LEMMA InvariantStutter == IInv /\ UNCHANGED vars => IInv'
  <1> SUFFICES ASSUME IInv, UNCHANGED vars PROVE IInv'
    OBVIOUS
  <1> USE DEF IInv, vars
  <1>2. Residency' /\ Accounting'
    <2>1. Untouched
      BY DEF Untouched, cacheVars
    <2> QED BY <2>1, ResidencyPreserved DEF ResidencyStep
  <1>3. GhostLists'
    <2>1. GhostsUntouched
      BY DEF GhostsUntouched, cacheVars
    <2> QED BY <2>1, GhostsPreserved DEF GhostStep
  <1>4. EntryTypes'
    BY DEF ThreadsInv, EntryTypes, cacheVars, entryVars
  <1>5. QueueTypes'
    BY DEF ThreadsInv, QueueTypes, queueVars
  <1>6. LockTypes'
    BY DEF ThreadsInv, LockTypes
  <1>7. WorkerTypes'
    BY DEF ThreadsInv, WorkerTypes, workerVars
  <1>8. ClientTypes'
    BY DEF ThreadsInv, ClientTypes, clientVars
  <1>9. ASSUME NEW c \in Client
        PROVE  Control(c)'
    BY DEF ThreadsInv, Control, Admitting, NextKey, clientVars, cacheVars
  <1>10. GhostsTrimmed'
    BY DEF GhostsTrimmed, GhostsFit, cacheVars, ghostVars, clientVars
  <1>11. Jobs'
    BY DEF Jobs, Counted, workerVars, queueVars
  <1> QED BY <1>2, <1>3, <1>4, <1>5, <1>6, <1>7, <1>8, <1>9, <1>10, <1>11 DEF ThreadsInv

(* Every state the cache reaches satisfies the inductive invariant: exact ARC*)
(* lists and byte counters, exact ghosts trimmed outside an admission, threads*)
(* where their program counters say, and an exact active_jobs.              *)
THEOREM Invariant == Spec => []IInv
  <1>1. Init => IInv
    BY InvariantInit
  <1>2. IInv /\ [Next]_vars => IInv'
    BY InvariantStep, InvariantStutter
  <1> QED BY <1>1, <1>2, PTL DEF Spec

(* Every variable keeps its type: in particular no byte or job counter of     *)
(* the code's unsigned types is ever decremented below zero, and the ARC      *)
(* target stays within the cache.                                           *)
THEOREM TypeCorrect == Spec => []TypeOK
  <1>1. IInv => TypeOK
    <2> SUFFICES ASSUME IInv PROVE TypeOK
      OBVIOUS
    <2> USE DEF IInv
    <2>1. arc_recent_size \in Nat /\ arc_frequent_size \in Nat /\ resident_size \in Nat
      <3>1. LinkedIn("Recent") \in SUBSET Ref /\ LinkedIn("Frequent") \in SUBSET Ref
            /\ Resident \in SUBSET Ref
        BY DEF LinkedIn, Resident
      <3> QED BY <3>1, TotalSizeIsWeight DEF Accounting, AccountingExact
    <2>2. recent_ghost_size \in Nat /\ frequent_ghost_size \in Nat
      <3>1. ToSet(recent_ghost) \in SUBSET Key /\ ToSet(frequent_ghost) \in SUBSET Key
        BY ElementsOf DEF GhostLists
      <3> QED BY <3>1, GhostBytesIsWeight DEF GhostLists
    <2>3. active_jobs \in Nat /\ completed \in [Worker -> Nat]
      <3>1. completed \in [Worker -> 0 .. MaxJobs] /\ 0 .. MaxJobs \subseteq Nat
        BY DEF Jobs
      <3>2. active_jobs \in Nat
        BY JobsType, WeightIsNat DEF Jobs
      <3> QED BY <3>1, <3>2
    <2>4. /\ entries \in [Key -> Ref \cup {NoEntry}]
          /\ arc_list \in [Ref -> {"None", "Recent", "Frequent"}]
          /\ arc_recent \in Seq(Ref) /\ arc_frequent \in Seq(Ref)
          /\ residency_group_sizes \in [Group -> Nat]
      BY DEF Residency, Accounting
    <2>5. /\ arc_recent_target_size \in 0 .. CacheSize
          /\ recent_ghost \in Seq(Key) /\ frequent_ghost \in Seq(Key)
      BY DEF GhostLists
    <2>6. EntryTypes /\ QueueTypes /\ LockTypes /\ WorkerTypes /\ ClientTypes
      BY DEF ThreadsInv
    <2> HIDE DEF IInv
    <2> QED BY <2>1, <2>2, <2>3, <2>4, <2>5, <2>6
            DEF TypeOK, EntryTypes, QueueTypes, LockTypes, WorkerTypes, ClientTypes
  <1> QED BY <1>1, Invariant, PTL

(* Whatever admissions, promotions, evictions, cancelled predictions and      *)
(* failed reads led here, every byte counter of the cache is the exact sum    *)
(* of the pairs it stands for.                                              *)
THEOREM CountersExact == Spec => []AccountingExact
  <1>1. IInv => AccountingExact
    BY DEF IInv, Accounting
  <1> QED BY <1>1, Invariant, PTL

(* The pairs the cache keeps never outgrow cache_size.                       *)
THEOREM CapacityNeverExceeded == Spec => []CapacityRespected
  <1>1. IInv => CapacityRespected
    BY DEF IInv, Accounting
  <1> QED BY <1>1, Invariant, PTL

(* The raw Entry pointers of the ARC lists are exactly the mapped entries,    *)
(* so that no list operation follows a pointer to a destroyed entry.         *)
THEOREM PointersValid == Spec => []NoDanglingPointer
  <1>1. IInv => NoDanglingPointer
    BY DEF IInv, Residency
  <1> QED BY <1>1, Invariant, PTL

(* The ghost lists are exact and disjoint, and whoever finds the mutex free   *)
(* finds them trimmed to the cache size.                                    *)
THEOREM GhostHistoryExact == Spec => []GhostsExact
  <1>1. IInv => GhostsExact
    <2> SUFFICES ASSUME IInv PROVE GhostsExact
      OBVIOUS
    <2>1. mutex = Nobody => GhostsFit
      <3> SUFFICES ASSUME mutex = Nobody PROVE GhostsFit
        OBVIOUS
      <3>1. \A c \in Client : pc[c] # "evict"
        BY ConstantsAssumption DEF IInv, ThreadsInv, Control
      <3> QED BY <3>1 DEF IInv, GhostsTrimmed
    <2> QED BY <2>1 DEF IInv, GhostLists, GhostsExact
  <1> QED BY <1>1, Invariant, PTL
-----------------------------------------------------------------------------
(* The reads.  `ReadsInv' says who owns each entry that is queued, loading,   *)
(* leased or demanded; it is inductive together with IInv.                  *)

(* A worker pins what it popped until it drops its batch, no two workers pin *)
(* the same entry, and what has been popped is never queued again.           *)
BatchesOwn ==
    /\ \A w \in Worker : wpc[w] \in {"pop", "retire", "notify", "exit"} => batch[w] = {}
    /\ \A w \in Worker : \A r \in batch[w] :
          /\ state[r] # "Queued"
          /\ wpc[w] = "drop" => state[r] # "Loading"
          /\ \A v \in Worker : r \in batch[v] => v = w
LoadingIsOwned ==
    \A r \in Ref : state[r] = "Loading" => r \in Resident /\ \E w \in Worker : r \in batch[w]
QueuedIsListed ==
    \A r \in Ref : state[r] = "Queued" =>
        /\ r \in Resident
        /\ IF Has(r, "Speculative") THEN r \in ToSet(low_priority) \/ stopping
                                    ELSE r \in ToSet(high_priority)
MapServes == \A r \in Resident : state[r] # "Failed"
LeasesServe ==
    \A c \in Client : \A r \in leases[c] : state[r] = "Ready" /\ ~Has(r, "Speculative")
(* What a demand holds is nobody's prediction until it has been read.        *)
Keeps(c) ==
    call[c] # NoCall /\ ~Speculates(c) =>
        \A r \in HeldSet(c) : state[r] \in {"Queued", "Loading"} => ~Has(r, "Speculative")
DemandsKept == \A c \in Client : Keeps(c)
CallsOverOnceStopped == stopping => \A c \in Client : pc[c] = "out"
ReadsInv ==
    /\ BatchesOwn /\ LoadingIsOwned /\ QueuedIsListed /\ MapServes
    /\ LeasesServe /\ DemandsKept /\ CallsOverOnceStopped

(* The tokens, until the destructor withdraws them.                         *)
HostServes == host = {r \in Resident : state[r] = "Ready"}

(* What a step has to keep.                                                 *)
ReadsKept == ReadsInv' /\ (HostServes => HostServes')

(* What a client holds are Entry objects.                                   *)
LEMMA HeldAreRefs ==
  ASSUME ClientTypes, NEW c \in Client
  PROVE  /\ HeldSet(c) \subseteq Ref
         /\ \A r \in Ref : ToSet(Append(held[c], r)) = HeldSet(c) \cup {r}
  <1>1. held[c] \in Seq(Ref)
    BY DEF ClientTypes
  <1> QED BY <1>1, ElementsOf, AppendSet DEF HeldSet

EntriesStill == UNCHANGED <<entries, state, flags, host, high_priority, low_priority, stopping>>

(* A step that leaves the entries alone, and the demands of all clients but   *)
(* one, keeps the reads if it keeps that one's demand.                      *)
LEMMA StillEntriesKept ==
  ASSUME IInv, ReadsInv, EntriesStill, NEW c \in Client,
         UNCHANGED <<wpc, batch>>,
         \A d \in Client : leases'[d] \subseteq leases[d],
         ~stopping \/ pc' = pc,
         \A d \in Client \ {c} : call'[d] = call[d] /\ held'[d] = held[d],
         Keeps(c)'
  PROVE  ReadsKept
  <1> USE DEF ReadsInv, EntriesStill
  <1>1. Resident' = Resident
    BY DEF Resident, Mapped
  <1>2. BatchesOwn' /\ LoadingIsOwned' /\ QueuedIsListed' /\ MapServes'
    BY <1>1 DEF BatchesOwn, LoadingIsOwned, QueuedIsListed, MapServes, Has
  <1>3. LeasesServe'
    BY DEF LeasesServe, Has
  <1>4. DemandsKept'
    <2> SUFFICES ASSUME NEW d \in Client \ {c} PROVE Keeps(d)'
      BY DEF DemandsKept
    <2> QED BY DEF DemandsKept, Keeps, Speculates, HeldSet, Has
  <1>5. CallsOverOnceStopped'
    BY DEF CallsOverOnceStopped
  <1>6. HostServes => HostServes'
    BY <1>1 DEF HostServes
  <1> QED BY <1>2, <1>3, <1>4, <1>5, <1>6 DEF ReadsKept

(* A call that ends keeps nothing.                                          *)
LEMMA FinishReleases ==
  ASSUME ClientTypes, NEW c \in Client, Finish(c)
  PROVE  /\ Keeps(c)'
         /\ \A d \in Client \ {c} : call'[d] = call[d] /\ held'[d] = held[d]
  BY DEF Finish, Keeps, ClientTypes

(* The calls that touch no entry: starting and ending a call, refusals,       *)
(* sleeping, waking up, and the bookkeeping of ghosts.                      *)
LEMMA QuietClientKept ==
  ASSUME IInv, ReadsInv, NEW c \in Client,
         \/ Start(c) \/ EnqueueTooLarge(c) \/ EnqueueAbsent(c) \/ TrimGhost(c) \/ Exhausted(c)
         \/ Nap(c) \/ Return(c) \/ AwaitReady(c) \/ TryAcquire(c) \/ ResolveEnd(c)
         \/ AwaitIdle(c) \/ Release(c)
  PROVE  ReadsKept
  <1> USE DEF IInv, ThreadsInv
  <1>1. EntriesStill /\ UNCHANGED <<wpc, batch>>
    BY DEF Start, EnqueueTooLarge, EnqueueAbsent, TrimGhost, Exhausted, Nap, Return, AwaitReady,
           TryAcquire, ResolveEnd, AwaitIdle, Release, EntriesStill, cacheVars, entryVars,
           queueVars, workerVars
  <1>2. \A d \in Client : leases'[d] \subseteq leases[d]
    BY DEF Start, EnqueueTooLarge, EnqueueAbsent, TrimGhost, Exhausted, Nap, Return, AwaitReady,
           TryAcquire, ResolveEnd, AwaitIdle, Release, clientVars, ClientTypes
  <1>3. ~stopping \/ pc' = pc
    BY DEF ReadsInv, CallsOverOnceStopped, Start, EnqueueTooLarge, EnqueueAbsent, TrimGhost,
           Exhausted, Nap, Return, AwaitReady, TryAcquire, ResolveEnd, AwaitIdle, Release
  <1>4. Keeps(c)' /\ \A d \in Client \ {c} : call'[d] = call[d] /\ held'[d] = held[d]
    <2>1. CASE Finish(c)
      BY <2>1, FinishReleases
    <2>2. CASE UNCHANGED <<call, held>>
      BY <1>1, <2>2 DEF ReadsInv, DemandsKept, Keeps, Speculates, HeldSet, Has, EntriesStill
    <2>3. CASE Start(c)
      <3>1. held[c] = << >> /\ held' = held
        BY <2>3 DEF Start, Control
      <3>2. HeldSet(c)' = {}
        BY <3>1 DEF HeldSet, ToSet
      <3>3. \A d \in Client \ {c} : call'[d] = call[d] /\ held'[d] = held[d]
        BY <2>3, <3>1 DEF Start, ClientTypes
      <3> QED BY <3>2, <3>3 DEF Keeps
    <2>4. CASE TryAcquire(c) /\ ~Finish(c)
      <3> DEFINE keys == call[c].keys
      <3>1. /\ \A k \in ToSet(keys) : state[entries[k]] = "Ready"
            /\ held' = [held EXCEPT ![c] = [i \in 1 .. Len(keys) |-> entries[keys[i]]]]
            /\ UNCHANGED call
        BY <2>4 DEF TryAcquire
      <3>2. DOMAIN keys = 1 .. Len(keys)
        <4>1. call[c] \in Calls
          BY <2>4 DEF TryAcquire, Control
        <4>2. keys \in Seq(Key)
          BY <4>1, ConstantsAssumption DEF CallType
        <4> QED BY <4>2, LenProperties
      <3>3. \A r \in HeldSet(c)' : state[r] = "Ready"
        <4> DEFINE taken == [i \in 1 .. Len(keys) |-> entries[keys[i]]]
        <4>1. \A i \in 1 .. Len(keys) : keys[i] \in ToSet(keys)
          BY <3>2 DEF ToSet
        <4>2. \A i \in DOMAIN taken : state[taken[i]] = "Ready"
          BY <3>1, <4>1
        <4>3. held'[c] = taken
          BY <3>1 DEF ClientTypes
        <4> HIDE DEF taken
        <4> QED BY <4>2, <4>3 DEF HeldSet, ToSet
      <3>4. \A d \in Client \ {c} : call'[d] = call[d] /\ held'[d] = held[d]
        BY <3>1 DEF ClientTypes
      <3>5. Keeps(c)'
        BY <1>1, <3>3 DEF Keeps, EntriesStill
      <3> QED BY <3>4, <3>5
    <2>5. Finish(c) \/ UNCHANGED <<call, held>> \/ Start(c) \/ (TryAcquire(c) /\ ~Finish(c))
      BY DEF EnqueueTooLarge, EnqueueAbsent, TrimGhost, Exhausted, Nap, Return, AwaitReady,
             ResolveEnd, AwaitIdle, Release, clientVars
    <2> QED BY <2>1, <2>2, <2>3, <2>4, <2>5
  <1> HIDE DEF IInv, ThreadsInv
  <1> QED BY <1>1, <1>2, <1>3, <1>4, StillEntriesKept

(* A demand takes over a prediction that has not been read.                  *)
LEMMA EnqueueMappedKept ==
  ASSUME IInv, ReadsInv, NEW c \in Client, EnqueueMapped(c)
  PROVE  ReadsKept
  <1> USE DEF ReadsInv
  <1> DEFINE r == entries[NextKey(c)]
             promotes == ~Speculates(c) /\ Promotes(r)
  <1>1. r \in Ref
    <2>1. NextKey(c) \in Key
      BY NextKeyType DEF IInv, ThreadsInv, Control, EnqueueMapped
    <2> QED BY <2>1 DEF EnqueueMapped, IInv, Residency
  <1>2. UNCHANGED <<entries, state, host, low_priority, stopping, wpc, batch, leases, call>>
        /\ pc[c] = "admit"
    BY DEF EnqueueMapped, workerVars, Admitted
  <1>3. IF promotes
        THEN flags' = [flags EXCEPT ![r] = ExactFlags(r)] /\ high_priority' = Requeued(r)
        ELSE UNCHANGED <<flags, high_priority>>
    BY DEF EnqueueMapped
  <1>4. \A d \in Client : HeldSet(d)' = IF d = c THEN HeldSet(c) \cup {r} ELSE HeldSet(d)
    <2>1. held' = [held EXCEPT ![c] = Append(held[c], r)]
      BY DEF EnqueueMapped, Admitted
    <2>2. ToSet(Append(held[c], r)) = HeldSet(c) \cup {r}
      BY <1>1, HeldAreRefs DEF IInv, ThreadsInv
    <2> QED BY <2>1, <2>2 DEF HeldSet, IInv, ThreadsInv, ClientTypes
  <1>5. /\ flags \in [Ref -> SUBSET {"Speculative", "FirstExactMiss", "DiscardWhenReady"}]
        /\ high_priority \in Seq(Ref)
    BY DEF IInv, ThreadsInv, EntryTypes, QueueTypes
  <1>6. \A q \in Ref : IF promotes /\ q = r THEN ~Has(q, "Speculative")'
                                            ELSE Has(q, "Speculative")' = Has(q, "Speculative")
    BY <1>1, <1>3, <1>5 DEF Has, ExactFlags
  <1>8. promotes <=> ~Speculates(c) /\ Has(r, "Speculative") /\ state[r] \in {"Queued", "Loading"}
    BY DEF Promotes
  <1> HIDE DEF r, promotes
  <1>7. /\ ToSet(high_priority) \subseteq ToSet(high_priority')
        /\ promotes /\ state[r] = "Queued" => r \in ToSet(high_priority')
    <2>1. ToSet(Append(high_priority, r)) = ToSet(high_priority) \cup {r}
      BY <1>1, <1>5, AppendSet
    <2>2. high_priority' = IF promotes /\ state[r] = "Queued" THEN Append(high_priority, r)
                                                              ELSE high_priority
      BY <1>3 DEF Requeued
    <2> QED BY <2>1, <2>2
  <1>9. Resident' = Resident /\ Resident \subseteq Ref
    BY <1>2 DEF Resident, Mapped
  <1>10. BatchesOwn' /\ LoadingIsOwned' /\ MapServes'
    BY <1>2, <1>9 DEF BatchesOwn, LoadingIsOwned, MapServes
  <1>11. QueuedIsListed'
    BY <1>2, <1>6, <1>7, <1>9 DEF QueuedIsListed
  <1>12. LeasesServe'
    <2>1. \A d \in Client : leases[d] \subseteq Ref
      BY DEF IInv, ThreadsInv, ClientTypes
    <2> QED BY <1>2, <1>6, <2>1 DEF LeasesServe
  <1>13. DemandsKept'
    <2> SUFFICES ASSUME NEW d \in Client PROVE Keeps(d)'
      BY DEF DemandsKept
    <2>1. HeldSet(d) \subseteq Ref
      BY HeldAreRefs DEF IInv, ThreadsInv
    <2>2. call'[d] = call[d] /\ Speculates(d)' = Speculates(d) /\ Keeps(d)
      BY <1>2 DEF Speculates, DemandsKept
    <2> QED BY <1>1, <1>2, <1>4, <1>6, <1>8, <2>1, <2>2 DEF Keeps
  <1>14. CallsOverOnceStopped'
    BY <1>2 DEF CallsOverOnceStopped
  <1>15. HostServes => HostServes'
    BY <1>2, <1>9 DEF HostServes
  <1> QED BY <1>10, <1>11, <1>12, <1>13, <1>14, <1>15 DEF ReadsKept

(* A demanded pair becomes a lease.                                          *)
LEMMA TakeLeaseKept ==
  ASSUME IInv, ReadsInv, NEW c \in Client, TakeLease(c)
  PROVE  ReadsKept
  <1> USE DEF ReadsInv
  <1> DEFINE r == Head(held[c])
  <1>1. held[c] \in Seq(Ref) /\ held[c] # << >> /\ r \in Ref
    <2>1. held[c] \in Seq(Ref) /\ held[c] # << >>
      BY DEF TakeLease, IInv, ThreadsInv, Control, ClientTypes
    <2> QED BY <2>1, TailSet, ElementsOf
  <1>2. UNCHANGED <<entries, state, host, high_priority, low_priority, stopping, wpc, batch>>
        /\ pc[c] = "take"
    BY DEF TakeLease, queueVars, workerVars
  <1>3. IF state[r] = "Ready"
        THEN /\ flags' = [flags EXCEPT ![r] = @ \ {"Speculative", "FirstExactMiss"}]
             /\ leases' = [leases EXCEPT ![c] = @ \cup {r}]
        ELSE UNCHANGED <<flags, leases>>
    BY DEF TakeLease
  <1>4. \/ /\ call'[c] = NoCall
           /\ \A d \in Client \ {c} : call'[d] = call[d] /\ held'[d] = held[d]
        \/ /\ UNCHANGED call
           /\ HeldSet(c)' \subseteq HeldSet(c)
           /\ \A d \in Client \ {c} : held'[d] = held[d]
    <2>1. CASE Finish(c)
      BY <2>1 DEF Finish, IInv, ThreadsInv, ClientTypes
    <2>2. CASE held' = [held EXCEPT ![c] = Tail(held[c])] /\ UNCHANGED call
      <3>1. held'[c] = Tail(held[c]) /\ \A d \in Client \ {c} : held'[d] = held[d]
        BY <2>2 DEF IInv, ThreadsInv, ClientTypes
      <3>2. ToSet(Tail(held[c])) \subseteq ToSet(held[c])
        BY <1>1, TailSet
      <3> QED BY <2>2, <3>1, <3>2 DEF HeldSet
    <2> QED BY <2>1, <2>2 DEF TakeLease
  <1>5. \A q \in Ref : Has(q, "Speculative")' =>
            Has(q, "Speculative") /\ ~(q = r /\ state[r] = "Ready")
    BY <1>1, <1>3 DEF Has, IInv, ThreadsInv, EntryTypes
  <1>6. \A q \in Ref : state[q] # "Ready" => Has(q, "Speculative")' = Has(q, "Speculative")
    BY <1>1, <1>3 DEF Has, IInv, ThreadsInv, EntryTypes
  <1> HIDE DEF r
  <1>7. ASSUME NEW d \in Client
        PROVE  /\ leases[d] \subseteq Ref
               /\ \A q \in leases'[d] : q \in leases[d] \/ (q = r /\ state[r] = "Ready")
    <2>1. leases \in [Client -> SUBSET Ref]
      BY DEF IInv, ThreadsInv, ClientTypes
    <2>2. leases'[d] = leases[d] \/ (leases'[d] = leases[d] \cup {r} /\ state[r] = "Ready")
      BY <1>3, <2>1
    <2> QED BY <2>1, <2>2
  <1>8. Resident' = Resident /\ Resident \subseteq Ref
    BY <1>2 DEF Resident, Mapped
  <1>9. BatchesOwn' /\ LoadingIsOwned' /\ MapServes'
    BY <1>2, <1>8 DEF BatchesOwn, LoadingIsOwned, MapServes
  <1>10. QueuedIsListed'
    BY <1>2, <1>6, <1>8 DEF QueuedIsListed
  <1>11. LeasesServe'
    BY <1>1, <1>2, <1>5, <1>7 DEF LeasesServe
  <1>12. DemandsKept'
    <2> SUFFICES ASSUME NEW d \in Client PROVE Keeps(d)'
      BY DEF DemandsKept
    <2>1. HeldSet(d) \subseteq Ref /\ Keeps(d)
      BY HeldAreRefs DEF IInv, ThreadsInv, DemandsKept
    <2>2. call'[d] = NoCall \/ (call'[d] = call[d] /\ HeldSet(d)' \subseteq HeldSet(d))
      BY <1>4 DEF HeldSet
    <2> QED BY <1>2, <1>5, <2>1, <2>2 DEF Keeps, Speculates
  <1>13. CallsOverOnceStopped'
    BY <1>2 DEF CallsOverOnceStopped
  <1>14. HostServes => HostServes'
    BY <1>2, <1>8 DEF HostServes
  <1> QED BY <1>9, <1>10, <1>11, <1>12, <1>13, <1>14 DEF ReadsKept

(* An entry that leaves the map, with its flags and its token.               *)
LEMMA RemovedEntry ==
  ASSUME IInv, NEW r \in Ref, Removed(r)
  PROVE  /\ r \in Resident /\ Resident' = Resident \ {r}
         /\ flags' = [flags EXCEPT ![r] = {}]
         /\ host' = host \ {r}
         /\ \A q \in Ref : Has(q, "Speculative")' <=> Has(q, "Speculative") /\ q # r
  <1>1. r \in Resident /\ Resident' = Resident \ {r} /\ arc_list[r] # "None"
    BY RemoveKeepsLists DEF IInv
  <1>2. flags' = [flags EXCEPT ![r] = {}] /\ host' = host \ {r}
    BY <1>1 DEF Removed, RemoveResident, DropHostToken
  <1>3. flags \in [Ref -> SUBSET {"Speculative", "FirstExactMiss", "DiscardWhenReady"}]
    BY DEF IInv, ThreadsInv, EntryTypes
  <1> QED BY <1>1, <1>2, <1>3 DEF Has

(* The sets of the invariants are sets of Entry objects.                     *)
LEMMA OwnersHoldRefs ==
  ASSUME IInv
  PROVE  /\ Resident \subseteq Ref
         /\ \A c \in Client : leases[c] \subseteq Ref /\ HeldSet(c) \subseteq Ref
         /\ \A w \in Worker : batch[w] \subseteq Ref
  BY HeldAreRefs DEF IInv, ThreadsInv, ClientTypes, WorkerTypes, Resident

(* The calls and the workers stand still.                                   *)
ThreadsStill ==
    UNCHANGED <<high_priority, low_priority, stopping, wpc, batch, leases, call, held, pc>>

(* An evicted entry had been read and nobody used it.                        *)
LEMMA EvictKept ==
  ASSUME IInv, ReadsInv, NEW c \in Client, Evict(c)
  PROVE  ReadsKept
  <1> USE DEF ReadsInv
  <1>1. ThreadsStill
    BY DEF Evict, ThreadsStill, queueVars, workerVars, clientVars
  <1>2. PICK r \in Ref :
          /\ Removed(r) /\ state[r] = "Ready" /\ ~Pinned(r)
          /\ state' = [state EXCEPT ![r] = "Failed"]
    BY EvictEffect DEF IInv, ThreadsInv
  <1>3. /\ Resident' = Resident \ {r} /\ host' = host \ {r}
        /\ \A q \in Ref : Has(q, "Speculative")' <=> Has(q, "Speculative") /\ q # r
    BY <1>2, RemovedEntry
  <1>4. /\ \A w \in Worker : r \notin batch[w]
        /\ \A d \in Client : r \notin leases[d]
    BY <1>2 DEF Pinned, Leased
  <1>5. \A q \in Ref : state'[q] = IF q = r THEN "Failed" ELSE state[q]
    BY <1>2 DEF IInv, ThreadsInv, EntryTypes
  <1>6. BatchesOwn'
    BY <1>1, <1>4, <1>5, OwnersHoldRefs DEF BatchesOwn, ThreadsStill
  <1>7. LoadingIsOwned' /\ MapServes'
    BY <1>1, <1>3, <1>5, OwnersHoldRefs DEF LoadingIsOwned, MapServes, ThreadsStill
  <1>8. QueuedIsListed'
    BY <1>1, <1>3, <1>5 DEF QueuedIsListed, ThreadsStill
  <1>9. LeasesServe'
    BY <1>1, <1>3, <1>4, <1>5, OwnersHoldRefs DEF LeasesServe, ThreadsStill
  <1>10. DemandsKept'
    BY <1>1, <1>3, <1>5, OwnersHoldRefs
       DEF DemandsKept, Keeps, ThreadsStill, HeldSet, Speculates
  <1>11. CallsOverOnceStopped'
    BY <1>1 DEF CallsOverOnceStopped, ThreadsStill
  <1>12. HostServes => HostServes'
    BY <1>3, <1>5, OwnersHoldRefs DEF HostServes
  <1> QED BY <1>6, <1>7, <1>8, <1>9, <1>10, <1>11, <1>12 DEF ReadsKept

(* A misprediction is cancelled unless it is being read; nobody leases or     *)
(* demands it.                                                             *)
LEMMA ResolveOneKept ==
  ASSUME IInv, ReadsInv, NEW c \in Client, ResolveOne(c)
  PROVE  ReadsKept
  <1> USE DEF ReadsInv
  <1>1. ThreadsStill
    BY DEF ResolveOne, ThreadsStill, queueVars, workerVars, clientVars
  <1>2. PICK r \in Mispredicted(c) :
          IF state[r] = "Loading"
          THEN /\ flags' = [flags EXCEPT ![r] = @ \cup {"DiscardWhenReady"}]
               /\ UNCHANGED <<entries, state, host>>
          ELSE /\ state' = [state EXCEPT ![r] = IF @ = "Queued" THEN "Failed" ELSE @]
               /\ RemoveResident(r)
    BY DEF ResolveOne
  <1>3. r \in Resident /\ r \in Ref /\ Mapped(r) /\ Has(r, "Speculative")
    BY DEF Mispredicted, Resident
  <1>4. CASE state[r] = "Loading"
    <2>1. /\ UNCHANGED <<entries, state, host>> /\ Resident' = Resident
      BY <1>2, <1>4 DEF Resident, Mapped
    <2>2. \A q \in Ref : Has(q, "Speculative")' <=> Has(q, "Speculative")
      BY <1>2, <1>3, <1>4 DEF Has, IInv, ThreadsInv, EntryTypes
    <2>3. BatchesOwn' /\ LoadingIsOwned' /\ MapServes'
      BY <1>1, <2>1 DEF BatchesOwn, LoadingIsOwned, MapServes, ThreadsStill
    <2>4. QueuedIsListed'
      BY <1>1, <2>1, <2>2 DEF QueuedIsListed, ThreadsStill
    <2>5. LeasesServe' /\ DemandsKept'
      BY <1>1, <2>1, <2>2, OwnersHoldRefs
         DEF LeasesServe, DemandsKept, Keeps, ThreadsStill, HeldSet, Speculates
    <2>6. CallsOverOnceStopped'
      BY <1>1 DEF CallsOverOnceStopped, ThreadsStill
    <2>7. HostServes => HostServes'
      BY <2>1 DEF HostServes
    <2> QED BY <2>3, <2>4, <2>5, <2>6, <2>7 DEF ReadsKept
  <1>5. CASE state[r] # "Loading"
    <2>1. /\ Resident' = Resident \ {r} /\ host' = host \ {r}
          /\ \A q \in Ref : Has(q, "Speculative")' <=> Has(q, "Speculative") /\ q # r
      BY <1>2, <1>3, <1>5, RemovedEntry DEF Removed
    <2>2. \A q \in Ref : state'[q] = IF q = r /\ state[r] = "Queued" THEN "Failed" ELSE state[q]
      BY <1>2, <1>3, <1>5 DEF IInv, ThreadsInv, EntryTypes
    <2>3. BatchesOwn'
      BY <1>1, <2>2, OwnersHoldRefs DEF BatchesOwn, ThreadsStill
    <2>4. LoadingIsOwned' /\ MapServes'
      BY <1>1, <1>5, <2>1, <2>2, OwnersHoldRefs DEF LoadingIsOwned, MapServes, ThreadsStill
    <2>5. QueuedIsListed'
      BY <1>1, <2>1, <2>2 DEF QueuedIsListed, ThreadsStill
    <2>6. LeasesServe'
      BY <1>1, <1>3, <2>1, <2>2, OwnersHoldRefs DEF LeasesServe, ThreadsStill
    <2>7. DemandsKept'
      BY <1>1, <2>1, <2>2, OwnersHoldRefs
         DEF DemandsKept, Keeps, ThreadsStill, HeldSet, Speculates
    <2>8. CallsOverOnceStopped'
      BY <1>1 DEF CallsOverOnceStopped, ThreadsStill
    <2>9. HostServes => HostServes'
      BY <2>1, <2>2, OwnersHoldRefs DEF HostServes
    <2> QED BY <2>3, <2>4, <2>5, <2>6, <2>7, <2>8, <2>9 DEF ReadsKept
  <1> QED BY <1>4, <1>5

(* An admitted pair is a new object, listed by the priority of its read.     *)
LEMMA InsertKept ==
  ASSUME IInv, ReadsInv, NEW c \in Client, Insert(c)
  PROVE  ReadsKept
  <1> USE DEF ReadsInv
  <1>1. UNCHANGED <<stopping, wpc, batch, leases, call, host>> /\ pc[c] = "evict"
    BY DEF Insert, workerVars, Admitted
  <1>2. PICK r \in Ref :
          /\ ~Pinned(r)
          /\ entries[KeyOf(r)] = NoEntry /\ entries' = [entries EXCEPT ![KeyOf(r)] = r]
          /\ state' = [state EXCEPT ![r] = "Queued"]
          /\ flags' = [flags EXCEPT ![r] =
                          {IF Speculates(c) THEN "Speculative" ELSE "FirstExactMiss"}]
          /\ IF Speculates(c)
             THEN low_priority' = Append(low_priority, r) /\ UNCHANGED high_priority
             ELSE high_priority' = Append(high_priority, r) /\ UNCHANGED low_priority
          /\ Admitted(c, r)
    BY InsertEffect DEF IInv, ThreadsInv, Inserted
  <1>3. Resident' = Resident \cup {r} /\ r \notin Resident
    <2>1. /\ entries \in [Key -> Ref \cup {NoEntry}]
          /\ \A q \in Ref : KeyOf(q) \in Key /\ q # NoEntry
      BY SizeType, ConstantsAssumption DEF IInv, Residency
    <2>2. \A q \in Ref : Mapped(q)' <=> Mapped(q) \/ q = r
      BY <1>2, <2>1 DEF Mapped
    <2>3. ~Mapped(r)
      BY <1>2, <2>1 DEF Mapped
    <2> QED BY <2>2, <2>3 DEF Resident
  <1>4. \A q \in Ref : /\ state'[q] = IF q = r THEN "Queued" ELSE state[q]
                       /\ Has(q, "Speculative")'
                             <=> IF q = r THEN Speculates(c) ELSE Has(q, "Speculative")
    BY <1>2 DEF Has, IInv, ThreadsInv, EntryTypes
  <1>5. /\ \A w \in Worker : r \notin batch[w]
        /\ \A d \in Client : r \notin leases[d] /\ r \notin HeldSet(d)
    BY <1>2 DEF Pinned, Leased, HeldSet
  <1>6. /\ ToSet(high_priority) \subseteq ToSet(high_priority')
        /\ ToSet(low_priority) \subseteq ToSet(low_priority')
        /\ IF Speculates(c) THEN r \in ToSet(low_priority') ELSE r \in ToSet(high_priority')
    <2>1. high_priority \in Seq(Ref) /\ low_priority \in Seq(Ref)
      BY DEF IInv, ThreadsInv, QueueTypes
    <2>2. /\ ToSet(Append(high_priority, r)) = ToSet(high_priority) \cup {r}
          /\ ToSet(Append(low_priority, r)) = ToSet(low_priority) \cup {r}
      BY <2>1, AppendSet
    <2> QED BY <1>2, <2>2
  <1>7. \A d \in Client : HeldSet(d)' = IF d = c THEN HeldSet(c) \cup {r} ELSE HeldSet(d)
    <2>1. held' = [held EXCEPT ![c] = Append(held[c], r)]
      BY <1>2 DEF Admitted
    <2>2. ToSet(Append(held[c], r)) = HeldSet(c) \cup {r}
      BY HeldAreRefs DEF IInv, ThreadsInv
    <2> QED BY <2>1, <2>2 DEF HeldSet, IInv, ThreadsInv, ClientTypes
  <1>8. BatchesOwn'
    BY <1>1, <1>4, <1>5, OwnersHoldRefs DEF BatchesOwn
  <1>9. LoadingIsOwned' /\ MapServes'
    BY <1>1, <1>3, <1>4, OwnersHoldRefs DEF LoadingIsOwned, MapServes
  <1>10. QueuedIsListed'
    BY <1>1, <1>3, <1>4, <1>6 DEF QueuedIsListed
  <1>11. LeasesServe'
    BY <1>1, <1>4, <1>5, OwnersHoldRefs DEF LeasesServe
  <1>12. DemandsKept'
    <2> SUFFICES ASSUME NEW d \in Client PROVE Keeps(d)'
      BY DEF DemandsKept
    <2>1. call'[d] = call[d] /\ Speculates(d)' = Speculates(d) /\ Keeps(d)
      BY <1>1 DEF Speculates, DemandsKept
    <2> QED BY <1>4, <1>5, <1>7, <2>1, OwnersHoldRefs DEF Keeps
  <1>13. CallsOverOnceStopped'
    BY <1>1 DEF CallsOverOnceStopped
  <1>14. HostServes => HostServes'
    BY <1>1, <1>3, <1>4, OwnersHoldRefs DEF HostServes
  <1> QED BY <1>8, <1>9, <1>10, <1>11, <1>12, <1>13, <1>14 DEF ReadsKept

(* The destructor drops the queued predictions.                             *)
LEMMA StopKept ==
  ASSUME IInv, ReadsInv, Stop
  PROVE  ReadsKept
  <1> USE DEF ReadsInv
  <1>1. /\ UNCHANGED <<entries, state, flags, host, high_priority, wpc, batch, leases, call,
                       held, pc>>
        /\ stopping' = TRUE /\ \A c \in Client : pc[c] = "out"
    BY DEF Stop, cacheVars, entryVars, workerVars, clientVars
  <1>2. Resident' = Resident
    BY <1>1 DEF Resident, Mapped
  <1>3. BatchesOwn' /\ LoadingIsOwned' /\ MapServes'
    BY <1>1, <1>2 DEF BatchesOwn, LoadingIsOwned, MapServes
  <1>4. QueuedIsListed'
    BY <1>1, <1>2 DEF QueuedIsListed, Has
  <1>5. LeasesServe' /\ DemandsKept'
    BY <1>1 DEF LeasesServe, DemandsKept, Keeps, HeldSet, Speculates, Has
  <1>6. CallsOverOnceStopped'
    BY <1>1 DEF CallsOverOnceStopped
  <1>7. HostServes => HostServes'
    BY <1>1, <1>2 DEF HostServes
  <1> QED BY <1>3, <1>4, <1>5, <1>6, <1>7 DEF ReadsKept

(* Steps that change no read: the destructor's last words, and stuttering.   *)
LEMMA NothingReadKept ==
  ASSUME IInv, ReadsInv, Withdraw \/ UNCHANGED vars
  PROVE  ReadsInv' /\ (~Withdraw /\ HostServes => HostServes')
  <1> USE DEF ReadsInv
  <1>1. /\ UNCHANGED <<entries, state, flags, high_priority, low_priority, stopping, wpc, batch,
                       leases, call, held, pc>>
        /\ ~Withdraw => UNCHANGED host
    BY DEF Withdraw, vars, cacheVars, entryVars, queueVars, workerVars, clientVars
  <1>2. Resident' = Resident
    BY <1>1 DEF Resident, Mapped
  <1>3. BatchesOwn' /\ LoadingIsOwned' /\ MapServes'
    BY <1>1, <1>2 DEF BatchesOwn, LoadingIsOwned, MapServes
  <1>4. QueuedIsListed'
    BY <1>1, <1>2 DEF QueuedIsListed, Has
  <1>5. LeasesServe' /\ DemandsKept'
    BY <1>1 DEF LeasesServe, DemandsKept, Keeps, HeldSet, Speculates, Has
  <1>6. CallsOverOnceStopped'
    BY <1>1 DEF CallsOverOnceStopped
  <1>7. ~Withdraw /\ HostServes => HostServes'
    BY <1>1, <1>2 DEF HostServes
  <1> QED BY <1>3, <1>4, <1>5, <1>6, <1>7

-----------------------------------------------------------------------------
(* The workers.  A worker starts at most one queued read at a time, and what *)
(* it takes out of a queue otherwise is not queued any more.                *)
Starts(w, r) ==
    /\ state[r] = "Queued" /\ state' = [state EXCEPT ![r] = "Loading"]
    /\ batch' = [batch EXCEPT ![w] = batch[w] \cup {r}]
QueuedStay ==
    \A q \in Ref : state'[q] = "Queued" =>
        /\ q \in ToSet(high_priority) => q \in ToSet(high_priority')
        /\ q \in ToSet(low_priority) => q \in ToSet(low_priority')
ClientsStill == UNCHANGED <<entries, flags, host, stopping, leases, call, held, pc>>

(* pop_first_ready_locked starts the first read that is still queued, if any. *)
LEMMA PopTakes ==
  ASSUME IInv, ReadsInv, NEW w \in Worker, Pop(w)
  PROVE  /\ ClientsStill /\ QueuedStay
         /\ \/ UNCHANGED <<state, batch, wpc>>
            \/ \E r \in Ref : /\ Starts(w, r)
                              /\ \E next \in {"load", "window", "gather"} :
                                    wpc' = [wpc EXCEPT ![w] = next]
  <1> DEFINE name == IF high_priority # << >> THEN "high" ELSE "low"
             queue == IF high_priority # << >> THEN high_priority ELSE low_priority
             live == {i \in DOMAIN queue : state[queue[i]] = "Queued"}
             first == CHOOSE i \in live : \A j \in live : i <= j
             rest == IF live = {} THEN << >> ELSE SubSeq(queue, first + 1, Len(queue))
             r == queue[first]
  <1>1. queue \in Seq(Ref) /\ DOMAIN queue = 1 .. Len(queue) /\ Len(queue) \in Nat
    <2>1. queue \in Seq(Ref)
      BY DEF IInv, ThreadsInv, QueueTypes
    <2> QED BY <2>1, LenProperties
  <1>2. /\ SetLane(name, rest)
        /\ IF live = {} THEN UNCHANGED <<state, batch, wpc>>
           ELSE /\ state' = [state EXCEPT ![r] = "Loading"]
                /\ batch' = [batch EXCEPT ![w] = {r}]
                /\ \E next \in {"load", "window", "gather"} : wpc' = [wpc EXCEPT ![w] = next]
        /\ wpc[w] = "pop" /\ ClientsStill
    BY DEF Pop, ClientsStill, clientVars
  <1>3. batch[w] = {}
    BY <1>2 DEF ReadsInv, BatchesOwn
  <1>4. live # {} => first \in live /\ \A j \in live : first <= j
    <2>1. live \subseteq Nat
      BY <1>1
    <2> HIDE DEF live
    <2> QED BY <2>1, LeastNumber
  <1>5. ASSUME live # {}
        PROVE  r \in Ref /\ Starts(w, r)
    <2> HIDE DEF first
    <2>1. first \in 1 .. Len(queue) /\ state[queue[first]] = "Queued"
      BY <1>1, <1>4, <1>5
    <2>2. r \in Ref
      BY <1>1, <2>1, ElementOfSeq
    <2> HIDE DEF live, rest
    <2>3. batch' = [batch EXCEPT ![w] = batch[w] \cup {r}]
      BY <1>2, <1>3, <1>5
    <2> QED BY <1>2, <1>5, <2>1, <2>2, <2>3 DEF Starts
  <1>6. ASSUME NEW q \in Ref, state'[q] = "Queued", q \in ToSet(queue)
        PROVE  q \in ToSet(rest)
    <2>1. PICK i \in 1 .. Len(queue) : queue[i] = q
      BY <1>1, <1>6, ElementsOf
    <2>2. state[q] = "Queued" /\ (live # {} => q # r)
      <3> HIDE DEF live, r, rest, queue
      <3>1. state \in [Ref -> {"Queued", "Loading", "Ready", "Failed"}]
        BY DEF IInv, ThreadsInv, EntryTypes
      <3> QED BY <1>2, <1>5, <1>6, <3>1
    <2>3. i \in live
      BY <1>1, <2>1, <2>2
    <2> HIDE DEF first
    <2>4. first \in 1 .. Len(queue) /\ first <= i /\ i # first
      BY <1>1, <1>4, <2>1, <2>2, <2>3
    <2>5. rest = SubSeq(queue, first + 1, Len(queue))
      BY <2>3
    <2> HIDE DEF rest, live, queue
    <2>6. \A j \in first + 1 .. Len(queue) : queue[j] \in Ref
      BY <1>1, <2>4, ElementOfSeq
    <2>7. /\ rest \in Seq(Ref) /\ Len(rest) = Len(queue) - first
          /\ \A j \in 1 .. Len(queue) - first : rest[j] = queue[first + j]
      <3>1. /\ SubSeq(queue, first + 1, Len(queue)) \in Seq(Ref)
            /\ Len(SubSeq(queue, first + 1, Len(queue)))
                  = IF first + 1 <= Len(queue) THEN Len(queue) - (first + 1) + 1 ELSE 0
            /\ \A j \in 1 .. Len(queue) - (first + 1) + 1 :
                  SubSeq(queue, first + 1, Len(queue))[j] = queue[first + 1 + j - 1]
        BY <1>1, <2>4, <2>6, SubSeqProperties, first + 1 \in Int, Len(queue) \in Int
      <3>2. \A j \in 1 .. Len(queue) - first : first + 1 + j - 1 = first + j
        BY <1>1, <2>4
      <3>3. Len(queue) - (first + 1) + 1 = Len(queue) - first
        BY <1>1, <2>4
      <3>4. first + 1 <= Len(queue) \/ Len(queue) - first = 0
        <4>1. Len(queue) \in Nat /\ first \in Nat /\ first <= Len(queue)
          BY <1>1, <2>4
        <4> QED BY <4>1
      <3>5. Len(rest) = Len(queue) - first
        BY <2>5, <3>1, <3>3, <3>4
      <3>6. \A j \in 1 .. Len(queue) - first : rest[j] = queue[first + j]
        BY <2>5, <3>1, <3>2, <3>3
      <3> QED BY <2>5, <3>1, <3>5, <3>6
    <2>8. i - first \in 1 .. Len(rest) /\ rest[i - first] = q
      BY <1>1, <2>1, <2>4, <2>7, SMTT(30)
    <2> QED BY <2>7, <2>8, ElementsOf
  <1>7. QueuedStay
    <2> HIDE DEF rest
    <2> QED BY <1>2, <1>6 DEF QueuedStay, SetLane
  <1> HIDE DEF live, rest, r, queue, name
  <1> QED BY <1>2, <1>5, <1>7

(* The coalescing scan, one candidate.                                      *)
LEMMA GatherTakes ==
  ASSUME IInv, ReadsInv, NEW w \in Worker, Gather(w)
  PROVE  /\ ClientsStill /\ QueuedStay /\ UNCHANGED wpc /\ wpc[w] = "gather"
         /\ UNCHANGED <<state, batch>> \/ \E r \in Ref : Starts(w, r)
  <1> DEFINE queue == Lane(w)
             r == queue[cursor[w]]
  <1>1. queue \in Seq(Ref) /\ cursor[w] \in 1 .. Len(queue)
    <2>1. queue \in Seq(Ref)
      BY DEF Lane, IInv, ThreadsInv, QueueTypes
    <2>2. Len(queue) \in Nat
      BY <2>1, LenProperties
    <2> QED BY <2>1, <2>2 DEF Gather, IInv, ThreadsInv, WorkerTypes
  <1>2. /\ IF LeavesQueue(w, r) THEN SetLane(lane[w], RemoveAt(queue, cursor[w]))
                                ELSE UNCHANGED <<high_priority, low_priority>>
        /\ IF state[r] = "Queued" /\ AdjacentTo(w, r)
           THEN /\ state' = [state EXCEPT ![r] = "Loading"]
                /\ batch' = [batch EXCEPT ![w] = @ \cup {r}]
           ELSE UNCHANGED <<state, batch>>
        /\ UNCHANGED wpc /\ wpc[w] = "gather"
    BY DEF Gather
  <1>3. ClientsStill
    BY DEF Gather, ClientsStill, clientVars
  <1>4. r \in Ref
    BY <1>1, ElementOfSeq
  <1>5. ToSet(queue) \subseteq ToSet(RemoveAt(queue, cursor[w])) \cup {r}
    BY <1>1, RemoveAtSet
  <1>6. queue = IF lane[w] = "high" THEN high_priority ELSE low_priority
    BY DEF Lane
  <1> HIDE DEF r, queue
  <1>7. LeavesQueue(w, r) => state'[r] # "Queued"
    <2>1. state \in [Ref -> {"Queued", "Loading", "Ready", "Failed"}]
      BY DEF IInv, ThreadsInv, EntryTypes
    <2> QED BY <1>2, <1>4, <2>1 DEF LeavesQueue
  <1>8. QueuedStay
    <2>1. CASE LeavesQueue(w, r)
      BY <1>2, <1>5, <1>6, <1>7, <2>1 DEF QueuedStay, SetLane
    <2>2. CASE ~LeavesQueue(w, r)
      BY <1>2, <2>2 DEF QueuedStay
    <2> QED BY <2>1, <2>2
  <1>9. UNCHANGED <<state, batch>> \/ Starts(w, r)
    BY <1>2 DEF Starts
  <1> QED BY <1>2, <1>3, <1>4, <1>8, <1>9

(* Nothing starts: only queue references leave.                              *)
LEMMA NothingStartedKept ==
  ASSUME IInv, ReadsInv, ClientsStill, QueuedStay, UNCHANGED <<state, batch, wpc>>
  PROVE  ReadsKept
  <1> USE DEF ReadsInv
  <1>1. Resident' = Resident
    BY DEF Resident, Mapped, ClientsStill
  <1>2. BatchesOwn' /\ LoadingIsOwned' /\ MapServes'
    BY <1>1 DEF BatchesOwn, LoadingIsOwned, MapServes
  <1>3. QueuedIsListed'
    BY <1>1 DEF QueuedIsListed, QueuedStay, ClientsStill, Has
  <1>4. LeasesServe' /\ DemandsKept' /\ CallsOverOnceStopped'
    BY DEF ClientsStill, LeasesServe, DemandsKept, Keeps, HeldSet, Speculates, Has,
           CallsOverOnceStopped
  <1>5. HostServes => HostServes'
    BY <1>1 DEF HostServes, ClientsStill
  <1> QED BY <1>2, <1>3, <1>4, <1>5 DEF ReadsKept

(* A queued read starts, in the batch of the worker that took it.            *)
LEMMA StartedKept ==
  ASSUME IInv, ReadsInv, ClientsStill, QueuedStay, NEW w \in Worker, NEW r \in Ref,
         Starts(w, r), NEW next \in {"load", "window", "gather"},
         wpc' = [wpc EXCEPT ![w] = next]
  PROVE  ReadsKept
  <1> USE DEF ReadsInv
  <1>1. Resident' = Resident /\ Resident \subseteq Ref
    BY DEF Resident, Mapped, ClientsStill
  <1>2. \A q \in Ref : /\ state'[q] = IF q = r THEN "Loading" ELSE state[q]
                       /\ Has(q, "Speculative")' = Has(q, "Speculative")
    BY DEF Starts, ClientsStill, Has, IInv, ThreadsInv, EntryTypes
  <1>3. /\ \A v \in Worker : batch'[v] = IF v = w THEN batch[w] \cup {r} ELSE batch[v]
        /\ \A v \in Worker : wpc'[v] = IF v = w THEN next ELSE wpc[v]
        /\ \A v \in Worker : batch[v] \subseteq Ref
    BY DEF Starts, IInv, ThreadsInv, WorkerTypes
  <1>4. state[r] = "Queued" /\ \A v \in Worker : r \notin batch[v]
    BY DEF Starts, BatchesOwn
  <1>5. BatchesOwn'
    <2>1. \A v \in Worker : wpc'[v] \in {"pop", "retire", "notify", "exit"} => batch'[v] = {}
      BY <1>3 DEF BatchesOwn
    <2>2. ASSUME NEW v \in Worker, NEW q \in batch'[v]
          PROVE  /\ state'[q] # "Queued"
                 /\ wpc'[v] = "drop" => state'[q] # "Loading"
                 /\ \A u \in Worker : q \in batch'[u] => u = v
      <3>1. CASE q = r
        <4>1. \A u \in Worker : q \in batch'[u] => u = w
          BY <1>3, <1>4, <3>1
        <4> QED BY <1>2, <1>3, <2>2, <3>1, <4>1
      <3>2. CASE q # r
        <4>1. \A u \in Worker : q \in batch'[u] => q \in batch[u]
          BY <1>3, <3>2
        <4>2. q \in batch[v] /\ q \in Ref
          BY <1>3, <2>2, <4>1
        <4> QED BY <1>2, <1>3, <3>2, <4>1, <4>2 DEF BatchesOwn
      <3> QED BY <3>1, <3>2
    <2> QED BY <2>1, <2>2 DEF BatchesOwn
  <1>6. LoadingIsOwned'
    BY <1>1, <1>2, <1>3, <1>4 DEF LoadingIsOwned, QueuedIsListed
  <1>7. MapServes'
    BY <1>1, <1>2 DEF MapServes
  <1>8. QueuedIsListed'
    BY <1>1, <1>2 DEF QueuedIsListed, QueuedStay, ClientsStill
  <1>9. LeasesServe'
    BY <1>2, <1>4, OwnersHoldRefs DEF LeasesServe, ClientsStill
  <1>10. DemandsKept'
    BY <1>2, <1>4, OwnersHoldRefs DEF DemandsKept, Keeps, ClientsStill, HeldSet, Speculates
  <1>11. CallsOverOnceStopped'
    BY DEF CallsOverOnceStopped, ClientsStill
  <1>12. HostServes => HostServes'
    BY <1>1, <1>2, <1>4 DEF HostServes, ClientsStill
  <1> QED BY <1>5, <1>6, <1>7, <1>8, <1>9, <1>10, <1>11, <1>12 DEF ReadsKept

(* Whatever a pop takes out of its queue, the reads stay in order.           *)
LEMMA PopKept ==
  ASSUME IInv, ReadsInv, NEW w \in Worker, Pop(w)
  PROVE  ReadsKept
  <1>1. CASE UNCHANGED <<state, batch, wpc>>
    BY <1>1, PopTakes, NothingStartedKept
  <1>2. CASE ~UNCHANGED <<state, batch, wpc>>
    BY <1>2, PopTakes, StartedKept
  <1> QED BY <1>1, <1>2

(* Joining or skipping a candidate of a coalesced read keeps them in order.  *)
LEMMA GatherKept ==
  ASSUME IInv, ReadsInv, NEW w \in Worker, Gather(w)
  PROVE  ReadsKept
  <1>1. CASE UNCHANGED <<state, batch>>
    BY <1>1, GatherTakes, NothingStartedKept
  <1>2. CASE ~UNCHANGED <<state, batch>>
    <2>1. PICK r \in Ref : Starts(w, r)
      BY <1>2, GatherTakes
    <2>2. wpc' = [wpc EXCEPT ![w] = "gather"]
      BY GatherTakes DEF IInv, ThreadsInv, WorkerTypes
    <2> QED BY <2>1, <2>2, GatherTakes, StartedKept
  <1> QED BY <1>1, <1>2

(* A read ends: the entry serves, or it leaves the map.                      *)
LEMMA PublishEffect ==
  ASSUME IInv, ReadsInv, NEW w \in Worker, Publish(w)
  PROVE  /\ UNCHANGED <<high_priority, low_priority, stopping, batch, leases, call, held, pc>>
         /\ \E r \in batch[w] :
              /\ r \in Ref /\ r \in Resident /\ state[r] = "Loading"
              /\ \/ /\ \A q \in batch[w] : q = r \/ state[q] # "Loading"
                    /\ wpc' = [wpc EXCEPT ![w] = "drop"]
                 \/ wpc' = [wpc EXCEPT ![w] = "publish"]
              /\ IF Fails(w, r)
                 THEN Removed(r) /\ state' = [state EXCEPT ![r] = "Failed"]
                 ELSE /\ state' = [state EXCEPT ![r] = "Ready"] /\ host' = host \cup {r}
                      /\ UNCHANGED <<entries, flags>>
  <1>1. PICK r \in {q \in batch[w] : state[q] = "Loading"} :
          LET last == \A q \in batch[w] : q = r \/ state[q] # "Loading"
          IN  /\ IF Fails(w, r)
                 THEN /\ state' = [state EXCEPT ![r] = "Failed"]
                      /\ IF Mapped(r) THEN RemoveResident(r)
                                      ELSE UNCHANGED <<entries, flags, exact, arcVars, host>>
                 ELSE /\ state' = [state EXCEPT ![r] = "Ready"]
                      /\ host' = host \cup {r}
                      /\ UNCHANGED <<entries, flags, exact, arcVars>>
              /\ mutex' = IF last THEN Nobody ELSE w
              /\ wpc' = [wpc EXCEPT ![w] = IF last THEN "drop" ELSE "publish"]
    BY DEF Publish
  <1>2. r \in Ref /\ r \in Resident /\ Mapped(r)
    BY <1>1, OwnersHoldRefs DEF ReadsInv, LoadingIsOwned, Resident
  <1>3. IF Fails(w, r)
        THEN Removed(r) /\ state' = [state EXCEPT ![r] = "Failed"]
        ELSE /\ state' = [state EXCEPT ![r] = "Ready"] /\ host' = host \cup {r}
             /\ UNCHANGED <<entries, flags>>
    BY <1>1, <1>2 DEF Removed
  <1>4. \/ /\ \A q \in batch[w] : q = r \/ state[q] # "Loading"
           /\ wpc' = [wpc EXCEPT ![w] = "drop"]
        \/ wpc' = [wpc EXCEPT ![w] = "publish"]
    BY <1>1
  <1>5. UNCHANGED <<high_priority, low_priority, stopping, batch, leases, call, held, pc>>
    BY DEF Publish, queueVars, clientVars
  <1> QED BY <1>1, <1>2, <1>3, <1>4, <1>5

(* The end of a read keeps them in order.                                    *)
LEMMA PublishKept ==
  ASSUME IInv, ReadsInv, NEW w \in Worker, Publish(w)
  PROVE  ReadsKept
  <1> USE DEF ReadsInv
  <1>1. UNCHANGED <<high_priority, low_priority, stopping, batch, leases, call, held, pc>>
    BY PublishEffect
  <1>2. PICK r \in batch[w] :
          /\ r \in Ref /\ r \in Resident /\ state[r] = "Loading"
          /\ \/ /\ \A q \in batch[w] : q = r \/ state[q] # "Loading"
                /\ wpc' = [wpc EXCEPT ![w] = "drop"]
             \/ wpc' = [wpc EXCEPT ![w] = "publish"]
          /\ IF Fails(w, r)
             THEN Removed(r) /\ state' = [state EXCEPT ![r] = "Failed"]
             ELSE /\ state' = [state EXCEPT ![r] = "Ready"] /\ host' = host \cup {r}
                  /\ UNCHANGED <<entries, flags>>
    BY PublishEffect
  <1>3. /\ Resident' = (IF Fails(w, r) THEN Resident \ {r} ELSE Resident)
        /\ host' = (IF Fails(w, r) THEN host \ {r} ELSE host \cup {r})
        /\ \A q \in Ref : Has(q, "Speculative")' => Has(q, "Speculative")
        /\ \A q \in Ref : q # r => (Has(q, "Speculative")' <=> Has(q, "Speculative"))
    <2>1. CASE Fails(w, r)
      <3>1. Removed(r) /\ r \in Ref
        BY <1>2, <2>1
      <3>2. /\ Resident' = Resident \ {r} /\ host' = host \ {r}
            /\ \A q \in Ref : Has(q, "Speculative")' <=> Has(q, "Speculative") /\ q # r
        BY <3>1, RemovedEntry
      <3> QED BY <2>1, <3>2
    <2>2. CASE ~Fails(w, r)
      BY <1>2, <2>2 DEF Resident, Mapped, Has
    <2> QED BY <2>1, <2>2
  <1>4. \A q \in Ref : state'[q] = IF q = r THEN (IF Fails(w, r) THEN "Failed" ELSE "Ready")
                                   ELSE state[q]
    BY <1>2 DEF IInv, ThreadsInv, EntryTypes
  <1>5. BatchesOwn'
    <2>1. \A v \in Worker : v # w => wpc'[v] = wpc[v]
      BY <1>2 DEF IInv, ThreadsInv, WorkerTypes
    <2>2. wpc'[w] = "publish" \/ (wpc'[w] = "drop" /\ \A q \in batch[w] : q = r \/ state[q] # "Loading")
      BY <1>2 DEF IInv, ThreadsInv, WorkerTypes
    <2>3. \A v \in Worker : wpc'[v] \in {"pop", "retire", "notify", "exit"} => batch'[v] = {}
      BY <1>1, <2>1, <2>2 DEF BatchesOwn
    <2>4. ASSUME NEW v \in Worker, NEW q \in batch'[v]
          PROVE  /\ state'[q] # "Queued"
                 /\ wpc'[v] = "drop" => state'[q] # "Loading"
                 /\ \A u \in Worker : q \in batch'[u] => u = v
      <3>1. q \in batch[v] /\ q \in Ref
        BY <1>1, <2>4, OwnersHoldRefs
      <3> QED BY <1>1, <1>4, <2>1, <2>2, <3>1 DEF BatchesOwn
    <2> QED BY <2>3, <2>4 DEF BatchesOwn
  <1>6. LoadingIsOwned' /\ MapServes'
    BY <1>1, <1>3, <1>4, OwnersHoldRefs DEF LoadingIsOwned, MapServes
  <1>7. QueuedIsListed'
    BY <1>1, <1>3, <1>4 DEF QueuedIsListed
  <1>8. LeasesServe'
    BY <1>1, <1>2, <1>3, <1>4, OwnersHoldRefs DEF LeasesServe
  <1>9. DemandsKept'
    BY <1>1, <1>3, <1>4, OwnersHoldRefs DEF DemandsKept, Keeps, HeldSet, Speculates
  <1>10. CallsOverOnceStopped'
    BY <1>1 DEF CallsOverOnceStopped
  <1>11. HostServes => HostServes'
    BY <1>2, <1>3, <1>4, OwnersHoldRefs DEF HostServes
  <1> QED BY <1>5, <1>6, <1>7, <1>8, <1>9, <1>10, <1>11 DEF ReadsKept

(* The other steps of a worker only move it along.                           *)
LEMMA QuietWorkerKept ==
  ASSUME IInv, ReadsInv, NEW w \in Worker,
         PopNothing(w) \/ Window(w) \/ GatherEnd(w) \/ Load(w) \/ DropBatch(w)
         \/ Retire(w) \/ Notify(w)
  PROVE  ReadsKept
  <1> USE DEF ReadsInv
  <1>1. ClientsStill /\ UNCHANGED <<state, high_priority, low_priority>>
    BY DEF PopNothing, Window, GatherEnd, Load, DropBatch, Retire, Notify, ClientsStill,
           cacheVars, entryVars, queueVars, clientVars
  <1>2. \/ UNCHANGED batch /\ wpc' = wpc
        \/ /\ UNCHANGED batch /\ wpc[w] \notin {"pop", "retire", "notify", "exit"}
           /\ \E next \in {"gather", "load", "publish"} : wpc' = [wpc EXCEPT ![w] = next]
        \/ /\ UNCHANGED batch /\ wpc[w] \in {"pop", "retire", "notify"}
           /\ \E next \in {"exit", "notify", "pop"} : wpc' = [wpc EXCEPT ![w] = next]
        \/ /\ batch' = [batch EXCEPT ![w] = {}] /\ wpc[w] = "drop"
           /\ wpc' = [wpc EXCEPT ![w] = "retire"]
    BY DEF PopNothing, Window, GatherEnd, Load, DropBatch, Retire, Notify
  <1>3. wpc \in [Worker -> {"pop", "window", "gather", "load", "publish", "drop",
                           "retire", "notify", "exit"}]
        /\ batch \in [Worker -> SUBSET Ref]
    BY DEF IInv, ThreadsInv, WorkerTypes
  <1>4. Resident' = Resident
    BY <1>1 DEF Resident, Mapped, ClientsStill
  <1>5. BatchesOwn' /\ LoadingIsOwned'
    <2>1. CASE UNCHANGED batch
      <3>1. LoadingIsOwned'
        BY <1>1, <1>4, <2>1 DEF LoadingIsOwned
      <3>2. ASSUME NEW v \in Worker
            PROVE  wpc'[v] \in {"pop", "retire", "notify", "exit"} =>
                      batch'[v] = {}
        <4>1. CASE v # w \/ wpc' = wpc
          BY <1>2, <1>3, <2>1, <4>1 DEF BatchesOwn
        <4>2. CASE v = w /\ wpc[w] = "drop" /\ batch' = [batch EXCEPT ![w] = {}]
          BY <1>3, <4>2
        <4>3. CASE v = w /\ wpc[w] \in {"pop", "retire", "notify"} /\ UNCHANGED batch
          BY <4>3 DEF BatchesOwn
        <4>4. CASE v = w /\ \E next \in {"gather", "load", "publish"} : wpc' = [wpc EXCEPT ![w] = next]
          BY <1>3, <4>4
        <4> QED BY <1>2, <4>1, <4>2, <4>3, <4>4
      <3>3. ASSUME NEW v \in Worker PROVE wpc'[v] = "drop" => wpc[v] = "drop"
        BY <1>2, <1>3, <2>1
      <3> QED BY <1>1, <2>1, <3>1, <3>2, <3>3 DEF BatchesOwn
    <2>2. CASE batch' # batch
      <3>1. /\ wpc[w] = "drop" /\ wpc' = [wpc EXCEPT ![w] = "retire"]
            /\ \A v \in Worker : batch'[v] = IF v = w THEN {} ELSE batch[v]
        BY <1>2, <1>3, <2>2
      <3>2. LoadingIsOwned'
        BY <1>1, <1>4, <3>1 DEF LoadingIsOwned, BatchesOwn
      <3>3. BatchesOwn'
        BY <1>1, <1>3, <3>1 DEF BatchesOwn
      <3> QED BY <3>2, <3>3
    <2> QED BY <2>1, <2>2
  <1>6. MapServes' /\ QueuedIsListed'
    BY <1>1, <1>4 DEF MapServes, QueuedIsListed, Has, ClientsStill
  <1>7. LeasesServe' /\ DemandsKept' /\ CallsOverOnceStopped'
    BY <1>1 DEF ClientsStill, LeasesServe, DemandsKept, Keeps, HeldSet, Speculates, Has,
                CallsOverOnceStopped
  <1>8. HostServes => HostServes'
    BY <1>1, <1>4 DEF HostServes, ClientsStill
  <1> QED BY <1>5, <1>6, <1>7, <1>8 DEF ReadsKept

-----------------------------------------------------------------------------
(* The invariants of the reads.                                             *)
LEMMA ReadsInit == Init => ReadsInv /\ HostServes
  <1> SUFFICES ASSUME Init PROVE ReadsInv /\ HostServes
    OBVIOUS
  <1>1. Resident = {}
    BY ConstantsAssumption DEF Init, Resident, Mapped, KeyOf, Ref
  <1>2. BatchesOwn /\ LoadingIsOwned /\ QueuedIsListed /\ MapServes
    BY <1>1 DEF Init, BatchesOwn, LoadingIsOwned, QueuedIsListed, MapServes
  <1>3. LeasesServe /\ DemandsKept /\ CallsOverOnceStopped /\ HostServes
    BY <1>1 DEF Init, LeasesServe, DemandsKept, Keeps, CallsOverOnceStopped, HostServes
  <1> QED BY <1>2, <1>3 DEF ReadsInv

(* Every action keeps them, except that the destructor withdraws the tokens. *)
LEMMA ReadsStep ==
  ASSUME IInv, ReadsInv, [Next]_vars
  PROVE  ReadsInv' /\ (~Withdraw /\ HostServes => HostServes')
  <1>1. ASSUME NEW c \in Client, Start(c) \/ ClientStep(c) \/ Release(c)
        PROVE  ReadsKept
    BY <1>1, QuietClientKept, EnqueueMappedKept, TakeLeaseKept, EvictKept, ResolveOneKept,
       InsertKept DEF ClientStep
  <1>2. ASSUME NEW w \in Worker, WorkerStep(w)
        PROVE  ReadsKept
    BY <1>2, PopKept, GatherKept, PublishKept, QuietWorkerKept DEF WorkerStep
  <1>3. CASE Stop
    BY <1>3, StopKept DEF ReadsKept
  <1>4. CASE Withdraw \/ UNCHANGED vars
    BY <1>4, NothingReadKept
  <1>5. CASE Finished
    BY <1>5, NothingReadKept DEF Finished
  <1> QED BY <1>1, <1>2, <1>3, <1>4, <1>5 DEF Next, ReadsKept

(* The state of every read is accounted for in every reachable state.        *)
THEOREM ReadsInvariant == Spec => [](IInv /\ ReadsInv)
  <1>1. Init => IInv /\ ReadsInv
    BY InvariantInit, ReadsInit
  <1>2. IInv /\ ReadsInv /\ [Next]_vars => (IInv /\ ReadsInv)'
    BY InvariantStep, InvariantStutter, ReadsStep
  <1> QED BY <1>1, <1>2, PTL DEF Spec

(* No read is lost, stranded or done twice: a queued entry is in the deque of *)
(* its priority, a loading one in the batch of exactly one worker, and the    *)
(* map keeps no failed entry, whatever was promoted, cancelled or coalesced.  *)
THEOREM ReadsHaveOwners == Spec => []EveryReadHasAnOwner
  <1>1. IInv /\ ReadsInv => EveryReadHasAnOwner
    <2> SUFFICES ASSUME IInv, ReadsInv, NEW r \in Ref
                 PROVE  /\ state[r] = "Loading" =>
                             /\ Mapped(r)
                             /\ \E w \in Worker : \A v \in Worker : r \in batch[v] <=> v = w
                        /\ Mapped(r) =>
                             /\ state[r] # "Failed"
                             /\ state[r] = "Queued" =>
                                   IF Has(r, "Speculative")
                                   THEN r \in ToSet(low_priority) \/ stopping
                                   ELSE r \in ToSet(high_priority)
      BY DEF EveryReadHasAnOwner
    <2>1. r \in Resident <=> Mapped(r)
      BY DEF Resident
    <2>2. ASSUME state[r] = "Loading"
          PROVE  Mapped(r) /\ \E w \in Worker : \A v \in Worker : r \in batch[v] <=> v = w
      <3>1. PICK w \in Worker : r \in batch[w]
        BY <2>2 DEF ReadsInv, LoadingIsOwned
      <3>2. \A v \in Worker : r \in batch[v] <=> v = w
        BY <3>1 DEF ReadsInv, BatchesOwn
      <3> QED BY <2>1, <2>2, <3>2 DEF ReadsInv, LoadingIsOwned
    <2> QED BY <2>1, <2>2 DEF ReadsInv, MapServes, QueuedIsListed
  <1> QED BY <1>1, ReadsInvariant, PTL

(* Once the tokens are withdrawn no thread of the cache runs.                *)
LEMMA WithdrawnForGood ==
  ASSUME IInv, ReadsInv, Joined, host = {}, [Next]_vars
  PROVE  Joined' /\ host' = {}
  <1>1. /\ stopping /\ \A w \in Worker : wpc[w] = "exit"
        /\ \A c \in Client : pc[c] = "out"
    BY DEF Joined, ReadsInv, CallsOverOnceStopped
  <1>2. ASSUME NEW c \in Client, Start(c) \/ ClientStep(c)
        PROVE  FALSE
    BY <1>1, <1>2 DEF Start, ClientStep, EnqueueTooLarge, EnqueueMapped, EnqueueAbsent, Evict,
       TrimGhost, Insert, Exhausted, Nap, Return, AwaitReady, TryAcquire, TakeLease, ResolveOne,
       ResolveEnd, AwaitIdle
  <1>3. ASSUME NEW w \in Worker, WorkerStep(w)
        PROVE  FALSE
    BY <1>1, <1>3 DEF WorkerStep, Pop, PopNothing, Window, Gather, GatherEnd, Load, Publish,
       DropBatch, Retire, Notify
  <1>4. ASSUME NEW c \in Client, Release(c)
        PROVE  stopping' = stopping /\ wpc' = wpc /\ host' = {}
    BY <1>4 DEF Release, cacheVars, entryVars, queueVars, workerVars
  <1>5. ASSUME Stop
        PROVE  FALSE
    BY <1>1, <1>5 DEF Stop
  <1>6. ASSUME Withdraw \/ Finished \/ UNCHANGED vars
        PROVE  stopping' = stopping /\ wpc' = wpc /\ host' = {}
    BY <1>6 DEF Withdraw, Finished, vars, cacheVars, entryVars, queueVars, workerVars
  <1>7. stopping' = stopping /\ wpc' = wpc /\ host' = {}
    BY <1>2, <1>3, <1>4, <1>5, <1>6 DEF Next
  <1> QED BY <1>7 DEF Joined

(* A key is advertised as host-resident exactly while the map holds it and it *)
(* has been read, until the destructor withdraws every token at once.        *)
THEOREM TokensAreExact == Spec => []HostTokensExact
  <1> DEFINE Advertised == HostServes \/ (Joined /\ host = {})
  <1>1. Init => Advertised
    BY ReadsInit
  <1>2. IInv /\ ReadsInv /\ Advertised /\ [Next]_vars => Advertised'
    <2> SUFFICES ASSUME IInv, ReadsInv, Advertised, [Next]_vars PROVE Advertised'
      OBVIOUS
    <2>1. CASE Joined /\ host = {}
      BY <2>1, WithdrawnForGood
    <2>2. CASE HostServes /\ ~Withdraw
      BY <2>2, ReadsStep
    <2>3. CASE Withdraw
      <3>1. Joined /\ host' = {} /\ UNCHANGED <<stopping, wpc>>
        BY <2>3 DEF Withdraw, queueVars, workerVars
      <3> QED BY <3>1 DEF Joined
    <2> QED BY <2>1, <2>2, <2>3
  <1>3. Advertised => HostTokensExact
    BY DEF HostTokensExact, HostServes
  <1> QED BY <1>1, <1>2, <1>3, ReadsInvariant, PTL DEF Spec

-----------------------------------------------------------------------------
(* Why an entry leaves the map, or fails: it is evicted unused, cancelled as  *)
(* a prediction, or its own read fails.                                     *)
Lost(r) == Mapped(r) /\ entries'[KeyOf(r)] # r
Failing(r) == state[r] # "Failed" /\ state'[r] = "Failed"
Evicts(r) == \E c \in Client : Evict(c) /\ ~Pinned(r)
Cancels(r) ==
    \E c \in Client : ResolveOne(c) /\ Has(r, "Speculative") /\ (Failing(r) => state[r] = "Queued")
FailsRead(r) ==
    \E w \in Worker :
       /\ Publish(w) /\ r \in batch[w] /\ state[r] = "Loading" /\ Fails(w, r)
       /\ state'[r] = "Failed"

(* Only the entry a step removes leaves the map.                             *)
LEMMA RemovedAlone ==
  ASSUME IInv, NEW q \in Ref, NEW r \in Ref, Removed(q), Mapped(r), entries'[KeyOf(r)] # r
  PROVE  r = q
  <1>1. /\ entries \in [Key -> Ref \cup {NoEntry}]
        /\ entries' = [entries EXCEPT ![KeyOf(q)] = NoEntry]
        /\ entries[KeyOf(q)] = q /\ entries[KeyOf(r)] = r
        /\ KeyOf(q) \in Key /\ KeyOf(r) \in Key
    BY SizeType DEF IInv, Residency, Removed, RemoveResident, Mapped
  <1> QED BY <1>1

(* There is no fourth way to lose an entry.                                  *)
LEMMA WhyLost ==
  ASSUME IInv, ReadsInv, [Next]_vars, NEW r \in Ref, Lost(r) \/ Failing(r)
  PROVE  Evicts(r) \/ Cancels(r) \/ FailsRead(r)
  <1>1. state \in [Ref -> {"Queued", "Loading", "Ready", "Failed"}]
    BY DEF IInv, ThreadsInv, EntryTypes
  <1>2. ASSUME NEW c \in Client, Evict(c)
        PROVE  Evicts(r)
    <2>1. PICK q \in Ref : Removed(q) /\ ~Pinned(q) /\ state' = [state EXCEPT ![q] = "Failed"]
      BY <1>2, EvictEffect DEF IInv, ThreadsInv
    <2>2. r = q
      BY <1>1, <2>1, RemovedAlone DEF Lost, Failing
    <2> QED BY <1>2, <2>1, <2>2 DEF Evicts
  <1>3. ASSUME NEW c \in Client, ResolveOne(c)
        PROVE  Cancels(r)
    <2>1. PICK q \in Mispredicted(c) :
            IF state[q] = "Loading"
            THEN UNCHANGED <<entries, state>>
            ELSE /\ state' = [state EXCEPT ![q] = IF @ = "Queued" THEN "Failed" ELSE @]
                 /\ RemoveResident(q)
      BY <1>3 DEF ResolveOne
    <2>2. q \in Ref /\ Mapped(q) /\ Has(q, "Speculative")
      BY DEF Mispredicted, Resident
    <2>3. state[q] # "Loading"
      BY <2>1 DEF Lost, Failing, Mapped
    <2>4. r = q
      BY <1>1, <2>1, <2>2, <2>3, RemovedAlone DEF Lost, Failing, Removed
    <2>5. Failing(r) => state[r] = "Queued"
      BY <1>1, <2>1, <2>3, <2>4 DEF Failing
    <2> QED BY <1>3, <2>2, <2>4, <2>5 DEF Cancels
  <1>4. ASSUME NEW w \in Worker, Publish(w)
        PROVE  FailsRead(r)
    <2>1. PICK q \in batch[w] :
            /\ q \in Ref /\ state[q] = "Loading"
            /\ IF Fails(w, q)
               THEN Removed(q) /\ state' = [state EXCEPT ![q] = "Failed"]
               ELSE /\ state' = [state EXCEPT ![q] = "Ready"] /\ entries' = entries
      BY <1>4, PublishEffect
    <2>2. Fails(w, q) /\ r = q
      BY <1>1, <2>1, RemovedAlone DEF Lost, Failing, Mapped
    <2> QED BY <1>1, <1>4, <2>1, <2>2 DEF FailsRead
  <1>5. ASSUME NEW c \in Client, Insert(c)
        PROVE  FALSE
    <2>1. PICK q \in Ref : /\ entries[KeyOf(q)] = NoEntry
                           /\ entries' = [entries EXCEPT ![KeyOf(q)] = q]
                           /\ state' = [state EXCEPT ![q] = "Queued"]
      BY <1>5, InsertEffect DEF IInv, ThreadsInv, Inserted
    <2>2. KeyOf(r) \in Key /\ r # NoEntry /\ entries \in [Key -> Ref \cup {NoEntry}]
      BY SizeType, ConstantsAssumption DEF IInv, Residency
    <2> QED BY <1>1, <2>1, <2>2 DEF Lost, Failing, Mapped
  <1>6. ASSUME entries' = entries, \A q \in Ref : state'[q] = "Failed" => state[q] = "Failed"
        PROVE  FALSE
    BY <1>6 DEF Lost, Failing, Mapped
  <1>7. ASSUME NEW c \in Client,
               \/ Start(c) \/ EnqueueTooLarge(c) \/ EnqueueMapped(c) \/ EnqueueAbsent(c)
               \/ TrimGhost(c) \/ Exhausted(c) \/ Nap(c) \/ Return(c) \/ AwaitReady(c)
               \/ TryAcquire(c) \/ TakeLease(c) \/ ResolveEnd(c) \/ AwaitIdle(c) \/ Release(c)
        PROVE  entries' = entries /\ state' = state
    BY <1>7 DEF Start, EnqueueTooLarge, EnqueueMapped, EnqueueAbsent, TrimGhost, Exhausted, Nap,
       Return, AwaitReady, TryAcquire, TakeLease, ResolveEnd, AwaitIdle, Release, cacheVars,
       entryVars
  <1>8. ASSUME NEW w \in Worker, Pop(w) \/ Gather(w)
        PROVE  entries' = entries /\ \A q \in Ref : state'[q] = "Failed" => state[q] = "Failed"
    <2>1. ClientsStill /\ (state' = state \/ \E q \in Ref : Starts(w, q))
      BY <1>8, PopTakes, GatherTakes
    <2> QED BY <1>1, <2>1 DEF ClientsStill, Starts
  <1>9. ASSUME NEW w \in Worker,
               PopNothing(w) \/ Window(w) \/ GatherEnd(w) \/ Load(w) \/ DropBatch(w)
               \/ Retire(w) \/ Notify(w)
        PROVE  entries' = entries /\ state' = state
    BY <1>9 DEF PopNothing, Window, GatherEnd, Load, DropBatch, Retire, Notify, cacheVars,
       entryVars
  <1>10. ASSUME Stop \/ Withdraw \/ Finished \/ UNCHANGED vars
         PROVE  entries' = entries /\ state' = state
    BY <1>10 DEF Stop, Withdraw, Finished, vars, cacheVars, entryVars
  <1>11. ASSUME NEW c \in Client, Start(c) \/ ClientStep(c) \/ Release(c)
         PROVE  Evicts(r) \/ Cancels(r)
    BY <1>2, <1>3, <1>5, <1>6, <1>7, <1>11 DEF ClientStep
  <1>12. ASSUME NEW w \in Worker, WorkerStep(w)
         PROVE  FailsRead(r)
    BY <1>4, <1>6, <1>8, <1>9, <1>12 DEF WorkerStep
  <1> QED BY <1>6, <1>10, <1>11, <1>12 DEF Next

(* A leased pair stays in the map until its lease is released, whatever is    *)
(* evicted, cancelled or published meanwhile.                               *)
THEOREM LeasesAreSafe == Spec => LeasedStaysMapped
  <1>1. ASSUME IInv, ReadsInv, [Next]_vars, NEW c \in Client, NEW r \in leases[c], Mapped(r)
        PROVE  entries'[KeyOf(r)] = r
    <2>1. /\ r \in Ref /\ Pinned(r)
          /\ state[r] = "Ready" /\ ~Has(r, "Speculative")
      BY <1>1, OwnersHoldRefs DEF ReadsInv, LeasesServe, Pinned, Leased
    <2>2. ~Evicts(r) /\ ~Cancels(r) /\ ~FailsRead(r)
      BY <2>1 DEF Evicts, Cancels, FailsRead
    <2> QED BY <1>1, <2>1, <2>2, WhyLost DEF Lost
  <1>2. IInv /\ ReadsInv /\ [Next]_vars =>
          [\A c \in Client : \A r \in leases[c] : Mapped(r) => entries'[KeyOf(r)] = r]_vars
    BY <1>1
  <1> QED BY <1>2, ReadsInvariant, PTL DEF Spec, LeasedStaysMapped

(* A thread that demanded a pair sees it fail only when reading it failed:    *)
(* the clean-up of predictions and their discarding never reach it.          *)
THEOREM DemandsFailOnlyOnReads == Spec => DemandFailsOnlyOnRead
  <1>1. ASSUME IInv, ReadsInv, [Next]_vars, NEW c \in Client, call[c] # NoCall, ~Speculates(c),
               NEW r \in HeldSet(c), state[r] # "Failed", state'[r] = "Failed"
        PROVE  \E w \in Worker : r \in errors[w]
    <2>1. r \in Ref /\ Pinned(r)
      BY <1>1, OwnersHoldRefs DEF Pinned, HeldSet
    <2>2. state[r] \in {"Queued", "Loading"} => ~Has(r, "Speculative")
      BY <1>1 DEF ReadsInv, DemandsKept, Keeps
    <2>3. ~Evicts(r) /\ ~Cancels(r)
      BY <1>1, <2>1, <2>2 DEF Evicts, Cancels, Failing
    <2>4. FailsRead(r)
      BY <1>1, <2>1, <2>3, WhyLost DEF Failing
    <2> QED BY <2>2, <2>4 DEF FailsRead, Fails, Discarded
  <1>2. IInv /\ ReadsInv /\ [Next]_vars =>
          [\A c \in Client : call[c] # NoCall /\ ~Speculates(c) =>
             \A r \in HeldSet(c) :
                state[r] # "Failed" /\ state'[r] = "Failed" =>
                   \E w \in Worker : r \in errors[w]]_vars
    BY <1>1
  <1> QED BY <1>2, ReadsInvariant, PTL DEF Spec, DemandFailsOnlyOnRead

-----------------------------------------------------------------------------
(* An exact admission of a forward-aware cache takes a prediction only in the *)
(* last searches, when neither list has anything else to give.              *)
LEMMA PredictionIsLastResort ==
  ASSUME arc_recent \in Seq(Ref), arc_frequent \in Seq(Ref),
         NEW k \in Key, "ForwardAware" \in Flags, NEW fromGhost, NEW onDevice,
         Victim(k, FALSE, fromGhost, onDevice) # NoEntry,
         Has(Victim(k, FALSE, fromGhost, onDevice), "Speculative"),
         NEW q \in ToSet(arc_recent) \cup ToSet(arc_frequent),
         state[q] = "Ready", Mapped(q), ~Pinned(q)
  PROVE  Has(q, "Speculative")
  <1> DEFINE preferRecent == \/ arc_recent_size > arc_recent_target_size
                             \/ fromGhost /\ arc_recent_size = arc_recent_target_size
             first == IF preferRecent THEN arc_recent ELSE arc_frequent
             second == IF preferRecent THEN arc_frequent ELSE arc_recent
             anchor == IF "ForwardAware" \in Flags THEN GroupOf[k] ELSE InvalidGroup
             group == PreferredGroup(GroupOf[k], Size[k])
             searches == Searches(first, second, group, ~FALSE /\ anchor # InvalidGroup)
             found == [i \in DOMAIN searches |->
                         FindVictim(searches[i][1], FALSE, searches[i][2], anchor,
                                    searches[i][3], onDevice)]
             hits == {i \in DOMAIN found : found[i] # NoEntry}
             n == CHOOSE i \in hits : \A j \in hits : i <= j
  <1>1. hits # {} /\ Victim(k, FALSE, fromGhost, onDevice) = found[n]
    BY DEF Victim
  <1>2. anchor = GroupOf[k] /\ anchor \in Int /\ anchor # InvalidGroup
    BY ConstantsAssumption, ForwardGroupsAssumption DEF Group, InvalidGroup
  <1>3. group = InvalidGroup
    BY <1>2 DEF PreferredGroup
  <1>4. /\ first \in Seq(Ref) /\ second \in Seq(Ref)
        /\ q \in ToSet(first) \cup ToSet(second)
    OBVIOUS
  <1> HIDE DEF preferRecent, first, second, anchor, group
  <1> DEFINE plain(list) == <<list, InvalidGroup, FALSE>>
             last(list) == <<list, InvalidGroup, TRUE>>
  <1>5. /\ DOMAIN searches = 1 .. 6
        /\ searches[1] = plain(first) /\ searches[2] = plain(first)
        /\ searches[3] = plain(second) /\ searches[4] = plain(second)
        /\ searches[5] = last(first) /\ searches[6] = last(second)
    <2> DEFINE T == {plain(first), plain(second), last(first), last(second)}
               a == <<plain(first), plain(first), plain(second), plain(second)>>
               b == <<last(first), last(second)>>
    <2>1. searches = a \o b
      BY <1>2, <1>3 DEF Searches
    <2> HIDE DEF plain, last, searches
    <2>2. a \in Seq(T) /\ b \in Seq(T) /\ Len(a) = 4 /\ Len(b) = 2
      OBVIOUS
    <2>3. /\ a[1] = plain(first) /\ a[2] = plain(first)
          /\ a[3] = plain(second) /\ a[4] = plain(second)
          /\ b[1] = last(first) /\ b[2] = last(second)
      OBVIOUS
    <2> HIDE DEF T, a, b
    <2>4. /\ searches \in Seq(T) /\ Len(searches) = 6
          /\ \A i \in 1 .. 6 : searches[i] = IF i <= 4 THEN a[i] ELSE b[i - 4]
      <3>1. /\ searches \in Seq(T) /\ Len(searches) = Len(a) + Len(b)
            /\ \A i \in 1 .. Len(a) + Len(b) :
                  searches[i] = IF i <= Len(a) THEN a[i] ELSE b[i - Len(a)]
        BY <2>1, <2>2, ConcatProperties
      <3>2. Len(a) + Len(b) = 6
        BY <2>2
      <3> QED BY <2>2, <3>1, <3>2
    <2>5. DOMAIN searches = 1 .. 6
      BY <2>4, LenProperties
    <2> QED BY <2>3, <2>4, <2>5
  <1> HIDE DEF searches
  <1>6. hits \subseteq 1 .. 6
    <2>1. hits \subseteq DOMAIN searches
      OBVIOUS
    <2> HIDE DEF hits
    <2> QED BY <1>5, <2>1
  <1>7. n \in hits /\ \A j \in hits : n <= j
    <2>1. hits \subseteq Nat
      <3> HIDE DEF hits
      <3> QED BY <1>6
    <2> HIDE DEF hits
    <2> QED BY <1>1, <2>1, LeastNumber
  <1> HIDE DEF n
  <1>8. ASSUME NEW i \in 1 .. 6
        PROVE  searches[i][1] \in {first, second} /\ (searches[i][3] => i \in {5, 6})
    <2>1. ASSUME NEW list
          PROVE  /\ plain(list)[1] = list /\ plain(list)[3] = FALSE
                 /\ last(list)[1] = list
      OBVIOUS
    <2> HIDE DEF plain, last
    <2>2. CASE i = 1
      BY <1>5, <2>1, <2>2
    <2>3. CASE i = 2
      BY <1>5, <2>1, <2>3
    <2>4. CASE i = 3
      BY <1>5, <2>1, <2>4
    <2>5. CASE i = 4
      BY <1>5, <2>1, <2>5
    <2>6. CASE i = 5
      BY <1>5, <2>1, <2>6
    <2>7. CASE i = 6
      BY <1>5, <2>1, <2>7
    <2>8. i = 1 \/ i = 2 \/ i = 3 \/ i = 4 \/ i = 5 \/ i = 6
      OBVIOUS
    <2> QED BY <2>2, <2>3, <2>4, <2>5, <2>6, <2>7, <2>8
  <1>9. n \in 1 .. 6 /\ found[n] # NoEntry
        /\ found[n] = FindVictim(searches[n][1], FALSE, searches[n][2], anchor,
                                 searches[n][3], onDevice)
    BY <1>5, <1>6, <1>7
  <1>10. Evictable(found[n], FALSE, searches[n][2], searches[n][3])
    <2>1. searches[n][1] \in Seq(Ref)
      BY <1>4, <1>8, <1>9
    <2> QED BY <1>2, <1>9, <2>1, FoundVictim
  <1>11. n \in {5, 6}
    BY <1>1, <1>8, <1>9, <1>10 DEF Evictable
  <1>12. 2 \notin hits /\ 4 \notin hits
    <2> HIDE DEF hits
    <2> QED BY <1>7, <1>11
  <1>13. ASSUME NEW list \in {first, second}
         PROVE  FindVictim(list, FALSE, InvalidGroup, anchor, FALSE, onDevice) = NoEntry
    <2>1. DOMAIN found = 1 .. 6 /\ 2 \in 1 .. 6 /\ 4 \in 1 .. 6
      BY <1>5
    <2>2. found[2] = NoEntry /\ found[4] = NoEntry
      <3> HIDE DEF found
      <3> QED BY <1>12, <2>1
    <2>3. /\ found[2] = FindVictim(searches[2][1], FALSE, searches[2][2], anchor,
                                   searches[2][3], onDevice)
          /\ found[4] = FindVictim(searches[4][1], FALSE, searches[4][2], anchor,
                                   searches[4][3], onDevice)
      BY <1>5, <2>1
    <2>4. /\ searches[2][1] = first /\ searches[2][2] = InvalidGroup /\ searches[2][3] = FALSE
          /\ searches[4][1] = second /\ searches[4][2] = InvalidGroup /\ searches[4][3] = FALSE
      BY <1>5
    <2> HIDE DEF found
    <2> QED BY <1>13, <2>2, <2>3, <2>4
  <1> SUFFICES ASSUME ~Has(q, "Speculative") PROVE FALSE
    OBVIOUS
  <1>14. Evictable(q, FALSE, InvalidGroup, FALSE)
    BY DEF Evictable
  <1>15. PICK list \in {first, second} : q \in ToSet(list)
    BY <1>4
  <1>16. list \in Seq(Ref)
    BY <1>4, <1>15
  <1>17. FindVictim(list, FALSE, InvalidGroup, anchor, FALSE, onDevice) \in ToSet(list)
    BY <1>2, <1>14, <1>15, <1>16, ScanFinds
  <1>18. NoEntry \in ToSet(list) /\ ToSet(list) \subseteq Ref
    BY <1>13, <1>15, <1>16, <1>17, ElementsOf
  <1> QED BY <1>18, ConstantsAssumption

(* A forward-aware cache gives up a prediction for an exact read only when no *)
(* unused pair without a prediction is left, in either list and any layer.   *)
THEOREM PredictionsGoLast == Spec => PredictionsEvictedLast
  <1>1. ASSUME IInv, ReadsInv, [Next]_vars, NEW c \in Client, NEW r \in Resident,
               "ForwardAware" \in Flags, pc[c] = "evict", mutex = c, ~Speculates(c),
               Has(r, "Speculative"), entries'[KeyOf(r)] = NoEntry,
               NEW q \in Resident, state[q] = "Ready", ~Pinned(q)
        PROVE  Has(q, "Speculative")
    <2>1. r \in Ref /\ Mapped(r) /\ r # NoEntry
      BY ConstantsAssumption DEF Resident
    <2>2. c \notin Worker /\ c # Nobody
      BY ConstantsAssumption
    <2>3. ~Cancels(r) /\ ~FailsRead(r)
      BY <1>1, <2>2 DEF Cancels, FailsRead, ResolveOne, Publish
    <2>4. Evict(c)
      <3>1. Evicts(r)
        BY <1>1, <2>1, <2>3, WhyLost DEF Lost
      <3> QED BY <1>1, <3>1 DEF Evicts, Evict
    <2>5. Admitting(c) /\ NextKey(c) \in Key /\ Speculates(c) = FALSE
      BY <1>1, NextKeyType DEF IInv, ThreadsInv, Control
    <2>6. PICK onDevice \in SUBSET DeviceKeys :
            \E v \in {Victim(NextKey(c), Speculates(c), hint[c].ghost, onDevice)} \ {NoEntry} :
              RemoveResident(v)
      BY <2>4 DEF Evict
    <2> DEFINE v == Victim(NextKey(c), FALSE, hint[c].ghost, onDevice)
    <2>7. v # NoEntry /\ RemoveResident(v)
      BY <2>5, <2>6
    <2>8. arc_recent \in Seq(Ref) /\ arc_frequent \in Seq(Ref)
      BY <1>1 DEF IInv, Residency
    <2>9. v \in Ref /\ Mapped(v)
      BY <2>5, <2>7, <2>8, VictimIsEvictable
    <2>10. v = r
      <3> HIDE DEF v
      <3> QED BY <1>1, <2>1, <2>7, <2>9, RemovedAlone DEF Removed
    <2>11. Has(v, "Speculative")
      <3> HIDE DEF v
      <3> QED BY <1>1, <2>10
    <2>12. q \in ToSet(arc_recent) \cup ToSet(arc_frequent) /\ Mapped(q)
      BY <1>1 DEF IInv, Residency, NoDanglingPointer, Resident
    <2> QED BY <1>1, <2>5, <2>7, <2>8, <2>11, <2>12, PredictionIsLastResort
  <1>2. IInv /\ ReadsInv /\ [Next]_vars =>
          [\A c \in Client : \A r \in Resident :
             /\ "ForwardAware" \in Flags
             /\ pc[c] = "evict" /\ mutex = c /\ ~Speculates(c)
             /\ Has(r, "Speculative") /\ entries'[KeyOf(r)] = NoEntry
             => \A q \in Resident : state[q] = "Ready" /\ ~Pinned(q) => Has(q, "Speculative")]_vars
    BY <1>1
  <1> QED BY <1>2, ReadsInvariant, PTL DEF Spec, PredictionsEvictedLast

-----------------------------------------------------------------------------
(* Waiting for the background work.  Without coalescing a worker counts what  *)
(* it popped in the same critical section, so that a cache without active    *)
(* jobs is one where no worker holds an entry.                              *)
NoneGathers == \A w \in Worker : wpc[w] \notin {"window", "gather"}

(* Only coalescing opens the window.                                        *)
LEMMA NoneGathersStep ==
  ASSUME ThreadsInv, NoneGathers, [Next]_vars, "Coalescing" \notin Flags
  PROVE  NoneGathers'
  <1> USE DEF ThreadsInv, WorkerTypes
  <1>1. CASE UNCHANGED workerVars
    BY <1>1 DEF workerVars, NoneGathers
  <1>2. ASSUME NEW w \in Worker, WorkerStep(w)
        PROVE  NoneGathers'
    <2>1. CASE Pop(w)
      BY <2>1 DEF Pop, Coalesces, NoneGathers
    <2>2. CASE PopNothing(w)
      BY <2>2 DEF PopNothing, NoneGathers
    <2>3. CASE Window(w) \/ Gather(w) \/ GatherEnd(w)
      BY <2>3 DEF Window, Gather, GatherEnd, NoneGathers
    <2>4. CASE Load(w) \/ DropBatch(w) \/ Retire(w) \/ Notify(w)
      BY <2>4 DEF Load, DropBatch, Retire, Notify, NoneGathers
    <2>5. CASE Publish(w)
      BY <2>5 DEF Publish, NoneGathers
    <2> QED BY <1>2, <2>1, <2>2, <2>3, <2>4, <2>5 DEF WorkerStep
  <1>3. ASSUME \/ \E c \in Client : Start(c) \/ ClientStep(c) \/ Release(c)
               \/ Stop \/ Withdraw \/ Finished \/ UNCHANGED vars
        PROVE  UNCHANGED workerVars
    BY <1>3, ZenonT(30) DEF Start, ClientStep, EnqueueTooLarge, EnqueueMapped, EnqueueAbsent, Evict,
                TrimGhost, Insert, Exhausted, Nap, Return, AwaitReady, TryAcquire, TakeLease,
                ResolveOne, ResolveEnd, AwaitIdle, Release, Stop, Withdraw, Finished, vars
  <1> QED BY <1>1, <1>2, <1>3 DEF Next

(* A call that waits for the background work returns only when none is left. *)
LEMMA IdleReturns ==
  ASSUME ThreadsInv, [Next]_vars, NEW c \in Client, pc[c] = "idle", pc'[c] = "out"
  PROVE  active_jobs = 0
  <1>1. pc'[c] # pc[c]
    OBVIOUS
  <1>2. Start(c) \/ ClientStep(c) \/ Release(c)
    <2>1. pc' # pc
      BY <1>1
    <2>2. Next
      BY <2>1 DEF vars, clientVars
    <2> QED BY <1>1, <2>2, OthersLeaveCall DEF Next
  <1>3. AwaitIdle(c)
    <2>1. ~Start(c) /\ ~Release(c)
      BY <1>1 DEF Start, Release
    <2>2. /\ ~EnqueueTooLarge(c) /\ ~EnqueueMapped(c) /\ ~EnqueueAbsent(c) /\ ~Evict(c)
          /\ ~TrimGhost(c) /\ ~Insert(c) /\ ~Exhausted(c) /\ ~Nap(c) /\ ~Return(c)
          /\ ~AwaitReady(c) /\ ~TryAcquire(c) /\ ~TakeLease(c) /\ ~ResolveOne(c)
          /\ ~ResolveEnd(c)
      BY DEF EnqueueTooLarge, EnqueueMapped, EnqueueAbsent, Evict, TrimGhost, Insert, Exhausted,
             Nap, Return, AwaitReady, TryAcquire, TakeLease, ResolveOne, ResolveEnd
    <2> QED BY <1>2, <2>1, <2>2 DEF ClientStep
  <1>4. Quiet
    BY <1>1, <1>3 DEF AwaitIdle
  <1> QED BY <1>4 DEF Quiet

(* Without active jobs no worker holds an entry.                            *)
LEMMA NoJobsNoPins ==
  ASSUME IInv, BatchesOwn, NoneGathers, active_jobs = 0, NEW w \in Worker
  PROVE  batch[w] = {}
  <1> USE DEF IInv, ThreadsInv
  <1> DEFINE f == [v \in Worker |-> Counted(v)]
  <1>1. Counted(w) = 0
    <2>1. Weight(Worker, MaxJobs, f) = 0
      BY DEF Jobs
    <2>2. f[w] = Counted(w)
      OBVIOUS
    <2>3. Counted(w) \in 0 .. MaxJobs
      BY CountedType DEF Jobs
    <2> HIDE DEF f
    <2>4. f[w] = 0
      BY <2>1, <2>2, <2>3, JobsType, NoWeight
    <2> QED BY <2>2, <2>4
  <1>2. CASE wpc[w] \in {"load", "publish", "drop"}
    <2>1. Cardinality(batch[w]) = 0
      BY <1>1, <1>2 DEF Counted
    <2>2. IsFiniteSet(batch[w])
      BY RefsAreFinite, FS_Subset DEF WorkerTypes
    <2> QED BY <2>1, <2>2, FS_EmptySet
  <1>3. CASE wpc[w] \in {"pop", "retire", "notify", "exit"}
    BY <1>3 DEF BatchesOwn
  <1> QED BY <1>2, <1>3 DEF NoneGathers, WorkerTypes

(* Without coalescing wait_for_background_work returns only when no worker    *)
(* pins an Entry; a coalescing worker may hold one it has not counted yet.   *)
THEOREM IdleMeansUnpinned == "Coalescing" \notin Flags => (Spec => IdleMeansNoWorkerPin)
  <1> SUFFICES ASSUME "Coalescing" \notin Flags
               PROVE  Spec => IdleMeansNoWorkerPin
    OBVIOUS
  <1>1. Init => NoneGathers
    BY DEF Init, NoneGathers
  <1>2. IInv /\ NoneGathers /\ [Next]_vars => NoneGathers'
    BY NoneGathersStep DEF IInv
  <1>3. ASSUME IInv, ReadsInv, NoneGathers, [Next]_vars, NEW c \in Client,
               pc[c] = "idle", pc'[c] = "out", NEW w \in Worker
        PROVE  batch[w] = {}
    <2>1. active_jobs = 0
      BY <1>3, IdleReturns DEF IInv
    <2> QED BY <1>3, <2>1, NoJobsNoPins DEF ReadsInv
  <1>4. IInv /\ ReadsInv /\ NoneGathers /\ [Next]_vars =>
          [\A c \in Client : pc[c] = "idle" /\ pc'[c] = "out" =>
             \A w \in Worker : batch[w] = {}]_vars
    BY <1>3
  <1> QED BY <1>1, <1>2, <1>4, ReadsInvariant, PTL DEF Spec, IdleMeansNoWorkerPin

-----------------------------------------------------------------------------
(* What a thread pins.  Only a clean-up of predictions takes a read pair out  *)
(* of the map under a call that holds it; as long as none does, a pinned      *)
(* entry stays in the map until its read fails, so that the pins of a thread *)
(* are resident.                                                            *)
NamesItself == \A k \in Key : entries[k] # NoEntry => KeyOf(entries[k]) = k
Pins(c) == HeldSet(c) \cup leases[c]
Serves(r) == r \in Resident \/ state[r] = "Failed"
PinsServe == \A c \in Client : \A r \in Pins(c) : Serves(r)
PinsInv == NamesItself /\ PinsServe
DropsPinned ==
    \E c \in Client : \E r \in Resident :
       /\ ResolveOne(c) /\ entries'[KeyOf(r)] # r /\ state'[r] # "Failed"
       /\ \E d \in Client : r \in HeldSet(d)

(* The map names an entry by its own key.                                   *)
LEMMA NamesItselfStep ==
  ASSUME IInv, NamesItself, [Next]_vars
  PROVE  NamesItself'
  <1> USE DEF IInv
  <1>1. CASE entries' = entries
    BY <1>1 DEF NamesItself
  <1>2. entries \in [Key -> Ref \cup {NoEntry}]
    BY DEF Residency
  <1>3. ASSUME NEW r \in Ref, Removed(r)
        PROVE  NamesItself'
    BY <1>2, <1>3, SizeType DEF Removed, RemoveResident, NamesItself
  <1>4. ASSUME NEW r \in Ref, NEW b \in BOOLEAN, Inserted(r, b)
        PROVE  NamesItself'
    BY <1>2, <1>4, SizeType DEF Inserted, NamesItself
  <1>5. CASE Next
    <2>1. ResidencyStep
      BY <1>5, ResidencyEffect
    <2> QED BY <1>1, <1>3, <1>4, <2>1 DEF ResidencyStep, Untouched, Touched
  <1>6. CASE UNCHANGED vars
    BY <1>1, <1>6 DEF vars, cacheVars
  <1> QED BY <1>5, <1>6

(* A failed entry that a thread pins stays failed.                           *)
LEMMA FailedForGood ==
  ASSUME IInv, ReadsInv, [Next]_vars, NEW r \in Ref, Pinned(r), state[r] = "Failed"
  PROVE  state'[r] = "Failed"
  <1>1. state \in [Ref -> {"Queued", "Loading", "Ready", "Failed"}]
    BY DEF IInv, ThreadsInv, EntryTypes
  <1>2. ASSUME NEW c \in Client, Evict(c)
        PROVE  state'[r] = "Failed"
    <2>1. PICK q \in Ref : state' = [state EXCEPT ![q] = "Failed"]
      BY <1>2, EvictEffect DEF IInv, ThreadsInv
    <2> QED BY <1>1, <2>1
  <1>3. ASSUME NEW c \in Client, Insert(c)
        PROVE  state'[r] = "Failed"
    <2>1. PICK q \in Ref : ~Pinned(q) /\ state' = [state EXCEPT ![q] = "Queued"]
      BY <1>3, InsertEffect DEF IInv, ThreadsInv
    <2> QED BY <1>1, <2>1
  <1>4. ASSUME NEW c \in Client, ResolveOne(c)
        PROVE  state'[r] = "Failed"
    <2>1. PICK q \in Mispredicted(c) :
            state' = state \/ state' = [state EXCEPT ![q] = IF @ = "Queued" THEN "Failed" ELSE @]
      BY <1>4 DEF ResolveOne
    <2> QED BY <1>1, <2>1
  <1>5. ASSUME NEW w \in Worker, Publish(w)
        PROVE  state'[r] = "Failed"
    <2>1. PICK q \in Ref : /\ state[q] = "Loading"
                           /\ \/ state' = [state EXCEPT ![q] = "Failed"]
                              \/ state' = [state EXCEPT ![q] = "Ready"]
      BY <1>5, PublishEffect
    <2> QED BY <1>1, <2>1
  <1>6. ASSUME NEW w \in Worker, Pop(w) \/ Gather(w)
        PROVE  state'[r] = "Failed"
    <2>1. state' = state \/ \E q \in Ref : Starts(w, q)
      BY <1>6, PopTakes, GatherTakes
    <2> QED BY <1>1, <2>1 DEF Starts
  <1>7. ASSUME NEW c \in Client,
               \/ Start(c) \/ EnqueueTooLarge(c) \/ EnqueueMapped(c) \/ EnqueueAbsent(c)
               \/ TrimGhost(c) \/ Exhausted(c) \/ Nap(c) \/ Return(c) \/ AwaitReady(c)
               \/ TryAcquire(c) \/ TakeLease(c) \/ ResolveEnd(c) \/ AwaitIdle(c) \/ Release(c)
        PROVE  state' = state
    BY <1>7 DEF Start, EnqueueTooLarge, EnqueueMapped, EnqueueAbsent, TrimGhost, Exhausted, Nap,
       Return, AwaitReady, TryAcquire, TakeLease, ResolveEnd, AwaitIdle, Release, cacheVars,
       entryVars
  <1>8. ASSUME NEW w \in Worker,
               PopNothing(w) \/ Window(w) \/ GatherEnd(w) \/ Load(w) \/ DropBatch(w)
               \/ Retire(w) \/ Notify(w)
        PROVE  state' = state
    BY <1>8 DEF PopNothing, Window, GatherEnd, Load, DropBatch, Retire, Notify, cacheVars,
       entryVars
  <1>9. ASSUME Stop \/ Withdraw \/ Finished \/ UNCHANGED vars
        PROVE  state' = state
    BY <1>9 DEF Stop, Withdraw, Finished, vars, cacheVars, entryVars
  <1>10. ASSUME NEW c \in Client, Start(c) \/ ClientStep(c) \/ Release(c)
         PROVE  state'[r] = "Failed"
    BY <1>2, <1>3, <1>4, <1>7, <1>10 DEF ClientStep
  <1>11. ASSUME NEW w \in Worker, WorkerStep(w)
         PROVE  state'[r] = "Failed"
    BY <1>5, <1>6, <1>8, <1>11 DEF WorkerStep
  <1> QED BY <1>9, <1>10, <1>11 DEF Next

(* What a thread pins goes on serving, or its read has failed.              *)
LEMMA StaysServing ==
  ASSUME IInv, ReadsInv, [Next]_vars, ~DropsPinned,
         NEW c \in Client, NEW r \in Pins(c), Serves(r)
  PROVE  Serves(r)'
  <1>1. r \in Ref /\ Pinned(r)
    BY OwnersHoldRefs DEF Pins, Pinned, Leased, HeldSet
  <1>2. CASE state[r] = "Failed"
    BY <1>1, <1>2, FailedForGood DEF Serves
  <1>3. CASE r \in Resident
    <2>1. CASE entries'[KeyOf(r)] = r
      BY <1>1, <2>1 DEF Serves, Resident, Mapped
    <2>2. CASE Lost(r)
      <3>1. ~Evicts(r)
        BY <1>1 DEF Evicts
      <3>2. CASE FailsRead(r)
        BY <3>2 DEF FailsRead, Serves
      <3>3. CASE Cancels(r)
        <4>1. CASE r \in HeldSet(c)
          BY <1>3, <2>2, <3>3, <4>1 DEF Cancels, DropsPinned, Lost, Serves
        <4>2. CASE r \in leases[c]
          BY <1>1, <3>3, <4>2 DEF Cancels, ReadsInv, LeasesServe, Leased
        <4> QED BY <4>1, <4>2 DEF Pins
      <3> QED BY <1>1, <2>2, <3>1, <3>2, <3>3, WhyLost
    <2> QED BY <1>3, <2>1, <2>2 DEF Lost, Resident
  <1> QED BY <1>2, <1>3 DEF Serves

(* A thread pins only what the map gives it.                                 *)
LEMMA PinsComeFromTheMap ==
  ASSUME IInv, NamesItself, Next, NEW c \in Client, NEW r \in Pins(c)'
  PROVE  r \in Pins(c) \/ r \in Resident'
  <1> USE DEF IInv, ThreadsInv
  <1>1. /\ held[c] \in Seq(Ref) /\ leases \in [Client -> SUBSET Ref]
        /\ held \in [Client -> Seq(Ref)]
    BY DEF ClientTypes
  <1>2. CASE held'[c] = held[c] /\ leases'[c] = leases[c]
    BY <1>2 DEF Pins, HeldSet
  <1>3. CASE Finish(c) /\ leases'[c] \subseteq leases[c]
    <2>1. HeldSet(c)' = {}
      BY <1>1, <1>3 DEF Finish, HeldSet, ToSet
    <2> QED BY <1>3, <2>1 DEF Pins
  <1>4. ASSUME NEW d \in Client, Start(d) \/ Release(d)
        PROVE  r \in Pins(c)
    <2>1. leases'[c] \subseteq leases[c] /\ held' = held
      BY <1>1, <1>4 DEF Start, Release
    <2> QED BY <2>1 DEF Pins, HeldSet
  <1>5. ASSUME NEW q \in Ref, Admitted(c, q), leases' = leases, q \in Resident'
        PROVE  r \in Pins(c) \/ r \in Resident'
    <2>1. held'[c] = Append(held[c], q)
      BY <1>1, <1>5 DEF Admitted
    <2>2. ToSet(held'[c]) = HeldSet(c) \cup {q}
      BY <2>1, HeldAreRefs
    <2> QED BY <1>5, <2>2 DEF Pins, HeldSet
  <1>6. CASE EnqueueMapped(c)
    <2>1. NextKey(c) \in Key
      BY <1>6, NextKeyType DEF Control, EnqueueMapped
    <2> DEFINE q == entries[NextKey(c)]
    <2>2. q # NoEntry /\ Admitted(c, q) /\ leases' = leases /\ entries' = entries
      BY <1>6 DEF EnqueueMapped
    <2>3. q \in Ref /\ KeyOf(q) = NextKey(c)
      BY <2>1, <2>2 DEF Residency, NamesItself
    <2>4. q \in Resident'
      BY <2>2, <2>3 DEF Resident, Mapped
    <2> HIDE DEF q
    <2> QED BY <1>5, <2>2, <2>3, <2>4
  <1>7. CASE Insert(c)
    <2>1. PICK q \in Ref : Admitted(c, q) /\ entries' = [entries EXCEPT ![KeyOf(q)] = q]
      BY <1>7, InsertEffect DEF Inserted
    <2>2. q \in Resident'
      BY <2>1, SizeType DEF Resident, Mapped, Residency
    <2>3. leases' = leases
      BY <1>7 DEF Insert
    <2> QED BY <1>5, <2>1, <2>2, <2>3
  <1>8. CASE TryAcquire(c) /\ ~Finish(c)
    <2> DEFINE keys == call[c].keys
               taken == [i \in 1 .. Len(keys) |-> entries[keys[i]]]
    <2>1. /\ \A k \in ToSet(keys) : entries[k] # NoEntry
          /\ held' = [held EXCEPT ![c] = taken]
          /\ leases' = leases /\ entries' = entries
      BY <1>8 DEF TryAcquire, cacheVars
    <2>2. DOMAIN keys = 1 .. Len(keys) /\ ToSet(keys) \subseteq Key
      <3>1. call[c] \in Calls
        BY <1>8 DEF TryAcquire, Control
      <3>2. keys \in Seq(Key)
        BY <3>1, ConstantsAssumption DEF CallType
      <3> QED BY <3>2, LenProperties, ElementsOf
    <2>3. ASSUME NEW k \in ToSet(keys)
          PROVE  entries[k] \in Resident'
      BY <2>1, <2>2 DEF Residency, NamesItself, Resident, Mapped
    <2>4. \A i \in DOMAIN taken : taken[i] \in Resident'
      BY <2>2, <2>3 DEF ToSet
    <2>5. held'[c] = taken
      BY <1>1, <2>1
    <2> HIDE DEF taken
    <2>6. HeldSet(c)' \subseteq Resident'
      BY <2>4, <2>5 DEF HeldSet, ToSet
    <2> QED BY <2>1, <2>6 DEF Pins
  <1>9. CASE TakeLease(c)
    <2>1. held[c] # << >>
      BY <1>9 DEF TakeLease, Control
    <2>2. /\ ToSet(Tail(held[c])) \subseteq HeldSet(c)
          /\ Head(held[c]) \in HeldSet(c)
      BY <1>1, <2>1, TailSet, ElementsOf DEF HeldSet
    <2>3. leases'[c] \subseteq leases[c] \cup {Head(held[c])}
      BY <1>1, <1>9 DEF TakeLease
    <2>4. held'[c] = << >> \/ held'[c] = Tail(held[c])
      BY <1>1, <1>9 DEF TakeLease, Finish
    <2>5. ToSet(held'[c]) \subseteq HeldSet(c)
      <3>1. ToSet(<< >>) = {}
        BY DEF ToSet
      <3> QED BY <2>2, <2>4, <3>1
    <2> QED BY <2>2, <2>3, <2>5 DEF Pins, HeldSet
  <1>10. CASE \/ EnqueueTooLarge(c) \/ EnqueueAbsent(c) \/ Evict(c) \/ TrimGhost(c)
              \/ Exhausted(c) \/ Nap(c) \/ Return(c) \/ AwaitReady(c) \/ ResolveOne(c)
              \/ ResolveEnd(c) \/ AwaitIdle(c) \/ (TryAcquire(c) /\ Finish(c))
    <2>1. leases' = leases /\ (held' = held \/ Finish(c))
      BY <1>10 DEF EnqueueTooLarge, EnqueueAbsent, Evict, TrimGhost, Exhausted, Nap, Return,
         AwaitReady, ResolveOne, ResolveEnd, AwaitIdle, TryAcquire, clientVars
    <2> QED BY <1>2, <1>3, <2>1
  <1>11. ASSUME NEW d \in Client \ {c}, ClientStep(d)
         PROVE  held'[c] = held[c] /\ leases'[c] = leases[c]
    <2>1. held'[c] = held[c]
      BY <1>11, OthersLeaveCall
    <2>2. leases' = leases \/ TakeLease(d)
      BY <1>11 DEF ClientStep, EnqueueTooLarge, EnqueueMapped, EnqueueAbsent, Evict, TrimGhost,
         Insert, Exhausted, Nap, Return, AwaitReady, TryAcquire, ResolveOne, ResolveEnd,
         AwaitIdle, clientVars
    <2>3. leases'[c] = leases[c]
      BY <1>1, <2>2 DEF TakeLease
    <2> QED BY <2>1, <2>3
  <1>12. ASSUME (\E w \in Worker : WorkerStep(w)) \/ Stop \/ Withdraw \/ Finished
         PROVE  UNCHANGED clientVars
    BY <1>12 DEF WorkerStep, Pop, PopNothing, Window, Gather, GatherEnd, Load, Publish,
       DropBatch, Retire, Notify, Stop, Withdraw, Finished, vars
  <1>13. ASSUME UNCHANGED clientVars
         PROVE  held' = held /\ leases' = leases
    BY <1>13 DEF clientVars
  <1>14. CASE ClientStep(c)
    BY <1>6, <1>7, <1>8, <1>9, <1>10, <1>14 DEF ClientStep
  <1> QED BY <1>2, <1>4, <1>11, <1>12, <1>13, <1>14 DEF Next

(* So whatever a thread pins serves, or its read has failed.                 *)
LEMMA PinsServeStep ==
  ASSUME IInv, ReadsInv, PinsInv, [Next]_vars, ~DropsPinned
  PROVE  PinsServe'
  <1>1. CASE Next
    <2> SUFFICES ASSUME NEW c \in Client, NEW r \in Pins(c)' PROVE Serves(r)'
      BY DEF PinsServe
    <2>1. CASE r \in Resident'
      BY <2>1 DEF Serves
    <2>2. CASE r \in Pins(c)
      <3>1. Serves(r)
        BY <2>2 DEF PinsInv, PinsServe
      <3> QED BY <2>2, <3>1, StaysServing
    <2> QED BY <1>1, <2>1, <2>2, PinsComeFromTheMap DEF PinsInv
  <1>2. CASE UNCHANGED vars
    BY <1>2 DEF vars, cacheVars, entryVars, clientVars, PinsInv, PinsServe, Pins, HeldSet, Serves,
       Resident, Mapped
  <1> QED BY <1>1, <1>2

(* As long as no clean-up of predictions removes a read pair that a call still *)
(* holds, the payloads one thread pins fit the cache: they are resident, and  *)
(* the resident pairs fit.  Without that they need not (README, finding 4).  *)
THEOREM PinsFit ==
  Spec /\ [][~DropsPinned]_vars => []PinnedFitsCache
  <1>1. Init => PinsInv
    BY DEF Init, PinsInv, NamesItself, PinsServe, Pins, HeldSet, ToSet
  <1>2. ASSUME IInv, ReadsInv, PinsInv, [Next]_vars, [~DropsPinned]_vars
        PROVE  PinsInv'
    <2>1. CASE ~DropsPinned
      BY <1>2, <2>1, NamesItselfStep, PinsServeStep DEF PinsInv
    <2>2. CASE UNCHANGED vars
      BY <1>2, <2>2, NamesItselfStep DEF vars, cacheVars, entryVars, clientVars, PinsInv, PinsServe,
         Pins, HeldSet, Serves, Resident, Mapped
    <2> QED BY <1>2, <2>1, <2>2
  <1>3. IInv /\ PinsInv => PinnedFitsCache
    <2> SUFFICES ASSUME IInv, PinsInv, NEW c \in Client
                 PROVE  TotalSize({r \in Pins(c) : state[r] # "Failed"}) <= CacheSize
      BY DEF PinnedFitsCache, Pins
    <2> DEFINE S == {r \in Pins(c) : state[r] # "Failed"}
    <2>1. S \in SUBSET Resident /\ Resident \in SUBSET Ref
      BY DEF PinsInv, PinsServe, Serves, Resident
    <2> HIDE DEF S
    <2>2. /\ TotalSize(S) = Weight(S, CacheSize, RefSize) /\ TotalSize(S) \in Nat
          /\ TotalSize(Resident) = Weight(Resident, CacheSize, RefSize)
          /\ TotalSize(Resident) \in Nat
      BY <2>1, TotalSizeIsWeight
    <2>3. IsFiniteSet(Resident)
      BY <2>1, RefsAreFinite, FS_Subset
    <2>4. Weight(S, CacheSize, RefSize) <= Weight(Resident, CacheSize, RefSize)
      BY <2>1, <2>3, WeightOfPart, ConstantsAssumption
    <2>5. TotalSize(Resident) <= CacheSize
      BY DEF IInv, Accounting, AccountingExact, CapacityRespected
    <2>6. TotalSize(S) <= CacheSize
      BY <2>2, <2>4, <2>5, ConstantsAssumption
    <2> QED BY <2>6 DEF S
  <1> QED BY <1>1, <1>2, <1>3, ReadsInvariant, PTL DEF Spec
==============================================================================
