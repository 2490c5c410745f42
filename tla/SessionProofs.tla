--------------------------- MODULE SessionProofs ---------------------------
(***************************************************************************)
(* Theorems of Session, for every number of layers, every kind of layer,   *)
(* every draft model and every bound. The first part is about the          *)
(* transaction of one cache. The second shows that the caches of the       *)
(* target match the committed tokens and that a failure lasts until reset, *)
(* the third that the draft model stays in step, the fourth that what is   *)
(* emitted is what GreedyDecoder would emit.                               *)
(***************************************************************************)
EXTENDS Session, SequenceTheorems, TLAPS

(* Sequences.                                                              *)

LEMMA AppendToConcat ==
  ASSUME NEW S, NEW base \in Seq(S), NEW rows \in Seq(S), NEW row \in S
  PROVE  /\ Append(base \o rows, row) = base \o Append(rows, row)
         /\ base \o Append(rows, row) \in Seq(S)
<1>1. base \o rows \in Seq(S) /\ <<row>> \in Seq(S)
  BY ConcatProperties
<1>2. Append(base \o rows, row) = (base \o rows) \o <<row>>
  BY <1>1, AppendIsConcat
<1>3. Append(rows, row) = rows \o <<row>>
  BY AppendIsConcat
<1>4. (base \o rows) \o <<row>> = base \o (rows \o <<row>>)
  BY <1>1, ConcatAssociative
<1>5. Append(rows, row) \in Seq(S)
  BY AppendProperties
<1> QED
  BY <1>2, <1>3, <1>4, <1>5, ConcatProperties

LEMMA PrefixIsSeq ==
  ASSUME NEW S, NEW s \in Seq(S), NEW k \in 0..Len(s)
  PROVE  /\ SubSeq(s, 1, k) \in Seq(S)
         /\ Len(SubSeq(s, 1, k)) = k
         /\ \A i \in 1..k : SubSeq(s, 1, k)[i] = s[i]
<1>1. Len(s) \in Nat /\ 1 \in Int /\ k \in Int
  BY LenProperties
<1>2. \A i \in 1..k : s[i] \in S
  BY <1>1, ElementOfSeq
<1> QED
  BY <1>1, <1>2, SubSeqProperties, SMT

LEMMA NoPrefix ==
  ASSUME NEW s
  PROVE  SubSeq(s, 1, 0) = <<>>
BY SubSeqEmpty

LEMMA PrefixOfConcat ==
  ASSUME NEW S, NEW base \in Seq(S), NEW rows \in Seq(S), NEW k \in 0..Len(rows)
  PROVE  SubSeq(base \o rows, 1, Len(base) + k) = base \o SubSeq(rows, 1, k)
<1> DEFINE whole == base \o rows
           front == SubSeq(rows, 1, k)
           left == SubSeq(whole, 1, Len(base) + k)
<1>1. /\ whole \in Seq(S) /\ Len(whole) = Len(base) + Len(rows)
      /\ \A i \in 1..Len(base) + Len(rows) :
           whole[i] = IF i <= Len(base) THEN base[i] ELSE rows[i - Len(base)]
      /\ Len(base) \in Nat /\ Len(rows) \in Nat
  BY ConcatProperties, LenProperties
<1>2. front \in Seq(S) /\ Len(front) = k /\ \A i \in 1..k : front[i] = rows[i]
  BY PrefixIsSeq
<1>3. /\ base \o front \in Seq(S) /\ Len(base \o front) = Len(base) + k
      /\ \A i \in 1..Len(base) + k :
           (base \o front)[i] = IF i <= Len(base) THEN base[i] ELSE front[i - Len(base)]
  BY <1>2, ConcatProperties
<1>4. Len(base) + k \in 0..Len(whole)
  BY <1>1
<1>5. /\ left \in Seq(S) /\ Len(left) = Len(base) + k
      /\ \A i \in 1..Len(base) + k : left[i] = whole[i]
  BY <1>1, <1>4, PrefixIsSeq
<1> HIDE DEF whole, front, left
<1>6. ASSUME NEW i \in 1..Len(left)
      PROVE  left[i] = (base \o front)[i]
  <2>1. i \in 1..Len(base) + k /\ i \in 1..Len(base) + Len(rows)
    BY <1>1, <1>5
  <2>2. CASE i <= Len(base)
    BY <1>1, <1>3, <1>5, <2>1, <2>2
  <2>3. CASE ~(i <= Len(base))
    <3>1. i - Len(base) \in 1..k
      BY <1>1, <2>1, <2>3
    <3>2. front[i - Len(base)] = rows[i - Len(base)]
      BY <1>2, <3>1
    <3> QED
      BY <1>1, <1>3, <1>5, <2>1, <2>3, <3>2
  <2> QED
    BY <2>2, <2>3
<1>7. left = base \o front
  BY <1>3, <1>5, <1>6, SeqEqual
<1> QED
  BY <1>7 DEF whole, front, left

LEMMA PrefixOfAppend ==
  ASSUME NEW S, NEW rows \in Seq(S), NEW row \in S, NEW k \in 0..Len(rows)
  PROVE  SubSeq(Append(rows, row), 1, k) = SubSeq(rows, 1, k)
<1> DEFINE more == Append(rows, row)
<1>1. more \in Seq(S) /\ Len(more) = Len(rows) + 1 /\ \A i \in 1..Len(rows) : more[i] = rows[i]
  BY AppendProperties
<1>2. Len(rows) \in Nat /\ k \in 0..Len(more)
  BY <1>1, LenProperties
<1>3. /\ SubSeq(more, 1, k) \in Seq(S) /\ Len(SubSeq(more, 1, k)) = k
      /\ \A i \in 1..k : SubSeq(more, 1, k)[i] = more[i]
  BY <1>1, <1>2, PrefixIsSeq
<1>4. /\ SubSeq(rows, 1, k) \in Seq(S) /\ Len(SubSeq(rows, 1, k)) = k
      /\ \A i \in 1..k : SubSeq(rows, 1, k)[i] = rows[i]
  BY PrefixIsSeq
<1> HIDE DEF more
<1>5. \A i \in 1..Len(SubSeq(more, 1, k)) : SubSeq(more, 1, k)[i] = SubSeq(rows, 1, k)[i]
  BY <1>1, <1>2, <1>3, <1>4
<1>6. SubSeq(more, 1, k) = SubSeq(rows, 1, k)
  BY <1>3, <1>4, <1>5, SeqEqual
<1> QED
  BY <1>6 DEF more

\* One more element of a prefix.
LEMMA LongerPrefix ==
  ASSUME NEW S, NEW s \in Seq(S), NEW k \in Nat, k < Len(s)
  PROVE  /\ s[k + 1] \in S
         /\ SubSeq(s, 1, k + 1) = Append(SubSeq(s, 1, k), s[k + 1])
<1>1. Len(s) \in Nat /\ 1 \in 1..Len(s) /\ k + 1 \in 1..Len(s) /\ k \in 0..Len(s)
  BY LenProperties
<1>2. s[k + 1] \in S
  BY <1>1, ElementOfSeq
<1>3. SubSeq(s, 1, k + 1) = SubSeq(s, 1, (k + 1) - 1) \o <<s[k + 1]>>
  BY <1>1, SubSeqRecursiveSecond
<1>4. (k + 1) - 1 = k
  OBVIOUS
<1>5. SubSeq(s, 1, k) \in Seq(S)
  BY <1>1, PrefixIsSeq
<1>6. Append(SubSeq(s, 1, k), s[k + 1]) = SubSeq(s, 1, k) \o <<s[k + 1]>>
  BY <1>2, <1>5, AppendIsConcat
<1> QED
  BY <1>2, <1>3, <1>4, <1>6

-----------------------------------------------------------------------------
(* The transaction of one cache.                                           *)

\* The rows `rows' of a transaction of `total' rows that began at `base'.
\* What each kind keeps to take them back is exactly enough.
Open(c, base, rows, total) ==
  /\ c.active /\ c.rows = base \o rows /\ Len(rows) <= total
  /\ c.kind = "latent" =>
       /\ Len(c.saved) = Len(rows)
       /\ \A i \in 1..Len(rows) : c.saved[i] = base \o SubSeq(rows, 1, i - 1)
  /\ c.kind # "latent" => c.expected = total /\ c.recorded = Len(rows)
  /\ c.kind = "delta" =>
       /\ c.initial = base
       /\ Len(rows) < total => Len(c.saved) = Len(rows)
       /\ \A i \in 1..Len(rows) :
            i < total => i <= Len(c.saved) /\ c.saved[i] = base \o SubSeq(rows, 1, i)
  /\ c.kind \in {"kv", "sliding"} => c.count = Len(base)

Closed(c, rows) == ~c.active /\ c.rows = rows

LEMMA FreshIsClosed ==
  ASSUME NEW kind \in CacheKind
  PROVE  Fresh(kind) \in LayerCache /\ Closed(Fresh(kind), <<>>)
BY DEF Fresh, LayerCache, Closed, CacheKind

LEMMA FinishIsClosed ==
  ASSUME NEW c \in LayerCache, NEW committed \in Nat, Restored(c, committed) \in Seq(Token)
  PROVE  /\ Finish(c, committed) \in LayerCache
         /\ Closed(Finish(c, committed), Restored(c, committed))
<1> DEFINE rows == Restored(c, committed)
<1>1. c.kind \in CacheKind
  BY DEF LayerCache
<1>2. Finish(c, committed) = [Fresh(c.kind) EXCEPT !.rows = rows]
  BY DEF Finish
<1>3. Fresh(c.kind) \in LayerCache /\ ~Fresh(c.kind).active
  BY <1>1, FreshIsClosed DEF Closed
<1> HIDE DEF rows
<1>4. rows \in Seq(Token)
  BY DEF rows
<1>5. Finish(c, committed) \in LayerCache /\ Closed(Finish(c, committed), rows)
  BY <1>2, <1>3, <1>4 DEF LayerCache, Closed
<1> QED
  BY <1>5 DEF rows

LEMMA BeginOpens ==
  ASSUME NEW c \in LayerCache, NEW base \in Seq(Token), NEW total \in Nat, Closed(c, base)
  PROVE  /\ Begin(c, total) \in LayerCache
         /\ Open(Begin(c, total), base, <<>>, total)
<1>1. /\ Len(c.rows) \in Nat /\ c.rows \in Seq(Token) /\ c.rows = base /\ base \o <<>> = base
      /\ Len(<<>>) = 0 /\ <<>> \in Seq(Token) /\ <<>> \in Seq(Seq(Token))
  BY ConcatEmptySeq, LenProperties, EmptySeq DEF LayerCache, Closed
<1>2. CASE c.kind = "latent"
  <2>1. Begin(c, total) = [c EXCEPT !.active = TRUE, !.saved = <<>>]
    BY <1>2 DEF Begin
  <2>2. Begin(c, total) \in LayerCache
    BY <1>1, <2>1 DEF LayerCache
  <2>3. /\ Begin(c, total).active /\ Begin(c, total).saved = <<>>
        /\ Begin(c, total).rows = base /\ Begin(c, total).kind = "latent"
    BY <1>1, <1>2, <2>1 DEF LayerCache
  <2>4. \A i \in 1..0 : FALSE
    OBVIOUS
  <2>5. Open(Begin(c, total), base, <<>>, total)
    BY <1>1, <2>3, <2>4 DEF Open
  <2> QED
    BY <2>2, <2>5
<1>3. CASE c.kind # "latent"
  <2>1. Begin(c, total) = [c EXCEPT !.active = TRUE, !.count = Len(c.rows), !.expected = total,
                 !.recorded = 0, !.saved = <<>>,
                 !.initial = IF c.kind = "delta" THEN c.rows ELSE <<>>]
    BY <1>3 DEF Begin
  <2> DEFINE initial == IF c.kind = "delta" THEN c.rows ELSE <<>>
  <2>2. initial \in Seq(Token) /\ (c.kind = "delta" => initial = base)
    BY <1>1
  <2>3. Begin(c, total) = [c EXCEPT !.active = TRUE, !.count = Len(c.rows), !.expected = total,
                 !.recorded = 0, !.saved = <<>>, !.initial = initial]
    BY <2>1
  <2> HIDE DEF initial
  <2>4. Begin(c, total) \in LayerCache
    <3>1. Len(c.rows) \in Nat /\ total \in Nat /\ 0 \in Nat /\ <<>> \in Seq(Seq(Token))
      BY <1>1
    <3>2. Begin(c, total) =
            [kind |-> c.kind, rows |-> c.rows, active |-> TRUE, count |-> Len(c.rows),
             initial |-> initial, expected |-> total, recorded |-> 0, saved |-> <<>>]
      BY <2>3 DEF LayerCache
    <3> QED
      BY <2>2, <3>1, <3>2 DEF LayerCache
  <2>5. /\ Begin(c, total).active /\ Begin(c, total).saved = <<>>
        /\ Begin(c, total).rows = base /\ Begin(c, total).kind = c.kind
        /\ Begin(c, total).count = Len(base) /\ Begin(c, total).expected = total
        /\ Begin(c, total).recorded = 0
        /\ c.kind = "delta" => Begin(c, total).initial = base
    BY <1>1, <2>2, <2>3 DEF LayerCache
  <2>6. \A i \in 1..0 : FALSE
    OBVIOUS
  <2>7. Open(Begin(c, total), base, <<>>, total)
    BY <1>1, <1>3, <2>5, <2>6 DEF Open
  <2> QED
    BY <2>4, <2>7
<1> QED
  BY <1>2, <1>3

LEMMA BeforeIsAll ==
  ASSUME NEW c, NEW position \in Nat, Len(c.rows) = position
  PROVE  Before(c, position) = c.rows
BY DEF Before

LEMMA RecordClosed ==
  ASSUME NEW c \in LayerCache, NEW rows \in Seq(Token), NEW row \in Token,
         Closed(c, rows)
  PROVE  /\ Record(c, Len(rows), row) \in LayerCache
         /\ Closed(Record(c, Len(rows), row), Append(rows, row))
<1>1. Len(rows) \in Nat /\ Append(rows, row) \in Seq(Token)
  BY LenProperties, AppendProperties
<1>2. Before(c, Len(rows)) = rows
  BY <1>1, BeforeIsAll DEF Closed
<1>3. Record(c, Len(rows), row) = [c EXCEPT !.rows = Append(rows, row)]
  BY <1>2 DEF Record, Closed
<1> QED
  BY <1>1, <1>3 DEF Closed, LayerCache

LEMMA RecordExtends ==
  ASSUME NEW c \in LayerCache, NEW base \in Seq(Token), NEW rows \in Seq(Token),
         NEW total \in Nat, NEW row \in Token,
         Open(c, base, rows, total), Len(rows) < total
  PROVE  /\ Record(c, Len(base) + Len(rows), row) \in LayerCache
         /\ Open(Record(c, Len(base) + Len(rows), row), base, Append(rows, row), total)
<1> DEFINE position == Len(base) + Len(rows)
           grown == Append(c.rows, row)
           more == Append(rows, row)
<1>1. /\ Len(base) \in Nat /\ Len(rows) \in Nat /\ position \in Nat
      /\ c.rows = base \o rows /\ Len(c.rows) = position /\ c.rows \in Seq(Token)
  BY LenProperties, ConcatProperties DEF Open, LayerCache
<1>2. grown = base \o more /\ grown \in Seq(Token)
  <2>1. Append(base \o rows, row) = base \o more /\ base \o more \in Seq(Token)
    BY AppendToConcat
  <2> QED
    BY <1>1, <2>1
<1>3. more \in Seq(Token) /\ Len(more) = Len(rows) + 1
  BY AppendProperties
<1>4. Before(c, position) = c.rows
  BY <1>1, BeforeIsAll
<1>5. \A i \in 1..Len(rows) : SubSeq(more, 1, i) = SubSeq(rows, 1, i)
  BY <1>1, PrefixOfAppend
<1>6. SubSeq(more, 1, Len(rows) + 1) = more /\ SubSeq(more, 1, Len(rows)) = rows
  BY <1>1, <1>3, SubSeqFull, PrefixOfAppend
<1>7. /\ c.saved \in Seq(Seq(Token)) /\ Append(c.saved, c.rows) \in Seq(Seq(Token))
      /\ Append(c.saved, grown) \in Seq(Seq(Token)) /\ Len(c.saved) \in Nat
      /\ Len(Append(c.saved, c.rows)) = Len(c.saved) + 1
      /\ Len(Append(c.saved, grown)) = Len(c.saved) + 1
      /\ \A i \in 1..Len(c.saved) :
           Append(c.saved, c.rows)[i] = c.saved[i] /\ Append(c.saved, grown)[i] = c.saved[i]
      /\ Append(c.saved, c.rows)[Len(c.saved) + 1] = c.rows
      /\ Append(c.saved, grown)[Len(c.saved) + 1] = grown
  BY <1>1, <1>2, AppendProperties, LenProperties DEF LayerCache
<1>8. c.active /\ c.recorded \in Nat /\ c.expected \in Nat /\ c.kind \in CacheKind
  BY DEF Open, LayerCache
<1> HIDE DEF position, grown, more
<1>9. CASE c.kind = "latent"
  <2>1. Record(c, position, row) = [c EXCEPT !.rows = grown, !.saved = Append(c.saved, c.rows)]
    BY <1>4, <1>8, <1>9 DEF Record, grown
  <2>2. Record(c, position, row) \in LayerCache
    BY <1>2, <1>7, <2>1 DEF LayerCache
  <2>3. Len(c.saved) = Len(rows)
        /\ \A i \in 1..Len(rows) : c.saved[i] = base \o SubSeq(rows, 1, i - 1)
    BY <1>9 DEF Open
  <2>4. \A i \in 1..Len(more) : SubSeq(more, 1, i - 1) = SubSeq(rows, 1, i - 1)
    <3>1. ASSUME NEW i \in 1..Len(more)
          PROVE  SubSeq(more, 1, i - 1) = SubSeq(rows, 1, i - 1)
      <4>1. i - 1 \in 0..Len(rows)
        BY <1>1, <1>3
      <4> QED
        BY <4>1, PrefixOfAppend DEF more
    <3> QED
      BY <3>1
  <2>5. SubSeq(rows, 1, Len(rows)) = rows
    BY SubSeqFull
  <2>6. ASSUME NEW i \in 1..Len(more)
        PROVE  Append(c.saved, c.rows)[i] = base \o SubSeq(more, 1, i - 1)
    <3>1. CASE i \in 1..Len(rows)
      BY <1>7, <2>3, <2>4, <3>1
    <3>2. CASE i = Len(rows) + 1
      <4>1. i - 1 = Len(rows)
        BY <1>1, <3>2
      <4> QED
        BY <1>1, <1>7, <2>3, <2>4, <2>5, <3>2, <4>1
    <3>3. i \in 1..Len(rows) \/ i = Len(rows) + 1
      BY <1>1, <1>3
    <3> QED
      BY <3>1, <3>2, <3>3, Zenon
  <2>7. Len(more) <= total
    BY <1>1, <1>3
  <2>8. /\ Record(c, position, row).kind = "latent" /\ Record(c, position, row).active
        /\ Record(c, position, row).rows = base \o more
        /\ Record(c, position, row).saved = Append(c.saved, c.rows)
    BY <1>2, <1>8, <1>9, <2>1 DEF LayerCache
  <2>9. Open(Record(c, position, row), base, more, total)
    BY <1>1, <1>3, <1>7, <2>3, <2>6, <2>7, <2>8 DEF Open
  <2> QED
    BY <2>2, <2>9 DEF position, more
<1>10. CASE c.kind = "delta"
  <2> DEFINE saved == IF c.recorded + 1 < c.expected THEN Append(c.saved, grown) ELSE c.saved
  <2>1. Record(c, position, row)
          = [c EXCEPT !.rows = grown, !.recorded = c.recorded + 1, !.saved = saved]
    BY <1>4, <1>8, <1>10 DEF Record, grown
  <2>2. saved \in Seq(Seq(Token))
    BY <1>7
  <2>3. /\ c.expected = total /\ c.recorded = Len(rows) /\ c.initial = base
        /\ Len(c.saved) = Len(rows)
        /\ \A i \in 1..Len(rows) :
             i < total => i <= Len(c.saved) /\ c.saved[i] = base \o SubSeq(rows, 1, i)
    BY <1>10 DEF Open
  <2>4. saved = IF Len(rows) + 1 < total THEN Append(c.saved, grown) ELSE c.saved
    BY <2>3
  <2> HIDE DEF saved
  <2>5. Record(c, position, row) \in LayerCache
    <3>1. c.recorded + 1 \in Nat
      BY <1>8
    <3> QED
      BY <1>2, <2>1, <2>2, <3>1 DEF LayerCache
  <2>6. Len(more) < total => Len(saved) = Len(more)
    BY <1>3, <1>7, <2>3, <2>4
  <2>7. ASSUME NEW i \in 1..Len(more), i < total
        PROVE  i <= Len(saved) /\ saved[i] = base \o SubSeq(more, 1, i)
    <3>1. CASE i \in 1..Len(rows)
      <4>1. i <= Len(c.saved) /\ c.saved[i] = base \o SubSeq(rows, 1, i)
        BY <2>3, <2>7, <3>1
      <4>2. CASE Len(rows) + 1 < total
        <5>1. saved = Append(c.saved, grown) /\ i \in 1..Len(c.saved)
          BY <2>3, <2>4, <3>1, <4>2
        <5>2. saved[i] = c.saved[i] /\ Len(saved) = Len(c.saved) + 1
          BY <1>7, <5>1
        <5>3. i <= Len(saved)
          BY <1>7, <4>1, <5>1, <5>2
        <5> QED
          BY <1>5, <3>1, <4>1, <5>2, <5>3
      <4>3. CASE ~(Len(rows) + 1 < total)
        BY <1>5, <2>4, <3>1, <4>1, <4>3
      <4> QED
        BY <4>2, <4>3
    <3>2. CASE i = Len(rows) + 1
      <4>1. saved = Append(c.saved, grown) /\ Len(saved) = i
        BY <1>1, <1>7, <2>3, <2>4, <2>7, <3>2
      <4>2. saved[i] = grown
        BY <1>7, <2>3, <3>2, <4>1
      <4>3. SubSeq(more, 1, i) = more
        BY <1>6, <3>2
      <4>4. i <= Len(saved)
        BY <4>1
      <4>5. grown = base \o more
        BY <1>2
      <4> QED
        BY <4>2, <4>3, <4>4, <4>5, Zenon
    <3>3. i \in 1..Len(rows) \/ i = Len(rows) + 1
      BY <1>1, <1>3
    <3> QED
      BY <3>1, <3>2, <3>3, Zenon
  <2>8. Len(more) <= total
    BY <1>1, <1>3
  <2>9. /\ Record(c, position, row).kind = "delta" /\ Record(c, position, row).active
        /\ Record(c, position, row).rows = base \o more
        /\ Record(c, position, row).saved = saved
        /\ Record(c, position, row).initial = base
        /\ Record(c, position, row).expected = total
        /\ Record(c, position, row).recorded = Len(more)
    BY <1>2, <1>3, <1>8, <1>10, <2>1, <2>3 DEF LayerCache
  <2>10. Open(Record(c, position, row), base, more, total)
    BY <2>6, <2>7, <2>8, <2>9 DEF Open
  <2> QED
    BY <2>5, <2>10 DEF position, more
<1>11. CASE c.kind \in {"kv", "sliding"}
  <2>1. Record(c, position, row) = [c EXCEPT !.rows = grown, !.recorded = c.recorded + 1]
    BY <1>4, <1>8, <1>11 DEF Record, grown
  <2>2. Record(c, position, row) \in LayerCache
    <3>1. c.recorded + 1 \in Nat
      BY <1>8
    <3> QED
      BY <1>2, <2>1, <3>1 DEF LayerCache
  <2>3. c.expected = total /\ c.recorded = Len(rows) /\ c.count = Len(base)
    BY <1>11 DEF Open
  <2>4. Len(more) <= total
    BY <1>1, <1>3
  <2>5. /\ Record(c, position, row).kind = c.kind /\ Record(c, position, row).active
        /\ Record(c, position, row).rows = base \o more
        /\ Record(c, position, row).count = Len(base)
        /\ Record(c, position, row).expected = total
        /\ Record(c, position, row).recorded = Len(more)
    BY <1>2, <1>3, <1>8, <2>1, <2>3 DEF LayerCache
  <2>6. Open(Record(c, position, row), base, more, total)
    BY <1>11, <2>4, <2>5 DEF Open
  <2> QED
    BY <2>2, <2>6 DEF position, more
<1> QED
  BY <1>8, <1>9, <1>10, <1>11 DEF CacheKind

\* Finishing a transaction keeps the committed rows and no others, whatever
\* the kind of layer (finish_cache_transaction, finish_transaction of the
\* latent cache).
THEOREM FinishRestores ==
  ASSUME NEW c \in LayerCache, NEW base \in Seq(Token), NEW rows \in Seq(Token),
         NEW total \in Nat, Open(c, base, rows, total), NEW committed \in 0..Len(rows)
  PROVE  /\ Restored(c, committed) = base \o SubSeq(rows, 1, committed)
         /\ Restored(c, committed) \in Seq(Token)
<1>1. Len(rows) \in Nat /\ Len(base) \in Nat /\ committed \in Nat
  BY LenProperties
<1>2. SubSeq(rows, 1, committed) \in Seq(Token) /\ SubSeq(rows, 1, Len(rows)) = rows
      /\ SubSeq(rows, 1, 0) = <<>> /\ base \o <<>> = base
  BY PrefixIsSeq, SubSeqFull, NoPrefix, ConcatEmptySeq
<1>3. base \o SubSeq(rows, 1, committed) \in Seq(Token)
  BY <1>2, ConcatProperties
<1>4. c.active /\ c.rows = base \o rows /\ c.kind \in CacheKind /\ Len(rows) <= total
  BY DEF Open, LayerCache
<1>5. CASE c.kind = "latent"
  <2>1. /\ Len(c.saved) = Len(rows)
        /\ \A i \in 1..Len(rows) : c.saved[i] = base \o SubSeq(rows, 1, i - 1)
    BY <1>5 DEF Open
  <2>2. Restored(c, committed) = IF committed < Len(c.saved) THEN c.saved[committed + 1] ELSE c.rows
    BY <1>4, <1>5 DEF Restored
  <2>3. CASE committed < Len(rows)
    <3>1. committed + 1 \in 1..Len(rows) /\ (committed + 1) - 1 = committed
      BY <1>1, <2>3
    <3>2. c.saved[committed + 1] = base \o SubSeq(rows, 1, committed)
      BY <2>1, <3>1
    <3> QED
      BY <1>3, <2>1, <2>2, <2>3, <3>2
  <2>4. CASE committed = Len(rows)
    BY <1>1, <1>2, <1>3, <1>4, <2>1, <2>2, <2>4
  <2> QED
    BY <1>1, <2>3, <2>4
<1>6. CASE c.kind = "delta"
  <2>1. /\ c.initial = base /\ c.recorded = Len(rows)
        /\ \A i \in 1..Len(rows) :
             i < total => i <= Len(c.saved) /\ c.saved[i] = base \o SubSeq(rows, 1, i)
    BY <1>6 DEF Open
  <2>2. Restored(c, committed) =
          IF committed = 0 THEN c.initial
          ELSE IF committed < c.recorded THEN c.saved[committed] ELSE c.rows
    BY <1>4, <1>6 DEF Restored
  <2>3. CASE committed = 0
    BY <1>2, <2>1, <2>2, <2>3
  <2>4. CASE committed # 0 /\ committed < Len(rows)
    <3>1. committed \in 1..Len(rows) /\ committed < total
      BY <1>1, <1>4, <2>4
    <3> QED
      BY <1>3, <2>1, <2>2, <2>4, <3>1
  <2>5. CASE committed # 0 /\ committed = Len(rows)
    BY <1>1, <1>2, <1>3, <1>4, <2>1, <2>2, <2>5
  <2> QED
    BY <1>1, <2>3, <2>4, <2>5
<1>7. CASE c.kind \in {"kv", "sliding"}
  <2>1. Restored(c, committed) = SubSeq(base \o rows, 1, Len(base) + committed)
    BY <1>4, <1>7 DEF Restored, Open
  <2> QED
    BY <1>3, <2>1, PrefixOfConcat
<1> QED
  BY <1>4, <1>5, <1>6, <1>7 DEF CacheKind

\* The same for what a failed execution leaves: none of the rows.
LEMMA TakenBack ==
  ASSUME NEW c \in LayerCache, NEW base \in Seq(Token), NEW rows \in Seq(Token),
         NEW total \in Nat, Open(c, base, rows, total)
  PROVE  Restored(c, 0) = base
<1>1. 0 \in 0..Len(rows) /\ SubSeq(rows, 1, 0) = <<>> /\ base \o <<>> = base
  BY LenProperties, NoPrefix, ConcatEmptySeq
<1> QED
  BY <1>1, FinishRestores

-----------------------------------------------------------------------------
(* The inductive invariant of the Session.                                 *)

\* The model chooses tokens of its vocabulary.
GreedyChoosesTokens == \A seen \in [Layer -> Seq(Token)] : Greedy(seen) \in Token

Places == {"idle", "prefill", "sample", "decode", "callback", "return", "loop", "draft",
           "verify", "forward", "compare", "emit", "settle"}

Generation ==
  [at : Places, speculative : BOOLEAN, max : Int, start : Nat, stream : Seq(Token),
   active : BOOLEAN, verifying : BOOLEAN, ids : Seq(Token), outputs : Seq(Token),
   accepted : Nat, emitted : Nat, expected : Nat, go_on : BOOLEAN, touched : BOOLEAN]

Shapes ==
  /\ model \in Models
  /\ layers \in [Layer -> LayerCache]
  /\ context \in Seq(Token) /\ failed \in BOOLEAN
  /\ running \in [ids : Seq(Token), done : Nat]
  /\ gen \in Generation

\* Who holds the mutex and whether a failure is marked.
Control ==
  /\ Held => /\ failed /\ running.done < Len(running.ids)
             /\ gen.at \in {"idle", "prefill", "decode", "callback"}
             /\ gen.at = "callback" => ~gen.speculative
  /\ gen.at \in {"prefill", "decode"} => Held
  /\ gen.at \in {"draft", "verify", "forward", "compare", "emit", "settle"} => gen.speculative
  /\ gen.verifying => gen.speculative
  /\ gen.speculative /\ gen.at # "idle" /\ ~Held => ~failed
  /\ gen.speculative /\ gen.at \notin {"idle", "prefill", "callback"} => context # <<>>
  /\ gen.speculative /\ gen.at = "callback" => gen.expected # 0
  /\ gen.at \notin {"idle", "prefill", "sample"} => gen.stream # <<>>

Checking == gen.at \in {"emit", "settle"} \/ (gen.at = "callback" /\ gen.verifying)

\* How far a verification has come.
Progress ==
  /\ gen.at \in {"draft", "verify"} => gen.ids # <<>>
  /\ gen.at = "forward" => Verified < Len(gen.ids) /\ gen.accepted = 0
  /\ gen.at = "compare" => Verified = Len(gen.ids) /\ gen.accepted < Len(gen.ids)
  /\ Checking => gen.emitted <= Verified /\ Verified <= Len(gen.ids)
  /\ gen.at = "emit" => gen.emitted < Verified

InTransaction == gen.at \in {"forward", "compare"} \/ Checking

Executed == IF gen.at = "forward" THEN SubSeq(gen.ids, 1, Verified) ELSE gen.ids

\* What a layer remembers, with its transaction open or not.
Holds(c) ==
  IF Held THEN Closed(c, context \o SubSeq(running.ids, 1, running.done))
  ELSE IF failed THEN TRUE
  ELSE IF InTransaction
       THEN \/ Open(c, context, Executed, Len(gen.ids))
            \/ gen.at = "callback" /\ context = <<>> /\ Closed(c, <<>>)
       ELSE Closed(c, context)

LayersHold == \A l \in Layer : Holds(layers[l])

SessionInv == Shapes /\ Control /\ Progress /\ LayersHold

LEMMA InitHolds ==
  ASSUME Init
  PROVE  SessionInv
<1>1. <<>> \in Seq(Token) /\ Len(<<>>) = 0
  BY EmptySeq
<1>2. model \in Models /\ model.layers \in [Layer -> CacheKind]
  BY SessionAssumption DEF Init
<1>3. \A l \in Layer : Fresh(model.layers[l]) \in LayerCache /\ Closed(Fresh(model.layers[l]), <<>>)
  BY <1>2, FreshIsClosed
<1>4. layers \in [Layer -> LayerCache] /\ \A l \in Layer : Closed(layers[l], <<>>)
  BY <1>3 DEF Init, FreshLayers
<1>5. ~Held /\ gen = Idle /\ failed = FALSE /\ context = <<>> /\ running = NotRunning
  BY DEF Init, Held
<1>6. Idle \in Generation
  BY <1>1 DEF Idle, Generation, Places
<1>7. NotRunning \in [ids : Seq(Token), done : Nat]
  BY <1>1 DEF NotRunning
<1>8. Shapes
  BY <1>1, <1>2, <1>4, <1>5, <1>6, <1>7 DEF Shapes
<1>9. Control /\ Progress /\ ~InTransaction
  BY <1>5 DEF Control, Progress, InTransaction, Checking, Idle
<1>10. LayersHold
  BY <1>4, <1>5, <1>9 DEF LayersHold, Holds
<1> QED
  BY <1>8, <1>9, <1>10 DEF SessionInv

-----------------------------------------------------------------------------
(* Steps that leave the layers as they are.                                *)

\* Nothing else of the Session changed: the layers still hold.
LEMMA SameLayers ==
  ASSUME LayersHold, layers' = layers, context' = context, running' = running,
         failed' = failed \/ failed' = TRUE,
         ~InTransaction, ~InTransaction'
  PROVE  LayersHold'
<1>1. ASSUME NEW l \in Layer
      PROVE  Holds(layers[l])'
  <2>1. Holds(layers[l])
    BY DEF LayersHold
  <2>2. Held' = Held
    BY DEF Held, NotRunning
  <2>3. CASE Held
    BY <2>1, <2>2, <2>3 DEF Holds
  <2>4. CASE ~Held
    BY <2>1, <2>2, <2>4 DEF Holds
  <2> QED
    BY <2>3, <2>4
<1> QED
  BY <1>1 DEF LayersHold

\* An execution starts.
LEMMA ExecutionStarts ==
  ASSUME LayersHold, Shapes, layers' = layers, context' = context, ~Held, failed = FALSE, ~InTransaction,
         NEW ids \in Seq(Token), ids # <<>>, StartExecution(ids)
  PROVE  /\ LayersHold' /\ Held' /\ failed' = TRUE
         /\ running'.done < Len(running'.ids)
         /\ running' \in [ids : Seq(Token), done : Nat]
<1>1. running' = [ids |-> ids, done |-> 0] /\ failed' = TRUE
  BY DEF StartExecution
<1>2. Len(ids) \in Nat \ {0} /\ SubSeq(ids, 1, 0) = <<>>
  BY EmptySeq, NoPrefix
<1>3. Held' /\ running'.done < Len(running'.ids) /\ running' \in [ids : Seq(Token), done : Nat]
  BY <1>1, <1>2 DEF Held, NotRunning
<1>4. context \o <<>> = context
  BY ConcatEmptySeq DEF Shapes
<1>5. ASSUME NEW l \in Layer
      PROVE  Holds(layers[l])'
  <2>1. Closed(layers[l], context)
    BY DEF LayersHold, Holds
  <2>2. Holds(layers[l])' = Closed(layers[l], context \o SubSeq(ids, 1, 0))
    BY <1>1, <1>3 DEF Holds, Closed
  <2> QED
    BY <1>2, <1>4, <2>1, <2>2
<1>6. LayersHold'
  BY <1>5 DEF LayersHold
<1> QED
  BY <1>1, <1>3, <1>6

LEMMA CallStep ==
  ASSUME ~Careless, SessionInv,
         NEW ids \in Seq(Token), ids # <<>>, NEW number, Accepts(number), StartExecution(ids),
         Unlocked, Permitted(TRUE), Touch, UNCHANGED <<model, layers, context>>
  PROVE  SessionInv'
<1>1. Shapes /\ Control /\ Progress /\ LayersHold
  BY DEF SessionInv
<1>2. failed = FALSE /\ ~Held /\ gen.at \in {"idle", "callback"}
  BY <1>1 DEF Accepts, Unlocked, Shapes
<1>3. gen.at = "callback" => ~gen.speculative
  BY DEF Permitted
<1>4. /\ gen' \in Generation /\ gen'.at = gen.at /\ gen'.speculative = gen.speculative
      /\ gen'.verifying = gen.verifying /\ gen'.stream = gen.stream
  BY <1>1 DEF Touch, Shapes, Generation
<1>5. gen.verifying => gen.speculative
  BY <1>1 DEF Control
<1>6. ~InTransaction /\ ~InTransaction'
  BY <1>2, <1>3, <1>4, <1>5 DEF InTransaction, Checking
<1>7. /\ LayersHold' /\ Held' /\ failed' = TRUE
      /\ running'.done < Len(running'.ids)
      /\ running' \in [ids : Seq(Token), done : Nat]
  BY <1>1, <1>2, <1>6, ExecutionStarts
<1>8. Shapes'
  BY <1>1, <1>4, <1>7 DEF Shapes
<1>9. Control'
  BY <1>1, <1>2, <1>3, <1>4, <1>7 DEF Control
<1>10. Progress'
  BY <1>2, <1>3, <1>4, <1>5 DEF Progress, Checking
<1> QED
  BY <1>7, <1>8, <1>9, <1>10 DEF SessionInv

LEMMA PrefillStep ==
  ASSUME ~Careless, SessionInv, Prefill
  PROVE  SessionInv'
<1>1. PICK ids \in Prompts : Accepts(Len(ids)) /\ StartExecution(ids)
  BY DEF Prefill
<1>2. ids \in Seq(Token) /\ ids # <<>>
  BY SessionAssumption
<1>3. Unlocked /\ Permitted(TRUE) /\ Touch /\ UNCHANGED <<model, layers, context>>
  BY DEF Prefill
<1> QED
  BY <1>1, <1>2, <1>3, CallStep

LEMMA DecodeStep ==
  ASSUME ~Careless, SessionInv, Decode
  PROVE  SessionInv'
<1>1. PICK id \in Token : Accepts(1) /\ StartExecution(<<id>>)
  BY DEF Decode
<1>2. <<id>> \in Seq(Token) /\ <<id>> # <<>>
  OBVIOUS
<1>3. Unlocked /\ Permitted(TRUE) /\ Touch /\ UNCHANGED <<model, layers, context>>
  BY DEF Decode
<1> QED
  BY <1>1, <1>2, <1>3, CallStep

LEMMA ResetStep ==
  ASSUME SessionInv, Reset
  PROVE  SessionInv'
<1>1. Shapes /\ Control /\ Progress /\ LayersHold
  BY DEF SessionInv
<1>2. /\ ~Held /\ gen.at \in {"idle", "callback"} /\ layers' = FreshLayers(model)
      /\ failed' = FALSE /\ context' = <<>> /\ model' = model /\ running' = running
  BY DEF Reset, Unlocked
<1>3. model.layers \in [Layer -> CacheKind]
  BY <1>1, SessionAssumption DEF Shapes
<1>4. \A l \in Layer : Fresh(model.layers[l]) \in LayerCache /\ Closed(Fresh(model.layers[l]), <<>>)
  BY <1>3, FreshIsClosed
<1>5. layers' \in [Layer -> LayerCache] /\ \A l \in Layer : Closed(layers'[l], <<>>)
  BY <1>2, <1>4 DEF FreshLayers
<1>6. /\ gen' \in Generation /\ gen'.at = gen.at /\ gen'.speculative = gen.speculative
      /\ gen'.verifying = gen.verifying /\ gen'.stream = gen.stream
      /\ gen'.ids = gen.ids /\ gen'.outputs = gen.outputs
      /\ gen'.emitted = gen.emitted /\ gen'.expected = gen.expected
  BY <1>1 DEF Reset, Touch, Shapes, Generation
<1>7. ~Held'
  BY <1>2 DEF Held, NotRunning
<1>8. Shapes'
  BY <1>1, <1>2, <1>5, <1>6, EmptySeq DEF Shapes
<1>9. Control'
  BY <1>1, <1>2, <1>6, <1>7 DEF Control
<1>10. Progress'
  BY <1>1, <1>2, <1>6 DEF Progress, Checking, Verified
<1>11. InTransaction' => gen'.at = "callback"
  BY <1>2, <1>6 DEF InTransaction, Checking
<1>12. LayersHold'
  BY <1>2, <1>5, <1>7, <1>11 DEF LayersHold, Holds
<1> QED
  BY <1>8, <1>9, <1>10, <1>12 DEF SessionInv

LEMMA GenerateStep ==
  ASSUME SessionInv, Generate
  PROVE  SessionInv'
<1>1. Shapes /\ Control /\ Progress /\ LayersHold
  BY DEF SessionInv
<1>2. /\ ~Held /\ gen.at = "idle" /\ failed = FALSE
      /\ layers' = layers /\ context' = context /\ model' = model
  BY <1>1 DEF Generate, Locked, Shapes
<1>3. PICK ids \in Prompts \cup {<<>>}, speculative \in BOOLEAN, max \in 1..MaximumNew :
        IF ids # <<>> /\ Accepts(Len(ids))
        THEN /\ StartExecution(ids)
             /\ gen' = [Idle EXCEPT !.at = "prefill",
                                    !.speculative = speculative /\ model.drafts # "none",
                                    !.max = max, !.active = TRUE]
        ELSE UNCHANGED <<running, failed, gen>>
  BY Zenon DEF Generate
<1>4. ~InTransaction
  BY <1>2 DEF InTransaction, Checking
<1>5. CASE ids # <<>> /\ Accepts(Len(ids))
  <2> DEFINE use == speculative /\ model.drafts # "none"
  <2>1. gen' = [Idle EXCEPT !.at = "prefill", !.speculative = use, !.max = max, !.active = TRUE]
    BY <1>3, <1>5
  <2>2. use \in BOOLEAN /\ max \in Int /\ <<>> \in Seq(Token)
    BY SessionAssumption
  <2> HIDE DEF use
  <2>3. /\ gen' \in Generation /\ gen'.at = "prefill" /\ ~gen'.verifying
    BY <2>1, <2>2 DEF Idle, Generation, Places
  <2>4. /\ LayersHold' /\ Held' /\ failed' = TRUE
        /\ running'.done < Len(running'.ids)
        /\ running' \in [ids : Seq(Token), done : Nat]
    <3>1. ids \in Seq(Token) /\ ids # <<>> /\ StartExecution(ids)
      BY <1>3, <1>5, SessionAssumption
    <3> QED
      BY <1>1, <1>2, <1>4, <3>1, ExecutionStarts
  <2>5. Shapes'
    BY <1>1, <1>2, <2>3, <2>4 DEF Shapes
  <2>6. Control'
    BY <2>3, <2>4 DEF Control
  <2>7. Progress'
    BY <2>3 DEF Progress, Checking
  <2> QED
    BY <2>4, <2>5, <2>6, <2>7 DEF SessionInv
<1>6. CASE ~(ids # <<>> /\ Accepts(Len(ids)))
  <2>1. UNCHANGED <<model, layers, context, running, failed, gen>>
    BY <1>2, <1>3, <1>6
  <2> QED
    BY <1>1, <2>1 DEF SessionInv, Shapes, Control, Progress, Checking, Verified, Held, NotRunning,
                      LayersHold, Holds, InTransaction, Executed
<1> QED
  BY <1>5, <1>6

-----------------------------------------------------------------------------
(* An execution.                                                           *)

LEMMA ExecuteRowStep ==
  ASSUME SessionInv, ExecuteRow
  PROVE  SessionInv'
<1> DEFINE done == SubSeq(running.ids, 1, running.done)
           row == running.ids[Row]
           position == token_count + running.done
<1>1. Shapes /\ Control /\ Progress /\ LayersHold
  BY DEF SessionInv
<1>2. /\ Held /\ failed /\ running.done < Len(running.ids)
      /\ gen.at \in {"idle", "prefill", "decode", "callback"}
      /\ gen.at = "callback" => ~gen.speculative
  BY <1>1 DEF Control, ExecuteRow
<1>3. running.ids \in Seq(Token) /\ running.done \in Nat /\ Len(running.ids) \in Nat
  BY <1>1, LenProperties DEF Shapes
<1>4. /\ row \in Token /\ SubSeq(running.ids, 1, Row) = Append(done, row)
      /\ done \in Seq(Token) /\ Len(done) = running.done
  <2>1. running.done \in 0..Len(running.ids)
    BY <1>2, <1>3
  <2>2. row \in Token /\ SubSeq(running.ids, 1, Row) = Append(done, row)
    BY <1>2, <1>3, LongerPrefix DEF Row
  <2>3. done \in Seq(Token) /\ Len(done) = running.done
    BY <1>3, <2>1, PrefixIsSeq
  <2> QED
    BY <2>2, <2>3
<1> HIDE DEF done, row
<1>5. /\ context \in Seq(Token) /\ Len(context) \in Nat
      /\ context \o done \in Seq(Token) /\ Len(context \o done) = position
      /\ Append(context \o done, row) = context \o Append(done, row)
  <2>1. context \in Seq(Token)
    BY <1>1 DEF Shapes
  <2>2. context \o done \in Seq(Token) /\ Len(context \o done) = Len(context) + Len(done)
    BY <1>4, <2>1, ConcatProperties
  <2>3. Append(context \o done, row) = context \o Append(done, row)
    <3>1. ASSUME NEW base \in Seq(Token), NEW rows \in Seq(Token), NEW x \in Token
          PROVE  Append(base \o rows, x) = base \o Append(rows, x)
      BY AppendToConcat
    <3> QED
      BY <1>4, <2>1, <3>1, Zenon
  <2> QED
    BY <1>4, <2>1, <2>2, <2>3, LenProperties DEF token_count
<1>6. layers' = Forwarded(row, position)
  BY DEF ExecuteRow, row
<1> HIDE DEF position
<1>7. ASSUME NEW l \in Layer
      PROVE  layers'[l] \in LayerCache /\ Closed(layers'[l], context \o Append(done, row))
  <2>1. layers[l] \in LayerCache /\ Closed(layers[l], context \o done)
    BY <1>1, <1>2 DEF Shapes, LayersHold, Holds, done
  <2>2. layers'[l] = Record(layers[l], position, row)
    BY <1>6 DEF Forwarded
  <2> QED
    BY <1>4, <1>5, <2>1, <2>2, RecordClosed
<1>8. layers' \in [Layer -> LayerCache]
  BY <1>6, <1>7 DEF Forwarded
<1>9. model' = model
  BY DEF ExecuteRow
<1>10. CASE Row < Len(running.ids)
  <2>1. /\ running' = [running EXCEPT !.done = Row]
        /\ failed' = failed /\ context' = context /\ gen' = gen
    BY <1>10 DEF ExecuteRow
  <2>2. /\ running'.ids = running.ids /\ running'.done = Row
        /\ running' \in [ids : Seq(Token), done : Nat] /\ Row \in Nat
    BY <1>1, <1>3, <2>1 DEF Shapes, Row
  <2>3. Held'
    BY <1>3, <2>2 DEF Held, NotRunning, Row
  <2>4. Shapes'
    BY <1>1, <1>8, <1>9, <2>1, <2>2 DEF Shapes
  <2>5. Control'
    BY <1>1, <1>2, <1>10, <2>1, <2>2, <2>3 DEF Control
  <2>6. Progress'
    BY <1>1, <2>1 DEF Progress, Checking, Verified
  <2>7. LayersHold'
    <3>1. ASSUME NEW l \in Layer
          PROVE  Holds(layers[l])'
      <4>1. Holds(layers[l])' = Closed(layers'[l], context \o SubSeq(running.ids, 1, Row))
        BY <2>1, <2>2, <2>3 DEF Holds, Closed
      <4> QED
        BY <1>4, <1>7, <4>1
    <3> QED
      BY <3>1 DEF LayersHold
  <2> QED
    BY <2>4, <2>5, <2>6, <2>7 DEF SessionInv
<1>11. CASE ~(Row < Len(running.ids))
  <2>1. /\ running' = NotRunning /\ context' = context \o running.ids /\ failed' = FALSE
        /\ gen' = IF gen.at = "prefill"
                  THEN [gen EXCEPT !.at = "sample", !.start = token_count + Len(running.ids)]
                  ELSE IF gen.at = "decode" THEN [gen EXCEPT !.at = "sample"] ELSE gen
    BY <1>11 DEF ExecuteRow
  <2>2. Row = Len(running.ids)
    BY <1>2, <1>3, <1>11 DEF Row
  <2>3. Append(done, row) = running.ids
    BY <1>3, <1>4, <2>2, SubSeqFull
  <2>4. ~Held' /\ running' \in [ids : Seq(Token), done : Nat]
    BY <2>1, EmptySeq DEF Held, NotRunning
  <2>5. /\ context' \in Seq(Token) /\ context' # <<>>
    BY <1>2, <1>3, <1>5, <2>1, ConcatProperties, EmptySeq
  <2>6. /\ gen' \in Generation
        /\ gen'.at = IF gen.at \in {"prefill", "decode"} THEN "sample" ELSE gen.at
        /\ gen'.speculative = gen.speculative
        /\ gen'.verifying = gen.verifying /\ gen'.stream = gen.stream
    <3>1. token_count + Len(running.ids) \in Nat
      BY <1>3, <1>5 DEF token_count
    <3>2. CASE gen.at = "prefill"
      <4>1. gen' = [gen EXCEPT !.at = "sample", !.start = token_count + Len(running.ids)]
        BY <2>1, <3>2
      <4> QED
        BY <1>1, <3>1, <3>2, <4>1 DEF Shapes, Generation, Places
    <3>3. CASE gen.at = "decode"
      <4>1. gen' = [gen EXCEPT !.at = "sample"]
        BY <2>1, <3>3
      <4> QED
        BY <1>1, <3>3, <4>1 DEF Shapes, Generation, Places
    <3>4. CASE gen.at \notin {"prefill", "decode"}
      BY <1>1, <2>1, <3>4 DEF Shapes
    <3> QED
      BY <3>2, <3>3, <3>4
  <2>7. gen'.at \in {"idle", "sample", "callback"} /\ (gen'.at = "callback" => ~gen'.speculative)
    BY <1>2, <2>6
  <2>8. Shapes'
    BY <1>1, <1>8, <1>9, <2>1, <2>4, <2>5, <2>6 DEF Shapes
  <2>9. Control'
    BY <1>1, <2>1, <2>4, <2>5, <2>6, <2>7 DEF Control
  <2>10. Progress' /\ ~InTransaction'
    BY <2>7, <2>9 DEF Progress, Checking, InTransaction, Control
  <2>11. LayersHold'
    BY <1>7, <2>1, <2>3, <2>4, <2>10 DEF LayersHold, Holds, Closed
  <2> QED
    BY <2>8, <2>9, <2>10, <2>11 DEF SessionInv
<1> QED
  BY <1>10, <1>11

LEMMA ExecutionFailsStep ==
  ASSUME SessionInv, ExecutionFails
  PROVE  SessionInv'
<1>1. Shapes /\ Control /\ Progress /\ LayersHold
  BY DEF SessionInv
<1>2. /\ Held /\ failed /\ running.done < Len(running.ids)
      /\ gen.at \in {"idle", "prefill", "decode", "callback"}
      /\ gen.at = "callback" => ~gen.speculative
  BY <1>1 DEF Control, ExecutionFails
<1>3. running.ids \in Seq(Token) /\ running.done \in Nat /\ context \in Seq(Token)
  BY <1>1 DEF Shapes
<1> DEFINE done == SubSeq(running.ids, 1, running.done)
           row == running.ids[Row]
           position == token_count + running.done
<1>4. /\ row \in Token /\ done \in Seq(Token) /\ Len(done) = running.done
      /\ context \o done \in Seq(Token) /\ Len(context \o done) = position
  <2>1. running.done \in 0..Len(running.ids)
    BY <1>2, <1>3, LenProperties
  <2>2. row \in Token
    BY <1>2, <1>3, LongerPrefix DEF Row
  <2>3. done \in Seq(Token) /\ Len(done) = running.done
    BY <1>3, <2>1, PrefixIsSeq
  <2> HIDE DEF done, row
  <2>4. context \o done \in Seq(Token) /\ Len(context \o done) = position
    BY <1>3, <2>3, ConcatProperties DEF token_count
  <2> QED
    BY <2>2, <2>3, <2>4
<1>5. Broken(row, position)
  BY DEF ExecutionFails
<1> HIDE DEF done, row, position
<1>6. PICK last \in 0..Layers :
        layers' = [l \in Layer |-> IF l <= last THEN Record(layers[l], position, row) ELSE layers[l]]
  BY <1>5 DEF Broken
<1>7. ASSUME NEW l \in Layer
      PROVE  layers'[l] \in LayerCache
  <2>1. layers[l] \in LayerCache /\ Closed(layers[l], context \o done)
    BY <1>1, <1>2 DEF Shapes, LayersHold, Holds, done
  <2>2. Record(layers[l], position, row) \in LayerCache
    BY <1>4, <2>1, RecordClosed
  <2> QED
    BY <1>6, <2>1, <2>2
<1>8. layers' \in [Layer -> LayerCache]
  BY <1>6, <1>7
<1>9. /\ running' = NotRunning /\ model' = model /\ failed' = failed /\ context' = context
      /\ gen' = IF gen.at \in {"prefill", "decode"} THEN Idle ELSE gen
  BY DEF ExecutionFails
<1>10. ~Held' /\ running' \in [ids : Seq(Token), done : Nat]
  BY <1>9, EmptySeq DEF Held, NotRunning
<1>11. gen' \in Generation
  BY <1>1, <1>9, EmptySeq DEF Shapes, Idle, Generation, Places
<1>12. gen'.at \in {"idle", "callback"} /\ (gen'.at = "callback" => gen' = gen)
  BY <1>2, <1>9 DEF Idle
<1>13. Shapes'
  BY <1>1, <1>8, <1>9, <1>10, <1>11 DEF Shapes
<1>14. Control'
  BY <1>1, <1>2, <1>9, <1>10, <1>12 DEF Control, Idle
<1>15. Progress'
  BY <1>1, <1>2, <1>12, <1>14 DEF Progress, Checking, Control
<1>16. LayersHold'
  BY <1>2, <1>9, <1>10 DEF LayersHold, Holds
<1> QED
  BY <1>13, <1>14, <1>15, <1>16 DEF SessionInv

-----------------------------------------------------------------------------
(* The generation outside its verification.                                *)

LEMMA DecodeAnchorStep ==
  ASSUME SessionInv, DecodeAnchor
  PROVE  SessionInv'
<1>1. Shapes /\ Control /\ Progress /\ LayersHold
  BY DEF SessionInv
<1>2. ~Held /\ gen.at = "loop" /\ UNCHANGED <<model, layers, context>>
  BY DEF DecodeAnchor, Locked
<1>3. ~InTransaction
  BY <1>2 DEF InTransaction, Checking
<1>4. gen.stream \in Seq(Token) /\ gen.stream # <<>> /\ (gen.speculative => context # <<>>)
  BY <1>1, <1>2 DEF Shapes, Generation, Control
<1>5. Anchor \in Token
  <2>1. Len(gen.stream) \in 1..Len(gen.stream)
    BY <1>4, EmptySeq
  <2> QED
    BY <1>4, <2>1, ElementOfSeq DEF Anchor
<1>6. CASE Accepts(1)
  <2>1. StartExecution(<<Anchor>>) /\ gen' = [gen EXCEPT !.at = "decode"] /\ failed = FALSE
    BY <1>1, <1>6 DEF DecodeAnchor, Accepts, Shapes
  <2>2. <<Anchor>> \in Seq(Token) /\ <<Anchor>> # <<>>
    BY <1>5
  <2>3. /\ gen' \in Generation /\ gen'.at = "decode" /\ gen'.speculative = gen.speculative
        /\ gen'.verifying = gen.verifying /\ gen'.stream = gen.stream
    BY <1>1, <2>1 DEF Shapes, Generation, Places
  <2>4. /\ LayersHold' /\ Held' /\ failed' = TRUE
        /\ running'.done < Len(running'.ids)
        /\ running' \in [ids : Seq(Token), done : Nat]
    BY <1>1, <1>2, <1>3, <2>1, <2>2, ExecutionStarts
  <2>5. Shapes'
    BY <1>1, <1>2, <2>3, <2>4 DEF Shapes
  <2>6. Control'
    BY <1>1, <1>2, <1>4, <2>3, <2>4 DEF Control
  <2>7. Progress'
    BY <2>3 DEF Progress, Checking
  <2> QED
    BY <2>4, <2>5, <2>6, <2>7 DEF SessionInv
<1>7. CASE ~Accepts(1)
  <2>1. gen' = Idle /\ running' = running /\ failed' = failed
    BY <1>7 DEF DecodeAnchor
  <2>2. Idle \in Generation /\ Idle.at = "idle" /\ ~Idle.verifying /\ ~Idle.speculative
    BY EmptySeq DEF Idle, Generation, Places
  <2>3. ~InTransaction' /\ Progress'
    BY <2>1, <2>2 DEF InTransaction, Checking, Progress
  <2>4. LayersHold'
    BY <1>1, <1>2, <1>3, <2>1, <2>3, SameLayers
  <2>5. Shapes'
    BY <1>1, <1>2, <2>1, <2>2 DEF Shapes
  <2>6. Control'
    BY <1>2, <2>1, <2>2 DEF Control, Held, NotRunning
  <2> QED
    BY <2>3, <2>4, <2>5, <2>6 DEF SessionInv
<1> QED
  BY <1>6, <1>7

\* A step of the generation alone, between two verifications.
LEMMA QuietStep ==
  ASSUME SessionInv, UNCHANGED <<model, layers, failed, context, running>>,
         ~Held, ~InTransaction, ~InTransaction',
         gen' \in Generation,
         gen'.at \notin {"prefill", "decode"},
         gen'.at \in {"draft", "verify"} => gen'.ids # <<>> /\ gen'.speculative,
         gen'.verifying => gen'.speculative,
         gen'.speculative /\ gen'.at # "idle" =>
           gen.speculative /\ gen.at # "idle" /\ context # <<>>,
         gen'.speculative /\ gen'.at = "callback" => gen'.expected # 0,
         gen'.at \notin {"idle", "sample"} => gen'.stream # <<>>
  PROVE  SessionInv'
<1>1. Shapes /\ Control /\ Progress /\ LayersHold
  BY DEF SessionInv
<1>2. Shapes'
  BY <1>1 DEF Shapes
<1>3. ~Held'
  BY DEF Held, NotRunning
<1>4. Control'
  BY <1>1, <1>3 DEF Control, InTransaction, Checking
<1>5. Progress'
  BY DEF Progress, InTransaction, Checking
<1>6. LayersHold'
  BY <1>1, SameLayers
<1> QED
  BY <1>2, <1>4, <1>5, <1>6 DEF SessionInv

LEMMA IdleIsQuiet ==
  /\ Idle \in Generation /\ Idle.at = "idle" /\ ~Idle.verifying /\ ~Idle.speculative
  /\ gen' = Idle => ~InTransaction'
BY EmptySeq DEF Idle, Generation, Places, InTransaction, Checking

LEMMA ReturnStep ==
  ASSUME SessionInv, Return
  PROVE  SessionInv'
<1>1. /\ ~Held /\ gen.at = "return" /\ gen' = Idle
      /\ UNCHANGED <<model, layers, failed, context, running>>
  BY DEF Return, Locked
<1>2. ~InTransaction
  BY <1>1 DEF InTransaction, Checking
<1> QED
  BY <1>1, <1>2, IdleIsQuiet, QuietStep

LEMMA BeginDraftStep ==
  ASSUME SessionInv, BeginDraft
  PROVE  SessionInv'
<1>1. Shapes /\ Control
  BY DEF SessionInv
<1>2. /\ ~Held /\ gen.at = "loop" /\ ~DecodesAlone
      /\ UNCHANGED <<model, layers, failed, context, running>>
  BY DEF BeginDraft, Locked
<1>3. ~InTransaction
  BY <1>2 DEF InTransaction, Checking
<1>4. gen.speculative /\ context # <<>> /\ gen.stream \in Seq(Token) /\ gen.stream # <<>>
  BY <1>1, <1>2 DEF DecodesAlone, Control, Shapes, Generation
<1>5. CASE CanBegin(draft) /\ InSync
  <2>1. Anchor \in Token
    <3>1. Len(gen.stream) \in 1..Len(gen.stream)
      BY <1>4, EmptySeq
    <3> QED
      BY <1>4, <3>1, ElementOfSeq DEF Anchor
  <2>2. gen' = [gen EXCEPT !.at = "draft", !.ids = <<Anchor>>]
    BY <1>5 DEF BeginDraft
  <2>3. <<Anchor>> \in Seq(Token) /\ <<Anchor>> # <<>>
    BY <2>1
  <2>4. /\ gen' \in Generation /\ gen'.at = "draft" /\ gen'.ids # <<>>
        /\ gen'.speculative = gen.speculative /\ gen'.stream = gen.stream
    BY <1>1, <2>2, <2>3 DEF Shapes, Generation, Places
  <2>5. ~InTransaction'
    BY <2>4 DEF InTransaction, Checking
  <2> QED
    BY <1>2, <1>3, <1>4, <2>4, <2>5, QuietStep
<1>6. CASE ~(CanBegin(draft) /\ InSync)
  <2>1. gen' = Idle
    BY <1>6 DEF BeginDraft
  <2> QED
    BY <1>2, <1>3, <2>1, IdleIsQuiet, QuietStep
<1> QED
  BY <1>5, <1>6

LEMMA DraftRowStep ==
  ASSUME SessionInv, DraftRow
  PROVE  SessionInv'
<1>1. Shapes /\ Control
  BY DEF SessionInv
<1>2. /\ ~Held /\ gen.at = "draft"
      /\ UNCHANGED <<model, layers, failed, context, running>>
  BY DEF DraftRow, Locked
<1>3. PICK id \in Token : gen' = [gen EXCEPT !.ids = Append(gen.ids, id)]
  BY DEF DraftRow
<1>4. gen.ids \in Seq(Token) /\ gen.speculative /\ context # <<>> /\ gen.stream # <<>>
  BY <1>1, <1>2 DEF Control, Shapes, Generation
<1>5. Append(gen.ids, id) \in Seq(Token) /\ Append(gen.ids, id) # <<>>
  BY <1>4, AppendProperties
<1>6. /\ gen' \in Generation /\ gen'.at = "draft" /\ gen'.ids # <<>>
      /\ gen'.speculative = gen.speculative /\ gen'.stream = gen.stream
  BY <1>1, <1>2, <1>3, <1>5 DEF Shapes, Generation
<1>7. ~InTransaction /\ ~InTransaction'
  BY <1>2, <1>6 DEF InTransaction, Checking
<1> QED
  BY <1>2, <1>4, <1>6, <1>7, QuietStep

LEMMA DraftFailsStep ==
  ASSUME SessionInv, DraftFails
  PROVE  SessionInv'
<1>1. /\ ~Held /\ gen.at = "draft" /\ gen' = Idle
      /\ UNCHANGED <<model, layers, failed, context, running>>
  BY DEF DraftFails, Locked
<1>2. ~InTransaction
  BY <1>1 DEF InTransaction, Checking
<1> QED
  BY <1>1, <1>2, IdleIsQuiet, QuietStep

LEMMA EndDraftStep ==
  ASSUME SessionInv, EndDraft
  PROVE  SessionInv'
<1> DEFINE counts == (IF model.drafts = "mtp" THEN 1 ELSE 0)..Min({BlockSize, Remaining - 1})
<1>1. Shapes /\ Control
  BY DEF SessionInv
<1>2. /\ ~Held /\ gen.at = "draft" /\ Len(gen.ids) = BlockSize + 1
      /\ UNCHANGED <<model, layers, failed, context, running>>
  BY DEF EndDraft, Locked
<1>3. PICK count \in counts :
        gen' = IF count = 0 THEN [gen EXCEPT !.at = "loop", !.active = FALSE, !.ids = <<>>]
               ELSE [gen EXCEPT !.at = "verify", !.ids = SubSeq(gen.ids, 1, count + 1)]
  BY DEF EndDraft
<1>4. /\ gen.ids \in Seq(Token) /\ gen.speculative /\ context # <<>> /\ gen.stream # <<>>
      /\ gen.stream \in Seq(Token) /\ gen.max \in Int
  BY <1>1, <1>2 DEF Control, Shapes, Generation
<1>5. count \in 0..BlockSize
  <2>1. BlockSize \in Int /\ Remaining - 1 \in Int
    BY <1>4, SessionAssumption, LenProperties DEF Remaining
  <2>2. \E x \in {BlockSize, Remaining - 1} : \A y \in {BlockSize, Remaining - 1} : x <= y
    BY <2>1
  <2>3. Min({BlockSize, Remaining - 1}) \in {BlockSize, Remaining - 1}
        /\ Min({BlockSize, Remaining - 1}) <= BlockSize
    BY <2>1, <2>2 DEF Min
  <2>4. Min({BlockSize, Remaining - 1}) \in Int
    BY <2>1, <2>3
  <2> QED
    BY <2>1, <2>3, <2>4
<1>6. CASE count = 0
  <2>1. gen' = [gen EXCEPT !.at = "loop", !.active = FALSE, !.ids = <<>>]
    BY <1>3, <1>6
  <2>2. /\ gen' \in Generation /\ gen'.at = "loop" /\ gen'.verifying = gen.verifying
        /\ gen'.speculative = gen.speculative /\ gen'.stream = gen.stream
    BY <1>1, <2>1, EmptySeq DEF Shapes, Generation, Places
  <2>3. ~InTransaction /\ ~InTransaction'
    BY <1>2, <2>2 DEF InTransaction, Checking
  <2> QED
    BY <1>2, <1>4, <2>2, <2>3, QuietStep
<1>7. CASE count # 0
  <2>1. gen' = [gen EXCEPT !.at = "verify", !.ids = SubSeq(gen.ids, 1, count + 1)]
    BY <1>3, <1>7
  <2>2. count + 1 \in 0..Len(gen.ids) /\ count + 1 > 0
    BY <1>2, <1>5, SessionAssumption
  <2>3. SubSeq(gen.ids, 1, count + 1) \in Seq(Token) /\ SubSeq(gen.ids, 1, count + 1) # <<>>
    BY <1>4, <2>2, PrefixIsSeq, EmptySeq, SMTT(30)
  <2>4. /\ gen' \in Generation /\ gen'.at = "verify" /\ gen'.verifying = gen.verifying
        /\ gen'.ids # <<>>
        /\ gen'.speculative = gen.speculative /\ gen'.stream = gen.stream
    BY <1>1, <2>1, <2>3 DEF Shapes, Generation, Places
  <2>5. ~InTransaction /\ ~InTransaction'
    BY <1>2, <2>4 DEF InTransaction, Checking
  <2> QED
    BY <1>2, <1>4, <2>4, <2>5, QuietStep
<1> QED
  BY <1>6, <1>7

-----------------------------------------------------------------------------
(* The verification.                                                       *)

LEMMA ExecutedIsSeq ==
  ASSUME Shapes, Progress
  PROVE  Executed \in Seq(Token) /\ gen.ids \in Seq(Token) /\ gen.outputs \in Seq(Token)
<1>1. gen.ids \in Seq(Token) /\ gen.outputs \in Seq(Token)
  BY DEF Shapes, Generation
<1>2. CASE gen.at = "forward"
  <2>1. Verified \in 0..Len(gen.ids)
    BY <1>1, <1>2, LenProperties DEF Progress, Verified
  <2>2. SubSeq(gen.ids, 1, Verified) \in Seq(Token)
    BY <1>1, <2>1, PrefixIsSeq
  <2> QED
    BY <1>1, <1>2, <2>2 DEF Executed
<1>3. CASE gen.at # "forward"
  BY <1>1, <1>3 DEF Executed
<1> QED
  BY <1>2, <1>3

LEMMA InvMatches ==
  ASSUME SessionInv
  PROVE  CachesMatchPosition
<1>1. Shapes /\ Progress /\ LayersHold
  BY DEF SessionInv
<1>2. ASSUME ~failed, ~Held, NEW l \in Layer
      PROVE  Restored(layers[l], 0) = context
  <2>1. Holds(layers[l])
    BY <1>1 DEF LayersHold
  <2>2. layers[l] \in LayerCache /\ context \in Seq(Token)
    BY <1>1 DEF Shapes
  <2>3. CASE Closed(layers[l], context)
    BY <2>3 DEF Closed, Restored
  <2>4. CASE Open(layers[l], context, Executed, Len(gen.ids))
    <3>1. Executed \in Seq(Token) /\ Len(gen.ids) \in Nat
      BY <1>1, ExecutedIsSeq, LenProperties
    <3> QED
      BY <2>2, <2>4, <3>1, TakenBack
  <2> QED
    BY <1>2, <2>1, <2>3, <2>4 DEF Holds
<1> QED
  BY <1>2 DEF CachesMatchPosition

\* An error closes the transaction and keeps none of its rows.
LEMMA ErrorStep ==
  ASSUME Shapes, ~Held, failed = FALSE,
         NEW caches \in [Layer -> LayerCache],
         \A l \in Layer : Restored(caches[l], 0) = context,
         Settled(caches, 0), gen' = Idle, UNCHANGED <<model, context, running>>
  PROVE  SessionInv'
<1>1. ~Held' /\ gen' \in Generation /\ gen'.at = "idle" /\ ~gen'.verifying /\ ~gen'.speculative
  BY IdleIsQuiet DEF Held, NotRunning
<1>2. Control' /\ Progress' /\ ~InTransaction'
  BY <1>1 DEF Control, Progress, Checking, InTransaction
<1>3. context \in Seq(Token)
  BY DEF Shapes
<1>4. ASSUME NEW l \in Layer
      PROVE  Finish(caches[l], 0) \in LayerCache /\ Closed(Finish(caches[l], 0), context)
  BY <1>3, FinishIsClosed
<1>5. CASE \A l \in Layer : CanFinish(caches[l], 0)
  <2>1. layers' = [l \in Layer |-> Finish(caches[l], 0)] /\ failed' = failed
    BY <1>5 DEF Settled
  <2>2. layers' \in [Layer -> LayerCache] /\ \A l \in Layer : Closed(layers'[l], context)
    BY <1>4, <2>1
  <2>3. Shapes'
    BY <1>1, <2>1, <2>2 DEF Shapes
  <2>4. LayersHold'
    BY <1>1, <1>2, <2>1, <2>2 DEF LayersHold, Holds, Closed
  <2> QED
    BY <1>2, <2>3, <2>4 DEF SessionInv
<1>6. CASE ~(\A l \in Layer : CanFinish(caches[l], 0))
  <2>1. layers' = caches /\ failed' = TRUE
    BY <1>6, Zenon DEF Settled
  <2>2. Shapes'
    BY <1>1, <2>1 DEF Shapes
  <2>3. LayersHold'
    BY <1>1, <2>1 DEF LayersHold, Holds
  <2> QED
    BY <1>2, <2>2, <2>3 DEF SessionInv
<1> QED
  BY <1>5, <1>6

\* A step of the comparison or of a callback: the transaction stays open.
LEMMA KeepsTransaction ==
  ASSUME Shapes, UNCHANGED <<model, layers, failed, context, running>>,
         ~Held, failed = FALSE,
         \A l \in Layer : Open(layers[l], context, gen.ids, Len(gen.ids)),
         gen' \in Generation, gen'.ids = gen.ids, gen'.speculative,
         context # <<>>, gen'.stream # <<>>,
         gen'.at \in {"compare", "emit", "callback", "settle"},
         gen'.at = "callback" => gen'.verifying /\ gen'.expected # 0,
         Progress'
  PROVE  SessionInv'
<1>1. ~Held'
  BY DEF Held, NotRunning
<1>2. InTransaction' /\ Executed' = gen.ids
  BY DEF InTransaction, Checking, Executed
<1>3. Control'
  BY <1>1 DEF Control
<1>4. Shapes'
  BY DEF Shapes
<1>5. ASSUME NEW l \in Layer
      PROVE  Holds(layers[l])'
  <2>1. Open(layers[l], context, gen.ids, Len(gen.ids))
    OBVIOUS
  <2>2. Holds(layers[l])' =
          (\/ Open(layers[l], context, gen.ids, Len(gen.ids))
           \/ gen'.at = "callback" /\ context = <<>> /\ Closed(layers[l], <<>>))
    BY <1>1, <1>2 DEF Holds, Open, Closed
  <2> QED
    BY <2>1, <2>2
<1>6. LayersHold'
  BY <1>5 DEF LayersHold
<1> QED
  BY <1>3, <1>4, <1>6 DEF SessionInv

\* Where the whole block is executed, unless a callback has called reset.
LEMMA BlockIsOpen ==
  ASSUME SessionInv, ~Held, gen.at = "compare" \/ Checking, context # <<>>
  PROVE  /\ failed = FALSE /\ gen.speculative
         /\ \A l \in Layer : Open(layers[l], context, gen.ids, Len(gen.ids))
<1>1. Shapes /\ Control /\ LayersHold
  BY DEF SessionInv
<1>2. gen.speculative /\ gen.at # "idle" /\ gen.at # "forward" /\ InTransaction
  BY <1>1 DEF Control, Checking, InTransaction
<1>3. failed = FALSE
  BY <1>1, <1>2 DEF Control, Shapes
<1>4. Executed = gen.ids
  BY <1>2 DEF Executed
<1> QED
  BY <1>1, <1>2, <1>3, <1>4 DEF LayersHold, Holds

LEMMA EmitStep ==
  ASSUME GreedyChoosesTokens, SessionInv, Emit
  PROVE  SessionInv'
<1>1. Shapes /\ Control /\ Progress /\ LayersHold
  BY DEF SessionInv
<1>2. /\ ~Held /\ gen.at \in {"sample", "emit"}
      /\ UNCHANGED <<model, layers, failed, context, running>>
  BY DEF Emit
<1>3. gen \in Generation /\ gen.stream \in Seq(Token) /\ context \in Seq(Token)
      /\ gen.emitted \in Nat /\ gen.outputs \in Seq(Token) /\ Len(gen.outputs) \in Nat
  BY <1>1, LenProperties DEF Shapes, Generation
<1>4. NextToken \in Token
  <2>1. CASE gen.at = "sample"
    <3>1. [l \in Layer |-> layers[l].rows] \in [Layer -> Seq(Token)]
      BY <1>1 DEF Shapes, LayerCache
    <3> QED
      BY <2>1, <3>1 DEF GreedyChoosesTokens, NextToken
  <2>2. CASE gen.at = "emit"
    <3>1. gen.emitted + 1 \in 1..Len(gen.outputs)
      BY <1>1, <1>3, <2>2 DEF Progress, Verified
    <3> QED
      BY <1>3, <2>2, <3>1, ElementOfSeq DEF NextToken
  <2> QED
    BY <1>2, <2>1, <2>2
<1>5. Append(gen.stream, NextToken) \in Seq(Token) /\ Append(gen.stream, NextToken) # <<>>
  BY <1>3, <1>4, AppendProperties
<1>6. token_count \in Nat
  BY <1>3, LenProperties DEF token_count
<1> DEFINE emitted == IF gen.at = "emit" THEN gen.emitted + 1 ELSE 0
           longer == Append(gen.stream, NextToken)
           checks == gen.at = "emit"
<1>7. gen' = [gen EXCEPT !.at = "callback", !.stream = longer, !.verifying = checks,
                         !.expected = token_count, !.emitted = emitted]
  BY DEF Emit
<1>8. emitted \in Nat /\ checks \in BOOLEAN /\ longer \in Seq(Token) /\ longer # <<>>
  BY <1>3, <1>5
<1> HIDE DEF emitted, longer, checks
<1>9. /\ gen' \in Generation /\ gen'.at = "callback" /\ gen'.verifying = checks
      /\ gen'.expected = token_count /\ gen'.emitted = emitted /\ gen'.stream = longer
      /\ gen'.ids = gen.ids /\ gen'.outputs = gen.outputs
      /\ gen'.speculative = gen.speculative
  BY <1>3, <1>6, <1>7, <1>8 DEF Generation, Places
<1>10. gen.speculative => context # <<>> /\ token_count # 0
  BY <1>1, <1>2, <1>3, EmptySeq DEF Control, token_count
<1>11. CASE gen.at = "sample"
  <2>1. ~checks
    BY <1>11 DEF checks
  <2>2. ~InTransaction /\ ~InTransaction'
    BY <1>9, <1>11, <2>1 DEF InTransaction, Checking
  <2> QED
    BY <1>2, <1>8, <1>9, <1>10, <1>11, <2>1, <2>2, QuietStep
<1>12. CASE gen.at = "emit"
  <2>1. checks /\ emitted = gen.emitted + 1
    BY <1>12 DEF checks, emitted
  <2>2. gen.speculative /\ Checking
    BY <1>1, <1>12 DEF Control, Checking
  <2>3. failed = FALSE /\ \A l \in Layer : Open(layers[l], context, gen.ids, Len(gen.ids))
    BY <1>2, <1>10, <2>2, BlockIsOpen
  <2>4. Progress'
    BY <1>1, <1>3, <1>9, <1>12, <2>1, <2>2 DEF Progress, Checking, Verified
  <2> QED
    BY <1>1, <1>2, <1>8, <1>9, <1>10, <2>1, <2>2, <2>3, <2>4, KeepsTransaction
<1> QED
  BY <1>2, <1>11, <1>12

LEMMA CallbackReturnsStep ==
  ASSUME SessionInv, CallbackReturns
  PROVE  SessionInv'
<1>1. Shapes /\ Control /\ Progress /\ LayersHold
  BY DEF SessionInv
<1>2. /\ ~Held /\ gen.at = "callback" /\ Unchanged
      /\ UNCHANGED <<model, layers, failed, context, running>>
  BY DEF CallbackReturns, Locked
<1>3. gen \in Generation /\ gen.stream # <<>> /\ context \in Seq(Token)
      /\ gen.emitted \in Nat /\ Verified \in Nat
  BY <1>1, <1>2, LenProperties DEF Shapes, Generation, Control, Verified
<1>4. gen.speculative => context # <<>>
  BY <1>1, <1>2, EmptySeq DEF Control, Unchanged, token_count
<1>5. PICK wanted \in BOOLEAN :
        gen' = [gen EXCEPT !.go_on = wanted /\ Remaining > 0,
                  !.at = IF gen.verifying
                         THEN IF (wanted /\ Remaining > 0) /\ gen.emitted < Len(gen.outputs)
                              THEN "emit" ELSE "settle"
                         ELSE IF wanted /\ Remaining > 0 THEN "loop" ELSE "return"]
  BY Zenon DEF CallbackReturns
<1> DEFINE more == wanted /\ Remaining > 0
           at == IF gen.verifying
                 THEN IF more /\ gen.emitted < Len(gen.outputs) THEN "emit" ELSE "settle"
                 ELSE IF more THEN "loop" ELSE "return"
<1>6. gen' = [gen EXCEPT !.go_on = more, !.at = at]
  BY <1>5
<1>7. /\ more \in BOOLEAN
      /\ gen.verifying => at \in {"emit", "settle"} /\ (at = "emit" => gen.emitted < Verified)
      /\ ~gen.verifying => at \in {"loop", "return"}
      /\ at \in Places
  BY DEF Verified, Places
<1> HIDE DEF more, at
<1>8. /\ gen' \in Generation /\ gen'.at = at /\ gen'.verifying = gen.verifying
      /\ gen'.emitted = gen.emitted /\ gen'.stream = gen.stream
      /\ gen'.ids = gen.ids /\ gen'.outputs = gen.outputs
      /\ gen'.speculative = gen.speculative
  BY <1>3, <1>6, <1>7 DEF Generation
<1>9. CASE ~gen.verifying
  <2>1. ~InTransaction /\ ~InTransaction'
    BY <1>2, <1>7, <1>8, <1>9 DEF InTransaction, Checking
  <2> QED
    BY <1>2, <1>3, <1>4, <1>7, <1>8, <1>9, <2>1, QuietStep
<1>10. CASE gen.verifying
  <2>1. gen.speculative /\ Checking
    BY <1>1, <1>2, <1>10 DEF Control, Checking
  <2>2. failed = FALSE /\ \A l \in Layer : Open(layers[l], context, gen.ids, Len(gen.ids))
    BY <1>2, <1>4, <2>1, BlockIsOpen
  <2>3. Progress'
    BY <1>1, <1>7, <1>8, <1>10, <2>1 DEF Progress, Checking, Verified
  <2>4. at \in {"compare", "emit", "callback", "settle"} /\ at # "callback"
    BY <1>7, <1>10
  <2> QED
    BY <1>1, <1>2, <1>3, <1>4, <1>8, <2>1, <2>2, <2>3, <2>4, KeepsTransaction
<1> QED
  BY <1>9, <1>10

LEMMA GiveUpStep ==
  ASSUME SessionInv, GiveUp
  PROVE  SessionInv'
<1>1. Shapes /\ Control /\ Progress /\ LayersHold
  BY DEF SessionInv
<1>2. /\ ~Held /\ gen.at = "callback" /\ gen' = Idle
      /\ UNCHANGED <<model, context, running>>
  BY DEF GiveUp, Locked
<1>3. CASE gen.speculative
  <2>1. failed = FALSE /\ Settled(layers, 0)
    BY <1>1, <1>2, <1>3 DEF GiveUp, Control, Shapes
  <2>2. \A l \in Layer : Restored(layers[l], 0) = context
    BY <1>2, <2>1, InvMatches DEF CachesMatchPosition
  <2>3. layers \in [Layer -> LayerCache]
    BY <1>1 DEF Shapes
  <2> QED
    BY <1>1, <1>2, <2>1, <2>2, <2>3, ErrorStep
<1>4. CASE ~gen.speculative
  <2>1. ~InTransaction /\ UNCHANGED <<layers, failed>>
    BY <1>1, <1>2, <1>4 DEF InTransaction, Checking, Control, GiveUp
  <2> QED
    BY <1>2, <2>1, IdleIsQuiet, QuietStep
<1> QED
  BY <1>3, <1>4

LEMMA BeginVerifyStep ==
  ASSUME SessionInv, BeginVerify
  PROVE  SessionInv'
<1>1. Shapes /\ Control /\ Progress /\ LayersHold
  BY DEF SessionInv
<1>2. /\ ~Held /\ gen.at = "verify"
      /\ UNCHANGED <<model, failed, context, running>>
  BY DEF BeginVerify, Locked
<1>3. ~InTransaction
  BY <1>2 DEF InTransaction, Checking
<1>4. /\ gen.speculative /\ failed = FALSE /\ context # <<>> /\ context \in Seq(Token)
      /\ gen.stream # <<>> /\ gen \in Generation
      /\ gen.ids \in Seq(Token) /\ gen.ids # <<>>
  BY <1>1, <1>2 DEF Control, Progress, Shapes, Generation
<1>5. Len(gen.ids) \in Nat \ {0}
  BY <1>4, EmptySeq
<1>6. CASE \A l \in Layer : CanBegin(layers[l])
  <2>1. /\ layers' = [l \in Layer |-> Begin(layers[l], Len(gen.ids))]
        /\ gen' = [gen EXCEPT !.at = "forward", !.outputs = <<>>, !.accepted = 0]
    BY <1>6 DEF BeginVerify
  <2>2. ASSUME NEW l \in Layer
        PROVE  layers'[l] \in LayerCache /\ Open(layers'[l], context, <<>>, Len(gen.ids))
    <3>1. Closed(layers[l], context) /\ layers[l] \in LayerCache
      BY <1>1, <1>2, <1>3, <1>4 DEF LayersHold, Holds, Shapes
    <3> QED
      BY <1>4, <1>5, <2>1, <3>1, BeginOpens
  <2>3. layers' \in [Layer -> LayerCache]
    BY <2>1, <2>2
  <2>4. /\ gen' \in Generation /\ gen'.at = "forward" /\ gen'.outputs = <<>>
        /\ gen'.ids = gen.ids /\ gen'.speculative = gen.speculative
        /\ gen'.stream = gen.stream /\ gen'.accepted = 0
    BY <1>4, <2>1, EmptySeq DEF Generation, Places
  <2>5. Verified' = 0 /\ ~Held'
    BY <1>2, <2>4, EmptySeq DEF Verified, Held, NotRunning
  <2>6. Shapes'
    BY <1>1, <1>2, <2>3, <2>4 DEF Shapes
  <2>7. Control'
    BY <1>2, <1>4, <2>4, <2>5 DEF Control
  <2>8. Progress'
    BY <1>5, <2>4, <2>5 DEF Progress, Checking
  <2>9. InTransaction' /\ Executed' = <<>>
    BY <2>4, <2>5, NoPrefix DEF InTransaction, Executed
  <2>10. ASSUME NEW l \in Layer
         PROVE  Holds(layers[l])'
    <3>1. Holds(layers[l])' =
            (\/ Open(layers'[l], context, <<>>, Len(gen.ids))
             \/ gen'.at = "callback" /\ context = <<>> /\ Closed(layers'[l], <<>>))
      BY <1>2, <1>4, <2>4, <2>5, <2>9 DEF Holds, Open, Closed
    <3> QED
      BY <2>2, <3>1
  <2> QED
    BY <2>6, <2>7, <2>8, <2>10 DEF SessionInv, LayersHold
<1>7. CASE ~(\A l \in Layer : CanBegin(layers[l]))
  <2>1. gen' = Idle /\ layers' = layers
    BY <1>7, Zenon DEF BeginVerify
  <2> QED
    BY <1>2, <1>3, <2>1, IdleIsQuiet, QuietStep
<1> QED
  BY <1>6, <1>7

\* One more row of the verification in one layer.
LEMMA RowExtends ==
  ASSUME Shapes, Progress, gen.at = "forward", NEW l \in Layer,
         Open(layers[l], context, Executed, Len(gen.ids))
  PROVE  LET c == Record(layers[l], token_count + Verified, gen.ids[Verified + 1])
         IN  c \in LayerCache /\ Open(c, context, SubSeq(gen.ids, 1, Verified + 1), Len(gen.ids))
<1>1. /\ layers[l] \in LayerCache /\ context \in Seq(Token) /\ gen.ids \in Seq(Token)
      /\ Verified \in Nat /\ Verified < Len(gen.ids) /\ Len(gen.ids) \in Nat
  BY LenProperties DEF Shapes, Generation, Progress, Verified
<1> DEFINE row == gen.ids[Verified + 1]
<1>2. row \in Token /\ SubSeq(gen.ids, 1, Verified + 1) = Append(Executed, row)
  BY <1>1, LongerPrefix DEF Executed
<1>3. Executed \in Seq(Token) /\ Len(Executed) = Verified
  <2>1. Verified \in 0..Len(gen.ids)
    BY <1>1
  <2> QED
    BY <1>1, <2>1, PrefixIsSeq DEF Executed
<1> HIDE DEF row
<1>4. /\ Record(layers[l], Len(context) + Len(Executed), row) \in LayerCache
      /\ Open(Record(layers[l], Len(context) + Len(Executed), row), context,
              Append(Executed, row), Len(gen.ids))
  BY <1>1, <1>2, <1>3, RecordExtends
<1> QED
  BY <1>2, <1>3, <1>4 DEF token_count, row

LEMMA ForwardIsOpen ==
  ASSUME SessionInv, Locked("forward")
  PROVE  /\ failed = FALSE /\ gen.speculative /\ context # <<>> /\ gen.stream # <<>>
         /\ \A l \in Layer : Open(layers[l], context, Executed, Len(gen.ids))
<1>1. Shapes /\ Control /\ LayersHold /\ ~Held /\ gen.at = "forward" /\ InTransaction
  BY DEF SessionInv, Locked, InTransaction
<1>2. failed = FALSE /\ gen.speculative /\ context # <<>> /\ gen.stream # <<>>
  BY <1>1 DEF Control, Shapes
<1> QED
  BY <1>1, <1>2 DEF LayersHold, Holds

LEMMA VerifyRowStep ==
  ASSUME GreedyChoosesTokens, SessionInv, VerifyRow
  PROVE  SessionInv'
<1>1. Shapes /\ Control /\ Progress /\ LayersHold
  BY DEF SessionInv
<1>2. /\ ~Held /\ gen.at = "forward"
      /\ UNCHANGED <<model, failed, context, running>>
  BY DEF VerifyRow, Locked
<1>3. /\ failed = FALSE /\ gen.speculative /\ context # <<>> /\ gen.stream # <<>>
      /\ \A l \in Layer : Open(layers[l], context, Executed, Len(gen.ids))
  BY ForwardIsOpen DEF VerifyRow
<1>4. /\ gen \in Generation /\ gen.ids \in Seq(Token) /\ gen.outputs \in Seq(Token)
      /\ Verified \in Nat /\ Verified < Len(gen.ids) /\ Len(gen.ids) \in Nat
  BY <1>1, <1>2, LenProperties DEF Shapes, Generation, Progress, Verified
<1> DEFINE longer == SubSeq(gen.ids, 1, Verified + 1)
           best == Greedy([l \in Layer |-> layers'[l].rows])
           at == IF Verified + 1 < Len(gen.ids) THEN "forward" ELSE "compare"
           more == Append(gen.outputs, best)
<1>5. layers' = [l \in Layer |-> Record(layers[l], token_count + Verified, gen.ids[Verified + 1])]
  BY DEF VerifyRow, Forwarded
<1>6. ASSUME NEW l \in Layer
      PROVE  layers'[l] \in LayerCache /\ Open(layers'[l], context, longer, Len(gen.ids))
  BY <1>1, <1>2, <1>3, <1>5, RowExtends
<1>7. layers' \in [Layer -> LayerCache]
  BY <1>5, <1>6
<1>8. best \in Token
  <2>1. [l \in Layer |-> layers'[l].rows] \in [Layer -> Seq(Token)]
    BY <1>6 DEF LayerCache
  <2> QED
    BY <2>1 DEF GreedyChoosesTokens
<1>9. gen' = [gen EXCEPT !.outputs = more, !.at = at]
  BY Zenon DEF VerifyRow
<1> HIDE DEF best
<1>10. more \in Seq(Token) /\ Len(more) = Verified + 1
  BY <1>4, <1>8, AppendProperties DEF Verified
<1>11. at \in {"forward", "compare"} /\ at \in Places
  BY DEF Places
<1> HIDE DEF at, more
<1>12. /\ gen' \in Generation /\ gen'.at = at /\ gen'.outputs = more
       /\ gen'.ids = gen.ids /\ gen'.speculative = gen.speculative
       /\ gen'.stream = gen.stream /\ gen'.accepted = gen.accepted
  BY <1>4, <1>9, <1>10, <1>11 DEF Generation
<1>13. ~Held' /\ Verified' = Verified + 1
  BY <1>2, <1>10, <1>12 DEF Held, NotRunning, Verified
<1>14. Shapes'
  BY <1>1, <1>2, <1>7, <1>12 DEF Shapes
<1>15. Control'
  BY <1>2, <1>3, <1>11, <1>12, <1>13 DEF Control
<1>16. CASE Verified + 1 < Len(gen.ids)
  <2>1. gen'.at = "forward"
    BY <1>12, <1>16 DEF at
  <2>2. Progress'
    BY <1>1, <1>2, <1>12, <1>13, <1>16, <2>1 DEF Progress, Checking
  <2>3. InTransaction' /\ Executed' = longer
    BY <1>12, <1>13, <2>1 DEF InTransaction, Executed
  <2>4. ASSUME NEW l \in Layer
        PROVE  Holds(layers[l])'
    <3>1. Holds(layers[l])' =
            (\/ Open(layers'[l], context, longer, Len(gen.ids))
             \/ gen'.at = "callback" /\ context = <<>> /\ Closed(layers'[l], <<>>))
      BY <1>2, <1>3, <1>12, <1>13, <2>3 DEF Holds, Open, Closed
    <3> QED
      BY <1>6, <3>1
  <2> QED
    BY <1>14, <1>15, <2>2, <2>4 DEF SessionInv, LayersHold
<1>17. CASE ~(Verified + 1 < Len(gen.ids))
  <2>1. gen'.at = "compare" /\ Verified + 1 = Len(gen.ids)
    BY <1>4, <1>12, <1>17 DEF at
  <2>2. Progress'
    BY <1>1, <1>2, <1>4, <1>12, <1>13, <2>1 DEF Progress, Checking
  <2>3. longer = gen.ids
    BY <1>4, <2>1, SubSeqFull
  <2>4. InTransaction' /\ Executed' = gen.ids
    BY <1>12, <2>1 DEF InTransaction, Executed
  <2> HIDE DEF longer
  <2>5. ASSUME NEW l \in Layer
        PROVE  Holds(layers[l])'
    <3>1. Holds(layers[l])' =
            (\/ Open(layers'[l], context, gen.ids, Len(gen.ids))
             \/ gen'.at = "callback" /\ context = <<>> /\ Closed(layers'[l], <<>>))
      BY <1>2, <1>3, <1>12, <1>13, <2>4 DEF Holds, Open, Closed
    <3> QED
      BY <1>6, <2>3, <3>1
  <2> QED
    BY <1>14, <1>15, <2>2, <2>5 DEF SessionInv, LayersHold
<1> QED
  BY <1>16, <1>17

LEMMA VerifyFailsStep ==
  ASSUME SessionInv, VerifyFails
  PROVE  SessionInv'
<1>1. Shapes /\ Control /\ Progress /\ LayersHold
  BY DEF SessionInv
<1>2. /\ ~Held /\ gen.at = "forward" /\ gen' = Idle
      /\ UNCHANGED <<model, context, running>>
  BY DEF VerifyFails, Locked
<1>3. /\ failed = FALSE
      /\ \A l \in Layer : Open(layers[l], context, Executed, Len(gen.ids))
  BY ForwardIsOpen DEF VerifyFails
<1>4. /\ gen.ids \in Seq(Token) /\ Executed \in Seq(Token) /\ context \in Seq(Token)
      /\ Verified \in Nat /\ Verified < Len(gen.ids) /\ Len(gen.ids) \in Nat
  BY <1>1, <1>2, ExecutedIsSeq, LenProperties DEF Shapes, Progress, Verified
<1>5. PICK last \in 0..Layers :
        Settled([l \in Layer |->
                   IF l <= last THEN Record(layers[l], token_count + Verified, gen.ids[Verified + 1])
                                ELSE layers[l]], 0)
  BY DEF VerifyFails
<1> DEFINE caches == [l \in Layer |->
                        IF l <= last
                        THEN Record(layers[l], token_count + Verified, gen.ids[Verified + 1])
                        ELSE layers[l]]
           longer == SubSeq(gen.ids, 1, Verified + 1)
<1>6. longer \in Seq(Token)
  <2>1. Verified + 1 \in 0..Len(gen.ids)
    BY <1>4
  <2> QED
    BY <1>4, <2>1, PrefixIsSeq
<1>7. ASSUME NEW l \in Layer
      PROVE  caches[l] \in LayerCache /\ Restored(caches[l], 0) = context
  <2>1. CASE l <= last
    <3>1. caches[l] \in LayerCache /\ Open(caches[l], context, longer, Len(gen.ids))
      BY <1>1, <1>2, <1>3, <2>1, RowExtends
    <3> HIDE DEF caches, longer
    <3> QED
      BY <1>4, <1>6, <3>1, TakenBack
  <2>2. CASE ~(l <= last)
    <3>1. caches[l] = layers[l] /\ layers[l] \in LayerCache
          /\ Open(layers[l], context, Executed, Len(gen.ids))
      BY <1>1, <1>3, <2>2 DEF Shapes
    <3> HIDE DEF caches
    <3> QED
      BY <1>4, <3>1, TakenBack
  <2> QED
    BY <2>1, <2>2
<1>8. caches \in [Layer -> LayerCache]
  BY <1>7
<1>9. Settled(caches, 0)
  BY <1>5
<1> HIDE DEF caches
<1> QED
  BY <1>1, <1>2, <1>3, <1>7, <1>8, <1>9, ErrorStep

LEMMA SampleFailsStep ==
  ASSUME SessionInv, SampleFails
  PROVE  SessionInv'
<1>1. Shapes /\ Control /\ Progress /\ LayersHold
  BY DEF SessionInv
<1>2. gen' = Idle /\ UNCHANGED <<model, context, running>>
  BY DEF SampleFails
<1>3. CASE Locked("sample") /\ UNCHANGED <<layers, failed>>
  <2>1. ~Held /\ ~InTransaction
    BY <1>3 DEF Locked, InTransaction, Checking
  <2> QED
    BY <1>2, <1>3, <2>1, IdleIsQuiet, QuietStep
<1>4. CASE Locked("compare") /\ Settled(layers, 0)
  <2>1. ~Held /\ failed = FALSE
    BY <1>1, <1>4 DEF Locked, Control, Shapes
  <2>2. \A l \in Layer : Restored(layers[l], 0) = context
    BY <2>1, InvMatches DEF CachesMatchPosition
  <2>3. layers \in [Layer -> LayerCache]
    BY <1>1 DEF Shapes
  <2> QED
    BY <1>1, <1>2, <1>4, <2>1, <2>2, <2>3, ErrorStep
<1> QED
  BY <1>3, <1>4 DEF SampleFails

LEMMA AcceptDraftStep ==
  ASSUME SessionInv, AcceptDraft
  PROVE  SessionInv'
<1>1. Shapes /\ Control /\ Progress
  BY DEF SessionInv
<1>2. /\ ~Held /\ gen.at = "compare" /\ gen' = [gen EXCEPT !.accepted = gen.accepted + 1]
      /\ gen.accepted < Len(gen.ids) - 1
      /\ UNCHANGED <<model, layers, failed, context, running>>
  BY DEF AcceptDraft, Locked, Compared
<1>3. /\ gen \in Generation /\ gen.accepted \in Nat /\ Len(gen.ids) \in Nat
      /\ context # <<>> /\ gen.stream # <<>>
  BY <1>1, <1>2, LenProperties DEF Shapes, Generation, Control
<1>4. /\ gen' \in Generation /\ gen'.at = "compare" /\ gen'.ids = gen.ids
      /\ gen'.outputs = gen.outputs /\ gen'.accepted = gen.accepted + 1
      /\ gen'.speculative = gen.speculative /\ gen'.stream = gen.stream
  <2>1. gen.accepted + 1 \in Nat
    BY <1>3
  <2> QED
    BY <1>2, <1>3, <2>1 DEF Generation
<1>5. /\ failed = FALSE /\ gen.speculative
      /\ \A l \in Layer : Open(layers[l], context, gen.ids, Len(gen.ids))
  BY <1>2, <1>3, BlockIsOpen
<1>6. Progress'
  BY <1>1, <1>2, <1>3, <1>4 DEF Progress, Checking, Verified
<1> QED
  BY <1>1, <1>2, <1>3, <1>4, <1>5, <1>6, KeepsTransaction

LEMMA AcceptStep ==
  ASSUME SessionInv, Accept
  PROVE  SessionInv'
<1> DEFINE chosen == SubSeq(gen.ids, 2, gen.accepted + 1)
           outputs == Append(chosen, gen.outputs[gen.accepted + 1])
<1>1. Shapes /\ Control /\ Progress
  BY DEF SessionInv
<1>2. /\ ~Held /\ gen.at = "compare"
      /\ gen' = [gen EXCEPT !.at = "emit", !.emitted = 0, !.outputs = outputs]
      /\ UNCHANGED <<model, layers, failed, context, running>>
  BY DEF Accept, Locked
<1>3. /\ gen \in Generation /\ gen.accepted \in Nat /\ Len(gen.ids) \in Nat
      /\ gen.ids \in Seq(Token) /\ gen.outputs \in Seq(Token)
      /\ gen.accepted < Len(gen.ids) /\ Len(gen.outputs) = Len(gen.ids)
      /\ context # <<>> /\ gen.stream # <<>>
  BY <1>1, <1>2, LenProperties DEF Shapes, Generation, Control, Progress, Verified
<1>4. chosen \in Seq(Token) /\ Len(chosen) = gen.accepted
  <2>1. 2 \in Int /\ gen.accepted + 1 \in Int
    BY <1>3
  <2>2. ASSUME NEW i \in 2..gen.accepted + 1
        PROVE  gen.ids[i] \in Token
    <3>1. i \in 1..Len(gen.ids)
      BY <1>3
    <3> QED
      BY <1>3, <3>1, ElementOfSeq
  <2>3. chosen \in Seq(Token)
        /\ Len(chosen) = IF 2 <= gen.accepted + 1 THEN (gen.accepted + 1) - 2 + 1 ELSE 0
    BY <2>1, <2>2, SubSeqProperties
  <2> HIDE DEF chosen
  <2> QED
    BY <1>3, <2>3
<1>5. outputs \in Seq(Token) /\ Len(outputs) = gen.accepted + 1
  <2>1. gen.accepted + 1 \in 1..Len(gen.outputs)
    BY <1>3
  <2>2. gen.outputs[gen.accepted + 1] \in Token
    BY <1>3, <2>1, ElementOfSeq
  <2> HIDE DEF chosen
  <2> QED
    BY <1>4, <2>2, AppendProperties
<1> HIDE DEF chosen, outputs
<1>6. /\ gen' \in Generation /\ gen'.at = "emit" /\ gen'.ids = gen.ids
      /\ gen'.outputs = outputs /\ gen'.emitted = 0
      /\ gen'.speculative = gen.speculative /\ gen'.stream = gen.stream
  BY <1>2, <1>3, <1>5 DEF Generation, Places
<1>7. /\ failed = FALSE /\ gen.speculative
      /\ \A l \in Layer : Open(layers[l], context, gen.ids, Len(gen.ids))
  BY <1>2, <1>3, BlockIsOpen
<1>8. Progress'
  BY <1>3, <1>5, <1>6 DEF Progress, Checking, Verified
<1> QED
  BY <1>1, <1>2, <1>3, <1>6, <1>7, <1>8, KeepsTransaction

\* A transaction ends and the generation goes on without one.
LEMMA TransactionEnds ==
  ASSUME SessionInv, ~Held, failed' = FALSE,
         NEW k \in 0..Len(gen.ids), \A l \in Layer : Open(layers[l], context, gen.ids, Len(gen.ids)),
         layers' = [l \in Layer |-> Finish(layers[l], k)],
         context' = context \o SubSeq(gen.ids, 1, k), context # <<>>,
         UNCHANGED <<model, running>>,
         gen' \in Generation, gen'.at \in {"loop", "return"}, gen'.speculative,
         gen'.stream # <<>>
  PROVE  SessionInv'
<1>1. Shapes
  BY DEF SessionInv
<1>2. gen.ids \in Seq(Token) /\ context \in Seq(Token) /\ Len(gen.ids) \in Nat
  BY <1>1, LenProperties DEF Shapes, Generation
<1>3. ASSUME NEW l \in Layer
      PROVE  layers'[l] \in LayerCache /\ Closed(layers'[l], context')
  <2>1. layers[l] \in LayerCache /\ Open(layers[l], context, gen.ids, Len(gen.ids)) /\ k \in Nat
    BY <1>1, <1>2 DEF Shapes
  <2>2. Restored(layers[l], k) = context' /\ Restored(layers[l], k) \in Seq(Token)
    BY <1>2, <2>1, FinishRestores
  <2> QED
    BY <2>1, <2>2, FinishIsClosed
<1>4. layers' \in [Layer -> LayerCache]
  BY <1>3
<1>5. context' \in Seq(Token) /\ context' # <<>>
  <2>1. SubSeq(gen.ids, 1, k) \in Seq(Token)
    BY <1>2, PrefixIsSeq
  <2>2. /\ context' \in Seq(Token) /\ Len(context') = Len(context) + Len(SubSeq(gen.ids, 1, k))
        /\ Len(SubSeq(gen.ids, 1, k)) \in Nat
    BY <1>2, <2>1, ConcatProperties, LenProperties
  <2>3. Len(context) \in Nat \ {0} /\ Len(<<>>) = 0
    BY <1>2, EmptySeq
  <2> QED
    BY <2>2, <2>3
<1>6. ~Held'
  BY DEF Held, NotRunning
<1>7. Shapes'
  BY <1>1, <1>4, <1>5 DEF Shapes
<1>8. Control' /\ Progress' /\ ~InTransaction'
  BY <1>5, <1>6 DEF Control, Progress, Checking, InTransaction
<1>9. LayersHold'
  BY <1>3, <1>6, <1>8 DEF LayersHold, Holds, Closed
<1> QED
  BY <1>7, <1>8, <1>9 DEF SessionInv

LEMMA RejectAllStep ==
  ASSUME SessionInv, RejectAll
  PROVE  SessionInv'
<1>1. Shapes /\ Control
  BY DEF SessionInv
<1>2. /\ ~Held /\ gen.at = "compare" /\ failed' = FALSE
      /\ layers' = [l \in Layer |-> Finish(layers[l], 0)]
      /\ gen' = [gen EXCEPT !.at = "loop", !.active = FALSE, !.ids = <<>>, !.outputs = <<>>]
      /\ UNCHANGED <<model, context, running>>
  BY DEF RejectAll, Locked, StillDrafting
<1>3. /\ gen \in Generation /\ gen.ids \in Seq(Token) /\ context \in Seq(Token)
      /\ context # <<>> /\ gen.stream # <<>>
  BY <1>1, <1>2 DEF Shapes, Generation, Control
<1>4. /\ gen.speculative
      /\ \A l \in Layer : Open(layers[l], context, gen.ids, Len(gen.ids))
  BY <1>2, <1>3, BlockIsOpen
<1>5. 0 \in 0..Len(gen.ids) /\ context' = context \o SubSeq(gen.ids, 1, 0)
  BY <1>2, <1>3, NoPrefix, ConcatEmptySeq, LenProperties
<1>6. /\ gen' \in Generation /\ gen'.at = "loop"
      /\ gen'.speculative = gen.speculative /\ gen'.stream = gen.stream
  BY <1>2, <1>3, EmptySeq DEF Generation, Places
<1> QED
  BY <1>2, <1>3, <1>4, <1>5, <1>6, TransactionEnds

LEMMA SettleIsOpen ==
  ASSUME SessionInv, Locked("settle")
  PROVE  /\ ~Held /\ gen.at = "settle" /\ failed = FALSE /\ gen.speculative
         /\ context # <<>> /\ gen.stream # <<>>
         /\ gen.emitted \in 0..Len(gen.ids)
         /\ \A l \in Layer : Open(layers[l], context, gen.ids, Len(gen.ids))
<1>1. Shapes /\ Control /\ Progress /\ ~Held /\ gen.at = "settle" /\ Checking
  BY DEF SessionInv, Locked, Checking
<1>2. gen.speculative /\ context # <<>> /\ gen.stream # <<>>
  BY <1>1 DEF Control
<1>3. gen.emitted \in 0..Len(gen.ids)
  <2>1. gen.emitted \in Nat /\ Verified \in Nat /\ Len(gen.ids) \in Nat
    BY <1>1, LenProperties DEF Shapes, Generation, Verified
  <2> QED
    BY <1>1, <2>1 DEF Progress
<1> QED
  BY <1>1, <1>2, <1>3, BlockIsOpen

LEMMA SettleStep ==
  ASSUME SessionInv, Settle
  PROVE  SessionInv'
<1> DEFINE at == IF gen.go_on THEN "loop" ELSE "return"
<1>1. Shapes
  BY DEF SessionInv
<1>2. /\ failed' = FALSE
      /\ layers' = [l \in Layer |-> Finish(layers[l], gen.emitted)]
      /\ context' = context \o SubSeq(gen.ids, 1, gen.emitted)
      /\ gen' = [gen EXCEPT !.at = at, !.ids = <<>>, !.outputs = <<>>, !.emitted = 0,
                            !.verifying = FALSE]
      /\ UNCHANGED <<model, running>>
  BY DEF Settle, Committed
<1>3. /\ ~Held /\ gen.speculative /\ context # <<>> /\ gen.stream # <<>>
      /\ gen.emitted \in 0..Len(gen.ids)
      /\ \A l \in Layer : Open(layers[l], context, gen.ids, Len(gen.ids))
  BY SettleIsOpen DEF Settle
<1>4. at \in {"loop", "return"} /\ at \in Places
  BY DEF Places
<1> HIDE DEF at
<1>5. /\ gen' \in Generation /\ gen'.at = at
      /\ gen'.speculative = gen.speculative /\ gen'.stream = gen.stream
  BY <1>1, <1>2, <1>4, EmptySeq DEF Shapes, Generation
<1> QED
  BY <1>2, <1>3, <1>4, <1>5, TransactionEnds

LEMMA SettleFailsStep ==
  ASSUME SessionInv, SettleFails
  PROVE  SessionInv'
<1>1. Shapes
  BY DEF SessionInv
<1>2. /\ failed' = TRUE /\ gen' = Idle /\ UNCHANGED <<model, context, running>>
      /\ layers' = IF \A l \in Layer : CanFinish(layers[l], gen.emitted)
                   THEN [l \in Layer |-> Finish(layers[l], gen.emitted)] ELSE layers
  BY DEF SettleFails
<1>3. /\ ~Held /\ gen.emitted \in 0..Len(gen.ids)
      /\ \A l \in Layer : Open(layers[l], context, gen.ids, Len(gen.ids))
  BY SettleIsOpen DEF SettleFails
<1>4. gen.ids \in Seq(Token) /\ context \in Seq(Token) /\ Len(gen.ids) \in Nat
  BY <1>1, LenProperties DEF Shapes, Generation
<1>5. ASSUME NEW l \in Layer
      PROVE  layers[l] \in LayerCache /\ Finish(layers[l], gen.emitted) \in LayerCache
  <2>1. layers[l] \in LayerCache /\ gen.emitted \in Nat
    BY <1>1, <1>3, <1>4 DEF Shapes
  <2>2. Restored(layers[l], gen.emitted) \in Seq(Token)
    BY <1>3, <1>4, <2>1, FinishRestores
  <2> QED
    BY <2>1, <2>2, FinishIsClosed
<1>6. [l \in Layer |-> Finish(layers[l], gen.emitted)] \in [Layer -> LayerCache]
  BY <1>5
<1>7. layers' \in [Layer -> LayerCache]
  BY <1>1, <1>2, <1>6 DEF Shapes
<1>8. /\ ~Held' /\ gen' \in Generation /\ gen'.at = "idle"
      /\ ~gen'.verifying /\ ~gen'.speculative
  BY <1>2, <1>3, IdleIsQuiet DEF Held, NotRunning
<1>9. Shapes'
  BY <1>1, <1>2, <1>7, <1>8 DEF Shapes
<1>10. Control' /\ Progress'
  BY <1>8 DEF Control, Progress, Checking
<1>11. LayersHold'
  BY <1>2, <1>8 DEF LayersHold, Holds
<1> QED
  BY <1>9, <1>10, <1>11 DEF SessionInv

-----------------------------------------------------------------------------
(* The theorems.                                                           *)

LEMMA NextHolds ==
  ASSUME ~Careless, GreedyChoosesTokens, SessionInv, [Next]_vars
  PROVE  SessionInv'
<1>1. CASE Calls
  BY <1>1, PrefillStep, DecodeStep, ResetStep, GenerateStep DEF Calls
<1>2. CASE Callback
  BY <1>2, CallbackReturnsStep, GiveUpStep DEF Callback, CallbackModified, CallbackThrows
<1>3. CASE Steps
  BY <1>3, ExecuteRowStep, ExecutionFailsStep, EmitStep, ReturnStep, DecodeAnchorStep,
     BeginDraftStep, DraftRowStep, DraftFailsStep, EndDraftStep, BeginVerifyStep, VerifyRowStep,
     VerifyFailsStep, SampleFailsStep, AcceptDraftStep, AcceptStep, RejectAllStep, SettleStep,
     SettleFailsStep
     DEF Steps
<1>4. CASE UNCHANGED vars
  <2>1. UNCHANGED <<model, layers, failed, context, running, gen>>
    BY <1>4 DEF vars
  <2>2. Shapes' /\ Control' /\ Progress'
    BY <2>1 DEF SessionInv, Shapes, Control, Progress, Checking, Verified, Held, NotRunning
  <2>3. ASSUME NEW l \in Layer
        PROVE  Holds(layers[l])'
    <3>1. Holds(layers[l])
      BY DEF SessionInv, LayersHold
    <3>2. Holds(layers[l])' = Holds(layers[l])
      BY <2>1 DEF Holds, Held, NotRunning, InTransaction, Checking, Verified, Executed, Open, Closed
    <3> QED
      BY <3>1, <3>2
  <2> QED
    BY <2>2, <2>3 DEF SessionInv, LayersHold
<1> QED
  BY <1>1, <1>2, <1>3, <1>4 DEF Next

\* The inductive invariant, for every number of layers, every kind of layer
\* and every draft model, as long as nobody executes during a callback of a
\* speculative generation. The code permits that, and then it is false: a
\* decode in the middle of a verification takes rows of its transaction.
THEOREM SessionIsConsistent ==
  ASSUME ~Careless, GreedyChoosesTokens
  PROVE  Spec => []SessionInv
<1>1. Init => SessionInv
  BY InitHolds
<1>2. SessionInv /\ [Next]_vars => SessionInv'
  BY NextHolds
<1> QED
  BY <1>1, <1>2, PTL DEF Spec

\* As long as nobody executes during a callback of a speculative generation:
\* outside a forward and a recorded failure each layer remembers exactly the
\* committed tokens, and an open transaction can be taken back to them
\* (session.cpp finish_cache, statecache.cpp, latentattention.cpp).
THEOREM CachesAlwaysMatch ==
  ASSUME ~Careless, GreedyChoosesTokens
  PROVE  Spec => []CachesMatchPosition
<1>1. SessionInv => CachesMatchPosition
  BY InvMatches
<1> QED
  BY <1>1, SessionIsConsistent, PTL

\* Only reset ends a failure (validate_execution_state).
LEMMA FailureStays ==
  ASSUME ~Careless, SessionInv, [Next]_vars, failed, ~Held
  PROVE  (failed' /\ ~Held') \/ (Unlocked /\ context' = <<>>)
<1>1. /\ Shapes /\ Control
      /\ gen.speculative => gen.at = "idle"
      /\ gen.at \notin {"prefill", "decode", "draft", "verify", "forward", "compare", "emit", "settle"}
  BY DEF SessionInv, Control
<1>2. UNCHANGED <<failed, running>> => failed' /\ ~Held'
  BY DEF Held, NotRunning
<1>3. CASE Calls
  BY <1>3 DEF Calls, Prefill, Decode, Reset, Generate, Accepts
<1>4. CASE Callback
  BY <1>1, <1>2, <1>4 DEF Callback, CallbackReturns, CallbackModified, CallbackThrows, GiveUp, Locked
<1>5. CASE Steps
  <2>1. ~ExecuteRow /\ ~ExecutionFails
    BY DEF ExecuteRow, ExecutionFails
  <2>2. ~BeginDraft /\ ~DraftRow /\ ~DraftFails /\ ~EndDraft /\ ~BeginVerify /\ ~VerifyRow
        /\ ~VerifyFails /\ ~AcceptDraft /\ ~Accept /\ ~RejectAll /\ ~Settle /\ ~SettleFails
    BY <1>1 DEF BeginDraft, DraftRow, DraftFails, EndDraft, BeginVerify, VerifyRow, VerifyFails,
                AcceptDraft, Accept, RejectAll, Settle, SettleFails, Locked, DecodesAlone
  <2>3. Emit \/ Return \/ DecodeAnchor \/ SampleFails
    BY <1>5, <2>1, <2>2 DEF Steps
  <2> QED
    BY <1>1, <1>2, <2>3 DEF Emit, Return, DecodeAnchor, SampleFails, Accepts, Locked
<1>6. CASE UNCHANGED vars
  BY <1>2, <1>6 DEF vars
<1> QED
  BY <1>3, <1>4, <1>5, <1>6 DEF Next

\* As long as nobody executes during a callback of a speculative generation,
\* nothing but reset makes a failed Session usable. Without that hypothesis it
\* is false (session.cpp:195); ForgottenBySpeculation says what is left.
THEOREM FailureLastsUntilReset ==
  ASSUME ~Careless, GreedyChoosesTokens
  PROVE  Spec => FailedUntilReset
<1>1. SessionInv /\ [Next]_vars
        => [failed /\ ~Held => (failed' /\ ~Held') \/ (Unlocked /\ context' = <<>>)]_vars
  BY FailureStays
<1> QED
  BY <1>1, SessionIsConsistent, PTL DEF Spec, FailedUntilReset

-----------------------------------------------------------------------------
(* What is left of that when callbacks may execute at any time.            *)

Fields == {"at", "speculative", "max", "start", "stream", "active", "verifying", "ids", "outputs",
           "accepted", "emitted", "expected", "go_on", "touched"}
Speculating == {"draft", "verify", "forward", "compare", "emit", "settle"}

\* Who holds the mutex, and that a generation goes on over a failed Session
\* only if a callback of it called.
FailureInv ==
  /\ DOMAIN gen = Fields /\ DOMAIN running = {"ids", "done"}
  /\ Held => running.ids # <<>> /\ failed /\ gen.at \in {"idle", "prefill", "decode", "callback"}
  /\ Held /\ gen.at = "callback" => gen.touched = TRUE
  /\ gen.at \in {"prefill", "decode"} => Held
  /\ failed /\ ~Held => gen.at = "idle" \/ gen.touched = TRUE
  /\ gen.at \in Speculating => gen.speculative = TRUE
  /\ gen.at = "callback" /\ gen.verifying => gen.speculative = TRUE

LEMMA IdleShape == DOMAIN Idle = Fields /\ Idle.at = "idle" /\ DOMAIN NotRunning = {"ids", "done"}
BY DEF Idle, Fields, NotRunning

LEMMA FailureInvInit ==
  ASSUME Init
  PROVE  FailureInv
BY IdleShape DEF Init, FailureInv, Held, Speculating

\* An execution begins, with tokens.
LEMMA StartHolds ==
  ASSUME NEW tokens, tokens # <<>>, StartExecution(tokens)
  PROVE  /\ DOMAIN running' = {"ids", "done"} /\ running'.ids # <<>> /\ Held' /\ failed'
BY DEF StartExecution, Held, NotRunning

LEMMA FailureInvCalls ==
  ASSUME FailureInv, Calls
  PROVE  FailureInv'
<1>1. ASSUME Prefill \/ Decode
      PROVE  FailureInv'
  <2>1. Unlocked /\ Touch /\ \E tokens : tokens # <<>> /\ StartExecution(tokens)
    BY <1>1, SessionAssumption DEF Prefill, Decode
  <2> QED
    BY <2>1, StartHolds DEF Unlocked, Touch, FailureInv, Fields, Speculating
<1>2. CASE Reset
  BY <1>2 DEF Reset, Unlocked, Touch, FailureInv, Held, Fields, Speculating
<1>3. CASE Generate
  <2>1. PICK ids \in Prompts \cup {<<>>}, speculative \in BOOLEAN, max \in 1..MaximumNew :
          LET use == speculative /\ model.drafts # "none"
          IN  IF ids # <<>> /\ Accepts(Len(ids))
              THEN /\ StartExecution(ids)
                   /\ gen' = [Idle EXCEPT !.at = "prefill", !.speculative = use,
                                          !.max = max, !.active = TRUE]
              ELSE UNCHANGED <<running, failed, gen>>
    BY <1>3 DEF Generate
  <2>2. CASE UNCHANGED <<running, failed, gen>>
    BY <2>2 DEF FailureInv, Held
  <2>3. CASE StartExecution(ids) /\ ids # <<>> /\ DOMAIN gen' = Fields /\ gen'.at = "prefill"
    BY <2>3, StartHolds DEF FailureInv, Speculating
  <2> QED
    BY <2>1, <2>2, <2>3, IdleShape DEF Fields
<1> QED
  BY <1>1, <1>2, <1>3 DEF Calls

LEMMA FailureInvSteps ==
  ASSUME FailureInv, [Callback \/ Steps]_vars
  PROVE  FailureInv'
<1> USE DEF Fields, Speculating
<1>1. CASE ExecuteRow
  <2>1. Held
    BY <1>1 DEF ExecuteRow
  <2>2. CASE Row < Len(running.ids)
    <3>1. running' = [running EXCEPT !.done = Row] /\ UNCHANGED <<failed, gen>>
      BY <1>1, <2>2 DEF ExecuteRow
    <3>2. DOMAIN running' = {"ids", "done"} /\ running'.ids = running.ids
      BY <3>1 DEF FailureInv
    <3>3. Held'
      BY <2>1, <3>2 DEF FailureInv, Held, NotRunning
    <3> QED
      BY <2>1, <3>1, <3>2, <3>3 DEF FailureInv
  <2>3. CASE ~(Row < Len(running.ids))
    <3>1. /\ running' = NotRunning /\ failed' = FALSE
          /\ gen' = IF gen.at = "prefill"
                    THEN [gen EXCEPT !.at = "sample", !.start = token_count + Len(running.ids)]
                    ELSE IF gen.at = "decode" THEN [gen EXCEPT !.at = "sample"] ELSE gen
      BY <1>1, <2>3 DEF ExecuteRow
    <3>2. ~Held' /\ DOMAIN running' = {"ids", "done"}
      BY <3>1, IdleShape DEF Held
    <3>3. /\ DOMAIN gen' = Fields
          /\ gen'.at = "sample" \/ (gen' = gen /\ gen.at \notin {"prefill", "decode"})
      BY <3>1 DEF FailureInv
    <3> QED
      BY <2>1, <3>1, <3>2, <3>3 DEF FailureInv
  <2> QED
    BY <2>2, <2>3
<1>2. ASSUME gen' = Idle, ~Held', DOMAIN running' = {"ids", "done"}
      PROVE  FailureInv'
  BY <1>2, IdleShape DEF FailureInv
<1>3. ASSUME gen' = Idle, UNCHANGED running, ~Held
      PROVE  FailureInv'
  BY <1>2, <1>3 DEF FailureInv, Held
<1>4. CASE ExecutionFails
  <2>1. /\ Held /\ running' = NotRunning /\ failed' = failed
        /\ gen' = IF gen.at \in {"prefill", "decode"} THEN Idle ELSE gen
    BY <1>4 DEF ExecutionFails
  <2>2. ~Held' /\ DOMAIN running' = {"ids", "done"}
    BY <2>1, IdleShape DEF Held
  <2>3. CASE gen' = Idle
    BY <1>2, <2>2, <2>3
  <2>4. CASE gen' = gen /\ gen.at \notin {"prefill", "decode"}
    BY <2>1, <2>2, <2>4 DEF FailureInv
  <2> QED
    BY <2>1, <2>3, <2>4
<1>5. CASE Emit
  <2>1. /\ ~Held /\ gen.at \in {"sample", "emit"} /\ UNCHANGED <<running, failed>>
        /\ gen' = [gen EXCEPT !.at = "callback", !.stream = Append(@, NextToken),
                        !.verifying = (gen.at = "emit"), !.expected = token_count,
                        !.emitted = IF gen.at = "emit" THEN @ + 1 ELSE 0]
    BY <1>5 DEF Emit
  <2>2. /\ DOMAIN gen' = Fields /\ gen'.at = "callback" /\ gen'.verifying = (gen.at = "emit")
        /\ gen'.speculative = gen.speculative /\ gen'.touched = gen.touched
    BY <2>1 DEF FailureInv
  <2> QED
    BY <2>1, <2>2 DEF FailureInv, Held
<1>6. CASE CallbackReturns
  <2>1. PICK more \in BOOLEAN :
          gen' = [gen EXCEPT !.go_on = more,
                     !.at = IF gen.verifying
                            THEN IF more /\ gen.emitted < Len(gen.outputs) THEN "emit" ELSE "settle"
                            ELSE IF more THEN "loop" ELSE "return"]
    BY <1>6 DEF CallbackReturns
  <2>2. /\ DOMAIN gen' = Fields /\ gen'.speculative = gen.speculative /\ gen'.touched = gen.touched
        /\ gen'.at \in {"loop", "return"} \/ (gen.verifying /\ gen'.at \in {"emit", "settle"})
    BY <2>1 DEF FailureInv
  <2> QED
    BY <1>6, <2>2 DEF CallbackReturns, Locked, FailureInv, Held
<1>7. CASE CallbackModified \/ CallbackThrows \/ Return \/ DraftFails \/ VerifyFails
           \/ SampleFails \/ SettleFails
  BY <1>3, <1>7 DEF CallbackModified, CallbackThrows, GiveUp, Return, DraftFails, VerifyFails,
     SampleFails, SettleFails, Locked
<1>8. CASE DecodeAnchor
  <2>1. CASE Accepts(1)
    <3>1. <<Anchor>> # <<>> /\ StartExecution(<<Anchor>>) /\ gen' = [gen EXCEPT !.at = "decode"]
      BY <1>8, <2>1 DEF DecodeAnchor
    <3>2. DOMAIN gen' = Fields /\ gen'.at = "decode"
      BY <3>1 DEF FailureInv
    <3> QED
      BY <3>1, <3>2, StartHolds DEF FailureInv
  <2>2. CASE ~Accepts(1)
    BY <1>3, <1>8, <2>2 DEF DecodeAnchor, Locked
  <2> QED
    BY <2>1, <2>2
<1>9. ASSUME ~Held, UNCHANGED <<running, failed>>, DOMAIN gen' = Fields, gen.at # "idle",
             gen'.speculative = gen.speculative, gen'.touched = gen.touched,
             gen'.at = "loop" \/ (gen.speculative = TRUE /\ gen'.at \in Speculating)
      PROVE  FailureInv'
  BY <1>9 DEF FailureInv, Held
<1>10. CASE BeginDraft
  <2>1. CASE gen' = Idle
    BY <1>3, <1>10, <2>1 DEF BeginDraft, Locked
  <2>2. CASE gen' = [gen EXCEPT !.at = "draft", !.ids = <<Anchor>>]
    <3>1. gen.speculative = TRUE
      BY <1>10 DEF BeginDraft, DecodesAlone
    <3> QED
      BY <1>9, <1>10, <2>2, <3>1 DEF BeginDraft, Locked, FailureInv
  <2> QED
    BY <1>10, <2>1, <2>2 DEF BeginDraft
<1>11. CASE DraftRow
  BY <1>9, <1>11 DEF DraftRow, Locked, FailureInv
<1>12. CASE EndDraft
  BY <1>9, <1>12, ZenonT(30) DEF EndDraft, Locked, FailureInv
<1>13. CASE BeginVerify
  <2>1. CASE gen' = Idle
    BY <1>3, <1>13, <2>1 DEF BeginVerify, Locked
  <2>2. CASE gen' = [gen EXCEPT !.at = "forward", !.outputs = <<>>, !.accepted = 0]
    BY <1>9, <1>13, <2>2 DEF BeginVerify, Locked, FailureInv
  <2> QED
    BY <1>13, <2>1, <2>2 DEF BeginVerify
<1>14. CASE VerifyRow
  BY <1>9, <1>14 DEF VerifyRow, Locked, FailureInv
<1>15. CASE AcceptDraft
  BY <1>9, <1>15 DEF AcceptDraft, Locked, FailureInv
<1>16. CASE Accept
  BY <1>9, <1>16 DEF Accept, Locked, FailureInv
<1>17. CASE RejectAll
  BY <1>17 DEF RejectAll, Locked, FailureInv, Held
<1>18. CASE Settle
  BY <1>18 DEF Settle, Locked, FailureInv, Held
<1>19. CASE UNCHANGED vars
  BY <1>19 DEF vars, FailureInv, Held
<1> QED
  BY <1>1, <1>4, <1>5, <1>6, <1>7, <1>8, <1>10, <1>11, <1>12, <1>13, <1>14, <1>15, <1>16, <1>17,
     <1>18, <1>19 DEF Callback, Steps

LEMMA ForgottenStep ==
  ASSUME FailureInv, [Next]_vars, failed, ~Held
  PROVE  \/ failed' /\ ~Held'
         \/ Unlocked /\ context' = <<>>
         \/ gen.speculative /\ gen.touched /\ (Settle \/ RejectAll)
<1>1. UNCHANGED <<failed, running>> => failed' /\ ~Held'
  BY DEF Held, NotRunning
<1>2. CASE Calls
  BY <1>2 DEF Calls, Prefill, Decode, Reset, Generate, Accepts
<1>3. CASE Callback
  BY <1>1, <1>3 DEF Callback, CallbackReturns, CallbackModified, CallbackThrows, GiveUp, Settled,
     Held, NotRunning
<1>4. CASE Settle \/ RejectAll
  <2>1. gen.at \in {"settle", "compare"}
    BY <1>4 DEF Settle, RejectAll, Locked
  <2>2. gen.speculative = TRUE /\ gen.touched = TRUE
    BY <2>1 DEF FailureInv, Speculating
  <2> QED
    BY <1>4, <2>2
<1>5. CASE Steps /\ ~Settle /\ ~RejectAll
  <2>1. ~ExecuteRow /\ ~ExecutionFails
    BY DEF ExecuteRow, ExecutionFails
  <2>2. CASE DecodeAnchor
    BY <1>1, <2>2 DEF DecodeAnchor, Accepts
  <2>3. CASE VerifyFails \/ SampleFails \/ SettleFails
    BY <1>1, <2>3 DEF VerifyFails, SampleFails, SettleFails, Settled, Held, NotRunning
  <2> QED
    BY <1>1, <1>5, <2>1, <2>2, <2>3
    DEF Steps, Emit, Return, BeginDraft, DraftRow, DraftFails, EndDraft, BeginVerify, VerifyRow,
        AcceptDraft, Accept
<1>6. CASE UNCHANGED vars
  BY <1>1, <1>6 DEF vars
<1> QED
  BY <1>2, <1>3, <1>4, <1>5, <1>6 DEF Next

\* Whatever callbacks do, only reset and the commit of a speculative
\* generation that a callback interfered with take a failure away.
THEOREM FailureIsForgottenOnlyBySpeculation == Spec => ForgottenBySpeculation
<1>1. Init => FailureInv
  BY FailureInvInit
<1>2. FailureInv /\ [Next]_vars => FailureInv'
  BY FailureInvCalls, FailureInvSteps DEF Next
<1>3. FailureInv /\ [Next]_vars
        => [failed /\ ~Held =>
              \/ failed' /\ ~Held'
              \/ Unlocked /\ context' = <<>>
              \/ gen.speculative /\ gen.touched /\ (Settle \/ RejectAll)]_vars
  BY ForgottenStep
<1> QED
  BY <1>1, <1>2, <1>3, PTL DEF Spec, ForgottenBySpeculation

-----------------------------------------------------------------------------
(* The draft model follows the target.                                     *)

\* The context of the draft model when the target has `total' rows: a row for
\* each, or all but the last, whose target row is pending.
Kept(total) ==
  /\ pending \in {NoPosition, total - 1}
  /\ Len(draft.rows) = total - (IF pending = NoPosition THEN 0 ELSE 1)

\* The rows of the target that the draft model has been told of.
Told == token_count + (IF Held THEN ChunkStart ELSE 0)

\* The transaction of the draft cache holds a row for each token drafted.
Drafting ==
  \E base \in Seq(Token), rows \in Seq(Token) :
    /\ Open(draft, base, rows, BlockSize)
    /\ Len(rows) = Len(gen.ids) - 1
    /\ Len(base) = token_count - DraftRows

DraftShapes ==
  /\ draft \in LayerCache /\ draft.kind = DraftKind
  /\ pending \in Nat \cup {NoPosition} /\ context_on \in BOOLEAN
  /\ model.drafts = "dspark" => pending = NoPosition
  /\ draft.active = (gen.at = "draft")

DraftFollows ==
  /\ gen.speculative /\ gen.at # "idle" => Tracks
  /\ ~failed /\ ~Held /\ context = <<>> => draft.rows = <<>> /\ pending = NoPosition
  /\ Tracks /\ (Held \/ ~failed) /\ gen.at # "draft" => Kept(Told)
  /\ gen.at = "draft" => Drafting

\* Where a generation is, the row of the draft model is pending or used up.
Awaits == gen.at \in {"sample", "loop", "draft"} \/ (gen.at = "callback" /\ ~gen.verifying)
UsedUp == gen.at = "verify" \/ InTransaction

PendingInStep ==
  gen.speculative /\ model.drafts = "mtp" /\ context # <<>> =>
    /\ Awaits => pending = token_count - 1
    /\ UsedUp => pending = NoPosition

SomeEmitted == Checking /\ gen.at # "emit" => gen.emitted > 0

DraftInv == DraftShapes /\ DraftFollows /\ PendingInStep /\ SomeEmitted

-----------------------------------------------------------------------------
(* What is emitted.                                                        *)

Best(s) == Greedy([l \in Layer |-> s])

\* The stream of a generation that no callback has disturbed.
Live == gen.at \notin {"idle", "prefill"} /\ ~gen.touched

Fed == token_count - gen.start

\* The number of tokens emitted and not fed yet.
Waiting == IF gen.at = "sample" THEN 0 ELSE IF Checking THEN gen.emitted + 1 ELSE 1

\* The outputs are what the model chooses after the tokens executed so far.
OutputsAreBest ==
  \A i \in 1..Verified : gen.outputs[i] = Best(context \o SubSeq(gen.ids, 1, i))

\* The block that is executed begins with what was emitted.
BlockInStream ==
  \A i \in 1..gen.emitted + 1 : i <= Verified => gen.stream[Fed + i] = gen.ids[i]

StreamFits ==
  /\ gen.at = "prefill" => gen.stream = <<>> /\ ~gen.touched
  /\ gen.at = "callback" /\ Held => gen.touched
  /\ gen.at = "sample" => ~failed

StreamCounted == gen.start <= token_count /\ Len(gen.stream) = Fed + Waiting

StreamExact ==
  Live =>
    /\ StreamCounted
    /\ gen.at = "decode" => running.ids = <<Anchor>>
    /\ gen.at \in {"draft", "verify", "forward", "compare"} => gen.ids[1] = Anchor
    /\ InTransaction => OutputsAreBest
    /\ gen.at = "compare" => \A i \in 1..gen.accepted : gen.outputs[i] = gen.ids[i + 1]
    /\ Checking => /\ \A i \in 1..Verified - 1 : gen.outputs[i] = gen.ids[i + 1]
                   /\ BlockInStream

StreamInv == StreamFits /\ StreamExact

LEMMA NextChunk ==
  ASSUME NEW n \in Nat, NEW m \in Nat \ {0}
  PROVE  /\ n % m \in 0..m - 1 /\ n % m <= n /\ 0 % m = 0
         /\ (n + 1) % m = 0 \/ (n + 1) % m = (n % m) + 1
<1> DEFINE q == n \div m
           p == (n + 1) \div m
           r == n % m
           s == (n + 1) % m
<1>1. r \in 0..m - 1 /\ s \in 0..m - 1 /\ q \in Nat /\ p \in Int
  OBVIOUS
<1>2. n = m * q + r /\ n + 1 = m * p + s
  OBVIOUS
<1>3. 0 % m = 0
  OBVIOUS
<1> HIDE DEF q, p, r, s
<1>4. m * (p - q) = r + 1 - s
  BY <1>1, <1>2
<1>5. /\ p - q > 1 => m * (p - q) > m
      /\ p - q < 0 => m * (p - q) <= -m
      /\ m * q >= 0
  BY <1>1
<1>6. p - q \in {0, 1} /\ r <= n
  BY <1>1, <1>2, <1>4, <1>5
<1>7. m * 0 = 0 /\ m * 1 = m
  OBVIOUS
<1>8. s = 0 \/ s = r + 1
  BY <1>1, <1>4, <1>6, <1>7
<1> QED
  BY <1>1, <1>3, <1>6, <1>8 DEF r, s

\* update_speculative_context after `n' rows of the target.
LEMMA TrackedKeeps ==
  ASSUME DraftShapes, model.drafts \in {"dspark", "mtp"}, NEW position \in Nat, Kept(position),
         NEW direct \in BOOLEAN, NEW hidden \in Seq(Token), NEW ids \in Seq(Token),
         Len(hidden) = Len(ids), Len(ids) > 0, NEW total, total = position + Len(ids),
         Aligned(direct, position), Tracked(direct, hidden, ids, position)
  PROVE  /\ draft' \in LayerCache /\ draft'.kind = draft.kind /\ draft'.active = draft.active
         /\ pending' \in Nat \cup {NoPosition}
         /\ model.drafts = "dspark" => pending' = NoPosition
         /\ model.drafts = "mtp" => pending' = total - 1
         /\ pending' \in {NoPosition, total - 1}
         /\ Len(draft'.rows) = total - (IF pending' = NoPosition THEN 0 ELSE 1)
<1>1. /\ draft \in LayerCache /\ draft.rows \in Seq(Token) /\ Len(draft.rows) \in Nat
      /\ Len(ids) \in Nat /\ NoPosition \notin Nat
  BY SessionAssumption, LenProperties DEF DraftShapes, LayerCache
<1>2. CASE model.drafts = "dspark"
  <2>1. pending = NoPosition /\ Len(draft.rows) = position
    BY <1>1, <1>2 DEF DraftShapes, Kept
  <2>2. Before(draft, position) = draft.rows
    BY <2>1, BeforeIsAll
  <2>3. draft' = [draft EXCEPT !.rows = draft.rows \o hidden] /\ pending' = NoPosition
    BY <1>2, <2>1, <2>2 DEF Tracked
  <2>4. /\ draft.rows \o hidden \in Seq(Token)
        /\ Len(draft.rows \o hidden) = Len(draft.rows) + Len(hidden)
    BY <1>1, ConcatProperties
  <2>5. /\ draft' \in LayerCache /\ draft'.kind = draft.kind /\ draft'.active = draft.active
        /\ draft'.rows = draft.rows \o hidden
    BY <1>1, <2>3, <2>4 DEF LayerCache
  <2> QED
    BY <1>1, <1>2, <2>1, <2>3, <2>4, <2>5
<1>3. CASE model.drafts = "mtp"
  <2> DEFINE told == IF direct \/ pending = NoPosition
                     THEN SubSeq(ids, IF direct THEN 1 ELSE 2,
                                 IF direct THEN Len(ids) - 1 ELSE Len(ids))
                     ELSE ids
  <2>1. /\ draft' = [draft EXCEPT !.rows = draft.rows \o told]
        /\ pending' = position + Len(ids) - 1
    BY <1>3 DEF Tracked
  <2>2. direct => pending = NoPosition
    BY <1>3 DEF Aligned
  <2>3. told \in Seq(Token)
        /\ Len(told) = IF pending = NoPosition THEN Len(ids) - 1 ELSE Len(ids)
    <3>1. CASE direct
      <4>1. told = SubSeq(ids, 1, Len(ids) - 1) /\ Len(ids) - 1 \in 0..Len(ids)
        BY <1>1, <3>1
      <4> HIDE DEF told
      <4> QED
        BY <1>1, <2>2, <3>1, <4>1, PrefixIsSeq
    <3>2. CASE ~direct /\ pending = NoPosition
      <4>1. told = SubSeq(ids, 2, Len(ids))
        BY <3>2
      <4>2. \A i \in 2..Len(ids) : ids[i] \in Token
        BY <1>1, ElementOfSeq
      <4> HIDE DEF told
      <4>3. told \in Seq(Token)
            /\ Len(told) = IF 2 <= Len(ids) THEN Len(ids) - 2 + 1 ELSE 0
        BY <1>1, <4>1, <4>2, SubSeqProperties
      <4> QED
        BY <1>1, <3>2, <4>3
    <3>3. CASE ~direct /\ pending # NoPosition
      BY <3>3
    <3> QED
      BY <3>1, <3>2, <3>3
  <2> HIDE DEF told
  <2>4. draft.rows \o told \in Seq(Token) /\ Len(draft.rows \o told) = Len(draft.rows) + Len(told)
    BY <1>1, <2>3, ConcatProperties
  <2>5. /\ draft' \in LayerCache /\ draft'.kind = draft.kind /\ draft'.active = draft.active
        /\ draft'.rows = draft.rows \o told
    BY <1>1, <2>1, <2>4 DEF LayerCache
  <2>6. pending' \in Nat /\ pending' # NoPosition /\ pending' = total - 1
    BY <1>1, <2>1
  <2>7. Len(draft.rows) + Len(told) = position + Len(ids) - 1
    <3>1. CASE pending = NoPosition
      <4>1. Len(draft.rows) = position /\ Len(told) = Len(ids) - 1
        BY <2>3, <3>1 DEF Kept
      <4> QED
        BY <1>1, <4>1
    <3>2. CASE pending # NoPosition
      <4>1. Len(draft.rows) = position - 1 /\ Len(told) = Len(ids)
        BY <2>3, <3>2 DEF Kept
      <4> QED
        BY <1>1, <4>1
    <3> QED
      BY <3>1, <3>2
  <2> QED
    BY <1>3, <2>1, <2>4, <2>5, <2>6, <2>7
<1> QED
  BY <1>2, <1>3

\* A step that leaves the draft model and the position alone.
LEMMA DraftStays ==
  ASSUME DraftInv, UNCHANGED <<model, draft, pending, context_on, context, running>>,
         ~Held, failed => failed', gen.at # "draft", gen'.at # "draft",
         gen'.speculative /\ gen'.at # "idle" => gen.speculative /\ gen.at # "idle",
         PendingInStep', SomeEmitted'
  PROVE  DraftInv'
<1>1. DraftShapes /\ DraftFollows
  BY DEF DraftInv
<1>2. ~Held'
  BY DEF Held, NotRunning
<1>3. DraftShapes'
  BY <1>1 DEF DraftShapes, DraftKind
<1>4. DraftFollows'
  <2>1. token_count' = token_count /\ Tracks' = Tracks
    BY DEF token_count, Tracks
  <2>2. Kept(token_count)' = Kept(token_count)
    BY <2>1 DEF Kept
  <2>3. Told = token_count + 0 /\ Told' = token_count + 0
    BY <1>2, <2>1 DEF Told
  <2>4. Kept(Told)' = Kept(Told)
    BY <2>3 DEF Kept
  <2> QED
    BY <1>1, <1>2, <2>1, <2>4 DEF DraftFollows
<1> QED
  BY <1>3, <1>4 DEF DraftInv

\* The same when the generation ends.
LEMMA DraftStaysIdle ==
  ASSUME DraftInv, UNCHANGED <<model, draft, pending, context_on, context, running>>,
         ~Held, failed => failed', gen.at # "draft", gen' = Idle
  PROVE  DraftInv'
<1>1. ~gen'.speculative /\ gen'.at = "idle"
  BY DEF Idle
<1>2. PendingInStep' /\ SomeEmitted'
  BY <1>1 DEF PendingInStep, SomeEmitted, Checking
<1> QED
  BY <1>1, <1>2, DraftStays

LEMMA DraftStarts ==
  ASSUME Shapes, DraftInv, NEW ids \in Seq(Token), StartExecution(ids), ~Held, failed = FALSE,
         UNCHANGED <<model, draft, pending, context>>,
         gen.at # "draft", gen'.at # "draft", context_on' \in BOOLEAN,
         gen'.speculative /\ gen'.at # "idle" => Tracks',
         context_on' => context_on \/ context = <<>>,
         PendingInStep', SomeEmitted'
  PROVE  DraftInv'
<1>1. DraftShapes /\ DraftFollows /\ failed' = TRUE /\ running'.done = 0
  BY DEF DraftInv, StartExecution
<1>2. DraftShapes'
  BY <1>1 DEF DraftShapes, DraftKind
<1>3. token_count \in Nat /\ (context = <<>> => token_count = 0)
  BY LenProperties, EmptySeq DEF Shapes, token_count
<1>4. Tracks' => Kept(token_count)
  <2>1. CASE context_on
    <3>1. Tracks' => Tracks
      BY <2>1 DEF Tracks
    <3>2. Told = token_count + 0
      BY DEF Told
    <3>3. Told = token_count
      BY <1>3, <3>2
    <3> QED
      BY <1>1, <3>1, <3>3 DEF DraftFollows
  <2>2. CASE ~context_on
    <3>1. Tracks' => context = <<>>
      BY <2>2 DEF Tracks
    <3> QED
      BY <1>1, <1>3, <3>1, EmptySeq DEF DraftFollows, Kept
  <2> QED
    BY <2>1, <2>2
<1>5. Told' = token_count
  <2>1. ChunkStart' = 0 - (0 % ChunkSize)
    BY <1>1 DEF ChunkStart
  <2>2. ChunkStart' = 0
    BY <2>1, SessionAssumption, NextChunk
  <2> QED
    BY <1>3, <2>2 DEF Told, token_count
<1>6. Tracks' => Kept(Told)'
  BY <1>4, <1>5 DEF Kept
<1>7. DraftFollows'
  BY <1>1, <1>6 DEF DraftFollows
<1> QED
  BY <1>2, <1>7 DEF DraftInv

LEMMA DraftInit ==
  ASSUME Init
  PROVE  DraftInv
<1>1. /\ model \in Models /\ draft = Fresh(DraftKind) /\ pending = NoPosition
      /\ context_on = TRUE /\ context = <<>> /\ gen = Idle /\ ~Held
  BY DEF Init, Held
<1>2. DraftKind \in CacheKind
  BY DEF DraftKind, CacheKind
<1>3. draft \in LayerCache /\ draft.kind = DraftKind /\ draft.rows = <<>> /\ ~draft.active
      /\ draft.active \in BOOLEAN
  BY <1>1, <1>2, FreshIsClosed DEF Fresh, LayerCache
<1>4. gen.at = "idle" /\ ~gen.speculative
  BY <1>1 DEF Idle
<1>5. DraftShapes
  BY <1>1, <1>3, <1>4 DEF DraftShapes
<1>6. Kept(Told)
  <2>1. Told = 0
    BY <1>1, EmptySeq DEF Told, token_count
  <2> QED
    BY <1>1, <1>3, <2>1, EmptySeq DEF Kept
<1>7. DraftFollows
  BY <1>1, <1>3, <1>4, <1>6 DEF DraftFollows
<1>8. PendingInStep /\ SomeEmitted
  BY <1>4 DEF PendingInStep, SomeEmitted, Checking
<1> QED
  BY <1>5, <1>7, <1>8 DEF DraftInv

\* Prefill and Decode.
LEMMA DraftCall ==
  ASSUME ~Careless, SessionInv, DraftInv,
         NEW ids \in Seq(Token), NEW number, Accepts(number), StartExecution(ids),
         Unlocked, Permitted(TRUE), Touch, UNCHANGED <<model, draft, pending, context_on, context>>
  PROVE  DraftInv'
<1>1. Shapes /\ Control /\ DraftShapes /\ DraftFollows /\ SomeEmitted
  BY DEF SessionInv, DraftInv
<1>2. failed = FALSE /\ ~Held /\ gen.at \in {"idle", "callback"}
  BY <1>1 DEF Accepts, Unlocked, Shapes
<1>3. gen.at = "callback" => ~gen.speculative /\ ~gen.verifying
  BY <1>1 DEF Permitted, Control
<1>4. /\ gen'.at = gen.at /\ gen'.speculative = gen.speculative
      /\ gen'.verifying = gen.verifying /\ gen'.emitted = gen.emitted
  BY <1>1 DEF Touch, Shapes, Generation
<1>5. PendingInStep' /\ SomeEmitted'
  BY <1>2, <1>3, <1>4 DEF PendingInStep, SomeEmitted, Awaits, UsedUp, InTransaction, Checking
<1>6. context_on' \in BOOLEAN /\ (context_on' => context_on \/ context = <<>>)
  BY <1>1 DEF DraftShapes
<1>7. gen'.speculative /\ gen'.at # "idle" => Tracks'
  BY <1>2, <1>3, <1>4
<1> QED
  BY <1>1, <1>2, <1>4, <1>5, <1>6, <1>7, DraftStarts

LEMMA DraftPrefill ==
  ASSUME ~Careless, SessionInv, DraftInv, Prefill
  PROVE  DraftInv'
<1>1. PICK ids \in Prompts : Accepts(Len(ids)) /\ StartExecution(ids)
  BY DEF Prefill
<1>2. ids \in Seq(Token)
  BY SessionAssumption
<1>3. /\ Unlocked /\ Permitted(TRUE) /\ Touch
      /\ UNCHANGED <<model, draft, pending, context_on, context>>
  BY DEF Prefill
<1> QED
  BY <1>1, <1>2, <1>3, DraftCall

LEMMA DraftDecode ==
  ASSUME ~Careless, SessionInv, DraftInv, Decode
  PROVE  DraftInv'
<1>1. PICK id \in Token : Accepts(1) /\ StartExecution(<<id>>)
  BY DEF Decode
<1>2. <<id>> \in Seq(Token)
  OBVIOUS
<1>3. /\ Unlocked /\ Permitted(TRUE) /\ Touch
      /\ UNCHANGED <<model, draft, pending, context_on, context>>
  BY DEF Decode
<1> QED
  BY <1>1, <1>2, <1>3, DraftCall

LEMMA DraftReset ==
  ASSUME SessionInv, DraftInv, Reset
  PROVE  DraftInv'
<1>1. Shapes /\ DraftShapes /\ DraftFollows /\ SomeEmitted
  BY DEF SessionInv, DraftInv
<1>2. /\ ~Held /\ gen.at \in {"idle", "callback"} /\ draft' = Fresh(DraftKind)
      /\ pending' = NoPosition /\ context_on' = TRUE /\ context' = <<>>
      /\ model' = model /\ running' = running
  BY DEF Reset, Unlocked
<1>3. /\ gen'.at = gen.at /\ gen'.speculative = gen.speculative
      /\ gen'.verifying = gen.verifying /\ gen'.emitted = gen.emitted
  BY <1>1 DEF Reset, Touch, Shapes, Generation
<1>4. DraftKind' = DraftKind /\ DraftKind \in CacheKind
  BY <1>2 DEF DraftKind, CacheKind
<1>5. /\ draft' \in LayerCache /\ draft'.kind = DraftKind' /\ draft'.rows = <<>>
      /\ draft'.active = FALSE
  BY <1>2, <1>4, FreshIsClosed DEF Fresh, LayerCache
<1>6. DraftShapes'
  BY <1>2, <1>3, <1>5 DEF DraftShapes
<1>7. Kept(Told)'
  <2>1. ~Held'
    BY <1>2 DEF Held, NotRunning
  <2>2. Told' = 0
    BY <1>2, <2>1, EmptySeq DEF Told, token_count
  <2> QED
    BY <1>2, <1>5, <2>2, EmptySeq DEF Kept
<1>8. DraftFollows'
  BY <1>1, <1>2, <1>3, <1>5, <1>7 DEF DraftFollows, Tracks
<1>9. PendingInStep' /\ SomeEmitted'
  BY <1>1, <1>2, <1>3 DEF PendingInStep, SomeEmitted, Checking
<1> QED
  BY <1>6, <1>8, <1>9 DEF DraftInv

LEMMA DraftGenerate ==
  ASSUME SessionInv, DraftInv, Generate
  PROVE  DraftInv'
<1>1. Shapes /\ DraftShapes /\ DraftFollows
  BY DEF SessionInv, DraftInv
<1>2. /\ ~Held /\ gen.at = "idle" /\ failed = FALSE
      /\ UNCHANGED <<model, draft, pending, context>>
  BY <1>1 DEF Generate, Locked, Shapes
<1>3. PICK ids \in Prompts \cup {<<>>}, speculative \in BOOLEAN, max \in 1..MaximumNew :
        LET use == speculative /\ model.drafts # "none"
        IN  /\ use => context_on \/ token_count = 0
            /\ context_on' = use
            /\ IF ids # <<>> /\ Accepts(Len(ids))
               THEN /\ StartExecution(ids)
                    /\ gen' = [Idle EXCEPT !.at = "prefill", !.speculative = use,
                                           !.max = max, !.active = TRUE]
               ELSE UNCHANGED <<running, failed, gen>>
  BY Zenon DEF Generate
<1> DEFINE use == speculative /\ model.drafts # "none"
<1>4. /\ use \in BOOLEAN /\ context_on' = use /\ (use => context_on \/ token_count = 0)
      /\ use => model.drafts # "none"
  BY <1>3
<1>5. context_on' \in BOOLEAN /\ (context_on' => context_on \/ context = <<>>)
  BY <1>1, <1>4, EmptySeq DEF token_count, Shapes
<1>6. CASE ids # <<>> /\ Accepts(Len(ids))
  <2>1. StartExecution(ids)
        /\ gen' = [Idle EXCEPT !.at = "prefill", !.speculative = use, !.max = max, !.active = TRUE]
    BY <1>3, <1>6
  <2> HIDE DEF use
  <2>2. gen'.at = "prefill" /\ gen'.speculative = use
    BY <2>1 DEF Idle
  <2>3. PendingInStep' /\ SomeEmitted'
    BY <2>2 DEF PendingInStep, SomeEmitted, Awaits, UsedUp, InTransaction, Checking
  <2>4. gen'.speculative => Tracks'
    BY <1>2, <1>4, <2>2 DEF Tracks
  <2>5. ids \in Seq(Token)
    BY <1>6, SessionAssumption
  <2> QED
    BY <1>1, <1>2, <1>5, <2>1, <2>2, <2>3, <2>4, <2>5, DraftStarts
<1>7. CASE ~(ids # <<>> /\ Accepts(Len(ids)))
  <2>1. UNCHANGED <<model, draft, pending, context, running, failed, gen>>
    BY <1>2, <1>3, <1>7
  <2>2. ~Held' /\ token_count' = token_count
    BY <1>2, <2>1 DEF Held, NotRunning, token_count
  <2>3. DraftShapes'
    BY <1>1, <1>5, <2>1 DEF DraftShapes, DraftKind
  <2>4. token_count \in Nat /\ (context = <<>> => token_count = 0)
    BY <1>1, LenProperties, EmptySeq DEF Shapes, token_count
  <2>5. Told = token_count /\ Told' = token_count
    BY <1>2, <2>2, <2>4 DEF Told
  <2>6. Tracks' => Kept(Told)'
    <3>1. CASE context_on
      <4>1. Tracks' => Tracks
        BY <2>1, <3>1 DEF Tracks
      <4>2. Tracks => Kept(token_count)
        BY <1>1, <1>2, <2>5 DEF DraftFollows
      <4> QED
        BY <2>1, <2>5, <4>1, <4>2 DEF Kept
    <3>2. CASE ~context_on
      <4>1. Tracks' => draft.rows = <<>> /\ pending = NoPosition /\ token_count = 0
        BY <1>1, <1>2, <1>5, <2>4, <3>2 DEF Tracks, DraftFollows
      <4> QED
        BY <2>1, <2>5, <4>1, EmptySeq DEF Kept
    <3> QED
      BY <3>1, <3>2
  <2>7. DraftFollows'
    BY <1>1, <1>2, <2>1, <2>2, <2>6 DEF DraftFollows
  <2>8. PendingInStep' /\ SomeEmitted'
    BY <1>2, <2>1 DEF PendingInStep, SomeEmitted, Awaits, UsedUp, InTransaction, Checking
  <2> QED
    BY <2>3, <2>7, <2>8 DEF DraftInv
<1> QED
  BY <1>6, <1>7

LEMMA DraftDecodeAnchor ==
  ASSUME SessionInv, DraftInv, DecodeAnchor
  PROVE  DraftInv'
<1>1. Shapes /\ Control /\ DraftShapes /\ DraftFollows
  BY DEF SessionInv, DraftInv
<1>2. ~Held /\ gen.at = "loop" /\ UNCHANGED <<model, draft, pending, context_on, context>>
  BY DEF DecodeAnchor, Locked
<1>3. CASE Accepts(1)
  <2>1. StartExecution(<<Anchor>>) /\ gen' = [gen EXCEPT !.at = "decode"] /\ failed = FALSE
    BY <1>1, <1>3 DEF DecodeAnchor, Accepts, Shapes
  <2>2. <<Anchor>> \in Seq(Token)
    <3>1. gen.stream \in Seq(Token) /\ gen.stream # <<>>
      BY <1>1, <1>2 DEF Shapes, Generation, Control
    <3>2. Len(gen.stream) \in 1..Len(gen.stream)
      BY <3>1, EmptySeq
    <3>3. Anchor \in Token
      BY <3>1, <3>2, ElementOfSeq DEF Anchor
    <3> QED
      BY <3>3
  <2>3. gen'.at = "decode" /\ gen'.speculative = gen.speculative
    BY <1>1, <2>1 DEF Shapes, Generation
  <2>4. PendingInStep' /\ SomeEmitted'
    BY <2>3 DEF PendingInStep, SomeEmitted, Awaits, UsedUp, InTransaction, Checking
  <2>5. context_on' \in BOOLEAN /\ (context_on' => context_on \/ context = <<>>)
    BY <1>1, <1>2 DEF DraftShapes
  <2>6. gen'.speculative => Tracks'
    BY <1>1, <1>2, <2>3 DEF DraftFollows, Tracks
  <2> QED
    BY <1>1, <1>2, <2>1, <2>2, <2>3, <2>4, <2>5, <2>6, DraftStarts
<1>4. CASE ~Accepts(1)
  BY <1>2, <1>4, DraftStaysIdle DEF DecodeAnchor
<1> QED
  BY <1>3, <1>4

\* Steps that end a generation, or leave its draft alone.
LEMMA DraftQuiet ==
  ASSUME SessionInv, DraftInv,
         Return \/ Emit \/ CallbackReturns \/ GiveUp \/ BeginVerify \/ VerifyRow \/ VerifyFails
         \/ SampleFails \/ AcceptDraft \/ Accept \/ RejectAll \/ SettleFails
  PROVE  DraftInv'
<1>1. Shapes /\ Control /\ Progress /\ DraftShapes /\ DraftFollows /\ PendingInStep /\ SomeEmitted
  BY DEF SessionInv, DraftInv
<1>2. gen \in Generation
  BY <1>1 DEF Shapes
<1>3. ASSUME NEW at \in Places, ~Held, gen.at = at, at \notin {"idle", "draft"},
             UNCHANGED <<model, draft, pending, context_on, context, running>>,
             failed => failed', gen'.at \in Places \ {"draft", "idle"},
             gen'.speculative = gen.speculative,
             gen.speculative => (Awaits' => Awaits) /\ (UsedUp' => UsedUp), SomeEmitted'
      PROVE  DraftInv'
  <2>1. PendingInStep'
    BY <1>1, <1>3 DEF PendingInStep, token_count
  <2> QED
    BY <1>3, <2>1, DraftStays
<1>4. ASSUME ~Held, gen' = Idle, gen.at # "draft",
             UNCHANGED <<model, draft, pending, context_on, context, running>>,
             failed => failed'
      PROVE  DraftInv'
  BY <1>4, DraftStaysIdle
<1>5. CASE Return
  BY <1>4, <1>5 DEF Return, Locked
<1>6. CASE Emit
  <2>1. /\ ~Held /\ gen.at \in {"sample", "emit"}
        /\ UNCHANGED <<model, draft, pending, context_on, failed, context, running>>
        /\ gen' = [gen EXCEPT !.at = "callback", !.stream = Append(gen.stream, NextToken),
                              !.verifying = (gen.at = "emit"), !.expected = token_count,
                              !.emitted = IF gen.at = "emit" THEN gen.emitted + 1 ELSE 0]
    BY <1>6 DEF Emit
  <2>2. /\ gen'.at = "callback" /\ gen'.speculative = gen.speculative
        /\ gen'.verifying = (gen.at = "emit")
        /\ gen'.emitted = IF gen.at = "emit" THEN gen.emitted + 1 ELSE 0
    BY <1>2, <2>1 DEF Generation
  <2>3. Awaits' => Awaits
    BY <2>1, <2>2 DEF Awaits
  <2>4. UsedUp' => UsedUp
    BY <2>1, <2>2 DEF UsedUp, InTransaction, Checking
  <2>5. gen.emitted \in Nat
    BY <1>2 DEF Generation
  <2>6. SomeEmitted'
    <3>1. CASE gen.at = "emit"
      <4>1. gen'.emitted = gen.emitted + 1
        BY <2>2, <3>1
      <4>2. gen'.emitted > 0
        BY <2>5, <4>1
      <4> QED
        BY <4>2 DEF SomeEmitted
    <3>2. CASE gen.at # "emit"
      <4>1. gen'.at = "callback" /\ gen'.verifying = FALSE
        BY <2>2, <3>2
      <4> QED
        BY <4>1 DEF SomeEmitted, Checking
    <3> QED
      BY <3>1, <3>2
  <2> QED
    BY <1>3, <2>1, <2>2, <2>3, <2>4, <2>6 DEF Places
<1>7. CASE CallbackReturns
  <2>1. /\ ~Held /\ gen.at = "callback"
        /\ UNCHANGED <<model, draft, pending, context_on, failed, context, running>>
    BY <1>7 DEF CallbackReturns, Locked
  <2>2. PICK wanted \in BOOLEAN :
          gen' = [gen EXCEPT !.go_on = wanted /\ Remaining > 0,
                    !.at = IF gen.verifying
                           THEN IF (wanted /\ Remaining > 0) /\ gen.emitted < Len(gen.outputs)
                                THEN "emit" ELSE "settle"
                           ELSE IF wanted /\ Remaining > 0 THEN "loop" ELSE "return"]
    BY <1>7, Zenon DEF CallbackReturns
  <2> DEFINE at == IF gen.verifying
                   THEN IF (wanted /\ Remaining > 0) /\ gen.emitted < Len(gen.outputs)
                        THEN "emit" ELSE "settle"
                   ELSE IF wanted /\ Remaining > 0 THEN "loop" ELSE "return"
           more == wanted /\ Remaining > 0
  <2>3. gen' = [gen EXCEPT !.go_on = more, !.at = at]
    BY <2>2
  <2>4. /\ gen.verifying => at \in {"emit", "settle"}
        /\ ~gen.verifying => at \in {"loop", "return"}
    OBVIOUS
  <2> HIDE DEF at, more
  <2>5. /\ gen'.at = at /\ gen'.speculative = gen.speculative /\ gen'.verifying = gen.verifying
        /\ gen'.emitted = gen.emitted
    BY <1>2, <2>3 DEF Generation
  <2>6. gen.verifying \in BOOLEAN
    BY <1>2 DEF Generation
  <2>7. Awaits' => Awaits
    BY <2>1, <2>4, <2>5, <2>6 DEF Awaits
  <2>8. UsedUp' => UsedUp
    BY <2>1, <2>4, <2>5, <2>6 DEF UsedUp, InTransaction, Checking
  <2>9. SomeEmitted'
    BY <1>1, <2>1, <2>4, <2>5, <2>6 DEF SomeEmitted, Checking
  <2>10. gen'.at \in Places \ {"draft", "idle"} /\ gen.at \in Places
    BY <2>1, <2>4, <2>5, <2>6 DEF Places
  <2> QED
    BY <1>3, <2>1, <2>5, <2>7, <2>8, <2>9, <2>10
<1>8. CASE GiveUp
  <2>1. failed => failed'
    BY <1>8 DEF GiveUp, Settled
  <2> QED
    BY <1>4, <1>8, <2>1 DEF GiveUp, Locked
<1>9. CASE BeginVerify
  <2>1. ~Held /\ gen.at = "verify"
        /\ UNCHANGED <<model, draft, pending, context_on, failed, context, running>>
    BY <1>9 DEF BeginVerify, Locked
  <2>2. CASE \A l \in Layer : CanBegin(layers[l])
    <3>1. gen' = [gen EXCEPT !.at = "forward", !.outputs = <<>>, !.accepted = 0]
      BY <1>9, <2>2 DEF BeginVerify
    <3>2. gen'.at = "forward" /\ gen'.speculative = gen.speculative
      BY <1>2, <3>1 DEF Generation
    <3>3. (Awaits' => Awaits) /\ (UsedUp' => UsedUp) /\ SomeEmitted'
      BY <2>1, <3>2 DEF Awaits, UsedUp, SomeEmitted, Checking
    <3> QED
      BY <1>3, <2>1, <3>2, <3>3 DEF Places
  <2>3. CASE ~(\A l \in Layer : CanBegin(layers[l]))
    <3>1. gen' = Idle
      BY <1>9, <2>3, Zenon DEF BeginVerify
    <3> QED
      BY <1>4, <2>1, <3>1
  <2> QED
    BY <2>2, <2>3
<1>10. CASE VerifyRow
  <2> DEFINE at == IF Verified + 1 < Len(gen.ids) THEN "forward" ELSE "compare"
             more == Append(gen.outputs, Greedy([l \in Layer |-> layers'[l].rows]))
  <2>1. /\ ~Held /\ gen.at = "forward"
        /\ UNCHANGED <<model, draft, pending, context_on, failed, context, running>>
        /\ gen' = [gen EXCEPT !.outputs = more, !.at = at]
    BY <1>10, Zenon DEF VerifyRow, Locked
  <2>2. at \in {"forward", "compare"}
    OBVIOUS
  <2> HIDE DEF at, more
  <2>3. gen'.at = at /\ gen'.speculative = gen.speculative
    BY <1>2, <2>1 DEF Generation
  <2>4. (Awaits' => Awaits) /\ (UsedUp' => UsedUp) /\ SomeEmitted'
    BY <2>1, <2>2, <2>3 DEF Awaits, UsedUp, InTransaction, SomeEmitted, Checking
  <2> QED
    BY <1>3, <2>1, <2>2, <2>3, <2>4 DEF Places
<1>11. CASE VerifyFails
  <2>1. failed => failed'
    BY <1>11 DEF VerifyFails, Settled
  <2> QED
    BY <1>4, <1>11, <2>1 DEF VerifyFails, Locked
<1>12. CASE SampleFails
  <2>1. (failed => failed') /\ ~Held /\ gen.at \in {"sample", "compare"}
    BY <1>12 DEF SampleFails, Settled, Locked
  <2> QED
    BY <1>4, <1>12, <2>1 DEF SampleFails
<1>13. CASE AcceptDraft
  <2>1. /\ ~Held /\ gen.at = "compare" /\ gen' = [gen EXCEPT !.accepted = gen.accepted + 1]
        /\ UNCHANGED <<model, draft, pending, context_on, failed, context, running>>
    BY <1>13 DEF AcceptDraft, Locked
  <2>2. gen'.at = gen.at /\ gen'.speculative = gen.speculative
    BY <1>2, <2>1 DEF Generation
  <2>3. (Awaits' => Awaits) /\ (UsedUp' => UsedUp) /\ SomeEmitted'
    BY <2>1, <2>2 DEF Awaits, UsedUp, InTransaction, SomeEmitted, Checking
  <2> QED
    BY <1>3, <2>1, <2>2, <2>3 DEF Places
<1>14. CASE Accept
  <2> DEFINE outputs == Append(SubSeq(gen.ids, 2, gen.accepted + 1), gen.outputs[gen.accepted + 1])
  <2>1. /\ ~Held /\ gen.at = "compare"
        /\ gen' = [gen EXCEPT !.at = "emit", !.emitted = 0, !.outputs = outputs]
        /\ UNCHANGED <<model, draft, pending, context_on, failed, context, running>>
    BY <1>14 DEF Accept, Locked
  <2> HIDE DEF outputs
  <2>2. gen'.at = "emit" /\ gen'.speculative = gen.speculative
    BY <1>2, <2>1 DEF Generation
  <2>3. (Awaits' => Awaits) /\ (UsedUp' => UsedUp) /\ SomeEmitted'
    BY <2>1, <2>2 DEF Awaits, UsedUp, InTransaction, SomeEmitted, Checking
  <2> QED
    BY <1>3, <2>1, <2>2, <2>3 DEF Places
<1>15. CASE RejectAll
  <2>1. /\ ~Held /\ gen.at = "compare" /\ model.drafts = "dspark"
        /\ gen' = [gen EXCEPT !.at = "loop", !.active = FALSE, !.ids = <<>>, !.outputs = <<>>]
        /\ UNCHANGED <<model, draft, pending, context_on, context, running>>
    BY <1>15 DEF RejectAll, RejectsAll, Locked, StillDrafting
  <2>2. gen'.at = "loop" /\ gen'.speculative = gen.speculative
    BY <1>2, <2>1 DEF Generation
  <2>3. failed = FALSE
    BY <1>1, <2>1 DEF Control, Shapes
  <2>4. PendingInStep' /\ SomeEmitted'
    BY <2>1, <2>2 DEF PendingInStep, SomeEmitted, Checking
  <2> QED
    BY <2>1, <2>2, <2>3, <2>4, DraftStays
<1>16. CASE SettleFails
  BY <1>4, <1>16 DEF SettleFails, Locked
<1> QED
  BY <1>5, <1>6, <1>7, <1>8, <1>9, <1>10, <1>11, <1>12, <1>13, <1>14, <1>15, <1>16

-----------------------------------------------------------------------------
(* The draft transaction.                                                  *)

LEMMA DraftKinds ==
  ASSUME DraftShapes, Tracks, Shapes
  PROVE  /\ model.drafts \in {"dspark", "mtp"}
         /\ draft.kind = IF model.drafts = "dspark" THEN "latent" ELSE "kv"
         /\ DraftRows = IF model.drafts = "dspark" THEN 0 ELSE 1
<1>1. model.drafts \in {"none", "dspark", "mtp"}
  BY SessionAssumption DEF Shapes
<1> QED
  BY <1>1 DEF DraftShapes, DraftKind, Tracks, DraftRows

\* Drafting is never refused: the draft context matches the target.
LEMMA DraftCanBegin ==
  ASSUME SessionInv, DraftInv, Locked("loop"), ~DecodesAlone
  PROVE  /\ CanBegin(draft) /\ InSync /\ Tracks /\ context # <<>> /\ gen.speculative
         /\ Len(draft.rows) = token_count - DraftRows
<1>1. Shapes /\ Control /\ DraftShapes /\ DraftFollows /\ PendingInStep
  BY DEF SessionInv, DraftInv
<1>2. ~Held /\ gen.at = "loop" /\ gen.speculative
  BY DEF Locked, DecodesAlone
<1>3. context # <<>> /\ ~failed /\ Tracks /\ Awaits
  BY <1>1, <1>2 DEF Control, DraftFollows, Awaits
<1>4. context \in Seq(Token) /\ token_count \in Nat \ {0}
  BY <1>1, <1>3, EmptySeq DEF Shapes, token_count
<1>5. Told = token_count
  BY <1>2, <1>4 DEF Told
<1>6. Kept(token_count)
  BY <1>1, <1>2, <1>3, <1>5 DEF DraftFollows
<1>7. CanBegin(draft)
  <2>1. ~draft.active
    BY <1>1, <1>2 DEF DraftShapes
  <2> QED
    BY <1>1, <1>3, <2>1, DraftKinds DEF CanBegin, Ring
<1>8. CASE model.drafts = "mtp"
  <2>1. pending = token_count - 1
    BY <1>1, <1>2, <1>3, <1>8 DEF PendingInStep
  <2>2. pending # NoPosition
    BY <1>4, <2>1, SessionAssumption
  <2> QED
    BY <1>2, <1>3, <1>6, <1>7, <1>8, <2>1, <2>2 DEF InSync, Kept, DraftRows
<1>9. CASE model.drafts = "dspark"
  <2>1. pending = NoPosition
    BY <1>1, <1>9 DEF DraftShapes
  <2>2. Len(draft.rows) = token_count
    BY <1>4, <1>6, <2>1 DEF Kept
  <2> QED
    BY <1>2, <1>3, <1>4, <1>7, <1>9, <2>2 DEF InSync, DraftRows
<1> QED
  BY <1>1, <1>3, <1>8, <1>9, DraftKinds

LEMMA DraftBegins ==
  ASSUME SessionInv, DraftInv, BeginDraft
  PROVE  DraftInv'
<1>1. Shapes /\ Control /\ DraftShapes /\ DraftFollows /\ PendingInStep
  BY DEF SessionInv, DraftInv
<1>2. /\ Locked("loop") /\ ~DecodesAlone /\ ~Held /\ gen.at = "loop"
      /\ UNCHANGED <<model, pending, context_on, failed, context, running>>
  BY DEF BeginDraft, Locked
<1>3. /\ CanBegin(draft) /\ InSync /\ Tracks /\ context # <<>> /\ gen.speculative
      /\ Len(draft.rows) = token_count - DraftRows
  BY <1>2, DraftCanBegin
<1>4. draft' = Begin(draft, BlockSize) /\ gen' = [gen EXCEPT !.at = "draft", !.ids = <<Anchor>>]
  BY <1>3 DEF BeginDraft
<1>5. gen'.at = "draft" /\ gen'.ids = <<Anchor>> /\ gen'.speculative = gen.speculative
  BY <1>1, <1>4 DEF Shapes, Generation
<1>6. draft \in LayerCache /\ draft.rows \in Seq(Token) /\ ~draft.active /\ BlockSize \in Nat
  BY <1>1, <1>2, SessionAssumption DEF DraftShapes, LayerCache
<1>7. draft' \in LayerCache /\ Open(draft', draft.rows, <<>>, BlockSize)
  BY <1>4, <1>6, BeginOpens DEF Closed
<1>8. draft'.kind = draft.kind /\ draft'.active = TRUE
  <2>1. draft'.kind = draft.kind
    BY <1>4, <1>6 DEF Begin, LayerCache
  <2>2. draft'.active = TRUE
    BY <1>4, <1>6 DEF Begin, LayerCache
  <2> QED
    BY <2>1, <2>2
<1>9. DraftShapes'
  BY <1>1, <1>2, <1>5, <1>7, <1>8 DEF DraftShapes, DraftKind
<1>10. Drafting'
  <2>1. Len(<<>>) = Len(gen'.ids) - 1 /\ <<>> \in Seq(Token)
    BY <1>5, EmptySeq
  <2>2. Len(draft.rows) = token_count' - DraftRows'
    BY <1>2, <1>3 DEF token_count, DraftRows
  <2> QED
    BY <1>6, <1>7, <2>1, <2>2 DEF Drafting
<1>11. DraftFollows'
  BY <1>1, <1>2, <1>3, <1>5, <1>10 DEF DraftFollows, Tracks
<1>12. PendingInStep' /\ SomeEmitted'
  BY <1>1, <1>2, <1>3, <1>5 DEF PendingInStep, SomeEmitted, Awaits, UsedUp, InTransaction, Checking,
                               token_count
<1> QED
  BY <1>9, <1>11, <1>12 DEF DraftInv

LEMMA DraftGrows ==
  ASSUME SessionInv, DraftInv, DraftRow
  PROVE  DraftInv'
<1>1. Shapes /\ Control /\ Progress /\ DraftShapes /\ DraftFollows /\ PendingInStep
  BY DEF SessionInv, DraftInv
<1>2. /\ ~Held /\ gen.at = "draft" /\ Len(gen.ids) <= BlockSize
      /\ draft' = Record(draft, token_count + Len(gen.ids) - 1, gen.ids[Len(gen.ids)])
      /\ UNCHANGED <<model, pending, context_on, failed, context, running>>
  BY DEF DraftRow, Locked
<1>3. PICK id \in Token : gen' = [gen EXCEPT !.ids = Append(gen.ids, id)]
  BY DEF DraftRow
<1>4. /\ gen.ids \in Seq(Token) /\ gen.ids # <<>> /\ Len(gen.ids) \in Nat \ {0}
      /\ gen.speculative /\ context # <<>> /\ token_count \in Nat /\ BlockSize \in Nat
  BY <1>1, <1>2, EmptySeq, LenProperties, SessionAssumption
     DEF Shapes, Generation, Control, Progress, token_count
<1>5. /\ gen'.at = "draft" /\ gen'.speculative = gen.speculative
      /\ gen'.ids = Append(gen.ids, id)
  BY <1>1, <1>2, <1>3 DEF Shapes, Generation
<1>6. Tracks /\ draft \in LayerCache
  BY <1>1, <1>2, <1>4 DEF DraftFollows, DraftShapes
<1>7. PICK base \in Seq(Token), rows \in Seq(Token) :
        /\ Open(draft, base, rows, BlockSize)
        /\ Len(rows) = Len(gen.ids) - 1
        /\ Len(base) = token_count - DraftRows
  BY <1>1, <1>2 DEF DraftFollows, Drafting
<1> DEFINE row == gen.ids[Len(gen.ids)]
<1>8. row \in Token
  <2>1. Len(gen.ids) \in 1..Len(gen.ids)
    BY <1>4
  <2> QED
    BY <1>4, <2>1, ElementOfSeq
<1> HIDE DEF row
<1>9. draft' = Record(draft, Len(base) + Len(rows), row)
  <2>1. CASE model.drafts = "dspark"
    <3>1. DraftRows = 0
      BY <2>1 DEF DraftRows
    <3>2. Len(base) + Len(rows) = token_count + Len(gen.ids) - 1
      BY <1>4, <1>7, <3>1
    <3> QED
      BY <1>2, <3>2 DEF row
  <2>2. CASE model.drafts = "mtp"
    <3>1. draft.kind = "kv"
      BY <1>1, <1>6, <2>2, DraftKinds
    <3>2. /\ Before(draft, token_count + Len(gen.ids) - 1) = draft.rows
          /\ Before(draft, Len(base) + Len(rows)) = draft.rows
      BY <3>1 DEF Before
    <3> QED
      BY <1>2, <3>2 DEF Record, row
  <2> QED
    BY <1>1, <1>6, <2>1, <2>2, DraftKinds
<1>10. Len(rows) < BlockSize
  BY <1>2, <1>4, <1>7
<1>11. draft' \in LayerCache /\ Open(draft', base, Append(rows, row), BlockSize)
  BY <1>4, <1>6, <1>7, <1>8, <1>9, <1>10, RecordExtends
<1>12. draft'.kind = draft.kind /\ draft'.active = TRUE
  <2>1. draft.active /\ draft.kind \in CacheKind
    BY <1>6, <1>7 DEF Open, LayerCache
  <2>2. draft'.kind = draft.kind
    BY <1>6, <1>9, <2>1 DEF Record, LayerCache, CacheKind
  <2>3. draft'.active \in BOOLEAN /\ draft'.active
    BY <1>11 DEF Open, LayerCache
  <2> QED
    BY <2>2, <2>3
<1>13. DraftShapes'
  BY <1>1, <1>2, <1>5, <1>11, <1>12 DEF DraftShapes, DraftKind
<1>14. Drafting'
  <2>1. /\ Append(rows, row) \in Seq(Token) /\ Len(Append(rows, row)) = Len(rows) + 1
        /\ Len(Append(gen.ids, id)) = Len(gen.ids) + 1
    BY <1>4, <1>7, <1>8, AppendProperties
  <2>2. Len(Append(rows, row)) = Len(gen'.ids) - 1
    BY <1>4, <1>5, <1>7, <2>1
  <2>3. Len(base) = token_count' - DraftRows'
    BY <1>2, <1>7 DEF token_count, DraftRows
  <2> QED
    BY <1>11, <2>1, <2>2, <2>3 DEF Drafting
<1>15. DraftFollows'
  BY <1>1, <1>2, <1>4, <1>5, <1>6, <1>14 DEF DraftFollows, Tracks
<1>16. PendingInStep' /\ SomeEmitted'
  BY <1>1, <1>2, <1>5 DEF PendingInStep, SomeEmitted, Awaits, UsedUp, InTransaction, Checking,
                          token_count
<1> QED
  BY <1>13, <1>15, <1>16 DEF DraftInv

\* The transaction of the draft cache ends with `kept' of its rows.
LEMMA DraftCloses ==
  ASSUME SessionInv, DraftInv, gen.at = "draft", NEW kept \in {0, DraftRows},
         kept = 0 \/ Len(gen.ids) = BlockSize + 1, draft' = Finish(draft, kept)
  PROVE  /\ draft' \in LayerCache /\ draft'.kind = draft.kind /\ draft'.active = FALSE
         /\ Len(draft'.rows) = token_count - DraftRows + kept
         /\ CanFinish(draft, kept) /\ Tracks /\ gen.speculative /\ context # <<>>
         /\ token_count \in Nat \ {0} /\ ~Held /\ ~failed
<1>1. Shapes /\ Control /\ Progress /\ DraftShapes /\ DraftFollows
  BY DEF SessionInv, DraftInv
<1>2. /\ gen.ids \in Seq(Token) /\ Len(gen.ids) \in Nat \ {0} /\ ~Held /\ ~failed
      /\ gen.speculative /\ context # <<>> /\ token_count \in Nat \ {0} /\ BlockSize \in Nat \ {0}
  BY <1>1, EmptySeq, LenProperties, SessionAssumption
     DEF Shapes, Generation, Control, Progress, token_count
<1>3. Tracks /\ draft \in LayerCache
  BY <1>1, <1>2 DEF DraftFollows, DraftShapes
<1>4. PICK base \in Seq(Token), rows \in Seq(Token) :
        /\ Open(draft, base, rows, BlockSize)
        /\ Len(rows) = Len(gen.ids) - 1
        /\ Len(base) = token_count - DraftRows
  BY <1>1 DEF DraftFollows, Drafting
<1>5. DraftRows \in {0, 1} /\ kept \in 0..Len(rows) /\ Len(rows) \in Nat /\ Len(base) \in Nat
  <2>1. DraftRows \in {0, 1} /\ Len(rows) \in Nat /\ Len(base) \in Nat
    BY LenProperties DEF DraftRows
  <2> QED
    BY <1>2, <1>4, <2>1
<1>6. /\ Restored(draft, kept) = base \o SubSeq(rows, 1, kept)
      /\ Restored(draft, kept) \in Seq(Token)
  BY <1>2, <1>3, <1>4, <1>5, FinishRestores
<1>7. draft' \in LayerCache /\ Closed(draft', base \o SubSeq(rows, 1, kept))
  BY <1>3, <1>5, <1>6, FinishIsClosed
<1>8. SubSeq(rows, 1, kept) \in Seq(Token) /\ Len(SubSeq(rows, 1, kept)) = kept
  BY <1>5, PrefixIsSeq
<1>9. Len(base \o SubSeq(rows, 1, kept)) = Len(base) + kept
  BY <1>8, ConcatProperties
<1>10. Len(draft'.rows) = token_count - DraftRows + kept
  BY <1>2, <1>4, <1>5, <1>7, <1>9 DEF Closed
<1>11. draft'.kind = draft.kind
  BY <1>3 DEF Finish, Fresh, LayerCache
<1>12. draft'.active = FALSE
  BY <1>7 DEF Closed, LayerCache
<1>13. CanFinish(draft, kept)
  <2>1. CASE model.drafts = "dspark"
    <3>1. kept = 0 /\ draft.kind = "latent" /\ Len(draft.saved) \in Nat
      BY <1>1, <1>3, <2>1, DraftKinds, LenProperties DEF LayerCache
    <3> QED
      BY <3>1 DEF CanFinish
  <2>2. CASE model.drafts = "mtp"
    <3>1. draft.kind = "kv"
      BY <1>1, <1>3, <2>2, DraftKinds
    <3>2. draft.recorded = Len(rows) /\ draft.expected = BlockSize
      BY <1>4, <3>1 DEF Open
    <3>3. kept # 0 => Len(rows) = BlockSize
      BY <1>2, <1>4
    <3> QED
      BY <1>5, <3>1, <3>2, <3>3 DEF CanFinish, Ring
  <2> QED
    BY <1>1, <1>3, <2>1, <2>2, DraftKinds
<1> QED
  BY <1>2, <1>3, <1>7, <1>10, <1>11, <1>12, <1>13

LEMMA DraftGivenUp ==
  ASSUME SessionInv, DraftInv, DraftFails
  PROVE  DraftInv'
<1>1. Shapes /\ DraftShapes /\ DraftFollows /\ PendingInStep
  BY DEF SessionInv, DraftInv
<1>2. /\ gen.at = "draft" /\ draft' = Finish(draft, 0) /\ gen' = Idle
      /\ UNCHANGED <<model, pending, context_on, failed, context, running>>
  BY DEF DraftFails, Locked
<1>3. /\ draft' \in LayerCache /\ draft'.kind = draft.kind /\ draft'.active = FALSE
      /\ Len(draft'.rows) = token_count - DraftRows + 0
      /\ Tracks /\ gen.speculative /\ context # <<>>
      /\ token_count \in Nat \ {0} /\ ~Held /\ ~failed
  BY <1>2, DraftCloses
<1>4. gen'.at = "idle" /\ ~gen'.speculative
  BY <1>2 DEF Idle
<1>5. DraftShapes'
  BY <1>1, <1>2, <1>3, <1>4 DEF DraftShapes, DraftKind
<1>6. Told' = token_count
  BY <1>2, <1>3 DEF Told, Held, NotRunning, token_count
<1>7. Kept(Told)'
  <2>1. CASE model.drafts = "dspark"
    BY <1>1, <1>2, <1>3, <1>6, <2>1 DEF DraftShapes, Kept, DraftRows
  <2>2. CASE model.drafts = "mtp"
    <3>1. pending = token_count - 1
      BY <1>1, <1>2, <1>3, <2>2 DEF PendingInStep, Awaits
    <3>2. pending # NoPosition /\ DraftRows = 1
      BY <1>3, <2>2, <3>1, SessionAssumption DEF DraftRows
    <3> QED
      BY <1>2, <1>3, <1>6, <3>1, <3>2 DEF Kept
  <2> QED
    BY <1>1, <1>3, <2>1, <2>2, DraftKinds
<1>8. DraftFollows'
  BY <1>2, <1>3, <1>4, <1>7 DEF DraftFollows
<1>9. PendingInStep' /\ SomeEmitted'
  BY <1>4 DEF PendingInStep, SomeEmitted, Checking
<1> QED
  BY <1>5, <1>8, <1>9 DEF DraftInv

LEMMA DraftEnds ==
  ASSUME SessionInv, DraftInv, EndDraft
  PROVE  DraftInv'
<1> DEFINE counts == (IF model.drafts = "mtp" THEN 1 ELSE 0)..Min({BlockSize, Remaining - 1})
<1>1. Shapes /\ DraftShapes /\ DraftFollows /\ PendingInStep
  BY DEF SessionInv, DraftInv
<1>2. /\ gen.at = "draft" /\ Len(gen.ids) = BlockSize + 1 /\ draft' = Finish(draft, DraftRows)
      /\ pending' = IF model.drafts = "mtp" THEN NoPosition ELSE pending
      /\ UNCHANGED <<model, context_on, failed, context, running>>
  BY DEF EndDraft, Locked
<1>3. PICK count \in counts :
        gen' = IF count = 0 THEN [gen EXCEPT !.at = "loop", !.active = FALSE, !.ids = <<>>]
               ELSE [gen EXCEPT !.at = "verify", !.ids = SubSeq(gen.ids, 1, count + 1)]
  BY DEF EndDraft
<1>4. /\ gen'.at = IF count = 0 THEN "loop" ELSE "verify"
      /\ gen'.speculative = gen.speculative
  BY <1>1, <1>3 DEF Shapes, Generation
<1>5. model.drafts = "mtp" => count # 0
  BY <1>3
<1> HIDE DEF counts
<1>6. /\ draft' \in LayerCache /\ draft'.kind = draft.kind /\ draft'.active = FALSE
      /\ Len(draft'.rows) = token_count - DraftRows + DraftRows
      /\ Tracks /\ gen.speculative /\ context # <<>>
      /\ token_count \in Nat \ {0} /\ ~Held /\ ~failed
  <2>1. DraftRows \in {0, DraftRows}
    OBVIOUS
  <2> QED
    BY <1>2, <2>1, DraftCloses
<1>7. DraftShapes'
  BY <1>1, <1>2, <1>4, <1>6 DEF DraftShapes, DraftKind
<1>8. Told' = token_count
  BY <1>2, <1>6 DEF Told, Held, NotRunning, token_count
<1>9. Kept(Told)'
  <2>1. pending' = NoPosition
    BY <1>1, <1>2, <1>6, DraftKinds DEF DraftShapes
  <2>2. Len(draft'.rows) = token_count
    BY <1>6 DEF DraftRows
  <2> QED
    BY <1>6, <1>8, <2>1, <2>2 DEF Kept
<1>10. DraftFollows'
  BY <1>2, <1>4, <1>6, <1>9 DEF DraftFollows, Tracks
<1>11. PendingInStep' /\ SomeEmitted'
  BY <1>2, <1>4, <1>5 DEF PendingInStep, SomeEmitted, Awaits, UsedUp, InTransaction, Checking
<1> QED
  BY <1>7, <1>10, <1>11 DEF DraftInv

-----------------------------------------------------------------------------
(* An execution and the end of a verification update the draft context.    *)

LEMMA DraftExecutes ==
  ASSUME SessionInv, DraftInv, ExecuteRow
  PROVE  DraftInv'
<1>1. Shapes /\ Control /\ DraftShapes /\ DraftFollows
  BY DEF SessionInv, DraftInv
<1>2. /\ Held /\ running.done < Len(running.ids)
      /\ gen.at \in {"idle", "prefill", "decode", "callback"}
      /\ gen.at = "callback" => ~gen.speculative
      /\ gen.verifying => gen.speculative
      /\ UNCHANGED <<model, context_on>>
  BY <1>1 DEF Control, ExecuteRow
<1>3. /\ running.ids \in Seq(Token) /\ running.done \in Nat /\ Len(running.ids) \in Nat
      /\ context \in Seq(Token) /\ token_count \in Nat /\ ChunkSize \in Nat \ {0}
  BY <1>1, LenProperties, SessionAssumption DEF Shapes, token_count
<1> DEFINE over == running.done % ChunkSize
           next == Row % ChunkSize
           total == token_count + Row
<1>10. /\ over \in Nat /\ over <= running.done /\ (next = 0 \/ next = over + 1)
       /\ ChunkStart = running.done - over
  <2>1. running.done \in Nat /\ ChunkSize \in Nat \ {0} /\ Row = running.done + 1
    BY <1>3 DEF Row
  <2>2. /\ over \in 0..ChunkSize - 1 /\ over <= running.done
        /\ (running.done + 1) % ChunkSize = 0 \/ (running.done + 1) % ChunkSize = over + 1
    BY <2>1, NextChunk
  <2>3. next = (running.done + 1) % ChunkSize
    BY <2>1
  <2>4. ChunkStart = running.done - over
    BY DEF ChunkStart
  <2> HIDE DEF over, next
  <2>5. over \in Nat
    BY <2>1, <2>2
  <2> QED
    BY <2>2, <2>3, <2>4, <2>5
<1>11. ChunkEnds <=> (next = 0 \/ Row = Len(running.ids))
  BY DEF ChunkEnds
<1> HIDE DEF over, next
<1>4. Row \in Nat /\ Row = running.done + 1 /\ ChunkStart \in Nat /\ ChunkStart < Row
  BY <1>3, <1>10 DEF Row
<1>9. Row <= Len(running.ids) /\ total \in Nat
  BY <1>2, <1>3, <1>4
<1>5. Told = token_count + ChunkStart /\ Told \in Nat
  BY <1>2, <1>3, <1>4 DEF Told
\* The draft context after the step.
<1>6. Tracks => Kept(Told)
  BY <1>1, <1>2 DEF DraftFollows
<1>7. CASE Tracks /\ ChunkEnds
  <2> DEFINE rows == SubSeq(running.ids, ChunkStart + 1, Row)
             position == token_count + ChunkStart
  <2>1. Aligned(FALSE, position) /\ Tracked(FALSE, rows, rows, position)
    BY <1>7 DEF ExecuteRow
  <2>2. rows \in Seq(Token) /\ Len(rows) = Row - ChunkStart
    <3>1. ChunkStart + 1 \in Int /\ Row \in Int /\ ChunkStart + 1 <= Row
      BY <1>4
    <3>2. \A i \in ChunkStart + 1..Row : i \in 1..Len(running.ids)
      BY <1>3, <1>4, <1>9
    <3>3. \A i \in ChunkStart + 1..Row : running.ids[i] \in Token
      BY <1>3, <3>2, ElementOfSeq
    <3>4. rows \in Seq(Token) /\ Len(rows) = Row - (ChunkStart + 1) + 1
      BY <3>1, <3>3, SubSeqProperties
    <3> HIDE DEF rows
    <3> QED
      BY <1>4, <3>4
  <2>3. model.drafts \in {"dspark", "mtp"} /\ Kept(position) /\ position \in Nat
    BY <1>1, <1>5, <1>6, <1>7, DraftKinds
  <2> HIDE DEF rows, position
  <2>4. Len(rows) > 0 /\ total = position + Len(rows)
    <3>1. Len(rows) > 0
      BY <1>4, <2>2
    <3>2. token_count + Row = token_count + ChunkStart + Len(rows)
      BY <1>3, <1>4, <2>2
    <3> QED
      BY <3>1, <3>2 DEF position, total
  <2> HIDE DEF total
  <2>5. /\ draft' \in LayerCache /\ draft'.kind = draft.kind /\ draft'.active = draft.active
        /\ pending' \in Nat \cup {NoPosition}
        /\ model.drafts = "dspark" => pending' = NoPosition
        /\ model.drafts = "mtp" => pending' = total - 1
        /\ pending' \in {NoPosition, total - 1}
        /\ Len(draft'.rows) = total - (IF pending' = NoPosition THEN 0 ELSE 1)
    BY <1>1, <2>1, <2>2, <2>3, <2>4, TrackedKeeps
  <2>7. CASE Row < Len(running.ids)
    <3>1. /\ running' = [running EXCEPT !.done = Row] /\ UNCHANGED <<failed, context, gen>>
      BY <2>7 DEF ExecuteRow
    <3>2. running'.done = Row /\ running'.ids = running.ids
      BY <1>1, <3>1 DEF Shapes
    <3>3. Held'
      BY <1>4, <3>2 DEF Held, NotRunning
    <3>4. next = 0
      BY <1>3, <1>4, <1>7, <1>11, <2>7
    <3>5. ChunkStart' = Row
      <4>1. ChunkStart' = Row - next
        BY <3>2 DEF ChunkStart, next
      <4> QED
        BY <1>4, <3>4, <4>1
    <3>6. Told' = total
      BY <3>1, <3>3, <3>5 DEF Told, token_count, total
    <3>7. Kept(Told)'
      BY <2>5, <3>6 DEF Kept
    <3>8. DraftShapes'
      BY <1>1, <1>2, <2>5, <3>1 DEF DraftShapes, DraftKind
    <3>9. DraftFollows'
      BY <1>1, <1>2, <3>1, <3>3, <3>7 DEF DraftFollows, Tracks
    <3>10. PendingInStep' /\ SomeEmitted'
      BY <1>2, <3>1 DEF PendingInStep, SomeEmitted, Awaits, UsedUp, InTransaction, Checking
    <3> QED
      BY <3>8, <3>9, <3>10 DEF DraftInv
  <2>8. CASE ~(Row < Len(running.ids))
    <3>1. /\ running' = NotRunning /\ context' = context \o running.ids
          /\ gen' = IF gen.at = "prefill"
                    THEN [gen EXCEPT !.at = "sample", !.start = token_count + Len(running.ids)]
                    ELSE IF gen.at = "decode" THEN [gen EXCEPT !.at = "sample"] ELSE gen
      BY <2>8 DEF ExecuteRow
    <3>2. Row = Len(running.ids) /\ ~Held'
      BY <1>3, <1>4, <1>9, <2>8, <3>1 DEF Held
    <3>3. context' \in Seq(Token) /\ Len(context') = total /\ Len(context') > 0
      <4>1. context' \in Seq(Token) /\ Len(context') = token_count + Len(running.ids)
        BY <1>3, <3>1, ConcatProperties DEF token_count
      <4>2. Len(context') = total
        BY <3>2, <4>1 DEF total
      <4>3. total > 0
        BY <1>3, <1>4 DEF total
      <4> QED
        BY <4>1, <4>2, <4>3
    <3>4. context' # <<>>
      BY <3>3, EmptySeq
    <3>5. /\ gen'.at = IF gen.at \in {"prefill", "decode"} THEN "sample" ELSE gen.at
          /\ gen'.speculative = gen.speculative
          /\ gen'.verifying = gen.verifying /\ gen'.emitted = gen.emitted
      BY <1>1, <3>1 DEF Shapes, Generation
    <3>6. Told' = total /\ token_count' = total
      BY <1>9, <3>2, <3>3 DEF Told, token_count
    <3>7. Kept(Told)'
      BY <2>5, <3>6 DEF Kept
    <3>8. DraftShapes'
      BY <1>1, <1>2, <2>5, <3>5 DEF DraftShapes, DraftKind
    <3>9. DraftFollows'
      BY <1>1, <1>2, <3>4, <3>5, <3>7 DEF DraftFollows, Tracks
    <3>10. model.drafts = "mtp" => pending' = token_count' - 1
      BY <2>5, <3>6
    <3>11. PendingInStep'
      BY <1>2, <3>5, <3>10 DEF PendingInStep, UsedUp, InTransaction, Checking
    <3>12. SomeEmitted'
      BY <1>2, <3>5 DEF SomeEmitted, Checking
    <3> QED
      BY <3>8, <3>9, <3>11, <3>12 DEF DraftInv
  <2> QED
    BY <2>7, <2>8
<1>8. CASE ~(Tracks /\ ChunkEnds)
  <2>1. UNCHANGED <<draft, pending>>
    BY <1>8 DEF ExecuteRow
  <2>2. CASE Row < Len(running.ids)
    <3>1. /\ running' = [running EXCEPT !.done = Row] /\ UNCHANGED <<failed, context, gen>>
      BY <2>2 DEF ExecuteRow
    <3>2. running'.done = Row /\ running'.ids = running.ids
      BY <1>1, <3>1 DEF Shapes
    <3>3. Held'
      BY <1>4, <3>2 DEF Held, NotRunning
    <3>4. Tracks => Told' = Told
      <4>1. Tracks => next # 0
        BY <1>8, <1>11
      <4>2. ChunkStart' = Row - next
        BY <3>2 DEF ChunkStart, next
      <4>3. Tracks => ChunkStart' = ChunkStart
        BY <1>3, <1>4, <1>10, <4>1, <4>2, SMTT(30)
      <4> QED
        BY <1>5, <3>1, <3>3, <4>3 DEF Told, token_count
    <3>5. Tracks' => Kept(Told)'
      BY <1>2, <1>6, <2>1, <3>4 DEF Tracks, Kept
    <3>6. DraftShapes'
      BY <1>1, <1>2, <2>1, <3>1 DEF DraftShapes, DraftKind
    <3>7. DraftFollows'
      BY <1>1, <1>2, <3>1, <3>3, <3>5 DEF DraftFollows, Tracks
    <3>8. PendingInStep' /\ SomeEmitted'
      BY <1>2, <3>1 DEF PendingInStep, SomeEmitted, Awaits, UsedUp, InTransaction, Checking
    <3> QED
      BY <3>6, <3>7, <3>8 DEF DraftInv
  <2>3. CASE ~(Row < Len(running.ids))
    <3>1. /\ running' = NotRunning /\ context' = context \o running.ids
          /\ gen' = IF gen.at = "prefill"
                    THEN [gen EXCEPT !.at = "sample", !.start = token_count + Len(running.ids)]
                    ELSE IF gen.at = "decode" THEN [gen EXCEPT !.at = "sample"] ELSE gen
      BY <2>3 DEF ExecuteRow
    <3>2. Row = Len(running.ids) /\ ~Held'
      BY <1>3, <1>4, <1>9, <2>3, <3>1 DEF Held
    <3>3. context' \in Seq(Token) /\ Len(context') > 0
      <4>1. context' \in Seq(Token) /\ Len(context') = token_count + Len(running.ids)
        BY <1>3, <3>1, ConcatProperties DEF token_count
      <4> QED
        BY <1>3, <1>4, <3>2, <4>1
    <3>4. context' # <<>>
      BY <3>3, EmptySeq
    <3>5. /\ gen'.at = IF gen.at \in {"prefill", "decode"} THEN "sample" ELSE gen.at
          /\ gen'.speculative = gen.speculative
          /\ gen'.verifying = gen.verifying /\ gen'.emitted = gen.emitted
      BY <1>1, <3>1 DEF Shapes, Generation
    <3>6. ~Tracks /\ ~Tracks'
      BY <1>2, <1>8, <3>2 DEF Tracks, ChunkEnds
    <3>7. DraftShapes'
      BY <1>1, <1>2, <2>1, <3>5 DEF DraftShapes, DraftKind
    <3>8. ~(gen'.speculative /\ gen'.at # "idle")
      BY <1>1, <1>2, <3>5, <3>6 DEF DraftFollows
    <3>9. DraftFollows'
      BY <1>2, <3>4, <3>5, <3>6, <3>8 DEF DraftFollows
    <3>10. PendingInStep' /\ SomeEmitted'
      BY <1>2, <3>5, <3>8 DEF PendingInStep, SomeEmitted, Awaits, UsedUp, InTransaction, Checking
    <3> QED
      BY <3>7, <3>9, <3>10 DEF DraftInv
  <2> QED
    BY <2>2, <2>3
<1> QED
  BY <1>7, <1>8

LEMMA DraftExecutionFails ==
  ASSUME SessionInv, DraftInv, ExecutionFails
  PROVE  DraftInv'
<1>1. Shapes /\ Control /\ DraftShapes /\ DraftFollows
  BY DEF SessionInv, DraftInv
<1>2. /\ Held /\ failed
      /\ gen.at \in {"idle", "prefill", "decode", "callback"}
      /\ gen.at = "callback" => ~gen.speculative
      /\ gen.verifying => gen.speculative
      /\ running' = NotRunning /\ UNCHANGED <<model, draft, pending, context_on, failed, context>>
      /\ gen' = IF gen.at \in {"prefill", "decode"} THEN Idle ELSE gen
  BY <1>1 DEF Control, ExecutionFails
<1>3. ~Held' /\ failed'
  BY <1>2 DEF Held
<1>4. gen'.at \in {"idle", "callback"} /\ (gen'.at = "callback" => gen' = gen)
  BY <1>2 DEF Idle
<1>5. DraftShapes'
  BY <1>1, <1>2, <1>4 DEF DraftShapes, DraftKind
<1>6. DraftFollows'
  BY <1>2, <1>3, <1>4 DEF DraftFollows
<1>7. PendingInStep' /\ SomeEmitted'
  BY <1>2, <1>4 DEF PendingInStep, SomeEmitted, Awaits, UsedUp, InTransaction, Checking
<1> QED
  BY <1>5, <1>6, <1>7 DEF DraftInv

LEMMA DraftSettles ==
  ASSUME SessionInv, DraftInv, Settle
  PROVE  DraftInv'
<1> DEFINE at == IF gen.go_on THEN "loop" ELSE "return"
           outputs == SubSeq(gen.outputs, 1, gen.emitted)
<1>1. Shapes /\ Control /\ Progress /\ DraftShapes /\ DraftFollows /\ SomeEmitted
  BY DEF SessionInv, DraftInv
<1>2. /\ Locked("settle") /\ Aligned(TRUE, token_count)
      /\ Tracked(TRUE, Committed, outputs, token_count)
      /\ context' = context \o Committed
      /\ gen' = [gen EXCEPT !.at = at, !.ids = <<>>, !.outputs = <<>>, !.emitted = 0,
                            !.verifying = FALSE]
      /\ UNCHANGED <<model, context_on, running>>
  BY DEF Settle, SettlePermitted
<1>3. /\ ~Held /\ gen.at = "settle" /\ failed = FALSE /\ gen.speculative /\ context # <<>>
      /\ gen.emitted \in 0..Len(gen.ids)
  BY <1>2, SettleIsOpen
<1>4. /\ gen.ids \in Seq(Token) /\ gen.outputs \in Seq(Token) /\ gen.emitted \in Nat
      /\ gen.emitted \in 0..Len(gen.outputs) /\ gen.emitted > 0
      /\ context \in Seq(Token) /\ token_count \in Nat \ {0}
  <2>1. gen.ids \in Seq(Token) /\ gen.outputs \in Seq(Token) /\ gen.emitted \in Nat
        /\ context \in Seq(Token) /\ token_count \in Nat \ {0} /\ Len(gen.outputs) \in Nat
    BY <1>1, <1>3, EmptySeq, LenProperties DEF Shapes, Generation, token_count
  <2>2. gen.emitted <= Len(gen.outputs) /\ gen.emitted > 0
    BY <1>1, <1>3 DEF Progress, SomeEmitted, Checking, Verified
  <2> QED
    BY <2>1, <2>2
<1>5. /\ Committed \in Seq(Token) /\ Len(Committed) = gen.emitted
      /\ outputs \in Seq(Token) /\ Len(outputs) = gen.emitted
  BY <1>3, <1>4, PrefixIsSeq DEF Committed
<1> HIDE DEF outputs
<1>6. Tracks /\ Told = token_count
  BY <1>1, <1>3, <1>4 DEF DraftFollows, Told
<1>7. Kept(token_count) /\ model.drafts \in {"dspark", "mtp"}
  BY <1>1, <1>3, <1>6, DraftKinds DEF DraftFollows
<1> DEFINE total == token_count + gen.emitted
<1>18. /\ total = token_count + Len(outputs) /\ token_count \in Nat /\ Len(outputs) > 0
       /\ Len(Committed) = Len(outputs) /\ TRUE \in BOOLEAN /\ total > 0 /\ total \in Nat
  BY <1>4, <1>5
<1> HIDE DEF total
<1>8. /\ draft' \in LayerCache /\ draft'.kind = draft.kind /\ draft'.active = draft.active
      /\ pending' \in Nat \cup {NoPosition}
      /\ model.drafts = "dspark" => pending' = NoPosition
      /\ model.drafts = "mtp" => pending' = total - 1
      /\ pending' \in {NoPosition, total - 1}
      /\ Len(draft'.rows) = total - (IF pending' = NoPosition THEN 0 ELSE 1)
  BY <1>1, <1>2, <1>5, <1>7, <1>18, TrackedKeeps, ZenonT(30)
<1>9. context' \in Seq(Token) /\ token_count' = total /\ Len(context') > 0
  <2>1. context' \in Seq(Token) /\ Len(context') = Len(context) + Len(Committed)
    BY <1>2, <1>4, <1>5, ConcatProperties
  <2> QED
    BY <1>18, <2>1 DEF token_count
<1>10. context' # <<>>
  BY <1>9, EmptySeq
<1>11. ~Held' /\ Told' = total
  <2>1. ~Held'
    BY <1>2, <1>3 DEF Held, NotRunning
  <2> QED
    BY <1>9, <1>18, <2>1 DEF Told
<1>12. at \in {"loop", "return"}
  OBVIOUS
<1> HIDE DEF at
<1>13. gen'.at = at /\ gen'.speculative = gen.speculative /\ gen'.verifying = FALSE
  BY <1>1, <1>2 DEF Shapes, Generation
<1>14. DraftShapes'
  BY <1>1, <1>2, <1>3, <1>8, <1>12, <1>13 DEF DraftShapes, DraftKind
<1>15. Kept(Told)'
  BY <1>8, <1>9, <1>11 DEF Kept
<1>16. DraftFollows'
  BY <1>2, <1>6, <1>10, <1>12, <1>13, <1>15 DEF DraftFollows, Tracks
<1>17. PendingInStep' /\ SomeEmitted'
  BY <1>2, <1>8, <1>9, <1>12, <1>13
     DEF PendingInStep, SomeEmitted, Awaits, UsedUp, InTransaction, Checking
<1> QED
  BY <1>14, <1>16, <1>17 DEF DraftInv

LEMMA DraftNext ==
  ASSUME ~Careless, SessionInv, DraftInv, [Next]_vars
  PROVE  DraftInv'
<1>1. CASE Calls
  BY <1>1, DraftPrefill, DraftDecode, DraftReset, DraftGenerate DEF Calls
<1>2. CASE Callback
  BY <1>2, DraftQuiet DEF Callback, CallbackModified, CallbackThrows
<1>3. CASE Steps
  BY <1>3, DraftExecutes, DraftExecutionFails, DraftDecodeAnchor, DraftBegins, DraftGrows,
     DraftGivenUp, DraftEnds, DraftSettles, DraftQuiet
     DEF Steps
<1>4. CASE UNCHANGED vars
  BY <1>4, SMTT(30) DEF vars, DraftInv, DraftShapes, DraftFollows, PendingInStep, SomeEmitted, DraftKind,
              Tracks, Held, NotRunning, Told, ChunkStart, token_count, Kept, Drafting, DraftRows,
              Open, Awaits, UsedUp, InTransaction, Checking
<1> QED
  BY <1>1, <1>2, <1>3, <1>4 DEF Next

\* Under the same hypothesis, the draft model follows the target through every
\* execution, draft, verification and rollback (executor_speculative.cpp).
THEOREM DraftInvariant ==
  ASSUME ~Careless, GreedyChoosesTokens
  PROVE  Spec => []DraftInv
<1>1. Init => DraftInv
  BY DraftInit
<1>2. SessionInv /\ DraftInv /\ [Next]_vars => DraftInv'
  BY DraftNext
<1> QED
  BY <1>1, <1>2, SessionIsConsistent, PTL DEF Spec

\* Its context is then never ahead of the committed tokens or behind them.
THEOREM DraftStaysInStep ==
  ASSUME ~Careless, GreedyChoosesTokens
  PROVE  Spec => []DraftInStep
<1>1. SessionInv /\ DraftInv => DraftInStep
  <2> SUFFICES ASSUME SessionInv, DraftInv, ~failed, ~Held, gen.at # "draft", Tracks, context # <<>>
               PROVE  /\ Len(draft.rows) = token_count - (IF pending = NoPosition THEN 0 ELSE 1)
                      /\ pending \in {NoPosition, token_count - 1}
    BY DEF DraftInStep
  <2>1. token_count \in Nat
    BY LenProperties DEF SessionInv, Shapes, token_count
  <2>2. Told = token_count
    BY <2>1 DEF Told
  <2> QED
    BY <2>2 DEF DraftInv, DraftFollows, Kept
<1> QED
  BY <1>1, SessionIsConsistent, DraftInvariant, PTL

\* What the code refuses to do without its draft context in place: to draft,
\* to end the transaction of a draft, to update the context after an
\* execution or a verification.
DraftIsPermitted ==
  /\ Locked("loop") /\ ~DecodesAlone => CanBegin(draft) /\ InSync
  /\ gen.at = "draft" => /\ CanFinish(draft, 0)
                         /\ Len(gen.ids) = BlockSize + 1 => CanFinish(draft, DraftRows)
  /\ Held /\ Tracks => Aligned(FALSE, token_count + ChunkStart)
  /\ gen.at = "settle" => Aligned(TRUE, token_count)

\* None of these refusals ever happens then (propose_speculative,
\* finish_cache_transaction, update_speculative_context).
THEOREM DraftIsNeverRefused ==
  ASSUME ~Careless, GreedyChoosesTokens
  PROVE  Spec => []DraftIsPermitted
<1>1. SessionInv /\ DraftInv => DraftIsPermitted
  <2> SUFFICES ASSUME SessionInv, DraftInv
               PROVE  DraftIsPermitted
    OBVIOUS
  <2>1. Shapes /\ Control /\ DraftShapes /\ DraftFollows /\ PendingInStep
    BY DEF SessionInv, DraftInv
  <2>2. Locked("loop") /\ ~DecodesAlone => CanBegin(draft) /\ InSync
    BY DraftCanBegin
  <2>3. ASSUME gen.at = "draft"
        PROVE  /\ CanFinish(draft, 0)
               /\ Len(gen.ids) = BlockSize + 1 => CanFinish(draft, DraftRows)
    <3>1. ~Held /\ gen.speculative /\ ~failed /\ Tracks /\ draft \in LayerCache
      BY <2>1, <2>3 DEF Control, DraftFollows, DraftShapes
    <3>2. draft.kind = (IF model.drafts = "dspark" THEN "latent" ELSE "kv")
          /\ DraftRows = (IF model.drafts = "dspark" THEN 0 ELSE 1)
      BY <2>1, <3>1, DraftKinds
    <3>3. PICK base \in Seq(Token), rows \in Seq(Token) :
            Open(draft, base, rows, BlockSize) /\ Len(rows) = Len(gen.ids) - 1
      BY <2>1, <2>3 DEF DraftFollows, Drafting
    <3>4. Len(gen.ids) \in Nat /\ Len(draft.saved) \in Nat /\ draft.recorded \in Nat
          /\ BlockSize \in Nat \ {0} /\ Len(rows) \in Nat
      BY <2>1, <3>1, LenProperties, SessionAssumption DEF Shapes, Generation, LayerCache
    <3>5. CASE draft.kind = "latent"
      BY <3>2, <3>4, <3>5 DEF CanFinish
    <3>6. CASE draft.kind = "kv"
      <4>1. draft.recorded = Len(rows) /\ draft.expected = BlockSize
        BY <3>3, <3>6 DEF Open
      <4> QED
        BY <3>2, <3>3, <3>4, <3>6, <4>1 DEF CanFinish, Ring
    <3> QED
      BY <3>2, <3>5, <3>6
  <2>4. ASSUME Held, Tracks
        PROVE  Aligned(FALSE, token_count + ChunkStart)
    <3>1. Kept(token_count + ChunkStart)
      <4>1. Told = token_count + ChunkStart
        BY <2>4 DEF Told
      <4>2. gen.at # "draft"
        BY <2>1, <2>4 DEF Control
      <4> QED
        BY <2>1, <2>4, <4>1, <4>2 DEF DraftFollows
    <3> QED
      BY <3>1 DEF Kept, Aligned
  <2>5. ASSUME gen.at = "settle"
        PROVE  Aligned(TRUE, token_count)
    <3>1. gen.speculative /\ context # <<>> /\ UsedUp
      BY <2>1, <2>5 DEF Control, UsedUp, InTransaction, Checking
    <3> QED
      BY <2>1, <3>1 DEF PendingInStep, Aligned
  <2> QED
    BY <2>2, <2>3, <2>4, <2>5 DEF DraftIsPermitted
<1> QED
  BY <1>1, SessionIsConsistent, DraftInvariant, PTL

-----------------------------------------------------------------------------
(* The stream of a generation.                                             *)

\* A step that changes neither the stream nor the position, and opens or
\* leaves no verification.
LEMMA StreamStays ==
  ASSUME StreamInv, ~Held, ~Held', context' = context, failed' = failed,
         gen.at \notin {"idle", "prefill"},
         gen'.start = gen.start, gen'.stream = gen.stream, gen'.touched = gen.touched,
         gen'.at \notin {"prefill", "sample", "decode"}, Live => Waiting' = Waiting,
         Live /\ gen'.at \in {"draft", "verify", "forward", "compare"} => gen'.ids[1] = Anchor,
         Live /\ InTransaction' => OutputsAreBest',
         Live /\ gen'.at = "compare" =>
           \A i \in 1..gen'.accepted : gen'.outputs[i] = gen'.ids[i + 1],
         Live /\ Checking' => (\A i \in 1..Verified - 1 : gen.outputs[i] = gen.ids[i + 1])'
                              /\ BlockInStream'
  PROVE  StreamInv'
<1>1. StreamFits'
  BY DEF StreamFits
<1>2. StreamExact'
  <2>1. token_count' = token_count /\ Fed' = Fed /\ Anchor' = Anchor
    BY DEF token_count, Fed, Anchor
  <2>2. Live' => Live
    BY DEF Live
  <2>3. Live => StreamCounted
    BY DEF StreamInv, StreamExact
  <2>4. Live' => StreamCounted'
    BY <2>1, <2>2, <2>3 DEF StreamCounted
  <2> QED
    BY <2>1, <2>2, <2>4 DEF StreamExact
<1> QED
  BY <1>1, <1>2 DEF StreamInv

\* The generation is over, not begun or disturbed.
LEMMA StreamEnds ==
  ASSUME ~Live', gen'.at \notin {"prefill", "sample"}, gen'.at = "callback" /\ Held' => gen'.touched
  PROVE  StreamInv'
BY DEF StreamInv, StreamFits, StreamExact

LEMMA StreamIdle ==
  ASSUME gen' = Idle
  PROVE  StreamInv' /\ ~Live'
<1>1. gen'.at = "idle"
  BY DEF Idle
<1> QED
  BY <1>1, StreamEnds DEF Live

LEMMA StreamInit ==
  ASSUME Init
  PROVE  StreamInv
BY DEF Init, Idle, StreamInv, StreamFits, StreamExact, Live

LEMMA StreamTouched ==
  ASSUME Shapes, Touch, gen.at \in {"idle", "callback"}
  PROVE  /\ StreamInv' /\ ~Live'
         /\ gen'.at = gen.at /\ (gen.at = "callback" => gen'.touched = TRUE)
<1>1. gen'.at = gen.at /\ (gen.at = "callback" => gen'.touched = TRUE)
  BY DEF Touch, Shapes, Generation
<1> QED
  BY <1>1, StreamEnds DEF Live

LEMMA StreamCalls ==
  ASSUME SessionInv, StreamInv, Calls
  PROVE  StreamInv' /\ (Generate \/ ~Live')
<1>1. Shapes
  BY DEF SessionInv
<1>2. CASE Prefill \/ Decode \/ Reset
  <2>1. Touch /\ gen.at \in {"idle", "callback"}
    BY <1>2 DEF Prefill, Decode, Reset, Unlocked
  <2> QED
    BY <1>1, <2>1, StreamTouched
<1>3. CASE Generate
  <2>1. ~Held /\ gen.at = "idle"
    BY <1>3 DEF Generate, Locked
  <2>2. PICK ids \in Prompts \cup {<<>>}, speculative \in BOOLEAN, max \in 1..MaximumNew :
          IF ids # <<>> /\ Accepts(Len(ids))
          THEN /\ StartExecution(ids)
               /\ gen' = [Idle EXCEPT !.at = "prefill",
                                      !.speculative = speculative /\ model.drafts # "none",
                                      !.max = max, !.active = TRUE]
          ELSE UNCHANGED <<running, failed, gen>>
    BY <1>3, Zenon DEF Generate
  <2>3. CASE ids # <<>> /\ Accepts(Len(ids))
    <3>1. gen' = [Idle EXCEPT !.at = "prefill",
                              !.speculative = speculative /\ model.drafts # "none",
                              !.max = max, !.active = TRUE]
      BY <2>2, <2>3
    <3>2. gen'.at = "prefill" /\ gen'.stream = <<>> /\ gen'.touched = FALSE
      BY <3>1 DEF Idle
    <3> QED
      BY <1>3, <3>2 DEF StreamInv, StreamFits, StreamExact, Live
  <2>4. CASE ~(ids # <<>> /\ Accepts(Len(ids)))
    <3>1. gen' = gen
      BY <2>2, <2>4
    <3> QED
      BY <1>3, <2>1, <3>1, StreamEnds DEF Live
  <2> QED
    BY <2>3, <2>4
<1> QED
  BY <1>2, <1>3 DEF Calls

LEMMA StreamExecutes ==
  ASSUME SessionInv, StreamInv, ExecuteRow
  PROVE  StreamInv'
<1>1. Shapes /\ Control /\ StreamFits /\ StreamExact
  BY DEF SessionInv, StreamInv
<1>2. /\ Held /\ running.done < Len(running.ids)
      /\ gen.at \in {"idle", "prefill", "decode", "callback"}
      /\ gen.at = "callback" => gen.touched
  BY <1>1 DEF Control, ExecuteRow, StreamFits
<1>3. gen \in Generation /\ context \in Seq(Token) /\ running.ids \in Seq(Token)
      /\ token_count \in Nat /\ gen.start \in Nat /\ Len(gen.stream) \in Nat
      /\ Len(running.ids) \in Nat /\ gen.touched \in BOOLEAN
  BY <1>1, LenProperties DEF Shapes, Generation, token_count
<1>4. CASE Row < Len(running.ids)
  <2>1. /\ running' = [running EXCEPT !.done = Row] /\ UNCHANGED <<failed, context, gen>>
    BY <1>4 DEF ExecuteRow
  <2>2. running'.ids = running.ids
    BY <1>1, <2>1 DEF Shapes
  <2>3. StreamFits'
    BY <1>1, <1>2, <2>1 DEF StreamFits
  <2>4. Live' = Live /\ StreamCounted' = StreamCounted /\ Anchor' = Anchor
        /\ InTransaction' = InTransaction /\ Checking' = Checking
    BY <2>1 DEF Live, StreamCounted, Fed, Waiting, Checking, token_count, Anchor, InTransaction
  <2>5. Live => gen.at = "decode"
    BY <1>2 DEF Live
  <2>6. StreamExact'
    BY <1>1, <2>1, <2>2, <2>4, <2>5 DEF StreamExact, InTransaction, Checking
  <2> QED
    BY <2>3, <2>6 DEF StreamInv
<1>5. CASE ~(Row < Len(running.ids))
  <2>1. /\ running' = NotRunning /\ context' = context \o running.ids /\ failed' = FALSE
        /\ gen' = IF gen.at = "prefill"
                  THEN [gen EXCEPT !.at = "sample", !.start = token_count + Len(running.ids)]
                  ELSE IF gen.at = "decode" THEN [gen EXCEPT !.at = "sample"] ELSE gen
    BY <1>5 DEF ExecuteRow
  <2>2. token_count' = token_count + Len(running.ids)
    BY <1>3, <2>1, ConcatProperties DEF token_count
  <2>3. CASE gen.at = "prefill"
    <3>1. gen' = [gen EXCEPT !.at = "sample", !.start = token_count + Len(running.ids)]
      BY <2>1, <2>3
    <3>2. /\ gen'.at = "sample" /\ gen'.start = token_count + Len(running.ids)
          /\ gen'.stream = <<>>
      BY <1>1, <1>3, <2>3, <3>1 DEF Generation, StreamFits
    <3>3. StreamCounted'
      BY <1>3, <2>2, <3>2, EmptySeq DEF StreamCounted, Fed, Waiting
    <3> QED
      BY <2>1, <3>2, <3>3 DEF StreamInv, StreamFits, StreamExact, InTransaction, Checking
  <2>4. CASE gen.at = "decode"
    <3>1. gen' = [gen EXCEPT !.at = "sample"]
      BY <2>1, <2>4
    <3>2. /\ gen'.at = "sample" /\ gen'.start = gen.start /\ gen'.stream = gen.stream
          /\ gen'.touched = gen.touched
      BY <1>3, <3>1 DEF Generation
    <3>3. Live' => Live /\ StreamCounted /\ running.ids = <<Anchor>>
      BY <1>1, <2>4, <3>2 DEF Live, StreamExact
    <3>4. ASSUME Live'
          PROVE  StreamCounted'
      <4>1. StreamCounted /\ Waiting = 1
        BY <2>4, <3>3, <3>4 DEF Waiting, Checking
      <4>2. Len(running.ids) = 1
        BY <3>3, <3>4
      <4>3. gen.start <= token_count /\ Len(gen.stream) = token_count - gen.start + 1
        BY <4>1 DEF StreamCounted, Fed
      <4>4. Waiting' = 0 /\ Fed' = token_count' - gen.start
        BY <3>2 DEF Waiting, Fed
      <4>5. token_count' = token_count + 1
        BY <2>2, <4>2
      <4>6. gen.start <= token_count' /\ Len(gen.stream) = Fed' + Waiting'
        <5>1. /\ token_count \in Nat /\ gen.start \in Nat /\ Len(gen.stream) \in Nat
          BY <1>3
        <5>2. Fed' = token_count + 1 - gen.start
          BY <4>4, <4>5, <5>1
        <5>3. gen.start <= token_count'
          BY <4>3, <4>5, <5>1
        <5>4. Len(gen.stream) = Fed' + 0
          BY <4>3, <5>1, <5>2
        <5> QED
          BY <4>4, <5>3, <5>4
      <4> QED
        BY <3>2, <4>6 DEF StreamCounted
    <3> QED
      BY <2>1, <3>2, <3>4 DEF StreamInv, StreamFits, StreamExact, InTransaction, Checking
  <2>5. CASE gen.at \in {"idle", "callback"}
    <3>1. gen' = gen
      BY <2>1, <2>5
    <3> QED
      BY <1>2, <2>5, <3>1, StreamEnds DEF Live
  <2> QED
    BY <1>2, <2>3, <2>4, <2>5
<1> QED
  BY <1>4, <1>5

\* ExecutionFails and the steps that end a generation.
LEMMA StreamStops ==
  ASSUME SessionInv, StreamInv,
         ExecutionFails \/ GiveUp \/ Return \/ DraftFails \/ VerifyFails \/ SampleFails \/ SettleFails
  PROVE  StreamInv' /\ ~Live' /\ context' = context
<1>1. CASE ExecutionFails
  <2>1. /\ gen.at \in {"idle", "prefill", "decode", "callback"}
        /\ gen.at = "callback" => gen.touched
        /\ context' = context
        /\ gen' = IF gen.at \in {"prefill", "decode"} THEN Idle ELSE gen
    BY <1>1 DEF SessionInv, Control, StreamInv, StreamFits, ExecutionFails
  <2>2. CASE gen.at \in {"prefill", "decode"}
    BY <2>1, <2>2, StreamIdle
  <2>3. CASE gen.at \in {"idle", "callback"}
    BY <2>1, <2>3, StreamEnds DEF Live
  <2> QED
    BY <2>1, <2>2, <2>3
<1>2. CASE ~ExecutionFails
  <2>1. gen' = Idle /\ context' = context
    BY <1>2 DEF GiveUp, Return, DraftFails, VerifyFails, SampleFails, SettleFails
  <2> QED
    BY <2>1, StreamIdle
<1> QED
  BY <1>1, <1>2

LEMMA EmittedIsToken ==
  ASSUME GreedyChoosesTokens, Shapes, Progress, gen.at \in {"sample", "emit"}
  PROVE  NextToken \in Token
<1>1. CASE gen.at = "sample"
  <2>1. [l \in Layer |-> layers[l].rows] \in [Layer -> Seq(Token)]
    BY DEF Shapes, LayerCache
  <2> QED
    BY <1>1, <2>1 DEF GreedyChoosesTokens, NextToken
<1>2. CASE gen.at = "emit"
  <2>1. gen.outputs \in Seq(Token) /\ gen.emitted \in Nat /\ Len(gen.outputs) \in Nat
    BY LenProperties DEF Shapes, Generation
  <2>2. gen.emitted + 1 \in 1..Len(gen.outputs)
    BY <1>2, <2>1 DEF Progress, Verified
  <2> QED
    BY <1>2, <2>1, <2>2, ElementOfSeq DEF NextToken
<1> QED
  BY <1>1, <1>2

\* The draft is cut to at most a block.
LEMMA DraftCount ==
  ASSUME Shapes, NEW count \in (IF model.drafts = "mtp" THEN 1 ELSE 0)..Min({BlockSize, Remaining - 1})
  PROVE  count \in 0..BlockSize
<1>1. BlockSize \in Int /\ Remaining - 1 \in Int
  BY SessionAssumption, LenProperties DEF Shapes, Generation, Remaining
<1>2. \E x \in {BlockSize, Remaining - 1} : \A y \in {BlockSize, Remaining - 1} : x <= y
  BY <1>1
<1>3. /\ Min({BlockSize, Remaining - 1}) \in {BlockSize, Remaining - 1}
      /\ Min({BlockSize, Remaining - 1}) <= BlockSize
  BY <1>1, <1>2 DEF Min
<1>4. Min({BlockSize, Remaining - 1}) \in Int
  BY <1>1, <1>3
<1> QED
  BY <1>1, <1>3, <1>4

LEMMA StreamSampled ==
  ASSUME GreedyChoosesTokens, SessionInv, StreamInv, Emit
  PROVE  StreamInv'
<1>1. Shapes /\ Progress /\ StreamFits /\ StreamExact
  BY DEF SessionInv, StreamInv
<1>2. /\ ~Held /\ gen.at \in {"sample", "emit"}
      /\ UNCHANGED <<failed, context, running>>
      /\ gen' = [gen EXCEPT !.at = "callback", !.stream = Append(gen.stream, NextToken),
                            !.verifying = (gen.at = "emit"), !.expected = token_count,
                            !.emitted = IF gen.at = "emit" THEN gen.emitted + 1 ELSE 0]
  BY DEF Emit
<1>3. /\ gen \in Generation /\ gen.stream \in Seq(Token) /\ gen.outputs \in Seq(Token)
      /\ token_count \in Nat /\ gen.start \in Nat /\ Len(gen.stream) \in Nat
      /\ gen.emitted \in Nat /\ Verified \in Nat
  BY <1>1, LenProperties DEF Shapes, Generation, token_count, Verified
<1>4. NextToken \in Token
  BY <1>1, <1>2, EmittedIsToken
<1>5. ~Held' /\ token_count' = token_count
  BY <1>2 DEF Held, NotRunning, token_count
<1>6. /\ gen'.at = "callback" /\ gen'.stream = Append(gen.stream, NextToken)
      /\ gen'.verifying = (gen.at = "emit") /\ gen'.start = gen.start
      /\ gen'.emitted = IF gen.at = "emit" THEN gen.emitted + 1 ELSE 0
      /\ gen'.touched = gen.touched /\ gen'.ids = gen.ids /\ gen'.outputs = gen.outputs
  BY <1>2, <1>3 DEF Generation
<1>7. /\ gen'.stream \in Seq(Token) /\ Len(gen'.stream) = Len(gen.stream) + 1
      /\ \A i \in 1..Len(gen.stream) : gen'.stream[i] = gen.stream[i]
      /\ gen'.stream[Len(gen.stream) + 1] = NextToken
  BY <1>3, <1>4, <1>6, AppendProperties
<1>8. StreamFits'
  BY <1>5, <1>6 DEF StreamFits
<1>9. ASSUME Live'
      PROVE  /\ StreamCounted'
             /\ InTransaction' => OutputsAreBest'
             /\ Checking' => /\ (\A i \in 1..Verified - 1 : gen.outputs[i] = gen.ids[i + 1])'
                             /\ BlockInStream'
  <2>1. Live /\ StreamCounted /\ Fed' = Fed /\ Fed \in Nat
    BY <1>1, <1>2, <1>3, <1>5, <1>6, <1>9 DEF Live, StreamExact, StreamCounted, Fed
  <2>2. Len(gen.stream) = Fed + Waiting
    BY <2>1 DEF StreamCounted
  <2>3. CASE gen.at = "sample"
    <3>1. ~Checking' /\ ~InTransaction' /\ Waiting = 0 /\ Waiting' = 1
      BY <1>6, <2>3 DEF Checking, InTransaction, Waiting
    <3>2. Len(gen'.stream) = Fed' + Waiting'
      BY <1>3, <1>7, <2>1, <2>2, <3>1
    <3>3. StreamCounted'
      BY <1>5, <1>6, <2>1, <3>2 DEF StreamCounted
    <3> QED
      BY <3>1, <3>3
  <2>4. CASE gen.at = "emit"
    <3>0. gen'.emitted = gen.emitted + 1 /\ Checking /\ Checking' /\ InTransaction
          /\ gen.emitted < Verified
      BY <1>1, <1>6, <2>4 DEF Checking, InTransaction, Progress
    <3>9. Waiting = gen.emitted + 1 /\ Waiting' = gen'.emitted + 1
      BY <1>6, <2>4, <3>0 DEF Waiting
    <3>1. /\ Checking' /\ Checking /\ InTransaction /\ Waiting = gen.emitted + 1
          /\ Waiting' = gen.emitted + 2 /\ gen'.emitted = gen.emitted + 1
          /\ gen.emitted < Verified
      BY <1>3, <3>0, <3>9
    <3>2. Len(gen'.stream) = Fed' + Waiting'
      BY <1>3, <1>7, <2>1, <2>2, <3>1, SMTT(30)
    <3>3. StreamCounted'
      BY <1>5, <1>6, <2>1, <3>2 DEF StreamCounted
    <3>4. /\ OutputsAreBest /\ BlockInStream
          /\ \A i \in 1..Verified - 1 : gen.outputs[i] = gen.ids[i + 1]
      BY <1>1, <2>1, <3>1 DEF StreamExact
    <3>5. OutputsAreBest' /\ (\A i \in 1..Verified - 1 : gen.outputs[i] = gen.ids[i + 1])'
      BY <1>2, <1>6, <3>4 DEF OutputsAreBest, Verified
    <3>6. Verified' = Verified
      BY <1>6 DEF Verified
    <3>7. ASSUME NEW i \in 1..gen.emitted + 2, i <= Verified
          PROVE  gen'.stream[Fed + i] = gen.ids[i]
      <4>1. CASE i \in 1..gen.emitted + 1
        <5>1. Fed + i \in 1..Len(gen.stream)
          BY <1>3, <2>1, <2>2, <3>1, <4>1
        <5>2. gen.stream[Fed + i] = gen.ids[i]
          BY <3>4, <3>7, <4>1 DEF BlockInStream
        <5> QED
          BY <1>7, <5>1, <5>2
      <4>2. CASE i = gen.emitted + 2
        <5>1. Fed + i = Len(gen.stream) + 1
          <6>1. Len(gen.stream) = Fed + (gen.emitted + 1)
            BY <2>2, <3>1
          <6> QED
            BY <1>3, <2>1, <4>2, <6>1
        <5>2. NextToken = gen.outputs[gen.emitted + 1]
          BY <2>4 DEF NextToken
        <5>3. gen.emitted + 1 \in 1..Verified - 1 /\ gen.emitted + 1 + 1 = i
          BY <1>3, <3>7, <4>2
        <5>4. gen.outputs[gen.emitted + 1] = gen.ids[i]
          BY <3>4, <5>3
        <5> QED
          BY <1>7, <5>1, <5>2, <5>4
      <4> QED
        BY <1>3, <4>1, <4>2
    <3>8. BlockInStream'
      <4>1. gen'.emitted + 1 = gen.emitted + 2
        BY <1>3, <3>1
      <4> QED
        BY <1>6, <2>1, <3>6, <3>7, <4>1 DEF BlockInStream
    <3> QED
      BY <3>3, <3>5, <3>8
  <2> QED
    BY <1>2, <2>3, <2>4
<1> QED
  BY <1>6, <1>8, <1>9 DEF StreamInv, StreamExact

LEMMA StreamReturns ==
  ASSUME SessionInv, StreamInv, CallbackReturns
  PROVE  StreamInv'
<1>1. Shapes /\ StreamFits /\ StreamExact
  BY DEF SessionInv, StreamInv
<1>2. /\ ~Held /\ gen.at = "callback"
      /\ UNCHANGED <<model, layers, draft, pending, context_on, failed, context, running>>
  BY DEF CallbackReturns, Locked
<1>3. PICK wanted \in BOOLEAN :
        gen' = [gen EXCEPT !.go_on = wanted /\ Remaining > 0,
                  !.at = IF gen.verifying
                         THEN IF (wanted /\ Remaining > 0) /\ gen.emitted < Len(gen.outputs)
                              THEN "emit" ELSE "settle"
                         ELSE IF wanted /\ Remaining > 0 THEN "loop" ELSE "return"]
  BY Zenon DEF CallbackReturns
<1> DEFINE at == IF gen.verifying
                 THEN IF (wanted /\ Remaining > 0) /\ gen.emitted < Len(gen.outputs)
                      THEN "emit" ELSE "settle"
                 ELSE IF wanted /\ Remaining > 0 THEN "loop" ELSE "return"
           more == wanted /\ Remaining > 0
<1>4. gen' = [gen EXCEPT !.go_on = more, !.at = at]
  BY <1>3
<1>5. /\ gen.verifying => at \in {"emit", "settle"}
      /\ ~gen.verifying => at \in {"loop", "return"}
  OBVIOUS
<1> HIDE DEF at, more
<1>6. gen \in Generation /\ gen.verifying \in BOOLEAN
  BY <1>1 DEF Shapes, Generation
<1>7. /\ gen'.at = at /\ gen'.start = gen.start /\ gen'.stream = gen.stream
      /\ gen'.touched = gen.touched /\ gen'.emitted = gen.emitted
      /\ gen'.ids = gen.ids /\ gen'.outputs = gen.outputs
  BY <1>4, <1>6 DEF Generation
<1>8. ~Held' /\ Fed' = Fed /\ Verified' = Verified
  BY <1>2, <1>7 DEF Held, NotRunning, Fed, token_count, Verified
<1>9. Checking' <=> Checking
  BY <1>2, <1>5, <1>6, <1>7 DEF Checking
<1>10. InTransaction' <=> Checking
  BY <1>2, <1>5, <1>6, <1>7, <1>9 DEF InTransaction
<1>11. Waiting' = Waiting
  BY <1>2, <1>5, <1>6, <1>7, <1>9 DEF Waiting
<1>12. Live /\ Checking => OutputsAreBest' /\ BlockInStream'
                           /\ (\A i \in 1..Verified - 1 : gen.outputs[i] = gen.ids[i + 1])'
  <2> SUFFICES ASSUME Live, Checking
               PROVE  OutputsAreBest' /\ BlockInStream'
                      /\ (\A i \in 1..Verified - 1 : gen.outputs[i] = gen.ids[i + 1])'
    OBVIOUS
  <2>1. /\ OutputsAreBest /\ BlockInStream
        /\ \A i \in 1..Verified - 1 : gen.outputs[i] = gen.ids[i + 1]
    BY <1>1 DEF StreamExact, InTransaction
  <2> QED
    BY <1>2, <1>7, <1>8, <2>1 DEF OutputsAreBest, BlockInStream
<1>13. gen'.at \notin {"prefill", "sample", "decode", "draft", "verify", "forward", "compare"}
  BY <1>5, <1>6, <1>7
<1> QED
  BY <1>2, <1>7, <1>8, <1>9, <1>10, <1>11, <1>12, <1>13, StreamStays

LEMMA StreamDecodesAnchor ==
  ASSUME SessionInv, StreamInv, DecodeAnchor
  PROVE  StreamInv'
<1>1. Shapes /\ StreamFits /\ StreamExact
  BY DEF SessionInv, StreamInv
<1>2. ~Held /\ gen.at = "loop" /\ context' = context
  BY DEF DecodeAnchor, Locked
<1>3. CASE Accepts(1)
  <2>1. running' = [ids |-> <<Anchor>>, done |-> 0] /\ gen' = [gen EXCEPT !.at = "decode"]
    BY <1>3 DEF DecodeAnchor, StartExecution
  <2>2. /\ gen'.at = "decode" /\ gen'.start = gen.start /\ gen'.stream = gen.stream
        /\ gen'.touched = gen.touched
    BY <1>1, <2>1 DEF Shapes, Generation
  <2>3. StreamFits'
    BY <2>2 DEF StreamFits
  <2>4. Live' => Live /\ StreamCounted
    BY <1>1, <1>2, <2>2 DEF Live, StreamExact
  <2>5. token_count' = token_count /\ Fed' = Fed /\ Anchor' = Anchor /\ Waiting' = Waiting
    BY <1>2, <2>2 DEF token_count, Fed, Anchor, Waiting, Checking
  <2>6. Live' => StreamCounted'
    BY <2>2, <2>4, <2>5 DEF StreamCounted
  <2>7. running'.ids = <<Anchor>> /\ ~InTransaction' /\ ~Checking'
    BY <2>1, <2>2 DEF InTransaction, Checking
  <2> QED
    BY <2>2, <2>3, <2>5, <2>6, <2>7 DEF StreamInv, StreamExact
<1>4. CASE ~Accepts(1)
  BY <1>4, StreamIdle DEF DecodeAnchor
<1> QED
  BY <1>3, <1>4

LEMMA StreamDrafts ==
  ASSUME SessionInv, StreamInv, BeginDraft \/ DraftRow \/ EndDraft
  PROVE  StreamInv'
<1>1. Shapes /\ Progress /\ StreamFits /\ StreamExact
  BY DEF SessionInv, StreamInv
<1>2. ~Held /\ gen.at \in {"loop", "draft"} /\ UNCHANGED <<failed, context, running>>
  BY DEF BeginDraft, DraftRow, EndDraft, Locked
<1>3. gen \in Generation /\ gen.ids \in Seq(Token) /\ ~Held' /\ Waiting = 1
  BY <1>1, <1>2 DEF Shapes, Generation, Held, NotRunning, Waiting, Checking
<1>4. ASSUME gen'.at \in {"loop", "draft", "verify"}, gen'.start = gen.start,
             gen'.stream = gen.stream, gen'.touched = gen.touched,
             Live /\ gen'.at \in {"draft", "verify"} => gen'.ids[1] = Anchor
      PROVE  StreamInv'
  <2>1. Waiting' = Waiting /\ ~InTransaction' /\ ~Checking'
    BY <1>3, <1>4 DEF Waiting, Checking, InTransaction
  <2> QED
    BY <1>2, <1>3, <1>4, <2>1, StreamStays
<1>5. CASE BeginDraft
  <2>1. CASE CanBegin(draft) /\ InSync
    <3>1. gen' = [gen EXCEPT !.at = "draft", !.ids = <<Anchor>>]
      BY <1>5, <2>1 DEF BeginDraft
    <3>2. /\ gen'.at = "draft" /\ gen'.start = gen.start /\ gen'.stream = gen.stream
          /\ gen'.touched = gen.touched /\ gen'.ids = <<Anchor>>
      BY <1>3, <3>1 DEF Generation
    <3> QED
      BY <1>4, <3>2
  <2>2. CASE ~(CanBegin(draft) /\ InSync)
    BY <1>5, <2>2, StreamIdle DEF BeginDraft
  <2> QED
    BY <2>1, <2>2
<1>6. CASE DraftRow
  <2>1. PICK id \in Token : gen' = [gen EXCEPT !.ids = Append(gen.ids, id)]
    BY <1>6 DEF DraftRow
  <2>2. gen.at = "draft" /\ gen.ids # <<>>
    BY <1>1, <1>6 DEF DraftRow, Locked, Progress
  <2>3. /\ gen'.at = "draft" /\ gen'.start = gen.start /\ gen'.stream = gen.stream
        /\ gen'.touched = gen.touched /\ gen'.ids = Append(gen.ids, id)
    BY <1>3, <2>1, <2>2 DEF Generation
  <2>4. Append(gen.ids, id)[1] = gen.ids[1]
    <3>1. 1 \in 1..Len(gen.ids)
      BY <1>3, <2>2, EmptySeq
    <3> QED
      BY <1>3, <3>1, AppendProperties
  <2>5. Live => gen.ids[1] = Anchor
    BY <1>1, <2>2 DEF StreamExact
  <2> QED
    BY <1>4, <2>3, <2>4, <2>5
<1>7. CASE EndDraft
  <2> DEFINE counts == (IF model.drafts = "mtp" THEN 1 ELSE 0)..Min({BlockSize, Remaining - 1})
  <2>1. PICK count \in counts :
          gen' = IF count = 0 THEN [gen EXCEPT !.at = "loop", !.active = FALSE, !.ids = <<>>]
                 ELSE [gen EXCEPT !.at = "verify", !.ids = SubSeq(gen.ids, 1, count + 1)]
    BY <1>7 DEF EndDraft
  <2>2. gen.at = "draft" /\ Len(gen.ids) = BlockSize + 1
    BY <1>7 DEF EndDraft, Locked
  <2>3. count \in 0..BlockSize
    BY <1>1, <2>1, DraftCount
  <2> HIDE DEF counts
  <2>4. /\ gen'.at = (IF count = 0 THEN "loop" ELSE "verify") /\ gen'.start = gen.start
        /\ gen'.stream = gen.stream /\ gen'.touched = gen.touched
        /\ count # 0 => gen'.ids = SubSeq(gen.ids, 1, count + 1)
    BY <1>3, <2>1 DEF Generation
  <2>5. SubSeq(gen.ids, 1, count + 1)[1] = gen.ids[1]
    <3>1. count + 1 \in 0..Len(gen.ids) /\ 1 \in 1..count + 1
      BY <2>2, <2>3, SessionAssumption
    <3> QED
      BY <1>3, <3>1, PrefixIsSeq
  <2>6. Live => gen.ids[1] = Anchor
    BY <1>1, <2>2 DEF StreamExact
  <2> QED
    BY <1>4, <2>4, <2>5, <2>6
<1> QED
  BY <1>5, <1>6, <1>7
LEMMA StreamBeginsVerify ==
  ASSUME SessionInv, StreamInv, BeginVerify
  PROVE  StreamInv'
<1>1. Shapes /\ StreamFits /\ StreamExact
  BY DEF SessionInv, StreamInv
<1>2. ~Held /\ gen.at = "verify" /\ UNCHANGED <<failed, context, running>>
  BY DEF BeginVerify, Locked
<1>3. CASE \A l \in Layer : CanBegin(layers[l])
  <2>1. gen' = [gen EXCEPT !.at = "forward", !.outputs = <<>>, !.accepted = 0]
    BY <1>3 DEF BeginVerify
  <2>2. /\ gen'.at = "forward" /\ gen'.start = gen.start /\ gen'.stream = gen.stream
        /\ gen'.touched = gen.touched /\ gen'.ids = gen.ids /\ gen'.outputs = <<>>
    BY <1>1, <2>1 DEF Shapes, Generation
  <2>3. ~Held' /\ ~Checking' /\ Waiting' = Waiting /\ Verified' = 0
    BY <1>2, <2>2, EmptySeq DEF Held, NotRunning, Checking, Waiting, Verified
  <2>4. OutputsAreBest'
    BY <2>3 DEF OutputsAreBest
  <2>5. Live => gen.ids[1] = Anchor
    BY <1>1, <1>2 DEF StreamExact
  <2> QED
    BY <1>2, <2>2, <2>3, <2>4, <2>5, StreamStays
<1>4. CASE ~(\A l \in Layer : CanBegin(layers[l]))
  BY <1>4, StreamIdle DEF BeginVerify
<1> QED
  BY <1>3, <1>4

\* What the layers remember after a row of the verification.
LEMMA VerifiedRows ==
  ASSUME SessionInv, VerifyRow
  PROVE  [l \in Layer |-> layers'[l].rows] =
           [l \in Layer |-> context \o SubSeq(gen.ids, 1, Verified + 1)]
<1>1. Shapes /\ Progress /\ gen.at = "forward"
  BY DEF SessionInv, VerifyRow, Locked
<1>2. \A l \in Layer : Open(layers[l], context, Executed, Len(gen.ids))
  BY ForwardIsOpen DEF VerifyRow
<1>3. layers' = [l \in Layer |-> Record(layers[l], token_count + Verified, gen.ids[Verified + 1])]
  BY DEF VerifyRow, Forwarded
<1>4. ASSUME NEW l \in Layer
      PROVE  layers'[l].rows = context \o SubSeq(gen.ids, 1, Verified + 1)
  <2>1. Open(layers'[l], context, SubSeq(gen.ids, 1, Verified + 1), Len(gen.ids))
    BY <1>1, <1>2, <1>3, RowExtends
  <2> QED
    BY <2>1 DEF Open
<1> QED
  BY <1>4

LEMMA StreamVerifies ==
  ASSUME GreedyChoosesTokens, SessionInv, StreamInv, VerifyRow
  PROVE  StreamInv'
<1>1. Shapes /\ Progress /\ StreamFits /\ StreamExact
  BY DEF SessionInv, StreamInv
<1>2. ~Held /\ gen.at = "forward" /\ UNCHANGED <<failed, context, running>>
  BY DEF VerifyRow, Locked
<1>3. /\ gen \in Generation /\ gen.ids \in Seq(Token) /\ gen.outputs \in Seq(Token)
      /\ Verified \in Nat /\ Verified < Len(gen.ids) /\ Len(gen.ids) \in Nat
      /\ context \in Seq(Token) /\ gen.accepted = 0
  BY <1>1, <1>2, LenProperties DEF Shapes, Generation, Progress, Verified
<1> DEFINE seen == context \o SubSeq(gen.ids, 1, Verified + 1)
           best == Best(seen)
           at == IF Verified + 1 < Len(gen.ids) THEN "forward" ELSE "compare"
<1>4. gen' = [gen EXCEPT !.outputs = Append(gen.outputs, Greedy([l \in Layer |-> layers'[l].rows])),
                         !.at = at]
  BY Zenon DEF VerifyRow
<1>5. Greedy([l \in Layer |-> layers'[l].rows]) = best
  BY VerifiedRows DEF Best
<1>6. best \in Token
  <2>1. SubSeq(gen.ids, 1, Verified + 1) \in Seq(Token)
    <3>1. Verified + 1 \in 0..Len(gen.ids)
      BY <1>3
    <3> QED
      BY <1>3, <3>1, PrefixIsSeq
  <2>2. seen \in Seq(Token)
    BY <1>3, <2>1, ConcatProperties
  <2> HIDE DEF seen
  <2>3. [l \in Layer |-> seen] \in [Layer -> Seq(Token)]
    BY <2>2
  <2> QED
    BY <2>3 DEF GreedyChoosesTokens, Best
<1>7. best = Best(context \o SubSeq(gen.ids, 1, Verified + 1))
  OBVIOUS
<1>8. at \in {"forward", "compare"}
  OBVIOUS
<1> HIDE DEF seen, best, at
<1>9. gen' = [gen EXCEPT !.outputs = Append(gen.outputs, best), !.at = at]
  BY <1>4, <1>5
<1>10. /\ gen'.at = at /\ gen'.start = gen.start /\ gen'.stream = gen.stream
       /\ gen'.touched = gen.touched /\ gen'.ids = gen.ids
       /\ gen'.outputs = Append(gen.outputs, best) /\ gen'.accepted = 0
  BY <1>3, <1>9 DEF Generation
<1>11. /\ Verified' = Verified + 1 /\ gen'.outputs[Verified + 1] = best
       /\ \A i \in 1..Verified : gen'.outputs[i] = gen.outputs[i]
  BY <1>3, <1>6, <1>10, AppendProperties DEF Verified
<1>12. ~Held' /\ ~Checking' /\ ~Checking /\ Waiting' = Waiting
  BY <1>2, <1>8, <1>10 DEF Held, NotRunning, Checking, Waiting
<1>13. Live => OutputsAreBest'
  <2> SUFFICES ASSUME Live
               PROVE  OutputsAreBest'
    OBVIOUS
  <2>1. OutputsAreBest
    BY <1>1, <1>2 DEF StreamExact, InTransaction
  <2>2. ASSUME NEW i \in 1..Verified + 1
        PROVE  gen'.outputs[i] = Best(context \o SubSeq(gen.ids, 1, i))
    <3>1. CASE i \in 1..Verified
      BY <1>11, <2>1, <3>1 DEF OutputsAreBest
    <3>2. CASE i = Verified + 1
      BY <1>7, <1>11, <3>2
    <3> QED
      BY <1>3, <3>1, <3>2
  <2> QED
    BY <1>2, <1>10, <1>11, <2>2 DEF OutputsAreBest, Best
<1>14. Live => gen.ids[1] = Anchor
  BY <1>1, <1>2 DEF StreamExact
<1>15. \A i \in 1..gen'.accepted : gen'.outputs[i] = gen'.ids[i + 1]
  BY <1>10
<1> QED
  BY <1>2, <1>8, <1>10, <1>12, <1>13, <1>14, <1>15, StreamStays

LEMMA StreamAccepts ==
  ASSUME SessionInv, StreamInv, AcceptDraft
  PROVE  StreamInv'
<1>1. Shapes /\ Progress /\ StreamFits /\ StreamExact
  BY DEF SessionInv, StreamInv
<1>2. ~Held /\ gen.at = "compare" /\ UNCHANGED <<failed, context, running>>
      /\ Matches /\ gen' = [gen EXCEPT !.accepted = gen.accepted + 1]
  BY DEF AcceptDraft, Locked, Compared
<1>3. /\ gen'.at = "compare" /\ gen'.start = gen.start /\ gen'.stream = gen.stream
      /\ gen'.touched = gen.touched /\ gen'.ids = gen.ids /\ gen'.outputs = gen.outputs
      /\ gen'.accepted = gen.accepted + 1 /\ gen.accepted \in Nat
  BY <1>1, <1>2 DEF Shapes, Generation
<1>4. ~Held' /\ ~Checking' /\ Waiting' = Waiting
  BY <1>2, <1>3 DEF Held, NotRunning, Checking, Waiting
<1>5. ASSUME Live
      PROVE  /\ gen.ids[1] = Anchor /\ OutputsAreBest'
             /\ \A i \in 1..gen'.accepted : gen'.outputs[i] = gen'.ids[i + 1]
  <2>1. /\ OutputsAreBest /\ gen.ids[1] = Anchor
        /\ \A i \in 1..gen.accepted : gen.outputs[i] = gen.ids[i + 1]
    BY <1>1, <1>2, <1>5 DEF StreamExact, InTransaction
  <2>2. OutputsAreBest'
    BY <1>2, <1>3, <2>1 DEF OutputsAreBest, Verified, Best
  <2>3. gen.outputs[gen.accepted + 1] = gen.ids[gen.accepted + 2]
    BY <1>2 DEF Matches
  <2>4. ASSUME NEW i \in 1..gen.accepted + 1
        PROVE  gen.outputs[i] = gen.ids[i + 1]
    <3>1. CASE i \in 1..gen.accepted
      BY <2>1, <3>1
    <3>2. CASE i = gen.accepted + 1
      <4>1. i + 1 = gen.accepted + 2
        BY <1>3, <3>2
      <4> QED
        BY <2>3, <3>2, <4>1
    <3> QED
      BY <1>3, <3>1, <3>2
  <2> QED
    BY <1>3, <2>1, <2>2, <2>4
<1> QED
  BY <1>2, <1>3, <1>4, <1>5, StreamStays
LEMMA StreamAccepted ==
  ASSUME SessionInv, StreamInv, Accept
  PROVE  StreamInv'
<1> DEFINE chosen == SubSeq(gen.ids, 2, gen.accepted + 1)
           outputs == Append(chosen, gen.outputs[gen.accepted + 1])
<1>1. Shapes /\ Progress /\ StreamFits /\ StreamExact
  BY DEF SessionInv, StreamInv
<1>2. /\ ~Held /\ gen.at = "compare" /\ UNCHANGED <<failed, context, running>>
      /\ gen' = [gen EXCEPT !.at = "emit", !.emitted = 0, !.outputs = outputs]
  BY DEF Accept, Locked
<1>3. /\ gen \in Generation /\ gen.accepted \in Nat /\ Len(gen.ids) \in Nat
      /\ gen.ids \in Seq(Token) /\ gen.outputs \in Seq(Token)
      /\ gen.accepted < Len(gen.ids) /\ Len(gen.outputs) = Len(gen.ids)
  BY <1>1, <1>2, LenProperties DEF Shapes, Generation, Progress, Verified
<1>4. /\ chosen \in Seq(Token) /\ Len(chosen) = gen.accepted
      /\ \A i \in 1..gen.accepted : chosen[i] = gen.ids[i + 1]
  <2>1. 2 \in Int /\ gen.accepted + 1 \in Int
    BY <1>3
  <2>2. ASSUME NEW i \in 2..gen.accepted + 1
        PROVE  gen.ids[i] \in Token
    <3>1. i \in 1..Len(gen.ids)
      BY <1>3
    <3> QED
      BY <1>3, <3>1, ElementOfSeq
  <2>3. /\ chosen \in Seq(Token)
        /\ Len(chosen) = IF 2 <= gen.accepted + 1 THEN (gen.accepted + 1) - 2 + 1 ELSE 0
        /\ \A i \in 1..(gen.accepted + 1) - 2 + 1 : chosen[i] = gen.ids[2 + i - 1]
    BY <2>1, <2>2, SubSeqProperties
  <2> HIDE DEF chosen
  <2>4. ASSUME NEW i \in 1..gen.accepted
        PROVE  chosen[i] = gen.ids[i + 1]
    <3>1. i \in 1..(gen.accepted + 1) - 2 + 1 /\ 2 + i - 1 = i + 1
      BY <1>3
    <3>2. chosen[i] = gen.ids[2 + i - 1]
      BY <2>3, <3>1
    <3> QED
      BY <3>1, <3>2
  <2> QED
    BY <1>3, <2>3, <2>4
<1>5. /\ outputs \in Seq(Token) /\ Len(outputs) = gen.accepted + 1
      /\ \A i \in 1..gen.accepted : outputs[i] = gen.ids[i + 1]
      /\ outputs[gen.accepted + 1] = gen.outputs[gen.accepted + 1]
  <2>1. gen.accepted + 1 \in 1..Len(gen.outputs)
    BY <1>3
  <2>2. gen.outputs[gen.accepted + 1] \in Token
    BY <1>3, <2>1, ElementOfSeq
  <2> HIDE DEF chosen
  <2> QED
    BY <1>4, <2>2, AppendProperties
<1> HIDE DEF chosen, outputs
<1>6. /\ gen'.at = "emit" /\ gen'.start = gen.start /\ gen'.stream = gen.stream
      /\ gen'.touched = gen.touched /\ gen'.ids = gen.ids
      /\ gen'.outputs = outputs /\ gen'.emitted = 0
  BY <1>2, <1>3, <1>5 DEF Generation
<1>7. /\ ~Held' /\ Checking' /\ Waiting = 1 /\ Waiting' = 1
      /\ Verified' = gen.accepted + 1 /\ Verified = Len(gen.ids) /\ Fed' = Fed
  BY <1>2, <1>3, <1>5, <1>6
     DEF Held, NotRunning, Checking, Waiting, Verified, Fed, token_count
<1>8. ASSUME Live
      PROVE  OutputsAreBest' /\ BlockInStream'
             /\ (\A i \in 1..Verified - 1 : gen.outputs[i] = gen.ids[i + 1])'
  <2>1. /\ OutputsAreBest /\ gen.ids[1] = Anchor /\ StreamCounted
        /\ \A i \in 1..gen.accepted : gen.outputs[i] = gen.ids[i + 1]
    BY <1>1, <1>2, <1>8 DEF StreamExact, InTransaction
  <2>2. ASSUME NEW i \in 1..gen.accepted + 1
        PROVE  outputs[i] = Best(context \o SubSeq(gen.ids, 1, i))
    <3>1. i \in 1..Verified
      BY <1>3, <1>7
    <3>2. gen.outputs[i] = Best(context \o SubSeq(gen.ids, 1, i))
      BY <2>1, <3>1 DEF OutputsAreBest
    <3>3. CASE i \in 1..gen.accepted
      BY <1>5, <2>1, <3>2, <3>3
    <3>4. CASE i = gen.accepted + 1
      BY <1>5, <3>2, <3>4
    <3> QED
      BY <1>3, <3>3, <3>4
  <2>3. OutputsAreBest'
    BY <1>2, <1>6, <1>7, <2>2 DEF OutputsAreBest, Best
  <2>4. gen.stream[Fed + 1] = gen.ids[1]
    BY <1>7, <2>1 DEF StreamCounted, Anchor
  <2>5. BlockInStream'
    <3>1. \A i \in 1..0 + 1 : i = 1
      OBVIOUS
    <3> QED
      BY <1>6, <1>7, <2>4, <3>1 DEF BlockInStream
  <2>6. \A i \in 1..(gen.accepted + 1) - 1 : outputs[i] = gen.ids[i + 1]
    <3>1. (gen.accepted + 1) - 1 = gen.accepted
      BY <1>3
    <3> QED
      BY <1>5, <3>1
  <2> QED
    BY <1>6, <1>7, <2>3, <2>5, <2>6
<1> QED
  BY <1>2, <1>6, <1>7, <1>8, StreamStays

LEMMA StreamRejects ==
  ASSUME SessionInv, StreamInv, RejectAll
  PROVE  StreamInv'
<1>1. Shapes /\ Control /\ StreamFits /\ StreamExact
  BY DEF SessionInv, StreamInv
<1>2. /\ ~Held /\ gen.at = "compare" /\ failed' = FALSE /\ UNCHANGED <<context, running>>
      /\ gen' = [gen EXCEPT !.at = "loop", !.active = FALSE, !.ids = <<>>, !.outputs = <<>>]
  BY DEF RejectAll, Locked, StillDrafting
<1>3. failed = FALSE
  BY <1>1, <1>2, BlockIsOpen DEF Control
<1>4. /\ gen'.at = "loop" /\ gen'.start = gen.start /\ gen'.stream = gen.stream
      /\ gen'.touched = gen.touched
  BY <1>1, <1>2 DEF Shapes, Generation
<1>5. ~Held' /\ ~Checking' /\ ~InTransaction' /\ Waiting' = Waiting
  BY <1>2, <1>4 DEF Held, NotRunning, Checking, InTransaction, Waiting
<1> QED
  BY <1>2, <1>3, <1>4, <1>5, StreamStays

\* What was emitted becomes context, all but the last token.
LEMMA StreamSettles ==
  ASSUME SessionInv, StreamInv, Settle
  PROVE  StreamInv'
<1>1. Shapes /\ StreamFits /\ StreamExact
  BY DEF SessionInv, StreamInv
<1> DEFINE at == IF gen.go_on THEN "loop" ELSE "return"
<1>2. /\ context' = context \o SubSeq(gen.ids, 1, gen.emitted)
      /\ gen' = [gen EXCEPT !.at = at, !.ids = <<>>, !.outputs = <<>>, !.emitted = 0,
                            !.verifying = FALSE]
  BY DEF Settle, Committed
<1>3. gen.at = "settle" /\ gen.emitted \in 0..Len(gen.ids)
  BY SettleIsOpen DEF Settle
<1>4. at \in {"loop", "return"}
  OBVIOUS
<1> HIDE DEF at
<1>5. /\ gen'.at = at /\ gen'.start = gen.start /\ gen'.stream = gen.stream
      /\ gen'.touched = gen.touched
  BY <1>1, <1>2 DEF Shapes, Generation
<1>6. /\ token_count \in Nat /\ gen.start \in Nat /\ Len(gen.stream) \in Nat
      /\ gen.emitted \in Nat
  BY <1>1, LenProperties DEF Shapes, Generation, token_count
<1>7. token_count' = token_count + gen.emitted
  <2>1. /\ gen.ids \in Seq(Token) /\ context \in Seq(Token)
        /\ SubSeq(gen.ids, 1, gen.emitted) \in Seq(Token)
        /\ Len(SubSeq(gen.ids, 1, gen.emitted)) = gen.emitted
    BY <1>1, <1>3, PrefixIsSeq DEF Shapes, Generation
  <2> QED
    BY <1>2, <2>1, ConcatProperties DEF token_count
<1>8. ~Checking' /\ ~InTransaction' /\ Waiting' = 1 /\ Waiting = gen.emitted + 1
      /\ Fed' = token_count' - gen.start
  BY <1>3, <1>4, <1>5 DEF Checking, InTransaction, Waiting, Fed
<1>9. ASSUME Live'
      PROVE  StreamCounted'
  <2>1. gen.start <= token_count /\ Len(gen.stream) = Fed + (gen.emitted + 1)
    BY <1>1, <1>3, <1>5, <1>8, <1>9 DEF Live, StreamExact, StreamCounted
  <2>2. Len(gen.stream) = (token_count - gen.start) + (gen.emitted + 1)
    BY <2>1 DEF Fed
  <2>3. gen.start <= token_count'
    BY <1>6, <1>7, <2>1
  <2>4. Fed' = (token_count + gen.emitted) - gen.start
    BY <1>7, <1>8
  <2>5. Len(gen.stream) = Fed' + 1
    BY <1>6, <2>2, <2>4
  <2> QED
    BY <1>5, <1>8, <2>3, <2>5 DEF StreamCounted
<1> QED
  BY <1>4, <1>5, <1>8, <1>9 DEF StreamInv, StreamFits, StreamExact

LEMMA StreamNext ==
  ASSUME GreedyChoosesTokens, SessionInv, StreamInv, [Next]_vars
  PROVE  StreamInv'
<1>1. CASE Calls
  BY <1>1, StreamCalls
<1>2. CASE Callback
  BY <1>2, StreamReturns, StreamStops DEF Callback, CallbackModified, CallbackThrows
<1>3. CASE Steps
  BY <1>3, StreamExecutes, StreamStops, StreamSampled, StreamDecodesAnchor, StreamDrafts,
     StreamBeginsVerify, StreamVerifies, StreamAccepts, StreamAccepted, StreamRejects, StreamSettles
     DEF Steps
<1>4. CASE UNCHANGED vars
  <2>1. UNCHANGED <<model, layers, failed, context, running, gen>>
    BY <1>4 DEF vars
  <2> QED
    BY <2>1 DEF StreamInv, StreamFits, StreamExact, Live, StreamCounted, Fed, Waiting, Checking,
                InTransaction, Anchor, token_count, OutputsAreBest, BlockInStream, Verified, Best,
                Held, NotRunning
<1> QED
  BY <1>1, <1>2, <1>3, <1>4 DEF Next

\* The inductive invariant of the stream, under the same hypothesis.
THEOREM StreamInvariant ==
  ASSUME ~Careless, GreedyChoosesTokens
  PROVE  Spec => []StreamInv
<1>1. Init => StreamInv
  BY StreamInit
<1>2. SessionInv /\ StreamInv /\ [Next]_vars => StreamInv'
  BY StreamNext
<1> QED
  BY <1>1, <1>2, SessionIsConsistent, PTL DEF Spec
-----------------------------------------------------------------------------
(* The stream implements GreedyDecoder.                                    *)

LEMMA SuffixIsSeq ==
  ASSUME NEW S, NEW s \in Seq(S), NEW k \in 0..Len(s)
  PROVE  /\ SubSeq(s, k + 1, Len(s)) \in Seq(S)
         /\ Len(SubSeq(s, k + 1, Len(s))) = Len(s) - k
         /\ \A i \in 1..Len(s) - k : SubSeq(s, k + 1, Len(s))[i] = s[k + i]
<1>1. Len(s) \in Nat /\ k \in Nat /\ k + 1 \in Int /\ Len(s) \in Int
  BY LenProperties
<1>2. ASSUME NEW i \in k + 1..Len(s)
      PROVE  s[i] \in S
  <2>1. i \in 1..Len(s)
    BY <1>1
  <2> QED
    BY <2>1, ElementOfSeq
<1> DEFINE u == SubSeq(s, k + 1, Len(s))
<1>3. /\ u \in Seq(S) /\ Len(u) = IF k + 1 <= Len(s) THEN Len(s) - (k + 1) + 1 ELSE 0
      /\ \A i \in 1..Len(s) - (k + 1) + 1 : u[i] = s[(k + 1) + i - 1]
  BY <1>1, <1>2, SubSeqProperties
<1> HIDE DEF u
<1>4. Len(u) = Len(s) - k
  BY <1>1, <1>3
<1>5. ASSUME NEW i \in 1..Len(s) - k
      PROVE  u[i] = s[k + i]
  <2>1. i \in 1..Len(s) - (k + 1) + 1 /\ (k + 1) + i - 1 = k + i
    BY <1>1
  <2>2. u[i] = s[(k + 1) + i - 1]
    BY <1>3, <2>1
  <2> QED
    BY <2>1, <2>2
<1> QED
  BY <1>3, <1>4, <1>5 DEF u

LEMMA SuffixOfAppend ==
  ASSUME NEW S, NEW s \in Seq(S), NEW k \in 0..Len(s), NEW e \in S,
         NEW more, more = Append(s, e)
  PROVE  SubSeq(more, k + 1, Len(more)) = Append(SubSeq(s, k + 1, Len(s)), e)
<1> DEFINE u == SubSeq(s, k + 1, Len(s))
           v == SubSeq(more, k + 1, Len(more))
<1>1. /\ more \in Seq(S) /\ Len(more) = Len(s) + 1 /\ more[Len(s) + 1] = e
      /\ \A i \in 1..Len(s) : more[i] = s[i]
  BY AppendProperties
<1>2. Len(s) \in Nat /\ k \in Nat /\ k \in 0..Len(more)
  BY <1>1, LenProperties
<1>3. u \in Seq(S) /\ Len(u) = Len(s) - k /\ \A i \in 1..Len(s) - k : u[i] = s[k + i]
  BY SuffixIsSeq
<1>4. v \in Seq(S) /\ Len(v) = Len(more) - k /\ \A i \in 1..Len(more) - k : v[i] = more[k + i]
  BY <1>1, <1>2, SuffixIsSeq
<1> HIDE DEF u, v
<1>5. /\ Append(u, e) \in Seq(S) /\ Len(Append(u, e)) = Len(u) + 1
      /\ \A i \in 1..Len(u) : Append(u, e)[i] = u[i]
      /\ Append(u, e)[Len(u) + 1] = e
  BY <1>3, AppendProperties
<1>6. ASSUME NEW i \in 1..Len(v)
      PROVE  v[i] = Append(u, e)[i]
  <2>1. v[i] = more[k + i] /\ i \in 1..(Len(s) - k) + 1
    BY <1>1, <1>2, <1>4
  <2>2. CASE i \in 1..Len(s) - k
    <3>1. k + i \in 1..Len(s) /\ i \in 1..Len(u)
      BY <1>2, <1>3, <2>2
    <3> QED
      BY <1>1, <1>3, <1>5, <2>1, <2>2, <3>1
  <2>3. CASE i = (Len(s) - k) + 1
    <3>1. k + i = Len(s) + 1 /\ i = Len(u) + 1
      BY <1>2, <1>3, <2>3
    <3> QED
      BY <1>1, <1>5, <2>1, <3>1
  <2>4. i \in 1..Len(s) - k \/ i = (Len(s) - k) + 1
    BY <1>2, <2>1, SMTT(30)
  <2> QED
    BY <2>2, <2>3, <2>4
<1>7. Len(v) = Len(Append(u, e))
  BY <1>1, <1>2, <1>3, <1>4, <1>5
<1>8. v = Append(u, e)
  BY <1>4, <1>5, <1>6, <1>7, SeqEqual
<1> QED
  BY <1>8 DEF u, v

LEMMA SuffixOfSuffix ==
  ASSUME NEW S, NEW s \in Seq(S), NEW k \in 0..Len(s), NEW n \in 0..Len(s) - k,
         NEW u, u = SubSeq(s, k + 1, Len(s))
  PROVE  SubSeq(u, n + 1, Len(u)) = SubSeq(s, (k + n) + 1, Len(s))
<1> DEFINE v == SubSeq(u, n + 1, Len(u))
           w == SubSeq(s, (k + n) + 1, Len(s))
<1>1. u \in Seq(S) /\ Len(u) = Len(s) - k /\ \A i \in 1..Len(s) - k : u[i] = s[k + i]
  BY SuffixIsSeq
<1>2. Len(s) \in Nat /\ k \in Nat /\ n \in Nat /\ n \in 0..Len(u) /\ k + n \in 0..Len(s)
  BY <1>1, LenProperties
<1>3. v \in Seq(S) /\ Len(v) = Len(u) - n /\ \A i \in 1..Len(u) - n : v[i] = u[n + i]
  BY <1>1, <1>2, SuffixIsSeq
<1>4. w \in Seq(S) /\ Len(w) = Len(s) - (k + n) /\ \A i \in 1..Len(s) - (k + n) : w[i] = s[(k + n) + i]
  BY <1>2, SuffixIsSeq
<1> HIDE DEF v, w
<1>5. ASSUME NEW i \in 1..Len(v)
      PROVE  v[i] = w[i]
  <2>1. /\ i \in 1..Len(u) - n /\ n + i \in 1..Len(s) - k
        /\ i \in 1..Len(s) - (k + n) /\ k + (n + i) = (k + n) + i
    BY <1>1, <1>2, <1>3
  <2>2. v[i] = u[n + i] /\ u[n + i] = s[k + (n + i)] /\ w[i] = s[(k + n) + i]
    BY <1>1, <1>3, <1>4, <2>1
  <2> QED
    BY <2>1, <2>2
<1>6. Len(v) = Len(w)
  BY <1>1, <1>2, <1>3, <1>4
<1>7. v = w
  BY <1>3, <1>4, <1>5, <1>6, SeqEqual
<1> QED
  BY <1>7 DEF v, w

LEMMA UnfedIs ==
  ASSUME Shapes, StreamInv
  PROVE  /\ ~Live => unfed = <<>>
         /\ Live => /\ Fed \in 0..Len(gen.stream) /\ Waiting \in Nat
                    /\ unfed = SubSeq(gen.stream, Fed + 1, Len(gen.stream))
                    /\ unfed \in Seq(Token) /\ Len(unfed) = Waiting
                    /\ \A i \in 1..Waiting : unfed[i] = gen.stream[Fed + i]
<1>1. /\ gen.stream \in Seq(Token) /\ Len(gen.stream) \in Nat /\ token_count \in Nat
      /\ gen.start \in Nat /\ gen.emitted \in Nat /\ gen.touched \in BOOLEAN
  BY LenProperties DEF Shapes, Generation, token_count
<1>2. ~Live => unfed = <<>>
  BY <1>1 DEF unfed, Live
<1>3. ASSUME Live
      PROVE  /\ Fed \in 0..Len(gen.stream) /\ Waiting \in Nat
             /\ unfed = SubSeq(gen.stream, Fed + 1, Len(gen.stream))
             /\ unfed \in Seq(Token) /\ Len(unfed) = Waiting
             /\ \A i \in 1..Waiting : unfed[i] = gen.stream[Fed + i]
  <2>1. unfed = SubSeq(gen.stream, Fed + 1, Len(gen.stream))
    BY <1>3 DEF unfed, Live, Fed
  <2>2. gen.start <= token_count /\ Len(gen.stream) = Fed + Waiting
    BY <1>3 DEF StreamInv, StreamExact, StreamCounted
  <2>3. Waiting \in Nat
    BY <1>1 DEF Waiting
  <2>4. Fed \in Nat
    BY <1>1, <2>2 DEF Fed
  <2>5. Fed \in 0..Len(gen.stream) /\ Len(gen.stream) - Fed = Waiting
    BY <1>1, <2>2, <2>3, <2>4
  <2> QED
    BY <1>1, <2>1, <2>3, <2>5, SuffixIsSeq
<1> QED
  BY <1>2, <1>3

\* A stream that ends, or was not running.
LEMMA StreamIsDropped ==
  ASSUME ~Live', gen' \in Generation
  PROVE  unfed' = <<>>
BY DEF Live, unfed, Generation

\* A step that neither emits nor moves the position.
LEMMA StreamIsKept ==
  ASSUME context' = context, gen.at \notin {"idle", "prefill"}, gen'.at \notin {"idle", "prefill"},
         gen'.stream = gen.stream, gen'.start = gen.start, gen'.touched = gen.touched
  PROVE  UNCHANGED <<context, unfed>>
BY DEF unfed, token_count

\* Rows that are no continuation of the stream.
LEMMA RowsPrompt ==
  ASSUME NEW rows \in Seq(Token), Len(rows) > 0, context \in Seq(Token),
         context' = context \o rows, unfed' = <<>>
  PROVE  Decoder!Prompt
<1>1. Len(context') = Len(context) + Len(rows) /\ Len(context) \in Nat /\ Len(rows) \in Nat
  BY ConcatProperties, LenProperties
<1>2. 0 \in 0..Len(rows) /\ Len(context) + 0 = Len(context)
  BY <1>1
<1>3. SubSeq(context', 1, Len(context)) = context
  BY <1>2, PrefixOfConcat, NoPrefix, ConcatEmptySeq
<1>4. Len(context') > Len(context)
  BY <1>1
<1> QED
  BY <1>3, <1>4 DEF Decoder!Prompt
LEMMA CallsImplement ==
  ASSUME SessionInv, SessionInv', StreamInv, Calls
  PROVE  Decoder!Next
<1>1. Shapes /\ Shapes' /\ gen' \in Generation
  BY DEF SessionInv, Shapes
<1>2. unfed' = <<>>
  <2>1. CASE ~Live'
    BY <1>1, <2>1, StreamIsDropped
  <2>2. CASE Live'
    <3>1. Generate
      BY <2>2, StreamCalls
    <3>2. PICK ids \in Prompts \cup {<<>>}, speculative \in BOOLEAN, max \in 1..MaximumNew :
            IF ids # <<>> /\ Accepts(Len(ids))
            THEN /\ StartExecution(ids)
                 /\ gen' = [Idle EXCEPT !.at = "prefill",
                                        !.speculative = speculative /\ model.drafts # "none",
                                        !.max = max, !.active = TRUE]
            ELSE UNCHANGED <<running, failed, gen>>
      BY <3>1, Zenon DEF Generate
    <3>3. gen.at = "idle"
      BY <3>1 DEF Generate, Locked
    <3>4. gen'.at \in {"prefill", "idle"}
      BY <3>2, <3>3 DEF Idle
    <3> QED
      BY <2>2, <3>4 DEF Live
  <2> QED
    BY <2>1, <2>2
<1>3. context' = context \/ context' = <<>>
  BY DEF Calls, Prefill, Decode, Reset, Generate
<1> QED
  BY <1>2, <1>3 DEF Decoder!Next, Decoder!Stop, Decoder!Reset

LEMMA StopsImplement ==
  ASSUME gen' \in Generation, ~Live', context' = context
  PROVE  Decoder!Next
<1>1. unfed' = <<>>
  BY StreamIsDropped
<1> QED
  BY <1>1 DEF Decoder!Next, Decoder!Stop

LEMMA IdleImplements ==
  ASSUME gen' = Idle, SessionInv', context' = context
  PROVE  Decoder!Next
<1>1. ~Live' /\ gen' \in Generation
  BY StreamIdle DEF SessionInv, Shapes
<1> QED
  BY <1>1, StopsImplement

\* What the layers remember before a token is sampled.
LEMMA SampledAfterContext ==
  ASSUME SessionInv, StreamInv, Locked("sample")
  PROVE  NextToken = Best(context)
<1>1. ~Held /\ gen.at = "sample" /\ ~failed /\ ~InTransaction
  BY DEF Locked, StreamInv, StreamFits, InTransaction, Checking
<1>2. \A l \in Layer : layers[l].rows = context
  BY <1>1 DEF SessionInv, LayersHold, Holds, Closed
<1>3. [l \in Layer |-> layers[l].rows] = [l \in Layer |-> context]
  BY <1>2
<1> QED
  BY <1>1, <1>3 DEF NextToken, Best

\* Session::emit_token emits what the model chooses after all before.
LEMMA EmitImplements ==
  ASSUME GreedyChoosesTokens, SessionInv, SessionInv', StreamInv, Emit
  PROVE  Decoder!Next
<1>1. /\ Shapes /\ Progress /\ StreamExact /\ gen' \in Generation
      /\ gen.ids \in Seq(Token) /\ context \in Seq(Token) /\ gen.emitted \in Nat
      /\ Verified \in Nat /\ Len(gen.ids) \in Nat /\ gen.stream \in Seq(Token)
  BY LenProperties DEF SessionInv, Shapes, Generation, StreamInv, Verified
<1>2. /\ ~Held /\ gen.at \in {"sample", "emit"} /\ context' = context
      /\ gen' = [gen EXCEPT !.at = "callback", !.stream = Append(gen.stream, NextToken),
                            !.verifying = (gen.at = "emit"), !.expected = token_count,
                            !.emitted = IF gen.at = "emit" THEN gen.emitted + 1 ELSE 0]
  BY DEF Emit
<1>3. /\ gen'.at = "callback" /\ gen'.stream = Append(gen.stream, NextToken)
      /\ gen'.start = gen.start /\ gen'.touched = gen.touched
  BY <1>1, <1>2 DEF Shapes, Generation
<1>4. CASE ~Live
  <2>1. ~Live'
    BY <1>2, <1>3, <1>4 DEF Live
  <2> QED
    BY <1>1, <1>2, <2>1, StopsImplement
<1>5. CASE Live
  <2>1. /\ Fed \in 0..Len(gen.stream) /\ unfed = SubSeq(gen.stream, Fed + 1, Len(gen.stream))
        /\ unfed \in Seq(Token) /\ Len(unfed) = Waiting
        /\ \A i \in 1..Waiting : unfed[i] = gen.stream[Fed + i]
    BY <1>1, <1>5, UnfedIs
  <2>2. NextToken \in Token
    BY <1>1, <1>2, EmittedIsToken
  <2>3. unfed' = SubSeq(gen'.stream, Fed + 1, Len(gen'.stream))
    BY <1>2, <1>3, <1>5 DEF unfed, Live, Fed, token_count
  <2>4. unfed' = Append(unfed, NextToken)
    BY <1>1, <1>3, <2>1, <2>2, <2>3, SuffixOfAppend
  <2>5. NextToken = Best(context \o unfed)
    <3>1. CASE gen.at = "sample"
      <4>1. Len(unfed) = 0
        BY <2>1, <3>1 DEF Waiting
      <4>2. context \o unfed = context
        BY <1>1, <2>1, <4>1, EmptySeq, ConcatEmptySeq
      <4> QED
        BY <1>2, <3>1, <4>2, SampledAfterContext DEF Locked
    <3>2. CASE gen.at = "emit"
      <4>1. /\ Checking /\ InTransaction /\ gen.emitted < Verified /\ Verified <= Len(gen.ids)
            /\ Waiting = gen.emitted + 1
        BY <1>1, <3>2 DEF Checking, InTransaction, Progress, Waiting
      <4>2. OutputsAreBest /\ BlockInStream
        BY <1>1, <1>5, <4>1 DEF StreamExact
      <4> DEFINE front == SubSeq(gen.ids, 1, gen.emitted + 1)
      <4>3. gen.emitted + 1 \in 0..Len(gen.ids) /\ gen.emitted + 1 \in 1..Verified
        BY <1>1, <4>1
      <4>4. /\ front \in Seq(Token) /\ Len(front) = gen.emitted + 1
            /\ \A i \in 1..gen.emitted + 1 : front[i] = gen.ids[i]
        BY <1>1, <4>3, PrefixIsSeq
      <4>5. NextToken = Best(context \o front)
        BY <3>2, <4>2, <4>3 DEF NextToken, OutputsAreBest
      <4> HIDE DEF front
      <4>6. ASSUME NEW i \in 1..Len(unfed)
            PROVE  unfed[i] = front[i]
        <5>1. i \in 1..gen.emitted + 1 /\ i <= Verified
          BY <1>1, <2>1, <4>1
        <5>2. unfed[i] = gen.stream[Fed + i]
          BY <2>1
        <5> QED
          BY <4>2, <4>4, <5>1, <5>2 DEF BlockInStream
      <4>7. unfed = front
        BY <2>1, <4>1, <4>4, <4>6, SeqEqual
      <4> QED
        BY <4>5, <4>7
    <3> QED
      BY <1>2, <3>1, <3>2
  <2>6. Decoder!Emit
    BY <1>2, <2>4, <2>5 DEF Decoder!Emit, Best
  <2> QED
    BY <2>6 DEF Decoder!Next
<1> QED
  BY <1>4, <1>5

\* A token that was emitted is decoded, or a prompt ends.
LEMMA ExecutionImplements ==
  ASSUME SessionInv, SessionInv', StreamInv, ExecuteRow
  PROVE  [Decoder!Next]_<<context, unfed>>
<1>1. /\ Shapes /\ Control /\ StreamFits /\ StreamExact /\ gen' \in Generation
      /\ gen \in Generation /\ context \in Seq(Token) /\ running.ids \in Seq(Token)
      /\ Len(running.ids) \in Nat /\ running.done \in Nat
      /\ gen.stream \in Seq(Token) /\ token_count \in Nat /\ gen.start \in Nat
      /\ Len(gen.stream) \in Nat
  BY LenProperties DEF SessionInv, Shapes, StreamInv, Generation, token_count
<1>2. /\ Held /\ running.done < Len(running.ids)
      /\ gen.at \in {"idle", "prefill", "decode", "callback"}
      /\ gen.at = "callback" => gen.touched
  BY <1>1 DEF Control, ExecuteRow, StreamFits
<1>3. CASE Row < Len(running.ids)
  <2>1. UNCHANGED <<context, gen>>
    BY <1>3 DEF ExecuteRow
  <2> QED
    BY <2>1 DEF unfed, token_count
<1>4. CASE ~(Row < Len(running.ids))
  <2>1. /\ context' = context \o running.ids
        /\ gen' = IF gen.at = "prefill"
                  THEN [gen EXCEPT !.at = "sample", !.start = token_count + Len(running.ids)]
                  ELSE IF gen.at = "decode" THEN [gen EXCEPT !.at = "sample"] ELSE gen
    BY <1>4 DEF ExecuteRow
  <2>2. token_count' = token_count + Len(running.ids) /\ Len(running.ids) > 0
    BY <1>1, <1>2, <2>1, ConcatProperties DEF token_count
  <2>3. CASE gen.at = "prefill"
    <3>1. gen' = [gen EXCEPT !.at = "sample", !.start = token_count + Len(running.ids)]
      BY <2>1, <2>3
    <3>2. gen'.start = token_count' /\ gen'.stream = <<>>
      BY <1>1, <2>2, <2>3, <3>1 DEF Generation, StreamFits
    <3>3. unfed' = <<>>
      <4>1. 0 < token_count' - gen'.start + 1 /\ token_count' - gen'.start + 1 \in Int
        BY <1>1, <2>2, <3>2
      <4>2. SubSeq(gen'.stream, token_count' - gen'.start + 1, Len(gen'.stream)) = <<>>
        BY <3>2, <4>1, EmptySeq, SubSeqEmpty
      <4> QED
        BY <4>2 DEF unfed
    <3>4. Decoder!Prompt
      BY <1>1, <2>1, <2>2, <3>3, RowsPrompt
    <3> QED
      BY <3>4 DEF Decoder!Next
  <2>4. CASE gen.at = "decode" /\ Live
    <3>1. gen' = [gen EXCEPT !.at = "sample"]
      BY <2>1, <2>4
    <3>2. /\ gen'.at = "sample" /\ gen'.start = gen.start /\ gen'.stream = gen.stream
          /\ gen'.touched = gen.touched
      BY <1>1, <3>1 DEF Generation
    <3>3. /\ Fed \in 0..Len(gen.stream) /\ unfed = SubSeq(gen.stream, Fed + 1, Len(gen.stream))
          /\ unfed \in Seq(Token) /\ Len(unfed) = Waiting
          /\ \A i \in 1..Waiting : unfed[i] = gen.stream[Fed + i]
      BY <1>1, <2>4, UnfedIs
    <3>4. running.ids = <<Anchor>> /\ Waiting = 1 /\ Len(gen.stream) = Fed + 1
      BY <1>1, <2>4 DEF StreamExact, StreamCounted, Waiting, Checking
    <3>5. unfed[1] = Anchor
      <4>1. unfed[1] = gen.stream[Fed + 1]
        BY <3>3, <3>4
      <4> QED
        BY <3>4, <4>1 DEF Anchor
    <3>6. SubSeq(unfed, 1, 1) = running.ids
      <4>1. Len(unfed) = 1 /\ SubSeq(unfed, 1, Len(unfed)) = unfed
        BY <3>3, <3>4, SubSeqFull
      <4>2. unfed = running.ids
        <5>1. Len(running.ids) = 1 /\ running.ids[1] = Anchor
          BY <3>4
        <5>2. \A i \in 1..Len(unfed) : unfed[i] = running.ids[i]
          BY <3>5, <4>1, <5>1
        <5> QED
          BY <1>1, <3>3, <4>1, <5>1, <5>2, SeqEqual
      <4> QED
        BY <4>1, <4>2
    <3>7. unfed' = SubSeq(unfed, 1 + 1, Len(unfed))
      <4>1. SubSeq(unfed, 1 + 1, Len(unfed)) = SubSeq(gen.stream, (Fed + 1) + 1, Len(gen.stream))
        <5>1. 1 \in 0..Len(gen.stream) - Fed
          BY <1>1, <3>3, <3>4
        <5> QED
          BY <1>1, <3>3, <5>1, SuffixOfSuffix
      <4>2. unfed' = SubSeq(gen.stream, token_count' - gen.start + 1, Len(gen.stream))
        BY <2>4, <3>2 DEF unfed, Live
      <4>3. Len(running.ids) = 1
        BY <3>4
      <4>4. token_count' - gen.start = Fed + 1
        <5>1. token_count' = token_count + 1 /\ token_count \in Nat /\ gen.start \in Nat
          BY <1>1, <2>2, <4>3
        <5> QED
          BY <5>1 DEF Fed
      <4> QED
        BY <4>1, <4>2, <4>4
    <3>8. 1 \in 1..Len(unfed)
      BY <3>3, <3>4
    <3>9. Decoder!Feed
      BY <2>1, <3>6, <3>7, <3>8 DEF Decoder!Feed
    <3> QED
      BY <3>9 DEF Decoder!Next
  <2>5. CASE gen.at # "prefill" /\ ~(gen.at = "decode" /\ Live)
    <3>1. ~Live'
      <4>1. CASE gen.at = "decode"
        <5>1. gen' = [gen EXCEPT !.at = "sample"]
          BY <2>1, <4>1
        <5>2. gen'.touched = gen.touched
          BY <1>1, <5>1 DEF Generation
        <5> QED
          BY <2>5, <4>1, <5>2 DEF Live
      <4>2. CASE gen.at \in {"idle", "callback"}
        BY <1>2, <2>1, <4>2 DEF Live
      <4> QED
        BY <1>2, <2>5, <4>1, <4>2
    <3>2. unfed' = <<>>
      BY <1>1, <3>1, StreamIsDropped
    <3>3. Decoder!Prompt
      BY <1>1, <2>1, <2>2, <3>2, RowsPrompt
    <3> QED
      BY <3>3 DEF Decoder!Next
  <2> QED
    BY <2>3, <2>4, <2>5
<1> QED
  BY <1>3, <1>4
\* The accepted part of a draft becomes context: finish_cache and
\* commit_execution of what was emitted, all but the last token.
LEMMA SettleImplements ==
  ASSUME SessionInv, SessionInv', StreamInv, SomeEmitted, Settle
  PROVE  Decoder!Next
<1> DEFINE at == IF gen.go_on THEN "loop" ELSE "return"
           front == SubSeq(gen.ids, 1, gen.emitted)
<1>1. /\ Shapes /\ Progress /\ StreamExact /\ gen' \in Generation
      /\ gen \in Generation /\ context \in Seq(Token) /\ gen.ids \in Seq(Token)
      /\ Len(gen.ids) \in Nat /\ gen.emitted \in Nat /\ Verified \in Nat
      /\ gen.stream \in Seq(Token) /\ token_count \in Nat /\ gen.start \in Nat
      /\ Len(gen.stream) \in Nat
  BY LenProperties DEF SessionInv, Shapes, StreamInv, Generation, token_count, Verified
<1>2. /\ context' = context \o front
      /\ gen' = [gen EXCEPT !.at = at, !.ids = <<>>, !.outputs = <<>>, !.emitted = 0,
                            !.verifying = FALSE]
  BY DEF Settle, Committed
<1>3. gen.at = "settle" /\ gen.emitted \in 0..Len(gen.ids)
  BY SettleIsOpen DEF Settle
<1>4. /\ gen.emitted > 0 /\ gen.emitted <= Verified /\ Waiting = gen.emitted + 1 /\ Checking
  BY <1>1, <1>3 DEF SomeEmitted, Checking, Progress, Waiting
<1>5. at \in {"loop", "return"}
  OBVIOUS
<1>6. /\ front \in Seq(Token) /\ Len(front) = gen.emitted
      /\ \A i \in 1..gen.emitted : front[i] = gen.ids[i]
  BY <1>1, <1>3, PrefixIsSeq
<1> HIDE DEF at, front
<1>7. /\ gen'.at = at /\ gen'.start = gen.start /\ gen'.stream = gen.stream
      /\ gen'.touched = gen.touched
  BY <1>1, <1>2 DEF Generation
<1>8. token_count' = token_count + gen.emitted
  <2>1. /\ context \in Seq(Token) /\ front \in Seq(Token) /\ Len(front) = gen.emitted
        /\ context' = context \o front
    BY <1>1, <1>2, <1>6
  <2> QED
    BY <2>1, ConcatProperties DEF token_count
<1>9. CASE ~Live
  <2>1. ~Live'
    BY <1>3, <1>7, <1>9 DEF Live
  <2>2. unfed' = <<>>
    BY <1>1, <2>1, StreamIsDropped
  <2>3. Decoder!Prompt
    BY <1>1, <1>2, <1>4, <1>6, <2>2, RowsPrompt
  <2> QED
    BY <2>3 DEF Decoder!Next
<1>10. CASE Live
  <2>1. /\ Fed \in 0..Len(gen.stream) /\ unfed = SubSeq(gen.stream, Fed + 1, Len(gen.stream))
        /\ unfed \in Seq(Token) /\ Len(unfed) = gen.emitted + 1
        /\ \A i \in 1..gen.emitted + 1 : unfed[i] = gen.stream[Fed + i]
    BY <1>1, <1>4, <1>10, UnfedIs
  <2>2. BlockInStream /\ Len(gen.stream) = Fed + (gen.emitted + 1)
    BY <1>1, <1>4, <1>10 DEF StreamExact, StreamCounted
  <2>3. SubSeq(unfed, 1, gen.emitted) = front
    <3>1. gen.emitted \in 0..Len(unfed)
      BY <1>1, <2>1
    <3> DEFINE begin == SubSeq(unfed, 1, gen.emitted)
    <3>2. /\ begin \in Seq(Token) /\ Len(begin) = gen.emitted
          /\ \A i \in 1..gen.emitted : begin[i] = unfed[i]
      BY <2>1, <3>1, PrefixIsSeq
    <3> HIDE DEF begin
    <3>3. ASSUME NEW i \in 1..Len(begin)
          PROVE  begin[i] = front[i]
      <4>1. i \in 1..gen.emitted /\ i \in 1..gen.emitted + 1 /\ i <= Verified
        BY <1>1, <1>4, <3>2
      <4>2. gen.stream[Fed + i] = gen.ids[i]
        BY <2>2, <4>1 DEF BlockInStream
      <4> QED
        BY <1>6, <2>1, <3>2, <4>1, <4>2
    <3>4. begin = front
      BY <1>6, <3>2, <3>3, SeqEqual
    <3> QED
      BY <3>4 DEF begin
  <2>4. unfed' = SubSeq(unfed, gen.emitted + 1, Len(unfed))
    <3>1. gen.emitted \in 0..Len(gen.stream) - Fed
      <4>1. Len(gen.stream) - Fed = gen.emitted + 1
        BY <1>1, <2>1, <2>2
      <4> QED
        BY <1>1, <4>1
    <3>2. SubSeq(unfed, gen.emitted + 1, Len(unfed))
            = SubSeq(gen.stream, (Fed + gen.emitted) + 1, Len(gen.stream))
      BY <1>1, <2>1, <3>1, SuffixOfSuffix
    <3>3. unfed' = SubSeq(gen.stream, token_count' - gen.start + 1, Len(gen.stream))
      BY <1>5, <1>7, <1>10 DEF unfed, Live
    <3>4. token_count' - gen.start = Fed + gen.emitted
      <4>1. token_count \in Nat /\ gen.start \in Nat /\ gen.emitted \in Nat
        BY <1>1
      <4>2. token_count' = token_count + gen.emitted
        BY <1>8
      <4>3. (token_count + gen.emitted) - gen.start = (token_count - gen.start) + gen.emitted
        BY <4>1
      <4> QED
        BY <4>2, <4>3 DEF Fed
    <3> QED
      BY <3>2, <3>3, <3>4
  <2>5. gen.emitted \in 1..Len(unfed)
    BY <1>1, <1>4, <2>1, SMTT(30)
  <2>6. Decoder!Feed
    BY <1>2, <2>3, <2>4, <2>5 DEF Decoder!Feed
  <2> QED
    BY <2>6 DEF Decoder!Next
<1> QED
  BY <1>9, <1>10

\* The other steps of a generation neither emit nor move the position, or
\* they end it.
LEMMA QuietImplements ==
  ASSUME SessionInv, SessionInv',
         CallbackReturns \/ DecodeAnchor \/ BeginDraft \/ DraftRow \/ EndDraft \/ BeginVerify
           \/ VerifyRow \/ AcceptDraft \/ Accept \/ RejectAll
  PROVE  [Decoder!Next]_<<context, unfed>>
<1>1. Shapes /\ gen \in Generation /\ gen.verifying \in BOOLEAN
  BY DEF SessionInv, Shapes, Generation
<1>2. context' = context
  BY DEF CallbackReturns, DecodeAnchor, BeginDraft, DraftRow, EndDraft, BeginVerify, VerifyRow,
         AcceptDraft, Accept, RejectAll
<1>3. CASE gen' = Idle
  BY <1>2, <1>3, IdleImplements
<1>4. ASSUME NEW at \in Places \ {"idle", "prefill"}, gen.at \notin {"idle", "prefill"}, gen'.at = at,
             gen'.stream = gen.stream, gen'.start = gen.start, gen'.touched = gen.touched
      PROVE  UNCHANGED <<context, unfed>>
  BY <1>2, <1>4, StreamIsKept
<1>5. CASE CallbackReturns
  <2>1. gen.at = "callback"
    BY <1>5 DEF CallbackReturns, Locked
  <2>2. PICK wanted \in BOOLEAN :
          gen' = [gen EXCEPT !.go_on = wanted /\ Remaining > 0,
                    !.at = IF gen.verifying
                           THEN IF (wanted /\ Remaining > 0) /\ gen.emitted < Len(gen.outputs)
                                THEN "emit" ELSE "settle"
                           ELSE IF wanted /\ Remaining > 0 THEN "loop" ELSE "return"]
    BY <1>5, Zenon DEF CallbackReturns
  <2> DEFINE at == IF gen.verifying
                   THEN IF (wanted /\ Remaining > 0) /\ gen.emitted < Len(gen.outputs)
                        THEN "emit" ELSE "settle"
                   ELSE IF wanted /\ Remaining > 0 THEN "loop" ELSE "return"
             more == wanted /\ Remaining > 0
  <2>3. gen' = [gen EXCEPT !.go_on = more, !.at = at]
    BY <2>2
  <2>4. at \in Places \ {"idle", "prefill"}
    BY DEF Places
  <2> HIDE DEF at, more
  <2>5. /\ gen'.at = at /\ gen'.stream = gen.stream /\ gen'.start = gen.start
        /\ gen'.touched = gen.touched
    BY <1>1, <2>3 DEF Generation
  <2> QED
    BY <1>4, <2>1, <2>4, <2>5
<1>6. CASE DecodeAnchor /\ gen' # Idle
  <2>1. gen.at = "loop" /\ gen' = [gen EXCEPT !.at = "decode"]
    BY <1>6 DEF DecodeAnchor, Locked
  <2>2. /\ gen'.at = "decode" /\ gen'.stream = gen.stream /\ gen'.start = gen.start
        /\ gen'.touched = gen.touched
    BY <1>1, <2>1 DEF Generation
  <2> QED
    BY <1>2, <2>1, <2>2, StreamIsKept
<1>7. CASE BeginDraft /\ gen' # Idle
  <2>1. gen.at = "loop" /\ gen' = [gen EXCEPT !.at = "draft", !.ids = <<Anchor>>]
    BY <1>7 DEF BeginDraft, Locked
  <2>2. /\ gen'.at = "draft" /\ gen'.stream = gen.stream /\ gen'.start = gen.start
        /\ gen'.touched = gen.touched
    BY <1>1, <2>1 DEF Generation
  <2> QED
    BY <1>2, <2>1, <2>2, StreamIsKept
<1>8. CASE DraftRow
  <2>1. PICK id \in Token : gen' = [gen EXCEPT !.ids = Append(gen.ids, id)]
    BY <1>8 DEF DraftRow
  <2>2. gen.at = "draft"
    BY <1>8 DEF DraftRow, Locked
  <2>3. /\ gen'.at = "draft" /\ gen'.stream = gen.stream /\ gen'.start = gen.start
        /\ gen'.touched = gen.touched
    BY <1>1, <2>1, <2>2 DEF Generation
  <2> QED
    BY <1>2, <2>2, <2>3, StreamIsKept
<1>9. CASE EndDraft
  <2> DEFINE counts == (IF model.drafts = "mtp" THEN 1 ELSE 0)..Min({BlockSize, Remaining - 1})
  <2>1. PICK count \in counts :
          gen' = IF count = 0 THEN [gen EXCEPT !.at = "loop", !.active = FALSE, !.ids = <<>>]
                 ELSE [gen EXCEPT !.at = "verify", !.ids = SubSeq(gen.ids, 1, count + 1)]
    BY <1>9 DEF EndDraft
  <2> HIDE DEF counts
  <2>2. gen.at = "draft"
    BY <1>9 DEF EndDraft, Locked
  <2>3. /\ gen'.at \in {"loop", "verify"} /\ gen'.stream = gen.stream /\ gen'.start = gen.start
        /\ gen'.touched = gen.touched
    BY <1>1, <2>1 DEF Generation
  <2> QED
    BY <1>2, <2>2, <2>3, StreamIsKept
<1>10. CASE BeginVerify /\ gen' # Idle
  <2>1. gen.at = "verify" /\ gen' = [gen EXCEPT !.at = "forward", !.outputs = <<>>, !.accepted = 0]
    BY <1>10 DEF BeginVerify, Locked
  <2>2. /\ gen'.at = "forward" /\ gen'.stream = gen.stream /\ gen'.start = gen.start
        /\ gen'.touched = gen.touched
    BY <1>1, <2>1 DEF Generation
  <2> QED
    BY <1>2, <2>1, <2>2, StreamIsKept
<1>11. CASE VerifyRow
  <2> DEFINE at == IF Verified + 1 < Len(gen.ids) THEN "forward" ELSE "compare"
             best == Greedy([l \in Layer |-> layers'[l].rows])
  <2>1. gen.at = "forward" /\ gen' = [gen EXCEPT !.outputs = Append(gen.outputs, best), !.at = at]
    BY <1>11, Zenon DEF VerifyRow, Locked
  <2>2. at \in {"forward", "compare"}
    OBVIOUS
  <2> HIDE DEF at, best
  <2>3. /\ gen'.at = at /\ gen'.stream = gen.stream /\ gen'.start = gen.start
        /\ gen'.touched = gen.touched
    BY <1>1, <2>1 DEF Generation
  <2> QED
    BY <1>2, <2>1, <2>2, <2>3, StreamIsKept
<1>12. CASE AcceptDraft \/ Accept
  <2>1. /\ gen.at = "compare"
        /\ \/ gen' = [gen EXCEPT !.accepted = gen.accepted + 1]
           \/ gen' = [gen EXCEPT !.at = "emit", !.emitted = 0,
                        !.outputs = Append(SubSeq(gen.ids, 2, gen.accepted + 1),
                                           gen.outputs[gen.accepted + 1])]
    BY <1>12 DEF AcceptDraft, Accept, Locked
  <2>2. /\ gen'.at \in {"compare", "emit"} /\ gen'.stream = gen.stream /\ gen'.start = gen.start
        /\ gen'.touched = gen.touched
    BY <1>1, <2>1 DEF Generation
  <2> QED
    BY <1>2, <2>1, <2>2, StreamIsKept
<1>13. CASE RejectAll
  <2>1. /\ gen.at = "compare"
        /\ gen' = [gen EXCEPT !.at = "loop", !.active = StillDrafting, !.ids = <<>>, !.outputs = <<>>]
    BY <1>13 DEF RejectAll, Locked
  <2>2. /\ gen'.at = "loop" /\ gen'.stream = gen.stream /\ gen'.start = gen.start
        /\ gen'.touched = gen.touched
    BY <1>1, <2>1 DEF Generation
  <2> QED
    BY <1>2, <2>1, <2>2, StreamIsKept
<1> QED
  BY <1>3, <1>5, <1>6, <1>7, <1>8, <1>9, <1>10, <1>11, <1>12, <1>13

LEMMA NextImplements ==
  ASSUME GreedyChoosesTokens, SessionInv, SessionInv', StreamInv, SomeEmitted, [Next]_vars
  PROVE  [Decoder!Next]_<<context, unfed>>
<1>1. gen' \in Generation
  BY DEF SessionInv, Shapes
<1>2. CASE Calls
  BY <1>2, CallsImplement
<1>3. ASSUME ExecutionFails \/ GiveUp \/ Return \/ DraftFails \/ VerifyFails \/ SampleFails \/ SettleFails
      PROVE  Decoder!Next
  BY <1>1, <1>3, StreamStops, StopsImplement
<1>4. CASE Callback
  BY <1>3, <1>4, QuietImplements DEF Callback, CallbackModified, CallbackThrows
<1>5. CASE Steps
  BY <1>3, <1>5, ExecutionImplements, EmitImplements, SettleImplements, QuietImplements DEF Steps
<1>6. CASE UNCHANGED vars
  BY <1>6 DEF vars, unfed, token_count
<1> QED
  BY <1>2, <1>4, <1>5, <1>6 DEF Next

\* As long as nobody executes during a callback of a speculative generation,
\* whatever is drafted, rejected, chunked or rolled back, a generation emits
\* what decoding one token at a time would emit: the Session implements
\* GreedyDecoder (generate_speculative against generate_unlocked).
THEOREM SpeculationIsGreedy ==
  ASSUME ~Careless, GreedyChoosesTokens
  PROVE  Spec => SpeculationIsExact
<1>1. Init => Decoder!Init
  BY DEF Init, Idle, Decoder!Init, unfed
<1>2. SessionInv /\ SessionInv' /\ StreamInv /\ DraftInv /\ [Next]_vars
        => [Decoder!Next]_<<context, unfed>>
  BY NextImplements DEF DraftInv
<1> QED
  BY <1>1, <1>2, SessionIsConsistent, StreamInvariant, DraftInvariant, PTL
     DEF Spec, SpeculationIsExact, Decoder!Spec

=============================================================================
