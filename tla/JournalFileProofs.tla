--------------------------- MODULE JournalFileProofs ---------------------------
(* Theorems about JournalFile: what parse_valid makes of any file that     *)
(* appends, failures, crashes and damage can leave, of any length.         *)
EXTENDS JournalFile, SequenceTheorems, WellFoundedInduction, TLAPS

-------------------------------------------------------------------------------
(* Every set of numbers that is not empty has a least one. *)
LEMMA LeastNumber ==
  ASSUME NEW T, T \subseteq Nat, T # {}
  PROVE  \E x \in T : \A y \in T : x <= y
<1> DEFINE R == OpToRel(<, Nat)
<1>1. IsWellFoundedOn(R, Nat)
  BY NatLessThanWellFounded
<1>2. \A x, y \in Nat : x < y => <<x, y>> \in R
  BY DEF OpToRel
<1> HIDE DEF R
<1>3. PICK x \in T : \A y \in T : ~ (<<y, x>> \in R)
  BY <1>1, WFMin
<1>4. \A y \in T : ~ (y < x)
  BY <1>2, <1>3
<1> QED BY <1>3, <1>4

(* Two sequences, one behind the other. *)
LEMMA Joined ==
  ASSUME NEW S, NEW s \in Seq(S), NEW t \in Seq(S)
  PROVE  /\ s \o t \in Seq(S) /\ Len(s) \in Nat /\ Len(t) \in Nat
         /\ Len(s \o t) = Len(s) + Len(t)
         /\ \A i \in 1..Len(s) : (s \o t)[i] = s[i]
         /\ \A i \in 1..Len(t) : (s \o t)[Len(s) + i] = t[i]
<1>1. /\ s \o t \in Seq(S) /\ Len(s \o t) = Len(s) + Len(t)
      /\ \A i \in 1..(Len(s) + Len(t)) :
           (s \o t)[i] = IF i <= Len(s) THEN s[i] ELSE t[i - Len(s)]
  BY ConcatProperties
<1>2. Len(s) \in Nat /\ Len(t) \in Nat
  BY LenProperties
<1>3. ASSUME NEW i \in 1..Len(s) PROVE (s \o t)[i] = s[i]
  <2>1. i \in 1..(Len(s) + Len(t)) /\ i <= Len(s)
    BY ONLY <1>2, i \in 1..Len(s)
  <2> QED BY <1>1, <2>1
<1>4. ASSUME NEW i \in 1..Len(t) PROVE (s \o t)[Len(s) + i] = t[i]
  <2>1. /\ Len(s) + i \in 1..(Len(s) + Len(t)) /\ ~ (Len(s) + i <= Len(s))
        /\ (Len(s) + i) - Len(s) = i
    BY ONLY <1>2, i \in 1..Len(t)
  <2> QED BY <1>1, <2>1
<1> QED BY <1>1, <1>2, <1>3, <1>4

(* The loop of parse_valid, one record at a time: what is read from an     *)
(* offset on, given what is read from those behind it.                     *)
NextOffset(cells, offset) == offset + HeaderLen + cells[offset + 2].length + 1

ReadOne(cells, f, offset) ==
  IF ~ Intact(cells, offset) THEN <<>>
  ELSE IF f[NextOffset(cells, offset)] # <<>>
          /\ Follows(RecordAt(cells, offset), Head(f[NextOffset(cells, offset)]))
       THEN <<RecordAt(cells, offset)>> \o f[NextOffset(cells, offset)]
       ELSE <<RecordAt(cells, offset)>>

ReadFrom(cells) ==
  CHOOSE f : f = [offset \in 0..Len(cells) |-> ReadOne(cells, f, offset)]

LEMMA ParseFrom ==
  ASSUME NEW cells
  PROVE  ParseValid(cells) = ReadFrom(cells)[0]
BY DEF ParseValid, ReadFrom, ReadOne, NextOffset

-------------------------------------------------------------------------------
(* Records and cells. *)

Records == [session : Sessions, sequence : Nat, kind : Kinds]

HeaderOf(r) == [session |-> r.session, sequence |-> r.sequence,
                code |-> r.kind.code, length |-> r.kind.size]

Covered(r) == <<Magic, HeaderOf(r)>> \o Payload(r.kind)

Headers == [session : Sessions, sequence : Nat, code : Nat, length : Nat]

Pieces == [of : Kinds, part : Nat]

(* What a cell of the file can hold: damage leaves headers that no record  *)
(* has, but every checksum was made for a record.                          *)
Cells == {Magic, Junk} \cup Headers \cup Pieces \cup {Checksum(Covered(r)) : r \in Records}

(* A sequence stands in the file behind an offset. *)
Stands(cells, offset, s) ==
  offset + Len(s) <= Len(cells) /\ \A i \in 1..Len(s) : cells[offset + i] = s[i]

LEMMA KindNumbers ==
  ASSUME NEW k \in Kinds
  PROVE  /\ k.code \in Nat /\ k.size \in Nat /\ k.size >= 1
         /\ Payload(k) = [i \in 1..k.size |-> [of |-> k, part |-> i]]
         /\ Len(Payload(k)) = k.size /\ Payload(k) \in Seq(Pieces)
         /\ \A i \in 1..k.size : Payload(k)[i] = [of |-> k, part |-> i]
<1>1. k.code \in Nat /\ k.size \in Nat /\ k.size >= 1
  BY KindsAssumption
<1>2. Payload(k) = [i \in 1..k.size |-> [of |-> k, part |-> i]]
  BY DEF Payload
<1>3. Payload(k) \in [1..k.size -> Pieces]
  BY <1>1, <1>2 DEF Pieces
<1>4. Payload(k) \in Seq(Pieces) /\ Len(Payload(k)) = k.size
  BY <1>1, <1>3, SeqDef, LenProperties
<1> QED BY <1>1, <1>2, <1>4

(* A header is told from every other cell by its length. *)
LEMMA CellShapes ==
  ASSUME NEW cell \in Cells
  PROVE  /\ "length" \in DOMAIN cell <=> cell \in Headers
         /\ cell \in Headers => cell # Magic /\ cell # Junk
         /\ cell \in Pieces => cell # Magic /\ cell # Junk /\ cell \notin Headers
         /\ \A x : cell = Checksum(x) => \E r \in Records : x = Covered(r)
         /\ \A x : cell = Checksum(x) =>
              cell # Magic /\ cell # Junk /\ cell \notin Headers /\ cell \notin Pieces
<1>1. DOMAIN Magic = {"magic"} /\ DOMAIN Junk = {"junk"}
  BY DEF Magic, Junk
<1>2. \A h \in Headers : DOMAIN h = {"session", "sequence", "code", "length"}
  BY DEF Headers
<1>3. \A p \in Pieces : DOMAIN p = {"of", "part"}
  BY DEF Pieces
<1>4. \A x : DOMAIN Checksum(x) = {"crc"} /\ Checksum(x).crc = x
  BY DEF Checksum
<1>5. \/ cell = Magic \/ cell = Junk \/ cell \in Headers \/ cell \in Pieces
      \/ \E r \in Records : cell = Checksum(Covered(r))
  BY DEF Cells
<1>6. \A x : cell = Checksum(x) => \E r \in Records : x = Covered(r)
  BY <1>1, <1>2, <1>3, <1>4, <1>5
<1> QED BY <1>1, <1>2, <1>3, <1>4, <1>5, <1>6

(* The cells of a record. *)
LEMMA EncodeCells ==
  ASSUME NEW r \in Records
  PROVE  /\ r.kind \in Kinds /\ r.kind.size \in Nat /\ r.kind.size >= 1
         /\ HeaderOf(r) \in Headers
         /\ Len(Covered(r)) = r.kind.size + 2
         /\ Covered(r)[1] = Magic /\ Covered(r)[2] = HeaderOf(r)
         /\ \A i \in 1..r.kind.size : Covered(r)[2 + i] = [of |-> r.kind, part |-> i]
         /\ Encode(r) = Append(Covered(r), Checksum(Covered(r)))
         /\ Encode(r) \in Seq(Cells) /\ Covered(r) \in Seq(Cells)
         /\ Len(Encode(r)) = r.kind.size + 3
         /\ Encode(r)[1] = Magic /\ Encode(r)[2] = HeaderOf(r)
         /\ \A i \in 1..r.kind.size : Encode(r)[2 + i] = [of |-> r.kind, part |-> i]
         /\ Encode(r)[r.kind.size + 3] = Checksum(Covered(r))
<1>1. r.kind \in Kinds /\ r.session \in Sessions /\ r.sequence \in Nat
  BY DEF Records
<1>2. /\ r.kind.code \in Nat /\ r.kind.size \in Nat /\ r.kind.size >= 1
      /\ Len(Payload(r.kind)) = r.kind.size /\ Payload(r.kind) \in Seq(Pieces)
      /\ \A i \in 1..r.kind.size : Payload(r.kind)[i] = [of |-> r.kind, part |-> i]
  BY <1>1, KindNumbers
<1>3. HeaderOf(r) \in Headers
  BY <1>1, <1>2 DEF HeaderOf, Headers
<1>4. Encode(r) = Append(Covered(r), Checksum(Covered(r)))
  BY DEF Encode, Covered, HeaderOf
<1> DEFINE front == <<Magic, HeaderOf(r)>>
           body == Payload(r.kind)
           sum == Checksum(Covered(r))
<1>5. /\ front \in Seq(Cells) /\ Len(front) = 2 /\ front[1] = Magic /\ front[2] = HeaderOf(r)
      /\ sum \in Cells /\ Pieces \subseteq Cells
  BY <1>3 DEF Cells
<1>6. body \in Seq(Cells)
  <2>1. \A i \in 1..Len(body) : body[i] \in Cells
    BY <1>2, <1>5, ElementOfSeq
  <2> QED BY <1>2, <2>1, SeqDef, LenProperties
<1>7. Covered(r) = front \o body
  BY DEF Covered
<1> HIDE DEF front, body
<1>8. /\ Covered(r) \in Seq(Cells) /\ Len(Covered(r)) = r.kind.size + 2
      /\ \A i \in 1..2 : Covered(r)[i] = front[i]
      /\ \A i \in 1..r.kind.size : Covered(r)[2 + i] = body[i]
  <2>1. Len(front) = 2 /\ Len(body) = r.kind.size
    BY <1>2, <1>5 DEF body
  <2>2. 2 + r.kind.size = r.kind.size + 2
    BY <1>2
  <2>3. /\ front \o body \in Seq(Cells) /\ Len(front \o body) = Len(front) + Len(body)
        /\ \A i \in 1..Len(front) : (front \o body)[i] = front[i]
        /\ \A i \in 1..Len(body) : (front \o body)[Len(front) + i] = body[i]
    <3>1. front \in Seq(Cells) /\ body \in Seq(Cells)
      BY <1>5, <1>6
    <3> HIDE DEF Cells
    <3> QED BY ONLY <3>1, Joined, SMT
  <2> QED BY <1>7, <2>1, <2>2, <2>3
<1>9. /\ Encode(r) \in Seq(Cells) /\ Len(Encode(r)) = r.kind.size + 3
      /\ \A i \in 1..(r.kind.size + 2) : Encode(r)[i] = Covered(r)[i]
      /\ Encode(r)[r.kind.size + 3] = sum
  <2> HIDE DEF sum
  <2>1. /\ Append(Covered(r), sum) \in Seq(Cells)
        /\ Len(Append(Covered(r), sum)) = Len(Covered(r)) + 1
        /\ \A i \in 1..Len(Covered(r)) : Append(Covered(r), sum)[i] = Covered(r)[i]
        /\ Append(Covered(r), sum)[Len(Covered(r)) + 1] = sum
    BY ONLY <1>5, <1>8, AppendProperties
  <2>2. Len(Covered(r)) + 1 = r.kind.size + 3
    BY <1>2, <1>8
  <2> QED BY <1>4, <1>8, <2>1, <2>2 DEF sum
<1>10. \A i \in 1..r.kind.size : Covered(r)[2 + i] = [of |-> r.kind, part |-> i]
  BY <1>2, <1>8 DEF body
<1>11. \A i \in 1..r.kind.size : 2 + i \in 1..(r.kind.size + 2)
  BY <1>2
<1>12. 1 \in 1..(r.kind.size + 2) /\ 2 \in 1..(r.kind.size + 2)
  BY <1>2
<1>13. Covered(r)[1] = Magic /\ Covered(r)[2] = HeaderOf(r)
  <2>1. 1 \in 1..2 /\ 2 \in 1..2
    OBVIOUS
  <2> QED BY ONLY <1>5, <1>8, <2>1
<1>14. Encode(r)[1] = Magic /\ Encode(r)[2] = HeaderOf(r)
  BY ONLY <1>9, <1>12, <1>13
<1>15. \A i \in 1..r.kind.size : Encode(r)[2 + i] = [of |-> r.kind, part |-> i]
  BY ONLY <1>9, <1>10, <1>11
<1> QED BY ONLY <1>1, <1>2, <1>3, <1>4, <1>8, <1>9, <1>10, <1>13, <1>14, <1>15 DEF sum

(* No two records have the same cells. *)
LEMMA OneRecord ==
  ASSUME NEW r \in Records, NEW q \in Records, Covered(r) = Covered(q)
  PROVE  r = q
<1>1. HeaderOf(r) = HeaderOf(q)
  BY EncodeCells
<1>2. r.session = q.session /\ r.sequence = q.sequence
  BY <1>1 DEF HeaderOf
<1>3. [of |-> r.kind, part |-> 1] = [of |-> q.kind, part |-> 1]
  <2>1. 1 \in 1..r.kind.size /\ 1 \in 1..q.kind.size
    BY EncodeCells
  <2>2. /\ \A i \in 1..r.kind.size : Covered(r)[2 + i] = [of |-> r.kind, part |-> i]
        /\ \A i \in 1..q.kind.size : Covered(q)[2 + i] = [of |-> q.kind, part |-> i]
    BY EncodeCells
  <2> QED BY <2>1, <2>2
<1>4. r.kind = q.kind
  BY <1>3
<1> QED BY <1>2, <1>4 DEF Records

-------------------------------------------------------------------------------
(* What an intact record is. *)

(* A part of a sequence. *)
LEMMA Part ==
  ASSUME NEW S, NEW s \in Seq(S), NEW m \in 1..(Len(s) + 1), NEW n \in 0..Len(s), m <= n + 1
  PROVE  /\ SubSeq(s, m, n) \in Seq(S)
         /\ Len(SubSeq(s, m, n)) = n - m + 1
         /\ \A i \in 1..(n - m + 1) : SubSeq(s, m, n)[i] = s[m + i - 1]
<1>1. Len(s) \in Nat /\ \A i \in 1..Len(s) : s[i] \in S
  BY LenProperties, ElementOfSeq
<1>2. m \in Int /\ n \in Int /\ \A i \in m..n : s[i] \in S
  BY <1>1
<1>3. /\ SubSeq(s, m, n) \in Seq(S)
      /\ Len(SubSeq(s, m, n)) = IF m <= n THEN n - m + 1 ELSE 0
      /\ \A i \in 1..(n - m + 1) : SubSeq(s, m, n)[i] = s[m + i - 1]
  BY ONLY <1>2, SubSeqProperties
<1>4. (IF m <= n THEN n - m + 1 ELSE 0) = n - m + 1
  BY <1>2
<1> QED BY <1>3, <1>4

(* The beginning of a sequence. *)
LEMMA FirstPart ==
  ASSUME NEW S, NEW s \in Seq(S), NEW n \in 0..Len(s)
  PROVE  /\ SubSeq(s, 1, n) \in Seq(S) /\ Len(SubSeq(s, 1, n)) = n
         /\ \A i \in 1..n : SubSeq(s, 1, n)[i] = s[i]
<1>1. Len(s) \in Nat
  BY LenProperties
<1>2. /\ 1 \in 1..(Len(s) + 1) /\ n \in 0..Len(s) /\ 1 <= n + 1 /\ n - 1 + 1 = n
      /\ \A i \in 1..n : 1 + i - 1 = i
  BY <1>1
<1>3. /\ SubSeq(s, 1, n) \in Seq(S) /\ Len(SubSeq(s, 1, n)) = n - 1 + 1
      /\ \A i \in 1..(n - 1 + 1) : SubSeq(s, 1, n)[i] = s[1 + i - 1]
  BY <1>2, Part
<1> QED BY <1>2, <1>3

(* Two sequences with the same elements. *)
LEMMA SameElements ==
  ASSUME NEW S, NEW s \in Seq(S), NEW T, NEW t \in Seq(T), Len(s) = Len(t),
         \A i \in 1..Len(s) : s[i] = t[i]
  PROVE  s = t
BY SeqEqual

LEMMA PrefixElements ==
  ASSUME NEW S, NEW s \in Seq(S), NEW t \in Seq(S)
  PROVE  IsPrefix(s, t) <=> Len(s) <= Len(t) /\ \A i \in 1..Len(s) : s[i] = t[i]
<1>1. Len(s) \in Nat /\ Len(t) \in Nat
  BY LenProperties
<1>2. CASE Len(s) <= Len(t)
  <2> DEFINE n == Len(s)
             u == SubSeq(s, 1, n)
             v == SubSeq(t, 1, n)
  <2>1. /\ 1 \in 1..(Len(s) + 1) /\ n \in 0..Len(s) /\ 1 <= n + 1 /\ n - 1 + 1 = n
        /\ 1 \in 1..(Len(t) + 1) /\ n \in 0..Len(t)
        /\ \A i \in 1..n : 1 + i - 1 = i
    BY <1>1, <1>2
  <2>2. u \in Seq(S) /\ Len(u) = n /\ \A i \in 1..n : u[i] = s[i]
    <3>1. u \in Seq(S) /\ Len(u) = n - 1 + 1 /\ \A i \in 1..(n - 1 + 1) : u[i] = s[1 + i - 1]
      BY <2>1, Part
    <3> QED BY <2>1, <3>1
  <2>3. v \in Seq(S) /\ Len(v) = n /\ \A i \in 1..n : v[i] = t[i]
    <3>1. v \in Seq(S) /\ Len(v) = n - 1 + 1 /\ \A i \in 1..(n - 1 + 1) : v[i] = t[1 + i - 1]
      BY <2>1, Part
    <3> QED BY <2>1, <3>1
  <2>4. u = v <=> \A i \in 1..n : s[i] = t[i]
    <3>1. ASSUME \A i \in 1..n : s[i] = t[i] PROVE u = v
      <4>1. \A i \in 1..Len(u) : u[i] = v[i]
        BY <2>2, <2>3, <3>1
      <4> HIDE DEF u, v
      <4> QED BY <2>2, <2>3, <4>1, SameElements
    <3> QED BY <2>2, <2>3, <3>1
  <2> QED BY <1>2, <2>4 DEF IsPrefix
<1>3. CASE ~ (Len(s) <= Len(t))
  BY <1>3 DEF IsPrefix
<1> QED BY <1>2, <1>3

(* What stands behind an offset, in two parts. *)
LEMMA StandsJoined ==
  ASSUME NEW cells \in Seq(Cells), NEW offset \in Nat, NEW s \in Seq(Cells), NEW t \in Seq(Cells)
  PROVE  Stands(cells, offset, s \o t) <=>
           Stands(cells, offset, s) /\ Stands(cells, offset + Len(s), t)
<1> DEFINE m == Len(s)
           n == Len(t)
           u == s \o t
<1>1. m \in Nat /\ n \in Nat /\ Len(cells) \in Nat
  BY LenProperties
<1>2. /\ Len(u) = m + n
      /\ \A i \in 1..m : u[i] = s[i]
      /\ \A i \in 1..n : u[m + i] = t[i]
  BY Joined
<1> HIDE DEF m, n, u
<1>3. /\ offset + Len(u) <= Len(cells) <=> (offset + m) + n <= Len(cells)
      /\ (offset + m) + n <= Len(cells) => offset + m <= Len(cells)
  BY <1>1, <1>2
<1>4. ASSUME \A i \in 1..Len(u) : cells[offset + i] = u[i]
      PROVE  /\ \A i \in 1..m : cells[offset + i] = s[i]
             /\ \A i \in 1..n : cells[(offset + m) + i] = t[i]
  <2>1. \A i \in 1..m : i \in 1..Len(u)
    BY <1>1, <1>2
  <2>2. \A i \in 1..n : m + i \in 1..Len(u) /\ (offset + m) + i = offset + (m + i)
    BY <1>1, <1>2
  <2> QED BY <1>2, <1>4, <2>1, <2>2
<1>5. ASSUME \A i \in 1..m : cells[offset + i] = s[i],
             \A i \in 1..n : cells[(offset + m) + i] = t[i]
      PROVE  \A i \in 1..Len(u) : cells[offset + i] = u[i]
  <2> SUFFICES ASSUME NEW i \in 1..Len(u) PROVE cells[offset + i] = u[i]
    OBVIOUS
  <2>1. CASE i \in 1..m
    BY <1>2, <1>5, <2>1
  <2>2. CASE i \notin 1..m
    <3>1. i - m \in 1..n /\ m + (i - m) = i /\ (offset + m) + (i - m) = offset + i
      BY <1>1, <1>2, <2>2
    <3> QED BY <1>2, <1>5, <3>1
  <2> QED BY <2>1, <2>2
<1> QED BY <1>3, <1>4, <1>5 DEF Stands, m, n, u

(* The kind of a whole record is the only one its payload is of.           *)
LEMMA OneKind ==
  ASSUME NEW cells \in Seq(Cells), NEW offset \in Nat, NEW r \in Records,
         Stands(cells, offset, Encode(r))
  PROVE  /\ cells[offset + 1] = Magic /\ cells[offset + 2] = HeaderOf(r)
         /\ RecordAt(cells, offset) = r
         /\ NextOffset(cells, offset) = offset + Len(Encode(r))
<1>1. Len(cells) \in Nat /\ offset + r.kind.size + 3 <= Len(cells)
      /\ r.kind \in Kinds /\ r.kind.size \in Nat /\ r.kind.size >= 1 /\ Len(Encode(r)) = r.kind.size + 3
  <2>1. /\ r.kind \in Kinds /\ r.kind.size \in Nat /\ r.kind.size >= 1
        /\ Len(Encode(r)) = r.kind.size + 3
    BY EncodeCells
  <2>2. Len(cells) \in Nat /\ offset \in Nat /\ offset + Len(Encode(r)) <= Len(cells)
    BY LenProperties DEF Stands
  <2>3. offset + r.kind.size + 3 <= Len(cells)
    BY ONLY <2>1, <2>2
  <2> QED BY ONLY <2>1, <2>2, <2>3
<1>2. \A i \in 1..(r.kind.size + 3) : cells[offset + i] = Encode(r)[i]
  BY <1>1 DEF Stands
<1>3. cells[offset + 1] = Magic /\ cells[offset + 2] = HeaderOf(r)
  <2>1. 1 \in 1..(r.kind.size + 3) /\ 2 \in 1..(r.kind.size + 3)
    BY <1>1
  <2> QED BY <1>2, <2>1, EncodeCells
<1>4. \A i \in 1..r.kind.size : cells[offset + (2 + i)] = [of |-> r.kind, part |-> i]
  <2>1. \A i \in 1..r.kind.size : 2 + i \in 1..(r.kind.size + 3)
    BY <1>1
  <2> QED BY <1>2, <2>1, EncodeCells
<1> DEFINE rest == SubSeq(cells, offset + HeaderLen + 1, Len(cells))
<1>5. /\ rest \in Seq(Cells) /\ Len(rest) = Len(cells) - offset - 2
      /\ \A i \in 1..r.kind.size : rest[i] = [of |-> r.kind, part |-> i]
  <2> DEFINE from == offset + HeaderLen + 1
  <2>1. from = offset + 3 /\ from \in 1..(Len(cells) + 1) /\ Len(cells) \in 0..Len(cells)
        /\ from <= Len(cells) + 1
    BY <1>1 DEF HeaderLen
  <2>2. Len(cells) - from + 1 = Len(cells) - offset - 2
    BY <1>1, <2>1
  <2>3. \A i \in 1..r.kind.size :
          i \in 1..(Len(cells) - from + 1) /\ from + i - 1 = offset + (2 + i)
    <3> HIDE DEF from
    <3> DEFINE size == r.kind.size
               n == Len(cells)
    <3>1. offset \in Nat /\ size \in Nat /\ n \in Nat /\ offset + size + 3 <= n /\ from = offset + 3
      BY <1>1, <2>1
    <3> HIDE DEF size, n
    <3>2. \A i \in 1..size : i \in 1..(n - from + 1) /\ from + i - 1 = offset + (2 + i)
      BY ONLY <3>1
    <3> QED BY ONLY <3>2 DEF size, n
  <2> HIDE DEF from
  <2>4. /\ SubSeq(cells, from, Len(cells)) \in Seq(Cells)
        /\ Len(SubSeq(cells, from, Len(cells))) = Len(cells) - from + 1
        /\ \A i \in 1..(Len(cells) - from + 1) :
             SubSeq(cells, from, Len(cells))[i] = cells[from + i - 1]
    BY <2>1, Part
  <2>5. /\ rest \in Seq(Cells) /\ Len(rest) = Len(cells) - from + 1
        /\ \A i \in 1..(Len(cells) - from + 1) : rest[i] = cells[from + i - 1]
    BY <2>4 DEF from
  <2> HIDE DEF rest
  <2> QED BY <1>4, <2>2, <2>3, <2>5
<1> HIDE DEF rest
<1>6. ASSUME NEW k \in Kinds
      PROVE  IsPrefix(Payload(k), rest) <=> k = r.kind
  <2>1. /\ k.size \in Nat /\ k.size >= 1 /\ Len(Payload(k)) = k.size
        /\ Payload(k) \in Seq(Pieces)
        /\ \A i \in 1..k.size : Payload(k)[i] = [of |-> k, part |-> i]
    BY KindNumbers
  <2>2. Payload(k) \in Seq(Cells)
    <3>1. \A i \in 1..Len(Payload(k)) : Payload(k)[i] \in Cells
      BY <2>1, ElementOfSeq DEF Cells
    <3> QED BY <2>1, <3>1, SeqDef, LenProperties
  <2>3. IsPrefix(Payload(k), rest) <=>
          k.size <= Len(rest) /\ \A i \in 1..k.size : Payload(k)[i] = rest[i]
    BY <1>5, <2>1, <2>2, PrefixElements
  <2>4. ASSUME IsPrefix(Payload(k), rest) PROVE k = r.kind
    <3>1. 1 \in 1..k.size /\ 1 \in 1..r.kind.size
      BY <1>1, <2>1
    <3>2. [of |-> k, part |-> 1] = [of |-> r.kind, part |-> 1]
      BY <1>5, <2>1, <2>3, <2>4, <3>1
    <3> QED BY <3>2
  <2>5. ASSUME k = r.kind PROVE IsPrefix(Payload(k), rest)
    <3>1. k.size <= Len(rest)
      BY <1>1, <1>5, <2>5
    <3> QED BY <1>5, <2>1, <2>3, <2>5, <3>1
  <2> QED BY <2>4, <2>5
<1>7. (CHOOSE k \in Kinds : k.code = r.kind.code /\ IsPrefix(Payload(k), rest)) = r.kind
  BY <1>1, <1>6
<1>8. RecordAt(cells, offset) =
        [session |-> HeaderOf(r).session, sequence |-> HeaderOf(r).sequence,
         kind |-> CHOOSE k \in Kinds : k.code = HeaderOf(r).code /\ IsPrefix(Payload(k), rest)]
  BY <1>3 DEF RecordAt, rest
<1>9. /\ HeaderOf(r).session = r.session /\ HeaderOf(r).sequence = r.sequence
      /\ HeaderOf(r).code = r.kind.code /\ HeaderOf(r).length = r.kind.size
  BY DEF HeaderOf
<1>10. RecordAt(cells, offset) = [session |-> r.session, sequence |-> r.sequence, kind |-> r.kind]
  BY <1>7, <1>8, <1>9
<1>11. RecordAt(cells, offset) = r
  BY <1>10 DEF Records
<1>12. NextOffset(cells, offset) = offset + Len(Encode(r))
  <2>1. NextOffset(cells, offset) = offset + 2 + r.kind.size + 1
    BY <1>3, <1>9 DEF NextOffset, HeaderLen
  <2>2. offset \in Nat
    OBVIOUS
  <2> QED BY ONLY <1>1, <2>1, <2>2
<1> QED BY <1>3, <1>11, <1>12

(* An intact record is a record: only the checksum of one ends it. *)
LEMMA IntactRecord ==
  ASSUME NEW cells \in Seq(Cells), NEW offset \in Nat, Intact(cells, offset)
  PROVE  \E r \in Records : r.kind.size <= MaxRecordSize /\ Stands(cells, offset, Encode(r))
<1>1. Len(cells) \in Nat /\ \A i \in 1..Len(cells) : cells[i] \in Cells
  BY LenProperties, ElementOfSeq
<1> DEFINE header == cells[offset + 2]
           length == header.length
           checksumAt == offset + HeaderLen + header.length + 1
           covered == SubSeq(cells, offset + 1, checksumAt - 1)
<1>2. /\ Len(cells) - offset >= 3 /\ cells[offset + 1] = Magic
      /\ "length" \in DOMAIN header
      /\ length <= MaxRecordSize /\ checksumAt <= Len(cells)
      /\ cells[checksumAt] = Checksum(covered)
  BY DEF Intact, HeaderLen
<1>3. header \in Headers /\ length \in Nat
  <2>1. offset + 2 \in 1..Len(cells)
    BY <1>1, <1>2
  <2>2. header \in Cells
    BY <1>1, <2>1
  <2>3. header \in Headers
    BY <1>2, <2>2, CellShapes
  <2> QED BY <2>3 DEF Headers
<1>4. checksumAt = offset + length + 3
  <2>1. checksumAt = offset + 2 + length + 1 /\ offset \in Nat
    BY DEF HeaderLen
  <2> HIDE DEF header, length, checksumAt
  <2> QED BY ONLY <1>3, <2>1
<1> HIDE DEF header, length, checksumAt
<1>5. /\ covered \in Seq(Cells) /\ Len(covered) = length + 2
      /\ \A i \in 1..(length + 2) : covered[i] = cells[offset + i]
  <2> DEFINE from == offset + 1
             to == checksumAt - 1
  <2>1. /\ from \in 1..(Len(cells) + 1) /\ to \in 0..Len(cells) /\ from <= to + 1
        /\ to - from + 1 = length + 2
        /\ \A i \in 1..(length + 2) : from + i - 1 = offset + i
    BY <1>1, <1>2, <1>3, <1>4
  <2> HIDE DEF from, to
  <2>2. /\ SubSeq(cells, from, to) \in Seq(Cells) /\ Len(SubSeq(cells, from, to)) = to - from + 1
        /\ \A i \in 1..(to - from + 1) : SubSeq(cells, from, to)[i] = cells[from + i - 1]
    BY <2>1, Part
  <2>3. covered = SubSeq(cells, from, to)
    BY DEF from, to
  <2> HIDE DEF covered
  <2> QED BY <2>1, <2>2, <2>3
<1> HIDE DEF covered
<1>6. PICK r \in Records : covered = Covered(r)
  <2>1. checksumAt \in 1..Len(cells)
    BY <1>1, <1>2, <1>3, <1>4
  <2>2. cells[checksumAt] \in Cells
    BY <1>1, <2>1
  <2> QED BY <1>2, <2>2, CellShapes
<1>7. /\ r.kind.size \in Nat /\ Len(Covered(r)) = r.kind.size + 2
      /\ Encode(r) = Append(Covered(r), Checksum(Covered(r)))
      /\ Covered(r) \in Seq(Cells) /\ Len(Encode(r)) = r.kind.size + 3
  BY EncodeCells
<1>8. length = r.kind.size
  <2> DEFINE size == r.kind.size
  <2>1. length + 2 = size + 2 /\ length \in Nat /\ size \in Nat
    <3>1. Len(Covered(r)) = length + 2
      BY ONLY <1>5, <1>6
    <3>2. Len(Covered(r)) = size + 2 /\ size \in Nat
      BY ONLY <1>7
    <3> QED BY ONLY <1>3, <3>1, <3>2
  <2> HIDE DEF size
  <2>2. length = size
    BY ONLY <2>1
  <2> QED BY <2>2 DEF size
<1>9. /\ \A i \in 1..(length + 2) : Encode(r)[i] = Covered(r)[i]
      /\ Encode(r)[length + 3] = Checksum(Covered(r))
  <2>1. \A i \in 1..Len(Covered(r)) : Append(Covered(r), Checksum(Covered(r)))[i] = Covered(r)[i]
    <3>1. Covered(r) \in Seq(Cells)
      BY <1>7
    <3>2. Checksum(Covered(r)) \in Cells
      BY DEF Cells
    <3> QED BY ONLY <3>1, <3>2, AppendProperties
  <2>2. Encode(r)[r.kind.size + 3] = Checksum(Covered(r))
    BY EncodeCells
  <2> QED BY <1>7, <1>8, <2>1, <2>2
<1>10. \A i \in 1..(length + 3) : i \in 1..(length + 2) \/ i = length + 3
  BY <1>3
<1>11. \A i \in 1..(length + 3) : cells[offset + i] = Encode(r)[i]
  <2> SUFFICES ASSUME NEW i \in 1..(length + 3) PROVE cells[offset + i] = Encode(r)[i]
    OBVIOUS
  <2>1. CASE i \in 1..(length + 2)
    BY <1>5, <1>6, <1>9, <2>1
  <2>2. CASE i = length + 3
    <3>1. offset + i = checksumAt
      BY <1>3, <1>4, <2>2
    <3> QED BY <1>2, <1>6, <1>9, <2>2, <3>1
  <2> QED BY <1>10, <2>1, <2>2
<1>12. offset + Len(Encode(r)) <= Len(cells) /\ r.kind.size <= MaxRecordSize
  <2>1. Len(Encode(r)) = length + 3
    BY <1>7, <1>8
  <2>2. offset + (length + 3) <= Len(cells)
    BY <1>1, <1>2, <1>3, <1>4
  <2> QED BY <1>2, <1>8, <2>1, <2>2
<1> QED BY <1>7, <1>8, <1>11, <1>12 DEF Stands

(* And a whole record that is not too large is intact. *)
LEMMA RecordIntact ==
  ASSUME NEW cells \in Seq(Cells), NEW offset \in Nat, NEW r \in Records,
         r.kind.size <= MaxRecordSize, Stands(cells, offset, Encode(r))
  PROVE  Intact(cells, offset)
<1> DEFINE size == r.kind.size
           header == cells[offset + 2]
           checksumAt == offset + HeaderLen + header.length + 1
           covered == SubSeq(cells, offset + 1, checksumAt - 1)
<1>1. /\ Len(cells) \in Nat /\ size \in Nat /\ size >= 1 /\ Len(Encode(r)) = size + 3
      /\ r.kind \in Kinds
      /\ Encode(r)[size + 3] = Checksum(Covered(r)) /\ Covered(r) \in Seq(Cells)
      /\ Len(Covered(r)) = size + 2
      /\ Encode(r) = Append(Covered(r), Checksum(Covered(r)))
  BY EncodeCells, LenProperties
<1>2. offset + (size + 3) <= Len(cells) /\ \A i \in 1..(size + 3) : cells[offset + i] = Encode(r)[i]
  BY <1>1 DEF Stands
<1>3. cells[offset + 1] = Magic /\ header = HeaderOf(r)
  BY OneKind
<1>4. /\ "length" \in DOMAIN header /\ header.length = size /\ header.code = r.kind.code
      /\ checksumAt = offset + size + 3
  <2>1. "length" \in DOMAIN header /\ header.length = size /\ header.code = r.kind.code
    BY <1>3 DEF HeaderOf
  <2>2. checksumAt = offset + 2 + size + 1
    BY <2>1 DEF HeaderLen
  <2> HIDE DEF header, checksumAt, size
  <2>3. offset \in Nat
    OBVIOUS
  <2>4. offset + 2 + size + 1 = offset + size + 3
    BY ONLY <1>1, <2>3
  <2>5. checksumAt = offset + size + 3
    BY ONLY <2>2, <2>4
  <2>6. header.code = r.kind.code /\ header.length = size
    BY <2>1 DEF size
  <2> QED BY ONLY <2>1, <2>5, <2>6
<1> HIDE DEF header, checksumAt, size, covered
<1>number. offset \in Nat
  OBVIOUS
<1>5. \A i \in 1..(size + 2) : i \in 1..(size + 3)
  BY <1>1
<1>6. \A i \in 1..(size + 2) : cells[offset + i] = Covered(r)[i]
  <2>1. \A i \in 1..Len(Covered(r)) : Append(Covered(r), Checksum(Covered(r)))[i] = Covered(r)[i]
    BY <1>1, AppendProperties
  <2> QED BY <1>1, <1>2, <1>5, <2>1
<1>7. covered = Covered(r)
  <2> DEFINE from == offset + 1
             to == checksumAt - 1
  <2>1. /\ from \in 1..(Len(cells) + 1) /\ to \in 0..Len(cells) /\ from <= to + 1
        /\ to - from + 1 = size + 2
        /\ \A i \in 1..(size + 2) : from + i - 1 = offset + i
    BY ONLY <1>1, <1>2, <1>4, <1>number
  <2> HIDE DEF from, to
  <2>2. /\ SubSeq(cells, from, to) \in Seq(Cells) /\ Len(SubSeq(cells, from, to)) = to - from + 1
        /\ \A i \in 1..(to - from + 1) : SubSeq(cells, from, to)[i] = cells[from + i - 1]
    BY <2>1, Part
  <2>3. covered = SubSeq(cells, from, to)
    BY DEF from, to, covered
  <2> HIDE DEF covered
  <2>4. covered \in Seq(Cells) /\ Len(covered) = size + 2
        /\ \A i \in 1..(size + 2) : covered[i] = Covered(r)[i]
    BY ONLY <1>6, <2>1, <2>2, <2>3
  <2> QED BY <1>1, <2>4, SameElements
<1>8. cells[checksumAt] = Checksum(covered)
  <2>1. offset + (size + 3) = checksumAt /\ size + 3 \in 1..(size + 3)
    BY ONLY <1>1, <1>4, <1>number
  <2> QED BY <1>1, <1>2, <1>7, <2>1
<1>9. IsPrefix(Payload(r.kind), SubSeq(covered, HeaderLen + 1, Len(covered)))
  <2> DEFINE c == Covered(r)
             p == Payload(r.kind)
             t == SubSeq(c, 3, Len(c))
  <2>1. /\ Len(c) = size + 2 /\ c \in Seq(Cells)
        /\ 3 \in 1..(Len(c) + 1) /\ Len(c) \in 0..Len(c) /\ 3 <= Len(c) + 1
        /\ Len(c) - 3 + 1 = size /\ \A i \in 1..size : 3 + i - 1 = 2 + i
    <3>1. Len(c) = size + 2 /\ c \in Seq(Cells) /\ size \in Nat
      BY <1>1
    <3> HIDE DEF c
    <3> QED BY ONLY <3>1
  <2>2. /\ t \in Seq(Cells) /\ Len(t) = Len(c) - 3 + 1
        /\ \A i \in 1..(Len(c) - 3 + 1) : t[i] = c[3 + i - 1]
    <3> HIDE DEF c
    <3> QED BY <2>1, Part
  <2>3. /\ p \in Seq(Pieces) /\ Len(p) = size
        /\ \A i \in 1..size : p[i] = [of |-> r.kind, part |-> i]
    BY <1>1, KindNumbers DEF size
  <2>4. p \in Seq(Cells)
    <3>1. \A i \in 1..Len(p) : p[i] \in Cells
      BY <2>3, ElementOfSeq DEF Cells
    <3> QED BY <2>3, <3>1, SeqDef, LenProperties
  <2>5. \A i \in 1..size : c[2 + i] = [of |-> r.kind, part |-> i]
    BY EncodeCells DEF size
  <2> HIDE DEF c, p, t
  <2>6. \A i \in 1..size : p[i] = t[i]
    <3>1. \A i \in 1..size : t[i] = c[2 + i]
      BY ONLY <2>1, <2>2
    <3> QED BY ONLY <2>3, <2>5, <3>1
  <2>7. size <= Len(t)
    BY <1>1, <2>1, <2>2
  <2>8. IsPrefix(p, t)
    BY <2>2, <2>3, <2>4, <2>6, <2>7, PrefixElements
  <2>9. HeaderLen + 1 = 3
    BY DEF HeaderLen
  <2> QED BY <1>7, <2>8, <2>9 DEF c, p, t
<1>10. Len(cells) - offset >= HeaderLen + 1
  BY ONLY <1>1, <1>2, <1>number DEF HeaderLen
<1>11. checksumAt <= Len(cells) /\ header.length <= MaxRecordSize
  <2>1. offset + (size + 3) = checksumAt
    BY ONLY <1>1, <1>4, <1>number
  <2>2. size <= MaxRecordSize
    BY DEF size
  <2> QED BY ONLY <1>2, <1>4, <2>1, <2>2
<1> QED BY <1>1, <1>3, <1>4, <1>8, <1>9, <1>10, <1>11 DEF Intact, header, checksumAt, covered

LEMMA IntactIffRecord ==
  ASSUME NEW cells \in Seq(Cells), NEW offset \in Nat
  PROVE  Intact(cells, offset) <=>
           \E r \in Records : r.kind.size <= MaxRecordSize /\ Stands(cells, offset, Encode(r))
<1>1. ASSUME Intact(cells, offset)
      PROVE  \E r \in Records : r.kind.size <= MaxRecordSize /\ Stands(cells, offset, Encode(r))
  BY <1>1, IntactRecord
<1>2. ASSUME NEW r \in Records, r.kind.size <= MaxRecordSize, Stands(cells, offset, Encode(r))
      PROVE  Intact(cells, offset)
  BY <1>2, RecordIntact
<1> QED BY <1>1, <1>2

(* What is read at an offset where a record is intact. *)
LEMMA ReadRecord ==
  ASSUME NEW cells \in Seq(Cells), NEW offset \in Nat, Intact(cells, offset)
  PROVE  /\ RecordAt(cells, offset) \in Records
         /\ RecordAt(cells, offset).kind.size <= MaxRecordSize
         /\ Stands(cells, offset, Encode(RecordAt(cells, offset)))
         /\ NextOffset(cells, offset) = offset + Len(Encode(RecordAt(cells, offset)))
         /\ NextOffset(cells, offset) \in (offset + 1)..Len(cells)
<1>1. PICK r \in Records : r.kind.size <= MaxRecordSize /\ Stands(cells, offset, Encode(r))
  BY IntactRecord
<1>2. RecordAt(cells, offset) = r /\ NextOffset(cells, offset) = offset + Len(Encode(r))
  BY <1>1, OneKind
<1>3. Len(cells) \in Nat /\ Len(Encode(r)) = r.kind.size + 3 /\ r.kind.size \in Nat
  BY EncodeCells, LenProperties
<1>4. offset + Len(Encode(r)) <= Len(cells) /\ offset \in Nat
  BY <1>1 DEF Stands
<1>5. offset + Len(Encode(r)) \in (offset + 1)..Len(cells)
  <2> DEFINE m == Len(Encode(r))
             n == Len(cells)
  <2>1. m \in Nat /\ m >= 1 /\ n \in Nat /\ offset \in Nat /\ offset + m <= n
    BY ONLY <1>3, <1>4
  <2> HIDE DEF m, n
  <2>2. offset + m \in (offset + 1)..n
    BY ONLY <2>1
  <2> QED BY <2>2 DEF m, n
<1> QED BY <1>1, <1>2, <1>5

-------------------------------------------------------------------------------
(* What parse_valid reads from an offset on depends on what it reads       *)
(* behind it only, and the file ends: what it reads is defined.            *)

LEMMA Downward ==
  ASSUME NEW n \in Nat, NEW T,
         \A m \in 0..n : (\A k \in (m + 1)..n : k \in T) => m \in T
  PROVE  \A m \in 0..n : m \in T
<1> SUFFICES ASSUME NEW m \in 0..n, m \notin T PROVE FALSE
  OBVIOUS
<1> DEFINE B == {k \in 0..n : n - k \notin T}
<1>1. B \subseteq Nat /\ n - m \in B
  OBVIOUS
<1>2. PICK x \in B : \A y \in B : x <= y
  <2> HIDE DEF B
  <2> QED BY <1>1, LeastNumber
<1>3. x \in 0..n /\ n - x \in 0..n /\ n - x \notin T
  BY <1>2
<1>4. ASSUME NEW k \in (n - x + 1)..n PROVE k \in T
  <2>1. n - k \in 0..n /\ ~ (x <= n - k) /\ n - (n - k) = k
    BY ONLY <1>3, <1>4, n \in Nat
  <2> QED BY <1>2, <2>1
<1> QED BY <1>3, <1>4

LEMMA ReadOneAlike ==
  ASSUME NEW cells \in Seq(Cells), NEW offset \in 0..Len(cells), NEW f, NEW g,
         \A o \in (offset + 1)..Len(cells) : f[o] = g[o]
  PROVE  ReadOne(cells, f, offset) = ReadOne(cells, g, offset)
<1>1. CASE Intact(cells, offset)
  <2>1. NextOffset(cells, offset) \in (offset + 1)..Len(cells)
    BY <1>1, ReadRecord
  <2>2. f[NextOffset(cells, offset)] = g[NextOffset(cells, offset)]
    BY <2>1
  <2> QED BY <2>2 DEF ReadOne
<1>2. CASE ~ Intact(cells, offset)
  BY <1>2 DEF ReadOne
<1> QED BY <1>1, <1>2

LEMMA ReadFromOffset ==
  ASSUME NEW cells \in Seq(Cells)
  PROVE  \A o \in 0..Len(cells) : ReadFrom(cells)[o] = ReadOne(cells, ReadFrom(cells), o)
<1> DEFINE n == Len(cells)
           T == {m \in 0..n : \E f : \A o \in m..n : f[o] = ReadOne(cells, f, o)}
<1>1. n \in Nat
  BY LenProperties
<1>2. ASSUME NEW m \in 0..n, \A k \in (m + 1)..n : k \in T
      PROVE  m \in T
  <2>1. PICK f : \A o \in (m + 1)..n : f[o] = ReadOne(cells, f, o)
    <3>1. CASE m = n
      <4>1. \A o \in (m + 1)..n : FALSE
        BY <1>1, <3>1
      <4> QED BY <4>1
    <3>2. CASE m # n
      <4>1. m + 1 \in (m + 1)..n
        BY <1>1, <3>2
      <4> QED BY <1>2, <4>1
    <3> QED BY <3>1, <3>2
  <2> DEFINE g == [o \in m..n |-> IF o = m THEN ReadOne(cells, f, m) ELSE f[o]]
  <2>2. /\ m \in m..n
        /\ \A o \in (m + 1)..n : o \in m..n /\ o # m /\ o \in 0..n
        /\ \A o \in m..n : o \in 0..n /\ (o = m \/ o \in (m + 1)..n)
                           /\ \A p \in (o + 1)..n : p \in (m + 1)..n
    BY <1>1
  <2>3. \A o \in (m + 1)..n : f[o] = g[o]
    BY <2>2
  <2>4. g[m] = ReadOne(cells, f, m)
    BY <2>2
  <2> HIDE DEF g
  <2>5. ASSUME NEW o \in m..n PROVE g[o] = ReadOne(cells, g, o)
    <3>1. ReadOne(cells, f, o) = ReadOne(cells, g, o)
      <4>1. o \in 0..Len(cells) /\ \A p \in (o + 1)..Len(cells) : f[p] = g[p]
        BY <2>2, <2>3
      <4> QED BY <4>1, ReadOneAlike
    <3> QED BY <2>1, <2>2, <2>3, <2>4, <3>1
  <2> QED BY <2>5
<1>3. 0 \in T
  <2>1. 0 \in 0..n
    BY <1>1
  <2> HIDE DEF T, n
  <2> QED BY <1>1, <1>2, <2>1, Downward
<1>4. PICK f : \A o \in 0..n : f[o] = ReadOne(cells, f, o)
  BY <1>3
<1> DEFINE g == [o \in 0..n |-> f[o]]
<1>5. g = [o \in 0..Len(cells) |-> ReadOne(cells, g, o)]
  <2>1. \A o \in 0..n : f[o] = g[o]
    OBVIOUS
  <2>2. ASSUME NEW o \in 0..n PROVE f[o] = ReadOne(cells, g, o)
    <3>1. \A p \in (o + 1)..Len(cells) : p \in 0..n
      BY <1>1
    <3>2. o \in 0..Len(cells) /\ \A p \in (o + 1)..Len(cells) : f[p] = g[p]
      BY <2>1, <3>1
    <3> HIDE DEF g
    <3>3. ReadOne(cells, f, o) = ReadOne(cells, g, o)
      BY <3>2, ReadOneAlike
    <3> QED BY <1>4, <3>3
  <2> QED BY <2>2
<1> HIDE DEF g
<1>6. ReadFrom(cells) = [o \in 0..Len(cells) |-> ReadOne(cells, ReadFrom(cells), o)]
  BY <1>5 DEF ReadFrom
<1> QED BY <1>6

-------------------------------------------------------------------------------
(* What a sequence of records is on disk. *)

LEMMA Upward ==
  ASSUME NEW T, \A n \in Nat : (\A k \in 0..(n - 1) : k \in T) => n \in T
  PROVE  \A n \in Nat : n \in T
<1> SUFFICES ASSUME NEW n \in Nat, n \notin T PROVE FALSE
  OBVIOUS
<1> DEFINE B == {k \in Nat : k \notin T}
<1>1. B \subseteq Nat /\ n \in B
  OBVIOUS
<1>2. PICK x \in B : \A y \in B : x <= y
  <2> HIDE DEF B
  <2> QED BY <1>1, LeastNumber
<1>3. x \in Nat /\ x \notin T
  BY <1>2
<1>4. ASSUME NEW k \in 0..(x - 1) PROVE k \in T
  <2>1. k \in Nat /\ ~ (x <= k)
    BY <1>3
  <2> QED BY <1>2, <2>1
<1> QED BY <1>3, <1>4

(* The sequences up to the i-th of them, one behind the other. *)
JoinOne(seqs, f, i) == IF i = 1 THEN seqs[i] ELSE f[i - 1] \o seqs[i]

JoinUpTo(seqs) == CHOOSE f : f = [i \in 1..Len(seqs) |-> JoinOne(seqs, f, i)]

LEMMA FlattenJoins ==
  ASSUME NEW seqs, Len(seqs) # 0
  PROVE  FlattenSeq(seqs) = JoinUpTo(seqs)[Len(seqs)]
BY DEF FlattenSeq, JoinUpTo, JoinOne

LEMMA JoinUpToEach ==
  ASSUME NEW seqs, Len(seqs) \in Nat
  PROVE  \A i \in 1..Len(seqs) : JoinUpTo(seqs)[i] = JoinOne(seqs, JoinUpTo(seqs), i)
<1> DEFINE n == Len(seqs)
           T == {m \in Nat : \E f : \A i \in 1..m : f[i] = JoinOne(seqs, f, i)}
<1>1. ASSUME NEW m \in Nat, \A k \in 0..(m - 1) : k \in T
      PROVE  m \in T
  <2>1. PICK f : \A i \in 1..(m - 1) : f[i] = JoinOne(seqs, f, i)
    <3>1. CASE m = 0
      <4>1. \A i \in 1..(m - 1) : FALSE
        BY <3>1
      <4> QED BY <4>1
    <3>2. CASE m # 0
      <4>1. m - 1 \in 0..(m - 1)
        BY <3>2
      <4> QED BY <1>1, <4>1
    <3> QED BY <3>1, <3>2
  <2> DEFINE g == [i \in 1..m |-> IF i = m THEN JoinOne(seqs, f, m) ELSE f[i]]
  <2>2. ASSUME NEW i \in 1..m PROVE g[i] = JoinOne(seqs, g, i)
    <3>1. /\ i = 1 \/ (i # 1 /\ i - 1 \in 1..m /\ i - 1 # m)
          /\ i = m \/ i \in 1..(m - 1)
      BY <1>1
    <3>2. i # 1 => g[i - 1] = f[i - 1]
      BY <3>1
    <3>3. JoinOne(seqs, g, i) = JoinOne(seqs, f, i)
      <4> HIDE DEF g
      <4> QED BY <3>2 DEF JoinOne
    <3> QED BY <2>1, <3>1, <3>3
  <2> HIDE DEF g
  <2> QED BY <2>2
<1>2. n \in T
  <2>1. n \in Nat
    OBVIOUS
  <2> HIDE DEF T, n
  <2> QED BY <1>1, <2>1, Upward
<1>3. PICK f : \A i \in 1..n : f[i] = JoinOne(seqs, f, i)
  BY <1>2
<1> DEFINE g == [i \in 1..n |-> f[i]]
<1>4. g = [i \in 1..Len(seqs) |-> JoinOne(seqs, g, i)]
  <2>1. ASSUME NEW i \in 1..n PROVE f[i] = JoinOne(seqs, g, i)
    <3>1. i # 1 => i - 1 \in 1..n
      OBVIOUS
    <3>2. i # 1 => g[i - 1] = f[i - 1]
      BY <3>1
    <3> HIDE DEF g
    <3>3. JoinOne(seqs, g, i) = JoinOne(seqs, f, i)
      BY <3>2 DEF JoinOne
    <3> QED BY <1>3, <3>3
  <2> QED BY <2>1
<1> HIDE DEF g
<1>5. JoinUpTo(seqs) = [i \in 1..Len(seqs) |-> JoinOne(seqs, JoinUpTo(seqs), i)]
  BY <1>4 DEF JoinUpTo
<1> QED BY <1>5

(* With one more sequence, everything before it is joined as without. *)
LEMMA JoinPrefix ==
  ASSUME NEW s, NEW t, Len(s) \in Nat, Len(t) \in Nat, Len(s) <= Len(t),
         \A i \in 1..Len(s) : t[i] = s[i]
  PROVE  \A i \in 1..Len(s) : JoinUpTo(t)[i] = JoinUpTo(s)[i]
<1> DEFINE T == {i \in Nat : i \in 1..Len(s) => JoinUpTo(t)[i] = JoinUpTo(s)[i]}
<1>1. ASSUME NEW i \in Nat, \A k \in 0..(i - 1) : k \in T
      PROVE  i \in T
  <2> SUFFICES ASSUME i \in 1..Len(s) PROVE JoinUpTo(t)[i] = JoinUpTo(s)[i]
    OBVIOUS
  <2>1. /\ i \in 1..Len(t)
        /\ i # 1 => i - 1 \in 0..(i - 1) /\ i - 1 \in 1..Len(s)
    OBVIOUS
  <2>2. i # 1 => JoinUpTo(t)[i - 1] = JoinUpTo(s)[i - 1]
    BY <1>1, <2>1
  <2>3. JoinOne(s, JoinUpTo(s), i) = JoinOne(t, JoinUpTo(t), i)
    BY <2>2 DEF JoinOne
  <2> QED BY <2>1, <2>3, JoinUpToEach
<1>2. \A i \in Nat : i \in T
  <2> HIDE DEF T
  <2> QED BY <1>1, Upward
<1>3. \A i \in 1..Len(s) : i \in Nat
  OBVIOUS
<1> QED BY <1>2, <1>3

LEMMA WrittenNothing ==
  Written(<<>>) = <<>>
<1>1. FlattenSeq([i \in DOMAIN <<>> |-> Encode(<<>>[i])]) = <<>>
  BY DEF FlattenSeq
<1> QED BY <1>1 DEF Written

(* One more record is written behind the others. *)
LEMMA WrittenAppend ==
  ASSUME NEW q \in Seq(Records), NEW r \in Records
  PROVE  /\ Written(<<r>>) = Encode(r)
         /\ q # <<>> => Written(Append(q, r)) = Written(q) \o Encode(r)
<1> DEFINE E(p) == [i \in DOMAIN p |-> Encode(p[i])]
<1>1. ASSUME NEW p \in Seq(Records)
      PROVE  /\ Len(p) \in Nat /\ E(p) \in Seq(Seq(Cells)) /\ Len(E(p)) = Len(p)
             /\ \A i \in 1..Len(p) : E(p)[i] = Encode(p[i])
  <2>1. Len(p) \in Nat /\ DOMAIN p = 1..Len(p) /\ \A i \in 1..Len(p) : p[i] \in Records
    BY LenProperties, ElementOfSeq
  <2>2. \A i \in 1..Len(p) : Encode(p[i]) \in Seq(Cells)
    BY <2>1, EncodeCells
  <2>3. E(p) \in [1..Len(p) -> Seq(Cells)]
    BY <2>1, <2>2
  <2>4. \A i \in 1..Len(p) : E(p)[i] = Encode(p[i])
    BY <2>1
  <2> HIDE DEF E
  <2>5. E(p) \in Seq(Seq(Cells)) /\ Len(E(p)) = Len(p)
    BY <2>1, <2>3, SeqDef, LenProperties
  <2> QED BY <2>1, <2>4, <2>5
<1>2. ASSUME NEW p \in Seq(Records), Len(p) # 0
      PROVE  Written(p) = JoinUpTo(E(p))[Len(p)] /\ Len(E(p)) = Len(p)
  <2>1. Len(E(p)) = Len(p)
    BY <1>1
  <2>2. Written(p) = FlattenSeq(E(p))
    BY DEF Written
  <2> HIDE DEF E
  <2> QED BY <1>2, <2>1, <2>2, FlattenJoins
<1>3. <<r>> \in Seq(Records) /\ Len(<<r>>) = 1 /\ <<r>>[1] = r
  OBVIOUS
<1> HIDE DEF E
<1>4. Written(<<r>>) = Encode(r)
  <2> DEFINE one == <<r>>
  <2>1. one \in Seq(Records) /\ Len(one) = 1 /\ one[1] = r
    BY <1>3
  <2> HIDE DEF one
  <2>2. 1 \in 1..1 /\ Len(E(one)) = 1 /\ E(one)[1] = Encode(r)
    <3>1. Len(E(one)) = Len(one) /\ \A i \in 1..Len(one) : E(one)[i] = Encode(one[i])
      BY <1>1, <2>1
    <3>2. 1 \in 1..Len(one)
      BY ONLY <2>1
    <3>3. E(one)[1] = Encode(one[1])
      BY <3>1, <3>2
    <3> QED BY ONLY <2>1, <3>1, <3>2, <3>3
  <2>3. JoinUpTo(E(one))[1] = JoinOne(E(one), JoinUpTo(E(one)), 1)
    BY <2>2, JoinUpToEach
  <2>4. JoinOne(E(one), JoinUpTo(E(one)), 1) = E(one)[1]
    BY DEF JoinOne
  <2>5. Written(one) = JoinUpTo(E(one))[1]
    <3>1. Len(one) # 0
      BY ONLY <2>1
    <3>2. Written(one) = JoinUpTo(E(one))[Len(one)]
      BY <1>2, <2>1, <3>1
    <3> QED BY ONLY <2>1, <3>2
  <2> QED BY <2>2, <2>3, <2>4, <2>5 DEF one
<1>5. ASSUME q # <<>> PROVE Written(Append(q, r)) = Written(q) \o Encode(r)
  <2> DEFINE p == Append(q, r)
             n == Len(q)
  <2>1. /\ p \in Seq(Records) /\ n \in Nat /\ n # 0 /\ Len(p) = n + 1 /\ p[n + 1] = r
        /\ \A i \in 1..n : p[i] = q[i]
    <3>1. n \in Nat /\ n # 0
      BY <1>5, LenProperties, EmptySeq
    <3>2. p \in Seq(Records) /\ Len(p) = n + 1 /\ \A i \in 1..n : p[i] = q[i]
      BY AppendProperties
    <3>3. p[n + 1] = r
      BY AppendProperties
    <3> QED BY <3>1, <3>2, <3>3
  <2> HIDE DEF p, n
  <2>2. /\ Len(E(q)) = n /\ Len(E(p)) = n + 1 /\ n \in 1..n /\ n + 1 \in 1..(n + 1)
        /\ n + 1 # 1 /\ (n + 1) - 1 = n /\ n <= n + 1
    BY <1>1, <2>1 DEF n
  <2>3. \A i \in 1..n : E(p)[i] = E(q)[i]
    <3>1. \A i \in 1..n : i \in 1..(n + 1)
      BY <2>1
    <3>2. \A i \in 1..n : E(p)[i] = Encode(p[i]) /\ E(q)[i] = Encode(q[i])
      BY <1>1, <2>1, <3>1 DEF n
    <3> QED BY <2>1, <3>2
  <2>4. E(p)[n + 1] = Encode(r)
    BY <1>1, <2>1, <2>2
  <2>5. JoinUpTo(E(p))[n] = JoinUpTo(E(q))[n]
    <3>1. /\ Len(E(q)) \in Nat /\ Len(E(p)) \in Nat /\ Len(E(q)) <= Len(E(p))
          /\ \A i \in 1..Len(E(q)) : E(p)[i] = E(q)[i]
      BY <2>1, <2>2, <2>3
    <3>2. \A i \in 1..Len(E(q)) : JoinUpTo(E(p))[i] = JoinUpTo(E(q))[i]
      BY <3>1, JoinPrefix
    <3> QED BY <2>2, <3>2
  <2>6. JoinUpTo(E(p))[n + 1] = JoinOne(E(p), JoinUpTo(E(p)), n + 1)
    BY <2>1, <2>2, JoinUpToEach
  <2>7. JoinUpTo(E(p))[n + 1] = JoinUpTo(E(q))[n] \o Encode(r)
    BY <2>2, <2>4, <2>5, <2>6 DEF JoinOne
  <2>8. Written(q) = JoinUpTo(E(q))[n]
    BY <1>2, <2>1 DEF n
  <2>9. Written(p) = JoinUpTo(E(p))[n + 1]
    BY <1>2, <2>1, <2>2
  <2> QED BY <2>7, <2>8, <2>9 DEF p
<1> QED BY <1>4, <1>5

(* A set of sequences that has the empty one, and with a sequence every    *)
(* sequence that is one longer, has them all.                              *)
LEMMA Growing ==
  ASSUME NEW S, NEW T, <<>> \in T,
         \A q \in Seq(S), x \in S : q \in T => Append(q, x) \in T
  PROVE  \A q \in Seq(S) : q \in T
<1> DEFINE L == {n \in Nat : \A q \in Seq(S) : Len(q) = n => q \in T}
<1>1. ASSUME NEW n \in Nat, \A k \in 0..(n - 1) : k \in L
      PROVE  n \in L
  <2> SUFFICES ASSUME NEW q \in Seq(S), Len(q) = n PROVE q \in T
    OBVIOUS
  <2>1. CASE n = 0
    <3>1. q = <<>>
      BY <2>1, EmptySeq
    <3> QED BY <3>1
  <2>2. CASE n # 0
    <3> DEFINE p == SubSeq(q, 1, n - 1)
    <3>1. n \in 1..Len(q) /\ 1 \in 1..Len(q) /\ n \in 1..Len(q) /\ n - 1 \in 0..(n - 1)
      BY <2>2
    <3>2. q[n] \in S
      BY <3>1, ElementOfSeq
    <3>3. p \in Seq(S) /\ Len(p) = n - 1
      <4>1. 1 \in 1..(Len(q) + 1) /\ n - 1 \in 0..Len(q) /\ 1 <= (n - 1) + 1 /\ (n - 1) - 1 + 1 = n - 1
        BY <2>2
      <4> HIDE DEF p
      <4>2. SubSeq(q, 1, n - 1) \in Seq(S) /\ Len(SubSeq(q, 1, n - 1)) = (n - 1) - 1 + 1
        BY <4>1, Part
      <4> QED BY <4>1, <4>2 DEF p
    <3>4. q = Append(p, q[n])
      <4>1. SubSeq(q, 1, n) = p \o <<q[n]>>
        BY <3>1, SubSeqRecursiveSecond
      <4>2. SubSeq(q, 1, n) = q
        BY SubSeqFull
      <4>3. Append(p, q[n]) = p \o <<q[n]>>
        BY <3>2, <3>3, AppendIsConcat
      <4> QED BY <4>1, <4>2, <4>3
    <3> HIDE DEF p
    <3>5. p \in T
      BY <1>1, <3>1, <3>3
    <3>6. Append(p, q[n]) \in T
      BY <3>2, <3>3, <3>5
    <3> QED BY <3>4, <3>6
  <2> QED BY <2>1, <2>2
<1>2. \A n \in Nat : n \in L
  <2> HIDE DEF L
  <2> QED BY <1>1, Upward
<1>3. \A q \in Seq(S) : Len(q) \in Nat
  BY LenProperties
<1> QED BY <1>2, <1>3

LEMMA WrittenRecords ==
  ASSUME NEW q \in Seq(Records)
  PROVE  /\ Written(q) \in Seq(Cells)
         /\ \A r \in Records : Written(Append(q, r)) = Written(q) \o Encode(r)
<1> DEFINE T == {p \in Seq(Records) : Written(p) \in Seq(Cells)}
<1>1. \A r \in Records : Encode(r) \in Seq(Cells)
  BY EncodeCells
<1>2. ASSUME NEW p \in Seq(Records), NEW r \in Records
      PROVE  Written(Append(p, r)) = Written(p) \o Encode(r)
  <2>1. CASE p = <<>>
    <3>1. Written(p) = <<>> /\ Written(<<r>>) = Encode(r)
      BY <2>1, WrittenNothing, WrittenAppend
    <3>2. Append(p, r) = <<r>>
      BY <2>1
    <3>3. <<>> \o Encode(r) = Encode(r)
      BY <1>1, ConcatEmptySeq
    <3> QED BY <3>1, <3>2, <3>3
  <2>2. CASE p # <<>>
    BY <2>2, WrittenAppend
  <2> QED BY <2>1, <2>2
<1>3. ASSUME NEW p \in Seq(Records), NEW r \in Records, p \in T
      PROVE  Append(p, r) \in T
  <2>1. Append(p, r) \in Seq(Records)
    BY AppendProperties
  <2>2. Written(p) \o Encode(r) \in Seq(Cells)
    BY <1>1, <1>3, Joined
  <2> QED BY <1>2, <2>1, <2>2
<1>4. <<>> \in T
  <2>1. <<>> \in Seq(Records) /\ <<>> \in Seq(Cells)
    BY EmptySeq
  <2> QED BY <2>1, WrittenNothing
<1> HIDE DEF T
<1>5. \A p \in Seq(Records) : p \in T
  BY <1>3, <1>4, Growing
<1> QED BY <1>2, <1>5 DEF T

(* And one more in front of them. *)
LEMMA WrittenCons ==
  ASSUME NEW r \in Records, NEW q \in Seq(Records)
  PROVE  Written(<<r>> \o q) = Encode(r) \o Written(q)
<1> DEFINE one == <<r>>
           T == {p \in Seq(Records) : Written(one \o p) = Encode(r) \o Written(p)}
<1>1. one \in Seq(Records) /\ <<>> \in Seq(Records)
  BY EmptySeq
<1>2. Written(one) = Encode(r)
  BY <1>1, WrittenAppend
<1>3. \A p \in Seq(Records) : one \o p \in Seq(Records)
  BY <1>1, Joined
<1> HIDE DEF one
<1>4. \A x \in Records : Encode(x) \in Seq(Cells)
  BY EncodeCells
<1>5. <<>> \in T
  <2>1. one \o <<>> = one
    BY <1>1, ConcatEmptySeq
  <2>2. Encode(r) \o <<>> = Encode(r)
    BY <1>4, ConcatEmptySeq
  <2> QED BY <1>1, <1>2, <2>1, <2>2, WrittenNothing
<1>6. ASSUME NEW p \in Seq(Records), NEW x \in Records, p \in T
      PROVE  Append(p, x) \in T
  <2>1. one \o Append(p, x) = Append(one \o p, x)
    <3>1. <<x>> \in Seq(Records)
      OBVIOUS
    <3>2. Append(p, x) = p \o <<x>> /\ Append(one \o p, x) = (one \o p) \o <<x>>
      BY <1>3, AppendIsConcat
    <3>3. (one \o p) \o <<x>> = one \o (p \o <<x>>)
      BY <1>1, <3>1, ConcatAssociative
    <3> QED BY <3>2, <3>3
  <2>2. Written(Append(one \o p, x)) = Written(one \o p) \o Encode(x)
    BY <1>3, WrittenRecords
  <2>3. Written(Append(p, x)) = Written(p) \o Encode(x) /\ Written(p) \in Seq(Cells)
    BY WrittenRecords
  <2>4. (Encode(r) \o Written(p)) \o Encode(x) = Encode(r) \o (Written(p) \o Encode(x))
    <3>1. Encode(r) \in Seq(Cells) /\ Written(p) \in Seq(Cells) /\ Encode(x) \in Seq(Cells)
      BY <1>4, <2>3
    <3>2. \A u, v, w \in Seq(Cells) : (u \o v) \o w = u \o (v \o w)
      BY ONLY ConcatAssociative, SMTT(30)
    <3> QED BY ONLY <3>1, <3>2, Zenon
  <2>5. Append(p, x) \in Seq(Records)
    BY AppendProperties
  <2>6. Written(one \o p) = Encode(r) \o Written(p)
    BY <1>6
  <2>7. Written(one \o Append(p, x)) = Encode(r) \o Written(Append(p, x))
    BY <2>1, <2>2, <2>3, <2>4, <2>6
  <2> QED BY <2>5, <2>7
<1> HIDE DEF T
<1>7. \A p \in Seq(Records) : p \in T
  BY <1>5, <1>6, Growing
<1> QED BY <1>7 DEF T, one

-------------------------------------------------------------------------------
(* parse_valid reads the longest run of whole records there is. *)

CanFollow(q, r) == r.kind.size <= MaxRecordSize /\ (q # <<>> => Follows(Last(q), r))

(* q stands behind an offset, and parse_valid accepts every record of it. *)
Run(cells, offset, q) ==
  /\ q \in Seq(Records)
  /\ Stands(cells, offset, Written(q))
  /\ \A i \in 1..Len(q) - 1 : Follows(q[i], q[i + 1])
  /\ \A i \in 1..Len(q) : q[i].kind.size <= MaxRecordSize

(* And no record continues it. *)
LongestRun(cells, offset, q) ==
  /\ Run(cells, offset, q)
  /\ \A r \in Records : CanFollow(q, r) => ~ Stands(cells, offset + Len(Written(q)), Encode(r))

LEMMA NoRun ==
  ASSUME NEW cells \in Seq(Cells), NEW offset \in 0..Len(cells), ~ Intact(cells, offset)
  PROVE  LongestRun(cells, offset, <<>>)
<1>1. <<>> \in Seq(Records) /\ Len(<<>>) = 0 /\ Len(cells) \in Nat
  BY EmptySeq, LenProperties
<1>2. Stands(cells, offset, <<>>)
  <2>1. offset + 0 <= Len(cells) /\ \A i \in 1..0 : FALSE
    BY <1>1
  <2> QED BY <1>1, <2>1 DEF Stands
<1>3. (\A i \in 1..Len(<<>>) - 1 : FALSE) /\ \A i \in 1..Len(<<>>) : FALSE
  BY <1>1
<1>4. ASSUME NEW r \in Records, CanFollow(<<>>, r)
      PROVE  ~ Stands(cells, offset + Len(<<>>), Encode(r))
  <2>1. offset + Len(<<>>) = offset /\ offset \in Nat
    BY <1>1
  <2>2. r.kind.size <= MaxRecordSize
    BY <1>4 DEF CanFollow
  <2> QED BY <2>1, <2>2, IntactIffRecord
<1> QED BY <1>1, <1>2, <1>3, <1>4, WrittenNothing DEF LongestRun, Run

(* A record in front of the longest run that it continues. *)
LEMMA LongerRun ==
  ASSUME NEW cells \in Seq(Cells), NEW offset \in Nat, NEW r \in Records, NEW t,
         r.kind.size <= MaxRecordSize, Stands(cells, offset, Encode(r)),
         LongestRun(cells, offset + Len(Encode(r)), t),
         t # <<>>, Follows(r, Head(t))
  PROVE  LongestRun(cells, offset, <<r>> \o t)
<1> DEFINE q == <<r>> \o t
           w == Written(t)
           e == Encode(r)
<1>1. t \in Seq(Records) /\ Len(t) \in Nat /\ Len(t) # 0
  BY EmptySeq, LenProperties DEF LongestRun, Run
<1>2. /\ q \in Seq(Records) /\ Len(q) = Len(t) + 1 /\ q[1] = r
      /\ \A i \in 1..Len(t) : q[1 + i] = t[i]
  <2>1. <<r>> \in Seq(Records) /\ Len(<<r>>) = 1 /\ <<r>>[1] = r
    OBVIOUS
  <2>2. q \in Seq(Records) /\ Len(q) = 1 + Len(t) /\ \A i \in 1..1 : q[i] = <<r>>[i]
    BY <1>1, <2>1, Joined
  <2>3. \A i \in 1..Len(t) : q[1 + i] = t[i]
    BY <1>1, <2>1, Joined
  <2> HIDE DEF q
  <2> QED BY <1>1, <2>1, <2>2, <2>3
<1>3. Written(q) = e \o w
  BY <1>1, WrittenCons
<1>4. w \in Seq(Cells) /\ e \in Seq(Cells) /\ Len(w) \in Nat /\ Len(e) \in Nat /\ Len(e \o w) = Len(e) + Len(w)
  <2>1. w \in Seq(Cells) /\ e \in Seq(Cells)
    BY <1>1, WrittenRecords, EncodeCells
  <2> HIDE DEF e, w
  <2> QED BY <2>1, Joined
<1> HIDE DEF q, w, e
<1>5. Stands(cells, offset, Written(q))
  <2>1. Stands(cells, offset, e) /\ Stands(cells, offset + Len(e), w)
    BY DEF e, w, LongestRun, Run
  <2>2. Stands(cells, offset, e \o w)
    BY ONLY <1>4, <2>1, cells \in Seq(Cells), offset \in Nat, StandsJoined
  <2> QED BY ONLY <1>3, <2>2
<1>6. ASSUME NEW i \in 1..Len(q) - 1 PROVE Follows(q[i], q[i + 1])
  <2>1. CASE i = 1
    <3>1. 1 \in 1..Len(t)
      BY <1>1
    <3>2. q[1 + 1] = t[1]
      BY <1>2, <3>1
    <3> QED BY <1>2, <2>1, <3>2
  <2>2. CASE i # 1
    <3>1. /\ i - 1 \in 1..Len(t) - 1 /\ i - 1 \in 1..Len(t) /\ i \in 1..Len(t)
          /\ 1 + (i - 1) = i /\ (i - 1) + 1 = i /\ 1 + i = i + 1
      BY <1>1, <1>2, <2>2
    <3>2. Follows(t[i - 1], t[(i - 1) + 1])
      BY <3>1 DEF LongestRun, Run
    <3>3. q[1 + (i - 1)] = t[i - 1] /\ q[1 + i] = t[i]
      BY <1>2, <3>1
    <3> QED BY <3>1, <3>2, <3>3
  <2> QED BY <2>1, <2>2
<1>7. Last(q) = Last(t)
  <2>1. Len(t) \in 1..Len(t) /\ Len(q) = 1 + Len(t)
    BY <1>1, <1>2
  <2> QED BY <1>2, <2>1 DEF Last
<1>8. q # <<>>
  BY <1>1, <1>2, EmptySeq
<1>9. ASSUME NEW x \in Records, CanFollow(q, x)
      PROVE  ~ Stands(cells, offset + Len(Written(q)), Encode(x))
  <2>1. CanFollow(t, x)
    BY <1>7, <1>8, <1>9 DEF CanFollow
  <2>2. offset + Len(Written(q)) = (offset + Len(e)) + Len(w)
    <3>1. offset \in Nat
      OBVIOUS
    <3>2. offset + (Len(e) + Len(w)) = (offset + Len(e)) + Len(w)
      BY ONLY <1>4, <3>1
    <3> QED BY <1>3, <1>4, <3>2
  <2>3. ~ Stands(cells, (offset + Len(e)) + Len(w), Encode(x))
    BY <2>1 DEF LongestRun, Run, e, w
  <2> QED BY <2>2, <2>3
<1>10. ASSUME NEW i \in 1..Len(q) PROVE q[i].kind.size <= MaxRecordSize
  <2>1. CASE i = 1
    BY <1>2, <2>1
  <2>2. CASE i # 1
    <3>1. i - 1 \in 1..Len(t) /\ 1 + (i - 1) = i
      BY <1>1, <1>2, <2>2
    <3>2. t[i - 1].kind.size <= MaxRecordSize
      BY <3>1 DEF LongestRun, Run
    <3> QED BY <1>2, <3>1, <3>2
  <2> QED BY <2>1, <2>2
<1>11. LongestRun(cells, offset, q)
  BY <1>2, <1>5, <1>6, <1>9, <1>10 DEF LongestRun, Run
<1> QED BY <1>11 DEF q

(* A record that no longest run continues is one by itself. *)
LEMMA SingleRun ==
  ASSUME NEW cells \in Seq(Cells), NEW offset \in Nat, NEW r \in Records,
         r.kind.size <= MaxRecordSize, Stands(cells, offset, Encode(r)),
         \A x \in Records :
           CanFollow(<<r>>, x) => ~ Stands(cells, offset + Len(Encode(r)), Encode(x))
  PROVE  LongestRun(cells, offset, <<r>>)
<1> DEFINE one == <<r>>
<1>1. one \in Seq(Records) /\ Len(one) = 1 /\ one[1] = r /\ Written(one) = Encode(r)
  <2>1. one \in Seq(Records) /\ Len(one) = 1 /\ one[1] = r
    OBVIOUS
  <2>2. <<>> \in Seq(Records)
    BY EmptySeq
  <2>3. Written(<<r>>) = Encode(r)
    BY <2>2, WrittenAppend
  <2> QED BY <2>1, <2>3
<1>2. \A x \in Records :
        CanFollow(one, x) => ~ Stands(cells, offset + Len(Encode(r)), Encode(x))
  OBVIOUS
<1> HIDE DEF one
<1>3. (\A i \in 1..Len(one) - 1 : FALSE) /\ \A i \in 1..Len(one) : one[i] = r
  BY <1>1
<1>4. LongestRun(cells, offset, one)
  BY <1>1, <1>2, <1>3 DEF LongestRun, Run
<1> QED BY <1>4 DEF one

LEMMA ReadsLongestRun ==
  ASSUME NEW cells \in Seq(Cells)
  PROVE  \A o \in 0..Len(cells) : LongestRun(cells, o, ReadFrom(cells)[o])
<1> DEFINE n == Len(cells)
           f == ReadFrom(cells)
           T == {o \in 0..n : LongestRun(cells, o, f[o])}
<1>1. n \in Nat
  BY LenProperties
<1>2. \A o \in 0..n : f[o] = ReadOne(cells, f, o)
  BY ReadFromOffset
<1> HIDE DEF f
<1>3. ASSUME NEW o \in 0..n, \A k \in (o + 1)..n : k \in T
      PROVE  LongestRun(cells, o, f[o])
  <2>1. CASE ~ Intact(cells, o)
    <3>1. f[o] = <<>>
      BY <1>2, <2>1 DEF ReadOne
    <3> QED BY <2>1, <3>1, NoRun
  <2>2. CASE Intact(cells, o)
    <3> DEFINE r == RecordAt(cells, o)
               next == NextOffset(cells, o)
               t == f[next]
    <3>1. o \in Nat
      BY <1>1
    <3>2. /\ r \in Records /\ r.kind.size <= MaxRecordSize /\ Stands(cells, o, Encode(r))
          /\ next = o + Len(Encode(r)) /\ next \in (o + 1)..n
      BY <2>2, <3>1, ReadRecord
    <3>3. LongestRun(cells, next, t) /\ next \in 0..n /\ t = ReadOne(cells, f, next)
      BY <1>1, <1>2, <1>3, <3>2
    <3>4. f[o] = IF t # <<>> /\ Follows(r, Head(t)) THEN <<r>> \o t ELSE <<r>>
      BY <1>2, <2>2 DEF ReadOne
    <3> HIDE DEF r, next, t
    <3>5. CASE t # <<>> /\ Follows(r, Head(t))
      BY <3>1, <3>2, <3>3, <3>4, <3>5, LongerRun
    <3>6. CASE ~ (t # <<>> /\ Follows(r, Head(t)))
      <4>1. ASSUME NEW x \in Records, CanFollow(<<r>>, x), Stands(cells, next, Encode(x))
            PROVE  FALSE
        <5>1. x.kind.size <= MaxRecordSize /\ Follows(r, x)
          <6>1. <<r>> # <<>> /\ Last(<<r>>) = r
            BY DEF Last
          <6> QED BY <4>1, <6>1 DEF CanFollow
        <5>2. CASE t = <<>>
          <6>1. CanFollow(t, x)
            BY <5>1, <5>2 DEF CanFollow
          <6>2. next + Len(Written(t)) = next
            <7>1. Len(Written(t)) = 0 /\ next \in Nat
              BY <3>3, <5>2, WrittenNothing, EmptySeq
            <7> QED BY <7>1
          <6>3. ~ Stands(cells, next + Len(Written(t)), Encode(x))
            BY <3>3, <6>1 DEF LongestRun, Run
          <6> QED BY <4>1, <6>2, <6>3
        <5>3. CASE t # <<>>
          <6>1. next \in Nat
            BY <3>3
          <6>2. Intact(cells, next)
            BY <3>3, <5>3 DEF ReadOne
          <6>3. RecordAt(cells, next) = x
            BY <4>1, <6>1, OneKind
          <6>4. Head(t) = x
            <7>1. x = Head(<<x>>)
              OBVIOUS
            <7>2. CASE t = <<x>>
              BY <7>1, <7>2
            <7>3. CASE t # <<x>>
              <8> DEFINE u == f[NextOffset(cells, next)]
              <8>1. t = <<x>> \o u /\ u # <<>>
                BY <3>3, <6>2, <6>3, <7>3 DEF ReadOne
              <8>2. u \in Seq(Records)
                <9>1. NextOffset(cells, next) \in (next + 1)..n
                  BY <6>1, <6>2, ReadRecord
                <9>2. NextOffset(cells, next) \in (o + 1)..n
                  BY <1>1, <3>2, <9>1
                <9> QED BY <1>3, <9>2 DEF LongestRun, Run
              <8> HIDE DEF u
              <8> DEFINE one == <<x>>
              <8>3. one \in Seq(Records) /\ Len(one) = 1 /\ one[1] = x /\ t = one \o u
                BY <8>1
              <8> HIDE DEF one
              <8>4. t[1] = x
                <9>1. \A i \in 1..Len(one) : (one \o u)[i] = one[i]
                  BY <8>2, <8>3, Joined
                <9>2. 1 \in 1..Len(one)
                  BY ONLY <8>3
                <9> QED BY ONLY <8>3, <9>1, <9>2
              <8>5. t \in Seq(Records) /\ t # <<>>
                BY <3>3, <5>3 DEF LongestRun, Run
              <8>6. Head(t) = t[1]
                BY ONLY <8>5
              <8> QED BY ONLY <8>4, <8>6
            <7> QED BY <7>2, <7>3
          <6> QED BY <3>6, <5>1, <5>3, <6>4
        <5> QED BY <5>2, <5>3
      <4>2. f[o] = <<r>>
        BY <3>4, <3>6
      <4>3. \A x \in Records :
              CanFollow(<<r>>, x) => ~ Stands(cells, o + Len(Encode(r)), Encode(x))
        BY <3>2, <4>1
      <4> QED BY <3>1, <3>2, <4>2, <4>3, SingleRun
    <3> QED BY <3>5, <3>6
  <2> QED BY <2>1, <2>2
<1>4. \A o \in 0..n : o \in T
  <2>1. \A o \in 0..n : (\A k \in (o + 1)..n : k \in T) => o \in T
    BY <1>3
  <2> HIDE DEF T, n
  <2> QED BY <1>1, <2>1, Downward
<1> QED BY <1>4 DEF f

(* A longest run is read from the beginning of every sequence of cells. *)
LEMMA ParseReadsLongestRun ==
  ASSUME NEW cells \in Seq(Cells)
  PROVE  LongestRun(cells, 0, ParseValid(cells))
<1>1. 0 \in 0..Len(cells)
  BY LenProperties
<1> QED BY <1>1, ReadsLongestRun, ParseFrom

LEMMA StandsFirst ==
  ASSUME NEW cells \in Seq(Cells), NEW s \in Seq(Cells)
  PROVE  Stands(cells, 0, s) <=> IsPrefix(s, cells)
<1>1. Len(s) \in Nat /\ 0 + Len(s) = Len(s) /\ \A i \in 1..Len(s) : 0 + i = i
  BY LenProperties
<1> QED BY <1>1, PrefixElements DEF Stands

-------------------------------------------------------------------------------
(* Runs at the beginning of a file. *)

LEMMA RunAppend ==
  ASSUME NEW cells \in Seq(Cells), NEW q \in Seq(Records), NEW r \in Records
  PROVE  Run(cells, 0, Append(q, r)) <=>
           Run(cells, 0, q) /\ CanFollow(q, r) /\ Stands(cells, Len(Written(q)), Encode(r))
<1> DEFINE p == Append(q, r)
           n == Len(q)
<1>1. n \in Nat /\ p \in Seq(Records) /\ Len(p) = n + 1 /\ p[n + 1] = r
  BY AppendProperties, LenProperties
<1>2. \A i \in 1..n : p[i] = q[i]
  BY AppendProperties
<1>3. /\ Written(p) = Written(q) \o Encode(r)
      /\ Written(q) \in Seq(Cells) /\ Encode(r) \in Seq(Cells) /\ Len(Written(q)) \in Nat
  BY WrittenRecords, EncodeCells, LenProperties
<1>4. Stands(cells, 0, Written(p)) <=>
        Stands(cells, 0, Written(q)) /\ Stands(cells, Len(Written(q)), Encode(r))
  <2>1. Stands(cells, 0, Written(q) \o Encode(r)) <=>
          Stands(cells, 0, Written(q)) /\ Stands(cells, 0 + Len(Written(q)), Encode(r))
    BY <1>3, StandsJoined
  <2>2. 0 + Len(Written(q)) = Len(Written(q))
    BY <1>3
  <2> QED BY <1>3, <2>1, <2>2
<1>5. (q # <<>> => Last(q) = q[n]) /\ (q # <<>> <=> n # 0)
  BY EmptySeq DEF Last
<1> HIDE DEF p, n
<1>6. (\A i \in 1..Len(p) - 1 : Follows(p[i], p[i + 1])) <=>
        (\A i \in 1..n - 1 : Follows(q[i], q[i + 1])) /\ (q # <<>> => Follows(Last(q), r))
  <2>1. /\ \A i \in 1..n - 1 : i \in 1..n /\ i + 1 \in 1..n
        /\ Len(p) - 1 = n /\ \A i \in 1..n : i \in 1..n - 1 \/ i = n
        /\ \A i \in 1..n - 1 : i \in 1..n
        /\ n # 0 => n \in 1..n
    BY <1>1
  <2>2. \A i \in 1..n - 1 : p[i] = q[i] /\ p[i + 1] = q[i + 1]
    BY <1>2, <2>1
  <2>3. n # 0 => p[n] = q[n]
    BY <1>2, <2>1
  <2>4. ASSUME \A i \in 1..n : Follows(p[i], p[i + 1])
        PROVE  (\A i \in 1..n - 1 : Follows(q[i], q[i + 1])) /\ (q # <<>> => Follows(Last(q), r))
    <3>1. ASSUME NEW i \in 1..n - 1 PROVE Follows(q[i], q[i + 1])
      <4>1. Follows(p[i], p[i + 1])
        BY <2>1, <2>4
      <4> QED BY <2>2, <4>1
    <3>2. ASSUME q # <<>> PROVE Follows(Last(q), r)
      <4>1. Follows(p[n], p[n + 1])
        BY <1>5, <2>1, <2>4, <3>2
      <4> QED BY <1>1, <1>5, <2>3, <3>2, <4>1
    <3> QED BY <3>1, <3>2
  <2>5. ASSUME \A i \in 1..n - 1 : Follows(q[i], q[i + 1]), q # <<>> => Follows(Last(q), r),
               NEW i \in 1..n
        PROVE  Follows(p[i], p[i + 1])
    <3>1. CASE i \in 1..n - 1
      BY <2>2, <2>5, <3>1
    <3>2. CASE i = n
      <4>1. n # 0 /\ q # <<>>
        BY <1>1, <1>5, <3>2
      <4> QED BY <1>1, <1>5, <2>3, <2>5, <3>2, <4>1
    <3> QED BY <2>1, <3>1, <3>2
  <2> QED BY <2>1, <2>4, <2>5
<1>7. (\A i \in 1..Len(p) : p[i].kind.size <= MaxRecordSize) <=>
        (\A i \in 1..n : q[i].kind.size <= MaxRecordSize) /\ r.kind.size <= MaxRecordSize
  <2>1. /\ \A i \in 1..n : i \in 1..Len(p)
        /\ n + 1 \in 1..Len(p)
        /\ \A i \in 1..Len(p) : i \in 1..n \/ i = n + 1
    BY <1>1
  <2> QED BY <1>1, <1>2, <2>1
<1>8. Run(cells, 0, p) <=>
        Run(cells, 0, q) /\ CanFollow(q, r) /\ Stands(cells, Len(Written(q)), Encode(r))
  BY <1>1, <1>4, <1>6, <1>7 DEF Run, CanFollow, n
<1> QED BY <1>8 DEF p

(* A sequence up to its last element but some, and the next. *)
LEMMA OneLonger ==
  ASSUME NEW S, NEW q \in Seq(S), NEW n \in Nat, n < Len(q)
  PROVE  /\ q[n + 1] \in S /\ SubSeq(q, 1, n) \in Seq(S) /\ Len(SubSeq(q, 1, n)) = n
         /\ SubSeq(q, 1, n + 1) = Append(SubSeq(q, 1, n), q[n + 1])
<1>1. Len(q) \in Nat
  BY LenProperties
<1>2. 1 \in 1..Len(q) /\ n + 1 \in 1..Len(q) /\ n \in 0..Len(q) /\ (n + 1) - 1 = n
  BY <1>1
<1>3. q[n + 1] \in S /\ SubSeq(q, 1, n) \in Seq(S) /\ Len(SubSeq(q, 1, n)) = n
  BY <1>2, ElementOfSeq, FirstPart
<1>4. SubSeq(q, 1, n + 1) = SubSeq(q, 1, n) \o <<q[n + 1]>>
  <2>1. SubSeq(q, 1, n + 1) = SubSeq(q, 1, (n + 1) - 1) \o <<q[n + 1]>>
    BY <1>2, SubSeqRecursiveSecond
  <2> QED BY <1>2, <2>1
<1>5. Append(SubSeq(q, 1, n), q[n + 1]) = SubSeq(q, 1, n) \o <<q[n + 1]>>
  BY <1>3, AppendIsConcat
<1> QED BY <1>3, <1>4, <1>5

LEMMA RunPrefix ==
  ASSUME NEW cells \in Seq(Cells), NEW q \in Seq(Records), Run(cells, 0, q),
         NEW n \in 0..Len(q)
  PROVE  Run(cells, 0, SubSeq(q, 1, n))
<1> DEFINE T == {m \in 0..Len(q) : Run(cells, 0, SubSeq(q, 1, m))}
<1>1. Len(q) \in Nat
  BY LenProperties
<1>2. ASSUME NEW m \in 0..Len(q), \A k \in (m + 1)..Len(q) : k \in T
      PROVE  m \in T
  <2>1. CASE m = Len(q)
    BY <2>1, SubSeqFull
  <2>2. CASE m # Len(q)
    <3>1. m \in Nat /\ m < Len(q) /\ m + 1 \in (m + 1)..Len(q)
      BY <1>1, <2>2
    <3>2. Run(cells, 0, SubSeq(q, 1, m + 1))
      BY <1>2, <3>1
    <3>3. /\ SubSeq(q, 1, m + 1) = Append(SubSeq(q, 1, m), q[m + 1])
          /\ q[m + 1] \in Records /\ SubSeq(q, 1, m) \in Seq(Records)
      BY <3>1, OneLonger
    <3>4. Run(cells, 0, SubSeq(q, 1, m))
      BY <3>2, <3>3, RunAppend
    <3> QED BY <3>4
  <2> QED BY <2>1, <2>2
<1>3. \A m \in 0..Len(q) : m \in T
  <2> DEFINE l == Len(q)
  <2>1. l \in Nat /\ \A m \in 0..l : (\A k \in (m + 1)..l : k \in T) => m \in T
    BY <1>1, <1>2
  <2> HIDE DEF T, l
  <2>2. \A m \in 0..l : m \in T
    BY <2>1, Downward
  <2> QED BY <2>2 DEF l
<1> QED BY <1>3

(* Every run is a beginning of what parse_valid reads. *)
LEMMA RunIsRead ==
  ASSUME NEW cells \in Seq(Cells), NEW run \in Seq(Records), Run(cells, 0, run)
  PROVE  /\ Len(run) <= Len(ParseValid(cells))
         /\ run = SubSeq(ParseValid(cells), 1, Len(run))
<1> DEFINE q == ParseValid(cells)
           T == {p \in Seq(Records) :
                   Run(cells, 0, p) => Len(p) <= Len(q) /\ p = SubSeq(q, 1, Len(p))}
<1>1. LongestRun(cells, 0, q) /\ q \in Seq(Records) /\ Run(cells, 0, q) /\ Len(q) \in Nat
  BY ParseReadsLongestRun, LenProperties DEF LongestRun, Run
<1> HIDE DEF q
<1>2. <<>> \in T
  <2>1. <<>> \in Seq(Records) /\ Len(<<>>) = 0 /\ 0 <= Len(q) /\ 0 \in 0..Len(q)
    BY <1>1, EmptySeq
  <2>2. SubSeq(q, 1, 0) \in Seq(Records) /\ Len(SubSeq(q, 1, 0)) = 0
    BY <1>1, <2>1, FirstPart
  <2>3. SubSeq(q, 1, 0) = <<>>
    BY <2>2, EmptySeq
  <2> DEFINE none == <<>>
  <2>4. none \in Seq(Records) /\ Len(none) <= Len(q) /\ none = SubSeq(q, 1, Len(none))
    BY <2>1, <2>3
  <2> HIDE DEF none
  <2>5. none \in T
    BY <2>4
  <2> QED BY <2>5 DEF none
<1>3. ASSUME NEW p \in Seq(Records), NEW r \in Records, p \in T
      PROVE  Append(p, r) \in T
  <2> DEFINE n == Len(p)
  <2>1. Append(p, r) \in Seq(Records) /\ n \in Nat /\ Len(Append(p, r)) = n + 1
    BY AppendProperties, LenProperties
  <2> SUFFICES ASSUME Run(cells, 0, Append(p, r))
               PROVE  n + 1 <= Len(q) /\ Append(p, r) = SubSeq(q, 1, n + 1)
    BY <2>1
  <2>2. Run(cells, 0, p) /\ CanFollow(p, r) /\ Stands(cells, Len(Written(p)), Encode(r))
    BY RunAppend
  <2>3. n <= Len(q) /\ p = SubSeq(q, 1, n)
    BY <1>3, <2>2
  <2>4. Len(Written(p)) \in Nat
    BY WrittenRecords, LenProperties
  <2> HIDE DEF n
  <2>5. n # Len(q)
    <3> SUFFICES ASSUME n = Len(q) PROVE FALSE
      OBVIOUS
    <3>1. p = q
      BY <1>1, <2>3, SubSeqFull
    <3>2. 0 + Len(Written(q)) = Len(Written(p))
      BY <2>4, <3>1
    <3> QED BY <1>1, <2>2, <3>1, <3>2 DEF LongestRun
  <2>6. n < Len(q) /\ n + 1 \in 0..Len(q)
    BY <1>1, <2>1, <2>3, <2>5
  <2>7. SubSeq(q, 1, n + 1) = Append(p, q[n + 1]) /\ q[n + 1] \in Records
    BY <1>1, <2>1, <2>3, <2>6, OneLonger
  <2>8. Run(cells, 0, Append(p, q[n + 1]))
    BY <1>1, <2>6, <2>7, RunPrefix
  <2>9. Stands(cells, Len(Written(p)), Encode(q[n + 1]))
    BY <2>7, <2>8, RunAppend
  <2>10. q[n + 1] = r
    <3>1. RecordAt(cells, Len(Written(p))) = r
      BY <2>2, <2>4, OneKind
    <3>2. RecordAt(cells, Len(Written(p))) = q[n + 1]
      BY <2>4, <2>7, <2>9, OneKind
    <3> QED BY <3>1, <3>2
  <2>11. n + 1 <= Len(q)
    BY ONLY <1>1, <2>1, <2>6
  <2> QED BY <2>7, <2>10, <2>11
<1> HIDE DEF T
<1>4. \A p \in Seq(Records) : p \in T
  BY <1>2, <1>3, Growing
<1>5. run \in T
  BY <1>4
<1> QED BY <1>5 DEF T, q

(* A run stands in every file that has its cells. *)
LEMMA RunElsewhere ==
  ASSUME NEW cells \in Seq(Cells), NEW q, Run(cells, 0, q), NEW other \in Seq(Cells),
         Len(Written(q)) <= Len(other),
         \A i \in 1..Len(Written(q)) : other[i] = cells[i]
  PROVE  Run(other, 0, q)
<1>1. q \in Seq(Records) /\ Stands(cells, 0, Written(q))
  BY DEF Run
<1>2. Len(Written(q)) \in Nat
  BY <1>1, WrittenRecords, LenProperties
<1>3. 0 + Len(Written(q)) = Len(Written(q)) /\ \A i \in 1..Len(Written(q)) : 0 + i = i
  BY <1>2
<1>4. Stands(other, 0, Written(q))
  BY <1>1, <1>3 DEF Stands
<1> QED BY <1>4 DEF Run

(* The cells of a record: one is its header and one its checksum. *)
LEMMA RecordCells ==
  ASSUME NEW r \in Records, NEW i \in 1..Len(Encode(r))
  PROVE  /\ Encode(r)[i] \in Cells /\ Encode(r)[i] # Junk
         /\ Encode(r)[i] \in Headers => i = 2
         /\ \A x \in Records : Encode(r)[i] = Checksum(Covered(x)) => i = Len(Encode(r)) /\ x = r
<1>1. /\ r.kind \in Kinds /\ r.kind.size \in Nat /\ HeaderOf(r) \in Headers
      /\ Len(Encode(r)) = r.kind.size + 3 /\ Encode(r) \in Seq(Cells)
      /\ Encode(r)[1] = Magic /\ Encode(r)[2] = HeaderOf(r)
      /\ \A j \in 1..r.kind.size : Encode(r)[2 + j] = [of |-> r.kind, part |-> j]
      /\ Encode(r)[r.kind.size + 3] = Checksum(Covered(r))
  BY EncodeCells
<1> DEFINE cell == Encode(r)[i]
<1>2. cell \in Cells
  BY <1>1, ElementOfSeq
<1>3. Magic \in Cells /\ HeaderOf(r) \in Cells /\ Magic # Junk /\ Magic \notin Headers
  <2>1. Magic \in Cells /\ HeaderOf(r) \in Cells
    BY <1>1 DEF Cells
  <2>2. DOMAIN Magic # DOMAIN Junk
    BY DEF Magic, Junk
  <2>3. Magic \notin Headers
    BY <2>1, CellShapes
  <2> QED BY <2>1, <2>2, <2>3
<1>4. \A x : Magic # Checksum(x) /\ HeaderOf(r) # Checksum(x)
  BY <1>1, <1>3, CellShapes
<1>5. CASE i = 1
  BY <1>1, <1>2, <1>3, <1>4, <1>5
<1>6. CASE i = 2
  <2>1. HeaderOf(r) # Junk
    BY <1>1, <1>3, CellShapes
  <2> QED BY <1>1, <1>2, <1>4, <1>6, <2>1
<1>7. CASE i \in 3..(r.kind.size + 2)
  <2>1. i - 2 \in 1..r.kind.size /\ 2 + (i - 2) = i
    <3>1. r.kind.size \in Nat
      BY <1>1
    <3> QED BY ONLY <1>7, <3>1
  <2>2. cell = [of |-> r.kind, part |-> i - 2]
    BY <1>1, <2>1
  <2>3. cell \in Pieces
    BY <1>1, <2>1, <2>2 DEF Pieces
  <2> HIDE DEF cell
  <2>4. cell # Junk /\ cell \notin Headers /\ \A x : cell # Checksum(x)
    BY <1>2, <2>3, CellShapes
  <2> QED BY <1>2, <2>4 DEF cell
<1>8. CASE i = Len(Encode(r))
  <2>1. cell = Checksum(Covered(r))
    BY <1>1, <1>8
  <2> HIDE DEF cell
  <2>2. cell # Junk /\ cell \notin Headers
    BY <1>2, <2>1, CellShapes
  <2>3. ASSUME NEW x \in Records, cell = Checksum(Covered(x)) PROVE x = r
    <3>1. Checksum(Covered(x)).crc = Checksum(Covered(r)).crc
      BY <2>1, <2>3
    <3>2. Covered(x) = Covered(r)
      BY <3>1 DEF Checksum
    <3> QED BY <3>2, OneRecord
  <2> QED BY <1>2, <1>8, <2>2, <2>3 DEF cell
<1>9. i = 1 \/ i = 2 \/ i \in 3..(r.kind.size + 2) \/ i = Len(Encode(r))
  <2> DEFINE l == Len(Encode(r))
             n == r.kind.size
  <2>1. l = n + 3 /\ n \in Nat /\ i \in 1..l
    BY <1>1
  <2> HIDE DEF l, n
  <2>2. i = 1 \/ i = 2 \/ i \in 3..(n + 2) \/ i = l
    BY ONLY <2>1
  <2> QED BY <2>2 DEF l, n
<1> QED BY <1>5, <1>6, <1>7, <1>8, <1>9

LEMMA RecordEnd ==
  ASSUME NEW r \in Records
  PROVE  /\ Encode(r) \in Seq(Cells) /\ Len(Encode(r)) \in Nat /\ Len(Encode(r)) >= 3
         /\ Encode(r)[Len(Encode(r))] = Checksum(Covered(r))
<1> DEFINE n == r.kind.size
<1>1. /\ Encode(r) \in Seq(Cells) /\ Len(Encode(r)) = n + 3 /\ n \in Nat
      /\ Encode(r)[n + 3] = Checksum(Covered(r))
  BY EncodeCells
<1> HIDE DEF n
<1>2. n + 3 \in Nat /\ n + 3 >= 3
  BY ONLY <1>1
<1> QED BY <1>1, <1>2

(* A record whose end is behind the file was appended just now. *)
LEMMA AppendedRecord ==
  ASSUME NEW cells \in Seq(Cells), NEW r \in Records, NEW n \in 0..Len(Encode(r)),
         NEW x \in Records, NEW offset \in Nat,
         NEW other, other = cells \o SubSeq(Encode(r), 1, n),
         Stands(other, offset, Encode(x)), ~ Stands(cells, offset, Encode(x))
  PROVE  x = r /\ n = Len(Encode(r)) /\ offset = Len(cells)
<1> DEFINE l == Len(Encode(r))
           m == Len(Encode(x))
           c == Len(cells)
           e == offset + m
<1>1. /\ Encode(r) \in Seq(Cells) /\ l \in Nat /\ c \in Nat /\ m \in Nat /\ m >= 3
      /\ Encode(x)[m] = Checksum(Covered(x))
  <2>1. c \in Nat
    BY LenProperties
  <2> HIDE DEF c
  <2> QED BY <2>1, RecordEnd
<1>2. /\ SubSeq(Encode(r), 1, n) \in Seq(Cells) /\ Len(SubSeq(Encode(r), 1, n)) = n
      /\ \A i \in 1..n : SubSeq(Encode(r), 1, n)[i] = Encode(r)[i]
  BY <1>1, FirstPart
<1>3. /\ Len(other) = c + n
      /\ \A i \in 1..c : other[i] = cells[i]
      /\ \A i \in 1..n : other[c + i] = Encode(r)[i]
  BY <1>2, Joined
<1>4. e <= c + n /\ \A i \in 1..m : other[offset + i] = Encode(x)[i]
  <2>1. offset + m <= Len(other) /\ \A i \in 1..m : other[offset + i] = Encode(x)[i]
    BY DEF Stands
  <2> QED BY <1>3, <2>1
<1>5. offset \in Nat /\ n \in 0..l
  OBVIOUS
<1>6. ~ (e <= c)
  <2> SUFFICES ASSUME e <= c PROVE FALSE
    OBVIOUS
  <2>1. \A i \in 1..m : offset + i \in 1..c
    <3>1. offset + m <= c
      OBVIOUS
    <3> HIDE DEF m, c
    <3> QED BY ONLY <1>1, <1>5, <3>1
  <2>2. \A i \in 1..m : cells[offset + i] = Encode(x)[i]
    BY <1>3, <1>4, <2>1
  <2> QED BY <2>2 DEF Stands
<1>7. m \in 1..m /\ e - c \in 1..n /\ e - c \in 1..l /\ c + (e - c) = offset + m /\ e = offset + m
  <2>1. e = offset + m
    OBVIOUS
  <2> HIDE DEF m, c, e, l
  <2> QED BY ONLY <1>1, <1>4, <1>5, <1>6, <2>1
<1>8. Encode(r)[e - c] = Checksum(Covered(x))
  <2>1. other[offset + m] = Encode(x)[m]
    BY <1>4, <1>7
  <2>2. other[c + (e - c)] = Encode(r)[e - c]
    BY <1>3, <1>7
  <2> QED BY <1>1, <1>7, <2>1, <2>2
<1>9. e - c = l /\ x = r
  <2> HIDE DEF e, c
  <2> QED BY <1>7, <1>8, RecordCells
<1>10. m = l
  BY <1>9
<1>11. n = l /\ offset = c
  <2> HIDE DEF m, c, e, l
  <2> QED BY ONLY <1>1, <1>5, <1>7, <1>9, <1>10
<1> QED BY <1>9, <1>11

(* What an append of n cells of a record makes p of what was read, q: the  *)
(* record joins it if all of it was written behind a record it continues,  *)
(* else nothing does.                                                      *)
Grows(cells, r, n, q, p) ==
  /\ \/ p = q
     \/ p = Append(q, r) /\ CanFollow(q, r)
  /\ n = Len(Encode(r)) /\ Len(Written(q)) = Len(cells) /\ CanFollow(q, r) => p = Append(q, r)

LEMMA AppendReads ==
  ASSUME NEW cells \in Seq(Cells), NEW r \in Records, NEW n \in 0..Len(Encode(r)),
         NEW other, other = cells \o SubSeq(Encode(r), 1, n),
         NEW q, q = ParseValid(cells)
  PROVE  other \in Seq(Cells) /\ Grows(cells, r, n, q, ParseValid(other))
<1> SUFFICES
      /\ other \in Seq(Cells)
      /\ \/ ParseValid(other) = q
         \/ ParseValid(other) = Append(q, r) /\ CanFollow(q, r)
      /\ n = Len(Encode(r)) /\ Len(Written(q)) = Len(cells) /\ CanFollow(q, r) =>
           ParseValid(other) = Append(q, r)
  BY DEF Grows
<1> DEFINE p == ParseValid(other)
           c == Len(cells)
           w == Len(Written(q))
           l == Len(q)
<1>1. Encode(r) \in Seq(Cells) /\ c \in Nat /\ Len(Encode(r)) \in Nat
  BY EncodeCells, LenProperties
<1>2. /\ SubSeq(Encode(r), 1, n) \in Seq(Cells) /\ Len(SubSeq(Encode(r), 1, n)) = n
      /\ \A i \in 1..n : SubSeq(Encode(r), 1, n)[i] = Encode(r)[i]
  BY <1>1, FirstPart
<1>3. /\ other \in Seq(Cells) /\ Len(other) = c + n
      /\ \A i \in 1..c : other[i] = cells[i]
      /\ \A i \in 1..n : other[c + i] = Encode(r)[i]
  BY <1>2, Joined
<1>4. /\ LongestRun(cells, 0, q) /\ q \in Seq(Records) /\ Run(cells, 0, q) /\ l \in Nat
      /\ LongestRun(other, 0, p) /\ p \in Seq(Records) /\ Run(other, 0, p) /\ Len(p) \in Nat
  BY <1>3, ParseReadsLongestRun, LenProperties DEF LongestRun, Run
<1>5. Written(q) \in Seq(Cells) /\ w \in Nat /\ w <= c
  <2>1. Written(q) \in Seq(Cells) /\ w \in Nat
    BY <1>4, WrittenRecords, LenProperties
  <2>2. 0 + w <= c
    BY <1>4 DEF Run, Stands
  <2> HIDE DEF w, c
  <2> QED BY <2>1, <2>2
<1> HIDE DEF p, c, w, l
<1>6. Run(other, 0, q)
  <2>1. w <= Len(other) /\ \A i \in 1..w : other[i] = cells[i]
    BY <1>1, <1>3, <1>5
  <2> QED BY <1>3, <1>4, <2>1, RunElsewhere DEF w
<1>7. l <= Len(p) /\ q = SubSeq(p, 1, l)
  BY <1>3, <1>4, <1>6, RunIsRead DEF p, l
<1>8. CASE l = Len(p)
  <2>1. q = p
    BY <1>4, <1>7, <1>8, SubSeqFull
  <2>2. ASSUME n = Len(Encode(r)), w = c, CanFollow(q, r)
        PROVE  FALSE
    <3>1. Stands(other, w, Encode(r))
      <4>1. w + Len(Encode(r)) <= Len(other)
        BY ONLY <1>1, <1>3, <2>2
      <4>2. \A i \in 1..Len(Encode(r)) : other[w + i] = Encode(r)[i]
        BY ONLY <1>3, <2>2
      <4> QED BY <4>1, <4>2 DEF Stands
    <3>2. Run(other, 0, Append(q, r))
      BY <1>3, <1>4, <1>6, <2>2, <3>1, RunAppend DEF w
    <3>3. Append(q, r) \in Seq(Records) /\ Len(Append(q, r)) = l + 1
      BY <1>4, AppendProperties DEF l
    <3>4. l + 1 <= Len(p)
      BY <1>3, <3>2, <3>3, RunIsRead DEF p
    <3> QED BY <1>4, <1>8, <3>4
  <2> QED BY <1>3, <2>1, <2>2 DEF p, w, c
<1>9. CASE l # Len(p)
  <2> DEFINE x == p[l + 1]
  <2>1. l < Len(p) /\ l + 1 \in 0..Len(p)
    BY <1>4, <1>7, <1>9
  <2>2. SubSeq(p, 1, l + 1) = Append(q, x) /\ x \in Records
    BY <1>4, <1>7, <2>1, OneLonger
  <2> HIDE DEF x
  <2>3. Run(other, 0, Append(q, x))
    BY <1>3, <1>4, <2>1, <2>2, RunPrefix
  <2>4. CanFollow(q, x) /\ Stands(other, w, Encode(x))
    BY <1>3, <1>4, <2>2, <2>3, RunAppend DEF w
  <2>5. ~ Stands(cells, w, Encode(x))
    <3>1. 0 + w = w
      BY <1>5
    <3> QED BY <1>4, <2>2, <2>4, <3>1 DEF LongestRun, w
  <2>6. x = r /\ n = Len(Encode(r)) /\ w = c
    <3>1. other = cells \o SubSeq(Encode(r), 1, n)
      OBVIOUS
    <3> QED BY <1>5, <2>2, <2>4, <2>5, <3>1, AppendedRecord DEF c
  <2>7. l + 1 = Len(p)
    <3> SUFFICES ASSUME l + 1 # Len(p) PROVE FALSE
      OBVIOUS
    <3> DEFINE y == p[(l + 1) + 1]
               q1 == Append(q, r)
    <3>1. l + 1 \in Nat /\ l + 1 < Len(p) /\ (l + 1) + 1 \in 0..Len(p)
      BY <1>4, <2>1
    <3>2. q1 = SubSeq(p, 1, l + 1) /\ q1 \in Seq(Records) /\ Written(q1) = Written(q) \o Encode(r)
      BY <1>4, <2>2, <2>6, AppendProperties, WrittenRecords
    <3> HIDE DEF q1
    <3>3. SubSeq(p, 1, (l + 1) + 1) = Append(q1, y) /\ y \in Records
      BY <1>4, <3>1, <3>2, OneLonger
    <3> HIDE DEF y
    <3>4. Run(other, 0, Append(q1, y))
      BY <1>3, <1>4, <3>1, <3>3, RunPrefix
    <3>5. Stands(other, Len(Written(q1)), Encode(y))
      BY <1>3, <3>2, <3>3, <3>4, RunAppend
    <3>6. Len(Written(q1)) = c + n
      <4>1. Len(Written(q1)) = w + Len(Encode(r))
        BY <1>1, <1>5, <3>2, Joined DEF w
      <4> QED BY <2>6, <4>1
    <3>7. (c + n) + Len(Encode(y)) <= c + n
      BY <1>3, <3>5, <3>6 DEF Stands
    <3>8. Len(Encode(y)) \in Nat /\ Len(Encode(y)) >= 3
      BY <3>3, RecordEnd
    <3>9. n \in Nat
      BY <1>1
    <3> QED BY ONLY <1>1, <3>7, <3>8, <3>9
  <2>8. p = Append(q, r)
    BY <1>4, <2>2, <2>6, <2>7, SubSeqFull
  <2> QED BY <1>3, <2>4, <2>6, <2>8 DEF p
<1> QED BY <1>8, <1>9

(* Every cell that a run reaches is a cell of a whole record. *)
LEMMA RunCells ==
  ASSUME NEW cells \in Seq(Cells), NEW run \in Seq(Records), Run(cells, 0, run),
         NEW i \in 1..Len(Written(run))
  PROVE  \E r \in Records, o \in Nat :
           Stands(cells, o, Encode(r)) /\ i - o \in 1..Len(Encode(r))
<1> DEFINE InRecord(j) == \E r \in Records, o \in Nat :
                            Stands(cells, o, Encode(r)) /\ j - o \in 1..Len(Encode(r))
           T == {q \in Seq(Records) :
                   Run(cells, 0, q) => \A j \in 1..Len(Written(q)) : InRecord(j)}
<1> HIDE DEF InRecord
<1>1. <<>> \in T
  <2> DEFINE none == <<>>
  <2>1. none \in Seq(Records) /\ Len(Written(none)) = 0
    BY WrittenNothing, EmptySeq
  <2> HIDE DEF none
  <2>2. \A j \in 1..Len(Written(none)) : FALSE
    BY <2>1
  <2>3. none \in T
    BY <2>1, <2>2
  <2> QED BY <2>3 DEF none
<1>2. ASSUME NEW q \in Seq(Records), NEW r \in Records, q \in T
      PROVE  Append(q, r) \in T
  <2> DEFINE w == Len(Written(q))
             l == Len(Encode(r))
  <2>1. Append(q, r) \in Seq(Records) /\ Written(Append(q, r)) = Written(q) \o Encode(r)
    BY WrittenRecords, AppendProperties
  <2>2. w \in Nat /\ l \in Nat /\ Len(Written(Append(q, r))) = w + l
    BY <2>1, WrittenRecords, RecordEnd, Joined
  <2>3. ASSUME Run(cells, 0, Append(q, r)), NEW j \in 1..Len(Written(Append(q, r)))
        PROVE  InRecord(j)
    <3>1. Run(cells, 0, q) /\ Stands(cells, w, Encode(r))
      BY <2>3, RunAppend
    <3> HIDE DEF w, l
    <3>2. CASE j \in 1..w
      BY <1>2, <3>1, <3>2 DEF w
    <3>3. CASE j \notin 1..w
      <4>1. j - w \in 1..l
        BY ONLY <2>2, <2>3, <3>3
      <4> QED BY <2>2, <3>1, <4>1 DEF InRecord, l
    <3> QED BY <3>2, <3>3
  <2> QED BY <2>1, <2>3
<1> HIDE DEF T
<1>3. \A q \in Seq(Records) : q \in T
  BY <1>1, <1>2, Growing
<1>4. run \in T
  BY <1>3
<1> QED BY <1>4 DEF T, InRecord

(* What is read of a file that lost its end, or whose end was never        *)
(* filled, is a run of the file as it was.                                 *)
LEMMA CutRuns ==
  ASSUME NEW cells \in Seq(Cells), NEW n \in 0..Len(cells), NEW other \in Seq(Cells),
         \A i \in 1..n : other[i] = cells[i],
         \A i \in 1..Len(other) : i > n => other[i] = Junk,
         NEW q, Run(other, 0, q)
  PROVE  Run(cells, 0, q) /\ Len(Written(q)) <= n
<1> DEFINE w == Len(Written(q))
<1>1. q \in Seq(Records) /\ w \in Nat /\ 0 + w <= Len(other) /\ Len(cells) \in Nat /\ Len(other) \in Nat
  BY WrittenRecords, LenProperties DEF Run, Stands
<1>2. w <= n
  <2> SUFFICES ASSUME ~ (w <= n) PROVE FALSE
    OBVIOUS
  <2> DEFINE j == n + 1
  <2>1. n \in Nat
    BY <1>1
  <2>2. j \in Nat /\ j \in 1..w /\ j \in 1..Len(other) /\ j > n
    BY <1>1, <2>1
  <2> HIDE DEF j
  <2>3. other[j] = Junk
    BY <2>2
  <2>4. PICK r \in Records, o \in Nat :
          Stands(other, o, Encode(r)) /\ j - o \in 1..Len(Encode(r))
    BY <1>1, <2>2, RunCells
  <2>5. o + (j - o) = j
    BY ONLY <2>2, <2>4
  <2>6. other[o + (j - o)] = Encode(r)[j - o]
    BY <2>4 DEF Stands
  <2>7. Encode(r)[j - o] # Junk
    BY <2>4, RecordCells
  <2> QED BY <2>3, <2>5, <2>6, <2>7
<1> HIDE DEF w
<1>3. w <= Len(cells) /\ \A i \in 1..w : cells[i] = other[i]
  <2>1. n \in Nat /\ n <= Len(cells)
    BY <1>1
  <2>2. w <= Len(cells) /\ \A i \in 1..w : i \in 1..n
    BY ONLY <1>1, <1>2, <2>1
  <2> QED BY <2>2
<1> QED BY <1>1, <1>2, <1>3, RunElsewhere DEF w

-------------------------------------------------------------------------------
(* Damage. *)

(* A checksum stands behind the header it was made with, or behind one     *)
(* that damage has made greater since.                                     *)
Backed(cells) ==
  \A r \in Records, o \in Nat :
    /\ o + Len(Encode(r)) <= Len(cells)
    /\ cells[o + Len(Encode(r))] = Checksum(Covered(r))
    /\ cells[o + 2] \in Headers
    => r.sequence <= cells[o + 2].sequence /\ r.kind.size <= cells[o + 2].length

LEMMA ChangedCell ==
  ASSUME NEW cell \in Cells, NEW changed \in Changed(cell)
  PROVE  changed \in Cells
<1>1. CASE "length" \in DOMAIN cell
  <2>1. cell \in Headers
    BY <1>1, CellShapes
  <2>2. [cell EXCEPT !.sequence = @ + 1] \in Headers /\ [cell EXCEPT !.length = @ + 1] \in Headers
    BY <2>1 DEF Headers
  <2>3. changed = Junk \/ changed \in Headers
    BY <1>1, <2>2 DEF Changed
  <2> QED BY <2>3 DEF Cells
<1>2. CASE ~ ("length" \in DOMAIN cell)
  <2>1. changed = Junk
    BY <1>2 DEF Changed
  <2> QED BY <2>1 DEF Cells
<1> QED BY <1>1, <1>2

(* A cell that damage leaves is zeroes or a header, and greater than the   *)
(* header that was there.                                                  *)
LEMMA DamagedCell ==
  ASSUME NEW cell \in Cells, NEW changed \in Changed(cell)
  PROVE  /\ changed \in Cells
         /\ \A x : changed # Checksum(x)
         /\ changed # Junk =>
              /\ changed \in Headers /\ cell \in Headers
              /\ cell.sequence \in Nat /\ cell.length \in Nat
              /\ \/ changed.sequence = cell.sequence + 1 /\ changed.length = cell.length
                 \/ changed.sequence = cell.sequence /\ changed.length = cell.length + 1
<1>1. changed \in Cells
  BY ChangedCell
<1>2. CASE changed = Junk
  <2>1. \A x : changed # Checksum(x)
    BY <1>1, <1>2, CellShapes
  <2> QED BY <1>1, <1>2, <2>1
<1>3. CASE changed # Junk
  <2>1. /\ "length" \in DOMAIN cell
        /\ changed \in {[cell EXCEPT !.sequence = @ + 1], [cell EXCEPT !.length = @ + 1]}
    BY <1>3 DEF Changed
  <2>2. cell \in Headers
    BY <2>1, CellShapes
  <2>3. cell.sequence \in Nat /\ cell.length \in Nat
    BY <2>2 DEF Headers
  <2>4. CASE changed = [cell EXCEPT !.sequence = @ + 1]
    <3>1. changed \in Headers /\ changed.sequence = cell.sequence + 1 /\ changed.length = cell.length
      BY <2>2, <2>4 DEF Headers
    <3>2. \A x : changed # Checksum(x)
      BY <1>1, <3>1, CellShapes
    <3> QED BY <1>1, <2>2, <2>3, <3>1, <3>2
  <2>5. CASE changed = [cell EXCEPT !.length = @ + 1]
    <3>1. changed \in Headers /\ changed.sequence = cell.sequence /\ changed.length = cell.length + 1
      BY <2>2, <2>5 DEF Headers
    <3>2. \A x : changed # Checksum(x)
      BY <1>1, <3>1, CellShapes
    <3> QED BY <1>1, <2>2, <2>3, <3>1, <3>2
  <2> QED BY <2>1, <2>4, <2>5
<1> QED BY <1>2, <1>3

LEMMA BackedDamaged ==
  ASSUME NEW cells \in Seq(Cells), Backed(cells), NEW i \in 1..Len(cells),
         NEW cell \in Changed(cells[i]), NEW other, other = [cells EXCEPT ![i] = cell]
  PROVE  other \in Seq(Cells) /\ Len(other) = Len(cells) /\ Backed(other)
<1>1. cells[i] \in Cells
  BY ElementOfSeq
<1>2. cell \in Cells
  BY <1>1, DamagedCell
<1>3. /\ other \in Seq(Cells) /\ Len(other) = Len(cells) /\ Len(cells) \in Nat
      /\ \A j \in 1..Len(cells) : other[j] = IF j = i THEN cell ELSE cells[j]
  BY <1>2, ExceptSeq, LenProperties
<1>4. ASSUME NEW r \in Records, NEW o \in Nat,
             o + Len(Encode(r)) <= Len(other),
             other[o + Len(Encode(r))] = Checksum(Covered(r)), other[o + 2] \in Headers
      PROVE  r.sequence <= other[o + 2].sequence /\ r.kind.size <= other[o + 2].length
  <2> DEFINE m == Len(Encode(r))
             n == Len(cells)
  <2>1. m \in Nat /\ m >= 3 /\ n \in Nat /\ o \in Nat /\ o + m <= n
    BY <1>3, <1>4, RecordEnd
  <2> HIDE DEF m, n
  <2>2. o + m \in 1..n /\ o + 2 \in 1..n
    BY ONLY <2>1
  <2>3. o + m # i /\ cells[o + m] = Checksum(Covered(r))
    <3>1. cell # Checksum(Covered(r))
      BY <1>1, DamagedCell
    <3> QED BY <1>3, <1>4, <2>2, <3>1 DEF m, n
  <2>4. CASE o + 2 # i
    <3>1. other[o + 2] = cells[o + 2]
      BY <1>3, <2>2, <2>4 DEF n
    <3> QED BY <1>4, <2>1, <2>3, <3>1 DEF Backed, m, n
  <2>5. CASE o + 2 = i
    <3>1. other[o + 2] = cell /\ cell # Junk
      <4>1. other[o + 2] = cell
        BY <1>3, <2>2, <2>5 DEF n
      <4> QED BY <1>2, <1>4, <4>1, CellShapes
    <3>2. /\ cells[i] \in Headers /\ cells[i].sequence \in Nat /\ cells[i].length \in Nat
          /\ \/ cell.sequence = cells[i].sequence + 1 /\ cell.length = cells[i].length
             \/ cell.sequence = cells[i].sequence /\ cell.length = cells[i].length + 1
      BY <1>1, <3>1, DamagedCell
    <3>3. r.sequence <= cells[i].sequence /\ r.kind.size <= cells[i].length
      BY <2>1, <2>3, <2>5, <3>2 DEF Backed, m, n
    <3>4. r.sequence \in Nat /\ r.kind.size \in Nat
      BY EncodeCells DEF Records
    <3>5. r.sequence <= cell.sequence /\ r.kind.size <= cell.length
      BY ONLY <3>2, <3>3, <3>4
    <3> QED BY <3>1, <3>5
  <2> QED BY <2>4, <2>5
<1> QED BY <1>3, <1>4 DEF Backed

(* Damage makes no record: a run that is there after it was there before. *)
LEMMA DamagedRuns ==
  ASSUME NEW cells \in Seq(Cells), Backed(cells), NEW i \in 1..Len(cells),
         NEW cell \in Changed(cells[i]), NEW other, other = [cells EXCEPT ![i] = cell],
         NEW q, Run(other, 0, q)
  PROVE  Run(cells, 0, q) /\ ~ (i <= Len(Written(q)))
<1> DEFINE w == Len(Written(q))
<1>1. cells[i] \in Cells /\ cell \in Cells
  <2>1. cells[i] \in Cells
    BY ElementOfSeq
  <2> QED BY <2>1, DamagedCell
<1>2. /\ other \in Seq(Cells) /\ Len(other) = Len(cells) /\ Len(cells) \in Nat
      /\ \A j \in 1..Len(cells) : other[j] = IF j = i THEN cell ELSE cells[j]
  BY <1>1, ExceptSeq, LenProperties
<1>3. q \in Seq(Records) /\ w \in Nat /\ w <= Len(cells)
  <2>1. q \in Seq(Records) /\ 0 + w <= Len(other)
    BY DEF Run, Stands
  <2>2. w \in Nat
    BY <2>1, WrittenRecords, LenProperties
  <2> HIDE DEF w
  <2> QED BY <1>2, <2>1, <2>2
<1> HIDE DEF w
<1>4. ~ (i \in 1..w)
  <2> SUFFICES ASSUME i \in 1..w PROVE FALSE
    OBVIOUS
  <2>1. PICK r \in Records, o \in Nat :
          Stands(other, o, Encode(r)) /\ i - o \in 1..Len(Encode(r))
    BY <1>2, <1>3, RunCells DEF w
  <2> DEFINE m == Len(Encode(r))
             n == Len(cells)
  <2>2. /\ m \in Nat /\ m >= 3 /\ n \in Nat /\ o \in Nat /\ i \in 1..n /\ i - o \in 1..m
        /\ o + m <= n /\ \A j \in 1..m : other[o + j] = Encode(r)[j]
        /\ Encode(r)[m] = Checksum(Covered(r))
    BY <1>2, <2>1, RecordEnd DEF Stands
  <2>3. cell = Encode(r)[i - o]
    <3>1. o + (i - o) = i
      BY ONLY <2>2
    <3> QED BY <1>2, <2>2, <3>1
  <2>4. cell # Junk
    BY <2>1, <2>3, RecordCells
  <2>5. /\ cell \in Headers /\ cells[i] \in Headers
        /\ cells[i].sequence \in Nat /\ cells[i].length \in Nat
        /\ \/ cell.sequence = cells[i].sequence + 1 /\ cell.length = cells[i].length
           \/ cell.sequence = cells[i].sequence /\ cell.length = cells[i].length + 1
    BY <1>1, <2>4, DamagedCell
  <2>6. i - o = 2
    BY <2>1, <2>3, <2>5, RecordCells
  <2>7. cell.sequence = r.sequence /\ cell.length = r.kind.size
    <3>1. cell = HeaderOf(r)
      BY <2>3, <2>6, EncodeCells
    <3> QED BY <3>1 DEF HeaderOf
  <2> HIDE DEF m, n
  <2>8. i = o + 2 /\ o + m \in 1..n /\ o + m # i /\ m \in 1..m
    BY ONLY <2>2, <2>6
  <2>9. cells[o + m] = Checksum(Covered(r))
    BY <1>2, <2>2, <2>8 DEF n
  <2>10. r.sequence <= cells[i].sequence /\ r.kind.size <= cells[i].length
    BY <2>2, <2>5, <2>8, <2>9 DEF Backed, m, n
  <2>11. r.sequence \in Nat /\ r.kind.size \in Nat
    BY EncodeCells DEF Records
  <2> QED BY ONLY <2>5, <2>7, <2>10, <2>11
<1>5. \A j \in 1..w : cells[j] = other[j]
  <2>1. \A j \in 1..w : j \in 1..Len(cells)
    BY ONLY <1>2, <1>3
  <2> QED BY <1>2, <1>4, <2>1
<1>6. Run(cells, 0, q)
  BY <1>2, <1>3, <1>5, RunElsewhere DEF w
<1>7. ~ (i <= w)
  <2>1. i \in 1..Len(cells)
    OBVIOUS
  <2> QED BY ONLY <1>2, <1>3, <1>4, <2>1
<1> QED BY <1>6, <1>7 DEF w

LEMMA BackedNothing ==
  Backed(<<>>)
<1> SUFFICES ASSUME NEW r \in Records, NEW o \in Nat, o + Len(Encode(r)) <= Len(<<>>)
             PROVE  FALSE
  BY DEF Backed
<1>1. Len(Encode(r)) \in Nat /\ Len(Encode(r)) >= 3 /\ Len(<<>>) = 0
  BY RecordEnd, EmptySeq
<1> QED BY <1>1

LEMMA BackedAppended ==
  ASSUME NEW cells \in Seq(Cells), Backed(cells), NEW r \in Records, NEW n \in 0..Len(Encode(r)),
         NEW other, other = cells \o SubSeq(Encode(r), 1, n)
  PROVE  Backed(other)
<1> DEFINE l == Len(Encode(r))
           c == Len(cells)
<1>1. Encode(r) \in Seq(Cells) /\ l \in Nat /\ c \in Nat /\ n \in 0..l
  <2>1. c \in Nat
    BY LenProperties
  <2> HIDE DEF c
  <2> QED BY <2>1, RecordEnd
<1>2. /\ SubSeq(Encode(r), 1, n) \in Seq(Cells) /\ Len(SubSeq(Encode(r), 1, n)) = n
      /\ \A i \in 1..n : SubSeq(Encode(r), 1, n)[i] = Encode(r)[i]
  BY <1>1, FirstPart
<1>3. /\ Len(other) = c + n
      /\ \A i \in 1..c : other[i] = cells[i]
      /\ \A i \in 1..n : other[c + i] = Encode(r)[i]
  BY <1>2, Joined
<1>4. ASSUME NEW x \in Records, NEW o \in Nat,
             o + Len(Encode(x)) <= Len(other),
             other[o + Len(Encode(x))] = Checksum(Covered(x)), other[o + 2] \in Headers
      PROVE  x.sequence <= other[o + 2].sequence /\ x.kind.size <= other[o + 2].length
  <2> DEFINE m == Len(Encode(x))
  <2>1. m \in Nat /\ m >= 3 /\ o \in Nat /\ o + m <= c + n
    BY <1>3, <1>4, RecordEnd
  <2> HIDE DEF l, c, m
  <2>2. CASE o + m <= c
    <3>1. o + m \in 1..c /\ o + 2 \in 1..c
      BY ONLY <1>1, <2>1, <2>2
    <3>2. other[o + m] = cells[o + m] /\ other[o + 2] = cells[o + 2]
      BY <1>3, <3>1
    <3> QED BY <1>4, <2>2, <3>2 DEF Backed, m, c
  <2>3. CASE ~ (o + m <= c)
    <3> DEFINE k == (o + m) - c
    <3>1. k \in 1..n /\ k \in 1..l /\ c + k = o + m
      BY ONLY <1>1, <2>1, <2>3
    <3> HIDE DEF k
    <3>2. Encode(r)[k] = Checksum(Covered(x))
      BY <1>3, <1>4, <3>1 DEF m
    <3>3. k = l /\ x = r
      BY <3>1, <3>2, RecordCells DEF l
    <3>4. m = l
      BY <3>3 DEF m, l
    <3>5. o + 2 = c + 2 /\ 2 \in 1..n
      BY ONLY <1>1, <2>1, <3>1, <3>3, <3>4
    <3>6. other[o + 2] = HeaderOf(r)
      BY <1>3, <3>5, EncodeCells
    <3>7. r.sequence \in Nat /\ r.kind.size \in Nat
      BY EncodeCells DEF Records
    <3>8. other[o + 2].sequence = r.sequence /\ other[o + 2].length = r.kind.size
      <4>1. HeaderOf(r).sequence = r.sequence /\ HeaderOf(r).length = r.kind.size
        BY DEF HeaderOf
      <4> QED BY ONLY <3>6, <4>1
    <3> QED BY ONLY <3>3, <3>7, <3>8
  <2> QED BY <2>2, <2>3
<1> QED BY <1>4 DEF Backed

LEMMA BackedCut ==
  ASSUME NEW cells \in Seq(Cells), Backed(cells), NEW n \in 0..Len(cells), NEW other \in Seq(Cells),
         \A i \in 1..n : other[i] = cells[i],
         \A i \in 1..Len(other) : i > n => other[i] = Junk
  PROVE  Backed(other)
<1> SUFFICES ASSUME NEW r \in Records, NEW o \in Nat,
                    o + Len(Encode(r)) <= Len(other),
                    other[o + Len(Encode(r))] = Checksum(Covered(r)), other[o + 2] \in Headers
             PROVE  r.sequence <= other[o + 2].sequence /\ r.kind.size <= other[o + 2].length
  BY DEF Backed
<1> DEFINE m == Len(Encode(r))
           l == Len(other)
           c == Len(cells)
<1>1. /\ m \in Nat /\ m >= 3 /\ l \in Nat /\ c \in Nat /\ n \in 0..c /\ o \in Nat /\ o + m <= l
  <2>1. l \in Nat /\ c \in Nat /\ n \in 0..c /\ o \in Nat
    BY LenProperties
  <2>2. o + m <= l
    OBVIOUS
  <2>3. m \in Nat /\ m >= 3
    BY RecordEnd
  <2> QED BY <2>1, <2>2, <2>3
<1> HIDE DEF m, l, c
<1>2. o + m \in 1..l /\ (o + m > n \/ (o + m \in 1..n /\ o + 2 \in 1..n /\ o + m <= c))
  BY ONLY <1>1
<1>3. ~ (o + m > n)
  <2> SUFFICES ASSUME o + m > n PROVE FALSE
    OBVIOUS
  <2>1. other[o + m] = Junk
    BY <1>2 DEF l
  <2>2. other[o + m] = Checksum(Covered(r))
    BY DEF m
  <2>3. other[o + m] \in Cells
    BY <1>2, ElementOfSeq DEF l
  <2> QED BY <2>1, <2>2, <2>3, CellShapes
<1>4. other[o + m] = cells[o + m] /\ other[o + 2] = cells[o + 2] /\ o + m <= c
  BY <1>2, <1>3
<1> QED BY <1>4 DEF Backed, m, c

-------------------------------------------------------------------------------
(* What every step leaves in the file. *)

FileInv == file \in Seq(Cells) /\ TypeOK

LEMMA FileInvInit ==
  Init => FileInv
<1> SUFFICES ASSUME Init PROVE FileInv
  OBVIOUS
<1>1. file = <<>> /\ synced = 0 /\ failed = FALSE /\ mishaps = 0 /\ damages = 0
  BY DEF Init
<1>2. file \in Seq(Cells) /\ synced \in 0..Len(file)
  BY <1>1, EmptySeq
<1>3. writer \in [open : BOOLEAN, session : Sessions, next : Nat]
  BY DEF Init
<1>4. failed \in BOOLEAN /\ mishaps \in 0..MaxMishaps /\ damages \in 0..mishaps
  <2>1. failed \in BOOLEAN
    BY <1>1, Zenon
  <2>2. mishaps = 0
    BY <1>1
  <2>3. 0 \in 0..MaxMishaps
    BY BoundsAssumption
  <2>4. damages \in 0..mishaps
    BY ONLY <1>1
  <2> QED BY <2>1, <2>2, <2>3, <2>4
<1> QED BY <1>2, <1>3, <1>4 DEF FileInv, TypeOK

LEMMA NextRecordIsRecord ==
  ASSUME TypeOK, NEW kind \in Kinds
  PROVE  NextRecord(kind) \in Records
BY DEF TypeOK, NextRecord, Records

LEMMA FileInvStep ==
  FileInv /\ [Next]_vars => FileInv'
<1> SUFFICES ASSUME FileInv, [Next]_vars PROVE FileInv'
  OBVIOUS
<1>1. file \in Seq(Cells) /\ TypeOK /\ Len(file) \in Nat /\ synced \in 0..Len(file)
  BY LenProperties DEF FileInv, TypeOK
<1>2. ASSUME NEW kind \in Kinds, NEW durable \in BOOLEAN, AppendRecord(kind, durable)
      PROVE  FileInv'
  <2>1. Encode(NextRecord(kind)) \in Seq(Cells)
    BY <1>1, NextRecordIsRecord, EncodeCells
  <2>2. file' = file \o Encode(NextRecord(kind))
    BY <1>2 DEF AppendRecord
  <2>3. file' \in Seq(Cells) /\ Len(file') \in Nat /\ Len(file) <= Len(file')
    BY <1>1, <2>1, <2>2, Joined
  <2>4. synced' = (IF durable THEN Len(file') ELSE synced) /\ UNCHANGED <<failed, mishaps, damages>>
    BY <1>2 DEF AppendRecord
  <2>5. writer' \in [open : BOOLEAN, session : Sessions, next : Nat]
    <3>1. writer \in [open : BOOLEAN, session : Sessions, next : Nat]
      BY <1>1 DEF TypeOK
    <3>2. writer' = [writer EXCEPT !.next = @ + 1]
      BY <1>2 DEF AppendRecord
    <3> QED BY ONLY <3>1, <3>2
  <2>6. synced' \in 0..Len(file')
    BY <1>1, <2>3, <2>4
  <2> QED BY <1>1, <2>3, <2>4, <2>5, <2>6 DEF FileInv, TypeOK
<1>3. ASSUME NEW kind \in Kinds, AppendFails(kind)
      PROVE  FileInv'
  <2>1. Encode(NextRecord(kind)) \in Seq(Cells)
    BY <1>1, NextRecordIsRecord, EncodeCells
  <2>2. PICK n \in 0..Len(Encode(NextRecord(kind))) :
          file' = file \o SubSeq(Encode(NextRecord(kind)), 1, n)
    BY <1>3 DEF AppendFails, RecordLen
  <2>3. SubSeq(Encode(NextRecord(kind)), 1, n) \in Seq(Cells)
    BY <2>1, FirstPart
  <2>4. file' \in Seq(Cells) /\ Len(file') \in Nat /\ Len(file) <= Len(file')
    BY <1>1, <2>2, <2>3, Joined
  <2>5. /\ UNCHANGED <<synced, writer, damages>> /\ failed' = TRUE
        /\ mishaps < MaxMishaps /\ mishaps' = mishaps + 1
    BY <1>3 DEF AppendFails, Mishap
  <2>6. synced' \in 0..Len(file') /\ mishaps' \in 0..MaxMishaps /\ damages' \in 0..mishaps'
    BY <1>1, <2>4, <2>5, BoundsAssumption DEF TypeOK
  <2> QED BY <1>1, <2>4, <2>5, <2>6 DEF FileInv, TypeOK
<1>4. ASSUME NEW s \in Sessions, Open(s)
      PROVE  FileInv'
  <2>1. ParseValid(file) \in Seq(Records)
    BY <1>1, ParseReadsLongestRun DEF LongestRun, Run
  <2>2. NextSequence(ParseValid(file)) \in Nat
    <3>1. CASE ParseValid(file) = <<>>
      BY <3>1 DEF NextSequence
    <3>2. CASE ParseValid(file) # <<>>
      <4>1. Len(ParseValid(file)) \in 1..Len(ParseValid(file))
        BY <2>1, <3>2, EmptySeq
      <4>2. Last(ParseValid(file)) \in Records
        BY <2>1, <4>1, ElementOfSeq DEF Last
      <4> QED BY <3>2, <4>2 DEF NextSequence, Records
    <3> QED BY <3>1, <3>2
  <2>3. writer' \in [open : BOOLEAN, session : Sessions, next : Nat]
    BY <1>4, <2>2 DEF Open
  <2>4. UNCHANGED <<file, synced, failed, mishaps, damages>>
    BY <1>4 DEF Open
  <2> QED BY <1>1, <2>3, <2>4 DEF FileInv, TypeOK
<1>5. CASE Close
  BY <1>1, <1>5 DEF Close, Closed, FileInv, TypeOK
<1>6. CASE Crash
  <2>1. PICK n \in synced..Len(file) :
          file' \in {SubSeq(file, 1, n), SubSeq(file, 1, n) \o [i \in 1..Len(file) - n |-> Junk]}
    BY <1>6 DEF Crash
  <2>2. n \in 0..Len(file) /\ Len(file) - n \in Nat
    BY <1>1, <2>1
  <2>3. SubSeq(file, 1, n) \in Seq(Cells)
    BY <1>1, <2>2, FirstPart
  <2>4. [i \in 1..Len(file) - n |-> Junk] \in Seq(Cells)
    <3> DEFINE m == Len(file) - n
               zeroes == [i \in 1..m |-> Junk]
    <3>1. m \in Nat /\ zeroes \in [1..m -> Cells]
      BY <2>2 DEF Cells
    <3> HIDE DEF m, zeroes
    <3>2. zeroes \in Seq(Cells)
      BY <3>1, SeqDef
    <3> QED BY <3>2 DEF m, zeroes
  <2>5. SubSeq(file, 1, n) \o [i \in 1..Len(file) - n |-> Junk] \in Seq(Cells)
    BY <2>3, <2>4, Joined
  <2>6. file' \in Seq(Cells) /\ Len(file') \in Nat
    BY <2>1, <2>3, <2>5, LenProperties
  <2>7. writer' \in [open : BOOLEAN, session : Sessions, next : Nat]
    BY <1>1, <1>6 DEF Crash, Closed, TypeOK
  <2>8. /\ synced' = Len(file') /\ UNCHANGED <<failed, damages>>
        /\ mishaps < MaxMishaps /\ mishaps' = mishaps + 1
    BY <1>6 DEF Crash, Mishap
  <2>9. synced' \in 0..Len(file') /\ mishaps' \in 0..MaxMishaps /\ damages' \in 0..mishaps'
    BY <1>1, <2>6, <2>8, BoundsAssumption DEF TypeOK
  <2> QED BY <1>1, <2>6, <2>7, <2>8, <2>9 DEF FileInv, TypeOK
<1>7. CASE Damage
  <2>1. PICK i \in DOMAIN file : \E cell \in Changed(file[i]) : file' = [file EXCEPT ![i] = cell]
    BY <1>7 DEF Damage
  <2>2. i \in 1..Len(file)
    BY <1>1, <2>1, LenProperties
  <2>3. PICK cell \in Changed(file[i]) : file' = [file EXCEPT ![i] = cell]
    BY <2>1
  <2>4. cell \in Cells
    <3>1. file[i] \in Cells
      BY <1>1, <2>2, ElementOfSeq
    <3> QED BY <2>3, <3>1, ChangedCell
  <2>5. file' \in Seq(Cells) /\ Len(file') = Len(file)
    BY <1>1, <2>2, <2>3, <2>4, ExceptSeq
  <2>6. /\ UNCHANGED <<synced, writer, failed>>
        /\ mishaps < MaxMishaps /\ mishaps' = mishaps + 1 /\ damages' = damages + 1
    BY <1>7 DEF Damage, Mishap
  <2>7. synced' \in 0..Len(file') /\ mishaps' \in 0..MaxMishaps /\ damages' \in 0..mishaps'
    BY <1>1, <2>5, <2>6, BoundsAssumption DEF TypeOK
  <2> QED BY <1>1, <2>5, <2>6, <2>7 DEF FileInv, TypeOK
<1>8. CASE UNCHANGED vars
  BY <1>1, <1>8 DEF vars, FileInv, TypeOK
<1> QED BY <1>2, <1>3, <1>4, <1>5, <1>6, <1>7, <1>8 DEF Next

LEMMA FileInvHolds ==
  Spec => []FileInv
<1> QED BY FileInvInit, FileInvStep, PTL DEF Spec

(* Every variable keeps its type: also the number that Open takes from     *)
(* whatever it could read.                                                 *)
THEOREM JournalFileTypeOK ==
  Spec => []TypeOK
<1>1. FileInv => TypeOK
  BY DEF FileInv
<1> QED BY <1>1, FileInvHolds, PTL

(* parse_valid reads the longest run of whole records at the beginning of  *)
(* the file that are numbered one after the other, whatever appends,       *)
(* failures, crashes and damage have made of it.                           *)
THEOREM ParseIsAlwaysExact ==
  Spec => []ParseIsExact
<1>1. FileInv => ParseIsExact
  <2> SUFFICES ASSUME FileInv PROVE ParseIsExact
    OBVIOUS
  <2>1. file \in Seq(Cells) /\ LongestRun(file, 0, Read)
    BY ParseReadsLongestRun DEF FileInv, Read
  <2>2. Read \in Seq(Records) /\ Written(Read) \in Seq(Cells) /\ Len(Written(Read)) \in Nat
    BY <2>1, WrittenRecords, LenProperties DEF LongestRun, Run
  <2>3. IsPrefix(Written(Read), file)
    BY <2>1, <2>2, StandsFirst DEF LongestRun, Run
  <2>4. ASSUME NEW r \in Records, CanFollow(Read, r)
        PROVE  ~ IsPrefix(Written(Append(Read, r)), file)
    <3>1. Encode(r) \in Seq(Cells) /\ Written(Append(Read, r)) = Written(Read) \o Encode(r)
      BY <2>2, WrittenRecords, EncodeCells
    <3>2. Written(Read) \o Encode(r) \in Seq(Cells)
      BY <2>2, <3>1, Joined
    <3>3. IsPrefix(Written(Append(Read, r)), file) => Stands(file, 0 + Len(Written(Read)), Encode(r))
      <4>1. IsPrefix(Written(Append(Read, r)), file) <=> Stands(file, 0, Written(Read) \o Encode(r))
        BY <2>1, <3>1, <3>2, StandsFirst
      <4>2. Stands(file, 0, Written(Read) \o Encode(r))
              <=> Stands(file, 0, Written(Read)) /\ Stands(file, 0 + Len(Written(Read)), Encode(r))
        BY <2>1, <2>2, <3>1, StandsJoined
      <4> QED BY <4>1, <4>2
    <3>4. ~ Stands(file, 0 + Len(Written(Read)), Encode(r))
      BY <2>1, <2>4 DEF LongestRun, Run
    <3> QED BY <3>3, <3>4
  <2>5. ASSUME NEW s \in Sessions, NEW n \in 0..MaxCells, NEW k \in Kinds
        PROVE  [session |-> s, sequence |-> n, kind |-> k] \in Records
    BY BoundsAssumption DEF Records
  <2>6. \A i \in 1..Len(Read) - 1 : Follows(Read[i], Read[i + 1])
    BY <2>1 DEF LongestRun, Run
  <2> QED BY <2>3, <2>4, <2>5, <2>6 DEF ParseIsExact, CanFollow
<1> QED BY <1>1, FileInvHolds, PTL

-------------------------------------------------------------------------------
(* What a step does to the cells. *)

LEMMA Appending ==
  ASSUME FileInv, NEW kind \in Kinds
  PROVE  /\ NextRecord(kind) \in Records
         /\ \A durable \in BOOLEAN : AppendRecord(kind, durable) =>
              /\ file' = file \o SubSeq(Encode(NextRecord(kind)), 1, Len(Encode(NextRecord(kind))))
              /\ kind.size <= MaxRecordSize
              /\ synced' \in {synced, Len(file')}
         /\ AppendFails(kind) =>
              /\ \E n \in 0..Len(Encode(NextRecord(kind))) :
                   file' = file \o SubSeq(Encode(NextRecord(kind)), 1, n)
              /\ synced' = synced /\ failed' = TRUE
<1>1. NextRecord(kind) \in Records
  BY NextRecordIsRecord DEF FileInv
<1>2. SubSeq(Encode(NextRecord(kind)), 1, Len(Encode(NextRecord(kind)))) = Encode(NextRecord(kind))
  BY <1>1, EncodeCells, SubSeqFull
<1>3. ASSUME NEW durable \in BOOLEAN, AppendRecord(kind, durable)
      PROVE  /\ file' = file \o SubSeq(Encode(NextRecord(kind)), 1, Len(Encode(NextRecord(kind))))
             /\ kind.size <= MaxRecordSize
             /\ synced' \in {synced, Len(file')}
  <2>1. file' = file \o Encode(NextRecord(kind)) /\ kind.size <= MaxRecordSize
    BY <1>3 DEF AppendRecord, CanAppend, Accepts
  <2>2. synced' = IF durable THEN Len(file') ELSE synced
    BY <1>3 DEF AppendRecord
  <2> QED BY <1>2, <2>1, <2>2
<1>4. ASSUME AppendFails(kind)
      PROVE  /\ \E n \in 0..Len(Encode(NextRecord(kind))) :
                  file' = file \o SubSeq(Encode(NextRecord(kind)), 1, n)
             /\ synced' = synced /\ failed' = TRUE
  BY <1>4 DEF AppendFails, RecordLen
<1> QED BY <1>1, <1>3, <1>4

LEMMA Crashing ==
  ASSUME FileInv, Crash
  PROVE  /\ file' \in Seq(Cells) /\ synced' = Len(file')
         /\ \E n \in 0..Len(file) :
              /\ synced <= n /\ n <= Len(file')
              /\ \A i \in 1..n : file'[i] = file[i]
              /\ \A i \in 1..Len(file') : i > n => file'[i] = Junk
<1>1. file \in Seq(Cells) /\ Len(file) \in Nat /\ synced \in 0..Len(file)
  BY LenProperties DEF FileInv, TypeOK
<1>2. PICK n \in synced..Len(file) :
        file' \in {SubSeq(file, 1, n), SubSeq(file, 1, n) \o [i \in 1..Len(file) - n |-> Junk]}
  BY DEF Crash
<1> DEFINE s == SubSeq(file, 1, n)
           m == Len(file) - n
           zeroes == [i \in 1..m |-> Junk]
<1>3. n \in 0..Len(file) /\ n \in Nat /\ m \in Nat /\ synced <= n
  BY <1>1, <1>2
<1>4. s \in Seq(Cells) /\ Len(s) = n /\ \A i \in 1..n : s[i] = file[i]
  BY <1>1, <1>3, FirstPart
<1>5. zeroes \in Seq(Cells) /\ Len(zeroes) = m /\ \A i \in 1..m : zeroes[i] = Junk
  <2>1. zeroes \in [1..m -> Cells] /\ \A i \in 1..m : zeroes[i] = Junk
    BY DEF Cells
  <2> HIDE DEF zeroes, m
  <2> QED BY <1>3, <2>1, SeqDef, LenProperties
<1>6. file' \in {s, s \o zeroes}
  BY <1>2
<1>7. synced' = Len(file')
  BY DEF Crash
<1> HIDE DEF s, m, zeroes
<1>8. CASE file' = s
  <2>1. /\ file' \in Seq(Cells) /\ n <= Len(file')
        /\ \A i \in 1..n : file'[i] = file[i]
        /\ \A i \in 1..Len(file') : i > n => file'[i] = Junk
    BY <1>3, <1>4, <1>8
  <2> QED BY <1>3, <1>7, <2>1
<1>9. CASE file' = s \o zeroes
  <2>1. /\ file' \in Seq(Cells) /\ Len(file') = n + m
        /\ \A i \in 1..n : file'[i] = s[i]
        /\ \A i \in 1..m : file'[n + i] = zeroes[i]
    <3>1. s \in Seq(Cells) /\ zeroes \in Seq(Cells)
      BY <1>4, <1>5
    <3>2. /\ s \o zeroes \in Seq(Cells) /\ Len(s \o zeroes) = Len(s) + Len(zeroes)
          /\ \A i \in 1..Len(s) : (s \o zeroes)[i] = s[i]
          /\ \A i \in 1..Len(zeroes) : (s \o zeroes)[Len(s) + i] = zeroes[i]
      BY ONLY <3>1, Joined
    <3>3. Len(s) = n /\ Len(zeroes) = m
      BY <1>4, <1>5
    <3> QED BY ONLY <1>9, <3>2, <3>3
  <2>2. n <= Len(file') /\ \A i \in 1..n : file'[i] = file[i]
    BY <1>3, <1>4, <2>1
  <2>3. ASSUME NEW i \in 1..Len(file'), i > n PROVE file'[i] = Junk
    <3>1. i - n \in 1..m /\ n + (i - n) = i
      BY <1>3, <2>1, <2>3
    <3> QED BY <1>5, <2>1, <3>1
  <2> QED BY <1>3, <1>7, <2>1, <2>2, <2>3
<1> QED BY <1>6, <1>8, <1>9

LEMMA Damaging ==
  ASSUME FileInv, Damage
  PROVE  /\ synced' = synced /\ writer' = writer /\ failed' = failed
         /\ \E i \in 1..Len(file) : \E cell \in Changed(file[i]) : file' = [file EXCEPT ![i] = cell]
<1>1. DOMAIN file = 1..Len(file)
  BY LenProperties DEF FileInv
<1> QED BY <1>1 DEF Damage

-------------------------------------------------------------------------------
(* What an open Journal knows of its file. *)

(* The next record continues what is read. *)
Continues ==
  Read # <<>> => Last(Read).session = writer.session /\ Last(Read).sequence + 1 = writer.next

LogInv ==
  /\ FileInv
  /\ Backed(file)
  /\ writer.open /\ ~ failed /\ Whole => Continues

LEMMA ReadFacts ==
  ASSUME FileInv
  PROVE  /\ file \in Seq(Cells) /\ Len(file) \in Nat /\ synced \in 0..Len(file)
         /\ Read = ParseValid(file) /\ LongestRun(file, 0, Read) /\ Run(file, 0, Read)
         /\ Read \in Seq(Records) /\ Len(Read) \in Nat
         /\ Len(Written(Read)) \in Nat /\ Len(Written(Read)) <= Len(file)
<1>1. file \in Seq(Cells) /\ Len(file) \in Nat /\ synced \in 0..Len(file)
  BY LenProperties DEF FileInv, TypeOK
<1>2. Read = ParseValid(file) /\ LongestRun(file, 0, Read)
  BY <1>1, ParseReadsLongestRun DEF Read
<1>3. Run(file, 0, Read) /\ Read \in Seq(Records) /\ Len(Read) \in Nat
  BY <1>2, LenProperties DEF LongestRun, Run
<1>4. Len(Written(Read)) \in Nat /\ 0 + Len(Written(Read)) <= Len(file)
  BY <1>3, WrittenRecords, LenProperties DEF Run, Stands
<1>5. Len(Written(Read)) <= Len(file)
  BY ONLY <1>1, <1>4
<1> QED BY <1>1, <1>2, <1>3, <1>4, <1>5

LEMMA AppendChangesRead ==
  ASSUME FileInv, NEW r \in Records, NEW n \in 0..Len(Encode(r)),
         file' = file \o SubSeq(Encode(r), 1, n)
  PROVE  Grows(file, r, n, Read, Read')
<1>1. file \in Seq(Cells)
  BY DEF FileInv
<1>2. Read = ParseValid(file) /\ Read' = ParseValid(file')
  BY DEF Read
<1> QED BY <1>1, <1>2, AppendReads

LEMMA NothingRead ==
  ASSUME Init
  PROVE  Read = <<>>
<1>0. FileInv
  BY FileInvInit
<1>1. Len(file) = 0
  BY EmptySeq DEF Init
<1> DEFINE n == Len(Read)
<1>2. n = 0 \/ n # 0
  OBVIOUS
<1>3. CASE n # 0
  <2>1. 1 \in 1..n /\ Read \in Seq(Records)
    BY <1>0, <1>3, ReadFacts
  <2>2. Read[1] \in Records
    BY <2>1, ElementOfSeq
  <2>3. SubSeq(Read, 1, 1) = Append(SubSeq(Read, 1, 0), Read[1]) /\ SubSeq(Read, 1, 0) \in Seq(Records)
    <3>1. 0 \in Nat /\ 0 < Len(Read) /\ 0 + 1 = 1
      BY <1>0, <1>3, ReadFacts
    <3> QED BY <2>1, <3>1, OneLonger
  <2>4. Run(file, 0, Append(SubSeq(Read, 1, 0), Read[1]))
    <3>1. 1 \in 0..Len(Read)
      BY <1>0, <1>3, ReadFacts
    <3> QED BY <1>0, <2>3, <3>1, ReadFacts, RunPrefix
  <2>5. Stands(file, Len(Written(SubSeq(Read, 1, 0))), Encode(Read[1]))
    BY <1>0, <2>2, <2>3, <2>4, ReadFacts, RunAppend
  <2>6. Len(Written(SubSeq(Read, 1, 0))) + Len(Encode(Read[1])) <= 0
    BY <1>1, <2>5 DEF Stands
  <2>7. Len(Encode(Read[1])) \in Nat /\ Len(Encode(Read[1])) >= 3
    BY <2>2, RecordEnd
  <2>8. Len(Written(SubSeq(Read, 1, 0))) \in Nat
    BY <2>3, WrittenRecords, LenProperties
  <2> QED BY ONLY <2>6, <2>7, <2>8
<1> QED BY <1>0, <1>2, <1>3, ReadFacts, EmptySeq

LEMMA LogInvInit ==
  Init => LogInv
<1> SUFFICES ASSUME Init PROVE LogInv
  OBVIOUS
<1>1. FileInv
  BY FileInvInit
<1>2. Backed(file)
  BY BackedNothing DEF Init
<1>3. Read = <<>>
  BY NothingRead
<1> QED BY <1>1, <1>2, <1>3 DEF LogInv, Continues

LEMMA LogInvStep ==
  LogInv /\ [Next]_vars => LogInv'
<1> SUFFICES ASSUME LogInv, [Next]_vars PROVE LogInv'
  OBVIOUS
<1>1. FileInv /\ FileInv' /\ Backed(file)
  BY FileInvStep DEF LogInv
<1>2. file \in Seq(Cells) /\ Len(file) \in Nat /\ file' \in Seq(Cells) /\ Len(file') \in Nat
  BY <1>1, LenProperties DEF FileInv
<1>3. ASSUME NEW kind \in Kinds, NEW durable \in BOOLEAN, AppendRecord(kind, durable)
      PROVE  LogInv'
  <2> DEFINE r == NextRecord(kind)
             n == Len(Encode(r))
  <2>1. r \in Records /\ file' = file \o SubSeq(Encode(r), 1, n)
    BY <1>1, <1>3, Appending
  <2>2. Encode(r) \in Seq(Cells) /\ n \in Nat /\ n >= 3 /\ n \in 0..n
    BY <2>1, RecordEnd
  <2>3. Backed(file')
    BY <1>1, <1>2, <2>1, <2>2, BackedAppended
  <2>4. Len(file') = Len(file) + n
    BY <1>2, <2>1, <2>2, FirstPart, Joined
  <2>5. Read' = Read \/ Read' = Append(Read, r)
    BY <1>1, <2>1, <2>2, AppendChangesRead DEF Grows
  <2>6. Whole' => Read' # Read
    <3> SUFFICES ASSUME Whole', Read' = Read PROVE FALSE
      OBVIOUS
    <3>1. Len(Written(Read)) = Len(file')
      BY DEF Whole
    <3>2. Len(Written(Read)) \in Nat /\ Len(Written(Read)) <= Len(file)
      BY <1>1, ReadFacts
    <3> HIDE DEF n
    <3> QED BY ONLY <1>2, <2>2, <2>4, <3>1, <3>2
  <2>7. Last(Append(Read, r)) = r
    <3>1. Read \in Seq(Records) /\ Len(Append(Read, r)) = Len(Read) + 1 /\ Append(Read, r)[Len(Read) + 1] = r
      BY <1>1, <2>1, ReadFacts, AppendProperties
    <3> QED BY <3>1 DEF Last
  <2>8. /\ r.session = writer.session /\ r.sequence = writer.next
        /\ writer'.session = writer.session /\ writer'.next = writer.next + 1
    <3>1. writer \in [open : BOOLEAN, session : Sessions, next : Nat]
      BY <1>1 DEF FileInv, TypeOK
    <3>2. writer' = [writer EXCEPT !.next = @ + 1]
      BY <1>3 DEF AppendRecord
    <3>3. writer'.session = writer.session /\ writer'.next = writer.next + 1
      BY ONLY <3>1, <3>2
    <3>4. r.session = writer.session /\ r.sequence = writer.next
      BY DEF NextRecord
    <3> QED BY <3>3, <3>4
  <2> HIDE DEF r, n
  <2>9. Whole' => Continues'
    <3> SUFFICES ASSUME Whole' PROVE Continues'
      OBVIOUS
    <3>1. Read' = Append(Read, r)
      BY <2>5, <2>6
    <3>2. Last(Read') = r
      BY <2>7, <3>1
    <3> QED BY <2>8, <3>2 DEF Continues
  <2> QED BY <1>1, <2>3, <2>9 DEF LogInv
<1>4. ASSUME NEW kind \in Kinds, AppendFails(kind)
      PROVE  LogInv'
  <2> DEFINE r == NextRecord(kind)
  <2>1. r \in Records /\ failed' = TRUE
    BY <1>1, <1>4, Appending
  <2>2. PICK n \in 0..Len(Encode(r)) : file' = file \o SubSeq(Encode(r), 1, n)
    BY <1>1, <1>4, Appending
  <2> HIDE DEF r
  <2>3. Backed(file')
    BY <1>1, <1>2, <2>1, <2>2, BackedAppended
  <2> QED BY <1>1, <2>1, <2>3 DEF LogInv
<1>5. ASSUME NEW s \in Sessions, Open(s)
      PROVE  LogInv'
  <2>1. file' = file /\ Read' = Read
    BY <1>5 DEF Open, Read
  <2>2. /\ \A i \in DOMAIN Read : Read[i].session = s
        /\ writer' = [open |-> TRUE, session |-> s, next |-> NextSequence(Read)]
    BY <1>5 DEF Open, Read
  <2>3. ASSUME Read # <<>> PROVE Last(Read).session = s /\ Last(Read).sequence + 1 = NextSequence(Read)
    <3>1. Len(Read) \in DOMAIN Read
      BY <1>1, <2>3, ReadFacts, LenProperties, EmptySeq
    <3> QED BY <2>2, <2>3, <3>1 DEF NextSequence, Last
  <2>4. Continues'
    <3>1. writer'.session = s /\ writer'.next = NextSequence(Read)
      BY <2>2
    <3> QED BY <2>1, <2>3, <3>1 DEF Continues
  <2> QED BY <1>1, <2>1, <2>4 DEF LogInv
<1>6. CASE Close
  <2>1. file' = file /\ ~ writer'.open
    <3>1. writer \in [open : BOOLEAN, session : Sessions, next : Nat]
      BY <1>1 DEF FileInv, TypeOK
    <3>2. writer' = [writer EXCEPT !.open = FALSE, !.next = 0] /\ file' = file
      BY <1>6 DEF Close, Closed
    <3> QED BY ONLY <3>1, <3>2
  <2> QED BY <1>1, <2>1 DEF LogInv
<1>7. CASE Crash
  <2>1. ~ writer'.open
    <3>1. writer \in [open : BOOLEAN, session : Sessions, next : Nat]
      BY <1>1 DEF FileInv, TypeOK
    <3>2. writer' = [writer EXCEPT !.open = FALSE, !.next = 0]
      BY <1>7 DEF Crash, Closed
    <3> QED BY ONLY <3>1, <3>2
  <2>2. PICK n \in 0..Len(file) :
          /\ \A i \in 1..n : file'[i] = file[i]
          /\ \A i \in 1..Len(file') : i > n => file'[i] = Junk
    BY <1>1, <1>7, Crashing
  <2>3. Backed(file')
    BY <1>1, <1>2, <2>2, BackedCut
  <2> QED BY <1>1, <2>1, <2>3 DEF LogInv
<1>8. CASE Damage
  <2>1. PICK i \in 1..Len(file) : \E cell \in Changed(file[i]) : file' = [file EXCEPT ![i] = cell]
    BY <1>1, <1>8, Damaging
  <2>2. PICK cell \in Changed(file[i]) : file' = [file EXCEPT ![i] = cell]
    BY <2>1
  <2>3. Len(file') = Len(file) /\ Backed(file')
    BY <1>1, <1>2, <2>2, BackedDamaged
  <2>4. ~ Whole'
    <3> SUFFICES ASSUME Whole' PROVE FALSE
      OBVIOUS
    <3>1. Run(file', 0, Read')
      <4>1. LongestRun(file', 0, ParseValid(file'))
        BY <1>2, ParseReadsLongestRun
      <4> QED BY <4>1 DEF LongestRun, Read
    <3>2. ~ (i <= Len(Written(Read')))
      BY <1>1, <1>2, <2>2, <3>1, DamagedRuns
    <3>3. Len(Written(Read')) = Len(file)
      BY <2>3 DEF Whole
    <3> QED BY <3>2, <3>3
  <2> QED BY <1>1, <2>3, <2>4 DEF LogInv
<1>9. CASE UNCHANGED vars
  BY <1>1, <1>9 DEF LogInv, vars, Continues, Whole, Read
<1> QED BY <1>3, <1>4, <1>5, <1>6, <1>7, <1>8, <1>9 DEF Next

LEMMA LogInvHolds ==
  Spec => []LogInv
<1> QED BY LogInvInit, LogInvStep, PTL DEF Spec

(* A record whose append returned is read at once, after all the others,   *)
(* as long as no append has failed and nothing unreadable is in the way.   *)
THEOREM AppendIsAlwaysRead ==
  Spec => AppendIsRead
<1>1. ASSUME LogInv, NEW kind \in Kinds, NEW durable \in BOOLEAN,
             ~ failed, Whole, AppendRecord(kind, durable)
      PROVE  Read' = Append(Read, NextRecord(kind))
  <2> DEFINE r == NextRecord(kind)
             n == Len(Encode(r))
  <2>1. FileInv /\ Continues
    BY <1>1 DEF LogInv, AppendRecord, CanAppend
  <2>2. r \in Records /\ kind.size <= MaxRecordSize /\ file' = file \o SubSeq(Encode(r), 1, n)
    BY <1>1, <2>1, Appending
  <2>3. CanFollow(Read, r)
    BY <2>1, <2>2 DEF CanFollow, Continues, Follows, NextRecord
  <2>4. n \in 0..n /\ file \in Seq(Cells) /\ Len(Written(Read)) = Len(file)
    BY <1>1, <2>1, <2>2, RecordEnd, ReadFacts DEF Whole
  <2> HIDE DEF r
  <2>5. Read' = Append(Read, r)
    BY <2>1, <2>2, <2>3, <2>4, AppendChangesRead DEF Grows
  <2> QED BY <2>5 DEF r
<1>2. LogInv /\ [Next]_vars =>
        [\A kind \in Kinds, durable \in BOOLEAN :
           ~ failed /\ Whole /\ AppendRecord(kind, durable) =>
             Read' = Append(Read, NextRecord(kind))]_vars
  BY <1>1
<1> QED BY <1>2, LogInvHolds, PTL DEF Spec, AppendIsRead

-------------------------------------------------------------------------------
(* The file implements the log. *)

(* What a crash cannot take. *)
OnDisk(cells, n) == ParseValid(SubSeq(cells, 1, n))

LEMMA OnDiskIsRead ==
  ASSUME NEW cells \in Seq(Cells), NEW n \in 0..Len(cells), NEW q, q = OnDisk(cells, n)
  PROVE  /\ SubSeq(cells, 1, n) \in Seq(Cells) /\ Len(SubSeq(cells, 1, n)) = n
         /\ \A i \in 1..n : SubSeq(cells, 1, n)[i] = cells[i]
         /\ Run(SubSeq(cells, 1, n), 0, q) /\ q \in Seq(Records) /\ Len(q) \in Nat
         /\ Len(Written(q)) \in Nat /\ Len(Written(q)) <= n
         /\ Len(q) <= Len(ParseValid(cells)) /\ Len(ParseValid(cells)) \in Nat
         /\ n = Len(cells) => q = ParseValid(cells)
<1>1. /\ SubSeq(cells, 1, n) \in Seq(Cells) /\ Len(SubSeq(cells, 1, n)) = n
      /\ \A i \in 1..n : SubSeq(cells, 1, n)[i] = cells[i]
  BY FirstPart
<1>2. Run(SubSeq(cells, 1, n), 0, q) /\ q \in Seq(Records) /\ Len(q) \in Nat
  BY <1>1, ParseReadsLongestRun, LenProperties DEF OnDisk, LongestRun, Run
<1>3. Len(Written(q)) \in Nat /\ Len(Written(q)) <= n
  <2>1. Len(Written(q)) \in Nat /\ 0 + Len(Written(q)) <= n
    BY <1>1, <1>2, WrittenRecords, LenProperties DEF Run, Stands
  <2> QED BY ONLY <2>1, n \in 0..Len(cells)
<1>4. Run(cells, 0, q)
  <2>1. Len(cells) \in Nat /\ n \in 0..Len(cells)
    BY LenProperties
  <2>2. Len(Written(q)) <= Len(cells)
    BY ONLY <1>3, <2>1
  <2>3. \A i \in 1..Len(Written(q)) : cells[i] = SubSeq(cells, 1, n)[i]
    BY <1>1, <1>3
  <2> QED BY <1>1, <1>2, <2>2, <2>3, RunElsewhere
<1>5. Len(q) <= Len(ParseValid(cells))
  BY <1>2, <1>4, RunIsRead
<1>6. Len(ParseValid(cells)) \in Nat
  BY ParseReadsLongestRun, LenProperties DEF LongestRun, Run
<1>7. n = Len(cells) => q = ParseValid(cells)
  BY SubSeqFull DEF OnDisk
<1> QED BY <1>1, <1>2, <1>3, <1>5, <1>6, <1>7

LEMMA SameFront ==
  ASSUME NEW cells \in Seq(Cells), NEW other \in Seq(Cells), NEW n \in 0..Len(cells),
         n <= Len(other), \A i \in 1..n : other[i] = cells[i]
  PROVE  OnDisk(other, n) = OnDisk(cells, n)
<1>1. /\ SubSeq(cells, 1, n) \in Seq(Cells) /\ Len(SubSeq(cells, 1, n)) = n
      /\ \A i \in 1..n : SubSeq(cells, 1, n)[i] = cells[i]
  BY FirstPart
<1>2. n \in 0..Len(other)
  <2>1. Len(other) \in Nat /\ Len(cells) \in Nat
    BY LenProperties
  <2> QED BY ONLY <2>1, n \in 0..Len(cells), n <= Len(other)
<1>3. /\ SubSeq(other, 1, n) \in Seq(Cells) /\ Len(SubSeq(other, 1, n)) = n
      /\ \A i \in 1..n : SubSeq(other, 1, n)[i] = other[i]
  BY <1>2, FirstPart
<1>4. SubSeq(other, 1, n) = SubSeq(cells, 1, n)
  BY <1>1, <1>3, SameElements
<1> QED BY <1>4 DEF OnDisk

(* An append, failed or not, extends the log, syncs it or is not seen. *)
LEMMA AppendImplements ==
  ASSUME FileInv, NEW r \in Records, NEW n \in 0..Len(Encode(r)),
         file' = file \o SubSeq(Encode(r), 1, n), synced' \in {synced, Len(file')},
         damages' = damages
  PROVE  Log!Next \/ UNCHANGED <<Read, Len(OnDisk(file, synced)), damages>>
<1>1. file \in Seq(Cells) /\ Len(file) \in Nat /\ synced \in 0..Len(file)
      /\ Read \in Seq(Records) /\ Len(Read) \in Nat
  BY ReadFacts
<1>2. Encode(r) \in Seq(Cells)
  BY RecordEnd
<1>3. /\ SubSeq(Encode(r), 1, n) \in Seq(Cells) /\ Len(SubSeq(Encode(r), 1, n)) = n
  BY <1>2, FirstPart
<1>4. /\ file' \in Seq(Cells) /\ Len(file') = Len(file) + n
      /\ \A i \in 1..Len(file) : file'[i] = file[i]
  BY <1>1, <1>3, Joined
<1>5. Grows(file, r, n, Read, Read')
  BY AppendChangesRead
<1>6. Read' = ParseValid(file')
  BY DEF Read
<1>7. \/ Len(OnDisk(file', synced')) = Len(OnDisk(file, synced))
      \/ Len(OnDisk(file', synced')) = Len(Read')
  <2>1. CASE synced' = synced
    <3>1. synced <= Len(file') /\ \A i \in 1..synced : file'[i] = file[i]
      BY <1>1, <1>3, <1>4
    <3> QED BY <1>1, <1>4, <2>1, <3>1, SameFront
  <2>2. CASE synced' = Len(file')
    BY <1>4, <1>6, <2>2, SubSeqFull DEF OnDisk
  <2> QED BY <2>1, <2>2
<1>8. CASE Read' = Read
  <2>1. CASE Len(OnDisk(file', synced')) = Len(OnDisk(file, synced))
    BY <1>8, <2>1
  <2>2. CASE Len(OnDisk(file', synced')) = Len(Read')
    BY <1>8, <2>2 DEF Log!Next, Log!Sync, OnDisk
  <2> QED BY <1>7, <2>1, <2>2
<1>9. CASE Read' = Append(Read, r) /\ CanFollow(Read, r)
  <2>1. Len(Read') = Len(Read) + 1 /\ Read' \in Seq(Records)
        /\ Read'[Len(Read) + 1] = r /\ \A i \in 1..Len(Read) : Read'[i] = Read[i]
    BY <1>1, <1>9, AppendProperties
  <2>2. Last(Read') = r
    BY <2>1 DEF Last
  <2>3. Front(Read') = Read
    <3>1. Front(Read') = SubSeq(Read', 1, Len(Read))
      BY <1>1, <2>1 DEF Front
    <3>2. Len(Read) \in 0..Len(Read')
      BY ONLY <1>1, <2>1
    <3>3. /\ SubSeq(Read', 1, Len(Read)) \in Seq(Records)
          /\ Len(SubSeq(Read', 1, Len(Read))) = Len(Read)
          /\ \A i \in 1..Len(Read) : SubSeq(Read', 1, Len(Read))[i] = Read'[i]
      BY <2>1, <3>2, FirstPart
    <3> QED BY <1>1, <2>1, <3>1, <3>3, SameElements
  <2>4. Read # <<>> => /\ Last(Read').session = Last(Read).session
                       /\ Last(Read').sequence = Last(Read).sequence + 1
    BY <1>9, <2>2 DEF CanFollow, Follows
  <2>5. Log!Extend
    <3>1. Len(OnDisk(file, synced))' \in {Len(OnDisk(file, synced)), Len(Read')}
      BY <1>7
    <3>2. Log!Front(Read') = Front(Read') /\ \A q : Log!Last(q) = Last(q)
      BY DEF Log!Front, Log!Last, Front, Last
    <3> QED BY ONLY <2>1, <2>3, <2>4, <3>1, <3>2, damages' = damages DEF Log!Extend, OnDisk
  <2> QED BY <2>5 DEF Log!Next
<1> QED BY <1>5, <1>8, <1>9 DEF Grows

(* A crash takes an end of the log, but nothing that was synced. *)
LEMMA CrashImplements ==
  ASSUME FileInv, Crash
  PROVE  Log!Crash
<1> DEFINE q == OnDisk(file, synced)
<1>1. file \in Seq(Cells) /\ Len(file) \in Nat /\ synced \in 0..Len(file)
      /\ Read = ParseValid(file) /\ Read \in Seq(Records) /\ Len(Read) \in Nat
  BY ReadFacts
<1>2. file' \in Seq(Cells) /\ synced' = Len(file')
  BY Crashing
<1>3. PICK n \in 0..Len(file) :
        /\ synced <= n /\ n <= Len(file')
        /\ \A i \in 1..n : file'[i] = file[i]
        /\ \A i \in 1..Len(file') : i > n => file'[i] = Junk
  BY Crashing
<1>4. /\ Read' = ParseValid(file') /\ Run(file', 0, Read')
      /\ Read' \in Seq(Records) /\ Len(Read') \in Nat
  BY <1>2, ParseReadsLongestRun, LenProperties DEF Read, LongestRun, Run
<1>5. Run(file, 0, Read')
  BY <1>1, <1>2, <1>3, <1>4, CutRuns
<1>6. Len(Read') <= Len(Read) /\ Read' = SubSeq(Read, 1, Len(Read'))
  BY <1>1, <1>4, <1>5, RunIsRead
<1>7. /\ Run(SubSeq(file, 1, synced), 0, q) /\ q \in Seq(Records) /\ Len(q) \in Nat
      /\ Len(Written(q)) \in Nat /\ Len(Written(q)) <= synced
      /\ SubSeq(file, 1, synced) \in Seq(Cells)
      /\ \A i \in 1..synced : SubSeq(file, 1, synced)[i] = file[i]
  BY <1>1, OnDiskIsRead
<1> HIDE DEF q
<1>8. Len(q) <= Len(Read')
  <2>1. Len(file') \in Nat /\ n \in Nat /\ synced \in Nat
    BY <1>1, <1>2, LenProperties
  <2>2. Len(Written(q)) <= Len(file')
    BY ONLY <1>3, <1>7, <2>1
  <2>3. \A i \in 1..Len(Written(q)) : i \in 1..n /\ i \in 1..synced
    BY ONLY <1>3, <1>7, <2>1
  <2>4. \A i \in 1..Len(Written(q)) : file'[i] = SubSeq(file, 1, synced)[i]
    BY <1>3, <1>7, <2>3
  <2>5. Run(file', 0, q)
    BY <1>2, <1>7, <2>2, <2>4, RunElsewhere
  <2> QED BY <1>2, <1>4, <1>7, <2>5, RunIsRead
<1>9. Len(OnDisk(file', synced')) = Len(Read')
  BY <1>2, <1>4, SubSeqFull DEF OnDisk
<1>10. Len(Read') \in Len(q)..Len(Read)
  BY ONLY <1>1, <1>4, <1>6, <1>7, <1>8
<1>11. damages' = damages
  BY DEF Crash
<1> QED BY <1>6, <1>9, <1>10, <1>11 DEF Log!Crash, OnDisk, q

(* Damage to the medium takes an end of the log, a synced one too. *)
LEMMA DamageImplements ==
  ASSUME FileInv, Backed(file), Damage
  PROVE  Log!Decay
<1> DEFINE q == OnDisk(file, synced)
           p == OnDisk(file', synced)
           part == SubSeq(file, 1, synced)
           other == SubSeq(file', 1, synced)
<1>1. file \in Seq(Cells) /\ Len(file) \in Nat /\ synced \in 0..Len(file)
      /\ Read = ParseValid(file) /\ Read \in Seq(Records) /\ Len(Read) \in Nat
  BY ReadFacts
<1>2. PICK i \in 1..Len(file) : \E cell \in Changed(file[i]) : file' = [file EXCEPT ![i] = cell]
  BY Damaging
<1>3. PICK cell \in Changed(file[i]) : file' = [file EXCEPT ![i] = cell]
  BY <1>2
<1>4. synced' = synced /\ file' \in Seq(Cells) /\ Len(file') = Len(file)
  <2>1. synced' = synced
    BY Damaging
  <2>2. file' \in Seq(Cells) /\ Len(file') = Len(file)
    BY <1>1, <1>3, BackedDamaged
  <2> QED BY <2>1, <2>2
<1>5. /\ Read' = ParseValid(file') /\ Run(file', 0, Read')
      /\ Read' \in Seq(Records) /\ Len(Read') \in Nat
  BY <1>4, ParseReadsLongestRun, LenProperties DEF Read, LongestRun, Run
<1>6. Run(file, 0, Read')
  BY <1>1, <1>3, <1>5, DamagedRuns
<1>7. Len(Read') <= Len(Read) /\ Read' = SubSeq(Read, 1, Len(Read'))
  BY <1>1, <1>5, <1>6, RunIsRead
<1>8. /\ part \in Seq(Cells) /\ Len(part) = synced /\ \A j \in 1..synced : part[j] = file[j]
      /\ q = ParseValid(part) /\ Len(q) \in Nat
  BY <1>1, OnDiskIsRead DEF OnDisk
<1>9. /\ other \in Seq(Cells) /\ Len(other) = synced /\ \A j \in 1..synced : other[j] = file'[j]
      /\ p = ParseValid(other) /\ Run(other, 0, p) /\ p \in Seq(Records) /\ Len(p) \in Nat
      /\ Len(p) <= Len(Read')
  <2>1. synced \in 0..Len(file')
    BY <1>1, <1>4
  <2> QED BY <1>4, <1>5, <2>1, OnDiskIsRead DEF OnDisk
<1>10. \A j \in 1..Len(file) : file'[j] = IF j = i THEN cell ELSE file[j]
  BY <1>1, <1>3, LenProperties
<1> HIDE DEF q, p, part, other
<1>11. Run(part, 0, p)
  <2>1. CASE ~ (i <= synced)
    <3>1. \A j \in 1..synced : j \in 1..Len(file) /\ j # i
      BY ONLY <1>1, <2>1
    <3>2. other = part
      BY <1>8, <1>9, <1>10, <3>1, SameElements
    <3> QED BY <1>9, <3>2
  <2>2. CASE i <= synced
    <3>1. i \in 1..Len(part) /\ part[i] = file[i]
      BY <1>1, <1>8, <2>2
    <3>2. Backed(part)
      <4>1. \A j \in 1..Len(part) : j > synced => part[j] = Junk
        BY <1>1, <1>8
      <4> QED BY <1>1, <1>8, <4>1, BackedCut
    <3>3. other = [part EXCEPT ![i] = cell]
      <4> DEFINE changed == [part EXCEPT ![i] = cell]
      <4>1. cell \in Changed(part[i])
        BY <1>3, <3>1
      <4>2. changed \in Seq(Cells) /\ Len(changed) = Len(part)
        BY <1>8, <3>1, <3>2, <4>1, BackedDamaged
      <4>3. \A j \in 1..synced : changed[j] = IF j = i THEN cell ELSE part[j]
        BY <1>8, LenProperties
      <4> HIDE DEF changed
      <4>4. \A j \in 1..synced : j \in 1..Len(file)
        BY ONLY <1>1
      <4>5. \A j \in 1..synced : changed[j] = other[j]
        BY <1>8, <1>9, <1>10, <4>3, <4>4
      <4>6. other = changed
        BY <1>8, <1>9, <4>2, <4>5, SameElements
      <4> QED BY <4>6 DEF changed
    <3>4. cell \in Changed(part[i])
      BY <1>3, <3>1
    <3> QED BY <1>8, <1>9, <3>1, <3>2, <3>3, <3>4, DamagedRuns
  <2> QED BY <2>1, <2>2
<1>12. Len(p) <= Len(q)
  BY <1>8, <1>9, <1>11, RunIsRead
<1>13. Len(Read') \in 0..Len(Read) /\ Len(p) \in 0..Len(Read')
  BY ONLY <1>1, <1>5, <1>7, <1>9
<1>14. damages' = damages + 1
  BY DEF Damage
<1> QED BY <1>4, <1>7, <1>12, <1>13, <1>14 DEF Log!Decay, OnDisk, p, q

(* The file keeps the promise of a log for every number of sessions, kinds *)
(* of record, cells and mishaps: whatever append, append that fails after  *)
(* any part of a record, reopening, crash or damaged cell there is, what   *)
(* is read of it grows by one numbered record at a time, and loses nothing *)
(* but its end.  A crash loses nothing that was synced: only damage does,  *)
(* which both specifications count, so no other step can pass for it.      *)
THEOREM JournalFileImplementsLog ==
  Spec => ImplementsDurableLog
<1>1. Init => Log!Init
  <2> SUFFICES ASSUME Init PROVE Log!Init
    OBVIOUS
  <2>1. Read = <<>>
    BY NothingRead
  <2>2. Len(OnDisk(file, synced)) <= Len(Read) /\ Len(OnDisk(file, synced)) \in Nat
    BY FileInvInit, ReadFacts, OnDiskIsRead
  <2>3. Len(OnDisk(file, synced)) = 0
    BY <2>1, <2>2, EmptySeq
  <2>4. damages = 0
    BY DEF Init
  <2> QED BY <2>1, <2>3, <2>4 DEF Log!Init, OnDisk
<1>2. LogInv /\ [Next]_vars => [Log!Next]_<<Read, Len(OnDisk(file, synced)), damages>>
  <2> SUFFICES ASSUME LogInv, [Next]_vars
               PROVE  Log!Next \/ UNCHANGED <<Read, Len(OnDisk(file, synced)), damages>>
    OBVIOUS
  <2>1. FileInv /\ Backed(file)
    BY DEF LogInv
  <2>2. ASSUME NEW kind \in Kinds, NEW durable \in BOOLEAN, AppendRecord(kind, durable)
        PROVE  Log!Next \/ UNCHANGED <<Read, Len(OnDisk(file, synced)), damages>>
    <3> DEFINE r == NextRecord(kind)
    <3>1. /\ r \in Records /\ file' = file \o SubSeq(Encode(r), 1, Len(Encode(r)))
          /\ synced' \in {synced, Len(file')}
      BY <2>1, <2>2, Appending
    <3>2. Len(Encode(r)) \in 0..Len(Encode(r))
      BY <3>1, RecordEnd
    <3>3. damages' = damages
      BY <2>2 DEF AppendRecord
    <3> HIDE DEF r
    <3> QED BY <2>1, <3>1, <3>2, <3>3, AppendImplements
  <2>3. ASSUME NEW kind \in Kinds, AppendFails(kind)
        PROVE  Log!Next \/ UNCHANGED <<Read, Len(OnDisk(file, synced)), damages>>
    <3> DEFINE r == NextRecord(kind)
    <3>1. r \in Records /\ synced' = synced
      BY <2>1, <2>3, Appending
    <3>2. PICK n \in 0..Len(Encode(r)) : file' = file \o SubSeq(Encode(r), 1, n)
      BY <2>1, <2>3, Appending
    <3>3. damages' = damages
      BY <2>3 DEF AppendFails
    <3> HIDE DEF r
    <3> QED BY <2>1, <3>1, <3>2, <3>3, AppendImplements
  <2>4. CASE UNCHANGED <<file, synced, damages>>
    BY <2>4 DEF Read, OnDisk
  <2>5. CASE Crash
    BY <2>1, <2>5, CrashImplements DEF Log!Next
  <2>6. CASE Damage
    BY <2>1, <2>6, DamageImplements DEF Log!Next
  <2>7. \/ UNCHANGED <<file, synced, damages>> \/ Crash \/ Damage
        \/ \E kind \in Kinds : \/ \E durable \in BOOLEAN : AppendRecord(kind, durable)
                               \/ AppendFails(kind)
    BY DEF Next, vars, Open, Close
  <2> QED BY <2>2, <2>3, <2>4, <2>5, <2>6, <2>7
<1> QED BY <1>1, <1>2, LogInvHolds, PTL DEF Spec, ImplementsDurableLog, Log!Spec, OnDisk

===============================================================================
