--------------------------- MODULE CaptureRingProofs ---------------------------
(* Theorems about CaptureRing, for every pool, block size, number of       *)
(* channels and sequence of callbacks.                                     *)
EXTENDS CaptureRing, SequenceTheorems, WellFoundedInduction, TLAPS

(* A block has room for at least one sample. *)
LEMMA BlockSize == BlockSamples \in Nat \ {0}
BY BlockAssumption DEF BlockSamples

(* A stretch of n samples is n samples. *)
LEMMA StretchType ==
  ASSUME NEW rest \in Nat, NEW n \in Nat
  PROVE  /\ Stretch(rest, n) \in Seq(Nat) /\ Len(Stretch(rest, n)) = n
         /\ \A i \in 1..n : Stretch(rest, n)[i] = rest + i - 1
<1>1. \A i \in 1..n : rest + i - 1 \in Nat
  OBVIOUS
<1>2. Stretch(rest, n) \in [1..n -> Nat]
  BY <1>1 DEF Stretch
<1> QED BY <1>2, IsASeq DEF Stretch

(* A number of samples is a number of whole frames. *)
LEMMA FramesType ==
  ASSUME NEW n \in Nat
  PROVE  n \div NumChannels \in Nat
BY BlockAssumption

(* The block in current, if there is one. *)
LEMMA CurrentBlock ==
  ASSUME TypeOK, current # <<>>
  PROVE  /\ Len(current) = 1 /\ current[1] \in Blocks
         /\ current[1].samples \in Seq(Nat) /\ Len(current[1].samples) \in Nat
         /\ Len(current[1].samples) < BlockSamples
         /\ current[1].seq \in Nat /\ current[1].start \in Nat
<1>1. current \in Seq(Blocks) /\ Len(current) <= 1 /\ Len(current) \in Nat
  BY LenProperties DEF TypeOK
<1>2. Len(current) # 0
  BY <1>1, EmptySeq
<1>3. Len(current) = 1 /\ 1 \in 1..Len(current)
  <2>1. \A n \in Nat : n <= 1 /\ n # 0 => n = 1
    OBVIOUS
  <2>2. Len(current) = 1
    BY <1>1, <1>2, <2>1
  <2> QED BY <2>2
<1>4. current[1] \in Blocks
  BY <1>1, <1>3, ElementOfSeq
<1>5. current[1].samples \in Seq(Nat) /\ current[1].seq \in Nat /\ current[1].start \in Nat
  BY <1>4 DEF Blocks
<1>6. Len(current[1].samples) < BlockSamples
  BY <1>3 DEF TypeOK
<1> QED BY <1>3, <1>4, <1>5, <1>6, LenProperties

-------------------------------------------------------------------------------
(* The pool.  Types, conservation and an unsaturated ring hold each other  *)
(* up: no block outgrows its storage because a full one always finds room  *)
(* in the filled ring, and it does because the blocks are conserved.       *)
PoolInv == TypeOK /\ Conservation /\ saturated = 0

(* As long as blocks are conserved neither ring is full when it is pushed. *)
LEMMA PoolHasRoom ==
  ASSUME TypeOK, Conservation
  PROVE  /\ current # <<>> => Len(current) = 1 /\ Len(filled) < PoolBlocks
         /\ held > 0 => free < PoolBlocks
<1>1. Len(filled) \in Nat /\ Len(current) \in Nat /\ free \in Nat /\ held \in Nat
  BY LenProperties DEF TypeOK
<1>2. current # <<>> => Len(current) = 1
  BY CurrentBlock
<1> QED BY <1>1, <1>2, PoolAssumption DEF Conservation

(* More samples behind those of a block. *)
LEMMA ExtendBlock ==
  ASSUME NEW b \in Blocks, NEW tail \in Seq(Nat)
  PROVE  /\ Extend(b, tail) \in Blocks
         /\ Extend(b, tail).samples = b.samples \o tail
         /\ Len(Extend(b, tail).samples) = Len(b.samples) + Len(tail)
         /\ Extend(b, tail).seq = b.seq /\ Extend(b, tail).start = b.start
<1>1. b.samples \in Seq(Nat) /\ b.seq \in Nat /\ b.start \in Nat
  BY DEF Blocks
<1>2. b.samples \o tail \in Seq(Nat) /\ Len(b.samples \o tail) = Len(b.samples) + Len(tail)
  BY <1>1, ConcatProperties
<1> DEFINE both == b.samples \o tail
<1>3. Extend(b, tail) = [seq |-> b.seq, start |-> b.start, samples |-> both]
  BY DEF Extend
<1> HIDE DEF both
<1>4. both \in Seq(Nat)
  BY <1>2 DEF both
<1>5. /\ Extend(b, tail) \in Blocks /\ Extend(b, tail).samples = both
      /\ Extend(b, tail).seq = b.seq /\ Extend(b, tail).start = b.start
  BY ONLY <1>1, <1>3, <1>4 DEF Blocks
<1> QED BY <1>2, <1>5 DEF both

(* What Fill puts into the current block. *)
LEMMA FillTypes ==
  ASSUME TypeOK, current # <<>>, NEW count \in Nat,
         count <= input, count <= BlockSamples - Len(current[1].samples)
  PROVE  LET more == Extend(current[1], Stretch(offered - input, count)) IN
         /\ more \in Blocks
         /\ Len(more.samples) = Len(current[1].samples) + count
         /\ more.seq = current[1].seq /\ more.start = current[1].start
<1>1. current[1] \in Blocks
  BY CurrentBlock
<1>2. offered - input \in Nat
  BY DEF TypeOK
<1>3. Stretch(offered - input, count) \in Seq(Nat) /\ Len(Stretch(offered - input, count)) = count
  BY <1>2, StretchType
<1> QED BY <1>1, <1>3, ExtendBlock

(* A block in the only place of current. *)
LEMMA OneBlock ==
  ASSUME NEW b \in Blocks
  PROVE  /\ <<b>> \in Seq(Blocks) /\ Len(<<b>>) = 1 /\ <<b>>[1] = b
         /\ <<>> \in Seq(Blocks) /\ Len(<<>>) = 0
OBVIOUS

(* A block pushed behind the filled ones. *)
LEMMA FilledAppend ==
  ASSUME TypeOK, NEW b \in Blocks, Len(b.samples) <= BlockSamples
  PROVE  /\ Append(filled, b) \in Seq(Blocks) /\ Len(Append(filled, b)) = Len(filled) + 1
         /\ \A i \in 1..Len(Append(filled, b)) : Len(Append(filled, b)[i].samples) <= BlockSamples
<1>1. filled \in Seq(Blocks) /\ \A i \in 1..Len(filled) : Len(filled[i].samples) <= BlockSamples
  BY DEF TypeOK
<1>2. /\ Append(filled, b) \in Seq(Blocks) /\ Len(Append(filled, b)) = Len(filled) + 1
      /\ \A i \in 1..Len(filled) : Append(filled, b)[i] = filled[i]
      /\ Append(filled, b)[Len(filled) + 1] = b
  BY <1>1, AppendProperties
<1>3. \A i \in 1..(Len(filled) + 1) : i \in 1..Len(filled) \/ i = Len(filled) + 1
  BY <1>1, LenProperties
<1> QED BY <1>1, <1>2, <1>3

(* PoolInv holds initially. *)
LEMMA PoolInit == Init => PoolInv
<1> SUFFICES ASSUME Init PROVE PoolInv
  OBVIOUS
<1>1. <<>> \in Seq(Blocks) /\ Len(<<>>) = 0
  OBVIOUS
<1> QED BY <1>1, PoolAssumption DEF Init, PoolInv, TypeOK, Conservation

(* Every step of the callback and of the worker keeps PoolInv. *)
LEMMA PoolNext == PoolInv /\ [Next]_vars => PoolInv'
<1> SUFFICES ASSUME PoolInv, [Next]_vars PROVE PoolInv'
  OBVIOUS
<1> USE DEF PoolInv
<1>0. Len(filled) \in Nat /\ Len(current) \in Nat /\ BlockSamples \in Nat \ {0}
  BY LenProperties, BlockSize DEF TypeOK
<1>1. CASE \E n \in InputSizes : Capture(n)
  BY <1>1, InputAssumption DEF Capture, worker, TypeOK, Conservation
<1>2. CASE Acquire
  <2> DEFINE b == [seq |-> sequence, start |-> nextFrame, samples |-> <<>>]
  <2>1. b \in Blocks /\ Len(b.samples) = 0
    BY DEF TypeOK, Blocks
  <2>2. current' = <<b>> /\ free' = free - 1 /\ free - 1 \in Nat
    BY <1>2 DEF Acquire, TypeOK
  <2>3. current' \in Seq(Blocks) /\ Len(current') = 1 /\ Len(current'[1].samples) = 0
    BY <2>1, <2>2, OneBlock
  <2>4. TypeOK'
    BY <1>0, <1>2, <2>2, <2>3 DEF Acquire, worker, TypeOK
  <2>5. Len(current) = 0
    BY <1>2 DEF Acquire
  <2> QED BY <1>0, <1>2, <2>2, <2>3, <2>4, <2>5 DEF Acquire, worker, Conservation, TypeOK
<1>3. CASE PoolEmpty
  <2>1. input \div NumChannels \in Nat
    BY FramesType DEF TypeOK
  <2> QED BY <1>3, <2>1 DEF PoolEmpty, DropInput, worker, TypeOK, Conservation
<1>4. CASE Fill
  <2> DEFINE room  == BlockSamples - Len(current[1].samples)
             count == Count(input, room)
             more  == Extend(current[1], Stretch(offered - input, count))
             frame == nextFrame + count \div NumChannels
  <2>1. current # <<>> /\ Len(current) = 1 /\ Len(filled) < PoolBlocks
    BY <1>4, PoolHasRoom DEF Fill
  <2>2. room \in Nat /\ Len(current[1].samples) \in Nat
    <3>1. Len(current[1].samples) \in Nat /\ Len(current[1].samples) < BlockSamples
      BY <2>1, CurrentBlock
    <3> QED BY <1>0, <3>1
  <2>3. count \in Nat /\ count <= input /\ count <= room /\ input - count \in Nat
    BY <2>2 DEF Count, TypeOK
  <2>4. more \in Blocks /\ Len(more.samples) = Len(current[1].samples) + count
    BY <2>1, <2>3, FillTypes
  <2>5. frame \in Nat
    <3>1. nextFrame \in Nat
      BY DEF TypeOK
    <3>2. count \div NumChannels \in Nat
      BY <2>3, FramesType
    <3> HIDE DEF count
    <3>3. \A i, j \in Nat : i + j \in Nat
      OBVIOUS
    <3> QED BY <3>1, <3>2, <3>3
  <2>6. CASE count < room
    <3>1. /\ current' = <<more>> /\ input' = input - count /\ nextFrame' = frame
          /\ UNCHANGED <<filled, sequence, saturated, dropped, free, offered, unavailable, worker>>
      BY <1>4, <2>6 DEF Fill
    <3>2. current' \in Seq(Blocks) /\ Len(current') = 1 /\ current'[1] = more
      BY <2>4, <3>1, OneBlock
    <3>3. Len(more.samples) < BlockSamples
      BY <1>0, <2>2, <2>3, <2>4, <2>6
    <3>4. TypeOK'
      BY <1>0, <2>3, <2>5, <3>1, <3>2, <3>3 DEF TypeOK, worker
    <3> QED BY <2>1, <3>1, <3>2, <3>4 DEF Conservation, worker
  <2>7. CASE ~ (count < room)
    <3>1. /\ filled' = Append(filled, more) /\ current' = <<>> /\ sequence' = sequence + 1
          /\ input' = input - count /\ nextFrame' = frame
          /\ UNCHANGED <<saturated, dropped, free, offered, unavailable, worker>>
      BY <1>4, <2>1, <2>7 DEF Fill, FilledCapacity, PushFilled
    <3>2. Len(more.samples) <= BlockSamples
      BY <1>0, <2>2, <2>3, <2>4
    <3>3. /\ filled' \in Seq(Blocks) /\ Len(filled') = Len(filled) + 1
          /\ \A i \in 1..Len(filled') : Len(filled'[i].samples) <= BlockSamples
      BY <2>4, <3>1, <3>2, FilledAppend
    <3>4. current' \in Seq(Blocks) /\ Len(current') = 0
      BY <2>4, <3>1, OneBlock
    <3>5. sequence' \in Nat /\ input' \in Nat /\ input' <= offered' /\ nextFrame' \in Nat
      BY <2>3, <2>5, <3>1 DEF TypeOK
    <3>6. UNCHANGED <<saturated, dropped, free, offered, unavailable, held, taken>>
      BY <3>1 DEF worker
    <3>7. \A i \in 1..Len(current') : Len(current'[i].samples) < BlockSamples
      BY ONLY <3>4
    <3>8. TypeOK'
      BY ONLY TypeOK, <3>3, <3>4, <3>5, <3>6, <3>7 DEF TypeOK
    <3>9. Conservation'
      <4>1. free + Len(filled) + 1 + held = PoolBlocks /\ free \in Nat /\ held \in Nat
        BY <2>1 DEF Conservation, TypeOK
      <4> QED BY ONLY <1>0, <3>3, <3>4, <3>6, <4>1 DEF Conservation
    <3> QED BY <3>6, <3>8, <3>9
  <2> QED BY <2>6, <2>7
<1>5. CASE FlushPartial
  <2>1. current # <<>> /\ Len(current) = 1 /\ Len(filled) < PoolBlocks /\ current[1] \in Blocks
    BY <1>5, PoolHasRoom DEF FlushPartial, TypeOK
  <2>2. /\ filled' = Append(filled, current[1]) /\ current' = <<>> /\ sequence' = sequence + 1
        /\ UNCHANGED <<saturated, free, nextFrame, input, offered, unavailable, dropped, worker>>
    BY <1>5, <2>1 DEF FlushPartial, FilledCapacity, PushFilled
  <2>3. Len(current[1].samples) <= BlockSamples
    <3>1. Len(current[1].samples) \in Nat /\ Len(current[1].samples) < BlockSamples
      BY <2>1, CurrentBlock
    <3> QED BY <1>0, <3>1
  <2>4. /\ filled' \in Seq(Blocks) /\ Len(filled') = Len(filled) + 1
        /\ \A i \in 1..Len(filled') : Len(filled'[i].samples) <= BlockSamples
    BY <2>1, <2>2, <2>3, FilledAppend
  <2>5. current' \in Seq(Blocks) /\ Len(current') = 0
    BY <2>1, <2>2, OneBlock
  <2>6. TypeOK'
    BY <1>0, <2>2, <2>4, <2>5 DEF TypeOK, worker
  <2> QED BY <1>0, <2>1, <2>2, <2>4, <2>5, <2>6 DEF Conservation, worker, TypeOK
<1>6. CASE Pop
  <2>1. /\ Tail(filled) \in Seq(Blocks) /\ Len(Tail(filled)) = Len(filled) - 1
        /\ \A i \in 1..Len(Tail(filled)) : Tail(filled)[i] = filled[i+1]
        /\ Head(filled) \in Blocks
    BY <1>6, HeadTailProperties DEF Pop, TypeOK
  <2>2. \A i \in 1..Len(Tail(filled)) : Len(Tail(filled)[i].samples) <= BlockSamples
    BY <1>0, <2>1 DEF TypeOK
  <2>3. Append(taken, Head(filled)) \in Seq(Blocks)
    BY <2>1, AppendProperties DEF TypeOK
  <2>4. TypeOK'
    BY <1>6, <2>1, <2>2, <2>3 DEF Pop, callback, TypeOK
  <2> QED BY <1>0, <1>6, <2>1, <2>4 DEF Pop, callback, Conservation, TypeOK
<1>7. CASE Recycle
  BY <1>0, <1>7 DEF Recycle, callback, TypeOK, Conservation
<1>8. CASE UNCHANGED vars
  BY <1>8 DEF vars, callback, worker, TypeOK, Conservation
<1> QED BY <1>1, <1>2, <1>3, <1>4, <1>5, <1>6, <1>7, <1>8 DEF Next, InCapture

(* PoolInv holds in every reachable state. *)
LEMMA PoolAlways == Spec => []PoolInv
BY PoolInit, PoolNext, PTL DEF Spec

(* Every reachable state of the handoff is typed, and no block outgrows    *)
(* its storage.                                                            *)
THEOREM RingTypeCorrect == Spec => []TypeOK
<1>1. PoolInv => TypeOK
  BY DEF PoolInv
<1> QED BY <1>1, PoolAlways, PTL

(* No block is lost or made, whatever the interleaving. *)
THEOREM PoolIsConserved == Spec => []Conservation
<1>1. PoolInv => Conservation
  BY DEF PoolInv
<1> QED BY <1>1, PoolAlways, PTL

(* The full-ring paths of capture, flush_partial and recycle are dead code *)
(* for every size of the pool.                                             *)
THEOREM RingsNeverSaturate == Spec => []NeverSaturated
<1>1. PoolInv => NeverSaturated
  BY PoolHasRoom DEF PoolInv, NeverSaturated, FilledCapacity
<1> QED BY <1>1, PoolAlways, PTL

-------------------------------------------------------------------------------
(* The stream: the blocks taken, filled and current, one after the other.  *)

(* The place in the stream of the next sample, and the blocks that will not *)
(* change any more.                                                         *)
Pos == offered - input

Closed == Len(taken) + Len(filled)

LEMMA ThreeParts ==
  ASSUME NEW S, NEW a \in Seq(S), NEW b \in Seq(S), NEW c \in Seq(S)
  PROVE  /\ Len(a) \in Nat /\ Len(b) \in Nat /\ Len(c) \in Nat
         /\ a \o b \o c \in Seq(S) /\ Len(a \o b \o c) = Len(a) + Len(b) + Len(c)
         /\ DOMAIN (a \o b \o c) = 1..Len(a \o b \o c)
         /\ \A i \in 1..Len(a) : (a \o b \o c)[i] = a[i]
         /\ \A i \in 1..Len(b) : (a \o b \o c)[Len(a) + i] = b[i]
         /\ \A i \in 1..Len(c) : (a \o b \o c)[Len(a) + Len(b) + i] = c[i]
<1>1. Len(a) \in Nat /\ Len(b) \in Nat /\ Len(c) \in Nat
  BY LenProperties
<1> DEFINE ab == a \o b
<1>2. /\ ab \in Seq(S) /\ Len(ab) = Len(a) + Len(b)
      /\ \A i \in 1..(Len(a) + Len(b)) : ab[i] = IF i <= Len(a) THEN a[i] ELSE b[i - Len(a)]
  BY ConcatProperties
<1> HIDE DEF ab
<1> DEFINE abc == ab \o c
<1>3. /\ abc \in Seq(S) /\ Len(abc) = Len(ab) + Len(c)
      /\ \A i \in 1..(Len(ab) + Len(c)) : abc[i] = IF i <= Len(ab) THEN ab[i] ELSE c[i - Len(ab)]
      /\ DOMAIN abc = 1..Len(abc)
  <2>0. ab \in Seq(S)
    BY <1>2
  <2>1. /\ ab \o c \in Seq(S) /\ Len(ab \o c) = Len(ab) + Len(c)
        /\ \A i \in 1..(Len(ab) + Len(c)) :
             (ab \o c)[i] = IF i <= Len(ab) THEN ab[i] ELSE c[i - Len(ab)]
    BY ONLY <2>0, c \in Seq(S), ConcatProperties
  <2> QED BY ONLY <2>1, LenProperties
<1> HIDE DEF abc
<1>4. ASSUME NEW i \in 1..Len(a) PROVE abc[i] = a[i]
  <2>1. i \in 1..(Len(a) + Len(b)) /\ i \in 1..(Len(ab) + Len(c)) /\ i <= Len(a) /\ i <= Len(ab)
    BY <1>1, <1>2
  <2> QED BY <1>2, <1>3, <2>1
<1>5. ASSUME NEW i \in 1..Len(b) PROVE abc[Len(a) + i] = b[i]
  <2>1. /\ Len(a) + i \in 1..(Len(a) + Len(b)) /\ Len(a) + i \in 1..(Len(ab) + Len(c))
        /\ ~ (Len(a) + i <= Len(a)) /\ Len(a) + i <= Len(ab) /\ (Len(a) + i) - Len(a) = i
    BY <1>1, <1>2
  <2> QED BY <1>2, <1>3, <2>1
<1>6. ASSUME NEW i \in 1..Len(c) PROVE abc[Len(a) + Len(b) + i] = c[i]
  <2>1. /\ Len(a) + Len(b) + i \in 1..(Len(ab) + Len(c))
        /\ ~ (Len(a) + Len(b) + i <= Len(ab)) /\ (Len(a) + Len(b) + i) - Len(ab) = i
    BY <1>1, <1>2
  <2> QED BY <1>3, <2>1
<1>7. Len(abc) = Len(a) + Len(b) + Len(c)
  BY <1>2, <1>3
<1>8. /\ abc \in Seq(S) /\ Len(abc) = Len(a) + Len(b) + Len(c) /\ DOMAIN abc = 1..Len(abc)
      /\ \A i \in 1..Len(a) : abc[i] = a[i]
      /\ \A i \in 1..Len(b) : abc[Len(a) + i] = b[i]
      /\ \A i \in 1..Len(c) : abc[Len(a) + Len(b) + i] = c[i]
  BY <1>3, <1>4, <1>5, <1>6, <1>7
<1>9. abc = a \o b \o c
  BY DEF abc, ab
<1> QED BY ONLY <1>1, <1>8, <1>9

LEMMA StreamParts ==
  ASSUME TypeOK
  PROVE  /\ Stream \in Seq(Blocks) /\ Len(Stream) = Closed + Len(current) /\ Closed \in Nat
         /\ DOMAIN Stream = 1..Len(Stream)
         /\ Len(taken) \in Nat /\ Len(filled) \in Nat
         /\ Len(current) \in {0, 1} /\ (current = <<>> <=> Len(current) = 0)
         /\ \A i \in 1..Len(taken) : Stream[i] = taken[i]
         /\ \A i \in 1..Len(filled) : Stream[Len(taken) + i] = filled[i]
         /\ current # <<>> => Stream[Closed + 1] = current[1]
<1>1. taken \in Seq(Blocks) /\ filled \in Seq(Blocks) /\ current \in Seq(Blocks)
  BY DEF TypeOK
<1>2. Len(current) \in {0, 1} /\ (current = <<>> <=> Len(current) = 0)
  <2>1. Len(current) \in Nat /\ (current = <<>> <=> Len(current) = 0) /\ Len(current) <= 1
    BY <1>1, EmptySeq, LenProperties DEF TypeOK
  <2>2. \A n \in Nat : n <= 1 => n \in {0, 1}
    OBVIOUS
  <2> QED BY ONLY <2>1, <2>2
<1>3. /\ Len(taken) \in Nat /\ Len(filled) \in Nat
      /\ Stream \in Seq(Blocks) /\ Len(Stream) = Len(taken) + Len(filled) + Len(current)
      /\ DOMAIN Stream = 1..Len(Stream)
      /\ \A i \in 1..Len(taken) : Stream[i] = taken[i]
      /\ \A i \in 1..Len(filled) : Stream[Len(taken) + i] = filled[i]
      /\ \A i \in 1..Len(current) : Stream[Len(taken) + Len(filled) + i] = current[i]
  BY <1>1, ThreeParts DEF Stream
<1>4. current # <<>> => 1 \in 1..Len(current)
  BY <1>2
<1> QED BY <1>2, <1>3, <1>4 DEF Closed

(* The same of the next state. *)
LEMMA StreamPartsNext ==
  ASSUME TypeOK'
  PROVE  /\ Stream' \in Seq(Blocks) /\ Len(Stream') = Closed' + Len(current') /\ Closed' \in Nat
         /\ DOMAIN Stream' = 1..Len(Stream')
         /\ Len(taken') \in Nat /\ Len(filled') \in Nat
         /\ Len(current') \in {0, 1} /\ (current' = <<>> <=> Len(current') = 0)
         /\ \A i \in 1..Len(taken') : Stream'[i] = taken'[i]
         /\ \A i \in 1..Len(filled') : Stream'[Len(taken') + i] = filled'[i]
         /\ current' # <<>> => Stream'[Closed' + 1] = current'[1]
<1>1. taken' \in Seq(Blocks) /\ filled' \in Seq(Blocks) /\ current' \in Seq(Blocks) /\ Len(current') <= 1
  BY DEF TypeOK
<1>2. Len(current') \in {0, 1} /\ (current' = <<>> <=> Len(current') = 0)
  <2>1. Len(current') \in Nat /\ (current' = <<>> <=> Len(current') = 0)
    BY ONLY <1>1, EmptySeq, LenProperties
  <2>2. \A n \in Nat : n <= 1 => n \in {0, 1}
    OBVIOUS
  <2> QED BY ONLY <1>1, <2>1, <2>2
<1>3. /\ Len(taken') \in Nat /\ Len(filled') \in Nat
      /\ Stream' \in Seq(Blocks) /\ Len(Stream') = Len(taken') + Len(filled') + Len(current')
      /\ DOMAIN Stream' = 1..Len(Stream')
      /\ \A i \in 1..Len(taken') : Stream'[i] = taken'[i]
      /\ \A i \in 1..Len(filled') : Stream'[Len(taken') + i] = filled'[i]
      /\ \A i \in 1..Len(current') : Stream'[Len(taken') + Len(filled') + i] = current'[i]
  BY <1>1, ThreeParts DEF Stream
<1>4. current' # <<>> => 1 \in 1..Len(current')
  BY <1>2
<1> QED BY <1>2, <1>3, <1>4 DEF Closed

(* What a step does to the stream: nothing; or it adds a block to it; or it *)
(* puts more into its last block.                                           *)
SameStream ==
  Len(Stream') = Len(Stream) /\ \A i \in 1..Len(Stream) : Stream'[i] = Stream[i]

NewBlock == [seq |-> sequence, start |-> nextFrame, samples |-> <<>>]

Acquired ==
  /\ Len(Stream') = Len(Stream) + 1
  /\ \A i \in 1..Len(Stream) : Stream'[i] = Stream[i]
  /\ Stream'[Len(Stream) + 1] = NewBlock
  /\ current = <<>> /\ current' = <<NewBlock>>
  /\ sequence' = sequence /\ Closed' = Closed /\ Pos' = Pos
  /\ nextFrame' = nextFrame /\ input' = input /\ dropped' = dropped

Kept ==
  /\ SameStream
  /\ current' = current /\ sequence' = sequence /\ Closed' = Closed
  /\ \/ /\ Pos' = Pos /\ nextFrame' = nextFrame /\ input' \in InputSizes \cup {input}
        /\ dropped' = dropped
     \/ /\ current = <<>> /\ Pos' = Pos + input
        /\ nextFrame' = nextFrame + input \div NumChannels /\ input' = 0
        /\ dropped' = dropped + input \div NumChannels

Flushed ==
  /\ SameStream
  /\ current # <<>> /\ current[1].samples # <<>> /\ current' = <<>>
  /\ sequence' = sequence + 1 /\ Closed' = Closed + 1 /\ Pos' = Pos
  /\ nextFrame' = nextFrame /\ input' = input /\ dropped' = dropped

Filled(count) ==
  LET more == Extend(current[1], Stretch(Pos, count)) IN
  /\ current # <<>>
  /\ count > 0 /\ count <= input
  /\ count = input \/ count = BlockSamples - Len(current[1].samples)
  /\ Len(Stream') = Len(Stream)
  /\ \A i \in 1..(Len(Stream) - 1) : Stream'[i] = Stream[i]
  /\ Stream'[Len(Stream)] = more
  /\ Pos' = Pos + count /\ input' = input - count
  /\ nextFrame' = nextFrame + count \div NumChannels /\ dropped' = dropped
  /\ \/ current' = <<more>> /\ sequence' = sequence /\ Closed' = Closed
     \/ current' = <<>> /\ sequence' = sequence + 1 /\ Closed' = Closed + 1

StreamStep == Kept \/ Acquired \/ Flushed \/ \E count \in Nat : Filled(count)

(* The rings and current are left alone. *)
LEMMA UntouchedStream ==
  ASSUME TypeOK, UNCHANGED <<taken, filled, current>>
  PROVE  SameStream /\ Closed' = Closed
BY StreamParts DEF SameStream, Stream, Closed

(* The oldest filled block is taken. *)
LEMMA PoppedStream ==
  ASSUME TypeOK, TypeOK', filled # <<>>, current' = current,
         filled' = Tail(filled), taken' = Append(taken, Head(filled))
  PROVE  SameStream /\ Closed' = Closed
<1>1. /\ Len(filled') = Len(filled) - 1 /\ \A i \in 1..Len(filled') : filled'[i] = filled[i+1]
      /\ Len(filled) > 0
  <2>1. filled \in Seq(Blocks)
    BY DEF TypeOK
  <2>2. /\ Len(Tail(filled)) = Len(filled) - 1
        /\ \A i \in 1..Len(Tail(filled)) : Tail(filled)[i] = filled[i+1]
        /\ Len(filled) > 0
    BY <2>1, HeadTailProperties, EmptySeq, LenProperties
  <2> QED BY <2>2
<1>2. /\ Len(taken') = Len(taken) + 1 /\ \A i \in 1..Len(taken) : taken'[i] = taken[i]
      /\ taken'[Len(taken) + 1] = filled[1]
  <2>1. taken \in Seq(Blocks) /\ filled \in Seq(Blocks) /\ Head(filled) \in Blocks /\ Head(filled) = filled[1]
    <3>1. taken \in Seq(Blocks) /\ filled \in Seq(Blocks)
      BY DEF TypeOK
    <3> QED BY ONLY <3>1, filled # <<>>, HeadTailProperties
  <2>2. /\ Len(taken') = Len(taken) + 1 /\ taken'[Len(taken) + 1] = Head(filled)
        /\ \A i \in 1..Len(taken) : taken'[i] = taken[i]
    BY ONLY <2>1, taken' = Append(taken, Head(filled)), AppendProperties
  <2> QED BY ONLY <2>1, <2>2
<1>3. Closed' = Closed /\ Len(Stream') = Len(Stream)
  <2>1. Len(taken) \in Nat /\ Len(filled) \in Nat
    BY StreamParts
  <2>2. Closed' = Closed
    BY ONLY <1>1, <1>2, <2>1 DEF Closed
  <2> QED BY <2>2, StreamParts, StreamPartsNext
<1>4. ASSUME NEW i \in 1..Len(Stream) PROVE Stream'[i] = Stream[i]
  <2>1. /\ Len(Stream) = Len(taken) + Len(filled) + Len(current)
        /\ Len(taken) \in Nat /\ Len(filled) \in Nat /\ Len(current) \in {0, 1}
    BY StreamParts DEF Closed
  <2>2. CASE i \in 1..Len(taken)
    <3>1. i \in 1..Len(taken')
      BY ONLY <1>2, <2>1, <2>2
    <3> QED BY <1>2, <2>2, <3>1, StreamParts, StreamPartsNext
  <2>3. CASE i = Len(taken) + 1
    <3>1. i \in 1..Len(taken') /\ 1 \in 1..Len(filled)
      BY ONLY <1>1, <1>2, <2>1, <2>3
    <3>2. Stream'[i] = taken'[i] /\ Stream[i] = filled[1]
      BY <2>3, <3>1, StreamParts, StreamPartsNext
    <3> QED BY <1>2, <2>3, <3>2
  <2>4. CASE i \in (Len(taken) + 2)..Closed
    <3> DEFINE k == i - Len(taken) - 1
    <3>1. /\ k \in 1..Len(filled') /\ k + 1 \in 1..Len(filled)
          /\ Len(taken') + k = i /\ Len(taken) + (k + 1) = i
      BY <1>1, <1>2, <2>1, <2>4 DEF Closed
    <3> HIDE DEF k
    <3>2. Stream'[i] = filled'[k] /\ Stream[i] = filled[k + 1]
      BY <3>1, StreamParts, StreamPartsNext
    <3> QED BY <1>1, <3>1, <3>2
  <2>5. CASE i = Closed + 1 /\ current # <<>>
    BY <1>3, <2>5, StreamParts, StreamPartsNext
  <2>6. i <= Closed + Len(current) /\ i \in Nat /\ i >= 1 /\ Closed \in Nat /\ Len(taken) <= Closed
    BY ONLY <2>1, i \in 1..Len(Stream) DEF Closed
  <2>7. current = <<>> <=> Len(current) = 0
    BY StreamParts
  <2>8. \/ i \in 1..Len(taken) \/ i = Len(taken) + 1
        \/ i \in (Len(taken) + 2)..Closed
        \/ i = Closed + 1 /\ Len(current) # 0
    <3>1. Len(current) = 0 \/ Len(current) = 1
      BY <2>1
    <3>2. Len(taken) \in Nat /\ Len(current) \in Nat /\ Closed \in Nat /\ i \in Nat
      BY ONLY <2>1, <2>6, <3>1
    <3> DEFINE n == Len(taken)
               m == Len(current)
               c == Closed
    <3>3. /\ n \in Nat /\ m \in Nat /\ c \in Nat /\ i \in Nat
          /\ n <= c /\ 1 <= i /\ (m = 0 \/ m = 1) /\ i <= c + m
      BY ONLY <2>6, <3>1, <3>2
    <3>4. \/ i \in 1..n \/ i = n + 1 \/ i \in (n + 2)..c \/ (i = c + 1 /\ m # 0)
      <4> HIDE DEF n, m, c
      <4> QED BY ONLY <3>3
    <3> QED BY ONLY <3>4
  <2> QED BY <2>2, <2>3, <2>4, <2>5, <2>7, <2>8
<1> QED BY <1>3, <1>4 DEF SameStream

(* What is closed stays where it is when more is filled. *)
LEMMA ClosedStream ==
  ASSUME TypeOK, TypeOK', taken' = taken, Len(filled) <= Len(filled'),
         \A i \in 1..Len(filled) : filled'[i] = filled[i],
         NEW i \in 1..Closed
  PROVE  Stream'[i] = Stream[i]
<1>1. /\ Len(taken) \in Nat /\ Len(filled) \in Nat /\ Len(filled') \in Nat
      /\ Closed = Len(taken) + Len(filled)
  BY StreamParts, StreamPartsNext DEF Closed
<1>2. CASE i \in 1..Len(taken)
  BY <1>2, StreamParts, StreamPartsNext
<1>3. CASE i \notin 1..Len(taken)
  <2> DEFINE k == i - Len(taken)
  <2>1. k \in 1..Len(filled) /\ k \in 1..Len(filled') /\ Len(taken) + k = i
    BY <1>1, <1>3
  <2> HIDE DEF k
  <2>2. Stream'[i] = filled'[k] /\ Stream[i] = filled[k]
    BY <2>1, StreamParts, StreamPartsNext
  <2> QED BY <2>1, <2>2
<1> QED BY <1>2, <1>3

(* A block is pushed, and leaves current. *)
LEMMA PushedStream ==
  ASSUME TypeOK, TypeOK', current # <<>>, current' = <<>>, taken' = taken,
         NEW b \in Blocks, filled' = Append(filled, b)
  PROVE  /\ Len(Stream') = Len(Stream) /\ Len(Stream) = Closed + 1
         /\ Closed \in Nat /\ Closed' = Closed + 1
         /\ \A i \in 1..Closed : Stream'[i] = Stream[i]
         /\ Stream'[Closed + 1] = b /\ Stream[Closed + 1] = current[1]
<1>1. /\ Len(filled') = Len(filled) + 1 /\ filled'[Len(filled) + 1] = b
      /\ \A i \in 1..Len(filled) : filled'[i] = filled[i]
  BY AppendProperties DEF TypeOK
<1>2. /\ Len(taken) \in Nat /\ Len(filled) \in Nat /\ Closed = Len(taken) + Len(filled)
      /\ Len(Stream) = Closed + 1 /\ Stream[Closed + 1] = current[1]
  BY StreamParts DEF Closed
<1>3. Closed' = Closed + 1 /\ Len(Stream') = Closed + 1
  <2>1. Closed' = Len(taken) + Len(filled')
    BY DEF Closed
  <2>2. Len(Stream') = Closed' + 0
    BY StreamPartsNext
  <2> QED BY ONLY <1>1, <1>2, <2>1, <2>2
<1>4. Stream'[Closed + 1] = b
  <2>1. Len(filled) + 1 \in 1..Len(filled') /\ Len(taken') + (Len(filled) + 1) = Closed + 1
    BY <1>1, <1>2
  <2> QED BY <1>1, <2>1, StreamPartsNext
<1>5. Len(filled) <= Len(filled')
  BY <1>1, <1>2
<1> QED BY <1>1, <1>2, <1>3, <1>4, <1>5, ClosedStream

(* The current block grows in its place. *)
LEMMA GrownStream ==
  ASSUME TypeOK, TypeOK', current # <<>>, NEW b, current' = <<b>>, UNCHANGED <<taken, filled>>
  PROVE  /\ Len(Stream') = Len(Stream) /\ Len(Stream) = Closed + 1
         /\ Closed \in Nat /\ Closed' = Closed
         /\ \A i \in 1..Closed : Stream'[i] = Stream[i]
         /\ Stream'[Closed + 1] = b /\ Stream[Closed + 1] = current[1]
<1>1. current' # <<>> /\ Len(current') = 1 /\ current'[1] = b
  OBVIOUS
<1>2. Closed' = Closed
  BY DEF Closed
<1>3. Len(filled) <= Len(filled')
  BY StreamParts
<1> QED BY <1>1, <1>2, <1>3, StreamParts, StreamPartsNext, ClosedStream

(* A block is taken from the pool. *)
LEMMA AcquiredStream ==
  ASSUME TypeOK, TypeOK', current = <<>>, NEW b, current' = <<b>>, UNCHANGED <<taken, filled>>
  PROVE  /\ Len(Stream') = Len(Stream) + 1 /\ Closed' = Closed
         /\ \A i \in 1..Len(Stream) : Stream'[i] = Stream[i]
         /\ Stream'[Len(Stream) + 1] = b
<1>1. /\ Closed' = Closed /\ Closed \in Nat /\ Len(Stream) = Closed
      /\ Len(Stream') = Closed + 1
      /\ Stream'[Closed + 1] = b
  <2>1. current' # <<>> /\ Len(current') = 1 /\ current'[1] = b
    OBVIOUS
  <2>2. Closed' = Closed
    BY DEF Closed
  <2> QED BY <2>1, <2>2, StreamParts, StreamPartsNext
<1>2. ASSUME NEW i \in 1..Closed PROVE Stream'[i] = Stream[i]
  <2>1. Len(filled) <= Len(filled')
    BY StreamParts
  <2> QED BY <2>1, ClosedStream
<1> QED BY <1>1, <1>2

(* So every step is one of these. *)
LEMMA StreamMoves == PoolInv /\ PoolInv' /\ [Next]_vars => StreamStep
<1> SUFFICES ASSUME PoolInv, PoolInv', [Next]_vars PROVE StreamStep
  OBVIOUS
<1>1. /\ TypeOK /\ TypeOK' /\ Conservation
      /\ offered \in Nat /\ input \in Nat /\ input <= offered /\ nextFrame \in Nat
  BY DEF PoolInv, TypeOK
<1>2. ASSUME UNCHANGED <<taken, filled, current, sequence, offered, input, nextFrame, dropped>>
      PROVE  StreamStep
  BY <1>1, <1>2, UntouchedStream DEF StreamStep, Kept, Pos
<1>3. CASE UNCHANGED vars
  BY <1>2, <1>3 DEF vars, callback, worker
<1>4. CASE \E n \in InputSizes : Capture(n)
  <2>1. PICK n \in InputSizes : Capture(n)
    BY <1>4
  <2>2. /\ UNCHANGED <<taken, filled, current, sequence, nextFrame, dropped>>
        /\ input = 0 /\ input' = n /\ offered' = offered + n /\ n \in Nat
    BY <2>1, InputAssumption DEF Capture, worker
  <2>3. Pos' = Pos
    BY ONLY <1>1, <2>2 DEF Pos
  <2>4. SameStream /\ Closed' = Closed
    BY <1>1, <2>2, UntouchedStream
  <2> QED BY ONLY <2>2, <2>3, <2>4 DEF StreamStep, Kept
<1>5. CASE Acquire
  <2>1. /\ current = <<>> /\ current' = <<NewBlock>>
        /\ UNCHANGED <<taken, filled, sequence, nextFrame, input, offered, dropped>>
    BY <1>5 DEF Acquire, worker, NewBlock
  <2>2. /\ Len(Stream') = Len(Stream) + 1 /\ Closed' = Closed
        /\ \A i \in 1..Len(Stream) : Stream'[i] = Stream[i]
        /\ Stream'[Len(Stream) + 1] = NewBlock
    BY <1>1, <2>1, AcquiredStream
  <2> QED BY <2>1, <2>2 DEF StreamStep, Acquired, Pos
<1>6. CASE PoolEmpty
  <2>1. /\ UNCHANGED <<taken, filled, current, sequence, offered>>
        /\ current = <<>> /\ input' = 0 /\ nextFrame' = nextFrame + input \div NumChannels
        /\ dropped' = dropped + input \div NumChannels
    BY <1>6 DEF PoolEmpty, DropInput, worker
  <2>2. Pos' = Pos + input
    BY ONLY <1>1, <2>1 DEF Pos
  <2>3. SameStream /\ Closed' = Closed
    BY <1>1, <2>1, UntouchedStream
  <2> QED BY ONLY <2>1, <2>2, <2>3 DEF StreamStep, Kept
<1>7. CASE Fill
  <2> DEFINE room  == BlockSamples - Len(current[1].samples)
             count == Count(input, room)
             more  == Extend(current[1], Stretch(offered - input, count))
             frame == nextFrame + count \div NumChannels
  <2>1. current # <<>> /\ Len(filled) < PoolBlocks
    BY <1>1, <1>7, PoolHasRoom DEF Fill
  <2>2. room \in Nat /\ room > 0 /\ current[1] \in Blocks
    <3>1. Len(current[1].samples) \in Nat /\ Len(current[1].samples) < BlockSamples
      BY <1>1, <2>1, CurrentBlock
    <3> QED BY <1>1, <2>1, <3>1, BlockSize, CurrentBlock
  <2>3. /\ count \in Nat /\ count > 0 /\ count <= input /\ count <= room
        /\ count = input \/ count = room
        /\ Pos' = Pos + count
    <3>1. input > 0 /\ input' = input - count /\ offered' = offered
      BY <1>7, <2>1 DEF Fill, FilledCapacity
    <3>2. /\ count \in Nat /\ count > 0 /\ count <= input /\ count <= room
          /\ count = input \/ count = room
      BY <1>1, <2>2, <3>1 DEF Count
    <3> HIDE DEF count
    <3> QED BY ONLY <1>1, <3>1, <3>2 DEF Pos
  <2>4. more = Extend(current[1], Stretch(Pos, count)) /\ more \in Blocks
    <3>1. more \in Blocks
      BY <1>1, <2>1, <2>3, FillTypes
    <3> QED BY <3>1 DEF Pos
  <2>5. /\ UNCHANGED <<taken, dropped>> /\ input' = input - count /\ nextFrame' = frame
        /\ \/ current' = <<more>> /\ UNCHANGED <<filled, sequence>>
           \/ current' = <<>> /\ filled' = Append(filled, more) /\ sequence' = sequence + 1
    BY <1>7, <2>1 DEF Fill, FilledCapacity, PushFilled, worker
  <2>6. CASE current' = <<more>> /\ UNCHANGED <<filled, sequence>>
    <3> HIDE DEF more
    <3>1. /\ Len(Stream') = Len(Stream) /\ Len(Stream) = Closed + 1
          /\ Closed \in Nat /\ Closed' = Closed
          /\ \A i \in 1..Closed : Stream'[i] = Stream[i]
          /\ Stream'[Closed + 1] = more
      BY <1>1, <2>1, <2>5, <2>6, GrownStream
    <3>2. Len(Stream) - 1 = Closed
      BY <3>1
    <3>3. Filled(count)
      BY <2>1, <2>3, <2>4, <2>5, <2>6, <3>1, <3>2 DEF Filled
    <3> QED BY <2>3, <3>3 DEF StreamStep
  <2>7. CASE current' = <<>> /\ filled' = Append(filled, more) /\ sequence' = sequence + 1
    <3> HIDE DEF more
    <3>1. /\ Len(Stream') = Len(Stream) /\ Len(Stream) = Closed + 1
          /\ Closed \in Nat /\ Closed' = Closed + 1
          /\ \A i \in 1..Closed : Stream'[i] = Stream[i]
          /\ Stream'[Closed + 1] = more
      BY <1>1, <2>1, <2>4, <2>5, <2>7, PushedStream
    <3>2. Len(Stream) - 1 = Closed
      BY <3>1
    <3>3. Filled(count)
      BY <2>1, <2>3, <2>4, <2>5, <2>7, <3>1, <3>2 DEF Filled
    <3> QED BY <2>3, <3>3 DEF StreamStep
  <2> QED BY <2>5, <2>6, <2>7
<1>8. CASE FlushPartial
  <2>1. current # <<>> /\ Len(filled) < PoolBlocks /\ current[1] \in Blocks
    BY <1>1, <1>8, PoolHasRoom, CurrentBlock DEF FlushPartial
  <2>2. /\ filled' = Append(filled, current[1]) /\ current' = <<>> /\ sequence' = sequence + 1
        /\ current[1].samples # <<>>
        /\ UNCHANGED <<taken, nextFrame, input, offered, dropped>>
    BY <1>8, <2>1 DEF FlushPartial, FilledCapacity, PushFilled, worker
  <2>3. /\ Len(Stream') = Len(Stream) /\ Len(Stream) = Closed + 1
        /\ Closed \in Nat /\ Closed' = Closed + 1
        /\ \A i \in 1..Closed : Stream'[i] = Stream[i]
        /\ Stream'[Closed + 1] = Stream[Closed + 1]
    BY <1>1, <2>1, <2>2, PushedStream
  <2>4. SameStream
    <3>1. \A i \in 1..(Closed + 1) : i \in 1..Closed \/ i = Closed + 1
      BY <2>3
    <3> QED BY <2>3, <3>1 DEF SameStream
  <2> QED BY <2>1, <2>2, <2>3, <2>4 DEF StreamStep, Flushed, Pos
<1>9. CASE Pop
  <2>1. /\ filled # <<>> /\ filled' = Tail(filled) /\ taken' = Append(taken, Head(filled))
        /\ UNCHANGED <<current, sequence, offered, input, nextFrame, dropped>>
    BY <1>9 DEF Pop, callback
  <2>2. SameStream /\ Closed' = Closed
    BY <1>1, <2>1, PoppedStream
  <2> QED BY <2>1, <2>2 DEF StreamStep, Kept, Pos
<1>10. CASE Recycle
  BY <1>2, <1>10 DEF Recycle, callback
<1> QED BY <1>3, <1>4, <1>5, <1>6, <1>7, <1>8, <1>9, <1>10 DEF Next, InCapture

-------------------------------------------------------------------------------
(* The order of the stream. *)

(* A block of the stream: its number, an unbroken stretch of samples, and   *)
(* all of them before place p.                                              *)
Good(b, n, p) ==
  /\ b.seq = n
  /\ \A k \in 1..(Len(b.samples) - 1) : b.samples[k+1] = b.samples[k] + 1
  /\ \A k \in 1..Len(b.samples) : b.samples[k] < p

Behind(b, prev) == b.samples # <<>> => b.samples[1] > prev.samples[Len(prev.samples)]

(* Why a new sample is behind all others: each is before Pos, the current   *)
(* block ends where Pos is, and no closed block is empty.                   *)
StreamInv ==
  /\ sequence = Closed
  /\ \A i \in 1..Len(Stream) : Good(Stream[i], i - 1, Pos)
  /\ \A i \in 1..Closed : Stream[i].samples # <<>>
  /\ \A i \in 2..Len(Stream) : Behind(Stream[i], Stream[i-1])
  /\ current # <<>> /\ current[1].samples # <<>> =>
       current[1].samples[Len(current[1].samples)] + 1 = Pos

LEMMA BlockTypes ==
  ASSUME NEW b \in Blocks
  PROVE  /\ b.samples \in Seq(Nat) /\ Len(b.samples) \in Nat
         /\ b.samples = <<>> <=> Len(b.samples) = 0
         /\ \A k \in 1..Len(b.samples) : b.samples[k] \in Nat
         /\ b.seq \in Nat /\ b.start \in Nat
<1>1. b.samples \in Seq(Nat) /\ b.seq \in Nat /\ b.start \in Nat
  BY DEF Blocks
<1> QED BY <1>1, LenProperties, EmptySeq, ElementOfSeq

LEMMA StreamBlocks ==
  ASSUME TypeOK
  PROVE  \A i \in 1..Len(Stream) : Stream[i] \in Blocks
BY StreamParts, ElementOfSeq

(* A good block is good with more of the stream behind it. *)
LEMMA GoodStays ==
  ASSUME NEW b \in Blocks, NEW n, NEW p \in Nat, NEW q \in Nat, p <= q, Good(b, n, p)
  PROVE  Good(b, n, q)
BY BlockTypes DEF Good

(* What a block is when the next samples have been put into it. *)
LEMMA MoreSamples ==
  ASSUME NEW b \in Blocks, NEW p \in Nat, NEW count \in Nat, count > 0
  PROVE  LET more == Extend(b, Stretch(p, count)) IN
         /\ more \in Blocks /\ more.seq = b.seq /\ more.start = b.start
         /\ Len(more.samples) = Len(b.samples) + count
         /\ \A k \in 1..Len(b.samples) : more.samples[k] = b.samples[k]
         /\ \A k \in 1..count : more.samples[Len(b.samples) + k] = p + k - 1
<1> DEFINE tail == Stretch(p, count)
           more == Extend(b, tail)
<1>1. tail \in Seq(Nat) /\ Len(tail) = count /\ \A k \in 1..count : tail[k] = p + k - 1
  BY StretchType
<1> HIDE DEF tail
<1>2. /\ more \in Blocks /\ more.seq = b.seq /\ more.start = b.start
      /\ more.samples = b.samples \o tail
      /\ Len(more.samples) = Len(b.samples) + count
  BY <1>1, ExtendBlock
<1> HIDE DEF more
<1>3. b.samples \in Seq(Nat) /\ Len(b.samples) \in Nat
  BY BlockTypes
<1>4. \A k \in 1..(Len(b.samples) + Len(tail)) :
        more.samples[k] = IF k <= Len(b.samples) THEN b.samples[k] ELSE tail[k - Len(b.samples)]
  BY ONLY <1>1, <1>2, <1>3, ConcatProperties
<1>5. ASSUME NEW k \in 1..Len(b.samples) PROVE more.samples[k] = b.samples[k]
  <2>1. k \in 1..(Len(b.samples) + Len(tail)) /\ k <= Len(b.samples)
    BY <1>1, <1>3
  <2> QED BY <1>4, <2>1
<1>6. ASSUME NEW k \in 1..count PROVE more.samples[Len(b.samples) + k] = p + k - 1
  <2>1. /\ Len(b.samples) + k \in 1..(Len(b.samples) + Len(tail))
        /\ ~ (Len(b.samples) + k <= Len(b.samples)) /\ (Len(b.samples) + k) - Len(b.samples) = k
    BY <1>1, <1>3
  <2> QED BY <1>1, <1>4, <2>1
<1> QED BY <1>2, <1>5, <1>6 DEF more, tail

LEMMA GoodMore ==
  ASSUME NEW b \in Blocks, NEW n, NEW p \in Nat, NEW count \in Nat, count > 0, Good(b, n, p),
         b.samples # <<>> => b.samples[Len(b.samples)] + 1 = p
  PROVE  LET more == Extend(b, Stretch(p, count)) IN
         /\ Good(more, n, p + count)
         /\ more.samples # <<>>
         /\ more.samples[Len(more.samples)] + 1 = p + count
         /\ more.samples[1] = IF b.samples = <<>> THEN p ELSE b.samples[1]
<1> DEFINE more == Extend(b, Stretch(p, count))
           L    == Len(b.samples)
<1>1. /\ more \in Blocks /\ more.seq = b.seq
      /\ Len(more.samples) = L + count
      /\ \A k \in 1..L : more.samples[k] = b.samples[k]
      /\ \A k \in 1..count : more.samples[L + k] = p + k - 1
  BY MoreSamples
<1>2. /\ L \in Nat /\ (b.samples = <<>> <=> L = 0) /\ \A k \in 1..L : b.samples[k] \in Nat
  BY BlockTypes
<1>3. /\ b.seq = n
      /\ \A k \in 1..(L - 1) : b.samples[k+1] = b.samples[k] + 1
      /\ \A k \in 1..L : b.samples[k] < p
      /\ L > 0 => b.samples[L] + 1 = p
  BY <1>2 DEF Good
<1> HIDE DEF more, L
<1>4. ASSUME NEW k \in 1..(L + count)
      PROVE  more.samples[k] = IF k <= L THEN b.samples[k] ELSE p + (k - L) - 1
  <2>1. CASE k <= L
    <3>1. k \in 1..L
      BY <1>2, <2>1
    <3> QED BY <1>1, <2>1, <3>1
  <2>2. CASE ~ (k <= L)
    <3>1. k - L \in 1..count /\ L + (k - L) = k
      BY <1>2, <2>2
    <3>2. more.samples[L + (k - L)] = p + (k - L) - 1
      BY <1>1, <3>1
    <3> QED BY <2>2, <3>1, <3>2
  <2> QED BY <2>1, <2>2
<1>5. ASSUME NEW k \in 1..(L + count - 1) PROVE more.samples[k+1] = more.samples[k] + 1
  <2>1. k \in 1..(L + count) /\ k + 1 \in 1..(L + count)
    BY <1>2
  <2>2. CASE k + 1 <= L
    <3>1. k \in 1..(L - 1) /\ k <= L
      BY <1>2, <2>2
    <3> QED BY <1>3, <1>4, <2>1, <2>2, <3>1
  <2>3. CASE k = L
    <3>1. more.samples[k] = b.samples[L] /\ b.samples[L] + 1 = p
      BY <1>2, <1>3, <1>4, <2>1, <2>3
    <3>2. ~ (k + 1 <= L) /\ p + ((k + 1) - L) - 1 = p
      BY <1>2, <2>3
    <3> QED BY <1>4, <2>1, <3>1, <3>2
  <2>4. CASE k > L
    <3>1. ~ (k <= L) /\ ~ (k + 1 <= L)
      BY <1>2, <2>4
    <3>2. more.samples[k] = p + (k - L) - 1 /\ more.samples[k + 1] = p + ((k + 1) - L) - 1
      BY <1>4, <2>1, <3>1
    <3>3. p + ((k + 1) - L) - 1 = (p + (k - L) - 1) + 1
      BY <1>2
    <3> QED BY <3>2, <3>3
  <2> QED BY <1>2, <2>2, <2>3, <2>4
<1>6. ASSUME NEW k \in 1..(L + count) PROVE more.samples[k] < p + count
  <2>1. CASE k <= L
    <3>1. k \in 1..L
      BY <1>2, <2>1
    <3>2. more.samples[k] = b.samples[k] /\ b.samples[k] < p /\ b.samples[k] \in Nat
      BY <1>2, <1>3, <1>4, <2>1, <3>1
    <3> QED BY <3>2
  <2>2. CASE ~ (k <= L)
    <3>1. more.samples[k] = p + (k - L) - 1
      BY <1>4, <2>2
    <3> QED BY <1>2, <3>1
  <2> QED BY <2>1, <2>2
<1>7. Good(more, n, p + count)
  <2>1. more.seq = n /\ Len(more.samples) - 1 = L + count - 1 /\ Len(more.samples) = L + count
    BY <1>1, <1>2, <1>3
  <2> QED BY ONLY <1>5, <1>6, <2>1 DEF Good
<1>8. more.samples # <<>>
  <2>1. Len(more.samples) # 0
    BY <1>1, <1>2
  <2> QED BY <1>1, <2>1, BlockTypes
<1>9. more.samples[Len(more.samples)] + 1 = p + count
  <2>1. L + count \in 1..(L + count) /\ ~ (L + count <= L)
    BY <1>2
  <2>2. more.samples[L + count] = p + ((L + count) - L) - 1
    BY <1>4, <2>1
  <2>3. (p + ((L + count) - L) - 1) + 1 = p + count
    BY <1>2
  <2> QED BY <1>1, <2>2, <2>3
<1>10. more.samples[1] = IF b.samples = <<>> THEN p ELSE b.samples[1]
  <2>1. 1 \in 1..(L + count)
    BY <1>2
  <2>2. CASE L = 0
    <3>1. ~ (1 <= L) /\ p + (1 - L) - 1 = p
      BY <2>2
    <3> QED BY <1>2, <1>4, <2>1, <2>2, <3>1
  <2>3. CASE L # 0
    <3>1. 1 <= L
      BY <1>2, <2>3
    <3> QED BY <1>2, <1>4, <2>1, <2>3, <3>1
  <2> QED BY <2>2, <2>3
<1> QED BY <1>7, <1>8, <1>9, <1>10 DEF more

LEMMA StreamNext == PoolInv /\ PoolInv' /\ StreamInv /\ [Next]_vars => StreamInv'
<1> SUFFICES ASSUME PoolInv, PoolInv', StreamInv, [Next]_vars PROVE StreamInv'
  OBVIOUS
<1>1. /\ TypeOK /\ TypeOK' /\ StreamStep /\ Pos \in Nat /\ input \in Nat
      /\ Len(Stream) = Closed + Len(current) /\ Closed \in Nat
      /\ Len(current) \in {0, 1} /\ (current = <<>> <=> Len(current) = 0)
      /\ current # <<>> => Stream[Closed + 1] = current[1] /\ current[1] \in Blocks
      /\ \A i \in 1..Len(Stream) : Stream[i] \in Blocks
  BY StreamMoves, StreamParts, StreamBlocks, CurrentBlock DEF PoolInv, TypeOK, Pos
<1>2. /\ sequence = Closed
      /\ \A i \in 1..Len(Stream) : Good(Stream[i], i - 1, Pos)
      /\ \A i \in 1..Closed : Stream[i].samples # <<>>
      /\ \A i \in 2..Len(Stream) : Behind(Stream[i], Stream[i-1])
      /\ current # <<>> /\ current[1].samples # <<>> =>
           current[1].samples[Len(current[1].samples)] + 1 = Pos
  BY DEF StreamInv
<1>3. ASSUME NEW q \in Nat, Pos <= q PROVE \A i \in 1..Len(Stream) : Good(Stream[i], i - 1, q)
  BY ONLY <1>1, <1>2, <1>3, GoodStays
<1>4. \A i \in 2..Len(Stream) : i \in 1..Len(Stream) /\ i - 1 \in 1..Len(Stream)
  BY ONLY <1>1
<1>5. CASE Kept
  <2>1. Pos' \in Nat /\ Pos <= Pos' /\ (current # <<>> => Pos' = Pos)
    BY <1>1, <1>5 DEF Kept
  <2>2. \A i \in 1..Len(Stream) : Good(Stream[i], i - 1, Pos')
    BY <1>3, <2>1
  <2>3. /\ Len(Stream') = Len(Stream) /\ \A i \in 1..Len(Stream) : Stream'[i] = Stream[i]
        /\ current' = current /\ sequence' = sequence /\ Closed' = Closed
    BY <1>5 DEF Kept, SameStream
  <2>4. \A i \in 1..Closed : i \in 1..Len(Stream)
    BY ONLY <1>1
  <2> QED BY ONLY <1>2, <1>4, <2>1, <2>2, <2>3, <2>4 DEF StreamInv
<1>6. CASE Acquired
  <2>1. /\ Len(Stream) = Closed /\ Len(Stream') = Closed + 1
        /\ \A i \in 1..Closed : Stream'[i] = Stream[i]
        /\ Stream'[Closed + 1] = NewBlock /\ current' = <<NewBlock>>
        /\ sequence' = sequence /\ Closed' = Closed /\ Pos' = Pos
    BY <1>1, <1>6 DEF Acquired
  <2>2. NewBlock.samples = <<>> /\ NewBlock.seq = sequence
    BY DEF NewBlock
  <2>3. \A i \in 1..(Closed + 1) : i \in 1..Closed \/ i = Closed + 1
    BY <1>1
  <2>4. Good(NewBlock, (Closed + 1) - 1, Pos)
    BY <1>1, <1>2, <2>2 DEF Good
  <2>5. \A i \in 1..Len(Stream') : Good(Stream'[i], i - 1, Pos')
    BY ONLY <1>2, <2>1, <2>3, <2>4
  <2>6. \A i \in 1..Closed' : Stream'[i].samples # <<>>
    BY ONLY <1>2, <2>1
  <2>7. \A i \in 2..Len(Stream') : Behind(Stream'[i], Stream'[i-1])
    <3> SUFFICES ASSUME NEW i \in 2..Len(Stream') PROVE Behind(Stream'[i], Stream'[i-1])
      OBVIOUS
    <3>1. CASE i \in 2..Len(Stream)
      BY <1>2, <1>4, <2>1, <3>1
    <3>2. CASE i = Closed + 1
      BY <2>1, <2>2, <3>2 DEF Behind
    <3> QED BY <1>1, <2>1, <3>1, <3>2
  <2>8. current'[1].samples = <<>>
    BY <2>1, <2>2
  <2> QED BY ONLY <1>2, <2>1, <2>5, <2>6, <2>7, <2>8 DEF StreamInv
<1>7. CASE Flushed
  <2>1. /\ Len(Stream') = Len(Stream) /\ \A i \in 1..Len(Stream) : Stream'[i] = Stream[i]
        /\ current # <<>> /\ current[1].samples # <<>> /\ current' = <<>>
        /\ sequence' = sequence + 1 /\ Closed' = Closed + 1 /\ Pos' = Pos
    BY <1>7 DEF Flushed, SameStream
  <2>2. Len(Stream) = Closed + 1 /\ \A i \in 1..(Closed + 1) : i \in 1..Closed \/ i = Closed + 1
    <3>1. Len(current) = 1
      BY <1>1, <2>1
    <3> QED BY ONLY <1>1, <3>1
  <2>3. \A i \in 1..Closed' : Stream'[i].samples # <<>>
    BY <1>1, <1>2, <2>1, <2>2
  <2> QED BY ONLY <1>2, <1>4, <2>1, <2>3 DEF StreamInv
<1>8. ASSUME NEW count \in Nat, Filled(count) PROVE StreamInv'
  <2> DEFINE b    == current[1]
             more == Extend(b, Stretch(Pos, count))
  <2>1. /\ current # <<>> /\ count > 0
        /\ Len(Stream') = Len(Stream)
        /\ \A i \in 1..(Len(Stream) - 1) : Stream'[i] = Stream[i]
        /\ Stream'[Len(Stream)] = more
        /\ Pos' = Pos + count
        /\ \/ current' = <<more>> /\ sequence' = sequence /\ Closed' = Closed
           \/ current' = <<>> /\ sequence' = sequence + 1 /\ Closed' = Closed + 1
    BY <1>8 DEF Filled
  <2>2. Len(Stream) = Closed + 1 /\ Stream[Closed + 1] = b /\ b \in Blocks
    BY <1>1, <2>1
  <2>3. Good(b, Closed, Pos)
    <3>1. Closed + 1 \in 1..Len(Stream) /\ (Closed + 1) - 1 = Closed
      BY <1>1, <2>2
    <3> QED BY <1>2, <2>2, <3>1
  <2>4. b.samples # <<>> => b.samples[Len(b.samples)] + 1 = Pos
    BY <1>2, <2>1
  <2> HIDE DEF b
  <2>5. /\ Good(more, Closed, Pos + count)
        /\ more.samples # <<>>
        /\ more.samples[Len(more.samples)] + 1 = Pos + count
        /\ more.samples[1] = IF b.samples = <<>> THEN Pos ELSE b.samples[1]
    <3>1. Pos \in Nat /\ count \in Nat /\ count > 0 /\ b \in Blocks
      BY <1>1, <2>1, <2>2
    <3> QED BY ONLY <2>3, <2>4, <3>1, GoodMore
  <2> HIDE DEF more
  <2>6. /\ Len(Stream') = Closed + 1 /\ Stream'[Closed + 1] = more
        /\ \A i \in 1..Closed : Stream'[i] = Stream[i]
        /\ \A i \in 1..(Closed + 1) : i \in 1..Closed \/ (i = Closed + 1 /\ i - 1 = Closed)
    <3>1. Len(Stream) - 1 = Closed
      BY <1>1, <2>2
    <3> QED BY <1>1, <2>1, <2>2, <3>1
  <2>7. \A i \in 1..Closed : Good(Stream[i], i - 1, Pos')
    <3>1. Pos' \in Nat /\ Pos <= Pos' /\ \A i \in 1..Closed : i \in 1..Len(Stream)
      BY <1>1, <2>1, <2>2
    <3> QED BY <1>3, <3>1
  <2>8. \A i \in 1..Len(Stream') : Good(Stream'[i], i - 1, Pos')
    BY ONLY <2>1, <2>5, <2>6, <2>7
  <2>9. \A i \in 1..Closed' : Stream'[i].samples # <<>>
    <3>1. Closed' = Closed \/ Closed' = Closed + 1
      BY <2>1
    <3> QED BY ONLY <1>2, <2>5, <2>6, <3>1
  <2>10. \A i \in 2..Len(Stream') : Behind(Stream'[i], Stream'[i-1])
    <3> SUFFICES ASSUME NEW i \in 2..Len(Stream') PROVE Behind(Stream'[i], Stream'[i-1])
      OBVIOUS
    <3>1. i \in 1..(Closed + 1) /\ i - 1 \in 1..Closed /\ i \in 2..Len(Stream)
      BY <1>1, <2>2, <2>6
    <3>2. Behind(Stream[i], Stream[i-1]) /\ Stream'[i-1] = Stream[i-1]
      BY <1>2, <2>6, <3>1
    <3>3. CASE i \in 1..Closed
      BY <2>6, <3>2, <3>3
    <3>4. CASE i = Closed + 1
      <4>1. CASE b.samples # <<>>
        <5>1. more.samples[1] = b.samples[1] /\ Stream[i] = b /\ Stream'[i] = more
          BY <2>2, <2>5, <2>6, <3>4, <4>1
        <5> QED BY <3>2, <4>1, <5>1 DEF Behind
      <4>2. CASE b.samples = <<>>
        <5> DEFINE prev == Stream[i-1]
        <5>1. more.samples[1] = Pos /\ Stream'[i] = more
          BY <2>5, <2>6, <3>4, <4>2
        <5>2. prev \in Blocks /\ prev.samples # <<>> /\ Good(prev, (i - 1) - 1, Pos)
          BY <1>1, <1>2, <1>4, <3>1
        <5> HIDE DEF prev
        <5>3. Len(prev.samples) \in 1..Len(prev.samples)
          BY <5>2, BlockTypes
        <5>4. prev.samples[Len(prev.samples)] < Pos /\ prev.samples[Len(prev.samples)] \in Nat
          BY <5>2, <5>3, BlockTypes DEF Good
        <5>5. Pos > prev.samples[Len(prev.samples)]
          BY <1>1, <5>4
        <5> QED BY <3>2, <5>1, <5>5 DEF Behind, prev
      <4> QED BY <4>1, <4>2
    <3> QED BY <2>6, <3>1, <3>3, <3>4
  <2>11. current' # <<>> => current'[1] = more
    BY <2>1
  <2>12. sequence' = Closed'
    BY <1>2, <2>1
  <2> QED BY ONLY <2>1, <2>5, <2>8, <2>9, <2>10, <2>11, <2>12 DEF StreamInv
<1> QED BY <1>1, <1>5, <1>6, <1>7, <1>8 DEF StreamStep

LEMMA StreamInit == Init => StreamInv
<1> SUFFICES ASSUME Init PROVE StreamInv
  OBVIOUS
<1>1. PoolInv
  BY PoolInit
<1>2. Closed = 0 /\ Len(Stream) = 0 /\ sequence = 0 /\ current = <<>>
  <2>1. taken = <<>> /\ filled = <<>> /\ current = <<>> /\ sequence = 0
    BY DEF Init
  <2>2. Closed = 0
    BY <2>1 DEF Closed
  <2> QED BY <1>1, <2>1, <2>2, StreamParts DEF PoolInv
<1> QED BY <1>2 DEF StreamInv

(* The worker sees the stream in order, whatever the interleaving: blocks   *)
(* numbered without a gap, each an unbroken stretch of samples, and each    *)
(* beginning after the one before it ended.                                 *)
THEOREM BlocksAreInOrder == Spec => []StreamInOrder
<1>1. Init => StreamInv
  BY StreamInit
<1>2. PoolInv /\ StreamInv => StreamInOrder
  <2> SUFFICES ASSUME PoolInv, StreamInv,
                      NEW i \in DOMAIN Stream
               PROVE  /\ Stream[i].seq = i - 1
                      /\ \A k \in 1..(Len(Stream[i].samples) - 1) :
                           Stream[i].samples[k+1] = Stream[i].samples[k] + 1
                      /\ i > 1 /\ Stream[i].samples # <<>> =>
                           Stream[i].samples[1] > Stream[i-1].samples[Len(Stream[i-1].samples)]
    BY DEF StreamInOrder
  <2>1. i \in 1..Len(Stream) /\ (i > 1 => i \in 2..Len(Stream))
    BY StreamParts DEF PoolInv
  <2>2. Good(Stream[i], i - 1, Pos)
    BY <2>1 DEF StreamInv
  <2>3. i > 1 => Behind(Stream[i], Stream[i-1])
    BY <2>1 DEF StreamInv
  <2> QED BY <2>2, <2>3 DEF Good, Behind
<1> QED BY <1>1, <1>2, PoolAlways, StreamNext, PTL DEF Spec

-------------------------------------------------------------------------------
(* Frames: samples of every channel.  A callback with a number of samples   *)
(* that is no multiple of the channels breaks StartFrameExact, so that it   *)
(* is proved for those that are.                                            *)

Multiple(n) == \E q \in Nat : n = q * NumChannels

LEMMA ProductOfFrames ==
  ASSUME NEW q \in Nat
  PROVE  (q * NumChannels) \div NumChannels = q
BY BlockAssumption

LEMMA SumOfFrames ==
  ASSUME NEW q \in Nat, NEW r \in Nat
  PROVE  /\ q * NumChannels + r * NumChannels = (q + r) * NumChannels
         /\ q * NumChannels - r * NumChannels = (q - r) * NumChannels
         /\ q * NumChannels \in Nat
BY BlockAssumption

LEMMA DifferenceOfFrames ==
  ASSUME NEW q \in Nat, NEW r \in Nat, q * NumChannels <= r * NumChannels
  PROVE  q <= r
BY BlockAssumption

LEMMA WholeFrames ==
  ASSUME NEW n \in Nat, n % NumChannels = 0
  PROVE  Multiple(n)
<1>1. n \div NumChannels \in Nat
  BY FramesType
<1>2. n = (n \div NumChannels) * NumChannels
  BY BlockAssumption
<1> QED BY <1>1, <1>2 DEF Multiple

(* A frame number moves on as its place in the stream does. *)
LEMMA FramesMove ==
  ASSUME NEW f \in Nat, NEW n \in Nat, Multiple(n)
  PROVE  (f + n \div NumChannels) * NumChannels = f * NumChannels + n
<1>1. PICK q \in Nat : n = q * NumChannels
  BY DEF Multiple
<1>2. n \div NumChannels = q
  BY <1>1, ProductOfFrames
<1> QED BY <1>1, <1>2, SumOfFrames

LEMMA MultiplesAdd ==
  ASSUME NEW m \in Nat, NEW n \in Nat, Multiple(m), Multiple(n)
  PROVE  Multiple(m + n) /\ (n <= m => Multiple(m - n))
<1>1. PICK p \in Nat : m = p * NumChannels
  BY DEF Multiple
<1>2. PICK q \in Nat : n = q * NumChannels
  BY DEF Multiple
<1>3. m + n = (p + q) * NumChannels /\ p + q \in Nat
  BY <1>1, <1>2, SumOfFrames
<1>4. ASSUME n <= m PROVE p - q \in Nat /\ m - n = (p - q) * NumChannels
  <2>1. q <= p
    BY <1>1, <1>2, <1>4, DifferenceOfFrames
  <2> QED BY <1>1, <1>2, <2>1, SumOfFrames
<1> QED BY <1>3, <1>4 DEF Multiple

(* Where a block starts in frames is where its first sample is, and the     *)
(* frame counter of the callback is where the stream is.                    *)
FrameInv ==
  /\ \A i \in 1..Len(Stream) :
       Stream[i].samples # <<>> => Stream[i].start * NumChannels = Stream[i].samples[1]
  /\ nextFrame * NumChannels = Pos
  /\ Multiple(input)
  /\ current # <<>> => Multiple(Len(current[1].samples))
  /\ current # <<>> /\ current[1].samples = <<>> => current[1].start = nextFrame

LEMMA FrameNext ==
  ASSUME \A n \in InputSizes : n % NumChannels = 0
  PROVE  PoolInv /\ PoolInv' /\ StreamInv /\ FrameInv /\ [Next]_vars => FrameInv'
<1> SUFFICES ASSUME PoolInv, PoolInv', StreamInv, FrameInv, [Next]_vars PROVE FrameInv'
  OBVIOUS
<1>1. /\ StreamStep /\ Pos \in Nat /\ input \in Nat /\ nextFrame \in Nat
      /\ Len(Stream) = Closed + Len(current) /\ Closed \in Nat
      /\ Len(current) \in {0, 1} /\ (current = <<>> <=> Len(current) = 0)
      /\ current # <<>> => Stream[Closed + 1] = current[1] /\ current[1] \in Blocks
  BY StreamMoves, StreamParts, CurrentBlock DEF PoolInv, TypeOK, Pos
<1>2. /\ \A i \in 1..Len(Stream) :
           Stream[i].samples # <<>> => Stream[i].start * NumChannels = Stream[i].samples[1]
      /\ nextFrame * NumChannels = Pos
      /\ Multiple(input)
      /\ current # <<>> => Multiple(Len(current[1].samples))
      /\ current # <<>> /\ current[1].samples = <<>> => current[1].start = nextFrame
  BY DEF FrameInv
<1>3. Multiple(0)
  <2>1. 0 = 0 * NumChannels
    BY BlockAssumption
  <2> QED BY <2>1 DEF Multiple
<1>4. CASE Kept
  <2>1. /\ Len(Stream') = Len(Stream) /\ \A i \in 1..Len(Stream) : Stream'[i] = Stream[i]
        /\ current' = current
    BY <1>4 DEF Kept, SameStream
  <2>2. CASE Pos' = Pos /\ nextFrame' = nextFrame /\ input' \in InputSizes \cup {input}
    <3>1. Multiple(input')
      BY <1>2, <2>2, WholeFrames, InputAssumption
    <3> QED BY ONLY <1>2, <2>1, <2>2, <3>1 DEF FrameInv
  <2>3. CASE /\ current = <<>> /\ Pos' = Pos + input
             /\ nextFrame' = nextFrame + input \div NumChannels /\ input' = 0
    <3>1. nextFrame' * NumChannels = Pos'
      BY <1>1, <1>2, <2>3, FramesMove
    <3> QED BY ONLY <1>2, <1>3, <2>1, <2>3, <3>1 DEF FrameInv
  <2> QED BY <1>4, <2>2, <2>3 DEF Kept
<1>5. CASE Acquired
  <2>1. /\ Len(Stream') = Len(Stream) + 1
        /\ \A i \in 1..Len(Stream) : Stream'[i] = Stream[i]
        /\ Stream'[Len(Stream) + 1] = NewBlock
        /\ current' = <<NewBlock>>
        /\ Pos' = Pos /\ nextFrame' = nextFrame /\ input' = input
    BY <1>5 DEF Acquired
  <2>2. NewBlock.samples = <<>> /\ NewBlock.start = nextFrame /\ Len(NewBlock.samples) = 0
    BY DEF NewBlock
  <2>3. \A i \in 1..Len(Stream') : i \in 1..Len(Stream) \/ i = Len(Stream) + 1
    BY <1>1, <2>1
  <2>4. current'[1] = NewBlock
    BY <2>1
  <2>5. \A i \in 1..Len(Stream') :
          Stream'[i].samples # <<>> => Stream'[i].start * NumChannels = Stream'[i].samples[1]
    BY ONLY <1>2, <2>1, <2>2, <2>3
  <2> QED BY ONLY <1>2, <1>3, <2>1, <2>2, <2>4, <2>5 DEF FrameInv
<1>6. CASE Flushed
  <2>1. /\ Len(Stream') = Len(Stream) /\ \A i \in 1..Len(Stream) : Stream'[i] = Stream[i]
        /\ current' = <<>> /\ Pos' = Pos /\ nextFrame' = nextFrame /\ input' = input
    BY <1>6 DEF Flushed, SameStream
  <2> QED BY ONLY <1>2, <2>1 DEF FrameInv
<1>7. ASSUME NEW count \in Nat, Filled(count) PROVE FrameInv'
  <2> DEFINE b    == current[1]
             more == Extend(b, Stretch(Pos, count))
  <2>1. /\ current # <<>> /\ count > 0 /\ count <= input
        /\ count = input \/ count = BlockSamples - Len(b.samples)
        /\ Len(Stream') = Len(Stream)
        /\ \A i \in 1..(Len(Stream) - 1) : Stream'[i] = Stream[i]
        /\ Stream'[Len(Stream)] = more
        /\ Pos' = Pos + count /\ input' = input - count
        /\ nextFrame' = nextFrame + count \div NumChannels
        /\ current' = <<more>> \/ current' = <<>>
    BY <1>7 DEF Filled
  <2>2. /\ Len(Stream) = Closed + 1 /\ Stream[Closed + 1] = b /\ b \in Blocks
        /\ Len(Stream) - 1 = Closed
    <3>1. Len(current) = 1
      BY <1>1, <2>1
    <3> QED BY <1>1, <2>1, <3>1
  <2>3. Good(b, Closed, Pos) /\ (b.samples # <<>> => b.samples[Len(b.samples)] + 1 = Pos)
    <3>1. Closed + 1 \in 1..Len(Stream) /\ (Closed + 1) - 1 = Closed
      BY <1>1, <2>2
    <3> QED BY <2>1, <2>2, <3>1 DEF StreamInv
  <2>4. /\ Multiple(Len(b.samples)) /\ Len(b.samples) \in Nat
        /\ Multiple(count)
    <3>1. Multiple(Len(b.samples)) /\ Len(b.samples) \in Nat /\ Len(b.samples) < BlockSamples
      BY <1>2, <2>1, CurrentBlock DEF PoolInv
    <3>2. Multiple(BlockSamples) /\ BlockSamples \in Nat
      BY BlockAssumption, BlockSize DEF Multiple, BlockSamples
    <3>3. Len(b.samples) <= BlockSamples
      BY ONLY <3>1, <3>2
    <3>4. Multiple(BlockSamples - Len(b.samples))
      BY ONLY <3>1, <3>2, <3>3, MultiplesAdd
    <3> QED BY ONLY <1>2, <2>1, <3>1, <3>4
  <2>5. b.samples = <<>> => b.start = nextFrame
    BY <1>2, <2>1
  <2>6. b.samples # <<>> => b.start * NumChannels = b.samples[1]
    <3>1. Closed + 1 \in 1..Len(Stream)
      BY <1>1, <2>2
    <3> QED BY <1>2, <2>2, <3>1
  <2> HIDE DEF b
  <2>7. /\ more.samples # <<>>
        /\ more.samples[1] = IF b.samples = <<>> THEN Pos ELSE b.samples[1]
        /\ more.start = b.start /\ Len(more.samples) = Len(b.samples) + count
    <3>1. Pos \in Nat /\ count \in Nat /\ count > 0 /\ b \in Blocks
      BY <1>1, <2>1, <2>2
    <3>2. /\ Good(more, Closed, Pos + count)
          /\ more.samples # <<>>
          /\ more.samples[Len(more.samples)] + 1 = Pos + count
          /\ more.samples[1] = IF b.samples = <<>> THEN Pos ELSE b.samples[1]
      BY ONLY <2>3, <3>1, GoodMore, Zenon
    <3>3. more.start = b.start /\ Len(more.samples) = Len(b.samples) + count
      BY ONLY <3>1, MoreSamples
    <3> QED BY ONLY <3>2, <3>3
  <2> HIDE DEF more
  <2>8. more.start * NumChannels = more.samples[1]
    <3>1. nextFrame * NumChannels = Pos
      BY <1>2
    <3>2. CASE b.samples = <<>>
      BY ONLY <2>5, <2>7, <3>1, <3>2
    <3>3. CASE b.samples # <<>>
      BY ONLY <2>6, <2>7, <3>3
    <3> QED BY ONLY <3>2, <3>3
  <2>9. nextFrame' * NumChannels = Pos'
    BY <1>1, <1>2, <2>1, <2>4, FramesMove
  <2>10. Multiple(input')
    BY ONLY <1>1, <1>2, <2>1, <2>4, count \in Nat, MultiplesAdd
  <2>11. Multiple(Len(more.samples))
    BY ONLY <2>4, <2>7, count \in Nat, MultiplesAdd
  <2>12. \A i \in 1..Len(Stream') :
           Stream'[i].samples # <<>> => Stream'[i].start * NumChannels = Stream'[i].samples[1]
    <3>1. \A i \in 1..Len(Stream') : (i \in 1..Len(Stream) /\ i \in 1..(Len(Stream) - 1)) \/ i = Len(Stream)
      BY <1>1, <2>1, <2>2
    <3> QED BY ONLY <1>2, <2>1, <2>8, <3>1
  <2>13. current' # <<>> => current'[1] = more
    BY <2>1
  <2> QED BY ONLY <2>7, <2>9, <2>10, <2>11, <2>12, <2>13 DEF FrameInv
<1> QED BY <1>1, <1>4, <1>5, <1>6, <1>7 DEF StreamStep

LEMMA FrameInit == Init => FrameInv
<1> SUFFICES ASSUME Init PROVE FrameInv
  OBVIOUS
<1>1. PoolInv
  BY PoolInit
<1>2. /\ taken = <<>> /\ filled = <<>> /\ current = <<>>
      /\ nextFrame = 0 /\ input = 0 /\ offered = 0
  BY DEF Init
<1>3. Len(Stream) = 0
  <2>1. Closed = 0
    BY <1>2 DEF Closed
  <2> QED BY <1>1, <1>2, <2>1, StreamParts DEF PoolInv
<1>4. 0 * NumChannels = 0
  BY BlockAssumption
<1>5. Multiple(0) /\ Pos = 0
  BY <1>2, <1>4 DEF Multiple, Pos
<1> QED BY ONLY <1>2, <1>3, <1>4, <1>5 DEF FrameInv

(* start_frame is the frame of the block's first sample in the stream that  *)
(* the device offered, also after losses, as long as every callback brings  *)
(* whole frames.                                                            *)
THEOREM StartFramesAreExact ==
  ASSUME \A n \in InputSizes : n % NumChannels = 0
  PROVE  Spec => []StartFrameExact
<1>2. PoolInv /\ FrameInv => StartFrameExact
  <2> SUFFICES ASSUME PoolInv, FrameInv, NEW i \in DOMAIN Stream, Stream[i].samples # <<>>
               PROVE  Stream[i].start = Stream[i].samples[1] \div NumChannels
    BY DEF StartFrameExact
  <2>1. i \in 1..Len(Stream) /\ Stream[i] \in Blocks
    BY StreamParts, StreamBlocks DEF PoolInv
  <2>2. Stream[i].start * NumChannels = Stream[i].samples[1] /\ Stream[i].start \in Nat
    BY <2>1, BlockTypes DEF FrameInv
  <2> QED BY <2>2, ProductOfFrames
<1> QED BY <1>2, FrameInit, StreamInit, PoolAlways, StreamNext, FrameNext, PTL DEF Spec

-------------------------------------------------------------------------------
(* What is lost. *)

LEMMA Upward ==
  ASSUME NEW T, \A n \in Nat : (\A k \in 0..(n - 1) : k \in T) => n \in T
  PROVE  \A n \in Nat : n \in T
<1> SUFFICES ASSUME NEW n \in Nat, n \notin T PROVE FALSE
  OBVIOUS
<1> DEFINE R == OpToRel(<, Nat)
           B == {k \in Nat : k \notin T}
<1>1. IsWellFoundedOn(R, Nat)
  BY NatLessThanWellFounded
<1>2. \A x, y \in Nat : x < y => <<x, y>> \in R
  BY DEF OpToRel
<1>3. B \subseteq Nat /\ n \in B
  OBVIOUS
<1> HIDE DEF R
<1>4. PICK x \in B : \A y \in B : ~ (<<y, x>> \in R)
  <2> HIDE DEF B
  <2> QED BY <1>1, <1>3, WFMin
<1>5. x \in Nat /\ x \notin T
  BY <1>4
<1>6. ASSUME NEW k \in 0..(x - 1) PROVE k \in T
  <2>1. k \in Nat /\ k < x
    BY <1>5
  <2> QED BY <1>2, <1>4, <1>5, <2>1
<1> QED BY <1>5, <1>6

(* The samples of the first i blocks. *)
AddOne(s, f, i) == IF i = 0 THEN 0 ELSE f[i-1] + Len(s[i].samples)

UpTo(s) == CHOOSE f : f = [i \in 0..Len(s) |-> AddOne(s, f, i)]

LEMMA SamplesUpTo ==
  ASSUME NEW s
  PROVE  SamplesIn(s) = UpTo(s)[Len(s)]
BY DEF SamplesIn, UpTo, AddOne

LEMMA UpToEach ==
  ASSUME NEW s, Len(s) \in Nat
  PROVE  \A i \in 0..Len(s) : UpTo(s)[i] = AddOne(s, UpTo(s), i)
<1> DEFINE n == Len(s)
           T == {m \in Nat : \E f : \A i \in 0..m : f[i] = AddOne(s, f, i)}
<1>1. ASSUME NEW m \in Nat, \A k \in 0..(m - 1) : k \in T
      PROVE  m \in T
  <2>1. PICK f : \A i \in 0..(m - 1) : f[i] = AddOne(s, f, i)
    <3>1. CASE m = 0
      <4>1. \A i \in 0..(m - 1) : FALSE
        BY <3>1
      <4> QED BY <4>1
    <3>2. CASE m # 0
      <4>1. m - 1 \in 0..(m - 1)
        BY <3>2
      <4> QED BY <1>1, <4>1
    <3> QED BY <3>1, <3>2
  <2> DEFINE g == [i \in 0..m |-> IF i = m THEN AddOne(s, f, m) ELSE f[i]]
  <2>2. ASSUME NEW i \in 0..m PROVE g[i] = AddOne(s, g, i)
    <3>1. /\ i = 0 \/ (i # 0 /\ i - 1 \in 0..m /\ i - 1 # m)
          /\ i = m \/ i \in 0..(m - 1)
      BY <1>1
    <3>2. i # 0 => g[i - 1] = f[i - 1]
      BY <3>1
    <3>3. AddOne(s, g, i) = AddOne(s, f, i)
      <4> HIDE DEF g
      <4> QED BY <3>2 DEF AddOne
    <3> QED BY <2>1, <3>1, <3>3
  <2> HIDE DEF g
  <2> QED BY <2>2
<1>2. n \in T
  <2>1. n \in Nat
    OBVIOUS
  <2> HIDE DEF T, n
  <2> QED BY <1>1, <2>1, Upward
<1>3. PICK f : \A i \in 0..n : f[i] = AddOne(s, f, i)
  BY <1>2
<1> DEFINE g == [i \in 0..n |-> f[i]]
<1>4. g = [i \in 0..Len(s) |-> AddOne(s, g, i)]
  <2>1. ASSUME NEW i \in 0..n PROVE f[i] = AddOne(s, g, i)
    <3>1. i # 0 => i - 1 \in 0..n
      OBVIOUS
    <3>2. i # 0 => g[i - 1] = f[i - 1]
      BY <3>1
    <3> HIDE DEF g
    <3>3. AddOne(s, g, i) = AddOne(s, f, i)
      BY <3>2 DEF AddOne
    <3> QED BY <1>3, <3>3
  <2> QED BY <2>1
<1> HIDE DEF g
<1>5. UpTo(s) = [i \in 0..Len(s) |-> AddOne(s, UpTo(s), i)]
  BY <1>4 DEF UpTo
<1> QED BY <1>5

(* Streams that begin alike have as many samples up to there. *)
LEMMA UpToAlike ==
  ASSUME NEW s \in Seq(Blocks), NEW t \in Seq(Blocks), NEW n \in 0..Len(s), n <= Len(t),
         \A i \in 1..n : t[i] = s[i]
  PROVE  UpTo(t)[n] = UpTo(s)[n] /\ UpTo(s)[n] \in Nat
<1> DEFINE T == {i \in Nat : i <= n => UpTo(t)[i] = UpTo(s)[i] /\ UpTo(s)[i] \in Nat}
<1>1. Len(s) \in Nat /\ Len(t) \in Nat /\ n \in Nat
  BY LenProperties
<1>2. ASSUME NEW i \in Nat, \A k \in 0..(i - 1) : k \in T
      PROVE  i \in T
  <2> SUFFICES ASSUME i <= n PROVE UpTo(t)[i] = UpTo(s)[i] /\ UpTo(s)[i] \in Nat
    OBVIOUS
  <2>1. i \in 0..Len(s) /\ i \in 0..Len(t)
    BY <1>1
  <2>2. UpTo(s)[i] = AddOne(s, UpTo(s), i) /\ UpTo(t)[i] = AddOne(t, UpTo(t), i)
    BY <1>1, <2>1, UpToEach
  <2>3. CASE i = 0
    BY <2>2, <2>3 DEF AddOne
  <2>4. CASE i # 0
    <3>1. i - 1 \in 0..(i - 1) /\ i - 1 <= n /\ i \in 1..n /\ i \in 1..Len(s)
      BY <1>1, <2>1, <2>4
    <3>2. UpTo(t)[i - 1] = UpTo(s)[i - 1] /\ UpTo(s)[i - 1] \in Nat
      BY <1>2, <3>1
    <3>3. t[i] = s[i] /\ Len(s[i].samples) \in Nat
      <4>1. s[i] \in Blocks
        BY <3>1, ElementOfSeq
      <4> QED BY <3>1, <4>1, BlockTypes
    <3> QED BY <2>2, <2>4, <3>2, <3>3 DEF AddOne
  <2> QED BY <2>3, <2>4
<1>3. \A i \in Nat : i \in T
  <2> HIDE DEF T
  <2> QED BY <1>2, Upward
<1> QED BY <1>1, <1>3

LEMMA SameSamples ==
  ASSUME NEW s \in Seq(Blocks), NEW t \in Seq(Blocks), Len(t) = Len(s),
         \A i \in 1..Len(s) : t[i] = s[i]
  PROVE  SamplesIn(t) = SamplesIn(s) /\ SamplesIn(s) \in Nat
<1>1. Len(s) \in 0..Len(s) /\ Len(s) <= Len(t)
  BY LenProperties
<1> QED BY <1>1, SamplesUpTo, UpToAlike

(* The last block adds its samples. *)
LEMMA LastSamples ==
  ASSUME NEW s \in Seq(Blocks), NEW n \in Nat, Len(s) = n + 1
  PROVE  /\ SamplesIn(s) = UpTo(s)[n] + Len(s[n + 1].samples)
         /\ UpTo(s)[n] \in Nat
<1>1. n + 1 \in 0..Len(s) /\ n \in 0..Len(s) /\ n <= Len(s) /\ n + 1 # 0 /\ (n + 1) - 1 = n
  OBVIOUS
<1>2. UpTo(s)[n + 1] = AddOne(s, UpTo(s), n + 1)
  BY <1>1, UpToEach
<1>3. UpTo(s)[n + 1] = UpTo(s)[n] + Len(s[n + 1].samples)
  BY <1>1, <1>2 DEF AddOne
<1>4. UpTo(s)[n] \in Nat
  BY <1>1, UpToAlike
<1> QED BY <1>3, <1>4, SamplesUpTo

(* Where the callback has got to is what is in blocks and what it dropped. *)
LossInv == SamplesIn(Stream) + dropped * NumChannels = Pos

LEMMA LossNext ==
  PoolInv /\ PoolInv' /\ FrameInv /\ LossInv /\ [Next]_vars => LossInv'
<1> SUFFICES ASSUME PoolInv, PoolInv', FrameInv, LossInv, [Next]_vars PROVE LossInv'
  OBVIOUS
<1>1. /\ StreamStep /\ Pos \in Nat /\ input \in Nat /\ dropped \in Nat
      /\ Len(Stream) = Closed + Len(current) /\ Closed \in Nat
      /\ current # <<>> => Len(current) = 1 /\ Stream[Closed + 1] = current[1] /\ current[1] \in Blocks
  BY StreamMoves, StreamParts, CurrentBlock DEF PoolInv, TypeOK, Pos
<1>2. Stream \in Seq(Blocks) /\ Stream' \in Seq(Blocks)
  BY StreamParts, StreamPartsNext DEF PoolInv
<1>3. SamplesIn(Stream) + dropped * NumChannels = Pos /\ Multiple(input)
  BY DEF LossInv, FrameInv
<1>4. dropped * NumChannels \in Nat
  BY <1>1, SumOfFrames
<1>5. ASSUME SameStream PROVE SamplesIn(Stream') = SamplesIn(Stream) /\ SamplesIn(Stream) \in Nat
  BY <1>2, <1>5, SameSamples DEF SameStream
<1>6. SamplesIn(Stream)' = SamplesIn(Stream')
  BY DEF SamplesIn
<1>7. CASE Kept
  <2>1. CASE Pos' = Pos /\ dropped' = dropped
    BY <1>3, <1>5, <1>6, <1>7, <2>1 DEF Kept, LossInv
  <2>2. CASE Pos' = Pos + input /\ dropped' = dropped + input \div NumChannels
    <3>1. dropped' * NumChannels = dropped * NumChannels + input
      BY <1>1, <1>3, <2>2, FramesMove
    <3>2. SamplesIn(Stream') = SamplesIn(Stream) /\ SamplesIn(Stream) \in Nat
      BY <1>5, <1>7 DEF Kept
    <3>3. SamplesIn(Stream') + dropped' * NumChannels = Pos'
      BY ONLY <1>1, <1>3, <1>4, <2>2, <3>1, <3>2
    <3> QED BY <1>6, <3>3 DEF LossInv
  <2> QED BY <1>7, <2>1, <2>2 DEF Kept
<1>8. CASE Acquired
  <2>1. /\ Len(Stream') = Len(Stream) + 1 /\ Len(Stream) \in Nat
        /\ \A i \in 1..Len(Stream) : Stream'[i] = Stream[i]
        /\ Len(Stream'[Len(Stream) + 1].samples) = 0
        /\ Pos' = Pos /\ dropped' = dropped
    BY <1>2, <1>8, LenProperties DEF Acquired, NewBlock
  <2>2. UpTo(Stream')[Len(Stream)] = UpTo(Stream)[Len(Stream)] /\ UpTo(Stream)[Len(Stream)] \in Nat
    <3>1. Len(Stream) \in 0..Len(Stream) /\ Len(Stream) <= Len(Stream')
      BY <2>1
    <3>2. \A i \in 1..Len(Stream) : Stream'[i] = Stream[i]
      BY <2>1
    <3> QED BY ONLY <1>2, <3>1, <3>2, UpToAlike
  <2>3. SamplesIn(Stream') = UpTo(Stream')[Len(Stream)] + 0
    BY <1>2, <2>1, LastSamples
  <2>4. SamplesIn(Stream') = SamplesIn(Stream)
    BY <2>2, <2>3, SamplesUpTo
  <2> QED BY <1>3, <1>6, <2>1, <2>4 DEF LossInv
<1>9. CASE Flushed
  BY <1>3, <1>5, <1>6, <1>9 DEF Flushed, LossInv
<1>10. ASSUME NEW count \in Nat, Filled(count) PROVE LossInv'
  <2> DEFINE b    == current[1]
             more == Extend(b, Stretch(Pos, count))
  <2>1. /\ current # <<>> /\ count > 0 /\ Pos' = Pos + count /\ dropped' = dropped
        /\ Len(Stream') = Len(Stream)
        /\ \A i \in 1..(Len(Stream) - 1) : Stream'[i] = Stream[i]
        /\ Stream'[Len(Stream)] = more
    BY <1>10 DEF Filled
  <2>2. /\ Len(Stream) = Closed + 1 /\ Len(Stream) - 1 = Closed
        /\ Stream[Closed + 1] = b /\ b \in Blocks
    <3>1. current # <<>>
      BY <2>1
    <3>2. Len(current) = 1 /\ Stream[Closed + 1] = b /\ b \in Blocks
      BY ONLY <1>1, <3>1
    <3> HIDE DEF b
    <3> QED BY ONLY <1>1, <3>2
  <2> HIDE DEF b
  <2>3. Len(more.samples) = Len(b.samples) + count /\ Len(b.samples) \in Nat
    <3>1. b \in Blocks /\ Pos \in Nat /\ count > 0
      BY <1>1, <2>1, <2>2
    <3>2. Len(more.samples) = Len(b.samples) + count
      BY ONLY <3>1, count \in Nat, MoreSamples
    <3> QED BY ONLY <3>1, <3>2, BlockTypes
  <2> HIDE DEF more
  <2>4. UpTo(Stream')[Closed] = UpTo(Stream)[Closed] /\ UpTo(Stream)[Closed] \in Nat
    <3>1. Closed \in 0..Len(Stream) /\ Closed <= Len(Stream') /\ \A i \in 1..Closed : Stream'[i] = Stream[i]
      <4>1. Len(Stream) = Closed + 1 /\ Len(Stream) - 1 = Closed /\ Len(Stream') = Len(Stream) /\ Closed \in Nat
        BY <1>1, <2>1, <2>2
      <4> QED BY <2>1, <4>1
    <3> QED BY <1>2, <3>1, UpToAlike
  <2>5. /\ SamplesIn(Stream) = UpTo(Stream)[Closed] + Len(b.samples)
        /\ SamplesIn(Stream') = UpTo(Stream')[Closed] + Len(more.samples)
    <3>1. Len(Stream') = Closed + 1 /\ Stream'[Closed + 1] = more
      BY <1>1, <2>1, <2>2
    <3>2. Closed \in Nat
      BY <1>1
    <3> QED BY ONLY <1>2, <2>2, <3>1, <3>2, LastSamples
  <2>6. SamplesIn(Stream') + dropped' * NumChannels = Pos'
    <3> DEFINE d == dropped * NumChannels
               u == UpTo(Stream)[Closed]
    <3>1. dropped' * NumChannels = d /\ d \in Nat
      BY <1>4, <2>1
    <3> HIDE DEF d, u
    <3>2. (u + Len(b.samples)) + d = Pos /\ u \in Nat
      BY <1>3, <2>4, <2>5 DEF d, u
    <3>3. SamplesIn(Stream') = u + (Len(b.samples) + count)
      BY <2>3, <2>4, <2>5 DEF u
    <3>4. Pos' = Pos + count /\ Len(b.samples) \in Nat
      BY <2>1, <2>3
    <3> QED BY ONLY <3>1, <3>2, <3>3, <3>4, count \in Nat
  <2> QED BY <1>6, <2>6 DEF LossInv
<1> QED BY <1>1, <1>7, <1>8, <1>9, <1>10 DEF StreamStep

(* Every sample the device offered is in a block, counted as dropped or    *)
(* still in the callback's hands, whatever the worker does, as long as     *)
(* every callback brings whole frames.                                     *)
THEOREM LossesAreCounted ==
  ASSUME \A n \in InputSizes : n % NumChannels = 0
  PROVE  Spec => []LossIsCounted
<1>1. Init => LossInv
  <2> SUFFICES ASSUME Init PROVE LossInv
    OBVIOUS
  <2>1. PoolInv
    BY PoolInit
  <2>2. /\ taken = <<>> /\ filled = <<>> /\ current = <<>> /\ dropped = 0 /\ Pos = 0
    BY DEF Init, Pos
  <2>3. Stream \in Seq(Blocks) /\ Len(Stream) = 0
    <3>1. Closed = 0
      BY <2>2 DEF Closed
    <3> QED BY <2>1, <2>2, <3>1, StreamParts DEF PoolInv
  <2>4. UpTo(Stream)[0] = AddOne(Stream, UpTo(Stream), 0)
    BY <2>3, UpToEach
  <2>5. SamplesIn(Stream) = 0
    BY <2>3, <2>4, SamplesUpTo DEF AddOne
  <2>6. 0 * NumChannels = 0
    BY BlockAssumption
  <2> QED BY <2>2, <2>5, <2>6 DEF LossInv
<1>2. PoolInv /\ LossInv => LossIsCounted
  <2> SUFFICES ASSUME PoolInv, LossInv PROVE LossIsCounted
    OBVIOUS
  <2>1. offered \in Nat /\ input \in Nat /\ input <= offered /\ dropped \in Nat
    BY DEF PoolInv, TypeOK
  <2>2. SamplesIn(Stream) + dropped * NumChannels = offered - input
    BY DEF LossInv, Pos
  <2>3. SamplesIn(Stream) \in Nat /\ dropped * NumChannels \in Nat
    <3>1. Stream \in Seq(Blocks)
      BY StreamParts DEF PoolInv
    <3> QED BY <2>1, <3>1, SameSamples, SumOfFrames
  <2>4. (SamplesIn(Stream) + dropped * NumChannels) + input = offered
    BY ONLY <2>1, <2>2, <2>3
  <2> QED BY <2>4 DEF LossIsCounted
<1> QED BY <1>1, <1>2, FrameInit, LossNext, StreamInit, PoolAlways, StreamNext, FrameNext, PTL DEF Spec

===============================================================================
