----------------------------- MODULE CaptureRing -----------------------------
(***************************************************************************)
(* The realtime handoff of icepod-core: the audio callback and the capture *)
(* worker exchange preallocated blocks over two bounded single-producer    *)
(* single-consumer rings (realtime.rs).  The two run on different threads; *)
(* each step below makes at most one operation on a shared ring, which is  *)
(* where the threads interleave.                                           *)
(*                                                                         *)
(* A sample is its index in the interleaved stream the device offers, so   *)
(* loss, duplication and reordering show.  The callback is inside capture  *)
(* exactly while `input`, the samples it has left, is not zero.            *)
(***************************************************************************)
EXTENDS Naturals, Sequences

CONSTANTS
  PoolBlocks,     \* blocks in the pool, and the capacity of both rings
  BlockFrames,    \* frames per block
  NumChannels,
  InputSizes,     \* samples per callback
  MaxSamples      \* bound: samples the device offers in a behaviour

ASSUME PoolAssumption == PoolBlocks \in Nat /\ PoolBlocks > 1
ASSUME BlockAssumption == BlockFrames \in Nat \ {0} /\ NumChannels \in Nat \ {0}
ASSUME InputAssumption == InputSizes \subseteq Nat \ {0} /\ MaxSamples \in Nat

VARIABLES
  free,         \* blocks in the free ring
  filled,       \* the filled ring
  current,      \* CaptureCallback.current: <<>>, or the one block in it
  sequence,     \* CaptureCallback.sequence
  nextFrame,    \* CaptureCallback.next_frame
  input,        \* samples of the current callback not yet consumed
  offered,      \* samples offered so far
  unavailable, saturated, dropped,    \* CaptureCounters
  held,         \* blocks the worker has popped and not recycled
  taken         \* every block popped so far, in order

callback == <<current, sequence, nextFrame, input, offered, unavailable, saturated, dropped>>
worker   == <<held, taken>>
vars     == <<free, filled, callback, worker>>

BlockSamples == BlockFrames * NumChannels

FilledTooSmall == PoolBlocks - 1

FilledCapacity == PoolBlocks

Init ==
  /\ free = PoolBlocks /\ filled = <<>>
  /\ current = <<>> /\ sequence = 0 /\ nextFrame = 0
  /\ input = 0 /\ offered = 0
  /\ unavailable = 0 /\ saturated = 0 /\ dropped = 0
  /\ held = 0 /\ taken = <<>>

-------------------------------------------------------------------------------
(* The callback thread. *)

(* Samples rest..rest+n-1 of the stream. *)
Stretch(rest, n) == [i \in 1..n |-> rest + i - 1]

(* The device calls capture with n samples. *)
Capture(n) ==
  /\ input = 0
  /\ offered + n <= MaxSamples
  /\ input' = n /\ offered' = offered + n
  /\ UNCHANGED <<free, filled, current, sequence, nextFrame, unavailable, saturated, dropped, worker>>

AcquireByPeek ==
  /\ input > 0 /\ current = <<>> /\ free > 0
  /\ current' = <<[seq |-> sequence, start |-> nextFrame, samples |-> <<>>]>>
  /\ UNCHANGED <<free, filled, sequence, nextFrame, input, offered, unavailable, saturated,
                 dropped, worker>>

(* while !input.is_empty(), first half: a block is taken from the pool, or *)
(* the rest of the input is dropped, counted in whole frames.              *)
Acquire ==
  /\ input > 0 /\ current = <<>>
  /\ free > 0
  /\ free' = free - 1
  /\ current' = <<[seq |-> sequence, start |-> nextFrame, samples |-> <<>>]>>
  /\ UNCHANGED <<filled, sequence, nextFrame, input, offered, unavailable, saturated, dropped, worker>>

DropUncounted(rest, frame) ==
  dropped' = dropped /\ nextFrame' = frame + rest \div NumChannels /\ input' = 0

DropInPlace(rest, frame) ==
  dropped' = dropped + rest \div NumChannels /\ nextFrame' = frame /\ input' = 0

DropInput(rest, frame) ==
  /\ dropped' = dropped + rest \div NumChannels
  /\ nextFrame' = frame + rest \div NumChannels
  /\ input' = 0

WaitForPool == FALSE

PoolEmpty ==
  /\ input > 0 /\ current = <<>>
  /\ free = 0
  /\ unavailable' = unavailable + 1
  /\ DropInput(input, nextFrame)
  /\ UNCHANGED <<free, filled, current, sequence, offered, saturated, worker>>

PushUnnumbered(block) ==
  filled' = Append(filled, block) /\ current' = <<>> /\ UNCHANGED sequence

PushFilled(block) ==
  filled' = Append(filled, block) /\ current' = <<>> /\ sequence' = sequence + 1

CountUnbounded(rest, room) == rest

Count(rest, room) == IF rest <= room THEN rest ELSE room

(* copy_from_slice behind the samples that are valid so far.               *)
Extend(block, tail) ==
  [seq |-> block.seq, start |-> block.start, samples |-> block.samples \o tail]

(* Second half: fill the block; a full block goes to the filled ring, and  *)
(* if that has no room it stays current and the rest of the input drops.   *)
Fill ==
  /\ input > 0 /\ current # <<>>
  /\ LET block == current[1]
         room  == BlockSamples - Len(block.samples)
         count == Count(input, room)
         more  == Extend(block, Stretch(offered - input, count))
         frame == nextFrame + count \div NumChannels
     IN IF count < room
        THEN /\ current' = <<more>>
             /\ input' = input - count /\ nextFrame' = frame
             /\ UNCHANGED <<filled, sequence, saturated, dropped>>
        ELSE IF Len(filled) < FilledCapacity
        THEN /\ PushFilled(more)
             /\ input' = input - count /\ nextFrame' = frame
             /\ UNCHANGED <<saturated, dropped>>
        ELSE /\ current' = <<more>>
             /\ saturated' = saturated + 1
             /\ DropInput(input - count, frame)
             /\ UNCHANGED <<filled, sequence>>
  /\ UNCHANGED <<free, offered, unavailable, worker>>

(* flush_partial, between two callbacks. *)
FlushPartial ==
  /\ input = 0 /\ current # <<>>
  /\ current[1].samples # <<>>
  /\ IF Len(filled) < FilledCapacity
     THEN PushFilled(current[1]) /\ UNCHANGED saturated
     ELSE /\ saturated' = saturated + 1
          /\ UNCHANGED <<filled, current, sequence>>
  /\ UNCHANGED <<free, nextFrame, input, offered, unavailable, dropped, worker>>

-------------------------------------------------------------------------------
(* The worker thread. *)

Pop ==
  /\ filled # <<>>
  /\ filled' = Tail(filled)
  /\ held' = held + 1
  /\ taken' = Append(taken, Head(filled))
  /\ UNCHANGED <<free, callback>>

(* A block that finds the free ring full is handed back. *)
Recycle ==
  /\ held > 0
  /\ IF free < PoolBlocks
     THEN free' = free + 1 /\ held' = held - 1
     ELSE UNCHANGED <<free, held>>
  /\ UNCHANGED <<filled, callback, taken>>

-------------------------------------------------------------------------------
InCapture == Acquire \/ PoolEmpty \/ Fill

Next ==
  \/ \E n \in InputSizes : Capture(n)
  \/ InCapture \/ FlushPartial
  \/ Pop \/ Recycle

(* The audio thread runs; nothing is assumed of the device or the worker.  *)
Spec == Init /\ [][Next]_vars /\ WF_vars(InCapture)

-------------------------------------------------------------------------------
Blocks == [seq : Nat, start : Nat, samples : Seq(Nat)]

(* Every variable keeps its type, and no block outgrows its storage. *)
TypeOK ==
  /\ free \in Nat /\ held \in Nat
  /\ filled \in Seq(Blocks) /\ taken \in Seq(Blocks)
  /\ current \in Seq(Blocks) /\ Len(current) <= 1
  /\ \A i \in 1..Len(current) : Len(current[i].samples) < BlockSamples
  /\ \A i \in 1..Len(filled) : Len(filled[i].samples) <= BlockSamples
  /\ sequence \in Nat /\ nextFrame \in Nat
  /\ offered \in Nat /\ input \in Nat /\ input <= offered
  /\ unavailable \in Nat /\ saturated \in Nat /\ dropped \in Nat

(* No block of the pool is ever lost or made: each is in one of the rings, *)
(* current, or with the worker.                                            *)
Conservation == free + Len(filled) + Len(current) + held = PoolBlocks

(* Since the pool is no larger than the rings, neither ring is ever full   *)
(* when a block is pushed: the saturated paths of capture and              *)
(* flush_partial are never taken, and recycle never hands a block back.    *)
NeverSaturated ==
  /\ saturated = 0
  /\ current # <<>> => Len(filled) < FilledCapacity
  /\ held > 0 => free < PoolBlocks

(* The blocks of a run in the order they were begun. *)
Stream == taken \o filled \o current

SamplesIn(s) ==
  LET upTo[i \in 0..Len(s)] == IF i = 0 THEN 0 ELSE upTo[i-1] + Len(s[i].samples)
  IN upTo[Len(s)]

(* Whatever the two threads do, the worker sees the stream in order:       *)
(* blocks numbered without a gap, each an unbroken stretch of samples, and *)
(* each beginning after the one before it ended.                           *)
StreamInOrder ==
  LET S == Stream IN
  \A i \in DOMAIN S :
    /\ S[i].seq = i - 1
    /\ \A k \in 1..(Len(S[i].samples) - 1) : S[i].samples[k+1] = S[i].samples[k] + 1
    /\ i > 1 /\ S[i].samples # <<>> => S[i].samples[1] > S[i-1].samples[Len(S[i-1].samples)]

(* Every sample the device offered is in a block, counted as dropped, or   *)
(* still in the callback's hands: no loss is silent.                       *)
LossIsCounted ==
  SamplesIn(Stream) + dropped * NumChannels + input = offered

(* start_frame is the frame of the block's first sample in the stream the  *)
(* device offered, also after losses, so that the worker can tell where    *)
(* frames are missing and how many.                                        *)
StartFrameExact ==
  LET S == Stream IN
  \A i \in DOMAIN S : S[i].samples # <<>> => S[i].start = S[i].samples[1] \div NumChannels

(* capture returns after its own steps alone, whatever the worker does or  *)
(* fails to do.                                                            *)
CaptureReturns == input > 0 ~> input = 0

==============================================================================
