------------------------------ MODULE DurableLog ------------------------------
(***************************************************************************)
(* What a journal promises its readers: a log that grows at its end, by    *)
(* records numbered without a gap, and of which a crash takes at most the  *)
(* end that was not yet synced.  Only damage to the medium takes more, once*)
(* each time, and it never changes or reorders what is still read.  It is  *)
(* counted, so that no other step can pass for it.  That a record becomes  *)
(* part of the log when its append returns is not promised.                *)
(***************************************************************************)
EXTENDS Naturals, Sequences, SequencesExt

VARIABLES
  records,   \* what a reader gets, in order
  durable,   \* how many of them a crash cannot take
  damages    \* how often the medium has been damaged

Init == records = <<>> /\ durable = 0 /\ damages = 0

(* A record joins the log, synced with all before it or not yet. *)
Extend ==
  /\ Len(records') = Len(records) + 1
  /\ Front(records') = records
  /\ records # <<>> =>
       /\ Last(records').session = Last(records).session
       /\ Last(records').sequence = Last(records).sequence + 1
  /\ durable' \in {durable, Len(records')}
  /\ UNCHANGED damages

Sync == durable' = Len(records) /\ UNCHANGED <<records, damages>>

(* The end is lost, but nothing durable; what is left is on disk. *)
Crash ==
  /\ \E n \in durable..Len(records) : records' = SubSeq(records, 1, n)
  /\ durable' = Len(records')
  /\ UNCHANGED damages

(* The medium is damaged, and an end is lost that may have been durable. *)
Decay ==
  /\ damages' = damages + 1
  /\ \E n \in 0..Len(records) : records' = SubSeq(records, 1, n)
  /\ durable' \in 0..Len(records') /\ durable' <= durable

Next == Extend \/ Sync \/ Crash \/ Decay

Spec == Init /\ [][Next]_<<records, durable, damages>>

===============================================================================
