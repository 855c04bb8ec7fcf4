---------------------------- MODULE MCJournalFile ----------------------------
(* Instances of JournalFile for TLC. *)
EXTENDS JournalFile, TLC

(* A small record, one that is as large as a record may be, and one that   *)
(* is too large.                                                           *)
SomeKinds ==
  {[code |-> 6, value |-> 1, size |-> 1], [code |-> 7, value |-> 0, size |-> 2],
   [code |-> 24, value |-> 0, size |-> 3]}

SessionSymmetry == Permutations(Sessions)

==============================================================================
