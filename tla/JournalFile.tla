------------------------------ MODULE JournalFile ------------------------------
(***************************************************************************)
(* The journal as a file (crates/icepod-core/src/journal.rs): how records  *)
(* are laid out, what append leaves behind when it fails, what a crash or  *)
(* a bad medium makes of the file, and what parse_valid reads of it.       *)
(* Recorder.tla has records for bytes; this module says why it may.        *)
(*                                                                         *)
(* The file is a sequence of cells, and a cell is the least that is        *)
(* written whole: a record is its magic, the numbers of its header, the    *)
(* cells of its payload and its checksum.  The checksum is ideal: it is    *)
(* the cells it covers, so no other cells have it.                         *)
(***************************************************************************)
EXTENDS Integers, Sequences, SequencesExt

CONSTANTS
  Sessions,        \* session ids
  Kinds,           \* values of JournalRecordKind: [code, value, size], size in cells
  MaxRecordSize,   \* MAX_RECORD_SIZE, in cells of payload
  MaxCells,        \* bound: nothing is appended to a longer file
  MaxMishaps       \* bound: failed appends, crashes and damaged cells

ASSUME KindsAssumption ==
  /\ \A k \in Kinds : k.code \in Nat /\ k.size \in Nat \ {0}   \* the variant is in the payload
  /\ \A j, k \in Kinds : j.code = k.code /\ j.value = k.value => j = k
ASSUME BoundsAssumption ==
  MaxRecordSize \in Nat /\ MaxCells \in Nat /\ MaxMishaps \in Nat

VARIABLES
  file,       \* the cells of session.journal
  synced,     \* how many of them the last sync_data covered
  writer,     \* the Journal: its session_id and next_sequence, and whether it is open
  failed,     \* an append has failed
  mishaps,    \* failed appends, crashes and damaged cells so far
  damages     \* those of them that were damaged cells

vars == <<file, synced, writer, failed, mishaps, damages>>

-------------------------------------------------------------------------------
(* The layout of a record. *)

Magic == [magic |-> "ICEPODJ 1"]   \* MAGIC and VERSION, compared together
Junk  == [junk |-> "zeroes"]       \* what was never written here

HeaderLen == 2

Payload(kind) == [i \in 1..kind.size |-> [of |-> kind, part |-> i]]

Checksum(cells) == [crc |-> cells]

Encode(r) ==
  LET header == [session |-> r.session, sequence |-> r.sequence,
                 code |-> r.kind.code, length |-> r.kind.size]
      covered == <<Magic, header>> \o Payload(r.kind)
  IN Append(covered, Checksum(covered))

-------------------------------------------------------------------------------
(* parse_valid. *)

(* The record at an offset passes every check but that of its number.  A   *)
(* cell that is no header is numbers too, but whatever length they give    *)
(* the checksum fails.                                                     *)
IntactUnchecked(cells, offset) ==
  /\ Len(cells) >= offset + HeaderLen + 1
  /\ cells[offset + 1] = Magic
  /\ "length" \in DOMAIN cells[offset + 2]
  /\ LET header == cells[offset + 2]
         checksumAt == offset + HeaderLen + header.length + 1
     IN /\ checksumAt <= Len(cells)
        /\ \E k \in Kinds :
             k.code = header.code
             /\ IsPrefix(Payload(k), SubSeq(cells, offset + HeaderLen + 1, checksumAt - 1))

Intact(cells, offset) ==
  /\ Len(cells) - offset >= HeaderLen + 1
  /\ cells[offset + 1] = Magic
  /\ "length" \in DOMAIN cells[offset + 2]
  /\ LET header == cells[offset + 2]
         checksumAt == offset + HeaderLen + header.length + 1
         covered == SubSeq(cells, offset + 1, checksumAt - 1)
     IN /\ header.length <= MaxRecordSize
        /\ checksumAt <= Len(cells)
        /\ cells[checksumAt] = Checksum(covered)
        /\ \E k \in Kinds :
             k.code = header.code /\ IsPrefix(Payload(k), SubSeq(covered, HeaderLen + 1, Len(covered)))

(* The record at an offset, decoded: postcard goes by the payload alone.   *)
RecordAt(cells, offset) ==
  LET header == cells[offset + 2] IN
  [session |-> header.session, sequence |-> header.sequence,
   kind |-> CHOOSE k \in Kinds :
              /\ k.code = header.code
              /\ IsPrefix(Payload(k), SubSeq(cells, offset + HeaderLen + 1, Len(cells)))]

(* r continues the numbering of the record read before it. *)
Follows(previous, r) == previous.session = r.session /\ previous.sequence + 1 = r.sequence

RecordLen(r) == Len(Encode(r))

ParseValid(cells) ==
  LET rest[offset \in 0..Len(cells)] ==
        IF ~ Intact(cells, offset) THEN <<>>
        ELSE LET r == RecordAt(cells, offset)
                 next == offset + HeaderLen + cells[offset + 2].length + 1
             IN IF rest[next] # <<>> /\ Follows(r, Head(rest[next]))
                THEN <<r>> \o rest[next] ELSE <<r>>
  IN rest[0]

-------------------------------------------------------------------------------
Closed == [writer EXCEPT !.open = FALSE, !.next = 0]

(* Journal::create: a new file. *)
Init ==
  /\ file = <<>> /\ synced = 0
  /\ \E s \in Sessions : writer = [open |-> TRUE, session |-> s, next |-> 0]
  /\ failed = FALSE /\ mishaps = 0 /\ damages = 0

Mishap == mishaps < MaxMishaps /\ mishaps' = mishaps + 1

NextRecord(kind) == [session |-> writer.session, sequence |-> writer.next, kind |-> kind]

AcceptsAnything(kind) == TRUE

(* A larger payload is refused before anything is written. *)
Accepts(kind) == kind.size <= MaxRecordSize

CanAppend(kind) == writer.open /\ Accepts(kind) /\ Len(file) < MaxCells

AppendRecord(kind, durable) ==
  /\ CanAppend(kind)
  /\ file' = file \o Encode(NextRecord(kind))
  /\ synced' = IF durable THEN Len(file') ELSE synced
  /\ writer' = [writer EXCEPT !.next = @ + 1]
  /\ UNCHANGED <<failed, mishaps, damages>>

(* append returns an error: write_all wrote any part of the record, or all *)
(* of it and sync_data failed.  The Journal stays in use and will give the *)
(* same number again.                                                      *)
AppendFails(kind) ==
  /\ CanAppend(kind)
  /\ Mishap /\ failed' = TRUE
  /\ \E n \in 0..RecordLen(NextRecord(kind)) :
       file' = file \o SubSeq(Encode(NextRecord(kind)), 1, n)
  /\ UNCHANGED <<synced, writer, damages>>

(* The Journal is dropped. *)
Close ==
  /\ writer.open
  /\ writer' = Closed
  /\ UNCHANGED <<file, synced, failed, mishaps, damages>>

OpenByIndex(records) == Len(records) - 1

NextSequence(records) == IF records = <<>> THEN 0 ELSE Last(records).sequence + 1

OpenTruncated(session) ==
  /\ ~ writer.open
  /\ writer' = [open |-> TRUE, session |-> session, next |-> 0]
  /\ file' = <<>> /\ synced' = 0
  /\ UNCHANGED <<failed, mishaps, damages>>

(* Journal::open.  It appends at the end of the file, behind whatever it   *)
(* could not read.                                                         *)
Open(session) ==
  /\ ~ writer.open
  /\ LET records == ParseValid(file) IN
       /\ \A i \in DOMAIN records : records[i].session = session
       /\ writer' = [open |-> TRUE, session |-> session, next |-> NextSequence(records)]
  /\ UNCHANGED <<file, synced, failed, mishaps, damages>>

(* A crash: cells no sync covered are gone, or are there but were never    *)
(* filled, and what is left is on disk.                                    *)
Crash ==
  /\ Mishap
  /\ \E n \in synced..Len(file) :
       file' \in {SubSeq(file, 1, n), SubSeq(file, 1, n) \o [i \in 1..Len(file) - n |-> Junk]}
  /\ synced' = Len(file')
  /\ writer' = Closed
  /\ UNCHANGED <<failed, damages>>

(* What a cell may be changed to: zeroes, or a header with another number  *)
(* or length.                                                              *)
Changed(cell) ==
  {Junk} \cup
  IF "length" \in DOMAIN cell
  THEN {[cell EXCEPT !.sequence = @ + 1], [cell EXCEPT !.length = @ + 1]}
  ELSE {}

Damage ==
  /\ Mishap /\ damages' = damages + 1
  /\ \E i \in DOMAIN file : \E cell \in Changed(file[i]) : file' = [file EXCEPT ![i] = cell]
  /\ UNCHANGED <<synced, writer, failed>>

Next ==
  \/ \E kind \in Kinds :
       \/ \E durable \in BOOLEAN : AppendRecord(kind, durable)
       \/ AppendFails(kind)
  \/ \E s \in Sessions : Open(s)
  \/ Close \/ Crash \/ Damage

Spec == Init /\ [][Next]_vars

-------------------------------------------------------------------------------
(* Every variable keeps its type. *)
TypeOK ==
  /\ synced \in 0..Len(file)
  /\ writer \in [open : BOOLEAN, session : Sessions, next : Nat]
  /\ failed \in BOOLEAN /\ mishaps \in 0..MaxMishaps /\ damages \in 0..mishaps

Read == ParseValid(file)

Written(records) == FlattenSeq([i \in DOMAIN records |-> Encode(records[i])])

(* "Recovery reads journal records until the first incomplete, oversized,  *)
(* invalid, out-of-sequence, or checksum-failing record": what is read is  *)
(* exactly the longest run of whole records at the beginning of the file   *)
(* that are numbered one after the other.                                  *)
ParseIsExact ==
  /\ IsPrefix(Written(Read), file)
  /\ \A i \in 1..Len(Read) - 1 : Follows(Read[i], Read[i + 1])
  /\ \A s \in Sessions, n \in 0..MaxCells, k \in Kinds :
       LET more == [session |-> s, sequence |-> n, kind |-> k] IN
       k.size <= MaxRecordSize /\ (Read # <<>> => Follows(Last(Read), more)) =>
         ~ IsPrefix(Written(Append(Read, more)), file)

(* Every cell of the file belongs to a record that is read. *)
Whole == Len(Written(Read)) = Len(file)

(* As long as no append has failed, a record whose append returned is read *)
(* at once, after all the others: also the largest, also after a reopening *)
(* and a crash, unless they left something unreadable at the end.          *)
AppendIsRead ==
  [][\A kind \in Kinds, durable \in BOOLEAN :
       ~ failed /\ Whole /\ AppendRecord(kind, durable) =>
         Read' = Append(Read, NextRecord(kind))]_vars

Log == INSTANCE DurableLog WITH
  records <- Read, durable <- Len(ParseValid(SubSeq(file, 1, synced)))

(* The file keeps the promise of a log: whatever fails, crashes, is        *)
(* reopened or torn, a record that is read and was synced is read ever     *)
(* after, until a cell of the file is damaged; and what damage takes is an *)
(* end.  An append that nobody will read, behind torn bytes, is no step of *)
(* the log: when there is none, AppendIsRead says.                         *)
ImplementsDurableLog == Log!Spec

================================================================================
