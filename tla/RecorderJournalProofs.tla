------------------------- MODULE RecorderJournalProofs -------------------------
(* What a session's journal and files can be relied on for as long as no   *)
(* system call has failed, wherever crashes fall: the runs failed_append   *)
(* and failed_write show that one failed call is enough to break it.       *)
EXTENDS RecorderProofs, FiniteSetTheorems

-------------------------------------------------------------------------------
(* The records of a kind that are read, under the two things that happen   *)
(* to a journal: a record is appended, or a crash takes an unsynced end.   *)

Kept(kind) == {i \in 1..Len(journal) : Readable(journal, i) /\ journal[i].kind = kind}

(* The frontiers are what the FramesCommitted records that are read name.  *)
LEMMA FrontiersKept ==
  Frontiers(journal) = {0} \cup {journal[i].val : i \in Kept("FramesCommitted")}
<1>1. {k \in 1..Len(journal) : journal[k].kind = "FramesCommitted" /\ Readable(journal, k)}
        = Kept("FramesCommitted")
  BY DEF Kept
<1> QED BY <1>1 DEF Frontiers

(* An append changes nothing before it, nor whether that is read.          *)
LEMMA AppendedJournal ==
  ASSUME TypeOK, NEW record \in Records, journal' = Append(journal, record)
  PROVE  /\ Len(journal) \in Nat /\ Len(journal') = Len(journal) + 1
         /\ \A i \in 1..Len(journal) :
              journal'[i] = journal[i] /\ (Readable(journal', i) <=> Readable(journal, i))
         /\ journal'[Len(journal) + 1] = record
<1>1. /\ Len(journal) \in Nat /\ Len(journal') = Len(journal) + 1 /\ Len(journal') \in Nat
      /\ \A i \in 1..Len(journal) : journal'[i] = journal[i]
      /\ journal'[Len(journal) + 1] = record
  BY AppendProperties, LenProperties DEF TypeOK
<1>2. ASSUME NEW i \in 1..Len(journal)
      PROVE  Readable(journal', i) <=> Readable(journal, i)
  <2>1. Len(journal) <= Len(journal) /\ Len(journal) <= Len(journal')
    BY <1>1
  <2>2. Readable(journal', i) => Readable(journal, i)
    BY <1>1, <2>1, ReadablePrefix
  <2>3. Readable(journal, i) => Readable(journal', i)
    BY <1>1, <2>1, ReadablePrefix
  <2> QED BY <2>2, <2>3
<1> QED BY <1>1, <1>2

(* So it adds at most itself to the records of its kind that are read.     *)
LEMMA KeptAppend ==
  ASSUME TypeOK, NEW record \in Records, journal' = Append(journal, record), NEW kind
  PROVE  Kept(kind)' = Kept(kind) \cup
           {i \in {Len(journal) + 1} : Readable(journal', i) /\ record.kind = kind}
<1>1. \A i : i \in 1..Len(journal') <=> i \in 1..Len(journal) \/ i = Len(journal) + 1
  BY AppendedJournal
<1>2. ASSUME NEW i
      PROVE  i \in Kept(kind)' <=>
               \/ i \in Kept(kind)
               \/ i = Len(journal) + 1 /\ Readable(journal', i) /\ record.kind = kind
  <2>1. i \in Kept(kind)' <=> i \in 1..Len(journal') /\ Readable(journal', i) /\ journal'[i].kind = kind
    BY DEF Kept
  <2>2. i \in Kept(kind) <=> i \in 1..Len(journal) /\ Readable(journal, i) /\ journal[i].kind = kind
    BY DEF Kept
  <2>3. CASE i \in 1..Len(journal)
    <3>1. i # Len(journal) + 1
      BY <2>3, AppendedJournal
    <3> QED BY <1>1, <2>1, <2>2, <2>3, <3>1, AppendedJournal
  <2>4. CASE i = Len(journal) + 1
    <3>1. i \notin 1..Len(journal)
      BY <2>4, AppendedJournal
    <3> QED BY <1>1, <2>1, <2>2, <2>4, <3>1, AppendedJournal
  <2> QED BY <1>1, <2>1, <2>2, <2>3, <2>4
<1> QED BY <1>2

(* Only FramesWritten is appended without a sync: a crash may take it.     *)
SyncedTail == \A i \in (journalSynced + 1)..Len(journal) : journal[i].kind = "FramesWritten"

(* So a crash takes no other record.                                       *)
LEMMA KeptCrash ==
  ASSUME TypeOK, SyncedTail, Crash, NEW kind, kind \notin {"FramesWritten", "torn"}
  PROVE  /\ Kept(kind)' = Kept(kind)
         /\ \A i \in Kept(kind) : journal'[i] = journal[i]
<1>1. PICK k \in journalSynced..Len(journal), tail \in {<<>>, <<Torn>>} :
        journal' = SubSeq(journal, 1, k) \o tail
  BY DEF Crash
<1>2. /\ k \in Nat /\ k <= Len(journal) /\ Len(journal) \in Nat /\ Len(tail) \in {0, 1}
      /\ journalSynced \in Nat /\ journalSynced <= k
      /\ Len(journal') = k + Len(tail)
      /\ \A i \in 1..k : journal'[i] = journal[i]
      /\ \A i \in (k+1)..(k + Len(tail)) : journal'[i] = Torn
  <2>1. journalSynced \in Nat /\ Len(journal) \in Nat
    BY LenProperties DEF TypeOK
  <2>2. k \in Nat /\ k <= Len(journal) /\ journalSynced <= k
    BY <2>1
  <2> QED BY <1>1, <2>1, <2>2, CrashJournal
<1>3. /\ Len(journal') \in Nat /\ k <= Len(journal')
      /\ \A i \in 1..k : i \in 1..Len(journal) /\ i \in 1..Len(journal')
  BY <1>2
<1>4. ASSUME NEW i \in Kept(kind)
      PROVE  i \in 1..k /\ journal'[i] = journal[i] /\ i \in Kept(kind)'
  <2>1. i \in 1..Len(journal) /\ Readable(journal, i) /\ journal[i].kind = kind
    BY DEF Kept
  <2>2. i \notin (journalSynced + 1)..Len(journal)
    BY <2>1 DEF SyncedTail
  <2>3. i \in 1..k
    BY <1>2, <2>1, <2>2
  <2>4. Readable(journal', i)
    BY <1>2, <1>3, <2>1, <2>3, ReadablePrefix
  <2> QED BY <1>2, <1>3, <2>1, <2>3, <2>4 DEF Kept
<1>5. ASSUME NEW i \in Kept(kind)'
      PROVE  i \in Kept(kind)
  <2>1. i \in 1..Len(journal') /\ Readable(journal', i) /\ journal'[i].kind = kind
    BY DEF Kept
  <2>2. i \in 1..k \/ i \in (k+1)..(k + Len(tail))
    BY <1>2, <2>1
  <2>3. i \in 1..k
    BY <1>2, <2>1, <2>2 DEF Torn
  <2>4. Readable(journal, i)
    BY <1>2, <1>3, <2>1, <2>3, ReadablePrefix
  <2> QED BY <1>2, <1>3, <2>1, <2>3, <2>4 DEF Kept
<1> QED BY <1>4, <1>5

(* In particular it takes no frontier.                                     *)
LEMMA FrontiersCrash ==
  ASSUME TypeOK, SyncedTail, Crash
  PROVE  Frontiers(journal)' = Frontiers(journal)
<1>1. /\ Kept("FramesCommitted")' = Kept("FramesCommitted")
      /\ \A i \in Kept("FramesCommitted") : journal'[i] = journal[i]
  BY KeptCrash
<1>2. Frontiers(journal)' = {0} \cup {journal'[i].val : i \in Kept("FramesCommitted")'}
  <2>1. {k \in 1..Len(journal') : journal'[k].kind = "FramesCommitted" /\ Readable(journal', k)}
          = Kept("FramesCommitted")'
    BY DEF Kept
  <2> QED BY <2>1 DEF Frontiers
<1> QED BY <1>1, <1>2, FrontiersKept

-------------------------------------------------------------------------------
(* A live Recorder's journal is read to its end, and the greatest frontier *)
(* it names is the one in the manifest, except between the last sync and   *)
(* the append of FramesCommitted.  That is more than ClaimIsRecoverable,   *)
(* which speaks of the largest frontier shown and says nothing of the next *)
(* one to be shown.                                                        *)

LiveJournal ==
  /\ nextSequence = Len(journal)
  /\ \A i \in 1..Len(journal) : journal[i].seq = i - 1 /\ journal[i].kind # "torn"

FrontierInManifest ==
  /\ Label # "FramesCommitted" => manifest.committed \in Frontiers(journal)
  /\ \A f \in Frontiers(journal) : f <= manifest.committed
  /\ manifest.committed <= manifest.written

JournalInv ==
  /\ SyncedTail
  /\ life # "gone" => LiveJournal /\ FrontierInManifest
  /\ ClaimIsRecoverable
  /\ outcome = "NoCommittedFrames" => life = "gone" /\ claimed = 0

(* What a Recorder appends continues its numbering. *)
LEMMA LiveAppend ==
  ASSUME TypeOK, LiveJournal, Label \in RecorderRecords, NEW record \in NextRecord,
         journal' = Append(journal, record), nextSequence' = nextSequence + 1
  PROVE  /\ LiveJournal'
         /\ Readable(journal', Len(journal) + 1)
         /\ record \in Records /\ record.kind = Label /\ record.val = RecordValue
<1>1. Label \in RecordKinds /\ Label # "torn"
  BY DEF RecordKinds, RecorderRecords
<1>2. record \in Records /\ record.kind = Label /\ record.val = RecordValue
  BY <1>1, NextRecordType DEF NextRecord
<1>3. record.seq = nextSequence
  <2>1. NextSequence(record.seq)
    BY DEF NextRecord
  <2>2. Label # "RecoveryStarted"
    BY DEF RecorderRecords
  <2> QED BY <2>1, <2>2 DEF NextSequence
<1>4. LiveJournal'
  <2>1. nextSequence' = Len(journal')
    BY <1>2, AppendedJournal DEF LiveJournal
  <2>2. ASSUME NEW i \in 1..Len(journal')
        PROVE  journal'[i].seq = i - 1 /\ journal'[i].kind # "torn"
    <3>1. Len(journal) \in Nat /\ Len(journal') = Len(journal) + 1
          /\ journal'[Len(journal) + 1] = record
      BY <1>2, AppendedJournal
    <3>2. CASE i \in 1..Len(journal)
      BY <1>2, <3>2, AppendedJournal DEF LiveJournal
    <3>3. CASE i = Len(journal) + 1
      BY <1>1, <1>2, <1>3, <3>1, <3>3 DEF LiveJournal
    <3> QED BY <3>1, <3>2, <3>3
  <2> QED BY <2>1, <2>2 DEF LiveJournal
<1>5. Readable(journal', Len(journal) + 1)
  <2>1. Len(journal) \in Nat /\ Len(journal') = Len(journal) + 1
    BY <1>2, AppendedJournal
  <2>2. \A k \in 1..(Len(journal) + 1) : k \in 1..Len(journal')
    BY <2>1
  <2>3. ASSUME NEW k \in 1..((Len(journal) + 1) - 1)
        PROVE  journal'[k+1].seq = journal'[k].seq + 1
    <3>1. k \in 1..Len(journal') /\ k + 1 \in 1..Len(journal') /\ k \in Int
      BY <2>1
    <3>2. journal'[k].seq = k - 1 /\ journal'[k+1].seq = (k + 1) - 1
      BY <1>4, <3>1 DEF LiveJournal
    <3> QED BY <3>1, <3>2
  <2>4. Len(journal) + 1 \in 1..Len(journal')
    BY <2>1
  <2> QED BY <1>4, <2>2, <2>3, <2>4 DEF Readable, LiveJournal
<1> QED BY <1>2, <1>4, <1>5

(* The values of an extended set of records. *)
LEMMA ImageOfUnion ==
  ASSUME NEW A, NEW B, NEW old, NEW new, NEW value,
         \A i \in A : new[i].val = old[i].val,
         \A i \in B : new[i].val = value
  PROVE  {new[i].val : i \in A \cup B} = {old[i].val : i \in A} \cup {value : i \in B}
OBVIOUS

(* An append of a Recorder adds at most the frontier it names.             *)
LEMMA FrontiersAppend ==
  ASSUME TypeOK, NEW record \in Records, journal' = Append(journal, record)
  PROVE  /\ Frontiers(journal) \subseteq Frontiers(journal')
         /\ record.kind # "FramesCommitted" => Frontiers(journal') = Frontiers(journal)
         /\ Frontiers(journal') \subseteq Frontiers(journal) \cup {record.val}
         /\ record.kind = "FramesCommitted" /\ Readable(journal', Len(journal) + 1)
              => record.val \in Frontiers(journal')
<1> DEFINE K == Kept("FramesCommitted")
           N == {i \in {Len(journal) + 1} : Readable(journal', i) /\ record.kind = "FramesCommitted"}
<1>1. Kept("FramesCommitted")' = K \cup N
  BY KeptAppend
<1>2. \A i \in K : journal'[i] = journal[i]
  <2>1. \A i \in K : i \in 1..Len(journal)
    BY DEF Kept
  <2> QED BY <2>1, AppendedJournal
<1>3. Frontiers(journal') = {0} \cup {journal'[i].val : i \in Kept("FramesCommitted")'}
  <2>1. {k \in 1..Len(journal') : journal'[k].kind = "FramesCommitted" /\ Readable(journal', k)}
          = Kept("FramesCommitted")'
    BY DEF Kept
  <2> QED BY <2>1 DEF Frontiers
<1>4. Frontiers(journal) = {0} \cup {journal[i].val : i \in K}
  BY FrontiersKept
<1>5. \A i \in N : journal'[i] = record
  BY AppendedJournal
<1>6. Frontiers(journal') = Frontiers(journal) \cup {record.val : i \in N}
  <2>1. \A i \in K : journal'[i].val = journal[i].val
    BY <1>2
  <2>2. \A i \in N : journal'[i].val = record.val
    BY <1>5
  <2>3. {journal'[i].val : i \in K \cup N} = {journal[i].val : i \in K} \cup {record.val : i \in N}
    BY <2>1, <2>2, ImageOfUnion
  <2> QED BY <1>1, <1>3, <1>4, <2>3
<1> QED BY <1>6

(* JournalInv holds initially. *)
LEMMA JournalInit == Init => JournalInv
<1> SUFFICES ASSUME Init PROVE JournalInv
  OBVIOUS
<1>1. journal = <<>> /\ Len(journal) = 0 /\ journalSynced = 0
  BY DEF Init
<1>2. Frontiers(journal) = {0}
  BY <1>1 DEF Frontiers
<1>3. manifest.committed = 0 /\ manifest.written = 0
  BY DEF Init, NewManifest, NoManifest
<1>4. SyncedTail /\ LiveJournal /\ ClaimIsRecoverable
  BY <1>1, <1>2 DEF Init, SyncedTail, LiveJournal, ClaimIsRecoverable
<1> QED BY <1>2, <1>3, <1>4 DEF Init, JournalInv, FrontierInManifest

(* What no call does before its first system call. *)
LEMMA CallsLeave ==
  ASSUME TypeOK, Calls
  PROVE  /\ UNCHANGED <<audio, log, session, outputs, life, nextSequence, ioErrors>>
         /\ manifest' \in Manifests
         /\ manifest' = [manifest EXCEPT !.state = manifest'.state]
         /\ Label = "none" /\ call = Idle
         /\ \/ UNCHANGED call
            \/ \E op \in Operations : \E frames, goal, request : Begin(op, frames, goal, request)
<1> USE DEF disk, audio, log, memory
<1>1. ASSUME NEW to, ToState(to)
      PROVE  manifest' = [manifest EXCEPT !.state = manifest'.state]
  BY <1>1 DEF ToState, TypeOK, Manifests
<1>2. UNCHANGED manifest => manifest' = [manifest EXCEPT !.state = manifest'.state]
  BY DEF TypeOK, Manifests
<1>3. TypeOK'
  BY TypeCalls
<1>4. manifest' \in Manifests
  BY <1>3 DEF TypeOK
<1>5. call = Idle
  BY DEF Calls, Create, WriteFrames, RefuseWrite, Pause, Resume, AddMarker, RecordIncident,
     Finalize, Snapshot, BeginRecover, RefuseRecovery, Ready, RecoveryCanStart
<1>6. \/ UNCHANGED call
      \/ \E op \in Operations : \E frames, goal, request : Begin(op, frames, goal, request)
  BY OperationNames DEF Calls, Create, WriteFrames, RefuseWrite, Pause, Resume, AddMarker,
     RecordIncident, Finalize, Snapshot, BeginRecover, RefuseRecovery
<1>7. UNCHANGED <<audio, log, session, outputs, life, nextSequence, ioErrors>>
  BY DEF Calls, Create, WriteFrames, RefuseWrite, Pause, Resume, AddMarker, RecordIncident,
     Finalize, Snapshot, BeginRecover, RefuseRecovery
<1>8. manifest' = [manifest EXCEPT !.state = manifest'.state]
  BY <1>1, <1>2 DEF Calls, Create, WriteFrames, RefuseWrite, Pause, Resume, AddMarker,
     RecordIncident, Finalize, Snapshot, BeginRecover, RefuseRecovery
<1> QED BY <1>4, <1>5, <1>6, <1>7, <1>8, LabelIdle

(* Every frontier is held by every file. *)
LEMMA FrontierHeld ==
  ASSUME TypeOK, DurableInv, NEW f \in Frontiers(journal), NEW c \in Channel
  PROVE  f <= synced[c] /\ f <= length[c] /\ f \in Nat /\ synced[c] \in Nat /\ length[c] \in Nat
<1>1. f = 0 \/ \E i \in 1..Len(journal) : journal[i].kind = "FramesCommitted" /\ journal[i].val = f
  BY DEF Frontiers
<1>2. synced[c] \in Nat /\ length[c] \in Nat /\ synced[c] <= length[c] /\ f \in Nat
  BY FrontierType DEF DurableInv, TypeOK
<1>3. f <= synced[c]
  BY <1>1, <1>2 DEF DurableInv, CommittedIsDurable
<1> QED BY <1>2, <1>3

(* Beginning or refusing a call keeps JournalInv: what a snapshot shows is *)
(* the frontier, and a recovery is refused only when there is none.        *)
LEMMA JournalCalls ==
  ASSUME RecoverLive = FALSE, TypeOK, DurableInv, JournalInv, Calls
  PROVE  JournalInv'
<1>1. UNCHANGED <<journal, journalSynced, nextSequence, life>>
  BY CallsLeave DEF log
<1>2. manifest'.committed = manifest.committed /\ manifest'.written = manifest.written
  BY CallsLeave DEF TypeOK, Manifests
<1>3. Label = "none" /\ Label' # "FramesCommitted"
  <2>1. CASE UNCHANGED call
    BY <2>1, CallsLeave DEF Label
  <2> QED BY <2>1, CallsLeave, Beginning
<1>4. SyncedTail' /\ (life' # "gone" => LiveJournal')
  BY <1>1 DEF JournalInv, SyncedTail, LiveJournal
<1>5. life' # "gone" => FrontierInManifest'
  BY <1>1, <1>2, <1>3 DEF JournalInv, FrontierInManifest
<1>6. claimed \in Nat /\ \A f \in Frontiers(journal) : f \in Nat
  BY FrontierType DEF TypeOK
<1>7. CASE Snapshot
  <2>1. /\ claimed' = manifest.committed /\ outcome' = outcome /\ life = "live"
        /\ manifest.committed \in Frontiers(journal) /\ manifest.committed \in Nat
    BY <1>3, <1>7 DEF Snapshot, JournalInv, FrontierInManifest, TypeOK, Manifests
  <2>2. ClaimIsRecoverable'
    BY <1>1, <2>1 DEF ClaimIsRecoverable
  <2> QED BY <1>4, <1>5, <2>1, <2>2 DEF JournalInv
<1>8. CASE RefuseRecovery
  <2>1. life = "gone" /\ UNCHANGED claimed /\ ClaimIsRecoverable'
    BY <1>1, <1>8 DEF RefuseRecovery, RecoveryCanStart, ClaimIsRecoverable, JournalInv
  <2>2. ASSUME outcome' = "NoCommittedFrames"
        PROVE  claimed = 0
    <3>1. IsFrontier(journal, 0) \/ 0 \in Lengths
      BY <1>8, <2>2 DEF RefuseRecovery
    <3>2. \A f \in Frontiers(journal) : f <= 0
      <4>1. CASE IsFrontier(journal, 0)
        BY <4>1 DEF IsFrontier, IsGreatest
      <4>2. CASE 0 \in Lengths
        <5>1. PICK c \in Channel : length[c] = 0
          BY <4>2 DEF Lengths
        <5> QED BY <5>1, FrontierHeld
      <4> QED BY <3>1, <4>1, <4>2
    <3> QED BY <1>6, <3>2 DEF JournalInv, ClaimIsRecoverable
  <2> QED BY <1>1, <1>4, <1>5, <2>1, <2>2 DEF JournalInv
<1>9. CASE UNCHANGED <<claimed, outcome>>
  <2>1. ClaimIsRecoverable'
    BY <1>1, <1>9 DEF JournalInv, ClaimIsRecoverable
  <2> QED BY <1>1, <1>4, <1>5, <1>9, <2>1 DEF JournalInv
<1>10. Snapshot \/ RefuseRecovery \/ UNCHANGED <<claimed, outcome>>
  BY DEF Calls, Create, WriteFrames, RefuseWrite, Pause, Resume, AddMarker, RecordIncident,
     Finalize, BeginRecover
<1> QED BY <1>7, <1>8, <1>9, <1>10

(* A step that leaves the journal and the frontier in the manifest alone.  *)
LEMMA JournalQuiet ==
  ASSUME TypeOK, JournalInv,
         UNCHANGED <<journal, journalSynced, claimed>>,
         outcome' = outcome \/ outcome' # "NoCommittedFrames",
         life = "gone" => life' = "gone",
         life' # "gone" =>
           /\ UNCHANGED nextSequence
           /\ manifest'.committed = manifest.committed
           /\ manifest'.committed <= manifest'.written
           /\ Label # "FramesCommitted" /\ Label' # "FramesCommitted"
  PROVE  JournalInv'
<1>1. Frontiers(journal)' = Frontiers(journal)
  OBVIOUS
<1>2. SyncedTail' /\ ClaimIsRecoverable'
  BY <1>1 DEF JournalInv, SyncedTail, ClaimIsRecoverable
<1>3. life' # "gone" => LiveJournal' /\ FrontierInManifest'
  BY <1>1 DEF JournalInv, LiveJournal, FrontierInManifest
<1> QED BY <1>2, <1>3 DEF JournalInv

(* Synced files are committed by the very next call. *)
LEMMA SyncThenCommit ==
  ASSUME NEW op \in Operations, NEW i \in 1..Len(Program[op]), Program[op][i] = "sync"
  PROVE  i < Len(Program[op]) /\ Program[op][i + 1] = "FramesCommitted"
<1>1. CASE op = "write"
  BY <1>1, SMTT(30) DEF Program
<1>2. CASE op = "stop"
  BY <1>2, SMTT(30) DEF Program
<1>4. CASE op = "gap"
  BY <1>4, SMTT(30) DEF Program
<1>3. CASE op = "create"
  BY <1>3, SMTT(30) DEF Program
<1>5. CASE op = "pause"
  BY <1>5, SMTT(30) DEF Program
<1>6. CASE op = "resume"
  BY <1>6, SMTT(30) DEF Program
<1>7. CASE op = "mark"
  BY <1>7, SMTT(30) DEF Program
<1>8. CASE op = "incident"
  BY <1>8, SMTT(30) DEF Program
<1>9. CASE op = "recover"
  BY <1>9, SMTT(30) DEF Program
<1> QED BY <1>1, <1>2, <1>3, <1>4, <1>5, <1>6, <1>7, <1>8, <1>9, OperationNames

(* Where a Recorder is left by one of its calls. *)
LEMMA RecorderSteps ==
  ASSUME TypeOK, RecoveryInv, Label # "none",
         Label \notin RecoveryRecords \cup {"output", "recovered"},
         Proceed \/ NextChannel \/ Abort
  PROVE  /\ life # "gone" /\ call.op # "recover" /\ call # Idle
         /\ Label' = "FramesCommitted" => Label \in {"sync", "FramesCommitted"}
<1>1. CallTypeOK /\ call # Idle
  BY LabelType DEF TypeOK
<1>2. life # "gone" /\ call.op # "recover"
  BY <1>1, RecoveryLabels DEF RecoveryInv
<1>3. CASE Proceed
  BY <1>1, <1>2, <1>3, Proceeding
<1>4. CASE Abort
  BY <1>1, <1>2, <1>4, Aborting
<1>5. CASE call' = [call EXCEPT !.ch = @ + 1]
  BY <1>1, <1>2, <1>5, Looping
<1> QED BY <1>1, <1>2, <1>3, <1>4, <1>5 DEF NextChannel

(* An append of a live Recorder keeps JournalInv: at FramesCommitted the   *)
(* frontier of the manifest enters the journal.                            *)
LEMMA JournalAppendRecord ==
  ASSUME TypeOK, RecoveryInv, JournalInv, AppendRecord
  PROVE  JournalInv'
<1>1. /\ Label \in RecorderRecords /\ Proceed /\ UNCHANGED <<outcome, claimed>>
      /\ nextSequence' = nextSequence + 1
      /\ journalSynced' = IF Durable(Label) THEN Len(journal') ELSE journalSynced
  BY DEF AppendRecord
<1>2. PICK record \in NextRecord : journal' = Append(journal, record)
  BY DEF AppendRecord
<1>3. Label # "none" /\ Label \notin RecoveryRecords \cup {"output", "recovered"} /\ Label # "sync"
      /\ Label \in RecordKinds
  BY <1>1 DEF RecorderRecords, RecoveryRecords, RecordKinds
<1>4. life # "gone" /\ Label' # "FramesCommitted" /\ LiveJournal /\ FrontierInManifest
  BY <1>1, <1>3, RecorderSteps, Proceeding DEF TypeOK, JournalInv
<1>5. /\ LiveJournal' /\ Readable(journal', Len(journal) + 1)
      /\ record \in Records /\ record.kind = Label /\ record.val = RecordValue
  BY <1>1, <1>2, <1>4, LiveAppend
<1>6. manifest'.committed = manifest.committed /\ manifest'.written = manifest.written
  BY <1>3, AfterAppendType DEF AppendRecord
<1>7. /\ Frontiers(journal) \subseteq Frontiers(journal')
      /\ Label # "FramesCommitted" => Frontiers(journal') = Frontiers(journal)
      /\ Frontiers(journal') \subseteq Frontiers(journal) \cup {record.val}
      /\ Label = "FramesCommitted" => record.val \in Frontiers(journal')
  BY <1>2, <1>5, FrontiersAppend
<1>8. Label = "FramesCommitted" => record.val = manifest.committed
  BY <1>5 DEF RecordValue
<1>9. manifest.committed \in Nat
  BY DEF TypeOK, Manifests
<1>10. FrontierInManifest'
  <2>1. manifest'.committed \in Frontiers(journal')
    BY <1>4, <1>6, <1>7, <1>8 DEF FrontierInManifest
  <2>2. \A f \in Frontiers(journal') : f <= manifest'.committed
    BY <1>4, <1>6, <1>7, <1>8, <1>9 DEF FrontierInManifest
  <2> QED BY <1>4, <1>6, <2>1, <2>2 DEF FrontierInManifest
<1>11. SyncedTail'
  <2>1. /\ Len(journal) \in Nat /\ Len(journal') = Len(journal) + 1
        /\ \A i \in 1..Len(journal) : journal'[i] = journal[i]
        /\ journal'[Len(journal) + 1] = record /\ journalSynced \in 0..Len(journal)
    BY <1>2, <1>5, AppendedJournal DEF TypeOK
  <2>2. CASE Label = "FramesWritten"
    <3>1. journalSynced' = journalSynced
      BY <1>1, <2>2 DEF Durable
    <3> SUFFICES ASSUME NEW i \in (journalSynced + 1)..Len(journal')
                 PROVE  journal'[i].kind = "FramesWritten"
      BY <3>1 DEF SyncedTail
    <3>2. i \in (journalSynced + 1)..Len(journal) \/ i = Len(journal) + 1
      BY <2>1
    <3>3. CASE i \in (journalSynced + 1)..Len(journal)
      BY <2>1, <3>3 DEF JournalInv, SyncedTail
    <3>4. CASE i = Len(journal) + 1
      BY <1>5, <2>1, <2>2, <3>4
    <3> QED BY <3>2, <3>3, <3>4
  <2>3. CASE Label # "FramesWritten"
    <3>1. journalSynced' = Len(journal')
      BY <1>1, <2>3 DEF Durable
    <3>2. (Len(journal') + 1)..Len(journal') = {}
      BY <2>1
    <3> QED BY <3>1, <3>2 DEF SyncedTail
  <2> QED BY <2>2, <2>3
<1>12. ClaimIsRecoverable'
  BY <1>1, <1>7 DEF JournalInv, ClaimIsRecoverable
<1>13. outcome' # "NoCommittedFrames"
  BY <1>1, <1>4 DEF JournalInv
<1> QED BY <1>5, <1>10, <1>11, <1>12, <1>13 DEF JournalInv

(* So does an append of a recovery, which finds nobody alive.              *)
LEMMA JournalAppendRecovery ==
  ASSUME TypeOK, RecoveryInv, JournalInv, AppendRecovery
  PROVE  JournalInv'
<1>1. /\ Label \in RecoveryRecords /\ Proceed /\ UNCHANGED claimed
      /\ journalSynced' = Len(journal')
      /\ outcome' = outcome \/ outcome' # "NoCommittedFrames"
  BY DEF AppendRecovery, RecoveredStatus
<1>2. PICK record \in NextRecord : journal' = Append(journal, record)
  BY DEF AppendRecovery
<1>3. Label # "none" /\ Label \in RecordKinds /\ CallTypeOK
  BY <1>1 DEF RecoveryRecords, RecordKinds, TypeOK
<1>4. life = "gone" /\ life' = "gone"
  BY <1>1, <1>3, RecoveryLabels, CallOwner DEF RecoveryInv
<1>5. record \in Records
  BY <1>2, <1>3, NextRecordType
<1>6. Frontiers(journal) \subseteq Frontiers(journal')
  BY <1>2, <1>5, FrontiersAppend
<1>7. SyncedTail'
  <2>1. Len(journal') \in Nat
    BY <1>2, <1>5, AppendedJournal
  <2>2. (Len(journal') + 1)..Len(journal') = {}
    BY <2>1
  <2> QED BY <1>1, <2>2 DEF SyncedTail
<1>8. ClaimIsRecoverable'
  BY <1>1, <1>6 DEF JournalInv, ClaimIsRecoverable
<1> QED BY <1>1, <1>4, <1>7, <1>8 DEF JournalInv

(* Every system call that succeeds keeps JournalInv. *)
LEMMA JournalSystemCalls ==
  ASSUME TypeOK, RecoveryInv, JournalInv, SystemCalls
  PROVE  JournalInv'
<1> USE DEF log
<1>0. CallTypeOK /\ manifest.committed \in Nat /\ manifest.written \in Nat
  BY DEF TypeOK, Manifests
<1>1. CASE WriteAudio
  <2>1. /\ Label = "audio" /\ NextChannel
        /\ UNCHANGED <<journal, journalSynced, nextSequence, outcome, claimed>>
    BY <1>1 DEF WriteAudio
  <2>2. life # "gone" /\ Label' # "FramesCommitted" /\ call.frames \in Nat
    BY <1>0, <2>1, RecorderSteps, LabelType DEF RecoveryRecords
  <2>3. manifest'.committed = manifest.committed /\ manifest'.written \in {manifest.written, manifest.written + call.frames}
    BY <1>1 DEF WriteAudio, TypeOK, Manifests
  <2>4. manifest'.committed <= manifest'.written
    BY <1>0, <2>2, <2>3 DEF JournalInv, FrontierInManifest
  <2> QED BY <2>1, <2>2, <2>3, <2>4, JournalQuiet
<1>2. CASE SyncAudio
  <2>1. /\ Label = "sync" /\ NextChannel
        /\ UNCHANGED <<journal, journalSynced, nextSequence, outcome, claimed>>
        /\ manifest' = IF LastChannel THEN [manifest EXCEPT !.committed = manifest.written]
                       ELSE manifest
    BY <1>2 DEF SyncAudio
  <2>2. life # "gone"
    BY <2>1, RecorderSteps DEF RecoveryRecords
  <2>3. CASE ~ LastChannel
    <3>1. Label' = "sync"
      BY <1>0, <2>1, <2>3, Looping DEF NextChannel
    <3> QED BY <1>0, <2>1, <2>2, <2>3, <3>1, JournalQuiet DEF JournalInv, FrontierInManifest
  <2>4. CASE LastChannel
    <3>1. Proceed
      BY <2>1, <2>4 DEF NextChannel
    <3>2. Label' = "FramesCommitted"
      <4>1. /\ call.step < Len(Program[call.op])
            /\ Program[call.op][call.step + 1] = "FramesCommitted"
        BY <1>0, <2>1, LabelType, SyncThenCommit
      <4>2. call' = [call EXCEPT !.step = @ + 1, !.ch = 1]
        BY <3>1, <4>1 DEF Proceed
      <4>3. call' # Idle
        BY <1>0, <2>1, <4>2, LabelType, OperationNames DEF CallTypeOK, Idle
      <4> QED BY <1>0, <2>1, <3>1, <4>1, <4>3, Proceeding
    <3>3. manifest'.committed = manifest.written /\ manifest'.written = manifest.written
      BY <2>1, <2>4 DEF TypeOK, Manifests
    <3>4. \A f \in Frontiers(journal) : f <= manifest.written
      BY <1>0, <2>2, FrontierType DEF JournalInv, FrontierInManifest
    <3>5. FrontierInManifest'
      BY <1>0, <2>1, <3>2, <3>3, <3>4 DEF FrontierInManifest
    <3>6. SyncedTail' /\ LiveJournal' /\ ClaimIsRecoverable' /\ outcome' # "NoCommittedFrames"
      BY <2>1, <2>2 DEF JournalInv, SyncedTail, LiveJournal, ClaimIsRecoverable
    <3> QED BY <3>5, <3>6 DEF JournalInv
  <2> QED BY <2>3, <2>4
<1>3. CASE PersistManifest \/ RenameFinal
  <2>1. /\ Label \in {"manifest", "rename"}
        /\ Proceed \/ NextChannel
        /\ UNCHANGED <<journal, journalSynced, nextSequence, outcome, claimed>>
        /\ manifest'.committed = manifest.committed /\ manifest'.written = manifest.written
    BY <1>3 DEF PersistManifest, RenameFinal, TypeOK, Manifests
  <2>2. life # "gone" /\ Label' # "FramesCommitted"
    BY <1>0, <2>1, RecorderSteps DEF RecoveryRecords
  <2> QED BY <2>1, <2>2, JournalQuiet DEF JournalInv, FrontierInManifest
<1>4. CASE ValidationFails
  <2>1. /\ Label = "rename" /\ Abort
        /\ UNCHANGED <<journal, journalSynced, nextSequence, outcome, claimed, manifest>>
    BY <1>4 DEF ValidationFails, disk
  <2>2. life # "gone" /\ Label' = "none"
    BY <2>1, RecorderSteps, Aborting DEF RecoveryRecords
  <2> QED BY <2>1, <2>2, JournalQuiet DEF JournalInv, FrontierInManifest
<1>5. CASE RecoverOutput \/ OutputExists \/ PersistRecovered
  <2>1. /\ Label \in {"output", "recovered"}
        /\ Proceed \/ NextChannel \/ Abort
        /\ UNCHANGED <<journal, journalSynced, claimed>>
        /\ outcome' = outcome \/ outcome' # "NoCommittedFrames"
    BY <1>5 DEF RecoverOutput, OutputExists, PersistRecovered, disk
  <2>2. life' = "gone"
    BY <1>0, <2>1, RecoveryLabels, CallOwner DEF RecoveryInv
  <2> QED BY <2>1, <2>2, JournalQuiet
<1> QED BY <1>1, <1>2, <1>3, <1>4, <1>5, JournalAppendRecord, JournalAppendRecovery DEF SystemCalls

(* A crash keeps JournalInv: it takes no frontier, and nobody stays alive. *)
LEMMA JournalCrash ==
  ASSUME TypeOK, JournalInv, Crash
  PROVE  JournalInv'
<1>1. /\ life' = "gone" /\ journalSynced' = Len(journal') /\ UNCHANGED <<outcome, claimed>>
      /\ Frontiers(journal)' = Frontiers(journal)
  BY FrontiersCrash DEF Crash, JournalInv
<1>2. TypeOK'
  BY TypeCrash
<1>3. (Len(journal') + 1)..Len(journal') = {}
  <2>1. Len(journal') \in Nat
    BY <1>2, LenProperties DEF TypeOK
  <2> QED BY <2>1
<1>4. SyncedTail' /\ ClaimIsRecoverable'
  BY <1>1, <1>3 DEF JournalInv, SyncedTail, ClaimIsRecoverable
<1> QED BY <1>1, <1>4 DEF JournalInv

(* A step before which, and in which, no call failed. *)
LEMMA NoErrorStep ==
  ASSUME TypeOK, [Next]_vars, ioErrors' = 0
  PROVE  ioErrors = 0 /\ (UNCHANGED vars \/ Calls \/ SystemCalls \/ Crash)
<1>1. ioErrors \in Nat /\ ioErrors + 1 # 0
  BY DEF TypeOK
<1>2. ~ IoError
  BY <1>1 DEF IoError
<1>3. CASE UNCHANGED vars
  BY <1>3 DEF vars
<1>4. CASE Calls
  BY <1>4, CallsLeave
<1>5. CASE SystemCalls
  BY <1>5 DEF SystemCalls, WriteAudio, SyncAudio, AppendRecord, PersistManifest, RenameFinal,
     ValidationFails, RecoverOutput, OutputExists, PersistRecovered, AppendRecovery
<1>6. CASE Crash
  BY <1>6 DEF Crash
<1> QED BY <1>2, <1>3, <1>4, <1>5, <1>6 DEF Next

(* JournalInv is inductive for as long as no call fails. *)
LEMMA JournalNext ==
  ASSUME RecoverLive = FALSE, TypeOK, DurableInv, RecoveryInv,
         ioErrors = 0 => JournalInv, [Next]_vars, ioErrors' = 0
  PROVE  JournalInv'
<1>1. ioErrors = 0 /\ (UNCHANGED vars \/ Calls \/ SystemCalls \/ Crash)
  BY NoErrorStep
<1>2. CASE UNCHANGED vars
  BY <1>1, <1>2 DEF JournalInv, SyncedTail, LiveJournal, FrontierInManifest, ClaimIsRecoverable,
     Label, vars, disk, log, memory
<1> QED BY <1>1, <1>2, JournalCalls, JournalSystemCalls, JournalCrash

(* The invariants together, for the theorems that need them.               *)
QuietInv == TypeOK /\ DurableInv /\ RecoveryInv /\ (ioErrors = 0 => JournalInv)

LEMMA QuietAlways ==
  ASSUME RecoverLive = FALSE
  PROVE  Spec => []QuietInv
<1>1. Init => QuietInv
  BY TypeInit, DurableInit, RecoveryInit, JournalInit DEF QuietInv
<1>2. QuietInv /\ [Next]_vars => QuietInv'
  BY TypeNext, DurableNext, RecoveryNext, JournalNext DEF QuietInv
<1> QED BY <1>1, <1>2, PTL DEF Spec

(* What a client has been shown as committed stays in the readable part of *)
(* the journal, as long as no system call fails and sessions are recovered *)
(* only once their Recorder is gone.                                       *)
THEOREM ClaimsAreRecoverable ==
  ASSUME RecoverLive = FALSE
  PROVE  Spec => [](ioErrors = 0 => ClaimIsRecoverable)
<1>1. QuietInv => (ioErrors = 0 => ClaimIsRecoverable)
  BY DEF QuietInv, JournalInv
<1> QED BY <1>1, QuietAlways, PTL

(* And no recovery answers NoCommittedFrames to one who has been shown a   *)
(* committed frame.                                                        *)
THEOREM RefusalsLoseNothing ==
  ASSUME RecoverLive = FALSE
  PROVE  Spec => [](ioErrors = 0 => RefusalLosesNothing)
<1>1. QuietInv => (ioErrors = 0 => RefusalLosesNothing)
  BY DEF QuietInv, JournalInv, RefusalLosesNothing
<1> QED BY <1>1, QuietAlways, PTL

-------------------------------------------------------------------------------
(* The channels stay synchronized.  As long as no write has failed, every  *)
(* channel holds the frames counted in their place, and the channels of    *)
(* the batch being written hold that as well.  So does every frontier the  *)
(* journal names, also where it cannot be read: nothing more is needed of  *)
(* the journal, and live sessions may be recovered.                        *)

Ahead(c) == IF Label = "audio" /\ c < call.ch THEN call.frames ELSE 0

Placed ==
  \A i \in 1..Len(journal) :
    journal[i].kind = "FramesCommitted" => \A c \in Channel : journal[i].val <= aligned[c]

FilesInv ==
  /\ life = "gone" => call = Idle \/ call.op = "recover"
  /\ life # "gone" =>
       \A c \in Channel : aligned[c] = manifest.written /\ length[c] = manifest.written + Ahead(c)
  /\ Placed

(* What FramesCommitted names is a number. *)
LEMMA FrontierNumber ==
  ASSUME TypeOK, NEW i \in 1..Len(journal), journal[i].kind = "FramesCommitted"
  PROVE  journal[i].val \in Nat
<1>1. journal \in Seq(Records)
  BY DEF TypeOK
<1>2. journal[i] \in Records
  BY <1>1, ElementOfSeq
<1> QED BY <1>2 DEF Records

(* FilesInv holds initially. *)
LEMMA FilesInit == Init => FilesInv
BY LabelIdle DEF Init, FilesInv, Placed, Ahead, NewManifest, NoManifest

(* It states that the channels are synchronized. *)
LEMMA FilesInvSuffices ==
  ASSUME TypeOK, FilesInv
  PROVE  CommittedIsAligned
<1> SUFFICES ASSUME NEW f \in Frontiers(journal), NEW c \in Channel PROVE f <= aligned[c]
  BY DEF CommittedIsAligned
<1>1. f = 0 \/ \E i \in 1..Len(journal) : journal[i].kind = "FramesCommitted" /\ journal[i].val = f
  BY DEF Frontiers
<1>2. aligned[c] \in Nat
  BY DEF TypeOK
<1> QED BY <1>1, <1>2 DEF FilesInv, Placed

(* A step that writes no audio and appends no frontier. *)
LEMMA FilesQuiet ==
  ASSUME TypeOK, FilesInv, UNCHANGED <<length, aligned>>,
         \/ UNCHANGED journal
         \/ \E record \in Records :
              journal' = Append(journal, record) /\ record.kind # "FramesCommitted",
         life' = "gone" => call' = Idle \/ call'.op = "recover",
         life' # "gone" =>
           /\ life # "gone" /\ manifest'.written = manifest.written
           /\ Label # "audio"
           /\ Label' = "audio" => call'.ch = 1
  PROVE  FilesInv'
<1>1. Placed'
  <2>1. CASE UNCHANGED journal
    BY <2>1 DEF FilesInv, Placed
  <2>2. ASSUME NEW record \in Records, journal' = Append(journal, record),
               record.kind # "FramesCommitted"
        PROVE  Placed'
    <3>1. /\ Len(journal) \in Nat /\ Len(journal') = Len(journal) + 1
          /\ \A i \in 1..Len(journal) : journal'[i] = journal[i]
          /\ journal'[Len(journal) + 1] = record
      BY <2>2, AppendedJournal
    <3>2. \A i \in 1..Len(journal') : i \in 1..Len(journal) \/ i = Len(journal) + 1
      BY <3>1
    <3> QED BY <2>2, <3>1, <3>2 DEF FilesInv, Placed
  <2> QED BY <2>1, <2>2
<1>2. ASSUME NEW c \in Channel, life' # "gone"
      PROVE  aligned'[c] = manifest'.written /\ length'[c] = manifest'.written + Ahead(c)'
  <2>1. Ahead(c) = 0
    BY <1>2 DEF Ahead
  <2>2. ~ (c < 1)
    BY DEF Channel
  <2>3. Ahead(c)' = 0
    BY <1>2, <2>2 DEF Ahead
  <2> QED BY <1>2, <2>1, <2>3 DEF FilesInv
<1> QED BY <1>1, <1>2 DEF FilesInv

(* Who is at work: a Recorder, or a recovery, which writes no audio. *)
LEMMA FilesWorker ==
  ASSUME TypeOK, FilesInv, Label # "none", Proceed \/ NextChannel \/ Abort
  PROVE  /\ Label \notin RecoveryRecords \cup {"output", "recovered"} => life # "gone"
         /\ life' = "gone" => call' = Idle \/ call'.op = "recover"
         /\ Label # "audio" /\ Label' = "audio" => call'.ch = 1
         /\ life = "gone" => life' = "gone"
<1>1. CallTypeOK /\ call # Idle
  BY LabelType DEF TypeOK
<1>2. (call' = Idle \/ (call'.op = call.op /\ life' = life)) /\ (call.op = "recover" => life' = life)
  BY <1>1, CallOwner
<1>3. Label # "audio" /\ Label' = "audio" => call'.ch = 1
  BY <1>1, Proceeding, Looping, Aborting DEF NextChannel
<1> QED BY <1>1, <1>2, <1>3, RecoveryLabels DEF FilesInv

(* Every system call that succeeds keeps FilesInv. *)
LEMMA FilesSystemCalls ==
  ASSUME TypeOK, DurableInv, FilesInv, SystemCalls
  PROVE  FilesInv'
<1> USE DEF log, audio
<1>0. CallTypeOK /\ manifest.committed \in Nat /\ manifest.written \in Nat
  BY DEF TypeOK, Manifests
<1>1. CASE WriteAudio
  <2>1. /\ Label = "audio" /\ NextChannel /\ UNCHANGED journal
        /\ length' = [length EXCEPT ![call.ch] = @ + call.frames]
    BY <1>1 DEF WriteAudio
  <2>2. /\ life # "gone" /\ call.ch \in Channel /\ call.frames \in Nat
        /\ life' = "gone" => call' = Idle \/ call'.op = "recover"
    BY <1>0, <2>1, FilesWorker, LabelType DEF RecoveryRecords
  <2>3. \A c \in Channel : /\ length[c] = manifest.written + Ahead(c) /\ aligned[c] = manifest.written
                           /\ c \in Nat /\ c <= NumChannels
    BY <2>2, ChannelsAssumption DEF FilesInv, Channel
  <2>4. \A c \in Channel : length'[c] = IF c < call.ch \/ c = call.ch
                                         THEN manifest.written + call.frames
                                         ELSE manifest.written
    <3> SUFFICES ASSUME NEW c \in Channel
                 PROVE  length'[c] = IF c < call.ch \/ c = call.ch
                                     THEN manifest.written + call.frames ELSE manifest.written
      OBVIOUS
    <3>1. Ahead(c) = IF c < call.ch THEN call.frames ELSE 0
      BY <2>1 DEF Ahead
    <3>2. length'[c] = IF c = call.ch THEN length[c] + call.frames ELSE length[c]
      BY <2>1, <2>2 DEF TypeOK
    <3>3. call.ch \in Nat
      BY <2>2, <2>3
    <3> QED BY <1>0, <2>2, <2>3, <3>1, <3>2, <3>3
  <2>5. CASE LastChannel
    <3>1. /\ manifest' = [manifest EXCEPT !.written = @ + call.frames]
          /\ aligned' = [c \in Channel |->
               IF aligned[c] = manifest.written /\ length'[c] = manifest'.written
               THEN manifest'.written ELSE aligned[c]]
          /\ Proceed
      BY <1>1, <2>5 DEF WriteAudio, NextChannel
    <3>2. manifest'.written = manifest.written + call.frames
      BY <3>1 DEF TypeOK, Manifests
    <3>3. Label' # "audio"
      BY <1>0, <2>1, <3>1, Proceeding
    <3>4. \A c \in Channel : length'[c] = manifest'.written /\ aligned'[c] = manifest'.written
      <4> SUFFICES ASSUME NEW c \in Channel
                   PROVE  length'[c] = manifest'.written /\ aligned'[c] = manifest'.written
        OBVIOUS
      <4>1. c < call.ch \/ c = call.ch
        BY <2>3, <2>5, ChannelsAssumption DEF LastChannel
      <4>2. length'[c] = manifest'.written
        BY <2>4, <3>2, <4>1
      <4>3. aligned[c] = manifest.written
        BY <2>3
      <4> QED BY <3>1, <4>2, <4>3
    <3>5. \A c \in Channel : Ahead(c)' = 0
      BY <3>3 DEF Ahead
    <3>6. Placed'
      <4> SUFFICES ASSUME NEW i \in 1..Len(journal), journal[i].kind = "FramesCommitted",
                          NEW c \in Channel
                   PROVE  journal[i].val <= aligned'[c]
        BY <2>1 DEF Placed
      <4>1. journal[i].val <= manifest.written /\ journal[i].val \in Nat
        BY <2>3, FrontierNumber DEF FilesInv, Placed
      <4> QED BY <1>0, <2>2, <3>2, <3>4, <4>1
    <3>7. \A c \in Channel : length'[c] = manifest'.written + Ahead(c)'
      BY <1>0, <2>2, <3>2, <3>4, <3>5
    <3> QED BY <2>2, <3>4, <3>6, <3>7 DEF FilesInv
  <2>6. CASE ~ LastChannel
    <3>1. UNCHANGED <<manifest, aligned>> /\ call' = [call EXCEPT !.ch = @ + 1]
      BY <1>1, <2>6 DEF WriteAudio, NextChannel
    <3>2. Label' = "audio" /\ call'.ch = call.ch + 1 /\ call'.frames = call.frames /\ call.ch \in Nat
      BY <1>0, <2>1, <3>1, Looping
    <3>3. \A c \in Channel : c < call'.ch <=> c < call.ch \/ c = call.ch
      BY <2>3, <3>2
    <3>4. \A c \in Channel : length'[c] = manifest'.written + Ahead(c)'
      BY <1>0, <2>2, <2>4, <3>1, <3>2, <3>3 DEF Ahead
    <3>5. Placed'
      BY <2>1, <3>1 DEF FilesInv, Placed
    <3> QED BY <2>2, <2>3, <3>1, <3>4, <3>5 DEF FilesInv
  <2> QED BY <2>5, <2>6
<1>2. CASE SyncAudio \/ PersistManifest \/ RenameFinal \/ ValidationFails
  <2>1. /\ Label \in {"sync", "manifest", "rename"}
        /\ Proceed \/ NextChannel \/ Abort
        /\ UNCHANGED <<journal, length, aligned>> /\ manifest'.written = manifest.written
    BY <1>2 DEF SyncAudio, PersistManifest, RenameFinal, ValidationFails, TypeOK, Manifests, disk
  <2>2. /\ life # "gone" /\ Label # "audio"
        /\ life' = "gone" => call' = Idle \/ call'.op = "recover"
        /\ Label' = "audio" => call'.ch = 1
    BY <2>1, FilesWorker DEF RecoveryRecords
  <2> QED BY <2>1, <2>2, FilesQuiet
<1>3. CASE AppendRecord
  <2>1. /\ Label \in RecorderRecords /\ Proceed /\ UNCHANGED <<length, aligned>>
    BY <1>3 DEF AppendRecord
  <2>2. PICK record \in NextRecord : journal' = Append(journal, record)
    BY <1>3 DEF AppendRecord
  <2>3. Label # "none" /\ Label # "audio" /\ Label \notin RecoveryRecords \cup {"output", "recovered"}
        /\ Label \in RecordKinds
    BY <2>1 DEF RecorderRecords, RecoveryRecords, RecordKinds
  <2>4. /\ life # "gone"
        /\ life' = "gone" => call' = Idle \/ call'.op = "recover"
        /\ Label' = "audio" => call'.ch = 1
    BY <2>1, <2>3, FilesWorker
  <2>5. /\ record \in Records /\ record.kind = Label
        /\ Label = "FramesCommitted" => record.val = manifest.committed
    BY <2>2, <2>3, NextRecordType
  <2>6. manifest'.written = manifest.written
    BY <1>3, <2>3, AfterAppendType DEF AppendRecord
  <2>7. CASE Label = "FramesCommitted"
    <3>1. record.val = manifest.committed
      BY <2>5, <2>7
    <3>2. Label' # "audio"
      BY <1>0, <2>1, <2>3, Proceeding
    <3>3. ASSUME NEW c \in Channel
          PROVE  /\ manifest.committed <= aligned[c] /\ Ahead(c) = 0 /\ Ahead(c)' = 0
                 /\ aligned[c] = manifest.written /\ length[c] = manifest.written
      <4>1. Ahead(c) = 0 /\ Ahead(c)' = 0
        BY <2>3, <3>2 DEF Ahead
      <4>2. aligned[c] = manifest.written /\ length[c] = manifest.written
        BY <1>0, <2>4, <4>1 DEF FilesInv
      <4>3. manifest.committed <= synced[c] /\ synced[c] <= length[c]
        BY <2>7 DEF DurableInv
      <4>4. synced[c] \in Nat
        BY DEF TypeOK
      <4> QED BY <1>0, <4>1, <4>2, <4>3, <4>4
    <3>4. Placed'
      <4>1. /\ Len(journal) \in Nat /\ Len(journal') = Len(journal) + 1
            /\ \A i \in 1..Len(journal) : journal'[i] = journal[i]
            /\ journal'[Len(journal) + 1] = record
        BY <2>2, <2>5, AppendedJournal
      <4>2. \A i \in 1..Len(journal') : i \in 1..Len(journal) \/ i = Len(journal) + 1
        BY <4>1
      <4> QED BY <2>1, <3>1, <3>3, <4>1, <4>2 DEF FilesInv, Placed
    <3>5. \A c \in Channel : length'[c] = manifest'.written + Ahead(c)'
      BY <1>0, <2>1, <2>6, <3>3
    <3> QED BY <2>1, <2>4, <2>6, <3>3, <3>4, <3>5 DEF FilesInv
  <2>8. CASE Label # "FramesCommitted"
    BY <2>1, <2>2, <2>3, <2>4, <2>5, <2>6, <2>8, FilesQuiet
  <2> QED BY <2>7, <2>8
<1>4. CASE AppendRecovery
  <2>1. /\ Label \in RecoveryRecords /\ Proceed /\ UNCHANGED <<length, aligned, manifest>>
    BY <1>4 DEF AppendRecovery
  <2>2. PICK record \in NextRecord : journal' = Append(journal, record)
    BY <1>4 DEF AppendRecovery
  <2>3. /\ Label # "none" /\ Label # "audio" /\ Label # "FramesCommitted"
        /\ Label \in RecordKinds
    BY <2>1 DEF RecoveryRecords, RecordKinds
  <2>4. record \in Records /\ record.kind = Label
    BY <2>2, <2>3, NextRecordType
  <2> QED BY <2>1, <2>2, <2>3, <2>4, FilesWorker, FilesQuiet
<1>5. CASE RecoverOutput \/ OutputExists \/ PersistRecovered
  <2>1. /\ Label \in {"output", "recovered"}
        /\ Proceed \/ NextChannel \/ Abort
        /\ UNCHANGED <<journal, length, aligned, manifest>>
    BY <1>5 DEF RecoverOutput, OutputExists, PersistRecovered, disk, audio, log
  <2> QED BY <2>1, FilesWorker, FilesQuiet
<1> QED BY <1>1, <1>2, <1>3, <1>4, <1>5 DEF SystemCalls

(* Beginning or refusing a call keeps FilesInv. *)
LEMMA FilesCalls ==
  ASSUME TypeOK, FilesInv, Calls
  PROVE  FilesInv'
<1>1. UNCHANGED <<journal, length, aligned, life>> /\ Label = "none" /\ call = Idle
  BY CallsLeave DEF audio, log
<1>2. manifest'.written = manifest.written
  BY CallsLeave DEF TypeOK, Manifests
<1>3. Label' = "none" \/ call'.ch = 1
  BY CallsLeave, Beginning DEF Label
<1>4. life' = "gone" => call' = Idle \/ call'.op = "recover"
  BY <1>1 DEF Calls, Create, WriteFrames, RefuseWrite, Pause, Resume, AddMarker, RecordIncident,
     Finalize, Snapshot, BeginRecover, RefuseRecovery, Ready, Begin
<1> QED BY <1>1, <1>2, <1>3, <1>4, FilesQuiet

(* A crash takes no frame below a frontier out of its place. *)
LEMMA FilesCrash ==
  ASSUME TypeOK, DurableInv, FilesInv, Crash
  PROVE  FilesInv'
<1>1. life' = "gone" /\ call' = Idle
  BY DEF Crash
<1>2. PICK k \in journalSynced..Len(journal), tail \in {<<>>, <<Torn>>} :
        journal' = SubSeq(journal, 1, k) \o tail
  BY DEF Crash
<1>3. PICK len \in [Channel -> UNION {synced[c]..length[c] : c \in Channel}] :
        /\ \A c \in Channel : synced[c] <= len[c] /\ len[c] <= length[c]
        /\ aligned' = [c \in Channel |-> IF aligned[c] <= len[c] THEN aligned[c] ELSE len[c]]
  BY DEF Crash
<1>4. ASSUME NEW i \in 1..Len(journal'), journal'[i].kind = "FramesCommitted", NEW c \in Channel
      PROVE  journal'[i].val <= aligned'[c]
  <2>1. i \in 1..Len(journal) /\ journal[i] = journal'[i]
    <3>1. /\ Len(journal') = k + Len(tail) /\ k \in 0..Len(journal) /\ Len(tail) \in {0, 1}
          /\ \A j \in 1..k : journal'[j] = journal[j]
          /\ \A j \in (k+1)..(k + Len(tail)) : journal'[j] = Torn
      BY <1>2, CrashJournal
    <3>2. Len(journal) \in Nat
      BY LenProperties DEF TypeOK
    <3>3. i \in 1..k \/ i \in (k+1)..(k + Len(tail))
      BY <3>1, <3>2
    <3>4. journal'[i] # Torn
      BY <1>4 DEF Torn
    <3> QED BY <3>1, <3>2, <3>3, <3>4
  <2>2. journal[i].val \in Nat
    BY <1>4, <2>1, FrontierNumber
  <2>3. journal[i].val <= synced[c] /\ synced[c] \in Nat
    BY <1>4, <2>1 DEF DurableInv, CommittedIsDurable, TypeOK
  <2>4. len[c] \in Nat
    BY <1>3 DEF TypeOK
  <2>5. journal[i].val <= len[c]
    <3>1. synced[c] <= len[c]
      BY <1>3
    <3> QED BY ONLY <2>2, <2>3, <2>4, <3>1
  <2>6. journal[i].val <= aligned[c]
    BY <1>4, <2>1 DEF FilesInv, Placed
  <2> QED BY <1>3, <2>1, <2>5, <2>6
<1> QED BY <1>1, <1>4 DEF FilesInv, Placed

(* FilesInv is inductive for as long as no call fails. *)
LEMMA FilesNext ==
  ASSUME TypeOK, DurableInv, ioErrors = 0 => FilesInv, [Next]_vars, ioErrors' = 0
  PROVE  FilesInv'
<1>1. ioErrors = 0 /\ (UNCHANGED vars \/ Calls \/ SystemCalls \/ Crash)
  BY NoErrorStep
<1>2. CASE UNCHANGED vars
  BY <1>1, <1>2 DEF FilesInv, Placed, Ahead, Label, vars, disk, audio, log, memory
<1> QED BY <1>1, <1>2, FilesCalls, FilesSystemCalls, FilesCrash

(* Up to every frontier every channel holds its samples at the frame they  *)
(* were counted at, whatever batches a crash interrupts and whenever a     *)
(* recovery runs, as long as no system call fails.                         *)
THEOREM CommitsAreAligned == Spec => [](ioErrors = 0 => CommittedIsAligned)
<1>1. Init => (ioErrors = 0 => FilesInv)
  BY FilesInit
<1>2. TypeOK /\ DurableInv /\ (ioErrors = 0 => FilesInv) /\ [Next]_vars
      => (ioErrors = 0 => FilesInv)'
  BY FilesNext
<1>3. TypeOK /\ (ioErrors = 0 => FilesInv) => (ioErrors = 0 => CommittedIsAligned)
  BY FilesInvSuffices
<1> QED BY <1>1, <1>2, <1>3, DurableAlways, PTL DEF Spec

-------------------------------------------------------------------------------
(* session.json stays behind the journal.  The markers and incidents of    *)
(* the Recorder's manifest are exactly those of the records that are read; *)
(* session.json is a copy of some earlier manifest, and no record of these *)
(* kinds is ever lost.  That a request makes one marker rests on           *)
(* add_marker's look-up, and on no marker being between its look-up and    *)
(* its append when another begins.                                         *)

Marks == {journal[i].val : i \in Kept("MarkerAdded")}

MarkedOnce ==
  \A i, k \in Kept("MarkerAdded") : journal[i].val = journal[k].val => i = k

SessionInv ==
  /\ life # "gone" =>
       /\ manifest.markers = Marks
       /\ manifest.incidents = Cardinality(Kept("Incident"))
       /\ Label = "MarkerAdded" => call.request \notin Marks
  /\ MarkedOnce
  /\ session.markers \subseteq Marks
  /\ session.incidents <= Cardinality(Kept("Incident"))
  /\ \E f \in Frontiers(journal) : session.committed <= f
  /\ call.op = "recover" => call.goal \in Frontiers(journal)

(* The invariant states the property. *)
LEMMA SessionInvSuffices == SessionInv => SessionBehindJournal
<1> SUFFICES ASSUME SessionInv PROVE SessionBehindJournal
  OBVIOUS
<1>1. \A kind : {i \in 1..Len(journal) : Readable(journal, i) /\ journal[i].kind = kind} = Kept(kind)
  BY DEF Kept
<1>2. \A m \in session.markers :
        /\ \E i \in Kept("MarkerAdded") : journal[i].val = m
        /\ \A i, k \in Kept("MarkerAdded") : journal[i].val = m /\ journal[k].val = m => i = k
  BY DEF SessionInv, Marks, MarkedOnce
<1> QED BY <1>1, <1>2 DEF SessionBehindJournal, SessionInv

(* The records read are finitely many. *)
LEMMA KeptFinite ==
  ASSUME TypeOK, NEW kind
  PROVE  /\ IsFiniteSet(Kept(kind)) /\ Cardinality(Kept(kind)) \in Nat
         /\ Len(journal) + 1 \notin Kept(kind)
<1>1. Len(journal) \in Nat
  BY LenProperties DEF TypeOK
<1>2. IsFiniteSet(1..Len(journal))
  BY <1>1, FS_Interval
<1>3. Kept(kind) \subseteq 1..Len(journal)
  BY DEF Kept
<1>4. IsFiniteSet(Kept(kind))
  BY <1>2, <1>3, FS_Subset
<1>5. Len(journal) + 1 \notin 1..Len(journal)
  BY <1>1
<1> QED BY <1>3, <1>4, <1>5, FS_CardinalityType

(* SessionInv holds initially. *)
LEMMA SessionInit == Init => SessionInv
<1> SUFFICES ASSUME Init PROVE SessionInv
  OBVIOUS
<1>1. ASSUME NEW kind PROVE Kept(kind) = {}
  <2>1. 1..Len(journal) = {}
    BY DEF Init
  <2> QED BY <2>1 DEF Kept
<1>2. Marks = {} /\ MarkedOnce
  BY <1>1 DEF Marks, MarkedOnce
<1>3. Cardinality({}) = 0
  BY FS_EmptySet
<1>4. 0 \in Frontiers(journal)
  BY DEF Frontiers
<1>5. Label = "none" /\ call.op # "recover"
  BY LabelIdle DEF Init, Idle
<1>6. /\ manifest.markers = {} /\ manifest.incidents = 0
      /\ session.markers = {} /\ session.incidents = 0 /\ session.committed = 0
  BY DEF Init, NewManifest, NoManifest
<1>7. Kept("Incident") = {}
  BY <1>1
<1> QED BY <1>2, <1>3, <1>4, <1>5, <1>6, <1>7 DEF SessionInv

(* A step that makes no marker and no incident, and keeps every frontier;  *)
(* session.json stays, or becomes a copy of the manifest or a recovered    *)
(* one.                                                                    *)
LEMMA SessionQuiet ==
  ASSUME TypeOK, SessionInv,
         Kept("MarkerAdded")' = Kept("MarkerAdded"), Kept("Incident")' = Kept("Incident"),
         \A i \in Kept("MarkerAdded") : journal'[i] = journal[i],
         Frontiers(journal) \subseteq Frontiers(journal)',
         life' # "gone" =>
           /\ life # "gone"
           /\ Label' = "MarkerAdded" => call'.request \notin Marks
           /\ manifest'.markers = manifest.markers /\ manifest'.incidents = manifest.incidents,
         \/ UNCHANGED session
         \/ life # "gone" /\ session' = manifest /\ manifest.committed \in Frontiers(journal)
         \/ /\ session'.markers = session.markers /\ session'.incidents = session.incidents
            /\ session'.committed \in Frontiers(journal),
         call'.op = "recover" => call'.goal \in Frontiers(journal)
  PROVE  SessionInv'
<1>1. Marks' = Marks
  <2>1. Marks' = {journal'[i].val : i \in Kept("MarkerAdded")'}
    BY DEF Marks
  <2> QED BY <2>1 DEF Marks
<1>3. MarkedOnce'
  <2>1. MarkedOnce
    BY DEF SessionInv
  <2> QED BY <2>1 DEF MarkedOnce
<1>2. /\ session'.markers \subseteq Marks
      /\ session'.incidents <= Cardinality(Kept("Incident"))
      /\ \E f \in Frontiers(journal) : session'.committed <= f
  <2>1. CASE UNCHANGED session
    BY <2>1 DEF SessionInv
  <2>2. CASE life # "gone" /\ session' = manifest /\ manifest.committed \in Frontiers(journal)
    BY <2>2, KeptFinite, FrontierType DEF SessionInv
  <2>3. CASE /\ session'.markers = session.markers /\ session'.incidents = session.incidents
             /\ session'.committed \in Frontiers(journal)
    BY <2>3, FrontierType DEF SessionInv
  <2> QED BY <2>1, <2>2, <2>3
<1> QED BY <1>1, <1>2, <1>3 DEF SessionInv

(* Beginning or refusing a call keeps SessionInv: add_marker begins only   *)
(* with a request that made no marker yet.                                 *)
LEMMA SessionCalls ==
  ASSUME TypeOK, SessionInv, Calls
  PROVE  SessionInv'
<1>1. /\ UNCHANGED <<journal, session, life>> /\ Label = "none" /\ call = Idle
  BY CallsLeave DEF log
<1>2. manifest'.markers = manifest.markers /\ manifest'.incidents = manifest.incidents
  BY CallsLeave DEF TypeOK, Manifests
<1>3. \A kind : Kept(kind)' = Kept(kind)
  BY <1>1 DEF Kept
<1>4. CASE UNCHANGED call
  <2>1. Label' = "none" /\ call'.op # "recover"
    BY <1>1, <1>4 DEF Label, Idle
  <2> QED BY <1>1, <1>2, <1>3, <2>1, SessionQuiet
<1>5. ASSUME NEW op \in Operations \ {"mark", "recover"}, NEW frames, NEW goal, NEW request,
             Begin(op, frames, goal, request)
      PROVE  SessionInv'
  <2>1. Label' # "MarkerAdded" /\ call'.op # "recover"
    <3>1. Label' = Program[op][1] /\ call'.op = op
      BY <1>5, Beginning DEF Begin
    <3>2. 1 \in 1..Len(Program[op])
      BY ProgramTypes
    <3> QED BY <3>1, <3>2, ProgramOrder
  <2> QED BY <1>1, <1>2, <1>3, <2>1, SessionQuiet
<1>6. ASSUME NEW request \in RequestIds, AddMarker(request)
      PROVE  SessionInv'
  <2>1. call'.op = "mark" /\ call'.request = request /\ request \notin manifest.markers
        /\ life = "live"
    BY <1>6 DEF AddMarker, Begin, Ready
  <2>2. request \notin Marks
    BY <2>1 DEF SessionInv
  <2> QED BY <1>1, <1>2, <1>3, <2>1, <2>2, SessionQuiet
<1>7. CASE BeginRecover
  <2>1. PICK committed \in Frontiers(journal) :
          \E safe \in {committed} \cup Lengths : Begin("recover", safe, committed, None)
    BY <1>7 DEF BeginRecover
  <2>2. call'.op = "recover" /\ call'.goal = committed
    BY <2>1 DEF Begin
  <2>3. Label' # "MarkerAdded"
    <3>1. Label' = Program["recover"][1]
      BY <2>1, Beginning, OperationNames
    <3>2. 1 \in 1..Len(Program["recover"])
      BY ProgramTypes, OperationNames
    <3> QED BY <3>1, <3>2, ProgramOrder, OperationNames
  <2> QED BY <1>1, <1>2, <1>3, <2>2, <2>3, SessionQuiet
<1>8. \/ UNCHANGED call
      \/ BeginRecover
      \/ \E request \in RequestIds : AddMarker(request)
      \/ \E op \in Operations \ {"mark", "recover"} : \E frames, goal, request :
           Begin(op, frames, goal, request)
  BY OperationNames DEF Calls, Create, WriteFrames, RefuseWrite, Pause, Resume,
     RecordIncident, Finalize, Snapshot, RefuseRecovery
<1> QED BY <1>4, <1>5, <1>6, <1>7, <1>8

(* A call keeps the operation it belongs to, and its goal. *)
LEMMA CallKept ==
  ASSUME CallTypeOK, Label # "none", Proceed \/ NextChannel \/ Abort
  PROVE  call'.op = "recover" => call.op = "recover" /\ call'.goal = call.goal
<1>1. CASE Return \/ Abort
  BY <1>1 DEF Return, Abort, Idle
<1>2. CASE Proceed
  BY <1>2, Proceeding DEF Idle
<1>3. CASE call' = [call EXCEPT !.ch = @ + 1]
  BY <1>3, Looping
<1> QED BY <1>1, <1>2, <1>3 DEF NextChannel

(* A marker is appended first thing. *)
LEMMA MarkerFirst ==
  ASSUME NEW op \in Operations, NEW i \in 1..Len(Program[op]), Program[op][i] = "MarkerAdded"
  PROVE  i = 1
<1>1. CASE op = "create"
  BY <1>1, SMTT(30) DEF Program
<1>2. CASE op = "write"
  BY <1>2, SMTT(30) DEF Program
<1>3. CASE op = "gap"
  BY <1>3, SMTT(30) DEF Program
<1>4. CASE op = "pause"
  BY <1>4, SMTT(30) DEF Program
<1>5. CASE op = "resume"
  BY <1>5, SMTT(30) DEF Program
<1>6. CASE op = "mark"
  BY <1>6, SMTT(30) DEF Program
<1>7. CASE op = "incident"
  BY <1>7, SMTT(30) DEF Program
<1>8. CASE op = "stop"
  BY <1>8, SMTT(30) DEF Program
<1>9. CASE op = "recover"
  BY <1>9, SMTT(30) DEF Program
<1> QED BY <1>1, <1>2, <1>3, <1>4, <1>5, <1>6, <1>7, <1>8, <1>9, OperationNames

(* An append of a live Recorder keeps SessionInv: the manifest and the     *)
(* journal gain the marker, or the incident, together.                     *)
LEMMA SessionAppendRecord ==
  ASSUME TypeOK, RecoveryInv, JournalInv, SessionInv, AppendRecord
  PROVE  SessionInv'
<1>1. /\ Label \in RecorderRecords /\ Proceed /\ UNCHANGED session
      /\ nextSequence' = nextSequence + 1 /\ manifest' = AfterAppend
  BY DEF AppendRecord
<1>2. PICK record \in NextRecord : journal' = Append(journal, record)
  BY DEF AppendRecord
<1>3. Label # "none" /\ Label \notin RecoveryRecords \cup {"output", "recovered"}
  BY <1>1 DEF RecorderRecords, RecoveryRecords
<1>4. life # "gone" /\ LiveJournal /\ call.op # "recover"
  BY <1>1, <1>3, RecorderSteps DEF JournalInv
<1>5. /\ Readable(journal', Len(journal) + 1)
      /\ record \in Records /\ record.kind = Label /\ record.val = RecordValue
  BY <1>1, <1>2, <1>4, LiveAppend
<1>6. /\ \A i \in 1..Len(journal) : journal'[i] = journal[i]
      /\ journal'[Len(journal) + 1] = record
      /\ Frontiers(journal) \subseteq Frontiers(journal')
  BY <1>2, <1>5, AppendedJournal, FrontiersAppend
<1>7. \A kind : \A i \in Kept(kind) : journal'[i] = journal[i]
  BY <1>6 DEF Kept
<1>8. ASSUME NEW kind
      PROVE  Kept(kind)' = IF kind = Label THEN Kept(kind) \cup {Len(journal) + 1} ELSE Kept(kind)
  <2>1. Kept(kind)' = Kept(kind) \cup
          {i \in {Len(journal) + 1} : Readable(journal', i) /\ record.kind = kind}
    BY <1>2, <1>5, KeptAppend
  <2>2. {i \in {Len(journal) + 1} : Readable(journal', i) /\ record.kind = kind}
          = IF kind = Label THEN {Len(journal) + 1} ELSE {}
    BY <1>5
  <2> QED BY <2>1, <2>2
<1>9. call'.op # "recover"
  BY <1>1, <1>3, <1>4, CallKept DEF TypeOK
<1>10. Label' # "MarkerAdded"
  <2>1. CASE Label' = Program[call.op][call.step + 1] /\ call.step + 1 \in 2..Len(Program[call.op])
    <3>1. call.op \in Operations /\ call.step + 1 \in 1..Len(Program[call.op])
          /\ call.step + 1 # 1 /\ Len(Program[call.op]) \in Nat
      BY <1>3, <2>1, LabelType, ProgramTypes DEF TypeOK
    <3> QED BY <2>1, <3>1, MarkerFirst
  <2> QED BY <1>1, <1>3, <2>1, Proceeding DEF TypeOK
<1>11. CASE Label = "MarkerAdded"
  <2>1. /\ Kept("MarkerAdded")' = Kept("MarkerAdded") \cup {Len(journal) + 1}
        /\ Kept("Incident")' = Kept("Incident")
    BY <1>8, <1>11
  <2>2. manifest'.markers = manifest.markers \cup {call.request}
        /\ manifest'.incidents = manifest.incidents
    BY <1>1, <1>11 DEF AfterAppend, TypeOK, Manifests
  <2>3. record.val = call.request
    BY <1>5, <1>11 DEF RecordValue
  <2>4. Marks' = Marks \cup {call.request}
    <3>1. Marks' = {journal'[i].val : i \in Kept("MarkerAdded") \cup {Len(journal) + 1}}
      BY <2>1 DEF Marks
    <3>2. \A i \in Kept("MarkerAdded") : journal'[i].val = journal[i].val
      BY <1>7
    <3>3. \A i \in {Len(journal) + 1} : journal'[i].val = call.request
      BY <1>6, <2>3
    <3>4. {journal'[i].val : i \in Kept("MarkerAdded") \cup {Len(journal) + 1}}
            = {journal[i].val : i \in Kept("MarkerAdded")} \cup {call.request : i \in {Len(journal) + 1}}
      BY <3>2, <3>3, ImageOfUnion
    <3> QED BY <3>1, <3>4 DEF Marks
  <2>5. call.request \notin Marks /\ MarkedOnce
    BY <1>4, <1>11 DEF SessionInv
  <2>6. MarkedOnce'
    <3> SUFFICES ASSUME NEW i \in Kept("MarkerAdded")', NEW k \in Kept("MarkerAdded")',
                        journal'[i].val = journal'[k].val
                 PROVE  i = k
      BY DEF MarkedOnce
    <3>1. \A n \in Kept("MarkerAdded") : journal'[n].val # call.request /\ journal'[n].val = journal[n].val
      BY <1>7, <2>5 DEF Marks
    <3>2. journal'[Len(journal) + 1].val = call.request
      BY <1>6, <2>3
    <3> QED BY <2>1, <2>5, <3>1, <3>2 DEF MarkedOnce
  <2> QED BY <1>1, <1>4, <1>6, <1>9, <1>10, <2>1, <2>2, <2>4, <2>6 DEF SessionInv
<1>12. CASE Label = "Incident"
  <2>1. /\ Kept("Incident")' = Kept("Incident") \cup {Len(journal) + 1}
        /\ Kept("MarkerAdded")' = Kept("MarkerAdded")
    BY <1>8, <1>12
  <2>2. Cardinality(Kept("Incident")') = Cardinality(Kept("Incident")) + 1
        /\ Cardinality(Kept("Incident")) \in Nat
    BY <2>1, KeptFinite, FS_AddElement
  <2>3. manifest'.incidents = manifest.incidents + 1 /\ manifest'.markers = manifest.markers
    BY <1>1, <1>12 DEF AfterAppend, TypeOK, Manifests
  <2>4. Marks' = Marks
    <3>1. Marks' = {journal'[i].val : i \in Kept("MarkerAdded")'}
      BY DEF Marks
    <3> QED BY <1>7, <2>1, <3>1 DEF Marks
  <2>5. MarkedOnce'
    BY <1>7, <2>1 DEF SessionInv, MarkedOnce
  <2>6. session'.incidents <= Cardinality(Kept("Incident")')
    <3>1. session.incidents \in Nat
      BY DEF TypeOK, Manifests
    <3> QED BY <1>1, <2>2, <3>1 DEF SessionInv
  <2>7. manifest'.incidents = Cardinality(Kept("Incident")')
    BY <1>4, <2>2, <2>3 DEF SessionInv
  <2> QED BY <1>1, <1>4, <1>6, <1>9, <1>10, <2>3, <2>4, <2>5, <2>6, <2>7 DEF SessionInv
<1>13. CASE Label \notin {"MarkerAdded", "Incident"}
  <2>1. Kept("MarkerAdded")' = Kept("MarkerAdded") /\ Kept("Incident")' = Kept("Incident")
    BY <1>8, <1>13
  <2>2. manifest'.markers = manifest.markers /\ manifest'.incidents = manifest.incidents
    BY <1>1, <1>13 DEF AfterAppend, TypeOK, Manifests
  <2> QED BY <1>1, <1>4, <1>6, <1>7, <1>9, <1>10, <2>1, <2>2, SessionQuiet
<1> QED BY <1>11, <1>12, <1>13

(* Every other system call that succeeds keeps SessionInv. *)
LEMMA SessionSystemCalls ==
  ASSUME TypeOK, RecoveryInv, JournalInv, SessionInv, SystemCalls
  PROVE  SessionInv'
<1> USE DEF log
<1>0. CallTypeOK
  BY DEF TypeOK
<1>1. ASSUME Label # "none", Label # "MarkerAdded", Proceed \/ NextChannel \/ Abort
      PROVE  /\ call'.op = "recover" => call'.goal \in Frontiers(journal)
             /\ Label' # "MarkerAdded"
  <2>1. call'.op = "recover" => call'.goal \in Frontiers(journal)
    BY <1>0, <1>1, CallKept DEF SessionInv
  <2>2. CASE Proceed
    <3>1. CASE Label' = Program[call.op][call.step + 1] /\ call.step + 1 \in 2..Len(Program[call.op])
      <4>1. call.op \in Operations /\ call.step + 1 \in 1..Len(Program[call.op])
            /\ call.step + 1 # 1 /\ Len(Program[call.op]) \in Nat
        BY <1>0, <1>1, <3>1, LabelType, ProgramTypes
      <4> QED BY <2>1, <3>1, <4>1, MarkerFirst
    <3> QED BY <1>0, <1>1, <2>1, <2>2, <3>1, Proceeding
  <2>3. CASE Abort \/ call' = [call EXCEPT !.ch = @ + 1]
    BY <1>0, <1>1, <2>1, <2>3, Aborting, Looping
  <2> QED BY <1>1, <2>2, <2>3 DEF NextChannel
<1>2. CASE WriteAudio \/ SyncAudio \/ RenameFinal \/ ValidationFails
  <2>1. /\ Label \in {"audio", "sync", "rename"}
        /\ Proceed \/ NextChannel \/ Abort
        /\ UNCHANGED <<journal, session>>
        /\ manifest'.markers = manifest.markers /\ manifest'.incidents = manifest.incidents
    BY <1>2 DEF WriteAudio, SyncAudio, RenameFinal, ValidationFails, TypeOK, Manifests, disk
  <2>2. life # "gone"
    BY <2>1, RecorderSteps DEF RecoveryRecords
  <2>3. \A kind : Kept(kind)' = Kept(kind)
    BY <2>1 DEF Kept
  <2> QED BY <1>1, <2>1, <2>2, <2>3, SessionQuiet
<1>3. CASE PersistManifest
  <2>1. /\ Label = "manifest" /\ Proceed /\ UNCHANGED <<journal, manifest>> /\ session' = manifest
    BY <1>3 DEF PersistManifest
  <2>2. life # "gone"
    BY <2>1, RecorderSteps DEF RecoveryRecords
  <2>3. manifest.committed \in Frontiers(journal)
    BY <2>1, <2>2 DEF JournalInv, FrontierInManifest
  <2>4. \A kind : Kept(kind)' = Kept(kind)
    BY <2>1 DEF Kept
  <2> QED BY <1>1, <2>1, <2>2, <2>3, <2>4, SessionQuiet
<1>4. CASE RecoverOutput \/ OutputExists \/ PersistRecovered
  <2>1. /\ Label \in {"output", "recovered"}
        /\ Proceed \/ NextChannel \/ Abort
        /\ UNCHANGED journal
    BY <1>4 DEF RecoverOutput, OutputExists, PersistRecovered, disk
  <2>2. call.op = "recover" /\ life' = "gone"
    BY <1>0, <2>1, RecoveryLabels, CallOwner DEF RecoveryInv
  <2>3. \A kind : Kept(kind)' = Kept(kind)
    BY <2>1 DEF Kept
  <2>4. \/ UNCHANGED session
        \/ /\ session'.markers = session.markers /\ session'.incidents = session.incidents
           /\ session'.committed \in Frontiers(journal)
    <3>1. CASE PersistRecovered
      <4>1. session' = RecoveredManifest
        BY <3>1 DEF PersistRecovered
      <4>2. call.frames \in Frontiers(journal)
        BY <2>2 DEF RecoveryInv, SessionInv
      <4> QED BY <4>1, <4>2 DEF RecoveredManifest, TypeOK, Manifests
    <3> QED BY <1>4, <3>1 DEF RecoverOutput, OutputExists, disk
  <2> QED BY <1>1, <2>1, <2>2, <2>3, <2>4, SessionQuiet
<1>5. CASE AppendRecovery
  <2>1. /\ Label \in RecoveryRecords /\ Proceed /\ UNCHANGED session
    BY <1>5 DEF AppendRecovery
  <2>2. PICK record \in NextRecord : journal' = Append(journal, record)
    BY <1>5 DEF AppendRecovery
  <2>3. Label # "none" /\ Label \notin {"MarkerAdded", "Incident"} /\ Label \in RecordKinds
    BY <2>1 DEF RecoveryRecords, RecordKinds
  <2>4. life' = "gone"
    BY <1>0, <2>1, <2>3, RecoveryLabels, CallOwner DEF RecoveryInv
  <2>5. record \in Records /\ record.kind = Label
    BY <2>2, <2>3, NextRecordType
  <2>6. /\ Frontiers(journal) \subseteq Frontiers(journal')
        /\ \A i \in 1..Len(journal) : journal'[i] = journal[i]
    BY <2>2, <2>5, FrontiersAppend, AppendedJournal
  <2>7. ASSUME NEW kind \in {"MarkerAdded", "Incident"} PROVE Kept(kind)' = Kept(kind)
    <3>1. Kept(kind)' = Kept(kind) \cup
            {i \in {Len(journal) + 1} : Readable(journal', i) /\ record.kind = kind}
      BY <2>2, <2>5, KeptAppend
    <3> QED BY <2>3, <2>5, <3>1
  <2>8. \A i \in Kept("MarkerAdded") : journal'[i] = journal[i]
    BY <2>6 DEF Kept
  <2> QED BY <1>1, <2>1, <2>3, <2>4, <2>6, <2>7, <2>8, SessionQuiet
<1> QED BY <1>2, <1>3, <1>4, <1>5, SessionAppendRecord DEF SystemCalls

(* A crash keeps SessionInv: what it takes of the journal is neither. *)
LEMMA SessionCrash ==
  ASSUME TypeOK, JournalInv, SessionInv, Crash
  PROVE  SessionInv'
<1>1. life' = "gone" /\ call' = Idle /\ UNCHANGED session
  BY DEF Crash
<1>2. /\ Kept("MarkerAdded")' = Kept("MarkerAdded") /\ Kept("Incident")' = Kept("Incident")
      /\ \A i \in Kept("MarkerAdded") : journal'[i] = journal[i]
      /\ Frontiers(journal)' = Frontiers(journal)
  BY KeptCrash, FrontiersCrash DEF JournalInv
<1>3. call'.op # "recover"
  BY <1>1 DEF Idle
<1> QED BY <1>1, <1>2, <1>3, SessionQuiet

(* SessionInv is inductive for as long as no call fails. *)
LEMMA SessionNext ==
  ASSUME TypeOK, RecoveryInv, ioErrors = 0 => JournalInv, ioErrors = 0 => SessionInv,
         [Next]_vars, ioErrors' = 0
  PROVE  SessionInv'
<1>1. ioErrors = 0 /\ (UNCHANGED vars \/ Calls \/ SystemCalls \/ Crash)
  BY NoErrorStep
<1>2. CASE UNCHANGED vars
  BY <1>1, <1>2 DEF SessionInv, MarkedOnce, Marks, Kept, Label, vars, disk, log, memory
<1> QED BY <1>1, <1>2, SessionCalls, SessionSystemCalls, SessionCrash

(* session.json never runs ahead of the journal, for any number of         *)
(* markers and incidents and wherever crashes fall.                        *)
THEOREM SessionsStayBehind ==
  ASSUME RecoverLive = FALSE
  PROVE  Spec => [](ioErrors = 0 => SessionBehindJournal)
<1>1. Init => QuietInv /\ (ioErrors = 0 => SessionInv)
  BY TypeInit, DurableInit, RecoveryInit, JournalInit, SessionInit DEF QuietInv
<1>2. QuietInv /\ (ioErrors = 0 => SessionInv) /\ [Next]_vars => (ioErrors = 0 => SessionInv)'
  BY SessionNext DEF QuietInv
<1> QED BY <1>1, <1>2, SessionInvSuffices, QuietAlways, PTL DEF Spec

===============================================================================
