---------------------------- MODULE RecorderProofs ----------------------------
(* Theorems about Recorder, for every number of channels, every batch size *)
(* and any number of failed calls and crashes.                             *)
EXTENDS Recorder, SequenceTheorems, TLAPS

Labels == RecordKinds \cup {"audio", "sync", "manifest", "rename", "output", "recovered"}

-------------------------------------------------------------------------------
(* The shape of the programs, by inspection of the table. *)

LEMMA OperationNames ==
  Operations = {"create", "write", "gap", "pause", "resume", "mark", "incident",
                "stop", "recover"}
BY DEF Program, Operations

(* Every program is a nonempty sequence of labels. *)
LEMMA ProgramTypes ==
  ASSUME NEW op \in Operations
  PROVE  Program[op] \in Seq(Labels) /\ Len(Program[op]) \in Nat \ {0}
<1>1. CASE op = "create"
  BY <1>1, SMTT(30) DEF Program, Labels, RecordKinds, RecorderRecords, RecoveryRecords
<1>2. CASE op = "write"
  BY <1>2, SMTT(30) DEF Program, Labels, RecordKinds, RecorderRecords, RecoveryRecords
<1>3. CASE op = "gap"
  BY <1>3, SMTT(30) DEF Program, Labels, RecordKinds, RecorderRecords, RecoveryRecords
<1>4. CASE op = "pause"
  BY <1>4, SMTT(30) DEF Program, Labels, RecordKinds, RecorderRecords, RecoveryRecords
<1>5. CASE op = "resume"
  BY <1>5, SMTT(30) DEF Program, Labels, RecordKinds, RecorderRecords, RecoveryRecords
<1>6. CASE op = "mark"
  BY <1>6, SMTT(30) DEF Program, Labels, RecordKinds, RecorderRecords, RecoveryRecords
<1>7. CASE op = "incident"
  BY <1>7, SMTT(30) DEF Program, Labels, RecordKinds, RecorderRecords, RecoveryRecords
<1>8. CASE op = "stop"
  BY <1>8, SMTT(30) DEF Program, Labels, RecordKinds, RecorderRecords, RecoveryRecords
<1>9. CASE op = "recover"
  BY <1>9, SMTT(30) DEF Program, Labels, RecordKinds, RecorderRecords, RecoveryRecords
<1> QED BY <1>1, <1>2, <1>3, <1>4, <1>5, <1>6, <1>7, <1>8, <1>9, OperationNames

(* FramesCommitted is appended only straight after the syncs, and a marker *)
(* only by add_marker.                                                     *)
LEMMA ProgramOrder ==
  ASSUME NEW op \in Operations, NEW i \in 1..Len(Program[op])
  PROVE  /\ Program[op][i] = "FramesCommitted" => i > 1 /\ Program[op][i-1] = "sync"
         /\ Program[op][i] = "MarkerAdded" => op = "mark"
         /\ Program[op][i] = "audio" => i = 1
         /\ Program[op][i] \in RecoveryRecords \cup {"output", "recovered"} <=> op = "recover"
         /\ Program[op][i] = "output" <=> op = "recover" /\ i = 1
<1>1. CASE op = "create"
  BY <1>1, SMTT(30) DEF Program, RecoveryRecords
<1>2. CASE op = "write"
  BY <1>2, SMTT(30) DEF Program, RecoveryRecords
<1>3. CASE op = "gap"
  BY <1>3, SMTT(30) DEF Program, RecoveryRecords
<1>4. CASE op = "pause"
  BY <1>4, SMTT(30) DEF Program, RecoveryRecords
<1>5. CASE op = "resume"
  BY <1>5, SMTT(30) DEF Program, RecoveryRecords
<1>6. CASE op = "mark"
  BY <1>6, SMTT(30) DEF Program, RecoveryRecords
<1>7. CASE op = "incident"
  BY <1>7, SMTT(30) DEF Program, RecoveryRecords
<1>8. CASE op = "stop"
  BY <1>8, SMTT(30) DEF Program, RecoveryRecords
<1>9. CASE op = "recover"
  BY <1>9, SMTT(30) DEF Program, RecoveryRecords
<1> QED BY <1>1, <1>2, <1>3, <1>4, <1>5, <1>6, <1>7, <1>8, <1>9, OperationNames

-------------------------------------------------------------------------------
(* Type correctness. *)

Lives == {"new", "live", "gone"}

(* A label other than none is the current step of a typed call. *)
LEMMA LabelType ==
  ASSUME CallTypeOK, Label # "none"
  PROVE  /\ call # Idle /\ call.op \in Operations /\ call.step \in 1..Len(Program[call.op])
         /\ call.ch \in Channel /\ call.frames \in Nat /\ call.goal \in Nat
         /\ call.request \in RequestIds \cup {None}
         /\ Label = Program[call.op][call.step] /\ Label \in Labels
<1>1. call # Idle /\ Label = Program[call.op][call.step]
  BY DEF Label
<1>2. call.op \in Operations /\ call.step \in 1..Len(Program[call.op])
  BY <1>1 DEF CallTypeOK
<1>3. Label \in Labels
  BY <1>1, <1>2, ProgramTypes
<1> QED BY <1>1, <1>2, <1>3 DEF CallTypeOK

(* However a step leaves its call, the call and the Recorder stay typed. *)
LEMMA CallSteps ==
  ASSUME CallTypeOK, call # Idle, life \in Lives, Proceed \/ NextChannel \/ Abort
  PROVE  CallTypeOK' /\ life' \in Lives
<1>1. call.op \in Operations /\ Len(Program[call.op]) \in Nat \ {0}
  BY ProgramTypes DEF CallTypeOK
<1>2. CASE Return \/ Abort
  BY <1>2 DEF Return, Abort, CallTypeOK, Lives, Idle
<1>3. CASE call' = [call EXCEPT !.step = @ + 1, !.ch = 1] /\ UNCHANGED life
           /\ call.step < Len(Program[call.op])
  <2>1. call'.op = call.op /\ call'.step = call.step + 1 /\ call'.request = call.request
    BY <1>3 DEF CallTypeOK
  <2>2. call' \in [op : Operations, step : Nat, ch : Channel, frames : Nat, goal : Nat,
                   request : RequestIds \cup {None}]
    <3>1. 1 \in Channel
      BY ChannelsAssumption DEF Channel
    <3>2. call.step + 1 \in Nat
      BY <1>1, <1>3 DEF CallTypeOK
    <3> QED BY <1>3, <3>1, <3>2 DEF CallTypeOK
  <2>3. call'.step \in 1..Len(Program[call'.op])
    BY <1>1, <1>3, <2>1 DEF CallTypeOK
  <2> QED BY <1>3, <2>1, <2>2, <2>3 DEF CallTypeOK
<1>4. CASE call' = [call EXCEPT !.ch = @ + 1] /\ UNCHANGED life /\ ~ LastChannel
  <2>1. call'.op = call.op /\ call'.step = call.step /\ call'.request = call.request
    BY <1>4 DEF CallTypeOK
  <2>2. call.ch + 1 \in Channel
    BY <1>4, ChannelsAssumption DEF CallTypeOK, Channel, LastChannel
  <2>3. call' \in [op : Operations, step : Nat, ch : Channel, frames : Nat, goal : Nat,
                   request : RequestIds \cup {None}]
    BY <1>4, <2>2 DEF CallTypeOK
  <2> QED BY <1>4, <2>1, <2>3 DEF CallTypeOK
<1> QED BY <1>2, <1>3, <1>4 DEF Proceed, NextChannel

(* So does beginning one. *)
LEMMA BeginSteps ==
  ASSUME NEW op \in Operations, NEW frames \in Nat, NEW goal \in Nat,
         NEW request \in RequestIds \cup {None},
         (op = "mark") <=> (request # None),
         Begin(op, frames, goal, request)
  PROVE  CallTypeOK'
<1>1. Len(Program[op]) \in Nat \ {0}
  BY ProgramTypes
<1>2. 1 \in Channel
  BY ChannelsAssumption DEF Channel
<1> QED BY <1>1, <1>2 DEF Begin, CallTypeOK

(* What Journal::append writes is a record. *)
LEMMA NextRecordType ==
  ASSUME TypeOK, Label \in RecordKinds, NEW record \in NextRecord
  PROVE  /\ record \in Records
         /\ record.kind = Label
         /\ Label = "FramesCommitted" => record.val = manifest.committed
<1>1. Label # "none"
  BY DEF RecordKinds, RecorderRecords, RecoveryRecords
<1>2. Label = "MarkerAdded" => call.request \in RequestIds
  BY <1>1, LabelType, ProgramOrder DEF TypeOK, CallTypeOK
<1>3. manifest.committed \in Nat /\ manifest.written \in Nat
  BY DEF TypeOK, Manifests
<1>4. RecordValue \in Nat \cup RequestIds
  BY <1>2, <1>3 DEF RecordValue
<1>5. Label = "FramesCommitted" => RecordValue = manifest.committed
  BY DEF RecordValue
<1>6. record.seq \in Nat /\ record.kind = Label /\ record.val = RecordValue
  BY DEF NextRecord
<1>7. record = [seq |-> record.seq, kind |-> record.kind, val |-> record.val]
  BY DEF NextRecord
<1> QED BY <1>3, <1>4, <1>5, <1>6, <1>7 DEF Records

(* So is what an append that fails half-way leaves. *)
LEMMA TornType == Torn \in Records
BY DEF Torn, Records

(* The journal stays typed under an append. *)
LEMMA JournalAppend ==
  ASSUME TypeOK, NEW record \in Records
  PROVE  /\ Append(journal, record) \in Seq(Records)
         /\ Len(Append(journal, record)) = Len(journal) + 1
         /\ Len(journal) \in Nat
BY AppendProperties, LenProperties DEF TypeOK

(* What the code does to its manifest after an append keeps it typed. *)
LEMMA AfterAppendType ==
  ASSUME TypeOK, Label \in RecordKinds
  PROVE  /\ AfterAppend \in Manifests
         /\ AfterAppend.written = manifest.written
         /\ AfterAppend.committed = manifest.committed
<1>1. Label = "MarkerAdded" => call.request \in RequestIds
  BY LabelType, ProgramOrder DEF TypeOK, CallTypeOK, RecordKinds, RecorderRecords, RecoveryRecords
<1>2. CASE Label = "TakeArmed"
  BY <1>2 DEF AfterAppend, TypeOK, Manifests, States
<1>3. CASE Label = "SegmentStopped"
  BY <1>3 DEF AfterAppend, TypeOK, Manifests, States
<1>4. CASE Label = "MarkerAdded"
  <2>1. manifest.markers \cup {call.request} \in SUBSET RequestIds
    BY <1>1, <1>4 DEF TypeOK, Manifests
  <2>2. AfterAppend = [manifest EXCEPT !.markers = @ \cup {call.request}]
    BY <1>4 DEF AfterAppend
  <2> QED BY <2>1, <2>2 DEF TypeOK, Manifests
<1>5. CASE Label = "Incident"
  <2>1. manifest.incidents + 1 \in Nat
    BY DEF TypeOK, Manifests
  <2>2. AfterAppend = [manifest EXCEPT !.incidents = @ + 1]
    BY <1>5 DEF AfterAppend
  <2> QED BY <2>1, <2>2 DEF TypeOK, Manifests
<1>6. CASE Label \notin {"TakeArmed", "SegmentStopped", "MarkerAdded", "Incident"}
  BY <1>6 DEF AfterAppend, TypeOK
<1> QED BY <1>2, <1>3, <1>4, <1>5, <1>6 DEF TypeOK

(* TypeOK holds initially. *)
LEMMA TypeInit == Init => TypeOK
<1> SUFFICES ASSUME Init PROVE TypeOK
  OBVIOUS
<1>1. NewManifest \in Manifests /\ NoManifest \in Manifests
  BY DEF NewManifest, NoManifest, Manifests, States, Statuses
<1>2. journal \in Seq(Records) /\ journalSynced \in 0..Len(journal) /\ outputs \in Seq(Nat)
  BY DEF Init
<1> QED BY <1>1, <1>2 DEF Init, TypeOK, CallTypeOK

(* A call begun from an idle Recorder leaves the disk as it is. *)
LEMMA TypeCalls ==
  ASSUME TypeOK, Calls
  PROVE  TypeOK'
<1> USE DEF TypeOK, disk, audio, log, memory
<1>0. BatchSizes \subseteq Nat /\ None \notin RequestIds
  BY BoundsAssumption, RequestsAssumption
<1>1. CASE Create
  BY <1>1, BeginSteps, OperationNames DEF Create
<1>2. ASSUME NEW op \in {"write", "gap"}, NEW frames \in BatchSizes, WriteFrames(op, frames)
      PROVE  TypeOK'
  BY <1>0, <1>2, BeginSteps, OperationNames DEF WriteFrames
<1>3. ASSUME NEW frames \in BatchSizes, RefuseWrite(frames)
      PROVE  TypeOK'
  BY <1>3, BeginSteps, OperationNames DEF RefuseWrite
<1>4. ASSUME NEW to \in States, ToState(to)
      PROVE  manifest' \in Manifests
  BY <1>4 DEF ToState, Manifests
<1>5. CASE Pause
  BY <1>5, <1>4, BeginSteps, OperationNames DEF Pause, States
<1>6. CASE Resume
  BY <1>6, <1>4, BeginSteps, OperationNames DEF Resume, States
<1>7. ASSUME NEW request \in RequestIds, AddMarker(request)
      PROVE  TypeOK'
  BY <1>0, <1>7, BeginSteps, OperationNames DEF AddMarker
<1>8. CASE RecordIncident
  BY <1>8, BeginSteps, OperationNames DEF RecordIncident
<1>9. CASE Finalize
  BY <1>9, <1>4, BeginSteps, OperationNames DEF Finalize, States
<1>10. CASE Snapshot
  BY <1>10 DEF Snapshot, Manifests, CallTypeOK
<1>11. CASE BeginRecover
  <2>1. PICK committed \in Frontiers(journal) :
          \E safe \in {committed} \cup Lengths : Begin("recover", safe, committed, None)
    BY <1>11 DEF BeginRecover
  <2>2. committed \in Nat
    BY DEF Frontiers, Records
  <2> PICK safe \in {committed} \cup Lengths : Begin("recover", safe, committed, None)
    BY <2>1
  <2>3. safe \in Nat
    BY <2>2 DEF Lengths
  <2>4. CallTypeOK'
    BY <2>2, <2>3, BeginSteps, OperationNames
  <2> QED BY <2>4, <1>11 DEF BeginRecover
<1>12. CASE RefuseRecovery
  BY <1>12 DEF RefuseRecovery, CallTypeOK
<1> QED BY <1>1, <1>2, <1>3, <1>5, <1>6, <1>7, <1>8, <1>9, <1>10, <1>11, <1>12 DEF Calls

(* Every system call keeps TypeOK. *)
LEMMA TypeSystemCalls ==
  ASSUME TypeOK, SystemCalls
  PROVE  TypeOK'
<1>0. CallTypeOK /\ life \in Lives /\ manifest \in Manifests
  BY DEF TypeOK, Lives
<1>1. ASSUME Label # "none", Proceed \/ NextChannel \/ Abort
      PROVE  CallTypeOK' /\ life' \in {"new", "live", "gone"}
  BY <1>0, <1>1, LabelType, CallSteps DEF Lives
<1>2. ASSUME Label # "none"
      PROVE  call.ch \in Channel /\ call.frames \in Nat
  BY <1>0, <1>2, LabelType
<1> USE DEF TypeOK, audio, log, disk
<1>3. CASE WriteAudio
  <2>1. length' \in [Channel -> Nat]
    <3>1. call.ch \in Channel /\ call.frames \in Nat /\ length \in [Channel -> Nat]
      BY <1>2, <1>3 DEF WriteAudio
    <3>2. length[call.ch] + call.frames \in Nat
      BY <3>1
    <3>3. length' = [length EXCEPT ![call.ch] = @ + call.frames]
      BY <1>3 DEF WriteAudio
    <3> QED BY ONLY <3>1, <3>2, <3>3
  <2>2. manifest' \in Manifests
    <3>0. manifest.written \in Nat /\ call.frames \in Nat
      BY <1>2, <1>3 DEF WriteAudio, Manifests
    <3>1. manifest.written + call.frames \in Nat
      BY <3>0
    <3> QED BY <1>3, <3>1 DEF WriteAudio, Manifests
  <2>3. aligned' \in [Channel -> Nat]
    BY <1>3, <2>2 DEF WriteAudio, Manifests
  <2> QED BY <1>1, <1>3, <2>1, <2>2, <2>3 DEF WriteAudio
<1>4. CASE SyncAudio
  <2>1. synced' \in [Channel -> Nat]
    BY <1>2, <1>4 DEF SyncAudio
  <2>2. manifest' \in Manifests
    BY <1>4 DEF SyncAudio, Manifests
  <2> QED BY <1>1, <1>4, <2>1, <2>2 DEF SyncAudio
<1>5. CASE AppendRecord
  <2>0. Label \in RecordKinds /\ Label # "none"
    BY <1>5 DEF AppendRecord, RecordKinds, RecorderRecords
  <2>1. PICK record \in NextRecord : journal' = Append(journal, record)
    BY <1>5 DEF AppendRecord
  <2>2. journal' \in Seq(Records) /\ Len(journal') = Len(journal) + 1 /\ Len(journal) \in Nat
    BY <2>0, <2>1, NextRecordType, JournalAppend
  <2>3. journalSynced' \in 0..Len(journal')
    BY <1>5, <2>2 DEF AppendRecord
  <2>4. manifest' \in Manifests
    BY <1>5, <2>0, AfterAppendType DEF AppendRecord
  <2>5. nextSequence' \in Nat
    BY <1>5 DEF AppendRecord
  <2> QED BY <1>1, <1>5, <2>0, <2>2, <2>3, <2>4, <2>5 DEF AppendRecord
<1>6. CASE PersistManifest
  BY <1>1, <1>6 DEF PersistManifest
<1>7. CASE RenameFinal
  <2>1. synced' \in [Channel -> Nat] /\ renamed' \subseteq Channel
    BY <1>2, <1>7 DEF RenameFinal
  <2>2. manifest' \in Manifests
    BY <1>7 DEF RenameFinal, Manifests, States, Statuses
  <2> QED BY <1>1, <1>7, <2>1, <2>2 DEF RenameFinal
<1>8. CASE ValidationFails
  BY <1>1, <1>8 DEF ValidationFails
<1>9. CASE RecoverOutput
  <2>1. outputs' \in Seq(Nat)
    BY <1>2, <1>9, AppendProperties DEF RecoverOutput
  <2> QED BY <1>1, <1>9, <2>1 DEF RecoverOutput
<1>10. CASE OutputExists
  BY <1>1, <1>10 DEF OutputExists
<1>11. CASE PersistRecovered
  <2>1. session' \in Manifests
    BY <1>2, <1>11 DEF PersistRecovered, RecoveredManifest, RecoveredStatus, Manifests, States, Statuses
  <2> QED BY <1>1, <1>11, <2>1 DEF PersistRecovered
<1>12. CASE AppendRecovery
  <2>0. Label \in RecordKinds /\ Label # "none"
    BY <1>12 DEF AppendRecovery, RecordKinds, RecoveryRecords
  <2>1. PICK record \in NextRecord : journal' = Append(journal, record)
    BY <1>12 DEF AppendRecovery
  <2>2. journal' \in Seq(Records) /\ Len(journal') = Len(journal) + 1 /\ Len(journal) \in Nat
    BY <2>0, <2>1, NextRecordType, JournalAppend
  <2>3. journalSynced' \in 0..Len(journal')
    BY <1>12, <2>2 DEF AppendRecovery
  <2> QED BY <1>1, <1>12, <2>0, <2>2, <2>3 DEF AppendRecovery, RecoveredStatus
<1> QED BY <1>3, <1>4, <1>5, <1>6, <1>7, <1>8, <1>9, <1>10, <1>11, <1>12 DEF SystemCalls

(* A failing call keeps TypeOK, whatever part of it was done. *)
LEMMA TypeIoError ==
  ASSUME TypeOK, IoError
  PROVE  TypeOK'
<1>0. Label # "none"
  BY DEF IoError, PartialWrite, PartialAppend, PartialPersist, PartialOutput, NoEffect, RecordKinds, RecorderRecords, RecoveryRecords
<1>1. /\ CallTypeOK' /\ life' \in {"new", "live", "gone"}
      /\ call.ch \in Channel /\ call.frames \in Nat
  BY <1>0, LabelType, CallSteps DEF TypeOK, IoError, Lives
<1>2. /\ length' \in [Channel -> Nat] /\ session' \in Manifests /\ outputs' \in Seq(Nat)
      /\ journal' \in Seq(Records) /\ journalSynced \in 0..Len(journal')
  <2>1. CASE PartialWrite
    <3>1. PICK part \in 0..call.frames : length' = [length EXCEPT ![call.ch] = @ + part]
      BY <2>1 DEF PartialWrite
    <3>2. part \in Nat
      BY <1>1, <3>1
    <3> QED BY <1>1, <2>1, <3>1, <3>2 DEF TypeOK, PartialWrite
  <2>2. CASE PartialAppend
    <3>1. journal' \in Seq(Records) /\ journalSynced \in 0..Len(journal')
      <4>1. CASE UNCHANGED journal
        BY <4>1 DEF TypeOK
      <4>2. ASSUME NEW record \in NextRecord \cup {Torn}, journal' = Append(journal, record)
            PROVE  journal' \in Seq(Records) /\ journalSynced \in 0..Len(journal')
        <5>1. record \in Records
          BY <2>2, NextRecordType, TornType DEF PartialAppend
        <5> QED BY <4>2, <5>1, JournalAppend DEF TypeOK
      <4> QED BY <2>2, <4>1, <4>2 DEF PartialAppend
    <3> QED BY <2>2, <3>1 DEF TypeOK, PartialAppend
  <2>3. CASE PartialPersist
    <3>1. RecoveredManifest \in Manifests
      BY <1>1 DEF TypeOK, RecoveredManifest, RecoveredStatus, Manifests, States, Statuses
    <3> QED BY <2>3, <3>1 DEF TypeOK, PartialPersist
  <2>4. CASE PartialOutput
    <3>1. PICK part \in 0..call.frames : outputs' = Append(outputs, part)
      BY <2>4 DEF PartialOutput
    <3>2. part \in Nat
      BY <1>1, <3>1
    <3> QED BY <2>4, <3>1, <3>2, AppendProperties DEF TypeOK, PartialOutput
  <2>5. CASE NoEffect
    BY <2>5 DEF TypeOK, NoEffect
  <2> QED BY <2>1, <2>2, <2>3, <2>4, <2>5 DEF IoError
<1> QED BY <1>1, <1>2 DEF TypeOK, IoError

(* What a crash leaves of the journal is typed. *)
LEMMA CrashJournal ==
  ASSUME TypeOK, NEW k \in journalSynced..Len(journal), NEW tail \in {<<>>, <<Torn>>}
  PROVE  /\ SubSeq(journal, 1, k) \o tail \in Seq(Records)
         /\ Len(SubSeq(journal, 1, k) \o tail) = k + Len(tail)
         /\ \A i \in 1..k : (SubSeq(journal, 1, k) \o tail)[i] = journal[i]
         /\ \A i \in (k+1)..(k + Len(tail)) : (SubSeq(journal, 1, k) \o tail)[i] = Torn
         /\ k \in 0..Len(journal) /\ Len(tail) \in {0, 1}
<1>1. k \in 0..Len(journal) /\ Len(journal) \in Nat
  BY LenProperties DEF TypeOK
<1>2. SubSeq(journal, 1, k) \in Seq(Records) /\ Len(SubSeq(journal, 1, k)) = k
      /\ \A i \in 1..k : SubSeq(journal, 1, k)[i] = journal[i]
  BY <1>1, SubSeqProperties DEF TypeOK
<1>3. tail \in Seq(Records) /\ Len(tail) \in {0, 1} /\ \A i \in 1..Len(tail) : tail[i] = Torn
  <2>1. CASE tail = <<>>
    BY <2>1
  <2>2. CASE tail = <<Torn>>
    BY <2>2, TornType
  <2> QED BY <2>1, <2>2
<1> QED BY <1>1, <1>2, <1>3, ConcatProperties

(* A crash keeps TypeOK. *)
LEMMA TypeCrash ==
  ASSUME TypeOK, Crash
  PROVE  TypeOK'
<1>1. PICK len \in [Channel -> UNION {synced[c]..length[c] : c \in Channel}] :
        /\ length' = len /\ synced' = len
        /\ aligned' = [c \in Channel |-> IF aligned[c] <= len[c] THEN aligned[c] ELSE len[c]]
  BY DEF Crash
<1>2. len \in [Channel -> Nat]
  BY DEF TypeOK
<1>3. aligned' \in [Channel -> Nat]
  BY <1>1, <1>2 DEF TypeOK
<1>4. journal' \in Seq(Records) /\ Len(journal') \in Nat
  <2>1. PICK k \in journalSynced..Len(journal), tail \in {<<>>, <<Torn>>} :
          journal' = SubSeq(journal, 1, k) \o tail
    BY DEF Crash
  <2> QED BY <2>1, CrashJournal, LenProperties
<1>5. outputs' \in Seq(Nat)
  <2>1. CASE Label = "output" /\ \E part \in 0..call.frames : outputs' = Append(outputs, part)
    <3>1. PICK part \in 0..call.frames : outputs' = Append(outputs, part)
      BY <2>1
    <3>2. part \in Nat
      BY <2>1, <3>1, LabelType DEF TypeOK
    <3> QED BY <3>1, <3>2, AppendProperties DEF TypeOK
  <2> QED BY <2>1 DEF Crash, TypeOK
<1>6. NewManifest \in Manifests
  BY DEF NewManifest, NoManifest, Manifests, States, Statuses
<1> QED BY <1>1, <1>2, <1>3, <1>4, <1>5, <1>6 DEF Crash, TypeOK, CallTypeOK

(* TypeOK is inductive. *)
LEMMA TypeNext == TypeOK /\ [Next]_vars => TypeOK'
<1> SUFFICES ASSUME TypeOK, [Next]_vars PROVE TypeOK'
  OBVIOUS
<1>1. CASE UNCHANGED vars
  BY <1>1 DEF TypeOK, CallTypeOK, vars, disk, audio, log, memory
<1> QED BY <1>1, TypeCalls, TypeSystemCalls, TypeIoError, TypeCrash DEF Next

(* Every reachable state is typed: TypeOK for every instance. *)
THEOREM TypeCorrect == Spec => []TypeOK
BY TypeInit, TypeNext, PTL DEF Spec

-------------------------------------------------------------------------------
(* A committed frontier is durable.  CommittedIsDurable alone is not       *)
(* inductive: what makes it so is where an operation stands among its      *)
(* channels.  No file is shorter than the frames counted, the channels     *)
(* already written hold the batch, the channels already synced hold the    *)
(* frames counted, and at the append of FramesCommitted all of them do.    *)

DurableInv ==
  /\ \A c \in Channel : synced[c] <= length[c] /\ manifest.written <= length[c]
  /\ CommittedIsDurable
  /\ Label = "audio" =>
       \A c \in Channel : c < call.ch => manifest.written + call.frames <= length[c]
  /\ Label = "sync" =>
       \A c \in Channel : c < call.ch => manifest.written <= synced[c]
  /\ Label = "FramesCommitted" =>
       \A c \in Channel : manifest.committed <= synced[c]

(* Between calls there is no label. *)
LEMMA LabelIdle == call = Idle => Label = "none"
BY DEF Label

(* Where a call stands after a step. *)
LEMMA Beginning ==
  ASSUME NEW op \in Operations, NEW frames, NEW goal, NEW request,
         Begin(op, frames, goal, request)
  PROVE  /\ Label' = Program[op][1] /\ call'.ch = 1
         /\ Label' # "FramesCommitted"
<1>1. Len(Program[op]) \in Nat \ {0} /\ 1 \in 1..Len(Program[op])
  BY ProgramTypes
<1>2. call' # Idle /\ call'.op = op /\ call'.step = 1 /\ call'.ch = 1
  BY OperationNames DEF Begin, Idle
<1>3. Label' = Program[op][1]
  BY <1>2 DEF Label
<1> QED BY <1>1, <1>2, <1>3, ProgramOrder

(* After a step the label is the next of the same program, or none. *)
LEMMA Proceeding ==
  ASSUME CallTypeOK, Label # "none", Proceed
  PROVE  \/ Label' = "none" /\ call' = Idle
         \/ /\ call' = [call EXCEPT !.step = @ + 1, !.ch = 1] /\ call'.ch = 1
            /\ call'.op = call.op /\ call'.frames = call.frames /\ call'.goal = call.goal
            /\ Label' = Program[call.op][call.step + 1]
            /\ call.step + 1 \in 2..Len(Program[call.op])
            /\ Label' # "audio" /\ Label' # "output"
            /\ Label' = "FramesCommitted" => Label = "sync"
<1>1. CASE call.step < Len(Program[call.op])
  <2>1. /\ call.op \in Operations /\ call.step \in 1..Len(Program[call.op])
        /\ Label = Program[call.op][call.step]
        /\ Len(Program[call.op]) \in Nat
    BY LabelType, ProgramTypes
  <2>2. /\ call' = [call EXCEPT !.step = @ + 1, !.ch = 1]
        /\ call'.op = call.op /\ call'.step = call.step + 1 /\ call'.ch = 1
        /\ call'.frames = call.frames /\ call'.goal = call.goal
    BY <1>1, LabelType DEF Proceed, CallTypeOK
  <2>3. call' # Idle
    BY <2>1, <2>2, OperationNames DEF Idle
  <2>4. Label' = Program[call.op][call.step + 1]
    BY <2>2, <2>3 DEF Label
  <2>5. call.step + 1 \in 2..Len(Program[call.op]) /\ (call.step + 1) - 1 = call.step
    BY <1>1, <2>1
  <2> QED BY <2>1, <2>2, <2>4, <2>5, ProgramOrder
<1>2. CASE Return
  BY <1>2 DEF Return, Label
<1> QED BY <1>1, <1>2 DEF Proceed

(* Within a loop over channels the label stays. *)
LEMMA Looping ==
  ASSUME CallTypeOK, Label # "none", call' = [call EXCEPT !.ch = @ + 1]
  PROVE  /\ Label' = Label /\ call'.ch = call.ch + 1 /\ call.ch \in Nat
         /\ call'.op = call.op /\ call'.frames = call.frames /\ call'.goal = call.goal
<1>1. call.op \in Operations /\ call # Idle /\ call.ch \in Nat
  BY LabelType DEF Channel
<1>2. /\ call'.op = call.op /\ call'.step = call.step /\ call'.ch = call.ch + 1
      /\ call'.frames = call.frames /\ call'.goal = call.goal
  BY <1>1 DEF CallTypeOK
<1>3. call' # Idle
  BY <1>1, <1>2, OperationNames DEF Idle
<1> QED BY <1>1, <1>2, <1>3 DEF Label

(* After an error there is no label. *)
LEMMA Aborting == Abort => Label' = "none"
BY DEF Abort, Label

(* A step that touches no file and begins, ends or leaves alone the call.  *)
LEMMA DurableQuiet ==
  ASSUME TypeOK, DurableInv,
         UNCHANGED <<length, synced>>, CommittedIsDurable',
         manifest'.written = manifest.written, manifest'.committed = manifest.committed,
         Label' = "none" \/ (call'.ch = 1 /\ Label' # "FramesCommitted") \/ UNCHANGED call
  PROVE  DurableInv'
<1>1. CASE UNCHANGED call
  BY <1>1 DEF DurableInv, Label
<1>2. CASE Label' = "none" \/ (call'.ch = 1 /\ Label' # "FramesCommitted")
  <2>1. \A c \in Channel : ~ (c < 1)
    BY DEF Channel
  <2> QED BY <1>2, <2>1 DEF DurableInv
<1> QED BY <1>1, <1>2

(* An append keeps CommittedIsDurable if the record it adds does. *)
LEMMA DurableAppend ==
  ASSUME TypeOK, CommittedIsDurable, NEW record \in Records,
         journal' = Append(journal, record), UNCHANGED synced,
         record.kind = "FramesCommitted" => \A c \in Channel : record.val <= synced[c]
  PROVE  CommittedIsDurable'
<1>1. /\ Len(journal') = Len(journal) + 1 /\ Len(journal) \in Nat
      /\ \A i \in 1..Len(journal) : journal'[i] = journal[i]
      /\ journal'[Len(journal) + 1] = record
  BY AppendProperties, LenProperties DEF TypeOK
<1>2. \A i \in 1..Len(journal') : i \in 1..Len(journal) \/ i = Len(journal) + 1
  BY <1>1
<1> QED BY <1>1, <1>2 DEF CommittedIsDurable

(* DurableInv holds initially. *)
LEMMA DurableInit == Init => DurableInv
BY LabelIdle DEF Init, DurableInv, CommittedIsDurable, NewManifest, NoManifest

(* Beginning or refusing a call keeps DurableInv. *)
LEMMA DurableCalls ==
  ASSUME TypeOK, DurableInv, Calls
  PROVE  DurableInv'
<1> USE DEF disk, audio, log, memory
<1>1. UNCHANGED <<length, synced, journal>>
  BY DEF Calls, Create, WriteFrames, RefuseWrite, Pause, Resume, AddMarker, RecordIncident,
         Finalize, Snapshot, BeginRecover, RefuseRecovery
<1>2. CommittedIsDurable'
  BY <1>1 DEF DurableInv, CommittedIsDurable
<1>3. \A to : ToState(to) => /\ manifest'.written = manifest.written
                              /\ manifest'.committed = manifest.committed
  BY DEF ToState, TypeOK, Manifests
<1>4. /\ manifest'.written = manifest.written
      /\ manifest'.committed = manifest.committed
  BY <1>3 DEF Calls, Create, WriteFrames, RefuseWrite, Pause, Resume, AddMarker, RecordIncident,
         Finalize, Snapshot, BeginRecover, RefuseRecovery
<1>5. \/ UNCHANGED call
      \/ \E op \in Operations : \E frames, goal, request : Begin(op, frames, goal, request)
  BY OperationNames DEF Calls, Create, WriteFrames, RefuseWrite, Pause, Resume, AddMarker,
         RecordIncident, Finalize, Snapshot, BeginRecover, RefuseRecovery
<1>6. UNCHANGED call \/ (call'.ch = 1 /\ Label' # "FramesCommitted")
  BY <1>5, Beginning
<1> QED BY <1>1, <1>2, <1>4, <1>6, DurableQuiet

(* Every system call of commit, of the recorder and of recovery keeps DurableInv. *)
LEMMA DurableSystemCalls ==
  ASSUME TypeOK, DurableInv, SystemCalls
  PROVE  DurableInv'
<1> USE DEF disk, audio, log
<1>1. CallTypeOK /\ CommittedIsDurable
  BY DEF TypeOK, DurableInv
<1>2. ASSUME Label # "none", Proceed, Label # "sync"
      PROVE  Label' = "none" \/ (call'.ch = 1 /\ Label' # "FramesCommitted")
  BY <1>1, <1>2, Proceeding
<1>3. \A c \in Channel : c \in Nat /\ ~ (c < 1) /\ (~ (c < NumChannels) => c = NumChannels)
  BY ChannelsAssumption DEF Channel
<1>4. CASE WriteAudio
  <2>1. Label = "audio" /\ call.ch \in Channel /\ call.frames \in Nat
    BY <1>1, <1>4, LabelType DEF WriteAudio
  <2>2. length' = [length EXCEPT ![call.ch] = @ + call.frames]
        /\ UNCHANGED <<synced, journal>>
    BY <1>4 DEF WriteAudio
  <2>3. \A c \in Channel : length'[c] >= length[c] /\ length'[c] \in Nat
                           /\ synced[c] <= length'[c]
    BY <2>1, <2>2 DEF TypeOK, DurableInv
  <2>4. CommittedIsDurable'
    BY <1>1, <2>2 DEF CommittedIsDurable
  <2>5. length'[call.ch] = length[call.ch] + call.frames
        /\ manifest.written + call.frames <= length'[call.ch]
        /\ manifest.written \in Nat
    BY <2>1, <2>2 DEF TypeOK, DurableInv, Manifests
  <2>6. \A c \in Channel : c < call.ch + 1 => manifest.written + call.frames <= length'[c]
    <3> SUFFICES ASSUME NEW c \in Channel, c < call.ch + 1
                 PROVE  manifest.written + call.frames <= length'[c]
      OBVIOUS
    <3>1. CASE c = call.ch
      BY <2>5, <3>1
    <3>2. CASE c < call.ch
      <4>1. manifest.written + call.frames <= length[c] /\ length[c] \in Nat
        BY <2>1, <3>2 DEF DurableInv, TypeOK
      <4> QED BY <2>1, <2>3, <2>5, <4>1
    <3>3. c \in Nat /\ call.ch \in Nat
      BY <1>3, <2>1
    <3> QED BY <3>1, <3>2, <3>3
  <2>7. CASE LastChannel /\ Proceed
    <3>1. manifest'.written = manifest.written + call.frames
          /\ manifest'.committed = manifest.committed
      BY <1>4, <2>7 DEF WriteAudio, TypeOK, Manifests
    <3>2. \A c \in Channel : manifest'.written <= length'[c]
      BY <1>3, <2>1, <2>6, <2>7, <3>1, ChannelsAssumption DEF LastChannel, Channel
    <3>3. Label' = "none" \/ (call'.ch = 1 /\ Label' # "FramesCommitted")
      BY <1>2, <2>1, <2>7
    <3> QED BY <1>3, <2>2, <2>3, <2>4, <3>2, <3>3 DEF DurableInv
  <2>8. CASE ~ LastChannel /\ call' = [call EXCEPT !.ch = @ + 1]
    <3>1. Label' = "audio" /\ call'.ch = call.ch + 1 /\ call'.frames = call.frames
      BY <1>1, <2>1, <2>8, Looping
    <3>2. UNCHANGED manifest
      BY <1>4, <2>8 DEF WriteAudio
    <3>3. \A c \in Channel : manifest.written <= length'[c]
      BY <2>3, <2>5 DEF DurableInv, TypeOK
    <3> QED BY <2>2, <2>3, <2>4, <2>6, <3>1, <3>2, <3>3 DEF DurableInv
  <2> QED BY <1>4, <2>7, <2>8 DEF WriteAudio, NextChannel
<1>5. CASE SyncAudio
  <2>1. Label = "sync" /\ call.ch \in Channel
    BY <1>1, <1>5, LabelType DEF SyncAudio
  <2>2. synced' = [synced EXCEPT ![call.ch] = length[call.ch]] /\ UNCHANGED <<length, journal>>
    BY <1>5 DEF SyncAudio
  <2>3. \A c \in Channel : synced[c] <= synced'[c] /\ synced'[c] \in Nat
                           /\ synced'[c] <= length[c]
    <3>1. \A c \in Channel : synced[c] \in Nat /\ length[c] \in Nat /\ synced[c] <= length[c]
      BY DEF TypeOK, DurableInv
    <3>2. \A c \in Channel : synced'[c] = IF c = call.ch THEN length[c] ELSE synced[c]
      BY <2>1, <2>2 DEF TypeOK
    <3> QED BY <3>1, <3>2
  <2>4. CommittedIsDurable'
    <3> SUFFICES ASSUME NEW i \in 1..Len(journal), journal[i].kind = "FramesCommitted",
                        NEW c \in Channel
                 PROVE  journal[i].val <= synced'[c]
      BY <2>2 DEF CommittedIsDurable
    <3>1. journal[i].val <= synced[c]
      BY <1>1 DEF CommittedIsDurable
    <3>2. journal[i].val \in Nat /\ synced[c] \in Nat
      BY DEF TypeOK, Records
    <3> QED BY <2>3, <3>1, <3>2
  <2>5. \A c \in Channel : c < call.ch + 1 => manifest.written <= synced'[c]
    <3> SUFFICES ASSUME NEW c \in Channel, c < call.ch + 1
                 PROVE  manifest.written <= synced'[c]
      OBVIOUS
    <3>0. manifest.written \in Nat /\ synced[c] \in Nat
      BY DEF TypeOK, Manifests
    <3>1. CASE c = call.ch
      BY <2>2, <3>1 DEF TypeOK, DurableInv
    <3>2. CASE c < call.ch
      <4>1. manifest.written <= synced[c]
        BY <2>1, <3>2 DEF DurableInv
      <4> QED BY <2>3, <3>0, <4>1
    <3>3. c \in Nat /\ call.ch \in Nat
      BY <1>3, <2>1
    <3> QED BY <3>1, <3>2, <3>3
  <2>6. CASE LastChannel /\ Proceed
    <3>1. manifest'.written = manifest.written /\ manifest'.committed = manifest.written
      BY <1>5, <2>6 DEF SyncAudio, TypeOK, Manifests
    <3>2. \A c \in Channel : manifest'.committed <= synced'[c]
      BY <1>3, <2>1, <2>5, <2>6, <3>1, ChannelsAssumption DEF LastChannel, Channel
    <3>3. Label' = "none" \/ (call'.ch = 1 /\ Label' # "audio")
      BY <1>1, <2>1, <2>6, Proceeding
    <3> QED BY <1>3, <2>2, <2>3, <2>4, <3>1, <3>2, <3>3 DEF DurableInv
  <2>7. CASE ~ LastChannel /\ call' = [call EXCEPT !.ch = @ + 1]
    <3>1. Label' = "sync" /\ call'.ch = call.ch + 1
      BY <1>1, <2>1, <2>7, Looping
    <3>2. UNCHANGED manifest
      BY <1>5, <2>7 DEF SyncAudio
    <3> QED BY <2>2, <2>3, <2>4, <2>5, <3>1, <3>2 DEF DurableInv
  <2> QED BY <1>5, <2>6, <2>7 DEF SyncAudio, NextChannel
<1>6. CASE AppendRecord
  <2>1. Label \in RecordKinds /\ Label \notin {"none", "sync"}
    BY <1>6 DEF AppendRecord, RecordKinds, RecorderRecords
  <2>2. PICK record \in NextRecord : journal' = Append(journal, record)
    BY <1>6 DEF AppendRecord
  <2>3. CommittedIsDurable'
    BY <1>1, <1>6, <2>1, <2>2, NextRecordType, DurableAppend DEF AppendRecord, DurableInv
  <2> QED BY <1>2, <1>6, <2>1, <2>3, AfterAppendType, DurableQuiet DEF AppendRecord
<1>7. CASE PersistManifest \/ PersistRecovered
  <2>1. CommittedIsDurable'
    BY <1>1, <1>7 DEF PersistManifest, PersistRecovered, CommittedIsDurable
  <2> QED BY <1>2, <1>7, <2>1, DurableQuiet DEF PersistManifest, PersistRecovered
<1>8. CASE RenameFinal
  <2>1. Label = "rename" /\ call.ch \in Channel
    BY <1>1, <1>8, LabelType DEF RenameFinal
  <2>2. synced' = [synced EXCEPT ![call.ch] = length[call.ch]] /\ UNCHANGED <<length, journal>>
    BY <1>8 DEF RenameFinal
  <2>3. \A c \in Channel : synced[c] <= synced'[c] /\ synced'[c] \in Nat
                           /\ synced'[c] <= length[c]
    <3>1. \A c \in Channel : synced[c] \in Nat /\ length[c] \in Nat /\ synced[c] <= length[c]
      BY DEF TypeOK, DurableInv
    <3>2. \A c \in Channel : synced'[c] = IF c = call.ch THEN length[c] ELSE synced[c]
      BY <2>1, <2>2 DEF TypeOK
    <3> QED BY <3>1, <3>2
  <2>4. CommittedIsDurable'
    <3> SUFFICES ASSUME NEW i \in 1..Len(journal), journal[i].kind = "FramesCommitted",
                        NEW c \in Channel
                 PROVE  journal[i].val <= synced'[c]
      BY <2>2 DEF CommittedIsDurable
    <3>1. journal[i].val <= synced[c]
      BY <1>1 DEF CommittedIsDurable
    <3>2. journal[i].val \in Nat /\ synced[c] \in Nat
      BY DEF TypeOK, Records
    <3> QED BY <2>3, <3>1, <3>2
  <2>5. manifest'.written = manifest.written
    BY <1>8 DEF RenameFinal, TypeOK, Manifests
  <2>6. Label' \in {"none", "rename"} \/ (call'.ch = 1 /\ Label' # "FramesCommitted")
    BY <1>1, <1>2, <1>8, <2>1, Looping DEF RenameFinal, NextChannel
  <2> QED BY <1>3, <2>2, <2>3, <2>4, <2>5, <2>6 DEF DurableInv
<1>9. CASE ValidationFails \/ OutputExists
  <2>1. CommittedIsDurable'
    BY <1>1, <1>9 DEF ValidationFails, OutputExists, CommittedIsDurable
  <2> QED BY <1>9, <2>1, Aborting, DurableQuiet DEF ValidationFails, OutputExists
<1>10. CASE RecoverOutput
  <2>1. CommittedIsDurable'
    BY <1>1, <1>10 DEF RecoverOutput, CommittedIsDurable
  <2>2. Label' \in {"none", "output"} \/ (call'.ch = 1 /\ Label' # "FramesCommitted")
    BY <1>1, <1>2, <1>10, Looping DEF RecoverOutput, NextChannel
  <2> QED BY <1>3, <1>10, <2>1, <2>2 DEF RecoverOutput, DurableInv
<1>11. CASE AppendRecovery
  <2>1. Label \in RecordKinds /\ Label \notin {"none", "sync", "FramesCommitted"}
    BY <1>11 DEF AppendRecovery, RecordKinds, RecoveryRecords
  <2>2. PICK record \in NextRecord : journal' = Append(journal, record)
    BY <1>11 DEF AppendRecovery
  <2>3. CommittedIsDurable'
    BY <1>1, <1>11, <2>1, <2>2, NextRecordType, DurableAppend DEF AppendRecovery
  <2> QED BY <1>2, <1>11, <2>1, <2>3, DurableQuiet DEF AppendRecovery
<1> QED BY <1>4, <1>5, <1>6, <1>7, <1>8, <1>9, <1>10, <1>11 DEF SystemCalls

(* A failing call keeps DurableInv, whatever part of it was done. *)
LEMMA DurableIoError ==
  ASSUME TypeOK, DurableInv, IoError
  PROVE  DurableInv'
<1>0. Label # "none"
  BY DEF IoError, PartialWrite, PartialAppend, PartialPersist, PartialOutput, NoEffect,
         RecordKinds, RecorderRecords, RecoveryRecords
<1>1. Label' = "none" /\ UNCHANGED <<synced, manifest>>
  BY Aborting DEF IoError
<1>2. \A c \in Channel : length[c] \in Nat /\ length'[c] \in Nat /\ length[c] <= length'[c]
  <2>1. CASE PartialWrite
    <3>1. PICK part \in 0..call.frames : length' = [length EXCEPT ![call.ch] = @ + part]
      BY <2>1 DEF PartialWrite
    <3>2. part \in Nat /\ call.ch \in Channel
      BY <1>0, <3>1, LabelType DEF TypeOK
    <3>3. \A c \in Channel : length'[c] = IF c = call.ch THEN length[c] + part ELSE length[c]
      BY <3>1, <3>2 DEF TypeOK
    <3>4. \A c \in Channel : length[c] \in Nat
      BY DEF TypeOK
    <3> QED BY <3>2, <3>3, <3>4
  <2>2. CASE UNCHANGED length
    BY <2>2 DEF TypeOK
  <2> QED BY <2>1, <2>2 DEF IoError, PartialAppend, PartialPersist, PartialOutput, NoEffect
<1>3. CommittedIsDurable'
  <2>1. CASE UNCHANGED journal
    BY <1>1, <2>1 DEF DurableInv, CommittedIsDurable
  <2>2. CASE PartialAppend /\ ~ UNCHANGED journal
    <3>1. PICK record \in NextRecord \cup {Torn} : journal' = Append(journal, record)
      BY <2>2 DEF PartialAppend
    <3>2. /\ record \in Records
          /\ record.kind = "FramesCommitted" =>
               record.val = manifest.committed /\ Label = "FramesCommitted"
      BY <2>2, <3>1, NextRecordType, TornType DEF PartialAppend, Torn
    <3>3. record.kind = "FramesCommitted" => \A c \in Channel : record.val <= synced[c]
      BY <3>2 DEF DurableInv
    <3> QED BY <1>1, <3>1, <3>2, <3>3, DurableAppend DEF DurableInv
  <2> QED BY <2>1, <2>2 DEF IoError, PartialWrite, PartialPersist, PartialOutput, NoEffect
<1>4. \A c \in Channel : synced[c] \in Nat /\ manifest.written \in Nat
  BY DEF TypeOK, Manifests
<1> QED BY <1>1, <1>2, <1>3, <1>4 DEF DurableInv

(* A crash keeps DurableInv: what was synced is not lost. *)
LEMMA DurableCrash ==
  ASSUME TypeOK, DurableInv, Crash
  PROVE  DurableInv'
<1>1. PICK len \in [Channel -> UNION {synced[c]..length[c] : c \in Channel}] :
        /\ \A c \in Channel : synced[c] <= len[c] /\ len[c] <= length[c]
        /\ length' = len /\ synced' = len
  BY DEF Crash
<1>2. \A c \in Channel : len[c] \in Nat /\ synced[c] \in Nat
  BY DEF TypeOK
<1>3. PICK k \in journalSynced..Len(journal), tail \in {<<>>, <<Torn>>} :
        journal' = SubSeq(journal, 1, k) \o tail
  BY DEF Crash
<1>4. CommittedIsDurable'
  <2> SUFFICES ASSUME NEW i \in 1..Len(journal'), journal'[i].kind = "FramesCommitted",
                      NEW c \in Channel
               PROVE  journal'[i].val <= synced'[c]
    BY DEF CommittedIsDurable
  <2>1. k \in 0..Len(journal) /\ Len(journal) \in Nat /\ Len(tail) \in {0, 1}
        /\ Len(journal') = k + Len(tail)
    BY <1>3, CrashJournal, LenProperties DEF TypeOK
  <2>2. i \in 1..k \/ i \in (k+1)..(k + Len(tail))
    BY <2>1
  <2>3. i \in 1..k
    BY <1>3, <2>2, CrashJournal DEF Torn
  <2>4. i \in 1..Len(journal) /\ journal'[i] = journal[i]
    BY <1>3, <2>1, <2>3, CrashJournal
  <2>5. journal[i].val <= synced[c] /\ journal[i].val \in Nat
    <3>1. journal[i] \in Records
      BY <2>4, ElementOfSeq DEF TypeOK
    <3>2. journal[i].kind = "FramesCommitted"
      BY <2>4
    <3> QED BY <2>4, <3>1, <3>2 DEF DurableInv, CommittedIsDurable, Records
  <2>6. journal'[i].val = journal[i].val
    BY <2>4
  <2>7. synced'[c] = len[c] /\ synced[c] <= len[c] /\ len[c] \in Nat /\ synced[c] \in Nat
    BY <1>1, <1>2
  <2> QED BY ONLY <2>5, <2>6, <2>7
<1>5. manifest'.written = 0 /\ Label' = "none"
  BY LabelIdle DEF Crash, NewManifest, NoManifest, Label
<1> QED BY <1>1, <1>2, <1>4, <1>5 DEF DurableInv

(* DurableInv is inductive, given TypeOK. *)
LEMMA DurableNext == TypeOK /\ DurableInv /\ [Next]_vars => DurableInv'
<1> SUFFICES ASSUME TypeOK, DurableInv, [Next]_vars PROVE DurableInv'
  OBVIOUS
<1>1. CASE UNCHANGED vars
  BY <1>1 DEF DurableInv, CommittedIsDurable, Label, vars, disk, audio, log, memory
<1> QED BY <1>1, DurableCalls, DurableSystemCalls, DurableIoError, DurableCrash DEF Next

(* Both invariants hold in every reachable state. *)
LEMMA DurableAlways == Spec => [](TypeOK /\ DurableInv)
<1>1. Init => TypeOK /\ DurableInv
  BY TypeInit, DurableInit
<1>2. TypeOK /\ DurableInv /\ [Next]_vars => (TypeOK /\ DurableInv)'
  BY TypeNext, DurableNext
<1> QED BY <1>1, <1>2, PTL DEF Spec

(* A FramesCommitted record names frames that every channel's file holds   *)
(* synced, whatever calls failed and wherever a crash fell.                *)
THEOREM CommitsAreDurable == Spec => []CommittedIsDurable
<1>1. TypeOK /\ DurableInv => CommittedIsDurable
  BY DEF DurableInv
<1> QED BY <1>1, DurableAlways, PTL

-------------------------------------------------------------------------------
(* What a reader makes of the journal depends on its prefix only: an       *)
(* append of another kind, or the loss of a tail, adds no frontier.        *)

LEMMA FrontierType ==
  ASSUME TypeOK, NEW f \in Frontiers(journal)
  PROVE  f \in Nat
BY DEF TypeOK, Frontiers, Records

(* What is read of a journal depends only on the records up to it. *)
LEMMA ReadablePrefix ==
  ASSUME NEW j, NEW h, NEW n \in Nat, Len(j) \in Nat, Len(h) \in Nat, n <= Len(j),
         \A i \in 1..n : h[i] = j[i],
         NEW k \in 1..n, Readable(h, k)
  PROVE  Readable(j, k)
<1>1. k \in Nat /\ k \in 1..Len(j) /\ \A i \in 1..k : i \in 1..n
  OBVIOUS
<1>2. \A i \in 1..k : h[i] = j[i]
  BY <1>1
<1>3. \A i \in 1..k : j[i].kind # "torn"
  BY <1>2 DEF Readable
<1>4. ASSUME NEW i \in 1..(k-1)
      PROVE  j[i+1].seq = j[i].seq + 1
  <2>1. i \in 1..k /\ i + 1 \in 1..k
    BY <1>1
  <2>2. h[i+1].seq = h[i].seq + 1
    BY DEF Readable
  <2> QED BY <1>2, <2>1, <2>2
<1> QED BY <1>1, <1>3, <1>4 DEF Readable

(* Appending anything but FramesCommitted adds no frontier. *)
LEMMA FrontierAppend ==
  ASSUME TypeOK, NEW record \in Records, record.kind # "FramesCommitted",
         journal' = Append(journal, record)
  PROVE  Frontiers(journal)' \subseteq Frontiers(journal)
<1>1. /\ Len(journal) \in Nat /\ Len(journal') = Len(journal) + 1
      /\ \A i \in 1..Len(journal) : journal'[i] = journal[i]
      /\ journal'[Len(journal) + 1] = record
  BY AppendProperties, LenProperties DEF TypeOK
<1> SUFFICES ASSUME NEW i \in 1..Len(journal'), Readable(journal', i),
                    journal'[i].kind = "FramesCommitted"
             PROVE  journal'[i].val \in Frontiers(journal)
  BY DEF Frontiers
<1>2. i \in 1..Len(journal) /\ Len(journal') \in Nat /\ Len(journal) <= Len(journal)
  <2>1. i # Len(journal) + 1
    BY <1>1
  <2> QED BY <1>1, <2>1
<1>3. Readable(journal, i)
  BY <1>1, <1>2, ReadablePrefix
<1> QED BY <1>1, <1>2, <1>3 DEF Frontiers

(* A crash adds no frontier. *)
LEMMA FrontierCrash ==
  ASSUME TypeOK, Crash
  PROVE  Frontiers(journal)' \subseteq Frontiers(journal)
<1>1. PICK k \in journalSynced..Len(journal), tail \in {<<>>, <<Torn>>} :
        journal' = SubSeq(journal, 1, k) \o tail
  BY DEF Crash
<1>2. /\ k \in Nat /\ k <= Len(journal) /\ Len(journal) \in Nat /\ Len(tail) \in {0, 1}
      /\ Len(journal') = k + Len(tail)
      /\ \A i \in 1..k : journal'[i] = journal[i]
      /\ \A i \in (k+1)..(k + Len(tail)) : journal'[i] = Torn
  BY <1>1, CrashJournal, LenProperties DEF TypeOK
<1> SUFFICES ASSUME NEW i \in 1..Len(journal'), Readable(journal', i),
                    journal'[i].kind = "FramesCommitted"
             PROVE  journal'[i].val \in Frontiers(journal)
  BY DEF Frontiers
<1>3. i \in 1..k \/ i \in (k+1)..(k + Len(tail))
  BY <1>2
<1>4. i \in 1..k
  BY <1>2, <1>3 DEF Torn
<1>5. i \in 1..Len(journal) /\ Len(journal') \in Nat
  BY <1>2, <1>4
<1>6. Readable(journal, i)
  BY <1>2, <1>4, <1>5, ReadablePrefix
<1> QED BY <1>2, <1>4, <1>5, <1>6 DEF Frontiers

-------------------------------------------------------------------------------
(* Recovery is exact.  While a recovery runs its target is the frontier    *)
(* itself, since every frontier is durable, and the outputs made so far    *)
(* have that length; once one has been made, no Recorder is left to commit *)
(* more, and a second attempt stops at the first output.                   *)

Recovered == session.status \in {"Recovered", "PartiallyRecovered"}

RecoveryInv ==
  /\ RecoveryIsExact
  /\ Len(outputs) <= NumChannels
  /\ Recovered => life = "gone"
  /\ life = "gone" => call = Idle \/ call.op = "recover"
  /\ manifest.status \notin {"Recovered", "PartiallyRecovered"}
  /\ call.op = "recover" =>
       /\ life = "gone"
       /\ call.frames = call.goal
       /\ \A f \in Frontiers(journal) : f <= call.frames
       /\ Label = "output" =>
            /\ call.ch <= Len(outputs) + 1
            /\ \A c \in Channel : c < call.ch => outputs[c] = call.frames
       /\ Label # "output" =>
            Len(outputs) = NumChannels /\ \A c \in Channel : outputs[c] = call.frames

(* RecoveryInv holds initially. *)
LEMMA RecoveryInit == Init => RecoveryInv
BY ChannelsAssumption DEF Init, RecoveryInv, RecoveryIsExact, Recovered, NewManifest, NoManifest, Idle

(* A recovery has labels of its own. *)
LEMMA RecoveryLabels ==
  ASSUME CallTypeOK, Label # "none"
  PROVE  Label \in RecoveryRecords \cup {"output", "recovered"} <=> call.op = "recover"
BY LabelType, ProgramOrder

(* No step hands a call of one operation to another, or ends a Recorder    *)
(* without ending its call.                                                *)
LEMMA CallOwner ==
  ASSUME CallTypeOK, Label # "none", Proceed \/ NextChannel \/ Abort
  PROVE  /\ call' = Idle \/ (call'.op = call.op /\ life' = life)
         /\ call.op = "recover" => life' = life
<1>1. CASE Return \/ Abort
  BY <1>1 DEF Return, Abort
<1>2. CASE Proceed /\ ~ Return
  BY <1>2, LabelType DEF Proceed, CallTypeOK
<1>3. CASE call' = [call EXCEPT !.ch = @ + 1] /\ UNCHANGED life
  BY <1>3, Looping
<1> QED BY <1>1, <1>2, <1>3 DEF NextChannel

(* A Recorder at work: no recovery was made, and the step makes none. *)
LEMMA RecorderAtWork ==
  ASSUME TypeOK, RecoveryInv, Label # "none", call.op # "recover",
         Proceed \/ NextChannel \/ Abort,
         UNCHANGED outputs, session' \in {session, manifest},
         manifest'.status \notin {"Recovered", "PartiallyRecovered"}
  PROVE  RecoveryInv'
<1>1. CallTypeOK /\ call # Idle
  BY LabelType DEF TypeOK
<1>2. life # "gone" /\ ~ Recovered
  BY <1>1 DEF RecoveryInv
<1>3. ~ Recovered'
  BY <1>2 DEF RecoveryInv, Recovered
<1>4. call' = Idle \/ (call'.op = call.op /\ life' = life)
  BY <1>1, CallOwner
<1>5. call'.op # "recover"
  BY <1>4 DEF Idle
<1>6. life' = "gone" => call' = Idle
  BY <1>2, <1>4
<1> QED BY <1>3, <1>5, <1>6 DEF RecoveryInv, RecoveryIsExact, Recovered

(* Beginning or refusing a call keeps RecoveryInv: a recovery starts at the frontier. *)
LEMMA RecoveryCalls ==
  ASSUME RecoverLive = FALSE, TypeOK, DurableInv, RecoveryInv, Calls
  PROVE  RecoveryInv'
<1> USE DEF disk, audio, log, memory
<1>1. /\ UNCHANGED <<journal, session, outputs, life>>
      /\ Recovered' = Recovered /\ Frontiers(journal)' = Frontiers(journal)
      /\ RecoveryIsExact'
  BY DEF Calls, Create, WriteFrames, RefuseWrite, Pause, Resume, AddMarker, RecordIncident,
         Finalize, Snapshot, BeginRecover, RefuseRecovery, Recovered, RecoveryInv,
         RecoveryIsExact
<1>2. manifest'.status = manifest.status
  BY DEF Calls, Create, WriteFrames, RefuseWrite, Pause, Resume, AddMarker, RecordIncident,
         Finalize, Snapshot, BeginRecover, RefuseRecovery, ToState, TypeOK, Manifests
<1>3. CASE BeginRecover
  <2>1. life = "gone"
    BY <1>3 DEF BeginRecover, RecoveryCanStart
  <2>2. PICK committed \in Frontiers(journal) :
          \E safe \in {committed} \cup Lengths :
            /\ IsFrontier(journal, committed) /\ RecoveryFrames(committed, safe)
            /\ Begin("recover", safe, committed, None)
    BY <1>3 DEF BeginRecover
  <2>3. PICK safe \in {committed} \cup Lengths :
            /\ IsFrontier(journal, committed) /\ RecoveryFrames(committed, safe)
            /\ Begin("recover", safe, committed, None)
    BY <2>2
  <2>4. \A c \in Channel : committed <= length[c]
    <3>1. committed = 0 \/ \E i \in 1..Len(journal) :
            journal[i].kind = "FramesCommitted" /\ journal[i].val = committed
      BY DEF Frontiers
    <3>2. \A c \in Channel : synced[c] \in Nat /\ length[c] \in Nat /\ synced[c] <= length[c]
      BY DEF DurableInv, TypeOK
    <3>3. committed \in Nat
      BY FrontierType
    <3> QED BY <3>1, <3>2, <3>3 DEF DurableInv, CommittedIsDurable
  <2>5. safe = committed
    <3>1. safe \in Nat /\ committed \in Nat
      BY FrontierType DEF Lengths, TypeOK
    <3>2. safe <= committed
      BY <2>3 DEF RecoveryFrames, IsLeast
    <3>3. committed <= safe
      BY <2>4, <3>1 DEF Lengths
    <3> QED BY <3>1, <3>2, <3>3
  <2>6. /\ call'.op = "recover" /\ call'.frames = safe /\ call'.goal = committed
        /\ Label' = "output" /\ call'.ch = 1
    <3>1. Label' = Program["recover"][1] /\ call'.ch = 1
      BY <2>3, Beginning, OperationNames
    <3>2. Program["recover"][1] = "output"
      BY DEF Program
    <3> QED BY <2>3, <3>1, <3>2 DEF Begin
  <2>7. \A f \in Frontiers(journal) : f <= safe
    BY <2>3, <2>5 DEF IsFrontier, IsGreatest
  <2>8. \A c \in Channel : ~ (c < 1)
    BY DEF Channel
  <2>9. Len(outputs) \in Nat
    BY LenProperties DEF TypeOK
  <2> QED BY <1>1, <1>2, <2>1, <2>5, <2>6, <2>7, <2>8, <2>9 DEF RecoveryInv
<1>4. CASE UNCHANGED call
  BY <1>1, <1>2, <1>4 DEF RecoveryInv, Label
<1>5. ASSUME NEW op \in Operations, NEW frames, NEW goal, NEW request,
             op # "recover", life # "gone", Begin(op, frames, goal, request)
      PROVE  RecoveryInv'
  BY <1>1, <1>2, <1>5 DEF RecoveryInv, Begin
<1>6. \/ BeginRecover \/ UNCHANGED call
      \/ life # "gone" /\ \E op \in Operations \ {"recover"} : \E frames, goal, request :
           Begin(op, frames, goal, request)
  BY OperationNames DEF Calls, Create, WriteFrames, RefuseWrite, Pause, Resume, AddMarker,
     RecordIncident, Finalize, Snapshot, RefuseRecovery, Ready
<1> QED BY <1>3, <1>4, <1>5, <1>6

(* Every system call keeps RecoveryInv. *)
LEMMA RecoverySystemCalls ==
  ASSUME RecoverLive = FALSE, TypeOK, RecoveryInv, SystemCalls
  PROVE  RecoveryInv'
<1> USE DEF disk, audio, log
<1>0. CallTypeOK
  BY DEF TypeOK
<1>1. CASE WriteAudio \/ SyncAudio \/ AppendRecord \/ PersistManifest \/ RenameFinal \/ ValidationFails
  <2>1. Label # "none" /\ Label \notin RecoveryRecords \cup {"output", "recovered"}
    BY <1>1 DEF WriteAudio, SyncAudio, AppendRecord, PersistManifest, RenameFinal, ValidationFails,
       RecorderRecords, RecoveryRecords
  <2>2. call.op # "recover"
    BY <1>0, <2>1, RecoveryLabels
  <2>3. /\ UNCHANGED outputs /\ session' \in {session, manifest}
        /\ Proceed \/ NextChannel \/ Abort
    BY <1>1 DEF WriteAudio, SyncAudio, AppendRecord, PersistManifest, RenameFinal, ValidationFails
  <2>4. manifest'.status \notin {"Recovered", "PartiallyRecovered"}
    <3>1. CASE WriteAudio \/ SyncAudio \/ PersistManifest \/ RenameFinal \/ ValidationFails
      BY <3>1 DEF WriteAudio, SyncAudio, PersistManifest, RenameFinal, ValidationFails,
         RecoveryInv, TypeOK, Manifests
    <3>2. CASE AppendRecord
      <4>1. AfterAppend.status = manifest.status
        BY DEF AfterAppend, TypeOK, Manifests
      <4> QED BY <3>2, <4>1 DEF AppendRecord, RecoveryInv
    <3> QED BY <1>1, <3>1, <3>2
  <2> QED BY <2>1, <2>2, <2>3, <2>4, RecorderAtWork
<1>2. ASSUME Label # "none", Label \in RecoveryRecords \cup {"output", "recovered"}
      PROVE  /\ call.op = "recover" /\ life = "gone" /\ call # Idle
             /\ call.ch \in Channel /\ call.frames \in Nat /\ call.frames = call.goal
             /\ \A f \in Frontiers(journal) : f <= call.frames
  BY <1>0, <1>2, RecoveryLabels, LabelType DEF RecoveryInv
<1>3. \A c \in Channel : c \in Nat /\ c <= NumChannels
  BY ChannelsAssumption DEF Channel
<1>4. CASE RecoverOutput
  <2>1. /\ Label = "output" /\ outputs' = Append(outputs, call.frames) /\ Len(outputs) < call.ch
        /\ UNCHANGED <<journal, session, manifest>>
    BY <1>4 DEF RecoverOutput
  <2>2. /\ Len(outputs) = call.ch - 1 /\ Len(outputs') = call.ch /\ call.ch \in Channel
        /\ outputs'[call.ch] = call.frames
        /\ \A c \in Channel : c < call.ch => outputs'[c] = outputs[c]
    <3>1. Len(outputs) \in Nat /\ call.ch \in Nat /\ call.ch <= Len(outputs) + 1
      BY <1>2, <1>3, <2>1, LenProperties DEF TypeOK, RecoveryInv
    <3>2. Len(outputs) = call.ch - 1
      BY <2>1, <3>1
    <3>3. /\ Len(outputs') = Len(outputs) + 1 /\ outputs'[Len(outputs) + 1] = call.frames
          /\ \A c \in 1..Len(outputs) : outputs'[c] = outputs[c]
      BY <1>2, <2>1, AppendProperties DEF TypeOK
    <3>4. \A c \in Channel : c < call.ch => c \in 1..Len(outputs)
      BY <1>3, <3>1, <3>2 DEF Channel
    <3> QED BY <1>2, <2>1, <3>1, <3>2, <3>3, <3>4
  <2>3. ~ Recovered /\ ~ Recovered'
    BY <1>3, <2>1, <2>2 DEF RecoveryInv, RecoveryIsExact, Recovered
  <2>4. \A c \in Channel : c < call.ch + 1 => outputs'[c] = call.frames
    <3> SUFFICES ASSUME NEW c \in Channel, c < call.ch + 1 PROVE outputs'[c] = call.frames
      OBVIOUS
    <3>1. c \in Nat /\ call.ch \in Nat
      BY <1>3, <2>2
    <3>2. CASE c = call.ch
      BY <2>2, <3>2
    <3>3. CASE c < call.ch
      BY <1>2, <2>1, <2>2, <3>3 DEF RecoveryInv
    <3> QED BY <3>1, <3>2, <3>3
  <2>8. /\ Frontiers(journal)' = Frontiers(journal) /\ Recovered' = Recovered
         /\ Len(outputs') <= NumChannels
    BY <1>3, <2>1, <2>2 DEF Recovered
  <2>5. CASE ~ LastChannel /\ call' = [call EXCEPT !.ch = @ + 1] /\ UNCHANGED life
    <3>1. /\ Label' = "output" /\ call'.op = "recover" /\ call'.ch = call.ch + 1
          /\ call'.frames = call.frames /\ call'.goal = call.goal
      BY <1>0, <1>2, <2>1, <2>5, Looping
    <3>2. call'.ch <= Len(outputs') + 1
      BY <1>3, <2>2, <3>1
    <3>3. life' = "gone"
      BY <1>2, <2>1, <2>5
    <3>4. RecoveryIsExact'
      BY <2>3 DEF RecoveryIsExact, Recovered
    <3> QED BY <1>2, <2>1, <2>4, <2>8, <3>1, <3>2, <3>3, <3>4 DEF RecoveryInv
  <2>6. CASE LastChannel /\ Proceed
    <3>1. /\ Label' # "output"
          /\ call' = Idle \/ (/\ call'.op = "recover" /\ call'.frames = call.frames
                              /\ call'.goal = call.goal)
      BY <1>0, <1>2, <2>1, <2>6, Proceeding, CallOwner
    <3>2. life' = life
      BY <1>0, <1>2, <2>1, <2>6, CallOwner
    <3>3. Len(outputs') = NumChannels /\ \A c \in Channel : outputs'[c] = call.frames
      BY <1>3, <2>2, <2>4, <2>6 DEF LastChannel
    <3>4. RecoveryIsExact'
      BY <2>3 DEF RecoveryIsExact, Recovered
    <3>5. CASE call' = Idle
      BY <1>2, <2>1, <2>8, <3>2, <3>4, <3>5 DEF RecoveryInv, Idle
    <3>6. CASE call' # Idle
      <4>1. Label' # "output"
        BY <3>1
      <4> QED BY <1>2, <2>1, <2>8, <3>1, <3>2, <3>3, <3>4, <3>6, <4>1 DEF RecoveryInv
    <3> QED BY <3>5, <3>6
  <2> QED BY <1>4, <2>5, <2>6 DEF RecoverOutput, NextChannel
<1>5. CASE OutputExists
  <2>1. /\ call' = Idle /\ life' = life
        /\ UNCHANGED <<journal, session, manifest, outputs>>
    BY <1>2, <1>5 DEF OutputExists, Abort
  <2> QED BY <2>1 DEF RecoveryInv, RecoveryIsExact, Recovered, Idle
<1>6. CASE PersistRecovered
  <2>1. /\ Label = "recovered" /\ session' = RecoveredManifest /\ Proceed
        /\ UNCHANGED <<journal, manifest, outputs>>
    BY <1>6 DEF PersistRecovered
  <2>2. session'.status = "Recovered" /\ session'.committed = call.frames
    BY <1>2, <2>1 DEF RecoveredManifest, RecoveredStatus, TypeOK, Manifests
  <2>3. /\ Label' # "output" /\ life' = life
        /\ call' = Idle \/ (/\ call'.op = "recover" /\ call'.frames = call.frames
                            /\ call'.goal = call.goal)
    BY <1>0, <1>2, <2>1, Proceeding, CallOwner
  <2> QED BY <1>2, <2>1, <2>2, <2>3 DEF RecoveryInv, RecoveryIsExact, Recovered, Idle
<1>7. CASE AppendRecovery
  <2>0. /\ Label \in RecordKinds /\ Label # "none" /\ Label \in RecoveryRecords
        /\ Label \notin {"FramesCommitted", "output"}
    BY <1>7 DEF AppendRecovery, RecordKinds, RecoveryRecords
  <2>1. /\ Proceed /\ UNCHANGED <<session, manifest, outputs>>
    BY <1>7 DEF AppendRecovery
  <2>2. PICK record \in NextRecord : journal' = Append(journal, record)
    BY <1>7 DEF AppendRecovery
  <2>3. Frontiers(journal)' \subseteq Frontiers(journal)
    BY <2>0, <2>2, NextRecordType, FrontierAppend
  <2>4. /\ Label' # "output" /\ life' = life
        /\ call' = Idle \/ (/\ call'.op = "recover" /\ call'.frames = call.frames
                            /\ call'.goal = call.goal)
    BY <1>0, <1>2, <2>0, <2>1, Proceeding, CallOwner
  <2> QED BY <1>2, <2>0, <2>1, <2>3, <2>4 DEF RecoveryInv, RecoveryIsExact, Recovered, Idle
<1> QED BY <1>1, <1>4, <1>5, <1>6, <1>7 DEF SystemCalls

(* A failing call keeps RecoveryInv, whatever part of it was done. *)
LEMMA RecoveryIoError ==
  ASSUME RecoverLive = FALSE, TypeOK, RecoveryInv, IoError
  PROVE  RecoveryInv'
<1>1. Label # "none" /\ CallTypeOK /\ call # Idle /\ call.ch \in Channel
  <2>1. Label # "none"
    BY DEF IoError, PartialWrite, PartialAppend, PartialPersist, PartialOutput, NoEffect,
           RecordKinds, RecorderRecords, RecoveryRecords
  <2> QED BY <2>1, LabelType DEF TypeOK
<1>2. Abort /\ UNCHANGED manifest
  BY DEF IoError
<1>3. CASE call.op # "recover"
  <2>1. Label \notin {"output", "recovered"}
    BY <1>1, <1>3, RecoveryLabels
  <2>2. UNCHANGED outputs /\ session' \in {session, manifest}
    BY <2>1 DEF IoError, PartialWrite, PartialAppend, PartialPersist, PartialOutput, NoEffect
  <2>3. manifest'.status \notin {"Recovered", "PartiallyRecovered"}
    BY <1>2 DEF RecoveryInv
  <2> QED BY <1>1, <1>2, <1>3, <2>2, <2>3, RecorderAtWork
<1>4. CASE call.op = "recover"
  <2>1. /\ call' = Idle /\ life' = life /\ life = "gone"
        /\ Label \in RecoveryRecords \cup {"output", "recovered"}
    BY <1>1, <1>2, <1>4, RecoveryLabels DEF Abort, RecoveryInv
  <2>2. Frontiers(journal)' \subseteq Frontiers(journal)
    <3>1. CASE UNCHANGED journal
      BY <3>1
    <3>2. CASE PartialAppend /\ ~ UNCHANGED journal
      <4>1. PICK record \in NextRecord \cup {Torn} : journal' = Append(journal, record)
        BY <3>2 DEF PartialAppend
      <4>2. record \in Records /\ record.kind # "FramesCommitted"
        BY <2>1, <3>2, <4>1, NextRecordType, TornType DEF PartialAppend, Torn, RecoveryRecords
      <4> QED BY <4>1, <4>2, FrontierAppend
    <3> QED BY <3>1, <3>2 DEF IoError, PartialWrite, PartialPersist, PartialOutput, NoEffect
  <2>3. CASE UNCHANGED <<session, outputs>>
    BY <1>2, <2>1, <2>2, <2>3 DEF RecoveryInv, RecoveryIsExact, Recovered, Idle
  <2>4. CASE PartialPersist
    <3>1. Label = "recovered"
      BY <2>1, <2>4 DEF PartialPersist, RecoveryRecords
    <3>2. call.frames = call.goal /\ Len(outputs) = NumChannels
          /\ (\A c \in Channel : outputs[c] = call.frames)
          /\ \A f \in Frontiers(journal) : f <= call.frames
      BY <1>4, <3>1 DEF RecoveryInv
    <3>3. UNCHANGED <<journal, outputs>> /\ session' \in {session, RecoveredManifest}
      BY <2>4, <3>1 DEF PartialPersist
    <3>4. CASE session' = RecoveredManifest
      <4>1. session'.status = "Recovered" /\ session'.committed = call.frames
        BY <3>2, <3>4 DEF RecoveredManifest, RecoveredStatus, TypeOK, Manifests
      <4> QED BY <1>2, <2>1, <3>2, <3>3, <4>1 DEF RecoveryInv, RecoveryIsExact, Recovered, Idle
    <3> QED BY <2>3, <3>3, <3>4
  <2>5. CASE PartialOutput
    <3>1. PICK part \in 0..call.frames : outputs' = Append(outputs, part)
      BY <2>5 DEF PartialOutput
    <3>2. Len(outputs) < call.ch /\ UNCHANGED <<journal, session>>
      BY <2>5 DEF PartialOutput
    <3>3. part \in Nat /\ Len(outputs) \in Nat /\ Len(outputs') = Len(outputs) + 1
      BY <1>1, <3>1, LabelType, AppendProperties, LenProperties DEF TypeOK
    <3>4. Len(outputs) < NumChannels /\ Len(outputs') <= NumChannels
      BY <1>1, <3>2, <3>3, ChannelsAssumption DEF Channel
    <3>5. ~ Recovered /\ ~ Recovered'
      BY <3>2, <3>4, ChannelsAssumption DEF RecoveryInv, RecoveryIsExact, Recovered
    <3> QED BY <1>2, <2>1, <3>4, <3>5 DEF RecoveryInv, RecoveryIsExact, Recovered, Idle
  <2> QED BY <2>3, <2>4, <2>5 DEF IoError, PartialWrite, PartialAppend, NoEffect
<1> QED BY <1>3, <1>4

(* A crash keeps RecoveryInv. *)
LEMMA RecoveryCrash ==
  ASSUME TypeOK, RecoveryInv, Crash
  PROVE  RecoveryInv'
<1>1. /\ call' = Idle /\ life' = "gone" /\ UNCHANGED session /\ manifest' = NewManifest
      /\ Recovered' = Recovered
  BY DEF Crash, Recovered
<1>2. Frontiers(journal)' \subseteq Frontiers(journal)
  BY FrontierCrash
<1>3. manifest'.status = "Active"
  BY <1>1 DEF NewManifest, NoManifest
<1>4. CASE UNCHANGED outputs
  BY <1>1, <1>2, <1>3, <1>4 DEF RecoveryInv, RecoveryIsExact, Recovered, Idle
<1>5. CASE /\ Label = "output" /\ Len(outputs) < call.ch
           /\ \E part \in 0..call.frames : outputs' = Append(outputs, part)
  <2>1. PICK part \in 0..call.frames : outputs' = Append(outputs, part)
    BY <1>5
  <2>2. call.ch \in Channel /\ part \in Nat
    BY <1>5, <2>1, LabelType DEF TypeOK
  <2>3. Len(outputs) \in Nat /\ Len(outputs') = Len(outputs) + 1
    BY <2>1, <2>2, AppendProperties, LenProperties DEF TypeOK
  <2>4. Len(outputs) < NumChannels /\ Len(outputs') <= NumChannels
    BY <1>5, <2>2, <2>3, ChannelsAssumption DEF Channel
  <2>5. ~ Recovered /\ ~ Recovered'
    BY <1>1, <2>4, ChannelsAssumption DEF RecoveryInv, RecoveryIsExact, Recovered
  <2> QED BY <1>1, <1>3, <2>4, <2>5 DEF RecoveryInv, RecoveryIsExact, Recovered, Idle
<1> QED BY <1>4, <1>5 DEF Crash

(* RecoveryInv is inductive, given the two before it and no recovery of a live session. *)
LEMMA RecoveryNext ==
  RecoverLive = FALSE /\ TypeOK /\ DurableInv /\ RecoveryInv /\ [Next]_vars => RecoveryInv'
<1> SUFFICES ASSUME RecoverLive = FALSE, TypeOK, DurableInv, RecoveryInv, [Next]_vars
             PROVE  RecoveryInv'
  OBVIOUS
<1>1. CASE UNCHANGED vars
  BY <1>1 DEF RecoveryInv, RecoveryIsExact, Recovered, Label, vars, disk, audio, log, memory
<1> QED BY <1>1, RecoveryCalls, RecoverySystemCalls, RecoveryIoError, RecoveryCrash DEF Next

(* If sessions are recovered only once their Recorder is gone, a recovery, *)
(* however often it or its session was interrupted, publishes one output   *)
(* per channel of at least the frontier, and never a partial one.          *)
THEOREM RecoveriesAreExact ==
  ASSUME RecoverLive = FALSE
  PROVE  Spec => []RecoveryIsExact
<1>1. Init => TypeOK /\ DurableInv /\ RecoveryInv
  BY TypeInit, DurableInit, RecoveryInit
<1>2. TypeOK /\ DurableInv /\ RecoveryInv /\ [Next]_vars => (TypeOK /\ DurableInv /\ RecoveryInv)'
  BY TypeNext, DurableNext, RecoveryNext
<1>3. RecoveryInv => RecoveryIsExact
  BY DEF RecoveryInv
<1> QED BY <1>1, <1>2, <1>3, PTL DEF Spec

===============================================================================
