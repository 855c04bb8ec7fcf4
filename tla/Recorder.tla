------------------------------- MODULE Recorder -------------------------------
(***************************************************************************)
(* One recording session of icepod-core: the Recorder object, the files it *)
(* keeps on disk, the crash that may hit it between any two system calls,  *)
(* and recover_session, which reads only those files.                      *)
(*                                                                         *)
(* An operation of the code is a straight-line program of system calls     *)
(* (the table Program); the model executes one call per step, so that a    *)
(* crash, or an I/O error, may fall between any two of them.  Audio is     *)
(* counted in frames per channel; a journal record keeps its sequence      *)
(* number, its kind and the one value a reader of the journal uses.        *)
(*                                                                         *)
(* Durability: a file's bytes survive a crash up to its last successful    *)
(* sync, and any prefix of what follows may survive; write_atomic replaces *)
(* session.json as a whole; a rename survives only by luck, since nothing  *)
(* syncs the audio directory.                                              *)
(***************************************************************************)
EXTENDS RecorderState, Naturals, Sequences, FiniteSets

CONSTANTS
  NumChannels,     \* channel_labels.len()
  BatchSizes,      \* frames per write_interleaved or insert_gap call
  AudioLimit,      \* max_audio_bytes, in frames
  RequestIds,      \* request ids of add_marker
  None,            \* no request, and no take delivered
  MaxJournal,      \* bound: a Recorder starts no operation on a journal this long
  MaxIoErrors,     \* bound: failed system calls in a behaviour
  RecoverLive      \* recover_session may be called while a Recorder is alive

ASSUME ChannelsAssumption == NumChannels \in Nat \ {0}
ASSUME BoundsAssumption ==
  /\ AudioLimit \in Nat /\ MaxJournal \in Nat /\ MaxIoErrors \in Nat
  /\ BatchSizes \subseteq Nat /\ RecoverLive \in BOOLEAN
ASSUME RequestsAssumption ==
  None \notin RequestIds /\ None \notin Nat /\ RequestIds \cap Nat = {}

Channel == 1..NumChannels

VARIABLES
  length,        \* frames in each channel's file
  aligned,       \* counted frames that sit in that file at the index they were counted at
  synced,        \* frames of that file covered by its last sync
  renamed,       \* channels whose .part has become .wav
  journal,       \* session.journal, a damaged record having kind "torn"
  journalSynced, \* records of it covered by its last sync
  session,       \* session.json; status "Absent" before it exists
  outputs,       \* frames in each recovery/*.recovered.wav, in channel order
  life,          \* the Recorder object: "new", "live" or "gone"
  manifest,      \* Recorder.manifest
  nextSequence,  \* Journal.next_sequence of the Recorder
  call,          \* the operation in progress
  outcome,       \* result of the last recover_session
  claimed,       \* largest frames_committed a client has been shown
  ioErrors       \* failed system calls so far

audio  == <<length, aligned, synced, renamed>>
log    == <<journal, journalSynced>>
disk   == <<audio, log, session, outputs>>
memory == <<life, manifest, nextSequence>>
vars   == <<disk, memory, call, outcome, claimed, ioErrors>>

-------------------------------------------------------------------------------
(* The operations, as the system calls they make in order.  A name in      *)
(* RecordKinds is an append to the journal.                                *)

Program ==
  [create   |-> <<"manifest", "SessionCreated", "DeviceConfigured", "TakeArmed",
                  "SegmentStarted", "manifest">>,
   write    |-> <<"audio", "FramesWritten", "sync", "FramesCommitted", "manifest">>,
   gap      |-> <<"audio", "FramesWritten", "sync", "FramesCommitted", "manifest",
                  "GapInserted", "Incident", "manifest">>,
   pause    |-> <<"PauseStarted", "manifest">>,
   resume   |-> <<"PauseEnded", "manifest">>,
   mark     |-> <<"MarkerAdded", "manifest">>,
   incident |-> <<"Incident", "manifest">>,
   stop     |-> <<"StopRequested", "sync", "FramesCommitted", "manifest",
                  "SegmentStopped", "FinalizationStarted", "rename",
                  "FinalizationCompleted", "manifest">>,
   recover  |-> <<"output", "recovered", "RecoveryStarted", "RecoveryCompleted">>]

Operations == DOMAIN Program

RecorderRecords ==
  {"SessionCreated", "DeviceConfigured", "TakeArmed", "SegmentStarted",
   "FramesWritten", "FramesCommitted", "GapInserted", "Incident", "PauseStarted",
   "PauseEnded", "MarkerAdded", "StopRequested", "SegmentStopped",
   "FinalizationStarted", "FinalizationCompleted"}

RecoveryRecords == {"RecoveryStarted", "RecoveryCompleted"}

RecordKinds == RecorderRecords \cup RecoveryRecords

Idle == [op |-> "none", step |-> 0, ch |-> 0, frames |-> 0, goal |-> 0,
         request |-> None]

Label == IF call = Idle THEN "none" ELSE Program[call.op][call.step]

Torn == [seq |-> 0, kind |-> "torn", val |-> 0]

Begin(op, frames, goal, request) ==
  call' = [op |-> op, step |-> 1, ch |-> 1, frames |-> frames, goal |-> goal,
           request |-> request]

(* Success of the last call of a program: create yields a live Recorder,   *)
(* finalize consumes it, and the others leave it where it was.             *)
Return ==
  /\ call' = Idle
  /\ life' = CASE call.op = "create" -> "live"
               [] call.op = "stop"   -> "gone"
               [] OTHER              -> life

Proceed ==
  IF call.step < Len(Program[call.op])
  THEN /\ call' = [call EXCEPT !.step = @ + 1, !.ch = 1]
       /\ UNCHANGED life
  ELSE Return

(* The loops over channels. *)
LastChannelTooSoon == call.ch = 1

LastChannel == call.ch = NumChannels

NextChannel ==
  IF LastChannel
  THEN Proceed
  ELSE call' = [call EXCEPT !.ch = @ + 1] /\ UNCHANGED life

(* An error leaves the operation where it stands: a failed create returns  *)
(* no Recorder and a failed finalize has consumed it.                      *)
Abort ==
  /\ call' = Idle
  /\ life' = IF call.op \in {"create", "stop"} THEN "gone" ELSE life

-------------------------------------------------------------------------------
(* Reading the journal back: journal.rs parse_valid, Journal::open.        *)

(* Record i is read: it and all before it are whole, of consecutive        *)
(* sequence numbers.                                                       *)
Readable(j, i) ==
  /\ i \in 1..Len(j)
  /\ \A k \in 1..i : j[k].kind # "torn"
  /\ \A k \in 1..(i-1) : j[k+1].seq = j[k].seq + 1

(* Exactly the first n records are read. *)
ReadsUpTo(j, n) ==
  /\ n = 0 \/ Readable(j, n)
  /\ ~ Readable(j, n + 1)

Frontiers(j) ==
  {0} \cup {j[i].val : i \in {k \in 1..Len(j) : j[k].kind = "FramesCommitted" /\ Readable(j, k)}}

IsGreatest(f, S) == f \in S /\ \A g \in S : g <= f

IsFrontier(j, f) == IsGreatest(f, Frontiers(j))

NoManifest ==
  [state |-> "Idle", status |-> "Absent", written |-> 0, committed |-> 0,
   markers |-> {}, incidents |-> 0]

NewManifest == [NoManifest EXCEPT !.state = "Armed", !.status = "Active"]

(* Before Recorder::create returns its first error or makes its first call. *)
Init ==
  /\ length = [c \in Channel |-> 0]
  /\ aligned = [c \in Channel |-> 0]
  /\ synced = [c \in Channel |-> 0]
  /\ renamed = {}
  /\ journal = <<>> /\ journalSynced = 0
  /\ session = NoManifest
  /\ outputs = <<>>
  /\ life = "new" /\ manifest = NewManifest /\ nextSequence = 0
  /\ call = Idle
  /\ outcome = "none" /\ claimed = 0 /\ ioErrors = 0

-------------------------------------------------------------------------------
(* Calls on the Recorder, up to their first system call. *)

Ready == life = "live" /\ call = Idle /\ Len(journal) < MaxJournal

ToState(to) ==
  /\ CanTransition(manifest.state, to)
  /\ manifest' = [manifest EXCEPT !.state = to]

Create ==
  /\ life = "new" /\ call = Idle
  /\ Begin("create", 0, 0, None)
  /\ UNCHANGED <<disk, memory, outcome, claimed, ioErrors>>

(* write_interleaved, and insert_gap, which writes silence with it. *)
WriteFrames(op, frames) ==
  /\ Ready
  /\ manifest.state = "Recording"
  /\ manifest.written + frames <= AudioLimit
  /\ Begin(op, frames, 0, None)
  /\ UNCHANGED <<disk, memory, outcome, claimed, ioErrors>>

(* A write that would pass max_audio_bytes writes no audio: it records a   *)
(* DiskCritical incident and returns DiskFull.                             *)
RefuseWrite(frames) ==
  /\ Ready
  /\ manifest.state = "Recording"
  /\ manifest.written + frames > AudioLimit
  /\ Begin("incident", 0, 0, None)
  /\ UNCHANGED <<disk, memory, outcome, claimed, ioErrors>>

Pause ==
  /\ Ready
  /\ ToState("Paused")
  /\ Begin("pause", 0, 0, None)
  /\ UNCHANGED <<disk, life, nextSequence, outcome, claimed, ioErrors>>

Resume ==
  /\ Ready
  /\ ToState("Recording")
  /\ Begin("resume", 0, 0, None)
  /\ UNCHANGED <<disk, life, nextSequence, outcome, claimed, ioErrors>>

AddMarkerAgain(request) ==
  /\ Ready
  /\ Begin("mark", 0, 0, request)
  /\ UNCHANGED <<disk, memory, outcome, claimed, ioErrors>>

(* A repeated request id returns the marker it already made. *)
AddMarker(request) ==
  /\ Ready
  /\ request \notin manifest.markers
  /\ Begin("mark", 0, 0, request)
  /\ UNCHANGED <<disk, memory, outcome, claimed, ioErrors>>

RecordIncident ==
  /\ Ready
  /\ Begin("incident", 0, 0, None)
  /\ UNCHANGED <<disk, memory, outcome, claimed, ioErrors>>

Finalize ==
  /\ Ready
  /\ ToState("Stopping")
  /\ Begin("stop", 0, 0, None)
  /\ UNCHANGED <<disk, life, nextSequence, outcome, claimed, ioErrors>>

(* The service answers every request with the Recorder's manifest. *)
Snapshot ==
  /\ life = "live" /\ call = Idle
  /\ claimed < manifest.committed
  /\ claimed' = manifest.committed
  /\ UNCHANGED <<disk, memory, call, outcome, ioErrors>>

-------------------------------------------------------------------------------
(* The system calls of the Recorder. *)

(* write_all of one channel's samples, at the end of its file; after the   *)
(* last channel the batch is counted.  It is at its place in a channel     *)
(* whose file held exactly the frames counted before.                      *)
WriteAudio ==
  /\ Label = "audio"
  /\ length' = [length EXCEPT ![call.ch] = @ + call.frames]
  /\ IF LastChannel
     THEN /\ manifest' = [manifest EXCEPT !.written = @ + call.frames]
          /\ aligned' = [c \in Channel |->
               IF aligned[c] = manifest.written /\ length'[c] = manifest'.written
               THEN manifest'.written ELSE aligned[c]]
     ELSE UNCHANGED <<manifest, aligned>>
  /\ NextChannel
  /\ UNCHANGED <<synced, renamed, log, session, outputs, nextSequence, outcome, claimed, ioErrors>>

SyncAudio ==
  /\ Label = "sync"
  /\ synced' = [synced EXCEPT ![call.ch] = length[call.ch]]
  /\ manifest' = IF LastChannel
                 THEN [manifest EXCEPT !.committed = manifest.written]
                 ELSE manifest
  /\ NextChannel
  /\ UNCHANGED <<length, aligned, renamed, log, session, outputs, nextSequence,
                 outcome, claimed, ioErrors>>

RecordValue ==
  CASE Label = "FramesCommitted" -> manifest.committed
    [] Label = "FramesWritten"   -> manifest.written
    [] Label = "MarkerAdded"     -> call.request
    [] OTHER                     -> 0

(* Journal::open numbers from the last record it can read, although it     *)
(* appends at the end of the file, behind any damaged record.              *)
NextSequence(seq) ==
  CASE Label \in RecorderRecords -> seq = nextSequence
    [] Label = "RecoveryStarted" ->
         \E n \in 0..Len(journal) :
           ReadsUpTo(journal, n) /\ seq = IF n = 0 THEN 0 ELSE journal[n].seq + 1
    [] OTHER -> seq = journal[Len(journal)].seq + 1

(* The record the current step appends; there is exactly one. *)
NextRecord ==
  [seq : {n \in 0..(nextSequence + Len(journal)) : NextSequence(n)}, kind : {Label}, val : {RecordValue}]

(* What the code does to its manifest once the append has succeeded. *)
AfterAppend ==
  CASE Label = "TakeArmed"      -> [manifest EXCEPT !.state = "Recording"]
    [] Label = "SegmentStopped" -> [manifest EXCEPT !.state = "Finalizing"]
    [] Label = "MarkerAdded"    -> [manifest EXCEPT !.markers = @ \cup {call.request}]
    [] Label = "Incident"       -> [manifest EXCEPT !.incidents = @ + 1]
    [] OTHER                    -> manifest

(* The `durable` argument of the calls of Journal::append. *)
NeverDurable(kind) == FALSE

Durable(kind) == kind # "FramesWritten"

(* Journal::append. *)
AppendRecord ==
  /\ Label \in RecorderRecords
  /\ \E record \in NextRecord : journal' = Append(journal, record)
  /\ journalSynced' = IF Durable(Label) THEN Len(journal') ELSE journalSynced
  /\ nextSequence' = nextSequence + 1
  /\ manifest' = AfterAppend
  /\ Proceed
  /\ UNCHANGED <<audio, session, outputs, outcome, claimed, ioErrors>>

(* write_atomic of session.json. *)
PersistManifest ==
  /\ Label = "manifest"
  /\ session' = manifest
  /\ Proceed
  /\ UNCHANGED <<audio, log, outputs, manifest, nextSequence, outcome, claimed, ioErrors>>

(* validate_rf64 compares the file's length with the frames it should hold.*)
ValidatesAnything(c) == TRUE

Validates(c) == length[c] = manifest.committed

(* finalize_rf64, sync_all, validate_rf64 and the rename of one channel,   *)
(* in one step.  They grow no file, and finalize's commit has just synced  *)
(* every file, so a crash among them leaves what one before them leaves.   *)
RenameFinal ==
  /\ Label = "rename"
  /\ Validates(call.ch)
  /\ synced' = [synced EXCEPT ![call.ch] = length[call.ch]]
  /\ renamed' = renamed \cup {call.ch}
  /\ manifest' = IF LastChannel
                 THEN [manifest EXCEPT !.state = "Completed", !.status = "Complete"]
                 ELSE manifest
  /\ NextChannel
  /\ UNCHANGED <<length, aligned, log, session, outputs, nextSequence, outcome, claimed, ioErrors>>

ValidationFails ==
  /\ Label = "rename"
  /\ ~ Validates(call.ch)
  /\ Abort
  /\ UNCHANGED <<disk, manifest, nextSequence, outcome, claimed, ioErrors>>

-------------------------------------------------------------------------------
(* recover_session.  The service calls it under the lock it holds for a    *)
(* whole request, so never in the middle of another operation.             *)

IsLeast(f, S) == f \in S /\ \A g \in S : f <= g

Lengths == {length[c] : c \in Channel}

RecoveryFramesByLength(committed, safe) == IsLeast(safe, Lengths)

(* The frontier, or as much of it as every channel's file holds. *)
RecoveryFrames(committed, safe) == IsLeast(safe, {committed} \cup Lengths)

RecoveryCanStart ==
  /\ call = Idle /\ session.status # "Absent"
  /\ life = "gone" \/ (RecoverLive /\ life = "live")

(* The journal names a frontier and every .part is there with audio in it. *)
BeginRecover ==
  /\ RecoveryCanStart
  /\ renamed = {}
  /\ \E committed \in Frontiers(journal) :
     \E safe \in {committed} \cup Lengths :
       /\ IsFrontier(journal, committed)
       /\ RecoveryFrames(committed, safe)
       /\ safe > 0
       /\ Begin("recover", safe, committed, None)
  /\ UNCHANGED <<disk, memory, outcome, claimed, ioErrors>>

(* There is nothing to recover, or a file is not where it is looked for: a *)
(* .part that was renamed, or the journal, which create makes after the    *)
(* first session.json, so that an empty one may be missing.                *)
RefuseRecovery ==
  /\ RecoveryCanStart
  /\ \/ /\ IsFrontier(journal, 0) \/ (renamed = {} /\ 0 \in Lengths)
        /\ outcome' = "NoCommittedFrames"
     \/ /\ journal = <<>> \/ (~ IsFrontier(journal, 0) /\ renamed # {})
        /\ outcome' = "Failed"
  /\ UNCHANGED <<disk, memory, call, claimed, ioErrors>>

(* One output file: created, filled with the first safe frames, synced.    *)
RecoverOutput ==
  /\ Label = "output"
  /\ Len(outputs) < call.ch
  /\ outputs' = Append(outputs, call.frames)
  /\ NextChannel
  /\ UNCHANGED <<audio, log, session, manifest, nextSequence, outcome, claimed, ioErrors>>

(* create_new finds the file of an earlier recovery. *)
OutputExists ==
  /\ Label = "output"
  /\ Len(outputs) >= call.ch
  /\ outcome' = "Failed"
  /\ Abort
  /\ UNCHANGED <<disk, manifest, nextSequence, claimed, ioErrors>>

RecoveredStatusComplete == IF call.frames = call.goal THEN "Complete" ELSE "PartiallyRecovered"

RecoveredStatus == IF call.frames = call.goal THEN "Recovered" ELSE "PartiallyRecovered"

RecoveredManifest ==
  [session EXCEPT !.status = RecoveredStatus, !.state = "Completed",
                  !.written = call.frames, !.committed = call.frames]

PersistRecovered ==
  /\ Label = "recovered"
  /\ session' = RecoveredManifest
  /\ Proceed
  /\ UNCHANGED <<audio, log, outputs, manifest, nextSequence, outcome, claimed, ioErrors>>

AppendRecovery ==
  /\ Label \in RecoveryRecords
  /\ \E record \in NextRecord : journal' = Append(journal, record)
  /\ journalSynced' = Len(journal')
  /\ outcome' = IF Label = "RecoveryCompleted" THEN RecoveredStatus ELSE outcome
  /\ Proceed
  /\ UNCHANGED <<audio, session, outputs, manifest, nextSequence, claimed, ioErrors>>

-------------------------------------------------------------------------------
(* What the environment does. *)

(* What a failing system call may have done before it failed; `?` returns  *)
(* the error and everything changed so far stays changed.                  *)
PartialWrite ==
  /\ Label = "audio"
  /\ \E part \in 0..call.frames :
       part < call.frames /\ length' = [length EXCEPT ![call.ch] = @ + part]
  /\ UNCHANGED <<journal, session, outputs>>

PartialAppend ==
  /\ Label \in RecordKinds
  /\ \/ UNCHANGED journal
     \/ \E record \in NextRecord \cup {Torn} : journal' = Append(journal, record)
  /\ UNCHANGED <<length, session, outputs>>

PartialPersist ==
  /\ \/ Label = "manifest" /\ session' \in {session, manifest}
     \/ Label = "recovered" /\ session' \in {session, RecoveredManifest}
  /\ UNCHANGED <<length, journal, outputs>>

PartialOutput ==
  /\ Label = "output" /\ Len(outputs) < call.ch
  /\ \E part \in 0..call.frames : outputs' = Append(outputs, part)
  /\ UNCHANGED <<length, journal, session>>

NoEffect ==
  /\ Label \in {"sync", "rename", "output"}
  /\ UNCHANGED <<length, journal, session, outputs>>

IoError ==
  /\ ioErrors < MaxIoErrors
  /\ ioErrors' = ioErrors + 1
  /\ PartialWrite \/ PartialAppend \/ PartialPersist \/ PartialOutput \/ NoEffect
  /\ outcome' = IF call.op = "recover" THEN "Failed" ELSE outcome
  /\ Abort
  /\ UNCHANGED <<aligned, synced, renamed, journalSynced, manifest, nextSequence, claimed>>

(* Power loss, or an abrupt kill, between any two system calls or within   *)
(* one: the service and its Recorder are gone, and each file keeps what    *)
(* was synced and any prefix of what followed.  What is there afterwards   *)
(* counts as synced: that a power loss takes what only a kill had left in  *)
(* the page cache is not modelled.                                         *)
Crash ==
  /\ life # "new" \/ call # Idle
  /\ \E len \in [Channel -> UNION {synced[c]..length[c] : c \in Channel}] :
       /\ \A c \in Channel : synced[c] <= len[c] /\ len[c] <= length[c]
       /\ length' = len /\ synced' = len
       /\ aligned' = [c \in Channel |-> IF aligned[c] <= len[c] THEN aligned[c] ELSE len[c]]
  /\ renamed' \in SUBSET renamed
  /\ \E k \in journalSynced..Len(journal), tail \in {<<>>, <<Torn>>} :
       /\ tail # <<>> => k < Len(journal) \/ Label \in RecordKinds
       /\ journal' = SubSeq(journal, 1, k) \o tail
  /\ journalSynced' = Len(journal')
  /\ \/ UNCHANGED outputs
     \/ /\ Label = "output" /\ Len(outputs) < call.ch
        /\ \E part \in 0..call.frames : outputs' = Append(outputs, part)
  /\ life' = "gone" /\ manifest' = NewManifest /\ nextSequence' = 0
  /\ call' = Idle
  /\ UNCHANGED <<session, outcome, claimed, ioErrors>>

-------------------------------------------------------------------------------
Calls ==
  \/ Create
  \/ \E op \in {"write", "gap"}, frames \in BatchSizes : WriteFrames(op, frames)
  \/ \E frames \in BatchSizes : RefuseWrite(frames)
  \/ Pause \/ Resume
  \/ \E request \in RequestIds : AddMarker(request)
  \/ RecordIncident \/ Finalize \/ Snapshot
  \/ BeginRecover \/ RefuseRecovery

SystemCalls ==
  \/ WriteAudio \/ SyncAudio \/ AppendRecord \/ PersistManifest
  \/ RenameFinal \/ ValidationFails
  \/ RecoverOutput \/ OutputExists \/ PersistRecovered \/ AppendRecovery

Next == Calls \/ SystemCalls \/ IoError \/ Crash

Spec == Init /\ [][Next]_vars

-------------------------------------------------------------------------------
Records ==
  {r \in [seq : Nat, kind : RecordKinds \cup {"torn"}, val : Nat \cup RequestIds] :
     r.kind = "FramesCommitted" => r.val \in Nat}

Statuses == {"Absent", "Active", "Complete", "Recovered", "PartiallyRecovered"}

Manifests ==
  [state : States, status : Statuses, written : Nat, committed : Nat,
   markers : SUBSET RequestIds, incidents : Nat]

CallTypeOK ==
  \/ call = Idle
  \/ /\ call \in [op : Operations, step : Nat, ch : Channel, frames : Nat, goal : Nat,
                  request : RequestIds \cup {None}]
     /\ call.step \in 1..Len(Program[call.op])
     /\ (call.op = "mark") <=> (call.request # None)

(* Every variable keeps its type: the values the code's fields can hold. *)
TypeOK ==
  /\ length \in [Channel -> Nat] /\ aligned \in [Channel -> Nat] /\ synced \in [Channel -> Nat]
  /\ renamed \subseteq Channel
  /\ journal \in Seq(Records) /\ journalSynced \in 0..Len(journal)
  /\ session \in Manifests
  /\ outputs \in Seq(Nat)
  /\ life \in {"new", "live", "gone"} /\ manifest \in Manifests /\ nextSequence \in Nat
  /\ CallTypeOK
  /\ outcome \in {"none", "Recovered", "PartiallyRecovered", "NoCommittedFrames", "Failed"}
  /\ claimed \in Nat /\ ioErrors \in Nat

(* A FramesCommitted record is appended only after every channel reached   *)
(* that frontier durably: the order of commit(), which no crash and no     *)
(* failed call may upset.                                                  *)
CommittedIsDurable ==
  \A i \in 1..Len(journal) :
    journal[i].kind = "FramesCommitted" => \A c \in Channel : journal[i].val <= synced[c]

(* What a client has been shown as committed, a recovery will find: the    *)
(* part of the journal that can be read back names at least that frontier. *)
ClaimIsRecoverable == \E f \in Frontiers(journal) : claimed <= f

(* session.json never runs ahead of the journal: its frames_committed, its *)
(* markers and its incidents are all in readable records, each marker once,*)
(* although it is written after them and by separate system calls.         *)
SessionBehindJournal ==
  LET Read(kind) == {i \in 1..Len(journal) : Readable(journal, i) /\ journal[i].kind = kind} IN
  /\ \E f \in Frontiers(journal) : session.committed <= f
  /\ \A m \in session.markers :
       /\ \E i \in Read("MarkerAdded") : journal[i].val = m
       /\ \A i, k \in Read("MarkerAdded") : journal[i].val = m /\ journal[k].val = m => i = k
  /\ session.incidents <= Cardinality(Read("Incident"))

(* Up to the frontier every channel holds its samples at the frame they    *)
(* were counted at: the channels of a take stay synchronized.              *)
CommittedIsAligned ==
  \A f \in Frontiers(journal), c \in Channel : f <= aligned[c]

(* Recovery never gives less than the journal promises: once session.json  *)
(* says a recovery was made, it is a full one, with one output per channel *)
(* of the same length, up to every frontier the journal names.             *)
RecoveryIsExact ==
  session.status \in {"Recovered", "PartiallyRecovered"} =>
    /\ session.status = "Recovered"
    /\ Len(outputs) = NumChannels
    /\ \A c \in Channel : outputs[c] = session.committed
    /\ \A f \in Frontiers(journal) : f <= session.committed

(* A recovery answers NoCommittedFrames only if no client was ever shown a *)
(* committed frame.                                                        *)
RefusalLosesNothing == outcome = "NoCommittedFrames" => claimed = 0

(* A session.json that says Complete describes its files: every channel    *)
(* holds exactly frames_committed, synced and in its place, even after a   *)
(* failed write left the channels uneven, and after a crash.               *)
CompleteIsExact ==
  session.status = "Complete" =>
    \A c \in Channel :
      length[c] = session.committed /\ synced[c] = session.committed
      /\ aligned[c] = session.committed

-------------------------------------------------------------------------------
(* "Service crash, abrupt kill, or power loss: audio through the last      *)
(* synchronized frontier is recoverable": a recovery of a session that is  *)
(* Active and has such a frontier does not fail, wherever the crash fell;  *)
(* also among the renames of finalize, or within an earlier recovery.  The *)
(* property of a run of its own.                                           *)
InterruptedIsRecoverable ==
  session.status = "Active" /\ ~ IsFrontier(journal, 0) => outcome # "Failed"

-------------------------------------------------------------------------------
(* The promise: the frontier of a session is what its journal can still be *)
(* read to say, and it is delivered by a session.json that says so.        *)

Frontier(j) == LET F == Frontiers(j) IN CHOOSE f \in F : IsGreatest(f, F)

Take == INSTANCE DurableTake WITH
  NotDelivered <- None,
  frontier     <- Frontier(journal),
  delivered    <- IF session.status \in {"Complete", "Recovered", "PartiallyRecovered"}
                  THEN session.committed ELSE None

(* Every step of a session, crashes and recoveries included, keeps the     *)
(* promise: the frontier never recedes, and the take delivered is exactly  *)
(* the frontier and never changes afterwards.                              *)
ImplementsDurableTake == Take!Spec

===============================================================================
