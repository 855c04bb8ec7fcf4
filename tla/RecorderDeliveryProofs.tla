------------------------ MODULE RecorderDeliveryProofs ------------------------
(* What is delivered: a session that says Complete describes its files,    *)
(* and a session as a whole keeps the promise of DurableTake.              *)
EXTENDS RecorderJournalProofs

-------------------------------------------------------------------------------
(* Complete sessions.  By the time the status is set every channel has     *)
(* been validated against the frontier and synced, and nothing of the rest *)
(* of finalize touches a file.  A file of the right length has its samples *)
(* in place, because a channel that a failed write left uneven is longer   *)
(* than the frames counted from then on.                                   *)

Exact(c) == length[c] = manifest.committed /\ synced[c] = manifest.committed

ExactInv ==
  /\ CompleteIsExact
  /\ session.status = "Complete" => life = "gone"
  /\ life = "gone" => call = Idle \/ call.op = "recover"
  /\ life # "gone" =>
       /\ manifest.status = "Complete" =>
            call.op = "stop" /\ call.step > 7 /\ \A c \in Channel : Exact(c)
       /\ call.op = "stop" /\ call.step > 2 => manifest.committed = manifest.written
       /\ Label = "rename" => \A c \in Channel : c < call.ch => Exact(c)
       /\ \A c \in Channel :
            length[c] = manifest.written + Ahead(c) => aligned[c] = manifest.written

(* ExactInv holds initially. *)
LEMMA ExactInit == Init => ExactInv
BY LabelIdle DEF Init, ExactInv, CompleteIsExact, Ahead, Idle, NewManifest, NoManifest

(* finalize, by inspection of the table: its syncs come second, its        *)
(* renames seventh, and its last step is the write of session.json.        *)
LEMMA StopProgram ==
  /\ "stop" \in Operations /\ Len(Program["stop"]) = 9
  /\ Program["stop"][1] = "StopRequested" /\ Program["stop"][2] = "sync"
  /\ Program["stop"][7] = "rename" /\ Program["stop"][8] = "FinalizationCompleted"
  /\ Program["stop"][9] = "manifest"
  /\ \A i \in 3..9 : Program["stop"][i] \notin {"audio", "sync"}
  /\ \A i \in 4..9 : Program["stop"][i] # "FramesCommitted"
<1>1. Program["stop"] = <<"StopRequested", "sync", "FramesCommitted", "manifest",
                  "SegmentStopped", "FinalizationStarted", "rename",
                  "FinalizationCompleted", "manifest">>
  BY DEF Program
<1>2. \A i \in 3..9 : i = 3 \/ i = 4 \/ i = 5 \/ i = 6 \/ i = 7 \/ i = 8 \/ i = 9
  OBVIOUS
<1> QED BY <1>1, <1>2, OperationNames

(* Nothing else renames. *)
LEMMA RenameStep ==
  ASSUME NEW op \in Operations, NEW i \in 1..Len(Program[op]), Program[op][i] = "rename"
  PROVE  op = "stop" /\ i = 7
<1>1. CASE op = "create"
  BY <1>1, SMTT(30) DEF Program
<1>2. CASE op = "write"
  BY <1>2, SMTT(30) DEF Program
<1>3. CASE op = "gap"
  BY <1>3, SMTT(30) DEF Program
<1>4. CASE op = "pause"
  BY <1>4, SMTT(30) DEF Program
<1>5. CASE op = "resume"
  BY <1>5, SMTT(30) DEF Program
<1>6. CASE op = "mark"
  BY <1>6, SMTT(30) DEF Program
<1>7. CASE op = "incident"
  BY <1>7, SMTT(30) DEF Program
<1>8. CASE op = "stop"
  BY <1>8, SMTT(30) DEF Program
<1>9. CASE op = "recover"
  BY <1>9, SMTT(30) DEF Program
<1> QED BY <1>1, <1>2, <1>3, <1>4, <1>5, <1>6, <1>7, <1>8, <1>9, OperationNames

(* Where a step leaves the call of a finalize. *)
LEMMA CallPlace ==
  ASSUME CallTypeOK, Label # "none", Proceed \/ NextChannel \/ Abort, call'.op = "stop"
  PROVE  call.op = "stop" /\ (call'.step = call.step \/ call'.step = call.step + 1)
<1>1. CASE Return \/ Abort
  BY <1>1 DEF Return, Abort, Idle
<1>2. CASE Proceed /\ ~ Return
  BY <1>2, LabelType DEF Proceed, CallTypeOK
<1>3. CASE call' = [call EXCEPT !.ch = @ + 1] /\ UNCHANGED life
  BY <1>3, LabelType DEF CallTypeOK
<1> QED BY <1>1, <1>2, <1>3 DEF NextChannel

(* A step that touches no file of a channel, and neither status nor counts. *)
LEMMA ExactQuiet ==
  ASSUME TypeOK, ExactInv, UNCHANGED <<length, aligned, synced>>,
         UNCHANGED session \/ session'.status # "Complete",
         manifest'.committed = manifest.committed, manifest'.written = manifest.written,
         manifest'.status = manifest.status,
         life = "gone" => life' = "gone",
         life' = "gone" => call' = Idle \/ call'.op = "recover",
         life' # "gone" =>
           /\ Label # "audio"
           /\ Label' \in {"audio", "rename"} => call'.ch = 1
           /\ manifest.status = "Complete" => call'.op = "stop" /\ call'.step > 7
           /\ call'.op = "stop" /\ call'.step > 2 => call.op = "stop" /\ call.step > 2
  PROVE  ExactInv'
<1>1. CompleteIsExact' /\ (session'.status = "Complete" => life' = "gone")
  BY DEF ExactInv, CompleteIsExact
<1>2. \A c \in Channel : ~ (c < 1)
  BY DEF Channel
<1>3. ASSUME NEW c \in Channel, life' # "gone", length'[c] = manifest'.written + Ahead(c)'
      PROVE  aligned'[c] = manifest'.written
  <2>1. Ahead(c) = 0 /\ Ahead(c)' = 0
    BY <1>2, <1>3 DEF Ahead
  <2> QED BY <1>3, <2>1 DEF ExactInv
<1>4. life' # "gone" => \A c \in Channel : Exact(c)' <=> Exact(c)
  BY DEF Exact
<1> QED BY <1>1, <1>2, <1>3, <1>4 DEF ExactInv

(* Beginning or refusing a call keeps ExactInv. *)
LEMMA ExactCalls ==
  ASSUME TypeOK, ExactInv, Calls
  PROVE  ExactInv'
<1>1. /\ UNCHANGED <<length, aligned, synced, session, life>>
      /\ Label = "none" /\ call = Idle
  BY CallsLeave DEF audio
<1>2. /\ manifest'.written = manifest.written /\ manifest'.committed = manifest.committed
      /\ manifest'.status = manifest.status
  BY CallsLeave DEF TypeOK, Manifests
<1>3. life # "gone" => manifest.status # "Complete"
  BY <1>1 DEF ExactInv, Idle
<1>4. CASE UNCHANGED call
  BY <1>1, <1>2, <1>3, <1>4, ExactQuiet DEF Label, Idle
<1>5. CASE BeginRecover
  <2>1. call'.op = "recover" /\ call'.ch = 1
    BY <1>5 DEF BeginRecover, Begin
  <2> QED BY <1>1, <1>2, <1>3, <2>1, ExactQuiet
<1>6. ASSUME NEW op \in Operations, NEW frames, NEW goal, NEW request,
             Begin(op, frames, goal, request), life # "gone"
      PROVE  ExactInv'
  <2>1. call'.ch = 1 /\ call'.step = 1
    BY <1>6 DEF Begin
  <2> QED BY <1>1, <1>2, <1>3, <1>6, <2>1, ExactQuiet
<1>7. \/ UNCHANGED call
      \/ BeginRecover
      \/ life # "gone" /\ \E op \in Operations : \E frames, goal, request :
           Begin(op, frames, goal, request)
  BY OperationNames DEF Calls, Create, WriteFrames, RefuseWrite, Pause, Resume, AddMarker,
     RecordIncident, Finalize, Snapshot, RefuseRecovery, Ready
<1> QED BY <1>4, <1>5, <1>6, <1>7

(* One channel of a batch: a channel that held the frames counted holds    *)
(* the batch as well, and one that did not still does not.                 *)
LEMMA ExactWrite ==
  ASSUME TypeOK, ExactInv, WriteAudio
  PROVE  ExactInv'
<1>1. /\ Label = "audio" /\ NextChannel /\ UNCHANGED <<session, synced>>
      /\ length' = [length EXCEPT ![call.ch] = @ + call.frames]
  BY DEF WriteAudio
<1>2. /\ CallTypeOK /\ call # Idle /\ call.ch \in Channel /\ call.frames \in Nat
      /\ call.op \in Operations /\ call.step \in 1..Len(Program[call.op])
      /\ Program[call.op][call.step] = "audio"
      /\ manifest.written \in Nat
  BY <1>1, LabelType DEF TypeOK, Manifests
<1>3. call.op # "recover" /\ call.op # "stop" /\ life # "gone"
  <2>1. call.op # "recover"
    BY <1>1, <1>2, RecoveryLabels DEF RecoveryRecords
  <2>2. call.op # "stop"
    <3>1. call.step = 1
      BY <1>2, ProgramOrder
    <3> QED BY <1>2, <3>1, StopProgram
  <2> QED BY <1>2, <2>1, <2>2 DEF ExactInv
<1>4. manifest.status # "Complete" /\ manifest'.status = manifest.status
  BY <1>3 DEF ExactInv, WriteAudio, TypeOK, Manifests
<1>5. CompleteIsExact' /\ session'.status # "Complete"
  BY <1>1, <1>3 DEF ExactInv, CompleteIsExact
<1>6. call' = Idle \/ (call'.op = call.op /\ life' = life)
  BY <1>1, <1>2, CallOwner
<1>7. Label' # "rename" /\ call'.op # "stop"
  <2>1. call'.op # "stop"
    BY <1>3, <1>6 DEF Idle
  <2>2. CallTypeOK'
    BY TypeSystemCalls DEF SystemCalls, TypeOK
  <2>3. CASE Label' = "rename"
    <3>1. call' # Idle /\ call'.op \in Operations /\ call'.step \in 1..Len(Program[call'.op])
          /\ Program[call'.op][call'.step] = "rename"
      BY <2>2, <2>3 DEF Label, CallTypeOK
    <3> QED BY <2>1, <3>1, RenameStep
  <2> QED BY <2>1, <2>3
<1>8. ASSUME NEW c \in Channel
      PROVE  /\ Ahead(c) = IF c < call.ch THEN call.frames ELSE 0
             /\ length'[c] = IF c = call.ch THEN length[c] + call.frames ELSE length[c]
             /\ length[c] \in Nat /\ c \in Nat /\ c <= NumChannels /\ call.ch \in Nat
  <2>1. Ahead(c) = IF c < call.ch THEN call.frames ELSE 0
    BY <1>1 DEF Ahead
  <2>2. length'[c] = IF c = call.ch THEN length[c] + call.frames ELSE length[c]
    BY <1>1, <1>2 DEF TypeOK
  <2>3. length[c] \in Nat
    BY DEF TypeOK
  <2>4. c \in Nat /\ c <= NumChannels /\ call.ch \in Nat
    BY <1>2, ChannelsAssumption DEF Channel
  <2> QED BY <2>1, <2>2, <2>3, <2>4
<1>9. ASSUME NEW c \in Channel, length'[c] = manifest'.written + Ahead(c)'
      PROVE  aligned'[c] = manifest'.written
  <2>1. length[c] = manifest.written + Ahead(c) => aligned[c] = manifest.written
    BY <1>3 DEF ExactInv
  <2>2. CASE LastChannel
    <3>1. /\ manifest' = [manifest EXCEPT !.written = @ + call.frames]
          /\ aligned' = [d \in Channel |->
               IF aligned[d] = manifest.written /\ length'[d] = manifest'.written
               THEN manifest'.written ELSE aligned[d]]
          /\ Proceed
      BY <2>2 DEF WriteAudio, NextChannel
    <3>2. manifest'.written = manifest.written + call.frames
      BY <3>1 DEF TypeOK, Manifests
    <3>3. Ahead(c)' = 0
      <4>1. Label' # "audio"
        BY <1>1, <1>2, <3>1, Proceeding
      <4> QED BY <4>1 DEF Ahead
    <3>4. length'[c] = manifest.written + call.frames
      BY <1>2, <1>9, <3>2, <3>3
    <3>5. length[c] = manifest.written + Ahead(c)
      <4>1. c = call.ch \/ c < call.ch
        BY <1>8, <2>2, ChannelsAssumption DEF LastChannel
      <4>2. CASE c = call.ch
        BY <1>2, <1>8, <3>4, <4>2
      <4>3. CASE c < call.ch
        BY <1>2, <1>8, <3>4, <4>3
      <4> QED BY <4>1, <4>2, <4>3
    <3> QED BY <1>2, <2>1, <3>1, <3>2, <3>4, <3>5
  <2>3. CASE ~ LastChannel
    <3>1. UNCHANGED <<manifest, aligned>> /\ call' = [call EXCEPT !.ch = @ + 1]
      BY <2>3 DEF WriteAudio, NextChannel
    <3>2. Label' = "audio" /\ call'.ch = call.ch + 1 /\ call'.frames = call.frames
      BY <1>1, <1>2, <3>1, Looping
    <3>3. Ahead(c)' = IF c < call.ch \/ c = call.ch THEN call.frames ELSE 0
      BY <1>8, <3>2 DEF Ahead
    <3>4. length[c] = manifest.written + Ahead(c)
      BY <1>2, <1>8, <1>9, <3>1, <3>3
    <3> QED BY <2>1, <3>1, <3>4
  <2> QED BY <2>2, <2>3
<1>10. life' = "gone" => call' = Idle
  BY <1>3, <1>6
<1> QED BY <1>4, <1>5, <1>7, <1>9, <1>10 DEF ExactInv

(* The syncs: after the last one everything counted is committed. *)
LEMMA ExactSync ==
  ASSUME TypeOK, ExactInv, SyncAudio
  PROVE  ExactInv'
<1>1. /\ Label = "sync" /\ NextChannel /\ UNCHANGED <<session, length, aligned>>
      /\ manifest' = IF LastChannel THEN [manifest EXCEPT !.committed = manifest.written]
                     ELSE manifest
  BY DEF SyncAudio
<1>2. /\ CallTypeOK /\ call # Idle
      /\ call.op \in Operations /\ call.step \in 1..Len(Program[call.op])
      /\ Program[call.op][call.step] = "sync"
  BY <1>1, LabelType DEF TypeOK
<1>3. call.op # "recover" /\ life # "gone"
  BY <1>1, <1>2, RecoveryLabels DEF RecoveryRecords, ExactInv
<1>4. call.op = "stop" => call.step = 2
  <2>1. CASE call.op = "stop"
    <3>1. call.step \in 1..9 /\ Program["stop"][call.step] = "sync"
      BY <1>2, <2>1, StopProgram
    <3> QED BY <3>1, StopProgram
  <2> QED BY <2>1
<1>5. /\ manifest.status # "Complete" /\ manifest'.status = manifest.status
      /\ manifest'.written = manifest.written
  BY <1>1, <1>3, <1>4 DEF ExactInv, TypeOK, Manifests
<1>6. CompleteIsExact' /\ session'.status # "Complete"
  BY <1>1, <1>3 DEF ExactInv, CompleteIsExact
<1>7. call' = Idle \/ (call'.op = call.op /\ life' = life)
  BY <1>1, <1>2, CallOwner
<1>8. /\ Label' \notin {"audio", "rename"}
      /\ call'.op = "stop" /\ call'.step > 2 => manifest'.committed = manifest'.written
  <2>1. CASE ~ LastChannel
    <3>1. call' = [call EXCEPT !.ch = @ + 1]
      BY <1>1, <2>1 DEF NextChannel
    <3>2. Label' = "sync" /\ call'.op = call.op /\ call'.step = call.step
      BY <1>1, <1>2, <3>1, Looping DEF CallTypeOK
    <3> QED BY <1>4, <3>2
  <2>2. CASE LastChannel
    <3>1. Proceed /\ manifest'.committed = manifest'.written
      BY <1>1, <2>2 DEF NextChannel, TypeOK, Manifests
    <3>2. Label' = "none" \/ Label' = "FramesCommitted"
      BY <1>1, <1>2, <3>1, Proceeding, SyncThenCommit
    <3> QED BY <3>1, <3>2
  <2> QED BY <2>1, <2>2
<1>9. ASSUME NEW c \in Channel, length'[c] = manifest'.written + Ahead(c)'
      PROVE  aligned'[c] = manifest'.written
  <2>1. Ahead(c) = 0 /\ Ahead(c)' = 0
    BY <1>1, <1>8 DEF Ahead
  <2> QED BY <1>1, <1>3, <1>5, <1>9, <2>1 DEF ExactInv
<1>10. life' = "gone" => call' = Idle
  BY <1>3, <1>7
<1> QED BY <1>5, <1>6, <1>8, <1>9, <1>10 DEF ExactInv

(* An append or a write of session.json keeps ExactInv: session.json says  *)
(* Complete only at the last step of finalize, which ends the Recorder.    *)
LEMMA ExactAppend ==
  ASSUME TypeOK, ExactInv, AppendRecord \/ PersistManifest
  PROVE  ExactInv'
<1>1. /\ Label \in RecorderRecords \cup {"manifest"} /\ Proceed
      /\ UNCHANGED <<length, aligned, synced>>
  BY DEF AppendRecord, PersistManifest, audio
<1>2. Label # "none" /\ Label \notin RecoveryRecords \cup {"output", "recovered"}
      /\ Label \notin {"audio", "sync", "rename"}
  BY <1>1 DEF RecorderRecords, RecoveryRecords
<1>3. /\ CallTypeOK /\ call # Idle
      /\ call.op \in Operations /\ call.step \in 1..Len(Program[call.op])
      /\ Program[call.op][call.step] = Label
  BY <1>2, LabelType DEF TypeOK
<1>4. call.op # "recover" /\ life # "gone"
  BY <1>2, <1>3, RecoveryLabels DEF ExactInv
<1>5. /\ manifest'.written = manifest.written /\ manifest'.committed = manifest.committed
      /\ manifest'.status = manifest.status
  <2>1. CASE AppendRecord
    BY <2>1, AfterAppendType DEF AppendRecord, AfterAppend, TypeOK, Manifests, RecordKinds
  <2>2. CASE PersistManifest
    BY <2>2 DEF PersistManifest
  <2> QED BY <2>1, <2>2
<1>6. call' = Idle \/ (call'.op = call.op /\ life' = life)
  BY <1>1, <1>2, <1>3, CallOwner
<1>7. /\ Label' # "audio" /\ (Label' = "rename" => call'.ch = 1)
  BY <1>1, <1>2, <1>3, Proceeding
<1>8. call'.op = "stop" /\ call'.step > 2 => call.op = "stop" /\ call.step > 2
  <2> SUFFICES ASSUME call'.op = "stop", call'.step > 2 PROVE call.op = "stop" /\ call.step > 2
    OBVIOUS
  <2>1. call.op = "stop" /\ (call'.step = call.step \/ call'.step = call.step + 1)
    BY <1>1, <1>2, <1>3, CallPlace
  <2>2. call.step # 2
    BY <1>2, <1>3, <2>1, StopProgram
  <2>3. call.step \in 1..9
    BY <1>3, <2>1, StopProgram
  <2> QED BY <2>1, <2>2, <2>3
<1>9. manifest.status = "Complete" => call.op = "stop" /\ call.step > 7 /\ call.step \in 1..9
  BY <1>3, <1>4, StopProgram DEF ExactInv
<1>10. manifest.status = "Complete" => life' = "gone" \/ (call'.op = "stop" /\ call'.step > 7)
  <2>1. CASE call' = [call EXCEPT !.step = @ + 1, !.ch = 1]
    BY <1>3, <1>9, <2>1 DEF CallTypeOK
  <2>2. CASE Return
    BY <1>9, <2>2 DEF Return
  <2> QED BY <1>1, <2>1, <2>2 DEF Proceed
<1>11. life' = "gone" => call' = Idle
  BY <1>4, <1>6
<1>12. CASE AppendRecord \/ manifest.status # "Complete"
  <2>1. UNCHANGED session \/ session'.status # "Complete"
    BY <1>12 DEF AppendRecord, PersistManifest
  <2> QED BY <1>1, <1>2, <1>4, <1>5, <1>7, <1>8, <1>10, <1>11, <2>1, ExactQuiet
<1>13. CASE PersistManifest /\ manifest.status = "Complete"
  <2>1. call.op = "stop" /\ call.step = 9
    <3>1. Label = "manifest" /\ Label # "FinalizationCompleted"
      BY <1>13 DEF PersistManifest
    <3>2. call.step # 8
      BY <1>3, <1>9, <1>13, <3>1, StopProgram
    <3> QED BY <1>9, <1>13, <3>2
  <2>2. Return
    BY <1>1, <2>1, StopProgram DEF Proceed
  <2>3. life' = "gone" /\ call' = Idle
    BY <2>1, <2>2 DEF Return
  <2>4. session' = manifest
    BY <1>13 DEF PersistManifest
  <2>5. Label = "manifest"
    BY <1>13 DEF PersistManifest
  <2>6. ASSUME NEW c \in Channel
        PROVE  /\ length[c] = manifest.committed /\ synced[c] = manifest.committed
               /\ aligned[c] = manifest.committed
    <3>1. Exact(c) /\ manifest.committed = manifest.written
      BY <1>4, <1>13, <2>1 DEF ExactInv
    <3>2. Ahead(c) = 0
      BY <2>5 DEF Ahead
    <3>3. length[c] = manifest.written + Ahead(c)
      BY <3>1, <3>2 DEF Exact, TypeOK, Manifests
    <3>4. aligned[c] = manifest.written
      BY <1>4, <3>3 DEF ExactInv
    <3> QED BY <3>1, <3>4 DEF Exact
  <2>7. CompleteIsExact'
    BY <1>1, <2>4, <2>6 DEF CompleteIsExact
  <2> QED BY <2>3, <2>7 DEF ExactInv
<1> QED BY <1>12, <1>13

(* The renames: every channel is validated and synced before the status    *)
(* becomes Complete.                                                       *)
LEMMA ExactRename ==
  ASSUME TypeOK, ExactInv, RenameFinal
  PROVE  ExactInv'
<1>1. /\ Label = "rename" /\ Validates(call.ch) /\ NextChannel
      /\ UNCHANGED <<session, length, aligned>>
      /\ synced' = [synced EXCEPT ![call.ch] = length[call.ch]]
      /\ manifest' = IF LastChannel
                     THEN [manifest EXCEPT !.state = "Completed", !.status = "Complete"]
                     ELSE manifest
  BY DEF RenameFinal
<1>2. /\ CallTypeOK /\ call # Idle /\ call.op = "stop" /\ call.step = 7 /\ call.ch \in Channel
  BY <1>1, LabelType, RenameStep DEF TypeOK
<1>3. life # "gone" /\ manifest.status # "Complete" /\ manifest.committed = manifest.written
  BY <1>2 DEF ExactInv
<1>4. /\ manifest'.written = manifest.written /\ manifest'.committed = manifest.committed
      /\ manifest'.status = IF LastChannel THEN "Complete" ELSE manifest.status
  BY <1>1 DEF TypeOK, Manifests
<1>5. CompleteIsExact' /\ session'.status # "Complete"
  BY <1>1, <1>3 DEF ExactInv, CompleteIsExact
<1>6. ASSUME NEW c \in Channel, c < call.ch \/ c = call.ch
      PROVE  length[c] = manifest.committed /\ synced'[c] = manifest.committed
  <2>1. CASE c = call.ch
    BY <1>1, <1>2, <2>1 DEF Validates, TypeOK
  <2>2. CASE c < call.ch /\ c # call.ch
    <3>1. Exact(c)
      BY <1>1, <1>3, <2>2 DEF ExactInv
    <3>2. synced'[c] = synced[c]
      BY <1>1, <1>2, <2>2 DEF TypeOK
    <3> QED BY <3>1, <3>2 DEF Exact
  <2> QED BY <1>6, <2>1, <2>2
<1>7. ASSUME NEW c \in Channel, c < call.ch \/ c = call.ch
      PROVE  Exact(c)'
  BY <1>1, <1>4, <1>6, <1>7 DEF Exact
<1>8. \A c \in Channel : c \in Nat /\ c <= NumChannels
  BY ChannelsAssumption DEF Channel
<1>9. ASSUME Label' # "audio", NEW c \in Channel, length'[c] = manifest'.written + Ahead(c)'
      PROVE  aligned'[c] = manifest'.written
  <2>1. Ahead(c) = 0 /\ Ahead(c)' = 0
    BY <1>1, <1>9 DEF Ahead
  <2> QED BY <1>1, <1>3, <1>4, <1>9, <2>1 DEF ExactInv
<1>10. CASE LastChannel
  <2>1. call' = [call EXCEPT !.step = @ + 1, !.ch = 1] /\ UNCHANGED life
    <3>1. Proceed
      BY <1>1, <1>10 DEF NextChannel
    <3>2. call.step < Len(Program[call.op])
      BY <1>2, StopProgram
    <3> QED BY <3>1, <3>2 DEF Proceed
  <2>2. call'.op = "stop" /\ call'.step = 8 /\ call' # Idle
    <3>1. call.step + 1 = 8
      BY <1>2
    <3>2. call'.op = call.op /\ call'.step = call.step + 1
      BY <1>2, <2>1 DEF CallTypeOK
    <3> QED BY <1>2, <3>1, <3>2 DEF Idle
  <2>3. Label' = "FinalizationCompleted"
    BY <2>2, StopProgram DEF Label
  <2>4. \A c \in Channel : Exact(c)'
    BY <1>2, <1>7, <1>8, <1>10 DEF LastChannel
  <2> QED BY <1>3, <1>4, <1>5, <1>9, <2>1, <2>2, <2>3, <2>4 DEF ExactInv
<1>11. CASE ~ LastChannel
  <2>1. call' = [call EXCEPT !.ch = @ + 1] /\ UNCHANGED life
    BY <1>1, <1>11 DEF NextChannel
  <2>2. Label' = "rename" /\ call'.op = "stop" /\ call'.ch = call.ch + 1
    BY <1>1, <1>2, <2>1, Looping
  <2>3. \A c \in Channel : c < call'.ch => c < call.ch \/ c = call.ch
    BY <1>2, <1>8, <2>2
  <2> QED BY <1>3, <1>4, <1>5, <1>7, <1>9, <1>11, <2>1, <2>2, <2>3 DEF ExactInv
<1> QED BY <1>10, <1>11

(* Every system call that succeeds keeps ExactInv, those of a recovery as  *)
(* well: it never says Complete.                                           *)
LEMMA ExactSystemCalls ==
  ASSUME TypeOK, ExactInv, SystemCalls
  PROVE  ExactInv'
<1>0. CallTypeOK
  BY DEF TypeOK
<1>1. CASE ValidationFails
  <2>1. /\ Label = "rename" /\ Abort /\ UNCHANGED <<length, aligned, synced, session, manifest>>
    BY <1>1 DEF ValidationFails, disk, audio
  <2>2. call.op = "stop"
    BY <1>0, <2>1, LabelType, RenameStep
  <2>3. call' = Idle /\ life' = "gone"
    BY <2>1, <2>2 DEF Abort
  <2> QED BY <2>1, <2>3, ExactQuiet
<1>2. CASE RecoverOutput \/ OutputExists \/ PersistRecovered \/ AppendRecovery
  <2>1. /\ Label \in RecoveryRecords \cup {"output", "recovered"} /\ Label # "none"
        /\ Proceed \/ NextChannel \/ Abort
        /\ UNCHANGED <<length, aligned, synced, manifest>>
        /\ UNCHANGED session \/ session' = RecoveredManifest
    BY <1>2 DEF RecoverOutput, OutputExists, PersistRecovered, AppendRecovery, disk, audio, RecoveryRecords
  <2>2. call.op = "recover" /\ life' = life
    BY <1>0, <2>1, RecoveryLabels, CallOwner
  <2>3. call' = Idle \/ call'.op = "recover"
    BY <1>0, <2>1, <2>2, CallOwner
  <2>4. Label' \notin {"audio", "rename"}
    <3>1. CASE call' = Idle
      BY <3>1 DEF Label
    <3>2. CASE call' # Idle
      <4>1. CallTypeOK'
        BY TypeSystemCalls DEF TypeOK
      <4>2. Label' = Program["recover"][call'.step] /\ call'.step \in 1..Len(Program["recover"])
        BY <2>3, <3>2, <4>1 DEF Label, CallTypeOK
      <4> QED BY <4>2, OperationNames, RenameStep, ProgramOrder
    <3> QED BY <3>1, <3>2
  <2>5. UNCHANGED session \/ session'.status # "Complete"
    BY <2>1 DEF RecoveredManifest, RecoveredStatus, TypeOK, Manifests
  <2>6. Label # "audio" /\ (life # "gone" => manifest.status # "Complete")
    BY <2>1, <2>2 DEF RecoveryRecords, ExactInv
  <2>7. call'.op # "stop"
    BY <2>3 DEF Idle
  <2> QED BY <2>1, <2>2, <2>3, <2>4, <2>5, <2>6, <2>7, ExactQuiet
<1> QED BY <1>1, <1>2, ExactWrite, ExactSync, ExactAppend, ExactRename DEF SystemCalls

(* Only a write fails while audio is being written, and it may have        *)
(* written some of it, but not all.                                        *)
LEMMA AudioFailure ==
  ASSUME TypeOK, IoError, Label = "audio"
  PROVE  PartialWrite
BY DEF IoError, PartialAppend, PartialPersist, PartialOutput, NoEffect, RecordKinds,
       RecorderRecords, RecoveryRecords

(* A failing call keeps ExactInv, whatever part of it was done: a channel  *)
(* that a failed write left uneven is longer than the frames counted.      *)
LEMMA ExactIoError ==
  ASSUME TypeOK, DurableInv, ExactInv, IoError
  PROVE  ExactInv'
<1>1. Label # "none" /\ Abort /\ UNCHANGED <<aligned, synced, manifest>>
  BY DEF IoError, PartialWrite, PartialAppend, PartialPersist, PartialOutput, NoEffect,
         RecordKinds, RecorderRecords, RecoveryRecords
<1>2. CallTypeOK /\ call # Idle /\ call.ch \in Channel /\ call.frames \in Nat
  BY <1>1, LabelType DEF TypeOK
<1>3. /\ Label' = "none" /\ call' = Idle /\ call'.op # "stop"
      /\ life' = IF call.op \in {"create", "stop"} THEN "gone" ELSE life
  BY <1>1, Aborting DEF Abort, Idle
<1>4. life' # "gone" => life # "gone" /\ manifest.status # "Complete"
  BY <1>2, <1>3 DEF ExactInv
<1>5. CASE Label = "audio"
  <2>0. PartialWrite
    BY <1>5, AudioFailure
  <2>1. PICK part \in 0..call.frames : length' = [length EXCEPT ![call.ch] = @ + part]
    BY <2>0 DEF PartialWrite
  <2>2. /\ Label = "audio" /\ UNCHANGED session /\ part \in Nat
    BY <1>2, <1>5, <2>0, <2>1 DEF PartialWrite
  <2>3. call.op # "recover" /\ life # "gone"
    BY <1>2, <2>2, RecoveryLabels DEF RecoveryRecords, ExactInv
  <2>4. CompleteIsExact' /\ session'.status # "Complete"
    BY <2>2, <2>3 DEF ExactInv, CompleteIsExact
  <2>5. ASSUME NEW c \in Channel, length'[c] = manifest'.written + Ahead(c)'
        PROVE  aligned'[c] = manifest'.written
    <3>1. Ahead(c)' = 0
      BY <1>3 DEF Ahead
    <3>2. length[c] \in Nat /\ manifest.written \in Nat /\ manifest.written <= length[c]
      BY DEF TypeOK, Manifests, DurableInv
    <3>3. length'[c] = manifest.written
      BY <1>1, <2>5, <3>1, <3>2
    <3>4. length'[c] = length[c] \/ length'[c] = length[c] + part
      BY <1>2, <2>1 DEF TypeOK
    <3>5. length[c] = manifest.written
      BY <2>2, <3>2, <3>3, <3>4
    <3>6. Ahead(c) = 0
      <4>1. CASE c < call.ch
        <5>1. manifest.written + call.frames <= length[c]
          BY <2>2, <4>1 DEF DurableInv
        <5> QED BY <1>2, <3>2, <3>5, <5>1 DEF Ahead
      <4> QED BY <4>1 DEF Ahead
    <3>7. length[c] = manifest.written + Ahead(c)
      BY <3>2, <3>5, <3>6
    <3> QED BY <1>1, <2>3, <3>7 DEF ExactInv
  <2> QED BY <1>3, <1>4, <2>4, <2>5, <1>1 DEF ExactInv
<1>6. CASE Label # "audio"
  <2>1. UNCHANGED length
    BY <1>6 DEF IoError, PartialWrite, PartialAppend, PartialPersist, PartialOutput, NoEffect
  <2>2. CASE UNCHANGED session \/ session'.status # "Complete"
    BY <1>1, <1>3, <1>4, <1>6, <2>1, <2>2, ExactQuiet DEF ExactInv
  <2>3. CASE PartialPersist /\ session'.status = "Complete" /\ ~ UNCHANGED session
    <3>1. Label = "manifest" /\ session' = manifest
      BY <2>3 DEF PartialPersist, RecoveredManifest, RecoveredStatus, TypeOK, Manifests
    <3>2. call.op # "recover" /\ life # "gone"
      BY <1>2, <3>1, RecoveryLabels DEF RecoveryRecords, ExactInv
    <3>3. /\ call.op = "stop" /\ call.step > 7 /\ manifest.committed = manifest.written
          /\ \A c \in Channel : Exact(c)
      BY <1>2, <2>3, <3>1, <3>2, LabelType DEF ExactInv
    <3>4. \A c \in Channel : aligned[c] = manifest.written
      <4> SUFFICES ASSUME NEW c \in Channel PROVE aligned[c] = manifest.written
        OBVIOUS
      <4>1. Ahead(c) = 0
        BY <3>1 DEF Ahead
      <4>2. length[c] = manifest.written + Ahead(c)
        BY <3>3, <4>1 DEF Exact, TypeOK, Manifests
      <4> QED BY <3>2, <4>2 DEF ExactInv
    <3>5. CompleteIsExact'
      BY <1>1, <2>1, <3>1, <3>3, <3>4 DEF CompleteIsExact, Exact
    <3>6. life' = "gone"
      BY <1>3, <3>3
    <3> QED BY <1>3, <3>5, <3>6 DEF ExactInv
  <2> QED BY <2>2, <2>3 DEF IoError, PartialWrite, PartialAppend, PartialOutput, NoEffect
<1> QED BY <1>5, <1>6

(* A crash keeps ExactInv: it takes nothing that was synced. *)
LEMMA ExactCrash ==
  ASSUME TypeOK, ExactInv, Crash
  PROVE  ExactInv'
<1>1. life' = "gone" /\ call' = Idle /\ UNCHANGED session
  BY DEF Crash
<1>2. PICK len \in [Channel -> UNION {synced[c]..length[c] : c \in Channel}] :
        /\ \A c \in Channel : synced[c] <= len[c] /\ len[c] <= length[c]
        /\ length' = len /\ synced' = len
        /\ aligned' = [c \in Channel |-> IF aligned[c] <= len[c] THEN aligned[c] ELSE len[c]]
  BY DEF Crash
<1>3. ASSUME session.status = "Complete", NEW c \in Channel
      PROVE  /\ length'[c] = session.committed /\ synced'[c] = session.committed
             /\ aligned'[c] = session.committed
  <2>1. /\ length[c] = session.committed /\ synced[c] = session.committed
        /\ aligned[c] = session.committed /\ session.committed \in Nat
    BY <1>3 DEF ExactInv, CompleteIsExact, TypeOK, Manifests
  <2>2. len[c] \in Nat
    BY <1>2 DEF TypeOK
  <2>3. len[c] = session.committed
    BY <1>2, <2>1, <2>2
  <2> QED BY <1>2, <2>1, <2>3
<1>4. CompleteIsExact'
  BY <1>1, <1>3 DEF CompleteIsExact
<1> QED BY <1>1, <1>4 DEF ExactInv

(* ExactInv is inductive. *)
LEMMA ExactNext == TypeOK /\ DurableInv /\ ExactInv /\ [Next]_vars => ExactInv'
<1> SUFFICES ASSUME TypeOK, DurableInv, ExactInv, [Next]_vars PROVE ExactInv'
  OBVIOUS
<1>1. CASE UNCHANGED vars
  BY <1>1 DEF ExactInv, CompleteIsExact, Exact, Ahead, Label, vars, disk, audio, log, memory
<1> QED BY <1>1, ExactCalls, ExactSystemCalls, ExactIoError, ExactCrash DEF Next

(* A session that says Complete describes its files, for every number of   *)
(* channels and whatever calls failed, crashes fell and recoveries were    *)
(* asked for, of a live session as well.                                   *)
THEOREM CompletionsAreExact == Spec => []CompleteIsExact
<1>1. Init => ExactInv
  BY ExactInit
<1>2. TypeOK /\ DurableInv /\ ExactInv /\ [Next]_vars => ExactInv'
  BY ExactNext
<1>3. ExactInv => CompleteIsExact
  BY DEF ExactInv
<1> QED BY <1>1, <1>2, <1>3, DurableAlways, PTL DEF Spec

-------------------------------------------------------------------------------
(* The promise of DurableTake.  The frontier of a session is the greatest  *)
(* that its journal names; that there is one has to be carried along. Only *)
(* a Recorder moves it, and no Recorder is left once a take is delivered.  *)

HasFrontier == \E f \in Nat : IsFrontier(journal, f)

Delivered == session.status \in {"Complete", "Recovered", "PartiallyRecovered"}

(* The greatest frontier is the frontier. *)
LEMMA FrontierIs ==
  ASSUME NEW j, NEW f, IsFrontier(j, f), \A g \in Frontiers(j) : g \in Nat
  PROVE  Frontier(j) = f
<1> DEFINE F == Frontiers(j)
<1>1. IsGreatest(f, F) /\ f \in F
  BY DEF IsFrontier, IsGreatest
<1>2. \A g \in F : IsGreatest(g, F) => g = f
  BY <1>1 DEF IsGreatest
<1>3. (CHOOSE g \in F : IsGreatest(g, F)) = f
  BY <1>1, <1>2
<1> QED BY <1>3 DEF Frontier

(* HasFrontier holds initially. *)
LEMMA FrontierInit == Init => HasFrontier /\ Frontiers(journal) = {0}
<1> SUFFICES ASSUME Init PROVE HasFrontier /\ Frontiers(journal) = {0}
  OBVIOUS
<1>1. Frontiers(journal) = {0}
  <2>1. {k \in 1..Len(journal) : journal[k].kind = "FramesCommitted" /\ Readable(journal, k)} = {}
    BY DEF Init
  <2> QED BY <2>1 DEF Frontiers
<1> QED BY <1>1 DEF HasFrontier, IsFrontier, IsGreatest

(* What a step does to the frontiers: nothing, unless it appends the       *)
(* record a Recorder commits with.                                         *)
LEMMA FrontierMoves ==
  ASSUME TypeOK, RecoveryInv, JournalInv, UNCHANGED vars \/ Calls \/ SystemCalls \/ Crash
  PROVE  \/ Frontiers(journal)' = Frontiers(journal)
         \/ AppendRecord /\ Label = "FramesCommitted" /\ life # "gone"
<1>1. CASE UNCHANGED journal
  BY <1>1
<1>2. CASE AppendRecord
  <2>1. Label \in RecorderRecords /\ Proceed
    BY <1>2 DEF AppendRecord
  <2>2. life # "gone"
    BY <2>1, RecorderSteps DEF RecorderRecords, RecoveryRecords
  <2>3. PICK record \in NextRecord : journal' = Append(journal, record)
    BY <1>2 DEF AppendRecord
  <2>4. record \in Records /\ record.kind = Label
    BY <2>1, <2>3, NextRecordType DEF RecordKinds
  <2> QED BY <1>2, <2>2, <2>3, <2>4, FrontiersAppend
<1>3. CASE AppendRecovery
  <2>1. Label \in RecoveryRecords /\ Label # "FramesCommitted"
    BY <1>3 DEF AppendRecovery, RecoveryRecords
  <2>2. PICK record \in NextRecord : journal' = Append(journal, record)
    BY <1>3 DEF AppendRecovery
  <2>3. record \in Records /\ record.kind = Label
    BY <2>1, <2>2, NextRecordType DEF RecordKinds
  <2> QED BY <2>1, <2>2, <2>3, FrontiersAppend
<1>4. CASE Crash
  BY <1>4, FrontiersCrash DEF JournalInv
<1>5. UNCHANGED vars \/ Calls => UNCHANGED journal
  BY CallsLeave DEF vars, disk, log
<1>6. SystemCalls => UNCHANGED journal \/ AppendRecord \/ AppendRecovery
  BY DEF SystemCalls, WriteAudio, SyncAudio, PersistManifest, RenameFinal, ValidationFails,
     RecoverOutput, OutputExists, PersistRecovered, disk, log
<1> QED BY <1>1, <1>2, <1>3, <1>4, <1>5, <1>6

(* The frontier a Recorder commits is the greatest. *)
LEMMA FrontierCommitted ==
  ASSUME TypeOK, JournalInv, Label # "FramesCommitted", life # "gone"
  PROVE  IsFrontier(journal, manifest.committed)
BY DEF JournalInv, FrontierInManifest, IsFrontier, IsGreatest

(* HasFrontier is kept. *)
LEMMA FrontierNext ==
  ASSUME TypeOK, DurableInv, RecoveryInv, JournalInv, RecoverLive = FALSE, HasFrontier,
         UNCHANGED vars \/ Calls \/ SystemCalls \/ Crash
  PROVE  HasFrontier'
<1>1. CASE Frontiers(journal)' = Frontiers(journal)
  BY <1>1 DEF HasFrontier, IsFrontier, IsGreatest
<1>2. CASE AppendRecord /\ Label = "FramesCommitted" /\ life # "gone"
  <2>1. TypeOK' /\ JournalInv'
    BY <1>2, TypeSystemCalls, JournalAppendRecord DEF SystemCalls
  <2>2. Label' # "FramesCommitted" /\ Proceed
    BY <1>2, Proceeding DEF AppendRecord, TypeOK
  <2>3. life' # "gone"
    <3>1. call.op # "stop" \/ call.step # Len(Program[call.op])
      <4>1. CASE call.op = "stop"
        <5>1. Program["stop"][call.step] = "FramesCommitted" /\ call.step \in 1..9
          BY <1>2, <4>1, LabelType, StopProgram DEF TypeOK
        <5> QED BY <4>1, <5>1, StopProgram
      <4> QED BY <4>1
    <3>2. call.step \in 1..Len(Program[call.op]) /\ Len(Program[call.op]) \in Nat
      BY <1>2, LabelType, ProgramTypes DEF TypeOK
    <3> QED BY <1>2, <2>2, <3>1, <3>2 DEF Proceed, Return
  <2>4. IsFrontier(journal, manifest.committed)' /\ manifest'.committed \in Nat
    BY <2>1, <2>2, <2>3 DEF JournalInv, FrontierInManifest, IsFrontier, IsGreatest, TypeOK, Manifests
  <2> QED BY <2>4 DEF HasFrontier
<1> QED BY <1>1, <1>2, FrontierMoves

(* What is delivered is the frontier.  A Complete session holds exactly    *)
(* that many frames, and no frontier is beyond a file; a recovered one is  *)
(* exact.  Both are named by the journal, since session.json is behind it. *)
LEMMA DeliveredIsFrontier ==
  ASSUME TypeOK, DurableInv, RecoveryInv, SessionInv, ExactInv, Delivered
  PROVE  IsFrontier(journal, session.committed) /\ life = "gone"
<1>1. session.committed \in Nat /\ \A f \in Frontiers(journal) : f \in Nat
  BY FrontierType DEF TypeOK, Manifests
<1>2. \A f \in Frontiers(journal) : f <= session.committed
  <2>1. CASE session.status = "Complete"
    <3> SUFFICES ASSUME NEW f \in Frontiers(journal) PROVE f <= session.committed
      OBVIOUS
    <3>1. 1 \in Channel
      BY ChannelsAssumption DEF Channel
    <3>2. length[1] = session.committed
      BY <2>1, <3>1 DEF ExactInv, CompleteIsExact
    <3> QED BY <3>1, <3>2, FrontierHeld
  <2>2. CASE session.status \in {"Recovered", "PartiallyRecovered"}
    BY <2>2 DEF RecoveryInv, RecoveryIsExact
  <2> QED BY <2>1, <2>2 DEF Delivered
<1>3. PICK f \in Frontiers(journal) : session.committed <= f
  BY DEF SessionInv
<1>4. f = session.committed
  BY <1>1, <1>2, <1>3
<1>5. life = "gone"
  BY DEF Delivered, Recovered, RecoveryInv, ExactInv
<1> QED BY <1>2, <1>3, <1>4, <1>5 DEF IsFrontier, IsGreatest

(* Who writes session.json, and what it then says. *)
LEMMA SessionMoves ==
  ASSUME TypeOK, RecoveryInv, UNCHANGED vars \/ Calls \/ SystemCalls \/ Crash
  PROVE  \/ UNCHANGED session
         \/ life # "gone" /\ PersistManifest /\ session' = manifest /\ UNCHANGED journal
         \/ /\ life = "gone" /\ PersistRecovered /\ UNCHANGED journal
            /\ session'.committed = call.goal
            /\ session'.status = "Recovered" /\ \A f \in Frontiers(journal) : f <= call.goal
<1>1. CASE PersistManifest
  <2>1. Label = "manifest" /\ Proceed /\ session' = manifest /\ UNCHANGED journal
    BY <1>1 DEF PersistManifest, log
  <2>2. life # "gone"
    BY <2>1, RecorderSteps DEF RecoveryRecords
  <2> QED BY <1>1, <2>1, <2>2
<1>2. CASE PersistRecovered
  <2>1. Label = "recovered" /\ session' = RecoveredManifest /\ UNCHANGED journal
    BY <1>2 DEF PersistRecovered, log
  <2>2. call.op = "recover"
    BY <2>1, RecoveryLabels DEF TypeOK
  <2>3. /\ life = "gone" /\ call.frames = call.goal
        /\ \A f \in Frontiers(journal) : f <= call.goal
    BY <2>2 DEF RecoveryInv
  <2>4. session'.committed = call.goal /\ session'.status = "Recovered"
    BY <2>1, <2>3 DEF RecoveredManifest, RecoveredStatus, TypeOK, Manifests
  <2> QED BY <1>2, <2>1, <2>3, <2>4
<1>3. UNCHANGED vars \/ Calls \/ Crash => UNCHANGED session
  BY CallsLeave DEF vars, disk, Crash
<1>4. SystemCalls => UNCHANGED session \/ PersistManifest \/ PersistRecovered
  BY DEF SystemCalls, WriteAudio, SyncAudio, AppendRecord, RenameFinal, ValidationFails,
     RecoverOutput, OutputExists, AppendRecovery, disk
<1> QED BY <1>1, <1>2, <1>3, <1>4

(* The frames of the delivered take. *)
TakeDelivered == IF Delivered THEN session.committed ELSE None

PromiseInv ==
  /\ TypeOK /\ ioErrors = 0
  /\ DurableInv /\ RecoveryInv /\ JournalInv /\ SessionInv /\ ExactInv /\ HasFrontier

(* No call fails where none may. *)
LEMMA NoErrors ==
  ASSUME MaxIoErrors = 0, ioErrors = 0, [Next]_vars
  PROVE  ioErrors' = 0
<1>1. ~ IoError
  BY DEF IoError
<1>2. CASE UNCHANGED vars
  BY <1>2 DEF vars
<1>3. CASE Calls
  BY <1>3 DEF Calls, Create, WriteFrames, RefuseWrite, Pause, Resume, AddMarker, RecordIncident,
     Finalize, Snapshot, BeginRecover, RefuseRecovery
<1>4. CASE SystemCalls
  BY <1>4 DEF SystemCalls, WriteAudio, SyncAudio, AppendRecord, PersistManifest, RenameFinal,
     ValidationFails, RecoverOutput, OutputExists, PersistRecovered, AppendRecovery
<1>5. CASE Crash
  BY <1>5 DEF Crash
<1> QED BY <1>1, <1>2, <1>3, <1>4, <1>5 DEF Next

(* PromiseInv, put together from its parts. *)
LEMMA PromiseAlways ==
  ASSUME RecoverLive = FALSE, MaxIoErrors = 0
  PROVE  Spec => []PromiseInv
<1>1. Init => PromiseInv
  <2>1. Init => ioErrors = 0
    BY DEF Init
  <2> QED BY <2>1, TypeInit, DurableInit, RecoveryInit, JournalInit, SessionInit, ExactInit,
             FrontierInit DEF PromiseInv
<1>2. ASSUME PromiseInv, [Next]_vars PROVE PromiseInv'
  <2>1. TypeOK' /\ DurableInv' /\ RecoveryInv' /\ ExactInv'
    BY <1>2, TypeNext, DurableNext, RecoveryNext, ExactNext DEF PromiseInv
  <2>2. ioErrors' = 0
    BY <1>2, NoErrors DEF PromiseInv
  <2>3. JournalInv' /\ SessionInv'
    BY <1>2, <2>2, JournalNext, SessionNext DEF PromiseInv
  <2>4. UNCHANGED vars \/ Calls \/ SystemCalls \/ Crash
    BY <1>2, <2>2, NoErrorStep DEF PromiseInv
  <2>5. HasFrontier'
    BY <1>2, <2>4, FrontierNext DEF PromiseInv
  <2> QED BY <2>1, <2>2, <2>3, <2>5 DEF PromiseInv
<1>3. PromiseInv /\ [Next]_vars => PromiseInv'
  BY <1>2
<1> QED BY <1>1, <1>3, PTL DEF Spec

(* Every step commits, delivers, or is not seen. *)
LEMMA PromiseStep ==
  ASSUME RecoverLive = FALSE, PromiseInv, PromiseInv', [Next]_vars
  PROVE  Take!Next \/ UNCHANGED <<Frontier(journal), TakeDelivered>>
<1> USE DEF PromiseInv
<1>1. UNCHANGED vars \/ Calls \/ SystemCalls \/ Crash
  BY NoErrorStep
<1>2. /\ \A f \in Frontiers(journal) : f \in Nat
      /\ \A f \in Frontiers(journal)' : f \in Nat
  <2>1. \A i \in 1..Len(journal) : journal[i].kind = "FramesCommitted" => journal[i].val \in Nat
    BY DEF TypeOK, Records
  <2>2. \A i \in 1..Len(journal') : journal'[i].kind = "FramesCommitted" => journal'[i].val \in Nat
    BY DEF TypeOK, Records
  <2> QED BY <2>1, <2>2 DEF Frontiers
<1>3. ASSUME NEW f, IsFrontier(journal, f) PROVE Frontier(journal) = f
  BY <1>2, <1>3, FrontierIs
<1>4. ASSUME NEW f, IsFrontier(journal', f) PROVE Frontier(journal') = f
  BY <1>2, <1>4, FrontierIs
<1>5. Delivered => life = "gone" /\ session.committed = Frontier(journal)
  BY <1>3, DeliveredIsFrontier
<1>6. CASE AppendRecord /\ Label = "FramesCommitted" /\ life # "gone"
  <2>1. ~ Delivered /\ ~ Delivered'
    BY <1>5, <1>6 DEF AppendRecord, Delivered
  <2>2. PICK f \in Nat : IsFrontier(journal, f)
    BY DEF HasFrontier
  <2>3. PICK g \in Nat : IsFrontier(journal', g)
    BY DEF HasFrontier
  <2>4. Frontier(journal) = f /\ Frontier(journal') = g
    BY <1>3, <1>4, <2>2, <2>3
  <2>5. f \in Frontiers(journal')
    <3>1. PICK record \in NextRecord : journal' = Append(journal, record)
      BY <1>6 DEF AppendRecord
    <3>2. record \in Records
      BY <1>6, <3>1, NextRecordType DEF RecordKinds, RecorderRecords
    <3> QED BY <2>2, <3>1, <3>2, FrontiersAppend DEF IsFrontier, IsGreatest
  <2>6. f <= g
    BY <2>3, <2>5 DEF IsFrontier, IsGreatest
  <2>7. TakeDelivered = None /\ TakeDelivered' = None
    BY <2>1 DEF TakeDelivered
  <2>8. CASE f = g
    BY <2>4, <2>7, <2>8
  <2>9. CASE f # g
    <3>1. g > f
      BY <2>6, <2>9
    <3> QED BY <2>1, <2>4, <3>1 DEF Take!Next, Take!Commit, Delivered
  <2> QED BY <2>8, <2>9
<1>7. CASE Frontiers(journal)' = Frontiers(journal)
  <2>1. Frontier(journal)' = Frontier(journal)
    BY <1>7 DEF Frontier
  <2>2. CASE UNCHANGED session
    BY <2>1, <2>2 DEF TakeDelivered, Delivered
  <2>3. CASE life # "gone" /\ PersistManifest /\ session' = manifest /\ UNCHANGED journal
    <3>1. ~ Delivered
      BY <1>5, <2>3
    <3>2. CASE manifest.status = "Complete"
      <4>1. manifest.committed = Frontier(journal)
        BY <1>3, <2>3, FrontierCommitted DEF PersistManifest
      <4>2. Take!Deliver
        BY <2>1, <2>3, <3>1, <3>2, <4>1 DEF Take!Deliver, Delivered
      <4> QED BY <4>2 DEF Take!Next
    <3>3. CASE manifest.status # "Complete"
      <4>1. ~ Delivered'
        BY <2>3, <3>3 DEF Delivered, RecoveryInv
      <4> QED BY <2>1, <3>1, <4>1 DEF TakeDelivered
    <3> QED BY <3>2, <3>3
  <2>4. CASE /\ life = "gone" /\ PersistRecovered /\ UNCHANGED journal
             /\ session'.committed = call.goal
             /\ session'.status = "Recovered" /\ \A f \in Frontiers(journal) : f <= call.goal
    <3>1. call.op = "recover"
      BY <2>4, RecoveryLabels DEF PersistRecovered, TypeOK
    <3>2. Frontier(journal) = call.goal
      BY <1>3, <2>4, <3>1 DEF SessionInv, IsFrontier, IsGreatest
    <3>3. CASE Delivered
      <4>1. TakeDelivered = call.goal /\ TakeDelivered' = call.goal
        BY <1>5, <2>4, <3>2, <3>3 DEF TakeDelivered, Delivered
      <4> QED BY <2>1, <4>1
    <3>4. CASE ~ Delivered
      <4>1. Take!Deliver
        BY <2>1, <2>4, <3>2, <3>4 DEF Take!Deliver, Delivered
      <4> QED BY <4>1 DEF Take!Next
    <3> QED BY <3>3, <3>4
  <2> QED BY <1>1, <2>2, <2>3, <2>4, SessionMoves
<1> QED BY <1>1, <1>6, <1>7, FrontierMoves

(* Sessions that are recovered only once their Recorder is gone keep the   *)
(* promise as long as no system call fails, for every number of channels,  *)
(* batches, markers and crashes: the frontier never recedes, and the take  *)
(* delivered, in one way or the other, is exactly the frontier, for good.  *)
THEOREM SessionsKeepThePromise ==
  ASSUME RecoverLive = FALSE, MaxIoErrors = 0
  PROVE  Spec => ImplementsDurableTake
<1>1. Init => Take!Init
  <2> SUFFICES ASSUME Init PROVE Take!Init
    OBVIOUS
  <2>1. IsFrontier(journal, 0) /\ Frontiers(journal) = {0}
    BY FrontierInit DEF IsFrontier, IsGreatest
  <2>2. Frontier(journal) = 0
    BY <2>1, FrontierIs
  <2>3. session.status = "Absent"
    BY DEF Init, NoManifest
  <2> QED BY <2>2, <2>3 DEF Take!Init
<1>2. PromiseInv /\ PromiseInv' /\ [Next]_vars
        => [Take!Next]_<<Frontier(journal),
                         IF session.status \in {"Complete", "Recovered", "PartiallyRecovered"}
                         THEN session.committed ELSE None>>
  BY PromiseStep DEF TakeDelivered, Delivered
<1> QED BY <1>1, <1>2, PromiseAlways, PTL DEF Spec, ImplementsDurableTake, Take!Spec

===============================================================================
