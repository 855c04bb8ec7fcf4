-------------------------------- MODULE Service --------------------------------
(***************************************************************************)
(* The audio service (crates/icepod-audio-service/src/main.rs): one mutex  *)
(* around the service object, requests from any number of clients executed *)
(* under it one at a time, a cache of answers that makes repeated requests *)
(* harmless, and the sessions directory, which alone survives a restart.   *)
(*                                                                         *)
(* A request may arrive at any time, any number of times and in any order  *)
(* with the others: connections are independent tasks, a client may repeat *)
(* a request whose answer it lost, and a copy may be late.  It carries the *)
(* token of the service run it was made for.                               *)
(*                                                                         *)
(* The calls on Recorder and recover_session are atomic here; Recorder.tla *)
(* takes them apart.  A kill in the middle of a request is a failed call   *)
(* followed by Restart.                                                    *)
(***************************************************************************)
EXTENDS RecorderState, Naturals, Sequences, FiniteSets

CONSTANTS
  Requests,      \* the requests clients make: records [id, cmd, token]
  CacheSize,     \* MAX_CACHED_REQUESTS
  MaxSessions,   \* bound: sessions on disk
  MaxFrames,     \* bound: batches written in a session
  MaxStarts,     \* bound: runs of the service
  MaxFailures    \* bound: failed calls of the recorder

Commands == {"read", "configure", "start", "pause", "resume", "mark", "stop",
             "simulate", "fault", "recover", "recover all"}

ASSUME RequestsAssumption ==
  /\ \A r \in Requests : r.cmd \in Commands /\ r.token \in Nat
  /\ \A q, r \in Requests : q.id = r.id => q = r
ASSUME SizesAssumption ==
  /\ CacheSize \in Nat \ {0} /\ MaxSessions \in Nat /\ MaxFrames \in Nat
  /\ MaxStarts \in Nat /\ MaxFailures \in Nat

VARIABLES
  state,      \* Service.state
  pending,    \* Service.pending is Some
  live,       \* the session Service.recorder records, 0 when it is None
  recorder,   \* state in the manifest of that Recorder, "Idle" when None
  cached,     \* Service.cache_order: the requests whose answers are cached
  token,      \* which run of the service this is
  sessions,   \* the sessions on disk, oldest first
  recent,     \* the last CacheSize + 1 requests executed, in any run
  failures    \* failed calls so far

memory == <<state, pending, live, recorder>>
cache  == <<cached, recent>>
vars   == <<memory, cache, token, sessions, failures>>

(* status in session.json, batches in the frontier of its journal, request *)
(* ids of its markers, whether every .part is in place, and whether        *)
(* recovery/ holds outputs.                                                *)
NewSession ==
  [status |-> "Active", frames |-> 0, markers |-> <<>>, parts |-> TRUE, outputs |-> FALSE]

Delivered == {"Complete", "Recovered"}

Init ==
  /\ state = "Idle" /\ pending = FALSE /\ live = 0 /\ recorder = "Idle"
  /\ cached = <<>> /\ recent = <<>>
  /\ token = 1 /\ sessions = <<>> /\ failures = 0

-------------------------------------------------------------------------------
(* execute: authentication, the cache of answers, and their eviction. *)

Elements(s) == {s[i] : i \in DOMAIN s}

Newest(s, n) == IF Len(s) <= n THEN s ELSE SubSeq(s, Len(s) - n + 1, Len(s))

(* The request is executed, not refused and not answered from the cache.   *)
Fresh(r) == r.token = token /\ r \notin Elements(cached)

NeverEvict(s) == s

EvictTooSoon(s) == Newest(s, CacheSize - 1)

(* More than MAX_CACHED_REQUESTS answers: the oldest goes. *)
Evict(s) == Newest(s, CacheSize)

Execute(r, cmd) ==
  /\ r.cmd = cmd
  /\ Fresh(r)
  /\ cached' = Evict(Append(cached, r))
  /\ recent' = Newest(Append(recent, r), CacheSize + 1)

(* Another token, or an id in the cache: an answer and no effect. *)
Answer(r) ==
  /\ ~ Fresh(r)
  /\ UNCHANGED vars

-------------------------------------------------------------------------------
(* execute_command. *)

(* Status, List, Devices and Inspect, and a command that is refused. *)
Read(r) ==
  /\ Execute(r, "read")
  /\ UNCHANGED <<memory, token, sessions, failures>>

ConfigurableAlways == States

Configurable == {"Idle", "Completed", "Configured", "Armed"}

Configure(r) ==
  /\ Execute(r, "configure")
  /\ state \in Configurable
  /\ pending' = TRUE /\ state' = "Armed"
  /\ UNCHANGED <<live, recorder, token, sessions, failures>>

Start(r) ==
  /\ Execute(r, "start")
  /\ state = "Armed" /\ pending
  /\ Len(sessions) < MaxSessions
  /\ sessions' = Append(sessions, NewSession)
  /\ live' = Len(sessions')
  /\ recorder' = "Recording" /\ state' = "Recording"
  /\ UNCHANGED <<pending, token, failures>>

(* A call on the recorder that ends with persist_manifest: session.json    *)
(* is the recorder's manifest again, whatever a recovery made of it.       *)
Persist(session) ==
  /\ live # 0
  /\ sessions' = [sessions EXCEPT ![live] = [session EXCEPT !.status = "Active"]]

(* Pause and Resume: the service follows the recorder, whatever state it   *)
(* was in itself.                                                          *)
SwitchTo(to) ==
  /\ live # 0
  /\ CanTransition(recorder, to)
  /\ recorder' = to /\ state' = to
  /\ Persist(sessions[live])
  /\ UNCHANGED <<pending, live, token, failures>>

Pause(r) == Execute(r, "pause") /\ SwitchTo("Paused")

Resume(r) == Execute(r, "resume") /\ SwitchTo("Recording")

MarkAgain(r) ==
  /\ Execute(r, "mark")
  /\ live # 0
  /\ Persist([sessions[live] EXCEPT !.markers = Append(@, r.id)])
  /\ UNCHANGED <<memory, token, failures>>

Mark(r) ==
  /\ Execute(r, "mark")
  /\ live # 0
  /\ r.id \notin Elements(sessions[live].markers)
  /\ Persist([sessions[live] EXCEPT !.markers = Append(@, r.id)])
  /\ UNCHANGED <<memory, token, failures>>

(* Simulate, and the fault that inserts a gap: audio is committed. *)
Simulate(r) ==
  /\ Execute(r, "simulate")
  /\ live # 0 /\ recorder = "Recording"
  /\ sessions[live].frames < MaxFrames
  /\ Persist([sessions[live] EXCEPT !.frames = @ + 1])
  /\ UNCHANGED <<memory, token, failures>>

(* The faults that record an incident; the loss of the input device and a  *)
(* critical disk also make the service Faulted, and not its recorder.      *)
InjectFault(r) ==
  /\ Execute(r, "fault")
  /\ live # 0
  /\ Persist(sessions[live])
  /\ state' \in {state, "Faulted"}
  /\ UNCHANGED <<pending, live, recorder, token, failures>>

Stop(r) ==
  /\ Execute(r, "stop")
  /\ live # 0
  /\ CanTransition(recorder, "Stopping")
  /\ sessions' = [sessions EXCEPT ![live].status = "Complete", ![live].parts = FALSE]
  /\ live' = 0 /\ recorder' = "Idle" /\ state' = "Completed"
  /\ UNCHANGED <<pending, token, failures>>

(* The commands that end with an error, or with nothing to do, and change  *)
(* nothing but the cache.                                                  *)
Refused(cmd) ==
  \/ cmd = "configure" /\ state \notin Configurable
  \/ cmd = "start" /\ state # "Armed"
  \/ cmd \in {"pause", "resume", "mark", "stop", "simulate", "fault"} /\ live = 0
  \/ cmd = "pause" /\ recorder = "Paused"
  \/ cmd = "resume" /\ recorder = "Recording"
  \/ cmd = "simulate" /\ recorder = "Paused"

Refuse(r) ==
  /\ Refused(r.cmd)
  /\ Execute(r, r.cmd)
  /\ UNCHANGED <<memory, token, sessions, failures>>

(* add_marker finds the request among the markers of the take. *)
MarkedBefore(r) ==
  /\ Execute(r, "mark")
  /\ live # 0
  /\ r.id \in Elements(sessions[live].markers)
  /\ UNCHANGED <<memory, token, sessions, failures>>

-------------------------------------------------------------------------------
(* recover_session needs committed frames, every .part, and no outputs of  *)
(* an earlier recovery.                                                    *)
RecoverableAnyway(s) == sessions[s].frames > 0

Recoverable(s) == sessions[s].frames > 0 /\ sessions[s].parts /\ ~ sessions[s].outputs

RecoverThese(chosen) ==
  sessions' = [s \in DOMAIN sessions |->
    IF s \in chosen
    THEN [sessions[s] EXCEPT !.status = "Recovered", !.outputs = TRUE]
    ELSE sessions[s]]

(* Recover of one session: any session that is listed, the live one too.   *)
Recover(r) ==
  /\ Execute(r, "recover")
  /\ \/ \E s \in DOMAIN sessions : Recoverable(s) /\ RecoverThese({s})
     \/ UNCHANGED sessions
  /\ UNCHANGED <<memory, token, failures>>

(* Recover of all: newest first, given up at the first that fails.  None   *)
(* is passed over, not even those that need no recovery.                   *)
RecoverAll(r) ==
  /\ Execute(r, "recover all")
  /\ RecoverThese({s \in DOMAIN sessions : \A t \in s..Len(sessions) : Recoverable(t)})
  /\ UNCHANGED <<memory, token, failures>>

-------------------------------------------------------------------------------
(* A call that fails, and what it leaves behind. *)

Fail(r) ==
  /\ Execute(r, r.cmd)
  /\ failures < MaxFailures
  /\ failures' = failures + 1
  /\ UNCHANGED token

(* Recorder::create may have made session.json before it failed. *)
StartFails(r) ==
  /\ r.cmd = "start" /\ state = "Armed" /\ pending
  /\ Fail(r)
  /\ Len(sessions) < MaxSessions
  /\ sessions' \in {sessions, Append(sessions, NewSession)}
  /\ UNCHANGED memory

(* The recorder has changed its state before its first system call fails,  *)
(* and session.json may have been replaced before the last one does.       *)
SwitchFails(r) ==
  /\ live # 0
  /\ \E to \in {"Paused", "Recording"} :
       /\ r.cmd = IF to = "Paused" THEN "pause" ELSE "resume"
       /\ CanTransition(recorder, to)
       /\ recorder' = to
  /\ Fail(r)
  /\ UNCHANGED sessions \/ Persist(sessions[live])
  /\ UNCHANGED <<state, pending, live>>

(* A marker, a batch or an incident that is there although the call failed,*)
(* in session.json too or not yet.                                         *)
WriteFails(r) ==
  /\ live # 0
  /\ \E after \in [status : {"Active", sessions[live].status},
                   frames : {sessions[live].frames, sessions[live].frames + 1},
                   markers : {sessions[live].markers, Append(sessions[live].markers, r.id)},
                   parts : {TRUE}, outputs : {sessions[live].outputs}] :
       /\ after.frames # sessions[live].frames =>
            r.cmd = "simulate" /\ recorder = "Recording" /\ after.frames <= MaxFrames
       /\ after.markers # sessions[live].markers =>
            r.cmd = "mark" /\ r.id \notin Elements(sessions[live].markers)
       /\ sessions' = [sessions EXCEPT ![live] = after]
  /\ r.cmd \in {"mark", "simulate", "fault"}
  /\ Fail(r)
  /\ UNCHANGED memory

(* finalize has consumed the recorder, and failed before the first persist *)
(* of session.json, after it and among the renames, or after the last one, *)
(* when only completed.json is missing.                                    *)
StopFails(r) ==
  /\ r.cmd = "stop" /\ live # 0
  /\ Fail(r)
  /\ \E status \in {sessions[live].status, "Active", "Complete"}, parts \in BOOLEAN :
       /\ ~ parts => status \in {"Active", "Complete"}
       /\ status = "Complete" => ~ parts
       /\ sessions' = [sessions EXCEPT ![live].status = status, ![live].parts = parts]
  /\ live' = 0 /\ recorder' = "Idle" /\ state' = "Faulted"
  /\ UNCHANGED pending

(* A recovery that fails half-way leaves its outputs, and perhaps its      *)
(* session.json, where they are, and the older sessions alone.             *)
RecoverFails(r) ==
  /\ r.cmd \in {"recover", "recover all"}
  /\ Fail(r)
  /\ \E s \in DOMAIN sessions, status \in Delivered \cup {"Active"} :
       LET done == IF r.cmd = "recover" THEN {} ELSE s+1..Len(sessions) IN
       /\ \A t \in {s} \cup done : Recoverable(t)
       /\ status \in {sessions[s].status, "Recovered"}
       /\ sessions' = [t \in DOMAIN sessions |->
            CASE t \in done -> [sessions[t] EXCEPT !.status = "Recovered", !.outputs = TRUE]
              [] t = s      -> [sessions[t] EXCEPT !.status = status, !.outputs = TRUE]
              [] OTHER      -> sessions[t]]
  /\ UNCHANGED memory

(* The process ends, and another takes its socket with a token of its own. *)
Restart ==
  /\ token < MaxStarts
  /\ token' = token + 1
  /\ state' = "Idle" /\ pending' = FALSE /\ live' = 0 /\ recorder' = "Idle"
  /\ cached' = <<>>
  /\ UNCHANGED <<recent, sessions, failures>>

Next ==
  \/ \E r \in Requests :
       \/ Answer(r) \/ Read(r) \/ Configure(r) \/ Start(r) \/ Pause(r) \/ Resume(r)
       \/ Mark(r) \/ MarkedBefore(r) \/ Simulate(r) \/ InjectFault(r) \/ Stop(r)
       \/ Refuse(r) \/ Recover(r) \/ RecoverAll(r)
       \/ StartFails(r) \/ SwitchFails(r) \/ WriteFails(r) \/ StopFails(r) \/ RecoverFails(r)
  \/ Restart

Spec == Init /\ [][Next]_vars

-------------------------------------------------------------------------------
Session ==
  [status : {"Active"} \cup Delivered, frames : Nat, markers : Seq({r.id : r \in Requests}),
   parts : BOOLEAN, outputs : BOOLEAN]

(* Every variable keeps its type, and the cache its bound. *)
TypeOK ==
  /\ state \in States /\ pending \in BOOLEAN /\ recorder \in States
  /\ live \in 0..Len(sessions)
  /\ cached \in Seq(Requests) /\ Len(cached) <= CacheSize
  /\ recent \in Seq(Requests)
  /\ token \in Nat /\ failures \in Nat
  /\ sessions \in Seq(Session)

Distinct(s) == \A i, k \in DOMAIN s : s[i] = s[k] => i = k

(* "The service caches 1024 results so duplicate transport requests do not *)
(* repeat markers or transitions": a request is not executed again before  *)
(* CacheSize others have been, and not by another run of the service.      *)
RunsOnce == Distinct(recent)

(* A take has one marker per request, even when its answer has left the    *)
(* cache and the request is executed again.                                *)
MarksOnce == \A s \in DOMAIN sessions : Distinct(sessions[s].markers)

(* The service says Recording or Paused only of a recorder it holds, and   *)
(* as long as no call has failed the recorder agrees; it holds one in no   *)
(* other state but Faulted, so no command can drop a take half-recorded.   *)
ServiceTracksRecorder ==
  /\ live # 0 => state \in {"Recording", "Paused", "Faulted"} /\ recorder \in {"Recording", "Paused"}
  /\ state \in {"Recording", "Paused"} => live # 0 /\ (failures = 0 => recorder = state)

(* Without a failure or a restart no take is abandoned: each is delivered  *)
(* or is the one being recorded.                                           *)
EveryTakeIsFinished ==
  failures = 0 /\ token = 1 =>
    \A s \in DOMAIN sessions : s # live => sessions[s].status \in Delivered

(* A delivered take is changed again only by the recorder that is still    *)
(* writing it: a Recover of the take being recorded calls it Recovered, and*)
(* the next persist of its manifest makes it Active, without loss of what  *)
(* was committed or recovered.  A late or repeated request, a recovery of  *)
(* everything and a restart of the service change no delivered take.       *)
OnlyItsRecorderReopens ==
  [][\A s \in DOMAIN sessions :
       sessions[s].status \in Delivered /\ sessions'[s] # sessions[s] =>
         /\ s = live /\ sessions[s].status = "Recovered"
         /\ sessions'[s].outputs /\ sessions'[s].frames >= sessions[s].frames]_vars

================================================================================
