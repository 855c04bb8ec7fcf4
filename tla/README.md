# A verification of icepod

icepod records several synchronized microphone channels to disk. What its users
rely on is small and hard: audio that was once reported as committed survives a
crash, the channels of a take stay aligned, the audio callback never waits and
never loses samples unseen, a repeated request does not repeat its effect, and a
take ends when somebody asks for it, not because a window is closed.
The modules in this directory model the parts of the program these promises rest
on, check them with TLC on small instances, and prove the most important of them
for every instance with TLAPS.

Paths below are relative to the repository; `core` is `crates/icepod-core/src`,
`service` is `crates/icepod-audio-service/src/main.rs`.

## 1. Inventory

| Part | State it keeps | Operations | What makes it correct |
|---|---|---|---|
| Recorder and session files (`core/recorder.rs`, `core/session.rs`) | one `.part` file per channel, `session.json`, `recovery/`; in memory the manifest (`frames_written`, `frames_committed`, state, markers, incidents) | `create`, `write_interleaved`, `insert_gap`, `pause`, `resume`, `add_marker`, `record_incident`, `finalize`, `recover_session` | what was shown as committed can be recovered after any crash; channels stay aligned; a Complete session describes its files; recovery is exact |
| Session journal (`core/journal.rs`) | append-only file of numbered, checksummed records; `next_sequence` in memory | `append` (with or without sync), `open`, `read_valid` | a reader gets the longest valid prefix, and everything a client was told is in it |
| State machine (`core/state.rs`) | none; a table | `transition` | service and recorder only move along it |
| Realtime handoff (`core/realtime.rs`) | a pool of blocks in two single-producer single-consumer rings, the callback's current block, loss counters | `capture`, `flush_partial` on the audio thread; `pop`, `recycle` on the worker | no block is lost or handed out twice, every lost sample is counted, the callback never waits |
| Meters, sample conversion, simulated source (`core/realtime.rs`) | none of interest to others | pure arithmetic | not modelled |
| Audio service (`service`) | state, pending configuration, the recorder if there is one, a cache of 1024 answers; the sessions directory | `execute` (authentication, cache), `execute_command` | repeated requests are harmless, no command drops a take half-recorded, a delivered take is changed by nothing but a recorder still writing it |
| IPC (`core/protocol.rs`, `core/ipc.rs`, the socket and token file of the runtime directory) | the socket file, `service.token`; one connection per request | `create_listener`, `write_token`; `connect`, one frame each way | a request reaches the service its token is of, or has no effect; a client that stops half-way hinders nobody |
| `icepodctl` | none; a soak run keeps its token and its place in the sequence | one request per process; `soak` sends a fixed sequence | a soak report is about the take the run made |
| GUI (`crates/icepod-app`) | the last snapshot, `stop_armed`, requests in flight | `boot`, buttons, keys, answers, the end of the window | what it shows is the state of the service; it stops nothing it was not asked to; it is answered |
| Build, packaging, CI | – | – | no behaviour of the program |

How they interact. A client (`icepodctl` or the GUI) opens a connection per
request. The service accepts each in a task of its own and executes it under one
mutex for the whole of the request, so commands never overlap inside one
service; they do arrive late, twice, and in any order. The service owns at most
one `Recorder`, and every change of a session is a method of that recorder that
appends to the journal and then replaces `session.json`. `recover_session` does
not use the recorder: it reads the journal and the `.part` files and opens the
journal once more. The realtime handoff joins the audio thread to a worker
thread through two rings and shares nothing else with it. What clients and
services share is the runtime directory: whoever binds the socket last gets the
connections, and whoever writes the token file last the clients' trust.

What is hard. (1) Crashes: every operation is a sequence of system calls with
different durability, and a crash may fall between any two or within one. (2)
Errors: `?` returns in the middle of an operation and whatever it had already
changed, on disk and in memory, stays changed. (3) Two handles on one journal.
(4) Two threads that share two rings without a lock. (5) Repetition and
reordering of requests, against a bounded cache, and across two runs of the
service. (6) Clients that read the token, connect, send and wait in steps of
their own, next to others that do the same, while services come and go. (7)
Files that end anywhere: a journal cut or damaged inside a record. PROJECT.json lists the places one by one under `hazards`.

## 2. Modules

| Module | Models | Extends / uses |
|---|---|---|
| `RecorderState` | the transition table of `core/state.rs` | – |
| `DurableTake` | abstract: what a session promises | – |
| `Recorder` | recorder, session files, journal, recovery, crashes, failing calls | `RecorderState`, `DurableTake` by INSTANCE |
| `RecorderProofs` | theorems about `Recorder` that hold whatever calls fail | `Recorder`, TLAPS |
| `RecorderJournalProofs` | theorems about the journal and the files while no call has failed | `RecorderProofs` |
| `RecorderDeliveryProofs` | theorems about delivered takes; `Recorder` implements `DurableTake` | `RecorderJournalProofs` |
| `CaptureRing` | the realtime handoff | – |
| `CaptureRingProofs` | theorems about `CaptureRing` | `CaptureRing`, TLAPS |
| `Service` | the service, its cache, its commands, its restart | `RecorderState` |
| `ServiceProofs` | theorems about `Service` | `Service`, TLAPS |
| `DurableLog` | abstract: what a journal promises its readers | – |
| `JournalFile` | the bytes of the journal, in cells: `append`, `open`, `parse_valid`, torn and damaged files | `DurableLog` by INSTANCE |
| `JournalFileProofs` | theorems about `JournalFile`; it implements `DurableLog` | `JournalFile`, TLAPS |
| `Desk` | the runtime directory and all that meet there: services, GUI, single commands, soak runs, connections | – |
| `DeskProofs` | theorems about `Desk`: stops, and what the GUI shows | `Desk`, TLAPS |
| `DeskReportProofs` | theorems about `Desk`: its types, and what a soak run reports | `DeskProofs` |
| `MCRecorder`, `MCCaptureRing`, `MCService`, `MCJournalFile`, `MCDesk` | instances for TLC | the module they are named after |

### Recorder

Each operation of the code is a straight line of system calls. The table
`Program` lists them: `write`, for instance, is *write every channel, append
FramesWritten, sync every channel, append FramesCommitted, replace session.json*.
One action begins an operation (its guards are the operation's early returns and
`transition` calls), and one action per kind of system call executes the step
`call` points at. A loop over the channels is one step per channel. Two steps
stand for several calls. One is the body of `finalize`'s loop (`finalize_rf64`,
`sync_all`, `validate_rf64`, `rename`): they grow no file, and the commit of
`finalize` has synced every file just before, so a crash among them leaves what
one before them leaves. The other is one output of a recovery, which a crash may
cut anywhere.

| Variable | Code |
|---|---|
| `length`, `synced`, `renamed` | a channel's file: its frames, how far its last sync got, whether `.part` is `.wav` |
| `aligned` | no field of the program; how many frames of the file sit where they were counted |
| `journal`, `journalSynced` | `session.journal`; a record is its sequence, kind, and the one value readers use |
| `session` | `session.json` |
| `outputs` | `recovery/*.recovered.wav` |
| `manifest`, `nextSequence`, `life` | `Recorder.manifest`, its journal's `next_sequence`, and whether there is a Recorder |
| `claimed` | the largest `frames_committed` a client was answered |

Durability. After a crash a file keeps what its last successful sync covered and
any prefix of the rest; the last journal record may be torn; `write_atomic`
replaces `session.json` as a whole (it syncs the temporary file and the
directory); a rename of `finalize` may be undone, as nothing syncs the audio
directory. What is there after a crash counts as synced from then on, so a kill,
a recovery and then a power loss that takes what the kill had left in the page
cache is not among the behaviours. Assumed: a successful sync tells the truth, and the directory entries
of newly created files survive. A failing call (`IoError`) leaves any partial
effect the call can have, and the operation ends there.

The service never sets `max_audio_bytes` (`service:142`), but the library
implements it, so `AudioLimit` is a parameter.

### CaptureRing

A sample is its index in the stream the device offers, so loss, duplication and
reordering can be seen. Each action makes at most one operation on a shared
ring: `capture` is taken apart into `Capture` (it is called), `Acquire` or
`PoolEmpty` (a block from the pool, or the rest dropped) and `Fill` (copy, and
push if full). `FlushPartial` runs between two callbacks on the same thread.
`Pop` and `Recycle` are the worker.

### Service

A request is a record of an id, a command and the token of the run it was made
for; every request of the constant `Requests` may arrive at any time and any
number of times, which stands for repeated, late and reordered delivery alike.
`Execute` is `execute`: token, cache, eviction. One action per command follows,
one for refused commands, and one per command whose recorder call fails, with
what it leaves behind. A recorder call is atomic here, as `Recorder` takes it
apart; a kill in the middle of a request is a failed call followed by `Restart`.
`recent` is not in the program: it is the last `CacheSize + 1` requests executed
by any run, and `RunsOnce` is about it.

### JournalFile and DurableLog

`Recorder` takes a journal record for one thing that is whole or torn.
`JournalFile` is the level below. The file is a sequence of cells; a record is
one cell of magic and version, one of the header's numbers, as many of payload
as its kind is large, and its checksum. A checksum *is* the cells it covers:
that two different contents have different ones is assumed, as it is of CRC-32
in the code. `Intact` is the chain of `break`s of `parse_valid`, `Follows` the
comparison with the record before, and `ParseValid` the loop.

A failed append leaves any part of the record, or all of it with the number not
counted; the Journal stays in use. A crash takes cells no sync covered, or
leaves them unfilled. Damage replaces a cell: by zeroes, or a header by one with
another number or length. `Open` may follow any of these and appends behind what
it could not read. `DurableLog` is the promise that survives all that: what is
read grows at its end by consecutive numbers, a crash takes none of what is
durable, and only damage to the medium cuts more off. Damage is counted, in
`damages`, by both specifications, so a crash that lost synced records could not
pass for damage: it would be no step of the log. It does *not* promise that every append that
returned is read; `AppendIsRead` says when it is: as long as no append has
failed and nothing unreadable is in the file.

### Desk

`Service` asks what requests do to one service; `Desk` asks what becomes of them
on their way. A request reads the token file when it is made (`Make`), connects
to whatever is behind the socket then (`Connect`), sends its frame (`Send`), is
executed and answered (`Handle`), and its answer is received (`GuiReceive`,
`SoakReceive`; a single command is over with it). Each is a step of its own, and
between any two another client may act, a service end, or another take over.

| Variable | Code |
|---|---|
| `services` | each service process: `state`, whose configuration is pending, and which take its recorder writes |
| `socket`, `tokenFile` | which service bound `service.sock` last, and whose token is in `service.token` |
| `takes` | the sessions directory, oldest first, each with the service and the client it is of |
| `requests` | requests in flight: the token they carry, the service they are connected to, their answer |
| `gui` | `App.snapshot` (with the service it came from) and `stop_armed`; `doubt` is no field of the program: whether overlapping requests or other clients may have outdated what is shown |
| `soak` | the place of `run_soak` in its sequence, its token, the session it reported; `mixed` is no field of the program |
| `stopsFor` | no field of the program: the services a Stop was made for |

`Listen` is `create_listener` with `try_overwrite`: the code does not ask
whether a service is behind the socket, and the `interprocess` crate replaces it
whether there is one or not. That makes `Listen` both a second start from a
terminal and what `icepod --simulate` does before its window opens. `WriteToken`
follows as a step of its own. A client may stop anywhere: `icepodctl` by taking
no further step, the GUI by `CloseWindow`, after which frames already complete
are still executed. The views of the GUI are not modelled: each is one press
from any other, so a button is offered if any view has it. The commands are
those that move a service along; that their recorder calls can fail, and what
repetition does, is in `Service`.

### DurableTake

Two variables: the durable `frontier`, which only grows, and what was
`delivered`, which is set once to the frontier. A crash is no action of it.
`Recorder` implements it with the frontier a reader of the journal finds and the
frames of a `session.json` that says Complete or recovered.

## 3. Runs

| Run | Bounds | Distinct states | Question |
|---|---|---|---|
| `recorder_crash` | 2 channels, batches of 1 or 2 frames, limit 3 frames, 1 marker, journal of 9 records | 236 000 | Does every promise hold over all operations, crashes and recoveries? |
| `recorder_io` | 2 channels, batches of 1, limit 2, journal of 8, 2 failing calls | 870 000 | Which still hold if system calls fail? |
| `capture_ring` | 2 blocks of 2 frames, 2 channels, callbacks of 2 and 6 samples, 20 samples | 55 000 | Is anything lost or waiting, in any interleaving? |
| `journal_file` | 2 session ids, payloads of 1, 2 and 3 cells of which 2 are allowed, appends to files shorter than 9 cells, 2 mishaps | 260 000 | Is what is read exactly what was written whole, and is the file a log? |
| `desk` | 2 services; 4 GUI requests alone, or 2 next to one single command, or 2 single commands next to a soak run; 2 of a client in flight | 1 180 000 | Does a take end only when asked, is the view true, the report the run's own, the GUI answered? |
| `service` | 13 requests, cache of 2, 2 sessions, 1 batch each, 2 runs, 1 failure | 440 000 | Is a repeated, late or misplaced request harmless? |

Why the bounds are enough. Two channels are the least for which loops over
channels can be interrupted in the middle and files can become uneven; all
channels are treated alike. Batches of different sizes and a limit that leaves
room for two batches let a commit follow a commit, and let the limit refuse one.
`MaxJournal` stops the recorder from beginning an operation, not from finishing
one: `create` makes four records, so nine leave room for two writes and a stop,
or a write, a pause or a marker, and a stop, with a recovery behind. Two failing
calls let a failure follow a failure, of the same operation or a later one. In
`capture_ring` a callback may need two blocks and the pool has two, so it runs
empty, refills, and the stream resumes behind a gap; callbacks are smaller and
larger than a block. In `service` the cache holds fewer answers than there are
requests, so that every answer can leave it while its request is repeated.

In `journal_file` three records of the smallest size fit, or two and a part of a
third, so that a record can be torn at each of its cells with a readable one
before it and a later one behind; two mishaps let a failed append be followed by
a crash, or by damage. Two sessions are alike, so they are a symmetry set. In
`desk` two services are the least for one to take the place of the other, two
requests in flight the least for answers to overtake each other, and four GUI
requests bring a take from nothing to its end. The three cases share everything
but who has requests left; a larger one that has them all at once is beyond
reach, and what they check of `StopIsMeant`, `ViewIsTrue` and `ReportIsOwn` is
proved for any number (§5).

The runs that are expected to fail each take one sentence of the documentation
and show where the code does not keep it (§4). `CHECK_DEADLOCK FALSE` is said of
`CaptureRing`, where a device that offers no more samples is the end of it, and
of `Desk`, where all processes may have ended and all requests be used up.

What the invariants say is written above each of them. In short:

- `CommittedIsDurable`, `ClaimIsRecoverable`, `SessionBehindJournal`,
  `RefusalLosesNothing`: the order sync, append, sync, replace is never broken,
  so what is in the journal is on disk, what was shown to a client is in the
  journal, and `session.json` is behind it.
- `CommittedIsAligned`, `CompleteIsExact`, `RecoveryIsExact`: the audio behind
  the numbers is the right audio, in every channel.
- `ImplementsDurableTake`: each step of a session, crashes included, is a step
  of the promise or none.
- `Conservation`, `NeverSaturated`, `StreamInOrder`, `LossIsCounted`,
  `StartFrameExact`: blocks are neither lost nor doubled; what the worker pops is
  the stream, in order; what is missing is counted and visible in `start_frame`.
- `CaptureReturns`: the callback returns by its own steps alone.
- `RunsOnce`, `MarksOnce`: the cache and the markers of a take make repetition
  harmless; `RunsOnce` within the size of the cache, since a transition repeated
  after its answer was evicted is executed again. `ServiceTracksRecorder`,
  `EveryTakeIsFinished`: no order of commands loses a take.
  `OnlyItsRecorderReopens`: nothing changes a delivered take, with one exception
  that the code makes and no document forbids. A `Recover` of the take being
  recorded calls it Recovered, and the next persist of its recorder makes it
  Active again; then its frames and its outputs stay.

- `ParseIsExact`, `AppendIsRead`, `ImplementsDurableLog`: whatever the end of the
  file looks like, the reader gets the longest run of whole, consecutive records
  and nothing else, and what was synced is read until the medium is damaged.
- `StopIsMeant`: a take is ended by a Stop made for the service that records it,
  never by a window that closes or a Stop that reaches another service.
  `ViewIsTrue`, `ReportIsOwn`: what the GUI shows, and what a soak run reports,
  is so, with the exceptions they name. `GuiIsAnswered`: every request of a GUI
  that stays open comes back, if only as an error.

Fairness. `CaptureRing` assumes it of the audio thread alone: `WF` on the steps
inside `capture`, because a thread the operating system schedules goes on
executing. Nothing is assumed of the worker, so `CaptureReturns` holds even if
it stops. `Desk` assumes `WF` of the steps of services and of the GUI while they
live: tokio runs every task that is ready, its mutex is fair, and an answer or
an error of a connection becomes a message of the GUI. Nothing is assumed of
`icepodctl`, so `GuiIsAnswered` holds with any number of clients that stopped
with a connection open. `Recorder`, `Service` and `JournalFile` make no progress
claims: a client may stop sending, and a disk may fail.

## 4. Where code and documentation disagree

| Run | What it shows |
|---|---|
| `interrupted` | A crash within `recover_session` leaves outputs behind, and `create_new` makes each later recovery fail. The same property excludes a crash among the renames of `finalize`, after which `recover_session` looks for `.part` files that are gone. |
| `failed_append` | `commit` raises `frames_committed` before the append that may fail; a partly written record hides every later one from readers. |
| `failed_write` | A write that fails on one channel leaves the channels uneven; later batches are appended behind the surplus and committed. |
| `live_recovery` | Recovering the session being recorded gives its journal two writers with the same numbers; what is committed later cannot be read. |
| `takeover` | A second service, as `icepod --simulate` starts one, takes socket and token from one that records; nobody reaches that take any more. |
| `capture_odd` | Callbacks that do not hold whole frames make `start_frame` fall behind the stream. |

Each violates one property, quoted with its document in PROJECT.json under
`findings`. The passing runs keep clear of three of them by a parameter
(`RecoverLive = FALSE`, no failing call, callbacks of whole frames), and say
nothing else about what they exclude.

## 5. Proofs

All for every value of the constants, under the assumptions named in the modules
and, where a theorem says so, one more, which a run of §4 shows to be needed:

| Assumption | Theorems | Needed because of |
|---|---|---|
| `RecoverLive = FALSE`: no recovery of a session being recorded | `RecoveriesAreExact`, `ClaimsAreRecoverable`, `RefusalsLoseNothing`, `SessionsStayBehind`, `SessionsKeepThePromise` | `live_recovery` |
| no system call has failed so far (`ioErrors = 0` in the invariant, `MaxIoErrors = 0` for the refinement) | all of `RecorderJournalProofs`, `SessionsKeepThePromise` | `failed_append`, `failed_write` |
| callbacks of whole frames | `StartFramesAreExact`, `LossesAreCounted` | `capture_odd` |

Every other theorem needs none: crashes, failing calls, restarts, lost and
repeated requests, taken-over sockets are all included.

### Recorder

**`TypeCorrect`** – `Spec => []TypeOK`, on which the others rest.

**`CommitsAreDurable`** – `Spec => []CommittedIsDurable`, crashes and failing
calls included. The invariant is not inductive: a record may be appended at any
step labelled so, and nothing in it says the sync came before. `DurableInv` adds
that: a channel's sync never exceeds its file; the frames counted are in every
file (while a batch is being written, those channels the loop has passed are
ahead by it); while the loop of `commit` is at channel *c*, all before *c* are
synced up to the frames counted; and when the step is FramesCommitted all are.
The lemma `ProgramOrder` is the one place where the order of calls is used: in
no operation does FramesCommitted follow anything but a sync. The crash keeps
the invariant because it never cuts below `synced`.

**`RecoveriesAreExact`** – `RecoveryInv` relates a recovery in progress to the
disk: the outputs made so far have the length that was chosen, that length is
the frontier and (by `DurableInv`) within every file, the journal gains no
FramesCommitted from a recovery, and a session that has been recovered has no
Recorder that could add one. That live sessions are left alone is needed: when a
recovery of one has replaced `session.json` and its append to the journal then
fails, the Recorder goes on to commit more than the session that says Recovered,
until it replaces the file itself.

**`ClaimsAreRecoverable`, `RefusalsLoseNothing`** – what a client was shown is
read back, and no recovery is refused then. `ClaimIsRecoverable` speaks of the
largest frontier shown and says nothing of the next. `JournalInv` adds what the
Recorder knows of its journal: its records are numbered from 0 without a gap and
none is torn, so all are read; the frames the manifest says are committed are
among the frontiers and the largest of them, except between `commit`'s
assignment and its append; and the unsynced end of the journal holds no
frontier, so a crash takes none.

**`CommitsAreAligned`** – `FilesInv`: while a Recorder lives, every channel holds
exactly the frames counted in their place, and those the loop of
`write_interleaved` has passed one batch more; and every frontier the journal
names, readable or not, is within what is in place. Nothing is asked of the
journal's numbering, so recoveries of live sessions are included.

**`SessionsStayBehind`** – `SessionInv`: the manifest's markers and incidents are
those of the records that are read, `session.json` is a copy of some earlier
manifest, and no record of these kinds is lost. That a request makes one marker
rests on `add_marker`'s look-up and on no other marker being between its look-up
and its append.

**`CompletionsAreExact`** – with failing calls and recoveries of live sessions.
`ExactInv` follows `finalize`: by the time the status is set every channel has
been validated against the frontier and synced, and no later step touches a
file. It also says why the validation is enough to have the samples in place: a
channel that a failed write left uneven is longer than what is counted from then
on.

**`SessionsKeepThePromise`** – `Spec => ImplementsDurableTake`, the refinement.
`PromiseInv` is the conjunction of the invariants above. Only two kinds of step
are steps of the promise: an append of FramesCommitted, which advances the
frontier, and a replaced `session.json` that says Complete or recovered, which
delivers it. All others, crashes among them, leave both alone: a crash because no
frontier is in the unsynced end, a later write of `session.json` because a
delivered session is not written again.

### CaptureRing

**`RingTypeCorrect`, `PoolIsConserved`, `RingsNeverSaturate`** – for every pool,
block and callback size. The three hold each other up, so
`PoolInv` is their conjunction: no block outgrows its storage because a full one
always finds room in the filled ring; it finds room because the blocks are
conserved and the ring is as large as the pool; and conservation is disturbed
only by the saturated paths that are therefore never taken.

**`BlocksAreInOrder`** – `StreamInv` says why a new sample is behind all others:
each sample of a block is before the place the callback has reached, the current
block ends exactly there, no closed block is empty, and `next_sequence` is the
number of blocks closed.

**`StartFramesAreExact`** – `FrameInv`: where a block starts in frames is where
its first sample is, and the frame counter of the callback is where the stream
is; both rest on every length involved being a multiple of the channels.

**`LossesAreCounted`** – `LossInv`: the samples of all blocks and the frames
dropped add up to the place the callback has reached. What a block adds is a sum
over a sequence, defined as a recursive function; that such a function obeys its
equation, and that streams which begin alike have the same sum so far, is proved
by induction over a set of numbers (`Upward`).

### Service

**`ServiceTypes`, `ServiceFollowsRecorder`, `TakesAreFinished`,
`MarkersAreSingle`** – inductive with each other. The lemma `SessionsMove` sums
up what a step may do to the sessions: begin one, work on the one that is live,
recover the others, or nothing; each theorem looks at these four cases only.

**`OnlyRecordersReopen`** – an action property. `FinalInv` says what keeps a
recovery away: a completed take has no `.part` files left and is not live, a
recovered one has its outputs. So whatever changes a delivered take is the
recorder that works on it, and by `FinalInv` that take was Recovered.

**`RequestsRunOnce`** – `RunsOnce` alone is not inductive, as it does not know the
cache. `CacheInv` says that the cache is the newest part of the requests
executed; that one that is no longer in it was made for an earlier run, whose
token is refused, except the answer evicted last; and that that one is
`CacheSize` others back.

### Desk

**`StopsAreMeant`** – for any number of services, clients and requests.
`StopInv` adds to it what the two ends of a
request know of each other: a Stop in flight carries a token of a service it was
made for; a request that is connected names a service; a service's recorder
writes a take of its own. The one step that could break it is `Stop`, and there
`Authentic` brings the two together: the service that ends the take is the one
of the token.

**`ViewsAreTrue`** – that what is shown is
true is not inductive: while an answer is on its way it is not. `ViewInv` says
that then a snapshot is in flight that will replace it, that an answer the GUI
waits for alone is true when it is made and stays so (anything executed for
another client ends its being alone), and that there is at most one such.

**`DeskTypes`** – all the session numbers that services, answers and the report
carry are those of sessions that exist. That an id is always free for a request
is a pigeonhole argument on the finite set of requests.

**`ReportsAreOwn`** – for any number of batches. `SoakInv` follows the run:
`Progress(e)` says where its first *e* commands have left its service and the
newest take, and every request and answer of the run carries the `Progress` of
its place, unless the run is `mixed`. What other clients may do in between
(pause, resume, stop, look, take the socket over) is summed up in `Undisturbed`,
and `ProgressStays` shows that it leaves `Progress` as it is: a take that
another client stopped is complete already, and the run's next simulate fails.

### JournalFile

The assumption on the kinds says that a payload has at least one cell: postcard
encodes the variant of `JournalRecordKind` in every payload.

**`ParseIsAlwaysExact`** – about `parse_valid` on any file of these cells.
`ParseReadsLongestRun` says what the recursion computes: from each offset, the
longest run of whole, consecutive records. It is proved from the end of the file
backwards: a step of the recursion goes to a later offset, so the set of offsets
where the claim fails would have a last one. Three lemmas carry it: a record is
whole at an offset exactly if the chain of checks passes there (`IntactIffRecord`;
this is where the ideal checksum is used), the cells a checksum covers belong to
one record only (`OneKind`, `OneRecord`), and what is written of a run is what is
written of its first record and of the rest (`WrittenCons`).

**`AppendIsAlwaysRead`** – an action property, and the one that needs the history
of the file. `LogInv` says that the writer's next number continues what is read,
as long as no append has failed and every cell is read. It is kept by damage only
because a damaged file is not read to its end, and that is `Backed`: a header at
the place of the one a checksum was made for has numbers that are at least as
large as that one's, and damage makes them larger, so it never turns a record
into another.

**`JournalFileImplementsLog`** – `Spec => ImplementsDurableLog`, by one lemma for
each kind of step. An append, whole or torn, adds the record or nothing
(`AppendReads`): a torn record ends before its checksum, and no other record can
end in a cell of it. A crash leaves a run of the file before it (`CutRuns`), and
at least the one within what was synced; it is a step `Crash` of the log, which
leaves `damages` alone, so `Decay` cannot excuse it. Damage leaves a run too
(`DamagedRuns`), and not a longer one within what was synced; it alone is
`Decay`.

### Only model-checked

Out of the prover's reach: liveness, which is `CaptureReturns` and
`GuiIsAnswered`. Every other property of the passing runs is a theorem, under the
assumptions of the table above where it names one.

## 6. Not modelled

- The bytes of RF64 headers and of IPC frames. Both ends of a frame are built from
  one crate, so the errors of `read_async` for a bad magic, version or length do
  not occur between them.
- A CRC-32 that two different contents share.
- `completed.json`, which nothing reads; timestamps; the fields of the snapshot
  other than state and frames committed; permissions, default directories and
  the enumeration of devices.
- Meters, sample conversion and the simulated source: arithmetic without state.
- Text fields, layout and the current view of the GUI.
- A power loss that takes what an earlier kill had left in the page cache (§2).
- Clock steps and ties of `created_at`, by which `list_sessions` orders: the newest
  take is the one made last.
- Which take a `Stop` was meant for. The request names none, so one that is late
  ends whatever its service records by then, and `StopIsMeant` asks only for a
  Stop made for that service.
- A failed sync that a later one does not repeat. Whether the pages survive
  depends on the file system.
- A session directory on which two services write: each has takes of its own, and
  `Recover` of a take another service records is the case of `live_recovery`.

## 7. Plan

Done, in this order: `Recorder` (with `RecorderState` and `DurableTake`), its
runs and first proofs; `CaptureRing` and its proofs; `Service`; `JournalFile`
with `DurableLog`; `Desk` and its proofs; the proofs of `Recorder`'s journal,
files and refinement; `Service`'s proofs; `ReportIsOwn`; `JournalFile`'s proofs;
`LossIsCounted`.

Next, model: the way out of Faulted without a recorder, as a liveness question
of `Service`, and what `recover --all` reaches.

Next, prove: what of `Recorder`'s journal and files survives failing calls
(`recorder_io`), with hypotheses weaker than that none has failed, and that a
journal as `JournalFile` has it is what `Recorder` takes it for.
