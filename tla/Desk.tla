--------------------------------- MODULE Desk ---------------------------------
(***************************************************************************)
(* One runtime directory and all that meet at it: the services that bind   *)
(* its socket and write its token file (crates/icepod-audio-service), the  *)
(* GUI (crates/icepod-app), single commands and soak runs of icepodctl,    *)
(* and the connection each of their requests has to itself (core/ipc.rs).  *)
(*                                                                         *)
(* Any service may end at any step, and any client may stop at any step,   *)
(* which is all its end amounts to.  Requests are made one after the other *)
(* or at the same time; their answers come back in any order.              *)
(*                                                                         *)
(* A request made by a client reads the token file, connects to whatever   *)
(* is behind the socket, sends its frame and waits.  Of the commands those *)
(* are here that move the service along; their calls on the recorder       *)
(* succeed (Service.tla has the others, failures, and repeated requests).  *)
(***************************************************************************)
EXTENDS Naturals, Sequences, FiniteSets

CONSTANTS
  MaxServices,       \* bound: service processes, one after the other or at once
  Budgets,           \* bound: how many requests of the GUI, single commands and soak
                     \* runs there may be; each of these is a case of its own
  MaxInFlight,       \* bound: requests a client has in flight at once
  GuiCommands,       \* the commands the GUI is used for
  OperatorCommands,  \* the single commands icepodctl is used for
  SoakBatches        \* run_soak: how many Simulate requests it makes

Commands == {"status", "list", "configure", "start", "pause", "resume", "mark", "stop", "simulate"}

ASSUME BoundsAssumption ==
  /\ MaxServices \in Nat /\ MaxInFlight \in Nat /\ SoakBatches \in Nat
  /\ Budgets \subseteq [gui : Nat, operator : Nat, soak : 0..1]
  /\ GuiCommands \subseteq Commands /\ OperatorCommands \subseteq Commands

Services == 1..MaxServices

VARIABLES
  services,    \* of each process: how far it is, its state, the client that
               \* made its pending configuration, and the take its recorder has
  socket,      \* the service that bound service.sock last
  tokenFile,   \* the service whose token service.token holds
  takes,       \* the sessions on disk, oldest first
  requests,    \* the requests in flight, each with the connection it has
  budget,      \* what of the bounds is left
  gui,         \* the App, and whether what it shows may be outdated
  soak,        \* run_soak, and whether other clients took part in its take
  stopsFor     \* the services a Stop was made for

vars == <<services, socket, tokenFile, takes, requests, budget, gui, soak, stopsFor>>

Alive(s) == s # 0 /\ services[s].phase \in {"listening", "ready"}

NoView == [service |-> 0, state |-> "None"]

(* A process without a recording. *)
Fresh(phase) == [phase |-> phase, state |-> "Idle", config |-> "none", take |-> 0]

Init ==
  /\ services = [s \in Services |-> Fresh("none")]
  /\ socket = 0 /\ tokenFile = 0 /\ takes = <<>> /\ requests = {}
  /\ budget \in Budgets
  /\ gui = [open |-> FALSE, shown |-> NoView, stopArmed |-> FALSE, doubt |-> FALSE]
  /\ soak = [at |-> 0, token |-> 0, report |-> 0, mixed |-> FALSE]
  /\ stopsFor = {}

Of(client) == {r \in requests : r.client = client}

-------------------------------------------------------------------------------
(* The service processes. *)

(* create_listener: the socket is taken over from whatever had it, by a    *)
(* process started from a terminal or by `icepod --simulate`.              *)
Listen(s) ==
  /\ services[s].phase = "none"
  /\ \A p \in 1..s-1 : services[p].phase # "none"
  /\ services' = [services EXCEPT ![s].phase = "listening"]
  /\ socket' = s
  /\ UNCHANGED <<tokenFile, takes, requests, budget, gui, soak, stopsFor>>

(* write_token, and the accept loop begins. *)
WriteToken(s) ==
  /\ services[s].phase = "listening"
  /\ services' = [services EXCEPT ![s].phase = "ready"]
  /\ tokenFile' = s
  /\ UNCHANGED <<socket, takes, requests, budget, gui, soak, stopsFor>>

(* The process ends: connections break, socket and token file stay behind. *)
Kill(s) ==
  /\ Alive(s)
  /\ services' = [services EXCEPT ![s] = Fresh("dead")]
  /\ requests' = {r \in requests : r.at = s => r.phase = "answered"}
  /\ UNCHANGED <<socket, tokenFile, takes, budget, gui, soak, stopsFor>>

-------------------------------------------------------------------------------
(* execute_command. *)

Configurable == {"Idle", "Completed", "Configured", "Armed"}

Look(r, s) ==
  /\ \/ r.cmd \in {"status", "list"}
     \/ r.cmd = "mark" /\ services[s].take # 0
     \/ r.cmd = "start" /\ services[s].state = "Recording"
     \/ r.cmd = "stop" /\ services[s].state = "Completed"
  /\ UNCHANGED <<services, takes>>

Configure(r, s) ==
  /\ r.cmd = "configure" /\ services[s].state \in Configurable
  /\ services' = [services EXCEPT ![s].state = "Armed", ![s].config = r.client]
  /\ UNCHANGED takes

Start(r, s) ==
  /\ r.cmd = "start" /\ services[s].state = "Armed"
  /\ takes' = Append(takes, [by |-> s, config |-> services[s].config, frames |-> 0, complete |-> FALSE])
  /\ services' = [services EXCEPT ![s].state = "Recording", ![s].take = Len(takes')]

Switch(r, s) ==
  /\ \/ r.cmd = "pause" /\ services[s].state = "Recording"
     \/ r.cmd = "resume" /\ services[s].state = "Paused"
  /\ services' = [services EXCEPT ![s].state = IF r.cmd = "pause" THEN "Paused" ELSE "Recording"]
  /\ UNCHANGED takes

Simulate(r, s) ==
  /\ r.cmd = "simulate" /\ services[s].take # 0 /\ services[s].state = "Recording"
  /\ takes' = [takes EXCEPT ![services[s].take].frames = @ + 1]
  /\ UNCHANGED services

StopHalfway(r, s) ==
  /\ r.cmd = "stop" /\ services[s].take # 0
  /\ takes' = [takes EXCEPT ![services[s].take].complete = TRUE]
  /\ services' = [services EXCEPT ![s].state = "Finalizing", ![s].take = 0]

Stop(r, s) ==
  /\ r.cmd = "stop" /\ services[s].take # 0
  /\ takes' = [takes EXCEPT ![services[s].take].complete = TRUE]
  /\ services' = [services EXCEPT ![s].state = "Completed", ![s].take = 0]

Refuse(r, s) ==
  /\ \/ r.cmd = "configure" /\ services[s].state \notin Configurable
     \/ r.cmd = "start" /\ services[s].state \notin {"Armed", "Recording"}
     \/ r.cmd \in {"pause", "simulate"} /\ services[s].state # "Recording"
     \/ r.cmd = "resume" /\ services[s].state # "Paused"
     \/ r.cmd = "mark" /\ services[s].take = 0
     \/ r.cmd = "stop" /\ services[s].take = 0 /\ services[s].state # "Completed"
  /\ UNCHANGED <<services, takes>>

-------------------------------------------------------------------------------
(* handle_client: read the frame, lock the service, execute, reply.        *)

StateBefore(s) == services[s].state

(* The snapshot in an answer is taken after the command. *)
SnapshotState(s) == services'[s].state

(* list_sessions: newest first, by the created_at each session was given.  *)
(* The wall clock is taken to go forward from one take to the next.        *)
First(sessions) == Len(sessions)

NoAnswer == [ok |-> FALSE, shown |-> NoView, first |-> 0]

AnswerTo(r, ok) ==
  [ok |-> ok,
   shown |-> IF ok /\ r.cmd # "list" THEN [service |-> r.at, state |-> SnapshotState(r.at)] ELSE NoView,
   first |-> IF ok /\ r.cmd = "list" THEN First(takes) ELSE 0]

(* A single command is over with its answer, and nobody waits for that of  *)
(* a GUI that was closed.  A command of another client makes answers the   *)
(* GUI has not received yet, and what it shows, outdated.                  *)
Reply(r, ok) ==
  /\ requests' =
       {[q EXCEPT !.alone = @ /\ (r.client = "gui" \/ q.phase # "answered")] : q \in requests \ {r}}
       \cup IF r.client \in {"gui", "soak"}
            THEN {[r EXCEPT !.phase = "answered", !.answer = AnswerTo(r, ok)]} ELSE {}
  /\ gui' = [gui EXCEPT !.doubt = @ \/ (gui.shown # NoView /\ r.client # "gui")]
  /\ soak' = [soak EXCEPT !.mixed =
       IF r.client = "soak" THEN @ /\ r.cmd # "configure"
       ELSE @ \/ (soak.at > 0 /\ r.cmd \in {"configure", "start", "simulate"})]

LockBeforeFrame(s) == {r \in requests : r.at = s /\ r.phase = "connected"}

(* The handlers that hold the service's lock while they wait for their     *)
(* client: none, the lock is taken for the call of execute alone.          *)
HoldsLock(s) == {}

AnyToken(r) == TRUE

Authentic(r) == r.token = r.at

(* read_async has the whole frame; the accept loop runs. *)
FrameRead(r) == r.phase = "sent" /\ services[r.at].phase = "ready"

(* encode_frame refuses an answer beyond MAX_FRAME_LENGTH: a long list. *)
MayNotFit(r) == r.cmd = "list"

Handle(r) ==
  /\ FrameRead(r) /\ HoldsLock(r.at) = {}
  /\ \/ /\ Authentic(r)
        /\ \/ Look(r, r.at) \/ Configure(r, r.at) \/ Start(r, r.at)
           \/ Switch(r, r.at) \/ Simulate(r, r.at) \/ Stop(r, r.at)
        /\ Reply(r, TRUE)
     \/ /\ Authentic(r) => Refuse(r, r.at)
        /\ UNCHANGED <<services, takes>>
        /\ Reply(r, FALSE)
     \/ (* the command was executed; the connection is closed without an answer *)
        /\ Authentic(r) /\ MayNotFit(r)
        /\ UNCHANGED <<services, takes>>
        /\ Reply(r, FALSE)
  /\ UNCHANGED <<socket, tokenFile, budget, stopsFor>>

-------------------------------------------------------------------------------
(* The way of a request through round_trip, on its client's side. *)

Request(client, cmd, token) ==
  [id |-> CHOOSE i \in 0..Cardinality(requests) : \A q \in requests : q.id # i,
   client |-> client, cmd |-> cmd, token |-> token, at |-> 0,
   phase |-> "made", answer |-> NoAnswer, alone |-> client = "gui" /\ Of(client) = {}]

MeantStops(cmd, token) == IF cmd = "stop" THEN stopsFor \cup {token} ELSE stopsFor

(* A request is made: the token is read from the file. *)
Make(client, cmd) ==
  /\ tokenFile # 0 /\ Cardinality(Of(client)) < MaxInFlight
  /\ budget[client] > 0 /\ budget' = [budget EXCEPT ![client] = @ - 1]
  /\ requests' =
       {[q EXCEPT !.alone = @ /\ q.client # client] : q \in requests}
       \cup {Request(client, cmd, tokenFile)}
  /\ stopsFor' = MeantStops(cmd, tokenFile)

(* connect, or an error of it. *)
Connect(r) ==
  /\ r.phase = "made"
  /\ requests' = (requests \ {r}) \cup
       IF Alive(socket) THEN {[r EXCEPT !.phase = "connected", !.at = socket]} ELSE {}
  /\ UNCHANGED <<services, socket, tokenFile, takes, budget, gui, soak, stopsFor>>

Send(r) ==
  /\ r.phase = "connected"
  /\ requests' = (requests \ {r}) \cup {[r EXCEPT !.phase = "sent"]}
  /\ UNCHANGED <<services, socket, tokenFile, takes, budget, gui, soak, stopsFor>>

-------------------------------------------------------------------------------
(* icepodctl, one command per process. *)

Operate(cmd) ==
  /\ Make("operator", cmd)
  /\ UNCHANGED <<services, socket, tokenFile, takes, gui, soak>>

-------------------------------------------------------------------------------
(* run_soak: one request after the other, given up at the first error, and *)
(* then it has none in flight any more.  It reads the token once.          *)

SoakProgram ==
  <<"configure", "start">> \o [i \in 1..SoakBatches |-> "simulate"] \o <<"stop", "list">>

SoakBegin ==
  /\ Make("soak", "configure")
  /\ soak' = [soak EXCEPT !.at = 1, !.token = tokenFile]
  /\ UNCHANGED <<services, socket, tokenFile, takes, gui>>

GoesOnAnyway(r) == TRUE

SoakGoesOn(r) == r.answer.ok

SoakReceive(r) ==
  /\ r.client = "soak" /\ r.phase = "answered"
  /\ IF SoakGoesOn(r) /\ soak.at < Len(SoakProgram)
     THEN /\ soak' = [soak EXCEPT !.at = @ + 1]
          /\ LET cmd == SoakProgram[soak.at + 1] IN
               /\ requests' = (requests \ {r}) \cup {[Request("soak", cmd, soak.token) EXCEPT !.id = r.id]}
               /\ stopsFor' = MeantStops(cmd, soak.token)
     ELSE /\ soak' = [soak EXCEPT !.report = r.answer.first]
          /\ requests' = requests \ {r} /\ UNCHANGED stopsFor
  /\ UNCHANGED <<services, socket, tokenFile, takes, budget, gui>>

-------------------------------------------------------------------------------
(* The GUI.  Its views are one press apart, so a button is there if it is  *)
(* in any view.                                                            *)

(* boot: nothing shown, nothing armed, and a request for the snapshot. *)
Launch ==
  /\ ~ gui.open
  /\ Make("gui", "status")
  /\ gui' = [open |-> TRUE, shown |-> NoView, stopArmed |-> FALSE, doubt |-> FALSE]
  /\ UNCHANGED <<services, socket, tokenFile, takes, soak>>

(* The window is closed, or the GUI crashes: its connections break, but a  *)
(* frame that is complete will be executed all the same.                   *)
CloseWindow ==
  /\ gui.open
  /\ gui' = [open |-> FALSE, shown |-> NoView, stopArmed |-> FALSE, doubt |-> FALSE]
  /\ requests' =
       (requests \ Of("gui"))
       \cup {[r EXCEPT !.client = "closed", !.alone = FALSE] : r \in {q \in Of("gui") : q.phase = "sent"}}
  /\ UNCHANGED <<services, socket, tokenFile, takes, budget, soak, stopsFor>>

(* What the buttons and keys offer, by the last snapshot received. *)
Offered(cmd) ==
  \/ cmd \in {"status", "list", "configure"}
  \/ cmd = "start" /\ gui.shown.state = "Armed"
  \/ cmd = "pause" /\ gui.shown.state = "Recording"
  \/ cmd = "resume" /\ gui.shown.state = "Paused"
  \/ cmd = "mark" /\ gui.shown # NoView
  \/ cmd = "stop" /\ gui.shown # NoView /\ gui.stopArmed

Press(cmd) ==
  /\ gui.open /\ Offered(cmd)
  /\ Make("gui", cmd)
  /\ gui' = [gui EXCEPT !.stopArmed = @ /\ cmd # "stop"]
  /\ UNCHANGED <<services, socket, tokenFile, takes, soak>>

(* StopIntent, or the key for it. *)
ArmStop ==
  /\ gui.open /\ ~ gui.stopArmed
  /\ gui' = [gui EXCEPT !.stopArmed = TRUE]
  /\ UNCHANGED <<services, socket, tokenFile, takes, requests, budget, soak, stopsFor>>

(* Message::Received: a snapshot replaces what is shown, an error and a    *)
(* list leave it.                                                          *)
GuiReceive(r) ==
  /\ r.client = "gui" /\ r.phase = "answered"
  /\ requests' = requests \ {r}
  /\ gui' = IF r.answer.shown = NoView THEN gui
            ELSE [gui EXCEPT !.shown = r.answer.shown, !.doubt = ~ r.alone]
  /\ UNCHANGED <<services, socket, tokenFile, takes, budget, soak, stopsFor>>

-------------------------------------------------------------------------------
ServiceStep ==
  \/ \E s \in Services : WriteToken(s)
  \/ \E r \in requests : Handle(r)

GuiStep == \E r \in Of("gui") : Connect(r) \/ Send(r) \/ GuiReceive(r)

Next ==
  \/ ServiceStep
  \/ GuiStep
  \/ \E s \in Services : Listen(s) \/ Kill(s)
  \/ \E r \in requests \ Of("gui") : Connect(r) \/ Send(r) \/ SoakReceive(r)
  \/ \E cmd \in OperatorCommands : Operate(cmd)
  \/ SoakBegin
  \/ Launch \/ CloseWindow \/ ArmStop
  \/ \E cmd \in GuiCommands : Press(cmd)

(* A service that lives goes on, and so does the GUI as long as it is      *)
(* open; nothing is said of icepodctl.                                     *)
Spec == Init /\ [][Next]_vars /\ WF_vars(ServiceStep) /\ WF_vars(GuiStep)

-------------------------------------------------------------------------------
Clients == {"gui", "closed", "operator", "soak"}

View == [service : 0..MaxServices, state : {"None", "Idle", "Armed", "Recording", "Paused", "Completed"}]

(* Every variable keeps its type. *)
TypeOK ==
  /\ services \in [Services -> [phase : {"none", "listening", "ready", "dead"},
                                state : {"Idle", "Armed", "Recording", "Paused", "Completed"},
                                config : Clients \cup {"none"}, take : 0..Len(takes)]]
  /\ socket \in 0..MaxServices /\ tokenFile \in 0..MaxServices
  /\ takes \in Seq([by : Services, config : Clients, frames : Nat, complete : BOOLEAN])
  /\ \A r \in requests : r \in
       [id : Nat, client : Clients, cmd : Commands, token : Services, at : 0..MaxServices,
        phase : {"made", "connected", "sent", "answered"},
        answer : [ok : BOOLEAN, shown : View, first : 0..Len(takes)], alone : BOOLEAN]
  /\ budget \in [gui : Nat, operator : Nat, soak : 0..1]
  /\ gui \in [open : BOOLEAN, shown : View, stopArmed : BOOLEAN, doubt : BOOLEAN]
  /\ soak \in [at : 0..Len(SoakProgram), token : 0..MaxServices, report : 0..Len(takes), mixed : BOOLEAN]
  /\ stopsFor \subseteq Services

(* "Only explicit `Stop` finalizes a take": a take that was ended, was     *)
(* ended by a Stop somebody made for the very service that recorded it,    *)
(* whichever clients closed or were lost, and whoever took the socket      *)
(* between the reading of the token and the connection.  A Stop names no   *)
(* take: one that is late ends whatever its service records by then.       *)
StopIsMeant == \A t \in DOMAIN takes : takes[t].complete => takes[t].by \in stopsFor

(* What the GUI shows is the state of the service, once its last request   *)
(* is answered, if it made it alone and no other client has had a command  *)
(* executed since.                                                         *)
ViewIsTrue ==
  gui.open /\ gui.shown # NoView /\ ~ gui.doubt /\ Of("gui") = {} /\ Alive(gui.shown.service) =>
    gui.shown.state = services[gui.shown.service].state

(* A soak run reports the take it made, finished and with every frame it   *)
(* asked for, unless another client configured, started or simulated in    *)
(* the meantime; whatever others paused or stopped and whatever service    *)
(* was lost or replaced.                                                   *)
ReportIsOwn ==
  soak.report # 0 /\ ~ soak.mixed =>
    takes[soak.report] =
      [by |-> soak.token, config |-> "soak", frames |-> SoakBatches, complete |-> TRUE]

(* Every request of a GUI that stays open comes back, however many clients *)
(* stop in the middle of theirs: none can keep the service to itself.      *)
GuiIsAnswered == []<>(~ gui.open \/ Of("gui") = {})

-------------------------------------------------------------------------------
(* "Closing it does not issue `Stop`; reconnecting retrieves the service   *)
(* snapshot": a take being recorded is one a new client gets to.  The      *)
(* property of a run of its own: starting the GUI with --simulate starts   *)
(* another service, and that takes the socket from the first.              *)
RecordingIsReachable ==
  \A s \in Services :
    services[s].phase = "ready" /\ services[s].take # 0 => socket = s /\ tokenFile = s

================================================================================
