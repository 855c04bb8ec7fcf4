------------------------------ MODULE DeskProofs ------------------------------
(***************************************************************************)
(* Theorems about Desk, for any number of services, requests and batches.  *)
(***************************************************************************)
EXTENDS Desk, SequenceTheorems, TLAPS

Processes ==
  [phase : {"none", "listening", "ready", "dead"},
   state : {"Idle", "Armed", "Recording", "Paused", "Completed"},
   config : Clients \cup {"none"}, take : Nat]

Sessions ==
  [by : Services, config : Clients \cup {"none"}, frames : Nat, complete : BOOLEAN]

(* A request has its fields and no others. *)
Fields == {"id", "client", "cmd", "token", "at", "phase", "answer", "alone"}

IsRequest(r) == DOMAIN r = Fields /\ r = [f \in Fields |-> r[f]]

(* What holds of a request in flight: one that got through to a service    *)
(* names it, and a Stop was meant for the service its token is of.         *)
GoodRequest(r, meant) ==
  /\ IsRequest(r) /\ r.client \in Clients
  /\ r.phase \in {"connected", "sent"} => r.at \in Services
  /\ r.cmd = "stop" => r.token \in meant

(* A service's recorder works on a take of its own. *)
OwnTake(s) ==
  services[s].take # 0 =>
    services[s].take \in DOMAIN takes /\ takes[services[s].take].by = s

StopInv ==
  /\ services \in [Services -> Processes] /\ socket \in 0..MaxServices
  /\ takes \in Seq(Sessions)
  /\ \A r \in requests : GoodRequest(r, stopsFor)
  /\ \A s \in Services : OwnTake(s)
  /\ StopIsMeant

-------------------------------------------------------------------------------
(* A request that is made is good, if a Stop among them is noted. *)
LEMMA MadeIsGood ==
  ASSUME NEW client \in Clients, NEW cmd, NEW token
  PROVE  GoodRequest(Request(client, cmd, token), MeantStops(cmd, token))
<1> DEFINE q == Request(client, cmd, token)
<1>1. DOMAIN q = Fields
  BY DEF Request, Fields
<1>2. q = [f \in Fields |-> q[f]]
  <2>1. q \in [id : {q.id}, client : {client}, cmd : {cmd}, token : {token}, at : {0},
               phase : {"made"}, answer : {NoAnswer}, alone : {q.alone}]
    BY DEF Request
  <2> HIDE DEF q
  <2> QED BY <2>1 DEF Fields
<1>3. q.client = client /\ q.cmd = cmd /\ q.token = token /\ q.phase = "made"
  BY DEF Request
<1> HIDE DEF q
<1>4. GoodRequest(q, MeantStops(cmd, token))
  BY <1>1, <1>2, <1>3 DEF GoodRequest, IsRequest, MeantStops
<1> QED BY <1>4 DEF q

LEMMA MeantGrows == \A cmd, token : stopsFor \subseteq MeantStops(cmd, token)
BY DEF MeantStops

(* A good request stays good when more Stops are meant. *)
LEMMA GoodStaysGood ==
  ASSUME NEW r, NEW meant, NEW more, meant \subseteq more, GoodRequest(r, meant)
  PROVE  GoodRequest(r, more)
BY DEF GoodRequest

(* Its fields that matter are not disturbed by these changes. *)
LEMMA GoodChanges ==
  ASSUME NEW r, NEW meant, GoodRequest(r, meant)
  PROVE  /\ \A b : GoodRequest([r EXCEPT !.alone = b], meant)
         /\ \A a : GoodRequest([r EXCEPT !.phase = "answered", !.answer = a], meant)
         /\ \A s \in Services : GoodRequest([r EXCEPT !.phase = "connected", !.at = s], meant)
         /\ r.phase = "connected" => GoodRequest([r EXCEPT !.phase = "sent"], meant)
         /\ GoodRequest([r EXCEPT !.client = "closed", !.alone = FALSE], meant)
         /\ \A i : GoodRequest([r EXCEPT !.id = i], meant)
<1> USE DEF GoodRequest, IsRequest, Fields, Clients
<1>1. ASSUME NEW b PROVE GoodRequest([r EXCEPT !.alone = b], meant)
  OBVIOUS
<1>2. ASSUME NEW a PROVE GoodRequest([r EXCEPT !.phase = "answered", !.answer = a], meant)
  OBVIOUS
<1>3. ASSUME NEW s \in Services PROVE GoodRequest([r EXCEPT !.phase = "connected", !.at = s], meant)
  OBVIOUS
<1>4. ASSUME r.phase = "connected" PROVE GoodRequest([r EXCEPT !.phase = "sent"], meant)
  BY <1>4
<1>5. GoodRequest([r EXCEPT !.client = "closed", !.alone = FALSE], meant)
  OBVIOUS
<1>6. ASSUME NEW i PROVE GoodRequest([r EXCEPT !.id = i], meant)
  OBVIOUS
<1> QED BY <1>1, <1>2, <1>3, <1>4, <1>5, <1>6

(* Steps that touch no service and no take. *)
LEMMA RequestsAlone ==
  ASSUME StopInv, UNCHANGED <<services, takes>>, socket' \in 0..MaxServices,
         stopsFor \subseteq stopsFor', \A r \in requests' : GoodRequest(r, stopsFor')
  PROVE  StopInv'
BY DEF StopInv, OwnTake, StopIsMeant

(* Making a request leaves all of them good. *)
LEMMA MakeKeeps ==
  ASSUME StopInv, NEW client \in Clients, NEW cmd, Make(client, cmd)
  PROVE  /\ stopsFor \subseteq stopsFor'
         /\ \A r \in requests' : GoodRequest(r, stopsFor')
<1>1. stopsFor' = MeantStops(cmd, tokenFile)
  BY DEF Make
<1>2. \A q \in requests : GoodRequest(q, stopsFor')
  BY <1>1, MeantGrows, GoodStaysGood DEF StopInv
<1>3. ASSUME NEW r \in requests' PROVE GoodRequest(r, stopsFor')
  <2>1. \/ r = Request(client, cmd, tokenFile)
        \/ \E q \in requests : r = [q EXCEPT !.alone = @ /\ q.client # client]
    BY DEF Make
  <2>2. CASE r = Request(client, cmd, tokenFile)
    BY <2>2, <1>1, MadeIsGood
  <2>3. ASSUME NEW q \in requests, r = [q EXCEPT !.alone = @ /\ q.client # client]
        PROVE  GoodRequest(r, stopsFor')
    BY <2>3, <1>2, GoodChanges
  <2> QED BY <2>1, <2>2, <2>3
<1> QED BY <1>1, <1>3, MeantGrows

(* An answer leaves the others good. *)
LEMMA ReplyKeeps ==
  ASSUME StopInv, NEW r \in requests, NEW ok, Reply(r, ok)
  PROVE  \A q \in requests' : GoodRequest(q, stopsFor)
<1> SUFFICES ASSUME NEW q \in requests' PROVE GoodRequest(q, stopsFor)
  OBVIOUS
<1>1. \A p \in requests : GoodRequest(p, stopsFor)
  BY DEF StopInv
<1>2. \/ \E p \in requests :
           q = [p EXCEPT !.alone = @ /\ (r.client = "gui" \/ p.phase # "answered")]
      \/ q = [r EXCEPT !.phase = "answered", !.answer = AnswerTo(r, ok)]
  BY DEF Reply
<1>3. CASE \E p \in requests :
             q = [p EXCEPT !.alone = @ /\ (r.client = "gui" \/ p.phase # "answered")]
  <2> PICK p \in requests :
             q = [p EXCEPT !.alone = @ /\ (r.client = "gui" \/ p.phase # "answered")]
    BY <1>3
  <2> DEFINE b == p.alone /\ (r.client = "gui" \/ p.phase # "answered")
  <2>1. q = [p EXCEPT !.alone = b]
    OBVIOUS
  <2>2. GoodRequest(p, stopsFor)
    BY <1>1
  <2>3. \A v : GoodRequest([p EXCEPT !.alone = v], stopsFor)
    BY <2>2, GoodChanges
  <2> QED BY <2>1, <2>3
<1>4. CASE q = [r EXCEPT !.phase = "answered", !.answer = AnswerTo(r, ok)]
  BY <1>1, <1>4, GoodChanges
<1> QED BY <1>2, <1>3, <1>4

-------------------------------------------------------------------------------
LEMMA StartedProcess ==
  ASSUME NEW p \in Processes, NEW n \in Nat
  PROVE  [p EXCEPT !.state = "Recording", !.take = n] \in Processes
BY DEF Processes

LEMMA ConfiguredProcess ==
  ASSUME NEW p \in Processes, NEW c \in Clients
  PROVE  [p EXCEPT !.state = "Armed", !.config = c] \in Processes
BY DEF Processes

LEMMA SwitchedProcess ==
  ASSUME NEW p \in Processes, NEW st \in {"Paused", "Recording"}
  PROVE  /\ [p EXCEPT !.state = st] \in Processes
         /\ [p EXCEPT !.state = st].take = p.take
BY DEF Processes

(* A command is executed: the take it ends is one a Stop was meant for. *)
LEMMA ExecuteKeeps ==
  ASSUME StopInv, NEW r \in requests, r.at \in Services, Authentic(r),
         \/ Look(r, r.at) \/ Configure(r, r.at) \/ Start(r, r.at)
         \/ Switch(r, r.at) \/ Simulate(r, r.at) \/ Stop(r, r.at)
  PROVE  /\ services' \in [Services -> Processes]
         /\ takes' \in Seq(Sessions)
         /\ \A s \in Services : OwnTake(s)'
         /\ \A t \in DOMAIN takes' : takes'[t].complete => takes'[t].by \in stopsFor
<1> DEFINE here == services[r.at]
<1>1. /\ services \in [Services -> Processes] /\ takes \in Seq(Sessions)
      /\ GoodRequest(r, stopsFor) /\ r.client \in Clients
      /\ \A s \in Services : OwnTake(s)
      /\ \A t \in DOMAIN takes : takes[t].complete => takes[t].by \in stopsFor
  BY DEF StopInv, StopIsMeant, GoodRequest
<1>2. CASE Look(r, r.at)
  BY <1>1, <1>2 DEF Look, OwnTake
<1>3. CASE Configure(r, r.at)
  <2>1. /\ services' = [services EXCEPT ![r.at].state = "Armed", ![r.at].config = r.client]
        /\ takes' = takes
    BY <1>3 DEF Configure
  <2>2. [here EXCEPT !.state = "Armed", !.config = r.client] \in Processes
    BY ONLY <1>1, r.at \in Services, ConfiguredProcess
  <2>3. services' = [services EXCEPT ![r.at] = [here EXCEPT !.state = "Armed", !.config = r.client]]
    BY <1>1, <2>1 DEF Processes
  <2>4. here.take = [here EXCEPT !.state = "Armed", !.config = r.client].take
    BY <1>1 DEF Processes
  <2> DEFINE armed == [here EXCEPT !.state = "Armed", !.config = r.client]
  <2>5. /\ services' = [services EXCEPT ![r.at] = armed]
        /\ armed \in Processes /\ armed.take = here.take
    BY <2>2, <2>3, <2>4
  <2> HIDE DEF armed
  <2>6. /\ services' \in [Services -> Processes]
        /\ \A s \in Services : services'[s].take = services[s].take
    BY ONLY <1>1, <2>5
  <2> QED BY <1>1, <2>1, <2>6 DEF OwnTake
<1>4. CASE Start(r, r.at)
  <2> DEFINE take == [by |-> r.at, config |-> here.config, frames |-> 0, complete |-> FALSE]
  <2>1. take \in Sessions /\ takes' = Append(takes, take)
    BY <1>1, <1>4 DEF Start, Sessions, Processes
  <2>2. /\ takes' \in Seq(Sessions) /\ Len(takes') = Len(takes) + 1
        /\ takes'[Len(takes) + 1] = take
        /\ \A t \in DOMAIN takes : takes'[t] = takes[t]
        /\ DOMAIN takes = 1..Len(takes) /\ DOMAIN takes' = 1..Len(takes) + 1
        /\ Len(takes) \in Nat
    BY <1>1, <2>1
  <2>3. services' = [services EXCEPT ![r.at].state = "Recording", ![r.at].take = Len(takes) + 1]
    BY <1>4, <2>2 DEF Start
  <2>4. services' \in [Services -> Processes]
    <3>1. [here EXCEPT !.state = "Recording", !.take = Len(takes) + 1] \in Processes
      <4>1. here \in Processes /\ Len(takes) + 1 \in Nat
        BY <1>1, <2>2
      <4> QED BY <4>1, StartedProcess
    <3>2. services' = [services EXCEPT ![r.at] = [here EXCEPT !.state = "Recording", !.take = Len(takes) + 1]]
      BY <1>1, <2>3 DEF Processes
    <3> QED BY <1>1, <3>1, <3>2
  <2>5. ASSUME NEW s \in Services PROVE OwnTake(s)'
    <3>1. CASE s = r.at
      BY <1>1, <2>2, <2>3, <3>1 DEF OwnTake, Processes
    <3>2. CASE s # r.at
      BY <1>1, <2>2, <2>3, <3>2 DEF OwnTake
    <3> QED BY <3>1, <3>2
  <2>6. ASSUME NEW t \in DOMAIN takes', takes'[t].complete PROVE takes'[t].by \in stopsFor
    BY <1>1, <2>2, <2>6
  <2> QED BY <2>2, <2>4, <2>5, <2>6
<1>5. CASE Switch(r, r.at)
  <2>1. takes' = takes /\ \E st \in {"Paused", "Recording"} : services' = [services EXCEPT ![r.at].state = st]
    BY <1>5 DEF Switch
  <2> PICK st \in {"Paused", "Recording"} : services' = [services EXCEPT ![r.at].state = st]
    BY <2>1
  <2> DEFINE switched == [here EXCEPT !.state = st]
  <2>2. switched \in Processes /\ switched.take = here.take
    BY <1>1, SwitchedProcess
  <2>3. services' = [services EXCEPT ![r.at] = switched]
    BY <1>1
  <2> HIDE DEF switched
  <2>4. /\ services' \in [Services -> Processes]
        /\ \A s \in Services : services'[s].take = services[s].take
    BY ONLY <1>1, <2>2, <2>3
  <2> QED BY <1>1, <2>1, <2>4 DEF OwnTake
<1>6. CASE Simulate(r, r.at)
  <2>1. takes' = [takes EXCEPT ![here.take].frames = @ + 1] /\ services' = services
    BY <1>6 DEF Simulate
  <2>2. /\ DOMAIN takes' = DOMAIN takes /\ takes' \in Seq(Sessions)
        /\ \A t \in DOMAIN takes : takes'[t].by = takes[t].by /\ takes'[t].complete = takes[t].complete
    <3> DEFINE more == [takes[here.take] EXCEPT !.frames = @ + 1]
    <3>1. here.take \in 1..Len(takes) /\ takes[here.take] \in Sessions
      BY <1>1, <1>6 DEF OwnTake, Simulate
    <3>2. more \in Sessions /\ more.by = takes[here.take].by /\ more.complete = takes[here.take].complete
      BY <3>1 DEF Sessions
    <3>3. takes' = [takes EXCEPT ![here.take] = more]
      BY <2>1
    <3> HIDE DEF more
    <3> QED BY <1>1, <3>1, <3>2, <3>3, ExceptSeq
  <2> QED BY <1>1, <2>1, <2>2 DEF OwnTake
<1>7. CASE Stop(r, r.at)
  <2>1. /\ here.take # 0 /\ r.cmd = "stop"
        /\ takes' = [takes EXCEPT ![here.take].complete = TRUE]
        /\ services' = [services EXCEPT ![r.at].state = "Completed", ![r.at].take = 0]
    BY <1>7 DEF Stop
  <2>2. here.take \in DOMAIN takes /\ takes[here.take].by = r.at
    BY <1>1, <2>1 DEF OwnTake
  <2>3. r.at \in stopsFor
    BY <1>1, <2>1 DEF Authentic, GoodRequest
  <2>4. /\ DOMAIN takes' = DOMAIN takes /\ takes' \in Seq(Sessions)
        /\ \A t \in DOMAIN takes : takes'[t].by = takes[t].by
        /\ \A t \in DOMAIN takes : t # here.take => takes'[t].complete = takes[t].complete
    <3> DEFINE done == [takes[here.take] EXCEPT !.complete = TRUE]
    <3>1. here.take \in 1..Len(takes) /\ takes[here.take] \in Sessions
      BY <1>1, <2>2
    <3>2. done \in Sessions /\ done.by = takes[here.take].by
      BY <3>1 DEF Sessions
    <3>3. takes' = [takes EXCEPT ![here.take] = done]
      BY <2>1
    <3> HIDE DEF done
    <3> QED BY <1>1, <3>1, <3>2, <3>3, ExceptSeq
  <2>5. services' \in [Services -> Processes]
    BY <1>1, <2>1 DEF Processes
  <2>6. \A s \in Services : OwnTake(s)'
    BY <1>1, <2>1, <2>4 DEF OwnTake, Processes
  <2> QED BY <1>1, <2>2, <2>3, <2>4, <2>5, <2>6
<1> QED BY <1>2, <1>3, <1>4, <1>5, <1>6, <1>7

LEMMA HandleKeeps ==
  ASSUME StopInv, NEW r \in requests, Handle(r)
  PROVE  StopInv'
<1>1. r.at \in Services /\ UNCHANGED <<socket, stopsFor>>
  BY DEF StopInv, Handle, FrameRead, GoodRequest
<1>2. \A q \in requests' : GoodRequest(q, stopsFor')
  BY <1>1, ReplyKeeps DEF Handle
<1>3. CASE UNCHANGED <<services, takes>>
  BY <1>1, <1>2, <1>3, RequestsAlone DEF StopInv
<1>4. CASE /\ Authentic(r)
           /\ \/ Look(r, r.at) \/ Configure(r, r.at) \/ Start(r, r.at)
              \/ Switch(r, r.at) \/ Simulate(r, r.at) \/ Stop(r, r.at)
  BY <1>1, <1>2, <1>4, ExecuteKeeps DEF StopInv, StopIsMeant
<1> QED BY <1>3, <1>4 DEF Handle

-------------------------------------------------------------------------------
LEMMA StopInit == Init => StopInv
<1> SUFFICES ASSUME Init PROVE StopInv
  OBVIOUS
<1> USE DEF Init
<1>1. services \in [Services -> Processes]
  BY DEF Fresh, Processes
<1>2. socket \in 0..MaxServices
  BY BoundsAssumption
<1>3. takes \in Seq(Sessions) /\ DOMAIN takes = {}
  OBVIOUS
<1>4. \A s \in Services : OwnTake(s)
  BY DEF OwnTake, Fresh
<1> QED BY <1>1, <1>2, <1>3, <1>4 DEF StopInv, StopIsMeant

LEMMA StopNext == StopInv /\ [Next]_vars => StopInv'
<1> SUFFICES ASSUME StopInv, [Next]_vars PROVE StopInv'
  OBVIOUS
<1>0. /\ \A r \in requests : GoodRequest(r, stopsFor)
      /\ services \in [Services -> Processes] /\ socket \in 0..MaxServices
  BY DEF StopInv
<1>1. ASSUME NEW s \in Services, Listen(s) PROVE StopInv'
  <2>1. services' \in [Services -> Processes] /\ \A p \in Services : services'[p].take = services[p].take
    BY <1>0, <1>1 DEF Listen, Processes
  <2>2. socket' \in 0..MaxServices
    BY <1>1, BoundsAssumption DEF Listen, Services
  <2> QED BY <1>1, <2>1, <2>2 DEF Listen, StopInv, OwnTake, StopIsMeant
<1>2. ASSUME NEW s \in Services, WriteToken(s) PROVE StopInv'
  <2>1. services' \in [Services -> Processes] /\ \A p \in Services : services'[p].take = services[p].take
    BY <1>0, <1>2 DEF WriteToken, Processes
  <2> QED BY <1>2, <2>1 DEF WriteToken, StopInv, OwnTake, StopIsMeant
<1>3. ASSUME NEW s \in Services, Kill(s) PROVE StopInv'
  <2>1. /\ services' \in [Services -> Processes]
        /\ \A p \in Services : services'[p].take \in {0, services[p].take}
    BY <1>0, <1>3 DEF Kill, Fresh, Processes
  <2>2. \A r \in requests' : GoodRequest(r, stopsFor)
    BY <1>0, <1>3 DEF Kill
  <2> QED BY <1>3, <2>1, <2>2 DEF Kill, StopInv, OwnTake, StopIsMeant
<1>4. ASSUME NEW r \in requests, Handle(r) PROVE StopInv'
  BY <1>4, HandleKeeps
<1>5. ASSUME NEW r \in requests, Connect(r) PROVE StopInv'
  <2>1. Alive(socket) => socket \in Services
    BY <1>0, BoundsAssumption DEF Alive, Services
  <2>2. \A q \in requests' : GoodRequest(q, stopsFor)
    <3>1. ASSUME Alive(socket) PROVE GoodRequest([r EXCEPT !.phase = "connected", !.at = socket], stopsFor)
      BY <1>0, <2>1, <3>1, GoodChanges
    <3>2. requests' = (requests \ {r}) \cup
            IF Alive(socket) THEN {[r EXCEPT !.phase = "connected", !.at = socket]} ELSE {}
      BY <1>5 DEF Connect
    <3> QED BY <1>0, <3>1, <3>2
  <2> QED BY <1>0, <1>5, <2>2, RequestsAlone DEF Connect
<1>6. ASSUME NEW r \in requests, Send(r) PROVE StopInv'
  <2>1. \A q \in requests' : GoodRequest(q, stopsFor)
    BY <1>0, <1>6, GoodChanges DEF Send
  <2> QED BY <1>0, <1>6, <2>1, RequestsAlone DEF Send
<1>7. ASSUME NEW cmd, Operate(cmd) PROVE StopInv'
  BY <1>0, <1>7, MakeKeeps, RequestsAlone DEF Operate, Clients
<1>8. CASE SoakBegin
  BY <1>0, <1>8, MakeKeeps, RequestsAlone DEF SoakBegin, Clients
<1>9. ASSUME NEW r \in requests, SoakReceive(r) PROVE StopInv'
  <2>1. CASE SoakGoesOn(r) /\ soak.at < Len(SoakProgram)
    <3> DEFINE cmd == SoakProgram[soak.at + 1]
    <3>1. /\ requests' = (requests \ {r}) \cup {[Request("soak", cmd, soak.token) EXCEPT !.id = r.id]}
          /\ stopsFor' = MeantStops(cmd, soak.token)
      BY <1>9, <2>1 DEF SoakReceive
    <3>2. GoodRequest([Request("soak", cmd, soak.token) EXCEPT !.id = r.id], stopsFor')
      BY <3>1, MadeIsGood, GoodChanges DEF Clients
    <3>3. \A q \in requests' : GoodRequest(q, stopsFor')
      BY <1>0, <3>1, <3>2, MeantGrows, GoodStaysGood
    <3> QED BY <1>0, <1>9, <3>1, <3>3, MeantGrows, RequestsAlone DEF SoakReceive
  <2>2. CASE ~ (SoakGoesOn(r) /\ soak.at < Len(SoakProgram))
    <3>1. requests' = requests \ {r} /\ stopsFor' = stopsFor
      BY <1>9, <2>2 DEF SoakReceive
    <3> QED BY <1>0, <1>9, <3>1, RequestsAlone DEF SoakReceive
  <2> QED BY <2>1, <2>2
<1>10. CASE Launch
  BY <1>0, <1>10, MakeKeeps, RequestsAlone DEF Launch, Clients
<1>11. CASE CloseWindow
  <2>1. \A q \in requests' : GoodRequest(q, stopsFor)
    BY <1>0, <1>11, GoodChanges DEF CloseWindow, Of
  <2> QED BY <1>0, <1>11, <2>1, RequestsAlone DEF CloseWindow
<1>12. CASE ArmStop
  BY <1>0, <1>12, RequestsAlone DEF ArmStop
<1>13. ASSUME NEW cmd, Press(cmd) PROVE StopInv'
  BY <1>0, <1>13, MakeKeeps, RequestsAlone DEF Press, Clients
<1>14. ASSUME NEW r \in requests, GuiReceive(r) PROVE StopInv'
  BY <1>0, <1>14, RequestsAlone DEF GuiReceive
<1>15. CASE UNCHANGED vars
  BY <1>15 DEF vars, StopInv, OwnTake, StopIsMeant
<1> QED
  BY <1>1, <1>2, <1>3, <1>4, <1>5, <1>6, <1>7, <1>8, <1>9, <1>10, <1>11, <1>12, <1>13, <1>14, <1>15
  DEF Next, ServiceStep, GuiStep, Of

(* Only a Stop that was made for the service that records a take ends it:  *)
(* whatever clients and services come, go, crash or replace each other.    *)
THEOREM StopsAreMeant == Spec => []StopIsMeant
<1>1. StopInv => StopIsMeant
  BY DEF StopInv
<1> QED BY <1>1, StopInit, StopNext, PTL DEF Spec

-------------------------------------------------------------------------------
(* What the GUI shows.  A view is true if the service it is of is gone or  *)
(* in that state.  An answer the GUI waits for alone stays true, because   *)
(* whatever else a service executes ends its being alone; and while what   *)
(* is shown is no longer true, an answer that replaces it is on its way.   *)

TrueView(v) == Alive(v.service) => v.state = services[v.service].state

Started(s) == s \in Services => services[s].phase # "none"

IsSnapshot(r) == r.phase = "answered" /\ r.answer.shown # NoView

GoodAnswer(r) ==
  /\ r.alone \in BOOLEAN /\ r.answer.shown \in View
  /\ Started(r.answer.shown.service) /\ Started(r.at)

ViewInv ==
  /\ gui \in [open : BOOLEAN, shown : View, stopArmed : BOOLEAN, doubt : BOOLEAN]
  /\ Started(gui.shown.service)
  /\ \A r \in requests : GoodAnswer(r)
  /\ ~ gui.open => Of("gui") = {}
  /\ \A r \in Of("gui") : r.alone => Of("gui") = {r}
  /\ \A r \in Of("gui") : r.alone /\ IsSnapshot(r) => TrueView(r.answer.shown)
  /\ gui.open /\ gui.shown # NoView /\ ~ gui.doubt =>
       TrueView(gui.shown) \/ \E r \in Of("gui") : IsSnapshot(r)

(* Steps of the services alone: they lose requests without an answer, and  *)
(* change no state a view may be of.                                       *)
LEMMA ServicesView ==
  ASSUME ViewInv, UNCHANGED gui, requests' \subseteq requests,
         \A r \in requests : IsSnapshot(r) => r \in requests',
         \A s : Started(s) => Started(s)',
         \A s \in Services :
           Started(s) /\ Alive(s)' => Alive(s) /\ services'[s].state = services[s].state
  PROVE  ViewInv'
<1>1. \A v \in View : Started(v.service) /\ TrueView(v) => TrueView(v)'
  <2>1. \A v \in View : v.service = 0 \/ v.service \in Services
    BY BoundsAssumption DEF View, Services
  <2>2. ~ Alive(0)'
    BY DEF Alive
  <2> QED BY <2>1, <2>2 DEF TrueView
<1>2. \A r \in requests' : GoodAnswer(r)'
  BY DEF ViewInv, GoodAnswer
<1>3. Of("gui")' \subseteq Of("gui") /\ \A r \in Of("gui") : IsSnapshot(r) => r \in Of("gui")'
  BY DEF Of
<1>4. \A r \in requests : IsSnapshot(r)' <=> IsSnapshot(r)
  BY DEF IsSnapshot
<1>5. \A r \in Of("gui")' : r.alone => Of("gui")' = {r}
  BY <1>3 DEF ViewInv
<1>6. \A r \in Of("gui")' : r.alone /\ IsSnapshot(r)' => TrueView(r.answer.shown)'
  BY <1>1, <1>3, <1>4 DEF ViewInv, GoodAnswer, Of
<1>7. gui'.open /\ gui'.shown # NoView /\ ~ gui'.doubt =>
        TrueView(gui.shown)' \/ \E r \in Of("gui")' : IsSnapshot(r)'
  BY <1>1, <1>3, <1>4 DEF ViewInv, Of
<1> QED BY <1>2, <1>3, <1>5, <1>6, <1>7 DEF ViewInv, Started

(* A request without an answer moves on, or is lost. *)
LEMMA MoveView ==
  ASSUME ViewInv, UNCHANGED <<services, gui>>, NEW r \in requests, r.phase # "answered",
         NEW x, x.client = r.client, x.alone = r.alone, x.answer = r.answer,
         x.phase # "answered", Started(x.at),
         \/ requests' = requests \ {r}
         \/ requests' = (requests \ {r}) \cup {x}
  PROVE  ViewInv'
<1>1. \A v : TrueView(v)' <=> TrueView(v)
  BY DEF TrueView, Alive
<1>2. GoodAnswer(x) /\ \A q \in requests' : GoodAnswer(q)'
  BY DEF ViewInv, GoodAnswer, Started
<1>3. \A q : IsSnapshot(q)' <=> IsSnapshot(q)
  BY DEF IsSnapshot
<1>4. ~ IsSnapshot(r) /\ ~ IsSnapshot(x)
  BY DEF IsSnapshot
<1>5. \/ r.client # "gui" /\ Of("gui")' = Of("gui")
      \/ /\ r \in Of("gui")
         /\ Of("gui")' \in {Of("gui") \ {r}, (Of("gui") \ {r}) \cup {x}}
  BY DEF Of
<1>6. \A q \in Of("gui")' : q.alone => Of("gui")' = {q}
  BY <1>5 DEF ViewInv
<1>7. \A q \in Of("gui")' : q.alone /\ IsSnapshot(q)' => TrueView(q.answer.shown)'
  BY <1>1, <1>3, <1>4, <1>5 DEF ViewInv
<1>8. gui'.open /\ gui'.shown # NoView /\ ~ gui'.doubt =>
        TrueView(gui.shown)' \/ \E q \in Of("gui")' : IsSnapshot(q)'
  BY <1>1, <1>3, <1>4, <1>5 DEF ViewInv
<1>9. ~ gui'.open => Of("gui")' = {}
  BY <1>5 DEF ViewInv
<1> QED BY <1>2, <1>6, <1>7, <1>8, <1>9 DEF ViewInv, Started

(* What a change of alone leaves. *)
LEMMA AloneChanges ==
  ASSUME NEW q, IsRequest(q), NEW b
  PROVE  LET x == [q EXCEPT !.alone = b] IN
         /\ x.client = q.client /\ x.phase = q.phase /\ x.answer = q.answer
         /\ x.at = q.at /\ x.alone = b
BY DEF IsRequest, Fields

(* A request is made: none of the client's is alone any more but, if there *)
(* is no other, this one.                                                  *)
LEMMA MakeView ==
  ASSUME StopInv, ViewInv, UNCHANGED services, NEW client \in Clients, NEW cmd, Make(client, cmd),
         gui' \in [open : BOOLEAN, shown : View, stopArmed : BOOLEAN, doubt : BOOLEAN],
         client = "gui" => gui'.open, client # "gui" => gui'.open = gui.open,
         \/ gui'.shown = NoView
         \/ gui'.shown = gui.shown /\ gui'.doubt = gui.doubt /\ gui'.open = gui.open
  PROVE  ViewInv'
<1> DEFINE new == Request(client, cmd, tokenFile)
           old(q) == [q EXCEPT !.alone = @ /\ q.client # client]
<1>1. requests' = {old(q) : q \in requests} \cup {new}
  BY DEF Make
<1>2. /\ new.client = client /\ new.phase = "made" /\ new.answer = NoAnswer /\ new.at = 0
      /\ new.alone = (client = "gui" /\ Of(client) = {})
  BY DEF Request
<1>3. \A q \in requests :
        /\ old(q).client = q.client /\ old(q).phase = q.phase /\ old(q).answer = q.answer
        /\ old(q).at = q.at /\ old(q).alone = (q.alone /\ q.client # client)
  BY AloneChanges DEF StopInv, GoodRequest
<1>4. \A v : TrueView(v)' <=> TrueView(v)
  BY DEF TrueView, Alive
<1>5. \A q : IsSnapshot(q)' <=> IsSnapshot(q)
  BY DEF IsSnapshot
<1>6. NoView \in View /\ \A s : Started(s)' <=> Started(s)
  BY BoundsAssumption DEF NoView, View, Started
<1> HIDE DEF new, old
<1>7. GoodAnswer(new)
  <2>1. NoAnswer.shown = NoView /\ NoView.service = 0 /\ 0 \notin Services
    BY DEF NoAnswer, NoView, Services
  <2> QED BY <1>2, <1>6, <2>1 DEF GoodAnswer, Started
<1>8. \A q \in requests : GoodAnswer(old(q))
  BY <1>3, <1>6 DEF ViewInv, GoodAnswer
<1>9. /\ \A q \in Of("gui")' : (q = new /\ client = "gui") \/ \E p \in Of("gui") : q = old(p)
      /\ \A p \in Of("gui") : old(p) \in Of("gui")'
  BY <1>1, <1>2, <1>3 DEF Of
<1>10. \A q \in Of("gui")' : q.alone => Of("gui")' = {q}
  <2> SUFFICES ASSUME NEW q \in Of("gui")', q.alone PROVE Of("gui")' = {q}
    OBVIOUS
  <2>1. CASE client = "gui"
    <3>1. \A p \in Of("gui") : ~ old(p).alone
      BY <1>3, <2>1 DEF Of
    <3>2. q = new /\ Of("gui") = {}
      BY <1>2, <1>9, <2>1, <3>1
    <3> QED BY <1>9, <3>2
  <2>2. CASE client # "gui"
    <3>1. PICK p \in Of("gui") : q = old(p)
      BY <1>9, <2>2
    <3>2. p.alone
      BY <1>3, <2>2, <3>1 DEF Of
    <3>3. Of("gui") = {p}
      BY <3>2 DEF ViewInv
    <3> QED BY <1>9, <2>2, <3>1, <3>3
  <2> QED BY <2>1, <2>2
<1>11. \A q \in Of("gui")' : q.alone /\ IsSnapshot(q)' => TrueView(q.answer.shown)'
  <2> SUFFICES ASSUME NEW q \in Of("gui")', q.alone, IsSnapshot(q) PROVE TrueView(q.answer.shown)
    BY <1>4, <1>5
  <2>1. q # new
    BY <1>2 DEF IsSnapshot
  <2>2. PICK p \in Of("gui") : q = old(p)
    BY <1>9, <2>1
  <2>3. p.alone /\ IsSnapshot(p) /\ p.answer = q.answer
    BY <1>3, <2>2 DEF Of, IsSnapshot
  <2> QED BY <2>3 DEF ViewInv
<1>12. gui'.open /\ gui'.shown # NoView /\ ~ gui'.doubt =>
         TrueView(gui.shown)' \/ \E q \in Of("gui")' : IsSnapshot(q)'
  <2> SUFFICES ASSUME gui'.open, gui'.shown # NoView, ~ gui'.doubt, ~ TrueView(gui'.shown)
               PROVE  \E q \in Of("gui")' : IsSnapshot(q)
    BY <1>4, <1>5
  <2>1. PICK p \in Of("gui") : IsSnapshot(p)
    BY DEF ViewInv
  <2>2. IsSnapshot(old(p)) /\ old(p) \in Of("gui")'
    BY <1>3, <1>9, <2>1 DEF Of, IsSnapshot
  <2> QED BY <2>2
<1>13. ~ gui'.open => Of("gui")' = {}
  BY <1>9 DEF ViewInv
<1>14. Started(gui.shown.service)'
  BY <1>6 DEF ViewInv, NoView, Started, Services
<1>15. \A q \in requests' : GoodAnswer(q)'
  <2>1. \A q \in requests' : GoodAnswer(q)
    BY <1>1, <1>7, <1>8
  <2> QED BY <1>6, <2>1 DEF GoodAnswer
<1> QED BY <1>10, <1>11, <1>12, <1>13, <1>14, <1>15 DEF ViewInv

(* A command changes no service but the one that executes it, and no phase. *)
LEMMA OneServiceMoves ==
  ASSUME StopInv, NEW s \in Services, NEW r,
         \/ Look(r, s) \/ Configure(r, s) \/ Start(r, s)
         \/ Switch(r, s) \/ Simulate(r, s) \/ Stop(r, s)
  PROVE  /\ \A p \in Services : services'[p].phase = services[p].phase
         /\ \A p \in Services : p # s => services'[p] = services[p]
<1>1. services \in [Services -> Processes]
  BY DEF StopInv
<1>2. CASE Look(r, s) \/ Simulate(r, s)
  BY <1>2 DEF Look, Simulate
<1>3. CASE Configure(r, s)
  BY <1>1, <1>3 DEF Configure, Processes
<1>4. CASE Start(r, s)
  BY <1>1, <1>4 DEF Start, Processes
<1>5. CASE Switch(r, s)
  BY <1>1, <1>5 DEF Switch, Processes
<1>6. CASE Stop(r, s)
  BY <1>1, <1>6 DEF Stop, Processes
<1> QED BY <1>2, <1>3, <1>4, <1>5, <1>6

(* A command is executed and answered.  If another client made it, every   *)
(* answer the GUI has not received loses its being alone; if the GUI made  *)
(* it, the answer is the only one it waits for, or none is alone.          *)
LEMMA HandleView ==
  ASSUME StopInv, ViewInv, NEW r \in requests, Handle(r)
  PROVE  ViewInv'
<1> DEFINE rest(q) == [q EXCEPT !.alone = @ /\ (r.client = "gui" \/ q.phase # "answered")]
           mine(ok) == [r EXCEPT !.phase = "answered", !.answer = AnswerTo(r, ok)]
<1>1. /\ r.at \in Services /\ services[r.at].phase = "ready" /\ r.phase = "sent"
      /\ services \in [Services -> Processes]
      /\ \A q \in requests : IsRequest(q)
  BY DEF StopInv, Handle, FrameRead, GoodRequest
<1>2. PICK ok \in BOOLEAN :
        /\ Reply(r, ok)
        /\ \/ UNCHANGED <<services, takes>>
           \/ /\ ok /\ Authentic(r) /\ r.cmd \notin {"list", "status"}
              /\ \/ Look(r, r.at) \/ Configure(r, r.at) \/ Start(r, r.at)
                 \/ Switch(r, r.at) \/ Simulate(r, r.at) \/ Stop(r, r.at)
  BY DEF Handle, Look, Configure, Start, Switch, Simulate, Stop
<1>3. /\ services' \in [Services -> Processes]
      /\ \A s \in Services : services'[s].phase = services[s].phase
      /\ \A s \in Services : s # r.at => services'[s] = services[s]
  <2>1. CASE UNCHANGED <<services, takes>>
    BY <1>1, <2>1
  <2>2. CASE \/ Look(r, r.at) \/ Configure(r, r.at) \/ Start(r, r.at)
             \/ Switch(r, r.at) \/ Simulate(r, r.at) \/ Stop(r, r.at)
    <3>1. services' \in [Services -> Processes]
      BY <1>1, <1>2, ExecuteKeeps
    <3> QED BY <1>1, <2>2, <3>1, OneServiceMoves
  <2> QED BY <1>2, <2>1, <2>2
<1>4. \A s : Started(s)' <=> Started(s)
  BY <1>3 DEF Started
<1>5. requests' = {rest(q) : q \in requests \ {r}} \cup (IF r.client \in {"gui", "soak"} THEN {mine(ok)} ELSE {})
  BY <1>2 DEF Reply
<1>6. \A q \in requests :
        /\ rest(q).client = q.client /\ rest(q).phase = q.phase /\ rest(q).answer = q.answer
        /\ rest(q).at = q.at
        /\ rest(q).alone = (q.alone /\ (r.client = "gui" \/ q.phase # "answered"))
  BY <1>1, AloneChanges
<1>7. /\ mine(ok).client = r.client /\ mine(ok).phase = "answered" /\ mine(ok).at = r.at
      /\ mine(ok).alone = r.alone /\ mine(ok).answer = AnswerTo(r, ok)
  BY <1>1 DEF IsRequest, Fields
<1>8. AnswerTo(r, ok).shown =
        IF ok /\ r.cmd # "list" THEN [service |-> r.at, state |-> services'[r.at].state] ELSE NoView
  BY DEF AnswerTo, SnapshotState
<1>9. /\ AnswerTo(r, ok).shown \in View
      /\ ok /\ r.cmd # "list" => AnswerTo(r, ok).shown # NoView /\ AnswerTo(r, ok).shown.service = r.at
      /\ AnswerTo(r, ok).shown # NoView => AnswerTo(r, ok).shown.state = services'[r.at].state
      /\ AnswerTo(r, ok).shown.service \in {0, r.at}
  BY <1>1, <1>3, <1>8, BoundsAssumption DEF View, NoView, Processes, Services
<1>10. /\ gui'.open = gui.open /\ gui'.shown = gui.shown
       /\ gui'.doubt = (gui.doubt \/ (gui.shown # NoView /\ r.client # "gui"))
       /\ gui' \in [open : BOOLEAN, shown : View, stopArmed : BOOLEAN, doubt : BOOLEAN]
  BY <1>2 DEF Reply, ViewInv
<1>11. \A q : IsSnapshot(q)' <=> IsSnapshot(q)
  BY DEF IsSnapshot
<1>12. PICK answered : answered = mine(ok)
  OBVIOUS
<1>13. /\ answered.client = r.client /\ answered.phase = "answered" /\ answered.at = r.at
       /\ answered.alone = r.alone /\ answered.answer = AnswerTo(r, ok)
       /\ \A q \in requests' :
            (\E p \in requests \ {r} : q = rest(p)) \/ (q = answered /\ r.client \in {"gui", "soak"})
       /\ \A p \in requests \ {r} : rest(p) \in requests'
       /\ r.client \in {"gui", "soak"} => answered \in requests'
  BY <1>12, <1>5, <1>7
<1> HIDE DEF rest, mine
<1>14. \A q \in requests' : GoodAnswer(q)'
  <2>1. \A q \in requests : q.alone \in BOOLEAN /\ q.answer.shown \in View
          /\ Started(q.answer.shown.service) /\ Started(q.at)
    BY DEF ViewInv, GoodAnswer
  <2>2. \A p \in requests : GoodAnswer(rest(p))
    BY <1>6, <2>1 DEF GoodAnswer
  <2>3. GoodAnswer(answered)
    BY <1>1, <1>9, <1>13, <2>1 DEF GoodAnswer, Started, Services
  <2>4. \A q \in requests' : GoodAnswer(q)
    BY <1>13, <2>2, <2>3
  <2> QED BY <1>4, <2>4 DEF GoodAnswer
<1>15. Started(gui.shown.service)'
  BY <1>4, <1>10 DEF ViewInv, Started
<1>16. CASE r.client = "gui"
  <2>1. /\ r \in Of("gui") /\ answered \in Of("gui")'
        /\ \A q \in Of("gui")' : q = answered \/ \E p \in Of("gui") \ {r} : q = rest(p)
        /\ \A p \in Of("gui") \ {r} : rest(p) \in Of("gui")'
    BY <1>6, <1>13, <1>16 DEF Of
  <2>2. ASSUME NEW q \in Of("gui")', q.alone PROVE q = answered /\ Of("gui")' = {q}
    <3>1. ASSUME NEW p \in Of("gui") \ {r} PROVE ~ p.alone
      BY <2>1, <3>1 DEF ViewInv
    <3>2. q = answered
      <4> SUFFICES ASSUME NEW p \in Of("gui") \ {r}, q = rest(p) PROVE FALSE
        BY <2>1
      <4>1. rest(p).alone => p.alone
        BY <1>6 DEF Of
      <4> QED BY <2>2, <3>1, <4>1
    <3>3. Of("gui") = {r}
      BY <1>13, <2>1, <2>2, <3>2 DEF ViewInv
    <3> QED BY <2>1, <3>2, <3>3
  <2>3. IsSnapshot(answered) => TrueView(answered.answer.shown)'
    <3>1. answered.answer.shown # NoView => answered.answer.shown.service = r.at
      BY <1>8, <1>9, <1>13
    <3> QED BY <1>9, <1>13, <3>1 DEF IsSnapshot, TrueView
  <2>4. gui.open /\ gui.shown # NoView /\ ~ gui.doubt =>
          TrueView(gui.shown)' \/ \E q \in Of("gui")' : IsSnapshot(q)
    <3> SUFFICES ASSUME gui.open, gui.shown # NoView, ~ gui.doubt, ~ IsSnapshot(answered)
                 PROVE  TrueView(gui.shown)' \/ \E q \in Of("gui")' : IsSnapshot(q)
      BY <2>1
    <3>1. services' = services
      BY <1>2, <1>9, <1>13 DEF IsSnapshot
    <3>2. CASE TrueView(gui.shown)
      BY <1>10, <3>1, <3>2 DEF TrueView, Alive
    <3>3. CASE \E p \in Of("gui") : IsSnapshot(p)
      <4> PICK p \in Of("gui") : IsSnapshot(p)
        BY <3>3
      <4>1. p # r
        BY <1>1 DEF IsSnapshot
      <4>2. rest(p) \in Of("gui")' /\ IsSnapshot(rest(p))
        BY <1>6, <2>1, <4>1 DEF Of, IsSnapshot
      <4> QED BY <4>2
    <3> QED BY <3>2, <3>3 DEF ViewInv
  <2>5. gui.open
    BY <2>1 DEF ViewInv
  <2> QED BY <1>10, <1>11, <1>14, <1>15, <1>16, <2>2, <2>3, <2>4, <2>5 DEF ViewInv
<1>17. CASE r.client # "gui"
  <2>1. /\ \A q \in Of("gui")' : \E p \in Of("gui") : q = rest(p)
        /\ \A p \in Of("gui") : rest(p) \in Of("gui")'
    BY <1>6, <1>13, <1>17 DEF Of
  <2>2. ASSUME NEW q \in Of("gui")', q.alone PROVE Of("gui")' = {q} /\ ~ IsSnapshot(q)
    <3>1. PICK p \in Of("gui") : q = rest(p)
      BY <2>1
    <3>2. p.alone /\ p.phase # "answered" /\ q.phase = p.phase
      BY <1>6, <1>17, <2>2, <3>1 DEF Of
    <3>3. Of("gui") = {p}
      BY <3>2 DEF ViewInv
    <3> QED BY <2>1, <3>1, <3>2, <3>3 DEF IsSnapshot
  <2>3. gui'.shown # NoView => gui'.doubt
    BY <1>10, <1>17
  <2>4. ~ gui'.open => Of("gui")' = {}
    BY <1>10, <2>1 DEF ViewInv
  <2> QED BY <1>10, <1>11, <1>14, <1>15, <2>2, <2>3, <2>4 DEF ViewInv
<1> QED BY <1>16, <1>17

(* A soak run goes on, or gives up: no request of the GUI is touched. *)
LEMMA SoakView ==
  ASSUME StopInv, ViewInv, NEW r \in requests, SoakReceive(r)
  PROVE  ViewInv'
<1> PICK x : x = [Request("soak", SoakProgram[soak.at + 1], soak.token) EXCEPT !.id = r.id]
  OBVIOUS
<1>1. x.client = "soak" /\ x.alone = FALSE /\ x.answer = NoAnswer /\ x.at = 0
  BY DEF Request
<1>2. GoodAnswer(x)
  <2>1. NoAnswer.shown = NoView /\ NoView.service = 0 /\ NoView \in View /\ 0 \notin Services
    BY BoundsAssumption DEF NoAnswer, NoView, View, Services
  <2> QED BY <1>1, <2>1 DEF GoodAnswer, Started
<1>3. /\ r.client = "soak" /\ UNCHANGED <<services, gui>>
      /\ requests' \in {requests \ {r}, (requests \ {r}) \cup {x}}
  BY DEF SoakReceive
<1>4. Of("gui")' = Of("gui")
  BY <1>1, <1>3 DEF Of
<1>5. \A q \in requests' : GoodAnswer(q)
  BY <1>2, <1>3 DEF ViewInv
<1> QED BY <1>3, <1>4, <1>5 DEF ViewInv, GoodAnswer, Started, TrueView, Alive, IsSnapshot

(* A GUI that is closed waits for nothing and shows nothing. *)
LEMMA CloseView ==
  ASSUME StopInv, ViewInv, CloseWindow
  PROVE  ViewInv'
<1> DEFINE left(r) == [r EXCEPT !.client = "closed", !.alone = FALSE]
<1>1. /\ requests' = (requests \ Of("gui")) \cup {left(r) : r \in {q \in Of("gui") : q.phase = "sent"}}
      /\ gui' = [open |-> FALSE, shown |-> NoView, stopArmed |-> FALSE, doubt |-> FALSE]
      /\ UNCHANGED services
  BY DEF CloseWindow
<1>2. \A r \in requests :
        /\ left(r).client = "closed" /\ left(r).alone = FALSE
        /\ left(r).answer = r.answer /\ left(r).at = r.at
  BY DEF StopInv, GoodRequest, IsRequest, Fields
<1> HIDE DEF left
<1>3. Of("gui")' = {}
  BY <1>1, <1>2 DEF Of
<1>4. \A q \in requests' : GoodAnswer(q)
  <2>1. \A q \in requests' : q \in requests \/ \E r \in requests : q = left(r)
    BY <1>1 DEF Of
  <2>2. \A r \in requests : GoodAnswer(r)
    BY DEF ViewInv
  <2>3. \A r \in requests : GoodAnswer(left(r))
    BY <1>2, <2>2 DEF GoodAnswer
  <2> QED BY <2>1, <2>2, <2>3
<1>5. NoView \in View /\ NoView.service \notin Services
  BY BoundsAssumption DEF NoView, View, Services
<1> QED BY <1>1, <1>3, <1>4, <1>5 DEF ViewInv, GoodAnswer, Started

(* An answer is received: a snapshot replaces what is shown. *)
LEMMA ReceiveView ==
  ASSUME StopInv, ViewInv, NEW r \in Of("gui"), GuiReceive(r)
  PROVE  ViewInv'
<1>1. /\ r \in requests /\ requests' = requests \ {r} /\ r.phase = "answered"
      /\ UNCHANGED services
      /\ gui' = IF r.answer.shown = NoView THEN gui
                ELSE [gui EXCEPT !.shown = r.answer.shown, !.doubt = ~ r.alone]
  BY DEF GuiReceive, Of
<1>2. Of("gui")' = Of("gui") \ {r}
  BY <1>1 DEF Of
<1>3. gui.open /\ GoodAnswer(r) /\ \A q \in requests' : GoodAnswer(q)
  BY <1>1 DEF ViewInv
<1>4. \A s : Started(s)' <=> Started(s)
  BY <1>1 DEF Started
<1>5. CASE r.answer.shown = NoView
  <2>1. gui' = gui /\ ~ IsSnapshot(r)
    BY <1>1, <1>5 DEF IsSnapshot
  <2> QED BY <1>1, <1>2, <1>3, <2>1 DEF ViewInv, GoodAnswer, Started, TrueView, Alive, IsSnapshot
<1>6. CASE r.answer.shown # NoView
  <2>1. /\ gui' \in [open : BOOLEAN, shown : View, stopArmed : BOOLEAN, doubt : BOOLEAN]
        /\ gui'.open = gui.open /\ gui'.shown = r.answer.shown /\ gui'.doubt = ~ r.alone
    BY <1>1, <1>3, <1>6 DEF ViewInv, GoodAnswer
  <2>2. r.alone => TrueView(r.answer.shown)
    BY <1>1, <1>6 DEF ViewInv, IsSnapshot
  <2>3. gui'.shown # NoView /\ ~ gui'.doubt => TrueView(gui.shown)'
    BY <1>1, <2>1, <2>2 DEF TrueView, Alive
  <2>4. \A q \in Of("gui")' : q.alone => Of("gui")' = {q}
    BY <1>2 DEF ViewInv
  <2>5. \A q \in Of("gui")' : q.alone /\ IsSnapshot(q)' => TrueView(q.answer.shown)'
    BY <1>1, <1>2 DEF ViewInv, TrueView, Alive, IsSnapshot
  <2>6. Started(gui.shown.service)'
    BY <1>3, <1>4, <2>1 DEF GoodAnswer, Started
  <2>7. \A q \in requests' : GoodAnswer(q)'
    BY <1>3, <1>4 DEF GoodAnswer
  <2> QED BY <1>3, <2>1, <2>3, <2>4, <2>5, <2>6, <2>7 DEF ViewInv
<1> QED BY <1>5, <1>6

LEMMA ViewInit == Init => ViewInv
<1> SUFFICES ASSUME Init PROVE ViewInv
  OBVIOUS
<1>1. requests = {} /\ gui = [open |-> FALSE, shown |-> NoView, stopArmed |-> FALSE, doubt |-> FALSE]
  BY DEF Init
<1>2. NoView \in View /\ NoView.service \notin Services
  BY BoundsAssumption DEF NoView, View, Services
<1> QED BY <1>1, <1>2 DEF ViewInv, Of, Started

LEMMA ViewNext == StopInv /\ ViewInv /\ [Next]_vars => ViewInv'
<1> SUFFICES ASSUME StopInv, ViewInv, [Next]_vars PROVE ViewInv'
  OBVIOUS
<1>0. /\ gui \in [open : BOOLEAN, shown : View, stopArmed : BOOLEAN, doubt : BOOLEAN]
      /\ services \in [Services -> Processes] /\ socket \in 0..MaxServices
      /\ \A r \in requests : GoodAnswer(r) /\ IsRequest(r)
      /\ NoView \in View
  BY BoundsAssumption DEF ViewInv, StopInv, GoodRequest, NoView, View
<1>1. ASSUME NEW s \in Services, Listen(s) \/ WriteToken(s) \/ Kill(s) PROVE ViewInv'
  <2>1. \A p : Started(p) => Started(p)'
    BY <1>0, <1>1 DEF Listen, WriteToken, Kill, Fresh, Started, Processes
  <2>2. \A p \in Services : Started(p) /\ Alive(p)' => Alive(p) /\ services'[p].state = services[p].state
    <3>1. \A p \in Services : p # s => services'[p] = services[p]
      BY <1>0, <1>1 DEF Listen, WriteToken, Kill
    <3> QED BY <1>0, <1>1, <3>1 DEF Listen, WriteToken, Kill, Fresh, Started, Alive, Processes
  <2>3. /\ requests' \subseteq requests /\ UNCHANGED gui
        /\ \A r \in requests : IsSnapshot(r) => r \in requests'
    BY <1>1 DEF Listen, WriteToken, Kill, IsSnapshot
  <2> QED BY <2>1, <2>2, <2>3, ServicesView
<1>2. ASSUME NEW r \in requests, Handle(r) PROVE ViewInv'
  BY <1>2, HandleView
<1>3. ASSUME NEW r \in requests, Connect(r) PROVE ViewInv'
  <2>1. CASE Alive(socket)
    <3> PICK x : x = [r EXCEPT !.phase = "connected", !.at = socket]
      OBVIOUS
    <3>1. /\ x.client = r.client /\ x.alone = r.alone /\ x.answer = r.answer
          /\ x.phase = "connected" /\ x.at = socket
      BY <1>0 DEF IsRequest, Fields
    <3>2. requests' = (requests \ {r}) \cup {x} /\ r.phase = "made" /\ UNCHANGED <<services, gui>>
      BY <1>3, <2>1 DEF Connect
    <3>3. Started(x.at)
      BY <2>1, <3>1 DEF Alive, Started
    <3> QED BY <3>1, <3>2, <3>3, MoveView
  <2>2. CASE ~ Alive(socket)
    <3>1. requests' = requests \ {r} /\ r.phase = "made" /\ UNCHANGED <<services, gui>>
      BY <1>3, <2>2 DEF Connect
    <3>2. Started(r.at)
      BY <1>0 DEF GoodAnswer
    <3> QED BY <3>1, <3>2, MoveView
  <2> QED BY <2>1, <2>2
<1>4. ASSUME NEW r \in requests, Send(r) PROVE ViewInv'
  <2> PICK x : x = [r EXCEPT !.phase = "sent"]
    OBVIOUS
  <2>1. /\ x.client = r.client /\ x.alone = r.alone /\ x.answer = r.answer
        /\ x.phase = "sent" /\ x.at = r.at
    BY <1>0 DEF IsRequest, Fields
  <2>2. requests' = (requests \ {r}) \cup {x} /\ r.phase = "connected" /\ UNCHANGED <<services, gui>>
    BY <1>4 DEF Send
  <2>3. Started(x.at)
    BY <1>0, <2>1 DEF GoodAnswer
  <2> QED BY <2>1, <2>2, <2>3, MoveView
<1>5. ASSUME NEW cmd, Operate(cmd) PROVE ViewInv'
  <2>1. UNCHANGED <<services, gui>> /\ Make("operator", cmd) /\ "operator" \in Clients
    BY <1>5 DEF Operate, Clients
  <2> QED BY <1>0, <2>1, MakeView
<1>6. CASE SoakBegin
  <2>1. UNCHANGED <<services, gui>> /\ Make("soak", "configure") /\ "soak" \in Clients
    BY <1>6 DEF SoakBegin, Clients
  <2> QED BY <1>0, <2>1, MakeView
<1>7. ASSUME NEW r \in requests, SoakReceive(r) PROVE ViewInv'
  BY <1>7, SoakView
<1>8. CASE Launch
  <2>1. UNCHANGED services /\ Make("gui", "status") /\ "gui" \in Clients
    BY <1>8 DEF Launch, Clients
  <2>2. /\ gui' \in [open : BOOLEAN, shown : View, stopArmed : BOOLEAN, doubt : BOOLEAN]
        /\ gui'.open = TRUE /\ gui'.shown = NoView
    BY <1>0, <1>8 DEF Launch
  <2> QED BY <2>1, <2>2, MakeView
<1>9. ASSUME NEW cmd, Press(cmd) PROVE ViewInv'
  <2>1. UNCHANGED services /\ Make("gui", cmd) /\ "gui" \in Clients /\ gui.open
        /\ gui' = [gui EXCEPT !.stopArmed = @ /\ cmd # "stop"]
    BY <1>9 DEF Press, Clients
  <2>2. /\ gui' \in [open : BOOLEAN, shown : View, stopArmed : BOOLEAN, doubt : BOOLEAN]
        /\ gui'.open = gui.open /\ gui'.shown = gui.shown /\ gui'.doubt = gui.doubt
    BY <1>0, <2>1
  <2> QED BY <2>1, <2>2, MakeView
<1>10. CASE CloseWindow
  BY <1>10, CloseView
<1>11. CASE ArmStop
  <2>1. gui' = [gui EXCEPT !.stopArmed = TRUE] /\ UNCHANGED <<services, requests>>
    BY <1>11 DEF ArmStop
  <2>2. /\ gui' \in [open : BOOLEAN, shown : View, stopArmed : BOOLEAN, doubt : BOOLEAN]
        /\ gui'.open = gui.open /\ gui'.shown = gui.shown /\ gui'.doubt = gui.doubt
    BY <1>0, <2>1
  <2> QED BY <2>1, <2>2 DEF ViewInv, Of, GoodAnswer, Started, TrueView, Alive, IsSnapshot
<1>12. ASSUME NEW r \in Of("gui"), GuiReceive(r) PROVE ViewInv'
  BY <1>12, ReceiveView
<1>13. CASE UNCHANGED vars
  BY <1>13 DEF vars, ViewInv, Of, GoodAnswer, Started, TrueView, Alive, IsSnapshot
<1> QED
  BY <1>1, <1>2, <1>3, <1>4, <1>5, <1>6, <1>7, <1>8, <1>9, <1>10, <1>11, <1>12, <1>13
  DEF Next, ServiceStep, GuiStep, Of

(* What the GUI shows is true once its last request is answered, if it was *)
(* alone with it and no other client has had a command executed since: for *)
(* any number of requests, services and clients, in any order.             *)
THEOREM ViewsAreTrue == Spec => []ViewIsTrue
<1>1. ViewInv => ViewIsTrue
  BY DEF ViewInv, ViewIsTrue, TrueView
<1> QED BY <1>1, StopInit, StopNext, ViewInit, ViewNext, PTL DEF Spec

===============================================================================
