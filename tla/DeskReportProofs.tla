--------------------------- MODULE DeskReportProofs ---------------------------
(***************************************************************************)
(* Theorems about Desk and what a soak run reports: the types of all that  *)
(* meets at the runtime directory, and that the report is about the take   *)
(* the run made.                                                           *)
(***************************************************************************)
EXTENDS DeskProofs, FiniteSetTheorems

(* Requests, when so many sessions are on disk. *)
Requests(sessions) ==
  [id : Nat, client : Clients, cmd : Commands, token : Services, at : 0..MaxServices,
   phase : {"made", "connected", "sent", "answered"},
   answer : [ok : BOOLEAN, shown : View, first : 0..sessions], alone : BOOLEAN]

(* The budget of each kind of client. *)
BudgetType == [gui : Nat, operator : Nat, soak : 0..1]

SoakType(sessions) ==
  [at : 0..Len(SoakProgram), token : 0..MaxServices, report : 0..sessions, mixed : BOOLEAN]

(* What TypeOK says beyond StopInv and ViewInv, and what it needs: an id   *)
(* that is free, a client for the configuration of a take, and a token for *)
(* each request of a soak run.                                             *)
TypeInv ==
  /\ IsFiniteSet(requests) /\ \A r \in requests : r \in Requests(Len(takes))
  /\ \A t \in DOMAIN takes : takes[t].config \in Clients
  /\ \A s \in Services : services[s].state = "Armed" => services[s].config \in Clients
  /\ tokenFile \in 0..MaxServices /\ budget \in BudgetType
  /\ soak \in SoakType(Len(takes))
  /\ soak.at > 0 => soak.token \in Services
  /\ Of("soak") # {} => soak.at > 0
  /\ stopsFor \subseteq Services

-------------------------------------------------------------------------------
LEMMA ServiceNumbers ==
  /\ MaxServices \in Nat /\ SoakBatches \in Nat
  /\ Services \subseteq Nat /\ Services \subseteq 0..MaxServices
  /\ \A s \in 0..MaxServices : s # 0 => s \in Services
BY BoundsAssumption DEF Services

(* run_soak: what its program is. *)
LEMMA Program ==
  /\ Len(SoakProgram) = SoakBatches + 4
  /\ SoakProgram[1] = "configure" /\ SoakProgram[2] = "start"
  /\ \A i \in 3..(SoakBatches + 2) : SoakProgram[i] = "simulate"
  /\ SoakProgram[SoakBatches + 3] = "stop" /\ SoakProgram[SoakBatches + 4] = "list"
<1> DEFINE front == <<"configure", "start">>
           batches == [i \in 1..SoakBatches |-> "simulate"]
           end == <<"stop", "list">>
<1>1. front \in Seq(Commands) /\ end \in Seq(Commands) /\ Len(front) = 2 /\ Len(end) = 2
      /\ front[1] = "configure" /\ front[2] = "start" /\ end[1] = "stop" /\ end[2] = "list"
  BY DEF Commands
<1>2. /\ batches \in Seq(Commands) /\ Len(batches) = SoakBatches
      /\ \A i \in 1..SoakBatches : batches[i] = "simulate"
  <2>1. batches \in [1..SoakBatches -> Commands]
    BY DEF Commands
  <2> QED BY <2>1, ServiceNumbers, IsASeq
<1>3. SoakProgram = (front \o batches) \o end
  BY DEF SoakProgram
<1> HIDE DEF front, batches, end
<1> DEFINE most == front \o batches
<1>4. /\ most \in Seq(Commands) /\ Len(most) = SoakBatches + 2
      /\ most[1] = "configure" /\ most[2] = "start"
      /\ \A i \in 3..(SoakBatches + 2) : most[i] = "simulate"
  <2>1. /\ most \in Seq(Commands) /\ Len(most) = Len(front) + Len(batches)
        /\ \A i \in 1..(Len(front) + Len(batches)) :
             most[i] = IF i <= Len(front) THEN front[i] ELSE batches[i - Len(front)]
    <3>1. front \in Seq(Commands) /\ batches \in Seq(Commands)
      BY <1>1, <1>2
    <3> HIDE DEF most
    <3> QED BY ONLY <3>1, ConcatProperties DEF most
  <2>2. \A i \in 1..(2 + SoakBatches) : most[i] = IF i <= 2 THEN front[i] ELSE batches[i - 2]
    BY <1>1, <1>2, <2>1
  <2>3. ASSUME NEW i \in 3..(SoakBatches + 2) PROVE most[i] = "simulate"
    <3>1. i \in 1..(2 + SoakBatches) /\ ~ (i <= 2) /\ i - 2 \in 1..SoakBatches
      BY ServiceNumbers
    <3> QED BY <1>2, <2>2, <3>1
  <2>4. 1 \in 1..(2 + SoakBatches) /\ 2 \in 1..(2 + SoakBatches)
    BY ServiceNumbers
  <2> HIDE DEF most
  <2>5. most[1] = front[1] /\ most[2] = front[2]
    BY <2>2, <2>4
  <2> QED BY <1>1, <1>2, <2>1, <2>3, <2>5, ServiceNumbers
<1> HIDE DEF most
<1>5. /\ Len(SoakProgram) = Len(most) + Len(end)
      /\ \A i \in 1..(Len(most) + Len(end)) :
           SoakProgram[i] = IF i <= Len(most) THEN most[i] ELSE end[i - Len(most)]
  BY <1>1, <1>3, <1>4, ConcatProperties DEF most
<1> HIDE DEF SoakProgram
<1>6. \A i \in 1..(SoakBatches + 4) :
        SoakProgram[i] = IF i <= SoakBatches + 2 THEN most[i] ELSE end[i - (SoakBatches + 2)]
  BY <1>1, <1>4, <1>5, ServiceNumbers
<1>7. \A i \in 1..(SoakBatches + 2) : SoakProgram[i] = most[i]
  BY <1>6, ServiceNumbers
<1>8. SoakProgram[SoakBatches + 3] = end[1] /\ SoakProgram[SoakBatches + 4] = end[2]
  <2>1. \A n \in Nat : /\ n + 3 \in 1..(n + 4) /\ n + 4 \in 1..(n + 4)
                       /\ ~ (n + 3 <= n + 2) /\ ~ (n + 4 <= n + 2)
                       /\ (n + 3) - (n + 2) = 1 /\ (n + 4) - (n + 2) = 2
    OBVIOUS
  <2> QED BY <1>6, <2>1, ServiceNumbers
<1>9. 1 \in 1..(SoakBatches + 2) /\ 2 \in 1..(SoakBatches + 2)
      /\ \A i \in 3..(SoakBatches + 2) : i \in 1..(SoakBatches + 2)
  BY ServiceNumbers
<1>10. Len(SoakProgram) = SoakBatches + 4
  BY <1>1, <1>4, <1>5, ServiceNumbers
<1> QED BY <1>1, <1>4, <1>7, <1>8, <1>9, <1>10

LEMMA ProgramCommands ==
  ASSUME NEW i \in 1..Len(SoakProgram)
  PROVE  /\ SoakProgram[i] \in Commands
         /\ SoakProgram[i] = "configure" <=> i = 1
         /\ SoakProgram[i] = "start" <=> i = 2
         /\ SoakProgram[i] = "simulate" <=> i \in 3..(SoakBatches + 2)
         /\ SoakProgram[i] = "stop" <=> i = SoakBatches + 3
         /\ SoakProgram[i] = "list" <=> i = SoakBatches + 4
<1>1. \/ i = 1 \/ i = 2 \/ i \in 3..(SoakBatches + 2)
      \/ i = SoakBatches + 3 \/ i = SoakBatches + 4
  BY Program, ServiceNumbers
<1>2. CASE i = 1
  BY <1>2, Program, ServiceNumbers DEF Commands
<1>3. CASE i = 2
  BY <1>3, Program, ServiceNumbers DEF Commands
<1>4. CASE i \in 3..(SoakBatches + 2)
  BY <1>4, Program, ServiceNumbers DEF Commands
<1>5. CASE i = SoakBatches + 3
  BY <1>5, Program, ServiceNumbers DEF Commands
<1>6. CASE i = SoakBatches + 4
  BY <1>6, Program, ServiceNumbers DEF Commands
<1> QED BY <1>1, <1>2, <1>3, <1>4, <1>5, <1>6

-------------------------------------------------------------------------------
(* A set has an id that is free when there are as many as requests and one. *)
LEMMA FreeId ==
  ASSUME IsFiniteSet(requests)
  PROVE  \E i \in 0..Cardinality(requests) : \A q \in requests : q.id # i
<1> DEFINE n == Cardinality(requests)
           owner == [i \in 0..n |-> CHOOSE q \in requests : q.id = i]
<1>1. n \in Nat
  BY FS_CardinalityType
<1> SUFFICES ASSUME \A i \in 0..n : \E q \in requests : q.id = i PROVE FALSE
  OBVIOUS
<1>2. \A i \in 0..n : owner[i] \in requests /\ owner[i].id = i
  OBVIOUS
<1>3. owner \in [0..n -> requests]
  BY <1>2
<1> DEFINE ids == 0..n
<1>4. IsFiniteSet(ids) /\ Cardinality(requests) < Cardinality(ids)
  <2>1. IsFiniteSet(ids) /\ Cardinality(ids) = n + 1
    BY <1>1, FS_Interval
  <2> QED BY <1>1, <2>1
<1>5. owner \in [ids -> requests] /\ \A i \in ids : owner[i].id = i
  BY <1>2, <1>3
<1> HIDE DEF owner, ids, n
<1>6. \E x, y \in ids : x # y /\ owner[x] = owner[y]
  BY ONLY IsFiniteSet(requests), <1>4, <1>5, FS_PigeonHole
<1> QED BY <1>5, <1>6

(* What one makes of each member of a finite set is finite. *)
LEMMA FiniteImage ==
  ASSUME NEW S, IsFiniteSet(S), NEW f, NEW T, T = {f[x] : x \in S}
  PROVE  IsFiniteSet(T)
<1> DEFINE g == [x \in S |-> f[x]]
<1>1. g \in [S -> T] /\ \A y \in T : \E x \in S : g[x] = y
  <2>1. (\A x \in S : f[x] \in T) /\ \A y \in T : \E x \in S : f[x] = y
    OBVIOUS
  <2>2. \A x \in S : g[x] = f[x]
    OBVIOUS
  <2>3. g \in [S -> T]
    BY ONLY <2>1
  <2> HIDE DEF g
  <2> QED BY ONLY <2>1, <2>2, <2>3
<1> HIDE DEF g
<1>2. g \in Surjection(S, T)
  BY <1>1 DEF Surjection
<1> QED BY <1>2, FS_Surjection

LEMMA MadeType ==
  ASSUME TypeInv, NEW client \in Clients, NEW cmd \in Commands, NEW token \in Services,
         NEW n \in Nat
  PROVE  Request(client, cmd, token) \in Requests(n)
<1> DEFINE id == CHOOSE i \in 0..Cardinality(requests) : \A q \in requests : q.id # i
           alone == client = "gui" /\ Of(client) = {}
<1>1. id \in Nat
  <2>1. id \in 0..Cardinality(requests)
    BY FreeId DEF TypeInv
  <2> HIDE DEF id
  <2> QED BY <2>1, FS_CardinalityType DEF TypeInv
<1>2. NoAnswer \in [ok : BOOLEAN, shown : View, first : 0..n] /\ 0 \in 0..MaxServices
  BY ServiceNumbers DEF NoAnswer, NoView, View
<1>3. alone \in BOOLEAN
  OBVIOUS
<1>4. Request(client, cmd, token) =
        [id |-> id, client |-> client, cmd |-> cmd, token |-> token, at |-> 0,
         phase |-> "made", answer |-> NoAnswer, alone |-> alone]
  BY DEF Request
<1> HIDE DEF id, alone
<1> QED BY <1>1, <1>2, <1>3, <1>4 DEF Requests

(* Requests that go on are requests. *)
LEMMA ChangedType ==
  ASSUME NEW n \in Nat, NEW r \in Requests(n)
  PROVE  /\ \A b \in BOOLEAN : [r EXCEPT !.alone = b] \in Requests(n)
         /\ \A s \in Services : [r EXCEPT !.phase = "connected", !.at = s] \in Requests(n)
         /\ [r EXCEPT !.phase = "sent"] \in Requests(n)
         /\ [r EXCEPT !.client = "closed", !.alone = FALSE] \in Requests(n)
         /\ \A i \in Nat : [r EXCEPT !.id = i] \in Requests(n)
         /\ \A a \in [ok : BOOLEAN, shown : View, first : 0..n] :
              [r EXCEPT !.phase = "answered", !.answer = a] \in Requests(n)
<1>1. ASSUME NEW b \in BOOLEAN PROVE [r EXCEPT !.alone = b] \in Requests(n)
  BY DEF Requests
<1>2. ASSUME NEW s \in Services PROVE [r EXCEPT !.phase = "connected", !.at = s] \in Requests(n)
  BY ServiceNumbers DEF Requests
<1>3. [r EXCEPT !.phase = "sent"] \in Requests(n)
  BY DEF Requests
<1>4. [r EXCEPT !.client = "closed", !.alone = FALSE] \in Requests(n)
  BY DEF Requests, Clients
<1>5. ASSUME NEW i \in Nat PROVE [r EXCEPT !.id = i] \in Requests(n)
  BY DEF Requests
<1>6. ASSUME NEW a \in [ok : BOOLEAN, shown : View, first : 0..n]
      PROVE  [r EXCEPT !.phase = "answered", !.answer = a] \in Requests(n)
  BY DEF Requests
<1> QED BY <1>1, <1>2, <1>3, <1>4, <1>5, <1>6

LEMMA MoreSessions ==
  ASSUME NEW n \in Nat, NEW m \in Nat, n <= m
  PROVE  Requests(n) \subseteq Requests(m)
<1>1. 0..n \subseteq 0..m
  OBVIOUS
<1> HIDE DEF View
<1> QED BY <1>1 DEF Requests

(* Fields of a request. *)
LEMMA RequestFields ==
  ASSUME NEW n, NEW r \in Requests(n)
  PROVE  /\ r.id \in Nat /\ r.client \in Clients /\ r.cmd \in Commands /\ r.token \in Services
         /\ r.at \in 0..MaxServices /\ r.phase \in {"made", "connected", "sent", "answered"}
         /\ r.answer.ok \in BOOLEAN /\ r.answer.shown \in View /\ r.answer.first \in 0..n
         /\ r.alone \in BOOLEAN
BY DEF Requests

-------------------------------------------------------------------------------
LEMMA MakeTypes ==
  ASSUME TypeInv, NEW n \in Nat, n = Len(takes),
         NEW client \in {"gui", "operator", "soak"}, NEW cmd \in Commands, Make(client, cmd)
  PROVE  /\ IsFiniteSet(requests') /\ \A r \in requests' : r \in Requests(n)
         /\ budget' \in BudgetType /\ stopsFor' \subseteq Services /\ tokenFile \in Services
<1> DEFINE rest == [q \in requests |-> [q EXCEPT !.alone = @ /\ q.client # client]]
           new == Request(client, cmd, tokenFile)
<1>1. /\ IsFiniteSet(requests) /\ \A q \in requests : q \in Requests(n)
      /\ tokenFile \in 0..MaxServices /\ budget \in BudgetType /\ stopsFor \subseteq Services
  BY DEF TypeInv
<1>2. tokenFile \in Services
  BY <1>1, ServiceNumbers DEF Make
<1>3. new \in Requests(n)
  BY <1>2, MadeType DEF Clients
<1>4. requests' = {rest[q] : q \in requests} \cup {new}
  BY DEF Make
<1>5. \A q \in requests : rest[q] \in Requests(n)
  <2>1. ASSUME NEW q \in requests PROVE rest[q] \in Requests(n)
    <3>1. q \in Requests(n) /\ q.alone \in BOOLEAN
      BY <1>1, RequestFields
    <3> DEFINE b == q.alone /\ q.client # client
    <3>2. rest[q] = [q EXCEPT !.alone = b] /\ b \in BOOLEAN
      BY <3>1
    <3>3. \A x \in BOOLEAN : [q EXCEPT !.alone = x] \in Requests(n)
      BY ONLY <3>1, n \in Nat, ChangedType
    <3> HIDE DEF b, rest
    <3> QED BY ONLY <3>2, <3>3
  <2> QED BY <2>1
<1> HIDE DEF rest, new
<1>6. IsFiniteSet(requests')
  <2> DEFINE others == {rest[q] : q \in requests}
  <2>1. IsFiniteSet(others)
    BY <1>1, FiniteImage
  <2> HIDE DEF others
  <2>2. requests' = others \cup {new}
    BY <1>4 DEF others
  <2> QED BY <2>1, <2>2, FS_AddElement
<1>7. \A r \in requests' : r \in Requests(n)
  BY <1>3, <1>4, <1>5
<1>8. budget' \in BudgetType
  <2>1. budget[client] > 0 /\ budget' = [budget EXCEPT ![client] = budget[client] - 1]
    BY DEF Make
  <2>2. CASE client = "soak"
    <3>1. budget.soak - 1 \in 0..1
      BY <1>1, <2>1, <2>2 DEF BudgetType
    <3> QED BY <1>1, <2>1, <2>2, <3>1 DEF BudgetType
  <2>3. CASE client \in {"gui", "operator"}
    <3>1. budget[client] - 1 \in Nat
      BY <1>1, <2>1, <2>3 DEF BudgetType
    <3> QED BY <1>1, <2>1, <2>3, <3>1 DEF BudgetType
  <2> QED BY <2>2, <2>3
<1>9. stopsFor' \subseteq Services
  BY <1>1, <1>2 DEF Make, MeantStops
<1> QED BY <1>2, <1>6, <1>7, <1>8, <1>9

(* What a reply leaves of the requests and of the soak run. *)
LEMMA ReplyTypes ==
  ASSUME TypeInv, NEW n \in Nat, n = Len(takes), NEW m \in Nat, n <= m,
         NEW r \in requests, NEW ok \in BOOLEAN, Reply(r, ok), r.at \in Services,
         services' \in [Services -> Processes]
  PROVE  /\ IsFiniteSet(requests') /\ \A q \in requests' : q \in Requests(m)
         /\ soak' \in SoakType(m)
         /\ soak'.at = soak.at /\ soak'.token = soak.token /\ soak'.report = soak.report
<1> DEFINE rest == [q \in requests |-> [q EXCEPT !.alone = @ /\ (r.client = "gui" \/ q.phase # "answered")]]
           new == [r EXCEPT !.phase = "answered", !.answer = AnswerTo(r, ok)]
<1>1. /\ IsFiniteSet(requests) /\ soak \in SoakType(n)
      /\ \A q \in requests : q \in Requests(n)
  BY DEF TypeInv
<1>2. AnswerTo(r, ok) \in [ok : BOOLEAN, shown : View, first : 0..n]
  <2>1. services'[r.at].state \in {"Idle", "Armed", "Recording", "Paused", "Completed"}
    BY DEF Processes
  <2>2. [service |-> r.at, state |-> services'[r.at].state] \in View /\ NoView \in View
    <3>1. r.at \in 0..MaxServices /\ 0 \in 0..MaxServices
      <4>1. r.at \in 0..MaxServices
        BY ServiceNumbers
      <4>2. MaxServices \in Nat
        BY ServiceNumbers
      <4> QED BY ONLY <4>1, <4>2
    <3>2. NoView \in View
      BY ONLY <3>1 DEF View, NoView
    <3>3. \A s \in 0..MaxServices :
            \A st \in {"Idle", "Armed", "Recording", "Paused", "Completed"} :
              [service |-> s, state |-> st] \in View
      BY ONLY TRUE DEF View
    <3> QED BY ONLY <2>1, <3>1, <3>2, <3>3
  <2>3. (IF ok /\ r.cmd # "list" THEN [service |-> r.at, state |-> services'[r.at].state] ELSE NoView) \in View
    BY <2>2
  <2>4. (IF ok /\ r.cmd = "list" THEN First(takes) ELSE 0) \in 0..n
    BY DEF First
  <2> QED BY ONLY <2>3, <2>4, ok \in BOOLEAN DEF AnswerTo, SnapshotState
<1>3. new \in Requests(n)
  BY <1>1, <1>2, ChangedType
<1>4. \A q \in requests : rest[q] \in Requests(n)
  <2>1. ASSUME NEW q \in requests PROVE rest[q] \in Requests(n)
    <3>1. q \in Requests(n) /\ q.alone \in BOOLEAN
      BY <1>1, RequestFields
    <3> DEFINE b == q.alone /\ (r.client = "gui" \/ q.phase # "answered")
    <3>2. rest[q] = [q EXCEPT !.alone = b] /\ b \in BOOLEAN
      BY <3>1
    <3>3. \A x \in BOOLEAN : [q EXCEPT !.alone = x] \in Requests(n)
      BY ONLY <3>1, n \in Nat, ChangedType
    <3> HIDE DEF b, rest
    <3> QED BY ONLY <3>2, <3>3
  <2> QED BY <2>1
<1>5. requests' = {rest[q] : q \in requests \ {r}} \cup IF r.client \in {"gui", "soak"} THEN {new} ELSE {}
  BY DEF Reply
<1> HIDE DEF rest, new
<1> DEFINE others == {rest[q] : q \in requests \ {r}}
<1>6. IsFiniteSet(others)
  <2>1. IsFiniteSet(requests \ {r})
    BY <1>1, FS_RemoveElement
  <2> QED BY <2>1, FiniteImage
<1>7. requests' = others \/ requests' = others \cup {new}
  BY <1>5
<1>8. \A q \in others : q \in Requests(n)
  BY <1>4
<1> HIDE DEF others
<1>9. IsFiniteSet(requests')
  BY ONLY <1>6, <1>7, FS_AddElement
<1>10. \A q \in requests' : q \in Requests(m)
  BY ONLY <1>3, <1>7, <1>8, MoreSessions, n \in Nat, m \in Nat, n <= m
<1>11. /\ soak' \in SoakType(m)
       /\ soak'.at = soak.at /\ soak'.token = soak.token /\ soak'.report = soak.report
  <2> DEFINE mixed == IF r.client = "soak" THEN soak.mixed /\ r.cmd # "configure"
                      ELSE soak.mixed \/ (soak.at > 0 /\ r.cmd \in {"configure", "start", "simulate"})
  <2>1. soak' = [soak EXCEPT !.mixed = mixed]
    BY DEF Reply
  <2>2. mixed \in BOOLEAN
    BY <1>1 DEF SoakType
  <2>3. soak \in SoakType(m)
    <3>1. 0..n \subseteq 0..m
      OBVIOUS
    <3> QED BY <1>1, <3>1 DEF SoakType
  <2> HIDE DEF mixed
  <2> QED BY <2>1, <2>2, <2>3 DEF SoakType
<1> QED BY <1>9, <1>10, <1>11

-------------------------------------------------------------------------------
(* What the commands do, field by field. *)
Becomes(s, state, config, take) ==
  /\ services'[s].phase = services[s].phase /\ services'[s].state = state
  /\ services'[s].config = config /\ services'[s].take = take
  /\ \A p \in Services : p # s => services'[p] = services[p]

TakeBecomes(t, frames, complete) ==
  /\ Len(takes') = Len(takes) /\ t \in 1..Len(takes)
  /\ takes'[t].by = takes[t].by /\ takes'[t].config = takes[t].config
  /\ takes'[t].frames = frames /\ takes'[t].complete = complete
  /\ \A i \in 1..Len(takes) : i # t => takes'[i] = takes[i]

LEMMA ConfigureDoes ==
  ASSUME services \in [Services -> Processes], NEW r, NEW s \in Services, Configure(r, s)
  PROVE  Becomes(s, "Armed", r.client, services[s].take) /\ takes' = takes
<1> DEFINE p == [services[s] EXCEPT !.state = "Armed", !.config = r.client]
<1>1. services' = [services EXCEPT ![s] = p] /\ takes' = takes
  BY DEF Configure
<1>2. /\ p.phase = services[s].phase /\ p.state = "Armed"
      /\ p.config = r.client /\ p.take = services[s].take
  BY DEF Processes
<1> HIDE DEF p
<1> QED BY <1>1, <1>2 DEF Becomes

LEMMA StartDoes ==
  ASSUME services \in [Services -> Processes], takes \in Seq(Sessions),
         NEW r, NEW s \in Services, Start(r, s)
  PROVE  /\ Becomes(s, "Recording", services[s].config, Len(takes) + 1)
         /\ Len(takes) \in Nat /\ Len(takes') = Len(takes) + 1
         /\ \A i \in 1..Len(takes) : takes'[i] = takes[i]
         /\ takes'[Len(takes) + 1].by = s /\ takes'[Len(takes) + 1].config = services[s].config
         /\ takes'[Len(takes) + 1].frames = 0 /\ takes'[Len(takes) + 1].complete = FALSE
<1> DEFINE p == [services[s] EXCEPT !.state = "Recording", !.take = Len(takes) + 1]
           new == [by |-> s, config |-> services[s].config, frames |-> 0, complete |-> FALSE]
<1>1. takes' = Append(takes, new)
  BY DEF Start
<1>2. new \in Sessions
  BY DEF Sessions, Processes
<1>3. new.by = s /\ new.config = services[s].config /\ new.frames = 0 /\ new.complete = FALSE
  OBVIOUS
<1> HIDE DEF new
<1>4. /\ Len(takes) \in Nat /\ Len(takes') = Len(takes) + 1
      /\ takes'[Len(takes) + 1] = new
      /\ \A i \in 1..Len(takes) : takes'[i] = takes[i]
  BY <1>1, <1>2
<1>5. services' = [services EXCEPT ![s] = p]
  BY <1>4 DEF Start
<1>6. /\ p.phase = services[s].phase /\ p.state = "Recording"
      /\ p.config = services[s].config /\ p.take = Len(takes) + 1
  BY DEF Processes
<1> HIDE DEF p
<1>7. Becomes(s, "Recording", services[s].config, Len(takes) + 1)
  BY <1>5, <1>6 DEF Becomes
<1> QED BY <1>3, <1>4, <1>7

LEMMA SwitchDoes ==
  ASSUME services \in [Services -> Processes], NEW r, NEW s \in Services, Switch(r, s)
  PROVE  /\ services[s].state \in {"Recording", "Paused"} /\ takes' = takes
         /\ \E st \in {"Recording", "Paused"} : Becomes(s, st, services[s].config, services[s].take)
<1> DEFINE st == IF r.cmd = "pause" THEN "Paused" ELSE "Recording"
           p == [services[s] EXCEPT !.state = st]
<1>1. /\ services' = [services EXCEPT ![s] = p] /\ takes' = takes
      /\ services[s].state \in {"Recording", "Paused"} /\ st \in {"Recording", "Paused"}
  BY DEF Switch
<1> HIDE DEF st
<1>2. /\ p.phase = services[s].phase /\ p.state = st
      /\ p.config = services[s].config /\ p.take = services[s].take
  BY DEF Processes
<1> HIDE DEF p
<1>3. Becomes(s, st, services[s].config, services[s].take)
  BY <1>1, <1>2 DEF Becomes
<1> QED BY <1>1, <1>3

LEMMA SimulateDoes ==
  ASSUME StopInv, NEW r, NEW s \in Services, Simulate(r, s)
  PROVE  /\ services' = services /\ services[s].take # 0 /\ services[s].state = "Recording"
         /\ TakeBecomes(services[s].take, takes[services[s].take].frames + 1,
                        takes[services[s].take].complete)
<1> DEFINE t == services[s].take
           x == [takes[t] EXCEPT !.frames = @ + 1]
<1>1. /\ takes \in Seq(Sessions) /\ services' = services /\ t # 0
      /\ services[s].state = "Recording" /\ takes' = [takes EXCEPT ![t] = x]
  BY DEF Simulate, StopInv
<1>2. t \in 1..Len(takes) /\ takes[t] \in Sessions
  BY <1>1 DEF StopInv, OwnTake
<1>3. /\ x \in Sessions
      /\ x.by = takes[t].by /\ x.config = takes[t].config /\ x.frames = takes[t].frames + 1
      /\ x.complete = takes[t].complete
  BY <1>2 DEF Sessions
<1> HIDE DEF x, t
<1>4. Len(takes') = Len(takes) /\ takes'[t] = x /\ \A i \in 1..Len(takes) : i # t => takes'[i] = takes[i]
  BY <1>1, <1>2, <1>3
<1>5. TakeBecomes(t, takes[t].frames + 1, takes[t].complete)
  BY <1>2, <1>3, <1>4 DEF TakeBecomes
<1> QED BY <1>1, <1>5 DEF t

LEMMA StopDoes ==
  ASSUME StopInv, NEW r, NEW s \in Services, Stop(r, s)
  PROVE  /\ services[s].take # 0
         /\ Becomes(s, "Completed", services[s].config, 0)
         /\ TakeBecomes(services[s].take, takes[services[s].take].frames, TRUE)
<1> DEFINE t == services[s].take
           x == [takes[t] EXCEPT !.complete = TRUE]
           p == [services[s] EXCEPT !.state = "Completed", !.take = 0]
<1>1. /\ takes \in Seq(Sessions) /\ services \in [Services -> Processes] /\ t # 0
      /\ services' = [services EXCEPT ![s] = p] /\ takes' = [takes EXCEPT ![t] = x]
  BY DEF Stop, StopInv
<1>2. t \in 1..Len(takes) /\ takes[t] \in Sessions
  BY <1>1 DEF StopInv, OwnTake
<1>3. /\ x \in Sessions
      /\ x.by = takes[t].by /\ x.config = takes[t].config /\ x.frames = takes[t].frames
      /\ x.complete = TRUE
  BY <1>2 DEF Sessions
<1>4. /\ p.phase = services[s].phase /\ p.state = "Completed"
      /\ p.config = services[s].config /\ p.take = 0
  BY <1>1 DEF Processes
<1> HIDE DEF p
<1>5. Becomes(s, "Completed", services[s].config, 0)
  BY <1>1, <1>4 DEF Becomes
<1> HIDE DEF x, t
<1>6. Len(takes') = Len(takes) /\ takes'[t] = x /\ \A i \in 1..Len(takes) : i # t => takes'[i] = takes[i]
  BY <1>1, <1>2, <1>3
<1>7. TakeBecomes(t, takes[t].frames, TRUE)
  BY <1>2, <1>3, <1>6 DEF TakeBecomes
<1> QED BY <1>1, <1>5, <1>7 DEF t

-------------------------------------------------------------------------------
(* A take has the configuration of the client that armed the service.      *)
LEMMA ExecuteTypes ==
  ASSUME StopInv, TypeInv, NEW r \in requests, r.at \in Services,
         \/ Look(r, r.at) \/ Configure(r, r.at) \/ Start(r, r.at)
         \/ Switch(r, r.at) \/ Simulate(r, r.at) \/ Stop(r, r.at)
  PROVE  /\ Len(takes) <= Len(takes')
         /\ \A t \in 1..Len(takes') : takes'[t].config \in Clients
         /\ \A s \in Services : services'[s].state = "Armed" => services'[s].config \in Clients
<1> DEFINE Armed(s) == services[s].state = "Armed" => services[s].config \in Clients
<1>1. /\ services \in [Services -> Processes] /\ takes \in Seq(Sessions) /\ Len(takes) \in Nat
      /\ \A t \in 1..Len(takes) : takes[t].config \in Clients
      /\ \A s \in Services : Armed(s)
      /\ r.client \in Clients
  BY RequestFields DEF StopInv, TypeInv
<1> DEFINE s == r.at
<1>2. CASE Look(r, s)
  BY <1>1, <1>2 DEF Look
<1>3. CASE Configure(r, s)
  <2>1. Becomes(s, "Armed", r.client, services[s].take) /\ takes' = takes
    BY <1>1, <1>3, ConfigureDoes
  <2> QED BY ONLY <1>1, <2>1, r.at \in Services DEF Becomes
<1>4. CASE Start(r, s)
  <2>1. /\ Becomes(s, "Recording", services[s].config, Len(takes) + 1)
        /\ Len(takes') = Len(takes) + 1
        /\ \A i \in 1..Len(takes) : takes'[i] = takes[i]
        /\ takes'[Len(takes) + 1].config = services[s].config
    BY <1>1, <1>4, StartDoes
  <2>2. services[s].config \in Clients
    BY <1>1, <1>4 DEF Start
  <2>3. \A t \in 1..Len(takes') : takes'[t].config \in Clients
    <3>1. \A t \in 1..Len(takes') : t \in 1..Len(takes) \/ t = Len(takes) + 1
      BY <1>1, <2>1
    <3> QED BY ONLY <1>1, <2>1, <2>2, <3>1
  <2> QED BY ONLY <1>1, <2>1, <2>3, r.at \in Services DEF Becomes
<1>5. CASE Switch(r, s)
  <2>1. /\ takes' = takes
        /\ \E st \in {"Recording", "Paused"} : Becomes(s, st, services[s].config, services[s].take)
    BY <1>1, <1>5, SwitchDoes
  <2> QED BY ONLY <1>1, <2>1, r.at \in Services DEF Becomes
<1>6. CASE Simulate(r, s)
  <2> PICK t, frames, complete : services' = services /\ TakeBecomes(t, frames, complete)
    BY <1>6, SimulateDoes
  <2>1. \A i \in 1..Len(takes') : takes'[i].config \in Clients
    BY <1>1 DEF TakeBecomes
  <2> QED BY ONLY <1>1, <2>1, services' = services, TakeBecomes(t, frames, complete) DEF TakeBecomes
<1>7. CASE Stop(r, s)
  <2> PICK t, frames, complete :
         TakeBecomes(t, frames, complete) /\ Becomes(s, "Completed", services[s].config, 0)
    BY <1>7, StopDoes
  <2>1. \A i \in 1..Len(takes') : takes'[i].config \in Clients
    BY <1>1 DEF TakeBecomes
  <2> QED BY ONLY <1>1, <2>1, r.at \in Services, TakeBecomes(t, frames, complete),
                  Becomes(s, "Completed", services[s].config, 0) DEF TakeBecomes, Becomes
<1> QED BY <1>2, <1>3, <1>4, <1>5, <1>6, <1>7

LEMMA HandleTypes ==
  ASSUME StopInv, StopInv', TypeInv, NEW r \in requests, Handle(r)
  PROVE  TypeInv'
<1>1. /\ r.at \in Services /\ UNCHANGED <<tokenFile, budget, stopsFor>>
      /\ services' \in [Services -> Processes] /\ takes \in Seq(Sessions) /\ takes' \in Seq(Sessions)
      /\ r.client \in Clients
  BY RequestFields DEF StopInv, Handle, FrameRead, GoodRequest
<1>2. PICK ok \in BOOLEAN : Reply(r, ok)
  BY DEF Handle
<1>3. /\ Len(takes) <= Len(takes')
      /\ \A t \in 1..Len(takes') : takes'[t].config \in Clients
      /\ \A s \in Services : services'[s].state = "Armed" => services'[s].config \in Clients
  <2>1. CASE UNCHANGED <<services, takes>>
    BY <1>1, <2>1 DEF TypeInv
  <2>2. CASE \/ Look(r, r.at) \/ Configure(r, r.at) \/ Start(r, r.at)
             \/ Switch(r, r.at) \/ Simulate(r, r.at) \/ Stop(r, r.at)
    BY <1>1, <2>2, ExecuteTypes
  <2> QED BY <2>1, <2>2 DEF Handle
<1>4. Len(takes) \in Nat /\ Len(takes') \in Nat /\ DOMAIN takes' = 1..Len(takes')
  BY <1>1
<1>5. /\ IsFiniteSet(requests') /\ \A q \in requests' : q \in Requests(Len(takes'))
      /\ soak' \in SoakType(Len(takes'))
      /\ soak'.at = soak.at /\ soak'.token = soak.token /\ soak'.report = soak.report
  BY <1>1, <1>2, <1>3, <1>4, ReplyTypes
<1>6. Of("soak")' # {} => Of("soak") # {}
  <2> DEFINE rest(q) == [q EXCEPT !.alone = @ /\ (r.client = "gui" \/ q.phase # "answered")]
             new == [r EXCEPT !.phase = "answered", !.answer = AnswerTo(r, ok)]
  <2>1. \A q \in requests : rest(q).client = q.client
    BY AloneChanges DEF StopInv, GoodRequest
  <2>2. new.client = r.client
    BY DEF StopInv, GoodRequest, IsRequest, Fields
  <2>3. \A q \in requests' : q = new \/ \E p \in requests : q = rest(p)
    BY <1>2 DEF Reply
  <2> HIDE DEF rest, new
  <2> QED BY <2>1, <2>2, <2>3 DEF Of
<1> QED BY <1>1, <1>3, <1>4, <1>5, <1>6 DEF TypeInv

(* Steps that leave the sessions, and arm no service. *)
LEMMA TypesKept ==
  ASSUME TypeInv, takes' = takes,
         IsFiniteSet(requests'), \A r \in requests' : r \in Requests(Len(takes)),
         \A s \in Services : services'[s].state = "Armed" =>
           services[s].state = "Armed" /\ services'[s].config = services[s].config,
         tokenFile' \in 0..MaxServices, budget' \in BudgetType, stopsFor' \subseteq Services,
         soak' \in SoakType(Len(takes)), soak'.at > 0 => soak'.token \in Services,
         Of("soak")' # {} => soak'.at > 0
  PROVE  TypeInv'
BY DEF TypeInv

LEMMA ArmedKept ==
  ASSUME StopInv, NEW s \in Services, Listen(s) \/ WriteToken(s) \/ Kill(s)
  PROVE  \A p \in Services :
           services'[p].state = "Armed" =>
             services[p].state = "Armed" /\ services'[p].config = services[p].config
<1>1. services \in [Services -> Processes]
  BY DEF StopInv
<1>2. CASE Listen(s) \/ WriteToken(s)
  BY <1>1, <1>2 DEF Listen, WriteToken, Processes
<1>3. CASE Kill(s)
  BY <1>1, <1>3 DEF Kill, Fresh
<1> QED BY <1>2, <1>3

LEMMA TypeInit == Init => TypeInv
<1> SUFFICES ASSUME Init PROVE TypeInv
  OBVIOUS
<1>1. requests = {} /\ takes = <<>> /\ tokenFile = 0 /\ stopsFor = {} /\ budget \in Budgets
      /\ soak = [at |-> 0, token |-> 0, report |-> 0, mixed |-> FALSE]
      /\ \A s \in Services : services[s].state = "Idle"
  BY DEF Init, Fresh
<1>2. budget \in BudgetType
  BY <1>1, BoundsAssumption DEF BudgetType
<1>3. 0 \in 0..MaxServices /\ 0 \in 0..Len(SoakProgram) /\ 0 \in 0..Len(takes) /\ DOMAIN takes = {}
  BY <1>1, ServiceNumbers, Program
<1>4. soak \in SoakType(Len(takes))
  BY <1>1, <1>3 DEF SoakType
<1> QED BY <1>1, <1>2, <1>3, <1>4, FS_EmptySet DEF TypeInv, Of

(* A soak run goes on, or is over. *)
LEMMA SoakTypes ==
  ASSUME StopInv, TypeInv, NEW r \in requests, SoakReceive(r)
  PROVE  TypeInv'
<1> DEFINE n == Len(takes)
<1>1. /\ IsFiniteSet(requests) /\ \A q \in requests : q \in Requests(n)
      /\ tokenFile \in 0..MaxServices /\ budget \in BudgetType /\ stopsFor \subseteq Services
      /\ soak \in SoakType(n) /\ soak.at > 0 /\ soak.token \in Services
      /\ n \in Nat /\ r.id \in Nat
  <2>1. r \in Of("soak")
    BY DEF SoakReceive, Of
  <2>2. n \in Nat
    BY DEF StopInv
  <2> QED BY <2>1, <2>2, RequestFields DEF TypeInv
<1>2. UNCHANGED <<services, socket, tokenFile, takes, budget, gui>>
  BY DEF SoakReceive
<1>3. CASE SoakGoesOn(r) /\ soak.at < Len(SoakProgram)
  <2> DEFINE cmd == SoakProgram[soak.at + 1]
             new == [Request("soak", cmd, soak.token) EXCEPT !.id = r.id]
  <2>1. /\ soak' = [soak EXCEPT !.at = soak.at + 1]
        /\ requests' = (requests \ {r}) \cup {new} /\ stopsFor' = MeantStops(cmd, soak.token)
    BY <1>3 DEF SoakReceive
  <2>2. soak.at + 1 \in 1..Len(SoakProgram)
    BY <1>1, <1>3, Program, ServiceNumbers DEF SoakType
  <2>3. cmd \in Commands
    BY <2>2, ProgramCommands
  <2> HIDE DEF cmd
  <2>4. Request("soak", cmd, soak.token) \in Requests(n)
    BY <1>1, <2>3, MadeType DEF Clients
  <2>5. new \in Requests(n)
    BY <1>1, <2>4, ChangedType
  <2> HIDE DEF new, n
  <2>6. IsFiniteSet(requests') /\ \A q \in requests' : q \in Requests(n)
    <3>1. IsFiniteSet(requests \ {r})
      BY <1>1, FS_RemoveElement
    <3> QED BY <1>1, <2>1, <2>5, <3>1, FS_AddElement
  <2>7. soak' \in SoakType(n) /\ soak'.at = soak.at + 1 /\ soak'.token = soak.token
    BY <1>1, <2>1, <2>2 DEF SoakType
  <2>8. stopsFor' \subseteq Services
    BY <1>1, <2>1 DEF MeantStops
  <2>9. soak'.at > 0
    BY <1>1, <2>7 DEF SoakType
  <2> QED BY <1>1, <1>2, <2>6, <2>7, <2>8, <2>9, TypesKept DEF n
<1>4. CASE ~ (SoakGoesOn(r) /\ soak.at < Len(SoakProgram))
  <2>1. /\ soak' = [soak EXCEPT !.report = r.answer.first]
        /\ requests' = requests \ {r} /\ stopsFor' = stopsFor
    BY <1>4 DEF SoakReceive
  <2>2. r.answer.first \in 0..n
    BY <1>1, RequestFields
  <2> HIDE DEF n
  <2>3. soak' \in SoakType(n) /\ soak'.at = soak.at /\ soak'.token = soak.token
    BY <1>1, <2>1, <2>2 DEF SoakType
  <2>4. IsFiniteSet(requests') /\ \A q \in requests' : q \in Requests(n)
    BY <1>1, <2>1, FS_RemoveElement
  <2> QED BY <1>1, <1>2, <2>1, <2>3, <2>4, TypesKept DEF n
<1> QED BY <1>3, <1>4

LEMMA TypeNext == StopInv /\ StopInv' /\ TypeInv /\ [Next]_vars => TypeInv'
<1> SUFFICES ASSUME StopInv, StopInv', TypeInv, [Next]_vars PROVE TypeInv'
  OBVIOUS
<1> DEFINE n == Len(takes)
<1>0. /\ IsFiniteSet(requests) /\ \A q \in requests : q \in Requests(n)
      /\ tokenFile \in 0..MaxServices /\ budget \in BudgetType /\ stopsFor \subseteq Services
      /\ soak \in SoakType(n) /\ (soak.at > 0 => soak.token \in Services)
      /\ (Of("soak") # {} => soak.at > 0)
      /\ n \in Nat /\ socket \in 0..MaxServices
  <2>1. n \in Nat
    BY DEF StopInv
  <2> QED BY <2>1 DEF TypeInv, StopInv
<1>1. ASSUME NEW s \in Services, Listen(s) \/ WriteToken(s) \/ Kill(s) PROVE TypeInv'
  <2>1. requests' \subseteq requests /\ UNCHANGED <<takes, budget, soak, stopsFor>>
        /\ tokenFile' \in {tokenFile, s}
    BY <1>1 DEF Listen, WriteToken, Kill
  <2>2. IsFiniteSet(requests') /\ \A q \in requests' : q \in Requests(n)
    BY <1>0, <2>1, FS_Subset
  <2>3. tokenFile' \in 0..MaxServices
    BY <1>0, <2>1, ServiceNumbers
  <2>4. Of("soak")' # {} => Of("soak") # {}
    BY <2>1 DEF Of
  <2> QED BY <1>0, <1>1, <2>1, <2>2, <2>3, <2>4, ArmedKept, TypesKept
<1>2. ASSUME NEW r \in requests, Handle(r) PROVE TypeInv'
  BY <1>2, HandleTypes
<1>3. ASSUME NEW r \in requests, Connect(r) \/ Send(r) PROVE TypeInv'
  <2>1. UNCHANGED <<services, socket, tokenFile, takes, budget, gui, soak, stopsFor>>
    BY <1>3 DEF Connect, Send
  <2>2. PICK x : /\ x \in Requests(n) /\ x.client = r.client
                 /\ requests' = requests \ {r} \/ requests' = (requests \ {r}) \cup {x}
    <3>1. CASE Send(r)
      <4>1. requests' = (requests \ {r}) \cup {[r EXCEPT !.phase = "sent"]}
        BY <3>1 DEF Send
      <4>2. [r EXCEPT !.phase = "sent"] \in Requests(n)
        BY <1>0, ChangedType
      <4>3. [r EXCEPT !.phase = "sent"].client = r.client
        BY <1>0 DEF Requests
      <4> QED BY <4>1, <4>2, <4>3
    <3>2. CASE Connect(r) /\ Alive(socket)
      <4>1. requests' = (requests \ {r}) \cup {[r EXCEPT !.phase = "connected", !.at = socket]}
        BY <3>2 DEF Connect
      <4>2. socket \in Services
        BY <1>0, <3>2, ServiceNumbers DEF Alive
      <4>3. [r EXCEPT !.phase = "connected", !.at = socket] \in Requests(n)
        BY <1>0, <4>2, ChangedType
      <4>4. [r EXCEPT !.phase = "connected", !.at = socket].client = r.client
        BY <1>0 DEF Requests
      <4> QED BY <4>1, <4>3, <4>4
    <3>3. CASE Connect(r) /\ ~ Alive(socket)
      <4>1. requests' = requests \ {r}
        BY <3>3 DEF Connect
      <4> QED BY <1>0, <4>1
    <3> QED BY <1>3, <3>1, <3>2, <3>3
  <2>3. IsFiniteSet(requests') /\ \A q \in requests' : q \in Requests(n)
    <3>1. IsFiniteSet(requests \ {r})
      BY <1>0, FS_RemoveElement
    <3>2. IsFiniteSet((requests \ {r}) \cup {x})
      BY ONLY <3>1, FS_AddElement
    <3>3. IsFiniteSet(requests')
      BY ONLY <2>2, <3>1, <3>2
    <3> QED BY ONLY <1>0, <2>2, <3>3
  <2>4. Of("soak")' # {} => Of("soak") # {}
    BY <2>2 DEF Of
  <2> QED BY <1>0, <2>1, <2>3, <2>4, TypesKept
<1>4. ASSUME NEW client \in {"gui", "operator"}, NEW cmd \in Commands, Make(client, cmd),
             UNCHANGED <<services, tokenFile, takes, soak>>
      PROVE  TypeInv'
  <2>1. /\ IsFiniteSet(requests') /\ \A q \in requests' : q \in Requests(n)
        /\ budget' \in BudgetType /\ stopsFor' \subseteq Services
    BY <1>0, <1>4, MakeTypes
  <2>2. Of("soak")' # {} => Of("soak") # {}
    <3> DEFINE rest(q) == [q EXCEPT !.alone = @ /\ q.client # client]
               new == Request(client, cmd, tokenFile)
    <3>1. \A q \in requests : rest(q).client = q.client
      BY <1>0 DEF Requests
    <3>2. new.client = client
      BY DEF Request
    <3>3. \A q \in requests' : q = new \/ \E p \in requests : q = rest(p)
      BY <1>4 DEF Make
    <3> HIDE DEF rest, new
    <3> QED BY <1>4, <3>1, <3>2, <3>3 DEF Of
  <2> QED BY <1>0, <1>4, <2>1, <2>2, TypesKept
<1>5. ASSUME NEW cmd \in OperatorCommands, Operate(cmd) PROVE TypeInv'
  BY <1>4, <1>5, BoundsAssumption DEF Operate
<1>6. CASE SoakBegin
  <2>1. /\ Make("soak", "configure") /\ UNCHANGED <<services, tokenFile, takes>>
        /\ soak' = [soak EXCEPT !.at = 1, !.token = tokenFile]
    BY <1>6 DEF SoakBegin
  <2>2. /\ IsFiniteSet(requests') /\ \A q \in requests' : q \in Requests(n)
        /\ budget' \in BudgetType /\ stopsFor' \subseteq Services /\ tokenFile \in Services
    BY <1>0, <2>1, MakeTypes DEF Commands
  <2>3. 1 \in 0..Len(SoakProgram)
    BY Program, ServiceNumbers
  <2>4. soak' \in SoakType(n) /\ soak'.at = 1 /\ soak'.token = tokenFile
    BY <1>0, <2>1, <2>3 DEF SoakType
  <2> QED BY <1>0, <2>1, <2>2, <2>4, TypesKept
<1>7. ASSUME NEW r \in requests, SoakReceive(r) PROVE TypeInv'
  BY <1>7, SoakTypes
<1>8. CASE Launch
  BY <1>4, <1>8 DEF Launch, Commands
<1>9. ASSUME NEW cmd \in GuiCommands, Press(cmd) PROVE TypeInv'
  BY <1>4, <1>9, BoundsAssumption DEF Press
<1>10. CASE CloseWindow
  <2> DEFINE sent == {q \in Of("gui") : q.phase = "sent"}
             closed == [q \in sent |-> [q EXCEPT !.client = "closed", !.alone = FALSE]]
             left == {closed[q] : q \in sent}
  <2>1. /\ UNCHANGED <<services, socket, tokenFile, takes, budget, soak, stopsFor>>
        /\ requests' = (requests \ Of("gui")) \cup left
    BY <1>10 DEF CloseWindow
  <2>2. sent \subseteq requests /\ requests \ Of("gui") \subseteq requests
    BY DEF Of
  <2>3. \A q \in sent : closed[q] \in Requests(n) /\ closed[q].client = "closed"
    <3>1. ASSUME NEW q \in sent
          PROVE  closed[q] \in Requests(n) /\ closed[q].client = "closed"
      <4>1. q \in Requests(n)
        BY <1>0, <2>2
      <4>2. [q EXCEPT !.client = "closed", !.alone = FALSE] \in Requests(n)
        BY <1>0, <4>1, ChangedType
      <4>3. [q EXCEPT !.client = "closed", !.alone = FALSE].client = "closed"
        BY <4>1 DEF Requests
      <4> QED BY <4>2, <4>3
    <3> QED BY <3>1
  <2> HIDE DEF closed
  <2>4. IsFiniteSet(sent) /\ IsFiniteSet(requests \ Of("gui"))
    BY <1>0, <2>2, FS_Subset
  <2>5. IsFiniteSet(left)
    BY <2>4, FiniteImage
  <2>6. IsFiniteSet(requests')
    <3> DEFINE stay == requests \ Of("gui")
    <3> HIDE DEF left, stay
    <3>1. requests' = stay \cup left /\ IsFiniteSet(stay) /\ IsFiniteSet(left)
      BY <2>1, <2>4, <2>5 DEF stay
    <3>2. IsFiniteSet(stay \cup left)
      BY ONLY <3>1, FS_Union
    <3> QED BY ONLY <3>1, <3>2
  <2>7. \A q \in requests' : q \in Requests(n) /\ (q.client = "soak" => q \in requests)
    BY <1>0, <2>1, <2>3
  <2>8. Of("soak")' # {} => Of("soak") # {}
    BY <2>7 DEF Of
  <2> QED BY <1>0, <2>1, <2>6, <2>7, <2>8, TypesKept
<1>11. CASE ArmStop
  BY <1>0, <1>11, TypesKept DEF ArmStop, Of
<1>12. ASSUME NEW r \in requests, GuiReceive(r) PROVE TypeInv'
  <2>1. requests' = requests \ {r}
        /\ UNCHANGED <<services, socket, tokenFile, takes, budget, soak, stopsFor>>
    BY <1>12 DEF GuiReceive
  <2>2. IsFiniteSet(requests') /\ Of("soak")' \subseteq Of("soak")
    BY <1>0, <2>1, FS_RemoveElement DEF Of
  <2> QED BY <1>0, <2>1, <2>2, TypesKept
<1>13. CASE UNCHANGED vars
  BY <1>13 DEF vars, TypeInv, Of
<1> QED
  BY <1>1, <1>2, <1>3, <1>5, <1>6, <1>7, <1>8, <1>9, <1>10, <1>11, <1>12, <1>13
  DEF Next, ServiceStep, GuiStep, Of

(* Every variable of the desk keeps its type: the session numbers that the *)
(* services, the answers and the report carry are those of sessions that   *)
(* exist, and there is always an id left for another request.              *)
THEOREM DeskTypes == Spec => []TypeOK
<1>1. StopInv /\ ViewInv /\ TypeInv => TypeOK
  <2> SUFFICES ASSUME StopInv, ViewInv, TypeInv PROVE TypeOK
    OBVIOUS
  <2>1. services \in [Services -> [phase : {"none", "listening", "ready", "dead"},
                                   state : {"Idle", "Armed", "Recording", "Paused", "Completed"},
                                   config : Clients \cup {"none"}, take : 0..Len(takes)]]
    <3>1. \A s \in Services : services[s].take \in 0..Len(takes)
      BY DEF StopInv, OwnTake, Processes
    <3> QED BY <3>1 DEF StopInv, Processes
  <2>2. takes \in Seq([by : Services, config : Clients, frames : Nat, complete : BOOLEAN])
    <3> DEFINE S == [by : Services, config : Clients, frames : Nat, complete : BOOLEAN]
    <3>1. takes \in Seq(Sessions) /\ DOMAIN takes = 1..Len(takes) /\ Len(takes) \in Nat
      BY DEF StopInv
    <3>2. \A t \in 1..Len(takes) : takes[t] \in Sessions /\ takes[t].config \in Clients
      BY <3>1 DEF TypeInv
    <3>3. \A t \in 1..Len(takes) : takes[t] \in S
      BY <3>2 DEF Sessions
    <3> HIDE DEF S
    <3>4. takes \in [1..Len(takes) -> S]
      BY <3>1, <3>3
    <3>5. takes \in Seq(S)
      BY ONLY <3>1, <3>4, SeqDef
    <3> QED BY <3>5 DEF S
  <2> QED BY <2>1, <2>2 DEF StopInv, ViewInv, TypeInv, TypeOK, Requests, BudgetType, SoakType
<1> QED BY <1>1, StopInit, StopNext, ViewInit, ViewNext, TypeInit, TypeNext, PTL DEF Spec

-------------------------------------------------------------------------------
(* The report of a soak run.  As long as no other client configured,       *)
(* started or simulated, the run's service is where the run's last command *)
(* left it, or another client paused, resumed or stopped the take; and the *)
(* newest session on disk is that take, with a frame for each batch.       *)

(* A recorder is there while the service records or is paused. *)
Taking(s) == services[s].take # 0 <=> services[s].state \in {"Recording", "Paused"}

(* A token is read from the file once its service's accept loop runs. *)
HasBound(s) == s \in Services /\ services[s].phase \in {"ready", "dead"}

Own == services[soak.token]
Last == takes[Len(takes)]

(* The run's first e commands succeeded. *)
Progress(e) ==
  IF e = 1 THEN Own.phase = "ready" => Own.state = "Armed" /\ Own.config = "soak"
  ELSE /\ Len(takes) > 0
       /\ Last.by = soak.token /\ Last.config = "soak"
       /\ Last.frames = IF e <= SoakBatches + 2 THEN e - 2 ELSE SoakBatches
       /\ e > SoakBatches + 2 => Last.complete
       /\ Own.phase = "ready" => Own.take = Len(takes) \/ (Own.state = "Completed" /\ Last.complete)

GoodSoak(r) ==
  /\ r.cmd = SoakProgram[soak.at] /\ r.token = soak.token
  /\ r.answer.first # 0 => r.phase = "answered" /\ r.answer.ok /\ soak.at = Len(SoakProgram)
  /\ ~ soak.mixed /\ r.phase # "answered" /\ soak.at > 1 => Progress(soak.at - 1)
  /\ ~ soak.mixed /\ r.phase = "answered" /\ r.answer.ok =>
       Progress(soak.at) /\ r.answer.first \in {0, Len(takes)}

Finished(t) ==
  /\ t \in 1..Len(takes) /\ takes[t].by = soak.token /\ takes[t].config = "soak"
  /\ takes[t].frames = SoakBatches /\ takes[t].complete

PlaceInv ==
  /\ \A s \in Services : Taking(s)
  /\ tokenFile # 0 => HasBound(tokenFile)
  /\ soak.at > 0 => HasBound(soak.token) /\ budget.soak = 0
  /\ soak.at = 0 => Of("soak") = {} /\ soak.report = 0
  /\ soak.report # 0 => Of("soak") = {}
  /\ \A r, q \in Of("soak") : r = q

SoakInv ==
  /\ PlaceInv
  /\ \A r \in Of("soak") : GoodSoak(r)
  /\ soak.report # 0 /\ ~ soak.mixed => Finished(soak.report)

(* A step of others the run does not notice. *)
Undisturbed ==
  LET now == services[soak.token]
      then == services'[soak.token]
  IN  /\ Len(takes') = Len(takes)
      /\ \A t \in 1..Len(takes) :
           /\ takes'[t].by = takes[t].by /\ takes'[t].config = takes[t].config
           /\ takes'[t].frames = takes[t].frames /\ (takes[t].complete => takes'[t].complete)
      /\ then.phase = "ready" =>
           /\ now.phase = "ready"
           /\ \/ then.state = now.state /\ then.config = now.config /\ then.take = now.take
              \/ now.take # 0 /\ then.take = now.take
              \/ now.take # 0 /\ then.state = "Completed" /\ takes'[now.take].complete

LEMMA ProgressStays ==
  ASSUME PlaceInv, soak.at > 0, soak'.token = soak.token, Undisturbed,
         Len(takes) \in Nat, NEW e \in Nat, Progress(e)
  PROVE  Progress(e)'
<1> DEFINE now == services[soak.token]
           then == services'[soak.token]
<1>1. now.take # 0 <=> now.state \in {"Recording", "Paused"}
  BY DEF PlaceInv, HasBound, Taking
<1>2. CASE e = 1
  <2>1. now.phase = "ready" => now.state = "Armed" /\ now.config = "soak"
    BY <1>2 DEF Progress, Own
  <2>2. then.phase = "ready" => then.state = "Armed" /\ then.config = "soak"
    BY <1>1, <2>1 DEF Undisturbed
  <2> QED BY <1>2, <2>2 DEF Progress, Own
<1>3. CASE e # 1
  <2> DEFINE n == Len(takes)
  <2>1. /\ n > 0 /\ takes[n].by = soak.token /\ takes[n].config = "soak"
        /\ takes[n].frames = IF e <= SoakBatches + 2 THEN e - 2 ELSE SoakBatches
        /\ e > SoakBatches + 2 => takes[n].complete
        /\ now.phase = "ready" => now.take = n \/ (now.state = "Completed" /\ takes[n].complete)
    BY <1>3 DEF Progress, Own, Last
  <2>2. n \in 1..n /\ n # 0
    BY <2>1
  <2>3. /\ Len(takes') = n
        /\ takes'[n].by = takes[n].by /\ takes'[n].config = takes[n].config
        /\ takes'[n].frames = takes[n].frames /\ (takes[n].complete => takes'[n].complete)
    BY <2>2 DEF Undisturbed
  <2>4. then.phase = "ready" => then.take = n \/ (then.state = "Completed" /\ takes'[n].complete)
    <3> SUFFICES ASSUME then.phase = "ready"
                 PROVE  then.take = n \/ (then.state = "Completed" /\ takes'[n].complete)
      OBVIOUS
    <3>1. /\ now.phase = "ready"
          /\ \/ then.state = now.state /\ then.config = now.config /\ then.take = now.take
             \/ now.take # 0 /\ then.take = now.take
             \/ now.take # 0 /\ then.state = "Completed" /\ takes'[now.take].complete
      BY DEF Undisturbed
    <3>2. CASE now.take = n
      BY <3>1, <3>2
    <3>3. CASE now.state = "Completed" /\ takes[n].complete
      BY <1>1, <2>3, <3>1, <3>3
    <3> QED BY <2>1, <3>1, <3>2, <3>3
  <2> HIDE DEF then, now, n
  <2>5. /\ n > 0 /\ takes'[n].by = soak.token /\ takes'[n].config = "soak"
        /\ takes'[n].frames = IF e <= SoakBatches + 2 THEN e - 2 ELSE SoakBatches
        /\ e > SoakBatches + 2 => takes'[n].complete
    BY <2>1, <2>3
  <2>6. then = services'[soak.token] /\ n = Len(takes)
    BY DEF then, n
  <2> QED BY ONLY <1>3, <2>3, <2>4, <2>5, <2>6, soak'.token = soak.token DEF Progress, Own, Last
<1> QED BY <1>2, <1>3

(* The place of the run, when no other request of it comes. *)
LEMMA PlaceKept ==
  ASSUME PlaceInv, \A s \in Services : Taking(s)', \A s : HasBound(s) => HasBound(s)',
         tokenFile' = tokenFile \/ HasBound(tokenFile)', budget.soak = 0 => budget'.soak = 0,
         soak'.at = soak.at, soak'.token = soak.token, soak'.report = soak.report,
         Of("soak")' # {} => Of("soak") # {}, \A q, p \in Of("soak")' : q = p
  PROVE  PlaceInv'
<1>1. \A s \in Services : Taking(s)'
  OBVIOUS
<1>2. tokenFile' # 0 => HasBound(tokenFile)'
  BY DEF PlaceInv, HasBound
<1>3. soak'.at > 0 => HasBound(soak.token)' /\ budget'.soak = 0
  BY DEF PlaceInv, HasBound
<1>4. soak'.at = 0 => Of("soak")' = {} /\ soak'.report = 0
  BY DEF PlaceInv
<1>5. soak'.report # 0 => Of("soak")' = {}
  BY DEF PlaceInv
<1> QED BY <1>1, <1>2, <1>3, <1>4, <1>5 DEF PlaceInv

(* As its last request is, one that was only moved on is. *)
SameToSoak(q, p) ==
  /\ q.cmd = p.cmd /\ q.token = p.token /\ q.answer = p.answer
  /\ q.phase = "answered" <=> p.phase = "answered"

LEMMA SoakKept ==
  ASSUME StopInv, TypeInv, SoakInv, PlaceInv',
         soak'.at = soak.at, soak'.token = soak.token, soak'.report = soak.report,
         soak.at > 0 /\ ~ soak'.mixed => ~ soak.mixed /\ Undisturbed,
         \A q \in Of("soak")' : \E p \in Of("soak") : SameToSoak(q, p)
  PROVE  SoakInv'
<1>1. /\ PlaceInv /\ \A p \in Of("soak") : GoodSoak(p)
      /\ soak.report # 0 /\ ~ soak.mixed => Finished(soak.report)
      /\ Len(takes) \in Nat /\ soak.at \in Nat
  BY Program, ServiceNumbers DEF SoakInv, StopInv, TypeInv, SoakType
<1>2. ASSUME NEW q \in Of("soak")' PROVE GoodSoak(q)'
  <2>1. PICK p \in Of("soak") : SameToSoak(q, p)
    BY <1>2
  <2>2. GoodSoak(p) /\ soak.at > 0
    BY <1>1 DEF PlaceInv
  <2>3. q.cmd = SoakProgram[soak.at] /\ q.token = soak.token
    BY <2>1, <2>2 DEF GoodSoak, SameToSoak
  <2>4. q.answer.first # 0 => q.phase = "answered" /\ q.answer.ok /\ soak.at = Len(SoakProgram)
    BY <2>1, <2>2 DEF GoodSoak, SameToSoak
  <2>5. ASSUME ~ soak'.mixed, q.phase # "answered", soak.at > 1 PROVE Progress(soak.at - 1)'
    <3>1. Progress(soak.at - 1) /\ Undisturbed
      BY <2>1, <2>2, <2>5 DEF GoodSoak, SameToSoak
    <3>2. soak.at - 1 \in Nat
      BY <1>1, <2>5
    <3>3. \A e \in Nat : Progress(e) => Progress(e)'
      BY ONLY <1>1, <2>2, <3>1, soak'.token = soak.token, ProgressStays
    <3> PICK e \in Nat : e = soak.at - 1
      BY <3>2
    <3>4. Progress(e)' /\ e = soak'.at - 1
      BY <3>1, <3>3
    <3> QED BY <3>4
  <2>6. ASSUME ~ soak'.mixed, q.phase = "answered", q.answer.ok
        PROVE  Progress(soak.at)' /\ q.answer.first \in {0, Len(takes')}
    <3>1. Progress(soak.at) /\ Undisturbed /\ q.answer.first \in {0, Len(takes)}
      BY <2>1, <2>2, <2>6 DEF GoodSoak, SameToSoak
    <3>2. Progress(soak.at)'
      BY <1>1, <2>2, <3>1, ProgressStays
    <3> QED BY <3>1, <3>2 DEF Undisturbed
  <2> QED BY ONLY <2>3, <2>4, <2>5, <2>6, soak'.at = soak.at, soak'.token = soak.token DEF GoodSoak
<1>3. ASSUME soak.report # 0, ~ soak'.mixed PROVE Finished(soak.report)'
  <2>1. soak.at > 0
    BY <1>1, <1>3 DEF PlaceInv
  <2>2. Finished(soak.report) /\ Undisturbed
    BY <1>1, <1>3, <2>1
  <2> QED BY <2>2 DEF Finished, Undisturbed
<1> QED BY <1>2, <1>3 DEF SoakInv

-------------------------------------------------------------------------------
(* After any command a service that has a recorder records or is paused,   *)
(* and has its phase.                                                      *)
LEMMA ExecuteTaking ==
  ASSUME StopInv, \A s \in Services : Taking(s), NEW r, NEW at \in Services,
         \/ Look(r, at) \/ Configure(r, at) \/ Start(r, at)
         \/ Switch(r, at) \/ Simulate(r, at) \/ Stop(r, at)
  PROVE  \A s \in Services : Taking(s)' /\ services'[s].phase = services[s].phase
<1>1. services \in [Services -> Processes] /\ takes \in Seq(Sessions) /\ Taking(at)
  BY DEF StopInv
<1>2. \A s : services'[s] = services[s] => (Taking(s)' <=> Taking(s))
  BY DEF Taking
<1>3. ASSUME NEW st, NEW c, NEW t, Becomes(at, st, c, t), t # 0 <=> st \in {"Recording", "Paused"}
      PROVE  \A s \in Services : Taking(s)' /\ services'[s].phase = services[s].phase
  <2>1. Taking(at)' /\ services'[at].phase = services[at].phase
    BY <1>3 DEF Becomes, Taking
  <2>2. \A s \in Services : s # at => services'[s] = services[s]
    BY <1>3 DEF Becomes
  <2> QED BY <1>2, <2>1, <2>2
<1>4. CASE Look(r, at) \/ Simulate(r, at)
  BY <1>2, <1>4 DEF Look, Simulate
<1>5. CASE Configure(r, at)
  <2>1. Becomes(at, "Armed", r.client, services[at].take)
    BY <1>1, <1>5, ConfigureDoes
  <2>2. services[at].take # 0 <=> "Armed" \in {"Recording", "Paused"}
    BY <1>1, <1>5 DEF Configure, Configurable, Taking
  <2> QED BY <1>3, <2>1, <2>2
<1>6. CASE Start(r, at)
  <2>1. Becomes(at, "Recording", services[at].config, Len(takes) + 1) /\ Len(takes) \in Nat
    BY <1>1, <1>6, StartDoes
  <2>2. Len(takes) + 1 # 0
    BY <2>1
  <2> QED BY <1>3, <2>1, <2>2
<1>7. CASE Switch(r, at)
  <2>1. services[at].take # 0
    BY <1>1, <1>7, SwitchDoes DEF Taking
  <2> QED BY <1>1, <1>3, <1>7, <2>1, SwitchDoes
<1>8. CASE Stop(r, at)
  <2>1. Becomes(at, "Completed", services[at].config, 0)
    BY <1>8, StopDoes
  <2> QED BY <1>3, <2>1
<1> QED BY <1>4, <1>5, <1>6, <1>7, <1>8

(* Looking, pausing, resuming and stopping do not disturb the run.         *)
LEMMA OthersLeave ==
  ASSUME StopInv, PlaceInv, soak.at > 0, NEW r, NEW at \in Services,
         Look(r, at) \/ Switch(r, at) \/ Stop(r, at)
  PROVE  Undisturbed
<1>1. services \in [Services -> Processes] /\ takes \in Seq(Sessions)
      /\ \A s \in Services : Taking(s)
  BY DEF StopInv, PlaceInv
<1>2. CASE Look(r, at)
  BY <1>2 DEF Look, Undisturbed
<1>3. CASE Switch(r, at)
  <2>1. takes' = takes /\ services[at].take # 0
    BY <1>1, <1>3, SwitchDoes DEF Taking
  <2>2. /\ services'[at].phase = services[at].phase /\ services'[at].take = services[at].take
        /\ \A p \in Services : p # at => services'[p] = services[p]
    BY <1>1, <1>3, SwitchDoes DEF Becomes
  <2>3. soak.token \in Services
    BY DEF PlaceInv, HasBound
  <2> QED BY ONLY <2>1, <2>2, <2>3 DEF Undisturbed
<1>4. CASE Stop(r, at)
  <2>1. /\ services[at].take # 0
        /\ Becomes(at, "Completed", services[at].config, 0)
        /\ TakeBecomes(services[at].take, takes[services[at].take].frames, TRUE)
    BY <1>4, StopDoes
  <2>2. /\ Len(takes') = Len(takes)
        /\ \A t \in 1..Len(takes) :
             /\ takes'[t].by = takes[t].by /\ takes'[t].config = takes[t].config
             /\ takes'[t].frames = takes[t].frames /\ (takes[t].complete => takes'[t].complete)
        /\ takes'[services[at].take].complete
    BY ONLY <2>1 DEF TakeBecomes
  <2>3. /\ services'[at].phase = services[at].phase /\ services'[at].state = "Completed"
        /\ \A p \in Services : p # at => services'[p] = services[p]
    BY ONLY <2>1 DEF Becomes
  <2>4. soak.token \in Services
    BY DEF PlaceInv, HasBound
  <2> QED BY ONLY <2>1, <2>2, <2>3, <2>4 DEF Undisturbed
<1> QED BY <1>2, <1>3, <1>4

(* The run's own command at i succeeds, and the run is that much further.  *)
LEMMA OwnCommand ==
  ASSUME StopInv, PlaceInv, NEW i \in 1..Len(SoakProgram), soak.at = i,
         soak'.token = soak.token, NEW r, r.cmd = SoakProgram[i], r.client = "soak",
         services[soak.token].phase = "ready",
         i > 1 => Progress(i - 1),
         LET at == soak.token IN
         \/ Look(r, at) \/ Configure(r, at) \/ Start(r, at)
         \/ Switch(r, at) \/ Simulate(r, at) \/ Stop(r, at)
  PROVE  Progress(i)' /\ (r.cmd = "list" => takes' = takes)
<1> DEFINE T == soak.token
           now == services[T]
           then == services'[T]
<1>1. /\ services \in [Services -> Processes] /\ takes \in Seq(Sessions) /\ T \in Services
      /\ now.take # 0 <=> now.state \in {"Recording", "Paused"}
      /\ Len(takes) \in Nat /\ SoakBatches \in Nat /\ now.phase = "ready"
  <2>1. services \in [Services -> Processes] /\ takes \in Seq(Sessions) /\ Len(takes) \in Nat
    BY ONLY StopInv DEF StopInv
  <2>2. soak.at > 0
    OBVIOUS
  <2>3. T \in Services /\ Taking(T)
    BY ONLY <2>2, PlaceInv DEF PlaceInv, HasBound
  <2> QED BY ONLY <2>1, <2>3, ServiceNumbers, services[soak.token].phase = "ready" DEF Taking
<1>2. /\ r.cmd \in {"configure", "start", "simulate", "stop", "list"}
      /\ r.cmd = "configure" <=> i = 1
      /\ r.cmd = "start" <=> i = 2
      /\ r.cmd = "simulate" <=> i \in 3..(SoakBatches + 2)
      /\ r.cmd = "stop" <=> i = SoakBatches + 3
      /\ r.cmd = "list" <=> i = SoakBatches + 4
  <2>1. \/ i = 1 \/ i = 2 \/ i \in 3..(SoakBatches + 2) \/ i = SoakBatches + 3 \/ i = SoakBatches + 4
    BY Program, ServiceNumbers
  <2> QED BY <2>1, ProgramCommands
(* Where it stands after its first two commands. *)
<1>3. ASSUME i > 2
      PROVE  /\ Len(takes) > 0 /\ Last.by = T /\ Last.config = "soak"
             /\ Last.frames = IF i - 1 <= SoakBatches + 2 THEN i - 3 ELSE SoakBatches
             /\ i - 1 > SoakBatches + 2 => Last.complete
             /\ now.take = Len(takes) \/ (now.state = "Completed" /\ Last.complete)
  <2>1. Progress(i - 1) /\ i - 1 # 1 /\ (i - 1) - 2 = i - 3
    BY <1>3
  <2> QED BY <1>1, <2>1 DEF Progress, Own
<1>4. CASE r.cmd = "configure"
  <2>1. Configure(r, T)
    BY <1>4 DEF Look, Start, Switch, Simulate, Stop
  <2>2. then.state = "Armed" /\ then.config = "soak"
    BY <1>1, <2>1, ConfigureDoes DEF Becomes
  <2> QED BY <1>2, <1>4, <2>2 DEF Progress, Own
<1>5. CASE r.cmd = "start"
  <2>1. now.state = "Armed" /\ now.config = "soak"
    <3>1. Progress(1)
      BY <1>2, <1>5
    <3> QED BY <1>1, <3>1 DEF Progress, Own
  <2>2. Start(r, T)
    BY <1>5, <2>1 DEF Look, Configure, Switch, Simulate, Stop
  <2>3. /\ Len(takes') = Len(takes) + 1 /\ then.take = Len(takes')
        /\ takes'[Len(takes')].by = T /\ takes'[Len(takes')].config = "soak"
        /\ takes'[Len(takes')].frames = 0
    <3>1. /\ Becomes(T, "Recording", now.config, Len(takes) + 1)
          /\ Len(takes') = Len(takes) + 1
          /\ takes'[Len(takes) + 1].by = T /\ takes'[Len(takes) + 1].config = now.config
          /\ takes'[Len(takes) + 1].frames = 0
      BY <1>1, <2>2, StartDoes
    <3>2. then.take = Len(takes) + 1
      BY ONLY <3>1 DEF Becomes
    <3> QED BY ONLY <2>1, <3>1, <3>2
  <2>4. i = 2 /\ 2 <= SoakBatches + 2 /\ ~ (2 > SoakBatches + 2) /\ 2 - 2 = 0 /\ 2 # 1
    BY <1>1, <1>2, <1>5
  <2>5. Len(takes') > 0
    BY <1>1, <2>3
  <2> QED BY ONLY <1>5, <2>3, <2>4, <2>5, soak'.token = soak.token DEF Progress, Own, Last
<1>6. CASE r.cmd = "simulate"
  <2>1. Simulate(r, T)
    BY <1>6 DEF Look, Configure, Switch, Start, Stop
  <2>2. i > 2 /\ i - 1 <= SoakBatches + 2 /\ i <= SoakBatches + 2 /\ ~ (i > SoakBatches + 2) /\ i # 1
    BY <1>1, <1>2, <1>6
  <2>3. /\ services' = services /\ now.take # 0 /\ now.state = "Recording"
        /\ TakeBecomes(now.take, takes[now.take].frames + 1, takes[now.take].complete)
    BY <1>1, <2>1, SimulateDoes
  <2>4. now.take = Len(takes) /\ Len(takes) > 0 /\ Last.by = T /\ Last.config = "soak"
        /\ Last.frames = i - 3
    BY <1>3, <2>2, <2>3
  <2>5. /\ Len(takes') = Len(takes) /\ Last'.by = T /\ Last'.config = "soak"
        /\ Last'.frames = (i - 3) + 1
    BY ONLY <2>3, <2>4 DEF TakeBecomes, Last
  <2>6. (i - 3) + 1 = i - 2
    OBVIOUS
  <2>7. then.take = Len(takes')
    BY <2>3, <2>4, <2>5
  <2> QED BY ONLY <1>6, <2>2, <2>4, <2>5, <2>6, <2>7, soak'.token = soak.token DEF Progress, Own
<1>7. CASE r.cmd = "stop"
  <2>1. i = SoakBatches + 3 /\ i > 2 /\ i - 1 <= SoakBatches + 2 /\ i - 3 = SoakBatches
        /\ i > SoakBatches + 2 /\ ~ (i <= SoakBatches + 2) /\ i # 1
    BY <1>1, <1>2, <1>7
  <2>2. /\ Len(takes) > 0 /\ Last.by = T /\ Last.config = "soak" /\ Last.frames = SoakBatches
        /\ now.take = Len(takes) \/ (now.state = "Completed" /\ Last.complete)
    BY <1>3, <2>1
  <2>3. CASE Look(r, T)
    <3>1. now.state = "Completed" /\ UNCHANGED <<services, takes>>
      BY <1>7, <2>3 DEF Look
    <3>2. Last.complete
      BY <1>1, <2>2, <3>1
    <3> QED BY ONLY <1>7, <2>1, <2>2, <3>1, <3>2, soak'.token = soak.token DEF Progress, Own, Last
  <2>4. CASE Stop(r, T)
    <3>1. /\ now.take # 0 /\ then.state = "Completed"
          /\ TakeBecomes(now.take, takes[now.take].frames, TRUE)
      BY <1>1, <2>4, StopDoes DEF Becomes
    <3>2. now.take = Len(takes)
      BY <1>1, <2>2, <3>1
    <3>3. /\ Len(takes') = Len(takes) /\ Last'.by = T /\ Last'.config = "soak"
          /\ Last'.frames = SoakBatches /\ Last'.complete
      BY ONLY <2>2, <3>1, <3>2 DEF TakeBecomes, Last
    <3> QED BY ONLY <1>7, <2>1, <2>2, <3>1, <3>3, soak'.token = soak.token DEF Progress, Own
  <2> QED BY <1>7, <2>3, <2>4 DEF Configure, Start, Switch, Simulate
<1>8. CASE r.cmd = "list"
  <2>1. UNCHANGED <<services, takes>>
    BY <1>8 DEF Look, Configure, Start, Switch, Simulate, Stop
  <2>2. i = SoakBatches + 4 /\ i > 2 /\ i - 1 > SoakBatches + 2 /\ ~ (i - 1 <= SoakBatches + 2)
        /\ i > SoakBatches + 2 /\ ~ (i <= SoakBatches + 2) /\ i # 1
    BY <1>1, <1>2, <1>8
  <2>3. /\ Len(takes) > 0 /\ Last.by = T /\ Last.config = "soak" /\ Last.frames = SoakBatches
        /\ Last.complete
        /\ now.take = Len(takes) \/ (now.state = "Completed" /\ Last.complete)
    BY <1>3, <2>2
  <2> QED BY ONLY <2>1, <2>2, <2>3, soak'.token = soak.token DEF Progress, Own, Last
<1> QED BY <1>2, <1>4, <1>5, <1>6, <1>7, <1>8

-------------------------------------------------------------------------------
(* What an answer leaves of the requests of the run. *)
LEMMA ReplyOfSoak ==
  ASSUME StopInv, NEW r \in requests, NEW ok \in BOOLEAN, Reply(r, ok)
  PROVE  /\ \A q \in Of("soak")' :
              \/ \E p \in Of("soak") \ {r} : SameToSoak(q, p)
              \/ /\ r \in Of("soak") /\ q.cmd = r.cmd /\ q.token = r.token
                 /\ q.phase = "answered" /\ q.answer = AnswerTo(r, ok)
         /\ (\A q, p \in Of("soak") : q = p) => \A q, p \in Of("soak")' : q = p
         /\ soak'.mixed = IF r.client = "soak" THEN soak.mixed /\ r.cmd # "configure"
                          ELSE soak.mixed \/ (soak.at > 0 /\ r.cmd \in {"configure", "start", "simulate"})
<1> DEFINE rest == [q \in requests |-> [q EXCEPT !.alone = @ /\ (r.client = "gui" \/ q.phase # "answered")]]
           new == [r EXCEPT !.phase = "answered", !.answer = AnswerTo(r, ok)]
<1>1. \A q \in requests : IsRequest(q)
  BY DEF StopInv, GoodRequest
<1>2. \A q \in requests :
        rest[q].client = q.client /\ SameToSoak(rest[q], q)
  BY <1>1 DEF IsRequest, Fields, SameToSoak
<1>3. /\ new.client = r.client /\ new.cmd = r.cmd /\ new.token = r.token
      /\ new.phase = "answered" /\ new.answer = AnswerTo(r, ok)
  BY <1>1 DEF IsRequest, Fields
<1>4. requests' = {rest[q] : q \in requests \ {r}} \cup IF r.client \in {"gui", "soak"} THEN {new} ELSE {}
  BY DEF Reply
<1> HIDE DEF rest, new
<1>5. \A q \in Of("soak")' : (\E p \in Of("soak") \ {r} : q = rest[p]) \/ (q = new /\ r \in Of("soak"))
  BY <1>2, <1>3, <1>4 DEF Of
<1>6. (\A q, p \in Of("soak") : q = p) => \A q, p \in Of("soak")' : q = p
  BY ONLY <1>5
<1>7. soak'.mixed = IF r.client = "soak" THEN soak.mixed /\ r.cmd # "configure"
                    ELSE soak.mixed \/ (soak.at > 0 /\ r.cmd \in {"configure", "start", "simulate"})
  BY DEF Reply
<1>8. \A q \in Of("soak") : q \in requests
  BY DEF Of
<1>9. \A q \in Of("soak")' :
        \/ \E p \in Of("soak") \ {r} : SameToSoak(q, p)
        \/ /\ r \in Of("soak") /\ q.cmd = r.cmd /\ q.token = r.token
           /\ q.phase = "answered" /\ q.answer = AnswerTo(r, ok)
  BY ONLY <1>2, <1>3, <1>5, <1>8
<1> QED BY <1>6, <1>7, <1>9

(* A command is executed, of another client's or of the run's own.         *)
LEMMA HandleSoak ==
  ASSUME StopInv, StopInv', TypeInv, SoakInv, NEW r \in requests, Handle(r)
  PROVE  SoakInv'
<1>1. /\ r.at \in Services /\ services[r.at].phase = "ready" /\ r.phase = "sent"
      /\ UNCHANGED <<socket, tokenFile, budget, stopsFor>>
      /\ services \in [Services -> Processes] /\ takes \in Seq(Sessions) /\ Len(takes) \in Nat
      /\ Len(takes') \in Nat
  BY DEF StopInv, Handle, FrameRead, GoodRequest
<1>2. PICK ok \in BOOLEAN :
        /\ Reply(r, ok)
        /\ \/ UNCHANGED <<services, takes>> /\ ~ ok
           \/ /\ ok /\ Authentic(r)
              /\ \/ Look(r, r.at) \/ Configure(r, r.at) \/ Start(r, r.at)
                 \/ Switch(r, r.at) \/ Simulate(r, r.at) \/ Stop(r, r.at)
  BY DEF Handle
<1>3. /\ \A q \in Of("soak")' :
           \/ \E p \in Of("soak") \ {r} : SameToSoak(q, p)
           \/ /\ r \in Of("soak") /\ q.cmd = r.cmd /\ q.token = r.token
              /\ q.phase = "answered" /\ q.answer = AnswerTo(r, ok)
      /\ (\A q, p \in Of("soak") : q = p) => \A q, p \in Of("soak")' : q = p
      /\ soak'.mixed = IF r.client = "soak" THEN soak.mixed /\ r.cmd # "configure"
                       ELSE soak.mixed \/ (soak.at > 0 /\ r.cmd \in {"configure", "start", "simulate"})
  BY ONLY <1>2, StopInv, r \in requests, ReplyOfSoak
<1>4. soak'.at = soak.at /\ soak'.token = soak.token /\ soak'.report = soak.report
      /\ soak \in SoakType(Len(takes))
  <2>1. \E x : soak' = [soak EXCEPT !.mixed = x]
    BY <1>2 DEF Reply
  <2> QED BY <2>1 DEF TypeInv, SoakType
<1>5. \A s \in Services : Taking(s)' /\ services'[s].phase = services[s].phase
  <2>1. \A s \in Services : Taking(s)
    BY DEF SoakInv, PlaceInv
  <2>2. CASE UNCHANGED <<services, takes>>
    BY <2>1, <2>2 DEF Taking
  <2>3. CASE \/ Look(r, r.at) \/ Configure(r, r.at) \/ Start(r, r.at)
             \/ Switch(r, r.at) \/ Simulate(r, r.at) \/ Stop(r, r.at)
    BY <1>1, <2>1, <2>3, ExecuteTaking
  <2> QED BY <1>2, <2>2, <2>3
<1>6. PlaceInv'
  <2>1. \A s : HasBound(s) => HasBound(s)'
    BY <1>5 DEF HasBound
  <2>2. Of("soak")' # {} => Of("soak") # {}
    BY <1>3
  <2> QED BY <1>1, <1>3, <1>4, <1>5, <2>1, <2>2, PlaceKept DEF SoakInv, PlaceInv
<1>7. CASE r.client # "soak"
  <2>1. r \notin Of("soak")
    BY <1>7 DEF Of
  <2>2. \A q \in Of("soak")' : \E p \in Of("soak") : SameToSoak(q, p)
    BY <1>3, <2>1
  <2>3. ASSUME soak.at > 0, ~ soak'.mixed PROVE ~ soak.mixed /\ Undisturbed
    <3>1. ~ soak.mixed /\ r.cmd \notin {"configure", "start", "simulate"}
      BY <1>3, <1>7, <2>3
    <3>2. CASE UNCHANGED <<services, takes>>
      BY <3>1, <3>2 DEF Undisturbed
    <3>3. CASE \/ Look(r, r.at) \/ Configure(r, r.at) \/ Start(r, r.at)
               \/ Switch(r, r.at) \/ Simulate(r, r.at) \/ Stop(r, r.at)
      <4>1. Look(r, r.at) \/ Switch(r, r.at) \/ Stop(r, r.at)
        BY <3>1, <3>3 DEF Configure, Start, Simulate
      <4> QED BY <1>1, <2>3, <3>1, <4>1, OthersLeave DEF SoakInv
    <3> QED BY <1>2, <3>2, <3>3
  <2> QED BY <1>4, <1>6, <2>2, <2>3, SoakKept
<1>8. CASE r.client = "soak"
  <2>1. /\ r \in Of("soak") /\ Of("soak") = {r} /\ GoodSoak(r) /\ PlaceInv
    BY <1>8 DEF Of, SoakInv, PlaceInv
  <2>2. soak.at > 0 /\ soak.report = 0 /\ soak.at \in 1..Len(SoakProgram)
    BY <1>4, <2>1, Program, ServiceNumbers DEF PlaceInv, SoakType
  <2>3. ASSUME NEW q \in Of("soak")' PROVE GoodSoak(q)'
    <3>1. /\ q.cmd = r.cmd /\ q.token = r.token /\ q.phase = "answered" /\ q.answer = AnswerTo(r, ok)
      BY <1>3, <2>1
    <3>2. q.cmd = SoakProgram[soak.at] /\ q.token = soak.token
      BY <2>1, <3>1 DEF GoodSoak
    <3>3. q.answer.ok = ok /\ q.answer.first = IF ok /\ r.cmd = "list" THEN Len(takes) ELSE 0
      BY <3>1 DEF AnswerTo, First
    <3>4. r.cmd = "list" => soak.at = Len(SoakProgram)
      <4>1. r.cmd = SoakProgram[soak.at]
        BY <3>1, <3>2
      <4>2. SoakProgram[soak.at] = "list" <=> soak.at = SoakBatches + 4
        BY ONLY <2>2, ProgramCommands
      <4> QED BY <4>1, <4>2, Program
    <3>5. ASSUME ~ soak'.mixed, ok
          PROVE  Progress(soak.at)' /\ q.answer.first \in {0, Len(takes')}
      <4>1. /\ Authentic(r)
            /\ \/ Look(r, r.at) \/ Configure(r, r.at) \/ Start(r, r.at)
               \/ Switch(r, r.at) \/ Simulate(r, r.at) \/ Stop(r, r.at)
        BY <1>2, <3>5
      <4>2. r.at = soak.token /\ r.cmd = SoakProgram[soak.at]
        BY <2>1, <4>1 DEF Authentic, GoodSoak
      <4>3. soak.at > 1 => ~ soak.mixed
        <5>1. SoakProgram[soak.at] = "configure" <=> soak.at = 1
          BY ONLY <2>2, ProgramCommands
        <5>2. soak.at > 1 => r.cmd # "configure"
          BY <2>2, <4>2, <5>1
        <5>3. r.cmd # "configure" => (soak'.mixed = (soak.mixed /\ TRUE))
          BY ONLY <1>3, <1>8
        <5>4. soak.mixed \in BOOLEAN
          BY <1>4 DEF SoakType
        <5> QED BY ONLY <3>5, <5>2, <5>3, <5>4
      <4>4. soak.at > 1 => Progress(soak.at - 1)
        BY <1>1, <2>1, <4>3 DEF GoodSoak
      <4> PICK i \in 1..Len(SoakProgram) : i = soak.at
        BY <2>2
      <4>5. \/ Look(r, soak.token) \/ Configure(r, soak.token) \/ Start(r, soak.token)
            \/ Switch(r, soak.token) \/ Simulate(r, soak.token) \/ Stop(r, soak.token)
        BY <4>1, <4>2
      <4>6. /\ r.cmd = SoakProgram[i] /\ soak.at = i /\ (i > 1 => Progress(i - 1))
            /\ services[soak.token].phase = "ready"
        BY <1>1, <4>2, <4>4
      <4>7. Progress(i)' /\ (r.cmd = "list" => takes' = takes)
        BY ONLY StopInv, <1>4, <1>8, <2>1, <4>5, <4>6, i \in 1..Len(SoakProgram), OwnCommand
      <4>8. i = soak'.at
        BY <1>4
      <4> QED BY <3>3, <4>7, <4>8
    <3> QED BY ONLY <1>4, <3>1, <3>2, <3>3, <3>4, <3>5 DEF GoodSoak
  <2> QED BY <1>4, <1>6, <2>2, <2>3 DEF SoakInv
<1> QED BY <1>7, <1>8

-------------------------------------------------------------------------------
(* Steps about requests that leave the run's as they are to it. *)
LEMMA RequestsLeave ==
  ASSUME StopInv, TypeInv, SoakInv, UNCHANGED <<services, tokenFile, takes, soak>>,
         budget.soak = 0 => budget'.soak = 0,
         \A q \in Of("soak")' : \E p \in Of("soak") : SameToSoak(q, p),
         \A q, p \in Of("soak")' : q = p
  PROVE  SoakInv'
<1>1. PlaceInv'
  <2>1. \A s \in Services : Taking(s)'
    BY DEF SoakInv, PlaceInv, Taking
  <2>2. \A s : HasBound(s) => HasBound(s)'
    BY DEF HasBound
  <2>3. Of("soak")' # {} => Of("soak") # {}
    OBVIOUS
  <2> QED BY <2>1, <2>2, <2>3, PlaceKept DEF SoakInv
<1>2. Undisturbed
  BY DEF Undisturbed
<1> QED BY <1>1, <1>2, SoakKept

(* A request of another client is made. *)
LEMMA MakeSoak ==
  ASSUME StopInv, TypeInv, SoakInv, UNCHANGED <<services, tokenFile, takes, soak>>,
         NEW client \in {"gui", "operator"}, NEW cmd, Make(client, cmd)
  PROVE  SoakInv'
<1> DEFINE rest == [q \in requests |-> [q EXCEPT !.alone = @ /\ q.client # client]]
           new == Request(client, cmd, tokenFile)
<1>1. \A q \in requests : rest[q].client = q.client /\ SameToSoak(rest[q], q)
  <2>1. \A q \in requests : IsRequest(q)
    BY DEF StopInv, GoodRequest
  <2> QED BY <2>1 DEF IsRequest, Fields, SameToSoak
<1>2. new.client = client
  BY DEF Request
<1>3. requests' = {rest[q] : q \in requests} \cup {new}
  BY DEF Make
<1>4. budget.soak = 0 => budget'.soak = 0
  <2>1. budget \in BudgetType /\ budget' = [budget EXCEPT ![client] = budget[client] - 1]
    BY DEF Make, TypeInv
  <2> QED BY <2>1 DEF BudgetType
<1> HIDE DEF rest, new
<1>5. \A q \in Of("soak")' : \E p \in Of("soak") : q = rest[p]
  BY <1>1, <1>2, <1>3 DEF Of
<1>6. \A q \in Of("soak")' : \E p \in Of("soak") : SameToSoak(q, p)
  BY <1>1, <1>5 DEF Of
<1>7. \A q, p \in Of("soak")' : q = p
  BY <1>5 DEF SoakInv, PlaceInv
<1> QED BY <1>4, <1>6, <1>7, RequestsLeave

(* The run begins: it has never begun before. *)
LEMMA BeginSoak ==
  ASSUME StopInv, TypeInv, SoakInv, SoakBegin
  PROVE  SoakInv'
<1> DEFINE rest == [q \in requests |-> [q EXCEPT !.alone = @ /\ q.client # "soak"]]
<1> PICK new : new = Request("soak", "configure", tokenFile)
  OBVIOUS
<1>1. /\ UNCHANGED <<services, socket, tokenFile, takes, gui>> /\ Make("soak", "configure")
      /\ soak' = [soak EXCEPT !.at = 1, !.token = tokenFile]
      /\ soak \in SoakType(Len(takes)) /\ budget \in BudgetType /\ PlaceInv
  BY DEF SoakBegin, TypeInv, SoakInv
<1>2. /\ budget.soak > 0 /\ tokenFile # 0
      /\ budget' = [budget EXCEPT !["soak"] = budget["soak"] - 1]
      /\ requests' = {rest[q] : q \in requests} \cup {new}
  BY <1>1 DEF Make
<1>3. budget.soak # 0 /\ budget'.soak = 0
  BY <1>1, <1>2 DEF BudgetType
<1>4. soak.at = 0 /\ Of("soak") = {} /\ soak.report = 0
  <2>1. soak.at > 0 \/ soak.at = 0
    BY <1>1, Program, ServiceNumbers DEF SoakType
  <2> QED BY <1>1, <1>3, <2>1 DEF PlaceInv
<1>5. soak'.at = 1 /\ soak'.token = tokenFile /\ soak'.report = 0
  BY <1>1, <1>4 DEF SoakType
<1>6. new.cmd = "configure" /\ new.token = tokenFile /\ new.phase = "made" /\ new.answer.first = 0
  BY DEF Request, NoAnswer
<1>7. \A q \in requests : rest[q].client = q.client
  <2>1. \A q \in requests : IsRequest(q)
    BY DEF StopInv, GoodRequest
  <2> QED BY <2>1 DEF IsRequest, Fields
<1> HIDE DEF rest
<1>8. \A q \in Of("soak")' : q = new
  BY <1>2, <1>4, <1>7 DEF Of
<1>9. HasBound(tokenFile)'
  BY <1>1, <1>2 DEF PlaceInv, HasBound
<1>10. PlaceInv'
  <2>1. \A s \in Services : Taking(s)'
    BY <1>1 DEF PlaceInv, Taking
  <2>2. HasBound(soak.token)' /\ HasBound(tokenFile)'
    <3>1. \A s : s = tokenFile => HasBound(s)'
      BY <1>9, <1>1
    <3>2. PICK s : s = tokenFile
      OBVIOUS
    <3>3. s = soak'.token /\ s = tokenFile' /\ HasBound(s)'
      BY <1>1, <1>5, <3>1, <3>2
    <3> QED BY <3>3
  <2> QED BY <1>3, <1>5, <1>8, <2>1, <2>2 DEF PlaceInv
<1>11. GoodSoak(new)'
  <2>1. new.cmd = SoakProgram[1]
    BY <1>6, Program
  <2> QED BY ONLY <1>5, <1>6, <2>1 DEF GoodSoak
<1> QED BY <1>5, <1>8, <1>10, <1>11 DEF SoakInv

(* The run has an answer: it makes its next request, or its report.        *)
LEMMA ReceiveSoak ==
  ASSUME StopInv, TypeInv, SoakInv, NEW r \in requests, SoakReceive(r)
  PROVE  SoakInv'
<1>1. /\ r \in Of("soak") /\ r.phase = "answered" /\ GoodSoak(r) /\ PlaceInv
      /\ UNCHANGED <<services, socket, tokenFile, takes, budget, gui>>
      /\ soak \in SoakType(Len(takes)) /\ takes \in Seq(Sessions) /\ Len(takes) \in Nat
  BY DEF SoakReceive, Of, SoakInv, TypeInv, StopInv
<1>2. /\ soak.at > 0 /\ soak.at \in 1..Len(SoakProgram) /\ soak.report = 0
      /\ Of("soak") = {r} /\ HasBound(soak.token) /\ budget.soak = 0
  <2>1. soak.at # 0 /\ soak.report = 0 /\ Of("soak") = {r}
    BY <1>1 DEF PlaceInv
  <2>2. soak.at > 0 /\ soak.at \in 1..Len(SoakProgram)
    BY <1>1, <2>1, Program, ServiceNumbers DEF SoakType
  <2> QED BY <1>1, <2>1, <2>2 DEF PlaceInv
<1>3. /\ \A s \in Services : Taking(s)'
      /\ \A s : HasBound(s) => HasBound(s)'
      /\ tokenFile' # 0 => HasBound(tokenFile)'
  BY <1>1 DEF PlaceInv, Taking, HasBound
<1>4. CASE SoakGoesOn(r) /\ soak.at < Len(SoakProgram)
  <2> PICK new : new = [Request("soak", SoakProgram[soak.at + 1], soak.token) EXCEPT !.id = r.id]
    OBVIOUS
  <2>1. /\ soak' = [soak EXCEPT !.at = soak.at + 1] /\ requests' = (requests \ {r}) \cup {new}
        /\ r.answer.ok
    BY <1>4 DEF SoakReceive, SoakGoesOn
  <2>2. /\ soak'.at = soak.at + 1 /\ soak'.token = soak.token /\ soak'.report = soak.report
        /\ soak'.mixed = soak.mixed
    BY <1>1, <2>1 DEF SoakType
  <2>3. /\ new.client = "soak" /\ new.cmd = SoakProgram[soak.at + 1] /\ new.token = soak.token
        /\ new.phase = "made" /\ new.answer.first = 0
    BY DEF Request, NoAnswer
  <2>4. \A q \in Of("soak")' : q = new
    BY <1>2, <2>1 DEF Of
  <2> PICK k, T : k = soak.at /\ T = soak.token
    OBVIOUS
  <2>5. PlaceInv'
    <3>1. soak'.at # 0 /\ soak'.report = 0 /\ budget'.soak = 0
      BY <1>1, <1>2, <2>2
    <3>2. HasBound(T)' /\ soak'.token = T
      BY <1>2, <1>3, <2>2
    <3>3. HasBound(soak.token)'
      BY ONLY <3>2 DEF HasBound
    <3> QED BY ONLY <1>3, <2>4, <3>1, <3>3 DEF PlaceInv
  <2>6. ASSUME ~ soak'.mixed PROVE Progress(k)'
    <3>1. Progress(k)
      BY <1>1, <2>1, <2>2, <2>6 DEF GoodSoak
    <3>2. \A e : Progress(e) => Progress(e)'
      BY ONLY <1>1, <2>2 DEF Progress, Own, Last
    <3> QED BY <3>1, <3>2
  <2>7. GoodSoak(new)'
    <3>1. soak'.at - 1 = k /\ soak'.at = k + 1
      BY <1>2, <2>2
    <3>2. ~ soak'.mixed => Progress(soak.at - 1)'
      BY <2>6, <3>1
    <3> QED BY ONLY <2>2, <2>3, <3>2 DEF GoodSoak
  <2>8. soak'.report = 0
    BY <1>2, <2>2
  <2> QED BY ONLY <2>4, <2>5, <2>7, <2>8 DEF SoakInv
<1>5. CASE ~ (SoakGoesOn(r) /\ soak.at < Len(SoakProgram))
  <2>1. soak' = [soak EXCEPT !.report = r.answer.first] /\ requests' = requests \ {r}
    BY <1>5 DEF SoakReceive
  <2>2. /\ soak'.at = soak.at /\ soak'.token = soak.token /\ soak'.report = r.answer.first
        /\ soak'.mixed = soak.mixed
    BY <1>1, <2>1 DEF SoakType
  <2>3. Of("soak")' = {}
    BY <1>2, <2>1 DEF Of
  <2> PICK k, T : k = soak.at /\ T = soak.token
    OBVIOUS
  <2>4. PlaceInv'
    <3>1. soak'.at # 0 /\ budget'.soak = 0
      BY <1>1, <1>2, <2>2
    <3>2. HasBound(T)' /\ soak'.token = T
      BY <1>2, <1>3, <2>2
    <3>3. HasBound(soak.token)'
      BY ONLY <3>2 DEF HasBound
    <3> QED BY ONLY <1>3, <2>3, <3>1, <3>3 DEF PlaceInv
  <2>5. ASSUME soak'.report # 0, ~ soak'.mixed PROVE Finished(soak.report)'
    <3>1. /\ Progress(soak.at) /\ r.answer.first = Len(takes) /\ soak.at = SoakBatches + 4
      BY <1>1, <2>2, <2>5, Program DEF GoodSoak
    <3>2. SoakBatches + 4 # 1 /\ SoakBatches + 4 > SoakBatches + 2
          /\ ~ (SoakBatches + 4 <= SoakBatches + 2)
      BY ServiceNumbers
    <3>3. /\ Len(takes) > 0 /\ Last.by = soak.token /\ Last.config = "soak"
          /\ Last.frames = SoakBatches /\ Last.complete
      BY ONLY <3>1, <3>2 DEF Progress
    <3>4. Len(takes) \in 1..Len(takes)
      BY <1>1, <3>3
    <3> QED BY ONLY <1>1, <2>2, <3>1, <3>3, <3>4 DEF Finished, Last
  <2> QED BY ONLY <2>3, <2>4, <2>5 DEF SoakInv
<1> QED BY <1>4, <1>5

LEMMA SoakInit == Init => SoakInv
<1> SUFFICES ASSUME Init PROVE SoakInv
  OBVIOUS
<1>1. requests = {} /\ tokenFile = 0
      /\ soak = [at |-> 0, token |-> 0, report |-> 0, mixed |-> FALSE]
      /\ \A s \in Services : services[s].state = "Idle" /\ services[s].take = 0
  BY DEF Init, Fresh
<1> QED BY <1>1 DEF SoakInv, PlaceInv, Taking, Of

LEMMA SoakNext == StopInv /\ StopInv' /\ TypeInv /\ SoakInv /\ [Next]_vars => SoakInv'
<1> SUFFICES ASSUME StopInv, StopInv', TypeInv, SoakInv, [Next]_vars PROVE SoakInv'
  OBVIOUS
<1>0. /\ PlaceInv /\ services \in [Services -> Processes] /\ \A q \in requests : IsRequest(q)
  BY DEF SoakInv, StopInv, GoodRequest
<1>1. ASSUME NEW s \in Services, Listen(s) \/ WriteToken(s) \/ Kill(s) PROVE SoakInv'
  <2>1. requests' \subseteq requests /\ UNCHANGED <<takes, budget, soak, stopsFor>>
    BY <1>1 DEF Listen, WriteToken, Kill
  <2>2. /\ \A p \in Services : p # s => services'[p] = services[p]
        /\ services[s].phase \notin {"ready", "dead"} \/ services'[s].phase = "dead"
        /\ services[s].phase \in {"ready", "dead"} => services'[s].phase = "dead"
        /\ \/ services'[s].take = services[s].take /\ services'[s].state = services[s].state
           \/ services'[s].take = 0 /\ services'[s].state = "Idle"
    BY <1>0, <1>1 DEF Listen, WriteToken, Kill, Alive, Fresh, Processes
  <2>3. \A p \in Services : Taking(p)'
    BY <1>0, <2>2 DEF PlaceInv, Taking
  <2>4. \A p : HasBound(p) => HasBound(p)'
    BY <2>2 DEF HasBound
  <2>5. tokenFile' = tokenFile \/ HasBound(tokenFile)'
    BY <1>0, <1>1 DEF Listen, WriteToken, Kill, HasBound, Processes
  <2>6. Of("soak")' \subseteq Of("soak")
    BY <2>1 DEF Of
  <2>7. PlaceInv'
    BY <1>0, <2>1, <2>3, <2>4, <2>5, <2>6, PlaceKept DEF PlaceInv
  <2>8. ASSUME soak.at > 0 PROVE Undisturbed
    <3>1. soak.token \in Services /\ services[soak.token].phase \in {"ready", "dead"}
      BY <1>0, <2>8 DEF PlaceInv, HasBound
    <3>2. soak.token = s \/ services'[soak.token] = services[soak.token]
      BY <2>2, <3>1
    <3> QED BY <2>1, <2>2, <3>1, <3>2 DEF Undisturbed
  <2>9. \A q \in Of("soak")' : \E p \in Of("soak") : SameToSoak(q, p)
    BY <2>6 DEF SameToSoak
  <2> QED BY <2>1, <2>7, <2>8, <2>9, SoakKept
<1>2. ASSUME NEW r \in requests, Handle(r) PROVE SoakInv'
  BY <1>2, HandleSoak
<1>3. ASSUME NEW r \in requests, Connect(r) \/ Send(r) PROVE SoakInv'
  <2>1. /\ UNCHANGED <<services, socket, tokenFile, takes, budget, gui, soak, stopsFor>>
        /\ r.phase # "answered"
    BY <1>3 DEF Connect, Send
  <2>2. PICK x : /\ x.client = r.client /\ SameToSoak(x, r)
                 /\ requests' = requests \ {r} \/ requests' = (requests \ {r}) \cup {x}
    <3>1. CASE Send(r)
      <4> DEFINE y == [r EXCEPT !.phase = "sent"]
      <4>1. y.client = r.client /\ SameToSoak(y, r)
        BY <1>0, <2>1 DEF IsRequest, Fields, SameToSoak
      <4> QED BY <3>1, <4>1 DEF Send
    <3>2. CASE Connect(r) /\ Alive(socket)
      <4> DEFINE y == [r EXCEPT !.phase = "connected", !.at = socket]
      <4>1. y.client = r.client /\ SameToSoak(y, r)
        BY <1>0, <2>1 DEF IsRequest, Fields, SameToSoak
      <4>2. requests' = (requests \ {r}) \cup {y}
        BY <3>2 DEF Connect
      <4> HIDE DEF y
      <4> QED BY <4>1, <4>2
    <3>3. CASE Connect(r) /\ ~ Alive(socket)
      <4>1. requests' = requests \ {r}
        BY <3>3 DEF Connect
      <4> QED BY <4>1 DEF SameToSoak
    <3> QED BY <1>3, <3>1, <3>2, <3>3
  <2>3. \A q \in Of("soak")' : (q = x /\ r \in Of("soak")) \/ (q \in Of("soak") /\ q # r)
    BY <2>2 DEF Of
  <2>4. \A q \in Of("soak")' : \E p \in Of("soak") : SameToSoak(q, p)
    BY <2>2, <2>3 DEF SameToSoak
  <2>5. \A q, p \in Of("soak")' : q = p
    BY <1>0, <2>3 DEF PlaceInv
  <2> QED BY <2>1, <2>4, <2>5, RequestsLeave
<1>4. ASSUME NEW cmd, Operate(cmd) PROVE SoakInv'
  BY <1>4, MakeSoak DEF Operate
<1>5. CASE SoakBegin
  BY <1>5, BeginSoak
<1>6. ASSUME NEW r \in requests, SoakReceive(r) PROVE SoakInv'
  BY <1>6, ReceiveSoak
<1>7. CASE Launch
  BY <1>7, MakeSoak DEF Launch
<1>8. ASSUME NEW cmd, Press(cmd) PROVE SoakInv'
  BY <1>8, MakeSoak DEF Press
<1>9. ASSUME UNCHANGED <<services, tokenFile, takes, budget, soak>>, Of("soak")' \subseteq Of("soak")
      PROVE  SoakInv'
  <2>1. \A q \in Of("soak")' : \E p \in Of("soak") : SameToSoak(q, p)
    BY <1>9 DEF SameToSoak
  <2> QED BY <1>0, <1>9, <2>1, RequestsLeave DEF PlaceInv
<1>10. CASE CloseWindow
  <2> DEFINE closed(q) == [q EXCEPT !.client = "closed", !.alone = FALSE]
  <2>1. \A q \in requests : closed(q).client = "closed"
    BY <1>0 DEF IsRequest, Fields
  <2>2. \A q \in requests' : q \in requests \/ \E p \in requests : q = closed(p)
    BY <1>10 DEF CloseWindow, Of
  <2> HIDE DEF closed
  <2>3. Of("soak")' \subseteq Of("soak")
    BY <2>1, <2>2 DEF Of
  <2> QED BY <1>9, <1>10, <2>3 DEF CloseWindow
<1>11. CASE ArmStop
  BY <1>9, <1>11 DEF ArmStop, Of
<1>12. ASSUME NEW r \in requests, GuiReceive(r) PROVE SoakInv'
  <2>1. Of("soak")' \subseteq Of("soak")
    BY <1>12 DEF GuiReceive, Of
  <2> QED BY <1>9, <1>12, <2>1 DEF GuiReceive
<1>13. CASE UNCHANGED vars
  BY <1>9, <1>13 DEF vars, Of
<1> QED
  BY <1>1, <1>2, <1>3, <1>4, <1>5, <1>6, <1>7, <1>8, <1>10, <1>11, <1>12, <1>13
  DEF Next, ServiceStep, GuiStep, Of

(* A soak run that reports a take reports its own, finished and with a     *)
(* frame for each batch, unless another client configured, started or      *)
(* simulated: whatever others pause, resume and stop, whichever service is *)
(* lost or takes the socket over, and for any number of batches.           *)
THEOREM ReportsAreOwn == Spec => []ReportIsOwn
<1>1. StopInv /\ TypeInv /\ SoakInv => ReportIsOwn
  <2> SUFFICES ASSUME StopInv, TypeInv, SoakInv, soak.report # 0, ~ soak.mixed
               PROVE  takes[soak.report] =
                        [by |-> soak.token, config |-> "soak", frames |-> SoakBatches, complete |-> TRUE]
    BY DEF ReportIsOwn
  <2>1. Finished(soak.report)
    BY DEF SoakInv
  <2>2. takes[soak.report] \in Sessions
    BY <2>1 DEF Finished, StopInv
  <2> QED BY <2>1, <2>2 DEF Finished, Sessions
<1> QED BY <1>1, StopInit, StopNext, TypeInit, TypeNext, SoakInit, SoakNext, PTL DEF Spec

===============================================================================
