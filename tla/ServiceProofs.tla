----------------------------- MODULE ServiceProofs -----------------------------
(* Theorems about Service, for any requests in any number and order, every *)
(* size of the cache, and any number of failures and restarts.             *)
EXTENDS Service, SequenceTheorems, TLAPS

-------------------------------------------------------------------------------
(* The helpers on sequences. *)

(* Newest keeps the last n elements. *)
LEMMA NewestProperties ==
  ASSUME NEW S, NEW s \in Seq(S), NEW n \in Nat
  PROVE  /\ Newest(s, n) \in Seq(S)
         /\ Len(Newest(s, n)) = IF Len(s) <= n THEN Len(s) ELSE n
         /\ \A i \in 1..Len(Newest(s, n)) :
              Newest(s, n)[i] = s[(Len(s) - Len(Newest(s, n))) + i]
<1>1. Len(s) \in Nat /\ \A i \in 1..Len(s) : s[i] \in S
  BY LenProperties, ElementOfSeq
<1>2. CASE Len(s) <= n
  BY <1>1, <1>2 DEF Newest
<1>3. CASE ~ (Len(s) <= n)
  <2>1. Newest(s, n) = SubSeq(s, Len(s) - n + 1, Len(s))
    BY <1>3 DEF Newest
  <2>2. /\ Len(s) - n + 1 \in Int /\ Len(s) \in Int
        /\ \A i \in (Len(s) - n + 1)..Len(s) : s[i] \in S
    BY <1>1, <1>3
  <2>3. /\ Newest(s, n) \in Seq(S)
        /\ Len(Newest(s, n)) = IF Len(s) - n + 1 <= Len(s) THEN Len(s) - (Len(s) - n + 1) + 1 ELSE 0
        /\ \A i \in 1..(Len(s) - (Len(s) - n + 1) + 1) :
             Newest(s, n)[i] = s[(Len(s) - n + 1) + i - 1]
    <3> DEFINE from == Len(s) - n + 1
    <3>1. /\ from \in Int /\ Len(s) \in Int
          /\ \A i \in from..Len(s) : s[i] \in S
      BY <2>2
    <3> HIDE DEF from
    <3>2. /\ SubSeq(s, from, Len(s)) \in Seq(S)
          /\ Len(SubSeq(s, from, Len(s))) = IF from <= Len(s) THEN Len(s) - from + 1 ELSE 0
          /\ \A i \in 1..(Len(s) - from + 1) : SubSeq(s, from, Len(s))[i] = s[from + i - 1]
      BY ONLY <3>1, SubSeqProperties
    <3> QED BY <2>1, <3>2 DEF from
  <2>4. Len(Newest(s, n)) = n
    <3>1. Len(s) - n + 1 <= Len(s) \/ n = 0
      BY ONLY <1>1, n \in Nat
    <3>2. Len(s) - (Len(s) - n + 1) + 1 = n
      BY ONLY <1>1, n \in Nat
    <3>3. n = 0 => ~ (Len(s) - n + 1 <= Len(s))
      BY ONLY <1>1, n \in Nat
    <3> QED BY ONLY <2>3, <3>1, <3>2, <3>3
  <2>5. ASSUME NEW i \in 1..n PROVE Newest(s, n)[i] = s[(Len(s) - n) + i]
    <3>1. i \in 1..(Len(s) - (Len(s) - n + 1) + 1) /\ (Len(s) - n + 1) + i - 1 = (Len(s) - n) + i
      BY <1>1
    <3> QED BY <2>3, <3>1
  <2> QED BY <1>3, <2>3, <2>4, <2>5
<1> QED BY <1>2, <1>3

(* An element more. *)
LEMMA AppendedOnce ==
  ASSUME NEW S, NEW s \in Seq(S), NEW x \in S
  PROVE  /\ Append(s, x) \in Seq(S)
         /\ Len(s) \in Nat /\ Len(Append(s, x)) = Len(s) + 1
         /\ \A i \in 1..Len(s) : Append(s, x)[i] = s[i]
         /\ Append(s, x)[Len(s) + 1] = x
         /\ DOMAIN s = 1..Len(s) /\ DOMAIN Append(s, x) = 1..(Len(s) + 1)
BY AppendProperties, LenProperties

(* One that is new leaves the elements distinct. *)
LEMMA AppendDistinct ==
  ASSUME NEW S, NEW s \in Seq(S), NEW x \in S, Distinct(s), x \notin Elements(s)
  PROVE  Distinct(Append(s, x))
<1>1. \A i \in 1..Len(s) : s[i] # x
  BY AppendedOnce DEF Elements
<1>2. \A i \in 1..(Len(s) + 1) : i \in 1..Len(s) \/ i = Len(s) + 1
  BY AppendedOnce
<1> QED BY <1>1, <1>2, AppendedOnce DEF Distinct

-------------------------------------------------------------------------------
(* The sessions under the ways a request changes them. *)

LEMMA SessionTypes ==
  ASSUME TypeOK
  PROVE  /\ Len(sessions) \in Nat /\ DOMAIN sessions = 1..Len(sessions)
         /\ \A s \in DOMAIN sessions :
              /\ sessions[s] \in Session /\ sessions[s].frames \in Nat
              /\ sessions[s].markers \in Seq({r.id : r \in Requests})
              /\ sessions[s].parts \in BOOLEAN /\ sessions[s].outputs \in BOOLEAN
              /\ sessions[s].status \in {"Active"} \cup Delivered
         /\ live # 0 => live \in DOMAIN sessions
<1>1. Len(sessions) \in Nat /\ DOMAIN sessions = 1..Len(sessions)
  BY LenProperties DEF TypeOK
<1>2. \A s \in DOMAIN sessions : sessions[s] \in Session
  BY <1>1, ElementOfSeq DEF TypeOK
<1>3. live # 0 => live \in DOMAIN sessions
  BY <1>1 DEF TypeOK
<1> QED BY <1>1, <1>2, <1>3 DEF Session

(* The session being recorded changes. *)
LEMMA LiveUpdate ==
  ASSUME TypeOK, live # 0, NEW x \in Session, sessions' = [sessions EXCEPT ![live] = x]
  PROVE  /\ sessions' \in Seq(Session) /\ Len(sessions') = Len(sessions)
         /\ DOMAIN sessions' = DOMAIN sessions
         /\ \A s \in DOMAIN sessions : sessions'[s] = IF s = live THEN x ELSE sessions[s]
<1>1. live \in 1..Len(sessions) /\ DOMAIN sessions = 1..Len(sessions)
  BY SessionTypes
<1>2. sessions \in Seq(Session)
  BY DEF TypeOK
<1>3. /\ sessions' \in Seq(Session) /\ Len(sessions') = Len(sessions)
      /\ \A s \in 1..Len(sessions) : sessions'[s] = IF s = live THEN x ELSE sessions[s]
  BY <1>1, <1>2, ExceptSeq
<1> QED BY <1>1, <1>3, LenProperties

(* So it does when the recorder persists its manifest. *)
LEMMA PersistUpdate ==
  ASSUME TypeOK, NEW session \in Session, Persist(session)
  PROVE  /\ live # 0 /\ live \in DOMAIN sessions
         /\ sessions' \in Seq(Session) /\ Len(sessions') = Len(sessions)
         /\ DOMAIN sessions' = DOMAIN sessions
         /\ \A s \in DOMAIN sessions :
              sessions'[s] = IF s = live THEN [session EXCEPT !.status = "Active"] ELSE sessions[s]
<1>1. [session EXCEPT !.status = "Active"] \in Session
  BY DEF Session
<1> QED BY <1>1, LiveUpdate, SessionTypes DEF Persist

(* A take is started. *)
LEMMA StartUpdate ==
  ASSUME TypeOK, sessions' = Append(sessions, NewSession)
  PROVE  /\ sessions' \in Seq(Session) /\ Len(sessions') = Len(sessions) + 1
         /\ DOMAIN sessions' = DOMAIN sessions \cup {Len(sessions')}
         /\ Len(sessions') \notin DOMAIN sessions
         /\ \A s \in DOMAIN sessions : sessions'[s] = sessions[s]
         /\ sessions'[Len(sessions')] = NewSession
<1>1. NewSession \in Session
  <2>1. <<>> \in Seq({r.id : r \in Requests})
    OBVIOUS
  <2> QED BY <2>1 DEF NewSession, Session
<1>2. sessions \in Seq(Session)
  BY DEF TypeOK
<1>3. 1..(Len(sessions) + 1) = 1..Len(sessions) \cup {Len(sessions) + 1}
  BY <1>2, LenProperties
<1> QED BY <1>1, <1>2, <1>3, AppendedOnce

(* A session of every one before makes a sequence of sessions again. *)
LEMMA SequencesOfSessions ==
  ASSUME Len(sessions) \in Nat, DOMAIN sessions = 1..Len(sessions),
         sessions' = [s \in DOMAIN sessions |-> sessions'[s]],
         \A s \in DOMAIN sessions : sessions'[s] \in Session
  PROVE  /\ sessions' \in Seq(Session) /\ Len(sessions') = Len(sessions)
         /\ DOMAIN sessions' = DOMAIN sessions
<1>1. sessions' \in [1..Len(sessions) -> Session] /\ DOMAIN sessions' = 1..Len(sessions)
  <2>1. sessions' \in [DOMAIN sessions -> Session] /\ DOMAIN sessions' = DOMAIN sessions
    OBVIOUS
  <2> QED BY <2>1
<1>2. sessions' \in Seq(Session)
  BY <1>1, SeqDef
<1>3. Len(sessions') = Len(sessions)
  BY <1>1, <1>2, LenProperties
<1> QED BY <1>1, <1>2, <1>3

(* A session that a recovery has reached. *)
Statuses == {"Active"} \cup Delivered

Reached(x, status) == [x EXCEPT !.status = status, !.outputs = TRUE]

LEMMA ReachedSession ==
  ASSUME NEW x, x \in Session, NEW status, status \in Statuses
  PROVE  /\ Reached(x, status) \in Session
         /\ Reached(x, status).status = status
         /\ Reached(x, status).outputs = TRUE
         /\ Reached(x, status).markers = x.markers
BY DEF Session, Reached, Statuses

(* Some are recovered. *)
Recovers(s) ==
  /\ Recoverable(s)
  /\ sessions'[s].outputs
  /\ sessions'[s].status \in {sessions[s].status, "Recovered"}
  /\ sessions'[s].markers = sessions[s].markers

LEMMA RecoverUpdate ==
  ASSUME TypeOK, NEW chosen, RecoverThese(chosen), \A s \in chosen : Recoverable(s)
  PROVE  /\ sessions' \in Seq(Session) /\ Len(sessions') = Len(sessions)
         /\ DOMAIN sessions' = DOMAIN sessions
         /\ \A s \in DOMAIN sessions : sessions'[s] = sessions[s] \/ Recovers(s)
<1>1. ASSUME NEW s \in DOMAIN sessions
      PROVE  /\ sessions'[s] \in Session
             /\ sessions'[s] = sessions[s] \/ Recovers(s)
  <2>1. /\ sessions[s] \in Session /\ "Recovered" \in Statuses
        /\ s \in chosen => Recoverable(s)
    BY SessionTypes DEF Delivered, Statuses
  <2>2. sessions'[s] = IF s \in chosen THEN Reached(sessions[s], "Recovered") ELSE sessions[s]
    BY DEF RecoverThese, Reached
  <2>3. CASE s \in chosen
    <3>1. sessions'[s] = Reached(sessions[s], "Recovered")
      BY ONLY <2>2, <2>3
    <3>2. /\ Reached(sessions[s], "Recovered") \in Session
          /\ Reached(sessions[s], "Recovered").status = "Recovered"
          /\ Reached(sessions[s], "Recovered").outputs = TRUE
          /\ Reached(sessions[s], "Recovered").markers = sessions[s].markers
      BY ONLY <2>1, ReachedSession
    <3>3. /\ sessions'[s] \in Session
          /\ sessions'[s].status = "Recovered" /\ sessions'[s].outputs = TRUE
          /\ sessions'[s].markers = sessions[s].markers
      BY ONLY <3>1, <3>2
    <3> QED BY ONLY <2>1, <2>3, <3>3 DEF Recovers
  <2>4. CASE s \notin chosen
    BY ONLY <2>1, <2>2, <2>4
  <2> QED BY ONLY <2>3, <2>4
<1>2. DOMAIN sessions = 1..Len(sessions) /\ Len(sessions) \in Nat
  BY SessionTypes
<1>3. sessions' = [s \in DOMAIN sessions |-> sessions'[s]]
  BY DEF RecoverThese
<1> QED BY ONLY <1>1, <1>2, <1>3, SequencesOfSessions

(* What executing a request does to the cache. *)
LEMMA ExecuteUpdate ==
  ASSUME TypeOK, NEW r \in Requests, NEW cmd, Execute(r, cmd)
  PROVE  /\ cached' \in Seq(Requests) /\ recent' \in Seq(Requests)
         /\ Len(cached') <= CacheSize /\ Len(recent') <= CacheSize + 1
<1>1. Append(cached, r) \in Seq(Requests) /\ Append(recent, r) \in Seq(Requests)
  BY AppendProperties DEF TypeOK
<1>2. CacheSize \in Nat /\ CacheSize + 1 \in Nat
  BY SizesAssumption
<1>3. /\ cached' = Newest(Append(cached, r), CacheSize)
      /\ recent' = Newest(Append(recent, r), CacheSize + 1)
  BY DEF Execute, Evict
<1>4. ASSUME NEW s \in Seq(Requests), NEW n \in Nat
      PROVE  Newest(s, n) \in Seq(Requests) /\ Len(Newest(s, n)) <= n
  <2>1. /\ Newest(s, n) \in Seq(Requests)
        /\ Len(Newest(s, n)) = IF Len(s) <= n THEN Len(s) ELSE n
    BY NewestProperties
  <2> QED BY <2>1
<1> QED BY <1>1, <1>2, <1>3, <1>4

(* finalize, whether it ends or fails. *)
LEMMA StopUpdate ==
  ASSUME TypeOK, live # 0, NEW status \in {"Active"} \cup Delivered, NEW parts \in BOOLEAN,
         sessions' = [sessions EXCEPT ![live].status = status, ![live].parts = parts]
  PROVE  /\ sessions' \in Seq(Session) /\ Len(sessions') = Len(sessions)
         /\ DOMAIN sessions' = DOMAIN sessions
         /\ \A s \in DOMAIN sessions : s # live => sessions'[s] = sessions[s]
         /\ sessions'[live].status = status /\ sessions'[live].parts = parts
         /\ sessions'[live].outputs = sessions[live].outputs
         /\ sessions'[live].markers = sessions[live].markers
         /\ sessions'[live].frames = sessions[live].frames
<1> DEFINE after == [sessions[live] EXCEPT !.status = status, !.parts = parts]
<1>1. live \in DOMAIN sessions /\ sessions[live] \in Session
  BY SessionTypes
<1>2. /\ after \in Session
      /\ after.status = status /\ after.parts = parts
      /\ after.outputs = sessions[live].outputs /\ after.markers = sessions[live].markers
      /\ after.frames = sessions[live].frames
  BY ONLY <1>1, status \in {"Active"} \cup Delivered, parts \in BOOLEAN DEF Session
<1>3. sessions' = [sessions EXCEPT ![live] = after]
  BY <1>1
<1> HIDE DEF after
<1>4. /\ sessions' \in Seq(Session) /\ Len(sessions') = Len(sessions)
      /\ DOMAIN sessions' = DOMAIN sessions
      /\ \A s \in DOMAIN sessions : sessions'[s] = IF s = live THEN after ELSE sessions[s]
  BY ONLY TypeOK, live # 0, <1>2, <1>3, LiveUpdate
<1> QED BY ONLY <1>1, <1>2, <1>4

(* A write that fails: what session.json then holds. *)
LEMMA WriteUpdate ==
  ASSUME TypeOK, NEW r \in Requests, WriteFails(r)
  PROVE  \E after \in Session :
           /\ sessions' = [sessions EXCEPT ![live] = after]
           /\ after.status \in {"Active", sessions[live].status}
           /\ after.parts = TRUE /\ after.outputs = sessions[live].outputs
           /\ after.frames \in {sessions[live].frames, sessions[live].frames + 1}
           /\ \/ after.markers = sessions[live].markers
              \/ /\ r.id \notin Elements(sessions[live].markers)
                 /\ after.markers = Append(sessions[live].markers, r.id)
<1>1. live # 0 /\ live \in DOMAIN sessions
  BY SessionTypes DEF WriteFails
<1>2. PICK after \in [status : {"Active", sessions[live].status},
                      frames : {sessions[live].frames, sessions[live].frames + 1},
                      markers : {sessions[live].markers, Append(sessions[live].markers, r.id)},
                      parts : {TRUE}, outputs : {sessions[live].outputs}] :
        /\ after.markers # sessions[live].markers =>
             r.cmd = "mark" /\ r.id \notin Elements(sessions[live].markers)
        /\ sessions' = [sessions EXCEPT ![live] = after]
  BY DEF WriteFails
<1>3. /\ sessions[live].frames \in Nat
      /\ sessions[live].markers \in Seq({q.id : q \in Requests})
      /\ sessions[live].outputs \in BOOLEAN
      /\ sessions[live].status \in {"Active"} \cup Delivered
  BY <1>1, SessionTypes
<1>4. Append(sessions[live].markers, r.id) \in Seq({q.id : q \in Requests})
  BY <1>3, AppendProperties
<1>5. after \in Session
  <2>1. after = [status |-> after.status, frames |-> after.frames, markers |-> after.markers,
                 parts |-> after.parts, outputs |-> after.outputs]
    BY <1>2
  <2>2. /\ after.status \in {"Active", sessions[live].status}
        /\ after.frames \in {sessions[live].frames, sessions[live].frames + 1}
        /\ after.markers \in {sessions[live].markers, Append(sessions[live].markers, r.id)}
        /\ after.parts = TRUE /\ after.outputs = sessions[live].outputs
    BY <1>2
  <2>3. /\ after.status \in {"Active"} \cup Delivered /\ after.frames \in Nat
        /\ after.markers \in Seq({q.id : q \in Requests})
        /\ after.parts \in BOOLEAN /\ after.outputs \in BOOLEAN
    <3>1. after.status \in {"Active"} \cup Delivered /\ after.frames \in Nat
      BY ONLY <1>3, <2>2
    <3>2. after.markers \in Seq({q.id : q \in Requests})
      <4> DEFINE Ids == {q.id : q \in Requests}
      <4>1. sessions[live].markers \in Seq(Ids) /\ Append(sessions[live].markers, r.id) \in Seq(Ids)
        BY <1>3, <1>4
      <4> HIDE DEF Ids
      <4>2. after.markers \in Seq(Ids)
        BY ONLY <2>2, <4>1
      <4> QED BY <4>2 DEF Ids
    <3>3. after.parts \in BOOLEAN /\ after.outputs \in BOOLEAN
      BY ONLY <1>3, <2>2
    <3> QED BY ONLY <3>1, <3>2, <3>3
  <2> QED BY ONLY <2>1, <2>3 DEF Session
<1> QED BY <1>2, <1>5

(* A recovery that fails half-way. *)
LEMMA RecoverFailsUpdate ==
  ASSUME TypeOK, NEW r \in Requests, RecoverFails(r)
  PROVE  /\ sessions' \in Seq(Session) /\ Len(sessions') = Len(sessions)
         /\ DOMAIN sessions' = DOMAIN sessions
         /\ \A s \in DOMAIN sessions : sessions'[s] = sessions[s] \/ Recovers(s)
<1>1. PICK s \in DOMAIN sessions, status \in Delivered \cup {"Active"} :
        LET done == IF r.cmd = "recover" THEN {} ELSE s+1..Len(sessions) IN
        /\ \A t \in {s} \cup done : Recoverable(t)
        /\ status \in {sessions[s].status, "Recovered"}
        /\ sessions' = [t \in DOMAIN sessions |->
             CASE t \in done -> Reached(sessions[t], "Recovered")
               [] t = s      -> Reached(sessions[t], status)
               [] OTHER      -> sessions[t]]
  BY DEF RecoverFails, Reached
<1> DEFINE done == IF r.cmd = "recover" THEN {} ELSE s+1..Len(sessions)
           After(t) ==
             CASE t \in done -> Reached(sessions[t], "Recovered")
               [] t = s      -> Reached(sessions[t], status)
               [] OTHER      -> sessions[t]
<1>2. s \notin done /\ sessions' = [t \in DOMAIN sessions |-> After(t)]
  BY <1>1, SessionTypes
<1>3. /\ \A t \in {s} \cup done : Recoverable(t)
      /\ status \in {sessions[s].status, "Recovered"}
  BY <1>1
<1> HIDE DEF done
<1>4. ASSUME NEW t \in DOMAIN sessions
      PROVE  /\ sessions'[t] \in Session
             /\ sessions'[t] = sessions[t] \/ Recovers(t)
  <2>1. sessions[t] \in Session /\ "Recovered" \in Statuses /\ status \in Statuses
    BY SessionTypes DEF Delivered, Statuses
  <2>2. sessions'[t] = After(t)
    BY ONLY <1>2
  <2>3. CASE t \in done
    <3>1. sessions'[t] = Reached(sessions[t], "Recovered")
      BY ONLY <1>2, <2>2, <2>3
    <3>2. /\ Reached(sessions[t], "Recovered") \in Session
          /\ Reached(sessions[t], "Recovered").status = "Recovered"
          /\ Reached(sessions[t], "Recovered").outputs = TRUE
          /\ Reached(sessions[t], "Recovered").markers = sessions[t].markers
      BY ONLY <2>1, ReachedSession
    <3>3. /\ sessions'[t] \in Session
          /\ sessions'[t].status = "Recovered" /\ sessions'[t].outputs = TRUE
          /\ sessions'[t].markers = sessions[t].markers
      BY ONLY <3>1, <3>2
    <3> QED BY ONLY <1>3, <2>3, <3>3 DEF Recovers
  <2>4. CASE t = s
    <3>1. sessions'[t] = Reached(sessions[t], status)
      BY ONLY <1>2, <2>2, <2>4
    <3>2. /\ Reached(sessions[t], status) \in Session
          /\ Reached(sessions[t], status).status = status
          /\ Reached(sessions[t], status).outputs = TRUE
          /\ Reached(sessions[t], status).markers = sessions[t].markers
      BY ONLY <2>1, ReachedSession
    <3>3. /\ sessions'[t] \in Session
          /\ sessions'[t].status = status /\ sessions'[t].outputs = TRUE
          /\ sessions'[t].markers = sessions[t].markers
      BY ONLY <3>1, <3>2
    <3> QED BY ONLY <1>3, <2>4, <3>3 DEF Recovers
  <2>5. CASE t # s /\ t \notin done
    BY ONLY <2>1, <2>2, <2>5
  <2> QED BY ONLY <2>3, <2>4, <2>5
<1> HIDE DEF After
<1>5. DOMAIN sessions = 1..Len(sessions) /\ Len(sessions) \in Nat
  BY SessionTypes
<1>6. sessions' = [t \in DOMAIN sessions |-> sessions'[t]]
  BY ONLY <1>2
<1> QED BY ONLY <1>4, <1>5, <1>6, SequencesOfSessions

-------------------------------------------------------------------------------
(* What a step may do to the sessions, whatever the request: a session is   *)
(* left alone, worked on by the recorder, or recovered; or a take is made. *)

Worked(s) ==
  /\ s = live
  /\ sessions'[s].outputs = sessions[s].outputs
  /\ sessions'[s].frames \in {sessions[s].frames, sessions[s].frames + 1}
  /\ \/ sessions'[s].markers = sessions[s].markers
     \/ \E r \in Requests :
          /\ r.id \notin Elements(sessions[s].markers)
          /\ sessions'[s].markers = Append(sessions[s].markers, r.id)
  /\ \/ live' = live /\ sessions'[s].status \in {"Active", sessions[s].status}
     \/ live' = 0 /\ sessions'[s].status = "Complete" /\ ~ sessions'[s].parts
     \/ live' = 0 /\ sessions'[s].status \in {"Active", sessions[s].status} /\ failures' # 0

LiveMoves ==
  \/ live' = live
  \/ live' = 0 /\ token' = token + 1
  \/ live' = 0 /\ live # 0 /\ Worked(live)
  \/ live' = Len(sessions') /\ live' \notin DOMAIN sessions /\ state = "Armed"

SessionsStep ==
  /\ sessions' \in Seq(Session) /\ Len(sessions) <= Len(sessions')
  /\ \A s \in DOMAIN sessions :
       \/ sessions'[s] = sessions[s]
       \/ Worked(s)
       \/ Recovers(s) /\ live' = live
  /\ \A s \in DOMAIN sessions' \ DOMAIN sessions :
       sessions'[s] = NewSession /\ (live' = s \/ failures' # 0)
  /\ LiveMoves
  /\ failures' \in {failures, failures + 1}
  /\ token' \in {token, token + 1}

(* Nothing happens to them. *)
LEMMA KeptStep ==
  ASSUME TypeOK, UNCHANGED <<live, sessions>>, failures' \in {failures, failures + 1}, token' = token
  PROVE  SessionsStep
<1>1. sessions \in Seq(Session) /\ Len(sessions) \in Nat
  BY SessionTypes DEF TypeOK
<1> QED BY <1>1 DEF SessionsStep, LiveMoves

(* The recorder writes the manifest of its take. *)
LEMMA PersistStep ==
  ASSUME TypeOK, NEW session \in Session, Persist(session), live' = live, token' = token,
         failures' \in {failures, failures + 1},
         session.outputs = sessions[live].outputs,
         session.frames \in {sessions[live].frames, sessions[live].frames + 1},
         \/ session.markers = sessions[live].markers
         \/ \E r \in Requests :
              /\ r.id \notin Elements(sessions[live].markers)
              /\ session.markers = Append(sessions[live].markers, r.id)
  PROVE  SessionsStep
<1>1. /\ live # 0 /\ live \in DOMAIN sessions
      /\ sessions' \in Seq(Session) /\ Len(sessions') = Len(sessions)
      /\ DOMAIN sessions' = DOMAIN sessions
      /\ \A s \in DOMAIN sessions :
           sessions'[s] = IF s = live THEN [session EXCEPT !.status = "Active"] ELSE sessions[s]
  BY PersistUpdate
<1>2. /\ sessions'[live].status = "Active"
      /\ sessions'[live].outputs = session.outputs
      /\ sessions'[live].markers = session.markers
      /\ sessions'[live].frames = session.frames
  BY <1>1 DEF Session
<1>3. Worked(live)
  BY <1>1, <1>2 DEF Worked
<1>4. \A s \in DOMAIN sessions : sessions'[s] = sessions[s] \/ Worked(s)
  BY <1>1, <1>3
<1>5. Len(sessions) <= Len(sessions')
  BY <1>1, SessionTypes
<1> QED BY <1>1, <1>4, <1>5 DEF SessionsStep, LiveMoves

(* A take ends, or its end fails. *)
LEMMA StopStep ==
  ASSUME TypeOK, live # 0, live' = 0, token' = token,
         NEW status \in {"Active"} \cup Delivered, NEW parts \in BOOLEAN,
         sessions' = [sessions EXCEPT ![live].status = status, ![live].parts = parts],
         failures' \in {failures, failures + 1},
         \/ status = "Complete" /\ parts = FALSE
         \/ status \in {"Active", sessions[live].status} /\ failures' = failures + 1
  PROVE  SessionsStep
<1>1. /\ sessions' \in Seq(Session) /\ Len(sessions') = Len(sessions)
      /\ DOMAIN sessions' = DOMAIN sessions
      /\ \A s \in DOMAIN sessions : s # live => sessions'[s] = sessions[s]
      /\ sessions'[live].status = status /\ sessions'[live].parts = parts
      /\ sessions'[live].outputs = sessions[live].outputs
      /\ sessions'[live].markers = sessions[live].markers
      /\ sessions'[live].frames = sessions[live].frames
  BY StopUpdate
<1>2. /\ live \in DOMAIN sessions /\ failures \in Nat
      /\ failures' \in {failures, failures + 1}
      /\ \/ status = "Complete" /\ parts = FALSE
         \/ status \in {"Active", sessions[live].status} /\ failures' = failures + 1
  BY SessionTypes DEF TypeOK
<1>3. Worked(live)
  BY ONLY <1>1, <1>2, live' = 0 DEF Worked
<1>4. \A s \in DOMAIN sessions : sessions'[s] = sessions[s] \/ Worked(s)
  BY ONLY <1>1, <1>3
<1>5. Len(sessions) <= Len(sessions')
  BY ONLY <1>1, SessionTypes, TypeOK
<1>6. LiveMoves
  BY ONLY <1>3, live' = 0, live # 0 DEF LiveMoves
<1> HIDE DEF Worked
<1> QED BY ONLY <1>1, <1>2, <1>4, <1>5, <1>6, token' = token DEF SessionsStep

(* A take is made, and may be left without a recorder when a call fails. *)
LEMMA StartStep ==
  ASSUME TypeOK, state = "Armed", sessions' = Append(sessions, NewSession), token' = token,
         \/ live' = Len(sessions') /\ failures' = failures
         \/ live' = live /\ failures' = failures + 1
  PROVE  SessionsStep
<1>1. /\ sessions' \in Seq(Session) /\ Len(sessions') = Len(sessions) + 1
      /\ DOMAIN sessions' = DOMAIN sessions \cup {Len(sessions')}
      /\ Len(sessions') \notin DOMAIN sessions
      /\ \A s \in DOMAIN sessions : sessions'[s] = sessions[s]
      /\ sessions'[Len(sessions')] = NewSession
  BY StartUpdate
<1>2. Len(sessions) <= Len(sessions')
  BY <1>1, SessionTypes
<1>3. live' = Len(sessions') \/ failures' # 0
  BY DEF TypeOK
<1>4. \A s \in DOMAIN sessions' \ DOMAIN sessions :
        sessions'[s] = NewSession /\ (live' = s \/ failures' # 0)
  BY <1>1, <1>3
<1>5. LiveMoves
  BY <1>1 DEF LiveMoves
<1>6. failures' \in {failures, failures + 1}
  OBVIOUS
<1> QED BY <1>1, <1>2, <1>4, <1>5, <1>6 DEF SessionsStep

(* Some sessions are recovered. *)
LEMMA RecoverStep ==
  ASSUME TypeOK, live' = live, token' = token, failures' \in {failures, failures + 1},
         sessions' \in Seq(Session), Len(sessions') = Len(sessions),
         DOMAIN sessions' = DOMAIN sessions,
         \A s \in DOMAIN sessions : sessions'[s] = sessions[s] \/ Recovers(s)
  PROVE  SessionsStep
<1>1. Len(sessions) <= Len(sessions')
  BY SessionTypes
<1> QED BY <1>1 DEF SessionsStep, LiveMoves

(* So every step is one of these. *)
LEMMA SessionsMove == TypeOK /\ [Next]_vars => SessionsStep
<1> SUFFICES ASSUME TypeOK, [Next]_vars PROVE SessionsStep
  OBVIOUS
<1>1. live # 0 => live \in DOMAIN sessions /\ sessions[live] \in Session
  BY SessionTypes
<1>2. CASE UNCHANGED vars
  BY <1>2, KeptStep DEF vars, memory, cache
<1>3. CASE Restart
  <2>1. sessions \in Seq(Session) /\ Len(sessions) \in Nat
    BY SessionTypes DEF TypeOK
  <2> QED BY <1>3, <2>1 DEF Restart, SessionsStep, LiveMoves
<1>4. ASSUME NEW r \in Requests,
             \/ Answer(r) \/ Read(r) \/ Configure(r) \/ Refuse(r) \/ MarkedBefore(r)
      PROVE  SessionsStep
  <2>1. UNCHANGED <<live, sessions, failures>> /\ token' = token
    BY <1>4 DEF Answer, Read, Configure, Refuse, MarkedBefore, vars, memory
  <2> QED BY <2>1, KeptStep
<1>5. ASSUME NEW r \in Requests, Start(r) PROVE SessionsStep
  BY <1>5, StartStep DEF Start
<1>6. ASSUME NEW r \in Requests, Pause(r) \/ Resume(r) \/ InjectFault(r) PROVE SessionsStep
  <2>1. Persist(sessions[live]) /\ live # 0 /\ live' = live /\ token' = token /\ failures' = failures
    BY <1>6 DEF Pause, Resume, InjectFault, SwitchTo
  <2>2. sessions[live].frames \in {sessions[live].frames, sessions[live].frames + 1}
    OBVIOUS
  <2> QED BY <1>1, <2>1, <2>2, PersistStep
<1>7. ASSUME NEW r \in Requests, Mark(r) PROVE SessionsStep
  <2> DEFINE session == [sessions[live] EXCEPT !.markers = Append(@, r.id)]
  <2>1. /\ Persist(session) /\ live # 0 /\ live' = live /\ token' = token /\ failures' = failures
        /\ r.id \notin Elements(sessions[live].markers)
    BY <1>7 DEF Mark, memory
  <2>2. sessions[live].markers \in Seq({q.id : q \in Requests})
    BY <1>1, <2>1, SessionTypes
  <2>3. Append(sessions[live].markers, r.id) \in Seq({q.id : q \in Requests})
    BY <2>2, AppendProperties
  <2>4. /\ session \in Session /\ session.outputs = sessions[live].outputs
        /\ session.markers = Append(sessions[live].markers, r.id)
        /\ session.frames \in {sessions[live].frames, sessions[live].frames + 1}
    BY <1>1, <2>1, <2>3 DEF Session
  <2> HIDE DEF session
  <2> QED BY <2>1, <2>4, PersistStep
<1>8. ASSUME NEW r \in Requests, Simulate(r) PROVE SessionsStep
  <2> DEFINE session == [sessions[live] EXCEPT !.frames = @ + 1]
  <2>1. Persist(session) /\ live # 0 /\ live' = live /\ token' = token /\ failures' = failures
    BY <1>8 DEF Simulate, memory
  <2>2. sessions[live].frames \in Nat
    BY <1>1, <2>1, SessionTypes
  <2>3. /\ session \in Session /\ session.outputs = sessions[live].outputs
        /\ session.markers = sessions[live].markers
        /\ session.frames \in {sessions[live].frames, sessions[live].frames + 1}
    BY <1>1, <2>1, <2>2 DEF Session
  <2> HIDE DEF session
  <2> QED BY <2>1, <2>3, PersistStep
<1>9. ASSUME NEW r \in Requests, Stop(r) PROVE SessionsStep
  <2>1. "Complete" \in {"Active"} \cup Delivered /\ FALSE \in BOOLEAN
    BY DEF Delivered
  <2>2. /\ sessions' = [sessions EXCEPT ![live].status = "Complete", ![live].parts = FALSE]
        /\ live # 0 /\ live' = 0 /\ token' = token /\ failures' = failures
    BY <1>9 DEF Stop
  <2> QED BY <2>1, <2>2, StopStep
<1>10. ASSUME NEW r \in Requests, Recover(r) PROVE SessionsStep
  <2>1. live' = live /\ token' = token /\ failures' = failures
    BY <1>10 DEF Recover, memory
  <2>2. CASE UNCHANGED sessions
    BY <2>1, <2>2, KeptStep
  <2>3. CASE \E s \in DOMAIN sessions : Recoverable(s) /\ RecoverThese({s})
    <3>1. PICK s \in DOMAIN sessions : Recoverable(s) /\ RecoverThese({s})
      BY <2>3
    <3>2. \A t \in {s} : Recoverable(t)
      BY <3>1
    <3> QED BY <2>1, <3>1, <3>2, RecoverUpdate, RecoverStep
  <2> QED BY <1>10, <2>2, <2>3 DEF Recover
<1>11. ASSUME NEW r \in Requests, RecoverAll(r) PROVE SessionsStep
  <2> DEFINE chosen == {s \in DOMAIN sessions : \A t \in s..Len(sessions) : Recoverable(t)}
  <2>1. live' = live /\ token' = token /\ failures' = failures /\ RecoverThese(chosen)
    BY <1>11 DEF RecoverAll, memory
  <2>2. \A s \in chosen : Recoverable(s)
    BY SessionTypes
  <2> HIDE DEF chosen
  <2> QED BY <2>1, <2>2, RecoverUpdate, RecoverStep
<1>12. ASSUME NEW r \in Requests, StartFails(r) PROVE SessionsStep
  <2>1. /\ sessions' = sessions \/ sessions' = Append(sessions, NewSession)
        /\ state = "Armed" /\ live' = live /\ token' = token /\ failures' = failures + 1
    BY <1>12 DEF StartFails, Fail, memory
  <2>2. CASE sessions' = sessions
    BY <2>1, <2>2, KeptStep
  <2>3. CASE sessions' = Append(sessions, NewSession)
    BY <2>1, <2>3, StartStep
  <2> QED BY <2>1, <2>2, <2>3
<1>13. ASSUME NEW r \in Requests, SwitchFails(r) PROVE SessionsStep
  <2>1. /\ sessions' = sessions \/ Persist(sessions[live])
        /\ live # 0 /\ live' = live /\ token' = token /\ failures' = failures + 1
    BY <1>13 DEF SwitchFails, Fail
  <2>2. CASE sessions' = sessions
    BY <2>1, <2>2, KeptStep
  <2>3. CASE Persist(sessions[live])
    BY <1>1, <2>1, <2>3, PersistStep
  <2> QED BY <2>1, <2>2, <2>3
<1>14. ASSUME NEW r \in Requests, WriteFails(r) PROVE SessionsStep
  <2>1. live # 0 /\ live' = live /\ token' = token /\ failures' = failures + 1
    BY <1>14 DEF WriteFails, Fail, memory
  <2>2. PICK after \in Session :
          /\ sessions' = [sessions EXCEPT ![live] = after]
          /\ after.status \in {"Active", sessions[live].status}
          /\ after.parts = TRUE /\ after.outputs = sessions[live].outputs
          /\ after.frames \in {sessions[live].frames, sessions[live].frames + 1}
          /\ \/ after.markers = sessions[live].markers
             \/ /\ r.id \notin Elements(sessions[live].markers)
                /\ after.markers = Append(sessions[live].markers, r.id)
    BY <1>14, WriteUpdate
  <2>3. /\ sessions' \in Seq(Session) /\ Len(sessions') = Len(sessions)
        /\ DOMAIN sessions' = DOMAIN sessions
        /\ \A s \in DOMAIN sessions : sessions'[s] = IF s = live THEN after ELSE sessions[s]
    BY <2>1, <2>2, LiveUpdate
  <2>4. Worked(live)
    BY <1>1, <2>1, <2>2, <2>3 DEF Worked
  <2>5. Len(sessions) <= Len(sessions')
    BY <2>3, SessionTypes
  <2>6. \A s \in DOMAIN sessions : sessions'[s] = sessions[s] \/ Worked(s)
    BY <2>3, <2>4
  <2> QED BY <2>1, <2>3, <2>5, <2>6 DEF SessionsStep, LiveMoves
<1>15. ASSUME NEW r \in Requests, StopFails(r) PROVE SessionsStep
  <2>1. live # 0 /\ live' = 0 /\ token' = token /\ failures' = failures + 1
    BY <1>15 DEF StopFails, Fail
  <2>2. PICK status \in {sessions[live].status, "Active", "Complete"}, parts \in BOOLEAN :
          /\ status = "Complete" => ~ parts
          /\ sessions' = [sessions EXCEPT ![live].status = status, ![live].parts = parts]
    BY <1>15 DEF StopFails
  <2>3. /\ status \in {"Active"} \cup Delivered
        /\ \/ status = "Complete" /\ parts = FALSE
           \/ status \in {"Active", sessions[live].status}
    BY <2>1, <2>2, SessionTypes DEF Delivered
  <2> QED BY <2>1, <2>2, <2>3, StopStep
<1>16. ASSUME NEW r \in Requests, RecoverFails(r) PROVE SessionsStep
  <2>1. live' = live /\ token' = token /\ failures' = failures + 1
    BY <1>16 DEF RecoverFails, Fail, memory
  <2> QED BY <1>16, <2>1, RecoverFailsUpdate, RecoverStep
<1> QED BY <1>2, <1>3, <1>4, <1>5, <1>6, <1>7, <1>8, <1>9, <1>10, <1>11, <1>12, <1>13, <1>14,
           <1>15, <1>16 DEF Next

-------------------------------------------------------------------------------
(* The cache of answers, the state of the service, and the types. *)

(* A request is executed, the cache is lost with its process, or neither. *)
CacheMoves ==
  \/ UNCHANGED <<cached, recent, token>>
  \/ token' = token + 1 /\ cached' = <<>> /\ recent' = recent
  \/ token' = token /\ \E r \in Requests : Execute(r, r.cmd)

LEMMA CacheStep == [Next]_vars => CacheMoves
<1> SUFFICES ASSUME [Next]_vars PROVE CacheMoves
  OBVIOUS
<1>1. CASE UNCHANGED vars
  BY <1>1 DEF CacheMoves, vars, cache
<1>2. CASE Restart
  BY <1>2 DEF CacheMoves, Restart
<1>3. ASSUME NEW r \in Requests, Answer(r) PROVE CacheMoves
  BY <1>3 DEF CacheMoves, Answer, vars, cache
<1>4. ASSUME NEW r \in Requests,
             \/ Read(r) \/ Configure(r) \/ Start(r) \/ Pause(r) \/ Resume(r) \/ Mark(r)
             \/ MarkedBefore(r) \/ Simulate(r) \/ InjectFault(r) \/ Stop(r) \/ Refuse(r)
             \/ Recover(r) \/ RecoverAll(r)
      PROVE  CacheMoves
  <2>1. token' = token /\ \E cmd : Execute(r, cmd)
    BY <1>4 DEF Read, Configure, Start, Pause, Resume, SwitchTo, Mark, MarkedBefore, Simulate,
                InjectFault, Stop, Refuse, Recover, RecoverAll
  <2> QED BY <2>1 DEF CacheMoves, Execute
<1>5. ASSUME NEW r \in Requests,
             \/ StartFails(r) \/ SwitchFails(r) \/ WriteFails(r) \/ StopFails(r) \/ RecoverFails(r)
      PROVE  CacheMoves
  <2>1. Fail(r)
    BY <1>5 DEF StartFails, SwitchFails, WriteFails, StopFails, RecoverFails
  <2> QED BY <2>1 DEF CacheMoves, Fail
<1> QED BY <1>1, <1>2, <1>3, <1>4, <1>5 DEF Next

(* The state of the service, of its recorder and of the pending settings. *)
LEMMA MemoryStep ==
  TypeOK /\ [Next]_vars => state' \in States /\ pending' \in BOOLEAN /\ recorder' \in States
<1> SUFFICES ASSUME TypeOK, [Next]_vars
             PROVE  state' \in States /\ pending' \in BOOLEAN /\ recorder' \in States
  OBVIOUS
<1> USE DEF TypeOK, States
<1>1. CASE UNCHANGED vars \/ Restart
  BY <1>1 DEF vars, memory, Restart
<1>2. ASSUME NEW r \in Requests,
             \/ Answer(r) \/ Read(r) \/ Mark(r) \/ MarkedBefore(r) \/ Simulate(r) \/ Refuse(r)
             \/ Recover(r) \/ RecoverAll(r) \/ StartFails(r) \/ WriteFails(r) \/ RecoverFails(r)
      PROVE  state' \in States /\ pending' \in BOOLEAN /\ recorder' \in States
  <2>1. UNCHANGED memory
    BY <1>2 DEF Answer, Read, Mark, MarkedBefore, Simulate, Refuse, Recover, RecoverAll,
                StartFails, WriteFails, RecoverFails, vars
  <2> QED BY <2>1 DEF memory
<1>3. ASSUME NEW r \in Requests,
             \/ Configure(r) \/ Start(r) \/ Pause(r) \/ Resume(r) \/ InjectFault(r) \/ Stop(r)
             \/ StopFails(r)
      PROVE  state' \in States /\ pending' \in BOOLEAN /\ recorder' \in States
  BY <1>3 DEF Configure, Start, Pause, Resume, SwitchTo, InjectFault, Stop, StopFails
<1>4. ASSUME NEW r \in Requests, SwitchFails(r)
      PROVE  state' \in States /\ pending' \in BOOLEAN /\ recorder' \in States
  BY <1>4 DEF SwitchFails
<1> QED BY <1>1, <1>2, <1>3, <1>4 DEF Next

LEMMA TypeOKStep == TypeOK /\ [Next]_vars => TypeOK'
<1> SUFFICES ASSUME TypeOK, [Next]_vars PROVE TypeOK'
  OBVIOUS
<1>1. SessionsStep /\ CacheMoves /\ state' \in States /\ pending' \in BOOLEAN /\ recorder' \in States
  BY SessionsMove, CacheStep, MemoryStep
<1>2. token' \in Nat /\ failures' \in Nat
  BY <1>1 DEF SessionsStep, TypeOK
<1>3. sessions' \in Seq(Session) /\ live' \in 0..Len(sessions')
  <2>1. /\ sessions' \in Seq(Session) /\ Len(sessions') \in Nat /\ Len(sessions) \in Nat
        /\ Len(sessions) <= Len(sessions') /\ live \in 0..Len(sessions)
        /\ live' \in {live, 0, Len(sessions')}
    BY <1>1, LenProperties, SessionTypes DEF SessionsStep, LiveMoves, TypeOK
  <2> QED BY ONLY <2>1
<1>4. cached' \in Seq(Requests) /\ Len(cached') <= CacheSize /\ recent' \in Seq(Requests)
  <2>1. CASE UNCHANGED <<cached, recent, token>>
    BY <2>1 DEF TypeOK
  <2>2. CASE token' = token + 1 /\ cached' = <<>> /\ recent' = recent
    <3>1. CacheSize \in Nat
      BY SizesAssumption
    <3> QED BY <2>2, <3>1 DEF TypeOK
  <2>3. CASE token' = token /\ \E r \in Requests : Execute(r, r.cmd)
    BY <2>3, ExecuteUpdate
  <2> QED BY <1>1, <2>1, <2>2, <2>3 DEF CacheMoves
<1> QED BY <1>1, <1>2, <1>3, <1>4 DEF TypeOK

(* Every variable keeps its type, and the cache of answers never holds more *)
(* than MAX_CACHED_REQUESTS of them: TypeOK always holds.                   *)
THEOREM ServiceTypes == Spec => []TypeOK
<1>1. Init => TypeOK
  <2>1. CacheSize \in Nat
    BY SizesAssumption
  <2>2. <<>> \in Seq(Requests) /\ <<>> \in Seq(Session) /\ Len(<<>>) = 0
    OBVIOUS
  <2>3. ASSUME Init
        PROVE  /\ cached \in Seq(Requests) /\ Len(cached) <= CacheSize
               /\ recent \in Seq(Requests)
               /\ sessions \in Seq(Session) /\ live \in 0..Len(sessions)
    BY <2>1, <2>2, <2>3 DEF Init
  <2>4. ASSUME Init
        PROVE  /\ state \in States /\ pending \in BOOLEAN /\ recorder \in States
               /\ token \in Nat /\ failures \in Nat
    BY <2>4 DEF Init, States
  <2> QED BY <2>3, <2>4 DEF TypeOK
<1> QED BY <1>1, TypeOKStep, PTL DEF Spec

-------------------------------------------------------------------------------
(* The service and its recorder. *)

LEMMA TracksStep ==
  TypeOK /\ ServiceTracksRecorder /\ [Next]_vars => ServiceTracksRecorder'
<1> SUFFICES ASSUME TypeOK, ServiceTracksRecorder, [Next]_vars PROVE ServiceTracksRecorder'
  OBVIOUS
<1> USE DEF ServiceTracksRecorder
<1>1. failures \in Nat
  BY DEF TypeOK
<1>2. CASE UNCHANGED vars \/ Restart
  BY <1>2 DEF vars, memory, Restart
<1>3. ASSUME NEW r \in Requests,
             \/ Answer(r) \/ Read(r) \/ Mark(r) \/ MarkedBefore(r) \/ Simulate(r) \/ Refuse(r)
             \/ Recover(r) \/ RecoverAll(r)
      PROVE  ServiceTracksRecorder'
  <2>1. UNCHANGED memory /\ UNCHANGED failures
    BY <1>3 DEF Answer, Read, Mark, MarkedBefore, Simulate, Refuse, Recover, RecoverAll, vars
  <2> QED BY <2>1 DEF memory
<1>4. ASSUME NEW r \in Requests, StartFails(r) \/ WriteFails(r) \/ RecoverFails(r)
      PROVE  ServiceTracksRecorder'
  <2>1. UNCHANGED memory /\ failures' = failures + 1
    BY <1>4 DEF StartFails, WriteFails, RecoverFails, Fail
  <2> QED BY <1>1, <2>1 DEF memory
<1>5. ASSUME NEW r \in Requests, Configure(r) PROVE ServiceTracksRecorder'
  BY <1>5 DEF Configure, Configurable
<1>6. ASSUME NEW r \in Requests, Start(r) PROVE ServiceTracksRecorder'
  <2>1. Len(sessions') = Len(sessions) + 1 /\ Len(sessions) \in Nat
    BY <1>6, StartUpdate, SessionTypes DEF Start
  <2> QED BY <1>6, <2>1 DEF Start
<1>7. ASSUME NEW r \in Requests, Pause(r) \/ Resume(r) PROVE ServiceTracksRecorder'
  BY <1>7 DEF Pause, Resume, SwitchTo
<1>8. ASSUME NEW r \in Requests, InjectFault(r) PROVE ServiceTracksRecorder'
  BY <1>8 DEF InjectFault
<1>9. ASSUME NEW r \in Requests, Stop(r) \/ StopFails(r) PROVE ServiceTracksRecorder'
  BY <1>9 DEF Stop, StopFails
<1>10. ASSUME NEW r \in Requests, SwitchFails(r) PROVE ServiceTracksRecorder'
  <2>1. failures' # 0 /\ live # 0 /\ UNCHANGED <<state, live>> /\ recorder' \in {"Paused", "Recording"}
    BY <1>1, <1>10 DEF SwitchFails, Fail
  <2> QED BY <2>1
<1> QED BY <1>2, <1>3, <1>4, <1>5, <1>6, <1>7, <1>8, <1>9, <1>10 DEF Next

(* The service says Recording or Paused only of a recorder it holds, and    *)
(* holds one in no other state but Faulted: ServiceTracksRecorder always    *)
(* holds.  Nothing more is needed: Armed excludes a recorder because it is  *)
(* none of these states, so neither Configure nor Start can drop a take.    *)
THEOREM ServiceFollowsRecorder == Spec => []ServiceTracksRecorder
<1>1. Init => ServiceTracksRecorder
  BY DEF Init, ServiceTracksRecorder
<1> QED BY <1>1, ServiceTypes, TracksStep, PTL DEF Spec

(* A take is left only by Stop, which completes it, because none is started *)
(* while one is recorded.                                                   *)
TakesInv == TypeOK /\ ServiceTracksRecorder /\ token >= 1 /\ EveryTakeIsFinished

LEMMA FinishedStep == TakesInv /\ [Next]_vars => EveryTakeIsFinished' /\ token' >= 1
<1> SUFFICES ASSUME TakesInv, [Next]_vars PROVE EveryTakeIsFinished' /\ token' >= 1
  OBVIOUS
<1>1. TypeOK /\ SessionsStep /\ token \in Nat /\ token >= 1 /\ failures \in Nat
  BY SessionsMove DEF TakesInv, TypeOK
<1>2. token' >= 1
  BY <1>1 DEF SessionsStep
<1>3. ASSUME failures' = 0, token' = 1, NEW s \in DOMAIN sessions', s # live'
      PROVE  sessions'[s].status \in Delivered
  <2>1. failures = 0 /\ token = 1
    BY <1>1, <1>3 DEF SessionsStep
  <2>2. \A t \in DOMAIN sessions : t # live => sessions[t].status \in Delivered
    BY <2>1 DEF TakesInv, EveryTakeIsFinished
  <2>3. s \in DOMAIN sessions
    BY <1>1, <1>3 DEF SessionsStep
  <2>4. s # 0 /\ "Complete" \in Delivered /\ "Recovered" \in Delivered
    BY <1>1, <2>3, SessionTypes DEF Delivered
  <2>5. CASE Worked(s)
    BY <1>3, <2>4, <2>5 DEF Worked
  <2>6. CASE Recovers(s) /\ live' = live
    BY <1>3, <2>2, <2>3, <2>4, <2>6 DEF Recovers
  <2>7. CASE sessions'[s] = sessions[s]
    <3>1. CASE s # live
      BY <2>2, <2>3, <2>7, <3>1
    <3>2. CASE s = live
      <4>1. state # "Armed"
        BY <2>4, <3>2 DEF TakesInv, ServiceTracksRecorder
      <4>2. token' # token + 1
        BY <1>3, <2>1
      <4>3. Worked(live)
        BY <1>1, <1>3, <3>2, <4>1, <4>2 DEF SessionsStep, LiveMoves
      <4> QED BY <1>3, <2>4, <3>2, <4>3 DEF Worked
    <3> QED BY <3>1, <3>2
  <2> QED BY <1>1, <2>3, <2>5, <2>6, <2>7 DEF SessionsStep
<1> QED BY <1>2, <1>3 DEF EveryTakeIsFinished

(* While nothing has failed and the service has not restarted, every take   *)
(* but the one being recorded is delivered: EveryTakeIsFinished, always.    *)
THEOREM TakesAreFinished == Spec => []EveryTakeIsFinished
<1>1. Init => token >= 1 /\ EveryTakeIsFinished
  BY DEF Init, EveryTakeIsFinished
<1>2. /\ TypeOK /\ ServiceTracksRecorder /\ token >= 1 /\ EveryTakeIsFinished
      /\ [Next]_vars
      => (token >= 1)' /\ EveryTakeIsFinished'
  BY FinishedStep DEF TakesInv
<1> QED BY <1>1, <1>2, ServiceTypes, ServiceFollowsRecorder, PTL DEF Spec

-------------------------------------------------------------------------------
(* Delivered takes. *)

(* Why a delivered take is not recovered again: a completed one has lost    *)
(* its .part files, and is not the one being recorded; a recovered one has  *)
(* the outputs of its recovery.                                             *)
FinalInv ==
  \A s \in DOMAIN sessions :
    /\ sessions[s].status = "Complete" => ~ sessions[s].parts /\ s # live
    /\ sessions[s].status = "Recovered" => sessions[s].outputs

LEMMA FinalStep == TypeOK /\ FinalInv /\ [Next]_vars => FinalInv'
<1> SUFFICES ASSUME TypeOK, FinalInv, [Next]_vars,
                    NEW s \in DOMAIN sessions'
             PROVE  /\ sessions'[s].status = "Complete" => ~ sessions'[s].parts /\ s # live'
                    /\ sessions'[s].status = "Recovered" => sessions'[s].outputs
  BY DEF FinalInv
<1>1. SessionsStep
  BY SessionsMove
<1>2. CASE s \notin DOMAIN sessions
  BY <1>1, <1>2 DEF SessionsStep, NewSession
<1>3. CASE s \in DOMAIN sessions
  <2>1. /\ sessions[s].status = "Complete" => ~ sessions[s].parts /\ s # live
        /\ sessions[s].status = "Recovered" => sessions[s].outputs
        /\ s # 0
    BY <1>3, SessionTypes DEF FinalInv
  <2>2. s # live => s # live'
    BY <1>1, <1>3, <2>1 DEF SessionsStep, LiveMoves
  <2>3. CASE Worked(s)
    BY <2>1, <2>3 DEF Worked
  <2>4. CASE Recovers(s) /\ live' = live
    BY <2>1, <2>4 DEF Recovers, Recoverable
  <2>5. CASE sessions'[s] = sessions[s]
    BY <2>1, <2>2, <2>5
  <2> QED BY <1>1, <1>3, <2>3, <2>4, <2>5 DEF SessionsStep
<1> QED BY <1>2, <1>3

(* A delivered take is changed again only by the recorder still writing it, *)
(* and only when a Recover of that take has called it Recovered; what was   *)
(* committed and recovered stays.  No other take is changed by any request, *)
(* recovery or restart: the action property OnlyItsRecorderReopens.         *)
THEOREM OnlyRecordersReopen == Spec => OnlyItsRecorderReopens
<1>1. Init => FinalInv
  BY DEF Init, FinalInv
<1>2. ASSUME TypeOK, FinalInv, [Next]_vars,
             NEW s \in DOMAIN sessions, sessions[s].status \in Delivered,
             sessions'[s] # sessions[s]
      PROVE  /\ s = live /\ sessions[s].status = "Recovered"
             /\ sessions'[s].outputs /\ sessions'[s].frames >= sessions[s].frames
  <2>1. /\ sessions[s].status \in {"Complete", "Recovered"}
        /\ sessions[s].status = "Complete" => ~ sessions[s].parts /\ s # live
        /\ sessions[s].status = "Recovered" => sessions[s].outputs
    BY <1>2 DEF FinalInv, Delivered
  <2>2. ~ Recovers(s)
    BY <2>1 DEF Recovers, Recoverable
  <2>3. Worked(s)
    BY <1>2, <2>2, SessionsMove DEF SessionsStep
  <2>4. /\ s = live /\ sessions'[s].outputs = sessions[s].outputs
        /\ sessions'[s].frames \in {sessions[s].frames, sessions[s].frames + 1}
    BY <2>3 DEF Worked
  <2>5. sessions[s].frames \in Nat
    BY <1>2, SessionTypes
  <2>6. sessions'[s].frames >= sessions[s].frames
    BY ONLY <2>4, <2>5
  <2>7. s = live /\ sessions[s].status = "Recovered"
    BY ONLY <2>1, <2>4
  <2> QED BY <2>1, <2>4, <2>6, <2>7
<1>3. /\ TypeOK /\ FinalInv /\ [Next]_vars
      => [\A s \in DOMAIN sessions :
            sessions[s].status \in Delivered /\ sessions'[s] # sessions[s] =>
              /\ s = live /\ sessions[s].status = "Recovered"
              /\ sessions'[s].outputs /\ sessions'[s].frames >= sessions[s].frames]_vars
  BY <1>2
<1> QED BY <1>1, <1>3, FinalStep, ServiceTypes, PTL DEF Spec, OnlyItsRecorderReopens

(* A marker is added only to a take that has none for the request.          *)
LEMMA MarksStep == TypeOK /\ MarksOnce /\ [Next]_vars => MarksOnce'
<1> SUFFICES ASSUME TypeOK, MarksOnce, [Next]_vars, NEW s \in DOMAIN sessions'
             PROVE  Distinct(sessions'[s].markers)
  BY DEF MarksOnce
<1>1. SessionsStep
  BY SessionsMove
<1>2. CASE s \notin DOMAIN sessions
  <2>1. sessions'[s].markers = <<>>
    BY <1>1, <1>2 DEF SessionsStep, NewSession
  <2> QED BY <2>1 DEF Distinct
<1>3. CASE s \in DOMAIN sessions
  <2>1. Distinct(sessions[s].markers) /\ sessions[s].markers \in Seq({r.id : r \in Requests})
    BY <1>3, SessionTypes DEF MarksOnce
  <2>2. CASE sessions'[s].markers = sessions[s].markers
    BY <2>1, <2>2
  <2>3. ASSUME NEW r \in Requests, r.id \notin Elements(sessions[s].markers),
               sessions'[s].markers = Append(sessions[s].markers, r.id)
        PROVE  Distinct(sessions'[s].markers)
    <3>1. r.id \in {q.id : q \in Requests}
      OBVIOUS
    <3> QED BY <2>1, <2>3, <3>1, AppendDistinct
  <2> QED BY <1>1, <1>3, <2>2, <2>3 DEF SessionsStep, Worked, Recovers
<1> QED BY <1>2, <1>3

(* However often AddMarker is repeated, delayed or sent to another run of   *)
(* the service, a take has one marker for it: MarksOnce always holds.       *)
THEOREM MarkersAreSingle == Spec => []MarksOnce
<1>1. Init => MarksOnce
  BY DEF Init, MarksOnce
<1> QED BY <1>1, MarksStep, ServiceTypes, PTL DEF Spec

-------------------------------------------------------------------------------
(* Repeated requests. *)

(* The cache is the newest part of the requests executed.  A request that   *)
(* is among the others was made for an earlier run of the service; the one  *)
(* exception is the answer evicted last, which is the oldest of CacheSize+1 *)
(* requests, and is forgotten when the next is executed.                    *)
CacheInv ==
  /\ Len(recent) <= CacheSize + 1
  /\ Len(cached) <= Len(recent)
  /\ \A i \in 1..Len(recent) : recent[i].token <= token
  /\ \A i \in 1..Len(cached) : cached[i] = recent[(Len(recent) - Len(cached)) + i]
  /\ \A i \in 1..(Len(recent) - Len(cached)) :
       recent[i].token < token \/ (i = 1 /\ Len(recent) = CacheSize + 1)
  /\ Distinct(recent)

(* new is old with x after it, less its oldest if it would exceed n. *)
Follows(new, old, x, n) ==
  \E d \in {0, 1} :
    /\ d = 1 <=> Len(old) = n
    /\ Len(new) = Len(old) + 1 - d
    /\ \A i \in 1..(Len(old) - d) : new[i] = old[i + d]
    /\ new[Len(old) + 1 - d] = x

LEMMA NewestFollows ==
  ASSUME NEW S, NEW s \in Seq(S), NEW x \in S, NEW n \in Nat, n > 0, Len(s) <= n
  PROVE  Follows(Newest(Append(s, x), n), s, x, n)
<1> DEFINE a == Append(s, x)
<1>1. /\ a \in Seq(S) /\ Len(s) \in Nat /\ Len(a) = Len(s) + 1
      /\ \A i \in 1..Len(s) : a[i] = s[i]
      /\ a[Len(s) + 1] = x
  BY AppendedOnce
<1> HIDE DEF a
<1>2. /\ Len(Newest(a, n)) = IF Len(a) <= n THEN Len(a) ELSE n
      /\ \A i \in 1..Len(Newest(a, n)) : Newest(a, n)[i] = a[(Len(a) - Len(Newest(a, n))) + i]
  BY <1>1, NewestProperties
<1>3. PICK d \in {0, 1} : d = 1 <=> Len(s) = n
  OBVIOUS
<1>4. Len(Newest(a, n)) = Len(s) + 1 - d
  <2>1. CASE Len(s) = n
    <3>1. ~ (Len(a) <= n) /\ d = 1
      BY <1>1, <1>3, <2>1
    <3> QED BY <1>1, <1>2, <2>1, <3>1
  <2>2. CASE Len(s) # n
    <3>1. Len(a) <= n /\ d = 0
      BY <1>1, <1>3, <2>2
    <3> QED BY <1>1, <1>2, <3>1
  <2> QED BY <2>1, <2>2
<1>5. ASSUME NEW i \in 1..(Len(s) + 1 - d) PROVE Newest(a, n)[i] = a[d + i]
  <2>1. (Len(a) - Len(Newest(a, n))) + i = d + i
    BY <1>1, <1>3, <1>4
  <2> QED BY <1>2, <1>4, <2>1
<1>6. ASSUME NEW i \in 1..(Len(s) - d) PROVE Newest(a, n)[i] = s[i + d]
  <2>1. i \in 1..(Len(s) + 1 - d) /\ d + i = i + d /\ i + d \in 1..Len(s)
    BY <1>1, <1>3
  <2> QED BY <1>1, <1>5, <2>1
<1>7. Newest(a, n)[Len(s) + 1 - d] = x
  <2>1. Len(s) + 1 - d \in 1..(Len(s) + 1 - d) /\ d + (Len(s) + 1 - d) = Len(s) + 1
    BY <1>1, <1>3
  <2> QED BY <1>1, <1>5, <2>1
<1> QED BY <1>3, <1>4, <1>6, <1>7 DEF a, Follows

LEMMA CacheInvStep == TypeOK /\ CacheInv /\ [Next]_vars => CacheInv'
<1> SUFFICES ASSUME TypeOK, CacheInv, [Next]_vars PROVE CacheInv'
  OBVIOUS
<1>1. /\ CacheMoves /\ token \in Nat /\ CacheSize \in Nat /\ CacheSize > 0
      /\ Len(recent) \in Nat /\ Len(cached) \in Nat /\ Len(cached) <= CacheSize
      /\ cached \in Seq(Requests) /\ recent \in Seq(Requests)
      /\ \A i \in 1..Len(recent) : recent[i] \in Requests
      /\ DOMAIN recent = 1..Len(recent) /\ DOMAIN cached = 1..Len(cached)
  BY CacheStep, SizesAssumption, LenProperties, ElementOfSeq DEF TypeOK
<1>2. CASE UNCHANGED <<cached, recent, token>>
  BY <1>2 DEF CacheInv
<1>3. CASE token' = token + 1 /\ cached' = <<>> /\ recent' = recent
  <2>1. Len(cached') = 0
    BY <1>3
  <2>2. \A i \in 1..Len(recent) : recent[i].token < token + 1 /\ recent[i].token <= token + 1
    <3>1. \A i \in 1..Len(recent) : recent[i].token \in Nat /\ recent[i].token <= token
      BY <1>1, RequestsAssumption DEF CacheInv
    <3> QED BY ONLY <1>1, <3>1
  <2>3. 1..(Len(recent) - 0) = 1..Len(recent) /\ 0 <= Len(recent) /\ 1..0 = {}
    BY ONLY <1>1
  <2>4. Len(recent) <= CacheSize + 1 /\ Distinct(recent)
    BY DEF CacheInv
  <2> QED BY ONLY <1>3, <2>1, <2>2, <2>3, <2>4 DEF CacheInv
<1>4. ASSUME token' = token, NEW r \in Requests, Execute(r, r.cmd) PROVE CacheInv'
  <2> DEFINE n == Len(recent)
             m == Len(cached)
  <2>1. /\ r.token = token /\ \A i \in 1..m : cached[i] # r
    BY <1>1, <1>4 DEF Execute, Fresh, Elements
  <2>2. /\ cached' = Newest(Append(cached, r), CacheSize)
        /\ recent' = Newest(Append(recent, r), CacheSize + 1)
    BY <1>4 DEF Execute, Evict
  <2>3. PICK d \in {0, 1} :
          /\ d = 1 <=> n = CacheSize + 1
          /\ Len(recent') = n + 1 - d
          /\ \A i \in 1..(n - d) : recent'[i] = recent[i + d]
          /\ recent'[n + 1 - d] = r
    <3>1. n <= CacheSize + 1
      BY DEF CacheInv
    <3>2. CacheSize + 1 \in Nat /\ CacheSize + 1 > 0
      BY ONLY <1>1
    <3>3. Follows(Newest(Append(recent, r), CacheSize + 1), recent, r, CacheSize + 1)
      BY ONLY <1>1, <3>1, <3>2, r \in Requests, NewestFollows
    <3>4. Follows(recent', recent, r, CacheSize + 1)
      BY ONLY <2>2, <3>3
    <3> QED BY <3>4 DEF Follows
  <2>4. PICK e \in {0, 1} :
          /\ e = 1 <=> m = CacheSize
          /\ Len(cached') = m + 1 - e
          /\ \A i \in 1..(m - e) : cached'[i] = cached[i + e]
          /\ cached'[m + 1 - e] = r
    <3>1. Follows(Newest(Append(cached, r), CacheSize), cached, r, CacheSize)
      BY ONLY <1>1, r \in Requests, NewestFollows
    <3>2. Follows(cached', cached, r, CacheSize)
      BY ONLY <2>2, <3>1
    <3> QED BY <3>2 DEF Follows
  <2>5. /\ \A i \in 1..n : recent[i].token <= token
        /\ \A i \in 1..m : cached[i] = recent[(n - m) + i]
        /\ \A i \in 1..(n - m) : recent[i].token < token \/ (i = 1 /\ n = CacheSize + 1)
        /\ Distinct(recent)
    BY DEF CacheInv
  <2>6. /\ n \in Nat /\ m \in Nat /\ m <= n /\ CacheSize \in Nat
        /\ \/ d = 1 /\ n = CacheSize + 1
           \/ d = 0 /\ n <= CacheSize
        /\ \/ e = 1 /\ m = CacheSize
           \/ e = 0 /\ m < CacheSize
    <3>1. m <= n /\ n <= CacheSize + 1 /\ m <= CacheSize
      BY <1>1 DEF CacheInv
    <3>2. n \in Nat /\ m \in Nat /\ CacheSize \in Nat
      BY <1>1
    <3> HIDE DEF n, m
    <3>3. (d = 1 /\ n = CacheSize + 1) \/ (d = 0 /\ n <= CacheSize)
      BY ONLY <2>3, <3>1, <3>2
    <3>4. (e = 1 /\ m = CacheSize) \/ (e = 0 /\ m < CacheSize)
      BY ONLY <2>4, <3>1, <3>2
    <3> QED BY <3>1, <3>2, <3>3, <3>4
  <2> HIDE DEF n, m
  <2>7. /\ Len(recent') <= CacheSize + 1 /\ Len(cached') <= Len(recent')
        /\ Len(recent') - Len(cached') = (n - m) + e - d
    <3>1. Len(recent') = n + 1 - d /\ Len(cached') = m + 1 - e
      BY <2>3, <2>4
    <3> QED BY ONLY <2>6, <3>1
  <2>8. ASSUME NEW i \in 1..Len(recent') PROVE recent'[i].token <= token
    <3>1. i \in 1..(n - d) \/ i = n + 1 - d
      BY <2>3, <2>6
    <3>2. CASE i \in 1..(n - d)
      <4>1. i + d \in 1..n
        BY <2>6, <3>2
      <4> QED BY <2>3, <2>5, <3>2, <4>1
    <3>3. CASE i = n + 1 - d
      BY <1>1, <2>1, <2>3, <3>3
    <3> QED BY <3>1, <3>2, <3>3
  <2>9. ASSUME NEW i \in 1..Len(cached')
        PROVE  cached'[i] = recent'[(Len(recent') - Len(cached')) + i]
    <3> DEFINE k == (Len(recent') - Len(cached')) + i
    <3>1. k = (n - m) + e - d + i /\ (i \in 1..(m - e) \/ i = m + 1 - e)
      BY <2>4, <2>6, <2>7
    <3> HIDE DEF k
    <3>2. CASE i \in 1..(m - e)
      <4>1. /\ i + e \in 1..m /\ k \in 1..(n - d)
            /\ (n - m) + (i + e) = k + d
        BY ONLY <2>6, <3>1, <3>2
      <4>2. cached'[i] = cached[i + e] /\ recent'[k] = recent[k + d]
        BY <2>3, <2>4, <3>2, <4>1
      <4>3. cached[i + e] = recent[k + d]
        BY <2>5, <4>1
      <4> QED BY <4>2, <4>3 DEF k
    <3>3. CASE i = m + 1 - e
      <4>1. k = n + 1 - d
        BY <2>6, <3>1, <3>3
      <4> QED BY <2>3, <2>4, <3>3, <4>1 DEF k
    <3> QED BY <3>1, <3>2, <3>3
  <2>10. ASSUME NEW i \in 1..(Len(recent') - Len(cached'))
         PROVE  recent'[i].token < token \/ (i = 1 /\ Len(recent') = CacheSize + 1)
    <3>1. i \in 1..(n - d) /\ i + d \in 1..n /\ i + d <= (n - m) + e
      <4>1. i \in 1..((n - m) + e - d)
        BY <2>7
      <4>2. CacheSize > 0
        BY <1>1
      <4> QED BY ONLY <2>6, <4>1, <4>2
    <3>2. recent'[i] = recent[i + d]
      BY <2>3, <3>1
    <3>3. CASE i + d <= n - m
      <4>1. i + d \in 1..(n - m)
        BY <2>6, <3>1, <3>3
      <4>2. recent[i + d].token < token \/ (i + d = 1 /\ n = CacheSize + 1)
        BY <2>5, <4>1
      <4>3. ~ (i + d = 1 /\ n = CacheSize + 1)
        BY <2>3, <2>6, <3>1
      <4> QED BY <3>2, <4>2, <4>3
    <3>4. CASE ~ (i + d <= n - m)
      <4>1. e = 1 /\ m = CacheSize /\ i + d = (n - m) + 1
        BY <2>4, <2>6, <3>1, <3>4
      <4>2. i = 1 /\ n + 1 - d = CacheSize + 1
        BY ONLY <2>6, <3>1, <4>1
      <4> QED BY <2>3, <4>2
    <3> QED BY <3>3, <3>4
  <2>11. \A i \in 1..(n - d) : i + d \in 1..n /\ recent[i + d] # r
    <3> SUFFICES ASSUME NEW i \in 1..(n - d) PROVE i + d \in 1..n /\ recent[i + d] # r
      OBVIOUS
    <3>1. i + d \in 1..n
      BY <2>6
    <3>2. CASE i + d <= n - m
      <4>1. i + d \in 1..(n - m) /\ ~ (i + d = 1 /\ n = CacheSize + 1)
        BY <2>3, <2>6, <3>1, <3>2
      <4>2. recent[i + d].token < token
        BY <2>5, <4>1
      <4>3. recent[i + d].token # token
        <5>1. recent[i + d].token \in Nat
          BY <1>1, <3>1, RequestsAssumption DEF n
        <5> QED BY ONLY <1>1, <4>2, <5>1
      <4> QED BY <2>1, <3>1, <4>3
    <3>3. CASE ~ (i + d <= n - m)
      <4>1. (i + d) - (n - m) \in 1..m /\ (n - m) + ((i + d) - (n - m)) = i + d
        BY <2>6, <2>5, <3>1, <3>3
      <4>2. cached[(i + d) - (n - m)] = recent[i + d]
        BY <2>5, <4>1
      <4> QED BY <2>1, <3>1, <4>1, <4>2 DEF m
    <3> QED BY <3>2, <3>3
  <2>12. Distinct(recent')
    <3>1. DOMAIN recent' = 1..(n + 1 - d)
      BY <1>4, <2>3, ExecuteUpdate, LenProperties
    <3>2. \A i \in 1..(n + 1 - d) : i \in 1..(n - d) \/ i = n + 1 - d
      BY <2>6
    <3>3. \A i, k \in 1..(n - d) : recent'[i] = recent'[k] => i = k
      <4> SUFFICES ASSUME NEW i \in 1..(n - d), NEW k \in 1..(n - d), recent'[i] = recent'[k]
                   PROVE  i = k
        OBVIOUS
      <4>1. recent[i + d] = recent[k + d]
        BY <2>3
      <4>2. i + d \in DOMAIN recent /\ k + d \in DOMAIN recent
        BY <1>1, <2>11 DEF n
      <4>3. i + d = k + d
        BY <2>5, <4>1, <4>2 DEF Distinct
      <4> QED BY ONLY <2>6, <4>3, i \in 1..(n - d), k \in 1..(n - d)
    <3>4. \A i \in 1..(n - d) : recent'[i] # r
      BY <2>3, <2>11
    <3> QED BY <2>3, <3>1, <3>2, <3>3, <3>4 DEF Distinct
  <2> QED BY <1>4, <2>7, <2>8, <2>9, <2>10, <2>12 DEF CacheInv
<1> QED BY <1>1, <1>2, <1>3, <1>4 DEF CacheMoves

(* A request is not executed twice among any CacheSize + 1 that are executed *)
(* one after the other, over restarts too: RunsOnce always holds.            *)
THEOREM RequestsRunOnce == Spec => []RunsOnce
<1>1. Init => CacheInv
  BY SizesAssumption DEF Init, CacheInv, Distinct
<1>2. CacheInv => RunsOnce
  BY DEF CacheInv, RunsOnce
<1> QED BY <1>1, <1>2, CacheInvStep, ServiceTypes, PTL DEF Spec

===============================================================================
