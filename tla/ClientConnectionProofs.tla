----------------------- MODULE ClientConnectionProofs -----------------------
(***************************************************************************)
(* Proofs about ClientConnection, for any number of endpoints, attempts    *)
(* and QUIC sessions: the client never comes to rest without a connection  *)
(* or a plan to get one, it pursues one attempt at a time, and with a TCP  *)
(* transport it has one connection.                                        *)
(***************************************************************************)
EXTENDS ClientConnection, FiniteSetTheorems, TLAPS

-----------------------------------------------------------------------------
(* The queue of the strand.                                                  *)

Handlers == [run : Runnables, id : Nat, ok : BOOLEAN]

\* The handlers of an attempt to connect.
AttemptRuns == {"resolved", "connected", "shaken"}

\* The handlers that pursue attempt c.
Pursuing(c) == {h \in Handlers : h.run \in AttemptRuns /\ h.id = c}

\* The handlers of a control stream of connection c.
Failing(c) == {h \in Handlers : h.run = "control_failed" /\ h.id = c}

\* The handlers that dial.
Dialling == {h \in Handlers : h.run \in {"connect", "reconnect"}}

\* The handlers that do something whatever connection_id is.
Always == {h \in Handlers : h.run \in {"stop", "disconnect", "connect", "reconnect"}}

\* The handlers that only the QUIC transport and its failover queue.
QuicOnly == {h \in Handlers : h.run \in {"disconnect", "connect"}}

\* The handlers of an id not yet given out.
After(c) == {h \in Handlers : h.id > c}

\* No handler of queue s is in H; at most one is.
None(s, H) == \A i \in 1..Len(s) : s[i] \notin H
One(s, H) == \A i, j \in 1..Len(s) : s[i] \in H /\ s[j] \in H => i = j

-----------------------------------------------------------------------------
(* The inductive invariant.                                                  *)

\* connection_id is the latest of the ids given out, and an operation under way
\* is one of an attempt.
IdInv ==
  /\ connection_id >= 1
  /\ \A o \in operation : o.run \in AttemptRuns /\ o.id <= connection_id
  /\ None(strand, After(connection_id))
  /\ \A s \in 1..Len(sessions) : sessions[s].id <= connection_id
  /\ handshake <= connection_id
  /\ \A id \in timed_out : id <= connection_id
  /\ \A n \in 1..Len(connections) : connections[n].id <= connection_id

\* The attempt under way is still to be resolved or connected over TCP.
Attempting == CurrentOperations # {} \/ ~None(strand, Pursuing(connection_id))

\* A QUIC session of the present id was made, or its timer still matters.
Shaking ==
  \/ \E s \in 1..Len(sessions) : sessions[s].id = connection_id
  \/ connection_id \in timed_out \union {handshake}

\* An attempt has one operation or one handler, and no QUIC session beside it.
AttemptInv ==
  /\ One(strand, Pursuing(connection_id))
  /\ \A o, p \in CurrentOperations : o = p
  /\ CurrentOperations # {} => None(strand, Pursuing(connection_id))
  /\ Attempting => ~Shaking

\* QUIC sessions and their timers belong to the protocol being tried, and a
\* session still in its handshake is the client's.
QuicInv ==
  /\ Shaking => current_protocol = "quic"
  /\ CurrentHandshakes \subseteq {quic_session}

\* NeverIdle, of a handler that will not be ignored.
Busy ==
  \/ stopping \/ reconnect \/ refused > 0
  \/ ~None(strand, Always)
  \/ ~None(strand, Pursuing(connection_id))
  \/ ~None(strand, Failing(connection_id))
  \/ CurrentOperations # {}
  \/ connection_id \in timed_out \union {handshake}
  \/ \E s \in closing : sessions[s].id = connection_id
  \/ mux_session # 0 /\ connections[mux_session].id = connection_id

OverTcp == protocol \in {"tcp", "websocket"}

\* A client that uses TCP has nothing of QUIC.
NoQuicInv ==
  OverTcp =>
    /\ current_protocol = protocol
    /\ sessions = <<>> /\ closing = {}
    /\ handshake = 0 /\ timed_out = {}
    /\ ~receiving /\ refused = 0
    /\ None(strand, QuicOnly)

\* It is connected, attempts to be, waits for the timer or is about to dial.
PhaseInv ==
  OverTcp =>
    /\ mux_session # 0 => /\ connections[mux_session].id = connection_id
                          /\ ~Attempting /\ ~reconnect /\ None(strand, Dialling)
    /\ mux_session = 0 => None(strand, Failing(connection_id))
    /\ reconnect => ~Attempting /\ None(strand, Dialling)
    /\ Attempting => None(strand, Dialling)
    /\ One(strand, Dialling)
    /\ \A n \in 1..Len(connections) : connections[n].state = "up" => n = mux_session

IInv ==
  /\ TypeOK /\ IdInv /\ AttemptInv /\ QuicInv /\ Busy /\ NoQuicInv /\ PhaseInv

-----------------------------------------------------------------------------
(* Facts about queues, sessions and connections.                             *)

\* The handler at the head of a queue leaves it.
LEMMA TailQueue ==
  ASSUME NEW s \in Seq(Handlers), s # <<>>, NEW H
  PROVE  /\ Head(s) \in Handlers
         /\ Tail(s) \in Seq(Handlers)
         /\ None(s, H) => None(Tail(s), H)
         /\ One(s, H) => One(Tail(s), H)
         /\ None(s, H) => Head(s) \notin H
         /\ One(s, H) /\ Head(s) \in H => None(Tail(s), H)
         /\ Head(s) \notin H /\ None(Tail(s), H) => None(s, H)
<1>1. /\ Head(s) \in Handlers /\ Tail(s) \in Seq(Handlers) /\ Head(s) = s[1]
      /\ Len(s) \in Nat /\ Len(Tail(s)) = Len(s) - 1 /\ Len(s) >= 1
    OBVIOUS
<1>2. \A i \in 1..Len(Tail(s)) : Tail(s)[i] = s[i + 1] /\ i + 1 \in 1..Len(s) /\ i + 1 # 1
    BY <1>1
<1>3. \A i \in 1..Len(s) : i # 1 => i - 1 \in 1..Len(Tail(s)) /\ Tail(s)[i - 1] = s[i]
    BY <1>1, <1>2
<1>4. 1 \in 1..Len(s) BY <1>1
<1>5. None(s, H) => None(Tail(s), H) BY <1>2 DEF None
<1>6. None(s, H) => Head(s) \notin H BY <1>1, <1>4 DEF None
<1>7. One(s, H) => One(Tail(s), H)
  <2>1. ASSUME One(s, H), NEW i \in 1..Len(Tail(s)), NEW j \in 1..Len(Tail(s)),
               Tail(s)[i] \in H, Tail(s)[j] \in H
        PROVE  i = j
    <3>1. i + 1 = j + 1 BY <1>2, <2>1 DEF One
    <3>2. QED BY <1>1, <3>1
  <2>2. QED BY <2>1 DEF One
<1>8. One(s, H) /\ Head(s) \in H => None(Tail(s), H)
  BY <1>1, <1>2, <1>4 DEF One, None
<1>9. Head(s) \notin H /\ None(Tail(s), H) => None(s, H)
  BY <1>1, <1>3 DEF None
<1>10. QED BY <1>1, <1>5, <1>6, <1>7, <1>8, <1>9

\* A handler joins a queue.
LEMMA AppendQueue ==
  ASSUME NEW s \in Seq(Handlers), NEW h \in Handlers, NEW H
  PROVE  /\ Append(s, h) \in Seq(Handlers) /\ Append(s, h) # <<>>
         /\ None(Append(s, h), H) <=> None(s, H) /\ h \notin H
         /\ One(s, H) /\ h \notin H => One(Append(s, h), H)
         /\ None(s, H) => One(Append(s, h), H)
         /\ None(s, H) => One(s, H)
<1> DEFINE t == Append(s, h)
<1>1. /\ t \in Seq(Handlers) /\ t # <<>> /\ Len(s) \in Nat /\ Len(t) = Len(s) + 1
      /\ t[Len(s) + 1] = h /\ Len(s) + 1 \in 1..Len(t)
      /\ \A i \in 1..Len(s) : i \in 1..Len(t) /\ t[i] = s[i]
      /\ \A i \in 1..Len(t) : i \in 1..Len(s) \/ i = Len(s) + 1
    OBVIOUS
<1> HIDE DEF t
<1>2. None(t, H) <=> None(s, H) /\ h \notin H BY <1>1 DEF None
<1>3. One(s, H) /\ h \notin H => One(t, H)
  <2>1. ASSUME One(s, H), h \notin H, NEW i \in 1..Len(t), t[i] \in H
        PROVE  i \in 1..Len(s) /\ s[i] \in H
    BY <1>1, <2>1
  <2>2. QED BY <2>1 DEF One
<1>4. None(s, H) => One(t, H)
  <2>1. ASSUME None(s, H), NEW i \in 1..Len(t), t[i] \in H PROVE i = Len(s) + 1
    BY <1>1, <2>1 DEF None
  <2>2. QED BY <2>1 DEF One
<1>5. None(s, H) => One(s, H) BY DEF None, One
<1>6. QED BY <1>1, <1>2, <1>3, <1>4, <1>5 DEF t

\* What is said of a set of handlers holds of a smaller one.
LEMMA NoneOfFewer ==
  ASSUME NEW s, NEW H, NEW G, G \subseteq H, None(s, H)
  PROVE  None(s, G)
BY DEF None

\* Two handlers that join together.
LEMMA TwoJoin ==
  ASSUME NEW s \in Seq(Handlers), NEW h \in Handlers
  PROVE  s \o <<h, h>> = Append(Append(s, h), h)
<1> DEFINE t == Append(Append(s, h), h)
           u == s \o <<h, h>>
<1>1. t \in Seq(Handlers) /\ u \in Seq(Handlers) /\ Len(t) = Len(s) + 2
      /\ Len(u) = Len(s) + 2 /\ Len(s) \in Nat
  OBVIOUS
<1>2. ASSUME NEW i \in 1..(Len(s) + 2) PROVE t[i] = u[i]
  <2>1. CASE i \in 1..Len(s) BY <2>1
  <2>2. CASE i = Len(s) + 1 BY <2>2
  <2>3. CASE i = Len(s) + 2 BY <2>3
  <2>4. QED BY <1>1, <2>1, <2>2, <2>3
<1>3. QED
  <2> HIDE DEF t, u
  <2>1. t = u BY <1>1, <1>2
  <2>2. QED BY <2>1 DEF t, u

\* Which handlers are of which kind.
LEMMA HandlerKinds ==
  ASSUME NEW r \in Runnables, NEW i \in Nat, NEW k \in BOOLEAN
  PROVE  /\ Handler(r, i, k) \in Handlers
         /\ Handler(r, i, k).run = r /\ Handler(r, i, k).id = i
BY DEF Handler, Handlers

\* The kinds of a handler.
LEMMA Kinds ==
  ASSUME NEW h \in Handlers, NEW c
  PROVE  /\ h \in Pursuing(c) <=> h.run \in AttemptRuns /\ h.id = c
         /\ h \in Failing(c) <=> h.run = "control_failed" /\ h.id = c
         /\ h \in Dialling <=> h.run \in {"connect", "reconnect"}
         /\ h \in Always <=> h.run \in {"stop", "disconnect", "connect", "reconnect"}
         /\ h \in QuicOnly <=> h.run \in {"disconnect", "connect"}
         /\ h \in After(c) <=> h.id > c
         /\ h.id \in Nat /\ h.run \in Runnables
BY DEF Pursuing, Failing, Dialling, Always, QuicOnly, After, Handlers

\* The handlers of a new id are among those that are not queued yet.
LEMMA NewIsAfter ==
  ASSUME NEW c \in Nat
  PROVE  /\ Pursuing(c + 1) \subseteq After(c)
         /\ Failing(c + 1) \subseteq After(c)
         /\ After(c + 1) \subseteq After(c)
BY DEF Pursuing, Failing, After, Handlers

Sessions == [id : Nat, state : {"handshaking", "up", "closed"}]

Connections == [id : Nat, state : {"up", "lost", "stopped"}]

\* The entries of the queues, and their fields.
LEMMA Typed ==
  ASSUME TypeOK
  PROVE  /\ strand \in Seq(Handlers)
         /\ sessions \in Seq(Sessions) /\ Len(sessions) \in Nat
         /\ connections \in Seq(Connections) /\ Len(connections) \in Nat
         /\ \A s \in 1..Len(sessions) : sessions[s] \in Sessions /\ sessions[s].id \in Nat
         /\ \A n \in 1..Len(connections) :
              connections[n] \in Connections /\ connections[n].id \in Nat
         /\ \A o \in operation : o.id \in Nat
<1>1. /\ strand \in Seq(Handlers) /\ sessions \in Seq(Sessions)
      /\ connections \in Seq(Connections)
  BY DEF TypeOK, Handlers, Sessions, Connections
<1>2. \A s \in 1..Len(sessions) : sessions[s] \in Sessions BY <1>1
<1>3. \A n \in 1..Len(connections) : connections[n] \in Connections BY <1>1
<1>4. \A e \in Sessions \union Connections : e.id \in Nat BY DEF Sessions, Connections
<1>5. \A o \in operation : o.id \in Nat BY DEF TypeOK
<1>6. QED BY <1>1, <1>2, <1>3, <1>4, <1>5

\* Closing the client's session leaves every id as it is.
LEMMA ClosedEffect ==
  ASSUME TypeOK
  PROVE  /\ ClosedSessions \in Seq(Sessions)
         /\ Len(ClosedSessions) = Len(sessions)
         /\ \A s \in 1..Len(sessions) :
              /\ ClosedSessions[s].id = sessions[s].id
              /\ ClosedSessions[s].state =
                   IF s = quic_session THEN "closed" ELSE sessions[s].state
         /\ NewlyClosed \subseteq 1..Len(sessions)
<1>1. sessions \in Seq(Sessions) /\ quic_session \in 0..Len(sessions) /\ Len(sessions) \in Nat
  BY DEF TypeOK, Sessions
<1>2. \A s \in 1..Len(sessions) : sessions[s] \in Sessions BY <1>1
<1>3. CASE quic_session = 0
  BY <1>1, <1>3 DEF ClosedSessions, NewlyClosed
<1>4. CASE quic_session # 0
  <2>1. quic_session \in 1..Len(sessions) BY <1>1, <1>4
  <2>2. ClosedSessions = [sessions EXCEPT ![quic_session].state = "closed"]
    BY <1>4 DEF ClosedSessions
  <2> DEFINE r == [sessions[quic_session] EXCEPT !.state = "closed"]
  <2>3. r \in Sessions /\ r.id = sessions[quic_session].id /\ r.state = "closed"
    BY <1>2, <2>1 DEF Sessions
  <2>4. ClosedSessions = [sessions EXCEPT ![quic_session] = r] BY <2>2
  <2> HIDE DEF r
  <2>5. ClosedSessions \in Seq(Sessions) /\ Len(ClosedSessions) = Len(sessions)
        /\ \A s \in 1..Len(sessions) :
             ClosedSessions[s] = IF s = quic_session THEN r ELSE sessions[s]
    BY <1>1, <2>1, <2>3, <2>4
  <2>6. NewlyClosed \subseteq 1..Len(sessions) BY <2>1 DEF NewlyClosed
  <2>7. QED BY <2>3, <2>5, <2>6
<1>5. QED BY <1>3, <1>4

\* Setting the state of one of the connections.
LEMMA ConnectionSet ==
  ASSUME NEW q \in Seq(Connections), NEW n \in 1..Len(q), NEW v,
         [q[n] EXCEPT !.state = v] \in Connections,
         NEW r, r = [q EXCEPT ![n].state = v]
  PROVE  /\ r \in Seq(Connections) /\ Len(r) = Len(q)
         /\ \A i \in 1..Len(q) : /\ r[i].id = q[i].id
                                 /\ r[i].state = IF i = n THEN v ELSE q[i].state
<1> DEFINE e == [q[n] EXCEPT !.state = v]
<1>1. q[n] \in Connections OBVIOUS
<1>2. e \in Connections OBVIOUS
<1>3. e.id = q[n].id /\ e.state = v BY <1>1 DEF Connections
<1>4. r = [q EXCEPT ![n] = e] OBVIOUS
<1> HIDE DEF e
<1>5. /\ r \in Seq(Connections) /\ Len(r) = Len(q)
      /\ \A i \in 1..Len(q) : r[i] = IF i = n THEN e ELSE q[i]
  BY <1>2, <1>4
<1>6. QED BY <1>3, <1>5

\* Setting the state of one of the QUIC sessions.
LEMMA SessionSet ==
  ASSUME NEW q \in Seq(Sessions), NEW n \in 1..Len(q), NEW v,
         [q[n] EXCEPT !.state = v] \in Sessions,
         NEW r, r = [q EXCEPT ![n].state = v]
  PROVE  /\ r \in Seq(Sessions) /\ Len(r) = Len(q)
         /\ \A i \in 1..Len(q) : /\ r[i].id = q[i].id
                                 /\ r[i].state = IF i = n THEN v ELSE q[i].state
<1> DEFINE e == [q[n] EXCEPT !.state = v]
<1>1. q[n] \in Sessions OBVIOUS
<1>2. e \in Sessions OBVIOUS
<1>3. e.id = q[n].id /\ e.state = v BY <1>1 DEF Sessions
<1>4. r = [q EXCEPT ![n] = e] OBVIOUS
<1> HIDE DEF e
<1>5. /\ r \in Seq(Sessions) /\ Len(r) = Len(q)
      /\ \A i \in 1..Len(q) : r[i] = IF i = n THEN e ELSE q[i]
  BY <1>2, <1>4
<1>6. QED BY <1>3, <1>5

-----------------------------------------------------------------------------
(* HandleDisconnect and DoConnect: a new id.                                 *)

\* Nothing of an id that was just given out is under way.
LEMMA NothingOfNewId ==
  ASSUME TypeOK, IdInv, connection_id' = connection_id + 1,
         None(strand', After(connection_id)),
         Len(sessions') = Len(sessions),
         \A s \in 1..Len(sessions) : sessions'[s].id = sessions[s].id,
         handshake' \in {0, handshake}, timed_out' = timed_out
  PROVE  /\ None(strand', After(connection_id'))
         /\ None(strand', Pursuing(connection_id'))
         /\ None(strand', Failing(connection_id'))
         /\ \A s \in 1..Len(sessions') : sessions'[s].id <= connection_id'
         /\ handshake' <= connection_id'
         /\ \A id \in timed_out' : id <= connection_id'
         /\ CurrentHandshakes' = {}
         /\ ~Shaking'
<1>1. connection_id \in Nat /\ connection_id >= 1 BY DEF TypeOK, IdInv
<1>2. /\ None(strand', After(connection_id')) /\ None(strand', Pursuing(connection_id'))
      /\ None(strand', Failing(connection_id'))
  BY <1>1, NewIsAfter, NoneOfFewer
<1>3. ASSUME NEW s \in 1..Len(sessions)
      PROVE  sessions'[s].id <= connection_id' /\ sessions'[s].id # connection_id'
  <2>2. sessions[s].id \in Nat /\ sessions[s].id <= connection_id BY Typed DEF IdInv
  <2>3. QED BY <1>1, <2>2
<1>4. handshake' <= connection_id' /\ handshake' # connection_id'
  BY <1>1 DEF TypeOK, IdInv
<1>5. \A id \in timed_out' : id <= connection_id' /\ id # connection_id'
  BY <1>1 DEF TypeOK, IdInv
<1>6. CurrentHandshakes' = {} BY <1>3 DEF CurrentHandshakes
<1>7. ~Shaking' BY <1>3, <1>4, <1>5 DEF Shaking
<1>8. QED BY <1>2, <1>3, <1>4, <1>5, <1>6, <1>7

\* The connection HandleDisconnect leaves is stopped, the others are as before.
LEMMA LeftEffect ==
  ASSUME TypeOK, NEW c,
         c = IF mux_session = 0 THEN connections
             ELSE [connections EXCEPT ![mux_session].state = "stopped"]
  PROVE  /\ c \in Seq(Connections) /\ Len(c) = Len(connections)
         /\ \A n \in 1..Len(connections) :
              /\ c[n].id = connections[n].id
              /\ c[n].state = IF n = mux_session THEN "stopped" ELSE connections[n].state
<1>1. /\ connections \in Seq([id : Nat, state : {"up", "lost", "stopped"}])
      /\ mux_session \in 0..Len(connections) /\ Len(connections) \in Nat
  BY DEF TypeOK
<1>2. CASE mux_session = 0 BY <1>1, <1>2 DEF Connections
<1>3. CASE mux_session # 0
  <2>1. mux_session \in 1..Len(connections) /\ "stopped" \in {"up", "lost", "stopped"}
    BY <1>1, <1>3
  <2>2. connections \in Seq(Connections) /\ connections[mux_session] \in Connections
    BY <2>1, Typed
  <2>3. c = [connections EXCEPT ![mux_session].state = "stopped"] BY <1>3
  <2>4. [connections[mux_session] EXCEPT !.state = "stopped"] \in Connections
    BY <2>2 DEF Connections
  <2>5. QED BY <2>1, <2>2, <2>3, <2>4, ConnectionSet
<1>4. QED BY <1>2, <1>3

\* What HandleDisconnect does to the queue of the strand.
LEMMA HangQueue ==
  ASSUME TypeOK, IdInv, strand # <<>>, NEW st \in BOOLEAN,
         HandleDisconnect(Tail(strand), st)
  PROVE  /\ strand' \in Seq(Handlers)
         /\ None(strand', After(connection_id))
         /\ ~st /\ Immediate => ~None(strand', Always)
         /\ ~Immediate => strand' = Tail(strand)
<1>1. strand \in Seq(Handlers) BY DEF TypeOK, Handlers
<1>2. Tail(strand) \in Seq(Handlers) /\ None(Tail(strand), After(connection_id))
  BY <1>1, TailQueue DEF IdInv
<1> DEFINE h == Handler("connect", 0, TRUE)
<1>3. h \in Handlers /\ h.run = "connect" /\ h.id = 0
  <2>1. "connect" \in Runnables /\ 0 \in Nat /\ TRUE \in BOOLEAN BY DEF Runnables
  <2>2. QED BY <2>1, HandlerKinds
<1> HIDE DEF h
<1>4. h \in Always BY <1>3, Kinds
<1>5. h \notin After(connection_id)
  <2>1. connection_id \in Nat BY DEF TypeOK
  <2>2. QED BY <1>3, <2>1, Kinds
<1>6. strand' = IF Immediate /\ ~st THEN Append(Tail(strand), h) ELSE Tail(strand)
  BY DEF HandleDisconnect, h
<1>7. CASE Immediate /\ ~st
  BY <1>2, <1>3, <1>4, <1>5, <1>6, <1>7, AppendQueue
<1>8. CASE ~(Immediate /\ ~st) BY <1>2, <1>6, <1>8
<1>9. QED BY <1>7, <1>8

\* HandleDisconnect, called by a handler that is not ignored.
LEMMA HangKeeps ==
  ASSUME IInv, strand # <<>>, NEW st \in BOOLEAN,
         HandleDisconnect(Tail(strand), st), stopping' = st,
         \/ Head(strand).run = "stop" /\ st
         \/ /\ \/ Head(strand).run = "disconnect"
               \/ Head(strand) \in Pursuing(connection_id) \union Failing(connection_id)
            /\ st = stopping,
         handshake' \in {0, handshake}, quic_endpoint_index' \in 0..Endpoints
  PROVE  IInv'
<1>1. /\ TypeOK /\ IdInv /\ AttemptInv /\ QuicInv /\ Busy /\ NoQuicInv /\ PhaseInv
  BY DEF IInv
<1>2. /\ connection_id' = connection_id + 1 /\ operation' = operation
      /\ connections' = IF mux_session = 0 THEN connections
                        ELSE [connections EXCEPT ![mux_session].state = "stopped"]
      /\ mux_session' = 0 /\ sessions' = ClosedSessions
      /\ closing' = closing \union NewlyClosed /\ quic_session' = 0
      /\ receiving' = FALSE
      /\ current_protocol' = IF st THEN current_protocol ELSE NextProtocol
      /\ reconnect' = (reconnect \/ ScheduleReconnect(st))
      /\ protocol' = protocol /\ refused' = refused /\ timed_out' = timed_out
      /\ tried' = tried
  BY DEF HandleDisconnect
<1>3. /\ strand' \in Seq(Handlers) /\ None(strand', After(connection_id))
      /\ ~st /\ Immediate => ~None(strand', Always)
      /\ ~Immediate => strand' = Tail(strand)
  BY <1>1, HangQueue
<1>4. /\ sessions' \in Seq(Sessions) /\ Len(sessions') = Len(sessions)
      /\ \A s \in 1..Len(sessions) : sessions'[s].id = sessions[s].id
      /\ NewlyClosed \subseteq 1..Len(sessions)
  BY <1>1, <1>2, ClosedEffect
<1>5. /\ None(strand', After(connection_id')) /\ None(strand', Pursuing(connection_id'))
      /\ None(strand', Failing(connection_id'))
      /\ \A s \in 1..Len(sessions') : sessions'[s].id <= connection_id'
      /\ handshake' <= connection_id' /\ \A id \in timed_out' : id <= connection_id'
      /\ CurrentHandshakes' = {} /\ ~Shaking'
  BY <1>1, <1>2, <1>3, <1>4, NothingOfNewId
<1>6. /\ connections' \in Seq(Connections) /\ Len(connections') = Len(connections)
      /\ \A n \in 1..Len(connections) :
           /\ connections'[n].id = connections[n].id
           /\ connections'[n].state =
                IF n = mux_session THEN "stopped" ELSE connections[n].state
  BY <1>1, <1>2, LeftEffect
<1>7. connection_id \in Nat /\ connection_id >= 1 BY <1>1 DEF TypeOK, IdInv
<1>8. TypeOK'
  <2>1. current_protocol' \in {"quic", "tcp", "websocket"}
    BY <1>1, <1>2 DEF TypeOK, NextProtocol
  <2>2. reconnect' \in BOOLEAN BY <1>1, <1>2 DEF TypeOK, ScheduleReconnect, Immediate
  <2>3. mux_session' \in 0..Len(connections') /\ quic_session' \in 0..Len(sessions')
    BY <1>2, <1>4, <1>6
  <2>4. closing' \subseteq 1..Len(sessions') BY <1>1, <1>2, <1>4 DEF TypeOK
  <2>5. handshake' \in Nat /\ connection_id' \in Nat BY <1>1, <1>2, <1>7 DEF TypeOK
  <2>6. QED
    BY <1>1, <1>2, <1>3, <1>4, <1>6, <2>1, <2>2, <2>3, <2>4, <2>5
       DEF TypeOK, Handlers, Sessions, Connections
<1>9. \A o \in operation' : o.run \in AttemptRuns /\ o.id <= connection_id' /\ o.id # connection_id'
  <2>1. \A o \in operation : o.id \in Nat /\ o.run \in AttemptRuns /\ o.id <= connection_id
    BY <1>1 DEF TypeOK, IdInv
  <2>2. QED BY <1>2, <1>7, <2>1
<1>10. \A n \in 1..Len(connections') : connections'[n].id <= connection_id'
  <2>1. ASSUME NEW n \in 1..Len(connections) PROVE connections'[n].id <= connection_id'
    <3>2. connections[n].id \in Nat /\ connections[n].id <= connection_id
      BY <1>1, Typed DEF IdInv
    <3>3. QED BY <1>2, <1>6, <1>7, <3>2
  <2>2. QED BY <1>6, <2>1
<1>11. IdInv' BY <1>2, <1>5, <1>7, <1>9, <1>10 DEF IdInv
<1>12. CurrentOperations' = {} BY <1>9 DEF CurrentOperations
<1>13. ~Attempting' BY <1>5, <1>12 DEF Attempting
<1>14. AttemptInv' BY <1>5, <1>12, <1>13 DEF AttemptInv, None, One
<1>15. QuicInv' BY <1>5 DEF QuicInv
<1>16. Busy'
  <2>1. CASE st BY <2>1 DEF Busy
  <2>2. CASE ~st /\ Immediate BY <1>3, <2>2 DEF Busy
  <2>3. CASE ~st /\ ~Immediate BY <1>2, <2>3 DEF Busy, ScheduleReconnect
  <2>4. QED BY <2>1, <2>2, <2>3
<1>17. ASSUME OverTcp PROVE ~Immediate /\ protocol # "auto"
  BY <1>17 DEF OverTcp, Immediate
<1>18. strand \in Seq(Handlers) BY <1>1 DEF TypeOK, Handlers
<1>19. NoQuicInv'
  <2>1. SUFFICES ASSUME OverTcp
        PROVE  /\ current_protocol' = protocol'
               /\ sessions' = <<>> /\ closing' = {}
               /\ handshake' = 0 /\ timed_out' = {}
               /\ ~receiving' /\ refused' = 0
               /\ None(strand', QuicOnly)
    BY <1>2 DEF NoQuicInv, OverTcp
  <2>2. /\ current_protocol = protocol /\ sessions = <<>> /\ closing = {}
        /\ handshake = 0 /\ timed_out = {} /\ refused = 0 /\ None(strand, QuicOnly)
    BY <1>1, <2>1 DEF NoQuicInv
  <2>3. quic_session = 0 BY <1>1, <2>2 DEF TypeOK
  <2>4. sessions' = <<>> /\ closing' = {}
    BY <1>2, <2>2, <2>3 DEF ClosedSessions, NewlyClosed
  <2>5. None(strand', QuicOnly) BY <1>3, <1>17, <1>18, <2>1, <2>2, TailQueue
  <2>6. QED BY <1>2, <1>17, <2>1, <2>2, <2>4, <2>5 DEF NextProtocol
<1>20. PhaseInv'
  <2>1. SUFFICES ASSUME OverTcp
        PROVE  /\ reconnect' => None(strand', Dialling)
               /\ One(strand', Dialling)
               /\ \A n \in 1..Len(connections') :
                    connections'[n].state = "up" => n = mux_session'
    BY <1>2, <1>5, <1>13 DEF PhaseInv, OverTcp
  <2>2. strand' = Tail(strand) BY <1>3, <1>17, <2>1
  <2>3. One(strand', Dialling) BY <1>1, <1>18, <2>1, <2>2, TailQueue DEF PhaseInv
  <2>4. ASSUME ~reconnect, reconnect' PROVE None(strand, Dialling)
    <3>1. ~st BY <1>2, <2>4 DEF ScheduleReconnect
    <3>2. Head(strand) \in Handlers BY <1>18, TailQueue
    <3>3. Head(strand).run # "disconnect"
      <4>1. Head(strand) \notin QuicOnly
        BY <1>1, <1>18, <2>1, TailQueue DEF NoQuicInv
      <4>2. QED BY <3>2, <4>1, Kinds
    <3>4. CASE Head(strand) \in Pursuing(connection_id)
      <4>1. ~None(strand, Pursuing(connection_id)) BY <1>18, <3>4, TailQueue
      <4>2. QED BY <1>1, <2>1, <4>1 DEF PhaseInv, Attempting
    <3>5. CASE Head(strand) \in Failing(connection_id)
      <4>1. ~None(strand, Failing(connection_id)) BY <1>18, <3>5, TailQueue
      <4>2. QED BY <1>1, <2>1, <4>1 DEF PhaseInv
    <3>6. QED BY <3>1, <3>3, <3>4, <3>5
  <2>5. reconnect' => None(strand', Dialling)
    BY <1>1, <1>18, <2>1, <2>2, <2>4, TailQueue DEF PhaseInv
  <2>6. \A n \in 1..Len(connections') : connections'[n].state # "up"
    <3>1. ASSUME NEW n \in 1..Len(connections) PROVE connections'[n].state # "up"
      BY <1>1, <1>6, <2>1 DEF PhaseInv
    <3>2. QED BY <1>6, <3>1
  <2>7. QED BY <2>3, <2>5, <2>6
<1>21. QED BY <1>8, <1>11, <1>14, <1>15, <1>16, <1>19, <1>20 DEF IInv

\* DoConnect, by the handler of the reconnect timer or of a failover.
LEMMA DialKeeps ==
  ASSUME IInv, strand # <<>>, Head(strand) \in Dialling, strand' = Tail(strand), DoConnect,
         UNCHANGED <<fields, current_protocol, mux, quic, udp, timers>>
  PROVE  IInv'
<1>1. /\ TypeOK /\ IdInv /\ AttemptInv /\ QuicInv /\ Busy /\ NoQuicInv /\ PhaseInv
  BY DEF IInv
<1> DEFINE o == [run |-> "resolved", id |-> connection_id + 1]
<1>2. /\ connection_id' = connection_id + 1 /\ operation' = operation \union {o}
      /\ tried' = current_protocol
  BY DEF DoConnect
<1>3. /\ protocol' = protocol /\ stopping' = stopping /\ current_protocol' = current_protocol
      /\ quic_endpoint_index' = quic_endpoint_index /\ mux_session' = mux_session
      /\ connections' = connections /\ quic_session' = quic_session /\ sessions' = sessions
      /\ closing' = closing /\ receiving' = receiving /\ refused' = refused
      /\ reconnect' = reconnect /\ handshake' = handshake /\ timed_out' = timed_out
  BY DEF fields, mux, quic, udp, timers
<1>4. connection_id \in Nat /\ connection_id >= 1 BY <1>1 DEF TypeOK, IdInv
<1>5. strand \in Seq(Handlers) BY <1>1, Typed
<1>6. strand' \in Seq(Handlers) /\ None(strand', After(connection_id))
  BY <1>1, <1>5, TailQueue DEF IdInv
<1>7. /\ None(strand', After(connection_id')) /\ None(strand', Pursuing(connection_id'))
      /\ None(strand', Failing(connection_id'))
      /\ \A s \in 1..Len(sessions') : sessions'[s].id <= connection_id'
      /\ handshake' <= connection_id' /\ \A id \in timed_out' : id <= connection_id'
      /\ CurrentHandshakes' = {} /\ ~Shaking'
  BY <1>1, <1>2, <1>3, <1>6, NothingOfNewId
<1>8. o.run \in AttemptRuns /\ o.run \in Runnables /\ o.id = connection_id' /\ o.id \in Nat
      /\ o \in [run : Runnables, id : Nat]
  BY <1>2, <1>4 DEF AttemptRuns, Runnables
<1> HIDE DEF o
<1>9. TypeOK'
  BY <1>1, <1>2, <1>3, <1>4, <1>6, <1>8 DEF TypeOK, Handlers
<1>10. \A p \in operation' : /\ p.run \in AttemptRuns /\ p.id <= connection_id'
                             /\ p.id = connection_id' => p = o
  <2>1. \A p \in operation : p.id \in Nat /\ p.run \in AttemptRuns /\ p.id <= connection_id
    BY <1>1, Typed DEF IdInv
  <2>2. QED BY <1>2, <1>4, <1>8, <2>1
<1>11. \A n \in 1..Len(connections') : connections'[n].id <= connection_id'
  <2>1. \A n \in 1..Len(connections) : connections[n].id \in Nat /\ connections[n].id <= connection_id
    BY <1>1, Typed DEF IdInv
  <2>2. QED BY <1>2, <1>3, <1>4, <2>1
<1>12. IdInv' BY <1>2, <1>4, <1>7, <1>10, <1>11 DEF IdInv
<1>13. CurrentOperations' = {o} BY <1>2, <1>8, <1>10 DEF CurrentOperations
<1>14. AttemptInv' BY <1>7, <1>13 DEF AttemptInv, None, One
<1>15. QuicInv' BY <1>7 DEF QuicInv
<1>16. Busy' BY <1>13 DEF Busy
<1>17. NoQuicInv'
  BY <1>1, <1>3, <1>5, TailQueue DEF NoQuicInv, OverTcp
<1>18. PhaseInv'
  <2>1. SUFFICES ASSUME OverTcp
        PROVE  /\ mux_session' = 0 /\ ~reconnect' /\ None(strand', Dialling)
               /\ One(strand', Dialling)
               /\ \A n \in 1..Len(connections') :
                    connections'[n].state = "up" => n = mux_session'
    BY <1>3, <1>7 DEF PhaseInv, OverTcp
  <2>2. ~None(strand, Dialling) BY <1>5, TailQueue
  <2>3. mux_session = 0 /\ ~reconnect /\ One(strand, Dialling)
    BY <1>1, <2>1, <2>2 DEF PhaseInv
  <2>4. None(strand', Dialling) /\ One(strand', Dialling) BY <1>5, <2>3, TailQueue
  <2>5. QED BY <1>1, <1>3, <2>1, <2>3, <2>4 DEF PhaseInv
<1>19. QED BY <1>9, <1>12, <1>14, <1>15, <1>16, <1>17, <1>18 DEF IInv

-----------------------------------------------------------------------------
(* The other handlers of the strand.                                         *)

\* A handler that does nothing: it is of an earlier id, or the client stops.
LEMMA DropKeeps ==
  ASSUME IInv, strand # <<>>, strand' = Tail(strand),
         \/ stopping
         \/ Head(strand) \notin Always \union Pursuing(connection_id) \union Failing(connection_id),
         UNCHANGED <<fields, current_protocol, connection_id, mux, quic, udp,
                     operation, timers, tried>>
  PROVE  IInv'
<1>1. /\ TypeOK /\ IdInv /\ AttemptInv /\ QuicInv /\ Busy /\ NoQuicInv /\ PhaseInv
  BY DEF IInv
<1>2. /\ protocol' = protocol /\ stopping' = stopping /\ current_protocol' = current_protocol
      /\ quic_endpoint_index' = quic_endpoint_index /\ mux_session' = mux_session
      /\ connections' = connections /\ quic_session' = quic_session /\ sessions' = sessions
      /\ closing' = closing /\ receiving' = receiving /\ refused' = refused
      /\ reconnect' = reconnect /\ handshake' = handshake /\ timed_out' = timed_out
      /\ connection_id' = connection_id /\ operation' = operation /\ tried' = tried
  BY DEF fields, mux, quic, udp, timers
<1>3. strand \in Seq(Handlers) BY <1>1, Typed
<1>4. strand' \in Seq(Handlers) BY <1>3, TailQueue
<1>5. TypeOK' BY <1>1, <1>2, <1>4 DEF TypeOK, Handlers
<1>6. \A H : /\ None(strand, H) => None(strand', H)
             /\ One(strand, H) => One(strand', H)
             /\ None(strand', H) /\ Head(strand) \notin H => None(strand, H)
  BY <1>3, TailQueue
<1>7. IdInv' BY <1>1, <1>2, <1>6 DEF IdInv
<1>8. CurrentOperations' = CurrentOperations /\ CurrentHandshakes' = CurrentHandshakes
      /\ Shaking' = Shaking
  BY <1>2 DEF CurrentOperations, CurrentHandshakes, Shaking
<1>9. Attempting' => Attempting BY <1>2, <1>6, <1>8 DEF Attempting
<1>10. AttemptInv' BY <1>1, <1>2, <1>6, <1>8, <1>9 DEF AttemptInv
<1>11. QuicInv' BY <1>1, <1>2, <1>8 DEF QuicInv
<1>12. Busy' BY <1>1, <1>2, <1>6, <1>8 DEF Busy
<1>13. NoQuicInv' BY <1>1, <1>2, <1>6 DEF NoQuicInv, OverTcp
<1>14. PhaseInv' BY <1>1, <1>2, <1>6, <1>9 DEF PhaseInv, OverTcp
<1>15. QED BY <1>5, <1>7, <1>10, <1>11, <1>12, <1>13, <1>14 DEF IInv

\* A handler of the attempt: no operation of it is under way, and no other
\* handler of it is queued.
LEMMA AttemptAtHead ==
  ASSUME IInv, strand # <<>>, Head(strand) \in Pursuing(connection_id)
  PROVE  /\ Attempting /\ ~Shaking
         /\ CurrentOperations = {}
         /\ None(Tail(strand), Pursuing(connection_id))
         /\ OverTcp => /\ mux_session = 0 /\ ~reconnect
                       /\ None(strand, Dialling) /\ None(strand, Failing(connection_id))
<1>1. strand \in Seq(Handlers) BY Typed DEF IInv
<1>2. ~None(strand, Pursuing(connection_id)) BY <1>1, TailQueue
<1>3. Attempting /\ ~Shaking /\ CurrentOperations = {}
  BY <1>2 DEF IInv, AttemptInv, Attempting
<1>4. None(Tail(strand), Pursuing(connection_id))
  BY <1>1, TailQueue DEF IInv, AttemptInv
<1>5. QED BY <1>3, <1>4 DEF IInv, PhaseInv

\* A handler of the attempt starts the next operation.
LEMMA ProceedKeeps ==
  ASSUME IInv, strand # <<>>, Head(strand) \in Pursuing(connection_id),
         strand' = Tail(strand), NEW r \in AttemptRuns,
         operation' = operation \union {[run |-> r, id |-> connection_id]},
         UNCHANGED <<fields, current_protocol, connection_id, mux, quic, udp, timers, tried>>
  PROVE  IInv'
<1>1. /\ TypeOK /\ IdInv /\ AttemptInv /\ QuicInv /\ Busy /\ NoQuicInv /\ PhaseInv
  BY DEF IInv
<1>2. /\ protocol' = protocol /\ stopping' = stopping /\ current_protocol' = current_protocol
      /\ quic_endpoint_index' = quic_endpoint_index /\ mux_session' = mux_session
      /\ connections' = connections /\ quic_session' = quic_session /\ sessions' = sessions
      /\ closing' = closing /\ receiving' = receiving /\ refused' = refused
      /\ reconnect' = reconnect /\ handshake' = handshake /\ timed_out' = timed_out
      /\ connection_id' = connection_id /\ tried' = tried
  BY DEF fields, mux, quic, udp, timers
<1>3. strand \in Seq(Handlers) /\ connection_id \in Nat BY <1>1, Typed DEF TypeOK
<1>4. strand' \in Seq(Handlers) BY <1>3, TailQueue
<1> DEFINE o == [run |-> r, id |-> connection_id]
<1>5. o \in [run : Runnables, id : Nat] /\ o.run \in AttemptRuns /\ o.id = connection_id
  BY <1>3 DEF AttemptRuns, Runnables
<1>6. operation' = operation \union {o} OBVIOUS
<1> HIDE DEF o
<1>7. TypeOK' BY <1>1, <1>2, <1>4, <1>5, <1>6 DEF TypeOK, Handlers
<1>8. \A H : /\ None(strand, H) => None(strand', H)
             /\ One(strand, H) => One(strand', H)
  BY <1>3, TailQueue
<1>9. IdInv' BY <1>1, <1>2, <1>3, <1>5, <1>6, <1>8 DEF IdInv
<1>10. /\ Attempting /\ ~Shaking /\ CurrentOperations = {}
       /\ None(strand', Pursuing(connection_id))
       /\ OverTcp => /\ mux_session = 0 /\ ~reconnect
                     /\ None(strand, Dialling) /\ None(strand, Failing(connection_id))
  BY AttemptAtHead
<1>11. CurrentOperations' = {o} BY <1>2, <1>5, <1>6, <1>10 DEF CurrentOperations
<1>12. ~Shaking' /\ CurrentHandshakes' = CurrentHandshakes
  BY <1>2, <1>10 DEF Shaking, CurrentHandshakes
<1>13. AttemptInv' BY <1>1, <1>2, <1>8, <1>10, <1>11, <1>12 DEF AttemptInv
<1>14. QuicInv' BY <1>1, <1>2, <1>12 DEF QuicInv
<1>15. Busy' BY <1>11 DEF Busy
<1>16. NoQuicInv' BY <1>1, <1>2, <1>8 DEF NoQuicInv, OverTcp
<1>17. PhaseInv' BY <1>1, <1>2, <1>8, <1>10 DEF PhaseInv, OverTcp
<1>18. QED BY <1>7, <1>9, <1>13, <1>14, <1>15, <1>16, <1>17 DEF IInv

\* OnConnect at the end of an attempt over TCP.
LEMMA ShakenKeeps ==
  ASSUME IInv, strand # <<>>, Head(strand) \in Pursuing(connection_id),
         strand' = Tail(strand), OnConnect,
         UNCHANGED <<fields, current_protocol, connection_id, quic, udp,
                     operation, reconnect, timed_out, tried>>
  PROVE  IInv'
<1>1. /\ TypeOK /\ IdInv /\ AttemptInv /\ QuicInv /\ Busy /\ NoQuicInv /\ PhaseInv
  BY DEF IInv
<1> DEFINE c == [id |-> connection_id, state |-> "up"]
<1>2. /\ protocol' = protocol /\ stopping' = stopping /\ current_protocol' = current_protocol
      /\ quic_endpoint_index' = quic_endpoint_index /\ mux_session' = Len(connections) + 1
      /\ connections' = Append(connections, c)
      /\ quic_session' = quic_session /\ sessions' = sessions
      /\ closing' = closing /\ receiving' = receiving /\ refused' = refused
      /\ reconnect' = reconnect /\ handshake' = 0 /\ timed_out' = timed_out
      /\ connection_id' = connection_id /\ operation' = operation /\ tried' = tried
  BY DEF fields, quic, udp, OnConnect
<1>3. strand \in Seq(Handlers) /\ connection_id \in Nat /\ connection_id >= 1
  BY <1>1, Typed DEF TypeOK, IdInv
<1>4. strand' \in Seq(Handlers) BY <1>3, TailQueue
<1>5. c \in Connections /\ c.id = connection_id BY <1>3 DEF Connections
<1>6. connections \in Seq(Connections) /\ Len(connections) \in Nat BY <1>1, Typed
<1> HIDE DEF c
<1>7. /\ connections' \in Seq(Connections) /\ Len(connections') = Len(connections) + 1
      /\ connections'[Len(connections) + 1] = c
      /\ \A n \in 1..Len(connections) : connections'[n] = connections[n]
      /\ \A n \in 1..Len(connections') : n \in 1..Len(connections) \/ n = Len(connections) + 1
  BY <1>2, <1>5, <1>6
<1>8. mux_session' \in 0..Len(connections') /\ mux_session' # 0 BY <1>2, <1>6, <1>7
<1>9. TypeOK' BY <1>1, <1>2, <1>4, <1>7, <1>8 DEF TypeOK, Handlers, Connections
<1>10. \A H : /\ None(strand, H) => None(strand', H)
              /\ One(strand, H) => One(strand', H)
  BY <1>3, TailQueue
<1>11. \A n \in 1..Len(connections') : connections'[n].id <= connection_id'
  BY <1>1, <1>2, <1>3, <1>5, <1>7 DEF IdInv
<1>12. IdInv' BY <1>1, <1>2, <1>3, <1>10, <1>11 DEF IdInv
<1>13. /\ Attempting /\ ~Shaking /\ CurrentOperations = {}
       /\ None(strand', Pursuing(connection_id))
       /\ OverTcp => /\ mux_session = 0 /\ ~reconnect
                     /\ None(strand, Dialling) /\ None(strand, Failing(connection_id))
  BY AttemptAtHead
<1>14. CurrentOperations' = {} BY <1>2, <1>13 DEF CurrentOperations
<1>15. ~Attempting' BY <1>2, <1>13, <1>14 DEF Attempting
<1>16. ~Shaking' /\ CurrentHandshakes' = CurrentHandshakes
  BY <1>2, <1>3, <1>13 DEF Shaking, CurrentHandshakes
<1>17. AttemptInv' BY <1>1, <1>2, <1>10, <1>14, <1>15 DEF AttemptInv
<1>18. QuicInv' BY <1>1, <1>2, <1>16 DEF QuicInv
<1>19. connections'[mux_session'].id = connection_id' BY <1>2, <1>5, <1>7
<1>20. Busy' BY <1>8, <1>19 DEF Busy
<1>21. NoQuicInv' BY <1>1, <1>2, <1>10 DEF NoQuicInv, OverTcp
<1>22. ASSUME OverTcp, NEW n \in 1..Len(connections'), connections'[n].state = "up"
       PROVE  n = mux_session'
  <2>1. n \notin 1..Len(connections)
    BY <1>1, <1>6, <1>7, <1>13, <1>22 DEF PhaseInv
  <2>2. QED BY <1>2, <1>7, <2>1
<1>23. PhaseInv'
  BY <1>1, <1>2, <1>8, <1>10, <1>13, <1>15, <1>19, <1>22 DEF PhaseInv, OverTcp
<1>24. QED BY <1>9, <1>12, <1>17, <1>18, <1>20, <1>21, <1>23 DEF IInv

-----------------------------------------------------------------------------
(* QUIC.                                                                     *)

\* Whoever tries QUIC does not have the protocol set to a TCP transport.
LEMMA QuicIsNotTcp ==
  ASSUME IInv,
         \/ current_protocol = "quic" \/ sessions # <<>> \/ closing # {}
         \/ handshake # 0 \/ timed_out # {} \/ receiving \/ refused # 0
  PROVE  ~OverTcp
BY DEF IInv, NoQuicInv, OverTcp

\* TryNextQuicEndpoint, when nothing else of the attempt is under way.
LEMMA TryKeeps ==
  ASSUME IInv, NEW index \in 0..Endpoints, NEW callbacks \in SUBSET closing,
         TryNextQuicEndpoint(index, callbacks),
         current_protocol = "quic", CurrentOperations = {},
         strand' \in Seq(Handlers), None(strand', After(connection_id)),
         None(strand', Pursuing(connection_id)),
         timed_out' \subseteq timed_out,
         UNCHANGED <<protocol, stopping, current_protocol, connection_id, mux,
                     refused, operation, reconnect, tried>>
  PROVE  IInv'
<1>1. /\ TypeOK /\ IdInv /\ AttemptInv /\ QuicInv /\ Busy /\ NoQuicInv /\ PhaseInv
  BY DEF IInv
<1> DEFINE e == [id |-> connection_id, state |-> "handshaking"]
<1>2. /\ sessions' = Append(ClosedSessions, e) /\ quic_session' = Len(sessions) + 1
      /\ closing' = callbacks \union NewlyClosed
      /\ handshake' = connection_id /\ receiving' = TRUE
      /\ mux_session' = mux_session /\ connections' = connections
      /\ \E k \in (index + 1)..Endpoints : quic_endpoint_index' = k
  BY DEF TryNextQuicEndpoint, mux
<1>3. connection_id \in Nat /\ connection_id >= 1 BY <1>1 DEF TypeOK, IdInv
<1>4. e \in Sessions /\ e.id = connection_id BY <1>3 DEF Sessions
<1> HIDE DEF e
<1>5. /\ ClosedSessions \in Seq(Sessions) /\ Len(ClosedSessions) = Len(sessions)
      /\ \A s \in 1..Len(sessions) :
           /\ ClosedSessions[s].id = sessions[s].id
           /\ ClosedSessions[s].state =
                IF s = quic_session THEN "closed" ELSE sessions[s].state
      /\ NewlyClosed \subseteq 1..Len(sessions) /\ Len(sessions) \in Nat
  BY <1>1, ClosedEffect, Typed
<1> DEFINE c == ClosedSessions
<1>6. c \in Seq(Sessions) /\ Len(c) = Len(sessions) /\ sessions' = Append(c, e) BY <1>2, <1>5
<1> HIDE DEF c
<1>7. /\ sessions' \in Seq(Sessions) /\ Len(sessions') = Len(sessions) + 1
      /\ sessions'[Len(sessions) + 1] = e
      /\ \A s \in 1..Len(sessions) : sessions'[s] = c[s]
      /\ \A s \in 1..Len(sessions') : s \in 1..Len(sessions) \/ s = Len(sessions) + 1
  BY <1>4, <1>5, <1>6
<1>8. \A s \in 1..Len(sessions) :
        /\ sessions'[s].id = sessions[s].id
        /\ sessions'[s].state = IF s = quic_session THEN "closed" ELSE sessions[s].state
  BY <1>5, <1>7 DEF c
<1>9. TypeOK'
  <2>1. quic_endpoint_index' \in 0..Endpoints BY <1>2, ClientAssumption
  <2>2. quic_session' \in 0..Len(sessions') BY <1>2, <1>5, <1>7
  <2>3. closing' \subseteq 1..Len(sessions') BY <1>1, <1>2, <1>5, <1>7 DEF TypeOK
  <2>4. timed_out' \subseteq Nat /\ handshake' \in Nat /\ receiving' \in BOOLEAN
    BY <1>1, <1>2, <1>3 DEF TypeOK
  <2>5. QED BY <1>1, <1>2, <1>7, <2>1, <2>2, <2>3, <2>4 DEF TypeOK, Handlers, Sessions
<1>10. \A s \in 1..Len(sessions') : sessions'[s].id <= connection_id'
  BY <1>1, <1>3, <1>4, <1>7, <1>8 DEF IdInv
<1>11. IdInv'
  <2>1. handshake' <= connection_id' /\ \A id \in timed_out' : id <= connection_id'
    BY <1>1, <1>2, <1>3 DEF IdInv
  <2>2. \A o \in operation' : o.run \in AttemptRuns /\ o.id <= connection_id'
    BY <1>1 DEF IdInv
  <2>3. \A n \in 1..Len(connections') : connections'[n].id <= connection_id'
    BY <1>1, <1>2 DEF IdInv
  <2>4. QED BY <1>3, <1>10, <2>1, <2>2, <2>3 DEF IdInv
<1>12. CurrentOperations' = {} BY DEF CurrentOperations
<1>13. ~Attempting' BY <1>12 DEF Attempting
<1>14. AttemptInv' BY <1>12, <1>13 DEF AttemptInv, None, One
<1>15. QuicInv'
  <2>1. ASSUME NEW s \in CurrentHandshakes' PROVE s = quic_session'
    <3>1. s \in 1..Len(sessions') /\ sessions'[s].id = connection_id
          /\ sessions'[s].state = "handshaking"
      BY DEF CurrentHandshakes
    <3>2. ASSUME s \in 1..Len(sessions) PROVE FALSE
      <4>1. s # quic_session /\ s \in CurrentHandshakes
        BY <1>8, <3>1, <3>2 DEF CurrentHandshakes
      <4>2. QED BY <1>1, <4>1 DEF QuicInv
    <3>3. QED BY <1>2, <1>7, <3>1, <3>2
  <2>2. QED BY <2>1 DEF QuicInv
<1>16. Busy' BY <1>2 DEF Busy
<1>17. NoQuicInv' /\ PhaseInv' BY QuicIsNotTcp DEF NoQuicInv, PhaseInv, OverTcp
<1>18. QED BY <1>9, <1>11, <1>14, <1>15, <1>16, <1>17 DEF IInv

\* A step that gives out no id and starts no operation, handshake or connection;
\* it may queue a handler that acts whatever the id is.
LEMMA QuietKeeps ==
  ASSUME IInv, TypeOK', ~OverTcp \/ (NoQuicInv' /\ PhaseInv'),
         UNCHANGED <<protocol, current_protocol, connection_id, operation, mux>>,
         \/ strand' = strand
         \/ \E r \in {"stop", "disconnect", "reconnect"} :
              strand' = Append(strand, Handler(r, 0, TRUE)),
         Len(sessions') = Len(sessions),
         \A s \in 1..Len(sessions) : sessions'[s].id = sessions[s].id,
         handshake' \in {0, handshake}, timed_out' \subseteq timed_out \union {handshake},
         CurrentHandshakes' \subseteq CurrentHandshakes,
         quic_session' = quic_session \/ CurrentHandshakes' = {},
         strand' = strand => Busy'
  PROVE  IInv'
<1>1. /\ TypeOK /\ IdInv /\ AttemptInv /\ QuicInv /\ Busy /\ NoQuicInv /\ PhaseInv
  BY DEF IInv
<1>2. strand \in Seq(Handlers) /\ connection_id \in Nat /\ connection_id >= 1
  BY <1>1, Typed DEF TypeOK, IdInv
<1>3. /\ \A c : None(strand, Pursuing(c)) => None(strand', Pursuing(c))
      /\ \A c : One(strand, Pursuing(c)) => One(strand', Pursuing(c))
      /\ None(strand', After(connection_id))
      /\ strand' # strand => ~None(strand', Always)
  <2>1. CASE strand' = strand BY <1>1, <2>1 DEF IdInv
  <2>2. ASSUME NEW r \in {"stop", "disconnect", "reconnect"},
               strand' = Append(strand, Handler(r, 0, TRUE))
        PROVE  /\ \A c : None(strand, Pursuing(c)) => None(strand', Pursuing(c))
               /\ \A c : One(strand, Pursuing(c)) => One(strand', Pursuing(c))
               /\ None(strand', After(connection_id))
               /\ ~None(strand', Always)
    <3> DEFINE h == Handler(r, 0, TRUE)
    <3>1. r \in Runnables /\ 0 \in Nat /\ TRUE \in BOOLEAN BY DEF Runnables
    <3>2. h \in Handlers /\ h.run = r /\ h.id = 0 BY <3>1, HandlerKinds
    <3> HIDE DEF h
    <3>3. h \in Always /\ h \notin After(connection_id) /\ \A c : h \notin Pursuing(c)
      <4>1. h \in Always BY <3>2, Kinds
      <4>2. ~(h.id > connection_id) /\ h.run \notin AttemptRuns BY <1>2, <3>2 DEF AttemptRuns
      <4>3. QED BY <3>2, <4>1, <4>2, Kinds
    <3>4. strand' = Append(strand, h) BY <2>2 DEF h
    <3>5. QED BY <1>1, <1>2, <3>2, <3>3, <3>4, AppendQueue DEF IdInv
  <2>3. QED BY <2>1, <2>2
<1>4. Busy' BY <1>3 DEF Busy
<1>5. connections' = connections /\ mux_session' = mux_session BY DEF mux
<1>6. IdInv' BY <1>1, <1>2, <1>3, <1>5 DEF IdInv
<1>7. CurrentOperations' = CurrentOperations BY DEF CurrentOperations
<1>8. Shaking' => Shaking
  BY <1>2 DEF Shaking
<1>9. Attempting' => Attempting BY <1>3, <1>7 DEF Attempting
<1>10. AttemptInv' BY <1>1, <1>3, <1>7, <1>8, <1>9 DEF AttemptInv
<1>11. QuicInv' BY <1>1, <1>8 DEF QuicInv
<1>12. NoQuicInv' /\ PhaseInv' BY DEF NoQuicInv, PhaseInv, OverTcp
<1>13. QED BY <1>4, <1>6, <1>10, <1>11, <1>12 DEF IInv

\* The end of TryNextQuicEndpoint without an endpoint to try.
LEMMA NoEndpointKeeps ==
  ASSUME IInv, NEW callbacks \in SUBSET closing, NoQuicEndpoint(callbacks), PostDisconnect,
         ~OverTcp, timed_out' \subseteq timed_out,
         UNCHANGED <<protocol, stopping, current_protocol, connection_id, mux,
                     refused, operation, reconnect, tried>>
  PROVE  IInv'
<1>1. TypeOK /\ QuicInv BY DEF IInv
<1>2. /\ sessions' = ClosedSessions /\ quic_session' = 0 /\ handshake' = 0
      /\ closing' = callbacks \union NewlyClosed /\ quic_endpoint_index' = Endpoints
      /\ receiving' = (receiving /\ quic_endpoint_index = Endpoints)
      /\ strand' = Append(strand, Handler("disconnect", 0, TRUE))
      /\ mux_session' = mux_session /\ connections' = connections
  BY DEF NoQuicEndpoint, PostDisconnect, mux
<1>3. /\ sessions' \in Seq(Sessions) /\ Len(sessions') = Len(sessions)
      /\ \A s \in 1..Len(sessions) :
           /\ sessions'[s].id = sessions[s].id
           /\ sessions'[s].state = IF s = quic_session THEN "closed" ELSE sessions[s].state
      /\ NewlyClosed \subseteq 1..Len(sessions)
  BY <1>1, <1>2, ClosedEffect
<1>4. CurrentHandshakes' = {}
  <2>1. ASSUME NEW s \in CurrentHandshakes' PROVE FALSE
    <3>1. s \in 1..Len(sessions) /\ sessions[s].id = connection_id
          /\ s # quic_session /\ sessions[s].state = "handshaking"
      BY <1>3 DEF CurrentHandshakes
    <3>2. QED BY <1>1, <3>1 DEF QuicInv, CurrentHandshakes
  <2>2. QED BY <2>1
<1>5. TypeOK'
  <2>1. strand \in Seq(Handlers) BY <1>1, Typed
  <2>2. "disconnect" \in Runnables /\ 0 \in Nat /\ TRUE \in BOOLEAN BY DEF Runnables
  <2>3. strand' \in Seq(Handlers)
    <3> DEFINE h == Handler("disconnect", 0, TRUE)
    <3>1. h \in Handlers BY <2>2, HandlerKinds
    <3>2. strand' = Append(strand, h) BY <1>2
    <3> HIDE DEF h
    <3>3. QED BY <2>1, <3>1, <3>2
  <2>4. closing' \subseteq 1..Len(sessions') /\ quic_session' \in 0..Len(sessions')
    BY <1>1, <1>2, <1>3, Typed DEF TypeOK
  <2>5. receiving' \in BOOLEAN /\ quic_endpoint_index' \in 0..Endpoints /\ timed_out' \subseteq Nat
    BY <1>1, <1>2, ClientAssumption DEF TypeOK
  <2>6. QED BY <1>1, <1>2, <1>3, <2>3, <2>4, <2>5 DEF TypeOK, Handlers, Sessions
<1>6. strand' # strand
  <2>1. strand \in Seq(Handlers) BY <1>1, Typed
  <2>2. Len(strand') = Len(strand) + 1 /\ Len(strand) \in Nat BY <1>2, <2>1
  <2>3. QED BY <2>2
<1>7. QED BY <1>2, <1>3, <1>4, <1>5, <1>6, QuietKeeps DEF mux

-----------------------------------------------------------------------------
(* One lemma for each group of actions.                                      *)

\* The handler at the head of the strand, by its name and its id.
LEMMA HeadKinds ==
  ASSUME TypeOK, strand # <<>>
  PROVE  /\ Head(strand) \in Handlers
         /\ Head(strand).run \in AttemptRuns /\ ~Stale => Head(strand) \in Pursuing(connection_id)
         /\ Head(strand).run = "control_failed" /\ ~Stale => Head(strand) \in Failing(connection_id)
         /\ Head(strand).run \in {"connect", "reconnect"} => Head(strand) \in Dialling
         /\ /\ Head(strand).run \in {"resolved", "connected", "shaken", "control_failed"}
            /\ Stale
            => Head(strand) \notin Always \union Pursuing(connection_id) \union Failing(connection_id)
<1>1. Head(strand) \in Handlers BY Typed, TailQueue
<1> DEFINE h == Head(strand)
<1>2. h \in Handlers BY <1>1
<1>3. Stale <=> h.id # connection_id BY DEF Stale
<1> HIDE DEF h
<1>4. /\ h.run \in AttemptRuns /\ ~Stale => h \in Pursuing(connection_id)
      /\ h.run = "control_failed" /\ ~Stale => h \in Failing(connection_id)
      /\ h.run \in {"connect", "reconnect"} => h \in Dialling
  BY <1>2, <1>3, Kinds
<1>5. /\ h.run \in {"resolved", "connected", "shaken", "control_failed"}
      /\ Stale
      => h \notin Always \union Pursuing(connection_id) \union Failing(connection_id)
  BY <1>2, <1>3, Kinds
<1>6. QED BY <1>2, <1>4, <1>5 DEF h

\* HandleDisconnect in a handler of an attempt or of a control stream.
LEMMA DisconnectedKeeps ==
  ASSUME IInv, strand # <<>>,
         \/ Head(strand).run = "disconnect"
         \/ Head(strand) \in Pursuing(connection_id) \union Failing(connection_id),
         Disconnected
  PROVE  IInv'
<1>1. stopping \in BOOLEAN /\ quic_endpoint_index \in 0..Endpoints BY DEF IInv, TypeOK
<1>2. HandleDisconnect(Tail(strand), stopping) /\ stopping' = stopping
      /\ handshake' = handshake /\ quic_endpoint_index' = quic_endpoint_index
  BY DEF Disconnected
<1>3. QED BY <1>1, <1>2, HangKeeps

\* The handlers of the strand.
LEMMA StrandKeeps ==
  ASSUME IInv, Strand
  PROVE  IInv'
<1>1. TypeOK /\ IdInv BY DEF IInv
<1>2. strand # <<>>
  BY DEF Strand, stale, stop, disconnect, failover, reconnect_due, resolved, connected,
         shaken, control_failed, Runs
<1>3. /\ Head(strand).run \in AttemptRuns /\ ~Stale => Head(strand) \in Pursuing(connection_id)
      /\ Head(strand).run = "control_failed" /\ ~Stale => Head(strand) \in Failing(connection_id)
      /\ Head(strand).run \in {"connect", "reconnect"} => Head(strand) \in Dialling
      /\ /\ Head(strand).run \in {"resolved", "connected", "shaken", "control_failed"}
         /\ Stale
         => Head(strand) \notin Always \union Pursuing(connection_id) \union Failing(connection_id)
  BY <1>1, <1>2, HeadKinds
<1>4. CASE stale BY <1>2, <1>3, <1>4, DropKeeps DEF stale
<1>5. CASE stop
  <2>1. /\ Head(strand).run = "stop" /\ stopping' = TRUE /\ HandleDisconnect(Tail(strand), TRUE)
        /\ quic_endpoint_index' = quic_endpoint_index /\ handshake' = handshake
    BY <1>5 DEF stop, Runs
  <2>2. quic_endpoint_index \in 0..Endpoints BY <1>1 DEF TypeOK
  <2>3. QED BY <1>2, <2>1, <2>2, HangKeeps
<1>6. CASE disconnect BY <1>2, <1>6, DisconnectedKeeps DEF disconnect, Runs
<1>7. CASE failover
  <2>1. /\ Head(strand).run = "connect" /\ strand' = Tail(strand)
        /\ UNCHANGED <<fields, current_protocol, mux, quic, udp, timers>>
    BY <1>7 DEF failover, Runs
  <2>2. CASE stopping /\ UNCHANGED <<connection_id, operation, tried>>
    BY <1>2, <2>1, <2>2, DropKeeps
  <2>3. CASE DoConnect BY <1>2, <1>3, <2>1, <2>3, DialKeeps
  <2>4. QED BY <1>7, <2>2, <2>3 DEF failover
<1>8. CASE reconnect_due
  BY <1>2, <1>3, <1>8, DialKeeps DEF reconnect_due, Runs
<1>9. CASE resolved
  <2>1. Head(strand).run = "resolved" /\ ~Stale BY <1>9 DEF resolved, Runs
  <2>2. Head(strand) \in Pursuing(connection_id) BY <1>3, <2>1 DEF AttemptRuns
  <2>3. CASE Disconnected BY <1>2, <2>2, <2>3, DisconnectedKeeps
  <2>4. CASE /\ strand' = Tail(strand)
             /\ operation' = operation \union {[run |-> "connected", id |-> connection_id]}
             /\ UNCHANGED <<fields, current_protocol, connection_id, mux, quic, udp,
                            timers, tried>>
    <3>1. "connected" \in AttemptRuns BY DEF AttemptRuns
    <3>2. QED BY <1>2, <2>2, <2>4, <3>1, ProceedKeeps
  <2>5. CASE /\ current_protocol = "quic"
             /\ TryNextQuicEndpoint(0, closing)
             /\ strand' = Tail(strand)
             /\ UNCHANGED <<protocol, stopping, current_protocol, connection_id, mux,
                            refused, operation, reconnect, timed_out, tried>>
    <3>1. CurrentOperations = {} /\ None(strand', Pursuing(connection_id))
      BY <1>2, <2>2, <2>5, AttemptAtHead
    <3>2. strand' \in Seq(Handlers) /\ None(strand', After(connection_id))
      BY <1>1, <1>2, <2>5, Typed, TailQueue DEF IdInv
    <3>3. 0 \in 0..Endpoints /\ closing \in SUBSET closing BY ClientAssumption
    <3>4. QED BY <2>5, <3>1, <3>2, <3>3, TryKeeps
  <2>6. CASE /\ HandleDisconnect(Tail(strand), stopping)
             /\ quic_endpoint_index' = Endpoints
             /\ handshake' = 0
             /\ UNCHANGED stopping
    <3>1. Endpoints \in 0..Endpoints /\ stopping \in BOOLEAN
      BY <1>1, ClientAssumption DEF TypeOK
    <3>2. QED BY <1>2, <2>2, <2>6, <3>1, HangKeeps
  <2>7. QED BY <1>9, <2>3, <2>4, <2>5, <2>6 DEF resolved
<1>10. CASE connected
  <2>1. Head(strand).run = "connected" /\ ~Stale BY <1>10 DEF connected, Runs
  <2>2. Head(strand) \in Pursuing(connection_id) BY <1>3, <2>1 DEF AttemptRuns
  <2>3. CASE Disconnected BY <1>2, <2>2, <2>3, DisconnectedKeeps
  <2>4. CASE /\ strand' = Tail(strand)
             /\ operation' = operation \union {[run |-> "shaken", id |-> connection_id]}
             /\ UNCHANGED <<fields, current_protocol, connection_id, mux, quic, udp,
                            timers, tried>>
    <3>1. "shaken" \in AttemptRuns BY DEF AttemptRuns
    <3>2. QED BY <1>2, <2>2, <2>4, <3>1, ProceedKeeps
  <2>5. QED BY <1>10, <2>3, <2>4 DEF connected
<1>11. CASE shaken
  <2>1. Head(strand).run = "shaken" /\ ~Stale BY <1>11 DEF shaken, Runs
  <2>2. Head(strand) \in Pursuing(connection_id) BY <1>3, <2>1 DEF AttemptRuns
  <2>3. CASE Disconnected BY <1>2, <2>2, <2>3, DisconnectedKeeps
  <2>4. QED BY <1>2, <1>11, <2>2, <2>3, ShakenKeeps DEF shaken
<1>12. CASE control_failed
  BY <1>2, <1>3, <1>12, DisconnectedKeeps DEF control_failed, Runs
<1>13. QED
  BY <1>4, <1>5, <1>6, <1>7, <1>8, <1>9, <1>10, <1>11, <1>12 DEF Strand

\* A handler queued on the strand from another thread.
LEMMA Posted ==
  ASSUME TypeOK, NEW r \in {"stop", "disconnect", "reconnect"},
         strand' = Append(strand, Handler(r, 0, TRUE))
  PROVE  strand' \in Seq(Handlers) /\ strand' # strand
<1> DEFINE h == Handler(r, 0, TRUE)
<1>1. r \in Runnables /\ 0 \in Nat /\ TRUE \in BOOLEAN BY DEF Runnables
<1>2. h \in Handlers BY <1>1, HandlerKinds
<1>3. strand' = Append(strand, h) OBVIOUS
<1> HIDE DEF h
<1>4. strand \in Seq(Handlers) BY Typed
<1>5. strand' \in Seq(Handlers) BY ONLY <1>2, <1>3, <1>4, AppendQueue
<1>6. Len(strand') # Len(strand)
  <2>1. Len(Append(strand, h)) = Len(strand) + 1 /\ Len(strand) \in Nat BY ONLY <1>2, <1>4
  <2>2. QED BY ONLY <1>3, <2>1
<1>7. strand' # strand BY ONLY <1>6
<1>8. QED BY ONLY <1>5, <1>7

\* A QUIC session or a timer of the present id leaves no room for an attempt.
LEMMA ShakingIsAlone ==
  ASSUME IInv, Shaking
  PROVE  /\ CurrentOperations = {} /\ None(strand, Pursuing(connection_id))
         /\ current_protocol = "quic" /\ ~OverTcp
BY QuicIsNotTcp DEF IInv, AttemptInv, QuicInv, Attempting

\* The handlers that run on other threads.
LEMMA ThreadsKeep ==
  ASSUME IInv, Threads
  PROVE  IInv'
<1>1. TypeOK /\ IdInv /\ Busy BY DEF IInv
<1>2. ASSUME NEW id \in timed_out, handshake_timeout(id) PROVE IInv'
  <2>1. /\ timed_out' = timed_out \ {id}
        /\ UNCHANGED <<protocol, stopping, current_protocol, connection_id, mux,
                       refused, operation, reconnect, tried>>
    BY <1>2 DEF handshake_timeout
  <2>2. ~OverTcp BY <1>2, QuicIsNotTcp
  <2>3. CASE /\ id # connection_id \/ current_protocol # "quic"
             /\ UNCHANGED <<quic, quic_endpoint_index, handshake, receiving, strand>>
    <3>1. id # connection_id
      <4>1. ASSUME id = connection_id PROVE FALSE
        <5>1. Shaking BY <1>2, <4>1 DEF Shaking
        <5>2. QED BY <2>3, <4>1, <5>1, ShakingIsAlone
      <4>2. QED BY <4>1
    <3>2. TypeOK' BY <1>1, <2>1, <2>3 DEF TypeOK, quic, mux
    <3>3. CurrentHandshakes' = CurrentHandshakes /\ CurrentOperations' = CurrentOperations
      BY <2>1, <2>3 DEF CurrentHandshakes, CurrentOperations, quic
    <3>4. Busy' BY <1>1, <2>1, <2>3, <3>1, <3>3 DEF Busy, quic, mux
    <3>5. QED BY <2>1, <2>2, <2>3, <3>2, <3>3, <3>4, QuietKeeps DEF quic
  <2>4. ASSUME id = connection_id PROVE Shaking BY <1>2, <2>4 DEF Shaking
  <2>5. CASE /\ id = connection_id
             /\ TryNextQuicEndpoint(quic_endpoint_index, closing) /\ UNCHANGED strand
    <3>1. /\ CurrentOperations = {} /\ None(strand, Pursuing(connection_id))
          /\ current_protocol = "quic"
      BY <2>4, <2>5, ShakingIsAlone
    <3>2. strand' \in Seq(Handlers) /\ None(strand', After(connection_id))
      BY <1>1, <2>5, Typed DEF IdInv
    <3>3. quic_endpoint_index \in 0..Endpoints /\ closing \in SUBSET closing
      BY <1>1 DEF TypeOK
    <3>4. QED BY <2>1, <2>5, <3>1, <3>2, <3>3, TryKeeps
  <2>6. CASE NoQuicEndpoint(closing) /\ PostDisconnect
    <3>1. closing \in SUBSET closing OBVIOUS
    <3>2. QED BY <2>1, <2>2, <2>6, <3>1, NoEndpointKeeps
  <2>7. CASE /\ PostDisconnect
             /\ UNCHANGED <<quic, quic_endpoint_index, handshake, receiving>>
    <3>1. strand' = Append(strand, Handler("disconnect", 0, TRUE)) BY <2>7 DEF PostDisconnect
    <3>2. strand' \in Seq(Handlers) /\ strand' # strand BY <1>1, <3>1, Posted
    <3>3. TypeOK' BY <1>1, <2>1, <2>7, <3>2 DEF TypeOK, quic, mux, Handlers
    <3>4. CurrentHandshakes' = CurrentHandshakes
      BY <2>1, <2>7 DEF CurrentHandshakes, quic
    <3>5. QED BY <2>1, <2>2, <2>7, <3>1, <3>2, <3>3, <3>4, QuietKeeps DEF quic
  <2>8. QED BY <1>2, <2>3, <2>5, <2>6, <2>7 DEF handshake_timeout
<1>3. ASSUME NEW s \in closing, on_closed(s) PROVE IInv'
  <2>1. UNCHANGED <<protocol, stopping, current_protocol, connection_id, mux,
                    refused, operation, reconnect, timed_out, tried>>
    BY <1>3 DEF on_closed
  <2>2. ~OverTcp BY <1>3, QuicIsNotTcp
  <2>3. CASE /\ sessions[s].id # connection_id
             /\ closing' = closing \ {s}
             /\ UNCHANGED <<quic_session, sessions, quic_endpoint_index, handshake,
                            receiving, strand>>
    <3>1. TypeOK' BY <1>1, <2>1, <2>3 DEF TypeOK, mux
    <3>2. CurrentHandshakes' = CurrentHandshakes /\ CurrentOperations' = CurrentOperations
      BY <2>1, <2>3 DEF CurrentHandshakes, CurrentOperations
    <3>3. Busy' BY <1>1, <2>1, <2>3, <3>2 DEF Busy, mux
    <3>4. QED BY <2>1, <2>2, <2>3, <3>1, <3>2, <3>3, QuietKeeps
  <2>4. ASSUME sessions[s].id = connection_id PROVE Shaking
    BY <1>1, <1>3, <2>4 DEF Shaking, TypeOK
  <2>5. CASE /\ sessions[s].id = connection_id
             /\ TryNextQuicEndpoint(quic_endpoint_index, closing \ {s}) /\ UNCHANGED strand
    <3>1. /\ CurrentOperations = {} /\ None(strand, Pursuing(connection_id))
          /\ current_protocol = "quic"
      BY <2>4, <2>5, ShakingIsAlone
    <3>2. strand' \in Seq(Handlers) /\ None(strand', After(connection_id))
      BY <1>1, <2>5, Typed DEF IdInv
    <3>3. quic_endpoint_index \in 0..Endpoints /\ closing \ {s} \in SUBSET closing
      BY <1>1 DEF TypeOK
    <3>4. QED BY <2>1, <2>5, <3>1, <3>2, <3>3, TryKeeps
  <2>6. CASE NoQuicEndpoint(closing \ {s}) /\ PostDisconnect
    <3>1. closing \ {s} \in SUBSET closing OBVIOUS
    <3>2. QED BY <2>1, <2>2, <2>6, <3>1, NoEndpointKeeps
  <2>7. QED BY <1>3, <2>3, <2>5, <2>6 DEF on_closed
<1>4. CASE udp_refused
  <2>1. /\ refused > 0 /\ refused' = refused - 1
        /\ strand' = Append(strand, Handler("disconnect", 0, TRUE))
        /\ UNCHANGED <<fields, current_protocol, connection_id, mux, quic, receiving,
                       operation, timers, tried>>
    BY <1>4 DEF udp_refused, PostDisconnect
  <2>2. refused \in Nat BY <1>1 DEF TypeOK
  <2>3. ~OverTcp BY <2>1, <2>2, QuicIsNotTcp
  <2>4. strand' \in Seq(Handlers) /\ strand' # strand BY <1>1, <2>1, Posted
  <2>5. TypeOK'
    <3>1. refused' \in Nat BY <2>1, <2>2
    <3>2. /\ protocol' = protocol /\ stopping' = stopping
          /\ quic_endpoint_index' = quic_endpoint_index /\ mux_session' = mux_session
          /\ connections' = connections /\ quic_session' = quic_session
          /\ sessions' = sessions /\ closing' = closing /\ receiving' = receiving
          /\ reconnect' = reconnect /\ handshake' = handshake /\ timed_out' = timed_out
          /\ connection_id' = connection_id /\ operation' = operation /\ tried' = tried
          /\ current_protocol' = current_protocol
      BY <2>1 DEF quic, mux, fields, timers
    <3>3. QED BY <1>1, <2>4, <3>1, <3>2 DEF TypeOK, Handlers
  <2>6. CurrentHandshakes' = CurrentHandshakes BY <2>1 DEF CurrentHandshakes, quic
  <2>7. QED BY <2>1, <2>3, <2>4, <2>5, <2>6, QuietKeeps DEF quic, timers, fields
<1>5. QED BY <1>2, <1>3, <1>4 DEF Threads

\* The timers expire.
LEMMA TimersKeep ==
  ASSUME IInv, Timers
  PROVE  IInv'
<1>1. TypeOK /\ IdInv /\ Busy /\ NoQuicInv /\ PhaseInv BY DEF IInv
<1>2. CASE reconnect_expires
  <2>1. /\ reconnect /\ reconnect' = FALSE
        /\ strand' = Append(strand, Handler("reconnect", 0, TRUE))
        /\ protocol' = protocol /\ stopping' = stopping
        /\ quic_endpoint_index' = quic_endpoint_index /\ mux_session' = mux_session
        /\ connections' = connections /\ quic_session' = quic_session
        /\ sessions' = sessions /\ closing' = closing /\ receiving' = receiving
        /\ refused' = refused /\ handshake' = handshake /\ timed_out' = timed_out
        /\ connection_id' = connection_id /\ operation' = operation /\ tried' = tried
        /\ current_protocol' = current_protocol
    BY <1>2 DEF reconnect_expires, quic, mux, fields, udp
  <2>2. strand' \in Seq(Handlers) /\ strand' # strand BY <1>1, <2>1, Posted
  <2>3. TypeOK' BY <1>1, <2>1, <2>2 DEF TypeOK, Handlers
  <2>4. CurrentHandshakes' = CurrentHandshakes /\ CurrentOperations' = CurrentOperations
    BY <2>1 DEF CurrentHandshakes, CurrentOperations
  <2>5. ASSUME OverTcp PROVE NoQuicInv' /\ PhaseInv'
    <3> DEFINE h == Handler("reconnect", 0, TRUE)
    <3>1. "reconnect" \in Runnables /\ 0 \in Nat /\ TRUE \in BOOLEAN BY DEF Runnables
    <3>2. h \in Handlers /\ h.run = "reconnect" /\ h.id = 0 BY <3>1, HandlerKinds
    <3>3. strand' = Append(strand, h) BY <2>1
    <3> HIDE DEF h
    <3>4. /\ h \notin Pursuing(connection_id) /\ h \notin Failing(connection_id)
          /\ h \notin QuicOnly
      <4>1. h.run \notin AttemptRuns BY <3>2 DEF AttemptRuns
      <4>2. QED BY <3>2, <4>1, Kinds
    <3>5. ~Attempting /\ None(strand, Dialling) /\ mux_session = 0
          /\ None(strand, Failing(connection_id)) /\ None(strand, QuicOnly)
      BY <1>1, <2>1, <2>5 DEF PhaseInv, NoQuicInv
    <3>6. /\ One(strand', Dialling) /\ None(strand', QuicOnly)
          /\ None(strand', Failing(connection_id))
          /\ None(strand, Pursuing(connection_id)) => None(strand', Pursuing(connection_id))
      BY <1>1, <3>2, <3>3, <3>4, <3>5, Typed, AppendQueue
    <3>7. ~Attempting' BY <2>1, <2>4, <3>5, <3>6 DEF Attempting
    <3>8. NoQuicInv' BY <1>1, <2>1, <3>6 DEF NoQuicInv, OverTcp
    <3>9. PhaseInv' BY <1>1, <2>1, <2>5, <3>5, <3>6, <3>7 DEF PhaseInv, OverTcp
    <3>10. QED BY <3>8, <3>9
  <2>6. QED BY <2>1, <2>2, <2>3, <2>4, <2>5, QuietKeeps DEF mux
<1>3. CASE handshake_expires
  <2>1. /\ handshake # 0 /\ handshake' = 0 /\ timed_out' = timed_out \union {handshake}
        /\ protocol' = protocol /\ stopping' = stopping /\ strand' = strand
        /\ quic_endpoint_index' = quic_endpoint_index /\ mux_session' = mux_session
        /\ connections' = connections /\ quic_session' = quic_session
        /\ sessions' = sessions /\ closing' = closing /\ receiving' = receiving
        /\ refused' = refused /\ reconnect' = reconnect
        /\ connection_id' = connection_id /\ operation' = operation /\ tried' = tried
        /\ current_protocol' = current_protocol
    BY <1>3 DEF handshake_expires, quic, mux, fields, udp
  <2>2. ~OverTcp BY <2>1, QuicIsNotTcp
  <2>3. TypeOK' BY <1>1, <2>1 DEF TypeOK
  <2>4. CurrentHandshakes' = CurrentHandshakes /\ CurrentOperations' = CurrentOperations
    BY <2>1 DEF CurrentHandshakes, CurrentOperations
  <2>5. Busy' BY <1>1, <2>1, <2>4 DEF Busy
  <2>6. QED BY <2>1, <2>2, <2>3, <2>4, <2>5, QuietKeeps DEF mux
<1>4. QED BY <1>2, <1>3 DEF Timers

\* The user asks the client to stop.
LEMMA StopRequestedKeeps ==
  ASSUME IInv, stop_requested
  PROVE  IInv'
<1>1. TypeOK /\ IdInv /\ Busy /\ NoQuicInv /\ PhaseInv BY DEF IInv
<1>2. /\ strand' = Append(strand, Handler("stop", 0, TRUE))
      /\ protocol' = protocol /\ stopping' = stopping
      /\ quic_endpoint_index' = quic_endpoint_index /\ mux_session' = mux_session
      /\ connections' = connections /\ quic_session' = quic_session
      /\ sessions' = sessions /\ closing' = closing /\ receiving' = receiving
      /\ refused' = refused /\ handshake' = handshake /\ timed_out' = timed_out
      /\ connection_id' = connection_id /\ operation' = operation /\ tried' = tried
      /\ current_protocol' = current_protocol /\ reconnect' = reconnect
  BY DEF stop_requested, quic, mux, fields, udp, timers
<1>3. strand' \in Seq(Handlers) /\ strand' # strand BY <1>1, <1>2, Posted
<1>4. TypeOK' BY <1>1, <1>2, <1>3 DEF TypeOK, Handlers
<1>5. CurrentHandshakes' = CurrentHandshakes /\ CurrentOperations' = CurrentOperations
  BY <1>2 DEF CurrentHandshakes, CurrentOperations
<1> DEFINE h == Handler("stop", 0, TRUE)
<1>6. "stop" \in Runnables /\ 0 \in Nat /\ TRUE \in BOOLEAN BY DEF Runnables
<1>7. h \in Handlers /\ h.run = "stop" /\ h.id = 0 BY <1>6, HandlerKinds
<1>8. strand' = Append(strand, h) BY <1>2
<1> HIDE DEF h
<1>9. /\ h \notin Pursuing(connection_id) /\ h \notin Failing(connection_id)
      /\ h \notin QuicOnly /\ h \notin Dialling
  <2>1. h.run \notin AttemptRuns BY <1>7 DEF AttemptRuns
  <2>2. QED BY <1>7, <2>1, Kinds
<1>10. \A H : /\ None(strand', H) <=> None(strand, H) /\ h \notin H
              /\ One(strand, H) /\ h \notin H => One(strand', H)
  BY <1>1, <1>7, <1>8, Typed, AppendQueue
<1>11. Attempting' <=> Attempting BY <1>2, <1>5, <1>9, <1>10 DEF Attempting
<1>12. NoQuicInv' BY <1>1, <1>2, <1>9, <1>10 DEF NoQuicInv, OverTcp
<1>13. PhaseInv' BY <1>1, <1>2, <1>9, <1>10, <1>11 DEF PhaseInv, OverTcp
<1>14. QED BY <1>2, <1>3, <1>4, <1>5, <1>12, <1>13, QuietKeeps DEF mux

\* An operation of TCP ends: its handler takes its place.
LEMMA OperationEndsKeeps ==
  ASSUME IInv, NEW o \in operation, operation_ends(o)
  PROVE  IInv'
<1>1. /\ TypeOK /\ IdInv /\ AttemptInv /\ QuicInv /\ Busy /\ NoQuicInv /\ PhaseInv
  BY DEF IInv
<1>2. /\ operation' = operation \ {o}
      /\ protocol' = protocol /\ stopping' = stopping
      /\ quic_endpoint_index' = quic_endpoint_index /\ mux_session' = mux_session
      /\ connections' = connections /\ quic_session' = quic_session
      /\ sessions' = sessions /\ closing' = closing /\ receiving' = receiving
      /\ refused' = refused /\ handshake' = handshake /\ timed_out' = timed_out
      /\ connection_id' = connection_id /\ tried' = tried
      /\ current_protocol' = current_protocol /\ reconnect' = reconnect
  BY DEF operation_ends, quic, mux, fields, udp, timers
<1>3. PICK ok \in BOOLEAN : strand' = Append(strand, Handler(o.run, o.id, ok))
  BY DEF operation_ends
<1> DEFINE h == Handler(o.run, o.id, ok)
<1>4. o.run \in Runnables /\ o.id \in Nat /\ o.run \in AttemptRuns /\ o.id <= connection_id
  BY <1>1, Typed DEF TypeOK, IdInv
<1>5. h \in Handlers /\ h.run = o.run /\ h.id = o.id BY <1>4, HandlerKinds
<1>6. strand' = Append(strand, h) BY <1>3
<1> HIDE DEF h
<1>7. strand \in Seq(Handlers) /\ connection_id \in Nat BY <1>1, Typed DEF TypeOK
<1>8. strand' \in Seq(Handlers) BY <1>5, <1>6, <1>7, AppendQueue
<1>9. TypeOK' BY <1>1, <1>2, <1>8 DEF TypeOK, Handlers
<1>10. /\ h \in Pursuing(connection_id) <=> o.id = connection_id
       /\ h \notin Failing(connection_id) /\ h \notin QuicOnly /\ h \notin Dialling
       /\ h \notin Always /\ h \notin After(connection_id)
  <2>1. h.run \notin {"stop", "disconnect", "connect", "reconnect", "control_failed"}
    BY <1>4, <1>5 DEF AttemptRuns
  <2>2. ~(h.id > connection_id) BY <1>4, <1>5, <1>7
  <2>3. QED BY <1>4, <1>5, <2>1, <2>2, Kinds
<1>11. \A H : /\ None(strand', H) <=> None(strand, H) /\ h \notin H
              /\ One(strand, H) /\ h \notin H => One(strand', H)
              /\ None(strand, H) => One(strand', H)
  BY <1>5, <1>6, <1>7, AppendQueue
<1>12. IdInv' BY <1>1, <1>2, <1>10, <1>11 DEF IdInv
<1>13. Shaking' = Shaking /\ CurrentHandshakes' = CurrentHandshakes
  BY <1>2 DEF Shaking, CurrentHandshakes
<1>14. CurrentOperations' = CurrentOperations \ {o}
  BY <1>2 DEF CurrentOperations
<1>15. CASE o.id = connection_id
  <2>1. CurrentOperations = {o} BY <1>1, <1>15 DEF CurrentOperations, AttemptInv
  <2>2. CurrentOperations' = {} BY <1>14, <2>1
  <2>3. Attempting /\ None(strand, Pursuing(connection_id))
    BY <1>1, <2>1 DEF Attempting, AttemptInv
  <2>4. ~None(strand', Pursuing(connection_id)) /\ One(strand', Pursuing(connection_id))
    BY <1>10, <1>11, <1>15, <2>3
  <2>5. Attempting' BY <1>2, <2>4 DEF Attempting
  <2>6. AttemptInv' BY <1>1, <1>2, <1>13, <2>2, <2>3, <2>4 DEF AttemptInv
  <2>7. QuicInv' BY <1>1, <1>2, <1>13 DEF QuicInv
  <2>8. Busy' BY <1>2, <2>4 DEF Busy
  <2>9. NoQuicInv' BY <1>1, <1>2, <1>10, <1>11 DEF NoQuicInv, OverTcp
  <2>10. PhaseInv' BY <1>1, <1>2, <1>10, <1>11, <2>3 DEF PhaseInv, OverTcp
  <2>11. QED BY <1>9, <1>12, <2>6, <2>7, <2>8, <2>9, <2>10 DEF IInv
<1>16. CASE o.id # connection_id
  <2>1. CurrentOperations' = CurrentOperations BY <1>14, <1>16 DEF CurrentOperations
  <2>2. h \notin Pursuing(connection_id) BY <1>10, <1>16
  <2>3. Attempting' <=> Attempting BY <1>2, <1>11, <2>1, <2>2 DEF Attempting
  <2>4. AttemptInv' BY <1>1, <1>2, <1>11, <1>13, <2>1, <2>2, <2>3 DEF AttemptInv
  <2>5. QuicInv' BY <1>1, <1>2, <1>13 DEF QuicInv
  <2>6. Busy' BY <1>1, <1>2, <1>11, <2>1 DEF Busy
  <2>7. NoQuicInv' BY <1>1, <1>2, <1>10, <1>11 DEF NoQuicInv, OverTcp
  <2>8. PhaseInv' BY <1>1, <1>2, <1>10, <1>11, <2>3 DEF PhaseInv, OverTcp
  <2>9. QED BY <1>9, <1>12, <2>4, <2>5, <2>6, <2>7, <2>8 DEF IInv
<1>17. QED BY <1>15, <1>16

\* A mux session loses its transport: its control stream fails.
LEMMA ConnectionLostKeeps ==
  ASSUME IInv, NEW n \in 1..Len(connections), connection_lost(n)
  PROVE  IInv'
<1>1. /\ TypeOK /\ IdInv /\ AttemptInv /\ QuicInv /\ Busy /\ NoQuicInv /\ PhaseInv
  BY DEF IInv
<1> DEFINE h == Handler("control_failed", connections[n].id, TRUE)
<1>2. /\ connections[n].state = "up"
      /\ connections' = [connections EXCEPT ![n].state = "lost"]
      /\ strand' \in {Append(strand, h), strand \o <<h, h>>}
      /\ protocol' = protocol /\ stopping' = stopping
      /\ quic_endpoint_index' = quic_endpoint_index /\ mux_session' = mux_session
      /\ operation' = operation /\ quic_session' = quic_session
      /\ sessions' = sessions /\ closing' = closing /\ receiving' = receiving
      /\ refused' = refused /\ handshake' = handshake /\ timed_out' = timed_out
      /\ connection_id' = connection_id /\ tried' = tried
      /\ current_protocol' = current_protocol /\ reconnect' = reconnect
  BY DEF connection_lost, quic, fields, udp, timers
<1>3. /\ strand \in Seq(Handlers) /\ connections \in Seq(Connections)
      /\ connections[n] \in Connections /\ connections[n].id \in Nat
      /\ connection_id \in Nat /\ connections[n].id <= connection_id
  BY <1>1, Typed DEF TypeOK, IdInv
<1>4. /\ connections' \in Seq(Connections) /\ Len(connections') = Len(connections)
      /\ \A i \in 1..Len(connections) :
           /\ connections'[i].id = connections[i].id
           /\ connections'[i].state = IF i = n THEN "lost" ELSE connections[i].state
  <2>1. [connections[n] EXCEPT !.state = "lost"] \in Connections BY <1>3 DEF Connections
  <2>2. QED BY <1>2, <1>3, <2>1, ConnectionSet
<1>5. "control_failed" \in Runnables /\ TRUE \in BOOLEAN BY DEF Runnables
<1>6. h \in Handlers /\ h.run = "control_failed" /\ h.id = connections[n].id
  BY <1>3, <1>5, HandlerKinds
<1> HIDE DEF h
<1>7. /\ h \notin Pursuing(connection_id) /\ h \notin QuicOnly /\ h \notin Dialling
      /\ h \notin Always /\ h \notin After(connection_id)
  <2>1. h.run \notin AttemptRuns BY <1>6 DEF AttemptRuns
  <2>2. ~(h.id > connection_id) BY <1>3, <1>6
  <2>3. QED BY <1>6, <2>1, <2>2, Kinds
<1>8. /\ strand' \in Seq(Handlers)
      /\ \A H : /\ None(strand', H) <=> None(strand, H) /\ h \notin H
                /\ One(strand, H) /\ h \notin H => One(strand', H)
  <2>1. CASE strand' = Append(strand, h) BY <1>3, <1>6, <2>1, AppendQueue
  <2>2. CASE strand' = strand \o <<h, h>>
    <3> DEFINE t == Append(strand, h)
    <3>1. /\ t \in Seq(Handlers)
          /\ \A H : /\ None(t, H) <=> None(strand, H) /\ h \notin H
                    /\ One(strand, H) /\ h \notin H => One(t, H)
      BY <1>3, <1>6, AppendQueue
    <3>2. strand' = Append(t, h) BY <1>3, <1>6, <2>2, TwoJoin
    <3> HIDE DEF t
    <3>3. /\ strand' \in Seq(Handlers)
          /\ \A H : /\ None(strand', H) <=> None(t, H) /\ h \notin H
                    /\ One(t, H) /\ h \notin H => One(strand', H)
      BY <1>6, <3>1, <3>2, AppendQueue
    <3>4. QED BY <3>1, <3>3
  <2>3. QED BY <1>2, <2>1, <2>2
<1>9. TypeOK' BY <1>1, <1>2, <1>4, <1>8 DEF TypeOK, Handlers, Connections
<1>10. IdInv' BY <1>1, <1>2, <1>4, <1>7, <1>8 DEF IdInv
<1>11. Shaking' = Shaking /\ CurrentHandshakes' = CurrentHandshakes
       /\ CurrentOperations' = CurrentOperations
  BY <1>2 DEF Shaking, CurrentHandshakes, CurrentOperations
<1>12. Attempting' <=> Attempting BY <1>2, <1>7, <1>8, <1>11 DEF Attempting
<1>13. AttemptInv' BY <1>1, <1>2, <1>7, <1>8, <1>11, <1>12 DEF AttemptInv
<1>14. QuicInv' BY <1>1, <1>2, <1>11 DEF QuicInv
<1>15. mux_session # 0 => connections'[mux_session].id = connections[mux_session].id
  BY <1>1, <1>4 DEF TypeOK
<1>16. Busy' BY <1>1, <1>2, <1>8, <1>11, <1>15 DEF Busy
<1>17. NoQuicInv' BY <1>1, <1>2, <1>7, <1>8 DEF NoQuicInv, OverTcp
<1>18. PhaseInv'
  <2>1. ASSUME OverTcp PROVE mux_session # 0
    <3>1. n = mux_session /\ n # 0 BY <1>1, <1>2, <2>1 DEF PhaseInv
    <3>2. QED BY <3>1
  <2>2. ASSUME OverTcp, NEW i \in 1..Len(connections'), connections'[i].state = "up"
        PROVE  i = mux_session
    BY <1>1, <1>4, <2>2 DEF PhaseInv
  <2>3. QED BY <1>1, <1>2, <1>7, <1>8, <1>12, <1>15, <2>1, <2>2 DEF PhaseInv, OverTcp
<1>19. QED BY <1>9, <1>10, <1>13, <1>14, <1>16, <1>17, <1>18 DEF IInv

\* The handshake of a QUIC session completes.
LEMMA QuicConnectedKeeps ==
  ASSUME IInv, NEW s \in 1..Len(sessions), quic_connected(s)
  PROVE  IInv'
<1>1. /\ TypeOK /\ IdInv /\ AttemptInv /\ QuicInv /\ Busy BY DEF IInv
<1>2. /\ sessions[s].state = "handshaking"
      /\ sessions' = [sessions EXCEPT ![s].state = "up"]
      /\ protocol' = protocol /\ stopping' = stopping
      /\ quic_endpoint_index' = quic_endpoint_index
      /\ operation' = operation /\ quic_session' = quic_session
      /\ closing' = closing /\ receiving' = receiving
      /\ refused' = refused /\ timed_out' = timed_out
      /\ connection_id' = connection_id /\ tried' = tried
      /\ current_protocol' = current_protocol /\ reconnect' = reconnect
  BY DEF quic_connected, fields, udp
<1>3. /\ sessions \in Seq(Sessions) /\ sessions[s] \in Sessions /\ Len(sessions) \in Nat
      /\ connection_id \in Nat /\ connection_id >= 1
  BY <1>1, Typed DEF TypeOK, IdInv
<1>4. /\ sessions' \in Seq(Sessions) /\ Len(sessions') = Len(sessions)
      /\ \A i \in 1..Len(sessions) :
           /\ sessions'[i].id = sessions[i].id
           /\ sessions'[i].state = IF i = s THEN "up" ELSE sessions[i].state
  <2>1. [sessions[s] EXCEPT !.state = "up"] \in Sessions BY <1>3 DEF Sessions
  <2>2. QED BY <1>2, <1>3, <2>1, SessionSet
<1>5. CurrentHandshakes' \subseteq CurrentHandshakes /\ CurrentOperations' = CurrentOperations
  BY <1>2, <1>4 DEF CurrentHandshakes, CurrentOperations
<1>6. sessions # <<>> BY <1>3
<1>7. ~OverTcp BY <1>6, QuicIsNotTcp
<1>8. closing \subseteq 1..Len(sessions) BY <1>1 DEF TypeOK
<1>9. CASE sessions[s].id # connection_id /\ UNCHANGED <<mux, handshake, strand>>
  <2>1. mux_session' = mux_session /\ connections' = connections BY <1>9 DEF mux
  <2>2. TypeOK' BY <1>1, <1>2, <1>4, <1>9, <2>1 DEF TypeOK, Sessions
  <2>3. Busy' BY <1>1, <1>2, <1>4, <1>5, <1>8, <1>9, <2>1 DEF Busy
  <2>4. QED BY <1>2, <1>4, <1>5, <1>7, <1>9, <2>2, <2>3, QuietKeeps
<1>10. CASE sessions[s].id = connection_id /\ handshake' = 0 /\ PostDisconnect /\ UNCHANGED mux
  <2>1. mux_session' = mux_session /\ connections' = connections BY <1>10 DEF mux
  <2>2. strand' = Append(strand, Handler("disconnect", 0, TRUE)) BY <1>10 DEF PostDisconnect
  <2>3. strand' \in Seq(Handlers) /\ strand' # strand BY <1>1, <2>2, Posted
  <2>4. TypeOK' BY <1>1, <1>2, <1>4, <1>10, <2>1, <2>3 DEF TypeOK, Sessions, Handlers
  <2>5. QED BY <1>2, <1>4, <1>5, <1>7, <1>10, <2>2, <2>3, <2>4, QuietKeeps
<1>11. CASE sessions[s].id = connection_id /\ OnConnect /\ UNCHANGED strand
  <2> DEFINE c == [id |-> connection_id, state |-> "up"]
  <2>1. /\ handshake' = 0 /\ connections' = Append(connections, c) /\ strand' = strand
        /\ mux_session' = Len(connections) + 1
    BY <1>11 DEF OnConnect
  <2>2. c \in Connections /\ c.id = connection_id BY <1>3 DEF Connections
  <2>3. connections \in Seq(Connections) /\ Len(connections) \in Nat BY <1>1, Typed
  <2> HIDE DEF c
  <2>4. /\ connections' \in Seq(Connections) /\ Len(connections') = Len(connections) + 1
        /\ connections'[Len(connections) + 1] = c
        /\ \A i \in 1..Len(connections) : connections'[i] = connections[i]
        /\ \A i \in 1..Len(connections') : i \in 1..Len(connections) \/ i = Len(connections) + 1
    BY <2>1, <2>2, <2>3
  <2>5. mux_session' \in 0..Len(connections') /\ mux_session' # 0 BY <2>1, <2>3, <2>4
  <2>6. TypeOK' BY <1>1, <1>2, <1>4, <2>1, <2>4, <2>5 DEF TypeOK, Sessions, Connections
  <2>7. \A i \in 1..Len(connections') : connections'[i].id <= connection_id'
    BY <1>1, <1>2, <1>3, <2>2, <2>4 DEF IdInv
  <2>8. IdInv' BY <1>1, <1>2, <1>3, <1>4, <2>1, <2>7 DEF IdInv
  <2>9. Shaking BY <1>11 DEF Shaking
  <2>10. Attempting' <=> Attempting BY <1>2, <1>5, <2>1 DEF Attempting
  <2>11. AttemptInv' BY <1>1, <1>2, <1>5, <2>1, <2>9, <2>10 DEF AttemptInv
  <2>12. QuicInv' BY <1>1, <1>2, <1>5, <2>9 DEF QuicInv
  <2>13. Busy' BY <1>2, <2>1, <2>2, <2>4, <2>5 DEF Busy
  <2>14. NoQuicInv' /\ PhaseInv' BY <1>2, <1>7 DEF NoQuicInv, PhaseInv, OverTcp
  <2>15. QED BY <2>6, <2>8, <2>11, <2>12, <2>13, <2>14 DEF IInv
<1>12. QED BY <1>9, <1>10, <1>11 DEF quic_connected

\* The network.
LEMMA NetworkKeeps ==
  ASSUME IInv, Network
  PROVE  IInv'
<1>1. TypeOK /\ Busy BY DEF IInv
<1>2. ASSUME NEW s \in 1..Len(sessions), quic_fails(s) PROVE IInv'
  <2>1. /\ sessions' = [sessions EXCEPT ![s].state = "closed"]
        /\ closing' = closing \union {s}
        /\ protocol' = protocol /\ stopping' = stopping /\ strand' = strand
        /\ quic_endpoint_index' = quic_endpoint_index /\ mux_session' = mux_session
        /\ connections' = connections /\ quic_session' = quic_session
        /\ receiving' = receiving /\ handshake' = handshake /\ timed_out' = timed_out
        /\ refused' = refused /\ reconnect' = reconnect
        /\ connection_id' = connection_id /\ operation' = operation /\ tried' = tried
        /\ current_protocol' = current_protocol
    BY <1>2 DEF quic_fails, fields, mux, udp, timers
  <2>2. sessions \in Seq(Sessions) /\ sessions[s] \in Sessions /\ Len(sessions) \in Nat
    BY <1>1, Typed
  <2>3. /\ sessions' \in Seq(Sessions) /\ Len(sessions') = Len(sessions)
        /\ \A i \in 1..Len(sessions) :
             /\ sessions'[i].id = sessions[i].id
             /\ sessions'[i].state = IF i = s THEN "closed" ELSE sessions[i].state
    <3>1. [sessions[s] EXCEPT !.state = "closed"] \in Sessions BY <2>2 DEF Sessions
    <3>2. QED BY <2>1, <2>2, <3>1, SessionSet
  <2>4. CurrentHandshakes' \subseteq CurrentHandshakes /\ CurrentOperations' = CurrentOperations
    BY <2>1, <2>3 DEF CurrentHandshakes, CurrentOperations
  <2>5. sessions # <<>> BY <2>2
  <2>6. ~OverTcp BY <2>5, QuicIsNotTcp
  <2>7. closing \subseteq 1..Len(sessions) BY <1>1 DEF TypeOK
  <2>8. TypeOK' BY <1>1, <2>1, <2>3, <2>7 DEF TypeOK, Sessions
  <2>9. Busy' BY <1>1, <2>1, <2>3, <2>4, <2>7 DEF Busy
  <2>10. QED BY <2>1, <2>3, <2>4, <2>6, <2>8, <2>9, QuietKeeps DEF mux
<1>3. CASE udp_fails
  <2>1. /\ receiving /\ receiving' = FALSE /\ refused' = refused + 1
        /\ protocol' = protocol /\ stopping' = stopping /\ strand' = strand
        /\ quic_endpoint_index' = quic_endpoint_index /\ mux_session' = mux_session
        /\ connections' = connections /\ quic_session' = quic_session
        /\ sessions' = sessions /\ closing' = closing
        /\ handshake' = handshake /\ timed_out' = timed_out /\ reconnect' = reconnect
        /\ connection_id' = connection_id /\ operation' = operation /\ tried' = tried
        /\ current_protocol' = current_protocol
    BY <1>3 DEF udp_fails, fields, mux, quic, timers
  <2>2. refused \in Nat BY <1>1 DEF TypeOK
  <2>3. ~OverTcp BY <2>1, QuicIsNotTcp
  <2>4. refused' \in Nat /\ refused' > 0 BY <2>1, <2>2
  <2>5. TypeOK' BY <1>1, <2>1, <2>4 DEF TypeOK
  <2>6. CurrentHandshakes' = CurrentHandshakes BY <2>1 DEF CurrentHandshakes
  <2>7. Busy' BY <2>4 DEF Busy
  <2>8. QED BY <2>1, <2>3, <2>5, <2>6, <2>7, QuietKeeps DEF mux
<1>4. QED
  BY <1>2, <1>3, OperationEndsKeeps, QuicConnectedKeeps, ConnectionLostKeeps DEF Network

-----------------------------------------------------------------------------
(* Theorems.                                                                 *)

\* The client starts by resolving the server's name.
LEMMA InitIInv ==
  ASSUME Init
  PROVE  IInv
<1> DEFINE o == [run |-> "resolved", id |-> 1]
<1>1. /\ protocol \in Protocols /\ current_protocol = FirstProtocol
      /\ connection_id = 1 /\ stopping = FALSE /\ mux_session = 0 /\ quic_session = 0
      /\ quic_endpoint_index = 0 /\ strand = <<>> /\ operation = {o}
      /\ reconnect = FALSE /\ handshake = 0 /\ timed_out = {} /\ sessions = <<>>
      /\ closing = {} /\ receiving = FALSE /\ refused = 0 /\ connections = <<>>
      /\ tried = current_protocol
  BY DEF Init
<1>2. /\ o.run \in AttemptRuns /\ o.id = 1 /\ o \in [run : Runnables, id : Nat]
  BY DEF AttemptRuns, Runnables
<1> HIDE DEF o
<1>3. Len(strand) = 0 /\ Len(sessions) = 0 /\ Len(connections) = 0 BY <1>1
<1>4. \A H : None(strand, H) /\ One(strand, H) BY <1>3 DEF None, One
<1>5. current_protocol \in {"quic", "tcp", "websocket"}
  BY <1>1, ClientAssumption DEF FirstProtocol
<1>6. TypeOK
  <2>1. /\ strand \in Seq(Handlers) /\ sessions \in Seq(Sessions)
        /\ connections \in Seq(Connections)
    BY <1>1
  <2>2. quic_endpoint_index \in 0..Endpoints BY <1>1, ClientAssumption
  <2>3. operation \subseteq [run : Runnables, id : Nat] BY <1>1, <1>2
  <2>4. mux_session \in 0..Len(connections) /\ quic_session \in 0..Len(sessions)
        /\ closing \subseteq 1..Len(sessions)
    BY <1>1, <1>3
  <2>5. /\ connection_id \in Nat /\ handshake \in Nat /\ refused \in Nat
        /\ timed_out \subseteq Nat /\ stopping \in BOOLEAN /\ reconnect \in BOOLEAN
        /\ receiving \in BOOLEAN
    BY <1>1
  <2>6. QED BY <1>1, <1>5, <2>1, <2>2, <2>3, <2>4, <2>5
            DEF TypeOK, Handlers, Sessions, Connections
<1>7. IdInv BY <1>1, <1>2, <1>3, <1>4 DEF IdInv
<1>8. CurrentOperations = {o} BY <1>1, <1>2 DEF CurrentOperations
<1>9. ~Shaking /\ CurrentHandshakes = {} BY <1>1, <1>3 DEF Shaking, CurrentHandshakes
<1>10. AttemptInv BY <1>4, <1>8, <1>9 DEF AttemptInv
<1>11. QuicInv BY <1>9 DEF QuicInv
<1>12. Busy BY <1>8 DEF Busy
<1>13. NoQuicInv BY <1>1, <1>4 DEF NoQuicInv, OverTcp, FirstProtocol
<1>14. PhaseInv BY <1>1, <1>3, <1>4 DEF PhaseInv
<1>15. QED BY <1>6, <1>7, <1>10, <1>11, <1>12, <1>13, <1>14 DEF IInv

\* Every step keeps the invariant.
LEMMA StepIInv ==
  ASSUME IInv, [Next]_vars
  PROVE  IInv'
<1>1. CASE UNCHANGED vars
  <2>1. /\ protocol' = protocol /\ stopping' = stopping /\ strand' = strand
        /\ quic_endpoint_index' = quic_endpoint_index /\ mux_session' = mux_session
        /\ connections' = connections /\ quic_session' = quic_session
        /\ sessions' = sessions /\ closing' = closing /\ receiving' = receiving
        /\ refused' = refused /\ handshake' = handshake /\ timed_out' = timed_out
        /\ connection_id' = connection_id /\ operation' = operation /\ tried' = tried
        /\ current_protocol' = current_protocol /\ reconnect' = reconnect
    BY <1>1 DEF vars, fields, mux, quic, udp, timers
  <2>2. CurrentOperations' = CurrentOperations /\ CurrentHandshakes' = CurrentHandshakes
        /\ Shaking' = Shaking /\ OverTcp' = OverTcp
    BY <2>1 DEF CurrentOperations, CurrentHandshakes, Shaking, OverTcp
  <2>3. Attempting' = Attempting BY <2>1, <2>2 DEF Attempting
  <2>4. TypeOK' /\ IdInv' BY <2>1 DEF IInv, TypeOK, IdInv
  <2>5. AttemptInv' /\ QuicInv' BY <2>1, <2>2, <2>3 DEF IInv, AttemptInv, QuicInv
  <2>6. Busy' BY <2>1, <2>2 DEF IInv, Busy
  <2>7. NoQuicInv' /\ PhaseInv' BY <2>1, <2>2, <2>3 DEF IInv, NoQuicInv, PhaseInv
  <2>8. QED BY <2>4, <2>5, <2>6, <2>7 DEF IInv
<1>2. QED
  BY <1>1, StrandKeeps, ThreadsKeep, TimersKeep, NetworkKeeps, StopRequestedKeeps DEF Next

\* The inductive invariant of the client (client.cpp), for any number of
\* endpoints, attempts and QUIC sessions.
THEOREM Invariance == Spec => []IInv
<1>1. Init => IInv BY InitIInv
<1>2. IInv /\ [Next]_vars => IInv' BY StepIInv
<1>3. QED BY <1>1, <1>2, PTL DEF Spec

\* The types of the client's fields and of what is under way.
THEOREM TypeCorrect == Spec => []TypeOK
<1>1. IInv => TypeOK BY DEF IInv
<1>2. QED BY Invariance, <1>1, PTL

\* HandleDisconnect and DoConnect: the client is never left with handlers that
\* will all be ignored; if nothing else, it has a connection whose end it will see.
THEOREM ClientNeverIdles == Spec => []NeverIdle
<1>1. ASSUME IInv PROVE NeverIdle
  <2>1. ASSUME NEW H, ~None(strand, H) PROVE strand # <<>>
    <3>1. PICK i \in 1..Len(strand) : strand[i] \in H BY <2>1 DEF None
    <3>2. ASSUME strand = <<>> PROVE FALSE BY <3>1, <3>2
    <3>3. QED BY <3>2
  <2>2. Busy BY <1>1 DEF IInv
  <2>3. QED BY <2>1, <2>2 DEF Busy, NeverIdle
<1>2. QED BY Invariance, <1>1, PTL

\* connection_id_ and ClosedSessions: what can still bring the client a connection
\* is one operation or one handshake, and that is quic_session_'s.
THEOREM OneAttemptAtATime == Spec => []OneAttempt
<1>1. ASSUME IInv PROVE OneAttempt
  <2>1. /\ \A o, p \in CurrentOperations : o = p
        /\ CurrentOperations # {} => ~Shaking
        /\ CurrentHandshakes \subseteq {quic_session}
    BY <1>1 DEF IInv, AttemptInv, QuicInv, Attempting
  <2>2. CurrentHandshakes # {} => Shaking BY DEF CurrentHandshakes, Shaking
  <2>3. Cardinality({}) = 0 BY FS_EmptySet
  <2>4. \A x : Cardinality({x}) = 1 BY FS_Singleton
  <2>5. CASE CurrentOperations = {}
    <3>1. CurrentHandshakes = {} \/ CurrentHandshakes = {quic_session} BY <2>1
    <3>2. QED BY <2>1, <2>3, <2>4, <2>5, <3>1 DEF OneAttempt
  <2>6. CASE CurrentOperations # {}
    <3>1. PICK o \in CurrentOperations : CurrentOperations = {o} BY <2>1, <2>6
    <3>2. CurrentHandshakes = {} BY <2>1, <2>2, <2>6
    <3>3. QED BY <2>1, <2>3, <2>4, <3>1, <3>2 DEF OneAttempt
  <2>7. QED BY <2>5, <2>6
<1>2. QED BY Invariance, <1>1, PTL

\* Over TCP a mux session that runs is the present one, nothing else is on its
\* way beside it, and there is one plan to reconnect.
THEOREM OneConnectionOverTcp == Spec => []OneConnection
<1>1. ASSUME IInv, OverTcp
      PROVE  /\ \A n \in 1..Len(connections) :
                  connections[n].state = "up" =>
                    /\ n = mux_session
                    /\ connections[n].id = connection_id
                    /\ CurrentOperations = {} /\ ~reconnect /\ Plans = {}
             /\ reconnect => Plans = {}
             /\ Cardinality(Plans) <= 1
  <2>1. TypeOK /\ PhaseInv BY <1>1 DEF IInv
  <2>2. \A i \in 1..Len(strand) :
          strand[i] \in Dialling <=> strand[i].run \in {"connect", "reconnect"}
    <3>1. strand \in Seq(Handlers) BY <2>1, Typed
    <3>2. \A i \in 1..Len(strand) : strand[i] \in Handlers BY <3>1
    <3>3. QED BY <3>2, Kinds
  <2>3. Plans = {i \in 1..Len(strand) : strand[i] \in Dialling} BY <2>2 DEF Plans
  <2>4. None(strand, Dialling) => Plans = {} BY <2>3 DEF None
  <2>5. \A i, j \in Plans : i = j BY <1>1, <2>1, <2>3 DEF PhaseInv, One
  <2>6. Cardinality(Plans) <= 1
    <3>1. CASE Plans = {} BY <3>1, FS_EmptySet
    <3>2. CASE Plans # {}
      <4>1. PICK i \in Plans : Plans = {i} BY <2>5, <3>2
      <4>2. Cardinality({i}) = 1 BY FS_Singleton
      <4>3. QED BY <4>1, <4>2
    <3>3. QED BY <3>1, <3>2
  <2>7. ASSUME NEW n \in 1..Len(connections), connections[n].state = "up"
        PROVE  /\ n = mux_session /\ connections[n].id = connection_id
               /\ CurrentOperations = {} /\ ~reconnect /\ Plans = {}
    <3>1. n = mux_session /\ n # 0 BY <1>1, <2>1, <2>7 DEF PhaseInv
    <3>2. /\ connections[mux_session].id = connection_id
          /\ ~Attempting /\ ~reconnect /\ None(strand, Dialling)
      BY <1>1, <2>1, <3>1 DEF PhaseInv
    <3>3. QED BY <2>4, <3>1, <3>2 DEF Attempting
  <2>8. reconnect => Plans = {} BY <1>1, <2>1, <2>4 DEF PhaseInv
  <2>9. QED BY <2>6, <2>7, <2>8
<1>2. IInv => OneConnection BY <1>1 DEF OneConnection, OverTcp
<1>3. QED BY Invariance, <1>2, PTL
=============================================================================
