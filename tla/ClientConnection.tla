-------------------------- MODULE ClientConnection --------------------------
(***************************************************************************)
(* How the client (client.cpp) gets and keeps its connection: DoConnect    *)
(* resolves the server and connects over the current protocol, OnConnect   *)
(* starts the mux session and its control stream, HandleDisconnect drops   *)
(* everything and, for the protocol "auto", moves on to the next one.      *)
(*                                                                         *)
(* The handlers bound to strand_ wait in the queue strand.  The handshake  *)
(* timer, the callbacks of a QuicSession and the UDP receive handler run   *)
(* on other threads; each is one step, and what they hand to the strand    *)
(* waits its turn.  connection_id tells the handlers of an abandoned       *)
(* attempt apart, but not the QUIC endpoints that are tried in one attempt.*)
(* A timer whose wait has ended cannot be cancelled: its handler will run. *)
(***************************************************************************)
EXTENDS Integers, Sequences, FiniteSets

CONSTANTS
  Protocols,      \* the settings of protocol to look at
  Endpoints,      \* how many addresses the server's name resolves to
  MaxConnections, \* bound: value of connection_id
  MaxSessions     \* bound: QUIC sessions made

ASSUME ClientAssumption ==
  /\ Protocols \subseteq {"auto", "tcp", "quic", "websocket"}
  /\ Endpoints \in Nat \ {0}
  /\ MaxConnections \in Nat
  /\ MaxSessions \in Nat

VARIABLES
  \* --- the fields of Client
  protocol, current_protocol, connection_id, stopping,
  mux_session,      \* number of the connection it runs on, or 0
  quic_session,     \* number of the QUIC session, or 0
  quic_endpoint_index,
  \* --- what is under way
  strand,           \* handlers queued on strand_: [run, id, ok]
  operation,        \* TCP operations in progress: [run, id]
  reconnect,        \* reconnect_timer_ is armed
  handshake,        \* the id handshake_timer_ was armed for, or 0
  timed_out,        \* ids of its handlers that are to run
  sessions,         \* QUIC sessions so far: [id, state]
  closing,          \* those whose on_closed callback is to run
  receiving,        \* a receive on udp_socket_ is pending
  refused,          \* receive handlers that are to report a refusal
  connections,      \* mux sessions so far: [id, state]
  \* --- history
  tried             \* protocol of the last DoConnect

fields == <<protocol, stopping, quic_endpoint_index>>
timers == <<reconnect, handshake, timed_out>>
udp    == <<receiving, refused>>
quic   == <<quic_session, sessions, closing>>
mux    == <<mux_session, connections>>
vars   == <<fields, current_protocol, connection_id, mux, quic, udp, strand,
            operation, timers, tried>>

Handler(run, id, ok) == [run |-> run, id |-> id, ok |-> ok]

FirstProtocol == IF protocol = "auto" THEN "quic" ELSE protocol

Init ==
  /\ protocol \in Protocols
  /\ current_protocol = FirstProtocol
  /\ connection_id = 1
  /\ stopping = FALSE
  /\ mux_session = 0
  /\ quic_session = 0
  /\ quic_endpoint_index = 0
  /\ strand = <<>>
  /\ operation = {[run |-> "resolved", id |-> 1]}    \* Run: DoConnect
  /\ reconnect = FALSE
  /\ handshake = 0
  /\ timed_out = {}
  /\ sessions = <<>>
  /\ closing = {}
  /\ receiving = FALSE
  /\ refused = 0
  /\ connections = <<>>
  /\ tried = current_protocol

-----------------------------------------------------------------------------
(* The functions the handlers share.                                         *)

\* close_session of the session the client has: the sessions after it, and
\* those whose callback it posts, once for each.
ClosedSessions ==
  IF quic_session = 0 THEN sessions
  ELSE [sessions EXCEPT ![quic_session].state = "closed"]

NewlyClosed ==
  IF quic_session # 0 /\ sessions[quic_session].state # "closed"
  THEN {quic_session} ELSE {}

\* The next protocol of HandleDisconnect, and whether it is tried at once.
NextProtocol ==
  IF protocol # "auto" THEN current_protocol
  ELSE CASE current_protocol = "quic" -> "tcp"
         [] current_protocol = "tcp" -> "websocket"
         [] OTHER -> "quic"

Immediate == protocol = "auto" /\ current_protocol # "websocket"

ScheduleReconnect_AutoOnly(stop) == ~stop /\ protocol = "auto" /\ ~Immediate

\* Whether reconnect_timer_ is armed; a wait that is under way is replaced.
ScheduleReconnect(stop) == ~stop /\ ~Immediate

\* HandleDisconnect on the strand; queue is what is left of the strand's queue
\* and stop the value of stopping_.
HandleDisconnect(queue, stop) ==
  /\ connection_id < MaxConnections
  /\ connection_id' = connection_id + 1
  /\ connections' = IF mux_session = 0 THEN connections
                    ELSE [connections EXCEPT ![mux_session].state = "stopped"]
  /\ mux_session' = 0
  /\ sessions' = ClosedSessions
  /\ closing' = closing \union NewlyClosed
  /\ quic_session' = 0
  /\ receiving' = FALSE
  /\ current_protocol' = IF stop THEN current_protocol ELSE NextProtocol
  /\ strand' = IF Immediate /\ ~stop
               THEN Append(queue, Handler("connect", 0, TRUE)) ELSE queue
  /\ reconnect' = (reconnect \/ ScheduleReconnect(stop))
  /\ UNCHANGED <<protocol, refused, operation, timed_out, tried>>

Disconnected ==
  /\ HandleDisconnect(Tail(strand), stopping)
  /\ UNCHANGED <<stopping, quic_endpoint_index, handshake>>

\* HandleDisconnect on another thread.
PostDisconnect == strand' = Append(strand, Handler("disconnect", 0, TRUE))

DoConnect ==
  /\ connection_id < MaxConnections
  /\ connection_id' = connection_id + 1
  /\ operation' =
       operation \union {[run |-> "resolved", id |-> connection_id + 1]}
  /\ tried' = current_protocol

\* OnConnect without an error.
OnConnect ==
  /\ handshake' = 0
  /\ connections' = Append(connections, [id |-> connection_id, state |-> "up"])
  /\ mux_session' = Len(connections) + 1

TryNextQuicEndpoint_KeepsOld(index, callbacks) ==
  /\ Len(sessions) < MaxSessions
  /\ \E k \in (index + 1)..Endpoints : quic_endpoint_index' = k
  /\ sessions' = Append(sessions, [id |-> connection_id, state |-> "handshaking"])
  /\ closing' = callbacks
  /\ quic_session' = Len(sessions) + 1
  /\ handshake' = connection_id
  /\ receiving' = TRUE

TryNextQuicEndpoint_NoTimer(index, callbacks) ==
  /\ Len(sessions) < MaxSessions
  /\ \E k \in (index + 1)..Endpoints : quic_endpoint_index' = k
  /\ sessions' = Append(ClosedSessions,
                        [id |-> connection_id, state |-> "handshaking"])
  /\ closing' = callbacks \union NewlyClosed
  /\ quic_session' = Len(sessions) + 1
  /\ handshake' = 0
  /\ receiving' = TRUE

\* TryNextQuicEndpoint and DoQuicConnect: the session is closed and the next
\* endpoint to which the UDP socket can be bound gets a new one.
TryNextQuicEndpoint(index, callbacks) ==
  /\ Len(sessions) < MaxSessions
  /\ \E k \in (index + 1)..Endpoints : quic_endpoint_index' = k
  /\ sessions' = Append(ClosedSessions,
                        [id |-> connection_id, state |-> "handshaking"])
  /\ closing' = callbacks \union NewlyClosed
  /\ quic_session' = Len(sessions) + 1
  /\ handshake' = connection_id
  /\ receiving' = TRUE

\* TryNextQuicEndpoint when there is none, or none to which it can be bound.
NoQuicEndpoint(callbacks) ==
  /\ quic_endpoint_index' = Endpoints
  /\ sessions' = ClosedSessions
  /\ closing' = callbacks \union NewlyClosed
  /\ quic_session' = 0
  /\ handshake' = 0
  /\ receiving' = (receiving /\ quic_endpoint_index = Endpoints)

-----------------------------------------------------------------------------
(* The handlers on the strand.                                               *)

Runs(run) == strand # <<>> /\ Head(strand).run = run

Stale_NotChecked == FALSE

Stale == Head(strand).id # connection_id

\* A handler of an earlier connection_id returns at once.
stale ==
  /\ strand # <<>>
  /\ Head(strand).run \in {"resolved", "connected", "shaken", "control_failed"}
  /\ Stale
  /\ strand' = Tail(strand)
  /\ UNCHANGED <<fields, current_protocol, connection_id, mux, quic, udp,
                 operation, timers, tried>>

\* Stop, posted by the signal handler.
stop ==
  /\ Runs("stop")
  /\ stopping' = TRUE
  /\ HandleDisconnect(Tail(strand), TRUE)
  /\ UNCHANGED <<quic_endpoint_index, handshake>>

disconnect == Runs("disconnect") /\ Disconnected

\* The DoConnect that HandleDisconnect posted.
failover ==
  /\ Runs("connect")
  /\ strand' = Tail(strand)
  /\ \/ stopping /\ UNCHANGED <<connection_id, operation, tried>>
     \/ ~stopping /\ DoConnect
  /\ UNCHANGED <<fields, current_protocol, mux, quic, udp, timers>>

\* The handler of reconnect_timer_.  It does not look at stopping_.
reconnect_due ==
  /\ Runs("reconnect")
  /\ strand' = Tail(strand)
  /\ DoConnect
  /\ UNCHANGED <<fields, current_protocol, mux, quic, udp, timers>>

\* The resolver's handler: an error, QUIC, or TCP.
resolved ==
  /\ Runs("resolved")
  /\ ~Stale
  /\ \/ /\ ~Head(strand).ok
        /\ Disconnected
     \/ /\ Head(strand).ok
        /\ current_protocol # "quic"
        /\ strand' = Tail(strand)
        /\ operation' =
             operation \union {[run |-> "connected", id |-> connection_id]}
        /\ UNCHANGED <<fields, current_protocol, connection_id, mux, quic, udp,
                       timers, tried>>
     \/ /\ Head(strand).ok
        /\ current_protocol = "quic"
        /\ TryNextQuicEndpoint(0, closing)
        /\ strand' = Tail(strand)
        /\ UNCHANGED <<protocol, stopping, current_protocol, connection_id, mux,
                       refused, operation, reconnect, timed_out, tried>>
     \/ /\ Head(strand).ok
        /\ current_protocol = "quic"        \* no endpoint to be bound to
        /\ HandleDisconnect(Tail(strand), stopping)
        /\ quic_endpoint_index' = Endpoints
        /\ handshake' = 0
        /\ UNCHANGED stopping

\* The handler of async_connect: TLS, and the WebSocket upgrade, come next.
connected ==
  /\ Runs("connected")
  /\ ~Stale
  /\ \/ /\ ~Head(strand).ok
        /\ Disconnected
     \/ /\ Head(strand).ok
        /\ strand' = Tail(strand)
        /\ operation' =
             operation \union {[run |-> "shaken", id |-> connection_id]}
        /\ UNCHANGED <<fields, current_protocol, connection_id, mux, quic, udp,
                       timers, tried>>

\* The handler of async_handshake: OnConnect.
shaken ==
  /\ Runs("shaken")
  /\ ~Stale
  /\ \/ /\ ~Head(strand).ok
        /\ Disconnected
     \/ /\ Head(strand).ok
        /\ strand' = Tail(strand)
        /\ OnConnect
        /\ UNCHANGED <<fields, current_protocol, connection_id, quic, udp,
                       operation, reconnect, timed_out, tried>>

\* A read or a write of the control stream failed, or its message was bad.
control_failed ==
  /\ Runs("control_failed")
  /\ ~Stale
  /\ Disconnected

Strand ==
  \/ stale \/ stop \/ disconnect \/ failover \/ reconnect_due
  \/ resolved \/ connected \/ shaken \/ control_failed

-----------------------------------------------------------------------------
(* The handlers on other threads.                                            *)

\* The handler of handshake_timer_ armed for connection id.
handshake_timeout(id) ==
  /\ id \in timed_out
  /\ timed_out' = timed_out \ {id}
  /\ \/ /\ id # connection_id \/ current_protocol # "quic"
        /\ UNCHANGED <<quic, quic_endpoint_index, handshake, receiving, strand>>
     \/ /\ id = connection_id /\ current_protocol = "quic"
        /\ protocol = "auto"
        /\ \/ TryNextQuicEndpoint(quic_endpoint_index, closing)
              /\ UNCHANGED strand
           \/ NoQuicEndpoint(closing) /\ PostDisconnect
     \/ /\ id = connection_id /\ current_protocol = "quic"
        /\ protocol # "auto"
        /\ PostDisconnect
        /\ UNCHANGED <<quic, quic_endpoint_index, handshake, receiving>>
  /\ UNCHANGED <<protocol, stopping, current_protocol, connection_id, mux,
                 refused, operation, reconnect, tried>>

\* The handshake of session s completes: on_connected.
quic_connected(s) ==
  /\ sessions[s].state = "handshaking"
  /\ sessions' = [sessions EXCEPT ![s].state = "up"]
  /\ \/ /\ sessions[s].id # connection_id
        /\ UNCHANGED <<mux, handshake, strand>>
     \/ /\ sessions[s].id = connection_id
        /\ OnConnect
        /\ UNCHANGED strand
     \/ /\ sessions[s].id = connection_id          \* open_stream failed
        /\ handshake' = 0
        /\ PostDisconnect
        /\ UNCHANGED mux
  /\ UNCHANGED <<fields, current_protocol, connection_id, quic_session, closing,
                 udp, operation, reconnect, timed_out, tried>>

\* The callback of a session that has been closed, be it by the client itself.
on_closed(s) ==
  /\ s \in closing
  /\ \/ /\ sessions[s].id # connection_id
        /\ closing' = closing \ {s}
        /\ UNCHANGED <<quic_session, sessions, quic_endpoint_index, handshake,
                       receiving, strand>>
     \/ /\ sessions[s].id = connection_id
        /\ \/ TryNextQuicEndpoint(quic_endpoint_index, closing \ {s})
              /\ UNCHANGED strand
           \/ NoQuicEndpoint(closing \ {s}) /\ PostDisconnect
  /\ UNCHANGED <<protocol, stopping, current_protocol, connection_id, mux,
                 refused, operation, reconnect, timed_out, tried>>

\* The handler of DoUdpRead for a refusal.  It does not look at connection_id_.
udp_refused ==
  /\ refused > 0
  /\ refused' = refused - 1
  /\ PostDisconnect
  /\ UNCHANGED <<fields, current_protocol, connection_id, mux, quic, receiving,
                 operation, timers, tried>>

Threads ==
  \/ \E id \in timed_out : handshake_timeout(id)
  \/ \E s \in closing : on_closed(s)
  \/ udp_refused

-----------------------------------------------------------------------------
(* The timers, the network and the user.                                     *)

reconnect_expires ==
  /\ reconnect
  /\ reconnect' = FALSE
  /\ strand' = Append(strand, Handler("reconnect", 0, TRUE))
  /\ UNCHANGED <<fields, current_protocol, connection_id, mux, quic, udp,
                 operation, handshake, timed_out, tried>>

handshake_expires ==
  /\ handshake # 0
  /\ timed_out' = timed_out \union {handshake}
  /\ handshake' = 0
  /\ UNCHANGED <<fields, current_protocol, connection_id, mux, quic, udp, strand,
                 operation, reconnect, tried>>

Timers == reconnect_expires \/ handshake_expires

operation_ends(o) ==
  /\ o \in operation
  /\ operation' = operation \ {o}
  /\ \E ok \in BOOLEAN : strand' = Append(strand, Handler(o.run, o.id, ok))
  /\ UNCHANGED <<fields, current_protocol, connection_id, mux, quic, udp, timers,
                 tried>>

\* The library closes session s: the peer, its idle timer, or an error.
quic_fails(s) ==
  /\ sessions[s].state # "closed"
  /\ sessions' = [sessions EXCEPT ![s].state = "closed"]
  /\ closing' = closing \union {s}
  /\ UNCHANGED <<fields, current_protocol, connection_id, mux, quic_session, udp,
                 strand, operation, timers, tried>>

udp_fails ==
  /\ receiving
  /\ receiving' = FALSE
  /\ refused' = refused + 1
  /\ UNCHANGED <<fields, current_protocol, connection_id, mux, quic, strand,
                 operation, timers, tried>>

\* A mux session loses its transport: the read of its control stream fails,
\* and so does a write if one is under way.
connection_lost(n) ==
  /\ connections[n].state = "up"
  /\ connections' = [connections EXCEPT ![n].state = "lost"]
  /\ LET failed == Handler("control_failed", connections[n].id, TRUE)
     IN  strand' \in {Append(strand, failed), strand \o <<failed, failed>>}
  /\ UNCHANGED <<fields, current_protocol, connection_id, mux_session, quic, udp,
                 operation, timers, tried>>

stop_requested ==
  /\ ~stopping
  /\ \A i \in 1..Len(strand) : strand[i].run # "stop"
  /\ strand' = Append(strand, Handler("stop", 0, TRUE))
  /\ UNCHANGED <<fields, current_protocol, connection_id, mux, quic, udp,
                 operation, timers, tried>>

Network ==
  \/ \E o \in operation : operation_ends(o)
  \/ \E s \in 1..Len(sessions) : quic_connected(s) \/ quic_fails(s)
  \/ \E n \in 1..Len(connections) : connection_lost(n)
  \/ udp_fails

Next == Strand \/ Threads \/ Timers \/ Network \/ stop_requested

Spec == Init /\ [][Next]_vars

\* The io_context threads run what is queued, and timers expire.  Nothing is
\* assumed of the network.
Fairness == WF_vars(Strand) /\ WF_vars(Threads) /\ WF_vars(Timers)

FairSpec == Spec /\ Fairness

-----------------------------------------------------------------------------
(* Properties.                                                               *)

Runnables == {"stop", "disconnect", "connect", "reconnect", "resolved",
              "connected", "shaken", "control_failed"}

\* The type invariant of the client's fields and of what is under way.
TypeOK ==
  /\ protocol \in Protocols
  /\ current_protocol \in {"quic", "tcp", "websocket"}
  /\ connection_id \in Nat
  /\ stopping \in BOOLEAN
  /\ mux_session \in 0..Len(connections)
  /\ quic_session \in 0..Len(sessions)
  /\ quic_endpoint_index \in 0..Endpoints
  /\ strand \in Seq([run : Runnables, id : Nat, ok : BOOLEAN])
  /\ operation \subseteq [run : Runnables, id : Nat]
  /\ reconnect \in BOOLEAN
  /\ handshake \in Nat
  /\ timed_out \subseteq Nat
  /\ sessions \in Seq([id : Nat, state : {"handshaking", "up", "closed"}])
  /\ closing \subseteq 1..Len(sessions)
  /\ receiving \in BOOLEAN
  /\ refused \in Nat
  /\ connections \in Seq([id : Nat, state : {"up", "lost", "stopped"}])
  /\ tried \in {"quic", "tcp", "websocket"}

\* What the present connection_id is being pursued with.
CurrentOperations == {o \in operation : o.id = connection_id}

CurrentHandshakes ==
  {s \in 1..Len(sessions) : /\ sessions[s].id = connection_id
                            /\ sessions[s].state = "handshaking"}

\* A client that has not been stopped never comes to rest without a
\* connection: there is a handler that will run, a timer that will fire, an
\* operation whose handler will not be ignored, a QUIC handshake that the
\* timer watches, or a control stream being read under the present id.
NeverIdle ==
  \/ stopping \/ strand # <<>> \/ reconnect \/ refused > 0
  \/ CurrentOperations # {}
  \/ connection_id \in timed_out \union {handshake}
  \/ \E s \in closing : sessions[s].id = connection_id
  \/ mux_session # 0 /\ connections[mux_session].id = connection_id

\* One attempt at a time: however timers, callbacks and failovers overlap, at
\* most one operation or QUIC handshake can still bring the client a
\* connection, and that handshake is the one of quic_session_.
OneAttempt ==
  /\ Cardinality(CurrentOperations) + Cardinality(CurrentHandshakes) <= 1
  /\ CurrentHandshakes \subseteq {quic_session}

\* With a TCP transport the client has one connection: a mux session that runs
\* is the present one, nothing else is on its way beside it, and there is at
\* most one plan to reconnect.  (With QUIC two disconnects can overlap, and
\* the second timer makes the client leave a connection it has.)
Plans ==
  {i \in 1..Len(strand) : strand[i].run \in {"connect", "reconnect"}}

OneConnection ==
  protocol \in {"tcp", "websocket"} =>
    /\ \A n \in 1..Len(connections) :
         connections[n].state = "up" =>
           /\ n = mux_session
           /\ connections[n].id = connection_id
           /\ CurrentOperations = {} /\ ~reconnect /\ Plans = {}
    /\ reconnect => Plans = {}
    /\ Cardinality(Plans) <= 1

\* A QUIC handshake that nobody answers does not last: the client goes on to
\* another endpoint, protocol or attempt.  (Within the bounds.)
HandshakeEnds ==
  \A s \in 1..MaxSessions :
    (quic_session = s /\ sessions[s].state = "handshaking")
      ~> \/ quic_session # s \/ sessions[s].state # "handshaking"
         \/ connection_id = MaxConnections \/ Len(sessions) = MaxSessions

\* client.toml: "auto" will try QUIC, TCP and WebSocket in sequence.  WebSocket
\* is only tried when TCP has been tried before it.
TriesInSequence ==
  [][protocol = "auto" /\ tried' = "websocket" /\ tried # "websocket"
       => tried = "tcp"]_vars
=============================================================================
