--------------------------- MODULE VisitorHandoff ---------------------------
(***************************************************************************)
(* How the server hands a visitor to a client (server.cpp): a listener     *)
(* accepts the visitor, registers it under a ticket in one of the two      *)
(* pending tables, and sends the ticket to the client in a NewUserConn     *)
(* message; the client connects to the local service and opens a work      *)
(* stream that starts with the ticket; the server looks the ticket up and  *)
(* bridges visitor and stream.  Tickets nobody claims are removed by       *)
(* DoLazyCleanup, which only a later registration calls.                   *)
(*                                                                         *)
(* The pending tables are guarded by pending_conn_mutex_, so a register, a *)
(* claim or a clear is one step; everything between them may interleave.   *)
(* A proxy name belongs to one client here.                                *)
(***************************************************************************)
EXTENDS Integers, Sequences, FiniteSets

CONSTANTS
  Visitors,      \* connections to TCP and vhost proxies
  Endpoints,     \* UDP endpoints that send datagrams
  Proxies,       \* proxy names
  Kind,          \* for each proxy: "tcp", "udp", or "http" (any vhost type)
  Clock,         \* for each visitor, the clock reading in its ticket
  MaxPending,    \* 512: MAX_PENDING_TICKETS
  Lifetime,      \* 10 s: how long a ticket is good
  MaxTime,       \* bound: ticks
  MaxDatagrams,  \* bound: UDP sessions started
  MaxRestarts    \* bound: times a client comes back

ASSUME HandoffAssumption ==
  /\ IsFiniteSet(Visitors)
  /\ Kind \in [Proxies -> {"tcp", "udp", "http"}]
  /\ Clock \in [Visitors -> Nat]
  /\ MaxPending \in Nat
  /\ Lifetime \in Nat \ {0}
  /\ MaxTime \in Nat
  /\ MaxDatagrams \in Nat
  /\ MaxRestarts \in Nat

VARIABLES
  \* --- the fields of Server
  pending_user_conns,       \* [ticket, visitor, proxy, created_at]
  pending_udp_sessions,     \* [ticket, endpoint, proxy, listener, created_at]
  ticket_expiration_queue,
  \* --- the listeners and the control session of each proxy's client
  listening,                \* the listener, or the vhost route, is there
  session,                  \* "up", "closing" (in ControlSession::Stop), "down"
  generation,               \* how many listeners the proxy has had before
  active_conns,             \* of the present listener
  endpoint_to_ticket,       \* of the present listener: <<endpoint, ticket>>
  \* --- messages
  announced,                \* NewUserConn messages on their way: <<proxy, ticket>>
  offered,                  \* work streams, ticket not yet read: <<proxy, ticket>>
  \* --- the visitors
  visitor,                  \* see Visitor
  now, sessions_started, restarts

tables    == <<pending_user_conns, pending_udp_sessions, ticket_expiration_queue>>
listeners == <<listening, session, generation>>
mail      == <<announced, offered>>
counts    == <<now, sessions_started, restarts>>
vars      == <<tables, listeners, active_conns, endpoint_to_ticket, mail,
               visitor, counts>>

\* The bare clock reading: two visitors may well have the same.
TcpTicket(v) == <<"tcp", Clock[v]>>

VhostTicket_BareReading(v) == <<"tcp", Clock[v]>>

\* The reading, "_vhost_" and a random number: it is taken to be new.
VhostTicket(v) == <<"vhost", v>>

\* It ends in a random number too.
UdpTicket(n) == <<"udp", n>>

\* The ticket that visitor v gets when it is registered for proxy p.
Ticket(v, p) == IF Kind[p] = "http" THEN VhostTicket(v) ELSE TcpTicket(v)

NoProxy == "none"

\* Where a visitor is: accepted by listener number g of proxy p; bridged to a
\* work stream of proxy by; to be counted down at listener number counter (-1:
\* at none).
Visitor(state, p, g) ==
  [state |-> state, proxy |-> p, generation |-> g, by |-> NoProxy,
   counter |-> -1]

Init ==
  /\ pending_user_conns = {}
  /\ pending_udp_sessions = {}
  /\ ticket_expiration_queue = <<>>
  /\ listening = [p \in Proxies |-> TRUE]
  /\ session = [p \in Proxies |-> "up"]
  /\ generation = [p \in Proxies |-> 0]
  /\ active_conns = [p \in Proxies |-> 0]
  /\ endpoint_to_ticket = [p \in Proxies |-> {}]
  /\ announced = {}
  /\ offered = {}
  /\ visitor = [v \in Visitors |-> Visitor("new", NoProxy, 0)]
  /\ now = 0
  /\ sessions_started = 0
  /\ restarts = 0

-----------------------------------------------------------------------------
(* Server::DoLazyCleanup and the two register functions.                     *)

Expired_Strict ==
  CHOOSE k \in 0..Len(ticket_expiration_queue) :
    /\ \A i \in 1..k : now > ticket_expiration_queue[i].expires_at
    /\ k < Len(ticket_expiration_queue) =>
         now <= ticket_expiration_queue[k + 1].expires_at

\* How many entries at the front of the queue have expired.
Expired ==
  CHOOSE k \in 0..Len(ticket_expiration_queue) :
    /\ \A i \in 1..k : now >= ticket_expiration_queue[i].expires_at
    /\ k < Len(ticket_expiration_queue) =>
         now < ticket_expiration_queue[k + 1].expires_at

ExpiredTickets(is_udp) ==
  {ticket_expiration_queue[i].ticket :
     i \in {j \in 1..Expired : ticket_expiration_queue[j].is_udp = is_udp}}

KeptConns == {c \in pending_user_conns : c.ticket \notin ExpiredTickets(FALSE)}

KeptUdp == {c \in pending_udp_sessions : c.ticket \notin ExpiredTickets(TRUE)}

KeptQueue_DropsOneMore ==
  SubSeq(ticket_expiration_queue, Expired + 2, Len(ticket_expiration_queue))

KeptQueue ==
  SubSeq(ticket_expiration_queue, Expired + 1, Len(ticket_expiration_queue))

\* The visitors whose sockets are destroyed with a set of table entries.
Closing(conns) == {c.visitor : c \in conns}

\* The endpoints DoLazyCleanup takes out of their listener's map.
Unmapped(p) ==
  {c.endpoint : c \in {d \in pending_udp_sessions \ KeptUdp :
                         d.proxy = p /\ d.listener = generation[p]}}

MapAfterCleanup(p) ==
  {pair \in endpoint_to_ticket[p] : pair[1] \notin Unmapped(p)}

Full_IgnoresUdp == Cardinality(KeptConns) >= MaxPending

Full == Cardinality(KeptConns) + Cardinality(KeptUdp) >= MaxPending

NewExpiry(ticket, is_udp) ==
  [ticket |-> ticket, is_udp |-> is_udp, expires_at |-> now + Lifetime]

\* The visitor v registered under its ticket, or its socket dropped.
RegisterUserConn(v, p) ==
  LET t     == Ticket(v, p)
      new   == [ticket |-> t, visitor |-> v, proxy |-> p, created_at |-> now]
      taken == \E c \in KeptConns : c.ticket = t      \* emplace keeps the old
      stays == ~Full /\ ~taken
  IN  /\ pending_user_conns' =
           IF stays THEN KeptConns \union {new} ELSE KeptConns
      /\ pending_udp_sessions' = KeptUdp
      /\ ticket_expiration_queue' =
           IF Full THEN KeptQueue
           ELSE Append(KeptQueue, NewExpiry(t, FALSE))
      /\ endpoint_to_ticket' = [q \in Proxies |-> MapAfterCleanup(q)]
      /\ visitor' =
           [w \in Visitors |->
              IF w = v
              THEN [visitor[v] EXCEPT
                      !.state = IF stays THEN "pending" ELSE "closed"]
              ELSE IF w \in Closing(pending_user_conns \ KeptConns)
                   THEN [visitor[w] EXCEPT !.state = "closed"]
              ELSE visitor[w]]

\* ControlSession::SendMessage: lost once the session is closing.  (Two messages
\* with one ticket to one client are one here: either of them finds whoever
\* waits under the ticket.)
SendNewUserConn(p, t) ==
  announced' = IF session[p] = "up" THEN announced \union {<<p, t>>}
               ELSE announced

-----------------------------------------------------------------------------
(* The listeners.                                                            *)

\* A visitor connects; its accept handler is queued.
connect(v, p) ==
  /\ visitor[v].state = "new"
  /\ listening[p]
  /\ Kind[p] # "udp"
  /\ visitor' = [visitor EXCEPT ![v] =
                   Visitor("accepted", p, generation[p])]
  /\ UNCHANGED <<tables, listeners, active_conns, endpoint_to_ticket, mail,
                 counts>>

\* The handler of ProxyListener::DoAccept.  Whatever becomes of the visitor,
\* active_conns_ counts it and the client is told.
accept(v) ==
  /\ visitor[v].state = "accepted"
  /\ LET p == visitor[v].proxy
     IN  /\ Kind[p] = "tcp"
         /\ active_conns' = IF visitor[v].generation = generation[p]
                            THEN [active_conns EXCEPT ![p] = @ + 1]
                            ELSE active_conns
         /\ RegisterUserConn(v, p)
         /\ SendNewUserConn(p, Ticket(v, p))
  /\ UNCHANGED <<listeners, offered, counts>>

\* The handler of DoVhostAccept once the visitor's first bytes named a domain.
vhost_accept(v) ==
  /\ visitor[v].state = "accepted"
  /\ LET p == visitor[v].proxy
     IN  /\ Kind[p] = "http"
         /\ \/ /\ listening[p]
               /\ RegisterUserConn(v, p)
               /\ SendNewUserConn(p, Ticket(v, p))
            \/ /\ ~listening[p]                     \* no route: dropped
               /\ visitor' = [visitor EXCEPT ![v].state = "closed"]
               /\ UNCHANGED <<tables, endpoint_to_ticket, announced>>
  /\ UNCHANGED <<listeners, active_conns, offered, counts>>

\* The handler of UdpProxyListener::DoReceive for an endpoint without ticket.
\* The endpoint is mapped before RegisterUdpSession can turn it away.  (For an
\* endpoint with a ticket the handler only counts the bytes.)
receive(p, e) ==
  /\ Kind[p] = "udp"
  /\ listening[p]
  /\ sessions_started < MaxDatagrams
  /\ ~\E pair \in endpoint_to_ticket[p] : pair[1] = e
  /\ LET t   == UdpTicket(sessions_started)
         new == [ticket |-> t, endpoint |-> e, proxy |-> p,
                 listener |-> generation[p], created_at |-> now]
     IN  /\ sessions_started' = sessions_started + 1
         /\ pending_user_conns' = KeptConns
         /\ pending_udp_sessions' = IF Full THEN KeptUdp ELSE KeptUdp \union {new}
         /\ ticket_expiration_queue' =
              IF Full THEN KeptQueue ELSE Append(KeptQueue, NewExpiry(t, TRUE))
         /\ endpoint_to_ticket' =
              [q \in Proxies |->
                 MapAfterCleanup(q) \union (IF q = p THEN {<<e, t>>} ELSE {})]
         /\ visitor' =
              [w \in Visitors |->
                 IF w \in Closing(pending_user_conns \ KeptConns)
                 THEN [visitor[w] EXCEPT !.state = "closed"] ELSE visitor[w]]
         /\ SendNewUserConn(p, t)
  /\ UNCHANGED <<listeners, active_conns, offered, now, restarts>>

-----------------------------------------------------------------------------
(* The client and the claim.                                                 *)

\* Client::HandleNewUserConn reached the local service and opened the stream.
client_offers(m) ==
  /\ m \in announced
  /\ session[m[1]] = "up"
  /\ announced' = announced \ {m}
  /\ offered' = offered \union {m}
  /\ UNCHANGED <<tables, listeners, active_conns, endpoint_to_ticket, visitor,
                 counts>>

\* It could not, or the message or the stream was lost with the session.
offer_lost(m) ==
  /\ \/ m \in announced
     \/ m \in offered /\ session[m[1]] # "up"
  /\ announced' = announced \ {m}
  /\ offered' = offered \ {m}
  /\ UNCHANGED <<tables, listeners, active_conns, endpoint_to_ticket, visitor,
                 counts>>

\* ControlSession::FindProxy in the session of the work stream: the listener
\* the proxy has now, not the one that accepted the visitor.
FindProxy(by, p) ==
  IF by = p /\ Kind[p] = "tcp" /\ session[p] = "up" /\ listening[p]
  THEN generation[p] ELSE -1

claim_NotErased(m) ==
  /\ m \in offered
  /\ offered' = offered \ {m}
  /\ \E c \in pending_user_conns :
       /\ c.ticket = m[2]
       /\ visitor' = [visitor EXCEPT ![c.visitor].state = "served",
                                     ![c.visitor].by = m[1],
                                     ![c.visitor].counter =
                                        FindProxy(m[1], c.proxy)]
  /\ UNCHANGED <<tables, listeners, active_conns, endpoint_to_ticket, announced,
                 counts>>

\* Server::HandleNewMuxStream has read the ticket of work stream m.  The
\* connection is handed over, or the stream closed.
claim(m) ==
  /\ m \in offered
  /\ offered' = offered \ {m}
  /\ \/ \E c \in pending_user_conns :
          /\ c.ticket = m[2]
          /\ pending_user_conns' = pending_user_conns \ {c}
          /\ visitor' = [visitor EXCEPT ![c.visitor].state = "served",
                                        ![c.visitor].by = m[1],
                                        ![c.visitor].counter =
                                           FindProxy(m[1], c.proxy)]
          /\ UNCHANGED <<pending_udp_sessions, endpoint_to_ticket>>
     \/ \E c \in pending_udp_sessions :
          /\ c.ticket = m[2]
          /\ pending_udp_sessions' = pending_udp_sessions \ {c}
          /\ endpoint_to_ticket' =
               [endpoint_to_ticket EXCEPT ![c.proxy] =
                  {pair \in @ : \/ pair[1] # c.endpoint
                                \/ c.listener # generation[c.proxy]}]
          /\ UNCHANGED <<pending_user_conns, visitor>>
     \/ /\ \A c \in pending_user_conns \union pending_udp_sessions :
             c.ticket # m[2]
        /\ UNCHANGED <<pending_user_conns, pending_udp_sessions, visitor,
                       endpoint_to_ticket>>
  /\ UNCHANGED <<ticket_expiration_queue, listeners, active_conns, announced,
                 counts>>

bridge_stops_Twice(v) ==
  /\ visitor[v].state = "served"
  /\ LET p == visitor[v].proxy
     IN  /\ visitor[v].counter = generation[p]
         /\ active_conns[p] > 0
         /\ active_conns' = [active_conns EXCEPT ![p] = @ - 1]
  /\ UNCHANGED <<tables, listeners, endpoint_to_ticket, mail, visitor, counts>>

\* Bridge::HandleStop: on_stop_ calls dec_active_conns of the listener found
\* at the claim, if it is still there.
bridge_stops(v) ==
  /\ visitor[v].state = "served"
  /\ visitor' = [visitor EXCEPT ![v].state = "closed"]
  /\ LET p == visitor[v].proxy
     IN  active_conns' =
           IF visitor[v].counter = generation[p] /\ active_conns[p] > 0
           THEN [active_conns EXCEPT ![p] = @ - 1] ELSE active_conns
  /\ UNCHANGED <<tables, listeners, endpoint_to_ticket, mail, counts>>

-----------------------------------------------------------------------------
(* The end of a listener, and of its client's session.                       *)

ClearedConns(p) == {c \in pending_user_conns : c.proxy = p}

\* ControlSession::Stop up to ClearPendingForProxy, which it calls for TCP and
\* UDP proxies only.
control_stop(p) ==
  /\ session[p] = "up"
  /\ session' = [session EXCEPT ![p] = "closing"]
  /\ \/ /\ Kind[p] # "http"
        /\ pending_user_conns' = pending_user_conns \ ClearedConns(p)
        /\ pending_udp_sessions' = {c \in pending_udp_sessions : c.proxy # p}
        /\ visitor' = [w \in Visitors |->
                         IF w \in Closing(ClearedConns(p))
                         THEN [visitor[w] EXCEPT !.state = "closed"]
                         ELSE visitor[w]]
     \/ /\ Kind[p] = "http"
        /\ UNCHANGED <<pending_user_conns, pending_udp_sessions, visitor>>
  /\ UNCHANGED <<ticket_expiration_queue, listening, generation, active_conns,
                 endpoint_to_ticket, mail, counts>>

\* The listener is closed, or the route removed.  Accept handlers that are
\* already queued will still run.
listener_stop(p) ==
  /\ session[p] = "closing"
  /\ session' = [session EXCEPT ![p] = "down"]
  /\ listening' = [listening EXCEPT ![p] = FALSE]
  /\ UNCHANGED <<tables, generation, active_conns, endpoint_to_ticket, mail,
                 visitor, counts>>

\* UnregisterProxy: the listener goes, its pending visitors stay.
unregister(p) ==
  /\ session[p] = "up"
  /\ listening[p]
  /\ Kind[p] # "http"
  /\ listening' = [listening EXCEPT ![p] = FALSE]
  /\ UNCHANGED <<tables, session, generation, active_conns, endpoint_to_ticket,
                 mail, visitor, counts>>

\* The client registers the proxy again, or is back with a new session: a new
\* listener.  Nothing of the old session is on its way any more.
register(p) ==
  /\ restarts < MaxRestarts
  /\ ~listening[p]
  /\ \/ session[p] = "up"
     \/ session[p] = "down" /\ \A m \in announced \union offered : m[1] # p
  /\ restarts' = restarts + 1
  /\ session' = [session EXCEPT ![p] = "up"]
  /\ listening' = [listening EXCEPT ![p] = TRUE]
  /\ generation' = [generation EXCEPT ![p] = @ + 1]
  /\ active_conns' = [active_conns EXCEPT ![p] = 0]
  /\ endpoint_to_ticket' = [endpoint_to_ticket EXCEPT ![p] = {}]
  /\ UNCHANGED <<tables, mail, visitor, now, sessions_started>>

Tick ==
  /\ now < MaxTime
  /\ now' = now + 1
  /\ UNCHANGED <<tables, listeners, active_conns, endpoint_to_ticket, mail,
                 visitor, sessions_started, restarts>>

Next ==
  \/ \E v \in Visitors, p \in Proxies : connect(v, p)
  \/ \E v \in Visitors : accept(v) \/ vhost_accept(v) \/ bridge_stops(v)
  \/ \E p \in Proxies, e \in Endpoints : receive(p, e)
  \/ \E m \in announced : client_offers(m)
  \/ \E m \in announced \union offered : offer_lost(m)
  \/ \E m \in offered : claim(m)
  \/ \E p \in Proxies :
       control_stop(p) \/ listener_stop(p) \/ unregister(p) \/ register(p)
  \/ Tick

Spec == Init /\ [][Next]_vars

-----------------------------------------------------------------------------
(* Properties.                                                               *)

Tickets == {TcpTicket(v) : v \in Visitors}
             \union {VhostTicket(v) : v \in Visitors}
             \union {UdpTicket(n) : n \in 0..MaxDatagrams}

\* The type invariant of the tables, the listeners and the messages.
TypeOK ==
  /\ pending_user_conns \subseteq
       [ticket : Tickets, visitor : Visitors, proxy : Proxies, created_at : Nat]
  /\ pending_udp_sessions \subseteq
       [ticket : Tickets, endpoint : Endpoints, proxy : Proxies,
        listener : Nat, created_at : Nat]
  /\ ticket_expiration_queue \in
       Seq([ticket : Tickets, is_udp : BOOLEAN, expires_at : Nat])
  /\ listening \in [Proxies -> BOOLEAN]
  /\ session \in [Proxies -> {"up", "closing", "down"}]
  /\ generation \in [Proxies -> Nat]
  /\ active_conns \in [Proxies -> Nat]
  /\ endpoint_to_ticket \in [Proxies -> SUBSET (Endpoints \X Tickets)]
  /\ announced \subseteq Proxies \X Tickets
  /\ offered \subseteq Proxies \X Tickets
  /\ visitor \in
       [Visitors -> [state : {"new", "accepted", "pending", "served", "closed"},
                     proxy : Proxies \union {NoProxy}, generation : Nat,
                     by : Proxies \union {NoProxy}, counter : Nat \union {-1}]]
  /\ now \in Nat
  /\ sessions_started \in Nat
  /\ restarts \in Nat

\* TCP and UDP visitors together never exceed the limit, whatever mix of
\* registrations, claims, expiries and clears came before.
PendingWithinLimit ==
  Cardinality(pending_user_conns) + Cardinality(pending_udp_sessions)
    <= MaxPending

\* Every waiting connection can be found by DoLazyCleanup: it has an entry in
\* the expiration queue that expires Lifetime after the connection came, and
\* the queue is chronological, as the early exit of the cleanup loop assumes,
\* although claims and clears leave their entries behind.
QueueCoversPending ==
  /\ \A c \in pending_user_conns \union pending_udp_sessions :
       \E i \in 1..Len(ticket_expiration_queue) :
         /\ ticket_expiration_queue[i].ticket = c.ticket
         /\ ticket_expiration_queue[i].is_udp = (c \in pending_udp_sessions)
         /\ ticket_expiration_queue[i].expires_at = c.created_at + Lifetime
  /\ \A i \in 1..(Len(ticket_expiration_queue) - 1) :
       ticket_expiration_queue[i].expires_at
         <= ticket_expiration_queue[i + 1].expires_at

\* A waiting visitor is in the table once, under its own ticket, and the table
\* holds nobody who is served or closed: no connection is bridged twice and no
\* socket is forgotten.
WaitingIsPending ==
  /\ \A v \in Visitors :
       visitor[v].state = "pending" <=> v \in Closing(pending_user_conns)
  /\ \A c, d \in pending_user_conns :
       c.ticket = d.ticket \/ c.visitor = d.visitor => c = d

\* Another visitor, of the TCP proxy by, drew the same clock reading as v.
DrewSameReading(v, by) ==
  \E w \in Visitors \ {v} : /\ Clock[w] = Clock[v]
                           /\ visitor[w].proxy = by
                           /\ Kind[by] # "http"

\* A visitor is bridged to the service of the proxy it connected to, whatever
\* claims, expiries, clears and re-registrations come between.  The one way to
\* another service is open to TCP visitors only, whose ticket is a bare clock
\* reading: one that drew the reading of a visitor of another TCP proxy can be
\* served there.  A vhost visitor never is.
ServedByOwnProxy ==
  \A v \in Visitors :
    visitor[v].state = "served" =>
      \/ visitor[v].by = visitor[v].proxy
      \/ Kind[visitor[v].proxy] # "http" /\ DrewSameReading(v, visitor[v].by)

\* The connections of a listener that are waiting or served.
LiveConns(p) ==
  {v \in Visitors : /\ visitor[v].proxy = p
                    /\ visitor[v].generation = generation[p]
                    /\ visitor[v].state \in {"pending", "served"}}

\* The visitors of an earlier listener that were claimed when the present one
\* was there and have been counted down at it, although never counted up there.
CountedElsewhere(p) ==
  {v \in Visitors : /\ visitor[v].proxy = p
                    /\ visitor[v].counter = generation[p]
                    /\ visitor[v].generation # generation[p]
                    /\ visitor[v].state = "closed"}

\* active_conns_ falls short of the live connections of its listener by no more
\* than the visitors of earlier listeners that were counted down at it: none of
\* its own is counted down twice, and with no re-registration it is never too
\* low.  (It can be too high: a visitor that is turned away or expires is not
\* counted down.)
ActiveNotUnder ==
  \A p \in Proxies :
    Kind[p] = "tcp" =>
      active_conns[p] + Cardinality(CountedElsewhere(p))
        >= Cardinality(LiveConns(p))

\* A registration leaves nobody behind whose ticket is older than Lifetime.
NobodyExpired ==
  \A c \in pending_user_conns \union pending_udp_sessions :
    now < c.created_at + Lifetime

Registers ==
  \/ \E v \in Visitors : accept(v) \/ (vhost_accept(v) /\ listening[visitor[v].proxy])
  \/ \E p \in Proxies, e \in Endpoints : receive(p, e)

CleanupIsComplete == [][Registers => NobodyExpired']_vars
=============================================================================
