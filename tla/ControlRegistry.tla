-------------------------- MODULE ControlRegistry ---------------------------
(***************************************************************************)
(* The server's control sessions and what they share (server.cpp), and the *)
(* clients that feed them (client.cpp): login and client names, registered *)
(* proxies with their ports, routes and rate limiters, and the proxies a   *)
(* client loads from its conf directory while connections come and go.     *)
(*                                                                         *)
(* The handlers of one session run on its strand, one after the other, and *)
(* beside those of the other sessions.  A handler is one step but for Stop, *)
(* which releases the name in one and the proxies and routes in a second.  *)
(* A name is a sequence: "a" is <<"a">> and "a_1" is <<"a", 1>>.           *)
(***************************************************************************)
EXTENDS Integers, Sequences, FiniteSets, SequencesExt

CONSTANTS
  Clients,
  ConfiguredNames, \* names that may stand in a client's configuration
  Static,          \* the proxies in it, a sequence for each client
  ConfFiles,       \* what may stand in a file of its conf directory
  AllowedClients,  \* the names allowed to log in
  AllowedPorts,
  MaxSessions,     \* bound: connections made
  MaxEdits         \* bound: changes of the directory that a poll finds

Proxies == UNION {Range(Static[c]) \union ConfFiles[c] : c \in Clients}

ASSUME RegistryAssumption ==
  /\ MaxSessions \in Nat
  /\ MaxEdits \in Nat
  /\ \A n \in ConfiguredNames : n \in Seq(STRING)
  /\ \A c \in Clients : Static[c] \in Seq(Proxies) /\ IsFiniteSet(ConfFiles[c])
  /\ Proxies \subseteq [name : STRING, type : {"tcp", "udp", "http"},
                        at : Nat, limit : BOOLEAN]

Sessions == 1..MaxSessions
Limited  == {p \in Proxies : p.limit}
Domains  == {p.at : p \in {q \in Proxies : q.type = "http"}}

\* What may stand in the conf directory: one file for a name.
Directories(c) ==
  {f \in SUBSET ConfFiles[c] : \A p, q \in f : p.name = q.name => p = q}

VARIABLES
  \* --- Server
  sessions,             \* sessions_ and active_client_names_: name -> session
  mux_to_control,       \* the sessions entered there
  vhost_routes,         \* session a domain leads to, or 0
  proxy_rate_limiters,  \* names of proxies that have one
  \* --- ControlSession
  authenticated, client_name,
  proxies,              \* proxies_ and udp_proxies_
  registered_domains,
  reading, writing,     \* a read, a write of the control stream is pending
  closed,               \* Stop has closed the stream
  strand,               \* handlers to run
  stopping,             \* Stop is half way: "no", "yes", or "reads" after it
  auth_timer,           \* it is armed, and the login has not been handled
  \* --- the connections
  transport,            \* "none", "handshaking", "up" or "lost"
  wire,                 \* messages on their way to the session
  answer,               \* the name in a LoginResp on its way, or <<>>
  \* --- Client
  control_stream,       \* session the client is connected to, or 0
  login_due,            \* OnConnect has still to send the login
  name, dynamic_proxies,
  polling,              \* conf_timer_ is running
  \* --- history and bounds
  made, edits,
  robbed,   \* sessions whose name another one released
  failed,   \* registrations refused, by session
  answered, \* the client has had this session's answer to its login
  held      \* files it has kept, as they were, since before it connected

tables  == <<sessions, mux_to_control, vhost_routes, proxy_rate_limiters>>
fields  == <<authenticated, client_name, proxies, registered_domains, closed>>
pending == <<reading, writing, strand, stopping, auth_timer>>
links   == <<transport, wire, answer>>
client  == <<control_stream, login_due, name, dynamic_proxies, polling,
             answered, held>>
past    == <<made, edits, robbed, failed>>
vars    == <<tables, fields, pending, links, client, past>>

NoProxy == [name |-> "", type |-> "tcp", at |-> 0, limit |-> FALSE]

Message(type, who, proxy) == [type |-> type, name |-> who, proxy |-> proxy]

Handler(run, msg) == [run |-> run, msg |-> msg]

stop_posted == Handler("stop", Message("none", <<>>, NoProxy))

Init ==
  /\ sessions = <<>>
  /\ mux_to_control = {}
  /\ vhost_routes = [d \in Domains |-> 0]
  /\ proxy_rate_limiters = {}
  /\ authenticated = [s \in Sessions |-> FALSE]
  /\ client_name = [s \in Sessions |-> <<>>]
  /\ proxies = [s \in Sessions |-> <<>>]
  /\ registered_domains = [s \in Sessions |-> {}]
  /\ reading = [s \in Sessions |-> FALSE]
  /\ writing = [s \in Sessions |-> FALSE]
  /\ closed = [s \in Sessions |-> FALSE]
  /\ strand = [s \in Sessions |-> <<>>]
  /\ stopping = [s \in Sessions |-> "no"]
  /\ auth_timer = [s \in Sessions |-> FALSE]
  /\ transport = [s \in Sessions |-> "none"]
  /\ wire = [s \in Sessions |-> <<>>]
  /\ answer = [s \in Sessions |-> <<>>]
  /\ control_stream = [c \in Clients |-> 0]
  /\ login_due = [c \in Clients |-> FALSE]
  /\ name \in [Clients -> ConfiguredNames]
  /\ dynamic_proxies = [c \in Clients |-> {}]
  /\ polling = [c \in Clients |-> FALSE]
  /\ made = 0
  /\ edits = 0
  /\ robbed = {}
  /\ failed = [s \in Sessions |-> {}]
  /\ answered = [c \in Clients |-> FALSE]
  /\ held = [c \in Clients |-> {}]

-----------------------------------------------------------------------------
(* Client: connection, login, conf directory.                                *)

\* Two entries for the same name are the same to the comparison in
\* PollConfDirectory, which does not look at the limit.
Same(p, q) == p.name = q.name /\ p.type = q.type /\ p.at = q.at

Names(set) == {p.name : p \in set}

Entry(set, n) == CHOOSE p \in set : p.name = n

Registers(list) == [i \in 1..Len(list) |-> Message("register", <<>>, list[i])]

Changes_NoUnregister(c, files, n) ==
  IF n \notin Names(files) THEN <<>>
  ELSE Registers(<<Entry(files, n)>>)

\* What the difference of the directory and dynamic_proxies_ is for name n.
Changes(c, files, n) ==
  LET gone  == <<Message("unregister", <<>>, [NoProxy EXCEPT !.name = n])>>
      added == Registers(<<Entry(files, n)>>)
  IN  IF n \notin Names(files) THEN gone
      ELSE IF n \notin Names(dynamic_proxies[c]) THEN added
      ELSE IF Same(Entry(files, n), Entry(dynamic_proxies[c], n)) THEN <<>>
      ELSE gone \o added

Diff(c, files) ==
  LET removed == SetToSeq(Names(dynamic_proxies[c]) \ Names(files))
      there   == SetToSeq(Names(files))
  IN  FlattenSeq([i \in 1..(Len(removed) + Len(there)) |->
                    Changes(c, files, (removed \o there)[i])])

\* What the poll finds in the directory: a change counts against the bound.
Found(c, found) ==
  /\ \/ found = dynamic_proxies[c] /\ UNCHANGED edits
     \/ /\ found # dynamic_proxies[c]
        /\ edits < MaxEdits
        /\ edits' = edits + 1
  /\ dynamic_proxies' = [dynamic_proxies EXCEPT ![c] = found]
  /\ held' = [held EXCEPT ![c] = {q \in found : \E p \in held[c] : Same(p, q)}]

\* SendMessage: dropped when there is no control stream, or lost with it.
SendMessages(c, messages) ==
  wire' = IF control_stream[c] = 0 \/ transport[control_stream[c]] = "lost"
          THEN wire
          ELSE [wire EXCEPT ![control_stream[c]] = @ \o messages]

\* DoAccept: the server accepts a connection and starts the handshake timer.
\* (A client that is disconnected tries one connection at a time.)
accept ==
  /\ \E c \in Clients : control_stream[c] = 0
  /\ \A s \in Sessions : transport[s] # "handshaking"
  /\ made < MaxSessions
  /\ made' = made + 1
  /\ transport' = [transport EXCEPT ![made + 1] = "handshaking"]
  /\ UNCHANGED <<tables, fields, pending, wire, answer, client, edits, robbed,
                 failed>>

\* Both mux sessions run and the server has accepted stream 1: OnConnect,
\* HandleNewMuxStream, ControlSession::Start.
start_control(c, s) ==
  /\ transport[s] = "handshaking"
  /\ control_stream[c] = 0
  /\ transport' = [transport EXCEPT ![s] = "up"]
  /\ mux_to_control' = mux_to_control \union {s}
  /\ reading' = [reading EXCEPT ![s] = TRUE]
  /\ auth_timer' = [auth_timer EXCEPT ![s] = TRUE]
  /\ control_stream' = [control_stream EXCEPT ![c] = s]
  /\ login_due' = [login_due EXCEPT ![c] = TRUE]
  /\ answered' = [answered EXCEPT ![c] = FALSE]
  /\ held' = [held EXCEPT ![c] = dynamic_proxies[c]]
  /\ UNCHANGED <<sessions, vhost_routes, proxy_rate_limiters, fields, writing,
                 strand, stopping, wire, answer, name, dynamic_proxies,
                 polling, past>>

\* With QUIC OnConnect is not on the strand: a poll may send before it.
DoLogin(c) ==
  /\ login_due[c]
  /\ login_due' = [login_due EXCEPT ![c] = FALSE]
  /\ SendMessages(c, <<Message("login", name[c], NoProxy)>>)
  /\ UNCHANGED <<tables, fields, pending, transport, answer, control_stream,
                 name, dynamic_proxies, polling, answered, held, past>>

\* LoginResp: the client takes the name, registers its proxies and polls.
handle_login_resp(c) ==
  LET s == control_stream[c] IN
  /\ s # 0
  /\ answer[s] # <<>>
  /\ answer' = [answer EXCEPT ![s] = <<>>]
  /\ name' = [name EXCEPT ![c] = answer[s]]
  /\ \E found \in Directories(c) :
       /\ Found(c, found)
       /\ SendMessages(c, Registers(Static[c]) \o Diff(c, found))
  /\ polling' = [polling EXCEPT ![c] = TRUE]
  /\ answered' = [answered EXCEPT ![c] = TRUE]
  /\ UNCHANGED <<tables, fields, pending, transport, control_stream, login_due,
                 made, robbed, failed>>

\* The timer of PollConfDirectory goes on without a connection.
PollConfDirectory(c) ==
  /\ polling[c]
  /\ \E found \in Directories(c) \ {dynamic_proxies[c]} :
       Found(c, found) /\ SendMessages(c, Diff(c, found))
  /\ UNCHANGED <<tables, fields, pending, transport, answer, control_stream,
                 login_due, name, polling, answered, made, robbed, failed>>

\* The client's side of a connection that is gone: HandleDisconnect.
disconnected(c) ==
  /\ control_stream[c] # 0
  /\ transport[control_stream[c]] = "lost"
  /\ control_stream' = [control_stream EXCEPT ![c] = 0]
  /\ login_due' = [login_due EXCEPT ![c] = FALSE]
  /\ answer' = [answer EXCEPT ![control_stream[c]] = <<>>]
  /\ answered' = [answered EXCEPT ![c] = FALSE]
  /\ held' = [held EXCEPT ![c] = {}]
  /\ UNCHANGED <<tables, fields, pending, transport, wire, name, dynamic_proxies,
                 polling, past>>

-----------------------------------------------------------------------------
(* Server: a connection that is not yet, or no longer, a control session.    *)

\* A failed handshake, or the handshake timer.
handshake_ends(s) ==
  /\ transport[s] = "handshaking"
  /\ transport' = [transport EXCEPT ![s] = "lost"]
  /\ UNCHANGED <<tables, fields, pending, wire, answer, client, past>>

transport_lost(s) ==
  /\ transport[s] = "up"
  /\ transport' = [transport EXCEPT ![s] = "lost"]
  /\ UNCHANGED <<tables, fields, pending, wire, answer, client, past>>

-----------------------------------------------------------------------------
(* ControlSession: what is queued on the strand.                             *)

Post(s, handler) == strand' = [strand EXCEPT ![s] = Append(@, handler)]

\* A message has been read; its handler cannot be stopped any more.
message_read(s) ==
  /\ reading[s] /\ ~closed[s]
  /\ wire[s] # <<>>
  /\ Post(s, Handler("message", Head(wire[s])))
  /\ wire' = [wire EXCEPT ![s] = Tail(@)]
  /\ reading' = [reading EXCEPT ![s] = FALSE]
  /\ UNCHANGED <<tables, fields, writing, stopping, auth_timer, transport, answer,
                 client, past>>

\* The read fails on a stream that is closed or has lost its connection.
read_fails(s) ==
  /\ reading[s]
  /\ closed[s] \/ transport[s] = "lost"
  /\ Post(s, stop_posted)
  /\ reading' = [reading EXCEPT ![s] = FALSE]
  /\ UNCHANGED <<tables, fields, writing, stopping, auth_timer, links, client, past>>

\* A write fails: of an answer, or of a NewUserConn at any time after it.
write_fails(s) ==
  /\ writing[s]
  /\ closed[s] \/ transport[s] = "lost"
  /\ writing' = [writing EXCEPT ![s] = FALSE]
  /\ Post(s, stop_posted)
  /\ UNCHANGED <<tables, fields, reading, stopping, auth_timer, links, client,
                 past>>

\* Nothing of the session is left to run: it is destroyed.
Ended(s) == closed[s] /\ ~reading[s] /\ strand[s] = <<>> /\ stopping[s] = "no"

auth_timer_fires_Ignored(s) ==
  /\ auth_timer[s]
  /\ auth_timer' = [auth_timer EXCEPT ![s] = FALSE]
  /\ UNCHANGED <<tables, fields, reading, writing, strand, stopping, links, client,
                 past>>

\* The authentication timer finds authenticated_ unset, on another thread: the
\* login may be handled before the Stop it posts.
auth_timer_fires(s) ==
  /\ auth_timer[s]
  /\ auth_timer' = [auth_timer EXCEPT ![s] = FALSE]
  /\ \/ Ended(s) /\ UNCHANGED strand
     \/ ~Ended(s) /\ Post(s, stop_posted)
  /\ UNCHANGED <<tables, fields, reading, writing, stopping, links, client, past>>

-----------------------------------------------------------------------------
(* ControlSession: the handlers.                                             *)

Starts(s, run) ==
  /\ stopping[s] = "no"
  /\ strand[s] # <<>>
  /\ Head(strand[s]).run = run

Handles(s, type) == Starts(s, "message") /\ Head(strand[s]).msg.type = type

Ends(s) == strand' = [strand EXCEPT ![s] = Tail(@)]

\* The name is erased whoever holds it.
ReleaseClientName(s) ==
  sessions' = [n \in DOMAIN sessions \ {client_name[s]} |-> sessions[n]]

\* The first half of Stop: the name, and the mux session.  Stop has no guard: a
\* stopped session is stopped again.
Stop(s, after) ==
  /\ \/ authenticated[s] /\ ReleaseClientName(s)
     \/ ~authenticated[s] /\ UNCHANGED sessions
  /\ robbed' = robbed \union
       {t \in Sessions \ {s} : /\ authenticated[s]
                               /\ client_name[s] \in DOMAIN sessions
                               /\ sessions[client_name[s]] = t}
  /\ transport' = [transport EXCEPT ![s] = "lost"]
  /\ mux_to_control' = mux_to_control \ {s}
  /\ stopping' = [stopping EXCEPT ![s] = after]

stop_Once(s) ==
  /\ Starts(s, "stop")
  /\ Ends(s)
  /\ IF closed[s] THEN UNCHANGED <<sessions, mux_to_control, transport, stopping,
                                  robbed>>
     ELSE Stop(s, "yes")
  /\ UNCHANGED <<vhost_routes, proxy_rate_limiters, fields, reading, writing,
                 auth_timer, wire, answer, client, made, edits, failed>>

\* The handler of a failed read or write, or of a posted Stop.
stop(s) ==
  /\ Starts(s, "stop")
  /\ Ends(s)
  /\ Stop(s, "yes")
  /\ UNCHANGED <<vhost_routes, proxy_rate_limiters, fields, reading, writing,
                 auth_timer, wire, answer, client, made, edits, failed>>

\* IsClientAllowed; a wrong token is turned away in the same way.
Allowed(s) == Head(strand[s]).msg.name \in AllowedClients

\* A login that is turned away, or another message before the login: Stop, and
\* DoReadHeader reads on.
turn_away(s) ==
  /\ \/ Handles(s, "login") /\ ~Allowed(s)
     \/ ~authenticated[s] /\ (Handles(s, "register") \/ Handles(s, "unregister"))
  /\ Ends(s)
  /\ writing' = [writing EXCEPT ![s] = @ \/ Handles(s, "login")]
  /\ Stop(s, "reads")
  /\ UNCHANGED <<vhost_routes, proxy_rate_limiters, fields, reading, auth_timer,
                 wire, answer, client, made, edits, failed>>

\* The second half of Stop.  A limiter and a route are removed by their name,
\* whoever has them.
stop_proxies(s) ==
  /\ stopping[s] # "no"
  /\ proxy_rate_limiters' =
       proxy_rate_limiters \ {p.name : p \in Range(proxies[s])}
  /\ proxies' = [proxies EXCEPT ![s] = <<>>]
  /\ vhost_routes' = [d \in Domains |-> IF d \in registered_domains[s] THEN 0
                                        ELSE vhost_routes[d]]
  /\ registered_domains' = [registered_domains EXCEPT ![s] = {}]
  /\ closed' = [closed EXCEPT ![s] = TRUE]
  /\ reading' = [reading EXCEPT ![s] = @ \/ stopping[s] = "reads"]
  /\ stopping' = [stopping EXCEPT ![s] = "no"]
  /\ wire' = [wire EXCEPT ![s] = <<>>]
  /\ failed' = [failed EXCEPT ![s] = {}]
  /\ UNCHANGED <<sessions, mux_to_control, authenticated, client_name, writing,
                 strand, auth_timer, transport, answer, client, made, edits,
                 robbed>>

AllocateClientName_AsRequested(requested) == requested

\* The first of n, n_1, n_2, ... that is not active.
FirstFree(n) ==
  IF n \notin DOMAIN sessions THEN n
  ELSE Append(n, CHOOSE k \in 1..(MaxSessions + 1) :
                   /\ Append(n, k) \notin DOMAIN sessions
                   /\ \A j \in 1..(k - 1) : Append(n, j) \in DOMAIN sessions)

\* A client without a name in its configuration is called "client".
AllocateClientName(requested) ==
  FirstFree(IF requested = <<>> THEN <<"client">> ELSE requested)

HandleLogin(s) ==
  /\ Handles(s, "login")
  /\ Allowed(s)
  /\ Ends(s)
  /\ LET n == AllocateClientName(Head(strand[s]).msg.name) IN
     /\ sessions' = [m \in DOMAIN sessions \union {n} |->
                       IF m = n THEN s ELSE sessions[m]]
     /\ client_name' = [client_name EXCEPT ![s] = n]
     /\ answer' = [answer EXCEPT ![s] = n]
  /\ authenticated' = [authenticated EXCEPT ![s] = TRUE]
  /\ auth_timer' = [auth_timer EXCEPT ![s] = FALSE]   \* of no effect from here
  /\ writing' = [writing EXCEPT ![s] = TRUE]
  /\ reading' = [reading EXCEPT ![s] = TRUE]
  /\ UNCHANGED <<mux_to_control, vhost_routes, proxy_rate_limiters, proxies,
                 registered_domains, closed, stopping, transport, wire, client,
                 past>>

\* A port that is not allowed, or has a listener of the same kind.
Unavailable(p) ==
  \/ p.at \notin AllowedPorts
  \/ \E s \in Sessions : \E i \in 1..Len(proxies[s]) :
       proxies[s][i].type = p.type /\ proxies[s][i].at = p.at

\* RegisterProxy: the limiter comes first, whatever becomes of the proxy.
register(s) ==
  /\ Handles(s, "register")
  /\ authenticated[s]
  /\ Ends(s)
  /\ LET p == Head(strand[s]).msg.proxy IN
     /\ proxy_rate_limiters' =
          proxy_rate_limiters \union {q.name : q \in {p} \intersect Limited}
     /\ \/ /\ p.type = "http"
           /\ vhost_routes' = [vhost_routes EXCEPT ![p.at] = s]
           /\ registered_domains' = [registered_domains EXCEPT ![s] = @ \union {p.at}]
           /\ UNCHANGED <<proxies, failed>>
        \/ /\ p.type # "http" /\ ~Unavailable(p)
           /\ proxies' = [proxies EXCEPT ![s] = Append(@, p)]
           /\ UNCHANGED <<vhost_routes, registered_domains, failed>>
        \/ /\ p.type # "http" /\ Unavailable(p)
           /\ failed' = [failed EXCEPT ![s] = @ \union {p}]
           /\ UNCHANGED <<vhost_routes, registered_domains, proxies>>
  /\ writing' = [writing EXCEPT ![s] = TRUE]
  /\ reading' = [reading EXCEPT ![s] = TRUE]
  /\ UNCHANGED <<sessions, mux_to_control, authenticated, client_name, closed,
                 stopping, auth_timer, links, client, made, edits, robbed>>

\* UnregisterProxy: the first TCP listener of that name, else the first UDP
\* one, is stopped; its limiter, and the routes of an http proxy, remain.
Unregistered(s, n) ==
  LET at(type) == {i \in 1..Len(proxies[s]) :
                     proxies[s][i].name = n /\ proxies[s][i].type = type}
      found == IF at("tcp") # {} THEN at("tcp") ELSE at("udp")
  IN  IF found = {} THEN proxies[s]
      ELSE RemoveAt(proxies[s], CHOOSE i \in found : \A j \in found : i <= j)

unregister(s) ==
  /\ Handles(s, "unregister")
  /\ authenticated[s]
  /\ Ends(s)
  /\ proxies' = [proxies EXCEPT
                   ![s] = Unregistered(s, Head(strand[s]).msg.proxy.name)]
  /\ reading' = [reading EXCEPT ![s] = TRUE]
  /\ UNCHANGED <<tables, authenticated, client_name, registered_domains, closed,
                 writing, stopping, auth_timer, links, client, past>>

-----------------------------------------------------------------------------

Strand(s) ==
  \/ stop(s) \/ turn_away(s) \/ stop_proxies(s)
  \/ HandleLogin(s) \/ register(s) \/ unregister(s)

Network(s) ==
  \/ handshake_ends(s) \/ transport_lost(s) \/ message_read(s) \/ read_fails(s)
  \/ write_fails(s) \/ auth_timer_fires(s)

Client(c) ==
  \/ \E s \in Sessions : start_control(c, s)
  \/ DoLogin(c) \/ handle_login_resp(c) \/ PollConfDirectory(c)
  \/ disconnected(c)

Next ==
  \/ accept
  \/ \E s \in Sessions : Strand(s) \/ Network(s)
  \/ \E c \in Clients : Client(c)

Spec == Init /\ [][Next]_vars

-----------------------------------------------------------------------------
(* Properties.                                                               *)

\* The type invariant of the tables, the sessions and the clients.
TypeOK ==
  /\ \A n \in DOMAIN sessions : sessions[n] \in Sessions /\ n # <<>>
  /\ mux_to_control \subseteq Sessions
  /\ vhost_routes \in [Domains -> Sessions \union {0}]
  /\ proxy_rate_limiters \subseteq Names(Proxies)
  /\ authenticated \in [Sessions -> BOOLEAN]
  /\ proxies \in [Sessions -> Seq(Proxies)]
  /\ registered_domains \in [Sessions -> SUBSET Domains]
  /\ \A f \in {reading, writing, closed, auth_timer} : f \in [Sessions -> BOOLEAN]
  /\ transport \in [Sessions -> {"none", "handshaking", "up", "lost"}]
  /\ control_stream \in [Clients -> Sessions \union {0}]
  /\ \A c \in Clients :
       dynamic_proxies[c] \in Directories(c)
  /\ made \in 0..MaxSessions

\* A session leaves nothing behind: once its stream is closed and none of its
\* handlers is left, it has no name, no entry for its mux session, no listener
\* and no route, even when a message that was read before the Stop logged in
\* or registered a proxy after it.
EndedHoldsNothing ==
  \A s \in Sessions :
    Ended(s) =>
      /\ \A n \in DOMAIN sessions : sessions[n] # s
      /\ s \notin mux_to_control
      /\ proxies[s] = <<>>
      /\ registered_domains[s] = {}
      /\ \A d \in Domains : vhost_routes[d] # s

\* No step of a Stop is left to session s.
NotStopping(s) ==
  ~closed[s] /\ stopping[s] = "no"

\* Every session that is logged in is listed under its name, so no two have the
\* same one.  The exception is a session whose name was released for it by the
\* second Stop of one that had it before.
NameIsOwn ==
  \A s \in Sessions :
    authenticated[s] /\ NotStopping(s) /\ s \notin robbed =>
      client_name[s] \in DOMAIN sessions /\ sessions[client_name[s]] = s

\* The client has had its answer, and all its messages have been handled.
Settled(c, s) ==
  /\ s = control_stream[c] /\ s # 0
  /\ transport[s] = "up" /\ authenticated[s] /\ answered[c]
  /\ reading[s] /\ wire[s] = <<>> /\ strand[s] = <<>> /\ stopping[s] = "no"

Wanted(c) == Range(Static[c]) \union dynamic_proxies[c]

\* No file of the client's directory has the name of a proxy in its configuration.
NamesApart(c) == \A p \in Range(Static[c]), q \in ConfFiles[c] : p.name # q.name

\* The session has the listener or the domain of proxy p, or has refused it.
Handled(s, p) ==
  \/ \E q \in failed[s] : Same(q, p)
  \/ p.type = "http" /\ p.at \in registered_domains[s]
  \/ p.type # "http" /\ \E i \in 1..Len(proxies[s]) : Same(proxies[s][i], p)

\* Client and server agree on the proxies, on the first connection and on every
\* later one: when nothing is on its way, the session has a listener, or the
\* domain, for each proxy of the client's configuration that it did not refuse
\* and for each file of its directory that came or changed since it connected,
\* and every listener is one of a proxy the client has.  (A file kept over a
\* reconnect and not changed since is not: dynamic_proxies_ still has it, the
\* poll finds no difference, and the new session never hears of it.  And the
\* names are to be apart: UnregisterProxy goes by name.)
ConfApplied ==
  \A c \in Clients, s \in Sessions :
    Settled(c, s) /\ NamesApart(c) =>
      /\ \A p \in Wanted(c) \ held[c] : Handled(s, p)
      /\ \A i \in 1..Len(proxies[s]) :
           \E p \in Wanted(c) : Same(proxies[s][i], p)

\* A client that connects and stalls does not stay: as long as a control
\* session is entered and has not logged in, the authentication timer is still
\* to expire or a Stop is on its way, whatever else has stopped it, ended its
\* reads or was handled before.
LoginIsWatched ==
  \A s \in mux_to_control :
    \/ authenticated[s] \/ auth_timer[s] \/ stopping[s] # "no"
    \/ \E i \in 1..Len(strand[s]) : strand[s][i].run = "stop"
=============================================================================
