# Verification of cfrp

cfrp is a reverse proxy.  A server with a public address and a client behind a
NAT keep one tunnel; for every connection a visitor makes to a public port of
the server, the server asks the client over the tunnel to connect to the local
service, and the two sides copy bytes between the visitor and the service.  This
directory holds TLA+ models of the program's own logic, the TLC configurations
that check them on small instances, and proofs checked by TLAPS.

Paths below are relative to the repository; `mux.cpp` is `src/common/mux.cpp`,
`server.cpp` is `src/server/server.cpp`, `client.cpp` is `src/client/client.cpp`.

## The system

| Part | State | Operations | Talks to |
|---|---|---|---|
| Multiplexed stream (`MuxStream`, `mux.cpp`) | send window, consumed bytes, read queue and offset, pending reads and writes, closed flags | `async_read(_some)`, `async_write`, `close`, `do_write`, `do_read_from_buffer`, `handle_data/window_update/close`, `check_cleanup` | its session, by frames; its user, by handlers |
| Session (`Session`, `mux.cpp`) | `streams_`, `next_stream_id_`, `write_queue_`, `is_writing_`, `stopped_`, last read time, heartbeat timer | `start`, `stop`, `open_stream`, `remove_stream`, `async_send_frame`, `do_read_*`, `do_write`, `handle_frame`, `schedule_heartbeat` | streams, the transport, its owner |
| Visitor hand-off (`ProxyListener`, `UdpProxyListener`, `RegisterUserConn`, `RegisterUdpSession`, `HandleNewMuxStream`, `DoLazyCleanup`) | two tables of pending visitors by ticket, expiration queue, active counts, endpoint maps | accept, register, announce, claim, expire, clear | listeners, control session, client, mux |
| Control session and registry (`ControlSession`, `Server`) | client names, proxies and listeners, vhost routes, rate limiters, mux to control map | login, register and unregister proxy, `Stop`, authentication timeout | client, listeners, hand-off |
| Client (`Client`) | connection id, protocol in use, control stream, reconnect delay and timer | `DoConnect`, `OnConnect`, `HandleDisconnect`, `ScheduleReconnect`, `HandleMessage` | server |
| Configuration reload (`PollConfDirectory`) | files seen, dynamic proxies | poll, register, unregister | client |
| `Bridge`, `UdpBridge` | two streams, buffers, `stopped_` | `DoRead`, `HandleStop` | streams, rate limiter |
| `RateLimiter` | tokens, waiting handlers, timer | `async_wait`, `set_rate`, timer | bridges |
| `BufferPool` | free buffers and counts per size | `Get`, `Return` | everything that reads |
| `WebsocketStream` | frame reader, write queue | read, write, pong | transport |
| `QuicSession`, `QuicStream` | streams, unacknowledged data, timer, closing state | packets, streams, close | UDP socket |
| Management server, message encoding, zstd, TLS, utilities, `main`, scripts | - | requests and pure functions | - |

A control session and the work streams of a client share one `Session`.  A
visitor's bytes pass listener, bridge, `MuxStream`, `Session`, transport,
`Session`, `MuxStream`, bridge and local socket.  The server runs its handlers on
several threads; `MuxStream`, `Session`, `ControlSession` and `Client` have a
strand each, the tables of `Server` have mutexes, and everything else
interleaves.

What is hard here, and what has to hold:

* *streams*: flow control across two strands and a connection, loops that send
  or copy until window or data run out, closing with data on its way.  Bytes
  arrive once and in order, the end of the stream comes after them, credit is
  never lost, and nobody waits for ever.
* *sessions*: `open_stream` runs on other threads, stop may come from user, peer,
  timer or transport, and handlers already queued run after it.  Ids never
  clash, the SYN comes first, whoever holds a stream is told of the stop, a live
  tunnel is kept, a dead one ends in time, and no frame is stranded.
* *hand-off*: claims race expiry, clearing, unregistration and reconnection.  The
  limit holds, nobody is served twice or by another's service, and nobody is
  forgotten.
* *registry, client, reload*: sessions of one client overlap when it reconnects.
  Names and routes belong to whoever holds them, and what is configured is
  registered after every reconnect.
* *bridges, limiter, pool*: errors from both sides at once, limits at their
  boundary, waiting handlers that must be woken.

* *QUIC*: one mutex, a strand and a timer that is set in two places.  The owner
  is told of the end once, no read is forgotten, and queued data goes out.

`PROJECT.json` lists the hazards with their lines and the properties that cover
them.

## The modules

### MuxStream

The two `MuxStream` objects of one stream and the connection between them.  The
variables carry the names of the fields.  A handler on the stream's strand is
one step, except `do_write` and `do_read_from_buffer`: they loop, and a loop is
one step per iteration during which `strand[e]` keeps every other handler of
that end out.  `link[e]` holds the frames on their way; `posted[e]` says how many
of them the session has posted to the strand, since a stop of the session drops
the others only.

Bytes are positions.  A frame carries two stamps the code does not have: how
many bytes and how much credit its sender had sent once it was queued.  Data
blocks are then intervals, and the properties compare positions.  Other
abstractions: the ACK that answers a SYN has no effect and is left out; a read or
write beyond the limits on pending calls is refused; `session_stop` may cut the
frames under way to the peer anywhere.

### ByteStream

What `common/stream.h` promises of one direction of a stream, in six variables
and no buffers: bytes come in order and once, the end after the last byte unless
the reader's connection broke.  `ToAcceptor` and `ToOpener` in `MuxStream` are its
two instances, one for each direction; `ImplementsByteStream` says that the
windows, queues, frames and loops of `MuxStream` implement both.

### MuxSession

The two `Session` objects at the ends of a transport connection.  A stream is its
id; its user may send a data frame or a FIN.  `open_stream` is three steps (id,
registration, SYN), as the code takes the mutex twice and then posts.  The
transport takes the front frame (`transport_write`), and the completion handler
is a step of its own: `write_completed` or `write_failed`.  `timer` distinguishes
an armed timer, which `cancel` ends, from one that has fired and whose handler
will run after the stop too.  `read_after_stop` is the handler of a read that
was under way.

Time is counted in ticks.  A tick needs every due timer to have fired and run,
and, on a healthy connection, every frame to be younger than `MaxDelay`: that is
what is assumed of a healthy transport, and the heartbeat properties are about
it.  A silent transport drops everything without an error; a broken one fails
every read and write.

### VisitorHandoff

The pending tables of `Server`, the listeners of the proxies and the messages of
a hand-off.  Every function under `pending_conn_mutex_` is one step, with the
cleanup it starts with.  Connecting and the accept handler are two steps, so a
handler may run after its listener has been closed; `control_stop` and
`listener_stop` are two, as `ControlSession::Stop` clears the pending visitors
before it closes the listener.  `generation` tells the listeners of one proxy name apart.
The ticket of a TCP visitor is the clock reading `Clock[v]` alone (248), so two of them
may be given the same one; those of a vhost visitor (1333) and of a UDP endpoint end in
a random number and are taken as new.
Proxy names belong to one client, and a client is back only when the messages of
its old session are gone.  `UnregisterProxy` does nothing for a vhost proxy, as
in the code.

### ClientConnection

`Client` of `client.cpp` from `DoConnect` to a running mux session and back.  The
queue `strand` holds the handlers bound to `strand_`; the handshake timer, the
callbacks of a `QuicSession` and the UDP receive handler run on other threads and
are steps of their own.  `connection_id` tells handlers of an abandoned attempt
apart, as in the code, and that is the point of the module: it does not tell the
QUIC endpoints of one attempt apart.  A timer whose wait has ended can no longer
be cancelled (`timed_out`).  The server's addresses are numbers; name resolution,
connect and handshake succeed or fail freely.

### ControlRegistry

`ControlSession` with the tables of `Server` it shares with the other sessions, and
the proxies of the client that feeds it, those of the conf directory included
(`PollConfDirectory`).  A handler of a session is one step; `Stop` is two, because
it gives the name back before it removes proxies and routes, under different
mutexes.  Messages of a connection arrive in order or are lost with it.  A file
of the directory is the proxy it defines; a name is a sequence, so that "a" and
the "a_1" the server makes of it are told apart without strings.  `answered` and `held`
are history: the client has had the answer to its login on this connection, and the
files it has kept unchanged since before the connection.  The empty
sequence is a configuration without a name: the server calls such a client
"client", and `FirstFree` numbers the ones after the first.

### RateLimiter, BufferPool and Bridge

`RateLimiter` is the token bucket, `BufferPool` one bucket of the pool; both are
objects behind a mutex, and `Bridge` composes them with the loops that use them:
`common::Bridge` with and without compression, and the `UdpBridge`s of client and
server.  A loop has one operation under way; its completion handler is one step.
Data is its length.  `Destroy` is the end of the last handler that keeps a bridge
alive, and it gives back what the bridge still holds.

### QuicSession

`QuicSession` and its `QuicStream` in `quic_ngtcp2.cpp`.  The write queue, the
pending reads, the timer with its two users and the ways a connection ends are
the code's; ngtcp2 and the network are external and appear as what the code can
see of them: how much data is taken, what is in flight, when a timer is wanted, and
whether the stream still takes data (`shut`: the user closed it, the peer asked to
stop, or it is gone).  A write of a stream that is shut makes `do_write` break off at
the head of the queue, and stays there.
Written data is counted in packets, read data in bytes.

### The proofs

`MuxStreamProofs`, `MuxStreamRefinement`, `MuxSessionProofs`, `BridgeProofs` (with
`RateLimiter` and `BufferPool`), `QuicSessionProofs`, `VisitorHandoffProofs`,
`ClientConnectionProofs` and `ControlRegistryProofs` extend the modules they are about.

## What the runs check

| Run | Module, configuration | What it shows |
|---|---|---|
| `mux_stream_flow` | MuxStream, `MuxStreamFlow.cfg` | Flow control, bounds and progress of one direction with writes larger than the window and empty ones; removal of closed streams |
| `mux_stream_duplex` | MuxStream, `MuxStreamDuplex.cfg` | Order and end of stream in both directions while either session may stop; both directions implement `ByteStream` |
| `mux_stream_large_read` | MuxStream, `MuxStreamLargeRead.cfg` | *Violation*: a message larger than the window is never received |
| `mux_session_streams` | MuxSession, `MuxSessionStreams.cfg` | Both ends open, use and close a stream; owners and a GoAway stop the sessions at any moment |
| `mux_session_heartbeat` | MuxSession, `MuxSessionHeartbeat.cfg` | All phases of the two heartbeats on a transport that may fall silent or break: live tunnels are kept, dead ones end, and the peer learns of a stop |
| `handoff_mixed` | VisitorHandoff, `HandoffMixed.cfg` | TCP visitors and a UDP endpoint share the limit; expiry, claims and cleanup |
| `handoff_restart` | VisitorHandoff, `HandoffRestart.cfg` | Visitors that read the clock in one tick, at TCP and vhost proxies that are unregistered, stopped and registered again: who can be served where, and the counts of connections |
| `client_connection` | ClientConnection, `ClientConnection.cfg` | The client never rests without a connection, pursues one attempt at a time, and leaves a handshake nobody answers |
| `client_sequence` | ClientConnection, `ClientSequence.cfg` | *Violation*: TCP is passed over after a QUIC timeout |
| `control_registry` | ControlRegistry, `ControlRegistry.cfg` | Sessions of a client overlap: an ended one holds nothing, names are their own, client and server agree on the proxies but for files kept over a reconnect, a silent login is watched |
| `bridge` | Bridge, `Bridge.cfg` | The rate is kept, no buffer is lost, a bridge ends whole and once, and waiting writes go |
| `quic` | QuicSession, `QuicSession.cfg` | One closing notice, no forgotten read, and queued data of an open stream goes out over a lossy network unless the retry has displaced the expiry timer |

### Bounds

*MuxStream*: a window of four units and a threshold of two are the smallest for
which a reader can hold back a consumed unit that is not announced; a write of six
needs two frames and an update in between, and two calls of each kind fill the
pending queues.  The duplex run halves both, to two and one, so that a write of
three is split and can fail half sent while the other direction and the
transport's failures still fit.

*MuxSession*: one stream from each end makes ids of both ends meet; a heartbeat of
2, an idle limit of 3 and a delay of 1 leave room for every phase, and 6 ticks are
enough for a silent session to end (2 + 3 + 1).  The run about streams stands
still in time.

*VisitorHandoff*: two places and two visitors with an endpoint fill the table; a
lifetime of one tick and two ticks let a ticket expire before, at and after each
step; two re-registrations let a visitor outlive its listener.  In the restart run both
visitors have the same reading, and two TCP proxies and a vhost proxy let them meet
at one proxy, at two of a kind, and at two of different kinds.

*ClientConnection*: two addresses are needed to move to the next within one
attempt, four connection ids to have handlers of two attempts behind while a third
runs, two QUIC sessions to have one's callback meet the other.

*ControlRegistry*: two sessions of one client, so that the old one can still be
there when the new one logs in, and two changes of the directory, one for each.
The client has no name in its configuration, or one, "b", that is turned away.

*Bridge*: two places for bridges.  With a rate of 2 or 3 bytes a second and reads of
1 or 3, a read fits, exceeds or just uses up the bucket, before and after the rate
changes; a pool that starts with one buffer and may have three is used up by four
loops.

*QuicSession*: a queue of two writes of one or three packets, a burst of two and a
window of three make a write be refused, split over turns and held back by the
window; 8 packets of connection credit are just within what four writes can
use.

`CHECK_DEADLOCK FALSE` stands where users may have no more calls to make, or a
bounded count is used up, which is no fault of the program.  `Bridge` has no such
bound and is checked for deadlock.

### Fairness

The `io_context` threads run every handler that is ready, and that is what weak
fairness is assumed of: the strands, posted handlers and expired timers of every
module.  Beyond it: in `MuxStream` and `MuxSession`, a transport that has not failed
takes and delivers frames; in `Bridge`, time passes (`Tick`) and a bridge nobody
refers to is destroyed; in `ClientConnection`, armed timers expire; in
`QuicSession`, packets may be lost again and again but not always (strong fairness
of the acknowledgement), which is what ngtcp2's retransmission makes of a network
that is not cut.  Nothing is assumed of users, faults, stops, or local services.

Every property has a mutant in `PROJECT.json`: a change of one definition that a
slip in the code would amount to, and that breaks the property.

## What the violations show

* `do_read_from_buffer` lets an `async_read` wait for its whole buffer and does
  not announce window meanwhile.  A control message may be up to 4 MiB, the
  window is 128 KiB: beyond it neither end moves again, and neither gets an
  error (`WriteMeetsRead` under `MuxStreamLargeRead.cfg`).  `NoMutualWait` is proved
  for reads up to the window less the threshold.
* When a QUIC handshake times out, the timer's handler and the callback of the
  session it has just closed both post `HandleDisconnect` with the id of the
  attempt.  The protocol moves on twice and the client goes from QUIC to
  WebSocket, while `client.toml` says that "auto" tries them in sequence
  (`TriesInSequence`).

Noted while modelling, and either stated as exceptions by the properties or
outside of them:

* `mux.cpp`: after a failed write the session never empties its queue, and writers
  behind the failed one are not answered (686).  A silent tunnel lives 120 to 150
  seconds, where the comment says 90 (472).  A stream that `open_stream` registers
  in a stopped session is never told (`orphans` in `StopReachesEveryStream`).
* `server.cpp`: a visitor accepted while its client's session is being stopped
  stays connected until a later registration runs the cleanup (315); so does a
  visitor nobody claims (1358).  Two TCP visitors accepted in one tick of the clock share
  a ticket: the later one is closed, and the earlier may be served at the later one's proxy
  (`DrewSameReading` in `ServedByOwnProxy`).  A visitor
  claimed after its proxy was re-registered is counted down at the new listener
  although the old one counted it (`CountedElsewhere` in `ActiveNotUnder`).  A
  second `Stop` of a session gives back a name that may be another's by then (`robbed`
  in `NameIsOwn`).  A limiter
  stays behind when the registration of its proxy is refused or the proxy is a
  vhost.  A connection that never opens its control stream has no timer.
* `client.cpp`: a change of the bandwidth limit alone is not sent to the server.
  `PollConfDirectory` compares the directory with `dynamic_proxies_`, which a disconnect
  keeps (814): the new session starts without proxies, and a file that has not
  changed is no difference, so it is not registered, and not served, until it changes
  or the client restarts (`held` in `ConfApplied`, which says of every connection that
  all else is registered).
  `ConfApplied` is about clients whose directory uses other names than
  their configuration file (`NamesApart`): when a file with the name of a configured
  proxy goes, `UnregisterProxy` stops the first TCP listener of that name, which may be
  the configured one.  A refusal counts for every entry that is the `Same`: a file whose
  limit alone changes is not sent again, so it keeps the answer it had.  Over QUIC two disconnects can overlap, which is why `OneConnection` is about TCP and WebSocket.
* `rate_limiter.h`: the bucket holds one second's worth, so a read longer than the
  rate (reads are up to 32 KiB) waits until the rate is raised, and so does
  everything behind it (`TooMuch` in `EveryoneGoes`).  `set_rate` credits the time
  since the last update at the new rate.
* `UdpBridge` of the client: a failed send ends that loop only, and the
  socket's receive stays pending after the stream has been closed.  A datagram of 32 KiB
  or more clashes with the 15-bit length of the header.
* `quic_ngtcp2.cpp`: a write whose stream has been closed, or is no longer read by the
  peer, stays at the head of `write_queue_` for good, with its handler unanswered (640; `shut`
  in `NothingToSend`).  The connection's credit
  is never extended, so a connection ends its life after `initial_max_data`.
  `do_write` sets `timer_` for a retry after a full burst (653), and so cancels the wait
  for the expiry ngtcp2 asked for; the retry sets nothing if the window is full when it
  fires.  If what is in flight is lost then, nothing is retransmitted and the queue
  stands still until the peer sends something, its heartbeat for instance (`replaced` in
  `QueueDrains`, which says that nothing else leaves an open stream's data to nobody).  A
  pending read of all of its buffer is answered short and without an error when
  the stream closes.  The `would_block` branch cannot be taken, as no
  socket is made non-blocking.

## What is proved

Every safety property of the passing runs is proved, for every value of
the constants that satisfies the named assumptions of the modules:
sizes are natural numbers, the initial window is positive and within the message
limit, fewer streams are opened than there are ids, there are finitely many bridges
and conf files, and one of the rates is the largest.  A property is seldom inductive;
each proof module defines the `IInv` that is, TLC checked it first on the
configurations of the runs, and the proofs show that `Init` implies it, each action
keeps it, and it implies the properties.

*MuxStream.*  The properties are not inductive: what a reader may be handed next
depends on the frames under way.  `IInv` adds, for each end: `LinkInv` (stamps grow
along the link, begin where the receiver is, have no gap, and end where the sender
is while both sessions run), `ClosingInv` (what FIN and the session's closing
notice say), `QueueInv` (the read queue is adjacent intervals), `WindowInv` and
`CreditInv` (the two halves of credit conservation), `SettledInv` (a strand outside
its loops has nothing left to do), `EofInv` and `LifeInv`.  From it follow
`TypeCorrect`, `CreditIsConserved`, `ReadsAreInOrder`, `EofIsAfterLastByte`,
`ReceiverIsBounded`, and `NobodyWaitsForever` for reads of at most
`InitialWindow - UpdateThreshold + 1` bytes.

*MuxStreamRefinement.*  `Refinement` says `Spec => ImplementsByteStream`: every
step of the two ends maps to a step of the `ByteStream` of each direction, or to
a stutter.  A reader that is handed a block is where the block begins, by `QueueInv`, so
bytes come in order; it meets the end only in a state in which `EofInv` says that all
bytes have been delivered, or that its own connection has broken.

*MuxSession.*  `IInv` is `TypeOK` with `WriterInv` (the writer of a running session
and `is_writing_` agree with the queue), `SilenceInv` (a timer that has not ended is
never set beyond `IdleLimit + HeartbeatPeriod` after the last read), `DueInv` (no frame
on a healthy connection is overdue) and `LiveInv` (within one period of its last
read, an end will be pinged, or a frame sent by then is on its way to it).  A read
starts a new period, the heartbeat of the peer turns the promise of a ping into a
frame, and no step of a healthy connection loses a frame.  Hence
`QueueIsWritten`, `SilenceIsBounded`, and `LiveConnectionIsKept` if
`HeartbeatPeriod + MaxDelay <= IdleLimit`.

What happens to streams has an invariant of its own, `StreamInv`.  `EndInv`: a stream in a
user's hands is registered or has been told, and in a stopped session only
`open_stream` registers any more.  `IdInv`: the ids an end has handed out are
`FirstId + 2 * k`, without wrapping around, so the two ends never choose the same one,
and every other id an end knows is one the peer has.  `FlightInv`, about the frames on
the wire and those behind them in the sender's queue: every SYN is of another
stream, one the sender has and the receiver has not; each data or FIN frame on the
wire has its SYN before it, or the receiver has the stream; and as long as the
connection works the same holds of the queue, and of each stream the sender has.
A failure or a stop cuts the end of the wire or the front of the queue, and
nothing reaches the wire after it: that is why the last part may be about working
connections only.  Hence `IdsNeverMeet`, `SynIsFirst` and `StopIsHeard`.

*Bridge.*  `IInv` adds to the properties that on_stop_ is called exactly when the
streams are closed (`StopInv`), that a free place holds nothing (`FreeInv`), and at
which points of a loop it holds no buffer (`BufferInv`).  With it the pool is right
(`Right`) for the number of buffers in hands, and every handler changes both by the
same amount: `LoopStep` says so once for all steps of a loop.  Hence
`StopIsCalledOnce`, `NoBridgeIsHalf` and `PoolIsConserved`, for any number of
bridges, sizes and limits.  The limiter has an invariant beside it: what has been
let go beyond the highest rate since the count began, together with the tokens in the
bucket and those the time since the last update may add to it, is at most one
second's worth at that rate.  A tick moves a second's share from the one to the other,
a request moves tokens back, and `set_rate` only caps the tokens.  Hence
`LimitIsKept`, and `TimerIsRunning`: somebody waits only while a timer is set.

*VisitorHandoff.*  `QueueInv`: the expiration queue is in the order of its deadlines and has
an entry for each entry of the two tables; the order is what lets a cleanup stop at the
first one that has not expired.  `TableInv`: an entry of the TCP table stands for a waiting
visitor under its own ticket, no two have the same, and every waiting visitor has one.
`MailInv`: a ticket that is announced or offered is of UDP, or some visitor that drew
it came for the proxy it is announced to.  Two visitors may draw the same clock reading,
so what follows for a visitor that is served (`OwnProxy`, without an assumption about the
clock) is that its ticket led to its own proxy, or to a TCP proxy one of whose visitors
drew the same reading; a vhost ticket is its visitor's alone.  `ActiveNotUnder` is
inductive with the rest: each claim that counts down either ends a live connection of
the listener or adds a visitor to those counted elsewhere.  Hence `LimitKept`, `QueueCovers`, `WaitingPending`, `OwnProxy`, `ActiveKept` and
`CleanupComplete`.

*ClientConnection.*  Handlers carry the id of their attempt, and those of earlier ids are
ignored; so `IInv` is about the present id.  `Busy` is `NeverIdle` of what will not be
ignored: this is the inductive form, since a handler may sit in the queue that will do
nothing.  `AttemptInv` and `QuicInv`: an attempt has one operation or one handler, and no
QUIC session or handshake timer beside it; hence `OneAttemptAtATime`.  `NoQuicInv` and
`PhaseInv`: with TCP or WebSocket the client is connected, tries to be, waits for the
timer or is about to dial, and only one of them; hence `OneConnectionOverTcp`.

*ControlRegistry.*  A session gets one login, because a client sends it once for a
connection, and a message is on the wire or on the strand, never in both.  A
name leads to a session that is logged in under it and is not half-way through a
`Stop`.  Names therefore lead to different sessions, and of `n_1`, ..., `n_(MaxSessions+1)`
one is free, by the pigeonhole principle: that is why `FirstFree` finds a name.  A
session that holds a name, a listener or a domain still has a `Stop` to come: its
stream is open, its read is pending and will fail, a `Stop` is queued, or half done.
Hence `NothingIsLeftBehind`, `NamesAreOwn` and `StalledLoginsAreWatched`.  What a client
sends comes out of folds (`FlattenSeq`, `SetToSeq`); their types are proved from the
least number at which they would go wrong, as induction is not available.

That client and server agree on the proxies is about messages under way, and has an
invariant of its own, `AgreeInv`, on top of `IInv`.  `Pending` is what a session has still
to handle: the message its strand holds, at most one because the next is read
when it has been handled (`ReadInv`), and those on the wire.  `Ordered` says of each name of
the directory that a registration under way finds no listener of that name, since a
removal comes before it, and that what is registered, or will be, is what the client
has reported unless its removal follows.  `Promised` says of each proxy the client has
reported that the last word under way is to register it, or that the session has
handled it and no removal is under way; that holds for all of them but the ones in `held`,
which the start of a connection fills and every change found by a poll thins out.  Handling the head of the queue keeps both
(`TailAgrees`), and so does a difference that joins at its end (`DiffJoins`): `DiffOrder`
shows that `Diff` has at most one removal and one registration for a name, in this
order, whatever order the folds of `SetToSeq` give the names (`FlattenedParts`).  With nothing
pending, `AgreeInv` is `ConfApplied`: hence `ConfIsApplied`.  A property
that compared refusals with all of an entry, its limit included, would be false: TLC
finds the run of two files that differ in their limit alone.

*QuicSession.*  `IInv` says that reads wait only on a stream that is in `streams_`,
and that an ended session has none there.  That the loop of `do_read` stops, and on a
closed stream only after the last read, is `AnsweredType` and `DoReadAtEnd`; the
first needs the least read that cannot be answered (`LeastNatural`).  Hence
`OwnerIsToldOnce` and `NoReadIsForgotten`.

Only model-checked is every liveness property (`WriteMeetsRead`, `ClosedStreamRemoved`,
`PeerNoticesStop`, `HandshakeEnds`, `EveryoneGoes`, `StopEndsBridge`, `QueueDrains`), which is out of the
prover's reach.

## Not modelled

* The byte formats of messages, frames, Host and SNI headers, TLS, compression and
  logging: pure functions or libraries; what they decide is a free choice.
* `WebsocketStream`: mostly the parsing and masking of frames.  Its read and write
  loops have the shape of those of `Session`, whose transport stands for it.
* The management server, which answers one request at a time from the tables of
  `Server`; the configuration file, command line, signals and scripts.
* Inside modelled parts: the forwarding of UDP datagrams after the first of an
  endpoint, two clients that compete for a name or a domain, and
  `close_session` of `QuicSession` called while a receive handler runs on another
  thread (it is one step here).  The data race on the endpoint map of a UDP
  listener is listed as a hazard; its outcomes are those of a broken hash map.

## Plan

What is left, in this order.

1. `ControlRegistry` with two clients that want one name or one domain.  The theorems
   are about any number of clients; the run has one.
2. `WebsocketStream`, and `ByteStream` as what it and `QuicSession` offer.
