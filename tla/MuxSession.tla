----------------------------- MODULE MuxSession -----------------------------
(***************************************************************************)
(* The two mux::Session objects of common/mux.cpp at the ends of one       *)
(* transport connection: opening and accepting streams, the write queue,   *)
(* the heartbeat, and the ways a session stops.  Handlers run on the       *)
(* session's strand_; open_stream runs on its caller's thread and takes    *)
(* mux_mutex_ twice.  What happens inside a stream is the subject of       *)
(* MuxStream: here a stream is its id, and its user may send on it.        *)
(*                                                                         *)
(* Time passes in Tick.  Timer and read handlers and a healthy transport   *)
(* are prompt: no tick passes a due timer, or a frame older than MaxDelay. *)
(***************************************************************************)
EXTENDS Integers, Sequences

CONSTANTS
  IdSpace,          \* 2^32: next_stream_id_ is a uint32_t
  HeartbeatPeriod,  \* 30 s, between two pings
  IdleLimit,        \* 120 s, silence after which a session is a zombie
  MaxDelay,         \* assumed of a healthy transport: age of any frame
  Faults,           \* what may befall the transport: "silent", "broken"
  Foreign,          \* frames of another program: "goaway", "unknown", "oversize"
  MaxOpens,         \* bound: open_stream calls of each end
  MaxSends,         \* bound: data frames sent by the streams of each end
  MaxTime           \* bound: ticks

Ends == {"client", "server"}

Peer(s) == IF s = "client" THEN "server" ELSE "client"

ASSUME TimeAssumption ==
  /\ HeartbeatPeriod \in Nat \ {0}
  /\ IdleLimit \in Nat
  /\ MaxDelay \in Nat
  /\ MaxTime \in Nat

ASSUME SessionAssumption ==
  /\ IdSpace \in Nat
  /\ MaxOpens \in [Ends -> Nat]
  /\ \A s \in Ends : 2 * MaxOpens[s] + 2 < IdSpace
  /\ MaxSends \in [Ends -> Nat]
  /\ Faults \subseteq {"silent", "broken"}
  /\ Foreign \subseteq {"goaway", "unknown", "oversize"}

VARIABLES
  \* --- the fields of each Session
  stopped, streams, next_stream_id, write_queue, is_writing,
  last_read_time, timer, heartbeat_at,
  \* --- the calls and handlers under way
  allocated,     \* ids of open_stream calls that have an id only
  inserted,      \* ids of open_stream calls that have inserted their stream
  write_state,   \* the async_write of the front frame: "none", "sending", "sent"
  \* --- the streams, as their users see them
  held,          \* streams a user has: returned by open_stream, or accepted
  told,          \* streams whose handle_close has been called
  fin_sent,      \* streams whose user has closed them
  orphans,       \* streams open_stream registered in a stopped session
  \* --- the transport
  wire,          \* frames on the way to each end, oldest first
  link,          \* "up", "silent" (drops everything), or "broken"
  now,
  opens, sends   \* calls made so far

registry == <<stopped, streams, told>>
opening  == <<next_stream_id, allocated, inserted, orphans, opens>>
writer   == <<write_queue, is_writing, write_state>>
users    == <<held, fin_sent, sends>>
clock    == <<timer, heartbeat_at>>
vars     == <<registry, opening, writer, users, clock, last_read_time, wire,
              link, now>>

Ids == 0..(IdSpace - 1)

\* The frames of a session; "ack" answers a SYN, "pong" a ping.
FrameTypes == {"syn", "ack", "data", "fin", "ping", "pong"}

Frame == [type : FrameTypes \union Foreign, id : Ids, due : Nat]

NewFrame(type, id) == [type |-> type, id |-> id, due |-> now + MaxDelay]

-----------------------------------------------------------------------------
(* Both sessions are constructed and started.                                *)

FirstId_Same(s) == 1

FirstId(s) == IF s = "server" THEN 2 ELSE 1

Init ==
  /\ stopped = [s \in Ends |-> FALSE]
  /\ streams = [s \in Ends |-> {}]
  /\ next_stream_id = [s \in Ends |-> FirstId(s)]
  /\ write_queue = [s \in Ends |-> <<>>]
  /\ is_writing = [s \in Ends |-> FALSE]
  /\ last_read_time = [s \in Ends |-> 0]
  /\ timer = [s \in Ends |-> "armed"]
  /\ heartbeat_at \in [Ends -> 1..HeartbeatPeriod]
  /\ allocated = [s \in Ends |-> {}]
  /\ inserted = [s \in Ends |-> {}]
  /\ write_state = [s \in Ends |-> "none"]
  /\ held = [s \in Ends |-> {}]
  /\ told = [s \in Ends |-> {}]
  /\ fin_sent = [s \in Ends |-> {}]
  /\ orphans = [s \in Ends |-> {}]
  /\ wire = [s \in Ends |-> <<>>]
  /\ link = "up"
  /\ now = 0
  /\ opens = [s \in Ends |-> 0]
  /\ sends = [s \in Ends |-> 0]

\* Session::stop, on the strand, but for its timer: the streams registered so
\* far and the transport are closed, once.  The handler of a read under way is
\* still to run.
CloseAll(s) ==
  IF stopped[s] THEN UNCHANGED <<registry, wire>>
  ELSE /\ stopped' = [stopped EXCEPT ![s] = TRUE]
       /\ told' = [told EXCEPT ![s] = @ \union streams[s]]
       /\ streams' = [streams EXCEPT ![s] = {}]
       /\ wire' = [wire EXCEPT ![s] = IF @ = <<>> THEN <<>> ELSE <<Head(@)>>]

Stop(s) ==
  /\ CloseAll(s)
  /\ timer' = IF ~stopped[s] /\ timer[s] = "armed"
              THEN [timer EXCEPT ![s] = "off"] ELSE timer

\* Session::async_send_frame, on the strand.  It does not look at stopped_.
async_send_frame(s, type, id) ==
  /\ write_queue' = [write_queue EXCEPT ![s] = Append(@, NewFrame(type, id))]
  /\ is_writing' = [is_writing EXCEPT ![s] = TRUE]
  /\ write_state' = IF is_writing[s] THEN write_state
                    ELSE [write_state EXCEPT ![s] = "sending"]

-----------------------------------------------------------------------------
(* Session::open_stream: the id, the registration, the SYN.                  *)

NextId_Down(id) == id - 2

NextId(id) == (id + 2) % IdSpace

open_stream_id(s) ==
  /\ opens[s] < MaxOpens[s]
  /\ opens' = [opens EXCEPT ![s] = @ + 1]
  /\ allocated' = [allocated EXCEPT ![s] = @ \union {next_stream_id[s]}]
  /\ next_stream_id' = [next_stream_id EXCEPT ![s] = NextId(@)]
  /\ UNCHANGED <<registry, inserted, orphans, writer, users, clock,
                 last_read_time, wire, link, now>>

open_stream_insert_Returns(s, id) ==
  /\ id \in allocated[s]
  /\ allocated' = [allocated EXCEPT ![s] = @ \ {id}]
  /\ inserted' = [inserted EXCEPT ![s] = @ \union {id}]
  /\ streams' = [streams EXCEPT ![s] = @ \union {id}]
  /\ held' = [held EXCEPT ![s] = @ \union {id}]
  /\ orphans' = [orphans EXCEPT ![s] = IF stopped[s] THEN @ \union {id} ELSE @]
  /\ UNCHANGED <<stopped, told, next_stream_id, opens, writer, fin_sent, sends,
                 clock, last_read_time, wire, link, now>>

open_stream_insert(s, id) ==
  /\ id \in allocated[s]
  /\ allocated' = [allocated EXCEPT ![s] = @ \ {id}]
  /\ inserted' = [inserted EXCEPT ![s] = @ \union {id}]
  /\ streams' = [streams EXCEPT ![s] = @ \union {id}]
  /\ orphans' = [orphans EXCEPT ![s] = IF stopped[s] THEN @ \union {id} ELSE @]
  /\ UNCHANGED <<stopped, told, next_stream_id, opens, writer, users, clock,
                 last_read_time, wire, link, now>>

\* The SYN is queued before the caller gets the stream.
open_stream_syn(s, id) ==
  /\ id \in inserted[s]
  /\ inserted' = [inserted EXCEPT ![s] = @ \ {id}]
  /\ held' = [held EXCEPT ![s] = @ \union {id}]
  /\ async_send_frame(s, "syn", id)
  /\ UNCHANGED <<registry, next_stream_id, allocated, orphans, opens, fin_sent,
                 sends, clock, last_read_time, wire, link, now>>

-----------------------------------------------------------------------------
(* The users of the streams, and other callers.                              *)

\* MuxStream::do_write sends a data frame, whose handler answers the writer.
\* (A WindowUpdate frame means as little to the session, and has no handler.)
stream_data(s, id) ==
  /\ id \in held[s]
  /\ sends[s] < MaxSends[s]
  /\ sends' = [sends EXCEPT ![s] = @ + 1]
  /\ async_send_frame(s, "data", id)
  /\ UNCHANGED <<registry, opening, held, fin_sent, clock, last_read_time,
                 wire, link, now>>

\* MuxStream::close sends the FIN.
stream_fin(s, id) ==
  /\ id \in held[s] \ fin_sent[s]
  /\ fin_sent' = [fin_sent EXCEPT ![s] = @ \union {id}]
  /\ async_send_frame(s, "fin", id)
  /\ UNCHANGED <<registry, opening, held, sends, clock, last_read_time, wire,
                 link, now>>

\* MuxStream::check_cleanup found both sides closed.
remove_stream(s, id) ==
  /\ id \in streams[s] \intersect fin_sent[s] \intersect told[s]
  /\ streams' = [streams EXCEPT ![s] = @ \ {id}]
  /\ UNCHANGED <<stopped, told, opening, writer, users, clock, last_read_time,
                 wire, link, now>>

\* The owner of the session (Client, Server or ControlSession) stops it.
stop(s) ==
  /\ ~stopped[s]
  /\ Stop(s)
  /\ UNCHANGED <<opening, writer, users, heartbeat_at, last_read_time, link,
                 now>>

-----------------------------------------------------------------------------
(* Session::do_write and the completion of its async_write.                  *)

\* The transport takes the front frame.
transport_write(s) ==
  /\ write_state[s] = "sending"
  /\ ~stopped[s]
  /\ link # "broken"
  /\ write_state' = [write_state EXCEPT ![s] = "sent"]
  /\ wire' = IF link = "up" /\ ~stopped[Peer(s)]
             THEN [wire EXCEPT ![Peer(s)] = Append(@, Head(write_queue[s]))]
             ELSE wire
  /\ UNCHANGED <<registry, opening, write_queue, is_writing, users, clock,
                 last_read_time, link, now>>

write_completed_Stalls(s) ==
  /\ write_state[s] = "sent"
  /\ write_queue' = [write_queue EXCEPT ![s] = Tail(@)]
  /\ is_writing' = [is_writing EXCEPT ![s] = FALSE]
  /\ write_state' = [write_state EXCEPT ![s] = "none"]
  /\ UNCHANGED <<registry, opening, users, clock, last_read_time, wire, link,
                 now>>

\* Success: the frame's handler fires and do_write takes the next frame.
write_completed(s) ==
  /\ write_state[s] = "sent"
  /\ write_queue' = [write_queue EXCEPT ![s] = Tail(@)]
  /\ LET more == Len(write_queue[s]) > 1
     IN  /\ is_writing' = [is_writing EXCEPT ![s] = more]
         /\ write_state' =
              [write_state EXCEPT ![s] = IF more THEN "sending" ELSE "none"]
  /\ UNCHANGED <<registry, opening, users, clock, last_read_time, wire, link,
                 now>>

\* A write fails on a transport that is closed at either end or broken.
WriteFails(s) ==
  stopped[s] \/ link = "broken" \/ (link = "up" /\ stopped[Peer(s)])

\* Failure: the frame's handler fires and the session stops.  Nothing writes
\* the frames behind it any more, and is_writing_ stays set.
write_failed(s) ==
  /\ write_state[s] = "sending"
  /\ WriteFails(s)
  /\ write_queue' = [write_queue EXCEPT ![s] = Tail(@)]
  /\ write_state' = [write_state EXCEPT ![s] = "none"]
  /\ Stop(s)
  /\ UNCHANGED <<opening, is_writing, users, heartbeat_at, last_read_time, link,
                 now>>

-----------------------------------------------------------------------------
(* Session::do_read_header, do_read_body and handle_frame.                   *)

ReadFrame_AfterStop(s) ==
  /\ wire[s] # <<>>
  /\ wire' = [wire EXCEPT ![s] = Tail(@)]
  /\ last_read_time' = [last_read_time EXCEPT ![s] = now]

ReadFrame_NoTimestamp(s) ==
  /\ ~stopped[s]
  /\ wire[s] # <<>>
  /\ wire' = [wire EXCEPT ![s] = Tail(@)]
  /\ UNCHANGED last_read_time

\* The next frame has been read, header and body, and the session is running.
ReadFrame(s) ==
  /\ ~stopped[s]
  /\ wire[s] # <<>>
  /\ wire' = [wire EXCEPT ![s] = Tail(@)]
  /\ last_read_time' = [last_read_time EXCEPT ![s] = now]

handle_syn(s) ==
  /\ ReadFrame(s)
  /\ LET f == Head(wire[s])
     IN  /\ f.type = "syn"
         /\ \/ /\ f.id \notin streams[s]        \* on_new_stream_, ACK
               /\ streams' = [streams EXCEPT ![s] = @ \union {f.id}]
               /\ held' = [held EXCEPT ![s] = @ \union {f.id}]
               /\ async_send_frame(s, "ack", f.id)
            \/ /\ f.id \in streams[s]
               /\ UNCHANGED <<streams, held, writer>>
  /\ UNCHANGED <<stopped, told, opening, fin_sent, sends, clock, link, now>>

\* Data goes to the stream, if it is registered; an ACK has no effect.
handle_data(s) ==
  /\ ReadFrame(s)
  /\ Head(wire[s]).type \in {"data", "ack", "pong"}
  /\ UNCHANGED <<registry, opening, writer, users, clock, link, now>>

handle_fin(s) ==
  /\ ReadFrame(s)
  /\ LET f == Head(wire[s])
     IN  /\ f.type = "fin"
         /\ told' = [told EXCEPT ![s] = @ \union ({f.id} \intersect streams[s])]
  /\ UNCHANGED <<stopped, streams, opening, writer, users, clock, link, now>>

handle_ping(s) ==
  /\ ReadFrame(s)
  /\ Head(wire[s]).type = "ping"
  /\ async_send_frame(s, "pong", 0)
  /\ UNCHANGED <<registry, opening, users, clock, link, now>>

\* GoAway, an unknown type, or a length above MAX_MESSAGE_SIZE.
handle_foreign(s) ==
  /\ ~stopped[s]
  /\ wire[s] # <<>>
  /\ Head(wire[s]).type \in Foreign
  /\ last_read_time' = [last_read_time EXCEPT ![s] = now]
  /\ Stop(s)
  /\ UNCHANGED <<opening, writer, users, heartbeat_at, link, now>>

\* The handler of a read under way at the stop returns at once.
read_after_stop(s) ==
  /\ stopped[s]
  /\ wire[s] # <<>>
  /\ wire' = [wire EXCEPT ![s] = Tail(@)]
  /\ UNCHANGED <<registry, opening, writer, users, clock, last_read_time, link,
                 now>>

read_failed_Ignored(s) ==
  /\ ~stopped[s]
  /\ \/ link = "broken"
     \/ link = "up" /\ stopped[Peer(s)] /\ wire[s] = <<>>
  /\ UNCHANGED vars

\* The read ends in an error, or with the end of the peer's stream.
read_failed(s) ==
  /\ ~stopped[s]
  /\ \/ link = "broken"
     \/ link = "up" /\ stopped[Peer(s)] /\ wire[s] = <<>>
  /\ Stop(s)
  /\ UNCHANGED <<opening, writer, users, heartbeat_at, last_read_time, link,
                 now>>

-----------------------------------------------------------------------------
(* Session::schedule_heartbeat.                                              *)

\* The timer expires: its handler is queued and cancel() is too late for it.
timer_expires(s) ==
  /\ timer[s] = "armed"
  /\ now = heartbeat_at[s]
  /\ timer' = [timer EXCEPT ![s] = "fired"]
  /\ UNCHANGED <<registry, opening, writer, users, heartbeat_at, last_read_time,
                 wire, link, now>>

Zombie(s) == now - last_read_time[s] > IdleLimit

heartbeat_Once(s) ==
  /\ timer[s] = "fired"
  /\ ~Zombie(s)
  /\ async_send_frame(s, "ping", 0)
  /\ timer' = [timer EXCEPT ![s] = "off"]
  /\ UNCHANGED <<registry, opening, users, heartbeat_at, last_read_time, wire,
                 link, now>>

\* The handler does not look at stopped_.
heartbeat(s) ==
  /\ timer[s] = "fired"
  /\ \/ /\ Zombie(s)
        /\ CloseAll(s)
        /\ timer' = [timer EXCEPT ![s] = "off"]
        /\ UNCHANGED <<writer, heartbeat_at>>
     \/ /\ ~Zombie(s)
        /\ async_send_frame(s, "ping", 0)
        /\ timer' = [timer EXCEPT ![s] = "armed"]
        /\ heartbeat_at' = [heartbeat_at EXCEPT ![s] = now + HeartbeatPeriod]
        /\ UNCHANGED <<registry, wire>>
  /\ UNCHANGED <<opening, users, last_read_time, link, now>>

-----------------------------------------------------------------------------
(* The environment.                                                          *)

\* The frames that have not arrived are lost.
link_fails(how) ==
  /\ link = "up"
  /\ link' = how
  /\ \E k \in 0..Len(wire["client"]), m \in 0..Len(wire["server"]) :
       wire' = [wire EXCEPT !["client"] = SubSeq(@, 1, k),
                            !["server"] = SubSeq(@, 1, m)]
  /\ UNCHANGED <<registry, opening, writer, users, clock, last_read_time, now>>

foreign_frame(s, type) ==
  /\ link = "up"
  /\ ~stopped[s]
  /\ ~\E i \in 1..Len(wire[s]) : wire[s][i].type \in Foreign
  /\ wire' = [wire EXCEPT ![s] = Append(@, NewFrame(type, 0))]
  /\ UNCHANGED <<registry, opening, writer, users, clock, last_read_time, link,
                 now>>

Prompt(q) == \A i \in 1..Len(q) : q[i].due > now

Tick ==
  /\ now < MaxTime
  /\ \A s \in Ends : /\ timer[s] = "armed" => heartbeat_at[s] > now
                     /\ timer[s] # "fired"
  /\ \A s \in Ends :
       /\ Prompt(wire[s])
       /\ link = "up" /\ ~stopped[s] /\ ~stopped[Peer(s)] =>
            Prompt(write_queue[s])
  /\ now' = now + 1
  /\ UNCHANGED <<registry, opening, writer, users, clock, last_read_time, wire,
                 link>>

-----------------------------------------------------------------------------
Open(s) ==
  \/ open_stream_id(s)
  \/ \E id \in allocated[s] : open_stream_insert(s, id)
  \/ \E id \in inserted[s] : open_stream_syn(s, id)

User(s) ==
  \/ \E id \in held[s] : stream_data(s, id) \/ stream_fin(s, id)
  \/ stop(s)

Write(s) == transport_write(s) \/ write_completed(s) \/ write_failed(s)

Read(s) ==
  \/ handle_syn(s) \/ handle_data(s) \/ handle_fin(s) \/ handle_ping(s)
  \/ handle_foreign(s) \/ read_failed(s) \/ read_after_stop(s)

Timer(s) == timer_expires(s) \/ heartbeat(s)

Cleanup(s) == \E id \in streams[s] : remove_stream(s, id)

Environment ==
  \/ \E how \in Faults : link_fails(how)
  \/ \E s \in Ends, type \in Foreign : foreign_frame(s, type)
  \/ Tick

Next ==
  \/ \E s \in Ends : Open(s) \/ User(s) \/ Write(s) \/ Read(s) \/ Timer(s)
                     \/ Cleanup(s)
  \/ Environment

Spec == Init /\ [][Next]_vars

\* The io_context threads run the completion handlers of reads and writes that
\* have ended, and the transport takes frames (into a socket buffer when it is
\* silent).  Nothing is assumed of users, faults or time.
Fairness == \A s \in Ends : WF_vars(Write(s)) /\ WF_vars(Read(s))

FairSpec == Spec /\ Fairness

-----------------------------------------------------------------------------
(* Properties.                                                               *)

\* The type invariant of both sessions and of the transport between them.
TypeOK ==
  /\ stopped \in [Ends -> BOOLEAN]
  /\ streams \in [Ends -> SUBSET Ids]
  /\ next_stream_id \in [Ends -> Ids]
  /\ write_queue \in [Ends -> Seq(Frame)]
  /\ is_writing \in [Ends -> BOOLEAN]
  /\ last_read_time \in [Ends -> Nat]
  /\ timer \in [Ends -> {"armed", "fired", "off"}]
  /\ heartbeat_at \in [Ends -> Nat]
  /\ allocated \in [Ends -> SUBSET Ids]
  /\ inserted \in [Ends -> SUBSET Ids]
  /\ write_state \in [Ends -> {"none", "sending", "sent"}]
  /\ held \in [Ends -> SUBSET Ids]
  /\ told \in [Ends -> SUBSET Ids]
  /\ fin_sent \in [Ends -> SUBSET Ids]
  /\ orphans \in [Ends -> SUBSET Ids]
  /\ wire \in [Ends -> Seq(Frame)]
  /\ link \in {"up", "silent", "broken"}
  /\ now \in Nat
  /\ opens \in [Ends -> Nat]
  /\ sends \in [Ends -> Nat]

\* No frame is stranded in the write queue of a running session: as long as
\* frames are queued exactly one async_write is under way, so frames of several
\* threads neither interleave on the transport nor wait for a writer that is
\* not there (is_writing_, async_send_frame, do_write).
QueueHasWriter ==
  \A s \in Ends :
    /\ write_state[s] # "none" => write_queue[s] # <<>> /\ is_writing[s]
    /\ ~stopped[s] => (write_queue[s] # <<>> <=> write_state[s] # "none")

\* Both ends agree on what an id names: a SYN never meets a stream the
\* receiver already has under that id, and open_stream never replaces a
\* registered stream, though the ends choose ids without asking each other.
IdsAreFresh ==
  \A s \in Ends :
    /\ allocated[s] \intersect (streams[s] \union held[s]) = {}
    /\ \A i \in 1..Len(wire[s]) :
         wire[s][i].type = "syn" => wire[s][i].id \notin held[s]

\* A stream's first frame at the other end is its SYN, though open_stream runs
\* on another thread than the session: data and FIN frames of a stream this
\* end has not seen the SYN of do not come before it, so none is dropped.
SynComesFirst ==
  \A s \in Ends : \A i \in 1..Len(wire[s]) :
    wire[s][i].type \in {"data", "fin"} =>
      \/ wire[s][i].id \in held[s]
      \/ \E j \in 1..(i - 1) :
           wire[s][j].type = "syn" /\ wire[s][j].id = wire[s][i].id

\* Whoever holds a stream of a stopped session has been told that it is closed,
\* be it opened or accepted in the very moment of the stop.  The exception is
\* a stream that open_stream registers after the stop.
StopReachesEveryStream ==
  \A s \in Ends :
    stopped[s] => (held[s] \union inserted[s]) \ orphans[s] \subseteq told[s]

\* The heartbeat never takes a live connection for a zombie: when it finds the
\* silence too long, the transport has failed or a session has been stopped.
\* (For HeartbeatPeriod + MaxDelay <= IdleLimit.)
LiveConnectionKept ==
  \A s \in Ends :
    timer[s] = "fired" /\ Zombie(s) =>
      link # "up" \/ stopped[s] \/ stopped[Peer(s)]

\* However the transport fails, a session that hears nothing is stopped, and
\* its timer has ended too, one heartbeat after the limit at the latest; the
\* handler of an expired timer that runs after stop() re-arms the timer but
\* not for ever.
SilenceEndsSession ==
  \A s \in Ends :
    now - last_read_time[s] > IdleLimit + HeartbeatPeriod =>
      stopped[s] /\ timer[s] = "off"

\* When one end stops, the other one notices, unless the transport is silent.
PeerNoticesStop ==
  \A s \in Ends : stopped[s] ~> stopped[Peer(s)] \/ link = "silent"
=============================================================================
