---------------------------- MODULE QuicSession ----------------------------
(***************************************************************************)
(* A QUIC connection and its stream: QuicSession and QuicStream of          *)
(* src/common/quic_ngtcp2.cpp.  cfrp opens one QUIC stream a connection and *)
(* runs its own multiplexing on it, so there is one stream here.            *)
(*                                                                          *)
(* Everything runs on the session's strand: a call from elsewhere is posted *)
(* to it, so a call is one step.  (close_session alone is not posted; it    *)
(* holds ngtcp2_mutex_ and is one step too.)  ngtcp2 and the network are    *)
(* external: ngtcp2 takes data of a stream that is not shut for writing     *)
(* while fewer than Window packets are in flight and the peer's connection  *)
(* limit, initial_max_data, which the code never extends, is not used up;   *)
(* it says when it wants to be called and retransmits what was lost when it *)
(* is.  Data is counted in packets when written and in bytes when read.     *)
(*                                                                          *)
(* No socket here is made non-blocking, so a send never reports             *)
(* would_block; is_writing_ is never found set, as nothing do_write calls   *)
(* comes back to it.                                                        *)
(***************************************************************************)
EXTENDS Integers, Sequences, SequencesExt

CONSTANTS
    MaxPendingWrites,   \* kQuicSessionMaxPendingWrites
    BurstLimit,         \* the packets do_write sends in one turn
    Window,             \* ngtcp2: packets in flight
    MaxData,            \* ngtcp2: initial_max_data, in packets
    WriteSizes,         \* lengths of writes, in packets
    MaxWrites,          \* bound: the writes the owner makes
    MaxReads,           \* bound: reads pending at a time
    MaxQueued           \* bound: bytes waiting in read_queue_

ASSUME QuicAssumption ==
    /\ {MaxPendingWrites, BurstLimit, Window, MaxData} \subseteq Nat \ {0}
    /\ WriteSizes \subseteq Nat \ {0}
    /\ {MaxWrites, MaxReads, MaxQueued} \subseteq Nat

VARIABLES
    closed,     \* closed_notified_
    told,       \* history: how often on_closed_cb_ was posted
    timer,      \* timer_: "off", "expiry" (schedule_timer) or "retry" (do_write)
    replaced,   \* history: "retry" took the place of "expiry"
    wq,         \* write_queue_: the packets each write still needs
    writes,     \* history: writes made
    given,      \* ngtcp2: packets of data it has taken
    inflight,   \* ngtcp2: packets not acknowledged
    lost,       \* the network: how many of those were lost
    shut,       \* ngtcp2: the stream takes no more data, or is not there
    stream,     \* "none", "mapped" (in streams_) or "gone"
    streamEnd,  \* the stream's closed_
    rq,         \* bytes in the stream's read_queue_
    reads       \* pending_reads_

timerVars == <<timer, replaced>>
dataVars == <<wq, given, inflight>>
streamVars == <<stream, streamEnd, rq, reads>>
vars == <<closed, told, timerVars, dataVars, writes, lost, shut, streamVars>>

Least(S) == CHOOSE x \in S : \A y \in S : x <= y

Total(q) == FoldLeft(LAMBDA a, b : a + b, 0, q)

(***************************************************************************)
(* Reading.                                                                *)
(***************************************************************************)

\* The bytes the first k of the pending reads p take of q.
Taken(p, q, k) == Least({q, Total([i \in 1..k |-> p[i].n])})

\* The front of pending_reads_ can be answered, with q bytes queued and the
\* stream closed (e) or not: a read_all waits for all it asked for, unless the
\* stream is closed; with nothing queued it is then answered with eof.
Answerable(r, q, e) == e \/ (q > 0 /\ (r.all => q >= r.n))

\* Mutated form: the reader is told of the end once, and the loop left.
Answered_One(p, q, e) ==
    IF p # <<>> /\ Answerable(p[1], q, e) THEN 1 ELSE 0

\* How many pending reads do_read's loop answers.
Answered(p, q, e) ==
    LET ok(k) == \A i \in 1..k : Answerable(p[i], q - Taken(p, q, i - 1), e)
    IN  CHOOSE k \in 0..Len(p) : ok(k) /\ (k = Len(p) \/ ~ok(k + 1))

do_read(p, q, e) ==
    LET k == Answered(p, q, e)
    IN  /\ reads' = SubSeq(p, k + 1, Len(p))
        /\ rq' = q - Taken(p, q, k)

\* async_read (all) and async_read_some of n bytes.
async_read(n, all) ==
    /\ stream # "none"
    /\ Len(reads) < MaxReads
    /\ do_read(Append(reads, [n |-> n, all |-> all]), rq, streamEnd)
    /\ UNCHANGED <<closed, told, timerVars, dataVars, writes, lost, shut, stream,
                   streamEnd>>

\* QuicStream::handle_close, for the stream if it is still in streams_.
handle_close ==
    IF stream = "mapped"
    THEN /\ stream' = "gone"
         /\ streamEnd' = TRUE
         /\ do_read(reads, rq, TRUE)
    ELSE UNCHANGED streamVars

(***************************************************************************)
(* Closing.                                                                *)
(***************************************************************************)

\* Mutated form: closed_notified_ is not looked at.
check_closed_Again(c, closing) == IF closing THEN 1 ELSE 0

\* The notifications check_closed posts, when the session is marked closed (c)
\* or not and ngtcp2 is in its closing or draining period or not.
check_closed(c, closing) == IF closing /\ ~c THEN 1 ELSE 0

\* close_session, which leaves timer_ as t. The write queue stays as it is. When
\* it is called from send_packets, a check_closed follows, and ngtcp2 is in its
\* closing period by then.
close_session(t) ==
    /\ ~closed
    /\ closed' = TRUE
    /\ told' = told + 1 + check_closed(TRUE, TRUE)
    /\ timer' = t
    /\ handle_close
    /\ UNCHANGED <<replaced, dataVars, shut>>

\* The owner ends the connection: HandleDisconnect, Stop, the next endpoint.
OwnerCloses ==
    /\ close_session("off")
    /\ UNCHANGED <<writes, lost>>

(***************************************************************************)
(* Sending.                                                                *)
(***************************************************************************)

\* The packets do_write can send of the queue q with f in flight. With the stream
\* shut (h), writev fails for the write at the head of the queue: the loop breaks
\* and leaves it there.
Sendable(q, f, h) ==
    IF h THEN 0 ELSE Least({BurstLimit, Total(q), Window - f, MaxData - given})

\* The queue once k more packets of it are sent: do_write's skip, consumed and
\* pop_front.
Consumed(q, k) ==
    LET i == Least({j \in 0..Len(q) : Total(SubSeq(q, 1, j)) >= k})
        rest == Total(SubSeq(q, 1, i)) - k
    IN  (IF rest > 0 THEN <<rest>> ELSE <<>>) \o SubSeq(q, i + 1, Len(q))

\* The loop of do_write.
Push(q, f, h) ==
    LET k == Sendable(q, f, h)
    IN  /\ wq' = Consumed(q, k)
        /\ given' = given + k
        /\ inflight' = f + k

\* do_write where nothing sets the timer to ngtcp2's expiry afterwards: called by
\* write_stream and by the retry. t is timer_ before it, which a retry replaces.
\* A send that fails closes the session; the burst may still set the retry.
do_write(q, t) ==
    LET sent  == Sendable(q, inflight, shut)
        burst == sent >= BurstLimit
    IN  \/ /\ Push(q, inflight, shut)
           /\ LET again == burst /\ wq' # <<>>
              IN  /\ timer' = IF again THEN "retry" ELSE t
                  /\ replaced' = (replaced \/ again)
           /\ UNCHANGED <<closed, told, shut, streamVars>>
        \/ /\ sent > 0
           /\ close_session(IF burst THEN "retry" ELSE "off")

\* Mutated form: stream data is left to the next write.
send_packets_Control(f, h) ==
    /\ inflight' = f
    /\ shut' = h
    /\ timer' = "expiry"
    /\ replaced' = FALSE
    /\ UNCHANGED <<wq, given>>

\* send_packets, with f packets in flight and the stream shut (h) or not: what
\* ngtcp2 has to send, do_write and then schedule_timer, which takes timer_ back
\* from a retry.
send_packets(f, h) ==
    /\ Push(wq, f, h)
    /\ shut' = h
    /\ timer' = "expiry"
    /\ replaced' = FALSE

\* write_stream for a write of n packets. It fails at once when the session is
\* closed or the queue full.
write_stream(n) ==
    /\ stream # "none" /\ writes < MaxWrites
    /\ writes' = writes + 1
    /\ IF closed \/ Len(wq) >= MaxPendingWrites
       THEN UNCHANGED <<closed, told, timerVars, dataVars, shut, streamVars>>
       ELSE do_write(Append(wq, n), timer)
    /\ UNCHANGED lost

\* QuicStream::close: close_stream shuts the stream in ngtcp2 and sends. Pending
\* reads stay until ngtcp2 reports the stream closed; queued writes stay for good,
\* and nobody answers them.
CloseStream ==
    /\ stream # "none" /\ ~streamEnd
    /\ ~closed
    /\ streamEnd' = TRUE
    /\ send_packets(inflight, TRUE)
    /\ UNCHANGED <<closed, told, writes, lost, stream, rq, reads>>

\* open_stream, once the handshake is complete.
open_stream ==
    /\ ~closed /\ stream = "none"
    /\ stream' = "mapped"
    /\ UNCHANGED <<closed, told, timerVars, dataVars, writes, lost, shut, streamEnd,
                   rq, reads>>

(***************************************************************************)
(* handle_packet, by what the packet holds.                                *)
(***************************************************************************)

\* An acknowledgement of a packet: what was lost is sent again.
Ack ==
    /\ ~closed /\ inflight > lost
    /\ send_packets(inflight - 1, shut)
    /\ lost' = 0
    /\ UNCHANGED <<closed, told, writes, streamVars>>

\* on_stream_data, with or without the end of the stream. Data for a stream that
\* is not in streams_ begins one. The end of what the peer sends leaves the stream
\* open for writing in ngtcp2.
StreamData(n, fin) ==
    /\ ~closed /\ stream # "gone"
    /\ rq + n <= MaxQueued
    /\ stream' = IF fin THEN "gone" ELSE "mapped"
    /\ streamEnd' = (streamEnd \/ fin)
    /\ do_read(reads, rq + n, streamEnd')
    /\ send_packets(inflight, shut)
    /\ UNCHANGED <<closed, told, writes, lost>>

\* The peer asks that nothing more be sent on the stream, as its own close_stream
\* does: ngtcp2 shuts it for writing and calls nothing back.
PeerStopsReading ==
    /\ ~closed /\ stream # "none" /\ ~shut
    /\ send_packets(inflight, TRUE)
    /\ UNCHANGED <<closed, told, writes, lost, streamVars>>

\* on_stream_close: the stream's closing is complete, and ngtcp2 has forgotten it.
StreamClosed ==
    /\ ~closed /\ stream = "mapped"
    /\ handle_close
    /\ send_packets(inflight, TRUE)
    /\ UNCHANGED <<closed, told, writes, lost>>

\* A packet ngtcp2 gives up on, or the peer's CONNECTION_CLOSE reported as an
\* error.
PacketFails ==
    /\ close_session("off")
    /\ UNCHANGED <<writes, lost>>

\* The peer's CONNECTION_CLOSE taken without an error: check_closed finds the
\* draining period. timer_ is not cancelled.
PeerDrains ==
    /\ ~closed
    /\ closed' = TRUE
    /\ told' = told + check_closed(closed, TRUE)
    /\ handle_close
    /\ timer' = "expiry"
    /\ replaced' = FALSE
    /\ UNCHANGED <<dataVars, writes, lost, shut>>

\* A send fails in send_packets, whoever called it.
SendFails ==
    /\ close_session("off")
    /\ UNCHANGED <<writes, lost>>

(***************************************************************************)
(* The timer and the network.                                              *)
(***************************************************************************)

\* The handler of schedule_timer: ngtcp2 sends again what was lost.
ExpiryFires ==
    /\ timer = "expiry"
    /\ IF closed
       THEN timer' = "off" /\ UNCHANGED <<replaced, dataVars, lost, shut>>
       ELSE send_packets(inflight, shut) /\ lost' = 0
    /\ UNCHANGED <<closed, told, writes, streamVars>>

\* The same when ngtcp2 finds the connection idle for too long.
IdleExpires ==
    /\ timer = "expiry"
    /\ close_session("off")
    /\ UNCHANGED <<writes, lost>>

\* The handler of do_write's retry, which is do_write alone.
RetryFires ==
    /\ timer = "retry"
    /\ IF closed
       THEN /\ timer' = "off"
            /\ UNCHANGED <<closed, told, replaced, dataVars, shut, streamVars>>
       ELSE do_write(wq, "off")
    /\ UNCHANGED <<writes, lost>>

Lose ==
    /\ lost < inflight
    /\ lost' = lost + 1
    /\ UNCHANGED <<closed, told, timerVars, dataVars, writes, shut, streamVars>>

(***************************************************************************)
(* The specification.                                                      *)
(***************************************************************************)

\* init posts the first schedule_timer.
Init ==
    /\ closed = FALSE /\ told = 0
    /\ timer = "expiry" /\ replaced = FALSE
    /\ wq = <<>> /\ writes = 0 /\ given = 0
    /\ inflight = 0 /\ lost = 0
    /\ shut = FALSE
    /\ stream = "none" /\ streamEnd = FALSE
    /\ rq = 0 /\ reads = <<>>

Next ==
    \/ open_stream
    \/ \E n \in WriteSizes : write_stream(n)
    \/ \E n \in 1..MaxQueued, all \in BOOLEAN : async_read(n, all)
    \/ CloseStream \/ OwnerCloses
    \/ Ack \/ PeerStopsReading \/ StreamClosed \/ PacketFails \/ PeerDrains \/ SendFails
    \/ \E n \in 0..MaxQueued, fin \in BOOLEAN : StreamData(n, fin)
    \/ ExpiryFires \/ IdleExpires \/ RetryFires
    \/ Lose

Spec == Init /\ [][Next]_vars

\* Timers fire; a peer that is sent the same data again and again acknowledges
\* some of it. Nothing else is asked of the peer or of the owner.
FairSpec ==
    /\ Spec
    /\ WF_vars(ExpiryFires)
    /\ WF_vars(RetryFires)
    /\ SF_vars(Ack)

(***************************************************************************)
(* Properties.                                                             *)
(***************************************************************************)

\* close_session and check_closed: whichever of the owner, a bad packet, a failed
\* send, an idle timeout and the peer's close comes first, and whatever follows
\* it, on_closed_cb_ is posted exactly once. (The client moves on to the next
\* endpoint or protocol each time it runs.)
ClosedToldOnce == told = (IF closed THEN 1 ELSE 0)

\* do_read, handle_close, on_stream_close, close_session, check_closed: once the
\* stream has ended at the peer's hand, or with its session, no read is left
\* waiting on it, whatever was pending or queued at that moment.
ReadsAnswered == (closed \/ stream = "gone") => reads = <<>>

\* The data in write_queue_ need not go out, or will never: there is none, the
\* session has ended, the peer's connection limit is used up, or the stream is
\* shut, so that do_write stops at its first write for good.
NothingToSend == wq = <<>> \/ closed \/ given = MaxData \/ shut

\* do_write, send_packets, schedule_timer: queued data goes out, though every
\* packet may be lost many times, as long as ngtcp2 still takes it and unless
\* the retry has fired in place of ngtcp2's expiry and left no timer behind.
QueueDrains == (wq # <<>>) ~> NothingToSend \/ (replaced /\ timer = "off")
=============================================================================
