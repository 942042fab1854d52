------------------------------ MODULE MuxStream ------------------------------
(***************************************************************************)
(* One multiplexed stream of common/mux.cpp, seen from both of its ends:   *)
(* two MuxStream objects with the same id, each owned by a mux::Session,   *)
(* joined by the FIFO frame connection the sessions keep.  Every handler   *)
(* of a MuxStream runs on its strand_, so a handler that loops (do_write,  *)
(* do_read_from_buffer) is one step per iteration and strand[e] says which *)
(* loop the strand of end e is in; no other handler of e runs meanwhile.   *)
(*                                                                         *)
(* Bytes are abstracted to their position in the order the writer sent     *)
(* them.  A frame carries, besides what mux::Header carries, two stamps    *)
(* the code does not have: how many bytes (seq) and how much credit (ack)  *)
(* its sender had sent once the frame was queued.  A data frame of length  *)
(* n is thus the positions seq-n .. seq.                                   *)
(***************************************************************************)
EXTENDS Integers, Sequences

CONSTANTS
  InitialWindow,     \* 128 KiB: remote_window_size_ of a new stream
  UpdateThreshold,   \* 32 KiB: consumed bytes that make a WindowUpdate due
  MaxMessageSize,    \* 1 MiB: MAX_MESSAGE_SIZE, frame limit and window cap
  MaxPendingReads,   \* kMuxStreamMaxPendingReads
  MaxPendingWrites,  \* kMuxStreamMaxPendingWrites
  WriteSizes,        \* for each end, the buffer sizes its user writes
  ReadSizes,         \* for each end, the buffer sizes its user reads
  MaxWrites,         \* bound: async_write calls of each end
  MaxReads,          \* bound: async_read / async_read_some calls of each end
  Failures           \* whether sessions may stop (the transport may fail)

Ends == {"opener", "acceptor"}

Peer(e) == IF e = "opener" THEN "acceptor" ELSE "opener"

ASSUME FlowAssumption ==
  /\ InitialWindow \in Nat \ {0}
  /\ UpdateThreshold \in Nat \ {0}
  /\ MaxMessageSize \in Nat
  /\ InitialWindow <= MaxMessageSize

ASSUME UserAssumption ==
  /\ MaxPendingReads \in Nat
  /\ MaxPendingWrites \in Nat
  /\ WriteSizes \in [Ends -> SUBSET Nat]
  /\ ReadSizes \in [Ends -> SUBSET (Nat \ {0})]
  /\ MaxWrites \in [Ends -> Nat]
  /\ MaxReads \in [Ends -> Nat]
  /\ Failures \in BOOLEAN

VARIABLES
  \* --- the fields of the MuxStream at each end
  local_closed, remote_closed,
  remote_window_size, consumed_since_last_update,
  read_queue, read_queue_offset,
  pending_reads, pending_writes,
  \* --- its place in the program
  stream,            \* "absent", "registered" in streams_, or "removed"
  session,           \* its session: "running", "stopped", or "gone"
  strand,            \* "idle", or the loop its strand is in
  link,              \* frames on the way to the end, oldest first
  posted,            \* how many of them handle_frame has posted to the strand
  \* --- history the properties speak about
  sent,              \* bytes put into data frames
  credited,          \* credit put into WindowUpdate frames
  arrived,           \* position after the last byte queued for reading
  delivered,         \* bytes copied into read buffers
  credit,            \* credit received, as stamped by the peer
  fin_at,            \* value of sent when the FIN was queued, or -1
  partial,           \* some write was split over several frames
  at_eof,            \* value of delivered when a read of the open stream first
                     \* saw its end (eof, or a short async_read), or -1
  writes, reads      \* calls made so far

flow  == <<remote_window_size, sent, credit>>
input == <<read_queue, read_queue_offset, arrived>>
taken == <<consumed_since_last_update, credited, delivered, at_eof>>
ends  == <<local_closed, remote_closed, fin_at>>
place == <<stream, session>>
calls == <<writes, reads>>
vars  == <<flow, input, taken, ends, place, calls, pending_reads,
           pending_writes, strand, link, posted, partial>>

FrameTypes == {"syn", "data", "window_update", "fin", "closed"}

Frame == [type : FrameTypes, length : Nat, seq : Nat, ack : Nat]

Block == [from : Nat, to : Nat]

SmallerOf(a, b) == IF a <= b THEN a ELSE b

-----------------------------------------------------------------------------
(* Session::open_stream has created the opener's stream and queued the SYN. *)

Init ==
  /\ local_closed = [e \in Ends |-> FALSE]
  /\ remote_closed = [e \in Ends |-> FALSE]
  /\ remote_window_size = [e \in Ends |-> InitialWindow]
  /\ consumed_since_last_update = [e \in Ends |-> 0]
  /\ read_queue = [e \in Ends |-> <<>>]
  /\ read_queue_offset = [e \in Ends |-> 0]
  /\ pending_reads = [e \in Ends |-> <<>>]
  /\ pending_writes = [e \in Ends |-> <<>>]
  /\ stream = [e \in Ends |-> IF e = "opener" THEN "registered" ELSE "absent"]
  /\ session = [e \in Ends |-> "running"]
  /\ strand = [e \in Ends |-> "idle"]
  /\ link = [e \in Ends |->
               IF e = "opener" THEN <<>>
               ELSE <<[type |-> "syn", length |-> 0, seq |-> 0, ack |-> 0]>>]
  /\ posted = [e \in Ends |-> 0]
  /\ sent = [e \in Ends |-> 0]
  /\ credited = [e \in Ends |-> 0]
  /\ arrived = [e \in Ends |-> 0]
  /\ delivered = [e \in Ends |-> 0]
  /\ credit = [e \in Ends |-> 0]
  /\ fin_at = [e \in Ends |-> -1]
  /\ partial = [e \in Ends |-> FALSE]
  /\ at_eof = [e \in Ends |-> -1]
  /\ writes = [e \in Ends |-> 0]
  /\ reads = [e \in Ends |-> 0]

\* Session::async_send_frame: the frame joins write_queue_ and, as long as
\* neither session has closed the transport, reaches the peer in order.
async_send_frame(e, type, n, seq, ack) ==
  link' = IF session[e] = "running" /\ session[Peer(e)] = "running"
          THEN [link EXCEPT ![Peer(e)] =
                  Append(@, [type |-> type, length |-> n,
                             seq |-> seq, ack |-> ack])]
          ELSE link

\* MuxStream::check_cleanup on the values the calling handler leaves.
check_cleanup(e, localClosed, queue) ==
  stream' = IF /\ localClosed /\ remote_closed[e] /\ queue = <<>>
               /\ session[e] # "gone"
               /\ stream[e] = "registered"
            THEN [stream EXCEPT ![e] = "removed"]
            ELSE stream

\* The user of end e may call into its stream: nothing in MuxStream refuses a
\* call after close(), and a Bridge can make one.
Callable(e) == stream[e] # "absent" /\ strand[e] = "idle"

-----------------------------------------------------------------------------
(* Calls of the user.                                                        *)

async_write(e, n) ==
  /\ Callable(e)
  /\ writes[e] < MaxWrites[e]
  /\ writes' = [writes EXCEPT ![e] = @ + 1]
  /\ \/ /\ Len(pending_writes[e]) >= MaxPendingWrites   \* no_buffer_space
        /\ UNCHANGED <<pending_writes, strand>>
     \/ /\ Len(pending_writes[e]) < MaxPendingWrites
        /\ pending_writes' = [pending_writes EXCEPT ![e] = Append(@, n)]
        /\ strand' = [strand EXCEPT ![e] = "do_write"]
  /\ UNCHANGED <<flow, input, taken, ends, place, reads, pending_reads, link,
                 posted, partial>>

\* async_read (all = TRUE) and async_read_some (all = FALSE).
async_read(e, n, all) ==
  /\ Callable(e)
  /\ reads[e] < MaxReads[e]
  /\ reads' = [reads EXCEPT ![e] = @ + 1]
  /\ \/ /\ Len(pending_reads[e]) >= MaxPendingReads     \* no_buffer_space
        /\ UNCHANGED <<pending_reads, strand>>
     \/ /\ Len(pending_reads[e]) < MaxPendingReads
        /\ pending_reads' =
             [pending_reads EXCEPT ![e] = Append(@, [size |-> n, all |-> all])]
        /\ strand' = [strand EXCEPT ![e] = "do_read"]
  /\ UNCHANGED <<flow, input, taken, ends, place, writes, pending_writes, link,
                 posted, partial>>

\* The queued bytes are dropped, read_queue_offset_ is not reset.
close(e) ==
  /\ Callable(e)
  /\ ~local_closed[e]
  /\ local_closed' = [local_closed EXCEPT ![e] = TRUE]
  /\ fin_at' = [fin_at EXCEPT ![e] = sent[e]]
  /\ async_send_frame(e, "fin", 0, sent[e], credited[e])
  /\ pending_reads' = [pending_reads EXCEPT ![e] = <<>>]
  /\ pending_writes' = [pending_writes EXCEPT ![e] = <<>>]
  /\ read_queue' = [read_queue EXCEPT ![e] = <<>>]
  /\ check_cleanup(e, TRUE, <<>>)
  /\ UNCHANGED <<flow, read_queue_offset, arrived, taken, remote_closed,
                 session, calls, strand, posted, partial>>

-----------------------------------------------------------------------------
(* The loop of MuxStream::do_write.                                          *)

Writing(e) ==
  /\ strand[e] = "do_write"
  /\ pending_writes[e] # <<>>
  /\ remote_window_size[e] > 0

do_write_exit(e) ==
  /\ strand[e] = "do_write"
  /\ pending_writes[e] = <<>> \/ remote_window_size[e] = 0
  /\ strand' = [strand EXCEPT ![e] = "idle"]
  /\ UNCHANGED <<flow, input, taken, ends, place, calls, pending_reads,
                 pending_writes, link, posted, partial>>

\* An empty write completes at once; with the session gone any write is
\* answered with connection_reset.
do_write_drop(e) ==
  /\ Writing(e)
  /\ Head(pending_writes[e]) = 0 \/ session[e] = "gone"
  /\ pending_writes' = [pending_writes EXCEPT ![e] = Tail(@)]
  /\ UNCHANGED <<flow, input, taken, ends, place, calls, pending_reads, strand,
                 link, posted, partial>>

ToSend_IgnoresWindow(e) == SmallerOf(Head(pending_writes[e]), MaxMessageSize)

ToSend(e) == SmallerOf(Head(pending_writes[e]),
                       SmallerOf(remote_window_size[e], MaxMessageSize))

do_write_frame(e) ==
  /\ Writing(e)
  /\ Head(pending_writes[e]) > 0
  /\ session[e] # "gone"
  /\ LET n == ToSend(e)
         left == Head(pending_writes[e]) - n
     IN  /\ remote_window_size' = [remote_window_size EXCEPT ![e] = @ - n]
         /\ sent' = [sent EXCEPT ![e] = @ + n]
         /\ async_send_frame(e, "data", n, sent[e] + n, credited[e])
         /\ \/ /\ left > 0
               /\ pending_writes' =
                    [pending_writes EXCEPT ![e] = <<left>> \o Tail(@)]
               /\ partial' = [partial EXCEPT ![e] = TRUE]
            \/ /\ left = 0
               /\ pending_writes' = [pending_writes EXCEPT ![e] = Tail(@)]
               /\ UNCHANGED partial
  /\ UNCHANGED <<credit, input, taken, ends, place, calls, pending_reads,
                 strand, posted>>

\* The frame of a split write failed in the transport: its handler fails all
\* the writes still pending.
partial_send_failed(e) ==
  /\ session[e] = "stopped"
  /\ partial[e]
  /\ strand[e] = "idle"
  /\ pending_writes[e] # <<>>
  /\ pending_writes' = [pending_writes EXCEPT ![e] = <<>>]
  /\ UNCHANGED <<flow, input, taken, ends, place, calls, pending_reads, strand,
                 link, posted, partial>>

-----------------------------------------------------------------------------
(* The loop of MuxStream::do_read_from_buffer.                               *)

Queued(e) ==
  IF read_queue[e] = <<>> THEN 0
  ELSE read_queue[e][Len(read_queue[e])].to - read_queue[e][1].from

\* Since available is unsigned, an offset beyond the queued bytes (one left
\* over by close()) makes it huge rather than negative.
Waits(e) ==
  /\ pending_reads[e] # <<>>
  /\ ~remote_closed[e]
  /\ \/ read_queue[e] = <<>>
     \/ /\ Head(pending_reads[e]).all
        /\ read_queue_offset[e] <= Queued(e)
        /\ Queued(e) - read_queue_offset[e] < Head(pending_reads[e]).size

SawEnd(e, position) ==
  at_eof' = [at_eof EXCEPT
               ![e] = IF @ = -1 /\ ~local_closed[e] THEN position ELSE @]

do_read_exit_NoCleanup(e) ==
  /\ strand[e] = "do_read"
  /\ pending_reads[e] = <<>> \/ Waits(e)
  /\ strand' = [strand EXCEPT ![e] = "idle"]
  /\ UNCHANGED <<flow, input, taken, ends, place, calls, pending_reads,
                 pending_writes, link, posted, partial>>

do_read_exit(e) ==
  /\ strand[e] = "do_read"
  /\ pending_reads[e] = <<>> \/ Waits(e)
  /\ strand' = [strand EXCEPT ![e] = "idle"]
  /\ check_cleanup(e, local_closed[e], read_queue[e])
  /\ UNCHANGED <<flow, input, taken, ends, session, calls, pending_reads,
                 pending_writes, link, posted, partial>>

do_read_eof_BeforeData(e) ==
  /\ strand[e] = "do_read"
  /\ pending_reads[e] # <<>>
  /\ remote_closed[e]
  /\ pending_reads' = [pending_reads EXCEPT ![e] = Tail(@)]
  /\ SawEnd(e, delivered[e])
  /\ UNCHANGED <<flow, input, consumed_since_last_update, credited, delivered,
                 ends, place, calls, pending_writes, strand, link,
                 posted, partial>>

do_read_eof(e) ==
  /\ strand[e] = "do_read"
  /\ pending_reads[e] # <<>>
  /\ read_queue[e] = <<>>
  /\ remote_closed[e]
  /\ pending_reads' = [pending_reads EXCEPT ![e] = Tail(@)]
  /\ SawEnd(e, delivered[e])
  /\ UNCHANGED <<flow, input, consumed_since_last_update, credited, delivered,
                 ends, place, calls, pending_writes, strand, link,
                 posted, partial>>

UpdateDue_OffByOne(e, consumed) ==
  consumed > UpdateThreshold /\ session[e] # "gone"

UpdateDue(e, consumed) ==
  consumed >= UpdateThreshold /\ session[e] # "gone"

\* The copied bytes count as consumed, and UpdateThreshold of them are
\* returned to the peer as credit.
Consume(e, n) ==
  LET c == consumed_since_last_update[e] + n
  IN  /\ delivered' = [delivered EXCEPT ![e] = @ + n]
      /\ \/ /\ UpdateDue(e, c)
            /\ consumed_since_last_update' =
                 [consumed_since_last_update EXCEPT ![e] = 0]
            /\ credited' = [credited EXCEPT ![e] = @ + c]
            /\ async_send_frame(e, "window_update", c, sent[e], credited[e] + c)
         \/ /\ ~UpdateDue(e, c)
            /\ consumed_since_last_update' =
                 [consumed_since_last_update EXCEPT ![e] = c]
            /\ UNCHANGED <<credited, link>>

\* The offset once k blocks of q are used up and p is the next position.
NewOffset_NotReset(q, k, p) ==
  IF k = Len(q) THEN p - q[k].from ELSE p - q[k + 1].from

NewOffset(q, k, p) == IF k = Len(q) THEN 0 ELSE p - q[k + 1].from

\* The copy loop over the blocks of read_queue_: n bytes from the offset on,
\* as many as the buffer and the queue allow; the k blocks that end at or
\* before position p are used up.
CopyBlocks(e) ==
  LET pr == Head(pending_reads[e])
      q  == read_queue[e]
      n  == SmallerOf(pr.size, Queued(e) - read_queue_offset[e])
      p  == q[1].from + read_queue_offset[e] + n
  IN  /\ read_queue_offset[e] <= q[1].to - q[1].from
      /\ \E k \in 0..Len(q) :
           /\ \A i \in 1..k : q[i].to <= p
           /\ k < Len(q) => q[k + 1].to > p
           /\ read_queue' = [read_queue EXCEPT ![e] = SubSeq(q, k + 1, Len(q))]
           /\ read_queue_offset' =
                [read_queue_offset EXCEPT ![e] = NewOffset(q, k, p)]
      /\ Consume(e, n)
      /\ \/ pr.all /\ n < pr.size /\ SawEnd(e, delivered[e] + n)
         \/ ~(pr.all /\ n < pr.size) /\ UNCHANGED at_eof

\* A stale offset beyond the first block: the unsigned difference is huge, so
\* the whole buffer is filled from behind the block, which stays queued.
CopyStale(e) ==
  LET n == Head(pending_reads[e]).size
  IN  /\ read_queue_offset[e] > read_queue[e][1].to - read_queue[e][1].from
      /\ read_queue_offset' = [read_queue_offset EXCEPT ![e] = @ + n]
      /\ Consume(e, n)
      /\ UNCHANGED <<read_queue, at_eof>>

do_read_copy(e) ==
  /\ strand[e] = "do_read"
  /\ pending_reads[e] # <<>>
  /\ read_queue[e] # <<>>
  /\ ~Waits(e)
  /\ CopyBlocks(e) \/ CopyStale(e)
  /\ pending_reads' = [pending_reads EXCEPT ![e] = Tail(@)]
  /\ UNCHANGED <<flow, arrived, ends, place, calls, pending_writes, strand,
                 posted, partial>>

-----------------------------------------------------------------------------
(* Frames.  Session::handle_frame looks the stream up on the session's      *)
(* strand and posts the stream's handler to the stream's strand.            *)

NextFrame(e) == link[e][posted[e] + 1]

handle_frame(e) ==
  /\ session[e] = "running"
  /\ posted[e] < Len(link[e])
  /\ \/ /\ stream[e] = "absent"            \* the SYN comes first
        /\ NextFrame(e).type = "syn"
        /\ stream' = [stream EXCEPT ![e] = "registered"]
        /\ link' = [link EXCEPT ![e] = Tail(@)]
        /\ UNCHANGED posted
     \/ /\ stream[e] = "registered"
        /\ posted' = [posted EXCEPT ![e] = @ + 1]
        /\ UNCHANGED <<stream, link>>
     \/ /\ stream[e] = "removed"           \* no such stream: ignored
        /\ link' = [link EXCEPT ![e] = SubSeq(@, 1, posted[e]) \o
                                       SubSeq(@, posted[e] + 2, Len(@))]
        /\ UNCHANGED <<stream, posted>>
  /\ UNCHANGED <<flow, input, taken, ends, session, calls, pending_reads,
                 pending_writes, strand, partial>>

\* The strand takes the next posted handler.
TakePosted(e, types) ==
  /\ strand[e] = "idle"
  /\ posted[e] > 0
  /\ Head(link[e]).type \in types
  /\ link' = [link EXCEPT ![e] = Tail(@)]
  /\ posted' = [posted EXCEPT ![e] = @ - 1]

handle_data(e) ==
  /\ TakePosted(e, {"data"})
  /\ LET f == Head(link[e])
     IN  /\ read_queue' = [read_queue EXCEPT ![e] =
                             Append(@, [from |-> f.seq - f.length, to |-> f.seq])]
         /\ arrived' = [arrived EXCEPT ![e] = f.seq]
  /\ strand' = [strand EXCEPT ![e] = "do_read"]
  /\ UNCHANGED <<flow, read_queue_offset, taken, ends, place, calls,
                 pending_reads, pending_writes, partial>>

NewWindow_Replaced(window, n) == SmallerOf(n, MaxMessageSize)

NewWindow_AppliedTwice(window, n) == SmallerOf(window + 2 * n, MaxMessageSize)

NewWindow(window, n) == SmallerOf(window + n, MaxMessageSize)

handle_window_update(e) ==
  /\ TakePosted(e, {"window_update"})
  /\ LET f == Head(link[e])
     IN  /\ remote_window_size' =
              [remote_window_size EXCEPT ![e] = NewWindow(@, f.length)]
         /\ credit' = [credit EXCEPT ![e] = f.ack]
  /\ strand' = [strand EXCEPT ![e] = "do_write"]
  /\ UNCHANGED <<sent, input, taken, ends, place, calls, pending_reads,
                 pending_writes, partial>>

\* On the peer's FIN, and when the session stops.
handle_close(e) ==
  /\ TakePosted(e, {"fin", "closed"})
  /\ remote_closed' = [remote_closed EXCEPT ![e] = TRUE]
  /\ strand' = [strand EXCEPT ![e] = "do_read"]
  /\ UNCHANGED <<flow, input, taken, local_closed, fin_at, place, calls,
                 pending_reads, pending_writes, partial>>

\* Session::stop: the transport is closed, what it had not yet carried to
\* either side is lost, and handle_close is posted to the stream.
session_stop(e) ==
  /\ Failures
  /\ session[e] = "running"
  /\ session' = [session EXCEPT ![e] = "stopped"]
  /\ stream' = [stream EXCEPT ![e] = IF @ = "registered" THEN "removed" ELSE @]
  /\ \E k \in posted[Peer(e)]..Len(link[Peer(e)]) :
       link' = [link EXCEPT
                  ![e] = IF stream[e] = "registered"
                         THEN Append(SubSeq(@, 1, posted[e]),
                                [type |-> "closed", length |-> 0,
                                 seq |-> sent[Peer(e)],
                                 ack |-> credited[Peer(e)]])
                         ELSE SubSeq(@, 1, posted[e]),
                  ![Peer(e)] = IF session[Peer(e)] = "running"
                               THEN SubSeq(@, 1, k) ELSE @]
  /\ posted' = [posted EXCEPT ![e] = IF stream[e] = "registered" THEN @ + 1 ELSE @]
  /\ UNCHANGED <<flow, input, taken, ends, calls, pending_reads,
                 pending_writes, strand, partial>>

\* The last reference to the stopped session is dropped.
session_gone(e) ==
  /\ session[e] = "stopped"
  /\ session' = [session EXCEPT ![e] = "gone"]
  /\ UNCHANGED <<flow, input, taken, ends, stream, calls, pending_reads,
                 pending_writes, strand, link, posted, partial>>

-----------------------------------------------------------------------------
User(e) ==
  \/ \E n \in WriteSizes[e] : async_write(e, n)
  \/ \E n \in ReadSizes[e], all \in BOOLEAN : async_read(e, n, all)
  \/ close(e)

Strand(e) ==
  \/ do_write_exit(e)
  \/ do_write_drop(e)
  \/ do_write_frame(e)
  \/ do_read_exit(e)
  \/ do_read_eof(e)
  \/ do_read_copy(e)
  \/ handle_data(e)
  \/ handle_window_update(e)
  \/ handle_close(e)

Failure(e) == partial_send_failed(e) \/ session_stop(e) \/ session_gone(e)

Next == \E e \in Ends : User(e) \/ Strand(e) \/ handle_frame(e) \/ Failure(e)

Spec == Init /\ [][Next]_vars

\* The io_context threads keep running the strands, and a transport that has
\* not failed keeps carrying frames.  Nothing is assumed of the users.
Fairness == \A e \in Ends : WF_vars(Strand(e)) /\ WF_vars(handle_frame(e))

FairSpec == Spec /\ Fairness

-----------------------------------------------------------------------------
(* Properties.                                                               *)

\* The type invariant of the stream's fields at both ends and of the frames
\* between them.
TypeOK ==
  /\ local_closed \in [Ends -> BOOLEAN]
  /\ remote_closed \in [Ends -> BOOLEAN]
  /\ remote_window_size \in [Ends -> Nat]
  /\ consumed_since_last_update \in [Ends -> Nat]
  /\ read_queue \in [Ends -> Seq(Block)]
  /\ read_queue_offset \in [Ends -> Nat]
  /\ pending_reads \in [Ends -> Seq([size : Nat \ {0}, all : BOOLEAN])]
  /\ pending_writes \in [Ends -> Seq(Nat)]
  /\ stream \in [Ends -> {"absent", "registered", "removed"}]
  /\ session \in [Ends -> {"running", "stopped", "gone"}]
  /\ strand \in [Ends -> {"idle", "do_write", "do_read"}]
  /\ link \in [Ends -> Seq(Frame)]
  /\ posted \in [Ends -> Nat]
  /\ sent \in [Ends -> Nat]
  /\ credited \in [Ends -> Nat]
  /\ arrived \in [Ends -> Nat]
  /\ delivered \in [Ends -> Nat]
  /\ credit \in [Ends -> Nat]
  /\ fin_at \in [Ends -> Nat \union {-1}]
  /\ partial \in [Ends -> BOOLEAN]
  /\ at_eof \in [Ends -> Nat \union {-1}]
  /\ writes \in [Ends -> Nat]
  /\ reads \in [Ends -> Nat]

Connected == \A e \in Ends : session[e] = "running"

\* No credit of the flow control is ever lost or made up: for a writer e and
\* its reader p, both open, the window of e, the bytes sent and not yet read,
\* the bytes read and not yet announced, and the announcements still on their
\* way add up to the initial window (do_write, do_read_from_buffer,
\* handle_window_update and its cap).
CreditConserved ==
  \A e \in Ends : LET p == Peer(e) IN
    Connected /\ ~local_closed[e] /\ ~local_closed[p] =>
      remote_window_size[e] + (sent[e] - delivered[p])
        + consumed_since_last_update[p] + (credited[p] - credit[e])
      = InitialWindow

\* However the user delays its reads, the stream of an end that has not been
\* closed never holds more than the initial window of unread bytes, and no
\* frame exceeds what the session of the receiver accepts.
ReceiverBounded ==
  \A e \in Ends :
    /\ ~local_closed[e] => Queued(e) - read_queue_offset[e] <= InitialWindow
    /\ \A i \in 1..Len(link[e]) :
         link[e][i].type = "data" => link[e][i].length <= MaxMessageSize

\* Reads of an open stream return the bytes in the order they were sent, each
\* once and none skipped: the unread blocks are adjacent, they start where
\* delivery stopped and end where arrival stopped.
ReadsInOrder ==
  \A e \in Ends : LET q == read_queue[e] IN
    ~local_closed[e] =>
      /\ q = <<>> => delivered[e] = arrived[e] /\ read_queue_offset[e] = 0
      /\ q # <<>> => /\ q[1].from + read_queue_offset[e] = delivered[e]
                     /\ delivered[e] < q[1].to
                     /\ q[Len(q)].to = arrived[e]
      /\ \A i \in 1..(Len(q) - 1) : q[i].to = q[i + 1].from

\* A reader is told of the end of the stream, by eof or by an async_read that
\* completes short, only after every byte its peer sent before the FIN has
\* been delivered; only the stop of its own session may cut the stream short.
EofAfterLastByte ==
  \A e \in Ends :
    at_eof[e] # -1 /\ session[e] = "running" =>
      /\ fin_at[Peer(e)] # -1
      /\ at_eof[e] >= fin_at[Peer(e)]

\* Writer e and reader p cannot wait for each other: when nothing is on its
\* way between two open ends and both strands are idle, e has nothing left to
\* write or p is not waiting for bytes.  (Only if no async_read asks for more
\* than InitialWindow - UpdateThreshold + 1 bytes.)
Quiet(e) == strand[e] = "idle" /\ link[e] = <<>> /\ ~local_closed[e]

NoMutualWait ==
  \A e \in Ends : LET p == Peer(e) IN
    Connected /\ Quiet(e) /\ Quiet(p) =>
      pending_writes[e] = <<>> \/ pending_reads[p] = <<>>

\* The same as a liveness property: a pending write and a pending read of the
\* other end do not both stay pending on a stream that stays open.
WriteMeetsRead ==
  \A e \in Ends : LET p == Peer(e) IN
    pending_writes[e] # <<>> /\ pending_reads[p] # <<>>
      ~> \/ pending_writes[e] = <<>> \/ pending_reads[p] = <<>>
         \/ local_closed[e] \/ local_closed[p]

\* A stream closed by both users leaves streams_ of both sessions, except
\* where bytes arrived after the close and stay in read_queue_.
ClosedStreamRemoved ==
  \A e \in Ends :
    local_closed[e] /\ local_closed[Peer(e)]
      ~> stream[e] = "removed" \/ read_queue[e] # <<>>

-----------------------------------------------------------------------------
(* The refinement: each direction is a ByteStream.                           *)

\* The position of the byte the next read gives out: the first one queued.
NextByte(e) ==
  IF read_queue[e] = <<>> THEN arrived[e]
  ELSE read_queue[e][1].from + read_queue_offset[e]

ToAcceptor == INSTANCE ByteStream WITH
  sent <- sent["opener"], fin <- fin_at["opener"],
  position <- NextByte("acceptor"), taken <- delivered["acceptor"],
  ended <- at_eof["acceptor"], broken <- session["acceptor"] # "running",
  open <- ~local_closed["acceptor"]

ToOpener == INSTANCE ByteStream WITH
  sent <- sent["acceptor"], fin <- fin_at["acceptor"],
  position <- NextByte("opener"), taken <- delivered["opener"],
  ended <- at_eof["opener"], broken <- session["opener"] # "running",
  open <- ~local_closed["opener"]

\* A MuxStream keeps the promise of a stream in both directions: whatever the
\* frames, the window, the strands and a failing session do in between, every
\* step of the two streams is for each direction a step of a ByteStream.
ImplementsByteStream == ToAcceptor!Spec /\ ToOpener!Spec
=============================================================================
