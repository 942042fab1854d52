------------------------------ MODULE Bridge ------------------------------
(***************************************************************************)
(* The loops that carry a visitor's data: common::Bridge between two        *)
(* streams (src/common/async_bridge.cpp), with and without compression, and *)
(* the UdpBridges of the client and of the server.  The bridges of a proxy  *)
(* share the proxy's RateLimiter and all share the BufferPool (the client's  *)
(* UdpBridge is given none and makes its own: its buffers are counted with   *)
(* the rest here).                                                          *)
(*                                                                          *)
(* A loop has one operation under way at a time: it reads, asks the limiter *)
(* for as many bytes as it read, writes, and reads again.  Each completion  *)
(* handler is one step; the handlers of different loops, the limiter's      *)
(* timer and the clock interleave freely.  Data is abstracted to its size.  *)
(*                                                                          *)
(*   "plain"       loops 1, 2: s1 to s2 and s2 to s1, as is                 *)
(*   "framed"      loop 1 compresses and frames, loop 2 unframes            *)
(*   "udp_server"  loop 1: stream to visitor (the other way is the          *)
(*                 listener's, see VisitorHandoff)                          *)
(*   "udp_client"  loop 1: stream to local service, loop 2: back            *)
(***************************************************************************)
EXTENDS RateLimiter, BufferPool, FiniteSets

CONSTANTS
    Bridges,   \* places for bridges; one that ended makes room for another
    KindsOf,   \* the kinds of bridge each place may hold
    Sizes      \* the lengths a read may return

ASSUME BridgeAssumption ==
    /\ IsFiniteSet(Bridges)
    /\ Users = Bridges \X {1, 2}
    /\ KindsOf \in [Bridges -> SUBSET {"plain", "framed", "udp_server", "udp_client"}]
    /\ Sizes \subseteq Nat

VARIABLES
    kind,      \* what each place holds, "none" when it is free
    limited,   \* rate_limiter_ is set
    closed,    \* stopped_, or for a UdpBridge: stream_ has been closed
    onStop,    \* history: how often on_stop_ was called
    data,      \* data1_ and data2_ of a common::Bridge
    pc,        \* the operation each loop has under way
    buf        \* the buffer the operation's handler keeps alive

bridgeVars == <<kind, limited, closed, onStop, data, pc, buf>>

vars == <<limiterVars, pool, bridgeVars>>

Loops == Bridges \X {1, 2}

Streamed(b) == kind[b] \in {"plain", "framed"}

\* The operation with which loop d of a bridge of kind k starts over: DoRead,
\* DoReadFromStream or DoReadFromLocal.
First(k, d) ==
    CASE k = "framed" /\ d = 2 -> "head"
      [] k \in {"udp_server", "udp_client"} /\ d = 1 -> "head"
      [] k = "udp_server" /\ d = 2 -> "ended"
      [] OTHER -> "read"

\* Loop l waits for a datagram of the local service, on a socket nobody closes.
FromLocal(l) == kind[l[1]] = "udp_client" /\ l[2] = 2

\* Loop l writes to a UDP socket, which outlives stream_.
ToSocket(l) == kind[l[1]] \in {"udp_server", "udp_client"} /\ l[2] = 1

\* An operation begun on a closed stream can only fail.
Begun(l, op) == IF closed[l[1]] THEN "fail" ELSE op

\* The loop begins its next read. The UDP bridge's read from the local service
\* takes its buffer first; p is the pool once the last one is given back.
ReadsAgain(l, p) ==
    IF FromLocal(l)
    THEN /\ pc' = [pc EXCEPT ![l] = "read"]
         /\ buf' = [buf EXCEPT ![l] = Got(p)]
         /\ pool' = Get(p)
    ELSE /\ pc' = [pc EXCEPT ![l] = Begun(l, First(kind[l[1]], l[2]))]
         /\ buf' = [buf EXCEPT ![l] = "none"]
         /\ pool' = p

\* The loop ends; the handler's buffer goes back.
Ends(l) ==
    /\ pc' = [pc EXCEPT ![l] = "ended"]
    /\ buf' = [buf EXCEPT ![l] = "none"]
    /\ pool' = Return(pool, buf[l])

\* Mutated form: stopped_ is not looked at.
HandleStop_Always(b) ==
    /\ closed' = [closed EXCEPT ![b] = TRUE]
    /\ onStop' = [onStop EXCEPT ![b] = @ + 1]

\* Bridge::HandleStop: both streams are closed and on_stop_ called, once.
HandleStop(b) ==
    IF closed[b]
    THEN UNCHANGED <<closed, onStop>>
    ELSE /\ closed' = [closed EXCEPT ![b] = TRUE]
         /\ onStop' = [onStop EXCEPT ![b] = @ + 1]

\* stream_->close() of the UdpBridges.
CloseStream(b) ==
    /\ closed' = [closed EXCEPT ![b] = TRUE]
    /\ UNCHANGED onStop

Stops(b) == IF Streamed(b) THEN HandleStop(b) ELSE CloseStream(b)

(***************************************************************************)
(* A bridge begins and ends.                                               *)
(***************************************************************************)

\* The constructor and Start. common::Bridge takes two data buffers, the client's
\* UdpBridge the buffer of its first receive.
Start(b, k, rl) ==
    LET p1 == Get(pool)
        two == k \in {"plain", "framed"}
    IN  /\ kind[b] = "none"
        /\ kind' = [kind EXCEPT ![b] = k]
        /\ limited' = [limited EXCEPT ![b] = rl]
        /\ data' = IF two THEN [data EXCEPT ![<<b, 1>>] = Got(pool), ![<<b, 2>>] = Got(p1)]
                           ELSE data
        /\ pc' = [pc EXCEPT ![<<b, 1>>] = First(k, 1), ![<<b, 2>>] = First(k, 2)]
        /\ buf' = [buf EXCEPT ![<<b, 2>>] = IF k = "udp_client" THEN Got(pool) ELSE @]
        /\ pool' = CASE two -> Get(p1) [] k = "udp_client" -> p1 [] OTHER -> pool
        /\ UNCHANGED <<limiterVars, closed, onStop>>

\* The last handler that held the bridge is gone, and with it the bridge.
Destroy(b) ==
    /\ kind[b] # "none"
    /\ pc[<<b, 1>>] = "ended" /\ pc[<<b, 2>>] = "ended"
    /\ kind' = [kind EXCEPT ![b] = "none"]
    /\ pool' = Return(Return(pool, data[<<b, 1>>]), data[<<b, 2>>])
    /\ data' = [data EXCEPT ![<<b, 1>>] = "none", ![<<b, 2>>] = "none"]
    /\ closed' = [closed EXCEPT ![b] = FALSE]
    /\ onStop' = [onStop EXCEPT ![b] = 0]
    /\ limited' = [limited EXCEPT ![b] = FALSE]
    /\ UNCHANGED <<limiterVars, pc, buf>>

(***************************************************************************)
(* One round of a loop.                                                    *)
(***************************************************************************)

\* write_op, send_op: the write begins. A datagram's socket is never closed.
Write(l) == pc' = [pc EXCEPT ![l] = IF ToSocket(l) THEN "write" ELSE Begun(l, "write")]

\* The end of every read: n bytes are there to write, in a buffer of kind k.
Forward(l, n, k, p) ==
    /\ buf' = [buf EXCEPT ![l] = k]
    /\ pool' = p
    /\ \/ /\ ~limited[l[1]]
          /\ Write(l)
          /\ UNCHANGED limiterVars
       \/ /\ limited[l[1]]
          /\ async_wait_passes(n)
          /\ pc' = [pc EXCEPT ![l] = "posted"]
       \/ /\ limited[l[1]]
          /\ async_wait_queues(l, n)
          /\ pc' = [pc EXCEPT ![l] = "wait"]
    /\ UNCHANGED <<kind, limited, closed, onStop, data>>

\* async_read_some or async_receive_from returned n bytes. The plain bridge
\* writes them from data1_ or data2_; the others copy them behind a header into
\* a packet of the pool, and the UDP one then lets go of the receive buffer.
ReadSome(l, n) ==
    /\ pc[l] = "read"
    /\ IF kind[l[1]] = "plain"
       THEN Forward(l, n, "none", pool)
       ELSE Forward(l, n, Got(pool), Return(Get(pool), buf[l]))

\* The header of a frame: 4 bytes on a Bridge, 2 on a UdpBridge. Only the Bridge
\* takes a buffer for the body from the pool.
ReadHeader(l) ==
    /\ pc[l] = "head"
    /\ pc' = [pc EXCEPT ![l] = Begun(l, "body")]
    /\ IF Streamed(l[1])
       THEN buf' = [buf EXCEPT ![l] = Got(pool)] /\ pool' = Get(pool)
       ELSE UNCHANGED <<buf, pool>>
    /\ UNCHANGED <<limiterVars, kind, limited, closed, onStop, data>>

\* The body of a frame. An uncompressed one of the Bridge is written from the
\* buffer it was read into; in every other case the data is copied to one more.
ReadBody(l, n, compressed) ==
    /\ pc[l] = "body"
    /\ IF Streamed(l[1]) /\ ~compressed
       THEN Forward(l, n, buf[l], pool)
       ELSE Forward(l, n, Got(pool), Return(Get(pool), buf[l]))

\* A header or a body the loop cannot use: too long, or not what zstd wrote.
BadFrame(l) ==
    /\ pc[l] \in {"head", "body"}
    /\ Ends(l)
    /\ Stops(l[1])
    /\ UNCHANGED <<limiterVars, kind, limited, data>>

\* The peer ended the stream, the read failed, or the stream was closed here.
ReadFails(l) ==
    /\ pc[l] \in {"read", "head", "body"}
    /\ Ends(l)
    /\ Stops(l[1])
    /\ UNCHANGED <<limiterVars, kind, limited, data>>

\* The operation was begun on a stream already closed.
FailsClosed(l) ==
    /\ pc[l] = "fail"
    /\ Ends(l)
    /\ Stops(l[1])
    /\ UNCHANGED <<limiterVars, kind, limited, data>>

\* The handler the limiter posted runs, whether the bridge stopped meanwhile
\* or not.
RunPosted(l) ==
    /\ pc[l] = "posted" \/ (pc[l] = "wait" /\ \A i \in DOMAIN waiting : waiting[i].user # l)
    /\ Write(l)
    /\ UNCHANGED <<limiterVars, pool, kind, limited, closed, onStop, data, buf>>

WriteDone(l) ==
    /\ pc[l] = "write"
    /\ ReadsAgain(l, Return(pool, buf[l]))
    /\ UNCHANGED <<limiterVars, kind, limited, closed, onStop, data>>

\* Mutated form: a failed write only ends its own loop.
WriteFails_Quietly(l) ==
    /\ pc[l] = "write"
    /\ Ends(l)
    /\ UNCHANGED <<limiterVars, kind, limited, data, closed, onStop>>

\* A failed write stops the bridge; a datagram the client could not send to the
\* local service ends the loop and nothing else.
WriteFails(l) ==
    /\ pc[l] = "write"
    /\ Ends(l)
    /\ IF kind[l[1]] = "udp_client" /\ l[2] = 1
       THEN UNCHANGED <<closed, onStop>>
       ELSE Stops(l[1])
    /\ UNCHANGED <<limiterVars, kind, limited, data>>

(***************************************************************************)
(* The specification.                                                      *)
(***************************************************************************)
Init ==
    /\ LimiterInit
    /\ PoolInit
    /\ kind = [b \in Bridges |-> "none"]
    /\ limited = [b \in Bridges |-> FALSE]
    /\ closed = [b \in Bridges |-> FALSE]
    /\ onStop = [b \in Bridges |-> 0]
    /\ data = [l \in Loops |-> "none"]
    /\ pc = [l \in Loops |-> "ended"]
    /\ buf = [l \in Loops |-> "none"]

Limiter ==
    /\ \/ TimerFires
       \/ Tick
       \/ \E r \in Rates : set_rate(r)
    /\ UNCHANGED <<pool, bridgeVars>>

Next ==
    \/ Limiter
    \/ \E b \in Bridges :
        \/ \E k \in KindsOf[b], rl \in BOOLEAN : Start(b, k, rl)
        \/ Destroy(b)
    \/ \E l \in Loops :
        \/ \E n \in Sizes : ReadSome(l, n)
        \/ ReadHeader(l)
        \/ \E n \in Sizes, compressed \in BOOLEAN : ReadBody(l, n, compressed)
        \/ BadFrame(l) \/ ReadFails(l) \/ FailsClosed(l)
        \/ RunPosted(l) \/ WriteDone(l) \/ WriteFails(l)

Spec == Init /\ [][Next]_vars

\* What asio is bound to run: a handler the limiter posted, the completion of an
\* operation on a closed stream, of a datagram being sent. Nothing is asked of
\* peers: an operation on an open stream may never complete.
Queued(l) ==
    \/ RunPosted(l)
    \/ FailsClosed(l)
    \/ closed[l[1]] /\ ~FromLocal(l) /\ ReadFails(l)
    \/ (closed[l[1]] \/ ToSocket(l)) /\ (WriteDone(l) \/ WriteFails(l))

\* Time passes, and the io_context's threads run what is queued.
Fairness ==
    /\ WF_vars(Tick /\ UNCHANGED <<pool, bridgeVars>>)
    /\ WF_vars(TimerFires /\ UNCHANGED <<pool, bridgeVars>>)
    /\ \A l \in Loops : WF_vars(Queued(l))
    /\ \A b \in Bridges : WF_vars(Destroy(b))

FairSpec == Spec /\ Fairness

(***************************************************************************)
(* Properties.                                                             *)
(***************************************************************************)
TypeOK ==
    /\ LimiterTypeOK
    /\ pool \in Buckets
    /\ kind \in [Bridges -> {"none", "plain", "framed", "udp_server", "udp_client"}]
    /\ limited \in [Bridges -> BOOLEAN]
    /\ closed \in [Bridges -> BOOLEAN]
    /\ onStop \in [Bridges -> Nat]
    /\ pc \in [Loops -> {"read", "head", "body", "wait", "posted", "write", "fail", "ended"}]
    /\ buf \in [Loops -> {"none", "pool", "temp"}]
    /\ data \in [Loops -> {"none", "pool", "temp"}]

\* BufferPool::Get and Return over the whole life of the bridges: allocated_count
\* is the number of pool buffers there are, free or in a bridge's hands, and it
\* never passes max_count. So no buffer is lost when a loop or a bridge ends, on
\* any path, none is given back twice, and Return's fallback, which "shouldn't
\* happen often", never happens.
PoolConserved ==
    /\ pool.free + Cardinality({l \in Loops : buf[l] = "pool"})
                 + Cardinality({l \in Loops : data[l] = "pool"}) = pool.allocated
    /\ pool.allocated <= MaxCount

\* HandleStop: the two loops of a bridge fail in any order and on different
\* threads, yet on_stop_, which counts the visitor's connection off, is called
\* once: not twice, and not less once both loops have ended.
OnStopOnce ==
    \A b \in Bridges : Streamed(b) =>
        /\ onStop[b] <= 1
        /\ (pc[<<b, 1>>] = "ended" /\ pc[<<b, 2>>] = "ended") => onStop[b] = 1

\* DoRead and its handlers: a bridge never lives on with one direction dead. A
\* loop that has ended has closed the streams, so that the other one ends too.
\* The one exception is the client's datagram that could not be sent.
NoHalfBridge ==
    \A l \in Loops :
        (/\ kind[l[1]] # "none"
         /\ pc[l] = "ended"
         /\ First(kind[l[1]], l[2]) # "ended"
         /\ ~(kind[l[1]] = "udp_client" /\ l[2] = 1)) => closed[l[1]]

\* The first of the queue asks for more than a second's worth of tokens, which
\* the bucket never holds.
TooMuch == waiting # <<>> /\ Head(waiting).bytes > rate

\* async_wait and schedule_timer: every queued write is let go, however many
\* other loops keep asking, unless the head of the queue asks for TooMuch.
EveryoneGoes == \A l \in Loops : (pc[l] = "wait") ~> (pc[l] # "wait" \/ TooMuch)

\* HandleStop: once a bridge has stopped, both its loops come to an end, the one
\* that waits for tokens too, and the bridge and its buffers are released.
StopEndsBridge ==
    \A b \in Bridges : (Streamed(b) /\ closed[b]) ~> (kind[b] = "none" \/ TooMuch)

=============================================================================
