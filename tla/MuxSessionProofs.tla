-------------------------- MODULE MuxSessionProofs --------------------------
(***************************************************************************)
(* Proofs about MuxSession, for every value of its constants: the types,   *)
(* that a silent session ends in time and a live one is kept, that the ids *)
(* of streams never meet, that the SYN of a stream arrives first, and that *)
(* a stop reaches every stream.                                            *)
(***************************************************************************)
EXTENDS MuxSession, TLAPS

-----------------------------------------------------------------------------
(* Types.                                                                    *)

\* Peer is the other end.
LEMMA PeerType ==
  ASSUME NEW s \in Ends
  PROVE  Peer(s) \in Ends /\ Peer(s) # s /\ Peer(Peer(s)) = s
BY DEF Ends, Peer

\* A sequence is empty when its length is 0.
LEMMA EmptySeq ==
  ASSUME NEW S, NEW q \in Seq(S)
  PROVE  q = <<>> <=> Len(q) = 0
OBVIOUS

\* What is behind the head of a sequence.
LEMMA TailSeq ==
  ASSUME NEW S, NEW q \in Seq(S), q # <<>>
  PROVE  /\ Tail(q) \in Seq(S)
         /\ Len(q) \in Nat \ {0}
         /\ Len(Tail(q)) = Len(q) - 1
         /\ \A i \in 1..Len(Tail(q)) : Tail(q)[i] = q[i + 1]
         /\ Tail(q) # <<>> <=> Len(q) > 1
<1> DEFINE r == Tail(q)
<1>1. Len(q) \in Nat \ {0} BY EmptySeq
<1>2. r \in Seq(S) OBVIOUS
<1>3. Len(r) = Len(q) - 1 OBVIOUS
<1>4. \A i \in 1..Len(r) : r[i] = q[i + 1] BY <1>1
<1> HIDE DEF r
<1>5. r = <<>> <=> Len(r) = 0 BY <1>2, EmptySeq
<1>6. r # <<>> <=> Len(q) > 1 BY <1>1, <1>3, <1>5
<1>7. QED BY <1>1, <1>2, <1>3, <1>4, <1>6 DEF r

\* Stream ids stay below IdSpace (next_stream_id_ += 2 on a uint32_t).
LEMMA NextIdType ==
  ASSUME NEW id \in Ids
  PROVE  NextId(id) \in Ids
BY SessionAssumption DEF NextId, Ids

\* The two first ids are ids.
LEMMA FirstIdType ==
  ASSUME NEW s \in Ends
  PROVE  FirstId(s) \in Ids
<1>1. IdSpace \in Nat /\ 2 * MaxOpens[s] + 2 < IdSpace /\ MaxOpens[s] \in Nat
  BY SessionAssumption
<1>2. QED BY <1>1 DEF FirstId, Ids

\* A frame built by a handler is a frame.
LEMMA NewFrameType ==
  ASSUME TypeOK, NEW type \in FrameTypes \union Foreign, NEW id \in Ids
  PROVE  NewFrame(type, id) \in Frame
BY TimeAssumption DEF TypeOK, NewFrame, Frame

\* Ping and pong frames carry id 0.
LEMMA ZeroId == 0 \in Ids
BY SessionAssumption, FirstIdType DEF Ids, Ends

\* async_send_frame keeps the types of the writer.
LEMMA SendType ==
  ASSUME TypeOK, NEW s \in Ends, NEW type \in FrameTypes, NEW id \in Ids,
         async_send_frame(s, type, id)
  PROVE  /\ write_queue' \in [Ends -> Seq(Frame)]
         /\ is_writing' \in [Ends -> BOOLEAN]
         /\ write_state' \in [Ends -> {"none", "sending", "sent"}]
<1>1. NewFrame(type, id) \in Frame BY NewFrameType
<1>2. Append(write_queue[s], NewFrame(type, id)) \in Seq(Frame)
  BY <1>1 DEF TypeOK
<1>3. write_queue' \in [Ends -> Seq(Frame)]
  BY <1>2 DEF async_send_frame, TypeOK
<1>4. is_writing' \in [Ends -> BOOLEAN] BY DEF async_send_frame, TypeOK
<1>5. write_state' \in [Ends -> {"none", "sending", "sent"}]
  BY DEF async_send_frame, TypeOK
<1>6. QED BY <1>3, <1>4, <1>5

\* Stopping keeps the types.
LEMMA StopType ==
  ASSUME TypeOK, NEW s \in Ends, CloseAll(s)
  PROVE  /\ stopped' \in [Ends -> BOOLEAN]
         /\ told' \in [Ends -> SUBSET Ids]
         /\ streams' \in [Ends -> SUBSET Ids]
         /\ wire' \in [Ends -> Seq(Frame)]
<1>1. CASE stopped[s]
  <2>1. stopped' = stopped /\ told' = told /\ streams' = streams /\ wire' = wire
    BY <1>1 DEF CloseAll, registry
  <2>2. QED BY <2>1 DEF TypeOK
<1>2. CASE ~stopped[s]
  <2>1. stopped' \in [Ends -> BOOLEAN] BY <1>2 DEF CloseAll, TypeOK
  <2>0. told[s] \union streams[s] \in SUBSET Ids BY DEF TypeOK
  <2>2. told' \in [Ends -> SUBSET Ids] BY <1>2, <2>0 DEF CloseAll, TypeOK
  <2>3. streams' \in [Ends -> SUBSET Ids] BY <1>2 DEF CloseAll, TypeOK
  <2>4. (IF wire[s] = <<>> THEN <<>> ELSE <<Head(wire[s])>>) \in Seq(Frame)
    BY DEF TypeOK
  <2>5. wire' \in [Ends -> Seq(Frame)] BY <1>2, <2>4 DEF CloseAll, TypeOK
  <2>6. QED BY <2>1, <2>2, <2>3, <2>5
<1>3. QED BY <1>1, <1>2

\* Whoever is told to stop has stopped.
LEMMA StopStops ==
  ASSUME TypeOK, NEW s \in Ends, CloseAll(s)
  PROVE  stopped'[s] = TRUE
<1>1. CASE stopped[s] = TRUE BY <1>1 DEF CloseAll, registry
<1>2. CASE stopped[s] = FALSE BY <1>2 DEF CloseAll, TypeOK
<1>3. QED BY <1>1, <1>2 DEF TypeOK

\* Reading a frame keeps the types.
LEMMA ReadType ==
  ASSUME TypeOK, NEW s \in Ends, ReadFrame(s)
  PROVE  /\ wire' \in [Ends -> Seq(Frame)]
         /\ last_read_time' \in [Ends -> Nat]
         /\ Head(wire[s]) \in Frame
         /\ Head(wire[s]).id \in Ids
<1>1. wire[s] \in Seq(Frame) /\ wire[s] # <<>> BY DEF ReadFrame, TypeOK
<1>2. Head(wire[s]) \in Frame /\ Tail(wire[s]) \in Seq(Frame) BY <1>1
<1>3. wire' \in [Ends -> Seq(Frame)] BY <1>2 DEF ReadFrame, TypeOK
<1>4. last_read_time' \in [Ends -> Nat] BY DEF ReadFrame, TypeOK
<1>5. Head(wire[s]).id \in Ids BY <1>2 DEF Frame
<1>6. QED BY <1>2, <1>3, <1>4, <1>5

\* The type invariant is inductive: one lemma per group of actions.
LEMMA OpenType ==
  ASSUME TypeOK, NEW s \in Ends, Open(s)
  PROVE  TypeOK'
<1>1. CASE open_stream_id(s)
  <2>1. next_stream_id[s] \in Ids /\ NextId(next_stream_id[s]) \in Ids
    BY NextIdType DEF TypeOK
  <2>2. next_stream_id' \in [Ends -> Ids]
    BY <1>1, <2>1 DEF open_stream_id, TypeOK
  <2>3. allocated' \in [Ends -> SUBSET Ids]
    BY <1>1, <2>1 DEF open_stream_id, TypeOK
  <2>4. opens' \in [Ends -> Nat] BY <1>1 DEF open_stream_id, TypeOK
  <2>5. QED
    BY <1>1, <2>2, <2>3, <2>4
    DEF open_stream_id, registry, writer, users, clock, TypeOK
<1>2. ASSUME NEW id \in allocated[s], open_stream_insert(s, id)
      PROVE  TypeOK'
  <2>1. id \in Ids BY <1>2 DEF TypeOK
  <2>2. /\ allocated' \in [Ends -> SUBSET Ids]
        /\ inserted' \in [Ends -> SUBSET Ids]
    BY <1>2, <2>1 DEF open_stream_insert, TypeOK
  <2>3. streams' \in [Ends -> SUBSET Ids]
    BY <1>2, <2>1 DEF open_stream_insert, TypeOK
  <2>4. orphans' \in [Ends -> SUBSET Ids]
    BY <1>2, <2>1 DEF open_stream_insert, TypeOK
  <2>5. QED
    BY <1>2, <2>2, <2>3, <2>4
    DEF open_stream_insert, writer, users, clock, TypeOK
<1>3. ASSUME NEW id \in inserted[s], open_stream_syn(s, id)
      PROVE  TypeOK'
  <2>1. id \in Ids BY <1>3 DEF TypeOK
  <2>2. inserted' \in [Ends -> SUBSET Ids] /\ held' \in [Ends -> SUBSET Ids]
    BY <1>3, <2>1 DEF open_stream_syn, TypeOK
  <2>3. async_send_frame(s, "syn", id) BY <1>3 DEF open_stream_syn
  <2>4. QED
    BY <1>3, <2>1, <2>2, <2>3, SendType
    DEF open_stream_syn, registry, clock, TypeOK, FrameTypes
<1>4. QED BY <1>1, <1>2, <1>3 DEF Open

\* What users and owners do keeps the types.
LEMMA UserType ==
  ASSUME TypeOK, NEW s \in Ends, User(s)
  PROVE  TypeOK'
<1>1. ASSUME NEW id \in held[s], stream_data(s, id)
      PROVE  TypeOK'
  <2>1. id \in Ids BY <1>1 DEF TypeOK
  <2>2. sends' \in [Ends -> Nat] BY <1>1 DEF stream_data, TypeOK
  <2>3. async_send_frame(s, "data", id) BY <1>1 DEF stream_data
  <2>4. QED
    BY <1>1, <2>1, <2>2, <2>3, SendType
    DEF stream_data, registry, opening, clock, TypeOK, FrameTypes
<1>2. ASSUME NEW id \in held[s], stream_fin(s, id)
      PROVE  TypeOK'
  <2>1. id \in Ids BY <1>2 DEF TypeOK
  <2>2. fin_sent' \in [Ends -> SUBSET Ids] BY <1>2, <2>1 DEF stream_fin, TypeOK
  <2>3. async_send_frame(s, "fin", id) BY <1>2 DEF stream_fin
  <2>4. QED
    BY <1>2, <2>1, <2>2, <2>3, SendType
    DEF stream_fin, registry, opening, clock, TypeOK, FrameTypes
<1>3. CASE stop(s)
  <2>1. CloseAll(s) BY <1>3 DEF stop, Stop
  <2>2. timer' \in [Ends -> {"armed", "fired", "off"}]
    BY <1>3 DEF stop, Stop, TypeOK
  <2>3. QED
    BY <1>3, <2>1, <2>2, StopType DEF stop, opening, writer, users, TypeOK
<1>4. QED BY <1>1, <1>2, <1>3 DEF User

\* The steps of do_write keep the types: the queue has a front frame then.
LEMMA WriteType ==
  ASSUME TypeOK, NEW s \in Ends, Write(s),
         \* as QueueHasWriter says
         write_state[s] # "none" => write_queue[s] # <<>>
  PROVE  TypeOK'
<1>0. write_state[s] # "none" =>
        Head(write_queue[s]) \in Frame /\ Tail(write_queue[s]) \in Seq(Frame)
  BY DEF TypeOK
<1>1. CASE transport_write(s)
  <2>1. Head(write_queue[s]) \in Frame BY <1>0, <1>1 DEF transport_write
  <2>2. Append(wire[Peer(s)], Head(write_queue[s])) \in Seq(Frame)
    BY <2>1, PeerType DEF TypeOK
  <2>3. wire' \in [Ends -> Seq(Frame)]
    BY <1>1, <2>2, PeerType DEF transport_write, TypeOK
  <2>4. write_state' \in [Ends -> {"none", "sending", "sent"}]
    BY <1>1 DEF transport_write, TypeOK
  <2>5. QED
    BY <1>1, <2>3, <2>4 DEF transport_write, registry, opening, users, clock, TypeOK
<1>2. CASE write_completed(s)
  <2>1. write_queue' \in [Ends -> Seq(Frame)]
    BY <1>0, <1>2 DEF write_completed, TypeOK
  <2>2. is_writing' \in [Ends -> BOOLEAN] BY <1>2 DEF write_completed, TypeOK
  <2>3. write_state' \in [Ends -> {"none", "sending", "sent"}]
    BY <1>2 DEF write_completed, TypeOK
  <2>4. QED
    BY <1>2, <2>1, <2>2, <2>3
    DEF write_completed, registry, opening, users, clock, TypeOK
<1>3. CASE write_failed(s)
  <2>1. write_queue' \in [Ends -> Seq(Frame)]
    BY <1>0, <1>3 DEF write_failed, TypeOK
  <2>2. write_state' \in [Ends -> {"none", "sending", "sent"}]
    BY <1>3 DEF write_failed, TypeOK
  <2>3. CloseAll(s) BY <1>3 DEF write_failed, Stop
  <2>4. timer' \in [Ends -> {"armed", "fired", "off"}]
    BY <1>3 DEF write_failed, Stop, TypeOK
  <2>5. QED
    BY <1>3, <2>1, <2>2, <2>3, <2>4, StopType
    DEF write_failed, opening, users, TypeOK
<1>4. QED BY <1>1, <1>2, <1>3 DEF Write

\* The read handlers keep the types.
LEMMA ReadsType ==
  ASSUME TypeOK, NEW s \in Ends, Read(s)
  PROVE  TypeOK'
<1>1. CASE handle_syn(s)
  <2>1. ReadFrame(s) /\ Head(wire[s]).id \in Ids
    BY <1>1, ReadType DEF handle_syn
  <2>2. CASE /\ streams' = [streams EXCEPT ![s] = @ \union {Head(wire[s]).id}]
             /\ held' = [held EXCEPT ![s] = @ \union {Head(wire[s]).id}]
             /\ async_send_frame(s, "ack", Head(wire[s]).id)
    <3>1. streams' \in [Ends -> SUBSET Ids] BY <2>1, <2>2 DEF TypeOK
    <3>2. held' \in [Ends -> SUBSET Ids] BY <2>1, <2>2 DEF TypeOK
    <3>3. QED
      BY <1>1, <2>1, <2>2, <3>1, <3>2, SendType, ReadType
      DEF handle_syn, opening, clock, TypeOK, FrameTypes
  <2>3. CASE UNCHANGED <<streams, held, writer>>
    BY <1>1, <2>1, <2>3, ReadType DEF handle_syn, opening, writer, clock, TypeOK
  <2>4. QED BY <1>1, <2>2, <2>3 DEF handle_syn
<1>2. CASE handle_data(s)
  BY <1>2, ReadType
  DEF handle_data, registry, opening, writer, users, clock, TypeOK
<1>3. CASE handle_fin(s)
  <2>1. ReadFrame(s) BY <1>3 DEF handle_fin
  <2>2. told' \in [Ends -> SUBSET Ids] BY <1>3 DEF handle_fin, TypeOK
  <2>3. QED
    BY <1>3, <2>1, <2>2, ReadType
    DEF handle_fin, opening, writer, users, clock, TypeOK
<1>4. CASE handle_ping(s)
  <2>1. ReadFrame(s) /\ async_send_frame(s, "pong", 0) BY <1>4 DEF handle_ping
  <2>2. QED
    BY <1>4, <2>1, ReadType, SendType, ZeroId
    DEF handle_ping, registry, opening, users, clock, TypeOK, FrameTypes
<1>5. CASE handle_foreign(s)
  <2>1. CloseAll(s) BY <1>5 DEF handle_foreign, Stop
  <2>2. timer' \in [Ends -> {"armed", "fired", "off"}]
    BY <1>5 DEF handle_foreign, Stop, TypeOK
  <2>3. last_read_time' \in [Ends -> Nat] BY <1>5 DEF handle_foreign, TypeOK
  <2>4. QED
    BY <1>5, <2>1, <2>2, <2>3, StopType
    DEF handle_foreign, opening, writer, users, TypeOK
<1>6. CASE read_failed(s)
  <2>1. CloseAll(s) BY <1>6 DEF read_failed, Stop
  <2>2. timer' \in [Ends -> {"armed", "fired", "off"}]
    BY <1>6 DEF read_failed, Stop, TypeOK
  <2>3. QED
    BY <1>6, <2>1, <2>2, StopType DEF read_failed, opening, writer, users, TypeOK
<1>7. CASE read_after_stop(s)
  <2>1. Tail(wire[s]) \in Seq(Frame) BY <1>7 DEF read_after_stop, TypeOK
  <2>2. wire' \in [Ends -> Seq(Frame)] BY <1>7, <2>1 DEF read_after_stop, TypeOK
  <2>3. QED
    BY <1>7, <2>2
    DEF read_after_stop, registry, opening, writer, users, clock, TypeOK
<1>8. QED BY <1>1, <1>2, <1>3, <1>4, <1>5, <1>6, <1>7 DEF Read

\* The heartbeat keeps the types.
LEMMA TimerType ==
  ASSUME TypeOK, NEW s \in Ends, Timer(s)
  PROVE  TypeOK'
<1>1. CASE timer_expires(s)
  <2>1. timer' \in [Ends -> {"armed", "fired", "off"}]
    BY <1>1 DEF timer_expires, TypeOK
  <2>2. QED
    BY <1>1, <2>1
    DEF timer_expires, registry, opening, writer, users, TypeOK
<1>2. CASE heartbeat(s)
  <2>1. CASE /\ CloseAll(s)
             /\ timer' = [timer EXCEPT ![s] = "off"]
             /\ UNCHANGED <<writer, heartbeat_at>>
    <3>1. timer' \in [Ends -> {"armed", "fired", "off"}] BY <2>1 DEF TypeOK
    <3>2. QED
      BY <1>2, <2>1, <3>1, StopType DEF heartbeat, opening, writer, users, TypeOK
  <2>2. CASE /\ async_send_frame(s, "ping", 0)
             /\ timer' = [timer EXCEPT ![s] = "armed"]
             /\ heartbeat_at' = [heartbeat_at EXCEPT ![s] = now + HeartbeatPeriod]
             /\ UNCHANGED <<registry, wire>>
    <3>1. timer' \in [Ends -> {"armed", "fired", "off"}] BY <2>2 DEF TypeOK
    <3>2. heartbeat_at' \in [Ends -> Nat] BY <2>2, TimeAssumption DEF TypeOK
    <3>3. QED
      BY <1>2, <2>2, <3>1, <3>2, SendType, ZeroId
      DEF heartbeat, registry, opening, users, TypeOK, FrameTypes
  <2>3. QED BY <1>2, <2>1, <2>2 DEF heartbeat
<1>3. QED BY <1>1, <1>2 DEF Timer

\* Removing a stream keeps the types.
LEMMA CleanupType ==
  ASSUME TypeOK, NEW s \in Ends, Cleanup(s)
  PROVE  TypeOK'
<1>1. PICK id \in streams[s] : remove_stream(s, id) BY DEF Cleanup
<1>2. streams' \in [Ends -> SUBSET Ids] BY <1>1 DEF remove_stream, TypeOK
<1>3. QED
  BY <1>1, <1>2 DEF remove_stream, opening, writer, users, clock, TypeOK

\* The transport and time keep the types.
LEMMA EnvironmentType ==
  ASSUME TypeOK, Environment
  PROVE  TypeOK'
<1>1. ASSUME NEW how \in Faults, link_fails(how)
      PROVE  TypeOK'
  <2>1. link' \in {"up", "silent", "broken"}
    BY <1>1, SessionAssumption DEF link_fails
  <2>2. PICK k \in 0..Len(wire["client"]), m \in 0..Len(wire["server"]) :
          wire' = [wire EXCEPT !["client"] = SubSeq(@, 1, k),
                               !["server"] = SubSeq(@, 1, m)]
    BY <1>1 DEF link_fails
  <2>3. wire["client"] \in Seq(Frame) /\ wire["server"] \in Seq(Frame)
    BY DEF TypeOK, Ends
  <2>4. /\ SubSeq(wire["client"], 1, k) \in Seq(Frame)
        /\ SubSeq(wire["server"], 1, m) \in Seq(Frame)
    BY <2>3
  <2>5. wire' \in [Ends -> Seq(Frame)] BY <2>2, <2>4 DEF TypeOK, Ends
  <2>6. QED
    BY <1>1, <2>1, <2>5
    DEF link_fails, registry, opening, writer, users, clock, TypeOK
<1>2. ASSUME NEW s \in Ends, NEW type \in Foreign, foreign_frame(s, type)
      PROVE  TypeOK'
  <2>1. Append(wire[s], NewFrame(type, 0)) \in Seq(Frame)
    BY NewFrameType, ZeroId DEF TypeOK
  <2>2. wire' \in [Ends -> Seq(Frame)] BY <1>2, <2>1 DEF foreign_frame, TypeOK
  <2>3. QED
    BY <1>2, <2>2
    DEF foreign_frame, registry, opening, writer, users, clock, TypeOK
<1>3. CASE Tick
  BY <1>3 DEF Tick, registry, opening, writer, users, clock, TypeOK
<1>4. QED BY <1>1, <1>2, <1>3 DEF Environment

-----------------------------------------------------------------------------
(* The write queue and its writer.                                           *)

\* QueueHasWriter, and that is_writing_ of a running session tells the truth.
WriterInv ==
  \A s \in Ends :
    /\ write_state[s] # "none" => write_queue[s] # <<>> /\ is_writing[s]
    /\ ~stopped[s] => /\ write_queue[s] # <<>> <=> write_state[s] # "none"
                      /\ is_writing[s] <=> write_state[s] # "none"

\* Queueing a frame keeps it (async_send_frame).
LEMMA SendWriter ==
  ASSUME TypeOK, WriterInv, NEW s \in Ends, NEW type \in FrameTypes,
         NEW id \in Ids, async_send_frame(s, type, id),
         \A r \in Ends : ~stopped'[r] => ~stopped[r]
  PROVE  WriterInv'
<1> SUFFICES ASSUME NEW r \in Ends
             PROVE  /\ write_state'[r] # "none" =>
                         write_queue'[r] # <<>> /\ is_writing'[r]
                    /\ ~stopped'[r] =>
                         /\ write_queue'[r] # <<>> <=> write_state'[r] # "none"
                         /\ is_writing'[r] <=> write_state'[r] # "none"
  BY DEF WriterInv
<1>1. CASE r = s
  <2>1. write_queue'[s] = Append(write_queue[s], NewFrame(type, id))
    BY DEF async_send_frame, TypeOK
  <2>2. write_queue'[s] # <<>>
    <3>1. NewFrame(type, id) \in Frame BY NewFrameType
    <3>2. write_queue[s] \in Seq(Frame) BY DEF TypeOK
    <3>3. QED BY <2>1, <3>1, <3>2
  <2>3. is_writing'[s] BY DEF async_send_frame, TypeOK
  <2>4. write_state'[s] = IF is_writing[s] THEN write_state[s] ELSE "sending"
    BY DEF async_send_frame, TypeOK
  <2>5. QED BY <1>1, <2>2, <2>3, <2>4 DEF WriterInv
<1>2. CASE r # s
  <2>1. /\ write_queue'[r] = write_queue[r]
        /\ is_writing'[r] = is_writing[r]
        /\ write_state'[r] = write_state[r]
    BY <1>2 DEF async_send_frame, TypeOK
  <2>2. QED BY <2>1 DEF WriterInv
<1>3. QED BY <1>1, <1>2

\* Steps that leave the writer alone keep it: stopping is for good.
LEMMA SameWriter ==
  ASSUME WriterInv, UNCHANGED writer,
         \A r \in Ends : ~stopped'[r] => ~stopped[r]
  PROVE  WriterInv'
BY DEF WriterInv, writer

\* A stopped session stays stopped.
LEMMA StopIsFinal ==
  ASSUME TypeOK, [Next]_vars
  PROVE  \A r \in Ends : ~stopped'[r] => ~stopped[r]
<1>1. ASSUME NEW s \in Ends, CloseAll(s)
      PROVE  \A r \in Ends : ~stopped'[r] => ~stopped[r]
  BY <1>1 DEF CloseAll, registry, TypeOK
<1>2. CASE UNCHANGED vars BY <1>2 DEF vars, registry
<1>3. ASSUME NEW s \in Ends, Open(s)
      PROVE  \A r \in Ends : ~stopped'[r] => ~stopped[r]
  BY <1>3 DEF Open, open_stream_id, open_stream_insert, open_stream_syn, registry
<1>4. ASSUME NEW s \in Ends, User(s)
      PROVE  \A r \in Ends : ~stopped'[r] => ~stopped[r]
  BY <1>1, <1>4 DEF User, stream_data, stream_fin, stop, Stop, registry
<1>5. ASSUME NEW s \in Ends, Write(s)
      PROVE  \A r \in Ends : ~stopped'[r] => ~stopped[r]
  BY <1>1, <1>5
  DEF Write, transport_write, write_completed, write_failed, Stop, registry
<1>6. ASSUME NEW s \in Ends, Read(s)
      PROVE  \A r \in Ends : ~stopped'[r] => ~stopped[r]
  BY <1>1, <1>6
  DEF Read, handle_syn, handle_data, handle_fin, handle_ping, handle_foreign,
      read_failed, read_after_stop, Stop, registry
<1>7. ASSUME NEW s \in Ends, Timer(s)
      PROVE  \A r \in Ends : ~stopped'[r] => ~stopped[r]
  BY <1>1, <1>7 DEF Timer, timer_expires, heartbeat, registry
<1>8. ASSUME NEW s \in Ends, Cleanup(s)
      PROVE  \A r \in Ends : ~stopped'[r] => ~stopped[r]
  BY <1>8 DEF Cleanup, remove_stream
<1>9. CASE Environment
  BY <1>9 DEF Environment, link_fails, foreign_frame, Tick, registry
<1>10. QED
  BY <1>2, <1>3, <1>4, <1>5, <1>6, <1>7, <1>8, <1>9 DEF Next

\* Every step keeps WriterInv.
LEMMA WriterStep ==
  ASSUME TypeOK, WriterInv, [Next]_vars
  PROVE  WriterInv'
<1>0. \A r \in Ends : ~stopped'[r] => ~stopped[r] BY StopIsFinal
<1>1. ASSUME NEW s \in Ends, Open(s)
      PROVE  WriterInv'
  <2>1. CASE open_stream_id(s) BY <1>0, <2>1, SameWriter DEF open_stream_id
  <2>2. ASSUME NEW id \in allocated[s], open_stream_insert(s, id)
        PROVE  WriterInv'
    BY <1>0, <2>2, SameWriter DEF open_stream_insert
  <2>3. ASSUME NEW id \in inserted[s], open_stream_syn(s, id)
        PROVE  WriterInv'
    <3>1. id \in Ids /\ async_send_frame(s, "syn", id)
      BY <2>3 DEF open_stream_syn, TypeOK
    <3>2. QED BY <1>0, <3>1, SendWriter DEF FrameTypes
  <2>4. QED BY <1>1, <2>1, <2>2, <2>3 DEF Open
<1>2. ASSUME NEW s \in Ends, User(s)
      PROVE  WriterInv'
  <2>1. ASSUME NEW id \in held[s], stream_data(s, id)
        PROVE  WriterInv'
    <3>1. id \in Ids /\ async_send_frame(s, "data", id)
      BY <2>1 DEF stream_data, TypeOK
    <3>2. QED BY <1>0, <3>1, SendWriter DEF FrameTypes
  <2>2. ASSUME NEW id \in held[s], stream_fin(s, id)
        PROVE  WriterInv'
    <3>1. id \in Ids /\ async_send_frame(s, "fin", id)
      BY <2>2 DEF stream_fin, TypeOK
    <3>2. QED BY <1>0, <3>1, SendWriter DEF FrameTypes
  <2>3. CASE stop(s) BY <1>0, <2>3, SameWriter DEF stop
  <2>4. QED BY <1>2, <2>1, <2>2, <2>3 DEF User
<1>3. ASSUME NEW s \in Ends, Write(s)
      PROVE  WriterInv'
  <2>1. CASE transport_write(s)
    BY <1>0, <2>1 DEF transport_write, WriterInv, TypeOK
  <2>2. CASE write_completed(s)
    <3>1. write_queue[s] \in Seq(Frame) /\ write_queue[s] # <<>>
      BY <2>2 DEF write_completed, WriterInv, TypeOK
    <3>2. Tail(write_queue[s]) # <<>> <=> Len(write_queue[s]) > 1 BY <3>1, TailSeq
    <3>3. /\ write_queue'[s] = Tail(write_queue[s])
          /\ is_writing'[s] = (Len(write_queue[s]) > 1)
          /\ write_state'[s] = IF Len(write_queue[s]) > 1 THEN "sending"
                               ELSE "none"
      BY <2>2 DEF write_completed, TypeOK
    <3>4. \A r \in Ends \ {s} : /\ write_queue'[r] = write_queue[r]
                                /\ is_writing'[r] = is_writing[r]
                                /\ write_state'[r] = write_state[r]
      BY <2>2 DEF write_completed, TypeOK
    <3>5. QED BY <1>0, <3>2, <3>3, <3>4 DEF WriterInv
  <2>3. CASE write_failed(s)
    <3>0. CloseAll(s) BY <2>3 DEF write_failed, Stop
    <3>1. stopped'[s] BY <3>0, StopStops
    <3>2. write_state'[s] = "none" BY <2>3 DEF write_failed, TypeOK
    <3>3. \A r \in Ends \ {s} : /\ write_queue'[r] = write_queue[r]
                                /\ is_writing'[r] = is_writing[r]
                                /\ write_state'[r] = write_state[r]
      BY <2>3 DEF write_failed, TypeOK
    <3>4. QED BY <1>0, <3>1, <3>2, <3>3 DEF WriterInv
  <2>4. QED BY <1>3, <2>1, <2>2, <2>3 DEF Write
<1>4. ASSUME NEW s \in Ends, Read(s)
      PROVE  WriterInv'
  <2>1. CASE handle_syn(s)
    <3>1. Head(wire[s]).id \in Ids BY <2>1, ReadType DEF handle_syn
    <3>2. async_send_frame(s, "ack", Head(wire[s]).id) \/ UNCHANGED writer
      BY <2>1 DEF handle_syn
    <3>3. QED BY <1>0, <3>1, <3>2, SendWriter, SameWriter DEF FrameTypes
  <2>2. CASE handle_ping(s)
    <3>1. async_send_frame(s, "pong", 0) BY <2>2 DEF handle_ping
    <3>2. QED BY <1>0, <3>1, SendWriter, ZeroId DEF FrameTypes
  <2>3. CASE \/ handle_data(s) \/ handle_fin(s) \/ handle_foreign(s)
             \/ read_failed(s) \/ read_after_stop(s)
    <3>1. UNCHANGED writer
      BY <2>3 DEF handle_data, handle_fin, handle_foreign, read_failed,
                  read_after_stop
    <3>2. QED BY <1>0, <3>1, SameWriter
  <2>4. QED BY <1>4, <2>1, <2>2, <2>3 DEF Read
<1>5. ASSUME NEW s \in Ends, Timer(s)
      PROVE  WriterInv'
  <2>1. async_send_frame(s, "ping", 0) \/ UNCHANGED writer
    BY <1>5 DEF Timer, timer_expires, heartbeat, writer
  <2>2. QED BY <1>0, <2>1, SendWriter, SameWriter, ZeroId DEF FrameTypes
<1>6. ASSUME NEW s \in Ends, Cleanup(s)
      PROVE  WriterInv'
  BY <1>0, <1>6, SameWriter DEF Cleanup, remove_stream
<1>7. CASE Environment
  BY <1>0, <1>7, SameWriter DEF Environment, link_fails, foreign_frame, Tick
<1>8. CASE UNCHANGED vars BY <1>0, <1>8, SameWriter DEF vars
<1>9. QED
  BY <1>1, <1>2, <1>3, <1>4, <1>5, <1>6, <1>7, <1>8 DEF Next

\* Every step keeps the types.
LEMMA TypeStep ==
  ASSUME TypeOK, WriterInv, [Next]_vars
  PROVE  TypeOK'
<1>1. ASSUME NEW s \in Ends, Write(s)
      PROVE  TypeOK'
  BY <1>1, WriteType DEF WriterInv
<1>2. CASE UNCHANGED vars
  BY <1>2 DEF vars, registry, opening, writer, users, clock, TypeOK
<1>3. QED
  BY <1>1, <1>2, OpenType, UserType, ReadsType, TimerType, CleanupType,
     EnvironmentType
  DEF Next

-----------------------------------------------------------------------------
(* Silence: the timer of a session is never armed beyond the latest moment   *)
(* at which the session may still be running.                                *)

\* For a session s whose timer has not ended, the next heartbeat comes within
\* the limit of the last read, and it is not overdue; a timer that has ended
\* belongs to a stopped session.
SilenceInv ==
  \A s \in Ends :
    /\ last_read_time[s] <= now
    /\ timer[s] = "off" => stopped[s]
    /\ timer[s] # "off" =>
         /\ now <= heartbeat_at[s]
         /\ heartbeat_at[s] <= now + HeartbeatPeriod
         /\ heartbeat_at[s] <= last_read_time[s] + IdleLimit + HeartbeatPeriod
    /\ timer[s] = "fired" => now = heartbeat_at[s]

\* Steps after which no read is older, no timer has changed and no time has
\* passed keep it.
LEMMA SilenceSame ==
  ASSUME TypeOK, TypeOK', SilenceInv,
         \A r \in Ends : stopped[r] => stopped'[r],
         now' = now, heartbeat_at' = heartbeat_at,
         \A r \in Ends : timer'[r] = timer[r] \/ (timer'[r] = "off" /\ stopped'[r]),
         \A r \in Ends : last_read_time'[r] = last_read_time[r]
                         \/ last_read_time'[r] = now
  PROVE  SilenceInv'
<1> SUFFICES ASSUME NEW s \in Ends
             PROVE  /\ last_read_time'[s] <= now'
                    /\ timer'[s] = "off" => stopped'[s]
                    /\ timer'[s] # "off" =>
                         /\ now' <= heartbeat_at'[s]
                         /\ heartbeat_at'[s] <= now' + HeartbeatPeriod
                         /\ heartbeat_at'[s] <= last_read_time'[s] + IdleLimit
                                                  + HeartbeatPeriod
                    /\ timer'[s] = "fired" => now' = heartbeat_at'[s]
  BY DEF SilenceInv
<1>1. /\ now \in Nat /\ last_read_time[s] \in Nat /\ heartbeat_at[s] \in Nat
      /\ HeartbeatPeriod \in Nat /\ IdleLimit \in Nat
  BY TimeAssumption DEF TypeOK
<1>2. last_read_time[s] <= last_read_time'[s] /\ last_read_time'[s] <= now
      /\ last_read_time'[s] \in Nat
  BY <1>1 DEF SilenceInv
<1>3. timer'[s] = "off" => stopped'[s] BY DEF SilenceInv
<1>4. ASSUME timer'[s] # "off"
      PROVE  /\ now <= heartbeat_at[s]
             /\ heartbeat_at[s] <= now + HeartbeatPeriod
             /\ heartbeat_at[s] <= last_read_time'[s] + IdleLimit
                                     + HeartbeatPeriod
  <2>1. timer[s] # "off" BY <1>4
  <2>2. /\ now <= heartbeat_at[s]
        /\ heartbeat_at[s] <= now + HeartbeatPeriod
        /\ heartbeat_at[s] <= last_read_time[s] + IdleLimit + HeartbeatPeriod
    BY <2>1 DEF SilenceInv
  <2>3. QED BY <1>1, <1>2, <2>2
<1>5. timer'[s] = "fired" => now' = heartbeat_at'[s] BY DEF SilenceInv
<1>6. QED BY <1>2, <1>3, <1>4, <1>5

\* What stopping does to the timers.
LEMMA StopTimer ==
  ASSUME TypeOK, NEW s \in Ends, Stop(s)
  PROVE  \A r \in Ends : timer'[r] = timer[r] \/ (timer'[r] = "off" /\ stopped'[r])
<1>1. stopped'[s] = TRUE BY StopStops DEF Stop
<1>2. \A r \in Ends \ {s} : timer'[r] = timer[r] BY DEF Stop, TypeOK
<1>3. timer'[s] = timer[s] \/ timer'[s] = "off" BY DEF Stop, TypeOK
<1>4. QED BY <1>1, <1>2, <1>3

\* Every step keeps SilenceInv.
LEMMA SilenceStep ==
  ASSUME TypeOK, TypeOK', SilenceInv, [Next]_vars
  PROVE  SilenceInv'
<1>0. \A r \in Ends : stopped[r] => stopped'[r] BY StopIsFinal DEF TypeOK
<1>1. ASSUME NEW s \in Ends, Open(s)
      PROVE  SilenceInv'
  <2>1. UNCHANGED <<clock, last_read_time, now>>
    BY <1>1 DEF Open, open_stream_id, open_stream_insert, open_stream_syn
  <2>2. QED BY <1>0, <2>1, SilenceSame DEF clock
<1>2. ASSUME NEW s \in Ends, User(s)
      PROVE  SilenceInv'
  <2>1. CASE stop(s)
    <3>1. Stop(s) /\ UNCHANGED <<heartbeat_at, last_read_time, now>>
      BY <2>1 DEF stop
    <3>2. QED BY <1>0, <3>1, StopTimer, SilenceSame
  <2>2. CASE \E id \in held[s] : stream_data(s, id) \/ stream_fin(s, id)
    <3>1. UNCHANGED <<clock, last_read_time, now>>
      BY <2>2 DEF stream_data, stream_fin
    <3>2. QED BY <1>0, <3>1, SilenceSame DEF clock
  <2>3. QED BY <1>2, <2>1, <2>2 DEF User
<1>3. ASSUME NEW s \in Ends, Write(s)
      PROVE  SilenceInv'
  <2>1. CASE write_failed(s)
    <3>1. Stop(s) /\ UNCHANGED <<heartbeat_at, last_read_time, now>>
      BY <2>1 DEF write_failed
    <3>2. QED BY <1>0, <3>1, StopTimer, SilenceSame
  <2>2. CASE transport_write(s) \/ write_completed(s)
    <3>1. UNCHANGED <<clock, last_read_time, now>>
      BY <2>2 DEF transport_write, write_completed
    <3>2. QED BY <1>0, <3>1, SilenceSame DEF clock
  <2>3. QED BY <1>3, <2>1, <2>2 DEF Write
<1>4. ASSUME NEW s \in Ends, Read(s)
      PROVE  SilenceInv'
  <2>1. CASE handle_foreign(s) \/ read_failed(s)
    <3>1. Stop(s) /\ UNCHANGED <<heartbeat_at, now>>
      BY <2>1 DEF handle_foreign, read_failed
    <3>2. \A r \in Ends : last_read_time'[r] = last_read_time[r]
                          \/ last_read_time'[r] = now
      BY <2>1 DEF handle_foreign, read_failed, TypeOK
    <3>3. QED BY <1>0, <3>1, <3>2, StopTimer, SilenceSame
  <2>2. CASE read_after_stop(s)
    <3>1. UNCHANGED <<clock, last_read_time, now>> BY <2>2 DEF read_after_stop
    <3>2. QED BY <1>0, <3>1, SilenceSame DEF clock
  <2>3. CASE handle_syn(s) \/ handle_data(s) \/ handle_fin(s) \/ handle_ping(s)
    <3>1. ReadFrame(s) /\ UNCHANGED <<clock, now>>
      BY <2>3 DEF handle_syn, handle_data, handle_fin, handle_ping
    <3>2. \A r \in Ends : last_read_time'[r] = last_read_time[r]
                          \/ last_read_time'[r] = now
      BY <3>1 DEF ReadFrame, TypeOK
    <3>3. QED BY <1>0, <3>1, <3>2, SilenceSame DEF clock
  <2>4. QED BY <1>4, <2>1, <2>2, <2>3 DEF Read
<1>5. ASSUME NEW s \in Ends, Timer(s)
      PROVE  SilenceInv'
  <2>0. /\ now \in Nat /\ HeartbeatPeriod \in Nat /\ IdleLimit \in Nat
        /\ last_read_time[s] \in Nat
    BY TimeAssumption DEF TypeOK
  <2>1. CASE timer_expires(s)
    <3>1. /\ timer[s] = "armed" /\ now = heartbeat_at[s] /\ timer'[s] = "fired"
          /\ \A r \in Ends \ {s} : timer'[r] = timer[r]
          /\ UNCHANGED <<stopped, heartbeat_at, last_read_time, now>>
      BY <2>1 DEF timer_expires, registry, TypeOK
    <3>2. QED BY <3>1 DEF SilenceInv
  <2>2. CASE heartbeat(s) /\ Zombie(s)
    <3>1. CloseAll(s) BY <2>2 DEF heartbeat
    <3>2. stopped'[s] = TRUE BY <3>1, StopStops
    <3>3. /\ \A r \in Ends : timer'[r] = timer[r] \/ (timer'[r] = "off" /\ stopped'[r])
          /\ UNCHANGED <<heartbeat_at, last_read_time, now>>
      BY <2>2, <3>2 DEF heartbeat, TypeOK
    <3>4. QED BY <1>0, <3>3, SilenceSame
  <2>3. CASE heartbeat(s) /\ ~Zombie(s)
    <3>1. /\ timer'[s] = "armed" /\ timer[s] = "fired"
          /\ heartbeat_at'[s] = now + HeartbeatPeriod
          /\ \A r \in Ends \ {s} : /\ timer'[r] = timer[r]
                                   /\ heartbeat_at'[r] = heartbeat_at[r]
          /\ UNCHANGED <<stopped, last_read_time, now>>
      BY <2>3 DEF heartbeat, registry, TypeOK
    <3>2. now - last_read_time[s] <= IdleLimit BY <2>0, <2>3 DEF Zombie
    <3>3. now <= now + HeartbeatPeriod
          /\ now + HeartbeatPeriod <= last_read_time[s] + IdleLimit + HeartbeatPeriod
      BY <2>0, <3>2
    <3>4. ASSUME NEW r \in Ends
          PROVE  /\ last_read_time'[r] <= now'
                 /\ timer'[r] = "off" => stopped'[r]
                 /\ timer'[r] # "off" =>
                      /\ now' <= heartbeat_at'[r]
                      /\ heartbeat_at'[r] <= now' + HeartbeatPeriod
                      /\ heartbeat_at'[r] <= last_read_time'[r] + IdleLimit
                                               + HeartbeatPeriod
                 /\ timer'[r] = "fired" => now' = heartbeat_at'[r]
      <4>1. CASE r = s BY <2>0, <3>1, <3>3, <4>1 DEF SilenceInv
      <4>2. CASE r # s BY <3>1, <4>2 DEF SilenceInv
      <4>3. QED BY <4>1, <4>2
    <3>5. QED BY <3>4 DEF SilenceInv
  <2>4. QED BY <1>5, <2>1, <2>2, <2>3 DEF Timer
<1>6. ASSUME NEW s \in Ends, Cleanup(s)
      PROVE  SilenceInv'
  <2>1. UNCHANGED <<clock, last_read_time, now>>
    BY <1>6 DEF Cleanup, remove_stream
  <2>2. QED BY <1>0, <2>1, SilenceSame DEF clock
<1>7. CASE Environment
  <2>1. CASE Tick
    <3>1. /\ now' = now + 1
          /\ UNCHANGED <<stopped, timer, heartbeat_at, last_read_time>>
          /\ \A r \in Ends : timer[r] = "armed" => heartbeat_at[r] > now
          /\ \A r \in Ends : timer[r] # "fired"
      BY <2>1 DEF Tick, registry, clock
    <3>2. ASSUME NEW r \in Ends
          PROVE  /\ last_read_time[r] <= now + 1
                 /\ timer[r] = "off" => stopped[r]
                 /\ timer[r] # "off" =>
                      /\ now + 1 <= heartbeat_at[r]
                      /\ heartbeat_at[r] <= now + 1 + HeartbeatPeriod
                      /\ heartbeat_at[r] <= last_read_time[r] + IdleLimit
                                              + HeartbeatPeriod
                 /\ timer[r] # "fired"
      <4>1. /\ now \in Nat /\ last_read_time[r] \in Nat /\ heartbeat_at[r] \in Nat
            /\ HeartbeatPeriod \in Nat /\ IdleLimit \in Nat
            /\ timer[r] \in {"armed", "fired", "off"}
        BY TimeAssumption DEF TypeOK
      <4>2. QED BY <3>1, <4>1 DEF SilenceInv
    <3>3. QED BY <3>1, <3>2 DEF SilenceInv
  <2>2. CASE \/ \E how \in Faults : link_fails(how)
             \/ \E s \in Ends, type \in Foreign : foreign_frame(s, type)
    <3>1. UNCHANGED <<clock, last_read_time, now>>
      BY <2>2 DEF link_fails, foreign_frame
    <3>2. QED BY <1>0, <3>1, SilenceSame DEF clock
  <2>3. QED BY <1>7, <2>1, <2>2 DEF Environment
<1>8. CASE UNCHANGED vars
  <2>1. UNCHANGED <<clock, last_read_time, now>> BY <1>8 DEF vars
  <2>2. QED BY <1>0, <2>1, SilenceSame DEF clock
<1>9. QED
  BY <1>1, <1>2, <1>3, <1>4, <1>5, <1>6, <1>7, <1>8 DEF Next

-----------------------------------------------------------------------------
(* Life: while the connection is healthy, whoever waits for a frame has one  *)
(* coming before its patience ends.                                          *)

\* The transport is up and both sessions are running.
Alive(s) == link = "up" /\ ~stopped[s] /\ ~stopped[Peer(s)]

\* A frame due by limit is on its way to s: on the wire, or queued by the peer
\* and not yet taken by the transport.
Coming(s, limit) ==
  \/ \E i \in 1..Len(wire[s]) : wire[s][i].due <= limit
  \/ \E i \in 1..Len(write_queue[Peer(s)]) :
       /\ write_state[Peer(s)] = "sent" => i > 1
       /\ write_queue[Peer(s)][i].due <= limit

\* The frames of q are due at time t or later.
DueFrom(q, t) == \A i \in 1..Len(q) : q[i].due >= t

\* No frame on a healthy connection is overdue.
DueInv ==
  \A s \in Ends : Alive(s) => DueFrom(wire[s], now) /\ DueFrom(write_queue[s], now)

\* Within a heartbeat of its last read, s will be sent a ping, or a frame sent
\* by then is on its way.
LiveAt(s) ==
  \/ heartbeat_at[Peer(s)] <= last_read_time[s] + HeartbeatPeriod
  \/ Coming(s, last_read_time[s] + HeartbeatPeriod + MaxDelay)

LiveInv == \A s \in Ends : Alive(s) => LiveAt(s)

\* A connection that is healthy after a step was healthy before it.
LEMMA AliveBefore ==
  ASSUME TypeOK, [Next]_vars, NEW s \in Ends, Alive(s)'
  PROVE  /\ Alive(s) /\ Alive(Peer(s)) /\ Alive(Peer(s))'
         /\ ~stopped'[s] /\ ~stopped'[Peer(s)]
         /\ \A e \in Ends : ~CloseAll(e) /\ ~Stop(e)
<1>1. /\ Peer(s) \in Ends /\ Peer(Peer(s)) = s
      /\ \A e \in Ends : e = s \/ e = Peer(s)
  BY DEF Ends, Peer
<1>2. link' = "up" /\ ~stopped'[s] /\ ~stopped'[Peer(s)] BY DEF Alive
<1>3. ~stopped[s] /\ ~stopped[Peer(s)] BY <1>1, <1>2, StopIsFinal
<1>4. \A e \in Ends : ~CloseAll(e) /\ ~Stop(e)
  BY <1>1, <1>2, StopStops DEF Stop
<1>5. link' = link \/ \E how \in Faults : link_fails(how)
  BY DEF Next, vars, Open, open_stream_id, open_stream_insert, open_stream_syn,
         User, stream_data, stream_fin, stop, Write, transport_write,
         write_completed, write_failed, Read, handle_syn, handle_data,
         handle_fin, handle_ping, handle_foreign, read_failed, read_after_stop,
         Timer, timer_expires, heartbeat, Cleanup, remove_stream, Environment,
         foreign_frame, Tick
<1>6. link = "up" BY <1>2, <1>5 DEF link_fails
<1>7. QED BY <1>1, <1>2, <1>3, <1>4, <1>6 DEF Alive

\* What a frame added by async_send_frame does to its queue.
LEMMA SendQueue ==
  ASSUME TypeOK, NEW e \in Ends, NEW type \in FrameTypes, NEW id \in Ids,
         async_send_frame(e, type, id), NEW r \in Ends
  PROVE  /\ write_state'[r] = "sent" => write_state[r] = "sent"
         /\ \/ write_queue'[r] = write_queue[r]
            \/ \E f \in Frame : /\ f.due = now + MaxDelay
                                /\ write_queue'[r] = Append(write_queue[r], f)
<1>1. NewFrame(type, id) \in Frame BY NewFrameType
<1>2. NewFrame(type, id).due = now + MaxDelay BY DEF NewFrame
<1>3. write_state'[r] = "sent" => write_state[r] = "sent"
  BY DEF async_send_frame, TypeOK
<1>4. CASE r = e
  <2>1. write_queue'[r] = Append(write_queue[r], NewFrame(type, id))
    BY <1>4 DEF async_send_frame, TypeOK
  <2>2. QED BY <1>1, <1>2, <1>3, <2>1
<1>5. CASE r # e
  BY <1>3, <1>5 DEF async_send_frame, TypeOK
<1>6. QED BY <1>4, <1>5

\* The steps of a healthy connection, by what they do to queues and wires.
Sends == \E e \in Ends, type \in FrameTypes, id \in Ids :
           async_send_frame(e, type, id)

Receives(e) ==
  /\ ReadFrame(e)
  /\ Sends \/ UNCHANGED writer
  /\ UNCHANGED <<heartbeat_at, now>>

Beats(e) ==
  /\ timer[e] = "fired"
  /\ async_send_frame(e, "ping", 0)
  /\ heartbeat_at' = [heartbeat_at EXCEPT ![e] = now + HeartbeatPeriod]
  /\ UNCHANGED <<wire, last_read_time, now>>

\* Every step of a healthy connection is of one of these kinds.
LEMMA Kinds ==
  ASSUME TypeOK, [Next]_vars, NEW s \in Ends, Alive(s)'
  PROVE  \/ \E e \in Ends : transport_write(e)
         \/ \E e \in Ends : write_completed(e)
         \/ Sends /\ UNCHANGED <<wire, last_read_time, heartbeat_at, now>>
         \/ \E e \in Ends : Receives(e)
         \/ \E e \in Ends : Beats(e)
         \/ \E e \in Ends, type \in Foreign : foreign_frame(e, type)
         \/ Tick
         \/ UNCHANGED <<writer, wire, last_read_time, heartbeat_at, now>>
<1> DEFINE Idle == UNCHANGED <<writer, wire, last_read_time, heartbeat_at, now>>
           SendStep == Sends /\ UNCHANGED <<wire, last_read_time, heartbeat_at, now>>
<1>0. \A e \in Ends : ~CloseAll(e) /\ ~Stop(e) BY AliveBefore
<1>1. ASSUME NEW e \in Ends, Open(e)
      PROVE  Idle \/ SendStep
  <2>1. CASE open_stream_id(e) BY <2>1 DEF open_stream_id, clock
  <2>2. ASSUME NEW id \in allocated[e], open_stream_insert(e, id)
        PROVE  Idle
    BY <2>2 DEF open_stream_insert, clock
  <2>3. ASSUME NEW id \in inserted[e], open_stream_syn(e, id)
        PROVE  SendStep
    <3>1. id \in Ids /\ "syn" \in FrameTypes BY DEF TypeOK, FrameTypes
    <3>2. async_send_frame(e, "syn", id) BY <2>3 DEF open_stream_syn
    <3>3. Sends BY <3>1, <3>2 DEF Sends
    <3>4. QED BY <2>3, <3>3 DEF open_stream_syn, clock
  <2>4. QED BY <1>1, <2>1, <2>2, <2>3 DEF Open
<1>2. ASSUME NEW e \in Ends, User(e)
      PROVE  SendStep
  <2>1. ASSUME NEW id \in held[e], stream_data(e, id)
        PROVE  SendStep
    <3>1. id \in Ids /\ "data" \in FrameTypes BY DEF TypeOK, FrameTypes
    <3>2. async_send_frame(e, "data", id) BY <2>1 DEF stream_data
    <3>3. Sends BY <3>1, <3>2 DEF Sends
    <3>4. QED BY <2>1, <3>3 DEF stream_data, clock
  <2>2. ASSUME NEW id \in held[e], stream_fin(e, id)
        PROVE  SendStep
    <3>1. id \in Ids /\ "fin" \in FrameTypes BY DEF TypeOK, FrameTypes
    <3>2. async_send_frame(e, "fin", id) BY <2>2 DEF stream_fin
    <3>3. Sends BY <3>1, <3>2 DEF Sends
    <3>4. QED BY <2>2, <3>3 DEF stream_fin, clock
  <2>3. ~stop(e) BY <1>0 DEF stop
  <2>4. QED BY <1>2, <2>1, <2>2, <2>3 DEF User
<1>3. ASSUME NEW e \in Ends, Write(e)
      PROVE  transport_write(e) \/ write_completed(e)
  BY <1>0, <1>3 DEF Write, write_failed
<1>4. ASSUME NEW e \in Ends, Read(e)
      PROVE  Receives(e)
  <2>1. CASE handle_syn(e)
    <3>1. Head(wire[e]).id \in Ids BY <2>1, ReadType DEF handle_syn
    <3>2. async_send_frame(e, "ack", Head(wire[e]).id) \/ UNCHANGED writer
      BY <2>1 DEF handle_syn
    <3>3. Sends \/ UNCHANGED writer BY <3>1, <3>2 DEF Sends, FrameTypes
    <3>4. QED BY <2>1, <3>3 DEF handle_syn, Receives, clock
  <2>2. CASE handle_ping(e)
    <3>1. async_send_frame(e, "pong", 0) BY <2>2 DEF handle_ping
    <3>2. Sends BY <3>1, ZeroId DEF Sends, FrameTypes
    <3>3. QED BY <2>2, <3>2 DEF handle_ping, Receives, clock
  <2>3. CASE handle_data(e) \/ handle_fin(e)
    BY <2>3 DEF handle_data, handle_fin, Receives, clock
  <2>4. ~handle_foreign(e) /\ ~read_failed(e)
    BY <1>0 DEF handle_foreign, read_failed
  <2>5. ~read_after_stop(e)
    <3>1. e = s \/ e = Peer(s) BY DEF Ends, Peer
    <3>2. ~stopped[e] BY <3>1, AliveBefore DEF Alive
    <3>3. QED BY <3>2 DEF read_after_stop
  <2>6. QED BY <1>4, <2>1, <2>2, <2>3, <2>4, <2>5 DEF Read
<1>5. ASSUME NEW e \in Ends, Timer(e)
      PROVE  Beats(e) \/ Idle
  BY <1>0, <1>5 DEF Timer, timer_expires, heartbeat, Beats
<1>6. ASSUME NEW e \in Ends, Cleanup(e)
      PROVE  Idle
  BY <1>6 DEF Cleanup, remove_stream, clock
<1>7. CASE Environment
  <2>1. link' = "up" BY DEF Alive
  <2>2. \A how \in Faults : ~link_fails(how)
    BY <2>1, SessionAssumption DEF link_fails
  <2>3. QED BY <1>7, <2>2 DEF Environment
<1>8. CASE UNCHANGED vars BY <1>8 DEF vars, clock
<1>9. QED
  BY <1>1, <1>2, <1>3, <1>4, <1>5, <1>6, <1>7, <1>8 DEF Next

\* The frames of a queue have a due time.
LEMMA DueType ==
  ASSUME NEW q \in Seq(Frame)
  PROVE  \A i \in 1..Len(q) : q[i].due \in Nat
<1>1. \A i \in 1..Len(q) : q[i] \in Frame OBVIOUS
<1>2. \A f \in Frame : f.due \in Nat BY DEF Frame
<1>3. QED BY <1>1, <1>2

\* Appending a frame that is due later, or taking the first one.
LEMMA DueAppend ==
  ASSUME NEW q \in Seq(Frame), NEW f \in Frame, NEW t \in Nat, DueFrom(q, t),
         f.due >= t
  PROVE  DueFrom(Append(q, f), t)
<1>1. /\ Len(q) \in Nat /\ Len(Append(q, f)) = Len(q) + 1
      /\ Append(q, f)[Len(q) + 1] = f
      /\ \A i \in 1..Len(q) : Append(q, f)[i] = q[i]
  OBVIOUS
<1>2. QED BY <1>1 DEF DueFrom

\* And for the rest of a queue.
LEMMA DueTail ==
  ASSUME NEW q \in Seq(Frame), q # <<>>, NEW t \in Nat, DueFrom(q, t)
  PROVE  DueFrom(Tail(q), t) /\ Head(q) \in Frame /\ Head(q).due >= t
<1>1. /\ Len(q) \in Nat \ {0} /\ Len(Tail(q)) = Len(q) - 1
      /\ \A i \in 1..Len(Tail(q)) : Tail(q)[i] = q[i + 1]
  BY TailSeq
<1>2. Head(q) = q[1] /\ Head(q) \in Frame OBVIOUS
<1>3. Head(q).due >= t BY <1>1, <1>2 DEF DueFrom
<1>4. DueFrom(Tail(q), t) BY <1>1 DEF DueFrom
<1>5. QED BY <1>2, <1>3, <1>4

\* What a queueing step does to the queue of s.
LEMMA DueSend ==
  ASSUME TypeOK, Sends, NEW s \in Ends, DueFrom(write_queue[s], now)
  PROVE  DueFrom(write_queue'[s], now)
<1>1. PICK e \in Ends, type \in FrameTypes, id \in Ids :
        async_send_frame(e, type, id)
  BY DEF Sends
<1>2. \/ write_queue'[s] = write_queue[s]
      \/ \E f \in Frame : /\ f.due = now + MaxDelay
                          /\ write_queue'[s] = Append(write_queue[s], f)
  BY <1>1, SendQueue
<1>3. now \in Nat /\ MaxDelay \in Nat /\ write_queue[s] \in Seq(Frame)
  BY TimeAssumption DEF TypeOK
<1>4. ASSUME NEW f \in Frame, f.due = now + MaxDelay,
             write_queue'[s] = Append(write_queue[s], f)
      PROVE  DueFrom(write_queue'[s], now)
  <2>1. f.due >= now BY <1>3, <1>4
  <2>2. QED BY <1>3, <1>4, <2>1, DueAppend
<1>5. QED BY <1>2, <1>4

\* Every step keeps DueInv.
LEMMA DueStep ==
  ASSUME TypeOK, WriterInv, DueInv, [Next]_vars
  PROVE  DueInv'
<1> SUFFICES ASSUME NEW s \in Ends, Alive(s)'
             PROVE  DueFrom(wire'[s], now') /\ DueFrom(write_queue'[s], now')
  BY DEF DueInv, DueFrom
<1> DEFINE p == Peer(s)
<1>1. /\ Alive(s) /\ Alive(p) /\ p \in Ends /\ Peer(p) = s
      /\ \A e \in Ends : e = s \/ e = p
      /\ p # s
  BY AliveBefore, PeerType DEF Ends, Peer
<1>2. /\ DueFrom(wire[s], now) /\ DueFrom(write_queue[s], now)
      /\ DueFrom(write_queue[p], now)
  BY <1>1 DEF DueInv
<1>3. /\ wire[s] \in Seq(Frame) /\ write_queue[s] \in Seq(Frame)
      /\ write_queue[p] \in Seq(Frame)
      /\ now \in Nat /\ MaxDelay \in Nat
  BY <1>1, TimeAssumption DEF TypeOK
<1>4. ASSUME NEW e \in Ends, transport_write(e)
      PROVE  DueFrom(wire'[s], now') /\ DueFrom(write_queue'[s], now')
  <2>1. now' = now /\ write_queue' = write_queue BY <1>4 DEF transport_write
  <2>2. CASE e = s
    <3>1. wire'[s] = wire[s] BY <1>1, <1>4, <2>2 DEF transport_write, TypeOK
    <3>2. QED BY <1>2, <2>1, <3>1
  <2>3. CASE e = p
    <3>1. write_queue[p] # <<>> BY <1>4, <2>3 DEF transport_write, WriterInv
    <3>2. wire'[s] = Append(wire[s], Head(write_queue[p]))
      BY <1>1, <1>4, <2>3 DEF transport_write, TypeOK, Alive
    <3>3. Head(write_queue[p]) \in Frame /\ Head(write_queue[p]).due >= now
      BY <1>2, <1>3, <3>1, DueTail
    <3>4. DueFrom(wire'[s], now) BY <1>2, <1>3, <3>2, <3>3, DueAppend
    <3>5. QED BY <1>2, <2>1, <3>4
  <2>4. QED BY <1>1, <2>2, <2>3
<1>5. ASSUME NEW e \in Ends, write_completed(e)
      PROVE  DueFrom(wire'[s], now') /\ DueFrom(write_queue'[s], now')
  <2>1. now' = now /\ wire' = wire BY <1>5 DEF write_completed
  <2>2. CASE e = s
    <3>1. write_queue[s] # <<>> BY <1>5, <2>2 DEF write_completed, WriterInv
    <3>2. write_queue'[s] = Tail(write_queue[s])
      BY <1>5, <2>2 DEF write_completed, TypeOK
    <3>3. DueFrom(Tail(write_queue[s]), now) BY <1>2, <1>3, <3>1, DueTail
    <3>4. QED BY <1>2, <2>1, <3>2, <3>3
  <2>3. CASE e # s
    <3>1. write_queue'[s] = write_queue[s]
      BY <1>5, <2>3 DEF write_completed, TypeOK
    <3>2. QED BY <1>2, <2>1, <3>1
  <2>4. QED BY <2>2, <2>3
<1>6. CASE Sends /\ UNCHANGED <<wire, last_read_time, heartbeat_at, now>>
  BY <1>2, <1>6, DueSend
<1>7. ASSUME NEW e \in Ends, Receives(e)
      PROVE  DueFrom(wire'[s], now') /\ DueFrom(write_queue'[s], now')
  <2>1. now' = now BY <1>7 DEF Receives
  <2>2. DueFrom(write_queue'[s], now)
    BY <1>2, <1>7, DueSend DEF Receives, writer
  <2>3. CASE e = s
    <3>1. wire[s] # <<>> /\ wire'[s] = Tail(wire[s])
      BY <1>7, <2>3 DEF Receives, ReadFrame, TypeOK
    <3>2. DueFrom(Tail(wire[s]), now) BY <1>2, <1>3, <3>1, DueTail
    <3>3. QED BY <2>1, <2>2, <3>1, <3>2
  <2>4. CASE e # s
    <3>1. wire'[s] = wire[s] BY <1>7, <2>4 DEF Receives, ReadFrame, TypeOK
    <3>2. QED BY <1>2, <2>1, <2>2, <3>1
  <2>5. QED BY <2>3, <2>4
<1>8. ASSUME NEW e \in Ends, Beats(e)
      PROVE  DueFrom(wire'[s], now') /\ DueFrom(write_queue'[s], now')
  <2>1. async_send_frame(e, "ping", 0) /\ UNCHANGED <<wire, now>>
    BY <1>8 DEF Beats
  <2>2. Sends BY <2>1, ZeroId DEF Sends, FrameTypes
  <2>3. QED BY <1>2, <2>1, <2>2, DueSend
<1>9. ASSUME NEW e \in Ends, NEW type \in Foreign, foreign_frame(e, type)
      PROVE  DueFrom(wire'[s], now') /\ DueFrom(write_queue'[s], now')
  <2>1. now' = now /\ write_queue' = write_queue
    BY <1>9 DEF foreign_frame, writer
  <2>2. CASE e = s
    <3>1. wire'[s] = Append(wire[s], NewFrame(type, 0))
      BY <1>9, <2>2 DEF foreign_frame, TypeOK
    <3>2. NewFrame(type, 0) \in Frame BY NewFrameType, ZeroId
    <3>3. NewFrame(type, 0).due >= now BY <1>3 DEF NewFrame
    <3>4. DueFrom(wire'[s], now) BY <1>2, <1>3, <3>1, <3>2, <3>3, DueAppend
    <3>5. QED BY <1>2, <2>1, <3>4
  <2>3. CASE e # s
    <3>1. wire'[s] = wire[s] BY <1>9, <2>3 DEF foreign_frame, TypeOK
    <3>2. QED BY <1>2, <2>1, <3>1
  <2>4. QED BY <2>2, <2>3
<1>10. CASE Tick
  <2>1. /\ now' = now + 1 /\ wire' = wire /\ write_queue' = write_queue
        /\ Prompt(wire[s])
        /\ link = "up" /\ ~stopped[s] /\ ~stopped[Peer(s)] =>
             Prompt(write_queue[s])
    BY <1>10 DEF Tick, writer
  <2>2. Prompt(wire[s]) /\ Prompt(write_queue[s]) BY <1>1, <2>1 DEF Alive
  <2>3. \A i \in 1..Len(wire[s]) : wire[s][i].due \in Nat
    BY <1>3, DueType
  <2>4. \A i \in 1..Len(write_queue[s]) : write_queue[s][i].due \in Nat
    BY <1>3, DueType
  <2>5. DueFrom(wire[s], now + 1) BY <1>3, <2>2, <2>3 DEF Prompt, DueFrom
  <2>6. DueFrom(write_queue[s], now + 1)
    BY <1>3, <2>2, <2>4 DEF Prompt, DueFrom
  <2>7. QED BY <2>1, <2>5, <2>6
<1>11. CASE UNCHANGED <<writer, wire, last_read_time, heartbeat_at, now>>
  BY <1>2, <1>11 DEF writer
<1>12. QED
  BY <1>4, <1>5, <1>6, <1>7, <1>8, <1>9, <1>10, <1>11, Kinds

\* What was coming is still coming after a step that only adds frames and that
\* the transport has no part in.
LEMMA StillComing ==
  ASSUME TypeOK, NEW s \in Ends, NEW limit, Coming(s, limit),
         \/ wire'[s] = wire[s]
         \/ \E f \in Frame : wire'[s] = Append(wire[s], f),
         \/ write_queue'[Peer(s)] = write_queue[Peer(s)]
         \/ \E f \in Frame :
              write_queue'[Peer(s)] = Append(write_queue[Peer(s)], f),
         write_state'[Peer(s)] = "sent" => write_state[Peer(s)] = "sent"
  PROVE  Coming(s, limit)'
<1>0. Peer(s) \in Ends BY PeerType
<1>1. wire[s] \in Seq(Frame) /\ write_queue[Peer(s)] \in Seq(Frame)
  BY <1>0 DEF TypeOK
<1>2. \A q \in Seq(Frame), f \in Frame :
        \A i \in 1..Len(q) : i \in 1..Len(Append(q, f)) /\ Append(q, f)[i] = q[i]
  OBVIOUS
<1>3. \A i \in 1..Len(wire[s]) :
        i \in 1..Len(wire'[s]) /\ wire'[s][i] = wire[s][i]
  BY <1>1, <1>2
<1>4. \A i \in 1..Len(write_queue[Peer(s)]) :
        /\ i \in 1..Len(write_queue'[Peer(s)])
        /\ write_queue'[Peer(s)][i] = write_queue[Peer(s)][i]
  BY <1>1, <1>2
<1>5. CASE \E i \in 1..Len(wire[s]) : wire[s][i].due <= limit
  BY <1>3, <1>5 DEF Coming
<1>6. CASE \E i \in 1..Len(write_queue[Peer(s)]) :
             /\ write_state[Peer(s)] = "sent" => i > 1
             /\ write_queue[Peer(s)][i].due <= limit
  BY <1>4, <1>6 DEF Coming
<1>7. QED BY <1>5, <1>6 DEF Coming

\* Queueing a frame loses none that is coming.
LEMMA SendComing ==
  ASSUME TypeOK, Sends, NEW s \in Ends, NEW limit, Coming(s, limit),
         wire'[s] = wire[s]
  PROVE  Coming(s, limit)'
<1>1. PICK e \in Ends, type \in FrameTypes, id \in Ids :
        async_send_frame(e, type, id)
  BY DEF Sends
<1>2. Peer(s) \in Ends BY PeerType
<1>3. /\ write_state'[Peer(s)] = "sent" => write_state[Peer(s)] = "sent"
      /\ \/ write_queue'[Peer(s)] = write_queue[Peer(s)]
         \/ \E f \in Frame :
              /\ f.due = now + MaxDelay
              /\ write_queue'[Peer(s)] = Append(write_queue[Peer(s)], f)
  BY <1>1, <1>2, SendQueue
<1>4. \/ write_queue'[Peer(s)] = write_queue[Peer(s)]
      \/ \E f \in Frame :
           write_queue'[Peer(s)] = Append(write_queue[Peer(s)], f)
  BY <1>3
<1>5. QED BY <1>3, <1>4, StillComing

\* The transport takes a frame of either end: it is on the wire then.
LEMMA TransportComing ==
  ASSUME TypeOK, WriterInv, NEW s \in Ends, NEW e \in Ends, transport_write(e),
         Alive(s), NEW limit, Coming(s, limit)
  PROVE  Coming(s, limit)'
<1> DEFINE p == Peer(s)
<1>0. /\ p \in Ends /\ Peer(p) = s /\ p # s
      /\ write_queue[p] \in Seq(Frame) /\ wire[s] \in Seq(Frame)
      /\ e = s \/ e = p
  BY PeerType DEF Ends, Peer, TypeOK
<1>1. write_queue' = write_queue BY DEF transport_write
<1>2. CASE e = s
  <2>1. wire'[s] = wire[s] BY <1>0, <1>2 DEF transport_write, TypeOK
  <2>2. write_state'[p] = write_state[p]
    BY <1>0, <1>2 DEF transport_write, TypeOK
  <2>3. QED BY <1>1, <2>1, <2>2, StillComing
<1>3. CASE e = p
  <2>1. write_queue[p] # <<>> /\ write_state'[p] = "sent"
    BY <1>0, <1>3 DEF transport_write, WriterInv, TypeOK
  <2>2. wire'[s] = Append(wire[s], Head(write_queue[p]))
    BY <1>0, <1>3 DEF transport_write, TypeOK, Alive
  <2>3. Head(write_queue[p]) = write_queue[p][1] /\ write_queue[p][1] \in Frame
        /\ Len(write_queue[p]) \in Nat /\ Len(wire[s]) \in Nat
    BY <1>0, <2>1
  <2>4. /\ Len(wire'[s]) = Len(wire[s]) + 1
        /\ wire'[s][Len(wire[s]) + 1] = write_queue[p][1]
        /\ \A i \in 1..Len(wire[s]) : wire'[s][i] = wire[s][i]
    BY <1>0, <2>2, <2>3
  <2>5. CASE \E i \in 1..Len(wire[s]) : wire[s][i].due <= limit
    <3>1. PICK i \in 1..Len(wire[s]) : wire[s][i].due <= limit BY <2>5
    <3>2. i \in 1..Len(wire'[s]) /\ wire'[s][i].due <= limit
      BY <2>3, <2>4, <3>1
    <3>3. QED BY <3>2 DEF Coming
  <2>6. ASSUME NEW i \in 1..Len(write_queue[p]), write_queue[p][i].due <= limit
        PROVE  Coming(s, limit)'
    <3>1. CASE i = 1
      <4>1. Len(wire[s]) + 1 \in 1..Len(wire'[s])
            /\ wire'[s][Len(wire[s]) + 1].due <= limit
        BY <2>3, <2>4, <2>6, <3>1
      <4>2. QED BY <4>1 DEF Coming
    <3>2. CASE i # 1
      <4>1. i > 1 BY <2>3, <3>2
      <4>2. QED BY <1>1, <2>6, <4>1 DEF Coming
    <3>3. QED BY <3>1, <3>2
  <2>7. QED BY <2>5, <2>6 DEF Coming
<1>4. QED BY <1>0, <1>2, <1>3

\* A write completes: only the frame the transport has taken leaves the queue.
LEMMA CompletedComing ==
  ASSUME TypeOK, WriterInv, NEW s \in Ends, NEW e \in Ends, write_completed(e),
         NEW limit, Coming(s, limit)
  PROVE  Coming(s, limit)'
<1> DEFINE p == Peer(s)
<1>0. p \in Ends /\ write_queue[p] \in Seq(Frame)
  BY PeerType DEF TypeOK
<1>1. wire' = wire BY DEF write_completed
<1>2. CASE e # p
  <2>1. write_queue'[p] = write_queue[p] /\ write_state'[p] = write_state[p]
    BY <1>0, <1>2 DEF write_completed, TypeOK
  <2>2. QED BY <1>1, <2>1, StillComing
<1>3. CASE e = p
  <2>1. /\ write_queue[p] # <<>> /\ write_state[p] = "sent"
        /\ write_queue'[p] = Tail(write_queue[p])
        /\ write_state'[p] # "sent"
    BY <1>0, <1>3 DEF write_completed, WriterInv, TypeOK
  <2>2. /\ Len(write_queue[p]) \in Nat \ {0}
        /\ Len(write_queue'[p]) = Len(write_queue[p]) - 1
        /\ \A i \in 1..Len(write_queue'[p]) :
             write_queue'[p][i] = write_queue[p][i + 1]
    BY <1>0, <2>1, TailSeq
  <2>3. CASE \E i \in 1..Len(wire[s]) : wire[s][i].due <= limit
    BY <1>1, <2>3 DEF Coming
  <2>4. ASSUME NEW i \in 1..Len(write_queue[p]), i > 1,
               write_queue[p][i].due <= limit
        PROVE  Coming(s, limit)'
    <3>1. i - 1 \in 1..Len(write_queue'[p]) /\ (i - 1) + 1 = i BY <2>2, <2>4
    <3>2. write_queue'[p][i - 1].due <= limit BY <2>2, <2>4, <3>1
    <3>3. QED BY <2>1, <3>1, <3>2 DEF Coming
  <2>5. QED BY <2>1, <2>3, <2>4 DEF Coming
<1>4. QED BY <1>2, <1>3

\* Every step keeps LiveInv: a read starts a new period, a ping is sent within
\* it, and nothing that is coming is lost.
LEMMA LiveStep ==
  ASSUME TypeOK, TypeOK', WriterInv, SilenceInv, LiveInv, [Next]_vars
  PROVE  LiveInv'
<1> SUFFICES ASSUME NEW s \in Ends, Alive(s)'
             PROVE  LiveAt(s)'
  BY DEF LiveInv
<1> DEFINE p == Peer(s)
<1>0. /\ p \in Ends /\ Peer(p) = s /\ p # s
      /\ \A e \in Ends : e = s \/ e = p
  BY PeerType DEF Ends, Peer
<1>1. /\ now \in Nat /\ last_read_time[s] \in Nat /\ heartbeat_at[p] \in Nat
      /\ HeartbeatPeriod \in Nat /\ MaxDelay \in Nat
  BY <1>0, TimeAssumption DEF TypeOK
<1> PICK limit \in Nat : limit = last_read_time[s] + HeartbeatPeriod + MaxDelay
  BY <1>1
<1>2. Alive(s) /\ Alive(p) BY AliveBefore
<1>3. /\ ~stopped[p] /\ timer[p] # "off"
      /\ heartbeat_at[p] <= now + HeartbeatPeriod
      /\ timer[p] = "fired" => now = heartbeat_at[p]
  BY <1>0, <1>2 DEF SilenceInv, Alive
<1>4. \/ heartbeat_at[p] <= last_read_time[s] + HeartbeatPeriod
      \/ Coming(s, limit)
  BY <1>2 DEF LiveInv, LiveAt
<1>5. ASSUME last_read_time'[s] = last_read_time[s],
             heartbeat_at'[p] = heartbeat_at[p],
             Coming(s, limit) => Coming(s, limit)'
      PROVE  LiveAt(s)'
  <2>1. CASE heartbeat_at[p] <= last_read_time[s] + HeartbeatPeriod
    BY <1>5, <2>1 DEF LiveAt
  <2>2. CASE Coming(s, limit)'
    <3>1. limit = last_read_time'[s] + HeartbeatPeriod + MaxDelay BY <1>5
    <3>2. QED BY <2>2, <3>1 DEF LiveAt, Coming
  <2>3. QED BY <1>4, <1>5, <2>1, <2>2
<1>6. ASSUME NEW e \in Ends, transport_write(e)
      PROVE  LiveAt(s)'
  <2>1. UNCHANGED <<last_read_time, heartbeat_at>>
    BY <1>6 DEF transport_write, clock
  <2>2. Coming(s, limit) => Coming(s, limit)' BY <1>2, <1>6, TransportComing
  <2>3. QED BY <1>5, <2>1, <2>2
<1>7. ASSUME NEW e \in Ends, write_completed(e)
      PROVE  LiveAt(s)'
  <2>1. UNCHANGED <<last_read_time, heartbeat_at>>
    BY <1>7 DEF write_completed, clock
  <2>2. Coming(s, limit) => Coming(s, limit)' BY <1>7, CompletedComing
  <2>3. QED BY <1>5, <2>1, <2>2
<1>8. CASE Sends /\ UNCHANGED <<wire, last_read_time, heartbeat_at, now>>
  <2>1. Coming(s, limit) => Coming(s, limit)' BY <1>8, SendComing
  <2>2. QED BY <1>5, <1>8, <2>1
<1>9. ASSUME NEW e \in Ends, Receives(e)
      PROVE  LiveAt(s)'
  <2>1. heartbeat_at' = heartbeat_at BY <1>9 DEF Receives
  <2>2. CASE e = s
    <3>1. last_read_time'[s] = now
      BY <1>9, <2>2 DEF Receives, ReadFrame, TypeOK
    <3>2. QED BY <1>3, <2>1, <3>1 DEF LiveAt
  <2>3. CASE e # s
    <3>1. last_read_time'[s] = last_read_time[s] /\ wire'[s] = wire[s]
      BY <1>9, <2>3 DEF Receives, ReadFrame, TypeOK
    <3>2. Coming(s, limit) => Coming(s, limit)'
      <4>1. CASE Sends BY <3>1, <4>1, SendComing
      <4>2. CASE UNCHANGED writer BY <3>1, <4>2, StillComing DEF writer
      <4>3. QED BY <1>9, <4>1, <4>2 DEF Receives
    <3>3. QED BY <1>5, <2>1, <3>1, <3>2
  <2>4. QED BY <2>2, <2>3
<1>10. ASSUME NEW e \in Ends, Beats(e)
       PROVE  LiveAt(s)'
  <2>1. /\ timer[e] = "fired" /\ async_send_frame(e, "ping", 0)
        /\ UNCHANGED <<wire, last_read_time, now>>
        /\ \A r \in Ends \ {e} : heartbeat_at'[r] = heartbeat_at[r]
    BY <1>10 DEF Beats, TypeOK
  <2>2. Sends BY <2>1, ZeroId DEF Sends, FrameTypes
  <2>3. Coming(s, limit) => Coming(s, limit)' BY <2>1, <2>2, SendComing
  <2>4. CASE e = s
    BY <1>0, <1>5, <2>1, <2>3, <2>4
  <2>5. CASE e = p
    <3>1. CASE Coming(s, limit)'
      <4>1. limit = last_read_time'[s] + HeartbeatPeriod + MaxDelay BY <2>1
      <4>2. QED BY <3>1, <4>1 DEF LiveAt, Coming
    <3>2. CASE heartbeat_at[p] <= last_read_time[s] + HeartbeatPeriod
      <4> DEFINE f == NewFrame("ping", 0)
      <4>1. f \in Frame BY NewFrameType, ZeroId DEF FrameTypes
      <4>2. f.due = now + MaxDelay BY DEF NewFrame
      <4> HIDE DEF f
      <4>3. now <= last_read_time[s] + HeartbeatPeriod
        BY <1>3, <2>1, <2>5, <3>2
      <4>4. f.due <= last_read_time'[s] + HeartbeatPeriod + MaxDelay
        BY <1>1, <2>1, <4>2, <4>3
      <4>5. write_queue[p] \in Seq(Frame) BY <1>0 DEF TypeOK
      <4>6. write_queue'[p] = Append(write_queue[p], f)
        BY <2>1, <2>5 DEF async_send_frame, TypeOK, f
      <4>7. /\ Len(write_queue[p]) \in Nat
            /\ Len(write_queue'[p]) = Len(write_queue[p]) + 1
            /\ write_queue'[p][Len(write_queue[p]) + 1] = f
        BY <4>1, <4>5, <4>6
      <4>8. write_state'[p] = "sent" => write_state[p] = "sent"
        BY <1>0, <2>1, SendQueue, ZeroId DEF FrameTypes
      <4>9. write_state[p] = "sent" => Len(write_queue[p]) # 0
        BY <1>0, <4>5, EmptySeq DEF WriterInv
      <4>10. write_state'[p] = "sent" => Len(write_queue[p]) + 1 > 1
        BY <4>7, <4>8, <4>9
      <4>11. Len(write_queue[p]) + 1 \in 1..Len(write_queue'[p]) BY <4>7
      <4>12. QED BY <4>4, <4>7, <4>10, <4>11 DEF LiveAt, Coming
    <3>3. QED BY <1>4, <2>3, <3>1, <3>2
  <2>6. QED BY <1>0, <2>4, <2>5
<1>11. ASSUME NEW e \in Ends, NEW type \in Foreign, foreign_frame(e, type)
       PROVE  LiveAt(s)'
  <2>1. UNCHANGED <<writer, last_read_time, heartbeat_at>>
    BY <1>11 DEF foreign_frame, clock
  <2>2. wire'[s] = wire[s] \/ \E f \in Frame : wire'[s] = Append(wire[s], f)
    <3>1. NewFrame(type, 0) \in Frame BY NewFrameType, ZeroId
    <3>2. CASE e = s BY <1>11, <3>1, <3>2 DEF foreign_frame, TypeOK
    <3>3. CASE e # s BY <1>11, <3>3 DEF foreign_frame, TypeOK
    <3>4. QED BY <3>2, <3>3
  <2>3. Coming(s, limit) => Coming(s, limit)'
    BY <2>1, <2>2, StillComing DEF writer
  <2>4. QED BY <1>5, <2>1, <2>3
<1>12. CASE Tick \/ UNCHANGED <<writer, wire, last_read_time, heartbeat_at, now>>
  <2>1. UNCHANGED <<writer, wire, last_read_time, heartbeat_at>>
    BY <1>12 DEF Tick, clock
  <2>2. Coming(s, limit) => Coming(s, limit)' BY <2>1, StillComing DEF writer
  <2>3. QED BY <1>5, <2>1, <2>2
<1>13. QED
  BY <1>6, <1>7, <1>8, <1>9, <1>10, <1>11, <1>12, Kinds

-----------------------------------------------------------------------------
(* The theorems.                                                             *)

\* The inductive invariant.
IInv == TypeOK /\ WriterInv /\ SilenceInv /\ DueInv /\ LiveInv

\* The sessions start with it.
LEMMA InitInv == Init => IInv
<1> SUFFICES ASSUME Init PROVE IInv OBVIOUS
<1>1. TypeOK
  <2>1. next_stream_id \in [Ends -> Ids] BY FirstIdType DEF Init
  <2>2. heartbeat_at \in [Ends -> Nat]
    <3>1. 1..HeartbeatPeriod \subseteq Nat BY TimeAssumption
    <3>2. heartbeat_at \in [Ends -> 1..HeartbeatPeriod] BY DEF Init
    <3>3. QED BY <3>1, <3>2
  <2>3. write_queue \in [Ends -> Seq(Frame)] /\ wire \in [Ends -> Seq(Frame)]
    BY DEF Init
  <2>4. QED BY <2>1, <2>2, <2>3 DEF Init, TypeOK
<1>2. WriterInv BY DEF Init, WriterInv
<1>3. \A s \in Ends : heartbeat_at[s] \in 1..HeartbeatPeriod BY DEF Init
<1>4. SilenceInv BY <1>3, TimeAssumption DEF Init, SilenceInv
<1>5. DueInv
  <2>1. \A s \in Ends : wire[s] = <<>> /\ write_queue[s] = <<>> BY DEF Init
  <2>2. QED BY <2>1 DEF DueInv, DueFrom
<1>6. LiveInv
  <2>1. \A s \in Ends : Peer(s) \in Ends /\ last_read_time[s] = 0
    BY PeerType DEF Init
  <2>2. QED BY <1>3, <2>1, TimeAssumption DEF LiveInv, LiveAt
<1>7. QED BY <1>1, <1>2, <1>4, <1>5, <1>6 DEF IInv

\* Types, the writer of the queue, the timers and the frames on their way are
\* as the invariant says in every state of two connected sessions.
THEOREM Invariance == Spec => []IInv
<1>1. ASSUME IInv, [Next]_vars
      PROVE  IInv'
  <2>1. TypeOK /\ WriterInv /\ SilenceInv /\ DueInv /\ LiveInv BY <1>1 DEF IInv
  <2>2. TypeOK' BY <1>1, <2>1, TypeStep
  <2>3. WriterInv' BY <1>1, <2>1, WriterStep
  <2>4. SilenceInv' BY <1>1, <2>1, <2>2, SilenceStep
  <2>5. DueInv' BY <1>1, <2>1, DueStep
  <2>6. LiveInv' BY <1>1, <2>1, <2>2, LiveStep
  <2>7. QED BY <2>2, <2>3, <2>4, <2>5, <2>6 DEF IInv
<1>2. QED BY <1>1, InitInv, PTL DEF Spec

\* Both sessions keep their types, whatever the bounds.
THEOREM TypeCorrect == Spec => []TypeOK
<1>1. IInv => TypeOK BY DEF IInv
<1>2. QED BY <1>1, Invariance, PTL

\* The write queue of a running session has exactly one writer as long as it
\* holds frames (async_send_frame, do_write).
THEOREM QueueIsWritten == Spec => []QueueHasWriter
<1>1. IInv => QueueHasWriter BY DEF IInv, WriterInv, QueueHasWriter
<1>2. QED BY <1>1, Invariance, PTL

\* A session that hears nothing ends, timer and all, within IdleLimit and one
\* period of its last read (schedule_heartbeat).
THEOREM SilenceIsBounded == Spec => []SilenceEndsSession
<1>1. ASSUME IInv
      PROVE  SilenceEndsSession
  <2> SUFFICES ASSUME NEW s \in Ends,
                      now - last_read_time[s] > IdleLimit + HeartbeatPeriod
               PROVE  stopped[s] /\ timer[s] = "off"
    BY DEF SilenceEndsSession
  <2>1. TypeOK /\ SilenceInv BY <1>1 DEF IInv
  <2>2. /\ now \in Nat /\ last_read_time[s] \in Nat /\ heartbeat_at[s] \in Nat
        /\ HeartbeatPeriod \in Nat /\ IdleLimit \in Nat
    BY <2>1, TimeAssumption DEF TypeOK
  <2>3. timer[s] # "off" =>
          /\ now <= heartbeat_at[s]
          /\ heartbeat_at[s] <= last_read_time[s] + IdleLimit + HeartbeatPeriod
    BY <2>1 DEF SilenceInv
  <2>4. timer[s] = "off" BY <2>2, <2>3
  <2>5. QED BY <2>1, <2>4 DEF SilenceInv
<1>2. QED BY <1>1, Invariance, PTL

\* The heartbeat never closes a healthy connection, for every period, limit and
\* delay of the transport such that a ping can arrive within the limit: 30 s
\* and 120 s leave the transport 90 s (schedule_heartbeat).
THEOREM LiveConnectionIsKept ==
  ASSUME HeartbeatPeriod + MaxDelay <= IdleLimit
  PROVE  Spec => []LiveConnectionKept
<1>1. ASSUME IInv
      PROVE  LiveConnectionKept
  <2> SUFFICES ASSUME NEW s \in Ends, Zombie(s), Alive(s)
               PROVE  FALSE
    BY DEF LiveConnectionKept, Alive
  <2> DEFINE p == Peer(s)
  <2>1. TypeOK /\ SilenceInv /\ DueInv /\ LiveInv BY <1>1 DEF IInv
  <2>2. p \in Ends /\ Peer(p) = s BY PeerType
  <2>3. /\ now \in Nat /\ last_read_time[s] \in Nat /\ heartbeat_at[p] \in Nat
        /\ HeartbeatPeriod \in Nat /\ IdleLimit \in Nat /\ MaxDelay \in Nat
    BY <2>1, <2>2, TimeAssumption DEF TypeOK
  <2>4. now > last_read_time[s] + HeartbeatPeriod + MaxDelay
    BY <2>3 DEF Zombie
  <2>5. now <= heartbeat_at[p]
    BY <2>1, <2>2 DEF SilenceInv, Alive
  <2>6. Coming(s, last_read_time[s] + HeartbeatPeriod + MaxDelay)
    BY <2>1, <2>3, <2>4, <2>5 DEF LiveInv, LiveAt
  <2>7. Alive(p) BY <2>2 DEF Alive
  <2>8. DueFrom(wire[s], now) /\ DueFrom(write_queue[p], now)
    BY <2>1, <2>2, <2>7 DEF DueInv
  <2>9. /\ \A i \in 1..Len(wire[s]) : wire[s][i].due \in Nat
        /\ \A i \in 1..Len(write_queue[p]) : write_queue[p][i].due \in Nat
    <3>1. wire[s] \in Seq(Frame) /\ write_queue[p] \in Seq(Frame)
      BY <2>1, <2>2 DEF TypeOK
    <3>2. QED BY <3>1, DueType
  <2>10. QED BY <2>3, <2>4, <2>6, <2>8, <2>9 DEF Coming, DueFrom
<1>2. QED BY <1>1, Invariance, PTL
-----------------------------------------------------------------------------
(* Streams and their ids: who has been told of the end, whose an id is, and  *)
(* the frames of a stream between open_stream and the other end.             *)

\* Whoever has been given a stream has it in the session's map, unless its end
\* was announced; after a stop only open_stream still fills the map.
EndInv ==
  \A s \in Ends :
    /\ (held[s] \union inserted[s]) \ orphans[s] \subseteq streams[s] \union told[s]
    /\ stopped[s] => streams[s] \subseteq orphans[s]

\* The ids open_stream has handed out at s: odd at the client, even at the
\* server.
Opened(s) == {FirstId(s) + 2 * k : k \in 0..(opens[s] - 1)}

\* An id names a stream of the one end that has opened it, and open_stream
\* takes an id through three places: allocated, inserted, held.
IdInv ==
  \A s \in Ends :
    /\ opens[s] <= MaxOpens[s]
    /\ next_stream_id[s] = FirstId(s) + 2 * opens[s]
    /\ allocated[s] \union inserted[s] \subseteq Opened(s)
    /\ held[s] \subseteq Opened(s) \union Opened(Peer(s))
    /\ held[s] \intersect Opened(Peer(s)) \subseteq held[Peer(s)]
    /\ streams[s] \subseteq held[s] \union inserted[s]
    /\ allocated[s] \intersect (held[s] \union inserted[s]) = {}
    /\ inserted[s] \intersect held[s] = {}

\* The frames of s that the transport has not taken yet.
Unsent(s) == IF write_state[s] = "sent" THEN Tail(write_queue[s])
             ELSE write_queue[s]

\* The id that a frame announces, and those the frames of a sequence announce.
Announced(f) == IF f.type = "syn" THEN {f.id} ELSE {}

Syns(q) == UNION {Announced(q[i]) : i \in 1..Len(q)}

\* No id is announced twice in q.
Once(q) ==
  \A i, j \in 1..Len(q) :
    i # j => Announced(q[i]) \intersect Announced(q[j]) = {}

\* The data and FIN frames of q follow their SYN, or are of streams in K.
Led(q, K) ==
  \A i \in 1..Len(q) : q[i].type \in {"data", "fin"} =>
    \/ q[i].id \in K
    \/ \E j \in 1..(i - 1) : q[j].type = "syn" /\ q[j].id = q[i].id

\* Of the frames on the wire, w, and those behind them in the sender's queue,
\* u: every SYN is of another stream, one the receiver does not have yet (H)
\* and the sender does (G).
Fresh(w, u, H, G) ==
  /\ Once(w) /\ Once(u)
  /\ Syns(w) \intersect Syns(u) = {}
  /\ (Syns(w) \union Syns(u)) \intersect H = {}
  /\ Syns(w) \union Syns(u) \subseteq G

\* On a connection that works the sender's streams have been announced, or
\* will be, and before their other frames.
InOrder(w, u, H, G) ==
  /\ Led(u, H \union Syns(w))
  /\ G \subseteq H \union Syns(w) \union Syns(u)

Flowing == link = "up" /\ \A s \in Ends : ~stopped[s]

FlightInv ==
  \A s \in Ends :
    /\ Fresh(wire[s], Unsent(Peer(s)), held[s],
             held[Peer(s)] \intersect Opened(Peer(s)))
    /\ Led(wire[s], held[s])
    /\ Flowing => InOrder(wire[s], Unsent(Peer(s)), held[s], held[Peer(s)])
    /\ stopped[s] => Len(wire[s]) <= 1

\* What Syns collects.
LEMMA SynsOf ==
  ASSUME NEW q, NEW x
  PROVE  x \in Syns(q) <=> \E i \in 1..Len(q) : x \in Announced(q[i])
BY DEF Syns

\* One more frame at the end.
LEMMA AppendSyns ==
  ASSUME NEW q \in Seq(Frame), NEW f \in Frame
  PROVE  /\ Append(q, f) \in Seq(Frame)
         /\ Syns(Append(q, f)) = Syns(q) \union Announced(f)
         /\ Once(q) /\ Announced(f) \intersect Syns(q) = {} =>
              Once(Append(q, f))
         /\ \A K : Led(q, K) /\ (f.type \in {"data", "fin"} =>
                                   f.id \in K \union Syns(q)) =>
                     Led(Append(q, f), K)
<1> DEFINE r == Append(q, f)
<1>1. /\ r \in Seq(Frame)
      /\ Len(r) = Len(q) + 1
      /\ Len(q) \in Nat
      /\ r[Len(r)] = f
      /\ \A i \in 1..Len(q) : r[i] = q[i]
  OBVIOUS
<1> HIDE DEF r
<1>2. Syns(r) = Syns(q) \union Announced(f)
  <2>1. ASSUME NEW x
        PROVE  x \in Syns(r) <=> x \in Syns(q) \/ x \in Announced(f)
    BY <1>1, SynsOf
  <2>2. QED BY <2>1
<1>3. ASSUME Once(q), Announced(f) \intersect Syns(q) = {}
      PROVE  Once(r)
  <2> SUFFICES ASSUME NEW i \in 1..Len(r), NEW j \in 1..Len(r), i # j,
                      NEW x \in Announced(r[i]), x \in Announced(r[j])
               PROVE  FALSE
    BY DEF Once
  <2>1. CASE i = Len(r)
    <3>1. j \in 1..Len(q) /\ r[j] = q[j] BY <1>1, <2>1
    <3>2. x \in Syns(q) BY <3>1, SynsOf
    <3>3. QED BY <1>1, <1>3, <2>1, <3>2
  <2>2. CASE j = Len(r)
    <3>1. i \in 1..Len(q) /\ r[i] = q[i] BY <1>1, <2>2
    <3>2. x \in Syns(q) BY <3>1, SynsOf
    <3>3. QED BY <1>1, <1>3, <2>2, <3>2
  <2>3. CASE i # Len(r) /\ j # Len(r)
    <3>1. i \in 1..Len(q) /\ j \in 1..Len(q) BY <1>1, <2>3
    <3>2. QED BY <1>1, <1>3, <3>1 DEF Once
  <2>4. QED BY <2>1, <2>2, <2>3
<1>4. ASSUME NEW K, Led(q, K),
             f.type \in {"data", "fin"} => f.id \in K \union Syns(q)
      PROVE  Led(r, K)
  <2> SUFFICES ASSUME NEW i \in 1..Len(r), r[i].type \in {"data", "fin"},
                      r[i].id \notin K
               PROVE  \E j \in 1..(i - 1) :
                        r[j].type = "syn" /\ r[j].id = r[i].id
    BY DEF Led
  <2>1. CASE i = Len(r)
    <3>1. r[i] = f /\ f.id \in Syns(q) BY <1>1, <1>4, <2>1
    <3>2. PICK j \in 1..Len(q) : f.id \in Announced(q[j]) BY <3>1, SynsOf
    <3>3. r[j].type = "syn" /\ r[j].id = f.id /\ j \in 1..(i - 1)
      BY <1>1, <2>1, <3>2 DEF Announced
    <3>4. QED BY <3>1, <3>3
  <2>2. CASE i # Len(r)
    <3>1. i \in 1..Len(q) /\ r[i] = q[i] BY <1>1, <2>2
    <3>2. PICK j \in 1..(i - 1) : q[j].type = "syn" /\ q[j].id = q[i].id
      BY <1>4, <3>1 DEF Led
    <3>3. r[j] = q[j] BY <1>1, <3>1, <3>2
    <3>4. QED BY <3>1, <3>2, <3>3
  <2>3. QED BY <2>1, <2>2
<1>5. QED BY <1>1, <1>2, <1>3, <1>4 DEF r

\* The frames behind the front one.
LEMMA TailSyns ==
  ASSUME NEW q \in Seq(Frame), q # <<>>
  PROVE  /\ Head(q) \in Frame
         /\ Tail(q) \in Seq(Frame)
         /\ Syns(q) = Announced(Head(q)) \union Syns(Tail(q))
         /\ Once(q) => /\ Once(Tail(q))
                       /\ Announced(Head(q)) \intersect Syns(Tail(q)) = {}
         /\ \A K : Led(q, K) =>
              /\ Led(Tail(q), K \union Announced(Head(q)))
              /\ Head(q).type \in {"data", "fin"} => Head(q).id \in K
<1> DEFINE r == Tail(q)
<1> DEFINE h == Head(q)
<1>1. /\ h \in Frame /\ h = q[1]
      /\ r \in Seq(Frame)
      /\ Len(q) \in Nat /\ Len(q) >= 1
      /\ Len(r) = Len(q) - 1
      /\ \A i \in 1..Len(r) : r[i] = q[i + 1]
  BY TailSeq
<1> HIDE DEF r, h
<1>2. Syns(q) = Announced(h) \union Syns(r)
  <2>1. ASSUME NEW x
        PROVE  x \in Syns(q) <=> x \in Announced(h) \/ x \in Syns(r)
    <3>1. ASSUME x \in Syns(q)
          PROVE  x \in Announced(h) \/ x \in Syns(r)
      <4>1. PICK i \in 1..Len(q) : x \in Announced(q[i]) BY <3>1, SynsOf
      <4>2. CASE i = 1 BY <1>1, <4>1, <4>2
      <4>3. CASE i # 1
        <5>1. i - 1 \in 1..Len(r) /\ r[i - 1] = q[i] BY <1>1, <4>3
        <5>2. QED BY <4>1, <5>1, SynsOf
      <4>4. QED BY <4>2, <4>3
    <3>2. ASSUME x \in Announced(h)
          PROVE  x \in Syns(q)
      <4>1. 1 \in 1..Len(q) BY <1>1
      <4>2. QED BY <1>1, <3>2, <4>1, SynsOf
    <3>3. ASSUME x \in Syns(r)
          PROVE  x \in Syns(q)
      <4>1. PICK i \in 1..Len(r) : x \in Announced(r[i]) BY <3>3, SynsOf
      <4>2. i + 1 \in 1..Len(q) /\ r[i] = q[i + 1] BY <1>1
      <4>3. QED BY <4>1, <4>2, SynsOf
    <3>4. QED BY <3>1, <3>2, <3>3
  <2>2. QED BY <2>1
<1>3. ASSUME Once(q)
      PROVE  Once(r) /\ Announced(h) \intersect Syns(r) = {}
  <2>1. \A i \in 1..Len(r) : i + 1 \in 1..Len(q) /\ i + 1 # 1 /\ r[i] = q[i + 1]
    BY <1>1
  <2>2. ASSUME NEW i \in 1..Len(r), NEW j \in 1..Len(r), i # j
        PROVE  Announced(r[i]) \intersect Announced(r[j]) = {}
    <3>1. i + 1 # j + 1 BY <2>2
    <3>2. QED BY <1>3, <2>1, <3>1 DEF Once
  <2>3. ASSUME NEW x \in Announced(h), x \in Syns(r)
        PROVE  FALSE
    <3>1. PICK i \in 1..Len(r) : x \in Announced(r[i]) BY <2>3, SynsOf
    <3>2. 1 \in 1..Len(q) BY <1>1
    <3>3. Announced(q[1]) \intersect Announced(q[i + 1]) = {}
      BY <1>3, <2>1, <3>2 DEF Once
    <3>4. QED BY <1>1, <2>1, <2>3, <3>1, <3>3
  <2>4. QED BY <2>2, <2>3 DEF Once
<1>4. ASSUME NEW K, Led(q, K)
      PROVE  /\ Led(r, K \union Announced(h))
             /\ h.type \in {"data", "fin"} => h.id \in K
  <2>1. ASSUME h.type \in {"data", "fin"}, h.id \notin K
        PROVE  FALSE
    <3>1. 1 \in 1..Len(q) BY <1>1
    <3>2. PICK j \in 1..(1 - 1) : q[j].type = "syn" BY <1>1, <1>4, <2>1, <3>1 DEF Led
    <3>3. QED BY <3>2
  <2>2. ASSUME NEW i \in 1..Len(r), r[i].type \in {"data", "fin"},
               r[i].id \notin K \union Announced(h)
        PROVE  \E j \in 1..(i - 1) : r[j].type = "syn" /\ r[j].id = r[i].id
    <3>1. i + 1 \in 1..Len(q) /\ r[i] = q[i + 1] BY <1>1
    <3>2. PICK j \in 1..((i + 1) - 1) : q[j].type = "syn" /\ q[j].id = r[i].id
      BY <1>4, <2>2, <3>1 DEF Led
    <3>3. j # 1 BY <1>1, <2>2, <3>2 DEF Announced
    <3>4. j - 1 \in 1..(i - 1) /\ r[j - 1] = q[j] BY <1>1, <3>2, <3>3
    <3>5. QED BY <3>2, <3>4
  <2>3. QED BY <2>1, <2>2 DEF Led
<1>5. QED BY <1>1, <1>2, <1>3, <1>4 DEF r, h

\* A front part of the frames.
LEMMA FrontSyns ==
  ASSUME NEW q \in Seq(Frame), NEW r \in Seq(Frame), Len(r) <= Len(q),
         \A i \in 1..Len(r) : r[i] = q[i]
  PROVE  /\ Syns(r) \subseteq Syns(q)
         /\ Once(q) => Once(r)
         /\ \A K : Led(q, K) => Led(r, K)
<1>1. Len(q) \in Nat /\ Len(r) \in Nat OBVIOUS
<1>2. \A i \in 1..Len(r) : i \in 1..Len(q) BY <1>1
<1>3. Syns(r) \subseteq Syns(q) BY <1>2, SynsOf
<1>4. Once(q) => Once(r) BY <1>2 DEF Once
<1>5. ASSUME NEW K, Led(q, K)
      PROVE  Led(r, K)
  <2> SUFFICES ASSUME NEW i \in 1..Len(r), r[i].type \in {"data", "fin"},
                      r[i].id \notin K
               PROVE  \E j \in 1..(i - 1) :
                        r[j].type = "syn" /\ r[j].id = r[i].id
    BY DEF Led
  <2>1. PICK j \in 1..(i - 1) : q[j].type = "syn" /\ q[j].id = q[i].id
    BY <1>2, <1>5 DEF Led
  <2>2. j \in 1..Len(r) BY <1>1
  <2>3. QED BY <2>1, <2>2
<1>6. QED BY <1>3, <1>4, <1>5

\* Streams that are known stay known.
LEMMA LedMore ==
  ASSUME NEW q, NEW K, NEW L, K \subseteq L, Led(q, K)
  PROVE  Led(q, L)
BY DEF Led

\* The sender queues a frame (async_send_frame).
LEMMA FlightQueued ==
  ASSUME NEW w \in Seq(Frame), NEW u \in Seq(Frame), NEW f \in Frame,
         NEW H, NEW G, NEW F,
         Fresh(w, u, H, G), G \subseteq F,
         Announced(f) \subseteq F \ (G \union H)
  PROVE  Fresh(w, Append(u, f), H, F)
<1>1. Syns(w) \union Syns(u) \subseteq G BY DEF Fresh
<1>2. Announced(f) \intersect Syns(u) = {} BY <1>1
<1>3. /\ Syns(Append(u, f)) = Syns(u) \union Announced(f)
      /\ Once(Append(u, f))
  BY <1>2, AppendSyns DEF Fresh

<1>4. QED BY <1>1, <1>3 DEF Fresh

\* It queues a frame of a stream it has, or opens.
LEMMA OrderQueued ==
  ASSUME NEW w \in Seq(Frame), NEW u \in Seq(Frame), NEW f \in Frame,
         NEW H, NEW G, InOrder(w, u, H, G),
         f.type \in {"data", "fin"} => f.id \in G
  PROVE  InOrder(w, Append(u, f), H, G \union Announced(f))
<1>1. Syns(Append(u, f)) = Syns(u) \union Announced(f) BY AppendSyns
<1>2. Led(u, H \union Syns(w)) /\ G \subseteq H \union Syns(w) \union Syns(u)
  BY DEF InOrder
<1>3. f.type \in {"data", "fin"} => f.id \in (H \union Syns(w)) \union Syns(u)
  BY <1>2
<1>4. Led(Append(u, f), H \union Syns(w)) BY <1>2, <1>3, AppendSyns
<1>5. QED BY <1>1, <1>2, <1>4 DEF InOrder

\* The transport takes the front frame (transport_write).
LEMMA FlightTaken ==
  ASSUME NEW w \in Seq(Frame), NEW u \in Seq(Frame), u # <<>>,
         NEW H, NEW G, NEW F, Fresh(w, u, H, G), Led(w, H), InOrder(w, u, H, F)
  PROVE  /\ Fresh(Append(w, Head(u)), Tail(u), H, G)
         /\ Led(Append(w, Head(u)), H)
         /\ InOrder(Append(w, Head(u)), Tail(u), H, F)
<1> DEFINE f == Head(u)
<1> DEFINE t == Tail(u)
<1> DEFINE v == Append(w, f)
<1>1. f \in Frame /\ t \in Seq(Frame) BY TailSyns
<1>2. Syns(u) = Announced(f) \union Syns(t) BY TailSyns
<1>3. /\ Once(t)
      /\ Announced(f) \intersect Syns(t) = {}
  BY TailSyns DEF Fresh
<1>4. Led(u, H \union Syns(w)) BY DEF InOrder
<1>5. /\ Led(t, (H \union Syns(w)) \union Announced(f))
      /\ f.type \in {"data", "fin"} => f.id \in H \union Syns(w)
  BY <1>4, TailSyns
<1>6. Syns(v) = Syns(w) \union Announced(f) BY <1>1, AppendSyns
<1>7. Announced(f) \intersect Syns(w) = {} BY <1>2 DEF Fresh
<1>8. Once(v) BY <1>1, <1>7, AppendSyns DEF Fresh
<1>9. Led(v, H) BY <1>1, <1>5, AppendSyns
<1> HIDE DEF f, t, v
<1>10. Fresh(v, t, H, G) BY <1>2, <1>3, <1>6, <1>8 DEF Fresh
<1>11. H \union Syns(v) = (H \union Syns(w)) \union Announced(f) BY <1>6
<1>12. Led(t, H \union Syns(v)) BY <1>5, <1>11
<1>13. F \subseteq H \union Syns(v) \union Syns(t) BY <1>2, <1>6 DEF InOrder
<1>14. QED BY <1>9, <1>10, <1>12, <1>13 DEF InOrder, f, t, v

\* The front frame goes nowhere: the write fails, or the transport is dead.
LEMMA FlightDropped ==
  ASSUME NEW w \in Seq(Frame), NEW u \in Seq(Frame), u # <<>>,
         NEW H, NEW G, Fresh(w, u, H, G)
  PROVE  Fresh(w, Tail(u), H, G)
<1>1. Syns(u) = Announced(Head(u)) \union Syns(Tail(u)) BY TailSyns
<1>2. Once(Tail(u)) BY TailSyns DEF Fresh
<1>3. QED BY <1>1, <1>2 DEF Fresh

\* The receiver reads the front frame: then it has the stream the frame
\* announces (ReadFrame).
LEMMA FlightRead ==
  ASSUME NEW w \in Seq(Frame), NEW u \in Seq(Frame), w # <<>>,
         NEW H, NEW G, Fresh(w, u, H, G), Led(w, H)
  PROVE  /\ Fresh(Tail(w), u, H \union Announced(Head(w)), G)
         /\ Led(Tail(w), H \union Announced(Head(w)))
         /\ \A F : InOrder(w, u, H, F) =>
                     InOrder(Tail(w), u, H \union Announced(Head(w)), F)
<1>1. Syns(w) = Announced(Head(w)) \union Syns(Tail(w)) BY TailSyns
<1>2. /\ Once(Tail(w))
      /\ Announced(Head(w)) \intersect Syns(Tail(w)) = {}
  BY TailSyns DEF Fresh
<1>3. Fresh(Tail(w), u, H \union Announced(Head(w)), G)
  BY <1>1, <1>2 DEF Fresh
<1>4. Led(Tail(w), H \union Announced(Head(w))) BY TailSyns
<1>5. ASSUME NEW F, InOrder(w, u, H, F)
      PROVE  InOrder(Tail(w), u, H \union Announced(Head(w)), F)
  <2>1. H \union Syns(w) = (H \union Announced(Head(w))) \union Syns(Tail(w))
    BY <1>1
  <2>2. QED BY <1>5, <2>1 DEF InOrder
<1>6. QED BY <1>3, <1>4, <1>5

\* The last frames on the wire are lost (CloseAll, link_fails).
LEMMA FlightCut ==
  ASSUME NEW w \in Seq(Frame), NEW u \in Seq(Frame), NEW v \in Seq(Frame),
         Len(v) <= Len(w), \A i \in 1..Len(v) : v[i] = w[i],
         NEW H, NEW G, Fresh(w, u, H, G), Led(w, H)
  PROVE  Fresh(v, u, H, G) /\ Led(v, H)
<1>1. Syns(v) \subseteq Syns(w) /\ (Once(w) => Once(v)) /\ Led(v, H)
  BY FrontSyns
<1>2. QED BY <1>1 DEF Fresh

\* A frame that announces no stream and belongs to none (foreign_frame).
LEMMA FlightForeign ==
  ASSUME NEW w \in Seq(Frame), NEW u \in Seq(Frame), NEW f \in Frame,
         f.type \notin {"syn", "data", "fin"},
         NEW H, NEW G, NEW F, Fresh(w, u, H, G), Led(w, H)
  PROVE  /\ Fresh(Append(w, f), u, H, G)
         /\ Led(Append(w, f), H)
         /\ InOrder(w, u, H, F) => InOrder(Append(w, f), u, H, F)
<1>1. Announced(f) = {} BY DEF Announced
<1>2. Syns(Append(w, f)) = Syns(w) BY <1>1, AppendSyns
<1>3. Once(Append(w, f)) BY <1>1, AppendSyns DEF Fresh
<1>4. Led(Append(w, f), H) BY AppendSyns
<1>5. QED BY <1>2, <1>3, <1>4 DEF Fresh, InOrder

\* The receiver has more streams, none of them announced, and the sender more,
\* all of which the receiver has.
LEMMA FlightKnown ==
  ASSUME NEW w \in Seq(Frame), NEW u \in Seq(Frame),
         NEW H, NEW G, NEW F, NEW H2, NEW G2, NEW F2,
         Fresh(w, u, H, G), Led(w, H),
         H \subseteq H2, G \subseteq G2, F2 \subseteq F \union H2,
         (H2 \ H) \intersect G2 = {}
  PROVE  /\ Fresh(w, u, H2, G2)
         /\ Led(w, H2)
         /\ InOrder(w, u, H, F) => InOrder(w, u, H2, F2)
<1>1. Led(w, H2) BY LedMore
<1>2. Fresh(w, u, H2, G2) BY DEF Fresh
<1>3. ASSUME InOrder(w, u, H, F)
      PROVE  InOrder(w, u, H2, F2)
  <2>1. Led(u, H2 \union Syns(w))
    <3>1. H \union Syns(w) \subseteq H2 \union Syns(w) OBVIOUS
    <3>2. QED BY <1>3, <3>1, LedMore DEF InOrder
  <2>2. QED BY <1>3, <2>1 DEF InOrder
<1>4. QED BY <1>1, <1>2, <1>3

-----------------------------------------------------------------------------
(* The frames of one direction: what a step may do to them.                  *)

FlightAt(r) ==
  /\ Fresh(wire[r], Unsent(Peer(r)), held[r],
           held[Peer(r)] \intersect Opened(Peer(r)))
  /\ Led(wire[r], held[r])
  /\ Flowing => InOrder(wire[r], Unsent(Peer(r)), held[r], held[Peer(r)])
  /\ stopped[r] => Len(wire[r]) <= 1

\* The frames the transport has not taken are frames.
LEMMA UnsentType ==
  ASSUME TypeOK, WriterInv, NEW s \in Ends
  PROVE  Unsent(s) \in Seq(Frame)
<1>1. write_queue[s] \in Seq(Frame) BY DEF TypeOK
<1>2. write_state[s] = "sent" => write_queue[s] # <<>> BY DEF WriterInv
<1>3. CASE write_state[s] = "sent"
  <2>1. Tail(write_queue[s]) \in Seq(Frame) BY <1>1, <1>2, <1>3, TailSeq
  <2>2. QED BY <1>3, <2>1 DEF Unsent
<1>4. CASE write_state[s] # "sent" BY <1>1, <1>4 DEF Unsent
<1>5. QED BY <1>3, <1>4

\* The ids of one end are never those of the other one, and the next id is new.
LEMMA OpenedApart ==
  ASSUME TypeOK, IdInv, NEW s \in Ends
  PROVE  /\ Opened(s) \intersect Opened(Peer(s)) = {}
         /\ next_stream_id[s] \notin Opened(s) \union Opened(Peer(s))
<1>1. /\ opens[s] \in Nat /\ opens[Peer(s)] \in Nat
      /\ next_stream_id[s] = FirstId(s) + 2 * opens[s]
  BY PeerType DEF TypeOK, IdInv
<1>2. \/ FirstId(s) = 1 /\ FirstId(Peer(s)) = 2
      \/ FirstId(s) = 2 /\ FirstId(Peer(s)) = 1
  BY DEF Ends, Peer, FirstId
<1>3. \A k, m \in Int : 1 + 2 * k # 2 + 2 * m OBVIOUS
<1>4. ASSUME NEW i \in 0..opens[s], NEW j \in 0..opens[Peer(s)]
      PROVE  FirstId(s) + 2 * i # FirstId(Peer(s)) + 2 * j
  BY <1>1, <1>2, <1>3
<1>5. 0..(opens[s] - 1) \subseteq 0..opens[s]
      /\ 0..(opens[Peer(s)] - 1) \subseteq 0..opens[Peer(s)]
      /\ opens[s] \in 0..opens[s]
  BY <1>1
<1>6. Opened(s) \intersect Opened(Peer(s)) = {} BY <1>4, <1>5 DEF Opened
<1>7. next_stream_id[s] \notin Opened(Peer(s)) BY <1>1, <1>4, <1>5 DEF Opened
<1>8. \A k \in 0..(opens[s] - 1) :
        FirstId(s) + 2 * k # FirstId(s) + 2 * opens[s]
  BY <1>1, <1>2
<1>9. next_stream_id[s] \notin Opened(s) BY <1>1, <1>8 DEF Opened
<1>10. QED BY <1>6, <1>7, <1>9

\* What async_send_frame does to the frames on their way.
LEMMA FrameSent ==
  ASSUME TypeOK, WriterInv, NEW s \in Ends, NEW type \in FrameTypes,
         NEW id \in Ids, async_send_frame(s, type, id)
  PROVE  /\ NewFrame(type, id) \in Frame
         /\ Unsent(s)' = Append(Unsent(s), NewFrame(type, id))
         /\ Unsent(Peer(s))' = Unsent(Peer(s))
<1> DEFINE g == NewFrame(type, id)
<1>1. g \in Frame BY NewFrameType
<1> HIDE DEF g
<1>3. /\ write_queue'[s] = Append(write_queue[s], g)
      /\ write_state'[s] = IF is_writing[s] THEN write_state[s] ELSE "sending"
  BY DEF async_send_frame, TypeOK, g
<1>4. write_queue[s] \in Seq(Frame) BY DEF TypeOK
<1>5. Unsent(s)' = Append(Unsent(s), g)
  <2>1. CASE write_state[s] = "sent"
    <3>1. write_queue[s] # <<>> /\ is_writing[s] BY <2>1 DEF WriterInv
    <3>2. Tail(Append(write_queue[s], g)) = Append(Tail(write_queue[s]), g)
      BY <1>1, <1>4, <3>1
    <3>3. write_state'[s] = "sent" BY <1>3, <2>1, <3>1
    <3>4. QED BY <1>3, <2>1, <3>2, <3>3 DEF Unsent
  <2>2. CASE write_state[s] # "sent"
    <3>1. write_state'[s] # "sent" BY <1>3, <2>2
    <3>2. QED BY <1>3, <2>2, <3>1 DEF Unsent
  <2>3. QED BY <2>1, <2>2
<1>6. Unsent(Peer(s))' = Unsent(Peer(s))
  <2>1. /\ write_queue'[Peer(s)] = write_queue[Peer(s)]
        /\ write_state'[Peer(s)] = write_state[Peer(s)]
    BY PeerType DEF async_send_frame, TypeOK
  <2>2. QED BY <2>1 DEF Unsent
<1>7. QED BY <1>1, <1>5, <1>6 DEF g

\* The frames stay; the ends may get to know more streams.
LEMMA AtKept ==
  ASSUME TypeOK, WriterInv, NEW r \in Ends, FlightAt(r),
         wire'[r] = wire[r], Unsent(Peer(r))' = Unsent(Peer(r)),
         held[r] \subseteq held'[r],
         held[Peer(r)] \subseteq held'[Peer(r)],
         held'[Peer(r)] \subseteq held[Peer(r)] \union held'[r],
         Opened(Peer(r)) \subseteq Opened(Peer(r))',
         (held'[r] \ held[r]) \intersect Opened(Peer(r))' = {},
         Flowing' => Flowing, stopped'[r] = stopped[r]
  PROVE  FlightAt(r)'
<1> DEFINE w == wire[r]
<1> DEFINE u == Unsent(Peer(r))
<1> DEFINE G == held[Peer(r)] \intersect Opened(Peer(r))
<1> DEFINE G2 == held'[Peer(r)] \intersect Opened(Peer(r))'
<1>1. w \in Seq(Frame) /\ u \in Seq(Frame) BY PeerType, UnsentType DEF TypeOK
<1>2. Fresh(w, u, held[r], G) /\ Led(w, held[r]) BY DEF FlightAt
<1>3. G \subseteq G2 /\ (held'[r] \ held[r]) \intersect G2 = {} OBVIOUS
<1> HIDE DEF w, u, G, G2
<1>4. /\ Fresh(w, u, held'[r], G2)
      /\ Led(w, held'[r])
      /\ InOrder(w, u, held[r], held[Peer(r)]) =>
           InOrder(w, u, held'[r], held'[Peer(r)])
  BY <1>1, <1>2, <1>3, FlightKnown
<1>5. Flowing' => InOrder(w, u, held[r], held[Peer(r)])
  BY DEF FlightAt, w, u
<1>6. stopped'[r] => Len(wire'[r]) <= 1 BY DEF FlightAt
<1>7. QED BY <1>4, <1>5, <1>6 DEF FlightAt, w, u, G2

\* The sender queues a frame.
LEMMA AtQueued ==
  ASSUME TypeOK, WriterInv, NEW r \in Ends, FlightAt(r), NEW f \in Frame,
         wire'[r] = wire[r],
         Unsent(Peer(r))' = Append(Unsent(Peer(r)), f),
         held'[r] = held[r],
         Announced(f) \subseteq
           Opened(Peer(r)) \ (held[Peer(r)] \union held[r]),
         f.type \in {"data", "fin"} => f.id \in held[Peer(r)],
         held[Peer(r)] \union Announced(f) \subseteq held'[Peer(r)],
         held'[Peer(r)] \subseteq held[Peer(r)] \union Announced(f) \union held[r],
         Opened(Peer(r))' = Opened(Peer(r)),
         Flowing' => Flowing, stopped'[r] = stopped[r]
  PROVE  FlightAt(r)'
<1> DEFINE w == wire[r]
<1> DEFINE u == Unsent(Peer(r))
<1> DEFINE v == Append(u, f)
<1> DEFINE G == held[Peer(r)] \intersect Opened(Peer(r))
<1> DEFINE F == G \union Announced(f)
<1> DEFINE G2 == held'[Peer(r)] \intersect Opened(Peer(r))'
<1>1. w \in Seq(Frame) /\ u \in Seq(Frame) BY PeerType, UnsentType DEF TypeOK
<1>2. Fresh(w, u, held[r], G) /\ Led(w, held[r]) BY DEF FlightAt
<1>3. G \subseteq F /\ Announced(f) \subseteq F \ (G \union held[r]) OBVIOUS
<1>4. F \subseteq G2 OBVIOUS
<1>5. v \in Seq(Frame) BY <1>1, AppendSyns
<1>6. Flowing' => InOrder(w, u, held[r], held[Peer(r)]) BY DEF FlightAt
<1> HIDE DEF w, u, v, G, F, G2
<1>7. Fresh(w, v, held[r], F) BY <1>1, <1>2, <1>3, FlightQueued DEF v
<1>8. (held[r] \ held[r]) \intersect G2 = {} OBVIOUS
<1>9. /\ Fresh(w, v, held[r], G2)
      /\ InOrder(w, v, held[r], held[Peer(r)] \union Announced(f)) =>
           InOrder(w, v, held[r], held'[Peer(r)])
  BY <1>1, <1>2, <1>4, <1>5, <1>7, <1>8, FlightKnown
<1>10. Flowing' => InOrder(w, v, held[r], held[Peer(r)] \union Announced(f))
  BY <1>1, <1>6, OrderQueued DEF v
<1>11. stopped'[r] => Len(wire'[r]) <= 1 BY DEF FlightAt
<1>12. QED BY <1>2, <1>9, <1>10, <1>11 DEF FlightAt, w, u, v, G2

\* The receiver reads a frame, and has the stream it announces.
LEMMA AtRead ==
  ASSUME TypeOK, WriterInv, NEW r \in Ends, FlightAt(r), wire[r] # <<>>,
         wire'[r] = Tail(wire[r]), Unsent(Peer(r))' = Unsent(Peer(r)),
         held'[r] = held[r] \union Announced(Head(wire[r])),
         held'[Peer(r)] = held[Peer(r)],
         Opened(Peer(r))' = Opened(Peer(r)),
         Flowing' => Flowing, ~stopped'[r]
  PROVE  FlightAt(r)'
<1> DEFINE w == wire[r]
<1> DEFINE u == Unsent(Peer(r))
<1>1. w \in Seq(Frame) /\ u \in Seq(Frame) BY PeerType, UnsentType DEF TypeOK
<1>2. /\ Fresh(w, u, held[r], held[Peer(r)] \intersect Opened(Peer(r)))
      /\ Led(w, held[r])
      /\ Flowing => InOrder(w, u, held[r], held[Peer(r)])
      /\ w # <<>>
  BY DEF FlightAt
<1>3. /\ wire'[r] = Tail(w)
      /\ held'[r] = held[r] \union Announced(Head(w))
  OBVIOUS
<1> HIDE DEF w, u
<1>4. /\ Fresh(Tail(w), u, held'[r], held[Peer(r)] \intersect Opened(Peer(r)))
      /\ Led(Tail(w), held'[r])
      /\ InOrder(w, u, held[r], held[Peer(r)]) =>
           InOrder(Tail(w), u, held'[r], held[Peer(r)])
  BY <1>1, <1>2, <1>3, FlightRead
<1>5. QED BY <1>2, <1>3, <1>4 DEF FlightAt, u

\* Frames are lost, at the end of the wire or at the front of the queue, on a
\* connection that does not work any more.
LEMMA AtCut ==
  ASSUME TypeOK, WriterInv, NEW r \in Ends, FlightAt(r),
         wire'[r] \in Seq(Frame), Len(wire'[r]) <= Len(wire[r]),
         \A i \in 1..Len(wire'[r]) : wire'[r][i] = wire[r][i],
         \/ Unsent(Peer(r))' = Unsent(Peer(r))
         \/ /\ Unsent(Peer(r)) # <<>>
            /\ Unsent(Peer(r))' = Tail(Unsent(Peer(r))),
         held' = held, opens' = opens,
         ~Flowing', stopped'[r] => stopped[r] \/ Len(wire'[r]) <= 1
  PROVE  FlightAt(r)'
<1> DEFINE w == wire[r]
<1> DEFINE v == wire'[r]
<1> DEFINE u == Unsent(Peer(r))
<1> DEFINE G == held[Peer(r)] \intersect Opened(Peer(r))
<1>1. w \in Seq(Frame) /\ u \in Seq(Frame) BY PeerType, UnsentType DEF TypeOK
<1>2. Fresh(w, u, held[r], G) /\ Led(w, held[r]) BY DEF FlightAt
<1>3. /\ v \in Seq(Frame) /\ Len(v) <= Len(w)
      /\ \A i \in 1..Len(v) : v[i] = w[i]
  OBVIOUS
<1>4. stopped'[r] => Len(v) <= 1 BY <1>1, <1>3 DEF FlightAt
<1>5. Opened(Peer(r))' = Opened(Peer(r)) BY DEF Opened
<1>6. u # <<>> => Tail(u) \in Seq(Frame) BY <1>1, TailSyns
<1>7. \/ Unsent(Peer(r))' = u
      \/ u # <<>> /\ Unsent(Peer(r))' = Tail(u)
  OBVIOUS
<1> HIDE DEF w, v, u, G
<1>8. Fresh(v, u, held[r], G) /\ Led(v, held[r])
  BY <1>1, <1>2, <1>3, FlightCut
<1>9. u # <<>> => Fresh(v, Tail(u), held[r], G)
  BY <1>1, <1>3, <1>8, FlightDropped
<1>10. Fresh(v, Unsent(Peer(r))', held[r], G) BY <1>7, <1>8, <1>9
<1>11. QED BY <1>4, <1>5, <1>8, <1>10 DEF FlightAt, v, G

-----------------------------------------------------------------------------
(* Every step keeps EndInv.                                                  *)

\* Steps that leave the streams of both sessions alone.
LEMMA EndSame ==
  ASSUME EndInv, UNCHANGED <<stopped, streams, told, held, inserted, orphans>>
  PROVE  EndInv'
BY DEF EndInv

\* Stopping tells every registered stream.
LEMMA EndClosed ==
  ASSUME TypeOK, EndInv, NEW s \in Ends, CloseAll(s),
         UNCHANGED <<held, inserted, orphans>>
  PROVE  EndInv'
<1>1. CASE stopped[s]
  <2>1. UNCHANGED <<stopped, streams, told>>
    BY <1>1 DEF CloseAll, registry
  <2>2. QED BY <2>1, EndSame
<1>2. CASE ~stopped[s]
  <2>1. ASSUME NEW r \in Ends
        PROVE  /\ streams'[r] = IF r = s THEN {} ELSE streams[r]
               /\ told'[r] = IF r = s THEN told[r] \union streams[r]
                             ELSE told[r]
               /\ stopped'[r] <=> r = s \/ stopped[r]
    BY <1>2 DEF CloseAll, TypeOK
  <2>2. QED BY <2>1 DEF EndInv
<1>3. QED BY <1>1, <1>2

\* Whatever happens, who holds a stream can count on being told.
LEMMA EndStep ==
  ASSUME TypeOK, EndInv, [Next]_vars
  PROVE  EndInv'
<1>1. ASSUME NEW s \in Ends, Open(s)
      PROVE  EndInv'
  <2>1. CASE open_stream_id(s)
    BY <2>1, EndSame DEF open_stream_id, registry, users
  <2>2. ASSUME NEW id \in allocated[s], open_stream_insert(s, id)
        PROVE  EndInv'
    <3>1. UNCHANGED <<stopped, told, held>>
      BY <2>2 DEF open_stream_insert, users
    <3>2. ASSUME NEW r \in Ends
          PROVE  /\ inserted'[r] = IF r = s THEN inserted[r] \union {id}
                                   ELSE inserted[r]
                 /\ streams'[r] = IF r = s THEN streams[r] \union {id}
                                  ELSE streams[r]
                 /\ orphans'[r] = IF r = s /\ stopped[s]
                                  THEN orphans[r] \union {id} ELSE orphans[r]
      BY <2>2 DEF open_stream_insert, TypeOK
    <3>3. QED BY <3>1, <3>2 DEF EndInv
  <2>3. ASSUME NEW id \in inserted[s], open_stream_syn(s, id)
        PROVE  EndInv'
    <3>1. UNCHANGED <<stopped, told, streams, orphans>>
      BY <2>3 DEF open_stream_syn, registry
    <3>2. ASSUME NEW r \in Ends
          PROVE  /\ inserted'[r] = IF r = s THEN inserted[r] \ {id}
                                   ELSE inserted[r]
                 /\ held'[r] = IF r = s THEN held[r] \union {id} ELSE held[r]
      BY <2>3 DEF open_stream_syn, TypeOK
    <3>3. QED BY <3>1, <3>2 DEF EndInv
  <2>4. QED BY <1>1, <2>1, <2>2, <2>3 DEF Open
<1>2. ASSUME NEW s \in Ends, User(s)
      PROVE  EndInv'
  <2>1. ASSUME NEW id \in held[s], stream_data(s, id) \/ stream_fin(s, id)
        PROVE  EndInv'
    BY <2>1, EndSame DEF stream_data, stream_fin, registry, opening
  <2>2. CASE stop(s)
    BY <2>2, EndClosed DEF stop, Stop, opening, users
  <2>3. QED BY <1>2, <2>1, <2>2 DEF User
<1>3. ASSUME NEW s \in Ends, Write(s)
      PROVE  EndInv'
  <2>1. CASE transport_write(s) \/ write_completed(s)
    BY <2>1, EndSame
    DEF transport_write, write_completed, registry, opening, users
  <2>2. CASE write_failed(s)
    BY <2>2, EndClosed DEF write_failed, Stop, opening, users
  <2>3. QED BY <1>3, <2>1, <2>2 DEF Write
<1>4. ASSUME NEW s \in Ends, Read(s)
      PROVE  EndInv'
  <2>1. CASE handle_syn(s)
    <3> DEFINE f == Head(wire[s])
    <3>1. ~stopped[s] BY <2>1 DEF handle_syn, ReadFrame
    <3>2. UNCHANGED <<stopped, told, inserted, orphans>>
      BY <2>1 DEF handle_syn, opening
    <3>3. CASE streams' = [streams EXCEPT ![s] = @ \union {f.id}]
               /\ held' = [held EXCEPT ![s] = @ \union {f.id}]
      <4>1. ASSUME NEW r \in Ends
            PROVE  /\ streams'[r] = IF r = s THEN streams[r] \union {f.id}
                                    ELSE streams[r]
                   /\ held'[r] = IF r = s THEN held[r] \union {f.id}
                                 ELSE held[r]
        BY <3>3 DEF TypeOK
      <4> HIDE DEF f
      <4>2. QED BY <3>1, <3>2, <4>1 DEF EndInv
    <3>4. CASE UNCHANGED <<streams, held>> BY <3>2, <3>4, EndSame
    <3>5. QED BY <2>1, <3>3, <3>4 DEF handle_syn
  <2>2. CASE handle_data(s) \/ handle_ping(s)
    BY <2>2, EndSame DEF handle_data, handle_ping, registry, opening, users
  <2>3. CASE handle_fin(s)
    <3>1. UNCHANGED <<stopped, streams, held, inserted, orphans>>
      BY <2>3 DEF handle_fin, opening, users
    <3>2. \A r \in Ends : told[r] \subseteq told'[r]
      BY <2>3 DEF handle_fin, TypeOK
    <3>3. QED BY <3>1, <3>2 DEF EndInv
  <2>4. CASE handle_foreign(s)
    BY <2>4, EndClosed DEF handle_foreign, Stop, opening, users
  <2>5. CASE read_failed(s)
    BY <2>5, EndClosed DEF read_failed, Stop, opening, users
  <2>6. CASE read_after_stop(s)
    BY <2>6, EndSame DEF read_after_stop, registry, opening, users
  <2>7. QED BY <1>4, <2>1, <2>2, <2>3, <2>4, <2>5, <2>6 DEF Read
<1>5. ASSUME NEW s \in Ends, Timer(s)
      PROVE  EndInv'
  <2>1. CASE timer_expires(s)
    BY <2>1, EndSame DEF timer_expires, registry, opening, users
  <2>2. CASE heartbeat(s)
    <3>1. UNCHANGED <<held, inserted, orphans>>
      BY <2>2 DEF heartbeat, opening, users
    <3>2. CASE CloseAll(s) BY <3>1, <3>2, EndClosed
    <3>3. CASE UNCHANGED registry BY <3>1, <3>3, EndSame DEF registry
    <3>4. QED BY <2>2, <3>2, <3>3 DEF heartbeat
  <2>3. QED BY <1>5, <2>1, <2>2 DEF Timer
<1>6. ASSUME NEW s \in Ends, Cleanup(s)
      PROVE  EndInv'
  <2>1. PICK id \in streams[s] : remove_stream(s, id) BY <1>6 DEF Cleanup
  <2>2. UNCHANGED <<stopped, told, held, inserted, orphans>>
    BY <2>1 DEF remove_stream, opening, users
  <2>3. id \in told[s] BY <2>1 DEF remove_stream
  <2>4. \A r \in Ends : streams'[r] = IF r = s THEN streams[r] \ {id}
                                      ELSE streams[r]
    BY <2>1 DEF remove_stream, TypeOK
  <2>5. QED BY <2>2, <2>3, <2>4 DEF EndInv
<1>7. CASE Environment
  BY <1>7, EndSame
  DEF Environment, link_fails, foreign_frame, Tick, registry, opening, users
<1>8. CASE UNCHANGED vars
  BY <1>8, EndSame DEF vars, registry, opening, users
<1>9. QED
  BY <1>1, <1>2, <1>3, <1>4, <1>5, <1>6, <1>7, <1>8 DEF Next

-----------------------------------------------------------------------------
(* Every step keeps IdInv.                                                   *)

\* Steps that leave the ids alone; streams may go.
LEMMA IdSame ==
  ASSUME IdInv, UNCHANGED <<opening, held>>,
         \A r \in Ends : streams'[r] \subseteq streams[r]
  PROVE  IdInv'
BY DEF IdInv, opening, Opened

\* A SYN that is read is of a stream the other end has opened and has.
LEMMA SynIsForeign ==
  ASSUME TypeOK, WriterInv, IdInv, FlightInv, NEW s \in Ends, ReadFrame(s),
         Head(wire[s]).type = "syn"
  PROVE  /\ Head(wire[s]).id \in held[Peer(s)] \intersect Opened(Peer(s))
         /\ Head(wire[s]).id \notin held[s] \union inserted[s] \union allocated[s]
         /\ Head(wire[s]).id \notin streams[s]
<1> DEFINE x == Head(wire[s]).id
<1>1. wire[s] \in Seq(Frame) /\ wire[s] # <<>> BY DEF ReadFrame, TypeOK
<1>2. x \in Announced(Head(wire[s])) BY DEF Announced
<1>3. x \in Syns(wire[s]) BY <1>1, <1>2, TailSyns
<1>4. Fresh(wire[s], Unsent(Peer(s)), held[s],
            held[Peer(s)] \intersect Opened(Peer(s)))
  BY DEF FlightInv
<1>5. x \in held[Peer(s)] \intersect Opened(Peer(s)) /\ x \notin held[s]
  BY <1>3, <1>4 DEF Fresh
<1>6. Opened(s) \intersect Opened(Peer(s)) = {} BY OpenedApart
<1>7. /\ allocated[s] \union inserted[s] \subseteq Opened(s)
      /\ streams[s] \subseteq held[s] \union inserted[s]
  BY DEF IdInv
<1> HIDE DEF x
<1>8. /\ x \notin held[s] \union inserted[s] \union allocated[s]
      /\ x \notin streams[s]
  BY <1>5, <1>6, <1>7
<1>9. QED BY <1>5, <1>8 DEF x

\* Stopping removes streams.
LEMMA IdClosed ==
  ASSUME TypeOK, IdInv, NEW s \in Ends, CloseAll(s), UNCHANGED <<opening, held>>
  PROVE  IdInv'
<1>1. \A r \in Ends : streams'[r] \subseteq streams[r]
  BY DEF CloseAll, registry, TypeOK
<1>2. QED BY <1>1, IdSame

\* open_stream takes the next id.
LEMMA IdTaken ==
  ASSUME TypeOK, IdInv, NEW s \in Ends, open_stream_id(s)
  PROVE  /\ Opened(s)' = Opened(s) \union {next_stream_id[s]}
         /\ Opened(Peer(s))' = Opened(Peer(s))
         /\ opens'[s] <= MaxOpens[s]
         /\ next_stream_id'[s] = FirstId(s) + 2 * opens'[s]
<1> DEFINE n == opens[s]
<1>1. /\ n \in Nat /\ n < MaxOpens[s] /\ MaxOpens[s] \in Nat
      /\ opens'[s] = n + 1
      /\ opens'[Peer(s)] = opens[Peer(s)]
      /\ next_stream_id[s] = FirstId(s) + 2 * n
      /\ next_stream_id'[s] = NextId(next_stream_id[s])
  <2>1. n \in Nat /\ n < MaxOpens[s] /\ MaxOpens[s] \in Nat
    BY SessionAssumption DEF open_stream_id, TypeOK
  <2>2. opens'[s] = n + 1 /\ opens'[Peer(s)] = opens[Peer(s)]
    BY PeerType DEF open_stream_id, TypeOK
  <2>3. next_stream_id'[s] = NextId(next_stream_id[s])
    <3>1. next_stream_id \in [Ends -> Ids] BY DEF TypeOK
    <3>2. QED BY <3>1 DEF open_stream_id
  <2>4. next_stream_id[s] = FirstId(s) + 2 * n BY DEF IdInv
  <2>5. QED BY <2>1, <2>2, <2>3, <2>4
<1>2. FirstId(s) \in 1..2 BY DEF FirstId
<1>3. 2 * MaxOpens[s] + 2 < IdSpace /\ IdSpace \in Nat BY SessionAssumption
<1> HIDE DEF n
<1>4. /\ next_stream_id[s] + 2 < IdSpace
      /\ next_stream_id[s] + 2 \in Nat
  BY <1>1, <1>2, <1>3
<1>5. NextId(next_stream_id[s]) = next_stream_id[s] + 2
  BY <1>3, <1>4 DEF NextId
<1>6. 0..n = 0..(n - 1) \union {n} BY <1>1
<1>7. Opened(s)' = {FirstId(s) + 2 * k : k \in 0..n} BY <1>1 DEF Opened
<1>8. Opened(s) = {FirstId(s) + 2 * k : k \in 0..(n - 1)} BY DEF Opened, n
<1>9. Opened(s)' = Opened(s) \union {next_stream_id[s]}
  BY <1>1, <1>6, <1>7, <1>8
<1>10. Opened(Peer(s))' = Opened(Peer(s)) BY <1>1 DEF Opened
<1>11. opens'[s] <= MaxOpens[s] BY <1>1
<1>12. next_stream_id'[s] = FirstId(s) + 2 * opens'[s] BY <1>1, <1>2, <1>5
<1>13. QED BY <1>9, <1>10, <1>11, <1>12

\* IdInv at one end.
IdAt(r) ==
  /\ opens[r] <= MaxOpens[r]
  /\ next_stream_id[r] = FirstId(r) + 2 * opens[r]
  /\ allocated[r] \union inserted[r] \subseteq Opened(r)
  /\ held[r] \subseteq Opened(r) \union Opened(Peer(r))
  /\ held[r] \intersect Opened(Peer(r)) \subseteq held[Peer(r)]
  /\ streams[r] \subseteq held[r] \union inserted[r]
  /\ allocated[r] \intersect (held[r] \union inserted[r]) = {}
  /\ inserted[r] \intersect held[r] = {}

\* There are two ends.
LEMMA TwoEnds ==
  ASSUME NEW s \in Ends, NEW r \in Ends
  PROVE  r = s \/ (r = Peer(s) /\ Peer(r) = s)
BY DEF Ends, Peer

\* IdInv end by end.
LEMMA IdBoth ==
  ASSUME NEW s \in Ends
  PROVE  /\ IdInv => IdAt(s) /\ IdAt(Peer(s))
         /\ IdAt(s)' /\ IdAt(Peer(s))' => IdInv'
<1>1. IdInv => \A r \in Ends : IdAt(r) BY DEF IdInv, IdAt
<1>2. (\A r \in Ends : IdAt(r)') => IdInv' BY DEF IdInv, IdAt
<1>3. QED BY <1>1, <1>2, PeerType, TwoEnds

\* The steps of open_stream keep it.
LEMMA IdOpen ==
  ASSUME TypeOK, IdInv, NEW s \in Ends, Open(s)
  PROVE  IdInv'
<1> DEFINE p == Peer(s)
<1>0. p \in Ends /\ p # s /\ Peer(p) = s BY PeerType
<1>1. IdAt(s) /\ IdAt(p) BY IdBoth
<1>2. /\ Opened(s) \intersect Opened(p) = {}
      /\ next_stream_id[s] \notin Opened(s) \union Opened(p)
  BY OpenedApart
<1>3. CASE open_stream_id(s)
  <2>1. /\ Opened(s)' = Opened(s) \union {next_stream_id[s]}
        /\ Opened(p)' = Opened(p)
        /\ opens'[s] <= MaxOpens[s]
        /\ next_stream_id'[s] = FirstId(s) + 2 * opens'[s]
    BY <1>3, IdTaken
  <2>2. /\ UNCHANGED <<streams, held, inserted>>
        /\ allocated'[s] = allocated[s] \union {next_stream_id[s]}
        /\ allocated'[p] = allocated[p]
        /\ opens'[p] = opens[p]
        /\ next_stream_id'[p] = next_stream_id[p]
    BY <1>0, <1>3 DEF open_stream_id, registry, users, TypeOK
  <2> HIDE DEF p
  <2>3. IdAt(s)' BY <1>1, <1>2, <2>1, <2>2 DEF IdAt, p
  <2>4. IdAt(p)' BY <1>0, <1>1, <1>2, <2>1, <2>2 DEF IdAt
  <2>5. QED BY <2>3, <2>4, IdBoth DEF p
<1>4. ASSUME NEW id \in allocated[s], open_stream_insert(s, id)
      PROVE  IdInv'
  <2>1. /\ UNCHANGED <<opens, next_stream_id, held>>
        /\ allocated'[s] = allocated[s] \ {id}
        /\ inserted'[s] = inserted[s] \union {id}
        /\ streams'[s] = streams[s] \union {id}
        /\ allocated'[p] = allocated[p]
        /\ inserted'[p] = inserted[p]
        /\ streams'[p] = streams[p]
    BY <1>0, <1>4 DEF open_stream_insert, users, TypeOK
  <2>2. Opened(s)' = Opened(s) /\ Opened(p)' = Opened(p) BY <2>1 DEF Opened
  <2> HIDE DEF p
  <2>3. IdAt(s)' BY <1>1, <2>1, <2>2 DEF IdAt, p
  <2>4. IdAt(p)' BY <1>0, <1>1, <2>1, <2>2 DEF IdAt
  <2>5. QED BY <2>3, <2>4, IdBoth DEF p
<1>5. ASSUME NEW id \in inserted[s], open_stream_syn(s, id)
      PROVE  IdInv'
  <2>1. /\ UNCHANGED <<opens, next_stream_id, streams, allocated>>
        /\ inserted'[s] = inserted[s] \ {id}
        /\ held'[s] = held[s] \union {id}
        /\ inserted'[p] = inserted[p]
        /\ held'[p] = held[p]
    BY <1>0, <1>5 DEF open_stream_syn, registry, TypeOK
  <2>2. Opened(s)' = Opened(s) /\ Opened(p)' = Opened(p) BY <2>1 DEF Opened
  <2> HIDE DEF p
  <2>3. id \in Opened(s) /\ id \notin allocated[s] BY <1>1 DEF IdAt
  <2>4. IdAt(s)' BY <1>1, <1>2, <2>1, <2>2, <2>3 DEF IdAt, p
  <2>5. IdAt(p)' BY <1>0, <1>1, <2>1, <2>2 DEF IdAt
  <2>6. QED BY <2>4, <2>5, IdBoth DEF p
<1>6. QED BY <1>3, <1>4, <1>5 DEF Open

\* So do the other ones: a SYN that is read registers a stream of the peer.
LEMMA IdStep ==
  ASSUME TypeOK, WriterInv, IdInv, FlightInv, [Next]_vars
  PROVE  IdInv'
<1>1. ASSUME NEW s \in Ends, Open(s)
      PROVE  IdInv'
  BY <1>1, IdOpen
<1>2. ASSUME NEW s \in Ends, User(s)
      PROVE  IdInv'
  <2>1. ASSUME NEW id \in held[s], stream_data(s, id) \/ stream_fin(s, id)
        PROVE  IdInv'
    BY <2>1, IdSame DEF stream_data, stream_fin, registry
  <2>2. CASE stop(s) BY <2>2, IdClosed DEF stop, Stop, users
  <2>3. QED BY <1>2, <2>1, <2>2 DEF User
<1>3. ASSUME NEW s \in Ends, Write(s)
      PROVE  IdInv'
  <2>1. CASE transport_write(s) \/ write_completed(s)
    BY <2>1, IdSame DEF transport_write, write_completed, registry, users
  <2>2. CASE write_failed(s) BY <2>2, IdClosed DEF write_failed, Stop, users
  <2>3. QED BY <1>3, <2>1, <2>2 DEF Write
<1>4. ASSUME NEW s \in Ends, Read(s)
      PROVE  IdInv'
  <2>1. CASE handle_syn(s)
    <3> DEFINE x == Head(wire[s]).id
    <3> DEFINE p == Peer(s)
    <3>0. p \in Ends /\ p # s /\ Peer(p) = s BY PeerType
    <3>1. ReadFrame(s) /\ Head(wire[s]).type = "syn" BY <2>1 DEF handle_syn
    <3>2. /\ x \in held[p] \intersect Opened(p)
          /\ x \notin held[s] \union inserted[s] \union allocated[s]
          /\ x \notin streams[s]
      BY <3>1, SynIsForeign
    <3>3. /\ streams' = [streams EXCEPT ![s] = @ \union {x}]
          /\ held' = [held EXCEPT ![s] = @ \union {x}]
      BY <2>1, <3>2 DEF handle_syn
    <3>4. /\ streams'[s] = streams[s] \union {x}
          /\ held'[s] = held[s] \union {x}
          /\ streams'[p] = streams[p]
          /\ held'[p] = held[p]
      BY <3>0, <3>3 DEF TypeOK
    <3>5. UNCHANGED <<opens, next_stream_id, allocated, inserted>>
      BY <2>1 DEF handle_syn, opening
    <3>6. Opened(s)' = Opened(s) /\ Opened(p)' = Opened(p)
      BY <3>5 DEF Opened
    <3>7. IdAt(s) /\ IdAt(p) BY IdBoth
    <3>8. Opened(s) \intersect Opened(p) = {} BY OpenedApart
    <3> HIDE DEF p, x
    <3>9. IdAt(s)' BY <3>2, <3>4, <3>5, <3>6, <3>7 DEF IdAt, p
    <3>10. IdAt(p)' BY <3>0, <3>2, <3>4, <3>5, <3>6, <3>7, <3>8 DEF IdAt
    <3>11. QED BY <3>9, <3>10, IdBoth DEF p
  <2>2. CASE handle_data(s) \/ handle_fin(s) \/ handle_ping(s)
    BY <2>2, IdSame DEF handle_data, handle_fin, handle_ping, registry, users
  <2>3. CASE handle_foreign(s) BY <2>3, IdClosed DEF handle_foreign, Stop, users
  <2>4. CASE read_failed(s) BY <2>4, IdClosed DEF read_failed, Stop, users
  <2>5. CASE read_after_stop(s)
    BY <2>5, IdSame DEF read_after_stop, registry, users
  <2>6. QED BY <1>4, <2>1, <2>2, <2>3, <2>4, <2>5 DEF Read
<1>5. ASSUME NEW s \in Ends, Timer(s)
      PROVE  IdInv'
  <2>1. CASE timer_expires(s) BY <2>1, IdSame DEF timer_expires, registry, users
  <2>2. CASE heartbeat(s)
    <3>1. UNCHANGED <<opening, held>> BY <2>2 DEF heartbeat, users
    <3>2. CASE CloseAll(s) BY <3>1, <3>2, IdClosed
    <3>3. CASE UNCHANGED registry BY <3>1, <3>3, IdSame DEF registry
    <3>4. QED BY <2>2, <3>2, <3>3 DEF heartbeat
  <2>3. QED BY <1>5, <2>1, <2>2 DEF Timer
<1>6. ASSUME NEW s \in Ends, Cleanup(s)
      PROVE  IdInv'
  <2>1. PICK id \in streams[s] : remove_stream(s, id) BY <1>6 DEF Cleanup
  <2>2. UNCHANGED <<opening, held>> BY <2>1 DEF remove_stream, users
  <2>3. \A r \in Ends : streams'[r] \subseteq streams[r]
    BY <2>1 DEF remove_stream, TypeOK
  <2>4. QED BY <2>2, <2>3, IdSame
<1>7. CASE Environment
  BY <1>7, IdSame
  DEF Environment, link_fails, foreign_frame, Tick, registry, users
<1>8. CASE UNCHANGED vars BY <1>8, IdSame DEF vars, registry, users
<1>9. QED
  BY <1>1, <1>2, <1>3, <1>4, <1>5, <1>6, <1>7, <1>8 DEF Next

-----------------------------------------------------------------------------
(* Every step keeps FlightInv.                                               *)

\* FlightInv end by end.
LEMMA FlightBoth ==
  ASSUME NEW s \in Ends
  PROVE  /\ FlightInv => FlightAt(s) /\ FlightAt(Peer(s))
         /\ FlightAt(s)' /\ FlightAt(Peer(s))' => FlightInv'
<1>1. FlightInv => \A r \in Ends : FlightAt(r) BY DEF FlightInv, FlightAt
<1>2. (\A r \in Ends : FlightAt(r)') => FlightInv' BY DEF FlightInv, FlightAt
<1>3. QED BY <1>1, <1>2, PeerType, TwoEnds

\* A connection that has failed or been closed does not work again.
LEMMA FlowEnds ==
  ASSUME TypeOK, [Next]_vars
  PROVE  Flowing' => Flowing
<1>1. \A r \in Ends : ~stopped'[r] => ~stopped[r] BY StopIsFinal
<1>2. link' = "up" => link = "up"
  <2>1. ASSUME NEW s \in Ends, Open(s) \/ User(s)
        PROVE  link' = link
    BY <2>1
    DEF Open, open_stream_id, open_stream_insert, open_stream_syn,
        User, stream_data, stream_fin, stop
  <2>2. ASSUME NEW s \in Ends, Write(s)
        PROVE  link' = link
    BY <2>2 DEF Write, transport_write, write_completed, write_failed
  <2>3. ASSUME NEW s \in Ends, Read(s)
        PROVE  link' = link
    BY <2>3
    DEF Read, handle_syn, handle_data, handle_fin, handle_ping, handle_foreign,
        read_failed, read_after_stop
  <2>4. ASSUME NEW s \in Ends, Timer(s) \/ Cleanup(s)
        PROVE  link' = link
    BY <2>4 DEF Timer, timer_expires, heartbeat, Cleanup, remove_stream
  <2>5. CASE Environment
    BY <2>5 DEF Environment, link_fails, foreign_frame, Tick
  <2>6. CASE UNCHANGED vars BY <2>6 DEF vars
  <2>7. QED BY <2>1, <2>2, <2>3, <2>4, <2>5, <2>6 DEF Next
<1>3. QED BY <1>1, <1>2 DEF Flowing

\* Steps that leave the frames, the streams and the connection alone.
LEMMA FlightSame ==
  ASSUME FlightInv, UNCHANGED <<stopped, wire, write_queue, write_state, held,
                                opens, link>>
  PROVE  FlightInv'
<1>1. \A s \in Ends : Unsent(s)' = Unsent(s) /\ Opened(s)' = Opened(s)
  BY DEF Unsent, Opened
<1>2. Flowing' = Flowing BY DEF Flowing
<1>3. \A s \in Ends : Peer(s) \in Ends BY PeerType
<1>4. QED BY <1>1, <1>2, <1>3 DEF FlightInv

\* A step that only sends a frame of a stream the end has, or of none.
LEMMA FlightSent ==
  ASSUME TypeOK, WriterInv, FlightInv, NEW s \in Ends,
         NEW type \in FrameTypes \ {"syn"}, NEW id \in Ids,
         async_send_frame(s, type, id),
         type \in {"data", "fin"} => id \in held[s],
         UNCHANGED <<stopped, wire, held, opens, link>>
  PROVE  FlightInv'
<1> DEFINE p == Peer(s)
<1> DEFINE f == NewFrame(type, id)
<1>0. p \in Ends /\ p # s /\ Peer(p) = s BY PeerType
<1>1. FlightAt(s) /\ FlightAt(p) BY FlightBoth
<1>2. /\ f \in Frame
      /\ Unsent(s)' = Append(Unsent(s), f)
      /\ Unsent(p)' = Unsent(p)
  BY FrameSent
<1>3. f.type = type /\ f.id = id BY DEF NewFrame
<1>4. Flowing' <=> Flowing BY DEF Flowing
<1>5. Opened(s)' = Opened(s) /\ Opened(p)' = Opened(p) BY DEF Opened
<1> HIDE DEF p, f
<1>6. Announced(f) = {} BY <1>3 DEF Announced
<1>7. FlightAt(s)'
  BY <1>0, <1>1, <1>2, <1>4, <1>5, AtKept DEF p
<1>8. FlightAt(p)'
  <2>1. Unsent(Peer(p))' = Append(Unsent(Peer(p)), f) BY <1>0, <1>2
  <2>2. Opened(Peer(p))' = Opened(Peer(p)) BY <1>0, <1>5
  <2>3. f.type \in {"data", "fin"} => f.id \in held[Peer(p)] BY <1>0, <1>3
  <2>4. QED BY <1>0, <1>1, <1>2, <1>4, <1>6, <2>1, <2>2, <2>3, AtQueued
<1>9. QED BY <1>7, <1>8, FlightBoth DEF p

\* Frames are lost on a connection that does not work any more: on the wire,
\* and the front one of the queue of an end.
LEMMA FlightLost ==
  ASSUME TypeOK, WriterInv, FlightInv, NEW s \in Ends,
         \/ Unsent(s)' = Unsent(s)
         \/ Unsent(s) # <<>> /\ Unsent(s)' = Tail(Unsent(s)),
         Unsent(Peer(s))' = Unsent(Peer(s)),
         \A r \in Ends :
           /\ wire'[r] \in Seq(Frame)
           /\ Len(wire'[r]) <= Len(wire[r])
           /\ \A i \in 1..Len(wire'[r]) : wire'[r][i] = wire[r][i]
           /\ stopped'[r] => stopped[r] \/ Len(wire'[r]) <= 1,
         held' = held, opens' = opens, ~Flowing'
  PROVE  FlightInv'
<1> DEFINE p == Peer(s)
<1>0. p \in Ends /\ p # s /\ Peer(p) = s BY PeerType
<1>1. FlightAt(s) /\ FlightAt(p) BY FlightBoth
<1>2. /\ wire'[s] \in Seq(Frame) /\ Len(wire'[s]) <= Len(wire[s])
      /\ \A i \in 1..Len(wire'[s]) : wire'[s][i] = wire[s][i]
      /\ stopped'[s] => stopped[s] \/ Len(wire'[s]) <= 1
  OBVIOUS
<1>3. /\ wire'[p] \in Seq(Frame) /\ Len(wire'[p]) <= Len(wire[p])
      /\ \A i \in 1..Len(wire'[p]) : wire'[p][i] = wire[p][i]
      /\ stopped'[p] => stopped[p] \/ Len(wire'[p]) <= 1
  BY <1>0
<1>4. Unsent(Peer(s))' = Unsent(Peer(s)) OBVIOUS
<1>5. \/ Unsent(Peer(p))' = Unsent(Peer(p))
      \/ Unsent(Peer(p)) # <<>> /\ Unsent(Peer(p))' = Tail(Unsent(Peer(p)))
  BY <1>0
<1> HIDE DEF p
<1>6. FlightAt(s)' BY <1>1, <1>2, <1>4, AtCut
<1>7. FlightAt(p)' BY <1>0, <1>1, <1>3, <1>5, AtCut
<1>8. QED BY <1>6, <1>7, FlightBoth DEF p

\* What stopping does to the wires.
LEMMA CloseCuts ==
  ASSUME TypeOK, NEW s \in Ends, CloseAll(s)
  PROVE  /\ ~Flowing'
         /\ \A r \in Ends :
              /\ wire'[r] \in Seq(Frame)
              /\ Len(wire'[r]) <= Len(wire[r])
              /\ \A i \in 1..Len(wire'[r]) : wire'[r][i] = wire[r][i]
              /\ stopped'[r] => stopped[r] \/ Len(wire'[r]) <= 1
<1>1. ~Flowing' BY StopStops DEF Flowing
<1>2. \A r \in Ends : wire[r] \in Seq(Frame) BY DEF TypeOK
<1>3. CASE stopped[s]
  <2>1. stopped' = stopped /\ wire' = wire BY <1>3 DEF CloseAll, registry
  <2>2. QED BY <1>1, <1>2, <2>1
<1>4. CASE ~stopped[s]
  <2> DEFINE v == IF wire[s] = <<>> THEN <<>> ELSE <<Head(wire[s])>>
  <2>1. /\ v \in Seq(Frame) /\ Len(v) <= Len(wire[s]) /\ Len(v) <= 1
        /\ \A i \in 1..Len(v) : v[i] = wire[s][i]
    <3>1. CASE wire[s] = <<>> BY <3>1
    <3>2. CASE wire[s] # <<>>
      <4>1. Head(wire[s]) \in Frame /\ Head(wire[s]) = wire[s][1]
        BY <1>2, <3>2
      <4>2. Len(wire[s]) >= 1 BY <1>2, <3>2, TailSeq
      <4>3. v = <<Head(wire[s])>> BY <3>2
      <4> HIDE DEF v
      <4>4. v \in Seq(Frame) /\ Len(v) = 1 /\ v[1] = wire[s][1]
        BY <4>1, <4>3
      <4>5. QED BY <4>2, <4>4
    <3>3. QED BY <3>1, <3>2
  <2>2. /\ wire' = [wire EXCEPT ![s] = v]
        /\ stopped' = [stopped EXCEPT ![s] = TRUE]
    BY <1>4 DEF CloseAll
  <2> HIDE DEF v
  <2>3. wire'[s] = v BY <2>2 DEF TypeOK
  <2>4. \A r \in Ends : r # s => wire'[r] = wire[r] /\ stopped'[r] = stopped[r]
    BY <2>2 DEF TypeOK
  <2>5. ASSUME NEW r \in Ends
        PROVE  /\ wire'[r] \in Seq(Frame)
               /\ Len(wire'[r]) <= Len(wire[r])
               /\ \A i \in 1..Len(wire'[r]) : wire'[r][i] = wire[r][i]
               /\ stopped'[r] => stopped[r] \/ Len(wire'[r]) <= 1
    <3>1. CASE r = s BY <2>1, <2>3, <3>1
    <3>2. CASE r # s BY <1>2, <2>4, <3>2
    <3>3. QED BY <3>1, <3>2
  <2>6. QED BY <1>1, <2>5
<1>5. QED BY <1>3, <1>4

\* Stopping, but for what else the step does to the end's queue.
LEMMA FlightClosed ==
  ASSUME TypeOK, WriterInv, FlightInv, NEW s \in Ends, CloseAll(s),
         UNCHANGED <<held, opens>>,
         \/ Unsent(s)' = Unsent(s)
         \/ Unsent(s) # <<>> /\ Unsent(s)' = Tail(Unsent(s)),
         Unsent(Peer(s))' = Unsent(Peer(s))
  PROVE  FlightInv'
BY CloseCuts, FlightLost

\* Steps after which the same frames are on their way, and not yet taken.
LEMMA FlightStill ==
  ASSUME FlightInv, UNCHANGED <<stopped, wire, held, opens, link>>,
         \A s \in Ends : Unsent(s)' = Unsent(s)
  PROVE  FlightInv'
<1>1. \A s \in Ends : Opened(s)' = Opened(s) BY DEF Opened
<1>2. Flowing' = Flowing BY DEF Flowing
<1>3. \A s \in Ends : Peer(s) \in Ends BY PeerType
<1>4. QED BY <1>1, <1>2, <1>3 DEF FlightInv

\* open_stream: its SYN is the first frame of a stream.
LEMMA FlightOpen ==
  ASSUME TypeOK, WriterInv, IdInv, FlightInv, NEW s \in Ends, Open(s)
  PROVE  FlightInv'
<1> DEFINE p == Peer(s)
<1>0. p \in Ends /\ p # s /\ Peer(p) = s BY PeerType
<1>1. FlightAt(s) /\ FlightAt(p) BY FlightBoth
<1>2. CASE open_stream_id(s)
  <2>1. /\ Opened(s)' = Opened(s) \union {next_stream_id[s]}
        /\ Opened(p)' = Opened(p)
    BY <1>2, IdTaken
  <2>2. UNCHANGED <<stopped, wire, write_queue, write_state, held, link>>
    BY <1>2 DEF open_stream_id, registry, writer, users
  <2>3. Unsent(s)' = Unsent(s) /\ Unsent(p)' = Unsent(p) BY <2>2 DEF Unsent
  <2>4. Flowing' => Flowing BY <2>2 DEF Flowing
  <2> HIDE DEF p
  <2>5. FlightAt(s)' BY <1>1, <2>1, <2>2, <2>3, <2>4, AtKept DEF p
  <2>6. FlightAt(p)'
    <3>1. Unsent(Peer(p))' = Unsent(Peer(p)) BY <1>0, <2>3
    <3>2. Opened(Peer(p)) \subseteq Opened(Peer(p))' BY <1>0, <2>1
    <3>3. QED BY <1>0, <1>1, <2>2, <2>4, <3>1, <3>2, AtKept
  <2>7. QED BY <2>5, <2>6, FlightBoth DEF p
<1>3. ASSUME NEW id \in allocated[s], open_stream_insert(s, id)
      PROVE  FlightInv'
  BY <1>3, FlightSame DEF open_stream_insert, writer, users
<1>4. ASSUME NEW id \in inserted[s], open_stream_syn(s, id)
      PROVE  FlightInv'
  <2> DEFINE f == NewFrame("syn", id)
  <2>1. id \in Ids /\ async_send_frame(s, "syn", id)
    BY <1>4 DEF open_stream_syn, TypeOK
  <2>2. /\ f \in Frame
        /\ Unsent(s)' = Append(Unsent(s), f)
        /\ Unsent(p)' = Unsent(p)
    BY <2>1, FrameSent DEF FrameTypes
  <2>3. f.type = "syn" /\ f.id = id BY DEF NewFrame
  <2>4. UNCHANGED <<stopped, wire, opens, link>>
    BY <1>4 DEF open_stream_syn, registry
  <2>5. held'[s] = held[s] \union {id} /\ held'[p] = held[p]
    BY <1>0, <1>4 DEF open_stream_syn, TypeOK
  <2>6. Opened(s)' = Opened(s) /\ Opened(p)' = Opened(p) BY <2>4 DEF Opened
  <2>7. Flowing' => Flowing BY <2>4 DEF Flowing
  <2>8. /\ Opened(s) \intersect Opened(p) = {}
        /\ id \in Opened(s) /\ id \notin held[s]
        /\ held[p] \intersect Opened(s) \subseteq held[s]
    BY <1>0, OpenedApart DEF IdInv
  <2> HIDE DEF p, f
  <2>9. Announced(f) = {id} BY <2>3 DEF Announced
  <2>10. FlightAt(s)'
    BY <1>0, <1>1, <2>2, <2>4, <2>5, <2>6, <2>7, <2>8, AtKept DEF p
  <2>11. FlightAt(p)'
    <3>1. Unsent(Peer(p))' = Append(Unsent(Peer(p)), f) BY <1>0, <2>2
    <3>2. Opened(Peer(p))' = Opened(Peer(p)) BY <1>0, <2>6
    <3>3. Announced(f) \subseteq Opened(Peer(p)) \ (held[Peer(p)] \union held[p])
      BY <1>0, <2>8, <2>9
    <3>4. /\ held[Peer(p)] \union Announced(f) \subseteq held'[Peer(p)]
          /\ held'[Peer(p)] \subseteq
               held[Peer(p)] \union Announced(f) \union held[p]
      BY <1>0, <2>5, <2>9
    <3>5. f.type \in {"data", "fin"} => f.id \in held[Peer(p)] BY <2>3
    <3>6. QED
      BY <1>0, <1>1, <2>2, <2>4, <2>5, <2>7, <3>1, <3>2, <3>3, <3>4, <3>5,
         AtQueued
  <2>12. QED BY <2>10, <2>11, FlightBoth DEF p
<1>5. QED BY <1>2, <1>3, <1>4 DEF Open

\* The transport takes a frame of a connection that works.
LEMMA AtTaken ==
  ASSUME TypeOK, WriterInv, NEW r \in Ends, FlightAt(r), Flowing,
         Unsent(Peer(r)) # <<>>,
         wire'[r] = Append(wire[r], Head(Unsent(Peer(r)))),
         Unsent(Peer(r))' = Tail(Unsent(Peer(r))),
         held' = held, opens' = opens, ~stopped'[r]
  PROVE  FlightAt(r)'
<1> DEFINE w == wire[r]
<1> DEFINE u == Unsent(Peer(r))
<1> DEFINE G == held[Peer(r)] \intersect Opened(Peer(r))
<1>1. w \in Seq(Frame) /\ u \in Seq(Frame) BY PeerType, UnsentType DEF TypeOK
<1>2. /\ Fresh(w, u, held[r], G) /\ Led(w, held[r])
      /\ InOrder(w, u, held[r], held[Peer(r)])
      /\ u # <<>>
  BY DEF FlightAt
<1>3. Opened(Peer(r))' = Opened(Peer(r)) BY DEF Opened
<1> HIDE DEF w, u, G
<1>4. /\ Fresh(Append(w, Head(u)), Tail(u), held[r], G)
      /\ Led(Append(w, Head(u)), held[r])
      /\ InOrder(Append(w, Head(u)), Tail(u), held[r], held[Peer(r)])
  BY <1>1, <1>2, FlightTaken
<1>5. QED BY <1>3, <1>4 DEF FlightAt, w, u, G

\* The writer hands over frames in order, and none once it has failed.
LEMMA FlightWrite ==
  ASSUME TypeOK, WriterInv, FlightInv, NEW s \in Ends, Write(s)
  PROVE  FlightInv'
<1> DEFINE p == Peer(s)
<1>0. p \in Ends /\ p # s /\ Peer(p) = s BY PeerType
<1>1. FlightAt(s) /\ FlightAt(p) BY FlightBoth
<1>2. write_state[s] # "none" => write_queue[s] # <<>> BY DEF WriterInv
<1>3. CASE transport_write(s)
  <2>1. /\ write_state[s] = "sending"
        /\ write_state'[s] = "sent"
        /\ write_state'[p] = write_state[p]
        /\ UNCHANGED <<stopped, write_queue, held, opens, link>>
        /\ ~stopped[s]
    BY <1>0, <1>3
    DEF transport_write, registry, opening, users, TypeOK
  <2>2. /\ Unsent(s) = write_queue[s] /\ Unsent(s) # <<>>
        /\ Unsent(s)' = Tail(Unsent(s))
        /\ Unsent(p)' = Unsent(p)
    BY <1>2, <2>1 DEF Unsent
  <2>3. CASE link = "up" /\ ~stopped[p]
    <3>1. wire' = [wire EXCEPT ![p] = Append(@, Head(write_queue[s]))]
      BY <1>3, <2>3 DEF transport_write
    <3>2. /\ wire'[p] = Append(wire[p], Head(Unsent(s)))
          /\ wire'[s] = wire[s]
      BY <1>0, <2>2, <3>1 DEF TypeOK
    <3>3. Flowing
      <4>1. \A r \in Ends : r = s \/ r = p BY TwoEnds
      <4>2. QED BY <2>1, <2>3, <4>1 DEF Flowing
    <3>4. Opened(p)' = Opened(p) BY <2>1 DEF Opened
    <3> HIDE DEF p
    <3>5. FlightAt(s)' BY <1>1, <2>1, <2>2, <3>2, <3>3, <3>4, AtKept DEF p
    <3>6. FlightAt(p)'
      <4>1. /\ wire'[p] = Append(wire[p], Head(Unsent(Peer(p))))
            /\ Unsent(Peer(p)) # <<>>
            /\ Unsent(Peer(p))' = Tail(Unsent(Peer(p)))
            /\ ~stopped'[p]
        BY <1>0, <2>1, <2>2, <2>3, <3>2
      <4>2. QED BY <1>0, <1>1, <2>1, <3>3, <4>1, AtTaken
    <3>7. QED BY <3>5, <3>6, FlightBoth DEF p
  <2>4. CASE ~(link = "up" /\ ~stopped[p])
    <3>1. wire' = wire BY <1>3, <2>4 DEF transport_write
    <3>2. ~Flowing' BY <1>0, <2>1, <2>4 DEF Flowing
    <3>3. \A r \in Ends :
            /\ wire'[r] \in Seq(Frame)
            /\ Len(wire'[r]) <= Len(wire[r])
            /\ \A i \in 1..Len(wire'[r]) : wire'[r][i] = wire[r][i]
            /\ stopped'[r] => stopped[r] \/ Len(wire'[r]) <= 1
      BY <2>1, <3>1 DEF TypeOK
    <3>4. QED BY <2>1, <2>2, <3>2, <3>3, FlightLost
  <2>5. QED BY <2>3, <2>4
<1>4. CASE write_completed(s)
  <2>1. /\ write_state[s] = "sent"
        /\ write_state'[s] # "sent"
        /\ write_queue'[s] = Tail(write_queue[s])
        /\ write_state'[p] = write_state[p]
        /\ write_queue'[p] = write_queue[p]
    BY <1>0, <1>4 DEF write_completed, TypeOK
  <2>2. Unsent(s)' = Unsent(s) /\ Unsent(p)' = Unsent(p)
    BY <2>1 DEF Unsent
  <2>3. \A r \in Ends : Unsent(r)' = Unsent(r)
    <3>1. \A r \in Ends : r = s \/ r = p BY TwoEnds
    <3>2. QED BY <2>2, <3>1
  <2>4. UNCHANGED <<stopped, wire, held, opens, link>>
    BY <1>4 DEF write_completed, registry, opening, users
  <2>5. QED BY <2>3, <2>4, FlightStill
<1>5. CASE write_failed(s)
  <2>1. /\ write_state[s] = "sending"
        /\ write_state'[s] = "none"
        /\ write_queue'[s] = Tail(write_queue[s])
        /\ write_state'[p] = write_state[p]
        /\ write_queue'[p] = write_queue[p]
    BY <1>0, <1>5 DEF write_failed, TypeOK
  <2>2. /\ Unsent(s) # <<>> /\ Unsent(s)' = Tail(Unsent(s))
        /\ Unsent(p)' = Unsent(p)
    BY <1>2, <2>1 DEF Unsent
  <2>3. CloseAll(s) /\ UNCHANGED <<held, opens>>
    BY <1>5 DEF write_failed, Stop, opening, users
  <2>4. QED BY <2>2, <2>3, FlightClosed
<1>6. QED BY <1>3, <1>4, <1>5 DEF Write

\* A read step: what it does to the frames coming to s; another frame may be
\* queued for the other end.
LEMMA FlightReads ==
  ASSUME TypeOK, WriterInv, FlightInv, NEW s \in Ends, ReadFrame(s),
         held'[s] = held[s] \union Announced(Head(wire[s])),
         held'[Peer(s)] = held[Peer(s)],
         Announced(Head(wire[s])) \subseteq held[Peer(s)],
         UNCHANGED <<stopped, opens, link>>,
         Unsent(Peer(s))' = Unsent(Peer(s)),
         \/ Unsent(s)' = Unsent(s)
         \/ \E type \in {"ack", "pong"}, id \in Ids :
              /\ NewFrame(type, id) \in Frame
              /\ Unsent(s)' = Append(Unsent(s), NewFrame(type, id)),
         \* the announced stream is not one that s has opened
         Announced(Head(wire[s])) \intersect Opened(s) = {}
  PROVE  FlightInv'
<1> DEFINE p == Peer(s)
<1> DEFINE A == Announced(Head(wire[s]))
<1>0. p \in Ends /\ p # s /\ Peer(p) = s BY PeerType
<1>1. FlightAt(s) /\ FlightAt(p) BY FlightBoth
<1>2. Opened(s)' = Opened(s) /\ Opened(p)' = Opened(p) BY DEF Opened
<1>3. Flowing' => Flowing BY DEF Flowing
<1>4. /\ wire[s] # <<>> /\ wire'[s] = Tail(wire[s]) /\ wire'[p] = wire[p]
      /\ ~stopped'[s] /\ stopped'[p] = stopped[p]
  BY <1>0 DEF ReadFrame, TypeOK
<1>5. FlightAt(s)'
  <2> HIDE DEF A, p
  <2>1. QED BY <1>1, <1>2, <1>3, <1>4, AtRead DEF p
<1>6. /\ held'[s] = held[s] \union A
      /\ held'[p] = held[p]
      /\ A \subseteq held[p]
  OBVIOUS
<1>7. FlightAt(p)'
  <2>1. /\ held[Peer(p)] \subseteq held'[Peer(p)]
        /\ held'[Peer(p)] \subseteq held[Peer(p)] \union held[p]
        /\ Opened(Peer(p))' = Opened(Peer(p))
    BY <1>0, <1>2, <1>6
  <2>2. CASE Unsent(s)' = Unsent(s)
    <3>1. Unsent(Peer(p))' = Unsent(Peer(p)) BY <1>0, <2>2
    <3> HIDE DEF A, p
    <3>2. QED BY <1>0, <1>1, <1>3, <1>4, <1>6, <2>1, <3>1, AtKept
  <2>3. CASE \E type \in {"ack", "pong"}, id \in Ids :
               /\ NewFrame(type, id) \in Frame
               /\ Unsent(s)' = Append(Unsent(s), NewFrame(type, id))
    <3>1. PICK type \in {"ack", "pong"}, id \in Ids :
                 /\ NewFrame(type, id) \in Frame
                 /\ Unsent(s)' = Append(Unsent(s), NewFrame(type, id))
      BY <2>3
    <3> DEFINE f == NewFrame(type, id)
    <3>2. f.type \in {"ack", "pong"} BY DEF NewFrame
    <3>3. f \in Frame /\ Unsent(s)' = Append(Unsent(s), f) BY <3>1
    <3> HIDE DEF A, p, f
    <3>4. Announced(f) = {} /\ f.type \notin {"data", "fin"}
      BY <3>2 DEF Announced
    <3>5. Unsent(Peer(p))' = Append(Unsent(Peer(p)), f) BY <1>0, <3>3
    <3>6. QED
      BY <1>0, <1>1, <1>3, <1>4, <1>6, <2>1, <3>3, <3>4, <3>5, AtQueued
  <2>4. QED BY <2>2, <2>3
<1>8. QED BY <1>5, <1>7, FlightBoth

\* Reading frames: a SYN is what makes the receiver know a stream.
LEMMA FlightRecv ==
  ASSUME TypeOK, WriterInv, IdInv, FlightInv, NEW s \in Ends, Read(s)
  PROVE  FlightInv'
<1> DEFINE p == Peer(s)
<1> DEFINE h == Head(wire[s])
<1>0. p \in Ends /\ p # s /\ Peer(p) = s BY PeerType
<1>1. UNCHANGED writer => Unsent(s)' = Unsent(s) /\ Unsent(p)' = Unsent(p)
  BY DEF writer, Unsent
<1>2. CASE handle_syn(s)
  <2>1. ReadFrame(s) /\ h.type = "syn" BY <1>2 DEF handle_syn
  <2>2. h.id \in Ids BY <2>1, ReadType
  <2>3. /\ h.id \in held[p] \intersect Opened(p) /\ h.id \notin streams[s]
        /\ Opened(s) \intersect Opened(p) = {}
    BY <2>1, SynIsForeign, OpenedApart
  <2>4. /\ held' = [held EXCEPT ![s] = @ \union {h.id}]
        /\ async_send_frame(s, "ack", h.id)
    BY <1>2, <2>3 DEF handle_syn
  <2>5. held'[s] = held[s] \union {h.id} /\ held'[p] = held[p]
    BY <1>0, <2>4 DEF TypeOK
  <2>6. Announced(h) = {h.id} BY <2>1 DEF Announced
  <2>7. /\ NewFrame("ack", h.id) \in Frame
        /\ Unsent(s)' = Append(Unsent(s), NewFrame("ack", h.id))
        /\ Unsent(p)' = Unsent(p)
    BY <2>2, <2>4, FrameSent DEF FrameTypes
  <2>8. UNCHANGED <<stopped, opens, link>> BY <1>2 DEF handle_syn, opening
  <2>9. Announced(h) \subseteq held[p] /\ Announced(h) \intersect Opened(s) = {}
    BY <2>3, <2>6
  <2>10. \E type \in {"ack", "pong"}, id \in Ids :
              /\ NewFrame(type, id) \in Frame
              /\ Unsent(s)' = Append(Unsent(s), NewFrame(type, id))
    BY <2>2, <2>7
  <2>11. held'[s] = held[s] \union Announced(h) BY <2>5, <2>6
  <2>12. QED BY <2>1, <2>5, <2>7, <2>8, <2>9, <2>10, <2>11, FlightReads
<1>3. CASE handle_data(s) \/ handle_fin(s)
  <2>1. /\ ReadFrame(s) /\ h.type \in {"data", "ack", "pong", "fin"}
        /\ UNCHANGED <<stopped, opens, link, held>> /\ UNCHANGED writer
    BY <1>3 DEF handle_data, handle_fin, registry, opening, users
  <2>2. Announced(h) = {} BY <2>1 DEF Announced
  <2>3. QED BY <1>1, <2>1, <2>2, FlightReads
<1>4. CASE handle_ping(s)
  <2>1. /\ ReadFrame(s) /\ h.type = "ping"
        /\ UNCHANGED <<stopped, opens, link, held>>
        /\ async_send_frame(s, "pong", 0)
    BY <1>4 DEF handle_ping, registry, opening, users
  <2>2. Announced(h) = {} BY <2>1 DEF Announced
  <2>3. /\ NewFrame("pong", 0) \in Frame
        /\ Unsent(s)' = Append(Unsent(s), NewFrame("pong", 0))
        /\ Unsent(p)' = Unsent(p)
    BY <2>1, FrameSent, ZeroId DEF FrameTypes
  <2>4. \E type \in {"ack", "pong"}, id \in Ids :
              /\ NewFrame(type, id) \in Frame
              /\ Unsent(s)' = Append(Unsent(s), NewFrame(type, id))
    BY <2>3, ZeroId
  <2>5. QED BY <2>1, <2>2, <2>3, <2>4, FlightReads
<1>5. CASE handle_foreign(s) \/ read_failed(s)
  <2>1. CloseAll(s) /\ UNCHANGED <<held, opens>> /\ UNCHANGED writer
    BY <1>5 DEF handle_foreign, read_failed, Stop, opening, users
  <2>2. QED BY <1>1, <2>1, FlightClosed
<1>6. CASE read_after_stop(s)
  <2>1. /\ stopped[s] /\ wire[s] # <<>>
        /\ wire' = [wire EXCEPT ![s] = Tail(@)]
        /\ UNCHANGED <<stopped, held, opens, link>> /\ UNCHANGED writer
    BY <1>6 DEF read_after_stop, registry, opening, users
  <2>2. wire[s] \in Seq(Frame) /\ Len(wire[s]) <= 1
    BY <2>1 DEF FlightInv, TypeOK
  <2>3. /\ wire'[s] \in Seq(Frame) /\ Len(wire'[s]) = 0
        /\ Len(wire[s]) \in Nat
    <3>1. wire'[s] = Tail(wire[s]) BY <2>1 DEF TypeOK
    <3> DEFINE q == wire[s]
    <3>2. q \in Seq(Frame) /\ q # <<>> /\ Len(q) <= 1 BY <2>1, <2>2
    <3> HIDE DEF q
    <3>3. /\ Tail(q) \in Seq(Frame) /\ Len(q) \in Nat \ {0}
          /\ Len(Tail(q)) = Len(q) - 1
      BY <3>2, TailSeq
    <3>4. Len(Tail(q)) = 0 BY <3>2, <3>3
    <3>5. QED BY <3>1, <3>3, <3>4 DEF q
  <2>4. \A r \in Ends : r # s => wire'[r] = wire[r] BY <2>1 DEF TypeOK
  <2>5. ASSUME NEW r \in Ends
        PROVE  /\ wire'[r] \in Seq(Frame)
               /\ Len(wire'[r]) <= Len(wire[r])
               /\ \A i \in 1..Len(wire'[r]) : wire'[r][i] = wire[r][i]
               /\ stopped'[r] => stopped[r] \/ Len(wire'[r]) <= 1
    <3>1. CASE r = s BY <2>1, <2>2, <2>3, <3>1
    <3>2. CASE r # s BY <2>1, <2>4, <3>2 DEF TypeOK
    <3>3. QED BY <3>1, <3>2
  <2>6. ~Flowing' BY <2>1 DEF Flowing
  <2>7. QED BY <1>1, <2>1, <2>5, <2>6, FlightLost
<1>7. QED BY <1>2, <1>3, <1>4, <1>5, <1>6 DEF Read

\* A frame of another program comes in between.
LEMMA FlightAlien ==
  ASSUME TypeOK, WriterInv, FlightInv, NEW s \in Ends, NEW type \in Foreign,
         foreign_frame(s, type)
  PROVE  FlightInv'
<1> DEFINE p == Peer(s)
<1> DEFINE f == NewFrame(type, 0)
<1> DEFINE w == wire[s]
<1> DEFINE u == Unsent(p)
<1> DEFINE G == held[p] \intersect Opened(p)
<1>0. p \in Ends /\ p # s /\ Peer(p) = s BY PeerType
<1>1. FlightAt(s) /\ FlightAt(p) BY FlightBoth
<1>2. f \in Frame /\ f.type = type BY NewFrameType, ZeroId DEF NewFrame
<1>3. f.type \notin {"syn", "data", "fin"} BY <1>2, SessionAssumption
<1>4. /\ wire'[s] = Append(wire[s], f) /\ wire'[p] = wire[p]
      /\ ~stopped[s]
  BY <1>0 DEF foreign_frame, TypeOK
<1>5. /\ UNCHANGED <<stopped, opens, link, held>>
      /\ Unsent(s)' = Unsent(s) /\ Unsent(p)' = Unsent(p)
  BY DEF foreign_frame, registry, opening, writer, users, Unsent
<1>6. Opened(s)' = Opened(s) /\ Opened(p)' = Opened(p) BY <1>5 DEF Opened
<1>7. Flowing' => Flowing BY <1>5 DEF Flowing
<1>8. w \in Seq(Frame) /\ u \in Seq(Frame) BY PeerType, UnsentType DEF TypeOK
<1>9. /\ Fresh(w, u, held[s], G) /\ Led(w, held[s])
      /\ Flowing => InOrder(w, u, held[s], held[p])
  BY <1>1 DEF FlightAt
<1> HIDE DEF p, f, w, u, G
<1>10. /\ Fresh(Append(w, f), u, held[s], G)
       /\ Led(Append(w, f), held[s])
       /\ InOrder(w, u, held[s], held[p]) =>
            InOrder(Append(w, f), u, held[s], held[p])
  BY <1>2, <1>3, <1>8, <1>9, FlightForeign
<1>11. FlightAt(s)'
  BY <1>4, <1>5, <1>6, <1>7, <1>9, <1>10 DEF FlightAt, p, w, u, G
<1>12. FlightAt(p)'
  <2>1. /\ Unsent(Peer(p))' = Unsent(Peer(p))
        /\ Opened(Peer(p))' = Opened(Peer(p))
    BY <1>0, <1>5, <1>6
  <2>2. QED BY <1>0, <1>1, <1>4, <1>5, <1>7, <2>1, AtKept
<1>13. QED BY <1>11, <1>12, FlightBoth DEF p

\* Every step keeps FlightInv.
LEMMA FlightStep ==
  ASSUME TypeOK, WriterInv, IdInv, FlightInv, [Next]_vars
  PROVE  FlightInv'
<1>1. ASSUME NEW s \in Ends, Open(s)
      PROVE  FlightInv'
  BY <1>1, FlightOpen
<1>2. ASSUME NEW s \in Ends, User(s)
      PROVE  FlightInv'
  <2>1. ASSUME NEW id \in held[s], stream_data(s, id)
        PROVE  FlightInv'
    <3>1. id \in Ids /\ async_send_frame(s, "data", id)
      BY <2>1 DEF stream_data, TypeOK
    <3>2. UNCHANGED <<stopped, wire, held, opens, link>>
      BY <2>1 DEF stream_data, registry, opening
    <3>3. QED BY <3>1, <3>2, FlightSent DEF FrameTypes
  <2>2. ASSUME NEW id \in held[s], stream_fin(s, id)
        PROVE  FlightInv'
    <3>1. id \in Ids /\ async_send_frame(s, "fin", id)
      BY <2>2 DEF stream_fin, TypeOK
    <3>2. UNCHANGED <<stopped, wire, held, opens, link>>
      BY <2>2 DEF stream_fin, registry, opening
    <3>3. QED BY <3>1, <3>2, FlightSent DEF FrameTypes
  <2>3. CASE stop(s)
    <3>1. CloseAll(s) /\ UNCHANGED <<held, opens>> /\ UNCHANGED writer
      BY <2>3 DEF stop, Stop, opening, users
    <3>2. Unsent(s)' = Unsent(s) /\ Unsent(Peer(s))' = Unsent(Peer(s))
      BY <3>1 DEF writer, Unsent
    <3>3. QED BY <3>1, <3>2, FlightClosed
  <2>4. QED BY <1>2, <2>1, <2>2, <2>3 DEF User
<1>3. ASSUME NEW s \in Ends, Write(s)
      PROVE  FlightInv'
  BY <1>3, FlightWrite
<1>4. ASSUME NEW s \in Ends, Read(s)
      PROVE  FlightInv'
  BY <1>4, FlightRecv
<1>5. ASSUME NEW s \in Ends, Timer(s)
      PROVE  FlightInv'
  <2>1. CASE timer_expires(s)
    BY <2>1, FlightSame DEF timer_expires, registry, opening, writer, users
  <2>2. CASE heartbeat(s)
    <3>1. UNCHANGED <<held, opens, link>>
      BY <2>2 DEF heartbeat, opening, users
    <3>2. CASE CloseAll(s) /\ UNCHANGED writer
      <4>1. Unsent(s)' = Unsent(s) /\ Unsent(Peer(s))' = Unsent(Peer(s))
        BY <3>2 DEF writer, Unsent
      <4>2. QED BY <3>1, <3>2, <4>1, FlightClosed
    <3>3. CASE async_send_frame(s, "ping", 0) /\ UNCHANGED <<registry, wire>>
      BY <3>1, <3>3, FlightSent, ZeroId DEF FrameTypes, registry
    <3>4. QED BY <2>2, <3>2, <3>3 DEF heartbeat
  <2>3. QED BY <1>5, <2>1, <2>2 DEF Timer
<1>6. ASSUME NEW s \in Ends, Cleanup(s)
      PROVE  FlightInv'
  BY <1>6, FlightSame DEF Cleanup, remove_stream, opening, writer, users
<1>7. CASE Environment
  <2>1. ASSUME NEW how \in Faults, link_fails(how)
        PROVE  FlightInv'
    <3>1. PICK k \in 0..Len(wire["client"]), m \in 0..Len(wire["server"]) :
            wire' = [wire EXCEPT !["client"] = SubSeq(@, 1, k),
                                 !["server"] = SubSeq(@, 1, m)]
      BY <2>1 DEF link_fails
    <3>2. UNCHANGED <<stopped, held, opens>> /\ UNCHANGED writer
      BY <2>1 DEF link_fails, registry, opening, users
    <3>3. \A r \in Ends : Unsent(r)' = Unsent(r) BY <3>2 DEF writer, Unsent
    <3>4. ~Flowing' BY <2>1, SessionAssumption DEF link_fails, Flowing
    <3>5. wire["client"] \in Seq(Frame) /\ wire["server"] \in Seq(Frame)
      BY DEF TypeOK, Ends
    <3> DEFINE Cut(q, v) == /\ v \in Seq(Frame)
                            /\ Len(v) <= Len(q)
                            /\ \A i \in 1..Len(v) : v[i] = q[i]
    <3>6. \A q \in Seq(Frame) : \A n \in 0..Len(q) : Cut(q, SubSeq(q, 1, n))
      OBVIOUS
    <3>7. /\ wire'["client"] = SubSeq(wire["client"], 1, k)
          /\ wire'["server"] = SubSeq(wire["server"], 1, m)
      BY <3>1 DEF TypeOK, Ends
    <3> HIDE DEF Cut
    <3>8. ASSUME NEW r \in Ends
          PROVE  Cut(wire[r], wire'[r]) /\ (stopped'[r] => stopped[r])
      <4>1. Cut(wire["client"], wire'["client"]) BY <3>5, <3>6, <3>7
      <4>2. Cut(wire["server"], wire'["server"]) BY <3>5, <3>6, <3>7
      <4>3. r = "client" \/ r = "server" BY DEF Ends
      <4>4. QED BY <3>2, <4>1, <4>2, <4>3
    <3>9. "client" \in Ends /\ Peer("client") \in Ends BY PeerType DEF Ends
    <3>10. QED BY <3>2, <3>3, <3>4, <3>8, <3>9, FlightLost DEF Cut
  <2>2. ASSUME NEW s \in Ends, NEW type \in Foreign, foreign_frame(s, type)
        PROVE  FlightInv'
    BY <2>2, FlightAlien
  <2>3. CASE Tick
    BY <2>3, FlightSame DEF Tick, registry, opening, writer, users
  <2>4. QED BY <1>7, <2>1, <2>2, <2>3 DEF Environment
<1>8. CASE UNCHANGED vars
  BY <1>8, FlightSame DEF vars, registry, opening, writer, users
<1>9. QED
  BY <1>1, <1>2, <1>3, <1>4, <1>5, <1>6, <1>7, <1>8 DEF Next

-----------------------------------------------------------------------------
(* The theorems on streams and ids.                                          *)

StreamInv == EndInv /\ IdInv /\ FlightInv

LEMMA StreamInit == Init => StreamInv
<1> SUFFICES ASSUME Init PROVE StreamInv OBVIOUS
<1>1. EndInv BY DEF Init, EndInv
<1>2. IdInv
  <2>1. \A s \in Ends : 0 <= MaxOpens[s] BY SessionAssumption
  <2>2. \A s \in Ends : FirstId(s) \in Nat BY DEF FirstId
  <2>3. ASSUME NEW s \in Ends
        PROVE  /\ opens[s] = 0 /\ next_stream_id[s] = FirstId(s)
               /\ allocated[s] = {} /\ inserted[s] = {} /\ held[s] = {}
               /\ streams[s] = {}
    BY DEF Init
  <2>4. QED BY <2>1, <2>2, <2>3 DEF IdInv
<1>3. ASSUME NEW s \in Ends
      PROVE  FlightAt(s)
  <2>1. /\ Peer(s) \in Ends /\ wire[s] = <<>> /\ held[s] = {}
        /\ ~stopped[s]
    BY PeerType DEF Init
  <2>2. Unsent(Peer(s)) = <<>> /\ held[Peer(s)] = {}
    BY <2>1 DEF Init, Unsent
  <2>3. Len(<<>>) = 0 OBVIOUS
  <2>4. /\ Syns(<<>>) = {} /\ Once(<<>>)
        /\ \A K : Led(<<>>, K)
    BY <2>3 DEF Syns, Once, Led
  <2>5. QED BY <2>1, <2>2, <2>4 DEF FlightAt, Fresh, InOrder
<1>4. FlightInv BY <1>3 DEF FlightInv, FlightAt
<1>5. QED BY <1>1, <1>2, <1>4 DEF StreamInv

\* Who has been told of the end of a stream, whose an id is, and in which order
\* the frames of a stream are on their way, is as the invariant says.
THEOREM StreamInvariance == Spec => []StreamInv
<1>1. ASSUME IInv, StreamInv, [Next]_vars
      PROVE  StreamInv'
  <2>1. TypeOK /\ WriterInv BY <1>1 DEF IInv
  <2>2. EndInv /\ IdInv /\ FlightInv BY <1>1 DEF StreamInv
  <2>3. EndInv' BY <1>1, <2>1, <2>2, EndStep
  <2>4. IdInv' BY <1>1, <2>1, <2>2, IdStep
  <2>5. FlightInv' BY <1>1, <2>1, <2>2, FlightStep
  <2>6. QED BY <2>3, <2>4, <2>5 DEF StreamInv
<1>2. QED BY <1>1, StreamInit, Invariance, PTL DEF Spec

\* A SYN never meets a stream the receiver has under that id, and open_stream
\* never replaces one, for every number of streams below half the id space.
THEOREM IdsNeverMeet == Spec => []IdsAreFresh
<1>1. ASSUME StreamInv
      PROVE  IdsAreFresh
  <2> SUFFICES ASSUME NEW s \in Ends
               PROVE  /\ allocated[s] \intersect (streams[s] \union held[s]) = {}
                      /\ \A i \in 1..Len(wire[s]) :
                           wire[s][i].type = "syn" => wire[s][i].id \notin held[s]
    BY DEF IdsAreFresh
  <2>1. /\ streams[s] \subseteq held[s] \union inserted[s]
        /\ allocated[s] \intersect (held[s] \union inserted[s]) = {}
    BY <1>1 DEF StreamInv, IdInv
  <2>2. Syns(wire[s]) \intersect held[s] = {}
    BY <1>1 DEF StreamInv, FlightInv, Fresh
  <2>3. ASSUME NEW i \in 1..Len(wire[s]), wire[s][i].type = "syn"
        PROVE  wire[s][i].id \notin held[s]
    <3>1. wire[s][i].id \in Announced(wire[s][i]) BY <2>3 DEF Announced
    <3>2. wire[s][i].id \in Syns(wire[s]) BY <3>1, SynsOf
    <3>3. QED BY <2>2, <3>2
  <2>4. QED BY <2>1, <2>3
<1>2. QED BY <1>1, StreamInvariance, PTL

\* The first frame of a stream that arrives is its SYN, although open_stream
\* queues it from another thread (open_stream, async_send_frame).
THEOREM SynIsFirst == Spec => []SynComesFirst
<1>1. StreamInv => SynComesFirst
  BY DEF StreamInv, FlightInv, Led, SynComesFirst
<1>2. QED BY <1>1, StreamInvariance, PTL

\* Every stream in somebody's hands when its session has stopped has been told,
\* but for those registered after the stop (stop, open_stream).
THEOREM StopIsHeard == Spec => []StopReachesEveryStream
<1>1. ASSUME StreamInv
      PROVE  StopReachesEveryStream
  <2> SUFFICES ASSUME NEW s \in Ends, stopped[s]
               PROVE  (held[s] \union inserted[s]) \ orphans[s] \subseteq told[s]
    BY DEF StopReachesEveryStream
  <2>1. /\ (held[s] \union inserted[s]) \ orphans[s] \subseteq
             streams[s] \union told[s]
        /\ streams[s] \subseteq orphans[s]
    BY <1>1 DEF StreamInv, EndInv
  <2>2. QED BY <2>1
<1>2. QED BY <1>1, StreamInvariance, PTL
=============================================================================
