------------------------- MODULE MuxStreamRefinement -------------------------
(***************************************************************************)
(* MuxStream implements ByteStream in both directions, for all window      *)
(* sizes, thresholds, limits and users.  The invariant of MuxStreamProofs  *)
(* makes the position of the next byte of an open reader the number of     *)
(* bytes it has been given, before and after each step; what is left is    *)
(* which of the abstract variables each handler changes.                   *)
(***************************************************************************)
EXTENDS MuxStreamProofs

Acts(e) == User(e) \/ Strand(e) \/ handle_frame(e) \/ Failure(e)

-----------------------------------------------------------------------------
(* The steps of ByteStream, for the direction towards end e.                 *)

\* The writer's side of the direction towards e stands still.
WriterStays(e) == sent'[Peer(e)] = sent[Peer(e)] /\ fin_at'[Peer(e)] = fin_at[Peer(e)]

\* So does the reader's.
ReaderStays(e) ==
  /\ read_queue'[e] = read_queue[e]
  /\ read_queue_offset'[e] = read_queue_offset[e]
  /\ arrived'[e] = arrived[e]
  /\ delivered'[e] = delivered[e]
  /\ at_eof'[e] = at_eof[e]
  /\ session'[e] = session[e]
  /\ local_closed'[e] = local_closed[e]

\* The writer sends, or closes.
Sends(e) ==
  /\ ReaderStays(e)
  /\ \/ sent'[Peer(e)] > sent[Peer(e)] /\ fin_at'[Peer(e)] = fin_at[Peer(e)]
     \/ /\ sent'[Peer(e)] = sent[Peer(e)]
        /\ fin_at[Peer(e)] = -1 /\ fin_at'[Peer(e)] = sent[Peer(e)]

\* The reader's session stops, or is gone; nothing is read.
Breaks(e) ==
  /\ WriterStays(e)
  /\ session[e] # "running" => session'[e] # "running"
  /\ read_queue'[e] = read_queue[e]
  /\ read_queue_offset'[e] = read_queue_offset[e]
  /\ arrived'[e] = arrived[e]
  /\ delivered'[e] = delivered[e]
  /\ at_eof'[e] = at_eof[e]
  /\ local_closed'[e] = local_closed[e]

\* The reader closes its end.
Leaves(e) ==
  /\ WriterStays(e)
  /\ ~local_closed[e] /\ local_closed'[e]
  /\ at_eof'[e] = at_eof[e]
  /\ session'[e] = session[e]

\* The reader takes what has come in, and may see the end.
Takes(e) ==
  /\ WriterStays(e)
  /\ local_closed'[e] = local_closed[e]
  /\ session'[e] = session[e]
  /\ ~local_closed[e] => delivered'[e] >= delivered[e]
  /\ \/ at_eof'[e] = at_eof[e]
     \/ ~local_closed[e] /\ at_eof[e] = -1 /\ at_eof'[e] = delivered'[e]

-----------------------------------------------------------------------------
(* Which handler makes which step.                                           *)

\* do_read_from_buffer never takes back what it has given out.
LEMMA CopyTakes ==
  ASSUME IInv, NEW e \in Ends, do_read_copy(e)
  PROVE  Takes(e)
<1>1. TypeOK BY DEF IInv
<1>2. WriterStays(e) /\ local_closed'[e] = local_closed[e] /\ session'[e] = session[e]
  BY DEF do_read_copy, flow, ends, place, WriterStays
<1> DEFINE pr == Head(pending_reads[e])
<1>3. pr.size \in Nat
  <2> DEFINE R == [size : Nat \ {0}, all : BOOLEAN]
  <2>1. pending_reads[e] \in Seq(R) BY <1>1 DEF TypeOK
  <2>2. pending_reads[e] # <<>> BY DEF do_read_copy
  <2> HIDE DEF R
  <2>3. pr \in R BY <2>1, <2>2
  <2> HIDE DEF pr
  <2>4. QED BY <2>3 DEF R
<1>4. delivered \in [Ends -> Nat] /\ at_eof \in [Ends -> Nat \union {-1}]
  BY <1>1 DEF TypeOK
<1> HIDE DEF pr
<1>5. CASE CopyBlocks(e)
  <2> DEFINE n == SmallerOf(pr.size, Queued(e) - read_queue_offset[e])
  <2>1. /\ delivered' = [delivered EXCEPT ![e] = @ + n]
        /\ SawEnd(e, delivered[e] + n) \/ UNCHANGED at_eof
    BY <1>5 DEF CopyBlocks, Consume, pr
  <2>2. ASSUME ~local_closed[e] PROVE n \in Nat
    <3>1. read_queue[e] # <<>> BY DEF do_read_copy
    <3>2. Queued(e) - read_queue_offset[e] = arrived[e] - delivered[e]
      BY <2>2, <3>1, Unread
    <3>3. delivered[e] <= arrived[e] BY <2>2, DeliveredArrived
    <3>4. arrived[e] \in Nat /\ delivered[e] \in Nat BY <1>1 DEF TypeOK
    <3>5. arrived[e] - delivered[e] \in Nat BY <3>3, <3>4
    <3>6. QED BY <1>3, <3>2, <3>5 DEF SmallerOf
  <2> HIDE DEF n
  <2>3. delivered'[e] = delivered[e] + n BY <1>4, <2>1
  <2>4. ~local_closed[e] => delivered'[e] >= delivered[e] BY <1>4, <2>2, <2>3
  <2>5. \/ at_eof'[e] = at_eof[e]
        \/ ~local_closed[e] /\ at_eof[e] = -1 /\ at_eof'[e] = delivered'[e]
    BY <1>4, <2>1, <2>3 DEF SawEnd
  <2>6. QED BY <1>2, <2>4, <2>5 DEF Takes
<1>6. CASE CopyStale(e)
  <2>1. /\ delivered' = [delivered EXCEPT ![e] = @ + pr.size]
        /\ UNCHANGED at_eof
    BY <1>6 DEF CopyStale, Consume, pr
  <2>2. delivered'[e] >= delivered[e] BY <1>3, <1>4, <2>1
  <2>3. QED BY <1>2, <2>1, <2>2 DEF Takes
<1>7. QED BY <1>5, <1>6 DEF do_read_copy

\* A step of end e, for the direction in which e reads.
LEMMA ReaderStep ==
  ASSUME IInv, NEW e \in Ends, Acts(e)
  PROVE  Breaks(e) \/ Leaves(e) \/ Takes(e)
<1> USE DEF flow, input, taken, ends, place, calls
<1>1. TypeOK /\ Peer(e) \in Ends /\ Peer(e) # e BY Peers DEF IInv
<1>2. delivered[e] \in Nat BY <1>1 DEF TypeOK
<1>3. CASE User(e)
  <2>1. ASSUME NEW n, async_write(e, n) PROVE Takes(e)
    BY <2>1, <1>2 DEF async_write, Takes, WriterStays
  <2>2. ASSUME NEW n, NEW all, async_read(e, n, all) PROVE Takes(e)
    BY <2>2, <1>2 DEF async_read, Takes, WriterStays
  <2>3. CASE close(e)
    <3>1. fin_at'[Peer(e)] = fin_at[Peer(e)] /\ local_closed'[e] = TRUE
      BY <2>3, <1>1 DEF close, TypeOK
    <3>2. UNCHANGED <<sent, at_eof, session>> /\ ~local_closed[e] BY <2>3 DEF close
    <3>3. Leaves(e) BY <3>1, <3>2 DEF Leaves, WriterStays
    <3>4. QED BY <3>3
  <2>4. QED BY <1>3, <2>1, <2>2, <2>3 DEF User
<1>4. CASE Strand(e)
  <2>1. CASE do_write_exit(e) BY <2>1, <1>2 DEF do_write_exit, Takes, WriterStays
  <2>2. CASE do_write_drop(e) BY <2>2, <1>2 DEF do_write_drop, Takes, WriterStays
  <2>3. CASE do_write_frame(e)
    <3>1. sent'[Peer(e)] = sent[Peer(e)] BY <2>3, <1>1 DEF do_write_frame, TypeOK
    <3>2. UNCHANGED <<delivered, at_eof, local_closed, fin_at, session>>
      BY <2>3 DEF do_write_frame
    <3>3. QED BY <3>1, <3>2, <1>2 DEF Takes, WriterStays
  <2>4. CASE do_read_exit(e) BY <2>4, <1>2 DEF do_read_exit, Takes, WriterStays
  <2>5. CASE do_read_eof(e)
    <3>1. UNCHANGED <<delivered, local_closed, fin_at, session, sent>>
      BY <2>5 DEF do_read_eof
    <3>2. \/ at_eof'[e] = at_eof[e]
          \/ ~local_closed[e] /\ at_eof[e] = -1 /\ at_eof'[e] = delivered[e]
      BY <2>5, <1>1 DEF do_read_eof, SawEnd, TypeOK
    <3>3. QED BY <3>1, <3>2, <1>2 DEF Takes, WriterStays
  <2>6. CASE do_read_copy(e) BY <2>6, CopyTakes
  <2>7. CASE handle_data(e) BY <2>7, <1>2 DEF handle_data, Takes, WriterStays
  <2>8. CASE handle_window_update(e)
    BY <2>8, <1>2 DEF handle_window_update, Takes, WriterStays
  <2>9. CASE handle_close(e) BY <2>9, <1>2 DEF handle_close, Takes, WriterStays
  <2>10. QED
    BY <1>4, <2>1, <2>2, <2>3, <2>4, <2>5, <2>6, <2>7, <2>8, <2>9 DEF Strand
<1>5. CASE handle_frame(e) BY <1>5, <1>2 DEF handle_frame, Takes, WriterStays
<1>6. CASE Failure(e)
  <2>1. CASE partial_send_failed(e)
    BY <2>1, <1>2 DEF partial_send_failed, Takes, WriterStays
  <2>2. CASE session_stop(e) \/ session_gone(e)
    <3>1. session'[e] # "running"
      BY <2>2, <1>1 DEF session_stop, session_gone, TypeOK
    <3>2. UNCHANGED <<flow, input, taken, ends>>
      BY <2>2 DEF session_stop, session_gone
    <3>3. QED BY <3>1, <3>2 DEF Breaks, WriterStays
  <2>3. QED BY <1>6, <2>1, <2>2 DEF Failure
<1>7. QED BY <1>3, <1>4, <1>5, <1>6 DEF Acts

\* A step of the other end, for the direction in which it writes.
LEMMA WriterStep ==
  ASSUME IInv, NEW e \in Ends, Acts(Peer(e))
  PROVE  Sends(e) \/ (ReaderStays(e) /\ WriterStays(e))
<1> DEFINE w == Peer(e)
<1> USE DEF flow, input, taken, ends, place, calls
<1>1. TypeOK /\ w \in Ends /\ w # e /\ Peer(w) = e BY Peers DEF IInv
<1> HIDE DEF w
<1>2. ReaderStays(e)
  <2>1. CASE User(w)
    <3>1. ASSUME NEW n, async_write(w, n) PROVE ReaderStays(e)
      BY <3>1 DEF async_write, ReaderStays
    <3>2. ASSUME NEW n, NEW all, async_read(w, n, all) PROVE ReaderStays(e)
      BY <3>2 DEF async_read, ReaderStays
    <3>3. CASE close(w)
      <4>1. read_queue'[e] = read_queue[e] /\ local_closed'[e] = local_closed[e]
        BY <3>3, <1>1 DEF close, TypeOK
      <4>2. UNCHANGED <<read_queue_offset, arrived, delivered, at_eof, session>>
        BY <3>3 DEF close
      <4>3. QED BY <4>1, <4>2 DEF ReaderStays
    <3>4. QED BY <2>1, <3>1, <3>2, <3>3 DEF User
  <2>2. CASE Strand(w)
    <3>1. CASE do_write_exit(w) BY <3>1 DEF do_write_exit, ReaderStays
    <3>2. CASE do_write_drop(w) BY <3>2 DEF do_write_drop, ReaderStays
    <3>3. CASE do_write_frame(w) BY <3>3 DEF do_write_frame, ReaderStays
    <3>4. CASE do_read_exit(w) BY <3>4 DEF do_read_exit, ReaderStays
    <3>5. CASE do_read_eof(w) BY <3>5, <1>1 DEF do_read_eof, SawEnd, ReaderStays, TypeOK
    <3>6. CASE do_read_copy(w)
      <4>1. UNCHANGED <<arrived, session, local_closed>> BY <3>6 DEF do_read_copy
      <4>2. \E n : delivered' = [delivered EXCEPT ![w] = @ + n]
        BY <3>6 DEF do_read_copy, CopyBlocks, CopyStale, Consume
      <4>3. \E r : read_queue' = [read_queue EXCEPT ![w] = r] \/ UNCHANGED read_queue
        BY <3>6 DEF do_read_copy, CopyBlocks, CopyStale
      <4>4. \E k : read_queue_offset' = [read_queue_offset EXCEPT ![w] = k]
        BY <3>6 DEF do_read_copy, CopyBlocks, CopyStale
      <4>5. at_eof'[e] = at_eof[e]
        <5>1. (\E n : SawEnd(w, n)) \/ UNCHANGED at_eof
          BY <3>6 DEF do_read_copy, CopyBlocks, CopyStale
        <5>2. QED BY <5>1, <1>1 DEF SawEnd, TypeOK
      <4>6. delivered'[e] = delivered[e] BY <4>2, <1>1 DEF TypeOK
      <4>7. read_queue'[e] = read_queue[e] BY <4>3, <1>1 DEF TypeOK
      <4>8. read_queue_offset'[e] = read_queue_offset[e] BY <4>4, <1>1 DEF TypeOK
      <4>9. QED BY <4>1, <4>5, <4>6, <4>7, <4>8 DEF ReaderStays
    <3>7. CASE handle_data(w)
      <4>1. read_queue'[e] = read_queue[e] /\ arrived'[e] = arrived[e]
        BY <3>7, <1>1 DEF handle_data, TypeOK
      <4>2. UNCHANGED <<read_queue_offset, delivered, at_eof, session, local_closed>>
        BY <3>7 DEF handle_data
      <4>3. QED BY <4>1, <4>2 DEF ReaderStays
    <3>8. CASE handle_window_update(w) BY <3>8 DEF handle_window_update, ReaderStays
    <3>9. CASE handle_close(w) BY <3>9 DEF handle_close, ReaderStays
    <3>10. QED
      BY <2>2, <3>1, <3>2, <3>3, <3>4, <3>5, <3>6, <3>7, <3>8, <3>9 DEF Strand
  <2>3. CASE handle_frame(w) BY <2>3 DEF handle_frame, ReaderStays
  <2>4. CASE Failure(w)
    <3>1. CASE partial_send_failed(w) BY <3>1 DEF partial_send_failed, ReaderStays
    <3>2. CASE session_stop(w) \/ session_gone(w)
      <4>1. session'[e] = session[e]
        BY <3>2, <1>1 DEF session_stop, session_gone, TypeOK
      <4>2. UNCHANGED <<input, taken, ends>> BY <3>2 DEF session_stop, session_gone
      <4>3. QED BY <4>1, <4>2 DEF ReaderStays
    <3>3. QED BY <2>4, <3>1, <3>2 DEF Failure
  <2>5. QED BY <2>1, <2>2, <2>3, <2>4 DEF Acts, w
<1>3. CASE close(w)
  <2>1. fin_at[w] = -1 /\ fin_at'[w] = sent[w] /\ sent'[w] = sent[w]
    BY <1>1, <1>3 DEF close, IInv, EndInv, EofInv, TypeOK
  <2>2. QED BY <1>2, <2>1 DEF Sends, w
<1>4. CASE do_write_frame(w)
  <2>1. sent'[w] > sent[w]
    <3>1. /\ sent' = [sent EXCEPT ![w] = @ + ToSend(w)] /\ pending_writes[w] # <<>>
          /\ remote_window_size[w] > 0 /\ Head(pending_writes[w]) > 0
      BY <1>4 DEF do_write_frame, Writing
    <3>2. pending_writes[w] \in Seq(Nat) /\ remote_window_size[w] \in Nat /\ sent \in [Ends -> Nat]
      BY <1>1 DEF TypeOK
    <3>3. Head(pending_writes[w]) \in Nat BY <3>1, <3>2
    <3>4. MaxMessageSize \in Nat /\ MaxMessageSize > 0 BY FlowAssumption
    <3>5. ToSend(w) \in Nat /\ ToSend(w) > 0
      BY <3>1, <3>2, <3>3, <3>4 DEF ToSend, SmallerOf
    <3>6. QED BY <1>1, <3>1, <3>2, <3>5
  <2>2. fin_at'[w] = fin_at[w] BY <1>4 DEF do_write_frame
  <2>3. QED BY <1>2, <2>1, <2>2 DEF Sends, w
<1>5. CASE ~close(w) /\ ~do_write_frame(w)
  <2>1. UNCHANGED <<sent, fin_at>>
    BY <1>5 DEF Acts, User, Strand, Failure, async_write, async_read, do_write_exit,
       do_write_drop, do_read_exit, do_read_eof, do_read_copy, handle_data,
       handle_window_update, handle_close, handle_frame, partial_send_failed,
       session_stop, session_gone, w
  <2>2. QED BY <1>2, <2>1 DEF WriterStays
<1>6. QED BY <1>3, <1>4, <1>5

-----------------------------------------------------------------------------
(* The refinement.                                                           *)

\* An open reader's next byte is the one after those it has been given.
LEMMA NextByteDelivered ==
  ASSUME IInv, NEW e \in Ends, ~local_closed[e]
  PROVE  NextByte(e) = delivered[e] /\ delivered[e] <= sent[Peer(e)]
<1>1. NextByte(e) = delivered[e] BY DEF IInv, EndInv, QueueInv, NextByte
<1>2. arrived[e] <= sent[Peer(e)] /\ delivered[e] <= arrived[e] BY DeliveredArrived
<1>3. arrived[e] \in Nat /\ delivered[e] \in Nat /\ sent[Peer(e)] \in Nat
  BY Peers DEF IInv, TypeOK
<1>4. QED BY <1>1, <1>2, <1>3

Towards(e) == INSTANCE ByteStream WITH
  sent <- sent[Peer(e)], fin <- fin_at[Peer(e)],
  position <- NextByte(e), taken <- delivered[e],
  ended <- at_eof[e], broken <- session[e] # "running", open <- ~local_closed[e]

\* Every step of the two ends is a step of the ByteStream towards e.
LEMMA DirectionStep ==
  ASSUME IInv, IInv', NEW e \in Ends, [Next]_vars
  PROVE  [Towards(e)!Next]_(Towards(e)!vars)
<1> DEFINE w == Peer(e)
<1>1. w \in Ends /\ \A x \in Ends : x = e \/ x = w BY Peers
<1>2. TypeOK /\ TypeOK' BY DEF IInv
<1>3. CASE ReaderStays(e) /\ WriterStays(e)
  <2>1. UNCHANGED Towards(e)!vars
    BY <1>3 DEF Towards!vars, WriterStays, ReaderStays, NextByte
  <2>2. QED BY <2>1
<1>4. CASE Sends(e)
  <2>1. CASE sent'[w] > sent[w] /\ fin_at'[w] = fin_at[w]
    <3>1. Towards(e)!Send BY <1>4, <2>1 DEF Sends, ReaderStays, NextByte, Towards!Send
    <3>2. QED BY <3>1 DEF Towards!Next
  <2>2. CASE sent'[w] = sent[w] /\ fin_at[w] = -1 /\ fin_at'[w] = sent[w]
    <3>1. Towards(e)!Finish
      BY <1>4, <2>2 DEF Sends, ReaderStays, NextByte, Towards!Finish
    <3>2. QED BY <3>1 DEF Towards!Next
  <2>3. QED BY <1>4, <2>1, <2>2 DEF Sends
<1>5. CASE Breaks(e)
  <2>1. CASE session'[e] = "running"
    <3>1. session[e] = "running" BY <1>5, <2>1 DEF Breaks
    <3>2. UNCHANGED Towards(e)!vars
      BY <1>5, <2>1, <3>1 DEF Breaks, WriterStays, NextByte, Towards!vars
    <3>3. QED BY <3>2
  <2>2. CASE session'[e] # "running"
    <3>1. Towards(e)!Break
      BY <1>5, <2>2 DEF Breaks, WriterStays, NextByte, Towards!Break
    <3>2. QED BY <3>1 DEF Towards!Next
  <2>3. QED BY <2>1, <2>2
<1>6. CASE Leaves(e)
  <2>1. Towards(e)!Leave BY <1>6 DEF Leaves, WriterStays, Towards!Leave
  <2>2. QED BY <2>1 DEF Towards!Next
<1>7. CASE Takes(e) /\ local_closed[e]
  <2>1. Towards(e)!Left BY <1>7 DEF Takes, WriterStays, Towards!Left
  <2>2. QED BY <2>1 DEF Towards!Next
<1>8. CASE Takes(e) /\ ~local_closed[e]
  <2>1. /\ WriterStays(e) /\ local_closed'[e] = local_closed[e] /\ session'[e] = session[e]
        /\ delivered'[e] >= delivered[e]
        /\ \/ at_eof'[e] = at_eof[e]
           \/ at_eof[e] = -1 /\ at_eof'[e] = delivered'[e]
    BY <1>8 DEF Takes
  <2>2. NextByte(e) = delivered[e] BY <1>8, NextByteDelivered
  <2>3. NextByte(e)' = delivered'[e] /\ delivered'[e] <= sent'[w]
    <3>1. (IInv /\ ~local_closed[e] =>
             NextByte(e) = delivered[e] /\ delivered[e] <= sent[Peer(e)])'
      BY NextByteDelivered, PTL
    <3>2. QED BY <3>1, <2>1, <1>8
  <2>4. delivered[e] \in Nat /\ delivered'[e] \in Nat BY <1>2 DEF TypeOK
  <2>5. \/ NextByte(e)' = NextByte(e) /\ delivered'[e] = delivered[e]
        \/ /\ NextByte(e)' > NextByte(e) /\ NextByte(e)' <= sent[w]
           /\ delivered'[e] - delivered[e] = NextByte(e)' - NextByte(e)
    BY <2>1, <2>2, <2>3, <2>4 DEF WriterStays
  <2>6. CASE at_eof'[e] = at_eof[e]
    <3>1. Towards(e)!Give BY <1>8, <2>1, <2>5, <2>6 DEF WriterStays, Towards!Give
    <3>2. QED BY <3>1 DEF Towards!Next
  <2>7. CASE at_eof[e] = -1 /\ at_eof'[e] = delivered'[e]
    <3>1. at_eof'[e] # -1 BY <2>4, <2>7
    <3>2. session'[e] = "running" => fin_at'[w] # -1 /\ at_eof'[e] >= fin_at'[w]
      BY <3>1 DEF IInv, EndInv, EofInv
    <3>3. session[e] # "running" \/ (fin_at[w] # -1 /\ delivered'[e] >= fin_at[w])
      BY <2>1, <2>7, <3>2 DEF WriterStays
    <3>4. Towards(e)!End BY <2>7, <3>3 DEF Towards!End
    <3>5. Towards(e)!Give BY <1>8, <2>1, <2>5, <3>4 DEF WriterStays, Towards!Give
    <3>6. QED BY <3>5 DEF Towards!Next
  <2>8. QED BY <2>1, <2>6, <2>7
<1>9. CASE UNCHANGED vars
  <2>1. ReaderStays(e) /\ WriterStays(e)
    BY <1>9 DEF vars, flow, input, taken, ends, place, ReaderStays, WriterStays
  <2>2. QED BY <2>1, <1>3
<1>10. CASE Next
  <2>1. Acts(e) \/ Acts(w) BY <1>10, <1>1 DEF Next, Acts
  <2>2. QED BY <2>1, <1>3, <1>4, <1>5, <1>6, <1>7, <1>8, ReaderStep, WriterStep
<1>11. QED BY <1>9, <1>10

\* Two connected MuxStreams keep the promise of a stream in both directions:
\* what the reader is given is what the writer sent, in order and each byte
\* once, and the end comes after the last byte, for all sizes and users and
\* whatever a failing session does in between.
THEOREM Refinement == Spec => ImplementsByteStream
<1>1. Init => ToAcceptor!Init /\ ToOpener!Init
  BY DEF Init, Ends, NextByte, ToAcceptor!Init, ToOpener!Init
<1>2. "opener" \in Ends /\ "acceptor" \in Ends
      /\ Peer("acceptor") = "opener" /\ Peer("opener") = "acceptor"
  BY DEF Ends, Peer
<1>3. IInv /\ IInv' /\ [Next]_vars => [ToAcceptor!Next]_(ToAcceptor!vars)
  <2>1. SUFFICES ASSUME IInv, IInv', [Next]_vars
                 PROVE  [ToAcceptor!Next]_(ToAcceptor!vars)
    OBVIOUS
  <2>2. [Towards("acceptor")!Next]_(Towards("acceptor")!vars)
    BY <2>1, <1>2, DirectionStep
  <2>3. QED
    BY <2>2, <1>2
    DEF ToAcceptor!Next, ToAcceptor!vars, ToAcceptor!Send, ToAcceptor!Finish,
        ToAcceptor!End, ToAcceptor!Give, ToAcceptor!Break, ToAcceptor!Leave,
        ToAcceptor!Left, Towards!Next, Towards!vars, Towards!Send, Towards!Finish,
        Towards!End, Towards!Give, Towards!Break, Towards!Leave, Towards!Left
<1>4. IInv /\ IInv' /\ [Next]_vars => [ToOpener!Next]_(ToOpener!vars)
  <2>1. SUFFICES ASSUME IInv, IInv', [Next]_vars
                 PROVE  [ToOpener!Next]_(ToOpener!vars)
    OBVIOUS
  <2>2. [Towards("opener")!Next]_(Towards("opener")!vars)
    BY <2>1, <1>2, DirectionStep
  <2>3. QED
    BY <2>2, <1>2
    DEF ToOpener!Next, ToOpener!vars, ToOpener!Send, ToOpener!Finish,
        ToOpener!End, ToOpener!Give, ToOpener!Break, ToOpener!Leave,
        ToOpener!Left, Towards!Next, Towards!vars, Towards!Send, Towards!Finish,
        Towards!End, Towards!Give, Towards!Break, Towards!Leave, Towards!Left
<1>5. QED
  BY <1>1, <1>3, <1>4, Invariance, PTL
  DEF Spec, ImplementsByteStream, ToAcceptor!Spec, ToOpener!Spec
=============================================================================
