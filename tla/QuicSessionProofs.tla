------------------------- MODULE QuicSessionProofs -------------------------
(***************************************************************************)
(* Proofs about QuicSession, for every limit on writes, reads and packets:  *)
(* its owner is told of the end exactly once, and no read is left behind.   *)
(***************************************************************************)
EXTENDS QuicSession, WellFoundedInduction, TLAPS

-----------------------------------------------------------------------------
(* The loop of do_read.                                                      *)

\* A nonempty set of natural numbers has a least element.
LEMMA LeastNatural ==
    ASSUME NEW T, T \subseteq Nat, T # {}
    PROVE  \E m \in T : \A j \in T : m <= j
<1>1. PICK m \in T : \A j \in T : <<j, m>> \notin OpToRel(<, Nat)
    BY NatLessThanWellFounded, WFMin
<1>2. ASSUME NEW j \in T, j < m PROVE FALSE
    <2>1. <<j, m>> \in OpToRel(<, Nat) BY <1>2 DEF OpToRel
    <2>2. QED BY <2>1, <1>1
<1>3. \A j \in T : m <= j BY <1>2
<1>4. QED BY <1>3

Records == [n : 1..MaxQueued, all : BOOLEAN]

\* The loop stops somewhere: at the first read it cannot answer, or at the end.
LEMMA AnsweredExists ==
    ASSUME NEW p \in Seq(Records), NEW q, NEW e
    PROVE  \E k \in 0..Len(p) :
              /\ \A i \in 1..k : Answerable(p[i], q - Taken(p, q, i - 1), e)
              /\ \/ k = Len(p)
                 \/ ~ \A i \in 1..(k + 1) : Answerable(p[i], q - Taken(p, q, i - 1), e)
<1> DEFINE A(i) == Answerable(p[i], q - Taken(p, q, i - 1), e)
           T == {i \in 1..Len(p) : ~A(i)}
<1> HIDE DEF A
<1>1. Len(p) \in Nat OBVIOUS
<1>2. CASE T = {}
    <2>1. \A i \in 1..Len(p) : A(i) BY <1>2
    <2>2. \E k \in 0..Len(p) : (\A i \in 1..k : A(i)) /\ (k = Len(p) \/ ~ \A i \in 1..(k + 1) : A(i))
        BY <2>1, <1>1
    <2>3. QED BY <2>2 DEF A
<1>3. CASE T # {}
    <2>1. T \subseteq Nat BY <1>1
    <2>2. PICK m \in T : \A j \in T : m <= j BY <2>1, <1>3, LeastNatural
    <2>3. m - 1 \in 0..Len(p) /\ m \in 1..Len(p) /\ (m - 1) + 1 = m /\ ~A(m)
        BY <2>2, <1>1
    <2>4. \A i \in 1..(m - 1) : A(i) BY <2>2, <2>3, <1>1
    <2>5. ~ \A i \in 1..((m - 1) + 1) : A(i) BY <2>3
    <2>6. \E k \in 0..Len(p) : (\A i \in 1..k : A(i)) /\ (k = Len(p) \/ ~ \A i \in 1..(k + 1) : A(i))
        BY <2>3, <2>4, <2>5
    <2>7. QED BY <2>6 DEF A
<1>4. QED BY <1>2, <1>3

\* do_read answers a number of the pending reads, from the front.
LEMMA AnsweredType ==
    ASSUME NEW p \in Seq(Records), NEW q, NEW e
    PROVE  /\ Answered(p, q, e) \in 0..Len(p)
           /\ \/ Answered(p, q, e) = Len(p)
              \/ \E i \in 1..(Answered(p, q, e) + 1) :
                    ~Answerable(p[i], q - Taken(p, q, i - 1), e)
<1> DEFINE ok(k) == \A i \in 1..k : Answerable(p[i], q - Taken(p, q, i - 1), e)
           good(k) == ok(k) /\ (k = Len(p) \/ ~ok(k + 1))
<1>1. Answered(p, q, e) = CHOOSE k \in 0..Len(p) : good(k) BY DEF Answered
<1>2. \E k \in 0..Len(p) : good(k) BY AnsweredExists
<1> HIDE DEF good
<1>3. Answered(p, q, e) \in 0..Len(p) /\ good(Answered(p, q, e)) BY <1>1, <1>2
<1>4. QED BY <1>3 DEF good

\* What do_read leaves is a sequence of reads again.
LEMMA DoReadType ==
    ASSUME NEW p \in Seq(Records), NEW q, NEW e, do_read(p, q, e)
    PROVE  reads' \in Seq(Records)
<1>1. Answered(p, q, e) \in 0..Len(p) BY AnsweredType
<1>2. reads' = SubSeq(p, Answered(p, q, e) + 1, Len(p)) BY DEF do_read
<1>3. QED BY <1>1, <1>2

\* On a closed stream do_read answers every read.
LEMMA DoReadAtEnd ==
    ASSUME NEW p \in Seq(Records), NEW q, do_read(p, q, TRUE)
    PROVE  reads' = <<>>
<1>1. \A r, x : Answerable(r, x, TRUE) BY DEF Answerable
<1>2. Answered(p, q, TRUE) = Len(p) BY <1>1, AnsweredType
<1>3. reads' = SubSeq(p, Len(p) + 1, Len(p)) BY <1>2 DEF do_read
<1>4. QED BY <1>3

-----------------------------------------------------------------------------
(* The inductive invariant.                                                  *)

\* One notification for one end; a stream that left streams_ is closed; an
\* ended session has no stream in streams_; reads wait only on a stream that is
\* in streams_, though its user may have closed it.
IInv ==
    /\ closed \in BOOLEAN
    /\ streamEnd \in BOOLEAN
    /\ stream \in {"none", "mapped", "gone"}
    /\ reads \in Seq(Records)
    /\ told = (IF closed THEN 1 ELSE 0)
    /\ stream = "gone" => streamEnd
    /\ closed => stream # "mapped"
    /\ stream # "mapped" => reads = <<>>

\* The invariant is about these variables only.
LEMMA Framed ==
    ASSUME IInv, UNCHANGED <<closed, told, streamVars>>
    PROVE  IInv'
<1>1. /\ closed' = closed /\ told' = told
      /\ stream' = stream /\ streamEnd' = streamEnd /\ reads' = reads
    BY DEF streamVars
<1>2. QED BY <1>1 DEF IInv

\* No stream, no read and no notification to begin with.
LEMMA InitIInv ==
    ASSUME Init
    PROVE  IInv
<1>1. /\ closed = FALSE /\ told = 0
      /\ stream = "none" /\ streamEnd = FALSE /\ reads = <<>>
    BY DEF Init
<1>2. reads \in Seq(Records) BY <1>1
<1>3. QED BY <1>1, <1>2 DEF IInv

\* handle_close takes the stream out of streams_ and answers its reads.
LEMMA HandleCloseEffect ==
    ASSUME IInv, handle_close
    PROVE  /\ streamEnd' \in BOOLEAN
           /\ stream' \in {"none", "gone"}
           /\ reads' = <<>>
           /\ stream' = "gone" => streamEnd'
<1>1. CASE stream = "mapped"
    <2>1. stream' = "gone" /\ streamEnd' = TRUE /\ do_read(reads, rq, TRUE)
        BY <1>1 DEF handle_close
    <2>2. reads' = <<>> BY <2>1, DoReadAtEnd DEF IInv
    <2>3. QED BY <2>1, <2>2
<1>2. CASE stream # "mapped"
    BY <1>2 DEF handle_close, streamVars, IInv
<1>3. QED BY <1>1, <1>2

\* close_session ends a session that has not ended, and says so once.
LEMMA CloseSessionKeeps ==
    ASSUME IInv, NEW t, close_session(t)
    PROVE  IInv'
<1>1. ~closed /\ closed' = TRUE /\ told' = told + 1 + check_closed(TRUE, TRUE) /\ handle_close
    BY DEF close_session
<1>2. told' = 1 BY <1>1 DEF IInv, check_closed
<1>3. reads' \in Seq(Records) BY <1>1, HandleCloseEffect
<1>4. QED BY <1>1, <1>2, <1>3, HandleCloseEffect DEF IInv

\* do_write sends and may end the session.
LEMMA DoWriteKeeps ==
    ASSUME IInv, NEW q, NEW t, do_write(q, t)
    PROVE  IInv'
<1>1. \/ UNCHANGED <<closed, told, shut, streamVars>>
      \/ \E u : close_session(u)
    BY Zenon DEF do_write
<1>2. QED BY <1>1, Framed, CloseSessionKeeps

\* Every step keeps the invariant.
LEMMA StepIInv ==
    ASSUME IInv, [Next]_vars
    PROVE  IInv'
<1>1. CASE open_stream
    BY <1>1 DEF open_stream, IInv, Records
<1>2. ASSUME NEW n \in WriteSizes, write_stream(n) PROVE IInv'
    <2>1. \/ UNCHANGED <<closed, told, streamVars>>
          \/ do_write(Append(wq, n), timer)
        BY <1>2 DEF write_stream
    <2>2. QED BY <2>1, Framed, DoWriteKeeps
<1>3. ASSUME NEW n \in 1..MaxQueued, NEW all \in BOOLEAN, async_read(n, all) PROVE IInv'
    <2> DEFINE p == Append(reads, [n |-> n, all |-> all])
    <2>1. p \in Seq(Records) BY DEF IInv, Records
    <2>2. do_read(p, rq, streamEnd) /\ stream # "none" /\ UNCHANGED <<closed, told, stream, streamEnd>>
        BY <1>3 DEF async_read
    <2> HIDE DEF p
    <2>3. reads' \in Seq(Records) BY <2>1, <2>2, DoReadType
    <2>4. ASSUME stream # "mapped" PROVE reads' = <<>>
        <3>1. streamEnd = TRUE BY <2>2, <2>4 DEF IInv
        <3>2. do_read(p, rq, TRUE) BY <2>2, <3>1
        <3>3. QED BY <2>1, <3>2, DoReadAtEnd
    <2>5. QED BY <2>2, <2>3, <2>4 DEF IInv
<1>4. CASE CloseStream
    BY <1>4 DEF CloseStream, IInv, Records
<1>5. CASE OwnerCloses \/ PacketFails \/ SendFails \/ IdleExpires
    BY <1>5, CloseSessionKeeps DEF OwnerCloses, PacketFails, SendFails, IdleExpires
<1>6. CASE Ack \/ PeerStopsReading
    BY <1>6, Framed DEF Ack, PeerStopsReading
<1>7. CASE StreamClosed
    <2>1. ~closed /\ handle_close /\ UNCHANGED <<closed, told>>
        BY <1>7 DEF StreamClosed
    <2>2. reads' \in Seq(Records) BY <2>1, HandleCloseEffect
    <2>3. QED BY <2>1, <2>2, HandleCloseEffect DEF IInv
<1>8. CASE PeerDrains
    <2>1. ~closed /\ closed' = TRUE /\ told' = told + check_closed(closed, TRUE) /\ handle_close
        BY <1>8 DEF PeerDrains
    <2>2. told' = 1 BY <2>1 DEF IInv, check_closed
    <2>3. reads' \in Seq(Records) BY <2>1, HandleCloseEffect
    <2>4. QED BY <2>1, <2>2, <2>3, HandleCloseEffect DEF IInv
<1>9. ASSUME NEW n \in 0..MaxQueued, NEW fin \in BOOLEAN, StreamData(n, fin) PROVE IInv'
    <2>1. /\ ~closed
          /\ stream' = (IF fin THEN "gone" ELSE "mapped")
          /\ streamEnd' = (streamEnd \/ fin)
          /\ do_read(reads, rq + n, streamEnd')
          /\ UNCHANGED <<closed, told>>
        BY <1>9 DEF StreamData
    <2>2. reads \in Seq(Records) /\ streamEnd' \in BOOLEAN BY <2>1 DEF IInv
    <2>3. reads' \in Seq(Records) BY <2>1, <2>2, DoReadType
    <2>4. ASSUME fin PROVE reads' = <<>>
        <3>1. streamEnd' = TRUE BY <2>1, <2>4
        <3>2. do_read(reads, rq + n, TRUE) BY <2>1, <3>1
        <3>3. QED BY <2>2, <3>2, DoReadAtEnd
    <2>5. QED BY <2>1, <2>2, <2>3, <2>4 DEF IInv
<1>10. CASE ExpiryFires
    BY <1>10, Framed DEF ExpiryFires
<1>11. CASE RetryFires
    <2>1. \/ UNCHANGED <<closed, told, streamVars>>
          \/ do_write(wq, "off")
        BY <1>11 DEF RetryFires
    <2>2. QED BY <2>1, Framed, DoWriteKeeps
<1>12. CASE Lose
    BY <1>12, Framed DEF Lose
<1>13. CASE UNCHANGED vars
    BY <1>13, Framed DEF vars
<1>14. QED
    BY <1>1, <1>2, <1>3, <1>4, <1>5, <1>6, <1>7, <1>8, <1>9, <1>10, <1>11, <1>12, <1>13
    DEF Next

-----------------------------------------------------------------------------
(* Theorems.                                                                 *)

\* The invariant of a session and its stream (quic_ngtcp2.cpp).
THEOREM Invariance == Spec => []IInv
<1>1. IInv /\ [Next]_vars => IInv' BY StepIInv
<1>2. QED BY InitIInv, <1>1, PTL DEF Spec

\* close_session and check_closed post on_closed_cb_ exactly once, whichever
\* ends the session first and whatever comes after it.
THEOREM OwnerIsToldOnce == Spec => []ClosedToldOnce
<1>1. IInv => ClosedToldOnce BY DEF IInv, ClosedToldOnce
<1>2. QED BY Invariance, <1>1, PTL

\* handle_close leaves no read pending: none waits on a stream the peer ended or
\* in a session that is over.
THEOREM NoReadIsForgotten == Spec => []ReadsAnswered
<1>1. IInv => ReadsAnswered BY DEF IInv, ReadsAnswered
<1>2. QED BY Invariance, <1>1, PTL

=============================================================================
