--------------------------- MODULE MuxStreamProofs ---------------------------
(***************************************************************************)
(* Proofs about MuxStream: its type invariant, flow control, ordered       *)
(* delivery, end of stream and absence of a mutual wait, for all window    *)
(* sizes, thresholds, limits and users.                                    *)
(*                                                                         *)
(* The inductive invariant speaks about the frames on their way to an end  *)
(* through their stamps.  Bounded and NoGap relate the stamps of any two   *)
(* frames and of neighbours, so that no sum over a sequence is needed.     *)
(***************************************************************************)
EXTENDS MuxStream, TLAPS

DataLength(f) == IF f.type = "data" THEN f.length ELSE 0

CreditLength(f) == IF f.type = "window_update" THEN f.length ELSE 0

\* f is what its sender queued next after having sent s bytes and a credit.
Follows(f, s, a) ==
  f.type # "closed" => /\ f.seq = s + DataLength(f)
                       /\ f.ack = a + CreditLength(f)

\* Frame f lies between what has been taken from the link (arr bytes, cr
\* credit) and what has been sent (snt bytes, crd credit).
Within(f, arr, cr, snt, crd) ==
  /\ arr + DataLength(f) <= f.seq
  /\ f.seq <= snt
  /\ cr + CreditLength(f) <= f.ack
  /\ f.ack <= crd
  /\ f.type = "data" => f.length \in 1..MaxMessageSize

\* Frame f was sent before frame g.
Before(f, g) ==
  /\ f.seq + DataLength(g) <= g.seq
  /\ f.ack + CreditLength(g) <= g.ack

Bounded(q, arr, cr, snt, crd) ==
  /\ arr <= snt
  /\ cr <= crd
  /\ \A i \in 1..Len(q) : Within(q[i], arr, cr, snt, crd)
  /\ \A i, j \in 1..Len(q) : i < j => Before(q[i], q[j])

\* The first n frames of q follow one another, and the first follows (arr, cr).
NoGap(q, n, arr, cr) ==
  /\ n >= 1 => Follows(q[1], arr, cr)
  /\ \A i \in 1..(n - 1) : Follows(q[i + 1], q[i].seq, q[i].ack)

\* Nothing sent is missing from the link.
Complete(q, arr, cr, snt, crd) ==
  /\ q = <<>> => arr = snt /\ cr = crd
  /\ q # <<>> => q[Len(q)].seq = snt /\ q[Len(q)].ack = crd

\* Frames beyond the posted ones are dropped once the stream is removed.
Kept(e) == IF stream[e] = "removed" THEN posted[e] ELSE Len(link[e])

LinkInv(e) ==
  /\ posted[e] <= Len(link[e])
  /\ Bounded(link[e], arrived[e], credit[e], sent[Peer(e)], credited[Peer(e)])
  /\ NoGap(link[e], Kept(e), arrived[e], credit[e])
  /\ Connected /\ stream[e] # "removed" =>
       Complete(link[e], arrived[e], credit[e], sent[Peer(e)], credited[Peer(e)])

\* FIN frames carry fin_at of their sender; the end that the stop of the own
\* session posts is the last thing on the link.
ClosingInv(e) ==
  \A i \in 1..Len(link[e]) :
    /\ link[e][i].type = "fin" =>
         fin_at[Peer(e)] # -1 /\ link[e][i].seq = fin_at[Peer(e)]
    /\ link[e][i].type = "closed" => session[e] # "running" /\ i = Len(link[e])

\* The queued blocks are adjacent, not empty, and end where arrival stopped.
Adjacent(q, arr) ==
  /\ \A i \in 1..Len(q) : q[i].from < q[i].to
  /\ \A i \in 1..(Len(q) - 1) : q[i].to = q[i + 1].from
  /\ \A i, j \in 1..Len(q) : i < j => q[i].to <= q[j].from
  /\ q # <<>> => q[Len(q)].to = arr

QueueInv(e) ==
  /\ Adjacent(read_queue[e], arrived[e])
  /\ ~local_closed[e] =>
       /\ read_queue[e] = <<>> =>
            delivered[e] = arrived[e] /\ read_queue_offset[e] = 0
       /\ read_queue[e] # <<>> =>
            /\ read_queue[e][1].from + read_queue_offset[e] = delivered[e]
            /\ delivered[e] < read_queue[e][1].to

WindowInv(e) ==
  /\ remote_window_size[e] + sent[e] <= InitialWindow + credit[e]
  /\ ~local_closed[e] /\ ~local_closed[Peer(e)] =>
       remote_window_size[e] + sent[e] = InitialWindow + credit[e]

CreditInv(e) ==
  /\ credited[e] + consumed_since_last_update[e] = delivered[e]
  /\ session[e] # "gone" => consumed_since_last_update[e] < UpdateThreshold

\* Outside its loops a strand has nothing left to do.
SettledInv(e) ==
  /\ strand[e] # "do_write" =>
       pending_writes[e] = <<>> \/ remote_window_size[e] = 0
  /\ strand[e] # "do_read" => pending_reads[e] = <<>> \/ Waits(e)
  /\ \A i \in 1..Len(pending_reads[e]) :
       pending_reads[e][i].size \in ReadSizes[e]

EofInv(e) ==
  /\ fin_at[e] # -1 <=> local_closed[e]
  /\ remote_closed[e] /\ session[e] = "running" =>
       fin_at[Peer(e)] # -1 /\ arrived[e] >= fin_at[Peer(e)]
  /\ at_eof[e] # -1 /\ session[e] = "running" =>
       fin_at[Peer(e)] # -1 /\ at_eof[e] >= fin_at[Peer(e)]

LifeInv(e) ==
  /\ stream[e] = "absent" => posted[e] = 0 /\ strand[e] = "idle"
  /\ stream[e] = "removed" /\ session[e] = "running" => local_closed[e]

EndInv(e) ==
  /\ LinkInv(e)
  /\ ClosingInv(e)
  /\ QueueInv(e)
  /\ WindowInv(e)
  /\ CreditInv(e)
  /\ SettledInv(e)
  /\ EofInv(e)
  /\ LifeInv(e)

IInv == TypeOK /\ \A e \in Ends : EndInv(e)

-----------------------------------------------------------------------------
(* Sequences of frames.                                                      *)

\* The stamps and lengths of a frame of async_send_frame are numbers.
LEMMA FrameTyped ==
  ASSUME NEW f \in Frame
  PROVE  /\ f.type \in FrameTypes
         /\ f.length \in Nat /\ f.seq \in Nat /\ f.ack \in Nat
         /\ DataLength(f) \in Nat /\ CreditLength(f) \in Nat
BY DEF Frame, DataLength, CreditLength

\* The same of every frame on a link.
LEMMA FramesTyped ==
  ASSUME NEW q \in Seq(Frame)
  PROVE  \A i \in 1..Len(q) :
           /\ q[i] \in Frame
           /\ q[i].length \in Nat /\ q[i].seq \in Nat /\ q[i].ack \in Nat
           /\ DataLength(q[i]) \in Nat /\ CreditLength(q[i]) \in Nat
<1> TAKE i \in 1..Len(q)
<1>1. q[i] \in Frame
  OBVIOUS
<1> QED  BY <1>1, FrameTyped

\* Of frames, only none have length zero.
LEMMA NoFrames ==
  ASSUME NEW q \in Seq(Frame)
  PROVE  Len(q) \in Nat /\ (q = <<>> <=> Len(q) = 0)
OBVIOUS

\* Queueing a frame stamped with the new totals keeps the link bounded.
LEMMA BoundedAppend ==
  ASSUME NEW q \in Seq(Frame), NEW f \in Frame,
         NEW arr \in Nat, NEW cr \in Nat, NEW snt \in Nat, NEW crd \in Nat,
         Bounded(q, arr, cr, snt, crd),
         f.seq >= snt + DataLength(f), f.ack >= crd + CreditLength(f),
         f.type = "data" => f.length \in 1..MaxMessageSize
  PROVE  /\ Append(q, f) \in Seq(Frame)
         /\ Len(Append(q, f)) = Len(q) + 1
         /\ Append(q, f)[Len(q) + 1] = f
         /\ \A i \in 1..Len(q) : Append(q, f)[i] = q[i]
         /\ Bounded(Append(q, f), arr, cr, f.seq, f.ack)
<1> DEFINE r == Append(q, f)
<1>1. /\ r \in Seq(Frame)
      /\ Len(r) = Len(q) + 1
      /\ r[Len(q) + 1] = f
      /\ \A i \in 1..Len(q) : r[i] = q[i]
      /\ Len(q) \in Nat
  OBVIOUS
<1> HIDE DEF r
<1>2. /\ DataLength(f) \in Nat /\ CreditLength(f) \in Nat
      /\ f.seq \in Nat /\ f.ack \in Nat
  BY FrameTyped
<1>3. \A i \in 1..Len(q) : Within(q[i], arr, cr, f.seq, f.ack) /\ Before(q[i], f)
  <2> TAKE i \in 1..Len(q)
  <2>1. q[i].seq \in Nat /\ q[i].ack \in Nat
    BY FramesTyped
  <2>2. Within(q[i], arr, cr, snt, crd)
    BY DEF Bounded
  <2>3. q[i].seq <= snt /\ q[i].ack <= crd
    BY <2>2 DEF Within
  <2>4. q[i].seq + DataLength(f) <= f.seq
    BY <1>2, <2>1, <2>3
  <2>6. q[i].ack + CreditLength(f) <= f.ack
    BY <1>2, <2>1, <2>3
  <2>5. q[i].seq <= f.seq /\ q[i].ack <= f.ack
    BY <1>2, <2>1, <2>3
  <2> QED  BY <2>2, <2>4, <2>5, <2>6 DEF Within, Before
<1>4. Within(f, arr, cr, f.seq, f.ack)
  BY <1>2 DEF Within, Bounded
<1>5. \A i \in 1..Len(r) : Within(r[i], arr, cr, f.seq, f.ack)
  BY <1>1, <1>3, <1>4
<1>6. \A i, j \in 1..Len(r) : i < j => Before(r[i], r[j])
  <2> SUFFICES ASSUME NEW i \in 1..Len(r), NEW j \in 1..Len(r), i < j
               PROVE  Before(r[i], r[j])
    OBVIOUS
  <2>1. i \in 1..Len(q) /\ r[i] = q[i]
    BY <1>1
  <2>2. CASE j = Len(q) + 1
    BY <1>1, <1>3, <2>1, <2>2
  <2>3. CASE j # Len(q) + 1
    <3>1. j \in 1..Len(q) /\ r[j] = q[j]
      BY <1>1, <2>3
    <3> QED  BY <2>1, <3>1 DEF Bounded
  <2> QED  BY <2>2, <2>3
<1>7. Bounded(r, arr, cr, f.seq, f.ack)
  BY <1>2, <1>5, <1>6 DEF Bounded
<1> QED  BY <1>1, <1>7 DEF r

\* The same frames with the sender further on.
LEMMA BoundedGrow ==
  ASSUME NEW q \in Seq(Frame),
         NEW arr \in Nat, NEW cr \in Nat, NEW snt \in Nat, NEW crd \in Nat,
         NEW snt2 \in Nat, NEW crd2 \in Nat,
         snt <= snt2, crd <= crd2,
         Bounded(q, arr, cr, snt, crd)
  PROVE  Bounded(q, arr, cr, snt2, crd2)
<1>1. \A i \in 1..Len(q) : Within(q[i], arr, cr, snt2, crd2)
  <2> TAKE i \in 1..Len(q)
  <2>1. q[i].seq \in Nat /\ q[i].ack \in Nat
    BY FramesTyped
  <2>2. Within(q[i], arr, cr, snt, crd)
    BY DEF Bounded
  <2> QED  BY <2>1, <2>2 DEF Within
<1> QED  BY <1>1 DEF Bounded

\* The frames left by Session::stop on a link it cuts stay bounded.
LEMMA BoundedPrefix ==
  ASSUME NEW q \in Seq(Frame), NEW k \in 0..Len(q),
         NEW arr, NEW cr, NEW snt, NEW crd,
         Bounded(q, arr, cr, snt, crd)
  PROVE  /\ SubSeq(q, 1, k) \in Seq(Frame)
         /\ Len(SubSeq(q, 1, k)) = k
         /\ \A i \in 1..k : SubSeq(q, 1, k)[i] = q[i]
         /\ Bounded(SubSeq(q, 1, k), arr, cr, snt, crd)
<1> DEFINE r == SubSeq(q, 1, k)
<1>1. /\ r \in Seq(Frame)
      /\ Len(r) = k
      /\ \A i \in 1..k : r[i] = q[i]
  OBVIOUS
<1> HIDE DEF r
<1>2. Bounded(r, arr, cr, snt, crd)
  BY <1>1 DEF Bounded
<1> QED  BY <1>1, <1>2 DEF r

\* Frames a followed by frames b.
LEMMA Concatenated ==
  ASSUME NEW a \in Seq(Frame), NEW b \in Seq(Frame)
  PROVE  /\ a \o b \in Seq(Frame)
         /\ Len(a \o b) = Len(a) + Len(b)
         /\ \A i \in 1..Len(a) : (a \o b)[i] = a[i]
         /\ \A i \in 1..Len(b) : (a \o b)[Len(a) + i] = b[i]
OBVIOUS

\* Dropping the frame after the first n.
LEMMA BoundedDrop ==
  ASSUME NEW q \in Seq(Frame), NEW n \in Nat, n < Len(q),
         NEW arr, NEW cr, NEW snt, NEW crd,
         Bounded(q, arr, cr, snt, crd)
  PROVE  LET r == SubSeq(q, 1, n) \o SubSeq(q, n + 2, Len(q))
         IN  /\ r \in Seq(Frame)
             /\ Len(r) = Len(q) - 1
             /\ \A i \in 1..n : r[i] = q[i]
             /\ \A i \in 1..Len(r) : \E j \in 1..Len(q) : r[i] = q[j]
             /\ Bounded(r, arr, cr, snt, crd)
<1> DEFINE a == SubSeq(q, 1, n)
           b == SubSeq(q, n + 2, Len(q))
           r == a \o b
<1>1. /\ a \in Seq(Frame)
      /\ Len(a) = n
      /\ \A i \in 1..n : a[i] = q[i]
  OBVIOUS
<1>2. /\ b \in Seq(Frame)
      /\ Len(b) = Len(q) - n - 1
      /\ \A i \in 1..Len(b) : b[i] = q[n + 1 + i]
  OBVIOUS
<1> HIDE DEF a, b
<1>3. /\ r \in Seq(Frame)
      /\ Len(r) = Len(a) + Len(b)
      /\ \A i \in 1..Len(a) : r[i] = a[i]
      /\ \A i \in 1..Len(b) : r[Len(a) + i] = b[i]
  BY <1>1, <1>2, Concatenated
<1> HIDE DEF r
<1>4. /\ Len(r) = Len(q) - 1
      /\ \A i \in 1..n : r[i] = q[i]
  BY <1>1, <1>2, <1>3
<1> DEFINE x(i) == IF i <= n THEN i ELSE i + 1
<1>5. \A i \in 1..Len(r) : x(i) \in 1..Len(q) /\ r[i] = q[x(i)]
  <2> TAKE i \in 1..Len(r)
  <2>1. CASE i <= n
    BY <1>4, <2>1
  <2>2. CASE i > n
    <3>1. i - n \in 1..Len(b) /\ n + (i - n) = i /\ n + 1 + (i - n) = i + 1
      BY <1>2, <1>4, <2>2
    <3>2. r[i] = b[i - n]
      BY <1>1, <1>3, <3>1
    <3>3. b[i - n] = q[i + 1]
      BY <1>2, <3>1
    <3> QED  BY <1>4, <2>2, <3>2, <3>3
  <2> QED  BY <2>1, <2>2
<1>6. \A i, j \in 1..Len(r) : i < j => x(i) < x(j)
  BY <1>4
<1> HIDE DEF x
<1>7. Bounded(r, arr, cr, snt, crd)
  BY <1>5, <1>6 DEF Bounded
<1>8. \A i \in 1..Len(r) : \E j \in 1..Len(q) : r[i] = q[j]
  BY <1>5
<1> QED  BY <1>3, <1>4, <1>7, <1>8 DEF r, a, b

\* Taking the first frame, whatever totals of it are taken over.
LEMMA BoundedTail ==
  ASSUME NEW q \in Seq(Frame), q # <<>>,
         NEW arr \in Nat, NEW cr \in Nat, NEW snt \in Nat, NEW crd \in Nat,
         Bounded(q, arr, cr, snt, crd),
         NEW arr2 \in {arr, q[1].seq}, NEW cr2 \in {cr, q[1].ack}
  PROVE  /\ Tail(q) \in Seq(Frame)
         /\ Len(Tail(q)) = Len(q) - 1
         /\ \A i \in 1..(Len(q) - 1) : Tail(q)[i] = q[i + 1]
         /\ Bounded(Tail(q), arr2, cr2, snt, crd)
<1> DEFINE r == Tail(q)
<1>1. /\ r \in Seq(Frame)
      /\ Len(q) \in Nat /\ Len(q) >= 1
      /\ Len(r) = Len(q) - 1
      /\ \A i \in 1..(Len(q) - 1) : r[i] = q[i + 1]
  OBVIOUS
<1> HIDE DEF r
<1>2. q[1].seq \in Nat /\ q[1].ack \in Nat
  BY <1>1, FramesTyped
<1>3. Within(q[1], arr, cr, snt, crd) /\ DataLength(q[1]) \in Nat /\ CreditLength(q[1]) \in Nat
  BY <1>1, FramesTyped DEF Bounded
<1>4. arr2 <= snt /\ cr2 <= crd
  BY <1>2, <1>3 DEF Within, Bounded
<1>5. \A i \in 1..Len(r) : Within(r[i], arr2, cr2, snt, crd)
  <2> TAKE i \in 1..Len(r)
  <2>1. i + 1 \in 1..Len(q) /\ 1 \in 1..Len(q) /\ 1 < i + 1 /\ r[i] = q[i + 1]
    BY <1>1
  <2>2. Within(q[i + 1], arr, cr, snt, crd) /\ Before(q[1], q[i + 1])
    BY <2>1 DEF Bounded
  <2>3. /\ DataLength(q[i + 1]) \in Nat /\ CreditLength(q[i + 1]) \in Nat
        /\ q[i + 1].seq \in Nat /\ q[i + 1].ack \in Nat
    BY <2>1, FramesTyped
  <2> QED  BY <1>2, <2>1, <2>2, <2>3 DEF Within, Before
<1>6. \A i, j \in 1..Len(r) : i < j => Before(r[i], r[j])
  <2> SUFFICES ASSUME NEW i \in 1..Len(r), NEW j \in 1..Len(r), i < j
               PROVE  Before(r[i], r[j])
    OBVIOUS
  <2>1. i + 1 \in 1..Len(q) /\ j + 1 \in 1..Len(q) /\ i + 1 < j + 1
    BY <1>1
  <2>2. Before(q[i + 1], q[j + 1])
    BY <2>1 DEF Bounded
  <2> QED  BY <1>1, <2>2
<1>7. Bounded(r, arr2, cr2, snt, crd)
  BY <1>4, <1>5, <1>6 DEF Bounded
<1> QED  BY <1>1, <1>7 DEF r

\* The two things that NoGap says stay true of fewer frames.
LEMMA NoGapFewer ==
  ASSUME NEW q, NEW r, NEW n \in Nat, NEW m \in 0..n, NEW arr, NEW cr,
         \A i \in 1..m : r[i] = q[i],
         NoGap(q, n, arr, cr)
  PROVE  NoGap(r, m, arr, cr)
<1>1. m >= 1 => Follows(r[1], arr, cr)
  BY DEF NoGap
<1>2. ASSUME NEW i \in 1..(m - 1)
      PROVE  Follows(r[i + 1], r[i].seq, r[i].ack)
  <2>1. r[i] = q[i] /\ r[i + 1] = q[i + 1] /\ i \in 1..(n - 1)
    OBVIOUS
  <2> QED  BY <2>1 DEF NoGap
<1> QED  BY <1>1, <1>2 DEF NoGap

\* A frame sent on a complete link follows the last one and keeps it complete.
LEMMA NoGapAppend ==
  ASSUME NEW q \in Seq(Frame), NEW f \in Frame,
         NEW arr \in Nat, NEW cr \in Nat, NEW snt \in Nat, NEW crd \in Nat,
         NoGap(q, Len(q), arr, cr),
         Complete(q, arr, cr, snt, crd),
         f.seq = snt + DataLength(f), f.ack = crd + CreditLength(f)
  PROVE  /\ NoGap(Append(q, f), Len(Append(q, f)), arr, cr)
         /\ Complete(Append(q, f), arr, cr, f.seq, f.ack)
<1> DEFINE r == Append(q, f)
<1>1. /\ Len(r) = Len(q) + 1
      /\ r[Len(q) + 1] = f
      /\ \A i \in 1..Len(q) : r[i] = q[i]
      /\ Len(q) \in Nat
      /\ r # <<>>
      /\ q = <<>> <=> Len(q) = 0
  OBVIOUS
<1> HIDE DEF r
<1>2. Follows(r[1], arr, cr)
  <2>1. CASE Len(q) = 0
    BY <1>1, <2>1 DEF Complete, Follows
  <2>2. CASE Len(q) # 0
    BY <1>1, <2>2 DEF NoGap
  <2> QED  BY <2>1, <2>2
<1>3. ASSUME NEW i \in 1..(Len(r) - 1)
      PROVE  Follows(r[i + 1], r[i].seq, r[i].ack)
  <2>1. CASE i = Len(q)
    BY <1>1, <2>1 DEF Complete, Follows
  <2>2. CASE i # Len(q)
    BY <1>1, <2>2 DEF NoGap
  <2> QED  BY <2>1, <2>2
<1>4. NoGap(r, Len(r), arr, cr) /\ Complete(r, arr, cr, f.seq, f.ack)
  BY <1>1, <1>2, <1>3 DEF NoGap, Complete
<1> QED  BY <1>4 DEF r

\* The frames after the first follow the first.
LEMMA NoGapTail ==
  ASSUME NEW q \in Seq(Frame), NEW n \in 1..Len(q), NEW arr, NEW cr,
         NoGap(q, n, arr, cr)
  PROVE  NoGap(Tail(q), n - 1, q[1].seq, q[1].ack)
<1> DEFINE r == Tail(q)
<1>1. \A i \in 1..(Len(q) - 1) : r[i] = q[i + 1]
  OBVIOUS
<1> HIDE DEF r
<1>2. n - 1 >= 1 => Follows(r[1], q[1].seq, q[1].ack)
  BY <1>1 DEF NoGap
<1>3. ASSUME NEW i \in 1..(n - 1 - 1)
      PROVE  Follows(r[i + 1], r[i].seq, r[i].ack)
  <2>1. /\ i + 1 \in 1..(n - 1)
        /\ r[i] = q[i + 1] /\ r[i + 1] = q[i + 1 + 1]
    BY <1>1
  <2> QED  BY <2>1 DEF NoGap
<1> QED  BY <1>2, <1>3 DEF NoGap, r

-----------------------------------------------------------------------------
(* Parts of the state.                                                       *)

\* A stream has two ends, each the peer of the other.
LEMMA Peers ==
  ASSUME NEW e \in Ends
  PROVE  /\ Peer(e) \in Ends /\ Peer(e) # e /\ Peer(Peer(e)) = e
         /\ \A x \in Ends : x = e \/ x = Peer(e)
BY DEF Ends, Peer

\* The link towards x is kept by a step that leaves it, and what is sent on
\* it, alone; the stream may be removed and sessions may stop.
LEMMA LinkKept ==
  ASSUME TypeOK, NEW x \in Ends, LinkInv(x), ClosingInv(x),
         link'[x] = link[x], posted'[x] = posted[x],
         arrived'[x] = arrived[x], credit'[x] = credit[x],
         sent'[Peer(x)] = sent[Peer(x)],
         credited'[Peer(x)] = credited[Peer(x)],
         fin_at'[Peer(x)] = fin_at[Peer(x)],
         stream'[x] \in {stream[x], "removed"},
         session[x] # "running" => session'[x] # "running",
         Connected' => Connected
  PROVE  LinkInv(x)' /\ ClosingInv(x)'
<1>1. link[x] \in Seq(Frame) /\ posted[x] \in Nat /\ Len(link[x]) \in Nat
  BY DEF TypeOK
<1>2. NoGap(link[x], Kept(x)', arrived[x], credit[x])
  <2>1. NoGap(link[x], Kept(x), arrived[x], credit[x]) /\ posted[x] <= Len(link[x])
    BY DEF LinkInv
  <2>2. Kept(x) \in Nat /\ Kept(x)' \in 0..Kept(x)
    BY <1>1, <2>1 DEF Kept
  <2> QED  BY <2>1, <2>2, NoGapFewer
<1>3. LinkInv(x)'
  BY <1>2 DEF LinkInv
<1>4. ClosingInv(x)'
  BY DEF ClosingInv
<1> QED  BY <1>3, <1>4

\* The link towards the peer of e is kept when e sends a frame stamped with
\* its new totals.
LEMMA LinkSent ==
  ASSUME TypeOK, NEW e \in Ends, LinkInv(Peer(e)), ClosingInv(Peer(e)),
         NEW type \in FrameTypes \ {"closed"}, NEW n \in Nat,
         NEW s \in Nat, NEW a \in Nat,
         async_send_frame(e, type, n, s, a),
         s = sent[e] + (IF type = "data" THEN n ELSE 0),
         a = credited[e] + (IF type = "window_update" THEN n ELSE 0),
         type = "data" => n \in 1..MaxMessageSize,
         sent'[e] = s, credited'[e] = a,
         IF type = "fin" THEN fin_at[e] = -1 /\ fin_at'[e] = s
                         ELSE fin_at'[e] = fin_at[e],
         posted'[Peer(e)] = posted[Peer(e)],
         arrived'[Peer(e)] = arrived[Peer(e)],
         credit'[Peer(e)] = credit[Peer(e)],
         stream'[Peer(e)] = stream[Peer(e)],
         session' = session
  PROVE  LinkInv(Peer(e))' /\ ClosingInv(Peer(e))' /\ link'[e] = link[e]
<1> DEFINE p == Peer(e)
           q == link[p]
           f == [type |-> type, length |-> n, seq |-> s, ack |-> a]
<1>1. p \in Ends /\ p # e /\ Peer(p) = e
  BY Peers
<1>2. /\ q \in Seq(Frame) /\ f \in Frame
      /\ link \in [Ends -> Seq(Frame)]
      /\ arrived[p] \in Nat /\ credit[p] \in Nat /\ posted[p] \in Nat
      /\ sent[e] \in Nat /\ credited[e] \in Nat
  BY <1>1 DEF TypeOK, Frame
<1>3. /\ Bounded(q, arrived[p], credit[p], sent[e], credited[e])
      /\ NoGap(q, Kept(p), arrived[p], credit[p])
      /\ posted[p] <= Len(q)
      /\ Connected /\ stream[p] # "removed" =>
           Complete(q, arrived[p], credit[p], sent[e], credited[e])
  BY <1>1 DEF LinkInv
<1>4. DataLength(f) = s - sent[e] /\ CreditLength(f) = a - credited[e]
  BY <1>2 DEF DataLength, CreditLength
<1>5. link'[e] = link[e]
  BY <1>1, <1>2 DEF async_send_frame
<1>8. ASSUME posted[p] <= Len(link'[p]),
             Bounded(link'[p], arrived[p], credit[p], s, a),
             NoGap(link'[p], Kept(p)', arrived[p], credit[p]),
             Connected' /\ stream[p] # "removed" =>
               Complete(link'[p], arrived[p], credit[p], s, a)
      PROVE  LinkInv(p)'
  BY <1>1, <1>8 DEF LinkInv
<1>6. CASE session[e] = "running" /\ session[p] = "running"
  <2>1. link'[p] = Append(q, f)
    BY <1>1, <1>2, <1>6 DEF async_send_frame
  <2>2. /\ f.seq = s /\ f.ack = a /\ f.type = type /\ f.length = n
        /\ f.seq = sent[e] + DataLength(f)
        /\ f.ack = credited[e] + CreditLength(f)
    BY <1>2, <1>4
  <2> HIDE DEF f
  <2>3. /\ Len(Append(q, f)) = Len(q) + 1
        /\ Append(q, f)[Len(q) + 1] = f
        /\ \A i \in 1..Len(q) : Append(q, f)[i] = q[i]
        /\ Bounded(Append(q, f), arrived[p], credit[p], f.seq, f.ack)
        /\ Len(q) \in Nat
    <3>1. DataLength(f) \in Nat /\ CreditLength(f) \in Nat
      BY <1>2, FrameTyped
    <3>2. f.seq >= sent[e] + DataLength(f) /\ f.ack >= credited[e] + CreditLength(f)
      BY <1>2, <2>2, <3>1
    <3>3. Len(q) \in Nat
      BY <1>2
    <3> HIDE DEF q, p
    <3> QED  BY <1>2, <1>3, <2>2, <3>2, <3>3, BoundedAppend
  <2>4. ASSUME stream[p] # "removed" PROVE LinkInv(p)'
    <3>1. NoGap(q, Len(q), arrived[p], credit[p])
      BY <1>3, <2>4 DEF Kept
    <3>2. Complete(q, arrived[p], credit[p], sent[e], credited[e])
      BY <1>1, <1>3, <1>6, <2>4, Peers DEF Connected
    <3>3. /\ NoGap(Append(q, f), Len(Append(q, f)), arrived[p], credit[p])
          /\ Complete(Append(q, f), arrived[p], credit[p], s, a)
      <4> HIDE DEF q, p
      <4> QED  BY <1>2, <2>2, <3>1, <3>2, NoGapAppend
    <3>4. Kept(p)' = Len(Append(q, f))
      BY <2>1, <2>4 DEF Kept
    <3>5. posted[p] <= Len(Append(q, f))
      BY <1>2, <1>3, <2>3
    <3>6. Bounded(link'[p], arrived[p], credit[p], s, a)
      BY <2>1, <2>2, <2>3
    <3> QED  BY <1>8, <2>1, <3>3, <3>4, <3>5, <3>6
  <2>5. ASSUME stream[p] = "removed" PROVE LinkInv(p)'
    <3>1. NoGap(q, posted[p], arrived[p], credit[p])
      BY <1>3, <2>5 DEF Kept
    <3>2. NoGap(Append(q, f), posted[p], arrived[p], credit[p])
      <4>1. \A i \in 1..posted[p] : Append(q, f)[i] = q[i]
        BY <1>2, <1>3, <2>3
      <4>2. posted[p] \in Nat /\ posted[p] \in 0..posted[p]
        BY <1>2
      <4> HIDE DEF q, p
      <4> QED  BY <3>1, <4>1, <4>2, NoGapFewer
    <3>3. Kept(p)' = posted[p]
      BY <2>5 DEF Kept
    <3>4. posted[p] <= Len(Append(q, f))
      BY <1>2, <1>3, <2>3
    <3>6. Bounded(link'[p], arrived[p], credit[p], s, a)
      BY <2>1, <2>2, <2>3
    <3> QED  BY <1>8, <2>1, <2>5, <3>2, <3>3, <3>4, <3>6
  <2>6. ClosingInv(p)'
    <3> SUFFICES ASSUME NEW i \in 1..Len(link'[p])
                 PROVE  /\ link'[p][i].type = "fin" =>
                             fin_at'[e] # -1 /\ link'[p][i].seq = fin_at'[e]
                        /\ link'[p][i].type # "closed"
      BY <1>1 DEF ClosingInv
    <3>1. CASE i = Len(q) + 1
      BY <1>2, <2>1, <2>2, <2>3, <3>1
    <3>2. CASE i # Len(q) + 1
      <4>1. i \in 1..Len(q) /\ link'[p][i] = q[i]
        BY <2>1, <2>3, <3>2
      <4> QED  BY <1>1, <1>6, <4>1 DEF ClosingInv
    <3> QED  BY <3>1, <3>2
  <2> QED  BY <1>5, <2>4, <2>5, <2>6
<1>7. CASE ~(session[e] = "running" /\ session[p] = "running")
  <2>1. link' = link
    BY <1>7 DEF async_send_frame
  <2>2. Bounded(q, arrived[p], credit[p], s, a)
    <3>1. sent[e] <= s /\ credited[e] <= a
      BY <1>2
    <3> HIDE DEF q, p
    <3> QED  BY <1>2, <1>3, <3>1, BoundedGrow
  <2>3. ~Connected'
    BY <1>1, <1>7 DEF Connected
  <2>4. LinkInv(p)'
    BY <1>1, <1>3, <2>1, <2>2, <2>3 DEF LinkInv, Kept
  <2>5. ClosingInv(p)'
    BY <1>1, <1>2, <2>1 DEF ClosingInv
  <2> QED  BY <1>5, <2>4, <2>5
<1> QED  BY <1>6, <1>7

\* What a step of the other end leaves alone at end x: all but the link to x.
Untouched(x) ==
  /\ local_closed'[x] = local_closed[x]
  /\ remote_closed'[x] = remote_closed[x]
  /\ remote_window_size'[x] = remote_window_size[x]
  /\ consumed_since_last_update'[x] = consumed_since_last_update[x]
  /\ read_queue'[x] = read_queue[x]
  /\ read_queue_offset'[x] = read_queue_offset[x]
  /\ pending_reads'[x] = pending_reads[x]
  /\ pending_writes'[x] = pending_writes[x]
  /\ stream'[x] = stream[x]
  /\ session'[x] = session[x]
  /\ strand'[x] = strand[x]
  /\ posted'[x] = posted[x]
  /\ sent'[x] = sent[x]
  /\ credited'[x] = credited[x]
  /\ arrived'[x] = arrived[x]
  /\ delivered'[x] = delivered[x]
  /\ credit'[x] = credit[x]
  /\ fin_at'[x] = fin_at[x]
  /\ at_eof'[x] = at_eof[x]

\* A step of the other end, which may close but not reopen it, keeps the
\* invariant of x if it keeps the link to x.
LEMMA OtherEnd ==
  ASSUME NEW x \in Ends, EndInv(x), Untouched(x),
         LinkInv(x)', ClosingInv(x)',
         local_closed[Peer(x)] => local_closed'[Peer(x)],
         fin_at'[Peer(x)] = fin_at[Peer(x)] \/ fin_at[Peer(x)] = -1
  PROVE  EndInv(x)'
<1>1. QueueInv(x)'
  BY DEF EndInv, Untouched, QueueInv
<1>2. WindowInv(x)'
  BY DEF EndInv, Untouched, WindowInv
<1>3. CreditInv(x)'
  BY DEF EndInv, Untouched, CreditInv
<1>4. SettledInv(x)'
  BY DEF EndInv, Untouched, SettledInv, Waits, Queued
<1>5. EofInv(x)'
  BY DEF EndInv, Untouched, EofInv
<1>6. LifeInv(x)'
  BY DEF EndInv, Untouched, LifeInv
<1> QED  BY <1>1, <1>2, <1>3, <1>4, <1>5, <1>6 DEF EndInv

\* A step that sends and takes no frame keeps both links.
LEMMA LinksKept ==
  ASSUME IInv, UNCHANGED <<link, posted, arrived, credit, sent, credited, fin_at>>,
         \A x \in Ends : /\ stream'[x] \in {stream[x], "removed"}
                         /\ session[x] # "running" => session'[x] # "running"
  PROVE  \A x \in Ends : LinkInv(x)' /\ ClosingInv(x)'
<1> TAKE x \in Ends
<1>1. TypeOK /\ LinkInv(x) /\ ClosingInv(x)
  BY DEF IInv, EndInv
<1>2. Connected' => Connected
  BY DEF Connected
<1> QED  BY <1>1, <1>2, LinkKept

\* A step of e establishes the invariant if it does so at both ends.
LEMMA BothEnds ==
  ASSUME NEW e \in Ends, TypeOK', EndInv(e)', EndInv(Peer(e))'
  PROVE  IInv'
BY Peers DEF IInv

-----------------------------------------------------------------------------
(* Steps that leave the links alone.                                         *)

\* MuxStream::async_write keeps the invariant.
LEMMA AsyncWrite ==
  ASSUME IInv, NEW e \in Ends, NEW n \in WriteSizes[e], async_write(e, n)
  PROVE  IInv'
<1> USE DEF flow, input, taken, ends, place, calls
<1> DEFINE p == Peer(e)
<1>1. p \in Ends /\ p # e /\ Peer(p) = e /\ TypeOK /\ EndInv(e) /\ EndInv(p)
  BY Peers DEF IInv
<1>2. n \in Nat
  BY UserAssumption
<1>3. TypeOK'
  <2>1. pending_writes' \in [Ends -> Seq(Nat)]
    <3>1. pending_writes[e] \in Seq(Nat)
      BY <1>1 DEF TypeOK
    <3>2. Append(pending_writes[e], n) \in Seq(Nat)
      BY <1>2, <3>1
    <3>3. \/ pending_writes' = pending_writes
          \/ pending_writes' = [pending_writes EXCEPT ![e] = Append(pending_writes[e], n)]
      BY DEF async_write
    <3>4. pending_writes \in [Ends -> Seq(Nat)]
      BY <1>1 DEF TypeOK
    <3> QED  BY <3>2, <3>3, <3>4
  <2>2. strand' \in [Ends -> {"idle", "do_write", "do_read"}]
    <3>1. strand' = strand \/ strand' = [strand EXCEPT ![e] = "do_write"]
      BY DEF async_write
    <3>2. strand \in [Ends -> {"idle", "do_write", "do_read"}]
      BY <1>1 DEF TypeOK
    <3> QED  BY <3>1, <3>2
  <2>3. writes' \in [Ends -> Nat]
    <3>1. writes' = [writes EXCEPT ![e] = writes[e] + 1]
      BY DEF async_write
    <3>2. writes \in [Ends -> Nat]
      BY <1>1 DEF TypeOK
    <3> QED  BY <3>1, <3>2
  <2> QED  BY <1>1, <2>1, <2>2, <2>3 DEF TypeOK, async_write
<1>4. Untouched(p)
  BY <1>1 DEF TypeOK, async_write, Untouched
<1>5. \A x \in Ends : LinkInv(x)' /\ ClosingInv(x)'
  <2>1. UNCHANGED <<link, posted, arrived, credit, sent, credited, fin_at,
                    stream, session>>
    BY DEF async_write
  <2> QED  BY <2>1, LinksKept
<1>6. EndInv(p)'
  BY <1>1, <1>4, <1>5, OtherEnd DEF async_write
<1>7. EndInv(e)'
  <2>1. QueueInv(e)' /\ WindowInv(e)' /\ CreditInv(e)' /\ EofInv(e)'
    BY <1>1 DEF EndInv, async_write, QueueInv, WindowInv, CreditInv, EofInv
  <2>2. SettledInv(e)' /\ LifeInv(e)'
    BY <1>1 DEF EndInv, async_write, Callable, SettledInv, LifeInv, Waits, Queued, TypeOK
  <2> QED  BY <1>5, <2>1, <2>2 DEF EndInv
<1> QED  BY <1>3, <1>6, <1>7, BothEnds

\* MuxStream::async_read and async_read_some keep the invariant.
LEMMA AsyncRead ==
  ASSUME IInv, NEW e \in Ends, NEW n \in ReadSizes[e], NEW all \in BOOLEAN,
         async_read(e, n, all)
  PROVE  IInv'
<1> USE DEF flow, input, taken, ends, place, calls
<1> DEFINE p == Peer(e)
           pr == [size |-> n, all |-> all]
<1>1. p \in Ends /\ p # e /\ Peer(p) = e /\ TypeOK /\ EndInv(e) /\ EndInv(p)
  BY Peers DEF IInv
<1>2. /\ reads' = [reads EXCEPT ![e] = reads[e] + 1]
      /\ \/ UNCHANGED <<pending_reads, strand>>
         \/ /\ pending_reads' = [pending_reads EXCEPT
                                   ![e] = Append(pending_reads[e], pr)]
            /\ strand' = [strand EXCEPT ![e] = "do_read"]
      /\ stream[e] # "absent"
  BY DEF async_read, Callable
<1>3. pending_reads[e] \in Seq([size : Nat \ {0}, all : BOOLEAN])
  BY <1>1 DEF TypeOK
<1>4. TypeOK'
  <2>1. pr \in [size : Nat \ {0}, all : BOOLEAN]
    BY UserAssumption
  <2>2. Append(pending_reads[e], pr) \in Seq([size : Nat \ {0}, all : BOOLEAN])
    BY <1>3, <2>1
  <2>3. pending_reads \in [Ends -> Seq([size : Nat \ {0}, all : BOOLEAN])]
    BY <1>1 DEF TypeOK
  <2>4. pending_reads' \in [Ends -> Seq([size : Nat \ {0}, all : BOOLEAN])]
    <3> HIDE DEF pr
    <3> QED  BY <1>2, <2>2, <2>3
  <2>5. strand \in [Ends -> {"idle", "do_write", "do_read"}]
    BY <1>1 DEF TypeOK
  <2>6. strand' \in [Ends -> {"idle", "do_write", "do_read"}]
    BY <1>2, <2>5
  <2>7. reads \in [Ends -> Nat]
    BY <1>1 DEF TypeOK
  <2>8. reads' \in [Ends -> Nat]
    BY <1>2, <2>7
  <2> QED  BY <1>1, <2>4, <2>6, <2>8 DEF TypeOK, async_read
<1>5. Untouched(p)
  BY <1>1 DEF TypeOK, async_read, Untouched
<1>6. \A x \in Ends : LinkInv(x)' /\ ClosingInv(x)'
  <2>1. UNCHANGED <<link, posted, arrived, credit, sent, credited, fin_at,
                    stream, session>>
    BY DEF async_read
  <2> QED  BY <2>1, LinksKept
<1>7. EndInv(p)'
  BY <1>1, <1>5, <1>6, OtherEnd DEF async_read
<1>8. EndInv(e)'
  <2>1. QueueInv(e)' /\ WindowInv(e)' /\ CreditInv(e)' /\ EofInv(e)'
    BY <1>1 DEF EndInv, async_read, QueueInv, WindowInv, CreditInv, EofInv
  <2>2. LifeInv(e)'
    BY <1>1, <1>2 DEF EndInv, async_read, LifeInv, TypeOK
  <2>3. SettledInv(e)'
    <3>1. CASE UNCHANGED <<pending_reads, strand>>
      BY <1>1, <3>1 DEF EndInv, async_read, SettledInv, Waits, Queued
    <3>2. CASE /\ pending_reads' = [pending_reads EXCEPT
                                      ![e] = Append(pending_reads[e], pr)]
               /\ strand' = [strand EXCEPT ![e] = "do_read"]
      <4>1. /\ pending_reads'[e] = Append(pending_reads[e], pr)
            /\ strand'[e] = "do_read"
        BY <1>1, <3>2 DEF TypeOK
      <4>2. \A i \in 1..Len(pending_reads'[e]) :
              pending_reads'[e][i].size \in ReadSizes[e]
        <5>1. /\ Len(Append(pending_reads[e], pr)) = Len(pending_reads[e]) + 1
              /\ Append(pending_reads[e], pr)[Len(pending_reads[e]) + 1] = pr
              /\ \A i \in 1..Len(pending_reads[e]) :
                   Append(pending_reads[e], pr)[i] = pending_reads[e][i]
              /\ Len(pending_reads[e]) \in Nat
          BY <1>3
        <5>2. pr.size \in ReadSizes[e]
          OBVIOUS
        <5> HIDE DEF pr
        <5> QED  BY <1>1, <4>1, <5>1, <5>2 DEF EndInv, SettledInv
      <4>3. /\ strand[e] = "idle"
            /\ pending_writes'[e] = pending_writes[e]
            /\ remote_window_size'[e] = remote_window_size[e]
        BY DEF async_read, Callable
      <4> QED  BY <1>1, <4>1, <4>2, <4>3 DEF EndInv, SettledInv
    <3> QED  BY <1>2, <3>1, <3>2
  <2> QED  BY <1>6, <2>1, <2>2, <2>3 DEF EndInv
<1> QED  BY <1>4, <1>7, <1>8, BothEnds

\* Leaving the loop of do_write keeps the invariant.
LEMMA DoWriteExit ==
  ASSUME IInv, NEW e \in Ends, do_write_exit(e)
  PROVE  IInv'
<1> USE DEF flow, input, taken, ends, place, calls
<1> DEFINE p == Peer(e)
<1>1. p \in Ends /\ p # e /\ Peer(p) = e /\ TypeOK /\ EndInv(e) /\ EndInv(p)
  BY Peers DEF IInv
<1>2. TypeOK'
  BY <1>1 DEF TypeOK, do_write_exit
<1>3. Untouched(p)
  BY <1>1 DEF TypeOK, do_write_exit, Untouched
<1>4. \A x \in Ends : LinkInv(x)' /\ ClosingInv(x)'
  <2>1. UNCHANGED <<link, posted, arrived, credit, sent, credited, fin_at,
                    stream, session>>
    BY DEF do_write_exit
  <2> QED  BY <2>1, LinksKept
<1>5. EndInv(p)'
  BY <1>1, <1>3, <1>4, OtherEnd DEF do_write_exit
<1>6. EndInv(e)'
  <2>1. QueueInv(e)' /\ WindowInv(e)' /\ CreditInv(e)' /\ EofInv(e)'
    BY <1>1 DEF EndInv, do_write_exit, QueueInv, WindowInv, CreditInv, EofInv
  <2>2. SettledInv(e)' /\ LifeInv(e)'
    BY <1>1 DEF EndInv, do_write_exit, SettledInv, LifeInv, Waits, Queued, TypeOK
  <2> QED  BY <1>4, <2>1, <2>2 DEF EndInv
<1> QED  BY <1>2, <1>5, <1>6, BothEnds

\* do_write_drop and partial_send_failed take writes out of pending_writes.
LEMMA WritesDropped ==
  ASSUME IInv, NEW e \in Ends, do_write_drop(e) \/ partial_send_failed(e)
  PROVE  IInv'
<1> USE DEF flow, input, taken, ends, place, calls
<1> DEFINE p == Peer(e)
<1>1. p \in Ends /\ p # e /\ Peer(p) = e /\ TypeOK /\ EndInv(e) /\ EndInv(p)
  BY Peers DEF IInv
<1>2. /\ \/ pending_writes' = [pending_writes EXCEPT ![e] = <<>>]
         \/ /\ pending_writes' = [pending_writes EXCEPT ![e] = Tail(pending_writes[e])]
            /\ strand[e] = "do_write"
            /\ pending_writes[e] # <<>>
      /\ UNCHANGED <<flow, input, taken, ends, place, calls, pending_reads,
                     strand, link, posted, partial>>
  BY DEF do_write_drop, partial_send_failed, Writing
<1>3. TypeOK'
  <2>1. pending_writes \in [Ends -> Seq(Nat)] /\ pending_writes[e] \in Seq(Nat)
    BY <1>1 DEF TypeOK
  <2>2. pending_writes[e] # <<>> => Tail(pending_writes[e]) \in Seq(Nat)
    BY <2>1
  <2>3. \A s \in Seq(Nat) : [pending_writes EXCEPT ![e] = s] \in [Ends -> Seq(Nat)]
    BY <2>1
  <2>4. pending_writes' \in [Ends -> Seq(Nat)]
    <3>1. <<>> \in Seq(Nat)
      OBVIOUS
    <3> QED  BY <1>2, <2>2, <2>3, <3>1
  <2> QED  BY <1>1, <1>2, <2>4 DEF TypeOK
<1>4. Untouched(p)
  BY <1>1, <1>2 DEF TypeOK, Untouched
<1>5. \A x \in Ends : LinkInv(x)' /\ ClosingInv(x)'
  <2>1. UNCHANGED <<link, posted, arrived, credit, sent, credited, fin_at,
                    stream, session>>
    BY <1>2
  <2> QED  BY <2>1, LinksKept
<1>6. EndInv(p)'
  BY <1>1, <1>2, <1>4, <1>5, OtherEnd
<1>7. EndInv(e)'
  <2>1. QueueInv(e)' /\ WindowInv(e)' /\ CreditInv(e)' /\ EofInv(e)' /\ LifeInv(e)'
    BY <1>1, <1>2 DEF EndInv, QueueInv, WindowInv, CreditInv, EofInv, LifeInv
  <2>2. strand[e] # "do_write" => pending_writes'[e] = <<>>
    BY <1>1, <1>2 DEF TypeOK
  <2>3. SettledInv(e)'
    BY <1>1, <1>2, <2>2 DEF EndInv, SettledInv, Waits, Queued
  <2> QED  BY <1>5, <2>1, <2>3 DEF EndInv
<1> QED  BY <1>3, <1>6, <1>7, BothEnds

\* Leaving the loop of do_read_from_buffer, with check_cleanup, keeps the
\* invariant.
LEMMA DoReadExit ==
  ASSUME IInv, NEW e \in Ends, do_read_exit(e)
  PROVE  IInv'
<1> USE DEF flow, input, taken, ends, place, calls
<1> DEFINE p == Peer(e)
<1>1. p \in Ends /\ p # e /\ Peer(p) = e /\ TypeOK /\ EndInv(e) /\ EndInv(p)
  BY Peers DEF IInv
<1>2. /\ strand' = [strand EXCEPT ![e] = "idle"]
      /\ strand[e] = "do_read"
      /\ pending_reads[e] = <<>> \/ Waits(e)
      /\ \/ stream' = stream
         \/ /\ stream' = [stream EXCEPT ![e] = "removed"]
            /\ local_closed[e]
      /\ UNCHANGED <<flow, input, taken, ends, session, calls, pending_reads,
                     pending_writes, link, posted, partial>>
  BY DEF do_read_exit, check_cleanup
<1>3. TypeOK'
  <2>1. stream' \in [Ends -> {"absent", "registered", "removed"}]
    <3>1. stream \in [Ends -> {"absent", "registered", "removed"}]
      BY <1>1 DEF TypeOK
    <3> QED  BY <1>2, <3>1
  <2> QED  BY <1>1, <1>2, <2>1 DEF TypeOK
<1>4. Untouched(p)
  BY <1>1, <1>2 DEF TypeOK, Untouched
<1>5. \A x \in Ends : LinkInv(x)' /\ ClosingInv(x)'
  <2>1. \A x \in Ends : stream'[x] \in {stream[x], "removed"}
    BY <1>1, <1>2 DEF TypeOK
  <2>2. UNCHANGED <<link, posted, arrived, credit, sent, credited, fin_at, session>>
    BY <1>2
  <2> QED  BY <2>1, <2>2, LinksKept
<1>6. EndInv(p)'
  BY <1>1, <1>2, <1>4, <1>5, OtherEnd
<1>7. EndInv(e)'
  <2>1. QueueInv(e)' /\ WindowInv(e)' /\ CreditInv(e)' /\ EofInv(e)'
    BY <1>1, <1>2 DEF EndInv, QueueInv, WindowInv, CreditInv, EofInv
  <2>2. SettledInv(e)'
    BY <1>1, <1>2 DEF EndInv, SettledInv, Waits, Queued, TypeOK
  <2>3. LifeInv(e)'
    BY <1>1, <1>2 DEF EndInv, LifeInv, TypeOK
  <2> QED  BY <1>5, <2>1, <2>2, <2>3 DEF EndInv
<1> QED  BY <1>3, <1>6, <1>7, BothEnds

\* The end of a stopped Session keeps the invariant.
LEMMA SessionGone ==
  ASSUME IInv, NEW e \in Ends, session_gone(e)
  PROVE  IInv'
<1> USE DEF flow, input, taken, ends, place, calls
<1> DEFINE p == Peer(e)
<1>1. p \in Ends /\ p # e /\ Peer(p) = e /\ TypeOK /\ EndInv(e) /\ EndInv(p)
  BY Peers DEF IInv
<1>2. /\ session[e] = "stopped"
      /\ session' = [session EXCEPT ![e] = "gone"]
      /\ UNCHANGED <<flow, input, taken, ends, stream, calls, pending_reads,
                     pending_writes, strand, link, posted, partial>>
  BY DEF session_gone
<1>3. TypeOK'
  BY <1>1, <1>2 DEF TypeOK
<1>4. Untouched(p)
  BY <1>1, <1>2 DEF TypeOK, Untouched
<1>5. \A x \in Ends : LinkInv(x)' /\ ClosingInv(x)'
  <2>1. \A x \in Ends : session[x] # "running" => session'[x] # "running"
    BY <1>1, <1>2 DEF TypeOK
  <2>2. UNCHANGED <<link, posted, arrived, credit, sent, credited, fin_at, stream>>
    BY <1>2
  <2> QED  BY <2>1, <2>2, LinksKept
<1>6. EndInv(p)'
  BY <1>1, <1>2, <1>4, <1>5, OtherEnd
<1>7. EndInv(e)'
  <2>1. session'[e] = "gone"
    BY <1>1, <1>2 DEF TypeOK
  <2>2. QueueInv(e)' /\ WindowInv(e)' /\ CreditInv(e)' /\ EofInv(e)' /\ LifeInv(e)'
    BY <1>1, <1>2, <2>1 DEF EndInv, QueueInv, WindowInv, CreditInv, EofInv, LifeInv
  <2>3. SettledInv(e)'
    BY <1>1, <1>2 DEF EndInv, SettledInv, Waits, Queued
  <2> QED  BY <1>5, <2>2, <2>3 DEF EndInv
<1> QED  BY <1>3, <1>6, <1>7, BothEnds

\* A read answered with eof keeps the invariant: nothing was left to deliver.
LEMMA DoReadEof ==
  ASSUME IInv, NEW e \in Ends, do_read_eof(e)
  PROVE  IInv'
<1> USE DEF flow, input, taken, ends, place, calls
<1> DEFINE p == Peer(e)
<1>1. p \in Ends /\ p # e /\ Peer(p) = e /\ TypeOK /\ EndInv(e) /\ EndInv(p)
  BY Peers DEF IInv
<1>2. /\ strand[e] = "do_read"
      /\ pending_reads[e] # <<>>
      /\ read_queue[e] = <<>>
      /\ remote_closed[e]
      /\ pending_reads' = [pending_reads EXCEPT ![e] = Tail(pending_reads[e])]
      /\ at_eof' = [at_eof EXCEPT ![e] = IF at_eof[e] = -1 /\ ~local_closed[e]
                                         THEN delivered[e] ELSE at_eof[e]]
      /\ UNCHANGED <<flow, input, consumed_since_last_update, credited,
                     delivered, ends, place, calls, pending_writes, strand,
                     link, posted, partial>>
  BY DEF do_read_eof, SawEnd
<1>3. /\ pending_reads \in [Ends -> Seq([size : Nat \ {0}, all : BOOLEAN])]
      /\ pending_reads[e] \in Seq([size : Nat \ {0}, all : BOOLEAN])
  BY <1>1 DEF TypeOK
<1>4. /\ Tail(pending_reads[e]) \in Seq([size : Nat \ {0}, all : BOOLEAN])
      /\ Len(Tail(pending_reads[e])) = Len(pending_reads[e]) - 1
      /\ \A i \in 1..Len(Tail(pending_reads[e])) :
           Tail(pending_reads[e])[i] = pending_reads[e][i + 1]
      /\ Len(pending_reads[e]) \in Nat
  BY <1>2, <1>3
<1>5. TypeOK'
  <2>1. pending_reads' \in [Ends -> Seq([size : Nat \ {0}, all : BOOLEAN])]
    BY <1>2, <1>3, <1>4
  <2>2. at_eof \in [Ends -> Nat \union {-1}] /\ delivered[e] \in Nat
    BY <1>1 DEF TypeOK
  <2>3. at_eof' \in [Ends -> Nat \union {-1}]
    BY <1>2, <2>2
  <2> QED  BY <1>1, <1>2, <2>1, <2>3 DEF TypeOK
<1>6. Untouched(p)
  BY <1>1, <1>2 DEF TypeOK, Untouched
<1>7. \A x \in Ends : LinkInv(x)' /\ ClosingInv(x)'
  <2>1. UNCHANGED <<link, posted, arrived, credit, sent, credited, fin_at,
                    stream, session>>
    BY <1>2
  <2> QED  BY <2>1, LinksKept
<1>8. EndInv(p)'
  BY <1>1, <1>2, <1>6, <1>7, OtherEnd
<1>9. EndInv(e)'
  <2>1. QueueInv(e)' /\ WindowInv(e)' /\ CreditInv(e)' /\ LifeInv(e)'
    BY <1>1, <1>2 DEF EndInv, QueueInv, WindowInv, CreditInv, LifeInv
  <2>2. EofInv(e)'
    <3>1. at_eof'[e] = IF at_eof[e] = -1 /\ ~local_closed[e]
                       THEN delivered[e] ELSE at_eof[e]
      BY <1>1, <1>2 DEF TypeOK
    <3>2. ~local_closed[e] => delivered[e] = arrived[e]
      BY <1>1, <1>2 DEF EndInv, QueueInv
    <3> QED  BY <1>1, <1>2, <3>1, <3>2 DEF EndInv, EofInv
  <2>3. SettledInv(e)'
    <3>1. pending_reads'[e] = Tail(pending_reads[e])
      BY <1>2, <1>3
    <3>2. \A i \in 1..Len(pending_reads'[e]) :
            pending_reads'[e][i].size \in ReadSizes[e]
      BY <1>1, <1>4, <3>1 DEF EndInv, SettledInv
    <3> QED  BY <1>1, <1>2, <3>2 DEF EndInv, SettledInv
  <2> QED  BY <1>7, <2>1, <2>2, <2>3 DEF EndInv
<1> QED  BY <1>5, <1>8, <1>9, BothEnds

-----------------------------------------------------------------------------
(* Steps that send a frame.                                                  *)

\* async_send_frame leaves both links well-typed.
LEMMA SentTyped ==
  ASSUME TypeOK, NEW e \in Ends, NEW type \in FrameTypes, NEW n \in Nat,
         NEW s \in Nat, NEW a \in Nat, async_send_frame(e, type, n, s, a)
  PROVE  link' \in [Ends -> Seq(Frame)]
<1> DEFINE f == [type |-> type, length |-> n, seq |-> s, ack |-> a]
           p == Peer(e)
<1>1. link \in [Ends -> Seq(Frame)] /\ p \in Ends
  BY Peers DEF TypeOK
<1>2. f \in Frame
  BY DEF Frame
<1>3. link' = link \/ link' = [link EXCEPT ![p] = Append(link[p], f)]
  BY DEF async_send_frame
<1> HIDE DEF f, p
<1>4. Append(link[p], f) \in Seq(Frame)
  BY <1>1, <1>2
<1> QED  BY <1>1, <1>3, <1>4

\* MuxStream::close keeps the invariant: the FIN is stamped with all that was
\* sent.
LEMMA Close ==
  ASSUME IInv, NEW e \in Ends, close(e)
  PROVE  IInv'
<1> USE DEF flow, input, taken, ends, place, calls
<1> DEFINE p == Peer(e)
<1>1. p \in Ends /\ p # e /\ Peer(p) = e /\ TypeOK /\ EndInv(e) /\ EndInv(p)
  BY Peers DEF IInv
<1>2. /\ stream[e] # "absent" /\ ~local_closed[e]
      /\ local_closed' = [local_closed EXCEPT ![e] = TRUE]
      /\ fin_at' = [fin_at EXCEPT ![e] = sent[e]]
      /\ async_send_frame(e, "fin", 0, sent[e], credited[e])
      /\ pending_reads' = [pending_reads EXCEPT ![e] = <<>>]
      /\ pending_writes' = [pending_writes EXCEPT ![e] = <<>>]
      /\ read_queue' = [read_queue EXCEPT ![e] = <<>>]
      /\ stream' = stream \/ stream' = [stream EXCEPT ![e] = "removed"]
      /\ UNCHANGED <<flow, read_queue_offset, arrived, taken, remote_closed,
                     session, calls, strand, posted, partial>>
  BY DEF close, Callable, check_cleanup
<1>3. /\ local_closed'[e] = TRUE /\ fin_at'[e] = sent[e]
      /\ pending_reads'[e] = <<>> /\ pending_writes'[e] = <<>>
      /\ read_queue'[e] = <<>> /\ stream'[e] \in {stream[e], "removed"}
      /\ sent[e] \in Nat /\ credited[e] \in Nat
  BY <1>1, <1>2 DEF TypeOK
<1>4. TypeOK'
  <2>1. link' \in [Ends -> Seq(Frame)]
    BY <1>1, <1>2, <1>3, SentTyped DEF FrameTypes
  <2>6. pending_reads' \in [Ends -> Seq([size : Nat \ {0}, all : BOOLEAN])]
    BY <1>1, <1>2 DEF TypeOK
  <2>7. pending_writes' \in [Ends -> Seq(Nat)]
    BY <1>1, <1>2 DEF TypeOK
  <2>8. read_queue' \in [Ends -> Seq(Block)]
    BY <1>1, <1>2 DEF TypeOK
  <2>3. stream' \in [Ends -> {"absent", "registered", "removed"}]
    BY <1>1, <1>2 DEF TypeOK
  <2>4. fin_at' \in [Ends -> Nat \union {-1}]
    BY <1>1, <1>2, <1>3 DEF TypeOK
  <2>5. local_closed' \in [Ends -> BOOLEAN]
    BY <1>1, <1>2 DEF TypeOK
  <2> QED  BY <1>1, <1>2, <2>1, <2>3, <2>4, <2>5, <2>6, <2>7, <2>8 DEF TypeOK
<1>5. Untouched(p)
  BY <1>1, <1>2 DEF TypeOK, Untouched
<1>6. LinkInv(p)' /\ ClosingInv(p)' /\ link'[e] = link[e]
  <2>1. fin_at[e] = -1
    BY <1>1, <1>2 DEF EndInv, EofInv
  <2>2. "fin" \in FrameTypes \ {"closed"} /\ 0 \in Nat
    BY DEF FrameTypes
  <2>3. /\ sent[e] = sent[e] + (IF "fin" = "data" THEN 0 ELSE 0)
        /\ credited[e] = credited[e] + (IF "fin" = "window_update" THEN 0 ELSE 0)
        /\ sent'[e] = sent[e] /\ credited'[e] = credited[e]
    BY <1>2, <1>3
  <2>4. /\ posted'[p] = posted[p] /\ arrived'[p] = arrived[p]
        /\ credit'[p] = credit[p] /\ stream'[p] = stream[p] /\ session' = session
    BY <1>2, <1>5 DEF Untouched
  <2>5. LinkInv(p) /\ ClosingInv(p)
    BY <1>1 DEF EndInv
  <2> QED  BY <1>1, <1>2, <1>3, <2>1, <2>2, <2>3, <2>4, <2>5, LinkSent
<1>7. LinkInv(e)' /\ ClosingInv(e)'
  <2>1. /\ sent'[p] = sent[p] /\ credited'[p] = credited[p] /\ fin_at'[p] = fin_at[p]
        /\ posted'[e] = posted[e] /\ arrived'[e] = arrived[e] /\ credit'[e] = credit[e]
        /\ session' = session
    BY <1>2, <1>5 DEF Untouched
  <2>2. (Connected' => Connected) /\ LinkInv(e) /\ ClosingInv(e)
    BY <1>1, <2>1 DEF Connected, EndInv
  <2> QED  BY <1>1, <1>3, <1>6, <2>1, <2>2, LinkKept
<1>8. EndInv(p)'
  BY <1>1, <1>2, <1>3, <1>5, <1>6, OtherEnd DEF EndInv, EofInv
<1>9. EndInv(e)'
  <2>1. QueueInv(e)'
    BY <1>1, <1>3 DEF QueueInv, Adjacent
  <2>2. WindowInv(e)' /\ CreditInv(e)'
    BY <1>1, <1>2, <1>3 DEF EndInv, WindowInv, CreditInv
  <2>3. SettledInv(e)'
    BY <1>3 DEF SettledInv
  <2>4. EofInv(e)'
    <3>1. /\ remote_closed'[e] = remote_closed[e] /\ session'[e] = session[e]
          /\ arrived'[e] = arrived[e] /\ at_eof'[e] = at_eof[e]
          /\ fin_at'[p] = fin_at[p]
      BY <1>2, <1>5 DEF Untouched
    <3> QED  BY <1>1, <1>3, <3>1 DEF EndInv, EofInv
  <2>5. LifeInv(e)'
    BY <1>2, <1>3 DEF LifeInv
  <2> QED  BY <1>7, <2>1, <2>2, <2>3, <2>4, <2>5 DEF EndInv
<1> QED  BY <1>4, <1>8, <1>9, BothEnds

\* A data frame sent by do_write keeps the invariant: the window pays for it.
LEMMA DoWriteFrame ==
  ASSUME IInv, NEW e \in Ends, do_write_frame(e)
  PROVE  IInv'
<1> USE DEF flow, input, taken, ends, place, calls
<1> DEFINE p == Peer(e)
           n == ToSend(e)
           left == Head(pending_writes[e]) - n
<1>1. p \in Ends /\ p # e /\ Peer(p) = e /\ TypeOK /\ EndInv(e) /\ EndInv(p)
  BY Peers DEF IInv
<1>2. /\ strand[e] = "do_write" /\ pending_writes[e] # <<>>
      /\ remote_window_size[e] > 0 /\ Head(pending_writes[e]) > 0
      /\ remote_window_size' = [remote_window_size EXCEPT ![e] = remote_window_size[e] - n]
      /\ sent' = [sent EXCEPT ![e] = sent[e] + n]
      /\ async_send_frame(e, "data", n, sent[e] + n, credited[e])
      /\ \/ /\ left > 0
            /\ pending_writes' =
                 [pending_writes EXCEPT ![e] = <<left>> \o Tail(pending_writes[e])]
            /\ partial' = [partial EXCEPT ![e] = TRUE]
         \/ /\ left = 0
            /\ pending_writes' = [pending_writes EXCEPT ![e] = Tail(pending_writes[e])]
            /\ UNCHANGED partial
      /\ UNCHANGED <<credit, input, taken, ends, place, calls, pending_reads,
                     strand, posted>>
  BY DEF do_write_frame, Writing
<1>3. /\ pending_writes[e] \in Seq(Nat) /\ remote_window_size[e] \in Nat
      /\ sent[e] \in Nat /\ credited[e] \in Nat /\ credit[e] \in Nat
      /\ pending_writes \in [Ends -> Seq(Nat)]
  BY <1>1 DEF TypeOK
<1>4. Head(pending_writes[e]) \in Nat /\ Tail(pending_writes[e]) \in Seq(Nat)
  BY <1>2, <1>3
<1>5. /\ n \in Nat /\ n >= 1 /\ n <= remote_window_size[e]
      /\ n <= MaxMessageSize /\ left \in Nat
  BY <1>2, <1>3, <1>4, FlowAssumption DEF ToSend, SmallerOf
<1> HIDE DEF n, left
<1>6. /\ remote_window_size'[e] = remote_window_size[e] - n
      /\ sent'[e] = sent[e] + n
  BY <1>1, <1>2 DEF TypeOK
<1>7. TypeOK'
  <2>1. link' \in [Ends -> Seq(Frame)]
    BY <1>1, <1>2, <1>3, <1>5, SentTyped DEF FrameTypes
  <2>2. <<left>> \o Tail(pending_writes[e]) \in Seq(Nat)
    BY <1>4, <1>5
  <2>3. pending_writes' \in [Ends -> Seq(Nat)]
    <3>1. \A s \in Seq(Nat) : [pending_writes EXCEPT ![e] = s] \in [Ends -> Seq(Nat)]
      BY <1>3
    <3> QED  BY <1>2, <1>4, <2>2, <3>1
  <2>4. remote_window_size' \in [Ends -> Nat]
    <3>1. remote_window_size \in [Ends -> Nat]
      BY <1>1 DEF TypeOK
    <3>2. remote_window_size[e] - n \in Nat
      BY <1>3, <1>5
    <3> QED  BY <1>2, <3>1, <3>2
  <2>5. sent' \in [Ends -> Nat]
    <3>1. sent \in [Ends -> Nat]
      BY <1>1 DEF TypeOK
    <3>2. sent[e] + n \in Nat
      BY <1>3, <1>5
    <3> QED  BY <1>2, <3>1, <3>2
  <2>6. partial' \in [Ends -> BOOLEAN]
    BY <1>1, <1>2 DEF TypeOK
  <2> QED  BY <1>1, <1>2, <2>1, <2>3, <2>4, <2>5, <2>6 DEF TypeOK
<1>8. Untouched(p)
  BY <1>1, <1>2 DEF TypeOK, Untouched
<1>9. LinkInv(p)' /\ ClosingInv(p)' /\ link'[e] = link[e]
  <2>1. "data" \in FrameTypes \ {"closed"} /\ sent[e] + n \in Nat /\ n \in 1..MaxMessageSize
    BY <1>3, <1>5, FlowAssumption DEF FrameTypes
  <2>2. /\ sent[e] + n = sent[e] + (IF "data" = "data" THEN n ELSE 0)
        /\ credited[e] = credited[e] + (IF "data" = "window_update" THEN n ELSE 0)
        /\ credited'[e] = credited[e] /\ fin_at'[e] = fin_at[e]
    BY <1>2, <1>3
  <2>3. /\ posted'[p] = posted[p] /\ arrived'[p] = arrived[p]
        /\ credit'[p] = credit[p] /\ stream'[p] = stream[p] /\ session' = session
    BY <1>2
  <2>4. LinkInv(p) /\ ClosingInv(p)
    BY <1>1 DEF EndInv
  <2> QED  BY <1>1, <1>2, <1>3, <1>5, <1>6, <2>1, <2>2, <2>3, <2>4, LinkSent
<1>10. LinkInv(e)' /\ ClosingInv(e)'
  <2>1. /\ sent'[p] = sent[p] /\ credited'[p] = credited[p] /\ fin_at'[p] = fin_at[p]
        /\ posted'[e] = posted[e] /\ arrived'[e] = arrived[e] /\ credit'[e] = credit[e]
        /\ session' = session /\ stream'[e] = stream[e]
    BY <1>2, <1>8 DEF Untouched
  <2>2. (Connected' => Connected) /\ LinkInv(e) /\ ClosingInv(e)
    BY <1>1, <2>1 DEF Connected, EndInv
  <2> QED  BY <1>1, <1>9, <2>1, <2>2, LinkKept
<1>11. EndInv(p)'
  BY <1>1, <1>2, <1>8, <1>9, OtherEnd
<1>12. EndInv(e)'
  <2>1. QueueInv(e)' /\ CreditInv(e)' /\ EofInv(e)' /\ LifeInv(e)'
    BY <1>1, <1>2 DEF EndInv, QueueInv, CreditInv, EofInv, LifeInv
  <2>2. WindowInv(e)'
    <3>1. remote_window_size'[e] + sent'[e] = remote_window_size[e] + sent[e]
      BY <1>3, <1>5, <1>6
    <3>2. credit'[e] = credit[e] /\ local_closed' = local_closed
      BY <1>2
    <3> QED  BY <1>1, <3>1, <3>2 DEF EndInv, WindowInv
  <2>3. SettledInv(e)'
    BY <1>1, <1>2 DEF EndInv, SettledInv, Waits, Queued
  <2> QED  BY <1>10, <2>1, <2>2, <2>3 DEF EndInv
<1> QED  BY <1>7, <1>11, <1>12, BothEnds

\* The copy loop of CopyBlocks on the queue q, from offset off, for a buffer
\* of the given size: it copies n bytes up to position p, uses up k blocks and
\* leaves the queue r with offset off2.
CopyLoop(q, off, size, n, p, k, r, off2) ==
  /\ n = SmallerOf(size, q[Len(q)].to - q[1].from - off)
  /\ p = q[1].from + off + n
  /\ k \in 0..Len(q)
  /\ \A i \in 1..k : q[i].to <= p
  /\ k < Len(q) => q[k + 1].to > p
  /\ r = SubSeq(q, k + 1, Len(q))
  /\ off2 = NewOffset(q, k, p)

\* The copy loop: what it leaves of the queued blocks q starts, n bytes after
\* the offset, in the middle of a block or at the end of all that arrived.
LEMMA Copied ==
  ASSUME NEW q \in Seq(Block), q # <<>>, NEW arr \in Nat, Adjacent(q, arr),
         NEW off \in Nat, off <= q[1].to - q[1].from, NEW size \in Nat,
         NEW n, NEW p, NEW k, NEW r, NEW off2,
         CopyLoop(q, off, size, n, p, k, r, off2)
  PROVE  /\ n \in Nat /\ off2 \in Nat /\ r \in Seq(Block) /\ Adjacent(r, arr)
         /\ r = <<>> => off2 = 0 /\ p = arr
         /\ r # <<>> => r[1].from + off2 = p /\ p < r[1].to
         /\ n < size => p = arr
<1> USE DEF CopyLoop, NewOffset
<1>1. \A i \in 1..Len(q) : q[i].from \in Nat /\ q[i].to \in Nat /\ q[i] \in Block
  <2> TAKE i \in 1..Len(q)
  <2>1. q[i] \in Block
    OBVIOUS
  <2> QED  BY <2>1 DEF Block
<1>2. Len(q) \in Nat /\ Len(q) >= 1
  OBVIOUS
<1>3. /\ \A i \in 1..Len(q) : q[i].from < q[i].to
      /\ \A i \in 1..(Len(q) - 1) : q[i].to = q[i + 1].from
      /\ \A i, j \in 1..Len(q) : i < j => q[i].to <= q[j].from
      /\ q[Len(q)].to = arr
  BY DEF Adjacent
<1>4. \A i \in 1..Len(q) : q[i].to <= arr
  <2> TAKE i \in 1..Len(q)
  <2>1. CASE i = Len(q)
    BY <1>3, <2>1
  <2>2. CASE i < Len(q)
    <3>1. Len(q) \in 1..Len(q)
      BY <1>2
    <3>2. q[i].to <= q[Len(q)].from /\ q[Len(q)].from < q[Len(q)].to
      BY <1>3, <2>2, <3>1
    <3>3. q[i].to \in Nat /\ q[Len(q)].from \in Nat /\ q[Len(q)].to = arr
      BY <1>1, <1>3, <3>1
    <3> QED  BY <3>2, <3>3
  <2> QED  BY <1>2, <2>1, <2>2
<1>5. q[1].from \in Nat /\ q[1].to \in Nat /\ q[1].from < q[1].to /\ q[1].to <= arr
  BY <1>1, <1>2, <1>3, <1>4
<1>6. n = SmallerOf(size, arr - q[1].from - off)
  BY <1>3
<1>7. n \in Nat /\ n <= arr - q[1].from - off /\ p \in Nat /\ p <= arr
  <2> DEFINE m == arr - q[1].from - off
  <2>1. m \in Nat
    BY <1>5
  <2>2. n \in Nat /\ n <= m
    BY <1>6, <2>1 DEF SmallerOf
  <2>3. p = q[1].from + off + n
    OBVIOUS
  <2> HIDE DEF m, CopyLoop, NewOffset
  <2>4. p \in Nat
    BY <1>5, <2>2, <2>3
  <2>5. p <= arr
    BY <1>5, <2>2, <2>3 DEF m
  <2>6. n <= arr - q[1].from - off
    BY <2>2 DEF m
  <2> QED  BY <2>2, <2>4, <2>5, <2>6
<1>8. n < size => p = arr
  BY <1>5, <1>6, <1>7 DEF SmallerOf
<1>9. CASE k = Len(q)
  <2>1. r = <<>> /\ off2 = 0
    BY <1>2, <1>9
  <2>2. arr <= p
    BY <1>2, <1>3, <1>9
  <2>3. p = arr
    BY <1>7, <2>2
  <2>4. r \in Seq(Block) /\ Len(r) = 0
    <3>1. <<>> \in Seq(Block) /\ Len(<<>>) = 0
      OBVIOUS
    <3> QED  BY <2>1, <3>1, Zenon
  <2>5. Adjacent(r, arr)
    <3>1. /\ \A i \in 1..0 : FALSE
          /\ \A i \in 1..(0 - 1) : FALSE
      OBVIOUS
    <3> QED  BY <2>1, <2>4, <3>1, Zenon DEF Adjacent
  <2> QED  BY <1>7, <1>8, <2>1, <2>3, <2>4, <2>5
<1>10. CASE k < Len(q)
  <2>1. /\ r \in Seq(Block) /\ Len(r) = Len(q) - k /\ Len(r) \in Nat /\ Len(r) >= 1
        /\ \A i \in 1..Len(r) : r[i] = q[k + i]
        /\ r # <<>>
    <3>1. r = SubSeq(q, k + 1, Len(q)) /\ k \in Nat
      BY <1>2
    <3>2. r \in Seq(Block) /\ Len(r) = Len(q) - k
      BY <1>2, <1>10, <3>1
    <3>3. \A i \in 1..Len(r) : r[i] = q[k + i]
      <4> TAKE i \in 1..Len(r)
      <4>1. r[i] = q[(k + 1) + i - 1] /\ (k + 1) + i - 1 = k + i
        BY <1>2, <1>10, <3>1, <3>2
      <4> QED  BY <4>1
    <3>4. Len(r) \in Nat /\ Len(r) >= 1
      BY <1>2, <1>10, <3>2
    <3>5. r # <<>>
      <4>1. Len(<<>>) = 0
        OBVIOUS
      <4>2. Len(r) # 0
        BY <3>4
      <4> QED  BY <4>1, <4>2, Zenon
    <3> QED  BY <3>2, <3>3, <3>4, <3>5
  <2>2. k + 1 \in 1..Len(q)
    BY <1>2, <1>10
  <2>3. r[1] = q[k + 1]
    BY <2>1
  <2>4. off2 = p - q[k + 1].from
    BY <1>10
  <2>5. q[k + 1].from <= p
    <3>1. CASE k = 0
      BY <1>5, <1>7, <3>1
    <3>2. CASE k # 0
      <4>1. k \in 1..(Len(q) - 1) /\ k \in 1..k
        BY <1>2, <1>10, <3>2
      <4> QED  BY <1>3, <4>1
    <3> QED  BY <3>1, <3>2
  <2>6. off2 \in Nat /\ q[k + 1].from + off2 = p
    BY <1>1, <1>7, <2>2, <2>4, <2>5
  <2>7. Adjacent(r, arr)
    <3>1. \A i \in 1..Len(r) : r[i].from < r[i].to
      <4> TAKE i \in 1..Len(r)
      <4>1. k + i \in 1..Len(q)
        BY <1>2, <2>1
      <4> QED  BY <1>3, <2>1, <4>1
    <3>2. \A i \in 1..(Len(r) - 1) : r[i].to = r[i + 1].from
      <4> TAKE i \in 1..(Len(r) - 1)
      <4>1. k + i \in 1..(Len(q) - 1) /\ k + (i + 1) = (k + i) + 1
        BY <1>2, <2>1
      <4>2. r[i] = q[k + i] /\ r[i + 1] = q[(k + i) + 1]
        BY <2>1, <4>1
      <4> QED  BY <1>3, <4>1, <4>2
    <3>3. \A i, j \in 1..Len(r) : i < j => r[i].to <= r[j].from
      <4> SUFFICES ASSUME NEW i \in 1..Len(r), NEW j \in 1..Len(r), i < j
                   PROVE  r[i].to <= r[j].from
        OBVIOUS
      <4>1. k + i \in 1..Len(q) /\ k + j \in 1..Len(q) /\ k + i < k + j
        BY <1>2, <2>1
      <4> QED  BY <1>3, <2>1, <4>1
    <3>4. r[Len(r)].to = arr
      <4>1. k + Len(r) = Len(q) /\ Len(r) \in 1..Len(r)
        BY <1>2, <2>1
      <4> QED  BY <1>3, <2>1, <4>1
    <3> QED  BY <3>1, <3>2, <3>3, <3>4 DEF Adjacent
  <2> QED  BY <1>7, <1>8, <1>10, <2>1, <2>3, <2>6, <2>7
<1> QED  BY <1>2, <1>9, <1>10

\* Counting n copied bytes as consumed, with a WindowUpdate when it is due.
LEMMA Consumed ==
  ASSUME IInv, NEW e \in Ends, NEW n \in Nat, Consume(e, n),
         UNCHANGED <<sent, posted, arrived, credit, stream, session, fin_at>>
  PROVE  /\ delivered' \in [Ends -> Nat]
         /\ consumed_since_last_update' \in [Ends -> Nat]
         /\ credited' \in [Ends -> Nat]
         /\ link' \in [Ends -> Seq(Frame)]
         /\ delivered'[e] = delivered[e] + n
         /\ delivered'[Peer(e)] = delivered[Peer(e)]
         /\ consumed_since_last_update'[Peer(e)] = consumed_since_last_update[Peer(e)]
         /\ credited'[Peer(e)] = credited[Peer(e)]
         /\ CreditInv(e)'
         /\ \A x \in Ends : LinkInv(x)' /\ ClosingInv(x)'
<1> DEFINE p == Peer(e)
           c == consumed_since_last_update[e] + n
<1>1. p \in Ends /\ p # e /\ Peer(p) = e /\ TypeOK /\ EndInv(e) /\ EndInv(p)
      /\ \A x \in Ends : x = e \/ x = p
  BY Peers DEF IInv
<1>2. /\ delivered \in [Ends -> Nat] /\ consumed_since_last_update \in [Ends -> Nat]
      /\ credited \in [Ends -> Nat] /\ link \in [Ends -> Seq(Frame)]
  BY <1>1 DEF TypeOK
<1>3. c \in Nat /\ sent[e] \in Nat /\ delivered[e] + n \in Nat /\ credited[e] + c \in Nat
  <2>1. c \in Nat
    BY <1>2
  <2>2. delivered[e] + n \in Nat
    BY <1>2
  <2>3. sent[e] \in Nat
    BY <1>1 DEF TypeOK
  <2>4. credited[e] + c \in Nat
    BY <1>2
  <2> QED  BY <2>1, <2>2, <2>3, <2>4
<1>4. /\ delivered' = [delivered EXCEPT ![e] = delivered[e] + n]
      /\ \/ /\ c >= UpdateThreshold /\ session[e] # "gone"
            /\ consumed_since_last_update' = [consumed_since_last_update EXCEPT ![e] = 0]
            /\ credited' = [credited EXCEPT ![e] = credited[e] + c]
            /\ async_send_frame(e, "window_update", c, sent[e], credited[e] + c)
         \/ /\ c < UpdateThreshold \/ session[e] = "gone"
            /\ consumed_since_last_update' = [consumed_since_last_update EXCEPT ![e] = c]
            /\ UNCHANGED <<credited, link>>
  BY <1>3, FlowAssumption DEF Consume, UpdateDue
<1>5. credited[e] + consumed_since_last_update[e] = delivered[e]
  BY <1>1 DEF EndInv, CreditInv
<1>6. LinkInv(e) /\ ClosingInv(e) /\ LinkInv(p) /\ ClosingInv(p)
  BY <1>1 DEF EndInv
<1>7. /\ delivered' \in [Ends -> Nat]
      /\ delivered'[e] = delivered[e] + n /\ delivered'[p] = delivered[p]
  <2>1. delivered' = [delivered EXCEPT ![e] = delivered[e] + n]
    BY <1>4
  <2>2. delivered' \in [Ends -> Nat]
    BY <1>2, <1>3, <2>1
  <2>3. delivered'[e] = delivered[e] + n /\ delivered'[p] = delivered[p]
    BY <1>1, <1>2, <2>1
  <2> QED  BY <2>2, <2>3
<1>8. Connected' => Connected
  BY DEF Connected
<1>9. CASE /\ c >= UpdateThreshold /\ session[e] # "gone"
           /\ consumed_since_last_update' = [consumed_since_last_update EXCEPT ![e] = 0]
           /\ credited' = [credited EXCEPT ![e] = credited[e] + c]
           /\ async_send_frame(e, "window_update", c, sent[e], credited[e] + c)
  <2> HIDE DEF c
  <2>1. /\ consumed_since_last_update' \in [Ends -> Nat]
        /\ consumed_since_last_update'[e] = 0
        /\ consumed_since_last_update'[p] = consumed_since_last_update[p]
    BY <1>1, <1>2, <1>9
  <2>2. /\ credited' \in [Ends -> Nat]
        /\ credited'[e] = credited[e] + c /\ credited'[p] = credited[p]
    BY <1>1, <1>2, <1>3, <1>9
  <2>3. "window_update" \in FrameTypes \ {"closed"}
    BY DEF FrameTypes
  <2>4. link' \in [Ends -> Seq(Frame)]
    BY <1>1, <1>3, <1>9, <2>3, SentTyped
  <2>5. LinkInv(p)' /\ ClosingInv(p)' /\ link'[e] = link[e]
    <3>1. /\ sent[e] = sent[e] + (IF "window_update" = "data" THEN c ELSE 0)
          /\ credited[e] + c =
               credited[e] + (IF "window_update" = "window_update" THEN c ELSE 0)
      BY <1>3
    <3> QED  BY <1>1, <1>3, <1>6, <1>9, <2>2, <2>3, <3>1, LinkSent
  <2>6. LinkInv(e)' /\ ClosingInv(e)'
    BY <1>1, <1>6, <1>8, <2>2, <2>5, LinkKept
  <2>7. CreditInv(e)'
    <3>1. credited[e] + c = delivered[e] + n
      BY <1>1, <1>2, <1>5 DEF c
    <3>2. credited'[e] + consumed_since_last_update'[e] = delivered'[e]
      BY <1>3, <1>7, <2>1, <2>2, <3>1
    <3> QED  BY <2>1, <3>2, FlowAssumption DEF CreditInv
  <2> QED  BY <1>1, <1>7, <2>1, <2>2, <2>4, <2>5, <2>6, <2>7
<1>10. CASE /\ c < UpdateThreshold \/ session[e] = "gone"
            /\ consumed_since_last_update' = [consumed_since_last_update EXCEPT ![e] = c]
            /\ UNCHANGED <<credited, link>>
  <2>1. /\ consumed_since_last_update' \in [Ends -> Nat]
        /\ consumed_since_last_update'[e] = c
        /\ consumed_since_last_update'[p] = consumed_since_last_update[p]
    <3> HIDE DEF c
    <3> QED  BY <1>1, <1>2, <1>3, <1>10
  <2>2. CreditInv(e)'
    <3>1. credited[e] + c = delivered[e] + n
      BY <1>1, <1>2, <1>5
    <3> HIDE DEF c
    <3> QED  BY <1>7, <1>10, <2>1, <3>1 DEF CreditInv
  <2>3. \A x \in Ends : LinkInv(x)' /\ ClosingInv(x)'
    BY <1>10, LinksKept
  <2> QED  BY <1>2, <1>7, <1>10, <2>1, <2>2, <2>3
<1> QED  BY <1>4, <1>9, <1>10

\* do_read_from_buffer serving the read at the head of pending_reads_.
LEMMA DoReadCopy ==
  ASSUME IInv, NEW e \in Ends, do_read_copy(e)
  PROVE  IInv'
<1> USE DEF flow, input, taken, ends, place, calls
<1> DEFINE p == Peer(e)
           pr == Head(pending_reads[e])
           q == read_queue[e]
           off == read_queue_offset[e]
           reading == [size : Nat \ {0}, all : BOOLEAN]
<1>1. p \in Ends /\ p # e /\ Peer(p) = e /\ TypeOK /\ EndInv(e) /\ EndInv(p)
  BY Peers DEF IInv
<1>2. /\ strand[e] = "do_read" /\ pending_reads[e] # <<>> /\ q # <<>> /\ ~Waits(e)
      /\ CopyBlocks(e) \/ CopyStale(e)
      /\ pending_reads' = [pending_reads EXCEPT ![e] = Tail(pending_reads[e])]
      /\ UNCHANGED <<flow, arrived, ends, place, calls, pending_writes, strand,
                     posted, partial>>
  BY DEF do_read_copy
<1>3. /\ pending_reads \in [Ends -> Seq(reading)] /\ pending_reads[e] \in Seq(reading)
      /\ q \in Seq(Block) /\ off \in Nat /\ arrived[e] \in Nat /\ delivered[e] \in Nat
      /\ read_queue \in [Ends -> Seq(Block)] /\ read_queue_offset \in [Ends -> Nat]
      /\ at_eof \in [Ends -> Nat \union {-1}]
  BY <1>1 DEF TypeOK
<1>4. /\ Tail(pending_reads[e]) \in Seq(reading)
      /\ Len(Tail(pending_reads[e])) = Len(pending_reads[e]) - 1
      /\ \A i \in 1..Len(Tail(pending_reads[e])) :
           Tail(pending_reads[e])[i] = pending_reads[e][i + 1]
      /\ Len(pending_reads[e]) \in Nat
  BY <1>2, <1>3
<1>5. pr \in reading /\ pr.size \in Nat /\ pr.size > 0
  <2>1. pr \in reading
    <3>1. pending_reads[e] \in Seq(reading) /\ pending_reads[e] # <<>>
      BY <1>2, <1>3
    <3> HIDE DEF reading
    <3> QED  BY <3>1
  <2> HIDE DEF pr
  <2> QED  BY <2>1
<1>6. pending_reads' \in [Ends -> Seq(reading)] /\ pending_reads'[e] = Tail(pending_reads[e])
      /\ pending_reads'[p] = pending_reads[p]
  <2> HIDE DEF reading
  <2>1. pending_reads' \in [Ends -> Seq(reading)]
    BY <1>2, <1>3, <1>4
  <2>2. pending_reads'[e] = Tail(pending_reads[e]) /\ pending_reads'[p] = pending_reads[p]
    BY <1>1, <1>2, <1>3
  <2> QED  BY <2>1, <2>2
<1>7. UNCHANGED <<sent, posted, arrived, credit, stream, session, fin_at>>
  BY <1>2
\* What both ways of copying establish.
<1>8. ASSUME NEW n \in Nat, Consume(e, n),
             read_queue' \in [Ends -> Seq(Block)],
             read_queue_offset' \in [Ends -> Nat],
             at_eof' \in [Ends -> Nat \union {-1}],
             read_queue'[p] = read_queue[p],
             read_queue_offset'[p] = read_queue_offset[p],
             at_eof'[p] = at_eof[p],
             delivered'[e] = delivered[e] + n => QueueInv(e)' /\ EofInv(e)'
      PROVE  IInv'
  <2>1. /\ delivered' \in [Ends -> Nat]
        /\ consumed_since_last_update' \in [Ends -> Nat]
        /\ credited' \in [Ends -> Nat]
        /\ link' \in [Ends -> Seq(Frame)]
        /\ delivered'[e] = delivered[e] + n
        /\ delivered'[p] = delivered[p]
        /\ consumed_since_last_update'[p] = consumed_since_last_update[p]
        /\ credited'[p] = credited[p]
        /\ CreditInv(e)'
        /\ \A x \in Ends : LinkInv(x)' /\ ClosingInv(x)'
    BY <1>7, <1>8, Consumed
  <2>2. TypeOK'
    BY <1>1, <1>2, <1>6, <1>8, <2>1 DEF TypeOK
  <2>3. Untouched(p)
    BY <1>1, <1>2, <1>6, <1>8, <2>1 DEF TypeOK, Untouched
  <2>4. EndInv(p)'
    BY <1>1, <1>2, <2>1, <2>3, OtherEnd
  <2>5. WindowInv(e)' /\ LifeInv(e)'
    BY <1>1, <1>2 DEF EndInv, WindowInv, LifeInv
  <2>6. SettledInv(e)'
    <3>1. \A i \in 1..Len(pending_reads'[e]) :
            pending_reads'[e][i].size \in ReadSizes[e]
      <4>1. \A i \in 1..Len(pending_reads[e]) :
              pending_reads[e][i].size \in ReadSizes[e]
        BY <1>1 DEF EndInv, SettledInv
      <4> DEFINE old == pending_reads[e]
                 new == Tail(old)
      <4>2. /\ Len(new) = Len(old) - 1 /\ Len(old) \in Nat
            /\ \A i \in 1..Len(new) : new[i] = old[i + 1]
        BY <1>4
      <4>3. \A i \in 1..Len(old) : old[i].size \in ReadSizes[e]
        BY <4>1
      <4>4. pending_reads'[e] = new
        BY <1>6
      <4> HIDE DEF old, new
      <4>5. \A i \in 1..Len(new) : i + 1 \in 1..Len(old)
        BY <4>2
      <4> QED  BY <4>2, <4>3, <4>4, <4>5
    <3> QED  BY <1>1, <1>2, <3>1 DEF EndInv, SettledInv
  <2>7. EndInv(e)'
    BY <1>8, <2>1, <2>5, <2>6 DEF EndInv
  <2> QED  BY <2>2, <2>4, <2>7, BothEnds
<1>9. CASE CopyBlocks(e)
  <2> DEFINE n == SmallerOf(pr.size, Queued(e) - off)
             pos == q[1].from + off + n
  <2>1. /\ off <= q[1].to - q[1].from
        /\ Consume(e, n)
        /\ \/ pr.all /\ n < pr.size /\ SawEnd(e, delivered[e] + n)
           \/ ~(pr.all /\ n < pr.size) /\ UNCHANGED at_eof
    BY <1>9 DEF CopyBlocks
  <2>2. PICK k \in 0..Len(q) :
           /\ \A i \in 1..k : q[i].to <= pos
           /\ k < Len(q) => q[k + 1].to > pos
           /\ read_queue' = [read_queue EXCEPT ![e] = SubSeq(q, k + 1, Len(q))]
           /\ read_queue_offset' =
                [read_queue_offset EXCEPT ![e] = NewOffset(q, k, pos)]
    BY <1>9 DEF CopyBlocks
  <2> DEFINE r == SubSeq(q, k + 1, Len(q))
             off2 == NewOffset(q, k, pos)
  <2>3. Queued(e) = q[Len(q)].to - q[1].from
    BY <1>2 DEF Queued
  <2>4. Adjacent(q, arrived[e])
    BY <1>1 DEF EndInv, QueueInv
  <2>5. /\ n \in Nat /\ off2 \in Nat /\ r \in Seq(Block) /\ Adjacent(r, arrived[e])
        /\ r = <<>> => off2 = 0 /\ pos = arrived[e]
        /\ r # <<>> => r[1].from + off2 = pos /\ pos < r[1].to
        /\ n < pr.size => pos = arrived[e]
    <3>1. CopyLoop(q, off, pr.size, n, pos, k, r, off2)
      BY <2>2, <2>3 DEF CopyLoop
    <3>2. q \in Seq(Block) /\ q # <<>> /\ off \in Nat /\ arrived[e] \in Nat
      BY <1>2, <1>3
    <3>3. off <= q[1].to - q[1].from /\ pr.size \in Nat
      BY <1>5, <2>1
    <3> HIDE DEF n, pos, r, off2, q, off, pr
    <3> QED  BY <2>4, <3>1, <3>2, <3>3, Copied
  <2>6. read_queue' = [read_queue EXCEPT ![e] = r]
        /\ read_queue_offset' = [read_queue_offset EXCEPT ![e] = off2]
    BY <2>2
  <2>7. ~local_closed[e] => pos = delivered[e] + n
    BY <1>1, <1>2 DEF EndInv, QueueInv
  <2>8. /\ at_eof' = at_eof \/ at_eof' = [at_eof EXCEPT ![e] = delivered[e] + n]
        /\ at_eof' # at_eof => pr.all /\ n < pr.size /\ ~local_closed[e]
    BY <1>3, <2>1 DEF SawEnd
  <2> HIDE DEF n, pos, r, off2
  <2>9. at_eof' \in [Ends -> Nat \union {-1}]
    <3>1. delivered[e] + n \in Nat
      BY <1>3, <2>5
    <3> QED  BY <1>3, <2>8, <3>1
  <2>10. read_queue' \in [Ends -> Seq(Block)] /\ read_queue'[e] = r
         /\ read_queue'[p] = read_queue[p]
    BY <1>1, <1>3, <2>5, <2>6
  <2>11. read_queue_offset' \in [Ends -> Nat] /\ read_queue_offset'[e] = off2
         /\ read_queue_offset'[p] = read_queue_offset[p]
    BY <1>1, <1>3, <2>5, <2>6
  <2>12. /\ at_eof'[p] = at_eof[p]
         /\ at_eof'[e] # at_eof[e] => /\ pr.all /\ n < pr.size /\ ~local_closed[e]
                                      /\ at_eof'[e] = delivered[e] + n
    BY <1>1, <1>3, <2>8
  <2>13. ASSUME delivered'[e] = delivered[e] + n
         PROVE  QueueInv(e)' /\ EofInv(e)'
    <3>1. QueueInv(e)'
      BY <1>2, <2>5, <2>7, <2>10, <2>11, <2>13 DEF QueueInv
    <3>2. at_eof'[e] # at_eof[e] => remote_closed[e] /\ at_eof'[e] = arrived[e]
      <4> SUFFICES ASSUME at_eof'[e] # at_eof[e]
                   PROVE  remote_closed[e] /\ at_eof'[e] = arrived[e]
        OBVIOUS
      <4>1. pr.all /\ n < pr.size /\ ~local_closed[e] /\ at_eof'[e] = delivered[e] + n
        BY <2>12
      <4>2. at_eof'[e] = arrived[e]
        BY <2>5, <2>7, <4>1
      <4>3. off <= Queued(e) /\ Queued(e) - off < pr.size
        <5>1. Queued(e) \in Int /\ q[1].from \in Nat /\ q[1].to \in Nat /\ q[Len(q)].to = arrived[e]
          <6>1. 1 \in 1..Len(q) /\ Len(q) \in 1..Len(q) /\ q[1] \in Block
            BY <1>2, <1>3
          <6>2. q[Len(q)].to = arrived[e]
            BY <1>2, <2>4 DEF Adjacent
          <6> QED  BY <1>3, <2>3, <6>1, <6>2 DEF Block
        <5>2. n < pr.size /\ n \in Nat /\ pr.size \in Nat
          BY <1>5, <2>5, <4>1
        <5>3. n = Queued(e) - off
          BY <1>3, <5>1, <5>2 DEF n, SmallerOf
        <5> QED  BY <1>3, <5>1, <5>2, <5>3
      <4> QED  BY <1>2, <4>1, <4>2, <4>3 DEF Waits
    <3>3. EofInv(e)'
      BY <1>1, <1>2, <3>2 DEF EndInv, EofInv
    <3> QED  BY <3>1, <3>3
  <2>14. n \in Nat /\ Consume(e, n)
    BY <2>1, <2>5 DEF n
  <2> QED  BY <1>8, <2>9, <2>10, <2>11, <2>12, <2>13, <2>14
<1>10. CASE CopyStale(e)
  <2>1. /\ off > q[1].to - q[1].from
        /\ read_queue_offset' = [read_queue_offset EXCEPT ![e] = off + pr.size]
        /\ Consume(e, pr.size)
        /\ UNCHANGED <<read_queue, at_eof>>
    BY <1>10 DEF CopyStale
  <2>2. local_closed[e]
    <3>1. 1 \in 1..Len(q) /\ q[1] \in Block
      BY <1>2, <1>3
    <3>2. q[1].from \in Nat /\ q[1].to \in Nat
      BY <3>1 DEF Block
    <3>3. ~local_closed[e] => q[1].from + off = delivered[e] /\ delivered[e] < q[1].to
      BY <1>1, <1>2 DEF EndInv, QueueInv
    <3>4. off \in Nat /\ delivered[e] \in Nat
      BY <1>3
    <3> HIDE DEF q, off
    <3> QED  BY <2>1, <3>2, <3>3, <3>4
  <2>3. off + pr.size \in Nat
    BY <1>3, <1>5
  <2>4. read_queue_offset' \in [Ends -> Nat]
    <3> HIDE DEF pr, off
    <3> QED  BY <1>3, <2>1, <2>3
  <2>5. read_queue_offset'[p] = read_queue_offset[p]
    BY <1>1, <1>3, <2>1
  <2>6. QueueInv(e)' /\ EofInv(e)'
    BY <1>1, <1>2, <2>1, <2>2 DEF EndInv, QueueInv, EofInv
  <2> QED  BY <1>3, <1>5, <1>8, <2>1, <2>4, <2>5, <2>6
<1> QED  BY <1>2, <1>9, <1>10

-----------------------------------------------------------------------------
(* Steps that take a posted frame.                                           *)

\* What is known of the frame whose handler the strand takes next.
LEMMA HeadFrame ==
  ASSUME IInv, NEW e \in Ends, posted[e] > 0
  PROVE  LET f == Head(link[e])  p == Peer(e) IN
         /\ link[e] # <<>> /\ f = link[e][1] /\ f \in Frame
         /\ f.length \in Nat /\ f.seq \in Nat /\ f.ack \in Nat
         /\ Within(f, arrived[e], credit[e], sent[p], credited[p])
         /\ Follows(f, arrived[e], credit[e])
         /\ f.type = "fin" => fin_at[p] # -1 /\ f.seq = fin_at[p]
         /\ f.type = "closed" => session[e] # "running" /\ Len(link[e]) = 1
<1>1. TypeOK /\ LinkInv(e) /\ ClosingInv(e)
  BY DEF IInv, EndInv
<1>2. link[e] \in Seq(Frame) /\ posted[e] \in Nat /\ posted[e] <= Len(link[e])
  BY <1>1 DEF TypeOK, LinkInv
<1>3. Len(link[e]) \in Nat /\ Len(link[e]) >= 1 /\ 1 \in 1..Len(link[e])
  BY <1>2
<1>4. link[e] # <<>> /\ Head(link[e]) = link[e][1]
  BY <1>2, <1>3
<1>5. link[e][1] \in Frame
  BY <1>2, <1>3
<1>6. Within(link[e][1], arrived[e], credit[e], sent[Peer(e)], credited[Peer(e)])
  BY <1>1, <1>3 DEF LinkInv, Bounded
<1>7. Follows(link[e][1], arrived[e], credit[e])
  <2>1. Kept(e) >= 1
    BY <1>2, <1>3 DEF Kept
  <2> QED  BY <1>1, <2>1 DEF LinkInv, NoGap
<1>8. /\ link[e][1].type = "fin" =>
           fin_at[Peer(e)] # -1 /\ link[e][1].seq = fin_at[Peer(e)]
      /\ link[e][1].type = "closed" => session[e] # "running" /\ Len(link[e]) = 1
  BY <1>1, <1>3 DEF ClosingInv
<1> QED  BY <1>4, <1>5, <1>6, <1>7, <1>8, FrameTyped

\* Taking it keeps both links, if its stamps are taken over where they differ.
LEMMA TakenFrame ==
  ASSUME IInv, NEW e \in Ends, NEW types, TakePosted(e, types),
         UNCHANGED <<sent, credited, fin_at, stream, session>>,
         arrived'[Peer(e)] = arrived[Peer(e)], credit'[Peer(e)] = credit[Peer(e)],
         arrived'[e] \in {arrived[e], Head(link[e]).seq},
         credit'[e] \in {credit[e], Head(link[e]).ack},
         Head(link[e]).type # "closed" =>
           arrived'[e] = Head(link[e]).seq /\ credit'[e] = Head(link[e]).ack
  PROVE  /\ link' \in [Ends -> Seq(Frame)] /\ posted' \in [Ends -> Nat]
         /\ posted'[Peer(e)] = posted[Peer(e)]
         /\ \A x \in Ends : LinkInv(x)' /\ ClosingInv(x)'
<1> DEFINE p == Peer(e)
           q == link[e]
           f == q[1]
<1>1. p \in Ends /\ p # e /\ Peer(p) = e /\ TypeOK /\ EndInv(e) /\ EndInv(p)
      /\ \A x \in Ends : x = e \/ x = p
  BY Peers DEF IInv
<1>2. /\ posted[e] > 0
      /\ link' = [link EXCEPT ![e] = Tail(q)]
      /\ posted' = [posted EXCEPT ![e] = posted[e] - 1]
  BY DEF TakePosted
<1>4. /\ q # <<>> /\ Head(q) = f
      /\ f.type = "closed" => session[e] # "running" /\ Len(q) = 1
  <2>1. Head(q) = f
    BY <1>2, HeadFrame
  <2>2. q # <<>>
    BY <1>2, HeadFrame
  <2>3. Head(q).type = "closed" => session[e] # "running" /\ Len(q) = 1
    BY <1>2, HeadFrame
  <2> QED  BY <2>1, <2>2, <2>3
<1>5. /\ link \in [Ends -> Seq(Frame)] /\ posted \in [Ends -> Nat]
      /\ q \in Seq(Frame) /\ posted[e] \in Nat /\ Len(q) \in Nat
      /\ arrived[e] \in Nat /\ credit[e] \in Nat
      /\ sent[p] \in Nat /\ credited[p] \in Nat
  <2>1. link \in [Ends -> Seq(Frame)] /\ posted \in [Ends -> Nat]
    BY <1>1 DEF TypeOK
  <2>2. q \in Seq(Frame) /\ posted[e] \in Nat
    BY <2>1
  <2>3. Len(q) \in Nat
    BY <2>2, NoFrames
  <2>4. /\ arrived[e] \in Nat /\ credit[e] \in Nat
        /\ sent[p] \in Nat /\ credited[p] \in Nat
    BY <1>1 DEF TypeOK
  <2> QED  BY <2>1, <2>2, <2>3, <2>4
<1>6. /\ posted[e] <= Len(q)
      /\ Bounded(q, arrived[e], credit[e], sent[p], credited[p])
      /\ NoGap(q, Kept(e), arrived[e], credit[e])
      /\ Connected /\ stream[e] # "removed" =>
           Complete(q, arrived[e], credit[e], sent[p], credited[p])
  BY <1>1 DEF EndInv, LinkInv
<1>7. /\ Tail(q) \in Seq(Frame) /\ Len(Tail(q)) = Len(q) - 1
      /\ \A i \in 1..(Len(q) - 1) : Tail(q)[i] = q[i + 1]
      /\ Bounded(Tail(q), arrived'[e], credit'[e], sent[p], credited[p])
  <2>1. arrived'[e] \in {arrived[e], q[1].seq} /\ credit'[e] \in {credit[e], q[1].ack}
    BY <1>4
  <2> HIDE DEF q, f, p
  <2> QED  BY <1>4, <1>5, <1>6, <2>1, BoundedTail
<1>3. Len(q) >= 1 /\ Len(Tail(q)) \in Nat /\ Len(Tail(q)) = Len(q) - 1
      /\ (Tail(q) = <<>> <=> Len(q) = 1)
  <2> DEFINE m == Len(q)
             r == Tail(q)
  <2>1. m \in Nat /\ m # 0 /\ Len(r) \in Nat /\ Len(r) = m - 1
        /\ (r = <<>> <=> Len(r) = 0)
    <3> HIDE DEF q
    <3> QED  BY <1>4, <1>5, <1>7, NoFrames
  <2> HIDE DEF m, r
  <2>2. m >= 1 /\ (r = <<>> <=> m = 1)
    BY <2>1
  <2> QED  BY <2>1, <2>2 DEF m, r
<1>8. link' \in [Ends -> Seq(Frame)] /\ link'[e] = Tail(q) /\ link'[p] = link[p]
  BY <1>1, <1>2, <1>5, <1>7
<1>9. posted[e] - 1 \in Nat
  BY <1>2, <1>5
<1>10. posted' \in [Ends -> Nat]
  BY <1>2, <1>5, <1>9
<1>11. posted'[e] = posted[e] - 1 /\ posted'[p] = posted[p]
  BY <1>1, <1>2, <1>5
<1>12. (Connected' => Connected) /\ (Connected => Connected')
  BY DEF Connected
<1>13. LinkInv(p)' /\ ClosingInv(p)'
  <2>1. LinkInv(p) /\ ClosingInv(p)
    BY <1>1 DEF EndInv
  <2> QED  BY <1>1, <1>8, <1>11, <1>12, <2>1, LinkKept
<1>14. LinkInv(e)'
  <2>1. posted'[e] <= Len(link'[e])
    BY <1>5, <1>6, <1>7, <1>8, <1>11
  <2>2. Kept(e)' = Kept(e) - 1 /\ Kept(e) \in 1..Len(q)
    BY <1>2, <1>5, <1>6, <1>7, <1>8, <1>11 DEF Kept
  <2>3. NoGap(link'[e], Kept(e)', arrived'[e], credit'[e])
    <3>1. CASE f.type # "closed"
      <4>1. arrived'[e] = q[1].seq /\ credit'[e] = q[1].ack
        BY <1>4, <3>1
      <4>2. NoGap(Tail(q), Kept(e) - 1, q[1].seq, q[1].ack)
        <5> DEFINE m == Kept(e)
        <5>1. m \in 1..Len(q) /\ NoGap(q, m, arrived[e], credit[e])
          BY <1>6, <2>2
        <5> HIDE DEF q, m
        <5>2. NoGap(Tail(q), m - 1, q[1].seq, q[1].ack)
          BY <1>5, <5>1, NoGapTail
        <5> QED  BY <5>2 DEF m
      <4> QED  BY <1>8, <2>2, <4>1, <4>2
    <3>2. CASE f.type = "closed"
      <4>1. Kept(e)' = 0
        <5>1. Len(q) = 1
          BY <1>4, <3>2
        <5> HIDE DEF q
        <5> QED  BY <2>2, <5>1
      <4> QED  BY <4>1 DEF NoGap
    <3> QED  BY <3>1, <3>2
  <2>4. ASSUME Connected, stream[e] # "removed"
        PROVE  Complete(link'[e], arrived'[e], credit'[e], sent[p], credited[p])
    <3>1. f.type # "closed"
      BY <1>4, <2>4 DEF Connected
    <3>2. arrived'[e] = f.seq /\ credit'[e] = f.ack
      BY <1>4, <3>1
    <3>3. q[Len(q)].seq = sent[p] /\ q[Len(q)].ack = credited[p]
      BY <1>4, <1>6, <2>4 DEF Complete
    <3>4. CASE Len(q) = 1
      <4>1. Tail(q) = <<>>
        BY <1>3, <3>4
      <4> QED  BY <1>8, <3>2, <3>3, <3>4, <4>1 DEF Complete
    <3>5. CASE Len(q) # 1
      <4>1. Len(q) - 1 \in 1..(Len(q) - 1) /\ (Len(q) - 1) + 1 = Len(q)
        <5> HIDE DEF q
        <5> QED  BY <1>3, <1>5, <3>5
      <4>2. Tail(q)[Len(Tail(q))] = q[Len(q)]
        BY <1>7, <4>1
      <4>3. Tail(q) # <<>>
        BY <1>3, <3>5
      <4> QED  BY <1>8, <3>3, <4>2, <4>3 DEF Complete
    <3> QED  BY <3>4, <3>5
  <2> QED  BY <1>7, <1>8, <1>12, <2>1, <2>3, <2>4 DEF LinkInv
<1>15. ClosingInv(e)'
  <2> SUFFICES ASSUME NEW i \in 1..Len(link'[e])
               PROVE  /\ link'[e][i].type = "fin" =>
                           fin_at[p] # -1 /\ link'[e][i].seq = fin_at[p]
                      /\ link'[e][i].type = "closed" =>
                           session[e] # "running" /\ i = Len(link'[e])
    BY DEF ClosingInv
  <2>1. i + 1 \in 1..Len(q) /\ link'[e][i] = q[i + 1]
    BY <1>5, <1>7, <1>8
  <2>2. /\ q[i + 1].type = "fin" => fin_at[p] # -1 /\ q[i + 1].seq = fin_at[p]
        /\ q[i + 1].type = "closed" => session[e] # "running" /\ i + 1 = Len(q)
    BY <1>1, <2>1 DEF EndInv, ClosingInv
  <2>3. i + 1 = Len(q) => i = Len(link'[e])
    <3>1. i \in Nat /\ link'[e] = Tail(q) /\ Len(Tail(q)) = Len(q) - 1
      BY <1>3, <1>8
    <3> HIDE DEF q
    <3> QED  BY <1>5, <3>1
  <2> QED  BY <2>1, <2>2, <2>3
<1> QED  BY <1>1, <1>8, <1>10, <1>11, <1>13, <1>14, <1>15

\* No queued block reaches beyond what has arrived.
LEMMA AdjacentEnds ==
  ASSUME NEW q \in Seq(Block), NEW arr \in Nat, Adjacent(q, arr)
  PROVE  \A i \in 1..Len(q) : /\ q[i].from \in Nat /\ q[i].to \in Nat
                              /\ q[i].to <= arr
<1> TAKE i \in 1..Len(q)
<1>1. Len(q) \in Nat /\ Len(q) \in 1..Len(q) /\ q # <<>>
  OBVIOUS
<1>2. q[i] \in Block /\ q[Len(q)] \in Block
  BY <1>1
<1>3. /\ q[i].from \in Nat /\ q[i].to \in Nat
      /\ q[Len(q)].from \in Nat /\ q[Len(q)].to \in Nat
  BY <1>2 DEF Block
<1>4. q[Len(q)].to = arr
  BY <1>1 DEF Adjacent
<1>5. CASE i = Len(q)
  BY <1>3, <1>4, <1>5
<1>6. CASE i < Len(q)
  <2>1. q[i].to <= q[Len(q)].from /\ q[Len(q)].from < q[Len(q)].to
    BY <1>1, <1>6 DEF Adjacent
  <2> QED  BY <1>3, <1>4, <2>1
<1> QED  BY <1>1, <1>3, <1>5, <1>6

\* A block that starts where arrival stopped keeps the queue adjacent.
LEMMA AdjacentAppend ==
  ASSUME NEW q \in Seq(Block), NEW arr \in Nat, Adjacent(q, arr),
         NEW b \in Block, b.from = arr, b.from < b.to
  PROVE  /\ Append(q, b) \in Seq(Block) /\ Append(q, b) # <<>>
         /\ Adjacent(Append(q, b), b.to)
         /\ Append(q, b)[1] = IF q = <<>> THEN b ELSE q[1]
<1> DEFINE r == Append(q, b)
<1>1. /\ r \in Seq(Block) /\ r # <<>>
      /\ Len(q) \in Nat /\ Len(r) = Len(q) + 1
      /\ r[Len(q) + 1] = b
      /\ \A i \in 1..Len(q) : r[i] = q[i]
  OBVIOUS
<1>2. q = <<>> <=> Len(q) = 0
  OBVIOUS
<1>3. \A i \in 1..Len(q) : q[i].to <= b.from
  BY AdjacentEnds
<1> HIDE DEF r
<1>4. r[1] = IF q = <<>> THEN b ELSE q[1]
  BY <1>1, <1>2
<1>5. \A i \in 1..Len(r) : r[i].from < r[i].to
  BY <1>1 DEF Adjacent
<1>6. \A i \in 1..(Len(r) - 1) : r[i].to = r[i + 1].from
  <2> TAKE i \in 1..(Len(r) - 1)
  <2>1. CASE i = Len(q)
    <3>1. q # <<>> /\ r[i] = q[i] /\ r[i + 1] = b
      BY <1>1, <1>2, <2>1
    <3> QED  BY <2>1, <3>1 DEF Adjacent
  <2>2. CASE i # Len(q)
    <3>1. i \in 1..(Len(q) - 1) /\ r[i] = q[i] /\ r[i + 1] = q[i + 1]
      BY <1>1, <2>2
    <3> QED  BY <3>1 DEF Adjacent
  <2> QED  BY <2>1, <2>2
<1>7. \A i, j \in 1..Len(r) : i < j => r[i].to <= r[j].from
  <2> SUFFICES ASSUME NEW i \in 1..Len(r), NEW j \in 1..Len(r), i < j
               PROVE  r[i].to <= r[j].from
    OBVIOUS
  <2>1. i \in 1..Len(q) /\ r[i] = q[i]
    BY <1>1
  <2>2. CASE j = Len(q) + 1
    BY <1>1, <1>3, <2>1, <2>2
  <2>3. CASE j # Len(q) + 1
    <3>1. j \in 1..Len(q) /\ r[j] = q[j]
      BY <1>1, <2>3
    <3> QED  BY <2>1, <3>1 DEF Adjacent
  <2> QED  BY <2>2, <2>3
<1>8. r[Len(r)].to = b.to
  BY <1>1
<1>9. Adjacent(r, b.to)
  BY <1>5, <1>6, <1>7, <1>8 DEF Adjacent
<1> QED  BY <1>1, <1>4, <1>9 DEF r

\* An open stream has delivered no more than has arrived, and arrived is no
\* more than was sent.
LEMMA DeliveredArrived ==
  ASSUME IInv, NEW e \in Ends
  PROVE  /\ arrived[e] <= sent[Peer(e)] /\ credit[e] <= credited[Peer(e)]
         /\ ~local_closed[e] => delivered[e] <= arrived[e]
<1>1. TypeOK /\ EndInv(e)
  BY DEF IInv
<1>2. arrived[e] <= sent[Peer(e)] /\ credit[e] <= credited[Peer(e)]
  BY <1>1 DEF EndInv, LinkInv, Bounded
<1>3. read_queue[e] \in Seq(Block) /\ arrived[e] \in Nat /\ delivered[e] \in Nat
  BY <1>1 DEF TypeOK
<1>4. ASSUME ~local_closed[e] PROVE delivered[e] <= arrived[e]
  <2>1. CASE read_queue[e] = <<>>
    BY <1>1, <1>3, <1>4, <2>1 DEF EndInv, QueueInv
  <2>2. CASE read_queue[e] # <<>>
    <3>1. delivered[e] < read_queue[e][1].to
      BY <1>1, <1>4, <2>2 DEF EndInv, QueueInv
    <3>2. 1 \in 1..Len(read_queue[e]) /\ Adjacent(read_queue[e], arrived[e])
      BY <1>1, <1>3, <2>2 DEF EndInv, QueueInv
    <3>3. read_queue[e][1].to \in Nat /\ read_queue[e][1].to <= arrived[e]
      BY <1>3, <3>2, AdjacentEnds
    <3> QED  BY <1>3, <3>1, <3>3
  <2> QED  BY <2>1, <2>2
<1> QED  BY <1>2, <1>4

\* MuxStream::handle_data.
LEMMA HandleData ==
  ASSUME IInv, NEW e \in Ends, handle_data(e)
  PROVE  IInv'
<1> USE DEF flow, input, taken, ends, place, calls
<1> DEFINE p == Peer(e)
           f == Head(link[e])
           b == [from |-> f.seq - f.length, to |-> f.seq]
<1>1. p \in Ends /\ p # e /\ Peer(p) = e /\ TypeOK /\ EndInv(e) /\ EndInv(p)
  BY Peers DEF IInv
<1>2. /\ TakePosted(e, {"data"}) /\ strand[e] = "idle" /\ posted[e] > 0
      /\ f.type = "data"
      /\ read_queue' = [read_queue EXCEPT ![e] = Append(read_queue[e], b)]
      /\ arrived' = [arrived EXCEPT ![e] = f.seq]
      /\ strand' = [strand EXCEPT ![e] = "do_read"]
      /\ UNCHANGED <<flow, read_queue_offset, taken, ends, place, calls,
                     pending_reads, pending_writes, partial>>
  BY DEF handle_data, TakePosted
<1>3. /\ f.length \in Nat /\ f.seq \in Nat /\ f.ack \in Nat
      /\ Within(f, arrived[e], credit[e], sent[p], credited[p])
      /\ Follows(f, arrived[e], credit[e])
  BY <1>2, HeadFrame
<1>4. /\ read_queue \in [Ends -> Seq(Block)] /\ read_queue[e] \in Seq(Block)
      /\ arrived \in [Ends -> Nat] /\ arrived[e] \in Nat /\ credit[e] \in Nat
      /\ strand \in [Ends -> {"idle", "do_write", "do_read"}]
  BY <1>1 DEF TypeOK
<1>5. /\ f.seq = arrived[e] + f.length /\ f.ack = credit[e] /\ f.length >= 1
  <2>1. f.seq = arrived[e] + DataLength(f) /\ f.ack = credit[e] + CreditLength(f)
    BY <1>2, <1>3 DEF Follows
  <2>2. DataLength(f) = f.length /\ CreditLength(f) = 0
    BY <1>2 DEF DataLength, CreditLength
  <2>3. f.length \in 1..MaxMessageSize
    BY <1>2, <1>3 DEF Within
  <2> HIDE DEF f
  <2> QED  BY <1>3, <1>4, <2>1, <2>2, <2>3, FlowAssumption
<1>6. /\ b \in Block /\ b.from = arrived[e] /\ b.from < b.to /\ b.to = f.seq
  <2> HIDE DEF f
  <2>1. b.from = arrived[e] /\ b.to = f.seq
    BY <1>3, <1>4, <1>5
  <2>2. b \in Block
    BY <1>3, <1>4, <1>5 DEF Block
  <2>3. b.from < b.to
    BY <1>3, <1>4, <1>5
  <2> QED  BY <2>1, <2>2, <2>3
<1> HIDE DEF f, b
<1>7. /\ Append(read_queue[e], b) \in Seq(Block) /\ Append(read_queue[e], b) # <<>>
      /\ Adjacent(Append(read_queue[e], b), b.to)
      /\ Append(read_queue[e], b)[1] = IF read_queue[e] = <<>> THEN b ELSE read_queue[e][1]
  <2>1. Adjacent(read_queue[e], arrived[e])
    BY <1>1 DEF EndInv, QueueInv
  <2> QED  BY <1>4, <1>6, <2>1, AdjacentAppend
<1>8. read_queue' \in [Ends -> Seq(Block)]
      /\ read_queue'[e] = Append(read_queue[e], b) /\ read_queue'[p] = read_queue[p]
  BY <1>1, <1>2, <1>4, <1>7
<1>9. arrived' \in [Ends -> Nat] /\ arrived'[e] = f.seq /\ arrived'[p] = arrived[p]
  BY <1>1, <1>2, <1>3, <1>4
<1>10. strand' \in [Ends -> {"idle", "do_write", "do_read"}]
       /\ strand'[e] = "do_read" /\ strand'[p] = strand[p]
  BY <1>1, <1>2, <1>4
<1>11. /\ link' \in [Ends -> Seq(Frame)] /\ posted' \in [Ends -> Nat]
       /\ posted'[p] = posted[p]
       /\ \A x \in Ends : LinkInv(x)' /\ ClosingInv(x)'
  <2>1. UNCHANGED <<sent, credited, fin_at, stream, session, credit>>
    BY <1>2
  <2> QED  BY <1>2, <1>5, <1>9, <2>1, TakenFrame DEF f
<1>12. TypeOK'
  BY <1>1, <1>2, <1>8, <1>9, <1>10, <1>11 DEF TypeOK
<1>13. Untouched(p)
  BY <1>1, <1>2, <1>8, <1>9, <1>10, <1>11 DEF TypeOK, Untouched
<1>14. EndInv(p)'
  BY <1>1, <1>2, <1>11, <1>13, OtherEnd
<1>15. EndInv(e)'
  <2>1. WindowInv(e)' /\ CreditInv(e)'
    BY <1>1, <1>2 DEF EndInv, WindowInv, CreditInv
  <2>2. QueueInv(e)'
    <3>1. Adjacent(read_queue'[e], arrived'[e])
      BY <1>6, <1>7, <1>8, <1>9
    <3>2. ASSUME ~local_closed[e]
          PROVE  /\ read_queue'[e][1].from + read_queue_offset[e] = delivered[e]
                 /\ delivered[e] < read_queue'[e][1].to
      <4>1. CASE read_queue[e] = <<>>
        <5>1. delivered[e] = arrived[e] /\ read_queue_offset[e] = 0
          BY <1>1, <3>2, <4>1 DEF EndInv, QueueInv
        <5> QED  BY <1>4, <1>6, <1>7, <1>8, <4>1, <5>1
      <4>2. CASE read_queue[e] # <<>>
        BY <1>1, <1>7, <1>8, <3>2, <4>2 DEF EndInv, QueueInv
      <4> QED  BY <4>1, <4>2
    <3> QED  BY <1>2, <1>7, <1>8, <3>1, <3>2 DEF QueueInv
  <2>3. EofInv(e)'
    <3>1. arrived[e] <= arrived'[e] /\ arrived'[e] \in Nat
      BY <1>3, <1>4, <1>5, <1>9
    <3>2. fin_at[p] \in Nat \union {-1}
      BY <1>1 DEF TypeOK
    <3> QED  BY <1>1, <1>2, <1>4, <3>1, <3>2 DEF EndInv, EofInv
  <2>4. SettledInv(e)'
    BY <1>1, <1>2, <1>10 DEF EndInv, SettledInv
  <2>5. LifeInv(e)'
    <3>1. stream[e] # "absent"
      BY <1>1, <1>2 DEF EndInv, LifeInv
    <3> QED  BY <1>1, <1>2, <3>1 DEF EndInv, LifeInv
  <2> QED  BY <1>11, <2>1, <2>2, <2>3, <2>4, <2>5 DEF EndInv
<1> QED  BY <1>12, <1>14, <1>15, BothEnds

\* MuxStream::handle_window_update: the cap at MAX_MESSAGE_SIZE takes no
\* credit away as long as both ends are open, for then no more credit is out
\* than the initial window.
LEMMA HandleWindowUpdate ==
  ASSUME IInv, NEW e \in Ends, handle_window_update(e)
  PROVE  IInv'
<1> USE DEF flow, input, taken, ends, place, calls
<1> DEFINE p == Peer(e)
           f == Head(link[e])
           w == NewWindow(remote_window_size[e], f.length)
<1>1. p \in Ends /\ p # e /\ Peer(p) = e /\ TypeOK /\ EndInv(e) /\ EndInv(p)
  BY Peers DEF IInv
<1>2. /\ TakePosted(e, {"window_update"}) /\ strand[e] = "idle" /\ posted[e] > 0
      /\ f.type = "window_update"
      /\ remote_window_size' = [remote_window_size EXCEPT ![e] = w]
      /\ credit' = [credit EXCEPT ![e] = f.ack]
      /\ strand' = [strand EXCEPT ![e] = "do_write"]
      /\ UNCHANGED <<sent, input, taken, ends, place, calls, pending_reads,
                     pending_writes, partial>>
  BY DEF handle_window_update, TakePosted
<1>3. /\ f.length \in Nat /\ f.seq \in Nat /\ f.ack \in Nat
      /\ Within(f, arrived[e], credit[e], sent[p], credited[p])
      /\ Follows(f, arrived[e], credit[e])
  BY <1>2, HeadFrame
<1>4. /\ remote_window_size \in [Ends -> Nat] /\ remote_window_size[e] \in Nat
      /\ credit \in [Ends -> Nat] /\ credit[e] \in Nat /\ arrived[e] \in Nat
      /\ strand \in [Ends -> {"idle", "do_write", "do_read"}]
      /\ sent[e] \in Nat /\ credited[p] \in Nat /\ delivered[p] \in Nat
      /\ arrived[p] \in Nat /\ consumed_since_last_update[p] \in Nat
  BY <1>1 DEF TypeOK
<1>5. /\ f.ack = credit[e] + f.length /\ f.seq = arrived[e] /\ f.ack <= credited[p]
  <2>1. f.seq = arrived[e] + DataLength(f) /\ f.ack = credit[e] + CreditLength(f)
    BY <1>2, <1>3 DEF Follows
  <2>2. DataLength(f) = 0 /\ CreditLength(f) = f.length
    BY <1>2 DEF DataLength, CreditLength
  <2>3. f.ack <= credited[p]
    BY <1>3 DEF Within
  <2> HIDE DEF f
  <2> QED  BY <1>3, <1>4, <2>1, <2>2, <2>3
<1>6. /\ w \in Nat /\ w <= remote_window_size[e] + f.length
      /\ remote_window_size[e] + f.length <= MaxMessageSize =>
           w = remote_window_size[e] + f.length
  <2> HIDE DEF f
  <2> QED  BY <1>3, <1>4, FlowAssumption DEF NewWindow, SmallerOf
<1> HIDE DEF f, w
<1>7. remote_window_size' \in [Ends -> Nat] /\ remote_window_size'[e] = w
      /\ remote_window_size'[p] = remote_window_size[p]
  BY <1>1, <1>2, <1>4, <1>6
<1>8. credit' \in [Ends -> Nat] /\ credit'[e] = f.ack /\ credit'[p] = credit[p]
  BY <1>1, <1>2, <1>3, <1>4
<1>9. strand' \in [Ends -> {"idle", "do_write", "do_read"}]
      /\ strand'[e] = "do_write" /\ strand'[p] = strand[p]
  BY <1>1, <1>2, <1>4
<1>10. /\ link' \in [Ends -> Seq(Frame)] /\ posted' \in [Ends -> Nat]
       /\ posted'[p] = posted[p]
       /\ \A x \in Ends : LinkInv(x)' /\ ClosingInv(x)'
  <2>1. UNCHANGED <<sent, credited, fin_at, stream, session, arrived>>
    BY <1>2
  <2> QED  BY <1>2, <1>5, <1>8, <2>1, TakenFrame DEF f
<1>11. TypeOK'
  BY <1>1, <1>2, <1>7, <1>8, <1>9, <1>10 DEF TypeOK
<1>12. Untouched(p)
  BY <1>1, <1>2, <1>7, <1>8, <1>9, <1>10 DEF TypeOK, Untouched
<1>13. EndInv(p)'
  BY <1>1, <1>2, <1>10, <1>12, OtherEnd
<1>14. EndInv(e)'
  <2>1. QueueInv(e)' /\ CreditInv(e)' /\ EofInv(e)'
    BY <1>1, <1>2 DEF EndInv, QueueInv, CreditInv, EofInv
  <2>2. WindowInv(e)'
    <3>1. remote_window_size[e] + sent[e] <= InitialWindow + credit[e]
      BY <1>1 DEF EndInv, WindowInv
    <3>2. remote_window_size'[e] + sent[e] <= InitialWindow + credit'[e]
      BY <1>3, <1>4, <1>5, <1>6, <1>7, <1>8, <3>1, FlowAssumption
    <3>3. ASSUME ~local_closed[e], ~local_closed[p]
          PROVE  remote_window_size'[e] + sent[e] = InitialWindow + credit'[e]
      <4>1. remote_window_size[e] + sent[e] = InitialWindow + credit[e]
        BY <1>1, <3>3 DEF EndInv, WindowInv
      <4>2. delivered[p] <= arrived[p] /\ arrived[p] <= sent[e]
        BY <1>1, <3>3, DeliveredArrived
      <4>3. credited[p] + consumed_since_last_update[p] = delivered[p]
        BY <1>1 DEF EndInv, CreditInv
      <4>4. f.ack <= sent[e]
        BY <1>3, <1>4, <1>5, <4>2, <4>3
      <4>5. remote_window_size[e] + f.length <= InitialWindow
        BY <1>3, <1>4, <1>5, <4>1, <4>4, FlowAssumption
      <4>6. w = remote_window_size[e] + f.length
        BY <1>3, <1>4, <1>6, <4>5, FlowAssumption
      <4> QED  BY <1>3, <1>4, <1>5, <1>7, <1>8, <4>1, <4>6, FlowAssumption
    <3> QED  BY <1>1, <1>2, <3>2, <3>3 DEF WindowInv
  <2>3. SettledInv(e)'
    BY <1>1, <1>2, <1>9 DEF EndInv, SettledInv, Waits, Queued
  <2>4. LifeInv(e)'
    <3>1. stream[e] # "absent"
      BY <1>1, <1>2 DEF EndInv, LifeInv
    <3> QED  BY <1>1, <1>2, <3>1 DEF EndInv, LifeInv
  <2> QED  BY <1>10, <2>1, <2>2, <2>3, <2>4 DEF EndInv
<1> QED  BY <1>11, <1>13, <1>14, BothEnds

\* MuxStream::handle_close: while the session runs it is the FIN that is
\* taken, and every byte sent before it has arrived.
LEMMA HandleClose ==
  ASSUME IInv, NEW e \in Ends, handle_close(e)
  PROVE  IInv'
<1> USE DEF flow, input, taken, ends, place, calls
<1> DEFINE p == Peer(e)
           f == Head(link[e])
<1>1. p \in Ends /\ p # e /\ Peer(p) = e /\ TypeOK /\ EndInv(e) /\ EndInv(p)
  BY Peers DEF IInv
<1>2. /\ TakePosted(e, {"fin", "closed"}) /\ strand[e] = "idle" /\ posted[e] > 0
      /\ f.type \in {"fin", "closed"}
      /\ remote_closed' = [remote_closed EXCEPT ![e] = TRUE]
      /\ strand' = [strand EXCEPT ![e] = "do_read"]
      /\ UNCHANGED <<flow, input, taken, local_closed, fin_at, place, calls,
                     pending_reads, pending_writes, partial>>
  BY DEF handle_close, TakePosted
<1>3. /\ f.seq \in Nat /\ f.ack \in Nat
      /\ Follows(f, arrived[e], credit[e])
      /\ f.type = "fin" => fin_at[p] # -1 /\ f.seq = fin_at[p]
      /\ f.type = "closed" => session[e] # "running"
  BY <1>2, HeadFrame
<1>4. /\ remote_closed \in [Ends -> BOOLEAN] /\ arrived[e] \in Nat /\ credit[e] \in Nat
      /\ strand \in [Ends -> {"idle", "do_write", "do_read"}]
  BY <1>1 DEF TypeOK
<1>5. f.type # "closed" => f.seq = arrived[e] /\ f.ack = credit[e]
  <2> SUFFICES ASSUME f.type # "closed"
               PROVE  f.seq = arrived[e] /\ f.ack = credit[e]
    OBVIOUS
  <2>1. f.seq = arrived[e] + DataLength(f) /\ f.ack = credit[e] + CreditLength(f)
    BY <1>3 DEF Follows
  <2>2. DataLength(f) = 0 /\ CreditLength(f) = 0
    BY <1>2 DEF DataLength, CreditLength
  <2> HIDE DEF f
  <2> QED  BY <1>4, <2>1, <2>2
<1> HIDE DEF f
<1>6. remote_closed' \in [Ends -> BOOLEAN] /\ remote_closed'[p] = remote_closed[p]
  BY <1>1, <1>2, <1>4
<1>7. strand' \in [Ends -> {"idle", "do_write", "do_read"}]
      /\ strand'[e] = "do_read" /\ strand'[p] = strand[p]
  BY <1>1, <1>2, <1>4
<1>8. /\ link' \in [Ends -> Seq(Frame)] /\ posted' \in [Ends -> Nat]
      /\ posted'[p] = posted[p]
      /\ \A x \in Ends : LinkInv(x)' /\ ClosingInv(x)'
  <2>1. UNCHANGED <<sent, credited, fin_at, stream, session, arrived, credit>>
    BY <1>2
  <2> QED  BY <1>2, <1>5, <2>1, TakenFrame DEF f
<1>9. TypeOK'
  BY <1>1, <1>2, <1>6, <1>7, <1>8 DEF TypeOK
<1>10. Untouched(p)
  BY <1>1, <1>2, <1>6, <1>7, <1>8 DEF TypeOK, Untouched
<1>11. EndInv(p)'
  BY <1>1, <1>2, <1>8, <1>10, OtherEnd
<1>12. EndInv(e)'
  <2>1. QueueInv(e)' /\ WindowInv(e)' /\ CreditInv(e)'
    BY <1>1, <1>2 DEF EndInv, QueueInv, WindowInv, CreditInv
  <2>2. EofInv(e)'
    <3>1. session[e] = "running" => fin_at[p] # -1 /\ arrived[e] = fin_at[p]
      BY <1>2, <1>3, <1>5
    <3> QED  BY <1>1, <1>2, <1>4, <3>1 DEF EndInv, EofInv
  <2>3. SettledInv(e)'
    BY <1>1, <1>2, <1>7 DEF EndInv, SettledInv
  <2>4. LifeInv(e)'
    <3>1. stream[e] # "absent"
      BY <1>1, <1>2 DEF EndInv, LifeInv
    <3> QED  BY <1>1, <1>2, <3>1 DEF EndInv, LifeInv
  <2> QED  BY <1>8, <2>1, <2>2, <2>3, <2>4 DEF EndInv
<1> QED  BY <1>9, <1>11, <1>12, BothEnds

-----------------------------------------------------------------------------
(* Session::handle_frame and Session::stop.                                  *)

\* What the three cases of handle_frame at end e have in common: the link to
\* its peer and all but stream and posted of e are left alone.
LEMMA FrameHandled ==
  ASSUME IInv, NEW e \in Ends,
         UNCHANGED <<flow, input, taken, ends, session, calls, pending_reads,
                     pending_writes, strand, partial>>,
         link' \in [Ends -> Seq(Frame)], link'[Peer(e)] = link[Peer(e)],
         posted' \in [Ends -> Nat], posted'[Peer(e)] = posted[Peer(e)],
         stream' \in [Ends -> {"absent", "registered", "removed"}],
         stream'[Peer(e)] = stream[Peer(e)],
         LinkInv(e)', ClosingInv(e)', LifeInv(e)'
  PROVE  IInv'
<1> USE DEF flow, input, taken, ends, place, calls
<1> DEFINE p == Peer(e)
<1>1. p \in Ends /\ p # e /\ Peer(p) = e /\ TypeOK /\ EndInv(e) /\ EndInv(p)
  BY Peers DEF IInv
<1>2. TypeOK'
  BY <1>1 DEF TypeOK
<1>3. Untouched(p)
  BY <1>1 DEF Untouched
<1>4. LinkInv(p)' /\ ClosingInv(p)'
  <2>1. LinkInv(p) /\ ClosingInv(p)
    BY <1>1 DEF EndInv
  <2>2. Connected' => Connected
    BY DEF Connected
  <2> QED  BY <1>1, <2>1, <2>2, LinkKept
<1>5. EndInv(p)'
  BY <1>1, <1>3, <1>4, OtherEnd
<1>6. EndInv(e)'
  <2>1. QueueInv(e)' /\ WindowInv(e)' /\ CreditInv(e)' /\ EofInv(e)'
    BY <1>1 DEF EndInv, QueueInv, WindowInv, CreditInv, EofInv
  <2>2. SettledInv(e)'
    BY <1>1 DEF EndInv, SettledInv, Waits, Queued
  <2> QED  BY <2>1, <2>2 DEF EndInv
<1> QED  BY <1>2, <1>5, <1>6, BothEnds

\* The SYN is consumed by the session that creates the stream.
LEMMA HandleSyn ==
  ASSUME IInv, NEW e \in Ends, handle_frame(e), stream[e] = "absent"
  PROVE  IInv'
<1> USE DEF flow, input, taken, ends, place, calls
<1> DEFINE p == Peer(e)
           q == link[e]
<1>1. p \in Ends /\ p # e /\ Peer(p) = e /\ TypeOK /\ EndInv(e) /\ EndInv(p)
  BY Peers DEF IInv
<1>2. /\ posted[e] < Len(q)
      /\ q[posted[e] + 1].type = "syn"
      /\ stream' = [stream EXCEPT ![e] = "registered"]
      /\ link' = [link EXCEPT ![e] = Tail(q)]
      /\ UNCHANGED posted
      /\ UNCHANGED <<flow, input, taken, ends, session, calls, pending_reads,
                     pending_writes, strand, partial>>
  BY DEF handle_frame, NextFrame
<1>3. posted[e] = 0
  BY <1>1 DEF EndInv, LifeInv
<1>4. /\ link \in [Ends -> Seq(Frame)] /\ posted \in [Ends -> Nat]
      /\ stream \in [Ends -> {"absent", "registered", "removed"}]
      /\ arrived[e] \in Nat /\ credit[e] \in Nat
      /\ sent[p] \in Nat /\ credited[p] \in Nat
  BY <1>1 DEF TypeOK
<1>5. q \in Seq(Frame)
  BY <1>4
<1>6. Len(q) \in Nat /\ Len(q) >= 1 /\ q # <<>> /\ q[1].type = "syn"
  <2>1. Len(q) \in Nat /\ (q = <<>> <=> Len(q) = 0)
    BY <1>5, NoFrames
  <2> HIDE DEF q
  <2> QED  BY <1>2, <1>3, <2>1
<1>7. /\ Bounded(q, arrived[e], credit[e], sent[p], credited[p])
      /\ NoGap(q, Len(q), arrived[e], credit[e])
      /\ Connected => Complete(q, arrived[e], credit[e], sent[p], credited[p])
  BY <1>1 DEF EndInv, LinkInv, Kept
<1>8. q[1].seq = arrived[e] /\ q[1].ack = credit[e]
  <2>1. Follows(q[1], arrived[e], credit[e])
    BY <1>6, <1>7 DEF NoGap
  <2>2. DataLength(q[1]) = 0 /\ CreditLength(q[1]) = 0
    BY <1>6 DEF DataLength, CreditLength
  <2> HIDE DEF q
  <2> QED  BY <1>4, <1>6, <2>1, <2>2 DEF Follows
<1>9. /\ Tail(q) \in Seq(Frame) /\ Len(Tail(q)) = Len(q) - 1
      /\ \A i \in 1..(Len(q) - 1) : Tail(q)[i] = q[i + 1]
      /\ Bounded(Tail(q), arrived[e], credit[e], sent[p], credited[p])
  <2> HIDE DEF q, p
  <2> QED  BY <1>4, <1>5, <1>6, <1>7, BoundedTail
<1>10. NoGap(Tail(q), Len(Tail(q)), arrived[e], credit[e])
  <2>1. Len(q) \in 1..Len(q)
    BY <1>6
  <2>2. NoGap(Tail(q), Len(q) - 1, q[1].seq, q[1].ack)
    <3> HIDE DEF q
    <3> QED  BY <1>5, <1>7, <2>1, NoGapTail
  <2> QED  BY <1>8, <1>9, <2>2
<1>11. Connected => Complete(Tail(q), arrived[e], credit[e], sent[p], credited[p])
  <2> SUFFICES ASSUME Connected
               PROVE  Complete(Tail(q), arrived[e], credit[e], sent[p], credited[p])
    OBVIOUS
  <2>1. q[Len(q)].seq = sent[p] /\ q[Len(q)].ack = credited[p]
    BY <1>6, <1>7 DEF Complete
  <2> DEFINE r == Tail(q)
  <2>2. r \in Seq(Frame) /\ Len(r) = Len(q) - 1 /\ (r = <<>> <=> Len(r) = 0)
    BY <1>9, NoFrames
  <2> HIDE DEF r, q
  <2>3. CASE Len(q) = 1
    <3>0. Len(r) = 0
      BY <2>2, <2>3
    <3>1. r = <<>>
      BY <2>2, <3>0, Zenon
    <3>2. arrived[e] = sent[p] /\ credit[e] = credited[p]
      BY <1>8, <2>1, <2>3
    <3>3. Complete(r, arrived[e], credit[e], sent[p], credited[p])
      BY <3>1, <3>2, Zenon DEF Complete
    <3> QED  BY <3>3 DEF r
  <2>4. CASE Len(q) # 1
    <3>1. Len(q) - 1 \in 1..(Len(q) - 1) /\ (Len(q) - 1) + 1 = Len(q)
      <4> DEFINE m == Len(q)
      <4>1. m \in Nat /\ m >= 1 /\ m # 1
        BY <1>6, <2>4
      <4> HIDE DEF m
      <4>2. m - 1 \in 1..(m - 1) /\ (m - 1) + 1 = m
        BY <4>1
      <4> QED  BY <4>2 DEF m
    <3>2. r[Len(r)] = q[Len(q)] /\ r # <<>>
      BY <1>9, <2>2, <3>1 DEF r
    <3>3. Complete(r, arrived[e], credit[e], sent[p], credited[p])
      BY <2>1, <3>2 DEF Complete
    <3> QED  BY <3>3 DEF r
  <2> QED  BY <2>3, <2>4
<1>12. link' \in [Ends -> Seq(Frame)] /\ link'[e] = Tail(q) /\ link'[p] = link[p]
  BY <1>1, <1>2, <1>4, <1>9
<1>13. stream' \in [Ends -> {"absent", "registered", "removed"}]
       /\ stream'[e] = "registered" /\ stream'[p] = stream[p]
  BY <1>1, <1>2, <1>4
<1>14. LinkInv(e)'
  <2>1. posted'[e] <= Len(link'[e])
    <3> HIDE DEF q
    <3> QED  BY <1>2, <1>3, <1>6, <1>9, <1>12
  <2>2. Kept(e)' = Len(Tail(q))
    BY <1>12, <1>13 DEF Kept
  <2>3. Connected' => Connected
    BY <1>2 DEF Connected
  <2> QED  BY <1>2, <1>9, <1>10, <1>11, <1>12, <2>1, <2>2, <2>3 DEF LinkInv
<1>15. ClosingInv(e)'
  <2> SUFFICES ASSUME NEW i \in 1..Len(link'[e])
               PROVE  /\ link'[e][i].type = "fin" =>
                           fin_at[p] # -1 /\ link'[e][i].seq = fin_at[p]
                      /\ link'[e][i].type # "closed"
    BY <1>2 DEF ClosingInv
  <2>1. i + 1 \in 1..Len(q) /\ link'[e][i] = q[i + 1]
    BY <1>6, <1>9, <1>12
  <2>2. session[e] = "running"
    BY DEF handle_frame
  <2> QED  BY <1>1, <2>1, <2>2 DEF EndInv, ClosingInv
<1>16. LifeInv(e)'
  BY <1>13 DEF LifeInv
<1> QED  BY <1>2, <1>4, <1>12, <1>13, <1>14, <1>15, <1>16, FrameHandled

\* A frame for a registered stream is posted to its strand.
LEMMA HandlePosted ==
  ASSUME IInv, NEW e \in Ends, handle_frame(e), stream[e] = "registered"
  PROVE  IInv'
<1> USE DEF flow, input, taken, ends, place, calls
<1> DEFINE p == Peer(e)
<1>1. p \in Ends /\ p # e /\ Peer(p) = e /\ TypeOK /\ EndInv(e) /\ EndInv(p)
  BY Peers DEF IInv
<1>2. /\ posted[e] < Len(link[e])
      /\ posted' = [posted EXCEPT ![e] = posted[e] + 1]
      /\ UNCHANGED <<stream, link>>
      /\ UNCHANGED <<flow, input, taken, ends, session, calls, pending_reads,
                     pending_writes, strand, partial>>
  BY DEF handle_frame
<1>3. /\ link \in [Ends -> Seq(Frame)] /\ posted \in [Ends -> Nat]
      /\ posted[e] \in Nat /\ link[e] \in Seq(Frame)
      /\ stream \in [Ends -> {"absent", "registered", "removed"}]
  BY <1>1 DEF TypeOK
<1>4. posted[e] + 1 \in Nat /\ posted[e] + 1 <= Len(link[e])
  <2>1. Len(link[e]) \in Nat
    BY <1>3, NoFrames
  <2> QED  BY <1>2, <1>3, <2>1
<1>5. posted' \in [Ends -> Nat]
  BY <1>2, <1>3, <1>4
<1>6. posted'[e] = posted[e] + 1 /\ posted'[p] = posted[p]
  BY <1>1, <1>2, <1>3
<1>7. LinkInv(e)'
  <2>1. Kept(e) = Len(link[e]) /\ Kept(e)' = Len(link[e])
    BY <1>2 DEF Kept
  <2>2. Connected' <=> Connected
    BY <1>2 DEF Connected
  <2> QED  BY <1>1, <1>2, <1>4, <1>6, <2>1, <2>2 DEF EndInv, LinkInv
<1>8. ClosingInv(e)'
  BY <1>1, <1>2 DEF EndInv, ClosingInv
<1>9. LifeInv(e)'
  BY <1>2 DEF LifeInv
<1> QED  BY <1>1, <1>2, <1>3, <1>5, <1>6, <1>7, <1>8, <1>9, FrameHandled

\* A frame for a removed stream is dropped.
LEMMA HandleDropped ==
  ASSUME IInv, NEW e \in Ends, handle_frame(e), stream[e] = "removed"
  PROVE  IInv'
<1> USE DEF flow, input, taken, ends, place, calls
<1> DEFINE p == Peer(e)
           q == link[e]
           n == posted[e]
           r == SubSeq(q, 1, n) \o SubSeq(q, n + 2, Len(q))
<1>1. p \in Ends /\ p # e /\ Peer(p) = e /\ TypeOK /\ EndInv(e) /\ EndInv(p)
  BY Peers DEF IInv
<1>2. /\ n < Len(q) /\ session[e] = "running"
      /\ link' = [link EXCEPT ![e] = r]
      /\ UNCHANGED <<stream, posted>>
      /\ UNCHANGED <<flow, input, taken, ends, session, calls, pending_reads,
                     pending_writes, strand, partial>>
  BY DEF handle_frame
<1>3. /\ link \in [Ends -> Seq(Frame)] /\ posted \in [Ends -> Nat]
      /\ n \in Nat /\ q \in Seq(Frame)
      /\ stream \in [Ends -> {"absent", "registered", "removed"}]
  BY <1>1 DEF TypeOK
<1>4. /\ Bounded(q, arrived[e], credit[e], sent[p], credited[p])
      /\ NoGap(q, n, arrived[e], credit[e])
  BY <1>1 DEF EndInv, LinkInv, Kept
<1>5. /\ r \in Seq(Frame)
      /\ Len(r) = Len(q) - 1
      /\ \A i \in 1..n : r[i] = q[i]
      /\ \A i \in 1..Len(r) : \E j \in 1..Len(q) : r[i] = q[j]
      /\ Bounded(r, arrived[e], credit[e], sent[p], credited[p])
  <2> HIDE DEF q, n, p
  <2> QED  BY <1>2, <1>3, <1>4, BoundedDrop
<1>6. Len(q) \in Nat
  BY <1>3, NoFrames
<1> HIDE DEF r
<1>7. link' \in [Ends -> Seq(Frame)] /\ link'[e] = r /\ link'[p] = link[p]
  BY <1>1, <1>2, <1>3, <1>5
<1>8. LinkInv(e)'
  <2>1. NoGap(r, n, arrived[e], credit[e])
    <3>1. n \in 0..n
      BY <1>3
    <3> HIDE DEF q, n
    <3> QED  BY <1>3, <1>4, <1>5, <3>1, NoGapFewer
  <2>2. Kept(e)' = n
    BY <1>2 DEF Kept
  <2>3. n <= Len(r)
    <3> HIDE DEF q, n
    <3> QED  BY <1>2, <1>3, <1>5, <1>6
  <2> QED  BY <1>2, <1>5, <1>7, <2>1, <2>2, <2>3 DEF LinkInv
<1>9. ClosingInv(e)'
  <2> SUFFICES ASSUME NEW i \in 1..Len(r)
               PROVE  /\ r[i].type = "fin" => fin_at[p] # -1 /\ r[i].seq = fin_at[p]
                      /\ r[i].type # "closed"
    BY <1>2, <1>7 DEF ClosingInv
  <2>1. PICK j \in 1..Len(q) : r[i] = q[j]
    BY <1>5
  <2> QED  BY <1>1, <1>2, <2>1 DEF EndInv, ClosingInv
<1>10. LifeInv(e)'
  BY <1>1, <1>2 DEF EndInv, LifeInv
<1> QED  BY <1>1, <1>2, <1>3, <1>7, <1>8, <1>9, <1>10, FrameHandled

\* Session::stop cuts the links and posts the end of the stream as its last
\* frame.
LEMMA SessionStop ==
  ASSUME IInv, NEW e \in Ends, session_stop(e)
  PROVE  IInv'
<1> USE DEF flow, input, taken, ends, place, calls
<1> DEFINE p == Peer(e)
           q == link[e]
           n == posted[e]
           f == [type |-> "closed", length |-> 0, seq |-> sent[p], ack |-> credited[p]]
           r == SubSeq(q, 1, n)
           new == IF stream[e] = "registered" THEN Append(r, f) ELSE r
<1>1. p \in Ends /\ p # e /\ Peer(p) = e /\ TypeOK /\ EndInv(e) /\ EndInv(p)
  BY Peers DEF IInv
<1>2. /\ session[e] = "running"
      /\ session' = [session EXCEPT ![e] = "stopped"]
      /\ stream' = [stream EXCEPT ![e] = IF stream[e] = "registered"
                                         THEN "removed" ELSE stream[e]]
      /\ posted' = [posted EXCEPT ![e] = IF stream[e] = "registered"
                                         THEN n + 1 ELSE n]
      /\ UNCHANGED <<flow, input, taken, ends, calls, pending_reads,
                     pending_writes, strand, partial>>
  BY DEF session_stop
<1>3. PICK k \in posted[p]..Len(link[p]) :
        link' = [link EXCEPT ![e] = new,
                             ![p] = IF session[p] = "running"
                                    THEN SubSeq(link[p], 1, k) ELSE link[p]]
  BY <1>1 DEF session_stop
<1>4. /\ link \in [Ends -> Seq(Frame)] /\ posted \in [Ends -> Nat]
      /\ session \in [Ends -> {"running", "stopped", "gone"}]
      /\ stream \in [Ends -> {"absent", "registered", "removed"}]
  BY <1>1 DEF TypeOK
<1>5. /\ arrived[e] \in Nat /\ credit[e] \in Nat
      /\ sent[p] \in Nat /\ credited[p] \in Nat
      /\ n \in Nat /\ posted[p] \in Nat /\ q \in Seq(Frame) /\ link[p] \in Seq(Frame)
  BY <1>1 DEF TypeOK
<1>6. Len(q) \in Nat /\ Len(link[p]) \in Nat /\ n <= Len(q)
  <2>1. Len(q) \in Nat /\ Len(link[p]) \in Nat
    BY <1>5, NoFrames
  <2>2. n <= Len(q)
    BY <1>1 DEF EndInv, LinkInv
  <2> QED  BY <2>1, <2>2
<1>7. session' \in [Ends -> {"running", "stopped", "gone"}]
      /\ session'[e] = "stopped" /\ session'[p] = session[p]
  BY <1>1, <1>2, <1>4
<1>8. stream' \in [Ends -> {"absent", "registered", "removed"}]
      /\ stream'[e] = (IF stream[e] = "registered" THEN "removed" ELSE stream[e])
      /\ stream'[p] = stream[p]
  BY <1>1, <1>2, <1>4
<1>9. posted' \in [Ends -> Nat]
  <2>1. n + 1 \in Nat
    BY <1>5
  <2> HIDE DEF n
  <2> QED  BY <1>2, <1>4, <1>5, <2>1
<1>10. posted'[e] = (IF stream[e] = "registered" THEN n + 1 ELSE n)
       /\ posted'[p] = posted[p]
  <2> HIDE DEF n
  <2> QED  BY <1>1, <1>2, <1>4
<1>11. ~Connected'
  BY <1>7 DEF Connected
\* --- the link of e
<1>12. /\ Bounded(q, arrived[e], credit[e], sent[p], credited[p])
       /\ NoGap(q, Kept(e), arrived[e], credit[e])
  BY <1>1 DEF EndInv, LinkInv
<1>13. /\ r \in Seq(Frame) /\ Len(r) = n
       /\ \A i \in 1..n : r[i] = q[i]
       /\ Bounded(r, arrived[e], credit[e], sent[p], credited[p])
  <2>1. n \in 0..Len(q)
    BY <1>5, <1>6
  <2> HIDE DEF n, q, p
  <2> QED  BY <1>5, <1>12, <2>1, BoundedPrefix
<1>14. NoGap(r, n, arrived[e], credit[e])
  <2> DEFINE m == Kept(e)
  <2>1. m \in Nat /\ n \in 0..m
    BY <1>5, <1>6 DEF Kept
  <2>2. NoGap(q, m, arrived[e], credit[e])
    BY <1>12
  <2> HIDE DEF m, n, q, r
  <2> QED  BY <1>13, <2>1, <2>2, NoGapFewer
<1>15. /\ f \in Frame /\ f.seq = sent[p] /\ f.ack = credited[p] /\ f.type = "closed"
       /\ DataLength(f) = 0 /\ CreditLength(f) = 0
  BY <1>5 DEF Frame, FrameTypes, DataLength, CreditLength
<1>16. /\ Append(r, f) \in Seq(Frame) /\ Len(Append(r, f)) = n + 1
       /\ Append(r, f)[n + 1] = f
       /\ \A i \in 1..n : Append(r, f)[i] = r[i]
       /\ Bounded(Append(r, f), arrived[e], credit[e], sent[p], credited[p])
  <2>1. /\ f.seq >= sent[p] + DataLength(f) /\ f.ack >= credited[p] + CreditLength(f)
        /\ f.type # "data"
    BY <1>5, <1>15
  <2> HIDE DEF f, r, n, p
  <2> QED  BY <1>5, <1>13, <1>15, <2>1, BoundedAppend
<1>17. NoGap(Append(r, f), n + 1, arrived[e], credit[e])
  <2> DEFINE s == Append(r, f)
  <2>1. Follows(f, 0, 0) /\ \A a, b : Follows(f, a, b)
    BY <1>15 DEF Follows
  <2> HIDE DEF f, r, n
  <2>2. s[n + 1] = f /\ \A i \in 1..n : s[i] = r[i]
    BY <1>16
  <2> HIDE DEF s
  <2>3. Follows(s[1], arrived[e], credit[e])
    <3>1. CASE n = 0
      BY <2>1, <2>2, <3>1
    <3>2. CASE n # 0
      BY <1>5, <1>14, <2>2, <3>2 DEF NoGap
    <3> QED  BY <3>1, <3>2
  <2>4. ASSUME NEW i \in 1..n
        PROVE  Follows(s[i + 1], s[i].seq, s[i].ack)
    <3>1. CASE i = n
      BY <2>1, <2>2, <3>1
    <3>2. CASE i # n
      <4>1. i \in 1..(n - 1) /\ s[i] = r[i] /\ s[i + 1] = r[i + 1]
        BY <1>5, <2>2, <3>2
      <4> QED  BY <1>14, <4>1 DEF NoGap
    <3> QED  BY <3>1, <3>2
  <2>5. NoGap(s, n + 1, arrived[e], credit[e])
    <3> DEFINE m == n + 1
    <3>1. m - 1 = n
      BY <1>5
    <3> HIDE DEF m
    <3>2. NoGap(s, m, arrived[e], credit[e])
      BY <2>3, <2>4, <3>1 DEF NoGap
    <3> QED  BY <3>2 DEF m
  <2> QED  BY <2>5 DEF s
<1>18. /\ new \in Seq(Frame) /\ Len(new) = posted'[e]
       /\ Bounded(new, arrived[e], credit[e], sent[p], credited[p])
       /\ NoGap(new, posted'[e], arrived[e], credit[e])
       /\ \A i \in 1..Len(new) : \/ i \in 1..n /\ new[i] = q[i]
                                 \/ new[i] = f /\ i = Len(new)
  <2> HIDE DEF f, r, n, q
  <2>1. CASE stream[e] = "registered"
    <3>1. new = Append(r, f) /\ posted'[e] = n + 1
      BY <1>10, <2>1
    <3>2. \A i \in 1..(n + 1) : i \in 1..n \/ i = n + 1
      BY <1>5
    <3> HIDE DEF new
    <3> QED  BY <1>13, <1>16, <1>17, <3>1, <3>2
  <2>2. CASE stream[e] # "registered"
    <3>1. new = r /\ posted'[e] = n
      BY <1>10, <2>2
    <3> HIDE DEF new
    <3> QED  BY <1>13, <1>14, <3>1
  <2> QED  BY <2>1, <2>2
<1> DEFINE other == IF session[p] = "running" THEN SubSeq(link[p], 1, k) ELSE link[p]
<1>19. /\ k \in 0..Len(link[p]) /\ posted[p] <= k
  BY <1>5, <1>6
<1>20. /\ SubSeq(link[p], 1, k) \in Seq(Frame) /\ Len(SubSeq(link[p], 1, k)) = k
       /\ \A i \in 1..k : SubSeq(link[p], 1, k)[i] = link[p][i]
       /\ Bounded(SubSeq(link[p], 1, k), arrived[p], credit[p], sent[e], credited[e])
       /\ Bounded(link[p], arrived[p], credit[p], sent[e], credited[e])
  <2>1. Bounded(link[p], arrived[p], credit[p], sent[e], credited[e])
    BY <1>1 DEF EndInv, LinkInv
  <2> HIDE DEF p
  <2> QED  BY <1>5, <1>19, <2>1, BoundedPrefix
<1>21. /\ other \in Seq(Frame) /\ Len(other) \in 0..Len(link[p]) /\ posted[p] <= Len(other)
       /\ \A i \in 1..Len(other) : other[i] = link[p][i]
       /\ Bounded(other, arrived[p], credit[p], sent[e], credited[e])
       /\ session[p] # "running" => Len(other) = Len(link[p])
  <2>1. CASE session[p] = "running"
    <3>1. other = SubSeq(link[p], 1, k)
      BY <2>1
    <3> HIDE DEF other
    <3> QED  BY <1>19, <1>20, <2>1, <3>1
  <2>2. CASE session[p] # "running"
    <3>1. other = link[p]
      BY <2>2
    <3>2. posted[p] <= Len(link[p])
      BY <1>1 DEF EndInv, LinkInv
    <3> HIDE DEF other
    <3> QED  BY <1>5, <1>6, <1>20, <3>1, <3>2
  <2> QED  BY <2>1, <2>2
<1> HIDE DEF new, other
<1>22. link' \in [Ends -> Seq(Frame)] /\ link'[e] = new /\ link'[p] = other
  <2>1. link' = [link EXCEPT ![e] = new, ![p] = other]
    BY <1>3 DEF other
  <2> HIDE DEF p
  <2> QED  BY <1>1, <1>4, <1>18, <1>21, <2>1
<1>23. LinkInv(e)'
  <2>1. Kept(e)' = posted'[e]
    BY <1>18, <1>22 DEF Kept
  <2>2. posted'[e] <= Len(link'[e])
    <3>1. posted'[e] \in Nat /\ Len(link'[e]) = posted'[e]
      BY <1>9, <1>18, <1>22
    <3> QED  BY <3>1
  <2> QED  BY <1>2, <1>11, <1>18, <1>22, <2>1, <2>2 DEF LinkInv
<1>24. ClosingInv(e)'
  <2> SUFFICES ASSUME NEW i \in 1..Len(new)
               PROVE  /\ new[i].type = "fin" => fin_at[p] # -1 /\ new[i].seq = fin_at[p]
                      /\ new[i].type = "closed" => i = Len(new)
    BY <1>2, <1>7, <1>22 DEF ClosingInv
  <2>1. CASE new[i] = f /\ i = Len(new)
    BY <1>15, <2>1
  <2>2. CASE i \in 1..n /\ new[i] = q[i]
    <3>1. i \in 1..Len(q)
      BY <1>5, <1>6, <2>2
    <3> QED  BY <1>1, <1>2, <2>2, <3>1 DEF EndInv, ClosingInv
  <2> QED  BY <1>18, <2>1, <2>2
<1>25. LinkInv(p)'
  <2>1. NoGap(link[p], Kept(p), arrived[p], credit[p])
    BY <1>1 DEF EndInv, LinkInv
  <2>2. NoGap(other, Kept(p)', arrived[p], credit[p])
    <3> DEFINE m == Kept(p)
               m2 == Kept(p)'
    <3>1. m \in Nat /\ m2 \in 0..m /\ \A i \in 1..m2 : other[i] = link[p][i]
      <4>1. CASE stream[p] = "removed"
        <5>1. m = posted[p] /\ m2 = posted[p]
          BY <1>8, <1>10, <4>1 DEF Kept
        <5>2. \A i \in 1..posted[p] : i \in 1..Len(other)
          BY <1>5, <1>6, <1>21
        <5> HIDE DEF m, m2, p
        <5> QED  BY <1>5, <1>21, <5>1, <5>2
      <4>2. CASE stream[p] # "removed"
        <5>1. m = Len(link[p]) /\ m2 = Len(other)
          BY <1>8, <1>22, <4>2 DEF Kept
        <5> HIDE DEF m, m2, p
        <5> QED  BY <1>6, <1>21, <5>1
      <4> QED  BY <4>1, <4>2
    <3>2. NoGap(link[p], m, arrived[p], credit[p])
      BY <2>1
    <3> HIDE DEF m, m2, p
    <3>3. NoGap(other, m2, arrived[p], credit[p])
      BY <3>1, <3>2, NoGapFewer
    <3> QED  BY <3>3 DEF m2
  <2> QED  BY <1>1, <1>2, <1>10, <1>11, <1>21, <1>22, <2>2 DEF LinkInv
<1>26. ClosingInv(p)'
  <2> SUFFICES ASSUME NEW i \in 1..Len(other)
               PROVE  /\ other[i].type = "fin" => fin_at[e] # -1 /\ other[i].seq = fin_at[e]
                      /\ other[i].type = "closed" =>
                           session[p] # "running" /\ i = Len(other)
    BY <1>1, <1>2, <1>7, <1>22 DEF ClosingInv
  <2>1. i \in 1..Len(link[p]) /\ other[i] = link[p][i]
    BY <1>6, <1>21
  <2> QED  BY <1>1, <1>21, <2>1 DEF EndInv, ClosingInv
\* --- the rest
<1>27. TypeOK'
  BY <1>1, <1>2, <1>7, <1>8, <1>9, <1>22 DEF TypeOK
<1>28. Untouched(p)
  BY <1>2, <1>7, <1>8, <1>10 DEF Untouched
<1>29. EndInv(p)'
  BY <1>1, <1>2, <1>25, <1>26, <1>28, OtherEnd
<1>30. EndInv(e)'
  <2>1. QueueInv(e)' /\ WindowInv(e)' /\ CreditInv(e)'
    BY <1>1, <1>2 DEF EndInv, QueueInv, WindowInv, CreditInv
  <2>2. SettledInv(e)'
    BY <1>1, <1>2 DEF EndInv, SettledInv, Waits, Queued
  <2>3. EofInv(e)'
    BY <1>1, <1>2, <1>7 DEF EndInv, EofInv
  <2>4. LifeInv(e)'
    BY <1>1, <1>2, <1>7, <1>8, <1>10 DEF EndInv, LifeInv
  <2> QED  BY <1>23, <1>24, <2>1, <2>2, <2>3, <2>4 DEF EndInv
<1> QED  BY <1>27, <1>29, <1>30, BothEnds

-----------------------------------------------------------------------------
(* The inductive invariant.                                                  *)

\* open_stream establishes the invariant.
LEMMA InitInv ==
  ASSUME Init
  PROVE  IInv
<1> DEFINE syn == [type |-> "syn", length |-> 0, seq |-> 0, ack |-> 0]
<1>1. syn \in Frame /\ DataLength(syn) = 0 /\ CreditLength(syn) = 0
      /\ syn.seq = 0 /\ syn.ack = 0 /\ syn.type = "syn"
  BY DEF Frame, FrameTypes, DataLength, CreditLength
<1>2. link = [e \in Ends |-> IF e = "opener" THEN <<>> ELSE <<syn>>]
  BY DEF Init
<1> HIDE DEF syn
<1>3. TypeOK
  <2>1. link \in [Ends -> Seq(Frame)]
    BY <1>1, <1>2
  <2> QED  BY <2>1, FlowAssumption DEF Init, TypeOK
<1>4. ASSUME NEW e \in Ends PROVE EndInv(e)
  <2>1. Peer(e) \in Ends
    BY Peers
  <2>2. /\ ~local_closed[e] /\ ~remote_closed[e] /\ remote_window_size[e] = InitialWindow
        /\ consumed_since_last_update[e] = 0 /\ read_queue[e] = <<>>
        /\ read_queue_offset[e] = 0 /\ pending_reads[e] = <<>>
        /\ pending_writes[e] = <<>> /\ stream[e] # "removed"
        /\ session[e] = "running" /\ strand[e] = "idle" /\ posted[e] = 0
        /\ sent[e] = 0 /\ credited[e] = 0 /\ arrived[e] = 0 /\ delivered[e] = 0
        /\ credit[e] = 0 /\ fin_at[e] = -1 /\ at_eof[e] = -1
        /\ sent[Peer(e)] = 0 /\ credited[Peer(e)] = 0
    BY <2>1 DEF Init
  <2>3. link[e] = <<>> \/ link[e] = <<syn>>
    BY <1>2
  <2>4. LinkInv(e) /\ ClosingInv(e)
    <3>1. CASE link[e] = <<>>
      BY <2>2, <3>1 DEF LinkInv, ClosingInv, Bounded, NoGap, Complete, Kept
    <3>2. CASE link[e] = <<syn>>
      <4>1. /\ Len(link[e]) = 1 /\ link[e][1] = syn /\ link[e] # <<>>
        BY <3>2
      <4>2. \A i \in 1..Len(link[e]) : i = 1
        BY <4>1
      <4>3. Within(syn, 0, 0, 0, 0) /\ Follows(syn, 0, 0)
        BY <1>1 DEF Within, Follows
      <4>4. Bounded(link[e], 0, 0, 0, 0) /\ NoGap(link[e], 1, 0, 0)
            /\ Complete(link[e], 0, 0, 0, 0)
        BY <1>1, <4>1, <4>2, <4>3 DEF Bounded, NoGap, Complete
      <4>5. LinkInv(e)
        BY <2>2, <4>1, <4>4 DEF LinkInv, Kept
      <4>6. ClosingInv(e)
        BY <1>1, <4>1, <4>2 DEF ClosingInv
      <4> QED  BY <4>5, <4>6
    <3> QED  BY <2>3, <3>1, <3>2
  <2>5. QueueInv(e)
    BY <2>2 DEF QueueInv, Adjacent
  <2>6. WindowInv(e) /\ CreditInv(e)
    BY <2>2, FlowAssumption DEF WindowInv, CreditInv
  <2>7. SettledInv(e) /\ EofInv(e) /\ LifeInv(e)
    BY <2>2 DEF SettledInv, EofInv, LifeInv
  <2> QED  BY <2>4, <2>5, <2>6, <2>7 DEF EndInv
<1> QED  BY <1>3, <1>4 DEF IInv

\* A step that changes nothing keeps the invariant.
LEMMA StutterInv ==
  ASSUME IInv, UNCHANGED vars
  PROVE  IInv'
<1> USE DEF vars, flow, input, taken, ends, place, calls
<1>1. TypeOK'
  BY DEF IInv, TypeOK
<1>2. ASSUME NEW e \in Ends PROVE EndInv(e)'
  <2>1. EndInv(e)
    BY DEF IInv
  <2>2. \A x \in Ends : LinkInv(x)' /\ ClosingInv(x)'
    BY LinksKept
  <2>3. Untouched(e)
    BY DEF Untouched
  <2> QED  BY <2>1, <2>2, <2>3, OtherEnd
<1> QED  BY <1>1, <1>2 DEF IInv

\* Every step of either end keeps the invariant.
LEMMA NextInv ==
  ASSUME IInv, [Next]_vars
  PROVE  IInv'
<1>1. ASSUME NEW e \in Ends, User(e) PROVE IInv'
  <2>1. CASE \E n \in WriteSizes[e] : async_write(e, n)
    BY <2>1, AsyncWrite
  <2>2. CASE \E n \in ReadSizes[e], all \in BOOLEAN : async_read(e, n, all)
    BY <2>2, AsyncRead
  <2>3. CASE close(e)
    BY <2>3, Close
  <2> QED  BY <1>1, <2>1, <2>2, <2>3 DEF User
<1>2. ASSUME NEW e \in Ends, Strand(e) PROVE IInv'
  BY <1>2, DoWriteExit, WritesDropped, DoWriteFrame, DoReadExit, DoReadEof,
     DoReadCopy, HandleData, HandleWindowUpdate, HandleClose DEF Strand
<1>3. ASSUME NEW e \in Ends, handle_frame(e) PROVE IInv'
  <2>1. stream[e] \in {"absent", "registered", "removed"}
    BY DEF IInv, TypeOK
  <2> QED  BY <1>3, <2>1, HandleSyn, HandlePosted, HandleDropped
<1>4. ASSUME NEW e \in Ends, Failure(e) PROVE IInv'
  BY <1>4, WritesDropped, SessionStop, SessionGone DEF Failure
<1> QED  BY <1>1, <1>2, <1>3, <1>4, StutterInv DEF Next

\* The inductive invariant holds of the two ends of a stream whatever their
\* users and the transport do.
THEOREM Invariance == Spec => []IInv
<1>1. Init => IInv
  BY InitInv
<1>2. IInv /\ [Next]_vars => IInv'
  BY NextInv
<1> QED  BY <1>1, <1>2, PTL DEF Spec

\* The fields of both MuxStream objects and the frames between them keep
\* their types.
THEOREM TypeCorrect == Spec => []TypeOK
<1>1. IInv => TypeOK
  BY DEF IInv
<1> QED  BY <1>1, Invariance, PTL

\* do_write, do_read_from_buffer and handle_window_update neither lose nor
\* make up credit, for any window, threshold and sizes.
THEOREM CreditIsConserved == Spec => []CreditConserved
<1>1. ASSUME IInv PROVE CreditConserved
  <2> SUFFICES ASSUME NEW e \in Ends, ~local_closed[e], ~local_closed[Peer(e)]
               PROVE  remote_window_size[e] + (sent[e] - delivered[Peer(e)])
                        + consumed_since_last_update[Peer(e)]
                        + (credited[Peer(e)] - credit[e])
                      = InitialWindow
    BY DEF CreditConserved
  <2> DEFINE p == Peer(e)
  <2>1. p \in Ends /\ TypeOK /\ EndInv(e) /\ EndInv(p)
    BY <1>1, Peers DEF IInv
  <2>2. remote_window_size[e] + sent[e] = InitialWindow + credit[e]
    BY <2>1 DEF EndInv, WindowInv
  <2>3. credited[p] + consumed_since_last_update[p] = delivered[p]
    BY <2>1 DEF EndInv, CreditInv
  <2>4. /\ remote_window_size[e] \in Nat /\ sent[e] \in Nat /\ credit[e] \in Nat
        /\ credited[p] \in Nat /\ consumed_since_last_update[p] \in Nat
        /\ delivered[p] \in Nat
    BY <2>1 DEF TypeOK
  <2> HIDE DEF p
  <2>5. remote_window_size[e] + (sent[e] - delivered[p])
          + consumed_since_last_update[p] + (credited[p] - credit[e]) = InitialWindow
    BY <2>2, <2>3, <2>4, FlowAssumption
  <2> QED  BY <2>5 DEF p
<1> QED  BY <1>1, Invariance, PTL

\* Reads of an open stream return the sent bytes in order, each once
\* (handle_data and the copy loop of do_read_from_buffer).
THEOREM ReadsAreInOrder == Spec => []ReadsInOrder
<1>1. ASSUME IInv PROVE ReadsInOrder
  <2> SUFFICES ASSUME NEW e \in Ends, ~local_closed[e]
               PROVE  LET q == read_queue[e] IN
                      /\ q = <<>> => delivered[e] = arrived[e] /\ read_queue_offset[e] = 0
                      /\ q # <<>> => /\ q[1].from + read_queue_offset[e] = delivered[e]
                                     /\ delivered[e] < q[1].to
                                     /\ q[Len(q)].to = arrived[e]
                      /\ \A i \in 1..(Len(q) - 1) : q[i].to = q[i + 1].from
    BY DEF ReadsInOrder
  <2>1. QueueInv(e)
    BY <1>1 DEF IInv, EndInv
  <2> QED  BY <2>1 DEF QueueInv, Adjacent
<1> QED  BY <1>1, Invariance, PTL

\* do_read_from_buffer reports the end of a stream only after every byte sent
\* before the FIN has been delivered.
THEOREM EofIsAfterLastByte == Spec => []EofAfterLastByte
<1>1. IInv => EofAfterLastByte
  BY DEF IInv, EndInv, EofInv, EofAfterLastByte
<1> QED  BY <1>1, Invariance, PTL

\* The unread bytes of an open stream, as the fields of the queue give them.
LEMMA Unread ==
  ASSUME IInv, NEW e \in Ends, ~local_closed[e]
  PROVE  /\ read_queue[e] = <<>> => delivered[e] = arrived[e]
         /\ read_queue[e] # <<>> =>
              Queued(e) - read_queue_offset[e] = arrived[e] - delivered[e]
<1> DEFINE q == read_queue[e]
           off == read_queue_offset[e]
<1>1. TypeOK /\ QueueInv(e)
  BY DEF IInv, EndInv
<1>2. q = <<>> => delivered[e] = arrived[e]
  BY <1>1 DEF QueueInv
<1>3. ASSUME q # <<>> PROVE Queued(e) - off = arrived[e] - delivered[e]
  <2>1. /\ Queued(e) = q[Len(q)].to - q[1].from
        /\ q[1].from + off = delivered[e] /\ q[Len(q)].to = arrived[e]
    BY <1>1, <1>3 DEF Queued, QueueInv, Adjacent
  <2>2. q \in Seq(Block) /\ arrived[e] \in Nat /\ off \in Nat
    BY <1>1 DEF TypeOK
  <2>3. 1 \in 1..Len(q) /\ Adjacent(q, arrived[e])
    BY <1>1, <1>3, <2>2 DEF QueueInv
  <2>4. q[1].from \in Nat
    BY <2>2, <2>3, AdjacentEnds
  <2> HIDE DEF q, off
  <2> QED  BY <2>1, <2>2, <2>4
<1> QED  BY <1>2, <1>3

\* However its user delays reading, an open stream queues no more than the
\* initial window, and no data frame exceeds what do_read_header accepts.
THEOREM ReceiverIsBounded == Spec => []ReceiverBounded
<1>1. ASSUME IInv PROVE ReceiverBounded
  <2>1. ASSUME NEW e \in Ends, ~local_closed[e]
        PROVE  Queued(e) - read_queue_offset[e] <= InitialWindow
    <3> DEFINE p == Peer(e)
               q == read_queue[e]
               off == read_queue_offset[e]
    <3>1. p \in Ends /\ Peer(p) = e /\ TypeOK /\ EndInv(e) /\ EndInv(p)
      BY <1>1, Peers DEF IInv
    <3>2. /\ remote_window_size[p] \in Nat /\ sent[p] \in Nat /\ credit[p] \in Nat
          /\ credited[e] \in Nat /\ consumed_since_last_update[e] \in Nat
          /\ delivered[e] \in Nat /\ arrived[e] \in Nat /\ off \in Nat
          /\ q \in Seq(Block)
      BY <3>1 DEF TypeOK
    <3>3. remote_window_size[p] + sent[p] <= InitialWindow + credit[p]
      BY <3>1 DEF EndInv, WindowInv
    <3>4. credited[e] + consumed_since_last_update[e] = delivered[e]
      BY <3>1 DEF EndInv, CreditInv
    <3>5. arrived[e] <= sent[p] /\ credit[p] <= credited[e]
      BY <1>1, <3>1, DeliveredArrived
    <3>6. arrived[e] - delivered[e] <= InitialWindow
      <4> HIDE DEF p
      <4> QED  BY <3>2, <3>3, <3>4, <3>5, FlowAssumption
    <3>7. /\ q = <<>> => delivered[e] = arrived[e] /\ Queued(e) = 0 /\ off = 0
          /\ q # <<>> => Queued(e) - off = arrived[e] - delivered[e]
      BY <1>1, <2>1, <3>1, Unread DEF Queued, EndInv, QueueInv
    <3> QED  BY <3>6, <3>7, FlowAssumption
  <2>2. ASSUME NEW e \in Ends, NEW i \in 1..Len(link[e]), link[e][i].type = "data"
        PROVE  link[e][i].length <= MaxMessageSize
    <3>1. LinkInv(e)
      BY <1>1 DEF IInv, EndInv
    <3>2. link[e][i].length \in 1..MaxMessageSize
      BY <2>2, <3>1 DEF LinkInv, Bounded, Within
    <3> QED  BY <3>2, FlowAssumption
  <2> QED  BY <2>1, <2>2 DEF ReceiverBounded
<1> QED  BY <1>1, Invariance, PTL

\* With no read larger than the window less an unannounced remainder, the
\* writer stopped by its window in do_write and the reader waiting in
\* do_read_from_buffer never wait for each other.
THEOREM NobodyWaitsForever ==
  ASSUME UpdateThreshold <= InitialWindow,
         \A e \in Ends : \A n \in ReadSizes[e] :
           n <= InitialWindow - UpdateThreshold + 1
  PROVE  Spec => []NoMutualWait
<1>1. ASSUME IInv PROVE NoMutualWait
  <2> SUFFICES ASSUME NEW e \in Ends, Connected, Quiet(e), Quiet(Peer(e)),
                      pending_writes[e] # <<>>, pending_reads[Peer(e)] # <<>>
               PROVE  FALSE
    BY DEF NoMutualWait
  <2> DEFINE p == Peer(e)
             size == Head(pending_reads[p]).size
  <2>1. p \in Ends /\ Peer(p) = e /\ TypeOK /\ EndInv(e) /\ EndInv(p)
    BY <1>1, Peers DEF IInv
  <2>2. /\ sent[e] \in Nat /\ credit[e] \in Nat /\ credited[p] \in Nat
        /\ consumed_since_last_update[p] \in Nat /\ delivered[p] \in Nat
        /\ arrived[p] \in Nat
        /\ pending_reads[p] \in Seq([size : Nat \ {0}, all : BOOLEAN])
    BY <2>1 DEF TypeOK
  <2>3. /\ strand[e] = "idle" /\ link[e] = <<>> /\ ~local_closed[e]
        /\ strand[p] = "idle" /\ link[p] = <<>> /\ ~local_closed[p]
        /\ session[e] = "running" /\ session[p] = "running"
    BY <2>1 DEF Quiet, Connected
  <2>4. stream[e] # "removed" /\ stream[p] # "removed"
    BY <2>1, <2>3 DEF EndInv, LifeInv
  <2>5. arrived[p] = sent[e] /\ credit[e] = credited[p]
    BY <2>1, <2>3, <2>4 DEF EndInv, LinkInv, Complete
  <2>6. remote_window_size[e] = 0
    BY <2>1, <2>3 DEF EndInv, SettledInv
  <2>7. remote_window_size[e] + sent[e] = InitialWindow + credit[e]
    BY <2>1, <2>3 DEF EndInv, WindowInv
  <2>8. /\ credited[p] + consumed_since_last_update[p] = delivered[p]
        /\ consumed_since_last_update[p] < UpdateThreshold
    BY <2>1, <2>3 DEF EndInv, CreditInv
  <2>9. Waits(p) /\ size \in ReadSizes[p]
    <3>1. Waits(p)
      BY <2>1, <2>3 DEF EndInv, SettledInv
    <3>2. 1 \in 1..Len(pending_reads[p]) /\ Head(pending_reads[p]) = pending_reads[p][1]
      BY <2>2
    <3> QED  BY <2>1, <3>1, <3>2 DEF EndInv, SettledInv
  <2>10. size \in Nat /\ size <= InitialWindow - UpdateThreshold + 1
    BY <2>1, <2>9, UserAssumption
  <2>11. /\ arrived[p] - delivered[p] >= InitialWindow - UpdateThreshold + 1
         /\ arrived[p] - delivered[p] > 0
    <3> HIDE DEF p
    <3> QED  BY <2>2, <2>5, <2>6, <2>7, <2>8, FlowAssumption
  <2>12. /\ read_queue[p] = <<>> => delivered[p] = arrived[p]
         /\ read_queue[p] # <<>> =>
              Queued(p) - read_queue_offset[p] = arrived[p] - delivered[p]
    BY <1>1, <2>1, <2>3, Unread
  <2>13. read_queue[p] # <<>>
    BY <2>2, <2>11, <2>12
  <2>14. Queued(p) - read_queue_offset[p] < size
    BY <2>9, <2>13 DEF Waits
  <2> HIDE DEF p, size
  <2> QED  BY <2>2, <2>10, <2>11, <2>12, <2>13, <2>14, FlowAssumption
<1> QED  BY <1>1, Invariance, PTL
=============================================================================
