------------------------ MODULE VisitorHandoffProofs ------------------------
(***************************************************************************)
(* Proofs about VisitorHandoff, for any visitors, proxies and limits: the  *)
(* pending tables keep their limit and are covered by the expiration       *)
(* queue, every registration removes all who have expired, waiting is the  *)
(* same as being in the table, visitors are served by the proxy they came  *)
(* for unless a clock reading was drawn twice, and a listener counts all   *)
(* its live connections.                                                   *)
(***************************************************************************)
EXTENDS VisitorHandoff, FiniteSetTheorems, WellFoundedInduction, TLAPS

-----------------------------------------------------------------------------
(* DoLazyCleanup.                                                            *)

Expiries == [ticket : Tickets, is_udp : BOOLEAN, expires_at : Nat]

\* A nonempty set of natural numbers has a least element.
LEMMA LeastNatural ==
  ASSUME NEW T, T \subseteq Nat, T # {}
  PROVE  \E m \in T : \A j \in T : m <= j
<1>1. PICK m \in T : \A j \in T : <<j, m>> \notin OpToRel(<, Nat)
  BY NatLessThanWellFounded, WFMin
<1>2. ASSUME NEW j \in T, j < m PROVE FALSE
  <2>1. <<j, m>> \in OpToRel(<, Nat) BY <1>2 DEF OpToRel
  <2>2. QED BY <2>1, <1>1
<1>3. \A j \in T : m <= j BY <1>2
<1>4. QED BY <1>3

\* The loop of DoLazyCleanup stops at the first entry that has not expired.
LEMMA ExpiredSpec ==
  ASSUME ticket_expiration_queue \in Seq(Expiries), now \in Nat
  PROVE  /\ Expired \in 0..Len(ticket_expiration_queue)
         /\ \A i \in 1..Expired : now >= ticket_expiration_queue[i].expires_at
         /\ Expired < Len(ticket_expiration_queue) =>
              now < ticket_expiration_queue[Expired + 1].expires_at
<1> DEFINE q == ticket_expiration_queue
           n == Len(q)
           good(k) == /\ \A i \in 1..k : now >= q[i].expires_at
                      /\ k < n => now < q[k + 1].expires_at
           T == {i \in 1..n : now < q[i].expires_at}
<1>1. n \in Nat OBVIOUS
<1>2. \A i \in 1..n : q[i].expires_at \in Nat
  <2>1. \A i \in 1..n : q[i] \in Expiries OBVIOUS
  <2>2. QED BY <2>1 DEF Expiries
<1>3. \E k \in 0..n : good(k)
  <2> HIDE DEF q, n
  <2>1. CASE T = {}
    <3>1. \A i \in 1..n : now >= q[i].expires_at BY <2>1, <1>1, <1>2
    <3>2. good(n) BY <3>1, <1>1
    <3>3. n \in 0..n BY <1>1
    <3> HIDE DEF good
    <3>4. QED BY <3>2, <3>3
  <2>2. CASE T # {}
    <3>1. T \subseteq Nat BY <1>1
    <3>2. PICK m \in T : \A j \in T : m <= j BY <3>1, <2>2, LeastNatural
    <3>3. m - 1 \in 0..n /\ m \in 1..n /\ (m - 1) + 1 = m /\ now < q[m].expires_at
      BY <3>2, <1>1
    <3>4. \A i \in 1..(m - 1) : now >= q[i].expires_at BY <3>2, <3>3, <1>1, <1>2
    <3>5. good(m - 1) BY <3>3, <3>4
    <3> HIDE DEF good
    <3>6. QED BY <3>3, <3>5
  <2>3. QED BY <2>1, <2>2
<1>4. Expired = CHOOSE k \in 0..n : good(k) BY DEF Expired
<1> HIDE DEF good
<1>5. Expired \in 0..n /\ good(Expired) BY <1>3, <1>4
<1>6. QED BY <1>5 DEF good

\* What is kept of the queue: the entries behind those that have expired.
LEMMA KeptQueueSpec ==
  ASSUME ticket_expiration_queue \in Seq(Expiries), now \in Nat
  PROVE  /\ KeptQueue \in Seq(Expiries)
         /\ Len(KeptQueue) = Len(ticket_expiration_queue) - Expired
         /\ \A i \in 1..Len(KeptQueue) :
              /\ i + Expired \in 1..Len(ticket_expiration_queue)
              /\ KeptQueue[i] = ticket_expiration_queue[i + Expired]
<1> DEFINE q == ticket_expiration_queue
           n == Len(q)
           k == Expired
<1>1. n \in Nat /\ k \in 0..n BY ExpiredSpec
<1>2. KeptQueue = SubSeq(q, k + 1, n) BY DEF KeptQueue
<1>3. /\ SubSeq(q, k + 1, n) \in Seq(Expiries)
      /\ Len(SubSeq(q, k + 1, n)) = n - k
      /\ \A i \in 1..(n - k) : SubSeq(q, k + 1, n)[i] = q[i + k]
  <2> HIDE DEF k
  <2>1. \A i \in (k + 1)..n : q[i] \in Expiries BY <1>1
  <2>2. SubSeq(q, k + 1, n) \in Seq(Expiries) BY <1>1, <2>1
  <2>3. Len(SubSeq(q, k + 1, n)) = n - k BY <1>1
  <2>4. \A i \in 1..(n - k) : SubSeq(q, k + 1, n)[i] = q[i + k] BY <1>1
  <2>5. QED BY <2>2, <2>3, <2>4
<1> HIDE DEF k
<1>4. \A i \in 1..(n - k) : i + k \in 1..n BY <1>1
<1>5. QED BY <1>1, <1>2, <1>3, <1>4 DEF k

-----------------------------------------------------------------------------
(* The inductive invariant.                                                  *)

\* The entries of q expire in their order, and none later than a new one would.
Chronological(q) ==
  /\ \A i \in 1..Len(q) : q[i].expires_at <= now + Lifetime
  /\ \A i, j \in 1..Len(q) : i <= j => q[i].expires_at <= q[j].expires_at

\* The queue q has the entry of the table entry c.
Covered(c, q, is_udp) ==
  \E i \in 1..Len(q) : /\ q[i].ticket = c.ticket
                       /\ q[i].is_udp = is_udp
                       /\ q[i].expires_at = c.created_at + Lifetime

QueueInv ==
  /\ Chronological(ticket_expiration_queue)
  /\ \A c \in pending_user_conns : Covered(c, ticket_expiration_queue, FALSE)
  /\ \A c \in pending_udp_sessions : Covered(c, ticket_expiration_queue, TRUE)

\* The tables are finite and within the limit.
LimitInv ==
  /\ IsFiniteSet(pending_user_conns)
  /\ IsFiniteSet(pending_udp_sessions)
  /\ PendingWithinLimit

UdpTickets == {UdpTicket(n) : n \in 0..MaxDatagrams}

\* An entry of the TCP table is that of a waiting visitor, under the visitor's
\* ticket, and every waiting visitor has one.
TableInv ==
  /\ \A c \in pending_user_conns :
       /\ c.ticket = Ticket(c.visitor, c.proxy)
       /\ c.proxy = visitor[c.visitor].proxy
       /\ visitor[c.visitor].state = "pending"
  /\ \A c, d \in pending_user_conns : c.ticket = d.ticket => c = d
  /\ \A v \in Visitors :
       visitor[v].state = "pending" => \E c \in pending_user_conns : c.visitor = v
  /\ \A c \in pending_udp_sessions : c.ticket \in UdpTickets

\* A visitor belongs to a listener its proxy has or had, and is to be counted
\* down, if at all, at one.
VisitorInv ==
  \A v \in Visitors :
    /\ visitor[v].state # "new" =>
         /\ visitor[v].proxy \in Proxies
         /\ visitor[v].generation <= generation[visitor[v].proxy]
         /\ visitor[v].counter <= generation[visitor[v].proxy]
    /\ visitor[v].state \in {"new", "accepted", "pending"} => visitor[v].counter = -1

\* Some visitor whose ticket is t came for proxy p and has been registered.
CameFor(t, p) ==
  \E w \in Visitors : /\ Ticket(w, p) = t
                      /\ visitor[w].proxy = p
                      /\ visitor[w].state \notin {"new", "accepted"}

\* A visitor's ticket is announced to the client of its visitor's proxy, and a served
\* visitor is with a client to which its ticket was announced.
MailInv ==
  /\ \A m \in announced \union offered :
       m[2] \in UdpTickets \/ CameFor(m[2], m[1])
  /\ \A v \in Visitors :
       visitor[v].state = "served" =>
         CameFor(Ticket(v, visitor[v].proxy), visitor[v].by)

StartedInv == sessions_started <= MaxDatagrams

IInv ==
  /\ TypeOK /\ StartedInv
  /\ QueueInv /\ LimitInv /\ TableInv /\ VisitorInv /\ MailInv /\ ActiveNotUnder

-----------------------------------------------------------------------------
(* The queue.                                                                *)

\* A new entry at the end of the queue.
LEMMA AppendCovers ==
  ASSUME NEW q \in Seq(Expiries), NEW x \in Expiries, now \in Nat,
         Chronological(q), x.expires_at = now + Lifetime
  PROVE  /\ Append(q, x) \in Seq(Expiries)
         /\ Chronological(Append(q, x))
         /\ \A c, u : Covered(c, q, u) => Covered(c, Append(q, x), u)
         /\ \A c : x.ticket = c.ticket /\ x.expires_at = c.created_at + Lifetime
                     => Covered(c, Append(q, x), x.is_udp)
<1> DEFINE r == Append(q, x)
           n == Len(q)
<1>1. /\ n \in Nat /\ r \in Seq(Expiries) /\ Len(r) = n + 1
      /\ r[n + 1] = x /\ \A i \in 1..n : r[i] = q[i]
  OBVIOUS
<1>2. Lifetime \in Nat BY HandoffAssumption
<1> HIDE DEF r, n
<1>3. /\ \A i \in 1..n : q[i].expires_at <= now + Lifetime
      /\ \A i, j \in 1..n : i <= j => q[i].expires_at <= q[j].expires_at
  BY DEF Chronological, n
<1>4. \A i \in 1..(n + 1) : i \in 1..n \/ i = n + 1 BY <1>1
<1>5. \A i \in 1..(n + 1) : r[i].expires_at <= now + Lifetime
  BY <1>1, <1>2, <1>3, <1>4
<1>6. ASSUME NEW i \in 1..(n + 1), NEW j \in 1..(n + 1), i <= j
      PROVE  r[i].expires_at <= r[j].expires_at
  <2>1. CASE j = n + 1 BY <2>1, <1>1, <1>5
  <2>2. CASE j \in 1..n
    <3>1. i \in 1..n BY <2>2, <1>6, <1>1
    <3>2. QED BY <3>1, <2>2, <1>1, <1>3, <1>6
  <2>3. QED BY <2>1, <2>2, <1>4
<1>7. Chronological(r) BY <1>1, <1>5, <1>6 DEF Chronological
<1>8. ASSUME NEW c, NEW u, Covered(c, q, u) PROVE Covered(c, r, u)
  <2>1. PICK i \in 1..n : /\ q[i].ticket = c.ticket /\ q[i].is_udp = u
                          /\ q[i].expires_at = c.created_at + Lifetime
    BY <1>8 DEF Covered, n
  <2>2. i \in 1..Len(r) /\ r[i] = q[i] BY <1>1
  <2>3. QED BY <2>1, <2>2 DEF Covered
<1>9. ASSUME NEW c, x.ticket = c.ticket, x.expires_at = c.created_at + Lifetime
      PROVE  Covered(c, r, x.is_udp)
  <2>1. n + 1 \in 1..Len(r) /\ r[n + 1] = x BY <1>1
  <2>2. QED BY <2>1, <1>9 DEF Covered
<1>10. QED BY <1>1, <1>7, <1>8, <1>9 DEF r

\* An entry that DoLazyCleanup keeps has its place in what is left of the queue,
\* and has not expired.
LEMMA KeptCovered ==
  ASSUME TypeOK, QueueInv, NEW c, NEW u \in BOOLEAN,
         Covered(c, ticket_expiration_queue, u), c.ticket \notin ExpiredTickets(u)
  PROVE  Covered(c, KeptQueue, u) /\ now < c.created_at + Lifetime
<1> DEFINE q == ticket_expiration_queue
           n == Len(q)
           k == Expired
<1>1. q \in Seq(Expiries) /\ now \in Nat BY DEF TypeOK, Expiries
<1>2. PICK i \in 1..n : /\ q[i].ticket = c.ticket /\ q[i].is_udp = u
                        /\ q[i].expires_at = c.created_at + Lifetime
  BY DEF Covered
<1>3. n \in Nat /\ k \in 0..n BY <1>1, ExpiredSpec
<1>4. k < n => now < q[k + 1].expires_at BY <1>1, ExpiredSpec
<1>5. /\ Len(KeptQueue) = n - k
      /\ \A j \in 1..Len(KeptQueue) : KeptQueue[j] = q[j + k]
  BY <1>1, KeptQueueSpec
<1>6. i \notin 1..k
  <2>1. ASSUME i \in 1..k PROVE FALSE
    <3>1. i \in {j \in 1..k : q[j].is_udp = u} BY <2>1, <1>2
    <3>2. q[i].ticket \in ExpiredTickets(u) BY <3>1 DEF ExpiredTickets
    <3>3. QED BY <3>2, <1>2
  <2>2. QED BY <2>1
<1>7. \A j \in 1..n : q[j].expires_at \in Nat
  <2>1. \A j \in 1..n : q[j] \in Expiries BY <1>1
  <2>2. QED BY <2>1 DEF Expiries
<1>8. \A j, l \in 1..n : j <= l => q[j].expires_at <= q[l].expires_at
  BY DEF QueueInv, Chronological
<1> HIDE DEF k, n, q
<1>9. /\ i - k \in 1..(n - k) /\ (i - k) + k = i
      /\ k + 1 <= i /\ k + 1 \in 1..n /\ k < n
  BY <1>3, <1>6
<1>10. KeptQueue[i - k] = q[i] BY <1>5, <1>9
<1>11. Covered(c, KeptQueue, u) BY <1>2, <1>5, <1>9, <1>10 DEF Covered
<1>12. now < q[i].expires_at BY <1>1, <1>4, <1>7, <1>8, <1>9
<1>13. QED BY <1>11, <1>12, <1>2

\* DoLazyCleanup leaves the queue in order and covering what is left.
LEMMA CleanupCovers ==
  ASSUME TypeOK, QueueInv
  PROVE  /\ KeptQueue \in Seq(Expiries)
         /\ Chronological(KeptQueue)
         /\ \A c \in KeptConns : Covered(c, KeptQueue, FALSE) /\ now < c.created_at + Lifetime
         /\ \A c \in KeptUdp : Covered(c, KeptQueue, TRUE) /\ now < c.created_at + Lifetime
<1> DEFINE q == ticket_expiration_queue
           k == Expired
<1>1. q \in Seq(Expiries) /\ now \in Nat BY DEF TypeOK, Expiries
<1>2. /\ KeptQueue \in Seq(Expiries)
      /\ \A j \in 1..Len(KeptQueue) :
           j + k \in 1..Len(q) /\ KeptQueue[j] = q[j + k]
      /\ k \in Nat
  BY <1>1, KeptQueueSpec, ExpiredSpec
<1>3. Chronological(KeptQueue)
  <2> HIDE DEF k
  <2>1. \A i \in 1..Len(KeptQueue) : KeptQueue[i].expires_at <= now + Lifetime
    BY <1>2 DEF QueueInv, Chronological
  <2>2. ASSUME NEW i \in 1..Len(KeptQueue), NEW j \in 1..Len(KeptQueue), i <= j
        PROVE  KeptQueue[i].expires_at <= KeptQueue[j].expires_at
    <3>1. i + k <= j + k BY <2>2, <1>2
    <3>2. q[i + k].expires_at <= q[j + k].expires_at
      BY <3>1, <1>2 DEF QueueInv, Chronological
    <3>3. QED BY <3>2, <1>2
  <2>3. QED BY <2>1, <2>2 DEF Chronological
<1>4. \A c \in KeptConns : Covered(c, KeptQueue, FALSE) /\ now < c.created_at + Lifetime
  <2>1. \A c \in KeptConns : /\ Covered(c, q, FALSE)
                             /\ c.ticket \notin ExpiredTickets(FALSE)
    BY DEF KeptConns, QueueInv
  <2>2. QED BY <2>1, KeptCovered
<1>5. \A c \in KeptUdp : Covered(c, KeptQueue, TRUE) /\ now < c.created_at + Lifetime
  <2>1. \A c \in KeptUdp : /\ Covered(c, q, TRUE)
                           /\ c.ticket \notin ExpiredTickets(TRUE)
    BY DEF KeptUdp, QueueInv
  <2>2. QED BY <2>1, KeptCovered
<1>6. QED BY <1>2, <1>3, <1>4, <1>5

-----------------------------------------------------------------------------
(* What the steps do to the visitors and to the tables.                      *)

\* A visitor's ticket is never that of a UDP session.
LEMMA TicketKinds ==
  /\ \A v \in Visitors : \A p : Ticket(v, p) \in Tickets /\ Ticket(v, p) \notin UdpTickets
  /\ UdpTickets \subseteq Tickets
  /\ \A n \in 0..MaxDatagrams : UdpTicket(n) \in UdpTickets
<1>1. ASSUME NEW v \in Visitors, NEW p
      PROVE  Ticket(v, p) \in Tickets /\ Ticket(v, p) \notin UdpTickets
  <2>1. CASE Ticket(v, p) = TcpTicket(v)
    BY <2>1 DEF Tickets, TcpTicket, UdpTicket, UdpTickets
  <2>2. CASE Ticket(v, p) = VhostTicket(v)
    BY <2>2 DEF Tickets, VhostTicket, UdpTicket, UdpTickets
  <2>3. QED BY <2>1, <2>2 DEF Ticket
<1>2. UdpTickets \subseteq Tickets BY DEF Tickets, UdpTickets
<1>3. QED BY <1>1, <1>2 DEF UdpTickets

\* The visitor w only goes on: it is registered, or its socket is closed.
GoesOn(w) ==
  /\ visitor'[w].proxy = visitor[w].proxy
  /\ visitor'[w].generation = visitor[w].generation
  /\ visitor'[w].by = visitor[w].by
  /\ visitor'[w].counter = visitor[w].counter
  /\ \/ visitor'[w].state = visitor[w].state
     \/ visitor[w].state # "new" /\ visitor'[w].state = "closed"
     \/ visitor[w].state = "accepted" /\ visitor'[w].state = "pending"

VisitorRecord ==
  [state : {"new", "accepted", "pending", "served", "closed"},
   proxy : Proxies \union {NoProxy}, generation : Nat,
   by : Proxies \union {NoProxy}, counter : Nat \union {-1}]

\* A visitor's record with another state.
LEMMA StateChange ==
  ASSUME NEW w \in Visitors, visitor[w] \in VisitorRecord,
         NEW s \in {"pending", "closed"}, visitor'[w] = [visitor[w] EXCEPT !.state = s],
         \/ visitor[w].state \in {"accepted", "pending"} /\ s = "closed"
         \/ visitor[w].state = "accepted"
         \/ visitor[w].state = "served" /\ s = "closed"
  PROVE  visitor'[w] \in VisitorRecord /\ GoesOn(w) /\ visitor'[w].state = s
<1> DEFINE r == visitor[w]
           x == visitor'[w]
<1>1. r \in VisitorRecord /\ x = [r EXCEPT !.state = s] OBVIOUS
<1>2. /\ x \in VisitorRecord /\ x.state = s
      /\ x.proxy = r.proxy /\ x.generation = r.generation
      /\ x.by = r.by /\ x.counter = r.counter
  <2> HIDE DEF r, x
  <2>1. QED BY <1>1 DEF VisitorRecord
<1>3. GoesOn(w) BY <1>2 DEF GoesOn
<1>4. QED BY <1>2, <1>3

\* DoLazyCleanup and RegisterUserConn on the visitors: those whose entries are
\* removed are closed, the new one waits or is closed, the others stay.
LEMMA RegisterVisitors ==
  ASSUME TypeOK, TableInv, NEW v \in Visitors, visitor[v].state = "accepted",
         RegisterUserConn(v, visitor[v].proxy)
  PROVE  LET stays == ~Full /\ ~\E c \in KeptConns : c.ticket = Ticket(v, visitor[v].proxy)
         IN  /\ visitor' \in [Visitors -> VisitorRecord]
             /\ \A w \in Visitors : GoesOn(w)
             /\ visitor'[v].state = IF stays THEN "pending" ELSE "closed"
             /\ \A w \in Visitors \ {v} :
                  visitor'[w].state =
                    IF w \in Closing(pending_user_conns \ KeptConns) THEN "closed"
                    ELSE visitor[w].state
<1> DEFINE stays == ~Full /\ ~\E c \in KeptConns : c.ticket = Ticket(v, visitor[v].proxy)
           gone  == Closing(pending_user_conns \ KeptConns)
           st    == IF stays THEN "pending" ELSE "closed"
<1>1. visitor \in [Visitors -> VisitorRecord] BY DEF TypeOK, VisitorRecord
<1>2. visitor' = [w \in Visitors |->
                    IF w = v THEN [visitor[v] EXCEPT !.state = st]
                    ELSE IF w \in gone THEN [visitor[w] EXCEPT !.state = "closed"]
                    ELSE visitor[w]]
  BY DEF RegisterUserConn
<1>3. \A w \in gone : visitor[w].state = "pending" BY DEF Closing, TableInv
<1>4. st \in {"pending", "closed"} OBVIOUS
<1> HIDE DEF st, gone
<1>5. /\ visitor'[v] \in VisitorRecord /\ GoesOn(v) /\ visitor'[v].state = st
  <2>1. visitor'[v] = [visitor[v] EXCEPT !.state = st] BY <1>2
  <2>2. QED BY <2>1, <1>1, <1>4, StateChange
<1>6. ASSUME NEW w \in Visitors \ {v}
      PROVE  /\ visitor'[w] \in VisitorRecord /\ GoesOn(w)
             /\ visitor'[w].state = IF w \in gone THEN "closed" ELSE visitor[w].state
  <2>1. CASE w \in gone
    <3>1. visitor'[w] = [visitor[w] EXCEPT !.state = "closed"] BY <1>2, <2>1
    <3>2. QED BY <3>1, <2>1, <1>1, <1>3, StateChange
  <2>2. CASE w \notin gone
    <3>1. visitor'[w] = visitor[w] BY <1>2, <2>2
    <3>2. QED BY <3>1, <2>2, <1>1 DEF GoesOn
  <2>3. QED BY <2>1, <2>2
<1>7. visitor' \in [Visitors -> VisitorRecord]
  <2>1. \A w \in Visitors : visitor'[w] \in VisitorRecord BY <1>5, <1>6
  <2>2. visitor' = [w \in Visitors |-> visitor'[w]] BY <1>2
  <2>3. QED BY <2>1, <2>2
<1>8. QED BY <1>5, <1>6, <1>7 DEF st, gone

\* A set of table entries goes: its visitors are closed, the others stay.
LEMMA CloseVisitors ==
  ASSUME TypeOK, TableInv, NEW C, C \subseteq pending_user_conns,
         visitor' = [w \in Visitors |->
                       IF w \in Closing(C) THEN [visitor[w] EXCEPT !.state = "closed"]
                       ELSE visitor[w]]
  PROVE  /\ visitor' \in [Visitors -> VisitorRecord]
         /\ \A w \in Visitors : GoesOn(w)
         /\ \A w \in Visitors :
              visitor'[w].state =
                IF w \in Closing(C) THEN "closed" ELSE visitor[w].state
<1>1. visitor \in [Visitors -> VisitorRecord] BY DEF TypeOK, VisitorRecord
<1>2. \A w \in Closing(C) : visitor[w].state = "pending" BY DEF Closing, TableInv
<1>3. ASSUME NEW w \in Visitors
      PROVE  /\ visitor'[w] \in VisitorRecord /\ GoesOn(w)
             /\ visitor'[w].state =
                  IF w \in Closing(C) THEN "closed" ELSE visitor[w].state
  <2>1. CASE w \in Closing(C)
    <3>1. visitor'[w] = [visitor[w] EXCEPT !.state = "closed"] BY <2>1
    <3>2. QED BY <3>1, <2>1, <1>1, <1>2, StateChange
  <2>2. CASE w \notin Closing(C)
    <3>1. visitor'[w] = visitor[w] BY <2>2
    <3>2. QED BY <3>1, <2>2, <1>1 DEF GoesOn
  <2>3. QED BY <2>1, <2>2
<1>4. visitor' \in [Visitors -> VisitorRecord]
  <2>1. \A w \in Visitors : visitor'[w] \in VisitorRecord BY <1>3
  <2>2. visitor' = [w \in Visitors |-> visitor'[w]] OBVIOUS
  <2>3. QED BY <2>1, <2>2
<1>5. QED BY <1>3, <1>4

\* What DoLazyCleanup keeps is part of what there was.
LEMMA KeptSubsets ==
  /\ KeptConns \subseteq pending_user_conns
  /\ KeptUdp \subseteq pending_udp_sessions
  /\ \A p \in Proxies : MapAfterCleanup(p) \subseteq endpoint_to_ticket[p]
  BY DEF KeptConns, KeptUdp, MapAfterCleanup

Conns == [ticket : Tickets, visitor : Visitors, proxy : Proxies, created_at : Nat]

Sessions == [ticket : Tickets, endpoint : Endpoints, proxy : Proxies,
             listener : Nat, created_at : Nat]

\* The types of the tables, the queue and the maps after a registration.
LEMMA RegisterTypes ==
  ASSUME TypeOK, QueueInv, NEW v \in Visitors, visitor[v].proxy \in Proxies,
         RegisterUserConn(v, visitor[v].proxy)
  PROVE  /\ pending_user_conns' \subseteq Conns
         /\ pending_udp_sessions' \subseteq Sessions
         /\ ticket_expiration_queue' \in Seq(Expiries)
         /\ endpoint_to_ticket' \in [Proxies -> SUBSET (Endpoints \X Tickets)]
<1> DEFINE p   == visitor[v].proxy
           new == [ticket |-> Ticket(v, p), visitor |-> v, proxy |-> p,
                   created_at |-> now]
           x   == NewExpiry(Ticket(v, p), FALSE)
<1>1. new \in Conns BY TicketKinds DEF TypeOK, Conns
<1>2. x \in Expiries
  BY TicketKinds, HandoffAssumption DEF TypeOK, Expiries, NewExpiry
<1>3. KeptConns \subseteq Conns BY KeptSubsets DEF TypeOK, Conns
<1> HIDE DEF x, new
<1>4. pending_user_conns' \subseteq Conns
  <2>1. pending_user_conns' = KeptConns \/ pending_user_conns' = KeptConns \union {new}
    BY DEF RegisterUserConn, new
  <2>2. QED BY <2>1, <1>1, <1>3
<1>5. pending_udp_sessions' \subseteq Sessions
  BY KeptSubsets DEF TypeOK, Sessions, RegisterUserConn
<1>6. ticket_expiration_queue' \in Seq(Expiries)
  <2>1. KeptQueue \in Seq(Expiries) BY CleanupCovers
  <2>2. \/ ticket_expiration_queue' = KeptQueue
        \/ ticket_expiration_queue' = Append(KeptQueue, x)
    BY DEF RegisterUserConn, x
  <2>3. QED BY <2>1, <2>2, <1>2
<1>7. endpoint_to_ticket' \in [Proxies -> SUBSET (Endpoints \X Tickets)]
  <2>1. endpoint_to_ticket' = [q \in Proxies |-> MapAfterCleanup(q)]
    BY DEF RegisterUserConn
  <2>2. \A q \in Proxies : MapAfterCleanup(q) \subseteq Endpoints \X Tickets
    BY KeptSubsets DEF TypeOK
  <2>3. QED BY <2>1, <2>2
<1>8. QED BY <1>4, <1>5, <1>6, <1>7

\* The same when a datagram starts a session.
LEMMA ReceiveTypes ==
  ASSUME TypeOK, StartedInv, QueueInv, TableInv,
         NEW p \in Proxies, NEW e \in Endpoints, receive(p, e)
  PROVE  TypeOK' /\ StartedInv'
<1> DEFINE t   == UdpTicket(sessions_started)
           new == [ticket |-> t, endpoint |-> e, proxy |-> p,
                   listener |-> generation[p], created_at |-> now]
           x   == NewExpiry(t, TRUE)
<1>1. t \in Tickets
  <2>1. sessions_started \in 0..MaxDatagrams
    BY HandoffAssumption DEF TypeOK, receive
  <2>2. QED BY <2>1, TicketKinds
<1> HIDE DEF t
<1>2. new \in Sessions BY <1>1 DEF TypeOK, Sessions
<1>3. x \in Expiries BY <1>1, HandoffAssumption DEF TypeOK, Expiries, NewExpiry
<1>4. KeptUdp \subseteq Sessions BY KeptSubsets DEF TypeOK, Sessions
<1> HIDE DEF x, new
<1>5. pending_user_conns' \subseteq Conns BY KeptSubsets DEF TypeOK, Conns, receive
<1>6. pending_udp_sessions' \subseteq Sessions
  <2>1. pending_udp_sessions' = KeptUdp \/ pending_udp_sessions' = KeptUdp \union {new}
    BY DEF receive, new, t
  <2>2. QED BY <2>1, <1>2, <1>4
<1>7. ticket_expiration_queue' \in Seq(Expiries)
  <2>1. KeptQueue \in Seq(Expiries) BY CleanupCovers
  <2>2. \/ ticket_expiration_queue' = KeptQueue
        \/ ticket_expiration_queue' = Append(KeptQueue, x)
    BY DEF receive, x, t
  <2>3. QED BY <2>1, <2>2, <1>3
<1>8. endpoint_to_ticket' \in [Proxies -> SUBSET (Endpoints \X Tickets)]
  <2>1. endpoint_to_ticket' =
          [q \in Proxies |->
             MapAfterCleanup(q) \union (IF q = p THEN {<<e, t>>} ELSE {})]
    BY DEF receive, t
  <2>2. \A q \in Proxies : MapAfterCleanup(q) \subseteq Endpoints \X Tickets
    BY KeptSubsets DEF TypeOK
  <2>3. <<e, t>> \in Endpoints \X Tickets BY <1>1
  <2>4. QED BY <2>1, <2>2, <2>3
<1>9. visitor' \in [Visitors -> VisitorRecord]
  <2>1. pending_user_conns \ KeptConns \subseteq pending_user_conns OBVIOUS
  <2>2. visitor' =
          [w \in Visitors |->
             IF w \in Closing(pending_user_conns \ KeptConns)
             THEN [visitor[w] EXCEPT !.state = "closed"] ELSE visitor[w]]
    BY DEF receive
  <2>3. QED BY <2>1, <2>2, CloseVisitors
<1>10. announced' \subseteq Proxies \X Tickets
  <2>1. announced' = announced \/ announced' = announced \union {<<p, t>>}
    BY DEF receive, SendNewUserConn, t
  <2>2. <<p, t>> \in Proxies \X Tickets BY <1>1
  <2>3. QED BY <2>1, <2>2 DEF TypeOK
<1>11. sessions_started' \in Nat /\ StartedInv'
  BY HandoffAssumption DEF receive, TypeOK, StartedInv
<1>12. UNCHANGED <<listening, session, generation, active_conns, offered, now, restarts>>
  BY DEF receive, listeners
<1>13. QED
  BY <1>5, <1>6, <1>7, <1>8, <1>9, <1>10, <1>11, <1>12
  DEF TypeOK, Conns, Sessions, Expiries, VisitorRecord

\* Every step keeps the types.
LEMMA TypeStep ==
  ASSUME IInv, [Next]_vars
  PROVE  TypeOK' /\ StartedInv'
<1> USE DEF IInv
<1>1. visitor \in [Visitors -> VisitorRecord] BY DEF TypeOK, VisitorRecord
<1>2. ASSUME NEW v \in Visitors, NEW p \in Proxies, connect(v, p)
      PROVE  TypeOK' /\ StartedInv'
  <2>1. Visitor("accepted", p, generation[p]) \in VisitorRecord
    BY DEF TypeOK, Visitor, VisitorRecord
  <2>2. visitor' \in [Visitors -> VisitorRecord] BY <1>1, <1>2, <2>1 DEF connect
  <2>3. QED
    BY <1>2, <2>2
    DEF connect, TypeOK, StartedInv, VisitorRecord, tables, listeners, mail, counts
<1>3. ASSUME NEW v \in Visitors, accept(v) PROVE TypeOK' /\ StartedInv'
  <2> DEFINE p == visitor[v].proxy
  <2>1. p \in Proxies /\ visitor[v].state = "accepted"
    BY <1>3 DEF accept, VisitorInv
  <2>2. RegisterUserConn(v, p) BY <1>3 DEF accept
  <2>3. /\ pending_user_conns' \subseteq Conns
        /\ pending_udp_sessions' \subseteq Sessions
        /\ ticket_expiration_queue' \in Seq(Expiries)
        /\ endpoint_to_ticket' \in [Proxies -> SUBSET (Endpoints \X Tickets)]
    BY <2>1, <2>2, RegisterTypes
  <2>4. visitor' \in [Visitors -> VisitorRecord] BY <2>1, <2>2, RegisterVisitors
  <2>5. announced' \subseteq Proxies \X Tickets
    <3>1. announced' = announced \/ announced' = announced \union {<<p, Ticket(v, p)>>}
      BY <1>3 DEF accept, SendNewUserConn
    <3>2. <<p, Ticket(v, p)>> \in Proxies \X Tickets BY <2>1, TicketKinds
    <3>3. QED BY <3>1, <3>2 DEF TypeOK
  <2>6. active_conns' \in [Proxies -> Nat]
    <3>1. active_conns' = active_conns \/ active_conns' = [active_conns EXCEPT ![p] = @ + 1]
      BY <1>3 DEF accept
    <3>2. active_conns \in [Proxies -> Nat] BY DEF TypeOK
    <3> HIDE DEF p, IInv
    <3>3. QED BY <3>1, <3>2, <2>1
  <2>7. UNCHANGED <<listening, session, generation, offered, now, sessions_started,
                    restarts>>
    BY <1>3 DEF accept, listeners, counts
  <2>8. QED
    BY <2>3, <2>4, <2>5, <2>6, <2>7
    DEF TypeOK, StartedInv, Conns, Sessions, Expiries, VisitorRecord
<1>4. ASSUME NEW v \in Visitors, vhost_accept(v) PROVE TypeOK' /\ StartedInv'
  <2> DEFINE p == visitor[v].proxy
  <2>1. p \in Proxies /\ visitor[v].state = "accepted"
    BY <1>4 DEF vhost_accept, VisitorInv
  <2>2. UNCHANGED <<listening, session, generation, active_conns, offered, now,
                    sessions_started, restarts>>
    BY <1>4 DEF vhost_accept, listeners, counts
  <2>3. CASE listening[p]
    <3>1. RegisterUserConn(v, p) BY <1>4, <2>3 DEF vhost_accept
    <3>2. /\ pending_user_conns' \subseteq Conns
          /\ pending_udp_sessions' \subseteq Sessions
          /\ ticket_expiration_queue' \in Seq(Expiries)
          /\ endpoint_to_ticket' \in [Proxies -> SUBSET (Endpoints \X Tickets)]
      BY <2>1, <3>1, RegisterTypes
    <3>3. visitor' \in [Visitors -> VisitorRecord] BY <2>1, <3>1, RegisterVisitors
    <3>4. announced' \subseteq Proxies \X Tickets
      <4>1. \/ announced' = announced
            \/ announced' = announced \union {<<p, Ticket(v, p)>>}
        BY <1>4, <2>3 DEF vhost_accept, SendNewUserConn
      <4>2. <<p, Ticket(v, p)>> \in Proxies \X Tickets BY <2>1, TicketKinds
      <4>3. QED BY <4>1, <4>2 DEF TypeOK
    <3>5. QED
      BY <2>2, <3>2, <3>3, <3>4
      DEF TypeOK, StartedInv, Conns, Sessions, Expiries, VisitorRecord
  <2>4. CASE ~listening[p]
    <3>1. UNCHANGED <<tables, endpoint_to_ticket, announced>>
      BY <1>4, <2>4 DEF vhost_accept
    <3>2. visitor' = [visitor EXCEPT ![v].state = "closed"]
      BY <1>4, <2>4 DEF vhost_accept
    <3>3. visitor' \in [Visitors -> VisitorRecord] BY <1>1, <3>2 DEF VisitorRecord
    <3>4. QED BY <2>2, <3>1, <3>3 DEF TypeOK, StartedInv, VisitorRecord, tables
  <2>5. QED BY <2>3, <2>4
<1>5. ASSUME NEW v \in Visitors, bridge_stops(v) PROVE TypeOK' /\ StartedInv'
  <2> DEFINE p == visitor[v].proxy
  <2>1. p \in Proxies BY <1>5 DEF bridge_stops, VisitorInv
  <2>2. visitor' = [visitor EXCEPT ![v].state = "closed"] BY <1>5 DEF bridge_stops
  <2>3. visitor' \in [Visitors -> VisitorRecord] BY <1>1, <2>2 DEF VisitorRecord
  <2>4. active_conns' \in [Proxies -> Nat]
    <3>1. \/ active_conns' = active_conns
          \/ /\ active_conns[p] > 0
             /\ active_conns' = [active_conns EXCEPT ![p] = @ - 1]
      BY <1>5 DEF bridge_stops
    <3>2. active_conns \in [Proxies -> Nat] BY DEF TypeOK
    <3> HIDE DEF p, IInv
    <3>3. QED BY <3>1, <3>2, <2>1
  <2>5. QED
    BY <1>5, <2>3, <2>4
    DEF bridge_stops, TypeOK, StartedInv, VisitorRecord, tables, listeners, mail, counts
<1>6. ASSUME NEW p \in Proxies, NEW e \in Endpoints, receive(p, e)
      PROVE  TypeOK' /\ StartedInv'
  BY <1>6, ReceiveTypes
<1>7. ASSUME NEW m \in announced \union offered, client_offers(m) \/ offer_lost(m)
      PROVE  TypeOK' /\ StartedInv'
  BY <1>7
  DEF client_offers, offer_lost, TypeOK, StartedInv, tables, listeners, counts
<1>8. ASSUME NEW m \in offered, claim(m) PROVE TypeOK' /\ StartedInv'
  <2>1. m[1] \in Proxies BY DEF TypeOK
  <2>2. visitor' \in [Visitors -> VisitorRecord]
    <3>1. CASE UNCHANGED visitor BY <1>1, <3>1
    <3>2. ASSUME NEW c \in pending_user_conns,
                 visitor' = [visitor EXCEPT ![c.visitor].state = "served",
                                            ![c.visitor].by = m[1],
                                            ![c.visitor].counter =
                                               FindProxy(m[1], c.proxy)]
          PROVE  visitor' \in [Visitors -> VisitorRecord]
      <4>1. FindProxy(m[1], c.proxy) \in Nat \union {-1} BY DEF FindProxy, TypeOK
      <4>2. c.visitor \in Visitors BY DEF TypeOK
      <4>3. QED BY <3>2, <4>1, <4>2, <1>1, <2>1 DEF VisitorRecord
    <3>3. QED BY <1>8, <3>1, <3>2 DEF claim
  <2>3. endpoint_to_ticket' \in [Proxies -> SUBSET (Endpoints \X Tickets)]
    <3>1. CASE UNCHANGED endpoint_to_ticket BY <3>1 DEF TypeOK
    <3>2. ASSUME NEW c \in pending_udp_sessions,
                 endpoint_to_ticket' =
                   [endpoint_to_ticket EXCEPT ![c.proxy] =
                      {pair \in @ : \/ pair[1] # c.endpoint
                                    \/ c.listener # generation[c.proxy]}]
          PROVE  endpoint_to_ticket' \in [Proxies -> SUBSET (Endpoints \X Tickets)]
      BY <3>2 DEF TypeOK
    <3>3. QED BY <1>8, <3>1, <3>2 DEF claim
  <2>4. /\ pending_user_conns' \subseteq pending_user_conns
        /\ pending_udp_sessions' \subseteq pending_udp_sessions
        /\ offered' \subseteq offered
    BY <1>8 DEF claim
  <2>5. UNCHANGED <<ticket_expiration_queue, listening, session, generation,
                    active_conns, announced, now, sessions_started, restarts>>
    BY <1>8 DEF claim, listeners, counts
  <2>6. QED BY <2>2, <2>3, <2>4, <2>5 DEF TypeOK, StartedInv, VisitorRecord
<1>9. ASSUME NEW p \in Proxies, control_stop(p) PROVE TypeOK' /\ StartedInv'
  <2>1. visitor' \in [Visitors -> VisitorRecord]
    <3>1. CASE UNCHANGED visitor BY <1>1, <3>1
    <3>2. CASE visitor' = [w \in Visitors |->
                             IF w \in Closing(ClearedConns(p))
                             THEN [visitor[w] EXCEPT !.state = "closed"]
                             ELSE visitor[w]]
      <4>1. ClearedConns(p) \subseteq pending_user_conns BY DEF ClearedConns
      <4>2. QED BY <3>2, <4>1, CloseVisitors
    <3>3. QED BY <1>9, <3>1, <3>2 DEF control_stop
  <2>2. QED
    BY <1>9, <2>1 DEF control_stop, TypeOK, StartedInv, VisitorRecord, mail, counts
<1>10. ASSUME NEW p \in Proxies, listener_stop(p) \/ unregister(p)
       PROVE  TypeOK' /\ StartedInv'
  BY <1>10 DEF listener_stop, unregister, TypeOK, StartedInv, tables, mail, counts
<1>11. ASSUME NEW p \in Proxies, register(p) PROVE TypeOK' /\ StartedInv'
  BY <1>11 DEF register, TypeOK, StartedInv, tables, mail
<1>12. CASE Tick
  BY <1>12 DEF Tick, TypeOK, StartedInv, tables, listeners, mail
<1>13. CASE UNCHANGED vars
  BY <1>13 DEF vars, TypeOK, StartedInv, tables, listeners, mail, counts
<1>14. QED
  BY <1>2, <1>3, <1>4, <1>5, <1>6, <1>7, <1>8, <1>9, <1>10, <1>11, <1>12, <1>13
  DEF Next

\* A step that is not a registration adds nothing to the tables.
LEMMA QuietTables ==
  ASSUME IInv, [Next]_vars, ~Registers
  PROVE  /\ pending_user_conns' \subseteq pending_user_conns
         /\ pending_udp_sessions' \subseteq pending_udp_sessions
         /\ UNCHANGED ticket_expiration_queue
         /\ now' \in Nat /\ now <= now'
<1> DEFINE Goal == /\ pending_user_conns' \subseteq pending_user_conns
                   /\ pending_udp_sessions' \subseteq pending_udp_sessions
                   /\ UNCHANGED ticket_expiration_queue
                   /\ now' \in Nat /\ now <= now'
<1>1. now \in Nat BY DEF IInv, TypeOK
<1>2. ASSUME NEW v \in Visitors, vhost_accept(v) PROVE Goal
  <2>1. ~listening[visitor[v].proxy] BY <1>2 DEF Registers
  <2>2. QED BY <1>1, <1>2, <2>1 DEF vhost_accept, tables, counts
<1>3. ASSUME NEW v \in Visitors, NEW p \in Proxies, connect(v, p) PROVE Goal
  BY <1>1, <1>3 DEF connect, tables, counts
<1>4. ASSUME NEW v \in Visitors, bridge_stops(v) PROVE Goal
  BY <1>1, <1>4 DEF bridge_stops, tables, counts
<1>5. ASSUME NEW m \in announced \union offered, client_offers(m) \/ offer_lost(m)
      PROVE  Goal
  BY <1>1, <1>5 DEF client_offers, offer_lost, tables, counts
<1>6. ASSUME NEW m \in offered, claim(m) PROVE Goal
  <2>1. UNCHANGED <<ticket_expiration_queue, now>> BY <1>6 DEF claim, counts
  <2>2. /\ pending_user_conns' \subseteq pending_user_conns
        /\ pending_udp_sessions' \subseteq pending_udp_sessions
    BY <1>6 DEF claim
  <2>3. QED BY <1>1, <2>1, <2>2
<1>7. ASSUME NEW p \in Proxies, control_stop(p) PROVE Goal
  BY <1>1, <1>7 DEF control_stop, counts
<1>8. ASSUME NEW p \in Proxies, listener_stop(p) \/ unregister(p) \/ register(p)
      PROVE  Goal
  BY <1>1, <1>8 DEF listener_stop, unregister, register, tables, counts
<1>9. ASSUME Tick PROVE Goal BY <1>1, <1>9 DEF Tick, tables
<1>10. ASSUME UNCHANGED vars PROVE Goal BY <1>1, <1>10 DEF vars, tables, counts
<1>11. ASSUME NEW v \in Visitors, accept(v) PROVE Goal
  BY <1>11 DEF Registers
<1>12. ASSUME NEW p \in Proxies, NEW e \in Endpoints, receive(p, e) PROVE Goal
  BY <1>12 DEF Registers
<1> HIDE DEF Goal
<1>13. Goal
  BY <1>2, <1>3, <1>4, <1>5, <1>6, <1>7, <1>8, <1>9, <1>10, <1>11, <1>12 DEF Next
<1>14. QED BY <1>13 DEF Goal

\* A registration: DoLazyCleanup, and then nothing more, or the expiry of the
\* ticket and usually the entry of the connection.
LEMMA RegistrationTables ==
  ASSUME IInv, Registers
  PROVE  /\ now' = now
         /\ \/ /\ pending_user_conns' = KeptConns
               /\ pending_udp_sessions' = KeptUdp
               /\ ticket_expiration_queue' = KeptQueue
            \/ /\ ~Full
               /\ \E x \in Expiries :
                    /\ x.expires_at = now + Lifetime
                    /\ ticket_expiration_queue' = Append(KeptQueue, x)
                    /\ \/ /\ pending_user_conns' = KeptConns
                          /\ pending_udp_sessions' = KeptUdp
                       \/ /\ pending_udp_sessions' = KeptUdp
                          /\ x.is_udp = FALSE
                          /\ \E c \in Conns :
                               /\ pending_user_conns' = KeptConns \union {c}
                               /\ c.ticket = x.ticket /\ c.created_at = now
                       \/ /\ pending_user_conns' = KeptConns
                          /\ x.is_udp = TRUE
                          /\ \E c \in Sessions :
                               /\ pending_udp_sessions' = KeptUdp \union {c}
                               /\ c.ticket = x.ticket /\ c.created_at = now
<1> DEFINE Nothing == /\ pending_user_conns' = KeptConns
                      /\ pending_udp_sessions' = KeptUdp
                      /\ ticket_expiration_queue' = KeptQueue
           Entered(x) ==
             \/ /\ pending_user_conns' = KeptConns
                /\ pending_udp_sessions' = KeptUdp
             \/ /\ pending_udp_sessions' = KeptUdp
                /\ x.is_udp = FALSE
                /\ \E c \in Conns : /\ pending_user_conns' = KeptConns \union {c}
                                    /\ c.ticket = x.ticket /\ c.created_at = now
             \/ /\ pending_user_conns' = KeptConns
                /\ x.is_udp = TRUE
                /\ \E c \in Sessions : /\ pending_udp_sessions' = KeptUdp \union {c}
                                       /\ c.ticket = x.ticket /\ c.created_at = now
           Something == /\ ~Full
                        /\ \E x \in Expiries :
                             /\ x.expires_at = now + Lifetime
                             /\ ticket_expiration_queue' = Append(KeptQueue, x)
                             /\ Entered(x)
<1>1. TypeOK /\ now \in Nat BY DEF IInv, TypeOK
<1>2. ASSUME NEW v \in Visitors, visitor[v].state = "accepted",
             RegisterUserConn(v, visitor[v].proxy)
      PROVE  Nothing \/ Something
  <2> DEFINE p   == visitor[v].proxy
             t   == Ticket(v, p)
             c   == [ticket |-> t, visitor |-> v, proxy |-> p, created_at |-> now]
             x   == NewExpiry(t, FALSE)
  <2>1. p \in Proxies BY <1>2 DEF IInv, VisitorInv
  <2>2. t \in Tickets BY TicketKinds
  <2>3. CASE Full
    BY <1>2, <2>3 DEF RegisterUserConn
  <2>4. CASE ~Full
    <3>1. /\ pending_udp_sessions' = KeptUdp
          /\ ticket_expiration_queue' = Append(KeptQueue, x)
          /\ pending_user_conns' = KeptConns \/ pending_user_conns' = KeptConns \union {c}
      BY <1>2, <2>4 DEF RegisterUserConn
    <3> HIDE DEF p, t
    <3>2. c \in Conns /\ c.ticket = t /\ c.created_at = now
      BY <1>1, <2>1, <2>2 DEF Conns
    <3>3. /\ x \in Expiries /\ x.expires_at = now + Lifetime /\ x.ticket = t
          /\ x.is_udp = FALSE
      BY <1>1, <2>2, HandoffAssumption DEF Expiries, NewExpiry
    <3> HIDE DEF c, x
    <3>4. Entered(x) BY <3>1, <3>2, <3>3
    <3> HIDE DEF Entered
    <3>5. QED BY <2>4, <3>1, <3>3, <3>4
  <2>5. QED BY <2>3, <2>4
<1>3. ASSUME NEW p \in Proxies, NEW e \in Endpoints, receive(p, e)
      PROVE  Nothing \/ Something
  <2> DEFINE t   == UdpTicket(sessions_started)
             c   == [ticket |-> t, endpoint |-> e, proxy |-> p,
                     listener |-> generation[p], created_at |-> now]
             x   == NewExpiry(t, TRUE)
  <2>1. t \in Tickets
    <3>1. sessions_started \in 0..MaxDatagrams
      BY <1>3, <1>1, HandoffAssumption DEF TypeOK, receive
    <3>2. QED BY <3>1, TicketKinds
  <2>2. CASE Full
    BY <1>3, <2>2 DEF receive
  <2>3. CASE ~Full
    <3>1. /\ pending_user_conns' = KeptConns
          /\ ticket_expiration_queue' = Append(KeptQueue, x)
          /\ pending_udp_sessions' = KeptUdp \union {c}
      BY <1>3, <2>3 DEF receive
    <3> HIDE DEF t
    <3>2. c \in Sessions /\ c.ticket = t /\ c.created_at = now
      BY <1>1, <2>1 DEF Sessions, TypeOK
    <3>3. /\ x \in Expiries /\ x.expires_at = now + Lifetime /\ x.ticket = t
          /\ x.is_udp = TRUE
      BY <1>1, <2>1, HandoffAssumption DEF Expiries, NewExpiry
    <3> HIDE DEF c, x
    <3>4. Entered(x) BY <3>1, <3>2, <3>3
    <3> HIDE DEF Entered
    <3>5. QED BY <2>3, <3>1, <3>3, <3>4
  <2>4. QED BY <2>2, <2>3
<1>4. now' = now
  BY DEF Registers, accept, vhost_accept, receive, counts
<1> HIDE DEF Nothing, Something
<1>5. Nothing \/ Something
  BY <1>2, <1>3 DEF Registers, accept, vhost_accept
<1>6. QED BY <1>4, <1>5 DEF Nothing, Something

-----------------------------------------------------------------------------
(* The parts of the invariant that speak of the tables.                      *)

\* A registration keeps the queue covering the tables, and leaves nobody in
\* them whose ticket has expired.
LEMMA RegistrationCovers ==
  ASSUME IInv, Registers
  PROVE  QueueInv' /\ NobodyExpired'
<1>1. TypeOK /\ QueueInv /\ now \in Nat /\ now' = now
  BY RegistrationTables DEF IInv, TypeOK
<1>2. /\ KeptQueue \in Seq(Expiries) /\ Chronological(KeptQueue)
      /\ \A c \in KeptConns : Covered(c, KeptQueue, FALSE) /\ now < c.created_at + Lifetime
      /\ \A c \in KeptUdp : Covered(c, KeptQueue, TRUE) /\ now < c.created_at + Lifetime
  BY <1>1, CleanupCovers
<1>3. now < now + Lifetime BY <1>1, HandoffAssumption
<1>4. SUFFICES /\ Chronological(ticket_expiration_queue')
               /\ \A c \in pending_user_conns' :
                    /\ Covered(c, ticket_expiration_queue', FALSE)
                    /\ now < c.created_at + Lifetime
               /\ \A c \in pending_udp_sessions' :
                    /\ Covered(c, ticket_expiration_queue', TRUE)
                    /\ now < c.created_at + Lifetime
  BY <1>1 DEF QueueInv, NobodyExpired, Chronological, Covered
<1>5. CASE /\ pending_user_conns' = KeptConns
           /\ pending_udp_sessions' = KeptUdp
           /\ ticket_expiration_queue' = KeptQueue
  BY <1>2, <1>5
<1>6. ASSUME NEW x \in Expiries, x.expires_at = now + Lifetime,
             ticket_expiration_queue' = Append(KeptQueue, x),
             \/ /\ pending_user_conns' = KeptConns
                /\ pending_udp_sessions' = KeptUdp
             \/ /\ pending_udp_sessions' = KeptUdp
                /\ x.is_udp = FALSE
                /\ \E c \in Conns : /\ pending_user_conns' = KeptConns \union {c}
                                    /\ c.ticket = x.ticket /\ c.created_at = now
             \/ /\ pending_user_conns' = KeptConns
                /\ x.is_udp = TRUE
                /\ \E c \in Sessions : /\ pending_udp_sessions' = KeptUdp \union {c}
                                       /\ c.ticket = x.ticket /\ c.created_at = now
      PROVE  /\ Chronological(ticket_expiration_queue')
             /\ \A c \in pending_user_conns' :
                  /\ Covered(c, ticket_expiration_queue', FALSE)
                  /\ now < c.created_at + Lifetime
             /\ \A c \in pending_udp_sessions' :
                  /\ Covered(c, ticket_expiration_queue', TRUE)
                  /\ now < c.created_at + Lifetime
  <2> DEFINE q == Append(KeptQueue, x)
  <2>1. /\ Chronological(q)
        /\ \A c, u : Covered(c, KeptQueue, u) => Covered(c, q, u)
        /\ \A c : x.ticket = c.ticket /\ x.expires_at = c.created_at + Lifetime
                    => Covered(c, q, x.is_udp)
    BY <1>1, <1>2, <1>6, AppendCovers
  <2>2. ticket_expiration_queue' = q BY <1>6
  <2> HIDE DEF q
  <2>3. /\ \A c \in KeptConns : Covered(c, q, FALSE) /\ now < c.created_at + Lifetime
        /\ \A c \in KeptUdp : Covered(c, q, TRUE) /\ now < c.created_at + Lifetime
    BY <1>2, <2>1
  <2>4. \A c : c.ticket = x.ticket /\ c.created_at = now
                 => Covered(c, q, x.is_udp) /\ now < c.created_at + Lifetime
    BY <1>3, <1>6, <2>1
  <2>5. QED BY <1>6, <2>1, <2>2, <2>3, <2>4
<1>7. QED BY <1>5, <1>6, RegistrationTables

\* Every step keeps the queue covering the tables.
LEMMA QueueStep ==
  ASSUME IInv, [Next]_vars
  PROVE  QueueInv'
<1>1. CASE Registers BY <1>1, RegistrationCovers
<1>2. CASE ~Registers
  <2>1. /\ pending_user_conns' \subseteq pending_user_conns
        /\ pending_udp_sessions' \subseteq pending_udp_sessions
        /\ ticket_expiration_queue' = ticket_expiration_queue
        /\ now' \in Nat /\ now <= now'
    BY <1>2, QuietTables
  <2> DEFINE q == ticket_expiration_queue
  <2>2. /\ \A i \in 1..Len(q) : q[i].expires_at <= now + Lifetime
        /\ \A i, j \in 1..Len(q) : i <= j => q[i].expires_at <= q[j].expires_at
    BY DEF IInv, QueueInv, Chronological
  <2>3. \A i \in 1..Len(q) : q[i].expires_at \in Nat
    <3>1. q \in Seq(Expiries) BY DEF IInv, TypeOK, Expiries
    <3>2. \A i \in 1..Len(q) : q[i] \in Expiries BY <3>1
    <3>3. QED BY <3>2 DEF Expiries
  <2>4. now \in Nat /\ Lifetime \in Nat BY HandoffAssumption DEF IInv, TypeOK
  <2> HIDE DEF q
  <2>5. \A i \in 1..Len(q) : q[i].expires_at <= now' + Lifetime
    BY <2>1, <2>2, <2>3, <2>4
  <2>6. Chronological(ticket_expiration_queue)'
    BY <2>1, <2>2, <2>5 DEF Chronological, q
  <2>7. QED BY <2>1, <2>6 DEF IInv, QueueInv, Covered
<1>3. QED BY <1>1, <1>2

\* Every step keeps the tables finite and within the limit.
LEMMA LimitStep ==
  ASSUME IInv, [Next]_vars
  PROVE  LimitInv'
<1> DEFINE A == pending_user_conns
           B == pending_udp_sessions
           Small(C, D) == /\ IsFiniteSet(C) /\ IsFiniteSet(D)
                          /\ Cardinality(C) + Cardinality(D) <= MaxPending
<1>1. Small(A, B) /\ MaxPending \in Nat
  BY HandoffAssumption DEF IInv, LimitInv, PendingWithinLimit
<1>2. ASSUME NEW C, NEW D, C \subseteq A, D \subseteq B PROVE Small(C, D)
  <2> HIDE DEF A, B
  <2>1. IsFiniteSet(C) /\ Cardinality(C) <= Cardinality(A) BY <1>1, <1>2, FS_Subset
  <2>2. IsFiniteSet(D) /\ Cardinality(D) <= Cardinality(B) BY <1>1, <1>2, FS_Subset
  <2>3. /\ Cardinality(C) \in Nat /\ Cardinality(D) \in Nat
        /\ Cardinality(A) \in Nat /\ Cardinality(B) \in Nat
    BY <1>1, <2>1, <2>2, FS_CardinalityType
  <2>4. QED BY <1>1, <2>1, <2>2, <2>3
<1>3. Small(A', B') => LimitInv' BY DEF LimitInv, PendingWithinLimit
<1>4. CASE ~Registers
  <2>1. A' \subseteq A /\ B' \subseteq B BY <1>4, QuietTables
  <2> HIDE DEF Small, A, B
  <2>2. QED BY <2>1, <1>2, <1>3
<1>5. CASE Registers
  <2>1. KeptConns \subseteq A /\ KeptUdp \subseteq B BY KeptSubsets
  <2>2. Small(KeptConns, KeptUdp) BY <2>1, <1>2
  <2>3. CASE A' = KeptConns /\ B' = KeptUdp BY <2>2, <2>3, <1>3
  <2>4. ASSUME ~Full, NEW c,
               \/ A' = KeptConns \union {c} /\ B' = KeptUdp
               \/ A' = KeptConns /\ B' = KeptUdp \union {c}
        PROVE  LimitInv'
    <3>1. /\ Cardinality(KeptConns) \in Nat /\ Cardinality(KeptUdp) \in Nat
      BY <2>2, FS_CardinalityType
    <3>2. Cardinality(KeptConns) + Cardinality(KeptUdp) < MaxPending
      BY <2>4, <3>1, <1>1 DEF Full
    <3>3. \A S : IsFiniteSet(S) =>
            /\ IsFiniteSet(S \union {c}) /\ Cardinality(S \union {c}) \in Nat
            /\ Cardinality(S \union {c}) <= Cardinality(S) + 1
      <4>1. SUFFICES ASSUME NEW S, IsFiniteSet(S)
                     PROVE  /\ IsFiniteSet(S \union {c})
                            /\ Cardinality(S \union {c}) \in Nat
                            /\ Cardinality(S \union {c}) <= Cardinality(S) + 1
        OBVIOUS
      <4>2. /\ IsFiniteSet(S \union {c})
            /\ Cardinality(S \union {c}) =
                 IF c \in S THEN Cardinality(S) ELSE Cardinality(S) + 1
        BY <4>1, FS_AddElement
      <4>3. Cardinality(S) \in Nat /\ Cardinality(S \union {c}) \in Nat
        BY <4>1, <4>2, FS_CardinalityType
      <4>4. QED BY <4>2, <4>3
    <3>4. Small(KeptConns \union {c}, KeptUdp)
      BY <2>2, <3>1, <3>2, <3>3, <1>1
    <3>5. Small(KeptConns, KeptUdp \union {c})
      BY <2>2, <3>1, <3>2, <3>3, <1>1
    <3> HIDE DEF Small
    <3>6. QED BY <2>4, <3>4, <3>5, <1>3
  <2>5. \/ A' = KeptConns /\ B' = KeptUdp
        \/ /\ ~Full
           /\ \E c : \/ A' = KeptConns \union {c} /\ B' = KeptUdp
                     \/ A' = KeptConns /\ B' = KeptUdp \union {c}
    BY <1>5, RegistrationTables
  <2> HIDE DEF A, B, Small
  <2>6. QED BY <2>3, <2>4, <2>5
<1>6. QED BY <1>4, <1>5

\* Entries go from the tables, and the visitors of those of the TCP table wait
\* no more.
LEMMA TableShrinks ==
  ASSUME TableInv, NEW C, C \subseteq pending_user_conns,
         pending_user_conns' = pending_user_conns \ C,
         \A c \in pending_udp_sessions' : c.ticket \in UdpTickets,
         \A w \in Visitors :
           /\ visitor[w].state = "pending" => visitor'[w].proxy = visitor[w].proxy
           /\ visitor'[w].state = "pending" <=>
                visitor[w].state = "pending" /\ w \notin Closing(C),
         TypeOK
  PROVE  TableInv'
<1>1. \A c \in pending_user_conns : c.visitor \in Visitors BY DEF TypeOK
<1>2. ASSUME NEW c \in pending_user_conns, c \notin C PROVE c.visitor \notin Closing(C)
  <2>1. ASSUME NEW d \in C, d.visitor = c.visitor PROVE FALSE
    <3>1. d.ticket = c.ticket BY <2>1 DEF TableInv
    <3>2. QED BY <3>1, <2>1, <1>2 DEF TableInv
  <2>2. QED BY <2>1 DEF Closing
<1>3. \A c \in pending_user_conns' :
        /\ c.ticket = Ticket(c.visitor, c.proxy)
        /\ c.proxy = visitor'[c.visitor].proxy
        /\ visitor'[c.visitor].state = "pending"
  BY <1>1, <1>2 DEF TableInv
<1>4. \A c, d \in pending_user_conns' : c.ticket = d.ticket => c = d
  BY DEF TableInv
<1>5. ASSUME NEW w \in Visitors, visitor'[w].state = "pending"
      PROVE  \E c \in pending_user_conns' : c.visitor = w
  <2>1. PICK c \in pending_user_conns : c.visitor = w BY <1>5 DEF TableInv
  <2>2. c \notin C BY <1>5, <2>1 DEF Closing
  <2>3. QED BY <2>1, <2>2
<1>6. QED BY <1>3, <1>4, <1>5 DEF TableInv, UdpTickets

\* RegisterUserConn keeps the entries and the waiting visitors together.
LEMMA TableRegisters ==
  ASSUME TypeOK, TableInv, NEW v \in Visitors, visitor[v].state = "accepted",
         RegisterUserConn(v, visitor[v].proxy)
  PROVE  TableInv'
<1> DEFINE stays == ~Full /\ ~\E c \in KeptConns : c.ticket = Ticket(v, visitor[v].proxy)
           gone  == pending_user_conns \ KeptConns
           new   == [ticket |-> Ticket(v, visitor[v].proxy), visitor |-> v,
                     proxy |-> visitor[v].proxy, created_at |-> now]
<1>1. /\ \A w \in Visitors : GoesOn(w)
      /\ visitor'[v].state = IF stays THEN "pending" ELSE "closed"
      /\ \A w \in Visitors \ {v} :
           visitor'[w].state = IF w \in Closing(gone) THEN "closed" ELSE visitor[w].state
  BY RegisterVisitors
<1>2. /\ pending_user_conns' = IF stays THEN KeptConns \union {new} ELSE KeptConns
      /\ pending_udp_sessions' = KeptUdp
  BY DEF RegisterUserConn
<1>3. /\ new.ticket = Ticket(v, visitor[v].proxy) /\ new.visitor = v
      /\ new.proxy = visitor[v].proxy
  OBVIOUS
<1>4. stays => \A c \in KeptConns : c.ticket # Ticket(v, visitor[v].proxy) OBVIOUS
<1> HIDE DEF stays, new
<1>5. /\ KeptConns \subseteq pending_user_conns
      /\ KeptUdp \subseteq pending_udp_sessions
  BY KeptSubsets
<1>6. \A w \in Visitors : visitor'[w].proxy = visitor[w].proxy BY <1>1 DEF GoesOn
<1>7. ASSUME NEW c \in KeptConns
      PROVE  /\ c.visitor \in Visitors \ {v} /\ c.visitor \notin Closing(gone)
             /\ c.ticket = Ticket(c.visitor, c.proxy)
             /\ c.proxy = visitor'[c.visitor].proxy
             /\ visitor'[c.visitor].state = "pending"
  <2>1. /\ c.visitor \in Visitors /\ visitor[c.visitor].state = "pending"
        /\ c.ticket = Ticket(c.visitor, c.proxy) /\ c.proxy = visitor[c.visitor].proxy
    BY <1>5 DEF TypeOK, TableInv
  <2>2. c.visitor # v BY <2>1
  <2>3. c.visitor \notin Closing(gone)
    <3>1. ASSUME NEW d \in gone, d.visitor = c.visitor PROVE FALSE
      <4>1. d.ticket = c.ticket BY <3>1, <1>5 DEF TableInv
      <4>2. d = c BY <4>1, <3>1, <1>5 DEF TableInv
      <4>3. QED BY <4>2, <3>1
    <3>2. QED BY <3>1 DEF Closing
  <2>4. QED BY <1>1, <1>6, <2>1, <2>2, <2>3
<1>8. \A c \in pending_user_conns' :
        /\ c.ticket = Ticket(c.visitor, c.proxy)
        /\ c.proxy = visitor'[c.visitor].proxy
        /\ visitor'[c.visitor].state = "pending"
  BY <1>1, <1>2, <1>3, <1>6, <1>7
<1>9. \A c, d \in pending_user_conns' : c.ticket = d.ticket => c = d
  <2>1. \A c, d \in KeptConns : c.ticket = d.ticket => c = d BY <1>5 DEF TableInv
  <2>2. QED BY <2>1, <1>2, <1>3, <1>4
<1>10. ASSUME NEW w \in Visitors, visitor'[w].state = "pending"
       PROVE  \E c \in pending_user_conns' : c.visitor = w
  <2>1. CASE w = v
    <3>1. stays BY <1>1, <1>10, <2>1
    <3>2. QED BY <3>1, <2>1, <1>2, <1>3
  <2>2. CASE w # v
    <3>1. w \notin Closing(gone) /\ visitor[w].state = "pending"
      BY <1>1, <1>10, <2>2
    <3>2. PICK c \in pending_user_conns : c.visitor = w BY <3>1 DEF TableInv
    <3>3. c \in KeptConns BY <3>1, <3>2 DEF Closing
    <3>4. QED BY <3>2, <3>3, <1>2
  <2>3. QED BY <2>1, <2>2
<1>11. \A c \in pending_udp_sessions' : c.ticket \in UdpTickets
  BY <1>2, <1>5 DEF TableInv
<1>12. QED BY <1>8, <1>9, <1>10, <1>11 DEF TableInv, UdpTickets

\* The work stream m claims the entry c, and its visitor is served.
HandsOver(m, c) ==
  /\ m \in offered
  /\ c \in pending_user_conns
  /\ c.ticket = m[2]
  /\ pending_user_conns' = pending_user_conns \ {c}
  /\ pending_udp_sessions' = pending_udp_sessions
  /\ visitor' = [visitor EXCEPT ![c.visitor].state = "served",
                                ![c.visitor].by = m[1],
                                ![c.visitor].counter = FindProxy(m[1], c.proxy)]
  /\ offered' \subseteq offered
  /\ UNCHANGED <<generation, active_conns, announced>>

\* The claimed visitor's record, and those of the others.
LEMMA HandsOverVisitors ==
  ASSUME TypeOK, TableInv, NEW m, NEW c, HandsOver(m, c)
  PROVE  /\ c.visitor \in Visitors
         /\ visitor'[c.visitor].state = "served"
         /\ visitor'[c.visitor].by = m[1]
         /\ visitor'[c.visitor].counter = FindProxy(m[1], c.proxy)
         /\ visitor'[c.visitor].proxy = visitor[c.visitor].proxy
         /\ visitor'[c.visitor].generation = visitor[c.visitor].generation
         /\ \A w \in Visitors \ {c.visitor} : visitor'[w] = visitor[w]
<1> DEFINE v == c.visitor
           k == FindProxy(m[1], c.proxy)
<1>1. v \in Visitors BY DEF HandsOver, TypeOK
<1>2. visitor \in [Visitors -> VisitorRecord] BY DEF TypeOK, VisitorRecord
<1>3. visitor' = [visitor EXCEPT ![v].state = "served", ![v].by = m[1], ![v].counter = k]
  BY DEF HandsOver
<1> HIDE DEF v, k
<1>4. \A w \in Visitors \ {v} : visitor'[w] = visitor[w] BY <1>1, <1>2, <1>3
<1>5. visitor'[v] = [visitor[v] EXCEPT !.state = "served", !.by = m[1], !.counter = k]
  BY <1>1, <1>2, <1>3
<1>6. visitor[v] \in VisitorRecord BY <1>1, <1>2
<1>7. /\ visitor'[v].state = "served" /\ visitor'[v].by = m[1]
      /\ visitor'[v].counter = k
      /\ visitor'[v].proxy = visitor[v].proxy
      /\ visitor'[v].generation = visitor[v].generation
  BY <1>5, <1>6 DEF VisitorRecord
<1>8. QED BY <1>1, <1>4, <1>7 DEF v, k

\* What one step does to the visitors: one connects, one is handed over, or
\* they only go on.
LEMMA VisitorSteps ==
  ASSUME IInv, [Next]_vars
  PROVE  \/ \E v \in Visitors, p \in Proxies : connect(v, p)
         \/ \E m, c : HandsOver(m, c)
         \/ \A w \in Visitors : GoesOn(w)
<1> DEFINE Goal == \A w \in Visitors : GoesOn(w)
<1> USE DEF IInv
<1>1. visitor \in [Visitors -> VisitorRecord] BY DEF TypeOK, VisitorRecord
<1>2. UNCHANGED visitor => Goal BY DEF GoesOn
<1>3. ASSUME NEW v \in Visitors, visitor[v].state \in {"accepted", "served"},
             visitor' = [visitor EXCEPT ![v].state = "closed"]
      PROVE  Goal
  <2>1. visitor'[v] = [visitor[v] EXCEPT !.state = "closed"] BY <1>1, <1>3
  <2>2. GoesOn(v) BY <1>1, <1>3, <2>1, StateChange
  <2>3. \A w \in Visitors \ {v} : visitor'[w] = visitor[w] BY <1>1, <1>3
  <2>4. QED BY <2>2, <2>3 DEF GoesOn
<1>4. ASSUME NEW v \in Visitors, accept(v) \/ vhost_accept(v) \/ bridge_stops(v)
      PROVE  Goal
  <2>1. CASE visitor[v].state = "accepted" /\ RegisterUserConn(v, visitor[v].proxy)
    BY <2>1, RegisterVisitors
  <2>2. QED BY <1>3, <1>4, <2>1 DEF accept, vhost_accept, bridge_stops
<1>5. ASSUME NEW p \in Proxies, NEW e \in Endpoints, receive(p, e) PROVE Goal
  <2>1. pending_user_conns \ KeptConns \subseteq pending_user_conns OBVIOUS
  <2>2. visitor' =
          [w \in Visitors |->
             IF w \in Closing(pending_user_conns \ KeptConns)
             THEN [visitor[w] EXCEPT !.state = "closed"] ELSE visitor[w]]
    BY <1>5 DEF receive
  <2>3. QED BY <2>1, <2>2, CloseVisitors
<1>6. ASSUME NEW m \in announced \union offered, client_offers(m) \/ offer_lost(m)
      PROVE  Goal
  BY <1>2, <1>6 DEF client_offers, offer_lost
<1>7. ASSUME NEW m \in offered, claim(m) PROVE Goal \/ \E c : HandsOver(m, c)
  <2>1. CASE UNCHANGED visitor BY <2>1, <1>2
  <2>2. ASSUME NEW c \in pending_user_conns,
               c.ticket = m[2], pending_user_conns' = pending_user_conns \ {c},
               visitor' = [visitor EXCEPT ![c.visitor].state = "served",
                                          ![c.visitor].by = m[1],
                                          ![c.visitor].counter =
                                             FindProxy(m[1], c.proxy)],
               UNCHANGED <<pending_udp_sessions, endpoint_to_ticket>>
        PROVE  HandsOver(m, c)
    BY <1>7, <2>2 DEF claim, HandsOver, listeners
  <2>3. QED BY <1>7, <2>1, <2>2 DEF claim
<1>8. ASSUME NEW p \in Proxies, control_stop(p) PROVE Goal
  <2>1. CASE UNCHANGED visitor BY <2>1, <1>2
  <2>2. CASE visitor' = [w \in Visitors |->
                           IF w \in Closing(ClearedConns(p))
                           THEN [visitor[w] EXCEPT !.state = "closed"]
                           ELSE visitor[w]]
    <3>1. ClearedConns(p) \subseteq pending_user_conns BY DEF ClearedConns
    <3>2. QED BY <2>2, <3>1, CloseVisitors
  <2>3. QED BY <1>8, <2>1, <2>2 DEF control_stop
<1>9. ASSUME NEW p \in Proxies, listener_stop(p) \/ unregister(p) \/ register(p)
      PROVE  Goal
  BY <1>2, <1>9 DEF listener_stop, unregister, register
<1>10. ASSUME Tick \/ UNCHANGED vars PROVE Goal BY <1>2, <1>10 DEF Tick, vars
<1> HIDE DEF Goal
<1>11. \/ Goal \/ \E v \in Visitors, p \in Proxies : connect(v, p)
       \/ \E m, c : HandsOver(m, c)
  BY <1>4, <1>5, <1>6, <1>7, <1>8, <1>9, <1>10 DEF Next
<1>12. QED BY <1>11 DEF Goal

\* Every step keeps the entries and the waiting visitors together.
LEMMA TableStep ==
  ASSUME IInv, [Next]_vars
  PROVE  TableInv'
<1> USE DEF IInv
<1>1. visitor \in [Visitors -> VisitorRecord] BY DEF TypeOK, VisitorRecord
<1>2. Closing({}) = {} BY DEF Closing
<1>3. ASSUME UNCHANGED pending_user_conns,
             pending_udp_sessions' \subseteq pending_udp_sessions,
             \A w \in Visitors :
               /\ visitor[w].state = "pending" => visitor'[w].proxy = visitor[w].proxy
               /\ visitor'[w].state = "pending" <=> visitor[w].state = "pending"
      PROVE  TableInv'
  <2>1. pending_user_conns' = pending_user_conns \ {} BY <1>3
  <2>2. \A c \in pending_udp_sessions' : c.ticket \in UdpTickets
    BY <1>3 DEF TableInv
  <2>3. QED BY <1>2, <1>3, <2>1, <2>2, TableShrinks
<1>4. ASSUME UNCHANGED <<pending_user_conns, visitor>>,
             pending_udp_sessions' \subseteq pending_udp_sessions
      PROVE  TableInv'
  BY <1>3, <1>4
<1>5. ASSUME NEW v \in Visitors, visitor[v].state \in {"accepted", "served"},
             visitor' = [visitor EXCEPT ![v].state = "closed"], UNCHANGED tables
      PROVE  TableInv'
  <2>1. visitor'[v].state = "closed" /\ visitor[v].state # "pending"
    BY <1>1, <1>5 DEF VisitorRecord
  <2>2. \A w \in Visitors \ {v} : visitor'[w] = visitor[w] BY <1>1, <1>5
  <2>3. QED BY <1>3, <1>5, <2>1, <2>2 DEF tables
<1>6. ASSUME NEW v \in Visitors, NEW p \in Proxies, connect(v, p) PROVE TableInv'
  <2>1. /\ visitor'[v].state = "accepted" /\ visitor[v].state = "new"
        /\ \A w \in Visitors \ {v} : visitor'[w] = visitor[w]
    BY <1>1, <1>6 DEF connect, Visitor
  <2>2. UNCHANGED tables BY <1>6 DEF connect
  <2>3. QED BY <1>3, <2>1, <2>2 DEF tables
<1>7. ASSUME NEW v \in Visitors, accept(v) \/ vhost_accept(v) \/ bridge_stops(v)
      PROVE  TableInv'
  <2>1. CASE visitor[v].state = "accepted" /\ RegisterUserConn(v, visitor[v].proxy)
    BY <2>1, TableRegisters
  <2>2. QED BY <1>5, <1>7, <2>1 DEF accept, vhost_accept, bridge_stops
<1>8. ASSUME NEW C, C \subseteq pending_user_conns,
             pending_user_conns' = pending_user_conns \ C,
             \A c \in pending_udp_sessions' : c.ticket \in UdpTickets,
             visitor' = [w \in Visitors |->
                           IF w \in Closing(C)
                           THEN [visitor[w] EXCEPT !.state = "closed"] ELSE visitor[w]]
      PROVE  TableInv'
  <2>1. \A w \in Visitors :
          /\ GoesOn(w)
          /\ visitor'[w].state = IF w \in Closing(C) THEN "closed" ELSE visitor[w].state
    BY <1>8, CloseVisitors
  <2>2. \A w \in Visitors :
          /\ visitor[w].state = "pending" => visitor'[w].proxy = visitor[w].proxy
          /\ visitor'[w].state = "pending" <=>
               visitor[w].state = "pending" /\ w \notin Closing(C)
    BY <2>1 DEF GoesOn
  <2>3. QED BY <1>8, <2>2, TableShrinks
<1>9. ASSUME NEW p \in Proxies, NEW e \in Endpoints, receive(p, e) PROVE TableInv'
  <2> DEFINE C == pending_user_conns \ KeptConns
             t == UdpTicket(sessions_started)
             new == [ticket |-> t, endpoint |-> e, proxy |-> p,
                     listener |-> generation[p], created_at |-> now]
  <2>1. KeptConns = pending_user_conns \ C /\ C \subseteq pending_user_conns
    BY KeptSubsets
  <2>2. pending_user_conns' = pending_user_conns \ C BY <1>9, <2>1 DEF receive
  <2>3. visitor' = [w \in Visitors |->
                      IF w \in Closing(C)
                      THEN [visitor[w] EXCEPT !.state = "closed"] ELSE visitor[w]]
    BY <1>9 DEF receive
  <2>4. \A c \in pending_udp_sessions' : c.ticket \in UdpTickets
    <3>1. sessions_started \in 0..MaxDatagrams
      BY <1>9, HandoffAssumption DEF TypeOK, receive
    <3>2. new.ticket \in UdpTickets BY <3>1, TicketKinds
    <3>3. pending_udp_sessions' = KeptUdp \/ pending_udp_sessions' = KeptUdp \union {new}
      BY <1>9 DEF receive
    <3> HIDE DEF new
    <3>4. QED BY <3>2, <3>3, KeptSubsets DEF TableInv
  <2>5. QED BY <1>8, <2>1, <2>2, <2>3, <2>4
<1>10. ASSUME NEW m \in announced \union offered, client_offers(m) \/ offer_lost(m)
       PROVE  TableInv'
  BY <1>4, <1>10 DEF client_offers, offer_lost, tables
<1>11. ASSUME NEW m \in offered, claim(m) PROVE TableInv'
  <2>1. ASSUME NEW c, HandsOver(m, c) PROVE TableInv'
    <3>1. /\ c \in pending_user_conns /\ pending_user_conns' = pending_user_conns \ {c}
          /\ pending_udp_sessions' = pending_udp_sessions
      BY <2>1 DEF HandsOver
    <3>2. Closing({c}) = {c.visitor} BY DEF Closing
    <3>3. visitor[c.visitor].state = "pending" BY <3>1 DEF TableInv
    <3>4. \A w \in Visitors :
            /\ visitor[w].state = "pending" => visitor'[w].proxy = visitor[w].proxy
            /\ visitor'[w].state = "pending" <=>
                 visitor[w].state = "pending" /\ w \notin Closing({c})
      BY <2>1, <3>2, <3>3, HandsOverVisitors
    <3>5. \A d \in pending_udp_sessions' : d.ticket \in UdpTickets
      BY <3>1 DEF TableInv
    <3>6. {c} \subseteq pending_user_conns BY <3>1
    <3>7. QED BY <3>1, <3>4, <3>5, <3>6, TableShrinks
  <2>2. ASSUME NEW c \in pending_user_conns,
               c.ticket = m[2], pending_user_conns' = pending_user_conns \ {c},
               visitor' = [visitor EXCEPT ![c.visitor].state = "served",
                                          ![c.visitor].by = m[1],
                                          ![c.visitor].counter =
                                             FindProxy(m[1], c.proxy)],
               UNCHANGED <<pending_udp_sessions, endpoint_to_ticket>>
        PROVE  HandsOver(m, c)
    BY <1>11, <2>2 DEF claim, HandsOver, listeners
  <2>3. ASSUME NEW c \in pending_udp_sessions,
               pending_udp_sessions' = pending_udp_sessions \ {c},
               UNCHANGED <<pending_user_conns, visitor>>
        PROVE  TableInv'
    BY <2>3, <1>4
  <2>4. CASE UNCHANGED <<pending_user_conns, pending_udp_sessions, visitor>>
    BY <2>4, <1>4
  <2>5. QED BY <1>11, <2>1, <2>2, <2>3, <2>4 DEF claim
<1>12. ASSUME NEW p \in Proxies, control_stop(p) PROVE TableInv'
  <2>1. CASE Kind[p] # "http"
    <3>1. ClearedConns(p) \subseteq pending_user_conns BY DEF ClearedConns
    <3>2. \A c \in pending_udp_sessions' : c.ticket \in UdpTickets
      BY <1>12, <2>1 DEF control_stop, TableInv
    <3>3. QED BY <1>8, <1>12, <2>1, <3>1, <3>2 DEF control_stop
  <2>2. CASE Kind[p] = "http"
    BY <1>4, <1>12, <2>2 DEF control_stop
  <2>3. QED BY <2>1, <2>2
<1>13. ASSUME NEW p \in Proxies, listener_stop(p) \/ unregister(p) \/ register(p)
       PROVE  TableInv'
  BY <1>4, <1>13 DEF listener_stop, unregister, register, tables
<1>14. CASE Tick BY <1>4, <1>14 DEF Tick, tables
<1>15. CASE UNCHANGED vars BY <1>4, <1>15 DEF vars, tables
<1>16. QED
  BY <1>6, <1>7, <1>9, <1>10, <1>11, <1>12, <1>13, <1>14, <1>15 DEF Next

-----------------------------------------------------------------------------
(* The parts of the invariant that speak of the visitors.                    *)

\* A proxy's listeners are numbered upwards.
LEMMA GenerationGrows ==
  ASSUME IInv, [Next]_vars
  PROVE  \A p \in Proxies : generation'[p] \in Nat /\ generation[p] <= generation'[p]
<1>1. generation \in [Proxies -> Nat] BY DEF IInv, TypeOK
<1>2. UNCHANGED generation \/ \E p \in Proxies : register(p)
  BY DEF Next, connect, accept, vhost_accept, bridge_stops, receive, client_offers,
         offer_lost, claim, control_stop, listener_stop, unregister, Tick, vars, listeners
<1>3. ASSUME NEW p \in Proxies, register(p)
      PROVE  generation' = [generation EXCEPT ![p] = @ + 1]
  BY <1>3 DEF register
<1>4. QED BY <1>1, <1>2, <1>3

\* Every step keeps the visitors' numbers at those of their proxy's listeners.
LEMMA VisitorStep ==
  ASSUME IInv, [Next]_vars
  PROVE  VisitorInv'
<1>1. /\ visitor \in [Visitors -> VisitorRecord]
      /\ generation \in [Proxies -> Nat]
  BY DEF IInv, TypeOK, VisitorRecord
<1>2. \A p \in Proxies : generation'[p] \in Nat /\ generation[p] <= generation'[p]
  BY GenerationGrows
<1>3. \A w \in Visitors : visitor[w].generation \in Nat /\ visitor[w].counter \in Int
  BY <1>1 DEF VisitorRecord
<1>4. ASSUME NEW w \in Visitors, GoesOn(w) \/ visitor'[w] = visitor[w]
      PROVE  /\ visitor'[w].state # "new" =>
                  /\ visitor'[w].proxy \in Proxies
                  /\ visitor'[w].generation <= generation'[visitor'[w].proxy]
                  /\ visitor'[w].counter <= generation'[visitor'[w].proxy]
             /\ visitor'[w].state \in {"new", "accepted", "pending"} =>
                  visitor'[w].counter = -1
  <2>1. /\ visitor'[w].proxy = visitor[w].proxy
        /\ visitor'[w].generation = visitor[w].generation
        /\ visitor'[w].counter = visitor[w].counter
        /\ visitor'[w].state # "new" => visitor[w].state # "new"
        /\ visitor'[w].state \in {"new", "accepted", "pending"}
             => visitor[w].state \in {"new", "accepted", "pending"}
    BY <1>4 DEF GoesOn
  <2>2. visitor[w].state # "new" =>
          /\ visitor[w].proxy \in Proxies
          /\ visitor[w].generation <= generation[visitor[w].proxy]
          /\ visitor[w].counter <= generation[visitor[w].proxy]
    BY DEF IInv, VisitorInv
  <2>3. visitor[w].state \in {"new", "accepted", "pending"} => visitor[w].counter = -1
    BY DEF IInv, VisitorInv
  <2>4. visitor[w].state # "new" =>
          /\ visitor[w].generation <= generation'[visitor[w].proxy]
          /\ visitor[w].counter <= generation'[visitor[w].proxy]
    BY <2>2, <1>1, <1>2, <1>3
  <2>5. QED BY <2>1, <2>2, <2>3, <2>4
<1>5. ASSUME NEW v \in Visitors, NEW p \in Proxies, connect(v, p) PROVE VisitorInv'
  <2>1. /\ visitor'[v].state = "accepted" /\ visitor'[v].proxy = p
        /\ visitor'[v].generation = generation[p] /\ visitor'[v].counter = -1
        /\ \A w \in Visitors \ {v} : visitor'[w] = visitor[w]
    BY <1>1, <1>5 DEF connect, Visitor
  <2>2. generation' = generation BY <1>5 DEF connect, listeners
  <2>3. visitor'[v].generation <= generation'[p] /\ visitor'[v].counter <= generation'[p]
    BY <2>1, <2>2, <1>1
  <2>4. QED BY <1>4, <2>1, <2>3 DEF VisitorInv
<1>6. ASSUME NEW m, NEW c, HandsOver(m, c) PROVE VisitorInv'
  <2> DEFINE v == c.visitor
  <2>1. /\ v \in Visitors /\ visitor'[v].state = "served"
        /\ visitor'[v].counter = FindProxy(m[1], c.proxy)
        /\ visitor'[v].proxy = visitor[v].proxy
        /\ visitor'[v].generation = visitor[v].generation
        /\ \A w \in Visitors \ {v} : visitor'[w] = visitor[w]
    BY <1>6, HandsOverVisitors DEF IInv
  <2>2. /\ c.proxy = visitor[v].proxy /\ visitor[v].state = "pending"
        /\ generation' = generation
    BY <1>6 DEF HandsOver, IInv, TableInv
  <2>3. /\ visitor[v].proxy \in Proxies
        /\ visitor[v].generation <= generation[visitor[v].proxy]
    BY <2>1, <2>2 DEF IInv, VisitorInv
  <2>4. FindProxy(m[1], c.proxy) \in {generation[visitor[v].proxy], -1}
    BY <2>2 DEF FindProxy
  <2> HIDE DEF v
  <2>5. visitor'[v].counter <= generation[visitor[v].proxy]
    BY <2>1, <2>3, <2>4, <1>1
  <2>6. QED BY <1>4, <2>1, <2>2, <2>3, <2>5 DEF VisitorInv
<1>7. CASE \A w \in Visitors : GoesOn(w)
  BY <1>4, <1>7 DEF VisitorInv
<1>8. QED BY <1>5, <1>6, <1>7, VisitorSteps

\* CameFor in the next state, of a ticket and a proxy of this one.
HasComeFor(t, p) ==
  \E w \in Visitors : /\ Ticket(w, p) = t
                      /\ visitor'[w].proxy = p
                      /\ visitor'[w].state \notin {"new", "accepted"}

\* Who has come for a proxy and been registered has done so for good.
LEMMA CameForStays ==
  ASSUME IInv, [Next]_vars, NEW t, NEW p, CameFor(t, p)
  PROVE  HasComeFor(t, p)
<1>1. PICK w \in Visitors : /\ Ticket(w, p) = t /\ visitor[w].proxy = p
                            /\ visitor[w].state \notin {"new", "accepted"}
  BY DEF CameFor
<1>2. visitor \in [Visitors -> VisitorRecord] BY DEF IInv, TypeOK, VisitorRecord
<1>3. visitor'[w].proxy = p /\ visitor'[w].state \notin {"new", "accepted"}
  <2>1. ASSUME NEW v \in Visitors, NEW q \in Proxies, connect(v, q)
        PROVE  visitor'[w] = visitor[w]
    <3>1. w # v BY <1>1, <2>1 DEF connect
    <3>2. QED BY <3>1, <1>2, <2>1 DEF connect
  <2>2. ASSUME NEW m, NEW c, HandsOver(m, c)
        PROVE  /\ visitor'[w].proxy = visitor[w].proxy
               /\ visitor'[w].state \in {"served", visitor[w].state}
    BY <2>2, HandsOverVisitors DEF IInv
  <2>3. CASE GoesOn(w) BY <1>1, <2>3 DEF GoesOn
  <2>4. QED BY <1>1, <2>1, <2>2, <2>3, VisitorSteps
<1>4. QED BY <1>1, <1>3 DEF HasComeFor

\* Every step keeps the tickets on the way to the clients of their visitors'
\* proxies.
LEMMA MailStep ==
  ASSUME IInv, [Next]_vars
  PROVE  MailInv'
<1> DEFINE good(m) == m[2] \in UdpTickets \/ HasComeFor(m[2], m[1])
           mails   == announced \union offered
<1>1. \A m \in mails : good(m) BY CameForStays DEF IInv, MailInv
<1>2. ASSUME NEW v \in Visitors, visitor[v].state = "accepted",
             RegisterUserConn(v, visitor[v].proxy),
             SendNewUserConn(visitor[v].proxy, Ticket(v, visitor[v].proxy)),
             UNCHANGED offered
      PROVE  \A m \in mails' : good(m)
  <2> DEFINE m == <<visitor[v].proxy, Ticket(v, visitor[v].proxy)>>
  <2>1. mails' = mails \/ mails' = mails \union {m} BY <1>2 DEF SendNewUserConn
  <2>2. /\ visitor'[v].proxy = visitor[v].proxy
        /\ visitor'[v].state \in {"pending", "closed"}
    BY <1>2, RegisterVisitors DEF IInv, GoesOn
  <2>3. HasComeFor(Ticket(v, visitor[v].proxy), visitor[v].proxy)
    BY <2>2 DEF HasComeFor
  <2>4. m[2] = Ticket(v, visitor[v].proxy) /\ m[1] = visitor[v].proxy OBVIOUS
  <2> HIDE DEF m, mails
  <2>5. QED BY <1>1, <2>1, <2>3, <2>4
<1>3. ASSUME NEW p \in Proxies, NEW e \in Endpoints, receive(p, e)
      PROVE  \A m \in mails' : good(m)
  <2> DEFINE m == <<p, UdpTicket(sessions_started)>>
  <2>1. mails' = mails \/ mails' = mails \union {m}
    BY <1>3 DEF receive, SendNewUserConn
  <2>2. sessions_started \in 0..MaxDatagrams
    BY <1>3, HandoffAssumption DEF IInv, TypeOK, receive
  <2>3. m[2] \in UdpTickets BY <2>2, TicketKinds
  <2> HIDE DEF m, mails
  <2>4. QED BY <1>1, <2>1, <2>3
<1>4. \A m \in mails' : good(m)
  <2>1. CASE mails' \subseteq mails BY <2>1, <1>1
  <2>2. ASSUME NEW v \in Visitors, accept(v) \/ vhost_accept(v)
        PROVE  \A m \in mails' : good(m)
    <3>1. CASE UNCHANGED <<announced, offered>> BY <3>1, <1>1
    <3> HIDE DEF mails, good
    <3>2. QED BY <2>2, <3>1, <1>2 DEF accept, vhost_accept
  <2>3. ASSUME NEW m \in announced \union offered, client_offers(m) \/ offer_lost(m)
        PROVE  mails' \subseteq mails
    BY <2>3 DEF client_offers, offer_lost
  <2>4. ASSUME NEW m \in offered, claim(m) PROVE mails' \subseteq mails
    <3>1. offered' \subseteq offered /\ announced' = announced BY <2>4 DEF claim
    <3>2. QED BY <3>1
  <2>5. ASSUME NEW v \in Visitors, NEW p \in Proxies, connect(v, p)
        PROVE  mails' \subseteq mails
    BY <2>5 DEF connect, mail
  <2>6. ASSUME NEW v \in Visitors, bridge_stops(v) PROVE mails' \subseteq mails
    BY <2>6 DEF bridge_stops, mail
  <2>7. ASSUME NEW p \in Proxies,
               control_stop(p) \/ listener_stop(p) \/ unregister(p) \/ register(p)
        PROVE  mails' \subseteq mails
    BY <2>7 DEF control_stop, listener_stop, unregister, register, mail
  <2>8. ASSUME Tick \/ UNCHANGED vars PROVE mails' \subseteq mails
    BY <2>8 DEF Tick, vars, mail
  <2> HIDE DEF mails, good
  <2>9. QED
    BY <2>1, <2>2, <2>3, <2>4, <2>5, <2>6, <2>7, <2>8, <1>3 DEF Next
<1>5. ASSUME NEW v \in Visitors, visitor'[v].state = "served"
      PROVE  HasComeFor(Ticket(v, visitor'[v].proxy), visitor'[v].by)
  <2>1. visitor \in [Visitors -> VisitorRecord] BY DEF IInv, TypeOK, VisitorRecord
  <2>2. ASSUME visitor[v].state = "served", visitor'[v].by = visitor[v].by,
               visitor'[v].proxy = visitor[v].proxy
        PROVE  HasComeFor(Ticket(v, visitor'[v].proxy), visitor'[v].by)
    <3>1. CameFor(Ticket(v, visitor[v].proxy), visitor[v].by)
      BY <2>2 DEF IInv, MailInv
    <3>2. QED BY <2>2, <3>1, CameForStays
  <2>3. ASSUME NEW w \in Visitors, NEW p \in Proxies, connect(w, p)
        PROVE  visitor'[v] = visitor[v]
    <3>1. w # v BY <1>5, <2>1, <2>3 DEF connect, Visitor
    <3>2. QED BY <3>1, <2>1, <2>3 DEF connect
  <2>4. ASSUME NEW m, NEW c, HandsOver(m, c)
        PROVE  HasComeFor(Ticket(v, visitor'[v].proxy), visitor'[v].by)
    <3>1. CASE v # c.visitor
      <4>1. visitor'[v] = visitor[v] BY <2>4, <3>1, HandsOverVisitors DEF IInv
      <4>2. QED BY <4>1, <2>2, <1>5
    <3>2. CASE v = c.visitor
      <4>1. visitor'[v].by = m[1] /\ visitor'[v].proxy = visitor[v].proxy
        BY <2>4, <3>2, HandsOverVisitors DEF IInv
      <4>2. /\ m \in offered /\ m[2] = Ticket(v, visitor[v].proxy)
        BY <2>4, <3>2 DEF HandsOver, IInv, TableInv
      <4>3. CameFor(m[2], m[1]) BY <4>2, TicketKinds DEF IInv, MailInv
      <4>4. HasComeFor(m[2], m[1]) BY <4>3, CameForStays
      <4>5. QED BY <4>1, <4>2, <4>4
    <3>3. QED BY <3>1, <3>2
  <2>5. CASE GoesOn(v) BY <1>5, <2>2, <2>5 DEF GoesOn
  <2>6. QED BY <1>5, <2>2, <2>3, <2>4, <2>5, VisitorSteps
<1>6. QED
  BY <1>4, <1>5
  DEF MailInv, CameFor, HasComeFor, UdpTickets, UdpTicket, Ticket, TcpTicket, VhostTicket

-----------------------------------------------------------------------------
(* The count of a listener's connections.                                    *)

\* The count at one listener.
ActiveAt(p) ==
  Kind[p] = "tcp" =>
    active_conns[p] + Cardinality(CountedElsewhere(p)) >= Cardinality(LiveConns(p))

\* A set of visitors is finite, and the larger of two counts at least as many.
LEMMA VisitorCounts ==
  ASSUME NEW S \in SUBSET Visitors
  PROVE  /\ IsFiniteSet(S) /\ Cardinality(S) \in Nat
         /\ \A T \in SUBSET S : /\ IsFiniteSet(T) /\ Cardinality(T) \in Nat
                                /\ Cardinality(T) <= Cardinality(S)
<1>1. IsFiniteSet(S) BY FS_Subset, HandoffAssumption
<1>2. \A T \in SUBSET S : IsFiniteSet(T) /\ Cardinality(T) <= Cardinality(S)
  BY <1>1, FS_Subset
<1>3. QED BY <1>1, <1>2, FS_CardinalityType

\* No connection more, nobody less counted elsewhere, and the count as it was.
LEMMA FewerLive ==
  ASSUME IInv, NEW p \in Proxies, LiveConns(p)' \subseteq LiveConns(p),
         CountedElsewhere(p) \subseteq CountedElsewhere(p)',
         active_conns'[p] = active_conns[p]
  PROVE  ActiveAt(p)'
<1> DEFINE L == LiveConns(p)
           F == CountedElsewhere(p)
<1>1. Kind[p] = "tcp" => active_conns[p] + Cardinality(F) >= Cardinality(L)
  BY DEF IInv, ActiveNotUnder
<1>2. L \in SUBSET Visitors /\ F' \in SUBSET Visitors BY DEF LiveConns, CountedElsewhere
<1>3. L' \in SUBSET L /\ F \in SUBSET F' OBVIOUS
<1>4. active_conns[p] \in Nat BY DEF IInv, TypeOK
<1> HIDE DEF L, F
<1>5. /\ Cardinality(L) \in Nat /\ Cardinality(L') \in Nat
      /\ Cardinality(L') <= Cardinality(L)
  BY <1>2, <1>3, VisitorCounts
<1>6. /\ Cardinality(F) \in Nat /\ Cardinality(F') \in Nat
      /\ Cardinality(F) <= Cardinality(F')
  BY <1>2, <1>3, VisitorCounts
<1>7. Kind[p] = "tcp" => active_conns'[p] + Cardinality(F') >= Cardinality(L')
  BY <1>1, <1>4, <1>5, <1>6
<1>8. QED BY <1>7 DEF ActiveAt, L, F

\* Visitors that only go on leave those counted elsewhere so, and bring a
\* listener only connections that came from its accept handler.
LEMMA LiveGoesOn ==
  ASSUME \A w \in Visitors : GoesOn(w), UNCHANGED generation, NEW p \in Proxies
  PROVE  /\ CountedElsewhere(p) \subseteq CountedElsewhere(p)'
         /\ \A w \in LiveConns(p)' :
              /\ w \in Visitors /\ visitor[w].proxy = p
              /\ visitor[w].generation = generation[p]
              /\ w \notin LiveConns(p) => /\ visitor[w].state = "accepted"
                                          /\ visitor'[w].state = "pending"
<1>1. \A w \in Visitors : /\ visitor'[w].proxy = visitor[w].proxy
                          /\ visitor'[w].generation = visitor[w].generation
                          /\ visitor'[w].counter = visitor[w].counter
                          /\ visitor[w].state = "closed" => visitor'[w].state = "closed"
  BY DEF GoesOn
<1>2. CountedElsewhere(p) \subseteq CountedElsewhere(p)' BY <1>1 DEF CountedElsewhere
<1>3. ASSUME NEW w \in LiveConns(p)'
      PROVE  /\ w \in Visitors /\ visitor[w].proxy = p
             /\ visitor[w].generation = generation[p]
             /\ w \notin LiveConns(p) => /\ visitor[w].state = "accepted"
                                         /\ visitor'[w].state = "pending"
  <2>1. /\ w \in Visitors /\ visitor'[w].proxy = p
        /\ visitor'[w].generation = generation[p]
        /\ visitor'[w].state \in {"pending", "served"}
    BY <1>3 DEF LiveConns
  <2>2. \/ visitor[w].state = visitor'[w].state
        \/ visitor[w].state = "accepted" /\ visitor'[w].state = "pending"
    BY <2>1 DEF GoesOn
  <2>3. QED BY <1>1, <2>1, <2>2 DEF LiveConns
<1>4. QED BY <1>2, <1>3

\* No entry more in the table, so no visitor more that waits.
LEMMA NoNewcomer ==
  ASSUME TableInv, TableInv', pending_user_conns' \subseteq pending_user_conns,
         NEW w \in Visitors, visitor'[w].state = "pending"
  PROVE  visitor[w].state = "pending"
<1>1. PICK c \in pending_user_conns' : c.visitor = w BY DEF TableInv
<1>2. QED BY <1>1 DEF TableInv

\* Every step keeps the counts from falling too far below the live connections.
LEMMA ActiveStep ==
  ASSUME IInv, [Next]_vars
  PROVE  ActiveNotUnder'
<1> DEFINE Good(p) == ActiveAt(p)'
<1>1. SUFFICES \A p \in Proxies : Good(p)
  BY DEF ActiveNotUnder, ActiveAt
<1>2. /\ visitor \in [Visitors -> VisitorRecord]
      /\ generation \in [Proxies -> Nat]
      /\ active_conns \in [Proxies -> Nat]
  BY DEF IInv, TypeOK, VisitorRecord
<1>3. TableInv /\ TableInv' BY TableStep DEF IInv
<1>4. ASSUME NEW v \in Visitors, NEW q \in Proxies, connect(v, q)
      PROVE  \A p \in Proxies : Good(p)
  <2>1. /\ visitor[v].state = "new" /\ visitor'[v].state = "accepted"
        /\ \A w \in Visitors \ {v} : visitor'[w] = visitor[w]
    BY <1>2, <1>4 DEF connect, Visitor
  <2>2. UNCHANGED <<generation, active_conns>> BY <1>4 DEF connect, listeners
  <2>3. ASSUME NEW p \in Proxies PROVE Good(p)
    <3>1. LiveConns(p)' \subseteq LiveConns(p) BY <2>1, <2>2 DEF LiveConns
    <3>2. CountedElsewhere(p) \subseteq CountedElsewhere(p)'
      BY <2>1, <2>2 DEF CountedElsewhere
    <3>3. QED BY <2>2, <3>1, <3>2, FewerLive
  <2>4. QED BY <2>3
<1>5. ASSUME NEW m, NEW c, HandsOver(m, c) PROVE \A p \in Proxies : Good(p)
  <2> DEFINE v == c.visitor
  <2>1. /\ v \in Visitors /\ visitor'[v].state = "served"
        /\ visitor'[v].proxy = visitor[v].proxy
        /\ visitor'[v].generation = visitor[v].generation
        /\ \A w \in Visitors \ {v} : visitor'[w] = visitor[w]
    BY <1>5, HandsOverVisitors DEF IInv
  <2>2. visitor[v].state = "pending" /\ UNCHANGED <<generation, active_conns>>
    BY <1>5 DEF HandsOver, IInv, TableInv
  <2> HIDE DEF v
  <2>3. ASSUME NEW p \in Proxies PROVE Good(p)
    <3>1. LiveConns(p)' \subseteq LiveConns(p) BY <2>1, <2>2 DEF LiveConns
    <3>2. CountedElsewhere(p) \subseteq CountedElsewhere(p)'
      BY <2>1, <2>2 DEF CountedElsewhere
    <3>3. QED BY <2>2, <3>1, <3>2, FewerLive
  <2>4. QED BY <2>3
<1>6. ASSUME \A w \in Visitors : GoesOn(w), UNCHANGED generation,
             NEW p \in Proxies, active_conns'[p] = active_conns[p],
             \A w \in Visitors :
               \/ visitor[w].proxy # p \/ visitor[w].generation # generation[p]
               \/ visitor'[w].state # "pending" \/ visitor[w].state = "pending"
      PROVE  Good(p)
  <2>1. LiveConns(p)' \subseteq LiveConns(p) BY <1>6, LiveGoesOn
  <2>2. QED BY <1>6, <2>1, LiveGoesOn, FewerLive
<1> HIDE DEF Good
<1>7. ASSUME \A w \in Visitors : GoesOn(w), UNCHANGED <<generation, active_conns>>,
             pending_user_conns' \subseteq pending_user_conns
      PROVE  \A p \in Proxies : Good(p)
  <2>1. \A w \in Visitors : visitor'[w].state # "pending" \/ visitor[w].state = "pending"
    BY <1>3, <1>7, NoNewcomer
  <2>2. QED BY <1>6, <1>7, <2>1
<1>8. ASSUME NEW v \in Visitors, visitor[v].state = "accepted",
             RegisterUserConn(v, visitor[v].proxy)
      PROVE  /\ \A w \in Visitors : GoesOn(w)
             /\ \A w \in Visitors \ {v} : visitor'[w].state \in {"closed", visitor[w].state}
  BY <1>8, RegisterVisitors DEF IInv
<1>9. ASSUME NEW v \in Visitors, visitor[v].state = "accepted",
             RegisterUserConn(v, visitor[v].proxy), UNCHANGED generation,
             NEW p \in Proxies, active_conns'[p] = active_conns[p],
             visitor[v].proxy # p \/ visitor[v].generation # generation[p]
      PROVE  Good(p)
  <2>1. \A w \in Visitors :
          \/ visitor[w].proxy # p \/ visitor[w].generation # generation[p]
          \/ visitor'[w].state # "pending" \/ visitor[w].state = "pending"
    BY <1>8, <1>9
  <2>2. QED BY <1>6, <1>8, <1>9, <2>1
<1>10. ASSUME NEW v \in Visitors, visitor[v].state = "accepted",
              RegisterUserConn(v, visitor[v].proxy), UNCHANGED generation,
              NEW p \in Proxies
       PROVE  LiveConns(p)' \subseteq LiveConns(p) \union {v}
  <2>1. ASSUME NEW w \in LiveConns(p)', w # v PROVE w \in LiveConns(p)
    <3>1. w \in Visitors /\ (w \notin LiveConns(p) => /\ visitor[w].state = "accepted"
                                                      /\ visitor'[w].state = "pending")
      BY <1>8, <1>10, <2>1, LiveGoesOn
    <3>2. visitor'[w].state \in {"closed", visitor[w].state} BY <1>8, <1>10, <2>1, <3>1
    <3>3. QED BY <3>1, <3>2
  <2>2. QED BY <2>1
<1>11. ASSUME NEW v \in Visitors, accept(v) PROVE \A p \in Proxies : Good(p)
  <2>1. /\ visitor[v].state = "accepted" /\ RegisterUserConn(v, visitor[v].proxy)
        /\ UNCHANGED generation
        /\ active_conns' = IF visitor[v].generation = generation[visitor[v].proxy]
                           THEN [active_conns EXCEPT ![visitor[v].proxy] = @ + 1]
                           ELSE active_conns
    BY <1>11 DEF accept, listeners
  <2>2. ASSUME NEW p \in Proxies,
               visitor[v].proxy # p \/ visitor[v].generation # generation[p]
        PROVE  Good(p)
    <3>1. active_conns'[p] = active_conns[p] BY <1>2, <2>1, <2>2
    <3>2. QED BY <1>9, <2>1, <2>2, <3>1
  <2>3. ASSUME NEW p \in Proxies, visitor[v].proxy = p, visitor[v].generation = generation[p]
        PROVE  Good(p)
    <3> DEFINE L == LiveConns(p)
               F == CountedElsewhere(p)
    <3>1. active_conns'[p] = active_conns[p] + 1 /\ active_conns[p] \in Nat
      BY <1>2, <2>1, <2>3
    <3>2. Kind[p] = "tcp" => active_conns[p] + Cardinality(F) >= Cardinality(L)
      BY DEF IInv, ActiveNotUnder
    <3>3. L' \subseteq L \union {v} BY <1>10, <2>1
    <3>4. F \in SUBSET F' BY <1>8, <2>1, LiveGoesOn
    <3>5. /\ L \in SUBSET Visitors /\ L' \in SUBSET Visitors /\ F' \in SUBSET Visitors
      BY DEF LiveConns, CountedElsewhere
    <3> HIDE DEF L, F
    <3>6. /\ Cardinality(L) \in Nat /\ Cardinality(L') \in Nat
          /\ Cardinality(L') <= Cardinality(L) + 1
      <4>1. IsFiniteSet(L) /\ Cardinality(L) \in Nat /\ Cardinality(L') \in Nat
        BY <3>5, VisitorCounts
      <4>2. /\ IsFiniteSet(L \union {v})
            /\ Cardinality(L \union {v}) \in {Cardinality(L), Cardinality(L) + 1}
        BY <4>1, FS_AddElement
      <4>3. Cardinality(L') <= Cardinality(L \union {v}) BY <3>3, <4>2, FS_Subset
      <4>4. QED BY <4>1, <4>2, <4>3
    <3>7. /\ Cardinality(F) \in Nat /\ Cardinality(F') \in Nat
          /\ Cardinality(F) <= Cardinality(F')
      BY <3>4, <3>5, VisitorCounts
    <3>8. Kind[p] = "tcp" => active_conns'[p] + Cardinality(F') >= Cardinality(L')
      BY <3>1, <3>2, <3>6, <3>7
    <3>9. QED BY <3>8 DEF Good, ActiveAt, L, F
  <2>4. QED BY <2>2, <2>3
<1>12. ASSUME NEW v \in Visitors, vhost_accept(v) PROVE \A p \in Proxies : Good(p)
  <2>1. CASE listening[visitor[v].proxy]
    <3>1. /\ visitor[v].state = "accepted" /\ RegisterUserConn(v, visitor[v].proxy)
          /\ UNCHANGED <<generation, active_conns>> /\ Kind[visitor[v].proxy] = "http"
      BY <1>12, <2>1 DEF vhost_accept, listeners
    <3>2. ASSUME NEW p \in Proxies PROVE Good(p)
      <4>1. CASE visitor[v].proxy # p BY <1>9, <3>1, <4>1
      <4>2. CASE visitor[v].proxy = p
        <5>1. Kind[p] # "tcp" BY <3>1, <4>2
        <5>2. QED BY <5>1 DEF Good, ActiveAt
      <4>3. QED BY <4>1, <4>2
    <3>3. QED BY <3>2
  <2>2. CASE ~listening[visitor[v].proxy]
    <3>1. /\ visitor[v].state = "accepted" /\ UNCHANGED <<generation, active_conns>>
          /\ UNCHANGED pending_user_conns
          /\ visitor' = [visitor EXCEPT ![v].state = "closed"]
      BY <1>12, <2>2 DEF vhost_accept, listeners, tables
    <3>2. visitor'[v] = [visitor[v] EXCEPT !.state = "closed"] BY <1>2, <3>1
    <3>3. GoesOn(v) BY <1>2, <3>1, <3>2, StateChange
    <3>4. \A w \in Visitors \ {v} : visitor'[w] = visitor[w] BY <1>2, <3>1
    <3>5. \A w \in Visitors : GoesOn(w) BY <3>3, <3>4 DEF GoesOn
    <3>6. QED BY <1>7, <3>1, <3>5
  <2>3. QED BY <2>1, <2>2
<1>13. ASSUME NEW v \in Visitors, bridge_stops(v) PROVE \A p \in Proxies : Good(p)
  <2>1. /\ visitor[v].state = "served" /\ UNCHANGED <<generation, pending_user_conns>>
        /\ visitor' = [visitor EXCEPT ![v].state = "closed"]
        /\ active_conns' =
             IF visitor[v].counter = generation[visitor[v].proxy]
                  /\ active_conns[visitor[v].proxy] > 0
             THEN [active_conns EXCEPT ![visitor[v].proxy] = @ - 1] ELSE active_conns
    BY <1>13 DEF bridge_stops, listeners, tables
  <2>2. visitor'[v] = [visitor[v] EXCEPT !.state = "closed"] BY <1>2, <2>1
  <2>3. GoesOn(v) /\ visitor'[v].state = "closed" BY <1>2, <2>1, <2>2, StateChange
  <2>4. \A w \in Visitors \ {v} : visitor'[w] = visitor[w] BY <1>2, <2>1
  <2>5. \A w \in Visitors : GoesOn(w) BY <2>3, <2>4 DEF GoesOn
  <2>6. \A w \in Visitors : visitor'[w].state # "pending" \/ visitor[w].state = "pending"
    BY <1>3, <2>1, NoNewcomer
  <2>7. ASSUME NEW p \in Proxies, active_conns'[p] = active_conns[p] PROVE Good(p)
    BY <1>6, <2>1, <2>5, <2>6, <2>7
  <2>8. ASSUME NEW p \in Proxies, active_conns'[p] # active_conns[p] PROVE Good(p)
    <3>1. /\ visitor[v].proxy = p /\ visitor[v].counter = generation[p]
          /\ active_conns[p] > 0 /\ active_conns'[p] = active_conns[p] - 1
      BY <1>2, <2>1, <2>8
    <3> DEFINE L == LiveConns(p)
               F == CountedElsewhere(p)
    <3>2. L' \subseteq L /\ v \notin L'
      <4>1. L' \subseteq L BY <2>1, <2>5, <2>6, LiveGoesOn
      <4>2. v \notin L' BY <2>3 DEF LiveConns
      <4>3. QED BY <4>1, <4>2
    <3>3. F \in SUBSET F' BY <2>1, <2>5, LiveGoesOn
    <3>4. v \in L \/ (v \notin F /\ v \in F')
      <4>1. CASE visitor[v].generation = generation[p] BY <2>1, <3>1, <4>1 DEF LiveConns
      <4>2. CASE visitor[v].generation # generation[p]
        <5>1. v \notin F BY <2>1 DEF CountedElsewhere
        <5>2. v \in F' BY <2>1, <2>3, <3>1, <4>2 DEF CountedElsewhere, GoesOn
        <5>3. QED BY <5>1, <5>2
      <4>3. QED BY <4>1, <4>2
    <3>5. /\ L \in SUBSET Visitors /\ L' \in SUBSET Visitors /\ F' \in SUBSET Visitors
      BY DEF LiveConns, CountedElsewhere
    <3>6. Kind[p] = "tcp" => active_conns[p] + Cardinality(F) >= Cardinality(L)
      BY DEF IInv, ActiveNotUnder
    <3>7. active_conns[p] \in Nat BY <1>2
    <3> HIDE DEF L, F
    <3>8. /\ Cardinality(L) \in Nat /\ Cardinality(L') \in Nat
          /\ Cardinality(L') <= Cardinality(L)
      <4>1. L' \in SUBSET L BY <3>2
      <4>2. QED BY <3>5, <4>1, VisitorCounts
    <3>9. /\ Cardinality(F) \in Nat /\ Cardinality(F') \in Nat
          /\ Cardinality(F) <= Cardinality(F')
      BY <3>3, <3>5, VisitorCounts
    <3>10. v \in L => Cardinality(L') <= Cardinality(L) - 1
      <4>1. SUFFICES ASSUME v \in L PROVE Cardinality(L') <= Cardinality(L) - 1 OBVIOUS
      <4>2. IsFiniteSet(L) BY <3>5, VisitorCounts
      <4>3. IsFiniteSet(L \ {v}) /\ Cardinality(L \ {v}) = Cardinality(L) - 1
        BY <4>1, <4>2, FS_RemoveElement
      <4>4. L' \subseteq L \ {v} BY <3>2
      <4>5. QED BY <4>3, <4>4, FS_Subset
    <3>11. v \notin F /\ v \in F' => Cardinality(F) <= Cardinality(F') - 1
      <4>1. SUFFICES ASSUME v \notin F, v \in F'
                     PROVE  Cardinality(F) <= Cardinality(F') - 1
        OBVIOUS
      <4>2. IsFiniteSet(F') BY <3>5, VisitorCounts
      <4>3. IsFiniteSet(F' \ {v}) /\ Cardinality(F' \ {v}) = Cardinality(F') - 1
        BY <4>1, <4>2, FS_RemoveElement
      <4>4. F \subseteq F' \ {v} BY <3>3, <4>1
      <4>5. QED BY <4>3, <4>4, FS_Subset
    <3>12. Kind[p] = "tcp" => active_conns'[p] + Cardinality(F') >= Cardinality(L')
      BY <3>1, <3>4, <3>6, <3>7, <3>8, <3>9, <3>10, <3>11
    <3>13. QED BY <3>12 DEF Good, ActiveAt, L, F
  <2>9. QED BY <2>7, <2>8
<1>14. ASSUME NEW q \in Proxies, register(q) PROVE \A p \in Proxies : Good(p)
  <2>1. /\ UNCHANGED visitor
        /\ generation' = [generation EXCEPT ![q] = @ + 1]
        /\ active_conns' = [active_conns EXCEPT ![q] = 0]
    BY <1>14 DEF register
  <2>2. ASSUME NEW p \in Proxies, p # q PROVE Good(p)
    <3>1. generation'[p] = generation[p] /\ active_conns'[p] = active_conns[p]
      BY <1>2, <2>1, <2>2
    <3>2. LiveConns(p)' \subseteq LiveConns(p) BY <2>1, <3>1 DEF LiveConns
    <3>3. CountedElsewhere(p) \subseteq CountedElsewhere(p)'
      BY <2>1, <3>1 DEF CountedElsewhere
    <3>4. QED BY <3>1, <3>2, <3>3, FewerLive DEF Good
  <2>3. Good(q)
    <3>1. generation'[q] = generation[q] + 1 /\ active_conns'[q] = 0 /\ generation[q] \in Nat
      BY <1>2, <2>1
    <3>2. LiveConns(q)' = {}
      <4>1. ASSUME NEW w \in LiveConns(q)' PROVE FALSE
        <5>1. /\ w \in Visitors /\ visitor[w].proxy = q
              /\ visitor[w].generation = generation'[q]
              /\ visitor[w].state \in {"pending", "served"}
          BY <4>1, <2>1 DEF LiveConns
        <5>2. visitor[w].generation <= generation[q] BY <5>1 DEF IInv, VisitorInv
        <5>3. QED BY <3>1, <5>1, <5>2
      <4>2. QED BY <4>1
    <3> DEFINE F == CountedElsewhere(q)
    <3>3. Cardinality(LiveConns(q)') = 0 BY <3>2, FS_EmptySet
    <3>4. F' \in SUBSET Visitors BY DEF CountedElsewhere
    <3> HIDE DEF F
    <3>5. Cardinality(F') \in Nat BY <3>4, VisitorCounts
    <3>6. active_conns'[q] + Cardinality(F') >= Cardinality(LiveConns(q)')
      BY <3>1, <3>3, <3>5
    <3>7. QED BY <3>6 DEF Good, ActiveAt, F
  <2>4. QED BY <2>2, <2>3
<1>15. CASE /\ UNCHANGED <<generation, active_conns>>
            /\ pending_user_conns' \subseteq pending_user_conns
  BY <1>4, <1>5, <1>7, <1>15, VisitorSteps
<1>16. ASSUME NEW p \in Proxies, NEW e \in Endpoints, receive(p, e)
       PROVE  /\ UNCHANGED <<generation, active_conns>>
              /\ pending_user_conns' \subseteq pending_user_conns
  BY <1>16, KeptSubsets DEF receive, listeners
<1>17. ASSUME NEW p \in Proxies, control_stop(p) \/ listener_stop(p) \/ unregister(p)
       PROVE  /\ UNCHANGED <<generation, active_conns>>
              /\ pending_user_conns' \subseteq pending_user_conns
  BY <1>17 DEF control_stop, listener_stop, unregister, tables
<1>18. ASSUME NEW m \in announced \union offered,
              client_offers(m) \/ offer_lost(m) \/ claim(m)
       PROVE  /\ UNCHANGED <<generation, active_conns>>
              /\ pending_user_conns' \subseteq pending_user_conns
  BY <1>18 DEF client_offers, offer_lost, claim, listeners, tables
<1>19. ASSUME Tick \/ UNCHANGED vars
       PROVE  /\ UNCHANGED <<generation, active_conns>>
              /\ pending_user_conns' \subseteq pending_user_conns
  BY <1>19 DEF Tick, vars, listeners, tables
<1>20. QED
  BY <1>4, <1>11, <1>12, <1>13, <1>14, <1>15, <1>16, <1>17, <1>18, <1>19 DEF Next

-----------------------------------------------------------------------------
(* The theorems.                                                             *)

\* The invariant holds at the start.
LEMMA InitInv == Init => IInv
<1> SUFFICES ASSUME Init PROVE IInv OBVIOUS
<1>1. TypeOK
  <2>1. visitor \in [Visitors -> VisitorRecord]
    BY DEF Init, Visitor, VisitorRecord
  <2>2. QED BY <2>1 DEF Init, TypeOK, VisitorRecord
<1>2. StartedInv BY HandoffAssumption DEF Init, StartedInv
<1>3. QueueInv
  <2>1. Len(ticket_expiration_queue) = 0 BY DEF Init
  <2>2. 1..0 = {} OBVIOUS
  <2>3. Chronological(ticket_expiration_queue) BY <2>1, <2>2 DEF Chronological
  <2>4. QED BY <2>3 DEF Init, QueueInv
<1>4. IsFiniteSet({}) /\ Cardinality({}) = 0 BY FS_EmptySet
<1>5. LimitInv BY <1>4, HandoffAssumption DEF Init, LimitInv, PendingWithinLimit
<1>6. \A v \in Visitors : visitor[v].state = "new" /\ visitor[v].counter = -1
  BY DEF Init, Visitor
<1>7. TableInv BY <1>6 DEF Init, TableInv
<1>8. VisitorInv BY <1>6 DEF VisitorInv
<1>9. MailInv BY <1>6 DEF Init, MailInv
<1>10. ActiveNotUnder
  <2>1. \A p \in Proxies : LiveConns(p) = {} /\ CountedElsewhere(p) = {}
    BY <1>6 DEF LiveConns, CountedElsewhere
  <2>2. \A p \in Proxies : active_conns[p] = 0 BY DEF Init
  <2>3. QED BY <1>4, <2>1, <2>2 DEF ActiveNotUnder
<1>11. QED BY <1>1, <1>2, <1>3, <1>5, <1>7, <1>8, <1>9, <1>10 DEF IInv

\* The invariant is inductive: whatever visitors, datagrams, claims, expiries,
\* ends of sessions and re-registrations come, in any order.
THEOREM Invariance == Spec => []IInv
<1>1. IInv /\ [Next]_vars => IInv'
  <2>1. SUFFICES ASSUME IInv, [Next]_vars PROVE IInv' OBVIOUS
  <2>2. TypeOK' /\ StartedInv' BY <2>1, TypeStep
  <2>3. QueueInv' /\ LimitInv' BY <2>1, QueueStep, LimitStep
  <2>4. TableInv' /\ VisitorInv' BY <2>1, TableStep, VisitorStep
  <2>5. MailInv' /\ ActiveNotUnder' BY <2>1, MailStep, ActiveStep
  <2>6. QED BY <2>2, <2>3, <2>4, <2>5 DEF IInv
<1>2. QED BY <1>1, InitInv, PTL DEF Spec

\* Every field of the server, the listeners and the visitors keeps its type.
THEOREM TypeCorrect == Spec => []TypeOK
<1>1. IInv => TypeOK BY DEF IInv
<1>2. QED BY <1>1, Invariance, PTL

\* The two pending tables together never exceed MAX_PENDING_TICKETS: the check
\* that RegisterUserConn and RegisterUdpSession make after DoLazyCleanup is
\* enough, whatever was claimed, cleared or expired before.
THEOREM LimitKept == Spec => []PendingWithinLimit
<1>1. IInv => PendingWithinLimit BY DEF IInv, LimitInv
<1>2. QED BY <1>1, Invariance, PTL

\* Every entry of the tables can be found by DoLazyCleanup through the queue,
\* and the queue is chronological, as its early exit assumes.
THEOREM QueueCovers == Spec => []QueueCoversPending
<1>1. ASSUME IInv PROVE QueueCoversPending
  <2> DEFINE q == ticket_expiration_queue
  <2>1. \A c \in pending_user_conns : c \notin pending_udp_sessions
    <3>1. ASSUME NEW c \in pending_user_conns, c \in pending_udp_sessions PROVE FALSE
      <4>1. c.ticket = Ticket(c.visitor, c.proxy) /\ c.visitor \in Visitors
        BY <1>1 DEF IInv, TypeOK, TableInv
      <4>2. c.ticket \in UdpTickets BY <1>1, <3>1 DEF IInv, TableInv
      <4>3. QED BY <4>1, <4>2, TicketKinds
    <3>2. QED BY <3>1
  <2>2. ASSUME NEW c \in pending_user_conns \union pending_udp_sessions
        PROVE  \E i \in 1..Len(q) : /\ q[i].ticket = c.ticket
                                    /\ q[i].is_udp = (c \in pending_udp_sessions)
                                    /\ q[i].expires_at = c.created_at + Lifetime
    <3>1. CASE c \in pending_udp_sessions
      <4>1. Covered(c, q, TRUE) BY <1>1, <3>1 DEF IInv, QueueInv
      <4>2. (c \in pending_udp_sessions) = TRUE BY <3>1
      <4>3. QED BY <4>1, <4>2 DEF Covered
    <3>2. CASE c \notin pending_udp_sessions
      <4>1. Covered(c, q, FALSE) BY <1>1, <3>2 DEF IInv, QueueInv
      <4>2. (c \in pending_udp_sessions) = FALSE BY <3>2
      <4>3. QED BY <4>1, <4>2 DEF Covered
    <3>3. QED BY <3>1, <3>2
  <2>3. \A i \in 1..(Len(q) - 1) : q[i].expires_at <= q[i + 1].expires_at
    <3>1. q \in Seq(Expiries) BY <1>1 DEF IInv, TypeOK, Expiries
    <3>2. \A i, j \in 1..Len(q) : i <= j => q[i].expires_at <= q[j].expires_at
      BY <1>1 DEF IInv, QueueInv, Chronological
    <3>3. Len(q) \in Nat BY <3>1
    <3>4. \A i \in 1..(Len(q) - 1) : i \in 1..Len(q) /\ i + 1 \in 1..Len(q) /\ i <= i + 1
      BY <3>3
    <3>5. QED BY <3>2, <3>4
  <2>4. QED BY <2>2, <2>3 DEF QueueCoversPending
<1>2. QED BY <1>1, Invariance, PTL

\* A waiting visitor is in the table exactly once and nobody else is: no
\* connection is bridged twice and no socket forgotten, not even when two
\* visitors get the same ticket.
THEOREM WaitingPending == Spec => []WaitingIsPending
<1>1. ASSUME IInv PROVE WaitingIsPending
  <2>1. \A v \in Visitors : visitor[v].state = "pending" <=> v \in Closing(pending_user_conns)
    BY <1>1 DEF IInv, TableInv, Closing
  <2>2. \A c, d \in pending_user_conns :
          c.ticket = d.ticket \/ c.visitor = d.visitor => c = d
    BY <1>1 DEF IInv, TableInv
  <2>3. QED BY <2>1, <2>2 DEF WaitingIsPending
<1>2. QED BY <1>1, Invariance, PTL

\* A visitor is bridged to the client of the proxy it came for, whatever claims,
\* expiries, clears and re-registrations come between.  Nothing is assumed of the
\* clock: a TCP visitor can be served by another TCP proxy's client only if a
\* visitor of that proxy drew the same reading, and a vhost visitor never.
THEOREM OwnProxy == Spec => []ServedByOwnProxy
<1>1. ASSUME IInv PROVE ServedByOwnProxy
  <2>1. SUFFICES ASSUME NEW v \in Visitors, visitor[v].state = "served",
                        visitor[v].by # visitor[v].proxy
                 PROVE  /\ Kind[visitor[v].proxy] # "http"
                        /\ DrewSameReading(v, visitor[v].by)
    BY DEF ServedByOwnProxy
  <2> DEFINE p  == visitor[v].proxy
             by == visitor[v].by
  <2>2. PICK w \in Visitors : Ticket(w, by) = Ticket(v, p) /\ visitor[w].proxy = by
    BY <1>1, <2>1 DEF IInv, MailInv, CameFor
  <2>3. w # v BY <2>1, <2>2
  <2> HIDE DEF p, by
  <2>4. Kind[p] # "http" /\ Kind[by] # "http"
    BY <2>2, <2>3 DEF Ticket, TcpTicket, VhostTicket
  <2>5. Clock[w] = Clock[v] BY <2>2, <2>4 DEF Ticket, TcpTicket
  <2>6. QED BY <2>2, <2>3, <2>4, <2>5 DEF DrewSameReading, p, by
<1>2. QED BY <1>1, Invariance, PTL

\* active_conns_ of a TCP listener falls short of its live connections by no more
\* than the visitors of earlier listeners that were counted down at it.
THEOREM ActiveKept == Spec => []ActiveNotUnder
<1>1. IInv => ActiveNotUnder BY DEF IInv
<1>2. QED BY <1>1, Invariance, PTL

\* Every registration removes all who have expired: stopping at the first entry
\* that is still good misses nobody.
THEOREM CleanupComplete == Spec => CleanupIsComplete
<1>1. IInv /\ [Next]_vars => [Registers => NobodyExpired']_vars
  <2>1. SUFFICES ASSUME IInv, Registers PROVE NobodyExpired' OBVIOUS
  <2>2. QED BY <2>1, RegistrationCovers
<1>2. QED BY <1>1, Invariance, PTL DEF Spec, CleanupIsComplete

=============================================================================
