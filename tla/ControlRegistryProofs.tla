----------------------- MODULE ControlRegistryProofs ------------------------
(***************************************************************************)
(* Proofs about ControlRegistry, for any number of clients and sessions    *)
(* and any configuration: a session that has not logged in is watched, one *)
(* that has ended holds nothing, and the name of a session is its own; and *)
(* client and server agree on the proxies once nothing is on its way.      *)
(***************************************************************************)
EXTENDS ControlRegistry, FiniteSetTheorems, WellFoundedInduction, TLAPS

-----------------------------------------------------------------------------
(* Messages, handlers and queues of them.                                    *)

\* What a name is a sequence of: strings, and the number that makes it new.
\* (The provers are not told that "client" is a string.)
Letters == STRING \union {"client"} \union Nat

ClientNames == Seq(Letters)

\* The proxy of a message that removes the proxy of that name.
AnyProxy == [name : STRING, type : {"tcp", "udp", "http"}, at : Nat, limit : BOOLEAN]

LoginMessages == [type : {"login"}, name : ClientNames, proxy : {NoProxy}]
Registrations == [type : {"register"}, name : {<<>>}, proxy : Proxies]
Removals      == [type : {"unregister"}, name : {<<>>}, proxy : AnyProxy]
PlainMessages == Registrations \union Removals
Messages      == LoginMessages \union PlainMessages

\* The handlers of a session, those of a login, and the Stop that was posted.
Handlers == [run : {"message"}, msg : Messages] \union {stop_posted}
Logins   == [run : {"message"}, msg : LoginMessages]
Stops    == {stop_posted}

\* No element of queue q is in H; at most one is.
None(q, H) == \A i \in 1..Len(q) : q[i] \notin H
One(q, H) == \A i, j \in 1..Len(q) : q[i] \in H /\ q[j] \in H => i = j

-----------------------------------------------------------------------------
(* The inductive invariant.                                                  *)

\* TypeOK, and the types of what it leaves out.
Types ==
  /\ TypeOK
  /\ client_name \in [Sessions -> ClientNames]
  /\ strand \in [Sessions -> Seq(Handlers)]
  /\ stopping \in [Sessions -> {"no", "yes", "reads"}]
  /\ wire \in [Sessions -> Seq(Messages)]
  /\ answer \in [Sessions -> ClientNames]
  /\ login_due \in [Clients -> BOOLEAN]
  /\ name \in [Clients -> ClientNames]
  /\ dynamic_proxies \in [Clients -> SUBSET Proxies]
  /\ robbed \subseteq Sessions

\* The sessions not yet accepted have no connection; one that has no control
\* stream yet has done nothing.
FreshInv ==
  /\ \A s \in Sessions : s > made => transport[s] = "none"
  /\ \A s \in Sessions : transport[s] \in {"none", "handshaking"} =>
       /\ strand[s] = <<>> /\ wire[s] = <<>>
       /\ ~authenticated[s] /\ ~reading[s] /\ ~writing[s] /\ ~auth_timer[s]
       /\ \A c \in Clients : control_stream[c] # s

\* A session that is stopped has no connection and is not entered.
StopInv ==
  \A s \in Sessions :
    closed[s] \/ stopping[s] # "no" => s \notin mux_to_control /\ transport[s] = "lost"

\* A control stream belongs to one client.
LinkInv ==
  \A c, d \in Clients :
    control_stream[c] = control_stream[d] /\ control_stream[c] # 0 => c = d

\* A session gets one login.
LoginInv ==
  /\ \A s \in Sessions :
       /\ One(wire[s], LoginMessages) /\ One(strand[s], Logins)
       /\ None(wire[s], LoginMessages) \/ None(strand[s], Logins)
       /\ authenticated[s] => None(wire[s], LoginMessages) /\ None(strand[s], Logins)
  /\ \A c \in Clients : login_due[c] =>
       /\ control_stream[c] # 0
       /\ ~authenticated[control_stream[c]]
       /\ None(wire[control_stream[c]], LoginMessages)
       /\ None(strand[control_stream[c]], Logins)

\* A name leads to a session that has it, and a Stop has released it.
NamesInv ==
  \A n \in DOMAIN sessions :
    /\ authenticated[sessions[n]]
    /\ client_name[sessions[n]] = n
    /\ stopping[sessions[n]] = "no"

\* A domain leads to a session that has registered it.
RouteInv ==
  \A d \in Domains : vhost_routes[d] # 0 => d \in registered_domains[vhost_routes[d]]

\* A Stop is coming for session s, if only because its read will fail.
StopComes(s) ==
  ~closed[s] \/ reading[s] \/ ~None(strand[s], Stops) \/ stopping[s] # "no"

\* It is coming for every session that holds a name, a listener or a route.
HoldsInv ==
  /\ \A n \in DOMAIN sessions : StopComes(sessions[n])
  /\ \A s \in Sessions :
       proxies[s] # <<>> \/ registered_domains[s] # {} => StopComes(s)

IInv ==
  /\ Types /\ FreshInv /\ StopInv /\ LinkInv /\ LoginInv /\ NamesInv /\ RouteInv
  /\ HoldsInv /\ LoginIsWatched /\ NameIsOwn

-----------------------------------------------------------------------------
(* Facts about queues.                                                       *)

\* The element at the head of a queue leaves it.
LEMMA TailQueue ==
  ASSUME NEW Q, NEW s \in Seq(Q), s # <<>>
  PROVE  /\ Head(s) \in Q
         /\ Tail(s) \in Seq(Q)
         /\ \A H : /\ None(s, H) <=> Head(s) \notin H /\ None(Tail(s), H)
                   /\ One(s, H) => One(Tail(s), H)
                   /\ One(s, H) /\ Head(s) \in H => None(Tail(s), H)
<1>1. /\ Head(s) \in Q /\ Tail(s) \in Seq(Q) /\ Head(s) = s[1]
      /\ Len(s) \in Nat /\ Len(Tail(s)) = Len(s) - 1 /\ Len(s) >= 1
    OBVIOUS
<1>2. \A i \in 1..Len(Tail(s)) : Tail(s)[i] = s[i + 1] /\ i + 1 \in 1..Len(s) /\ i + 1 # 1
    BY <1>1
<1>3. \A i \in 1..Len(s) : i # 1 => i - 1 \in 1..Len(Tail(s)) /\ Tail(s)[i - 1] = s[i]
    BY <1>1, <1>2
<1>4. 1 \in 1..Len(s) BY <1>1
<1>5. ASSUME NEW H
      PROVE  /\ None(s, H) <=> Head(s) \notin H /\ None(Tail(s), H)
             /\ One(s, H) => One(Tail(s), H)
             /\ One(s, H) /\ Head(s) \in H => None(Tail(s), H)
  <2>5. None(s, H) => None(Tail(s), H) BY <1>2 DEF None
  <2>6. None(s, H) => Head(s) \notin H BY <1>1, <1>4 DEF None
  <2>7. One(s, H) => One(Tail(s), H)
    <3>1. ASSUME One(s, H), NEW i \in 1..Len(Tail(s)), NEW j \in 1..Len(Tail(s)),
                 Tail(s)[i] \in H, Tail(s)[j] \in H
          PROVE  i = j
      <4>1. i + 1 = j + 1 BY <1>2, <3>1 DEF One
      <4>2. QED BY <1>1, <4>1
    <3>2. QED BY <3>1 DEF One
  <2>8. One(s, H) /\ Head(s) \in H => None(Tail(s), H)
    BY <1>1, <1>2, <1>4 DEF One, None
  <2>9. Head(s) \notin H /\ None(Tail(s), H) => None(s, H)
    BY <1>1, <1>3 DEF None
  <2>10. QED BY <2>5, <2>6, <2>7, <2>8, <2>9
<1>6. QED BY <1>1, <1>5

\* An element joins a queue.
LEMMA AppendQueue ==
  ASSUME NEW Q, NEW s \in Seq(Q), NEW h \in Q
  PROVE  /\ Append(s, h) \in Seq(Q) /\ Append(s, h) # <<>>
         /\ \A H : /\ None(Append(s, h), H) <=> None(s, H) /\ h \notin H
                   /\ One(s, H) /\ h \notin H => One(Append(s, h), H)
                   /\ None(s, H) => One(Append(s, h), H)
<1> DEFINE t == Append(s, h)
<1>1. /\ t \in Seq(Q) /\ t # <<>> /\ Len(s) \in Nat /\ Len(t) = Len(s) + 1
      /\ t[Len(s) + 1] = h /\ Len(s) + 1 \in 1..Len(t)
      /\ \A i \in 1..Len(s) : i \in 1..Len(t) /\ t[i] = s[i]
      /\ \A i \in 1..Len(t) : i \in 1..Len(s) \/ i = Len(s) + 1
    OBVIOUS
<1> HIDE DEF t
<1>2. ASSUME NEW H
      PROVE  /\ None(t, H) <=> None(s, H) /\ h \notin H
             /\ One(s, H) /\ h \notin H => One(t, H)
             /\ None(s, H) => One(t, H)
  <2>2. None(t, H) <=> None(s, H) /\ h \notin H BY <1>1 DEF None
  <2>3. One(s, H) /\ h \notin H => One(t, H)
    <3>1. ASSUME One(s, H), h \notin H, NEW i \in 1..Len(t), t[i] \in H
          PROVE  i \in 1..Len(s) /\ s[i] \in H
      BY <1>1, <3>1
    <3>2. QED BY <3>1 DEF One
  <2>4. None(s, H) => One(t, H)
    <3>1. ASSUME None(s, H), NEW i \in 1..Len(t), t[i] \in H PROVE i = Len(s) + 1
      BY <1>1, <3>1 DEF None
    <3>2. QED BY <3>1 DEF One
  <2>5. QED BY <2>2, <2>3, <2>4
<1>3. QED BY <1>1, <1>2 DEF t

\* A queue of elements that are none of H joins another one.
LEMMA JoinQueue ==
  ASSUME NEW Q, NEW s \in Seq(Q), NEW t \in Seq(Q), NEW H, None(t, H)
  PROVE  /\ s \o t \in Seq(Q)
         /\ None(s, H) => None(s \o t, H)
         /\ One(s, H) => One(s \o t, H)
<1> DEFINE u == s \o t
<1>1. /\ u \in Seq(Q) /\ Len(s) \in Nat /\ Len(t) \in Nat /\ Len(u) = Len(s) + Len(t)
  OBVIOUS
<1>2. ASSUME NEW i \in 1..Len(u), u[i] \in H PROVE i \in 1..Len(s) /\ s[i] \in H
  <2>1. CASE i \in 1..Len(s) BY <1>2, <2>1
  <2>2. CASE i \notin 1..Len(s)
    <3>1. i - Len(s) \in 1..Len(t) BY <1>1, <2>2
    <3>2. u[i] = t[i - Len(s)] BY <1>1, <2>2
    <3>3. QED BY <1>2, <3>1, <3>2 DEF None
  <2>3. QED BY <2>1, <2>2
<1> HIDE DEF u
<1>3. None(s, H) => None(u, H) BY <1>2 DEF None
<1>4. One(s, H) => One(u, H) BY <1>2 DEF One
<1>5. QED BY <1>1, <1>3, <1>4 DEF u

\* An empty queue.
LEMMA EmptyQueue ==
  ASSUME NEW Q
  PROVE  <<>> \in Seq(Q) /\ \A H : None(<<>>, H) /\ One(<<>>, H)
BY DEF None, One

\* A queue that has none of H has at most one.
LEMMA NoneIsOne ==
  ASSUME NEW s, NEW H, None(s, H)
  PROVE  One(s, H)
BY DEF None, One

\* A queue without its i-th element.
LEMMA Without ==
  ASSUME NEW Q, NEW s \in Seq(Q), NEW i \in 1..Len(s)
  PROVE  RemoveAt(s, i) \in Seq(Q)
<1>1. Len(s) \in Nat /\ i \in Nat /\ i >= 1 /\ i <= Len(s) OBVIOUS
<1>2. SubSeq(s, 1, i - 1) \in Seq(Q) BY <1>1
<1>3. SubSeq(s, i + 1, Len(s)) \in Seq(Q) BY <1>1
<1>4. QED BY <1>2, <1>3 DEF RemoveAt

-----------------------------------------------------------------------------
(* What a client sends.                                                      *)

\* A set of natural numbers has a least element.
LEMMA LeastNatural ==
  ASSUME NEW T, T \subseteq Nat, T # {}
  PROVE  \E m \in T : \A j \in T : m <= j
<1>1. PICK m \in T : \A j \in T : <<j, m>> \notin OpToRel(<, Nat)
    BY NatLessThanWellFounded, WFMin
<1>2. ASSUME NEW j \in T, j < m PROVE FALSE
    <2>1. <<j, m>> \in OpToRel(<, Nat) BY <1>2 DEF OpToRel
    <2>2. QED BY <2>1, <1>1
<1>3. \A j \in T : m <= j BY <1>2
<1>4. QED BY <1>3

\* f is the first n of the sequences in q, joined one by one.
JoinsUpTo(f, q, Q, n) ==
  /\ f \in [1..n -> Seq(Q)]
  /\ \A i \in 1..n : f[i] = IF i = 1 THEN q[i] ELSE f[i - 1] \o q[i]

\* These joins exist: the first number up to which they would not has joins up
\* to the number before it.
LEMMA JoinsExist ==
  ASSUME NEW Q, NEW q \in Seq(Seq(Q)), NEW n \in 0..Len(q)
  PROVE  \E f : JoinsUpTo(f, q, Q, n)
<1> DEFINE T == {j \in 0..Len(q) : ~ \E f : JoinsUpTo(f, q, Q, j)}
<1>1. SUFFICES ASSUME T # {} PROVE FALSE OBVIOUS
<1>2. T \subseteq Nat OBVIOUS
<1>3. PICK m \in T : \A j \in T : m <= j BY <1>1, <1>2, LeastNatural
<1>4. m \in 0..Len(q) /\ Len(q) \in Nat OBVIOUS
<1>5. CASE m = 0
  <2>1. JoinsUpTo([k \in 1..m |-> <<>>], q, Q, m) BY <1>5 DEF JoinsUpTo
  <2>2. QED BY <2>1
<1>6. CASE m # 0
  <2>1. m - 1 \in 0..Len(q) /\ m - 1 \notin T
    <3> HIDE DEF T
    <3>1. QED BY <1>3, <1>4, <1>6
  <2>2. PICK f : JoinsUpTo(f, q, Q, m - 1) BY <2>1
  <2> DEFINE last == IF m = 1 THEN q[m] ELSE f[m - 1] \o q[m]
             g == [k \in 1..m |-> IF k = m THEN last ELSE f[k]]
  <2>3. q[m] \in Seq(Q) BY <1>4, <1>6
  <2>4. /\ \A k \in 1..(m - 1) : f[k] \in Seq(Q)
        /\ \A k \in 1..(m - 1) : f[k] = IF k = 1 THEN q[k] ELSE f[k - 1] \o q[k]
    BY <2>2 DEF JoinsUpTo
  <2>5. last \in Seq(Q)
    <3>1. CASE m = 1 BY <2>3, <3>1
    <3>2. CASE m # 1
      <4>1. f[m - 1] \in Seq(Q) BY <1>4, <1>6, <3>2, <2>4
      <4>2. QED BY <2>3, <3>2, <4>1
    <3>3. QED BY <3>1, <3>2
  <2>6. g \in [1..m -> Seq(Q)]
    <3>1. ASSUME NEW k \in 1..m, k # m PROVE f[k] \in Seq(Q) BY <2>4, <3>1, <1>4
    <3> HIDE DEF last
    <3>2. QED BY <2>5, <3>1
  <2>7. ASSUME NEW k \in 1..m PROVE g[k] = IF k = 1 THEN q[k] ELSE g[k - 1] \o q[k]
    <3>1. CASE k = m /\ k = 1 BY <3>1
    <3>2. CASE k = m /\ k # 1
      <4>1. k - 1 \in 1..m /\ k - 1 # m BY <1>4, <3>2
      <4>2. g[k - 1] = f[k - 1] BY <4>1
      <4>3. g[k] = f[k - 1] \o q[k] BY <3>2
      <4>4. QED BY <3>2, <4>2, <4>3
    <3>3. CASE k # m
      <4>1. k \in 1..(m - 1) BY <1>4, <3>3
      <4>2. g[k] = IF k = 1 THEN q[k] ELSE f[k - 1] \o q[k] BY <2>4, <4>1
      <4>3. CASE k = 1 BY <4>2, <4>3
      <4>4. CASE k # 1
        <5>1. k - 1 \in 1..m /\ k - 1 # m BY <1>4, <4>1, <4>4
        <5>2. g[k - 1] = f[k - 1] BY <5>1
        <5>3. QED BY <4>2, <4>4, <5>2
      <4>5. QED BY <4>3, <4>4
    <3>4. QED BY <3>1, <3>2, <3>3
  <2> HIDE DEF g
  <2>8. JoinsUpTo(g, q, Q, m) BY <2>6, <2>7 DEF JoinsUpTo
  <2>9. QED BY <2>8
<1>7. QED BY <1>5, <1>6

\* Flattening sequences of Q is to join them all.
LEMMA FlattenJoins ==
  ASSUME NEW Q, NEW q \in Seq(Seq(Q)), Len(q) # 0
  PROVE  \E f : JoinsUpTo(f, q, Q, Len(q)) /\ FlattenSeq(q) = f[Len(q)]
<1> DEFINE n == Len(q)
           Step(g) == [i \in 1..n |-> IF i = 1 THEN q[i] ELSE g[i - 1] \o q[i]]
           flatten == CHOOSE g : g = Step(g)
<1>1. n \in Nat OBVIOUS
<1>2. PICK f : JoinsUpTo(f, q, Q, n) BY <1>1, JoinsExist
<1>3. f = Step(f) BY <1>2 DEF JoinsUpTo
<1>4. flatten = Step(flatten) BY <1>3
<1>5. FlattenSeq(q) = flatten[n] BY DEF FlattenSeq
<1> DEFINE T == {k \in 1..n : flatten[k] \notin Seq(Q)}
<1>6. \A k \in 1..n : flatten[k] = IF k = 1 THEN q[k] ELSE flatten[k - 1] \o q[k]
  <2> HIDE DEF flatten
  <2>1. QED BY <1>4
<1>7. T = {}
  <2> HIDE DEF flatten
  <2>1. SUFFICES ASSUME T # {} PROVE FALSE OBVIOUS
  <2>2. T \subseteq Nat OBVIOUS
  <2>3. PICK m \in T : \A j \in T : m <= j BY <2>1, <2>2, LeastNatural
  <2>4. m \in 1..n /\ flatten[m] \notin Seq(Q) OBVIOUS
  <2>5. q[m] \in Seq(Q) BY <2>4
  <2>6. CASE m = 1 BY <1>6, <2>4, <2>5, <2>6
  <2>7. CASE m # 1
    <3>1. m - 1 \in 1..n /\ m - 1 \notin T BY <1>1, <2>3, <2>4, <2>7
    <3>2. flatten[m - 1] \in Seq(Q) BY <3>1
    <3>3. flatten[m] = flatten[m - 1] \o q[m] BY <1>6, <2>4, <2>7
    <3>4. QED BY <2>4, <2>5, <3>2, <3>3
  <2>8. QED BY <2>6, <2>7
<1>8. flatten = [k \in 1..n |-> flatten[k]]
  <2> HIDE DEF flatten
  <2>1. QED BY <1>4
<1> HIDE DEF flatten
<1>9. JoinsUpTo(flatten, q, Q, n) BY <1>6, <1>7, <1>8 DEF JoinsUpTo
<1>10. QED BY <1>5, <1>9

\* Sequences of Q flatten to one.
LEMMA Flattened ==
  ASSUME NEW Q, NEW q \in Seq(Seq(Q))
  PROVE  FlattenSeq(q) \in Seq(Q)
<1>1. CASE Len(q) = 0
  <2>1. q = <<>> BY <1>1
  <2>2. FlattenSeq(q) = <<>> BY <1>1, <2>1 DEF FlattenSeq
  <2>3. QED BY <2>2, EmptyQueue
<1>2. CASE Len(q) # 0
  <2>1. PICK f : JoinsUpTo(f, q, Q, Len(q)) /\ FlattenSeq(q) = f[Len(q)]
    BY <1>2, FlattenJoins
  <2>2. Len(q) \in 1..Len(q) BY <1>2
  <2>3. QED BY <2>1, <2>2 DEF JoinsUpTo
<1>3. QED BY <1>1, <1>2

\* Where the parts of q lie in sequence r: the i-th element of part k is at
\* start[k] + i, the parts do not overlap, and there is nothing else in r.
PartsAt(q, r, start, n) ==
  /\ \A k \in 1..n : /\ start[k] \in Nat /\ start[k] + Len(q[k]) <= Len(r)
                       /\ \A i \in 1..Len(q[k]) : r[start[k] + i] = q[k][i]
  /\ \A k, l \in 1..n : k < l => start[k] + Len(q[k]) <= start[l]
  /\ \A j \in 1..Len(r) : \E k \in 1..n : \E i \in 1..Len(q[k]) : j = start[k] + i

\* A part joins the sequence.
LEMMA PartJoins ==
  ASSUME NEW Q, NEW q \in Seq(Seq(Q)), NEW m \in 1..Len(q), NEW r \in Seq(Q), NEW start,
         PartsAt(q, r, start, m - 1), start[m] = Len(r)
  PROVE  PartsAt(q, r \o q[m], start, m)
<1> DEFINE t == r \o q[m]
<1>1. m \in Nat /\ m >= 1 /\ \A k \in 1..m : k \in 1..(m - 1) \/ k = m OBVIOUS
<1>2. q[m] \in Seq(Q) OBVIOUS
<1>3. /\ t \in Seq(Q) /\ Len(r) \in Nat /\ Len(q[m]) \in Nat /\ Len(t) = Len(r) + Len(q[m])
      /\ \A j \in 1..Len(r) : t[j] = r[j]
      /\ \A i \in 1..Len(q[m]) : t[Len(r) + i] = q[m][i]
  BY <1>2
<1>4. \A k \in 1..m : Len(q[k]) \in Nat
  <2>1. ASSUME NEW k \in 1..m PROVE q[k] \in Seq(Q) OBVIOUS
  <2>2. QED BY <2>1
<1> HIDE DEF t
<1>5. ASSUME NEW k \in 1..m
      PROVE  /\ start[k] \in Nat /\ start[k] + Len(q[k]) <= Len(t)
             /\ \A i \in 1..Len(q[k]) : t[start[k] + i] = q[k][i]
  <2> DEFINE a == start[k]
             p == q[k]
  <2>0. Len(p) \in Nat BY <1>4
  <2>1. CASE k = m
    <3>1. a = Len(r) /\ p = q[m] BY <2>1
    <3> HIDE DEF a, p
    <3>2. /\ a \in Nat /\ a + Len(p) <= Len(t)
          /\ \A i \in 1..Len(p) : t[a + i] = p[i]
      BY <1>3, <3>1
    <3>3. QED BY <3>2 DEF a, p
  <2>2. CASE k # m
    <3>1. a \in Nat /\ a + Len(p) <= Len(r) /\ \A i \in 1..Len(p) : r[a + i] = p[i]
      BY <1>1, <2>2 DEF PartsAt
    <3> HIDE DEF a, p
    <3>2. \A i \in 1..Len(p) : a + i \in 1..Len(r) BY <1>3, <2>0, <3>1
    <3>3. \A i \in 1..Len(p) : t[a + i] = p[i] BY <1>3, <3>1, <3>2
    <3>4. a + Len(p) <= Len(t) BY <1>3, <2>0, <3>1
    <3>5. QED BY <3>1, <3>3, <3>4 DEF a, p
  <2>3. QED BY <2>1, <2>2
<1>6. ASSUME NEW k \in 1..m, NEW l \in 1..m, k < l
      PROVE  start[k] + Len(q[k]) <= start[l]
  <2>1. k \in 1..(m - 1) BY <1>1, <1>6
  <2>2. CASE l = m BY <2>1, <2>2 DEF PartsAt
  <2>3. CASE l # m
    <3>1. l \in 1..(m - 1) BY <1>1, <2>3
    <3>2. QED BY <1>6, <2>1, <3>1 DEF PartsAt
  <2>4. QED BY <2>2, <2>3
<1>7. ASSUME NEW j \in 1..Len(t)
      PROVE  \E k \in 1..m : \E i \in 1..Len(q[k]) : j = start[k] + i
  <2>1. CASE j \in 1..Len(r)
    <3>1. PICK k \in 1..(m - 1) : \E i \in 1..Len(q[k]) : j = start[k] + i
      BY <2>1 DEF PartsAt
    <3>2. k \in 1..m BY <1>1
    <3>3. QED BY <3>1, <3>2
  <2>2. CASE j \notin 1..Len(r)
    <3>1. j - Len(r) \in 1..Len(q[m]) /\ j = start[m] + (j - Len(r)) BY <1>3, <2>2
    <3>2. m \in 1..m BY <1>1
    <3>3. QED BY <3>1, <3>2
  <2>3. QED BY <2>1, <2>2
<1>8. PartsAt(q, t, start, m) BY <1>5, <1>6, <1>7 DEF PartsAt
<1>9. QED BY <1>8 DEF t

\* The parts of a flattened sequence follow one another: the first number up to
\* which they would not follows one up to which they do.
LEMMA FlattenedParts ==
  ASSUME NEW Q, NEW q \in Seq(Seq(Q))
  PROVE  \E start : PartsAt(q, FlattenSeq(q), start, Len(q))
<1> DEFINE n == Len(q)
<1>1. n \in Nat OBVIOUS
<1>2. CASE n = 0
  <2>1. q = <<>> BY <1>2
  <2>2. FlattenSeq(q) = <<>> BY <1>2, <2>1 DEF FlattenSeq
  <2>3. PartsAt(q, <<>>, <<>>, 0) BY DEF PartsAt
  <2>4. QED BY <1>2, <2>2, <2>3
<1>3. CASE n # 0
  <2>1. PICK f : JoinsUpTo(f, q, Q, n) /\ FlattenSeq(q) = f[n] BY <1>3, FlattenJoins
  <2> DEFINE start == [k \in 1..n |-> IF k = 1 THEN 0 ELSE Len(f[k - 1])]
             T == {k \in 1..n : ~PartsAt(q, f[k], start, k)}
  <2>2. /\ \A k \in 1..n : f[k] \in Seq(Q)
        /\ \A k \in 1..n : f[k] = IF k = 1 THEN q[k] ELSE f[k - 1] \o q[k]
    BY <2>1 DEF JoinsUpTo
  <2>3. \A k \in 1..n : q[k] \in Seq(Q) OBVIOUS
  <2>4. \A k \in 1..n : start[k] = IF k = 1 THEN 0 ELSE Len(f[k - 1]) OBVIOUS
  <2> HIDE DEF start
  <2>5. T = {}
    <3>1. SUFFICES ASSUME T # {} PROVE FALSE OBVIOUS
    <3>2. T \subseteq Nat OBVIOUS
    <3>3. PICK m \in T : \A j \in T : m <= j BY <3>1, <3>2, LeastNatural
    <3>4. m \in 1..n /\ ~PartsAt(q, f[m], start, m) OBVIOUS
    <3> HIDE DEF T, n
    <3>5. CASE m = 1
      <4>1. PartsAt(q, <<>>, start, m - 1) BY <3>5 DEF PartsAt
      <4>2. start[m] = 0 /\ f[m] = q[m] /\ q[m] \in Seq(Q) BY <2>2, <2>3, <2>4, <3>4, <3>5
      <4>3. <<>> \in Seq(Q) /\ Len(<<>>) = 0 /\ <<>> \o q[m] = q[m] BY <4>2
      <4>4. PartsAt(q, <<>> \o q[m], start, m) BY <3>4, <4>1, <4>2, <4>3, PartJoins DEF n
      <4>5. QED BY <3>4, <4>2, <4>3, <4>4
    <3>6. CASE m # 1
      <4>1. m - 1 \in 1..n /\ m - 1 \notin T BY <1>1, <3>3, <3>4, <3>6
      <4>2. PartsAt(q, f[m - 1], start, m - 1) BY <4>1 DEF T
      <4>3. f[m] = f[m - 1] \o q[m] /\ start[m] = Len(f[m - 1]) /\ f[m - 1] \in Seq(Q)
        BY <2>2, <2>4, <3>4, <3>6, <4>1
      <4>4. QED BY <3>4, <4>2, <4>3, PartJoins DEF n
    <3>7. QED BY <3>5, <3>6
  <2>6. n \in 1..n BY <1>1, <1>3
  <2>7. PartsAt(q, f[n], start, n) BY <2>5, <2>6
  <2>8. QED BY <2>1, <2>7
<1>4. QED BY <1>2, <1>3

\* What the assumption says of the proxies and the directories.
LEMMA ProxiesTyped ==
  /\ Proxies \subseteq AnyProxy
  /\ \A p \in Proxies : p.name \in STRING /\ (p.type = "http" => p.at \in Domains)
  /\ \A c \in Clients : /\ Static[c] \in Seq(Proxies)
                        /\ IsFiniteSet(ConfFiles[c])
                        /\ Directories(c) \subseteq SUBSET ConfFiles[c]
                        /\ ConfFiles[c] \subseteq Proxies
                        /\ {} \in Directories(c)
<1>1. Proxies \subseteq AnyProxy BY RegistryAssumption DEF AnyProxy
<1>2. \A p \in Proxies : p.name \in STRING BY <1>1 DEF AnyProxy
<1>3. \A p \in Proxies : p.type = "http" => p.at \in Domains BY DEF Domains
<1>4. \A c \in Clients : Static[c] \in Seq(Proxies) /\ IsFiniteSet(ConfFiles[c])
  BY RegistryAssumption
<1>5. \A c \in Clients : ConfFiles[c] \subseteq Proxies BY DEF Proxies
<1>6. QED BY <1>1, <1>2, <1>3, <1>4, <1>5 DEF Directories

\* The messages of a client, by their type.
LEMMA MessageKinds ==
  /\ \A p \in Proxies : Message("register", <<>>, p) \in PlainMessages
  /\ \A n \in STRING :
       Message("unregister", <<>>, [NoProxy EXCEPT !.name = n]) \in PlainMessages
  /\ \A n \in ClientNames : Message("login", n, NoProxy) \in LoginMessages
  /\ \A m \in Messages :
       /\ m \in LoginMessages <=> m.type = "login"
       /\ m.type = "login" => m.name \in ClientNames
       /\ m.type = "register" => m.proxy \in Proxies
       /\ m.type \in {"login", "register", "unregister"}
<1>1. \A p \in Proxies : Message("register", <<>>, p) \in PlainMessages
  BY DEF Message, PlainMessages, Registrations
<1>2. ASSUME NEW n \in STRING
      PROVE  Message("unregister", <<>>, [NoProxy EXCEPT !.name = n]) \in PlainMessages
  <2>1. [NoProxy EXCEPT !.name = n] \in AnyProxy BY DEF NoProxy, AnyProxy
  <2>2. QED BY <2>1 DEF Message, PlainMessages, Removals
<1>3. \A n \in ClientNames : Message("login", n, NoProxy) \in LoginMessages
  BY DEF Message, LoginMessages
<1>4. ASSUME NEW m \in Messages
      PROVE  /\ m \in LoginMessages <=> m.type = "login"
             /\ m.type = "login" => m.name \in ClientNames
             /\ m.type = "register" => m.proxy \in Proxies
             /\ m.type \in {"login", "register", "unregister"}
  BY DEF Messages, PlainMessages, LoginMessages, Registrations, Removals
<1>5. QED BY <1>1, <1>2, <1>3, <1>4

\* The handlers of a session, by what they run.
LEMMA HandlerKinds ==
  /\ stop_posted \in Handlers /\ stop_posted \in Stops /\ stop_posted \notin Logins
  /\ \A m \in Messages : /\ Handler("message", m) \in Handlers
                         /\ Handler("message", m) \notin Stops
                         /\ Handler("message", m) \in Logins <=> m \in LoginMessages
  /\ \A h \in Handlers :
       /\ h \in Stops <=> h.run = "stop"
       /\ h.run = "message" => h.msg \in Messages /\ (h \in Logins <=> h.msg \in LoginMessages)
<1>1. stop_posted.run = "stop" BY DEF stop_posted, Handler
<1>2. \A h \in [run : {"message"}, msg : Messages] :
        h.run = "message" /\ h.msg \in Messages /\ h = [run |-> "message", msg |-> h.msg]
  OBVIOUS
<1>3. \A h \in Logins : h.run = "message" BY DEF Logins
<1>4. \A m \in Messages : [run |-> "message", msg |-> m] \in Logins <=> m \in LoginMessages
  <2>1. \A h \in Logins : h.msg \in LoginMessages BY DEF Logins
  <2>2. \A m \in LoginMessages : [run |-> "message", msg |-> m] \in Logins BY DEF Logins
  <2>3. QED BY <2>1, <2>2
<1>5. QED BY <1>1, <1>2, <1>3, <1>4 DEF Handlers, Stops, Handler

\* A queue of registrations and removals has no login.
LEMMA PlainQueue ==
  ASSUME NEW q \in Seq(PlainMessages)
  PROVE  q \in Seq(Messages) /\ None(q, LoginMessages)
<1>1. \A i \in 1..Len(q) : q[i] \in PlainMessages OBVIOUS
<1>2. \A m \in PlainMessages : m \in Messages /\ m \notin LoginMessages
  BY DEF PlainMessages, Messages, Registrations, Removals, LoginMessages
<1>3. q \in Seq(Messages) BY <1>1, <1>2
<1>4. QED BY <1>1, <1>2, <1>3 DEF None

\* A list of proxies is registered with plain messages.
LEMMA RegistersPlain ==
  ASSUME NEW list \in Seq(Proxies)
  PROVE  Registers(list) \in Seq(PlainMessages)
<1>1. \A i \in 1..Len(list) : Message("register", <<>>, list[i]) \in PlainMessages
  BY MessageKinds
<1>2. Len(list) \in Nat OBVIOUS
<1>3. QED BY <1>1, <1>2 DEF Registers

\* A finite set as a sequence: each of its elements is there once.
LEMMA ListedOnce ==
  ASSUME NEW S, IsFiniteSet(S)
  PROVE  /\ SetToSeq(S) \in Seq(S)
         /\ \A i, j \in 1..Len(SetToSeq(S)) : SetToSeq(S)[i] = SetToSeq(S)[j] => i = j
         /\ \A x \in S : \E i \in 1..Len(SetToSeq(S)) : SetToSeq(S)[i] = x
<1> DEFINE n == Cardinality(S)
           f == SetToSeq(S)
<1>1. n \in Nat /\ \E g : g \in Bijection(1..n, S) BY FS_CardinalityType DEF ExistsBijection
<1>2. PICK g : g \in Bijection(1..n, S) BY <1>1
<1>3. g \in [1..n -> S] /\ IsInjective(g)
  BY <1>2 DEF Bijection, Injection, IsInjective
<1>4. f \in [1..n -> S] /\ IsInjective(f) BY <1>3 DEF SetToSeq
<1>5. f \in Injection(1..n, S) BY <1>4 DEF Injection, IsInjective
<1> HIDE DEF f
<1>6. Cardinality(1..n) = n BY <1>1, FS_Interval
<1>7. f \in Surjection(1..n, S) BY <1>5, <1>6, FS_Injection
<1>8. \A x \in S : \E i \in 1..n : f[i] = x BY <1>7 DEF Surjection
<1>9. Len(f) = n /\ f \in Seq(S) BY <1>1, <1>4
<1>10. \A i, j \in 1..n : f[i] = f[j] => i = j BY <1>4 DEF IsInjective
<1>11. QED BY <1>8, <1>9, <1>10 DEF f

\* The names of finitely many proxies.
LEMMA NamesFinite ==
  \A set \in SUBSET Proxies : IsFiniteSet(set) =>
    IsFiniteSet(Names(set)) /\ Names(set) \subseteq STRING
<1>1. ASSUME NEW set \in SUBSET Proxies, IsFiniteSet(set)
      PROVE  IsFiniteSet(Names(set)) /\ Names(set) \subseteq STRING
  <2> DEFINE f == [p \in set |-> p.name]
  <2>1. f \in Surjection(set, Names(set)) BY DEF Surjection, Names
  <2> HIDE DEF f
  <2>2. IsFiniteSet(set) BY <1>1
  <2>3. IsFiniteSet(Names(set)) BY <2>1, <2>2, FS_Surjection
  <2>4. QED BY <2>3, ProxiesTyped DEF Names
<1>2. QED BY <1>1

\* The change for one name.
LEMMA ChangesPlain ==
  ASSUME NEW c \in Clients, NEW files \in SUBSET Proxies, NEW n \in STRING
  PROVE  Changes(c, files, n) \in Seq(PlainMessages)
<1> DEFINE gone == <<Message("unregister", <<>>, [NoProxy EXCEPT !.name = n])>>
           added == Registers(<<Entry(files, n)>>)
<1>1. gone \in Seq(PlainMessages) BY MessageKinds
<1>2. CASE n \notin Names(files)
  BY <1>1, <1>2 DEF Changes
<1>3. CASE n \in Names(files)
  <2>1. \E p \in files : p.name = n BY <1>3 DEF Names
  <2>2. Entry(files, n) \in Proxies BY <2>1 DEF Entry
  <2> DEFINE e == Entry(files, n)
  <2>3. <<e>> \in Seq(Proxies)
    <3> HIDE DEF e
    <3>1. e \in Proxies BY <2>2 DEF e
    <3>2. QED BY <3>1
  <2>4. added \in Seq(PlainMessages) BY <2>3, RegistersPlain
  <2>5. Changes(c, files, n) \in {added, <<>>, gone \o added} BY <1>3 DEF Changes
  <2> HIDE DEF gone, added
  <2>6. gone \o added \in Seq(PlainMessages) BY <1>1, <2>4
  <2>7. QED BY <2>4, <2>5, <2>6, EmptyQueue
<1>4. QED BY <1>2, <1>3

\* The difference of the directory and what the client knows of it.
LEMMA DiffPlain ==
  ASSUME NEW c \in Clients, NEW files \in SUBSET ConfFiles[c],
         dynamic_proxies[c] \in SUBSET ConfFiles[c]
  PROVE  Diff(c, files) \in Seq(PlainMessages)
<1> DEFINE A == Names(dynamic_proxies[c]) \ Names(files)
           B == Names(files)
           names == SetToSeq(A) \o SetToSeq(B)
           n == Len(SetToSeq(A)) + Len(SetToSeq(B))
           q == [i \in 1..n |-> Changes(c, files, names[i])]
<1>1. IsFiniteSet(ConfFiles[c]) /\ ConfFiles[c] \subseteq Proxies BY ProxiesTyped
<1>2. IsFiniteSet(files) /\ IsFiniteSet(dynamic_proxies[c]) BY <1>1, FS_Subset
<1>3. \A set \in SUBSET Proxies : IsFiniteSet(set) =>
        IsFiniteSet(Names(set)) /\ Names(set) \subseteq STRING
  BY NamesFinite
<1>4. IsFiniteSet(B) /\ B \subseteq STRING BY <1>1, <1>2, <1>3
<1>5. IsFiniteSet(Names(dynamic_proxies[c])) /\ Names(dynamic_proxies[c]) \subseteq STRING
  BY <1>1, <1>2, <1>3
<1>6. IsFiniteSet(A) /\ A \subseteq STRING BY <1>5, FS_Subset
<1>7. SetToSeq(A) \in Seq(STRING) /\ SetToSeq(B) \in Seq(STRING)
  <2>1. SetToSeq(A) \in Seq(A) /\ SetToSeq(B) \in Seq(B) BY <1>4, <1>6, ListedOnce
  <2>2. QED BY <2>1, <1>4, <1>6
<1>8. names \in Seq(STRING) /\ n \in Nat /\ Len(names) = n
  <2> HIDE DEF A, B
  <2>1. QED BY <1>7
<1>9. \A i \in 1..n : names[i] \in STRING
  <2> HIDE DEF names, n
  <2>1. QED BY <1>8
<1>10. \A i \in 1..n : Changes(c, files, names[i]) \in Seq(PlainMessages)
  <2> HIDE DEF names, n
  <2>1. QED BY <1>1, <1>9, ChangesPlain
<1>11. q \in Seq(Seq(PlainMessages))
  <2> HIDE DEF names, n
  <2>1. QED BY <1>8, <1>10
<1>12. Diff(c, files) = FlattenSeq(q) BY DEF Diff
<1>13. QED
  <2> HIDE DEF q
  <2>1. QED BY <1>11, <1>12, Flattened

-----------------------------------------------------------------------------
(* Connections: accept, the handshake, a lost connection.                    *)

\* What Types says of each variable.
LEMMA Typed ==
  ASSUME Types
  PROVE  /\ authenticated \in [Sessions -> BOOLEAN] /\ closed \in [Sessions -> BOOLEAN]
         /\ reading \in [Sessions -> BOOLEAN] /\ writing \in [Sessions -> BOOLEAN]
         /\ auth_timer \in [Sessions -> BOOLEAN]
         /\ transport \in [Sessions -> {"none", "handshaking", "up", "lost"}]
         /\ stopping \in [Sessions -> {"no", "yes", "reads"}]
         /\ strand \in [Sessions -> Seq(Handlers)]
         /\ wire \in [Sessions -> Seq(Messages)]
         /\ control_stream \in [Clients -> Sessions \union {0}]
         /\ login_due \in [Clients -> BOOLEAN]
         /\ \A s \in Sessions : s # 0 /\ s \in Nat
         /\ made \in Nat
         /\ \A c \in Clients : dynamic_proxies[c] \in Directories(c)
<1>1. \A f \in {reading, writing, closed, auth_timer} : f \in [Sessions -> BOOLEAN]
  BY DEF Types, TypeOK
<1>2. \A s \in Sessions : s # 0 /\ s \in Nat BY RegistryAssumption DEF Sessions
<1>3. made \in Nat BY RegistryAssumption DEF Types, TypeOK
<1>4. QED BY <1>1, <1>2, <1>3 DEF Types, TypeOK

\* What is neither of a connection nor of made is as it was.
Still ==
  UNCHANGED <<tables, fields, pending, wire, answer, client, robbed>>

\* A session without a control stream may come to be of any kind but "up", and
\* any session may lose its connection.
LEMMA ConnectionChanges ==
  ASSUME IInv, Still, made' \in 0..MaxSessions, made' >= made,
         transport' \in [Sessions -> {"none", "handshaking", "up", "lost"}],
         \A s \in Sessions :
           \/ transport'[s] = transport[s]
           \/ transport'[s] = "lost"
           \/ transport'[s] = "handshaking" /\ transport[s] = "none" /\ s <= made',
         \A s \in Sessions : transport'[s] # transport[s] => transport[s] # "none" \/ s <= made'
  PROVE  IInv'
<1> USE DEF IInv
<1>1. Types' BY DEF Still, Types, TypeOK, tables, fields, pending, client
<1>2. FreshInv'
  <2>1. \A s \in Sessions : s > made' => s > made BY Typed
  <2>2. \A s \in Sessions : s > made => s \in Sessions /\ transport[s] = "none" BY DEF FreshInv
  <2>3. \A s \in Sessions : s > made' => transport'[s] = "none"
    <3>1. made \in Nat /\ made' \in Nat /\ \A s \in Sessions : s \in Nat
      BY Typed, RegistryAssumption
    <3>2. ASSUME NEW s \in Sessions, s > made' PROVE transport'[s] = "none"
      <4>1. ~(s <= made') BY <3>1, <3>2
      <4>2. transport[s] = "none" BY <2>1, <2>2, <3>2
      <4>3. QED BY <4>1, <4>2
    <3>3. QED BY <3>2
  <2>4. ASSUME NEW s \in Sessions, transport'[s] \in {"none", "handshaking"}
        PROVE  transport[s] \in {"none", "handshaking"}
    BY <2>4
  <2>5. QED BY <2>3, <2>4 DEF FreshInv, Still, tables, fields, pending, client
<1>3. StopInv' BY DEF StopInv, Still, tables, fields, pending
<1>4. LinkInv' /\ LoginInv' BY DEF LinkInv, LoginInv, Still, fields, pending, client
<1>5. NamesInv' /\ RouteInv'
  BY DEF NamesInv, RouteInv, Still, tables, fields, pending
<1>6. HoldsInv' BY DEF HoldsInv, StopComes, Still, tables, fields, pending
<1>7. LoginIsWatched' /\ NameIsOwn'
  BY DEF LoginIsWatched, NameIsOwn, NotStopping, Still, tables, fields, pending
<1>8. QED BY <1>1, <1>2, <1>3, <1>4, <1>5, <1>6, <1>7

\* A connection is accepted, fails its handshake or is lost.
LEMMA ConnectionStep ==
  ASSUME IInv, accept \/ \E s \in Sessions : handshake_ends(s) \/ transport_lost(s)
  PROVE  IInv'
<1>1. /\ transport \in [Sessions -> {"none", "handshaking", "up", "lost"}]
      /\ made \in 0..MaxSessions /\ MaxSessions \in Nat
  BY RegistryAssumption DEF IInv, Types, TypeOK
<1>2. CASE accept
  <2> DEFINE t == made + 1
  <2>1. t \in Sessions /\ t > made /\ made' = t /\ t \in 0..MaxSessions
    BY <1>1, <1>2 DEF accept, Sessions
  <2>2. transport[t] = "none" BY <2>1 DEF IInv, FreshInv
  <2>3. transport' = [transport EXCEPT ![t] = "handshaking"] BY <1>2 DEF accept
  <2>4. Still BY <1>2 DEF accept, Still
  <2>5. t <= made' /\ made' >= made BY <1>1, <2>1
  <2> HIDE DEF t
  <2>6. \A s \in Sessions : transport'[s] = IF s = t THEN "handshaking" ELSE transport[s]
    BY <1>1, <2>1, <2>3
  <2>7. transport' \in [Sessions -> {"none", "handshaking", "up", "lost"}]
    BY <1>1, <2>3
  <2>8. QED BY <2>1, <2>2, <2>4, <2>5, <2>6, <2>7, ConnectionChanges
<1>3. ASSUME NEW s \in Sessions, handshake_ends(s) \/ transport_lost(s) PROVE IInv'
  <2>1. /\ transport' = [transport EXCEPT ![s] = "lost"] /\ transport[s] # "none"
        /\ Still /\ made' = made
    BY <1>3 DEF handshake_ends, transport_lost, Still, past
  <2>2. \A t \in Sessions : transport'[t] = IF t = s THEN "lost" ELSE transport[t]
    BY <1>1, <2>1
  <2>3. transport' \in [Sessions -> {"none", "handshaking", "up", "lost"}]
    BY <1>1, <2>1
  <2>4. made' >= made /\ made' \in 0..MaxSessions BY <1>1, <2>1
  <2>5. QED BY <2>1, <2>2, <2>3, <2>4, ConnectionChanges
<1>4. QED BY <1>2, <1>3

-----------------------------------------------------------------------------
(* The client: its messages.                                                 *)

\* Registrations and removals that are sent reach at most the session of the
\* client's control stream.
LEMMA SentEffect ==
  ASSUME Types, NEW c \in Clients, NEW messages \in Seq(Messages), SendMessages(c, messages)
  PROVE  /\ wire' \in [Sessions -> Seq(Messages)]
         /\ \A s \in Sessions :
              \/ wire'[s] = wire[s]
              \/ s = control_stream[c] /\ wire'[s] = wire[s] \o messages
<1>1. /\ wire \in [Sessions -> Seq(Messages)]
      /\ control_stream[c] \in Sessions \union {0}
  BY Typed
<1>2. CASE wire' = wire BY <1>1, <1>2
<1>3. CASE wire' # wire
  <2> DEFINE s == control_stream[c]
             w == wire[s] \o messages
  <2>1. s \in Sessions /\ wire' = [wire EXCEPT ![s] = w] BY <1>1, <1>3 DEF SendMessages
  <2>2. w \in Seq(Messages) BY <1>1, <2>1
  <2> HIDE DEF w
  <2>3. wire' \in [Sessions -> Seq(Messages)] BY <1>1, <2>1, <2>2
  <2>4. \A t \in Sessions : wire'[t] = IF t = s THEN w ELSE wire[t] BY <1>1, <2>1
  <2>5. QED BY <2>3, <2>4 DEF w
<1>4. QED BY <1>2, <1>3

\* Nothing but the client's messages and its own state changes.
OnlySends ==
  UNCHANGED <<tables, fields, pending, transport, control_stream, made, robbed>>

\* A client that sends no login breaks nothing.
LEMMA PlainSent ==
  ASSUME IInv, NEW c \in Clients, NEW messages \in Seq(PlainMessages),
         SendMessages(c, messages), OnlySends, UNCHANGED login_due,
         answer' \in [Sessions -> ClientNames], name' \in [Clients -> ClientNames],
         dynamic_proxies' \in [Clients -> SUBSET Proxies],
         \A d \in Clients : dynamic_proxies'[d] \in Directories(d)
  PROVE  IInv'
<1> USE DEF IInv
<1>1. messages \in Seq(Messages) /\ None(messages, LoginMessages) BY PlainQueue
<1>2. /\ wire' \in [Sessions -> Seq(Messages)]
      /\ \A s \in Sessions :
           \/ wire'[s] = wire[s]
           \/ s = control_stream[c] /\ wire'[s] = wire[s] \o messages
  BY <1>1, SentEffect
<1>3. \A s \in Sessions : wire[s] \in Seq(Messages) BY Typed
<1>4. \A s \in Sessions :
        /\ None(wire[s], LoginMessages) => None(wire'[s], LoginMessages)
        /\ One(wire[s], LoginMessages) => One(wire'[s], LoginMessages)
  <2>1. ASSUME NEW s \in Sessions
        PROVE  /\ None(wire[s], LoginMessages) => None(wire[s] \o messages, LoginMessages)
               /\ One(wire[s], LoginMessages) => One(wire[s] \o messages, LoginMessages)
    BY <1>1, <1>3, JoinQueue
  <2>2. QED BY <1>2, <2>1
<1>5. Types' BY <1>2 DEF OnlySends, Types, TypeOK, tables, fields, pending
<1>6. FreshInv' BY <1>2 DEF FreshInv, OnlySends, tables, fields, pending
<1>7. StopInv' BY DEF StopInv, OnlySends, tables, fields, pending
<1>8. LinkInv' BY DEF LinkInv, OnlySends
<1>9. LoginInv'
  <2>1. /\ authenticated' = authenticated /\ strand' = strand /\ login_due' = login_due
        /\ control_stream' = control_stream
    BY DEF OnlySends, fields, pending
  <2>2. \A d \in Clients : login_due[d] => control_stream[d] \in Sessions
    BY Typed DEF LoginInv
  <2>3. QED BY <1>4, <2>1, <2>2 DEF LoginInv
<1>10. NamesInv' /\ RouteInv'
  BY DEF NamesInv, RouteInv, OnlySends, tables, fields, pending
<1>11. HoldsInv' BY DEF HoldsInv, StopComes, OnlySends, tables, fields, pending
<1>12. LoginIsWatched' /\ NameIsOwn'
  BY DEF LoginIsWatched, NameIsOwn, NotStopping, OnlySends, tables, fields, pending
<1>13. QED BY <1>5, <1>6, <1>7, <1>8, <1>9, <1>10, <1>11, <1>12

\* The login is sent: it is the first of the session.
LEMMA LoginSent ==
  ASSUME IInv, NEW c \in Clients, DoLogin(c)
  PROVE  IInv'
<1> USE DEF IInv
<1> DEFINE m == Message("login", name[c], NoProxy)
           s == control_stream[c]
<1>1. m \in LoginMessages /\ m \in Messages
  <2>1. name[c] \in ClientNames BY DEF Types
  <2>2. QED BY <2>1, MessageKinds DEF Messages
<1>2. /\ login_due[c] /\ login_due' = [login_due EXCEPT ![c] = FALSE]
      /\ SendMessages(c, <<m>>) /\ OnlySends
      /\ UNCHANGED <<name, dynamic_proxies, answer>>
  BY DEF DoLogin, OnlySends, past
<1>3. s \in Sessions /\ ~authenticated[s] /\ None(wire[s], LoginMessages)
      /\ None(strand[s], Logins) /\ transport[s] \notin {"none", "handshaking"}
  BY <1>2, Typed DEF LoginInv, FreshInv
<1> HIDE DEF m
<1>4. <<m>> \in Seq(Messages) BY <1>1
<1>5. /\ wire' \in [Sessions -> Seq(Messages)]
      /\ \A t \in Sessions :
           \/ wire'[t] = wire[t]
           \/ t = s /\ wire'[t] = wire[t] \o <<m>>
  BY <1>2, <1>4, SentEffect
<1>6. wire[s] \o <<m>> = Append(wire[s], m) /\ wire[s] \in Seq(Messages)
  BY <1>1, <1>3, Typed
<1>7. One(Append(wire[s], m), LoginMessages) BY <1>1, <1>3, <1>6, AppendQueue
<1> HIDE DEF s
<1>8. One(wire'[s], LoginMessages) /\ \A t \in Sessions : t # s => wire'[t] = wire[t]
  BY <1>3, <1>5, <1>6, <1>7, NoneIsOne
<1>9. login_due' \in [Clients -> BOOLEAN]
      /\ \A d \in Clients : login_due'[d] <=> login_due[d] /\ d # c
  BY <1>2, Typed
<1>10. Types' BY <1>2, <1>5, <1>9 DEF OnlySends, Types, TypeOK, tables, fields, pending
<1>11. FreshInv' BY <1>2, <1>3, <1>8 DEF FreshInv, OnlySends, tables, fields, pending
<1>12. StopInv' BY <1>2 DEF StopInv, OnlySends, tables, fields, pending
<1>13. LinkInv' BY <1>2 DEF LinkInv, OnlySends
<1>14. LoginInv'
  <2>1. /\ authenticated' = authenticated /\ strand' = strand
        /\ control_stream' = control_stream
    BY <1>2 DEF OnlySends, fields, pending
  <2>2. \A d \in Clients : login_due'[d] =>
          control_stream[d] \in Sessions /\ control_stream[d] # s
    BY <1>9, <1>3, Typed DEF LoginInv, LinkInv, s
  <2>3. ASSUME NEW t \in Sessions
        PROVE  /\ One(wire'[t], LoginMessages) /\ One(strand[t], Logins)
               /\ None(wire'[t], LoginMessages) \/ None(strand[t], Logins)
               /\ authenticated[t] => None(wire'[t], LoginMessages) /\ None(strand[t], Logins)
    <3>1. CASE t = s BY <1>3, <1>8, <3>1 DEF LoginInv
    <3>2. CASE t # s BY <1>8, <3>2 DEF LoginInv
    <3>3. QED BY <3>1, <3>2
  <2>4. ASSUME NEW d \in Clients, login_due'[d]
        PROVE  /\ control_stream[d] # 0
               /\ ~authenticated[control_stream[d]]
               /\ None(wire'[control_stream[d]], LoginMessages)
               /\ None(strand[control_stream[d]], Logins)
    BY <1>8, <1>9, <2>2, <2>4 DEF LoginInv
  <2>5. QED BY <2>1, <2>3, <2>4 DEF LoginInv
<1>15. NamesInv' /\ RouteInv'
  BY <1>2 DEF NamesInv, RouteInv, OnlySends, tables, fields, pending
<1>16. HoldsInv' BY <1>2 DEF HoldsInv, StopComes, OnlySends, tables, fields, pending
<1>17. LoginIsWatched' /\ NameIsOwn'
  BY <1>2 DEF LoginIsWatched, NameIsOwn, NotStopping, OnlySends, tables, fields, pending
<1>18. QED BY <1>10, <1>11, <1>12, <1>13, <1>14, <1>15, <1>16, <1>17

\* What a poll finds is a directory, and what it sends are plain messages.
LEMMA FoundEffect ==
  ASSUME Types, NEW c \in Clients, NEW found \in Directories(c), Found(c, found)
  PROVE  /\ dynamic_proxies' \in [Clients -> SUBSET Proxies]
         /\ \A d \in Clients : dynamic_proxies'[d] \in Directories(d)
         /\ Diff(c, found) \in Seq(PlainMessages)
         /\ Registers(Static[c]) \o Diff(c, found) \in Seq(PlainMessages)
<1>1. /\ dynamic_proxies \in [Clients -> SUBSET Proxies]
      /\ \A d \in Clients : dynamic_proxies[d] \in Directories(d)
  BY Typed DEF Types
<1>2. found \in SUBSET ConfFiles[c] /\ found \in SUBSET Proxies
      /\ dynamic_proxies[c] \in SUBSET ConfFiles[c]
  BY <1>1, ProxiesTyped
<1>3. dynamic_proxies' = [dynamic_proxies EXCEPT ![c] = found] BY DEF Found
<1>4. dynamic_proxies' \in [Clients -> SUBSET Proxies] BY <1>1, <1>2, <1>3
<1>5. \A d \in Clients : dynamic_proxies'[d] \in Directories(d) BY <1>1, <1>3
<1>6. Diff(c, found) \in Seq(PlainMessages) BY <1>2, DiffPlain
<1>7. Registers(Static[c]) \in Seq(PlainMessages)
  <2>1. Static[c] \in Seq(Proxies) BY ProxiesTyped
  <2>2. QED BY <2>1, RegistersPlain
<1>8. QED
  <2> DEFINE a == Registers(Static[c])
             b == Diff(c, found)
  <2> HIDE DEF a, b
  <2>1. a \o b \in Seq(PlainMessages) BY <1>6, <1>7 DEF a, b
  <2>2. QED BY <1>4, <1>5, <1>6, <2>1 DEF a, b

\* A LoginResp, or a poll of the conf directory.
LEMMA PollStep ==
  ASSUME IInv, NEW c \in Clients, handle_login_resp(c) \/ PollConfDirectory(c)
  PROVE  IInv'
<1>1. Types /\ answer \in [Sessions -> ClientNames] /\ name \in [Clients -> ClientNames]
      /\ control_stream[c] \in Sessions \union {0}
  BY Typed DEF IInv, Types
<1>2. CASE handle_login_resp(c)
  <2> DEFINE s == control_stream[c]
  <2>1. PICK found \in Directories(c) :
          Found(c, found) /\ SendMessages(c, Registers(Static[c]) \o Diff(c, found))
    BY <1>2 DEF handle_login_resp
  <2>2. /\ s # 0 /\ answer' = [answer EXCEPT ![s] = <<>>]
        /\ name' = [name EXCEPT ![c] = answer[s]]
        /\ OnlySends /\ UNCHANGED login_due
    BY <1>2 DEF handle_login_resp, OnlySends, client
  <2>3. s \in Sessions /\ <<>> \in ClientNames BY <1>1, <2>2, EmptyQueue DEF ClientNames
  <2>4. answer' \in [Sessions -> ClientNames] /\ name' \in [Clients -> ClientNames]
    BY <1>1, <2>2, <2>3
  <2>5. QED BY <1>1, <2>1, <2>2, <2>4, FoundEffect, PlainSent
<1>3. CASE PollConfDirectory(c)
  <2>1. PICK found \in Directories(c) : Found(c, found) /\ SendMessages(c, Diff(c, found))
    BY <1>3 DEF PollConfDirectory
  <2>2. OnlySends /\ UNCHANGED <<login_due, answer, name>>
    BY <1>3 DEF PollConfDirectory, OnlySends
  <2>3. QED BY <1>1, <2>1, <2>2, FoundEffect, PlainSent
<1>4. QED BY <1>2, <1>3

-----------------------------------------------------------------------------
(* The client: its control stream.                                           *)

\* The client notices that its connection is gone.
LEMMA DisconnectStep ==
  ASSUME IInv, NEW c \in Clients, disconnected(c)
  PROVE  IInv'
<1> USE DEF IInv
<1>1. /\ control_stream \in [Clients -> Sessions \union {0}]
      /\ login_due \in [Clients -> BOOLEAN] /\ answer \in [Sessions -> ClientNames]
  BY Typed DEF Types
<1>2. /\ control_stream[c] # 0
      /\ control_stream' = [control_stream EXCEPT ![c] = 0]
      /\ login_due' = [login_due EXCEPT ![c] = FALSE]
      /\ answer' = [answer EXCEPT ![control_stream[c]] = <<>>]
      /\ UNCHANGED <<tables, fields, pending, transport, wire, name, dynamic_proxies,
                     made, robbed>>
  BY DEF disconnected, past
<1>3. /\ control_stream' \in [Clients -> Sessions \union {0}]
      /\ \A d \in Clients : control_stream'[d] = IF d = c THEN 0 ELSE control_stream[d]
      /\ login_due' \in [Clients -> BOOLEAN]
      /\ \A d \in Clients : login_due'[d] <=> login_due[d] /\ d # c
  BY <1>1, <1>2
<1>4. answer' \in [Sessions -> ClientNames]
  <2>1. <<>> \in ClientNames BY EmptyQueue DEF ClientNames
  <2>2. QED BY <1>1, <1>2, <2>1
<1>5. Types' BY <1>2, <1>3, <1>4 DEF Types, TypeOK, tables, fields, pending
<1>6. \A s \in Sessions : s # 0 BY Typed
<1>7. FreshInv' BY <1>2, <1>3, <1>6 DEF FreshInv, tables, fields, pending
<1>8. StopInv' BY <1>2 DEF StopInv, tables, fields, pending
<1>9. LinkInv' BY <1>3 DEF LinkInv
<1>10. LoginInv' BY <1>2, <1>3 DEF LoginInv, fields, pending
<1>11. NamesInv' /\ RouteInv' BY <1>2 DEF NamesInv, RouteInv, tables, fields, pending
<1>12. HoldsInv' BY <1>2 DEF HoldsInv, StopComes, tables, fields, pending
<1>13. LoginIsWatched' /\ NameIsOwn'
  BY <1>2 DEF LoginIsWatched, NameIsOwn, NotStopping, tables, fields, pending
<1>14. QED BY <1>5, <1>7, <1>8, <1>9, <1>10, <1>11, <1>12, <1>13

\* A control session is entered: it has done nothing, and its timer is armed.
LEMMA StartStep ==
  ASSUME IInv, NEW c \in Clients, NEW s \in Sessions, start_control(c, s)
  PROVE  IInv'
<1> USE DEF IInv
<1>1. /\ control_stream \in [Clients -> Sessions \union {0}]
      /\ login_due \in [Clients -> BOOLEAN]
      /\ reading \in [Sessions -> BOOLEAN] /\ auth_timer \in [Sessions -> BOOLEAN]
      /\ transport \in [Sessions -> {"none", "handshaking", "up", "lost"}]
      /\ \A t \in Sessions : t # 0
  BY Typed
<1>2. /\ transport[s] = "handshaking" /\ control_stream[c] = 0
      /\ transport' = [transport EXCEPT ![s] = "up"]
      /\ mux_to_control' = mux_to_control \union {s}
      /\ reading' = [reading EXCEPT ![s] = TRUE]
      /\ auth_timer' = [auth_timer EXCEPT ![s] = TRUE]
      /\ control_stream' = [control_stream EXCEPT ![c] = s]
      /\ login_due' = [login_due EXCEPT ![c] = TRUE]
      /\ UNCHANGED <<sessions, vhost_routes, proxy_rate_limiters, fields, writing,
                     strand, stopping, wire, answer, name, dynamic_proxies,
                     made, robbed>>
  BY DEF start_control, past
<1>3. /\ strand[s] = <<>> /\ wire[s] = <<>> /\ ~authenticated[s]
      /\ \A d \in Clients : control_stream[d] # s
      /\ ~closed[s] /\ stopping[s] = "no"
  BY <1>2 DEF FreshInv, StopInv
<1>4. /\ control_stream' \in [Clients -> Sessions \union {0}]
      /\ \A d \in Clients : control_stream'[d] = IF d = c THEN s ELSE control_stream[d]
      /\ login_due' \in [Clients -> BOOLEAN]
      /\ \A d \in Clients : login_due'[d] <=> login_due[d] \/ d = c
  BY <1>1, <1>2
<1>5. /\ transport' \in [Sessions -> {"none", "handshaking", "up", "lost"}]
      /\ \A t \in Sessions : transport'[t] = IF t = s THEN "up" ELSE transport[t]
      /\ reading' \in [Sessions -> BOOLEAN]
      /\ \A t \in Sessions : reading'[t] <=> reading[t] \/ t = s
      /\ auth_timer' \in [Sessions -> BOOLEAN]
      /\ \A t \in Sessions : auth_timer'[t] <=> auth_timer[t] \/ t = s
  BY <1>1, <1>2
<1>6. Types' BY <1>2, <1>4, <1>5 DEF Types, TypeOK, fields
<1>7. FreshInv'
  <2>1. \A t \in Sessions : t > made' => transport'[t] = "none"
    BY <1>2, <1>5 DEF FreshInv
  <2>2. ASSUME NEW t \in Sessions, transport'[t] \in {"none", "handshaking"}
        PROVE  t # s /\ transport[t] \in {"none", "handshaking"}
    BY <1>5, <2>2
  <2>3. QED BY <1>2, <1>4, <1>5, <2>1, <2>2 DEF FreshInv, fields
<1>8. StopInv' BY <1>2, <1>3, <1>5 DEF StopInv, fields
<1>9. LinkInv' BY <1>3, <1>4 DEF LinkInv
<1>10. LoginInv'
  <2>1. None(<<>>, LoginMessages) /\ None(<<>>, Logins) BY EmptyQueue
  <2>2. QED BY <1>1, <1>2, <1>3, <1>4, <2>1 DEF LoginInv, fields
<1>11. NamesInv' /\ RouteInv' BY <1>2 DEF NamesInv, RouteInv, fields
<1>12. HoldsInv'
  <2>1. \A t \in Sessions : StopComes(t) => StopComes(t)'
    BY <1>2, <1>5 DEF StopComes, fields
  <2>2. \A n \in DOMAIN sessions : sessions[n] \in Sessions BY DEF Types, TypeOK
  <2>3. QED BY <1>2, <2>1, <2>2 DEF HoldsInv, fields
<1>13. LoginIsWatched' BY <1>2, <1>5 DEF LoginIsWatched, fields, Types, TypeOK
<1>14. NameIsOwn' BY <1>2 DEF NameIsOwn, NotStopping, fields
<1>15. QED BY <1>6, <1>7, <1>8, <1>9, <1>10, <1>11, <1>12, <1>13, <1>14

-----------------------------------------------------------------------------
(* A session: what is posted on its strand.                                  *)

\* A handler joins the strand of session s and nothing is taken from the tables.
Joins(s, h) ==
  /\ strand' = [strand EXCEPT ![s] = Append(@, h)]
  /\ UNCHANGED <<tables, fields, stopping, transport, answer, client, past>>

\* The strand of s, and those of the others.
LEMMA JoinsEffect ==
  ASSUME Types, NEW s \in Sessions, NEW h \in Handlers, Joins(s, h)
  PROVE  /\ strand' \in [Sessions -> Seq(Handlers)]
         /\ \A t \in Sessions : t # s => strand'[t] = strand[t]
         /\ \A H : /\ None(strand'[s], H) <=> None(strand[s], H) /\ h \notin H
                   /\ One(strand[s], H) /\ h \notin H => One(strand'[s], H)
                   /\ None(strand[s], H) => One(strand'[s], H)
<1> DEFINE q == Append(strand[s], h)
<1>1. strand \in [Sessions -> Seq(Handlers)] /\ strand[s] \in Seq(Handlers) BY Typed
<1>2. strand' = [strand EXCEPT ![s] = q] BY DEF Joins
<1>3. /\ q \in Seq(Handlers)
      /\ \A H : /\ None(q, H) <=> None(strand[s], H) /\ h \notin H
                /\ One(strand[s], H) /\ h \notin H => One(q, H)
                /\ None(strand[s], H) => One(q, H)
  BY <1>1, AppendQueue
<1> HIDE DEF q
<1>4. strand'[s] = q BY <1>1, <1>2
<1>5. QED BY <1>1, <1>2, <1>3, <1>4

\* A stop is watched by a handler on the strand.
LEMMA StopIsOnStrand ==
  ASSUME NEW q \in Seq(Handlers)
  PROVE  ~None(q, Stops) <=> \E i \in 1..Len(q) : q[i].run = "stop"
<1>1. \A i \in 1..Len(q) : q[i] \in Handlers OBVIOUS
<1>2. \A i \in 1..Len(q) : q[i] \in Stops <=> q[i].run = "stop" BY <1>1, HandlerKinds
<1>3. QED BY <1>2 DEF None

\* Only the flags of s become false.
Cleared(s, f, g) ==
  g \in [Sessions -> BOOLEAN] /\ \A t \in Sessions : g[t] \/ t = s <=> f[t] \/ t = s

\* A Stop is posted on the strand of s.
LEMMA StopPosted ==
  ASSUME IInv, NEW s \in Sessions, Joins(s, stop_posted),
         transport[s] \notin {"none", "handshaking"}, UNCHANGED wire,
         Cleared(s, reading, reading'), Cleared(s, writing, writing'),
         Cleared(s, auth_timer, auth_timer')
  PROVE  IInv'
<1> USE DEF IInv
<1>1. /\ strand' \in [Sessions -> Seq(Handlers)]
      /\ \A t \in Sessions : t # s => strand'[t] = strand[t]
      /\ \A H : /\ None(strand'[s], H) <=> None(strand[s], H) /\ stop_posted \notin H
                /\ One(strand[s], H) /\ stop_posted \notin H => One(strand'[s], H)
  BY JoinsEffect, HandlerKinds
<1>2. /\ ~None(strand'[s], Stops)
      /\ None(strand'[s], Logins) <=> None(strand[s], Logins)
      /\ One(strand[s], Logins) => One(strand'[s], Logins)
  BY <1>1, HandlerKinds
<1>3. /\ reading' \in [Sessions -> BOOLEAN] /\ writing' \in [Sessions -> BOOLEAN]
      /\ auth_timer' \in [Sessions -> BOOLEAN]
      /\ \A t \in Sessions : t # s => /\ reading'[t] = reading[t] /\ writing'[t] = writing[t]
                                      /\ auth_timer'[t] = auth_timer[t]
  BY Typed DEF Cleared
<1>4. UNCHANGED <<tables, fields, stopping, transport, answer, client, past, wire>>
  BY DEF Joins
<1>5. Types' BY <1>1, <1>3, <1>4 DEF Types, TypeOK, tables, fields, client, past
<1>6. FreshInv' BY <1>1, <1>3, <1>4 DEF FreshInv, fields, client, past
<1>7. StopInv' BY <1>4 DEF StopInv, tables, fields
<1>8. LinkInv' BY <1>4 DEF LinkInv, client
<1>9. LoginInv'
  <2>1. /\ authenticated' = authenticated /\ wire' = wire /\ login_due' = login_due
        /\ control_stream' = control_stream
    BY <1>4 DEF fields, client
  <2>2. \A d \in Clients : login_due[d] => control_stream[d] \in Sessions
    BY Typed DEF LoginInv
  <2>3. \A t \in Sessions : /\ None(strand'[t], Logins) <=> None(strand[t], Logins)
                            /\ One(strand[t], Logins) => One(strand'[t], Logins)
    BY <1>1, <1>2
  <2>4. QED BY <2>1, <2>2, <2>3 DEF LoginInv
<1>10. NamesInv' /\ RouteInv' BY <1>4 DEF NamesInv, RouteInv, tables, fields
<1>11. HoldsInv'
  <2>1. \A t \in Sessions : StopComes(t) => StopComes(t)'
    BY <1>1, <1>2, <1>3, <1>4 DEF StopComes, fields
  <2>2. \A n \in DOMAIN sessions : sessions[n] \in Sessions BY DEF Types, TypeOK
  <2>3. QED BY <1>4, <2>1, <2>2 DEF HoldsInv, tables, fields
<1>12. LoginIsWatched'
  <2>1. strand'[s] \in Seq(Handlers) BY <1>1
  <2>2. \E i \in 1..Len(strand'[s]) : strand'[s][i].run = "stop"
    BY <1>2, <2>1, StopIsOnStrand
  <2>3. mux_to_control \subseteq Sessions BY DEF Types, TypeOK
  <2>4. /\ mux_to_control' = mux_to_control /\ authenticated' = authenticated
        /\ stopping' = stopping
    BY <1>4 DEF tables, fields
  <2>5. ASSUME NEW t \in mux_to_control
        PROVE  \/ authenticated'[t] \/ auth_timer'[t] \/ stopping'[t] # "no"
               \/ \E i \in 1..Len(strand'[t]) : strand'[t][i].run = "stop"
    <3>1. CASE t = s BY <2>2, <3>1
    <3>2. CASE t # s
      <4>1. strand'[t] = strand[t] /\ auth_timer'[t] = auth_timer[t] BY <1>1, <1>3, <2>3, <3>2
      <4>2. QED BY <2>4, <4>1 DEF LoginIsWatched
    <3>3. QED BY <3>1, <3>2
  <2>6. QED BY <2>4, <2>5 DEF LoginIsWatched
<1>13. NameIsOwn' BY <1>4 DEF NameIsOwn, NotStopping, tables, fields, past
<1>14. QED BY <1>5, <1>6, <1>7, <1>8, <1>9, <1>10, <1>11, <1>12, <1>13

\* A read or a write fails, or the authentication timer fires.
LEMMA FailureStep ==
  ASSUME IInv, NEW s \in Sessions, read_fails(s) \/ write_fails(s) \/ auth_timer_fires(s)
  PROVE  IInv'
<1>1. Types /\ FreshInv /\ StopInv BY DEF IInv
<1>2. /\ reading \in [Sessions -> BOOLEAN] /\ writing \in [Sessions -> BOOLEAN]
      /\ auth_timer \in [Sessions -> BOOLEAN]
  BY <1>1, Typed
<1>3. ASSUME NEW f \in [Sessions -> BOOLEAN]
      PROVE  Cleared(s, f, f) /\ Cleared(s, f, [f EXCEPT ![s] = FALSE])
  BY <1>3 DEF Cleared
<1>4. reading[s] \/ writing[s] \/ auth_timer[s] => transport[s] \notin {"none", "handshaking"}
  BY <1>1 DEF FreshInv
<1>5. CASE read_fails(s)
  <2>1. /\ Joins(s, stop_posted) /\ UNCHANGED <<wire, writing, auth_timer>>
        /\ reading[s] /\ reading' = [reading EXCEPT ![s] = FALSE]
    BY <1>5 DEF read_fails, Joins, Post, links
  <2>2. QED BY <1>2, <1>3, <1>4, <2>1, StopPosted
<1>6. CASE write_fails(s)
  <2>1. /\ Joins(s, stop_posted) /\ UNCHANGED <<wire, reading, auth_timer>>
        /\ writing[s] /\ writing' = [writing EXCEPT ![s] = FALSE]
    BY <1>6 DEF write_fails, Joins, Post, links
  <2>2. QED BY <1>2, <1>3, <1>4, <2>1, StopPosted
<1>7. CASE auth_timer_fires(s) /\ Post(s, stop_posted)
  <2>1. /\ Joins(s, stop_posted) /\ UNCHANGED <<wire, reading, writing>>
        /\ auth_timer[s] /\ auth_timer' = [auth_timer EXCEPT ![s] = FALSE]
    BY <1>7 DEF auth_timer_fires, Joins, Post, links
  <2>2. QED BY <1>2, <1>3, <1>4, <2>1, StopPosted
<1>8. CASE auth_timer_fires(s) /\ Ended(s) /\ UNCHANGED strand
  <2> USE DEF IInv
  <2>1. /\ auth_timer[s] /\ auth_timer' = [auth_timer EXCEPT ![s] = FALSE]
        /\ UNCHANGED <<tables, fields, reading, writing, strand, stopping, links, client,
                       past>>
    BY <1>8 DEF auth_timer_fires
  <2>2. auth_timer' \in [Sessions -> BOOLEAN]
        /\ \A t \in Sessions : auth_timer'[t] <=> auth_timer[t] /\ t # s
    BY <1>2, <2>1
  <2>3. s \notin mux_to_control BY <1>1, <1>8 DEF Ended, StopInv
  <2>4. Types' BY <2>1, <2>2 DEF Types, TypeOK, tables, fields, links, client, past
  <2>5. FreshInv' BY <2>1, <2>2 DEF FreshInv, fields, links, client, past
  <2>6. StopInv' /\ LinkInv' /\ LoginInv'
    BY <2>1 DEF StopInv, LinkInv, LoginInv, tables, fields, links, client
  <2>7. NamesInv' /\ RouteInv' BY <2>1 DEF NamesInv, RouteInv, tables, fields
  <2>8. HoldsInv' BY <2>1 DEF HoldsInv, StopComes, tables, fields
  <2>9. LoginIsWatched'
    BY <2>1, <2>2, <2>3 DEF LoginIsWatched, tables, fields, Types, TypeOK
  <2>10. NameIsOwn' BY <2>1 DEF NameIsOwn, NotStopping, tables, fields, past
  <2>11. QED BY <2>4, <2>5, <2>6, <2>7, <2>8, <2>9, <2>10
<1>9. QED BY <1>5, <1>6, <1>7, <1>8 DEF auth_timer_fires

\* A message is read: the stream is not closed, so a read that will fail is
\* still to come.
LEMMA ReadStep ==
  ASSUME IInv, NEW s \in Sessions, message_read(s)
  PROVE  IInv'
<1> USE DEF IInv
<1> DEFINE w == wire[s]
           h == Handler("message", Head(w))
<1>1. /\ reading[s] /\ ~closed[s] /\ w # <<>>
      /\ Joins(s, h) /\ wire' = [wire EXCEPT ![s] = Tail(w)]
      /\ reading' = [reading EXCEPT ![s] = FALSE] /\ UNCHANGED <<writing, auth_timer>>
  BY DEF message_read, Joins, Post
<1>2. /\ wire \in [Sessions -> Seq(Messages)] /\ w \in Seq(Messages)
      /\ reading \in [Sessions -> BOOLEAN]
  BY Typed
<1> HIDE DEF w
<1>3. /\ Head(w) \in Messages /\ Tail(w) \in Seq(Messages)
      /\ None(w, LoginMessages) <=> Head(w) \notin LoginMessages /\ None(Tail(w), LoginMessages)
      /\ One(w, LoginMessages) => One(Tail(w), LoginMessages)
      /\ One(w, LoginMessages) /\ Head(w) \in LoginMessages => None(Tail(w), LoginMessages)
  BY <1>1, <1>2, TailQueue
<1>4. h \in Handlers /\ h \notin Stops /\ (h \in Logins <=> Head(w) \in LoginMessages)
  BY <1>3, HandlerKinds
<1> DEFINE y == Tail(w)
           login == Head(w) \in LoginMessages
<1>5. wire' \in [Sessions -> Seq(Messages)] /\ wire'[s] = y
      /\ \A t \in Sessions : t # s => wire'[t] = wire[t]
  BY <1>1, <1>2, <1>3
<1>6. /\ y \in Seq(Messages)
      /\ None(w, LoginMessages) <=> ~login /\ None(y, LoginMessages)
      /\ One(w, LoginMessages) => One(y, LoginMessages)
      /\ One(w, LoginMessages) /\ login => None(y, LoginMessages)
      /\ h \in Handlers /\ h \notin Stops /\ (h \in Logins <=> login)
  BY <1>3, <1>4
<1> HIDE DEF h, y, login
<1>7. /\ strand' \in [Sessions -> Seq(Handlers)]
      /\ \A t \in Sessions : t # s => strand'[t] = strand[t]
      /\ \A H : /\ None(strand'[s], H) <=> None(strand[s], H) /\ h \notin H
                /\ One(strand[s], H) /\ h \notin H => One(strand'[s], H)
                /\ None(strand[s], H) => One(strand'[s], H)
  BY <1>1, <1>6, JoinsEffect
<1>8. /\ None(strand'[s], Stops) <=> None(strand[s], Stops)
      /\ None(strand'[s], Logins) <=> None(strand[s], Logins) /\ ~login
      /\ One(strand[s], Logins) /\ ~login => One(strand'[s], Logins)
      /\ None(strand[s], Logins) => One(strand'[s], Logins)
  BY <1>6, <1>7
<1>9. UNCHANGED <<tables, fields, stopping, transport, answer, client, past, writing,
                  auth_timer>>
  BY <1>1 DEF Joins
<1>10. reading' \in [Sessions -> BOOLEAN] /\ \A t \in Sessions : t # s => reading'[t] = reading[t]
  BY <1>1, <1>2
<1>11. transport[s] \notin {"none", "handshaking"} BY <1>1 DEF FreshInv
<1>12. Types' BY <1>5, <1>7, <1>9, <1>10 DEF Types, TypeOK, tables, fields, client, past
<1>13. FreshInv'
  BY <1>5, <1>7, <1>9, <1>10, <1>11 DEF FreshInv, fields, client, past
<1>14. StopInv' BY <1>9 DEF StopInv, tables, fields
<1>15. LinkInv' BY <1>9 DEF LinkInv, client
<1>16. LoginInv'
  <2>1. /\ authenticated' = authenticated /\ login_due' = login_due
        /\ control_stream' = control_stream
    BY <1>9 DEF fields, client
  <2>2. \A d \in Clients : login_due[d] => control_stream[d] \in Sessions
    BY Typed DEF LoginInv
  <2>3. /\ One(w, LoginMessages) /\ One(strand[s], Logins)
        /\ None(w, LoginMessages) \/ None(strand[s], Logins)
        /\ authenticated[s] => None(w, LoginMessages) /\ None(strand[s], Logins)
    BY DEF LoginInv, w
  <2>4. /\ One(wire'[s], LoginMessages) /\ One(strand'[s], Logins)
        /\ None(wire'[s], LoginMessages) \/ None(strand'[s], Logins)
        /\ authenticated[s] => None(wire'[s], LoginMessages) /\ None(strand'[s], Logins)
        /\ None(wire[s], LoginMessages) /\ None(strand[s], Logins) =>
             None(wire'[s], LoginMessages) /\ None(strand'[s], Logins)
    BY <1>5, <1>6, <1>8, <2>3 DEF w
  <2>5. QED BY <1>5, <1>7, <2>1, <2>2, <2>4 DEF LoginInv
<1>17. NamesInv' /\ RouteInv' BY <1>9 DEF NamesInv, RouteInv, tables, fields
<1>18. HoldsInv'
  <2>1. \A t \in Sessions : StopComes(t) => StopComes(t)'
    BY <1>1, <1>7, <1>9, <1>10 DEF StopComes, fields
  <2>2. \A n \in DOMAIN sessions : sessions[n] \in Sessions BY DEF Types, TypeOK
  <2>3. QED BY <1>9, <2>1, <2>2 DEF HoldsInv, tables, fields
<1>19. LoginIsWatched'
  <2>1. /\ strand[s] \in Seq(Handlers) /\ strand'[s] \in Seq(Handlers)
        /\ mux_to_control \subseteq Sessions
    BY <1>7, Typed DEF Types, TypeOK
  <2>2. (\E i \in 1..Len(strand'[s]) : strand'[s][i].run = "stop")
          <=> \E i \in 1..Len(strand[s]) : strand[s][i].run = "stop"
    BY <1>8, <2>1, StopIsOnStrand
  <2>3. QED BY <1>7, <1>9, <2>1, <2>2 DEF LoginIsWatched, tables, fields
<1>20. NameIsOwn' BY <1>9 DEF NameIsOwn, NotStopping, tables, fields, past
<1>21. QED BY <1>12, <1>13, <1>14, <1>15, <1>16, <1>17, <1>18, <1>19, <1>20

-----------------------------------------------------------------------------
(* A session: the handlers on its strand.                                    *)

\* A handler is taken from the strand.
LEMMA EndsEffect ==
  ASSUME Types, NEW s \in Sessions, strand[s] # <<>>, Ends(s)
  PROVE  /\ Head(strand[s]) \in Handlers
         /\ strand' \in [Sessions -> Seq(Handlers)]
         /\ \A t \in Sessions : t # s => strand'[t] = strand[t]
         /\ \A H : /\ None(strand[s], H) <=> Head(strand[s]) \notin H /\ None(strand'[s], H)
                   /\ One(strand[s], H) => One(strand'[s], H)
                   /\ One(strand[s], H) /\ Head(strand[s]) \in H => None(strand'[s], H)
<1> DEFINE q == strand[s]
           r == Tail(q)
           h == Head(q)
<1>1. strand \in [Sessions -> Seq(Handlers)] /\ q \in Seq(Handlers) BY Typed
<1>2. strand' = [strand EXCEPT ![s] = r] BY DEF Ends
<1>3. /\ h \in Handlers /\ r \in Seq(Handlers)
      /\ \A H : /\ None(q, H) <=> h \notin H /\ None(r, H)
                /\ One(q, H) => One(r, H)
                /\ One(q, H) /\ h \in H => None(r, H)
  <2>1. q # <<>> OBVIOUS
  <2> HIDE DEF q
  <2>2. QED BY <1>1, <2>1, TailQueue
<1> HIDE DEF r
<1>4. strand'[s] = r /\ strand' \in [Sessions -> Seq(Handlers)]
      /\ \A t \in Sessions : t # s => strand'[t] = strand[t]
  BY <1>1, <1>2, <1>3
<1>5. QED BY <1>3, <1>4

\* The one login of a session stays one when a handler is taken.
LEMMA LoginStays ==
  ASSUME IInv, NEW s \in Sessions, strand[s] # <<>>, Ends(s),
         UNCHANGED <<authenticated, wire, login_due, control_stream>>
  PROVE  LoginInv'
<1>1. LoginInv /\ Types BY DEF IInv
<1>2. \A t \in Sessions : /\ None(strand[t], Logins) => None(strand'[t], Logins)
                          /\ One(strand[t], Logins) => One(strand'[t], Logins)
  BY <1>1, EndsEffect
<1>3. \A d \in Clients : login_due[d] => control_stream[d] \in Sessions
  BY <1>1, Typed DEF LoginInv
<1>4. QED BY <1>1, <1>2, <1>3 DEF LoginInv

\* The first half of Stop.
LEMMA StopEffect ==
  ASSUME IInv, NEW s \in Sessions, NEW after \in {"yes", "reads"},
         strand[s] # <<>>, Ends(s), Stop(s, after),
         writing' \in [Sessions -> BOOLEAN], \A t \in Sessions : t # s => writing'[t] = writing[t],
         UNCHANGED <<vhost_routes, proxy_rate_limiters, fields, reading, auth_timer, wire,
                     answer, client, made>>
  PROVE  IInv'
<1> USE DEF IInv
<1>1. /\ \A n \in DOMAIN sessions : sessions[n] \in Sessions /\ n # <<>>
      /\ authenticated \in [Sessions -> BOOLEAN]
      /\ transport \in [Sessions -> {"none", "handshaking", "up", "lost"}]
      /\ stopping \in [Sessions -> {"no", "yes", "reads"}]
      /\ mux_to_control \subseteq Sessions /\ robbed \subseteq Sessions
  BY DEF Types, TypeOK
<1>2. /\ mux_to_control' = mux_to_control \ {s}
      /\ transport' \in [Sessions -> {"none", "handshaking", "up", "lost"}]
      /\ \A t \in Sessions : transport'[t] = IF t = s THEN "lost" ELSE transport[t]
      /\ stopping' \in [Sessions -> {"no", "yes", "reads"}]
      /\ \A t \in Sessions : stopping'[t] = IF t = s THEN after ELSE stopping[t]
  BY <1>1 DEF Stop
<1>3. /\ DOMAIN sessions' \subseteq DOMAIN sessions
      /\ \A n \in DOMAIN sessions' : sessions'[n] = sessions[n] /\ sessions[n] # s
  BY DEF Stop, ReleaseClientName, NamesInv
<1>4. /\ robbed' \subseteq Sessions /\ robbed \subseteq robbed'
      /\ \A t \in Sessions \ {s} : \A n \in DOMAIN sessions :
           sessions[n] = t => n \in DOMAIN sessions' \/ t \in robbed'
  BY <1>1 DEF Stop, ReleaseClientName
<1>5. /\ strand' \in [Sessions -> Seq(Handlers)]
      /\ \A t \in Sessions : t # s => strand'[t] = strand[t]
  BY EndsEffect
<1>6. Types' BY <1>1, <1>2, <1>3, <1>4, <1>5 DEF Types, TypeOK, fields, client
<1>7. FreshInv'
  <2>1. ASSUME NEW t \in Sessions, transport'[t] \in {"none", "handshaking"}
        PROVE  t # s /\ transport[t] \in {"none", "handshaking"}
    BY <1>2, <2>1
  <2>2. ASSUME NEW t \in Sessions, t > made' PROVE transport'[t] = "none"
    BY <1>2, <2>2 DEF FreshInv
  <2>3. QED BY <1>5, <2>1, <2>2 DEF FreshInv, fields, client
<1>8. StopInv' BY <1>2 DEF StopInv, fields
<1>9. LinkInv' BY DEF LinkInv, client
<1>10. LoginInv' BY LoginStays DEF fields, client
<1>11. NamesInv'
  BY <1>1, <1>2, <1>3 DEF NamesInv, fields
<1>12. RouteInv' BY DEF RouteInv, fields
<1>13. HoldsInv'
  <2>1. \A t \in Sessions : StopComes(t) => StopComes(t)'
    BY <1>2, <1>5 DEF StopComes, fields
  <2>2. QED BY <1>1, <1>3, <2>1 DEF HoldsInv, fields
<1>14. LoginIsWatched'
  <2>1. ASSUME NEW t \in mux_to_control'
        PROVE  /\ t \in mux_to_control /\ strand'[t] = strand[t]
               /\ stopping'[t] = stopping[t]
    BY <1>1, <1>2, <1>5
  <2>2. authenticated' = authenticated /\ auth_timer' = auth_timer BY DEF fields
  <2>3. QED BY <2>1, <2>2 DEF LoginIsWatched
<1>15. NameIsOwn'
  <2>1. ASSUME NEW t \in Sessions, authenticated[t], ~closed[t], stopping'[t] = "no", t \notin robbed'
        PROVE  client_name[t] \in DOMAIN sessions' /\ sessions'[client_name[t]] = t
    <3>1. t # s BY <1>2, <2>1
    <3>2. client_name[t] \in DOMAIN sessions /\ sessions[client_name[t]] = t
      BY <1>2, <1>4, <2>1, <3>1 DEF NameIsOwn, NotStopping
    <3>3. QED BY <1>3, <1>4, <2>1, <3>1, <3>2
  <2>2. QED BY <2>1 DEF NameIsOwn, NotStopping, fields
<1>16. QED BY <1>6, <1>7, <1>8, <1>9, <1>10, <1>11, <1>12, <1>13, <1>14, <1>15

\* A Stop that was posted, or one that a message brings about.
LEMMA StopStep ==
  ASSUME IInv, NEW s \in Sessions, stop(s) \/ turn_away(s)
  PROVE  IInv'
<1>1. writing \in [Sessions -> BOOLEAN] BY Typed DEF IInv
<1>2. CASE stop(s)
  <2>1. /\ strand[s] # <<>> /\ Ends(s) /\ Stop(s, "yes")
        /\ UNCHANGED <<vhost_routes, proxy_rate_limiters, fields, reading, writing,
                       auth_timer, wire, answer, client, made>>
    BY <1>2 DEF stop, Starts
  <2>2. QED BY <1>1, <2>1, StopEffect
<1>3. CASE turn_away(s)
  <2>1. /\ strand[s] # <<>> /\ Ends(s) /\ Stop(s, "reads")
        /\ writing' = [writing EXCEPT ![s] = @ \/ Handles(s, "login")]
        /\ UNCHANGED <<vhost_routes, proxy_rate_limiters, fields, reading,
                       auth_timer, wire, answer, client, made>>
    BY <1>3 DEF turn_away, Starts, Handles
  <2> DEFINE b == writing[s] \/ Handles(s, "login")
  <2>2. b \in BOOLEAN /\ writing' = [writing EXCEPT ![s] = b] BY <1>1, <2>1
  <2> HIDE DEF b
  <2>3. writing' \in [Sessions -> BOOLEAN] /\ \A t \in Sessions : t # s => writing'[t] = writing[t]
    BY <1>1, <2>2
  <2>4. QED BY <2>1, <2>3, StopEffect
<1>4. QED BY <1>2, <1>3

\* The second half of Stop: the session holds nothing any more.
LEMMA StopProxiesStep ==
  ASSUME IInv, NEW s \in Sessions, stop_proxies(s)
  PROVE  IInv'
<1> USE DEF IInv
<1>1. /\ \A n \in DOMAIN sessions : sessions[n] \in Sessions /\ n # <<>>
      /\ proxies \in [Sessions -> Seq(Proxies)]
      /\ registered_domains \in [Sessions -> SUBSET Domains]
      /\ vhost_routes \in [Domains -> Sessions \union {0}]
      /\ closed \in [Sessions -> BOOLEAN] /\ reading \in [Sessions -> BOOLEAN]
      /\ stopping \in [Sessions -> {"no", "yes", "reads"}]
      /\ wire \in [Sessions -> Seq(Messages)]
      /\ <<>> \in Seq(Messages) /\ <<>> \in Seq(Proxies)
  BY Typed, EmptyQueue DEF Types, TypeOK
<1>2. /\ stopping[s] # "no"
      /\ proxy_rate_limiters' = proxy_rate_limiters \ {p.name : p \in Range(proxies[s])}
      /\ proxies' = [proxies EXCEPT ![s] = <<>>]
      /\ vhost_routes' = [d \in Domains |-> IF d \in registered_domains[s] THEN 0
                                            ELSE vhost_routes[d]]
      /\ registered_domains' = [registered_domains EXCEPT ![s] = {}]
      /\ closed' = [closed EXCEPT ![s] = TRUE]
      /\ reading' = [reading EXCEPT ![s] = @ \/ stopping[s] = "reads"]
      /\ stopping' = [stopping EXCEPT ![s] = "no"]
      /\ wire' = [wire EXCEPT ![s] = <<>>]
      /\ UNCHANGED <<sessions, mux_to_control, authenticated, client_name, writing,
                     strand, auth_timer, transport, answer, client, made, robbed>>
  BY DEF stop_proxies
<1>3. /\ proxies' \in [Sessions -> Seq(Proxies)]
      /\ \A t \in Sessions : proxies'[t] = IF t = s THEN <<>> ELSE proxies[t]
      /\ registered_domains' \in [Sessions -> SUBSET Domains]
      /\ \A t \in Sessions : registered_domains'[t] = IF t = s THEN {} ELSE registered_domains[t]
      /\ wire' \in [Sessions -> Seq(Messages)]
      /\ \A t \in Sessions : wire'[t] = IF t = s THEN <<>> ELSE wire[t]
      /\ stopping' \in [Sessions -> {"no", "yes", "reads"}]
      /\ \A t \in Sessions : stopping'[t] = IF t = s THEN "no" ELSE stopping[t]
      /\ closed' \in [Sessions -> BOOLEAN]
      /\ \A t \in Sessions : closed'[t] <=> closed[t] \/ t = s
  BY <1>1, <1>2
<1>4. /\ reading' \in [Sessions -> BOOLEAN]
      /\ \A t \in Sessions : t # s => reading'[t] = reading[t]
  <2> DEFINE b == reading[s] \/ stopping[s] = "reads"
  <2>1. b \in BOOLEAN /\ reading' = [reading EXCEPT ![s] = b] BY <1>1, <1>2
  <2> HIDE DEF b
  <2>2. QED BY <1>1, <2>1
<1>5. /\ vhost_routes' \in [Domains -> Sessions \union {0}]
      /\ \A d \in Domains : vhost_routes'[d] # 0 =>
           vhost_routes'[d] = vhost_routes[d] /\ d \notin registered_domains[s]
  BY <1>1, <1>2
<1>6. s \notin mux_to_control /\ transport[s] = "lost" BY <1>2 DEF StopInv
<1>7. \A n \in DOMAIN sessions : sessions[n] # s BY <1>2 DEF NamesInv
<1>8. Types' BY <1>1, <1>2, <1>3, <1>4, <1>5 DEF Types, TypeOK, client
<1>9. FreshInv' BY <1>2, <1>3, <1>4, <1>6 DEF FreshInv, client
<1>10. StopInv' BY <1>2, <1>3, <1>6 DEF StopInv
<1>11. LinkInv' BY <1>2 DEF LinkInv, client
<1>12. LoginInv'
  <2>1. None(<<>>, LoginMessages) /\ One(<<>>, LoginMessages) BY EmptyQueue
  <2>2. \A d \in Clients : login_due[d] => control_stream[d] \in Sessions
    BY Typed DEF LoginInv
  <2>3. \A t \in Sessions :
          /\ None(wire[t], LoginMessages) => None(wire'[t], LoginMessages)
          /\ One(wire[t], LoginMessages) => One(wire'[t], LoginMessages)
    BY <1>3, <2>1
  <2>4. QED BY <1>2, <2>2, <2>3 DEF LoginInv, client
<1>13. NamesInv' BY <1>1, <1>2, <1>3 DEF NamesInv
<1>14. RouteInv'
  <2>1. ASSUME NEW d \in Domains, vhost_routes'[d] # 0
        PROVE  d \in registered_domains'[vhost_routes'[d]]
    <3>1. /\ vhost_routes'[d] = vhost_routes[d] /\ d \notin registered_domains[s]
          /\ vhost_routes[d] \in Sessions
      BY <1>1, <1>5, <2>1
    <3>2. d \in registered_domains[vhost_routes[d]] BY <2>1, <3>1 DEF RouteInv
    <3>3. QED BY <1>3, <3>1, <3>2
  <2>2. QED BY <2>1 DEF RouteInv
<1>15. HoldsInv'
  <2>1. \A t \in Sessions : t # s /\ StopComes(t) => StopComes(t)'
    BY <1>2, <1>3, <1>4 DEF StopComes
  <2>2. QED BY <1>1, <1>2, <1>3, <1>7, <2>1 DEF HoldsInv
<1>16. LoginIsWatched'
  <2>1. ASSUME NEW t \in mux_to_control PROVE stopping'[t] = stopping[t]
    BY <1>3, <1>6 DEF Types, TypeOK
  <2>2. QED BY <1>2, <2>1 DEF LoginIsWatched
<1>17. NameIsOwn' BY <1>2, <1>3 DEF NameIsOwn, NotStopping
<1>18. QED BY <1>8, <1>9, <1>10, <1>11, <1>12, <1>13, <1>14, <1>15, <1>16, <1>17

-----------------------------------------------------------------------------
(* A session: its login.                                                     *)

\* One of the names n, n_1, n_2, ... is free: each that is not leads to a
\* session of its own, and there are more of them than sessions.
LEMMA OneIsFree ==
  ASSUME Types, NamesInv, NEW n \in ClientNames
  PROVE  \E k \in 1..(MaxSessions + 1) : Append(n, k) \notin DOMAIN sessions
<1> DEFINE K == 1..(MaxSessions + 1)
           f == [k \in K |-> sessions[Append(n, k)]]
<1>1. MaxSessions \in Nat BY RegistryAssumption
<1>2. SUFFICES ASSUME \A k \in K : Append(n, k) \in DOMAIN sessions PROVE FALSE
  OBVIOUS
<1>3. \A m \in DOMAIN sessions : sessions[m] \in Sessions BY DEF Types, TypeOK
<1>4. f \in [K -> Sessions] BY <1>2, <1>3
<1>5. IsFiniteSet(K) /\ Cardinality(K) = MaxSessions + 1
      /\ IsFiniteSet(Sessions) /\ Cardinality(Sessions) = MaxSessions
  <2>1. /\ 1 \in Int /\ MaxSessions \in Int /\ MaxSessions + 1 \in Int
        /\ ~(1 > MaxSessions + 1) /\ (MaxSessions + 1) - 1 + 1 = MaxSessions + 1
        /\ (1 > MaxSessions => MaxSessions = 0) /\ MaxSessions - 1 + 1 = MaxSessions
    BY <1>1
  <2>2. IsFiniteSet(1..(MaxSessions + 1))
        /\ Cardinality(1..(MaxSessions + 1)) =
             IF 1 > MaxSessions + 1 THEN 0 ELSE (MaxSessions + 1) - 1 + 1
    BY <2>1, FS_Interval
  <2>3. IsFiniteSet(1..MaxSessions)
        /\ Cardinality(1..MaxSessions) = IF 1 > MaxSessions THEN 0 ELSE MaxSessions - 1 + 1
    BY <2>1, FS_Interval
  <2>4. QED BY <2>1, <2>2, <2>3 DEF Sessions
<1>6. Cardinality(Sessions) < Cardinality(K) BY <1>1, <1>5
<1>7. \E i, j \in K : i # j /\ f[i] = f[j]
  <2> HIDE DEF f, K
  <2>1. QED BY <1>4, <1>5, <1>6, FS_PigeonHole
<1>8. PICK i \in K, j \in K : i # j /\ f[i] = f[j] BY <1>7
<1>9. sessions[Append(n, i)] = sessions[Append(n, j)] BY <1>8
<1>10. /\ client_name[sessions[Append(n, i)]] = Append(n, i)
       /\ client_name[sessions[Append(n, j)]] = Append(n, j)
  BY <1>2, <1>8 DEF NamesInv
<1>11. Append(n, i) = Append(n, j) BY <1>9, <1>10
<1>12. \A k \in K : Append(n, k)[Len(n) + 1] = k
  <2>1. n \in Seq(Letters) /\ \A k \in K : k \in Letters BY <1>1 DEF ClientNames, Letters
  <2>2. QED BY <2>1
<1>13. QED BY <1>8, <1>11, <1>12

\* The name that is given to a client is free.
LEMMA FreshName ==
  ASSUME Types, NamesInv, NEW n \in ClientNames
  PROVE  /\ AllocateClientName(n) \in ClientNames
         /\ AllocateClientName(n) \notin DOMAIN sessions
         /\ AllocateClientName(n) # <<>>
<1> DEFINE m == IF n = <<>> THEN <<"client">> ELSE n
           T == {k \in 1..(MaxSessions + 1) : Append(m, k) \notin DOMAIN sessions}
<1>1. MaxSessions \in Nat BY RegistryAssumption
<1>2. m \in ClientNames /\ m # <<>>
  <2>1. "client" \in Letters BY DEF Letters
  <2>2. <<"client">> \in Seq(Letters) /\ <<"client">> # <<>> BY <2>1
  <2>3. QED BY <2>2 DEF ClientNames
<1>3. AllocateClientName(n) = FirstFree(m) BY DEF AllocateClientName
<1> HIDE DEF m
<1>4. CASE m \notin DOMAIN sessions
  BY <1>2, <1>3, <1>4 DEF FirstFree
<1>5. CASE m \in DOMAIN sessions
  <2>1. T # {} /\ T \subseteq Nat BY <1>1, <1>2, OneIsFree
  <2>2. PICK l \in T : \A j \in T : l <= j BY <2>1, LeastNatural
  <2>3. l \in 1..(MaxSessions + 1) /\ Append(m, l) \notin DOMAIN sessions OBVIOUS
  <2>4. \A j \in 1..(l - 1) : j \in 1..(MaxSessions + 1) /\ ~(l <= j) BY <1>1, <2>3
  <2>5. \A j \in 1..(l - 1) : Append(m, j) \in DOMAIN sessions BY <2>2, <2>4
  <2> DEFINE Good(k) == /\ Append(m, k) \notin DOMAIN sessions
                        /\ \A j \in 1..(k - 1) : Append(m, j) \in DOMAIN sessions
             k == CHOOSE i \in 1..(MaxSessions + 1) : Good(i)
  <2>6. \E i \in 1..(MaxSessions + 1) : Good(i) BY <2>3, <2>5
  <2>7. k \in 1..(MaxSessions + 1) /\ Good(k) BY <2>6
  <2>8. FirstFree(m) = Append(m, k) BY <1>5 DEF FirstFree
  <2> HIDE DEF k
  <2>9. k \in Letters BY <1>1, <2>7 DEF Letters
  <2>10. Append(m, k) \in ClientNames /\ Append(m, k) # <<>> BY <1>2, <2>9 DEF ClientNames
  <2>11. QED BY <1>3, <2>7, <2>8, <2>10
<1>6. QED BY <1>4, <1>5

\* A login is accepted: it is the first of its session, and the name is new.
LEMMA LoginStep ==
  ASSUME IInv, NEW s \in Sessions, HandleLogin(s)
  PROVE  IInv'
<1> USE DEF IInv
<1> DEFINE h == Head(strand[s])
           n == AllocateClientName(h.msg.name)
<1>1. /\ stopping[s] = "no" /\ strand[s] # <<>> /\ h.run = "message" /\ h.msg.type = "login"
      /\ Ends(s)
      /\ sessions' = [m \in DOMAIN sessions \union {n} |-> IF m = n THEN s ELSE sessions[m]]
      /\ client_name' = [client_name EXCEPT ![s] = n]
      /\ answer' = [answer EXCEPT ![s] = n]
      /\ authenticated' = [authenticated EXCEPT ![s] = TRUE]
      /\ auth_timer' = [auth_timer EXCEPT ![s] = FALSE]
      /\ writing' = [writing EXCEPT ![s] = TRUE]
      /\ reading' = [reading EXCEPT ![s] = TRUE]
      /\ UNCHANGED <<mux_to_control, vhost_routes, proxy_rate_limiters, proxies,
                     registered_domains, closed, stopping, transport, wire, client,
                     made, robbed>>
  BY DEF HandleLogin, Handles, Starts, past
<1>2. /\ h \in Handlers /\ strand' \in [Sessions -> Seq(Handlers)]
      /\ \A t \in Sessions : t # s => strand'[t] = strand[t]
      /\ None(strand[s], Logins) <=> h \notin Logins /\ None(strand'[s], Logins)
      /\ One(strand[s], Logins) /\ h \in Logins => None(strand'[s], Logins)
  BY <1>1, EndsEffect
<1>3. h \in Logins /\ h.msg.name \in ClientNames BY <1>1, <1>2, HandlerKinds, MessageKinds
<1>4. n \in ClientNames /\ n \notin DOMAIN sessions /\ n # <<>> BY <1>3, FreshName
<1>5. /\ ~None(strand[s], Logins) /\ None(strand'[s], Logins)
      /\ None(wire[s], LoginMessages) /\ ~authenticated[s]
  BY <1>2, <1>3 DEF LoginInv
<1> HIDE DEF n, h
<1>6. /\ \A m \in DOMAIN sessions : sessions[m] \in Sessions /\ m # <<>> /\ sessions[m] # s
      /\ client_name \in [Sessions -> ClientNames] /\ answer \in [Sessions -> ClientNames]
      /\ authenticated \in [Sessions -> BOOLEAN] /\ auth_timer \in [Sessions -> BOOLEAN]
      /\ writing \in [Sessions -> BOOLEAN] /\ reading \in [Sessions -> BOOLEAN]
  BY <1>5, Typed DEF Types, TypeOK, NamesInv
<1>7. /\ DOMAIN sessions' = DOMAIN sessions \union {n} /\ sessions'[n] = s
      /\ \A m \in DOMAIN sessions : sessions'[m] = sessions[m]
  BY <1>1, <1>4
<1>8. /\ client_name' \in [Sessions -> ClientNames] /\ answer' \in [Sessions -> ClientNames]
      /\ client_name'[s] = n /\ \A t \in Sessions : t # s => client_name'[t] = client_name[t]
  BY <1>1, <1>4, <1>6
<1>9. /\ authenticated' \in [Sessions -> BOOLEAN]
      /\ \A t \in Sessions : authenticated'[t] <=> authenticated[t] \/ t = s
      /\ auth_timer' \in [Sessions -> BOOLEAN]
      /\ \A t \in Sessions : auth_timer'[t] <=> auth_timer[t] /\ t # s
      /\ writing' \in [Sessions -> BOOLEAN]
      /\ \A t \in Sessions : writing'[t] <=> writing[t] \/ t = s
      /\ reading' \in [Sessions -> BOOLEAN]
      /\ \A t \in Sessions : reading'[t] <=> reading[t] \/ t = s
  BY <1>1, <1>6
<1>10. transport[s] \notin {"none", "handshaking"} BY <1>1 DEF FreshInv
<1>same. UNCHANGED <<mux_to_control, vhost_routes, proxy_rate_limiters, proxies,
                  registered_domains, closed, stopping, transport, wire, control_stream,
                  login_due, name, dynamic_proxies, made, robbed>>
  BY <1>1 DEF client
<1>11. Types'
  <2>1. \A m \in DOMAIN sessions' : sessions'[m] \in Sessions /\ m # <<>>
    BY <1>4, <1>6, <1>7
  <2>2. strand' \in [Sessions -> Seq(Handlers)] BY <1>2
  <2>3. TypeOK'
    BY <1>9, <1>same, <2>1 DEF Types, TypeOK
  <2>4. QED BY <1>8, <1>same, <2>2, <2>3 DEF Types
<1>12. FreshInv'
  <2>1. \A t \in Sessions : t > made' => transport'[t] = "none" BY <1>1 DEF FreshInv
  <2>2. ASSUME NEW t \in Sessions, transport'[t] \in {"none", "handshaking"}
        PROVE  t # s /\ transport[t] \in {"none", "handshaking"}
    BY <1>1, <1>10, <2>2
  <2>3. QED
    <3>1. \A r \in Sessions : r # s =>
            /\ strand'[r] = strand[r] /\ wire'[r] = wire[r]
            /\ authenticated'[r] <=> authenticated[r]
            /\ reading'[r] <=> reading[r]
            /\ writing'[r] <=> writing[r]
            /\ auth_timer'[r] <=> auth_timer[r]
      BY <1>2, <1>9, <1>same
    <3>2. control_stream' = control_stream BY <1>same
    <3>3. QED BY <2>1, <2>2, <3>1, <3>2 DEF FreshInv
<1>13. StopInv' BY <1>1 DEF StopInv
<1>14. LinkInv' BY <1>1 DEF LinkInv, client
<1>15. LoginInv'
  <2>1. /\ wire' = wire /\ login_due' = login_due /\ control_stream' = control_stream
    BY <1>1 DEF client
  <2>2. ASSUME NEW t \in Sessions
        PROVE  /\ One(wire[t], LoginMessages) /\ One(strand'[t], Logins)
               /\ None(wire[t], LoginMessages) \/ None(strand'[t], Logins)
               /\ authenticated'[t] => None(wire[t], LoginMessages) /\ None(strand'[t], Logins)
    <3>1. CASE t = s BY <1>5, <3>1, NoneIsOne
    <3>2. CASE t # s BY <1>2, <1>9, <3>2 DEF LoginInv
    <3>3. QED BY <3>1, <3>2
  <2>3. \A d \in Clients : login_due[d] =>
          control_stream[d] \in Sessions /\ control_stream[d] # s
    BY <1>5, Typed DEF LoginInv
  <2>4. QED BY <1>2, <1>9, <2>1, <2>2, <2>3 DEF LoginInv
<1>16. NamesInv'
  <2>1. ASSUME NEW m \in DOMAIN sessions'
        PROVE  /\ authenticated'[sessions'[m]] /\ client_name'[sessions'[m]] = m
               /\ stopping'[sessions'[m]] = "no"
    <3>1. CASE m = n BY <1>1, <1>7, <1>8, <1>9, <3>1
    <3>2. CASE m # n
      <4>1. m \in DOMAIN sessions /\ sessions'[m] = sessions[m] BY <1>7, <3>2
      <4>2. QED BY <1>1, <1>6, <1>8, <1>9, <4>1 DEF NamesInv
    <3>3. QED BY <3>1, <3>2
  <2>2. QED BY <2>1 DEF NamesInv
<1>17. RouteInv' BY <1>1 DEF RouteInv
<1>18. HoldsInv'
  <2>1. StopComes(s)' BY <1>9 DEF StopComes
  <2>2. \A t \in Sessions : t # s /\ StopComes(t) => StopComes(t)'
    BY <1>1, <1>2, <1>9 DEF StopComes
  <2>3. ASSUME NEW m \in DOMAIN sessions'
        PROVE  sessions'[m] \in Sessions /\ (sessions'[m] # s => StopComes(sessions'[m]))
    <3>1. CASE m = n BY <1>7, <3>1
    <3>2. CASE m # n
      <4>1. m \in DOMAIN sessions /\ sessions'[m] = sessions[m] BY <1>7, <3>2
      <4>2. QED BY <1>6, <4>1 DEF HoldsInv
    <3>3. QED BY <3>1, <3>2
  <2>4. \A t \in Sessions : proxies'[t] # <<>> \/ registered_domains'[t] # {} => StopComes(t)'
    BY <1>1, <2>1, <2>2 DEF HoldsInv
  <2>5. QED
    <3> DEFINE Comes(t) == ~closed'[t] \/ reading'[t] \/ ~None(strand'[t], Stops)
                           \/ stopping'[t] # "no"
    <3>1. \A t \in Sessions : t = s \/ StopComes(t) => Comes(t)
      BY <2>1, <2>2 DEF StopComes
    <3>2. \A m \in DOMAIN sessions' : Comes(sessions'[m])
      <4> HIDE DEF Comes
      <4>1. QED BY <2>3, <3>1
    <3>3. QED BY <2>4, <3>2 DEF HoldsInv, StopComes
<1>19. LoginIsWatched'
  <2>0. mux_to_control \subseteq Sessions BY DEF Types, TypeOK
  <2>1. ASSUME NEW t \in mux_to_control, t # s
        PROVE  /\ authenticated'[t] <=> authenticated[t]
               /\ auth_timer'[t] <=> auth_timer[t]
               /\ strand'[t] = strand[t]
    BY <1>2, <1>9, <2>0, <2>1
  <2>2. QED BY <1>1, <1>9, <2>1 DEF LoginIsWatched
<1>20. NameIsOwn'
  <2>1. ASSUME NEW t \in Sessions, authenticated'[t], ~closed[t], stopping[t] = "no", t \notin robbed
        PROVE  client_name'[t] \in DOMAIN sessions' /\ sessions'[client_name'[t]] = t
    <3>1. CASE t = s BY <1>7, <1>8, <3>1
    <3>2. CASE t # s
      <4>1. client_name[t] \in DOMAIN sessions /\ sessions[client_name[t]] = t
        BY <1>9, <2>1, <3>2 DEF NameIsOwn, NotStopping
      <4>2. QED BY <1>7, <1>8, <3>2, <4>1
    <3>3. QED BY <3>1, <3>2
  <2>2. QED BY <1>1, <2>1 DEF NameIsOwn, NotStopping
<1>21. QED BY <1>11, <1>12, <1>13, <1>14, <1>15, <1>16, <1>17, <1>18, <1>19, <1>20

-----------------------------------------------------------------------------
(* A session: its proxies.                                                   *)

\* A session that reads on may hold what it likes.
LEMMA ProxiesChange ==
  ASSUME IInv, NEW s \in Sessions, strand[s] # <<>>, Ends(s), Head(strand[s]) \notin Stops,
         reading' = [reading EXCEPT ![s] = TRUE],
         writing' \in [Sessions -> BOOLEAN], \A t \in Sessions : t # s => writing'[t] = writing[t],
         proxies' \in [Sessions -> Seq(Proxies)],
         \A t \in Sessions : t # s => proxies'[t] = proxies[t],
         registered_domains' \in [Sessions -> SUBSET Domains],
         \A t \in Sessions : t # s => registered_domains'[t] = registered_domains[t],
         registered_domains[s] \subseteq registered_domains'[s],
         vhost_routes' \in [Domains -> Sessions \union {0}],
         \A d \in Domains : \/ vhost_routes'[d] = vhost_routes[d]
                            \/ vhost_routes'[d] = s /\ d \in registered_domains'[s],
         proxy_rate_limiters' \subseteq Names(Proxies),
         UNCHANGED <<sessions, mux_to_control, authenticated, client_name, closed,
                     stopping, auth_timer, transport, wire, answer, client, made, robbed>>
  PROVE  IInv'
<1> USE DEF IInv
<1>1. reading' \in [Sessions -> BOOLEAN]
      /\ \A t \in Sessions : reading'[t] <=> reading[t] \/ t = s
  BY Typed
<1>2. /\ strand' \in [Sessions -> Seq(Handlers)]
      /\ \A t \in Sessions : t # s => strand'[t] = strand[t]
      /\ None(strand[s], Stops) <=> None(strand'[s], Stops)
  BY EndsEffect
<1>3. UNCHANGED <<control_stream, login_due, name, dynamic_proxies>> BY DEF client
<1>4. transport[s] \notin {"none", "handshaking"} BY DEF FreshInv
<1>5. Types'
  <2>1. TypeOK' BY <1>1, <1>3 DEF Types, TypeOK
  <2>2. QED BY <1>2, <1>3, <2>1 DEF Types
<1>6. FreshInv'
  <2>1. \A r \in Sessions : r # s =>
          strand'[r] = strand[r] /\ (reading'[r] <=> reading[r]) /\ writing'[r] = writing[r]
    BY <1>1, <1>2
  <2>2. QED BY <1>3, <1>4, <2>1 DEF FreshInv
<1>7. StopInv' BY DEF StopInv
<1>8. LinkInv' BY <1>3 DEF LinkInv
<1>9. LoginInv' BY <1>3, LoginStays
<1>10. NamesInv' BY DEF NamesInv
<1>11. RouteInv'
  <2>1. ASSUME NEW d \in Domains, vhost_routes'[d] # 0
        PROVE  d \in registered_domains'[vhost_routes'[d]]
    <3>1. CASE vhost_routes'[d] = s /\ d \in registered_domains'[s] BY <3>1
    <3>2. CASE vhost_routes'[d] = vhost_routes[d]
      <4>1. d \in registered_domains[vhost_routes[d]] BY <2>1, <3>2 DEF RouteInv
      <4>2. vhost_routes[d] \in Sessions BY <2>1, <3>2 DEF Types, TypeOK
      <4>3. CASE vhost_routes[d] = s BY <3>2, <4>1, <4>3
      <4>4. CASE vhost_routes[d] # s BY <3>2, <4>1, <4>2, <4>4
      <4>5. QED BY <4>3, <4>4
    <3>3. QED BY <3>1, <3>2
  <2>2. QED BY <2>1 DEF RouteInv
<1>12. HoldsInv'
  <2>1. \A t \in Sessions : StopComes(t) => StopComes(t)' BY <1>1, <1>2 DEF StopComes
  <2>2. StopComes(s)' BY <1>1 DEF StopComes
  <2>3. \A n \in DOMAIN sessions : sessions[n] \in Sessions BY DEF Types, TypeOK
  <2>4. QED BY <2>1, <2>2, <2>3 DEF HoldsInv
<1>13. LoginIsWatched'
  <2>1. strand[s] \in Seq(Handlers) /\ strand'[s] \in Seq(Handlers) /\ mux_to_control \subseteq Sessions
    BY <1>2, Typed DEF Types, TypeOK
  <2>2. (\E i \in 1..Len(strand'[s]) : strand'[s][i].run = "stop")
          <=> \E i \in 1..Len(strand[s]) : strand[s][i].run = "stop"
    BY <1>2, <2>1, StopIsOnStrand
  <2>3. \A t \in mux_to_control :
          (\E i \in 1..Len(strand'[t]) : strand'[t][i].run = "stop")
            <=> \E i \in 1..Len(strand[t]) : strand[t][i].run = "stop"
    <3>1. ASSUME NEW t \in mux_to_control, t # s PROVE strand'[t] = strand[t]
      BY <1>2, <2>1, <3>1
    <3>2. QED BY <2>2, <3>1
  <2>4. QED BY <2>3 DEF LoginIsWatched
<1>14. NameIsOwn' BY DEF NameIsOwn, NotStopping
<1>15. QED BY <1>5, <1>6, <1>7, <1>8, <1>9, <1>10, <1>11, <1>12, <1>13, <1>14

\* A proxy is registered, or refused.
LEMMA RegisterStep ==
  ASSUME IInv, NEW s \in Sessions, register(s)
  PROVE  IInv'
<1> DEFINE h == Head(strand[s])
           p == h.msg.proxy
<1>1. /\ Types /\ writing \in [Sessions -> BOOLEAN]
      /\ proxies \in [Sessions -> Seq(Proxies)]
      /\ registered_domains \in [Sessions -> SUBSET Domains]
      /\ vhost_routes \in [Domains -> Sessions \union {0}]
      /\ proxy_rate_limiters \subseteq Names(Proxies)
  BY Typed DEF IInv, Types, TypeOK
<1>2. /\ strand[s] # <<>> /\ Ends(s) /\ h.run = "message" /\ h.msg.type = "register"
      /\ proxy_rate_limiters' = proxy_rate_limiters \union {q.name : q \in {p} \intersect Limited}
      /\ writing' = [writing EXCEPT ![s] = TRUE]
      /\ reading' = [reading EXCEPT ![s] = TRUE]
      /\ UNCHANGED <<sessions, mux_to_control, authenticated, client_name, closed,
                     stopping, auth_timer, transport, wire, answer, client, made, robbed>>
  BY DEF register, Handles, Starts, links
<1>3. \/ /\ p.type = "http" /\ UNCHANGED proxies
         /\ vhost_routes' = [vhost_routes EXCEPT ![p.at] = s]
         /\ registered_domains' = [registered_domains EXCEPT ![s] = @ \union {p.at}]
      \/ /\ proxies' = [proxies EXCEPT ![s] = Append(@, p)]
         /\ UNCHANGED <<vhost_routes, registered_domains>>
      \/ UNCHANGED <<vhost_routes, registered_domains, proxies>>
  BY DEF register
<1>4. h \in Handlers BY <1>1, <1>2, EndsEffect
<1>5. h \notin Stops /\ p \in Proxies BY <1>2, <1>4, HandlerKinds, MessageKinds
<1>6. p.name \in Names(Proxies) /\ (p.type = "http" => p.at \in Domains)
  BY <1>5, ProxiesTyped DEF Names
<1> HIDE DEF p
<1>7. proxy_rate_limiters' \subseteq Names(Proxies) BY <1>1, <1>2, <1>6
<1>8. /\ proxies' \in [Sessions -> Seq(Proxies)]
      /\ \A t \in Sessions : t # s => proxies'[t] = proxies[t]
  <2> DEFINE q == Append(proxies[s], p)
  <2>1. proxies' = proxies \/ proxies' = [proxies EXCEPT ![s] = q] BY <1>3
  <2>2. q \in Seq(Proxies) BY <1>1, <1>5
  <2> HIDE DEF q
  <2>3. QED BY <1>1, <2>1, <2>2
<1>9. /\ registered_domains' \in [Sessions -> SUBSET Domains]
      /\ \A t \in Sessions : t # s => registered_domains'[t] = registered_domains[t]
      /\ registered_domains[s] \subseteq registered_domains'[s]
      /\ vhost_routes' \in [Domains -> Sessions \union {0}]
      /\ \A d \in Domains : \/ vhost_routes'[d] = vhost_routes[d]
                            \/ vhost_routes'[d] = s /\ d \in registered_domains'[s]
  <2>1. CASE UNCHANGED <<vhost_routes, registered_domains>> BY <1>1, <2>1
  <2>2. CASE /\ p.type = "http"
             /\ vhost_routes' = [vhost_routes EXCEPT ![p.at] = s]
             /\ registered_domains' = [registered_domains EXCEPT ![s] = @ \union {p.at}]
    <3> DEFINE D == registered_domains[s] \union {p.at}
    <3>1. /\ p.at \in Domains /\ registered_domains' = [registered_domains EXCEPT ![s] = D]
          /\ D \in SUBSET Domains /\ p.at \in D /\ registered_domains[s] \subseteq D
      BY <1>1, <1>6, <2>2
    <3> HIDE DEF D
    <3>2. /\ registered_domains' \in [Sessions -> SUBSET Domains]
          /\ \A t \in Sessions : t # s => registered_domains'[t] = registered_domains[t]
          /\ registered_domains'[s] = D
      BY <1>1, <3>1
    <3>3. /\ vhost_routes' \in [Domains -> Sessions \union {0}]
          /\ \A d \in Domains : vhost_routes'[d] = IF d = p.at THEN s ELSE vhost_routes[d]
      BY <1>1, <2>2, <3>1
    <3>4. QED BY <3>1, <3>2, <3>3
  <2>3. QED BY <1>3, <2>1, <2>2
<1>10. writing' \in [Sessions -> BOOLEAN] /\ \A t \in Sessions : t # s => writing'[t] = writing[t]
  BY <1>1, <1>2
<1>11. QED BY <1>2, <1>5, <1>7, <1>8, <1>9, <1>10, ProxiesChange

\* A proxy is removed.
LEMMA UnregisterStep ==
  ASSUME IInv, NEW s \in Sessions, unregister(s)
  PROVE  IInv'
<1> DEFINE h == Head(strand[s])
           n == h.msg.proxy.name
           q == Unregistered(s, n)
<1>1. /\ Types /\ writing \in [Sessions -> BOOLEAN]
      /\ proxies \in [Sessions -> Seq(Proxies)]
      /\ registered_domains \in [Sessions -> SUBSET Domains]
      /\ vhost_routes \in [Domains -> Sessions \union {0}]
      /\ proxy_rate_limiters \subseteq Names(Proxies)
  BY Typed DEF IInv, Types, TypeOK
<1>2. /\ strand[s] # <<>> /\ Ends(s) /\ h.run = "message"
      /\ proxies' = [proxies EXCEPT ![s] = q]
      /\ reading' = [reading EXCEPT ![s] = TRUE]
      /\ UNCHANGED <<sessions, mux_to_control, authenticated, client_name, closed,
                     stopping, auth_timer, transport, wire, answer, client, made, robbed>>
      /\ UNCHANGED <<writing, registered_domains, vhost_routes, proxy_rate_limiters>>
  BY DEF unregister, Handles, Starts, links, past, tables
<1>3. h \in Handlers BY <1>1, <1>2, EndsEffect
<1>4. h \notin Stops BY <1>2, <1>3, HandlerKinds
<1>5. q \in Seq(Proxies)
  <2> DEFINE at(type) == {i \in 1..Len(proxies[s]) :
                            proxies[s][i].name = n /\ proxies[s][i].type = type}
             found == IF at("tcp") # {} THEN at("tcp") ELSE at("udp")
             k == CHOOSE i \in found : \A j \in found : i <= j
  <2>1. proxies[s] \in Seq(Proxies) BY <1>1
  <2>2. q = IF found = {} THEN proxies[s] ELSE RemoveAt(proxies[s], k) BY DEF Unregistered
  <2>3. found \subseteq 1..Len(proxies[s]) /\ found \subseteq Nat OBVIOUS
  <2> HIDE DEF q, found
  <2>4. CASE found = {} BY <2>1, <2>2, <2>4
  <2>5. CASE found # {}
    <3>1. \E i \in found : \A j \in found : i <= j BY <2>3, <2>5, LeastNatural
    <3>2. k \in found BY <3>1
    <3>3. k \in 1..Len(proxies[s]) BY <2>3, <3>2
    <3> HIDE DEF k
    <3>4. RemoveAt(proxies[s], k) \in Seq(Proxies) BY <2>1, <3>3, Without
    <3>5. QED BY <2>2, <2>5, <3>4
  <2>6. QED BY <2>4, <2>5
<1> HIDE DEF q
<1>6. /\ proxies' \in [Sessions -> Seq(Proxies)]
      /\ \A t \in Sessions : t # s => proxies'[t] = proxies[t]
  BY <1>1, <1>2, <1>5
<1>7. QED BY <1>1, <1>2, <1>4, <1>6, ProxiesChange

-----------------------------------------------------------------------------
(* The theorems.                                                             *)

\* The invariant holds at the start.
LEMMA Starting ==
  ASSUME Init
  PROVE  IInv
<1> DEFINE none == <<>>
<1>1. /\ <<>> \in Seq(Handlers) /\ <<>> \in Seq(Messages) /\ <<>> \in Seq(Proxies)
      /\ <<>> \in ClientNames
      /\ \A H : None(<<>>, H) /\ One(<<>>, H)
  BY EmptyQueue DEF ClientNames
<1>2. DOMAIN sessions = {} BY DEF Init
<1>3. ConfiguredNames \subseteq ClientNames
  <2>1. ASSUME NEW n \in ConfiguredNames PROVE n \in Seq(Letters)
    <3>1. n \in Seq(STRING) BY RegistryAssumption
    <3>2. Len(n) \in Nat /\ n \in [1..Len(n) -> STRING] BY <3>1
    <3>3. \A i \in 1..Len(n) : n[i] \in Letters BY <3>2 DEF Letters
    <3>4. n \in [1..Len(n) -> Letters] BY <3>2, <3>3
    <3>5. QED BY <3>2, <3>4
  <2>2. QED BY <2>1 DEF ClientNames
<1>4. \A c \in Clients : {} \in Directories(c) BY ProxiesTyped
<1>5. MaxSessions \in Nat BY RegistryAssumption
<1>6. TypeOK BY <1>1, <1>2, <1>4, <1>5 DEF Init, TypeOK
<1>7. Types BY <1>1, <1>3, <1>6 DEF Init, Types
<1>8. FreshInv
  <2>1. \A s \in Sessions : s # 0 BY <1>7, Typed
  <2>2. QED BY <2>1 DEF Init, FreshInv
<1>9. StopInv /\ LinkInv BY DEF Init, StopInv, LinkInv
<1>10. LoginInv BY <1>1 DEF Init, LoginInv
<1>11. NamesInv /\ RouteInv BY <1>2 DEF Init, NamesInv, RouteInv
<1>12. HoldsInv BY <1>2 DEF Init, HoldsInv
<1>13. LoginIsWatched /\ NameIsOwn BY DEF Init, LoginIsWatched, NameIsOwn
<1>14. QED BY <1>7, <1>8, <1>9, <1>10, <1>11, <1>12, <1>13 DEF IInv

\* A step that changes nothing breaks nothing.
LEMMA Stuttering ==
  ASSUME IInv, UNCHANGED vars
  PROVE  IInv'
<1> USE DEF vars, tables, fields, pending, links, client, past
<1>1. Types' BY DEF IInv, Types, TypeOK
<1>2. FreshInv' BY DEF IInv, FreshInv
<1>3. StopInv' /\ LinkInv' BY DEF IInv, StopInv, LinkInv
<1>4. LoginInv' BY DEF IInv, LoginInv
<1>5. NamesInv' /\ RouteInv' BY DEF IInv, NamesInv, RouteInv
<1>6. HoldsInv' BY DEF IInv, HoldsInv, StopComes
<1>7. LoginIsWatched' /\ NameIsOwn' BY DEF IInv, LoginIsWatched, NameIsOwn, NotStopping
<1>8. QED BY <1>1, <1>2, <1>3, <1>4, <1>5, <1>6, <1>7 DEF IInv

\* Every step of the server, its sessions and the clients keeps the invariant.
THEOREM Invariance == Spec => []IInv
<1>1. Init => IInv BY Starting
<1>2. IInv /\ [Next]_vars => IInv'
  <2> SUFFICES ASSUME IInv, [Next]_vars PROVE IInv'
    OBVIOUS
  <2>1. CASE accept BY <2>1, ConnectionStep
  <2>2. ASSUME NEW s \in Sessions, Strand(s) PROVE IInv'
    BY <2>2, StopStep, StopProxiesStep, LoginStep, RegisterStep, UnregisterStep DEF Strand
  <2>3. ASSUME NEW s \in Sessions, Network(s) PROVE IInv'
    BY <2>3, ConnectionStep, ReadStep, FailureStep DEF Network
  <2>4. ASSUME NEW c \in Clients, Client(c) PROVE IInv'
    BY <2>4, StartStep, LoginSent, PollStep, DisconnectStep DEF Client
  <2>5. CASE UNCHANGED vars BY <2>5, Stuttering
  <2>6. QED BY <2>1, <2>2, <2>3, <2>4, <2>5 DEF Next
<1>3. QED BY <1>1, <1>2, PTL DEF Spec

\* The tables, the sessions and the clients keep their types.
THEOREM TypeCorrect == Spec => []TypeOK
<1>1. IInv => TypeOK BY DEF IInv, Types
<1>2. QED BY <1>1, Invariance, PTL

\* A control session that is entered and has not logged in is watched by its
\* authentication timer, or its Stop is on its way.
THEOREM StalledLoginsAreWatched == Spec => []LoginIsWatched
<1>1. IInv => LoginIsWatched BY DEF IInv
<1>2. QED BY <1>1, Invariance, PTL

\* A session with no handler left holds no name, listener, route or entry.
THEOREM NothingIsLeftBehind == Spec => []EndedHoldsNothing
<1>1. IInv => EndedHoldsNothing
  <2> SUFFICES ASSUME IInv, NEW s \in Sessions, Ended(s)
               PROVE  /\ \A n \in DOMAIN sessions : sessions[n] # s
                      /\ s \notin mux_to_control
                      /\ proxies[s] = <<>>
                      /\ registered_domains[s] = {}
                      /\ \A d \in Domains : vhost_routes[d] # s
    BY DEF EndedHoldsNothing
  <2>1. None(strand[s], Stops)
    <3>1. strand[s] = <<>> BY DEF Ended
    <3>2. QED BY <3>1, EmptyQueue
  <2>2. ~StopComes(s) BY <2>1 DEF Ended, StopComes
  <2>3. /\ \A n \in DOMAIN sessions : sessions[n] # s
        /\ proxies[s] = <<>> /\ registered_domains[s] = {}
    BY <2>2 DEF IInv, HoldsInv
  <2>4. s \notin mux_to_control BY DEF IInv, StopInv, Ended
  <2>5. s # 0 BY Typed DEF IInv
  <2>6. \A d \in Domains : vhost_routes[d] # s BY <2>3, <2>5 DEF IInv, RouteInv
  <2>7. QED BY <2>3, <2>4, <2>6
<1>2. QED BY <1>1, Invariance, PTL

\* A session that is logged in and not stopped is listed under its name, unless
\* another one has released that name.
THEOREM NamesAreOwn == Spec => []NameIsOwn
<1>1. IInv => NameIsOwn BY DEF IInv
<1>2. QED BY <1>1, Invariance, PTL

-----------------------------------------------------------------------------
(* Client and server agree: queues of messages, and what they are for a name.*)

\* Where queue q registers a proxy of name n, and where it removes one.
Adds(q, n)  == {i \in 1..Len(q) : q[i].type = "register" /\ q[i].proxy.name = n}
Drops(q, n) == {i \in 1..Len(q) : q[i].type = "unregister" /\ q[i].proxy.name = n}

\* The message that registers p, and the one that removes the proxy of name n.
AddOf(p)  == Message("register", <<>>, p)
DropOf(n) == Message("unregister", <<>>, [NoProxy EXCEPT !.name = n])

\* What these two messages say.
LEMMA AddAndDrop ==
  /\ \A p : AddOf(p).type = "register" /\ AddOf(p).proxy = p
  /\ \A n : DropOf(n).type = "unregister" /\ DropOf(n).proxy.name = n
<1>1. \A p : AddOf(p).type = "register" /\ AddOf(p).proxy = p BY DEF AddOf, Message
<1>2. \A n : DropOf(n).type = "unregister" /\ DropOf(n).proxy.name = n
  BY DEF DropOf, Message, NoProxy
<1>3. QED BY <1>1, <1>2

\* A directory has one file for a name.
LEMMA EntryOf ==
  ASSUME NEW c \in Clients, NEW files \in Directories(c)
  PROVE  /\ \A p \in files : Entry(files, p.name) = p /\ p.name \in Names(files)
         /\ \A n \in Names(files) : Entry(files, n) \in files /\ Entry(files, n).name = n
<1>1. ASSUME NEW n \in Names(files) PROVE Entry(files, n) \in files /\ Entry(files, n).name = n
  <2>1. \E p \in files : p.name = n BY DEF Names
  <2>2. QED BY <2>1 DEF Entry
<1>2. ASSUME NEW p \in files PROVE Entry(files, p.name) = p /\ p.name \in Names(files)
  <2>1. p.name \in Names(files) BY DEF Names
  <2>2. Entry(files, p.name) \in files /\ Entry(files, p.name).name = p.name BY <1>1, <2>1
  <2>3. QED BY <2>1, <2>2 DEF Directories
<1>3. QED BY <1>1, <1>2

\* The change for a name: nothing, or its proxy is removed, registered, or both.
LEMMA ChangesAre ==
  ASSUME NEW c \in Clients, NEW files, NEW n
  PROVE  /\ n \notin Names(files) => Changes(c, files, n) = <<DropOf(n)>>
         /\ n \in Names(files) /\ n \notin Names(dynamic_proxies[c]) =>
              Changes(c, files, n) = <<AddOf(Entry(files, n))>>
         /\ n \in Names(files) /\ n \in Names(dynamic_proxies[c]) =>
              IF Same(Entry(files, n), Entry(dynamic_proxies[c], n))
              THEN Changes(c, files, n) = <<>>
              ELSE Changes(c, files, n) = <<DropOf(n), AddOf(Entry(files, n))>>
<1> DEFINE e == Entry(files, n)
           gone == <<DropOf(n)>>
           added == Registers(<<e>>)
<1>1. added = <<AddOf(e)>>
  <2> HIDE DEF e
  <2>1. Len(<<e>>) = 1 /\ <<e>>[1] = e OBVIOUS
  <2>2. added = [i \in 1..1 |-> AddOf(<<e>>[i])] BY <2>1 DEF Registers, AddOf
  <2>3. QED BY <2>1, <2>2
<1>2. gone \o added = <<DropOf(n), AddOf(e)>>
  <2>1. ASSUME NEW x, NEW y PROVE <<x>> \o <<y>> = <<x, y>>
    <3>1. <<x>> \in Seq({x, y}) /\ <<y>> \in Seq({x, y}) OBVIOUS
    <3> DEFINE z == <<x>> \o <<y>>
    <3>2. z \in Seq({x, y}) /\ Len(z) = 2 /\ z[1] = x /\ z[2] = y BY <3>1
    <3> HIDE DEF z
    <3>3. z = <<x, y>> BY <3>2
    <3>4. QED BY <3>3 DEF z
  <2>2. gone \o added = gone \o <<AddOf(e)>> BY <1>1
  <2> HIDE DEF e, added
  <2>3. QED BY <2>1, <2>2
<1>3. Changes(c, files, n) =
        IF n \notin Names(files) THEN gone
        ELSE IF n \notin Names(dynamic_proxies[c]) THEN added
        ELSE IF Same(e, Entry(dynamic_proxies[c], n)) THEN <<>>
        ELSE gone \o added
  BY DEF Changes, DropOf
<1> HIDE DEF gone, added, e
<1>4. QED BY <1>1, <1>2, <1>3 DEF gone, e

\* A sequence of elements of a set is one of elements of a larger set.
LEMMA WiderSeq ==
  ASSUME NEW P, NEW Q, P \subseteq Q, NEW s \in Seq(P)
  PROVE  s \in Seq(Q)
OBVIOUS

\* The difference goes through the names of the old and the new directory.
LEMMA DiffParts ==
  ASSUME NEW c \in Clients, NEW files \in Directories(c), dynamic_proxies[c] \in Directories(c)
  PROVE  \E names, start :
           /\ names \in Seq(STRING)
           /\ \A i, j \in 1..Len(names) : names[i] = names[j] => i = j
           /\ \A n : (\E i \in 1..Len(names) : names[i] = n)
                      <=> n \in Names(dynamic_proxies[c]) \union Names(files)
           /\ PartsAt([i \in 1..Len(names) |-> Changes(c, files, names[i])],
                      Diff(c, files), start, Len(names))
<1> DEFINE A == Names(dynamic_proxies[c]) \ Names(files)
           B == Names(files)
           a == SetToSeq(A)
           b == SetToSeq(B)
           names == a \o b
           n == Len(a) + Len(b)
           q == [i \in 1..n |-> Changes(c, files, names[i])]
<1>1. /\ IsFiniteSet(ConfFiles[c]) /\ ConfFiles[c] \subseteq Proxies
      /\ files \in SUBSET ConfFiles[c] /\ dynamic_proxies[c] \in SUBSET ConfFiles[c]
  BY ProxiesTyped
<1>2. IsFiniteSet(files) /\ IsFiniteSet(dynamic_proxies[c]) BY <1>1, FS_Subset
<1>3. \A set \in SUBSET Proxies : IsFiniteSet(set) =>
        IsFiniteSet(Names(set)) /\ Names(set) \subseteq STRING
  BY NamesFinite
<1>4. IsFiniteSet(B) /\ B \subseteq STRING BY <1>1, <1>2, <1>3
<1>5. IsFiniteSet(Names(dynamic_proxies[c])) /\ Names(dynamic_proxies[c]) \subseteq STRING
  BY <1>1, <1>2, <1>3
<1>6. IsFiniteSet(A) /\ A \subseteq STRING BY <1>5, FS_Subset
<1>7. /\ a \in Seq(A) /\ b \in Seq(B)
      /\ \A i, j \in 1..Len(a) : a[i] = a[j] => i = j
      /\ \A i, j \in 1..Len(b) : b[i] = b[j] => i = j
      /\ \A x \in A : \E i \in 1..Len(a) : a[i] = x
      /\ \A x \in B : \E i \in 1..Len(b) : b[i] = x
  <2> HIDE DEF A, B
  <2>1. QED BY <1>4, <1>6, ListedOnce
<1>8. A \union B = Names(dynamic_proxies[c]) \union Names(files) /\ A \intersect B = {}
  OBVIOUS
<1> HIDE DEF a, b, A, B
<1>9. /\ names \in Seq(STRING) /\ Len(names) = n /\ n \in Nat
      /\ Len(a) \in Nat /\ Len(b) \in Nat
      /\ \A i \in 1..Len(a) : i \in 1..n /\ names[i] = a[i] /\ a[i] \in A
      /\ \A i \in 1..Len(b) : Len(a) + i \in 1..n /\ names[Len(a) + i] = b[i] /\ b[i] \in B
  <2>1. a \in Seq(STRING) /\ b \in Seq(STRING)
    <3>1. a \in Seq(A) /\ b \in Seq(B) BY <1>7
    <3>2. A \subseteq STRING /\ B \subseteq STRING BY <1>4, <1>6
    <3>3. QED BY <3>1, <3>2, WiderSeq
  <2>2. \A i \in 1..Len(a) : a[i] \in A BY <1>7
  <2>3. \A i \in 1..Len(b) : b[i] \in B BY <1>7
  <2>4. QED BY <2>1, <2>2, <2>3
<1>10. \A i \in 1..n : \/ i \in 1..Len(a)
                       \/ i - Len(a) \in 1..Len(b) /\ i = Len(a) + (i - Len(a))
  BY <1>9
<1> HIDE DEF names, n
<1>11. \A i \in 1..n : \/ i \in 1..Len(a) /\ names[i] = a[i] /\ names[i] \in A
                       \/ /\ i \notin 1..Len(a) /\ i - Len(a) \in 1..Len(b)
                          /\ names[i] = b[i - Len(a)] /\ names[i] \in B
  BY <1>9, <1>10
<1>12. ASSUME NEW i \in 1..n, NEW j \in 1..n, names[i] = names[j] PROVE i = j
  <2>1. CASE i \in 1..Len(a) /\ j \in 1..Len(a) BY <1>7, <1>11, <1>12, <2>1
  <2>2. CASE i \notin 1..Len(a) /\ j \notin 1..Len(a)
    <3> DEFINE x == i - Len(a)
               y == j - Len(a)
    <3>1. x \in 1..Len(b) /\ y \in 1..Len(b) /\ b[x] = b[y] BY <1>11, <1>12, <2>2
    <3>2. x = y
      <4> HIDE DEF x, y
      <4>1. QED BY <1>7, <3>1
    <3>3. QED BY <1>9, <3>2
  <2>3. CASE ~(i \in 1..Len(a) <=> j \in 1..Len(a)) BY <1>8, <1>11, <1>12, <2>3
  <2>4. QED BY <2>1, <2>2, <2>3
<1>13. ASSUME NEW x
       PROVE  (\E i \in 1..n : names[i] = x) <=> x \in A \union B
  <2>1. ASSUME x \in A PROVE \E i \in 1..n : names[i] = x BY <1>7, <1>9, <2>1
  <2>2. ASSUME x \in B PROVE \E i \in 1..n : names[i] = x
    <3>1. PICK i \in 1..Len(b) : b[i] = x BY <1>7, <2>2
    <3>2. Len(a) + i \in 1..n /\ names[Len(a) + i] = x BY <1>9, <3>1
    <3>3. QED BY <3>2
  <2>3. QED BY <1>11, <2>1, <2>2
<1>14. q \in Seq(Seq(PlainMessages)) /\ Len(q) = n
  <2>1. \A i \in 1..n : names[i] \in STRING BY <1>9
  <2>2. files \in SUBSET Proxies BY <1>1
  <2>3. \A i \in 1..n : Changes(c, files, names[i]) \in Seq(PlainMessages)
    BY <2>1, <2>2, ChangesPlain
  <2>4. QED BY <1>9, <2>3
<1>15. Diff(c, files) = FlattenSeq(q) BY DEF Diff, q, n, names, a, b, A, B
<1> HIDE DEF q
<1>16. PICK start : PartsAt(q, FlattenSeq(q), start, n) BY <1>14, FlattenedParts
<1>17. PartsAt(q, Diff(c, files), start, Len(names)) BY <1>9, <1>15, <1>16
<1>18. q = [i \in 1..Len(names) |-> Changes(c, files, names[i])] BY <1>9 DEF q
<1>19. QED BY <1>8, <1>9, <1>12, <1>13, <1>17, <1>18

\* What the difference has for a name is the change for it, in one place.
LEMMA DiffOfName ==
  ASSUME NEW c \in Clients, NEW files \in Directories(c), dynamic_proxies[c] \in Directories(c),
         NEW n
  PROVE  LET d == Diff(c, files)
             b == Changes(c, files, n)
         IN  IF n \in Names(dynamic_proxies[c]) \union Names(files)
             THEN \E o \in Nat :
                    /\ \A i \in 1..Len(b) : o + i \in 1..Len(d) /\ d[o + i] = b[i]
                    /\ \A j \in 1..Len(d) : d[j].proxy.name = n =>
                         \E i \in 1..Len(b) : j = o + i
             ELSE \A j \in 1..Len(d) : d[j].proxy.name # n
<1> DEFINE d == Diff(c, files)
           b == Changes(c, files, n)
<1>1. PICK names, start :
        /\ names \in Seq(STRING)
        /\ \A i, j \in 1..Len(names) : names[i] = names[j] => i = j
        /\ \A m : (\E i \in 1..Len(names) : names[i] = m)
                   <=> m \in Names(dynamic_proxies[c]) \union Names(files)
        /\ PartsAt([i \in 1..Len(names) |-> Changes(c, files, names[i])],
                   d, start, Len(names))
  BY DiffParts
<1> DEFINE q == [i \in 1..Len(names) |-> Changes(c, files, names[i])]
<1>2. \A k \in 1..Len(names) : q[k] = Changes(c, files, names[k]) OBVIOUS
<1>3. PartsAt(q, d, start, Len(names)) /\ d \in Seq(PlainMessages)
  <2>1. files \in SUBSET ConfFiles[c] /\ dynamic_proxies[c] \in SUBSET ConfFiles[c]
    BY ProxiesTyped
  <2>2. QED BY <1>1, <2>1, DiffPlain
<1> HIDE DEF q, d
<1>4. \A k \in 1..Len(names) : \A i \in 1..Len(q[k]) : q[k][i].proxy.name = names[k]
  <2>1. ASSUME NEW k \in 1..Len(names), NEW i \in 1..Len(q[k])
        PROVE  q[k][i].proxy.name = names[k]
    <3> DEFINE m == names[k]
               e == Entry(files, m)
    <3>1. q[k] \in {<<DropOf(m)>>, <<AddOf(e)>>, <<>>, <<DropOf(m), AddOf(e)>>}
      BY <1>2, ChangesAre
    <3>2. DropOf(m).proxy.name = m /\ AddOf(e).proxy = e BY AddAndDrop
    <3>3. m \in Names(files) => e.name = m BY EntryOf
    <3>4. m \notin Names(files) => q[k] = <<DropOf(m)>> BY <1>2, ChangesAre
    <3> HIDE DEF e, m
    <3>5. CASE q[k] = <<DropOf(m)>> BY <3>2, <3>5 DEF m
    <3>6. CASE m \in Names(files) /\ q[k] = <<AddOf(e)>> BY <3>2, <3>3, <3>6 DEF m
    <3>7. CASE q[k] = <<>> BY <3>7
    <3>8. CASE m \in Names(files) /\ q[k] = <<DropOf(m), AddOf(e)>> BY <3>2, <3>3, <3>8 DEF m
    <3>9. QED BY <3>1, <3>4, <3>5, <3>6, <3>7, <3>8
  <2>2. QED BY <2>1
<1>5. ASSUME NEW j \in 1..Len(d), d[j].proxy.name = n
      PROVE  \E k \in 1..Len(names) : names[k] = n /\ \E i \in 1..Len(q[k]) : j = start[k] + i
  <2>1. PICK k \in 1..Len(names) : \E i \in 1..Len(q[k]) : j = start[k] + i
    BY <1>3 DEF PartsAt
  <2>2. PICK i \in 1..Len(q[k]) : j = start[k] + i BY <2>1
  <2>3. d[j] = q[k][i] BY <1>3, <2>2 DEF PartsAt
  <2>4. names[k] = n BY <1>4, <1>5, <2>3
  <2>5. QED BY <2>2, <2>4
<1>6. CASE n \in Names(dynamic_proxies[c]) \union Names(files)
  <2>1. PICK k \in 1..Len(names) : names[k] = n BY <1>1, <1>6
  <2>2. q[k] = b BY <1>2, <2>1
  <2>3. /\ start[k] \in Nat /\ start[k] + Len(b) <= Len(d)
        /\ \A i \in 1..Len(b) : d[start[k] + i] = b[i]
    BY <1>3, <2>2 DEF PartsAt
  <2>4. \A j \in 1..Len(d) : d[j].proxy.name = n => \E i \in 1..Len(b) : j = start[k] + i
    BY <1>1, <1>5, <2>1, <2>2
  <2>5. Len(b) \in Nat /\ Len(d) \in Nat
    <3>1. b \in {<<DropOf(n)>>, <<AddOf(Entry(files, n))>>, <<>>,
                 <<DropOf(n), AddOf(Entry(files, n))>>}
      BY ChangesAre
    <3> HIDE DEF b
    <3>2. QED BY <1>3, <3>1
  <2> HIDE DEF b
  <2>6. \A i \in 1..Len(b) : start[k] + i \in 1..Len(d) BY <2>3, <2>5
  <2>7. QED BY <1>6, <2>3, <2>4, <2>6 DEF b, d
<1>7. CASE n \notin Names(dynamic_proxies[c]) \union Names(files)
  <2>1. \A j \in 1..Len(d) : d[j].proxy.name # n BY <1>1, <1>5, <1>7
  <2>2. QED BY <1>7, <2>1 DEF d
<1>8. QED BY <1>6, <1>7

\* Where the difference registers and removes the proxy of name n.
LEMMA DiffPlaces ==
  ASSUME NEW c \in Clients, NEW files \in Directories(c), dynamic_proxies[c] \in Directories(c),
         NEW n
  PROVE  LET d   == Diff(c, files)
             old == dynamic_proxies[c]
         IN  \/ Adds(d, n) = {} /\ Drops(d, n) = {} /\ n \notin Names(old) \union Names(files)
             \/ /\ Adds(d, n) = {} /\ Drops(d, n) # {}
                /\ n \in Names(old) /\ n \notin Names(files)
             \/ /\ \E i : Adds(d, n) = {i} /\ d[i].proxy = Entry(files, n)
                /\ Drops(d, n) = {} /\ n \in Names(files) /\ n \notin Names(old)
             \/ /\ Adds(d, n) = {} /\ Drops(d, n) = {}
                /\ n \in Names(files) /\ n \in Names(old)
                /\ Same(Entry(files, n), Entry(old, n))
             \/ /\ \E k \in Nat : /\ Drops(d, n) = {k} /\ Adds(d, n) = {k + 1}
                                  /\ d[k + 1].proxy = Entry(files, n)
                /\ n \in Names(files) /\ n \in Names(old)
<1> DEFINE d == Diff(c, files)
           old == dynamic_proxies[c]
           b == Changes(c, files, n)
           e == Entry(files, n)
<1>1. /\ n \notin Names(files) => b = <<DropOf(n)>>
      /\ n \in Names(files) /\ n \notin Names(old) => b = <<AddOf(e)>>
      /\ n \in Names(files) /\ n \in Names(old) =>
           IF Same(e, Entry(old, n)) THEN b = <<>> ELSE b = <<DropOf(n), AddOf(e)>>
  BY ChangesAre
<1>2. /\ AddOf(e).type = "register" /\ AddOf(e).proxy = e
      /\ DropOf(n).type = "unregister" /\ DropOf(n).proxy.name = n
      /\ n \in Names(files) => e.name = n
  BY AddAndDrop, EntryOf
<1>3. IF n \in Names(old) \union Names(files)
      THEN \E o \in Nat :
             /\ \A i \in 1..Len(b) : o + i \in 1..Len(d) /\ d[o + i] = b[i]
             /\ \A j \in 1..Len(d) : d[j].proxy.name = n => \E i \in 1..Len(b) : j = o + i
      ELSE \A j \in 1..Len(d) : d[j].proxy.name # n
  BY DiffOfName
<1> HIDE DEF d, old, b, e
<1>4. CASE n \notin Names(old) \union Names(files)
  BY <1>3, <1>4 DEF Adds, Drops, d, old
<1>5. CASE n \in Names(old) \union Names(files)
  <2>1. PICK o \in Nat :
             /\ \A i \in 1..Len(b) : o + i \in 1..Len(d) /\ d[o + i] = b[i]
             /\ \A j \in 1..Len(d) : d[j].proxy.name = n => \E i \in 1..Len(b) : j = o + i
    BY <1>3, <1>5
  <2>2. CASE n \notin Names(files)
    <3>1. Len(b) = 1 /\ b[1] = DropOf(n) BY <1>1, <2>2
    <3>2. o + 1 \in 1..Len(d) /\ d[o + 1] = DropOf(n) BY <2>1, <3>1
    <3>3. \A j \in 1..Len(d) : d[j].proxy.name = n => j = o + 1 BY <2>1, <3>1
    <3>4. Adds(d, n) = {} /\ o + 1 \in Drops(d, n) BY <1>2, <3>2, <3>3 DEF Adds, Drops
    <3>5. QED BY <1>5, <2>2, <3>4 DEF d, old
  <2>3. CASE n \in Names(files) /\ n \notin Names(old)
    <3>1. Len(b) = 1 /\ b[1] = AddOf(e) BY <1>1, <2>3
    <3>2. o + 1 \in 1..Len(d) /\ d[o + 1] = AddOf(e) BY <2>1, <3>1
    <3>3. \A j \in 1..Len(d) : d[j].proxy.name = n => j = o + 1 BY <2>1, <3>1
    <3>4. /\ Adds(d, n) = {o + 1} /\ Drops(d, n) = {} /\ d[o + 1].proxy = e
      BY <1>2, <2>3, <3>2, <3>3 DEF Adds, Drops
    <3>5. QED BY <2>3, <3>4 DEF d, old, e
  <2>4. CASE n \in Names(files) /\ n \in Names(old) /\ Same(e, Entry(old, n))
    <3>1. Len(b) = 0 BY <1>1, <2>4
    <3>2. \A j \in 1..Len(d) : d[j].proxy.name # n BY <2>1, <3>1
    <3>3. Adds(d, n) = {} /\ Drops(d, n) = {} BY <3>2 DEF Adds, Drops
    <3>4. QED BY <2>4, <3>3 DEF d, old, e
  <2>5. CASE n \in Names(files) /\ n \in Names(old) /\ ~Same(e, Entry(old, n))
    <3>1. Len(b) = 2 /\ b[1] = DropOf(n) /\ b[2] = AddOf(e) BY <1>1, <2>5
    <3>2. /\ o + 1 \in 1..Len(d) /\ d[o + 1] = DropOf(n)
          /\ o + 2 \in 1..Len(d) /\ d[o + 2] = AddOf(e)
      BY <2>1, <3>1
    <3>3. \A j \in 1..Len(d) : d[j].proxy.name = n => j \in {o + 1, o + 2} BY <2>1, <3>1
    <3>4. /\ Drops(d, n) = {o + 1} /\ Adds(d, n) = {o + 2} /\ d[o + 2].proxy = e
      BY <1>2, <2>5, <3>2, <3>3 DEF Adds, Drops
    <3>5. o + 1 \in Nat /\ o + 2 = (o + 1) + 1 OBVIOUS
    <3>6. \E k \in Nat : Drops(d, n) = {k} /\ Adds(d, n) = {k + 1} /\ d[k + 1].proxy = e
      BY <3>4, <3>5
    <3>7. QED BY <2>5, <3>6 DEF d, old, e
  <2>6. QED BY <2>2, <2>3, <2>4, <2>5
<1>6. QED BY <1>4, <1>5

\* What the difference does to the proxies of the old directory and for those of
\* the new one: each name is registered at most once, after its removal if the
\* old directory has it; what is no longer there is removed; and what is new is
\* registered and not removed after it.
LEMMA DiffOrder ==
  ASSUME NEW c \in Clients, NEW files \in Directories(c), dynamic_proxies[c] \in Directories(c)
  PROVE  LET d   == Diff(c, files)
             old == dynamic_proxies[c]
         IN  /\ d \in Seq(PlainMessages)
             /\ \A j \in 1..Len(d) :
                  \/ d[j].type = "register" /\ d[j].proxy \in files
                  \/ d[j].type = "unregister" /\ d[j].proxy.name \in Names(old)
             /\ \A n : \A i, j \in Adds(d, n) : i = j
             /\ \A n : \A j \in Adds(d, n) : n \in Names(old) => \E k \in Drops(d, n) : k < j
             /\ \A p \in old : Drops(d, p.name) # {} \/ \E r \in files : Same(r, p)
             /\ \A p \in files :
                  \/ \E i \in Adds(d, p.name) : /\ d[i].proxy = p
                                                /\ \A k \in Drops(d, p.name) : k < i
                  \/ Drops(d, p.name) = {} /\ \E r \in old : Same(r, p)
<1> DEFINE d == Diff(c, files)
           old == dynamic_proxies[c]
<1>1. d \in Seq(PlainMessages)
  <2>1. files \in SUBSET ConfFiles[c] /\ old \in SUBSET ConfFiles[c] BY ProxiesTyped
  <2>2. QED BY <2>1, DiffPlain
<1>2. ASSUME NEW n
      PROVE  \/ Adds(d, n) = {} /\ Drops(d, n) = {} /\ n \notin Names(old) \union Names(files)
             \/ /\ Adds(d, n) = {} /\ Drops(d, n) # {}
                /\ n \in Names(old) /\ n \notin Names(files)
             \/ /\ \E i : Adds(d, n) = {i} /\ d[i].proxy = Entry(files, n)
                /\ Drops(d, n) = {} /\ n \in Names(files) /\ n \notin Names(old)
             \/ /\ Adds(d, n) = {} /\ Drops(d, n) = {}
                /\ n \in Names(files) /\ n \in Names(old)
                /\ Same(Entry(files, n), Entry(old, n))
             \/ /\ \E k \in Nat : /\ Drops(d, n) = {k} /\ Adds(d, n) = {k + 1}
                                  /\ d[k + 1].proxy = Entry(files, n)
                /\ n \in Names(files) /\ n \in Names(old)
  BY DiffPlaces
<1>3. /\ \A p \in files : Entry(files, p.name) = p /\ p.name \in Names(files)
      /\ \A p \in old : Entry(old, p.name) = p /\ p.name \in Names(old)
      /\ \A n \in Names(files) : Entry(files, n) \in files
      /\ \A n \in Names(old) : Entry(old, n) \in old
  BY EntryOf
<1> HIDE DEF d, old
<1>4. ASSUME NEW j \in 1..Len(d)
      PROVE  \/ d[j].type = "register" /\ d[j].proxy \in files
             \/ d[j].type = "unregister" /\ d[j].proxy.name \in Names(old)
  <2> DEFINE n == d[j].proxy.name
  <2>1. d[j] \in PlainMessages BY <1>1
  <2>2. d[j].type \in {"register", "unregister"}
    BY <2>1 DEF PlainMessages, Registrations, Removals
  <2>3. CASE d[j].type = "register"
    <3>1. j \in Adds(d, n) BY <2>3 DEF Adds
    <3> HIDE DEF n
    <3>2. d[j].proxy = Entry(files, n) /\ n \in Names(files) BY <1>2, <3>1
    <3>3. QED BY <1>3, <2>3, <3>2
  <2>4. CASE d[j].type = "unregister"
    <3>1. j \in Drops(d, n) BY <2>4 DEF Drops
    <3> HIDE DEF n
    <3>2. n \in Names(old) BY <1>2, <3>1
    <3>3. QED BY <2>4, <3>2 DEF n
  <2>5. QED BY <2>2, <2>3, <2>4
<1>5. ASSUME NEW n, NEW i \in Adds(d, n), NEW j \in Adds(d, n) PROVE i = j BY <1>2
<1>6. ASSUME NEW n, NEW j \in Adds(d, n), n \in Names(old) PROVE \E k \in Drops(d, n) : k < j
  <2>1. PICK k \in Nat : Drops(d, n) = {k} /\ Adds(d, n) = {k + 1} BY <1>2, <1>6
  <2>2. k < j BY <2>1
  <2>3. QED BY <2>1, <2>2
<1>7. ASSUME NEW p \in old PROVE Drops(d, p.name) # {} \/ \E r \in files : Same(r, p)
  <2>1. p.name \in Names(old) /\ Entry(old, p.name) = p BY <1>3
  <2>2. Drops(d, p.name) # {} \/ (/\ p.name \in Names(files)
                                  /\ Same(Entry(files, p.name), p))
    BY <1>2, <2>1
  <2>3. QED BY <1>3, <2>2
<1>8. ASSUME NEW p \in files
      PROVE  \/ \E i \in Adds(d, p.name) : /\ d[i].proxy = p
                                           /\ \A k \in Drops(d, p.name) : k < i
             \/ Drops(d, p.name) = {} /\ \E r \in old : Same(r, p)
  <2> DEFINE n == p.name
  <2>1. n \in Names(files) /\ Entry(files, n) = p BY <1>3
  <2> HIDE DEF n
  <2>2. CASE \E i : Adds(d, n) = {i} /\ d[i].proxy = p /\ Drops(d, n) = {}
    BY <2>2 DEF n
  <2>3. CASE Drops(d, n) = {} /\ n \in Names(old) /\ Same(p, Entry(old, n))
    <3>1. Same(Entry(old, n), p) /\ Entry(old, n) \in old BY <1>3, <2>3 DEF Same
    <3>2. QED BY <2>3, <3>1 DEF n
  <2>4. CASE \E k \in Nat : Drops(d, n) = {k} /\ Adds(d, n) = {k + 1} /\ d[k + 1].proxy = p
    <3>1. PICK k \in Nat : Drops(d, n) = {k} /\ Adds(d, n) = {k + 1} /\ d[k + 1].proxy = p
      BY <2>4
    <3>2. k < k + 1 OBVIOUS
    <3>3. QED BY <3>1, <3>2 DEF n
  <2>5. QED BY <1>2, <2>1, <2>2, <2>3, <2>4
<1>9. QED BY <1>1, <1>4, <1>5, <1>6, <1>7, <1>8 DEF d, old

-----------------------------------------------------------------------------
(* Client and server agree: the invariant.                                   *)

\* Where listeners L have one of name n.
At(L, n) == {x \in 1..Len(L) : L[x].name = n}

\* What waits in queue q, and the listeners L there are, for a name n of the
\* directory d that the client has reported.  A registration finds no listener
\* of that name, for a removal comes before it if there is one, or if there is
\* an earlier registration.  And what is registered, or waits to be, is in the
\* directory unless its removal is on the way.
Ordered(q, L, d, n) ==
  /\ \A i, j \in Adds(q, n) : i < j => \E k \in Drops(q, n) : i < k /\ k < j
  /\ \A x \in At(L, n), j \in Adds(q, n) : \E k \in Drops(q, n) : k < j
  /\ \A i \in Adds(q, n) :
       (\E k \in Drops(q, n) : i < k) \/ \E p \in d : Same(p, q[i].proxy)
  /\ \A x \in At(L, n) : Drops(q, n) # {} \/ \E p \in d : Same(p, L[x])
  /\ \A x, y \in At(L, n) : x = y

\* The last word of queue q on the name of p is to register it.
Coming(q, p) ==
  \E i \in Adds(q, p.name) : /\ Same(q[i].proxy, p)
                             /\ \A k \in Drops(q, p.name) : k < i

\* It is, or p has been handled and stays.
Promised(q, p, handled) ==
  Coming(q, p) \/ (handled /\ Drops(q, p.name) = {})

\* The handlers on strand r that handle a message, and what session s has still
\* to handle: the message that was read, and those on the wire.
Held(r) == {i \in 1..Len(r) : r[i].run = "message"}

PendingOf(r, w) ==
  IF Held(r) = {} THEN w ELSE <<r[CHOOSE i \in Held(r) : TRUE].msg>> \o w

Pending(s) == PendingOf(strand[s], wire[s])

\* A session reads a message when it has handled the one before: its strand r
\* has at most one, and none while it reads, or will read after its Stop.
InTurn(r, read, after) ==
  /\ \A i, j \in Held(r) : i = j
  /\ read \/ after = "reads" => Held(r) = {}
  /\ after = "reads" => ~read

\* So does each session; one that is not connected yet has no listener.
ReadInv ==
  \A s \in Sessions :
    /\ InTurn(strand[s], reading[s], stopping[s])
    /\ transport[s] \in {"none", "handshaking"} => proxies[s] = <<>>

\* The types of the history.
PastTyped ==
  /\ failed \in [Sessions -> SUBSET Proxies]
  /\ answered \in [Clients -> BOOLEAN] /\ held \in [Clients -> SUBSET Proxies]

\* Queue q and listeners L are those of client c.
Known(c, q, L) ==
  /\ \A i \in 1..Len(q) :
       \/ q[i].type = "login"
       \/ q[i].type = "register" /\ q[i].proxy \in Range(Static[c]) \union ConfFiles[c]
       \/ q[i].type = "unregister" /\ q[i].proxy.name \in Names(ConfFiles[c])
  /\ \A x \in 1..Len(L) : /\ L[x] \in Range(Static[c]) \union ConfFiles[c]
                          /\ L[x].type # "http"

\* The client is connected to session s.
Linked(c, s) == control_stream[c] = s /\ transport[s] = "up" /\ NamesApart(c)

\* Once the session has handled what waits, client and server agree.
Agree(c, s) ==
  /\ Known(c, Pending(s), proxies[s])
  /\ \A n \in Names(ConfFiles[c]) :
       Ordered(Pending(s), proxies[s], dynamic_proxies[c], n)
  /\ \A p \in dynamic_proxies[c] \ held[c] : Promised(Pending(s), p, Handled(s, p))
  /\ answered[c] => \A p \in Range(Static[c]) :
       Handled(s, p) \/ \E i \in Adds(Pending(s), p.name) : Same(Pending(s)[i].proxy, p)

AgreeInv ==
  /\ PastTyped /\ ReadInv
  /\ \A c \in Clients, s \in Sessions : Linked(c, s) => Agree(c, s)

-----------------------------------------------------------------------------
(* A queue loses its head, or another one joins it.                          *)

\* To be the same is an equivalence, and the same proxies have the same name.
LEMMA SameIsEquivalence ==
  /\ \A p : Same(p, p)
  /\ \A p, q : Same(p, q) => Same(q, p) /\ p.name = q.name
  /\ \A p, q, r : Same(p, q) /\ Same(q, r) => Same(p, r)
BY DEF Same

\* The places in a queue are numbers.
LEMMA Places ==
  ASSUME NEW q \in Seq(Messages), NEW n
  PROVE  /\ Adds(q, n) \subseteq Nat /\ Drops(q, n) \subseteq Nat
         /\ \A i \in Adds(q, n) \union Drops(q, n) : i >= 1 /\ i <= Len(q)
         /\ Len(q) \in Nat
<1>1. Len(q) \in Nat OBVIOUS
<1>2. QED BY <1>1 DEF Adds, Drops

\* The places in a queue that loses its head.
LEMMA TailPlaces ==
  ASSUME NEW q \in Seq(Messages), q # <<>>, NEW n
  PROVE  /\ \A i \in Nat : /\ i \in Adds(Tail(q), n) <=> i # 0 /\ i + 1 \in Adds(q, n)
                           /\ i \in Drops(Tail(q), n) <=> i # 0 /\ i + 1 \in Drops(q, n)
         /\ \A i \in Adds(Tail(q), n) : Tail(q)[i] = q[i + 1]
         /\ \A i \in Adds(q, n) : i = 1 \/ (i - 1 \in Adds(Tail(q), n) /\ Tail(q)[i - 1] = q[i])
         /\ \A i \in Drops(q, n) : i = 1 \/ i - 1 \in Drops(Tail(q), n)
         /\ Tail(q) \in Seq(Messages)
<1> DEFINE r == Tail(q)
<1>1. /\ r \in Seq(Messages) /\ Len(q) \in Nat /\ Len(q) >= 1 /\ Len(r) = Len(q) - 1
      /\ \A i \in 1..Len(r) : r[i] = q[i + 1]
  OBVIOUS
<1> HIDE DEF r
<1>2. \A i \in Nat : i \in 1..Len(r) <=> i # 0 /\ i + 1 \in 1..Len(q) BY <1>1
<1>3. \A i \in Nat : /\ i \in Adds(r, n) <=> i # 0 /\ i + 1 \in Adds(q, n)
                     /\ i \in Drops(r, n) <=> i # 0 /\ i + 1 \in Drops(q, n)
  BY <1>1, <1>2 DEF Adds, Drops
<1>4. \A i \in Adds(r, n) : r[i] = q[i + 1] BY <1>1 DEF Adds
<1>5. \A i \in 1..Len(q) : i = 1 \/ (i - 1 \in Nat /\ i - 1 # 0 /\ (i - 1) + 1 = i)
  BY <1>1
<1>6. ASSUME NEW i \in Adds(q, n), i # 1 PROVE i - 1 \in Adds(r, n) /\ r[i - 1] = q[i]
  <2>1. i \in 1..Len(q) BY DEF Adds
  <2>2. i - 1 \in Adds(r, n) /\ (i - 1) + 1 = i BY <1>3, <1>5, <1>6, <2>1
  <2>3. QED BY <1>4, <2>2
<1>7. ASSUME NEW i \in Drops(q, n), i # 1 PROVE i - 1 \in Drops(r, n)
  <2>1. i \in 1..Len(q) BY DEF Drops
  <2>2. QED BY <1>3, <1>5, <1>7, <2>1
<1>8. QED BY <1>1, <1>3, <1>4, <1>6, <1>7 DEF r

\* The places in a queue that another one joins.
LEMMA JoinPlaces ==
  ASSUME NEW q \in Seq(Messages), NEW r \in Seq(Messages), NEW n
  PROVE  /\ q \o r \in Seq(Messages)
         /\ \A i \in Adds(q, n) : i \in Adds(q \o r, n) /\ (q \o r)[i] = q[i]
         /\ \A i \in Drops(q, n) : i \in Drops(q \o r, n)
         /\ \A i \in Adds(r, n) : /\ Len(q) + i \in Adds(q \o r, n)
                                  /\ (q \o r)[Len(q) + i] = r[i]
         /\ \A i \in Drops(r, n) : Len(q) + i \in Drops(q \o r, n)
         /\ \A i \in Adds(q \o r, n) : i \in Adds(q, n) \/ \E j \in Adds(r, n) : i = Len(q) + j
         /\ \A i \in Drops(q \o r, n) : i \in Drops(q, n) \/ \E j \in Drops(r, n) : i = Len(q) + j
<1> DEFINE t == q \o r
<1>1. /\ t \in Seq(Messages) /\ Len(q) \in Nat /\ Len(r) \in Nat /\ Len(t) = Len(q) + Len(r)
      /\ \A i \in 1..Len(q) : t[i] = q[i]
      /\ \A i \in 1..Len(r) : t[Len(q) + i] = r[i]
  OBVIOUS
<1> HIDE DEF t
<1>2. /\ \A i \in 1..Len(q) : i \in 1..Len(t)
      /\ \A i \in 1..Len(r) : Len(q) + i \in 1..Len(t)
      /\ \A i \in 1..Len(t) : \/ i \in 1..Len(q)
                              \/ i - Len(q) \in 1..Len(r) /\ i = Len(q) + (i - Len(q))
  BY <1>1
<1>3. \A i \in Adds(q, n) : i \in Adds(t, n) /\ t[i] = q[i] BY <1>1, <1>2 DEF Adds
<1>4. \A i \in Drops(q, n) : i \in Drops(t, n) BY <1>1, <1>2 DEF Drops
<1>5. \A i \in Adds(r, n) : Len(q) + i \in Adds(t, n) /\ t[Len(q) + i] = r[i]
  BY <1>1, <1>2 DEF Adds
<1>6. \A i \in Drops(r, n) : Len(q) + i \in Drops(t, n) BY <1>1, <1>2 DEF Drops
<1>7. ASSUME NEW i \in Adds(t, n)
      PROVE  i \in Adds(q, n) \/ \E j \in Adds(r, n) : i = Len(q) + j
  <2>1. i \in 1..Len(t) /\ t[i].type = "register" /\ t[i].proxy.name = n BY DEF Adds
  <2>2. CASE i \in 1..Len(q) BY <1>1, <2>1, <2>2 DEF Adds
  <2>3. CASE i \notin 1..Len(q)
    <3> DEFINE j == i - Len(q)
    <3>1. j \in 1..Len(r) /\ i = Len(q) + j BY <1>2, <2>1, <2>3
    <3> HIDE DEF j
    <3>2. t[i] = r[j] BY <1>1, <3>1
    <3>3. j \in Adds(r, n) BY <2>1, <3>1, <3>2 DEF Adds
    <3>4. QED BY <3>1, <3>3
  <2>4. QED BY <2>2, <2>3
<1>8. ASSUME NEW i \in Drops(t, n)
      PROVE  i \in Drops(q, n) \/ \E j \in Drops(r, n) : i = Len(q) + j
  <2>1. i \in 1..Len(t) /\ t[i].type = "unregister" /\ t[i].proxy.name = n BY DEF Drops
  <2>2. CASE i \in 1..Len(q) BY <1>1, <2>1, <2>2 DEF Drops
  <2>3. CASE i \notin 1..Len(q)
    <3> DEFINE j == i - Len(q)
    <3>1. j \in 1..Len(r) /\ i = Len(q) + j BY <1>2, <2>1, <2>3
    <3> HIDE DEF j
    <3>2. t[i] = r[j] BY <1>1, <3>1
    <3>3. j \in Drops(r, n) BY <2>1, <3>1, <3>2 DEF Drops
    <3>4. QED BY <3>1, <3>3
  <2>4. QED BY <2>2, <2>3
<1>9. QED BY <1>1, <1>3, <1>4, <1>5, <1>6, <1>7, <1>8 DEF t

\* Other listeners of the name make no difference if there are fewer of them.
LEMMA OrderedLess ==
  ASSUME NEW q, NEW L, NEW M, NEW d, NEW n, Ordered(q, L, d, n),
         \A x \in At(M, n) : \E y \in At(L, n) : M[x] = L[y],
         \A x, y \in At(M, n) : x = y
  PROVE  Ordered(q, M, d, n)
<1>1. \A i, j \in Adds(q, n) : i < j => \E k \in Drops(q, n) : i < k /\ k < j
  BY DEF Ordered
<1>2. \A x \in At(M, n), j \in Adds(q, n) : \E k \in Drops(q, n) : k < j
  <2>1. ASSUME NEW x \in At(M, n), NEW j \in Adds(q, n) PROVE \E k \in Drops(q, n) : k < j
    <3>1. PICK y \in At(L, n) : M[x] = L[y] OBVIOUS
    <3>2. QED BY <3>1 DEF Ordered
  <2>2. QED BY <2>1
<1>3. \A i \in Adds(q, n) :
        (\E k \in Drops(q, n) : i < k) \/ \E p \in d : Same(p, q[i].proxy)
  BY DEF Ordered
<1>4. \A x \in At(M, n) : Drops(q, n) # {} \/ \E p \in d : Same(p, M[x])
  <2>1. ASSUME NEW x \in At(M, n) PROVE Drops(q, n) # {} \/ \E p \in d : Same(p, M[x])
    <3>1. PICK y \in At(L, n) : M[x] = L[y] OBVIOUS
    <3>2. Drops(q, n) # {} \/ \E p \in d : Same(p, L[y]) BY DEF Ordered
    <3>3. QED BY <3>1, <3>2
  <2>2. QED BY <2>1
<1>5. QED BY <1>1, <1>2, <1>3, <1>4 DEF Ordered

\* What two messages of a queue say of a name that are left when its head goes.
LEMMA OrderedTail ==
  ASSUME NEW q \in Seq(Messages), q # <<>>, NEW L, NEW d, NEW n, Ordered(q, L, d, n)
  PROVE  LET r == Tail(q)
         IN  /\ \A i, j \in Adds(r, n) : i < j => \E k \in Drops(r, n) : i < k /\ k < j
             /\ \A i \in Adds(r, n) :
                  (\E k \in Drops(r, n) : i < k) \/ \E p \in d : Same(p, r[i].proxy)
<1> DEFINE r == Tail(q)
<1>1. /\ \A i \in Nat : /\ i \in Adds(r, n) <=> i # 0 /\ i + 1 \in Adds(q, n)
                        /\ i \in Drops(r, n) <=> i # 0 /\ i + 1 \in Drops(q, n)
      /\ \A i \in Adds(r, n) : r[i] = q[i + 1]
      /\ \A i \in Drops(q, n) : i = 1 \/ i - 1 \in Drops(r, n)
      /\ r \in Seq(Messages)
  BY TailPlaces
<1>2. /\ Adds(r, n) \subseteq Nat /\ Drops(r, n) \subseteq Nat
      /\ \A i \in Adds(r, n) \union Drops(r, n) : i >= 1
      /\ Adds(q, n) \subseteq Nat /\ Drops(q, n) \subseteq Nat
  BY <1>1, Places
<1> HIDE DEF r
<1>3. ASSUME NEW i \in Adds(r, n), NEW j \in Adds(r, n), i < j
      PROVE  \E k \in Drops(r, n) : i < k /\ k < j
  <2>1. i + 1 \in Adds(q, n) /\ j + 1 \in Adds(q, n) /\ i + 1 < j + 1 BY <1>1, <1>2, <1>3
  <2>2. PICK k \in Drops(q, n) : i + 1 < k /\ k < j + 1 BY <2>1 DEF Ordered
  <2>3. k # 1 /\ k \in Nat BY <1>2, <2>2
  <2>4. k - 1 \in Drops(r, n) BY <1>1, <2>3
  <2>5. i < k - 1 /\ k - 1 < j BY <1>2, <2>2, <2>3
  <2>6. QED BY <2>4, <2>5
<1>4. ASSUME NEW i \in Adds(r, n)
      PROVE  (\E k \in Drops(r, n) : i < k) \/ \E p \in d : Same(p, r[i].proxy)
  <2>1. i + 1 \in Adds(q, n) /\ r[i] = q[i + 1] BY <1>1, <1>2
  <2>2. CASE \E p \in d : Same(p, q[i + 1].proxy) BY <2>1, <2>2
  <2>3. CASE \E k \in Drops(q, n) : i + 1 < k
    <3>1. PICK k \in Drops(q, n) : i + 1 < k BY <2>3
    <3>2. k # 1 /\ k \in Nat BY <1>2, <3>1
    <3>3. k - 1 \in Drops(r, n) BY <1>1, <3>2
    <3>4. i < k - 1 BY <1>2, <3>1, <3>2
    <3>5. QED BY <3>3, <3>4
  <2>4. QED BY <2>1, <2>2, <2>3 DEF Ordered
<1>5. QED BY <1>3, <1>4 DEF r

\* The head is of another name.
LEMMA OrderedSkip ==
  ASSUME NEW q \in Seq(Messages), q # <<>>, NEW L, NEW d, NEW n, Ordered(q, L, d, n),
         1 \notin Adds(q, n), 1 \notin Drops(q, n)
  PROVE  Ordered(Tail(q), L, d, n)
<1> DEFINE r == Tail(q)
<1>1. /\ \A i \in Nat : /\ i \in Adds(r, n) <=> i # 0 /\ i + 1 \in Adds(q, n)
                        /\ i \in Drops(r, n) <=> i # 0 /\ i + 1 \in Drops(q, n)
      /\ \A i \in Drops(q, n) : i = 1 \/ i - 1 \in Drops(r, n)
      /\ r \in Seq(Messages)
  BY TailPlaces
<1>2. Adds(r, n) \subseteq Nat /\ Drops(q, n) \subseteq Nat BY <1>1, Places
<1>3. /\ \A i, j \in Adds(r, n) : i < j => \E k \in Drops(r, n) : i < k /\ k < j
      /\ \A i \in Adds(r, n) :
           (\E k \in Drops(r, n) : i < k) \/ \E p \in d : Same(p, r[i].proxy)
  BY OrderedTail
<1> HIDE DEF r
<1>4. ASSUME NEW x \in At(L, n), NEW j \in Adds(r, n) PROVE \E k \in Drops(r, n) : k < j
  <2>1. j + 1 \in Adds(q, n) BY <1>1, <1>2
  <2>2. PICK k \in Drops(q, n) : k < j + 1 BY <2>1 DEF Ordered
  <2>3. k - 1 \in Drops(r, n) /\ k - 1 < j BY <1>1, <1>2, <2>2
  <2>4. QED BY <2>3
<1>5. ASSUME NEW x \in At(L, n) PROVE Drops(r, n) # {} \/ \E p \in d : Same(p, L[x])
  <2>1. Drops(q, n) # {} => Drops(r, n) # {} BY <1>1
  <2>2. QED BY <2>1 DEF Ordered
<1>6. \A x, y \in At(L, n) : x = y BY DEF Ordered
<1>7. Ordered(r, L, d, n) BY <1>3, <1>4, <1>5, <1>6 DEF Ordered
<1>8. QED BY <1>7 DEF r

\* The head registers a proxy of the name: there is no listener, and there may be
\* one of this proxy afterwards.
LEMMA OrderedAdd ==
  ASSUME NEW q \in Seq(Messages), q # <<>>, NEW L, NEW d, NEW n, Ordered(q, L, d, n),
         1 \in Adds(q, n)
  PROVE  /\ At(L, n) = {}
         /\ \A M : /\ \A x \in At(M, n) : M[x] = q[1].proxy
                   /\ \A x, y \in At(M, n) : x = y
                   => Ordered(Tail(q), M, d, n)
<1> DEFINE r == Tail(q)
<1>1. /\ \A i \in Nat : /\ i \in Adds(r, n) <=> i # 0 /\ i + 1 \in Adds(q, n)
                        /\ i \in Drops(r, n) <=> i # 0 /\ i + 1 \in Drops(q, n)
      /\ \A i \in Drops(q, n) : i = 1 \/ i - 1 \in Drops(r, n)
      /\ r \in Seq(Messages)
  BY TailPlaces
<1>2. /\ Adds(r, n) \subseteq Nat /\ Drops(q, n) \subseteq Nat
      /\ \A i \in Drops(q, n) \union Adds(r, n) : i >= 1
  BY <1>1, Places
<1>3. /\ \A i, j \in Adds(r, n) : i < j => \E k \in Drops(r, n) : i < k /\ k < j
      /\ \A i \in Adds(r, n) :
           (\E k \in Drops(r, n) : i < k) \/ \E p \in d : Same(p, r[i].proxy)
  BY OrderedTail
<1> HIDE DEF r
<1>4. At(L, n) = {}
  <2>1. ASSUME NEW x \in At(L, n) PROVE FALSE
    <3>1. PICK k \in Drops(q, n) : k < 1 BY DEF Ordered
    <3>2. QED BY <1>2, <3>1
  <2>2. QED BY <2>1
<1>5. ASSUME NEW j \in Adds(r, n) PROVE \E k \in Drops(r, n) : k < j
  <2>1. j + 1 \in Adds(q, n) /\ 1 < j + 1 BY <1>1, <1>2
  <2>2. PICK k \in Drops(q, n) : 1 < k /\ k < j + 1 BY <2>1 DEF Ordered
  <2>3. k - 1 \in Drops(r, n) /\ k - 1 < j BY <1>1, <1>2, <2>2
  <2>4. QED BY <2>3
<1>6. Drops(r, n) # {} \/ \E p \in d : Same(p, q[1].proxy)
  <2>1. CASE \E p \in d : Same(p, q[1].proxy) BY <2>1
  <2>2. ASSUME NEW k \in Drops(q, n), 1 < k PROVE k - 1 \in Drops(r, n)
    BY <1>1, <1>2, <2>2
  <2>3. QED BY <2>1, <2>2 DEF Ordered
<1>7. ASSUME NEW M, \A x \in At(M, n) : M[x] = q[1].proxy, \A x, y \in At(M, n) : x = y
      PROVE  Ordered(r, M, d, n)
  <2>1. \A x \in At(M, n) : Drops(r, n) # {} \/ \E p \in d : Same(p, M[x]) BY <1>6, <1>7
  <2>2. \A x \in At(M, n), j \in Adds(r, n) : \E k \in Drops(r, n) : k < j BY <1>5
  <2>3. QED BY <1>3, <1>7, <2>1, <2>2 DEF Ordered
<1>8. QED BY <1>4, <1>7 DEF r

\* The head removes the listener of the name.
LEMMA OrderedDrop ==
  ASSUME NEW q \in Seq(Messages), q # <<>>, NEW L, NEW M, NEW d, NEW n, Ordered(q, L, d, n),
         At(M, n) = {}
  PROVE  Ordered(Tail(q), M, d, n)
<1> DEFINE r == Tail(q)
<1>1. /\ \A i, j \in Adds(r, n) : i < j => \E k \in Drops(r, n) : i < k /\ k < j
      /\ \A i \in Adds(r, n) :
           (\E k \in Drops(r, n) : i < k) \/ \E p \in d : Same(p, r[i].proxy)
  BY OrderedTail
<1> HIDE DEF r
<1>2. Ordered(r, M, d, n) BY <1>1 DEF Ordered
<1>3. QED BY <1>2 DEF r

\* A queue joins that reports a new directory.
LEMMA OrderedJoin ==
  ASSUME NEW q \in Seq(Messages), NEW r \in Seq(Messages), NEW L, NEW d, NEW e, NEW n,
         Ordered(q, L, d, n),
         \A i, j \in Adds(r, n) : i = j,
         \A j \in Adds(r, n) : n \in Names(d) => \E k \in Drops(r, n) : k < j,
         \A j \in Adds(r, n) : r[j].proxy \in e,
         \A p \in d : p.name = n => Drops(r, n) # {} \/ \E f \in e : Same(f, p)
  PROVE  Ordered(q \o r, L, e, n)
<1> DEFINE t == q \o r
           l == Len(q)
<1>1. /\ t \in Seq(Messages)
      /\ \A i \in Adds(q, n) : i \in Adds(t, n) /\ t[i] = q[i]
      /\ \A i \in Drops(q, n) : i \in Drops(t, n)
      /\ \A i \in Adds(r, n) : l + i \in Adds(t, n) /\ t[l + i] = r[i]
      /\ \A i \in Drops(r, n) : l + i \in Drops(t, n)
      /\ \A i \in Adds(t, n) : i \in Adds(q, n) \/ \E j \in Adds(r, n) : i = l + j
      /\ \A i \in Drops(t, n) : i \in Drops(q, n) \/ \E j \in Drops(r, n) : i = l + j
  BY JoinPlaces
<1>2. /\ Adds(q, n) \subseteq Nat /\ Drops(q, n) \subseteq Nat /\ l \in Nat
      /\ Adds(r, n) \subseteq Nat /\ Drops(r, n) \subseteq Nat
      /\ \A i \in Adds(q, n) \union Drops(q, n) : i <= l
      /\ \A i \in Adds(r, n) \union Drops(r, n) : i >= 1
  BY Places
<1> HIDE DEF t, l
<1>3. \A i \in Adds(q, n) : q[i].proxy.name = n BY DEF Adds
<1>4. \A x \in At(L, n) : L[x].name = n BY DEF At
<1>5. \A p : p.name = n /\ Drops(r, n) = {} /\ (\E o \in d : Same(o, p)) => \E f \in e : Same(f, p)
  <2>1. ASSUME NEW p, NEW o \in d, p.name = n, Drops(r, n) = {}, Same(o, p)
        PROVE  \E f \in e : Same(f, p)
    <3>1. o.name = n BY <2>1, SameIsEquivalence
    <3>2. PICK f \in e : Same(f, o) BY <2>1, <3>1
    <3>3. QED BY <2>1, <3>2, SameIsEquivalence
  <2>2. QED BY <2>1
<1>6. \A p : p.name = n /\ (\E o \in d : Same(o, p)) => n \in Names(d)
  BY SameIsEquivalence DEF Names
<1>7. ASSUME NEW i \in Adds(t, n), NEW j \in Adds(t, n), i < j
      PROVE  \E k \in Drops(t, n) : i < k /\ k < j
  <2>1. CASE i \in Adds(q, n) /\ j \in Adds(q, n) BY <1>1, <1>7, <2>1 DEF Ordered
  <2>2. ASSUME i \in Adds(q, n), NEW b \in Adds(r, n), j = l + b
        PROVE  \E k \in Drops(t, n) : i < k /\ k < j
    <3>1. ASSUME NEW k \in Drops(q, n), i < k PROVE \E m \in Drops(t, n) : i < m /\ m < j
      <4>1. k < j BY <1>2, <2>2
      <4>2. QED BY <1>1, <3>1, <4>1
    <3>2. ASSUME \E p \in d : Same(p, q[i].proxy) PROVE \E m \in Drops(t, n) : i < m /\ m < j
      <4>1. n \in Names(d) BY <1>3, <1>6, <2>2, <3>2
      <4>2. PICK k \in Drops(r, n) : k < b BY <4>1
      <4>3. i < l + k /\ l + k < j BY <1>2, <2>2, <4>2
      <4>4. QED BY <1>1, <4>3
    <3>3. QED BY <2>2, <3>1, <3>2 DEF Ordered
  <2>3. ASSUME NEW a \in Adds(r, n), NEW b \in Adds(r, n), i = l + a, j = l + b PROVE FALSE
    BY <1>2, <1>7, <2>3
  <2>4. ASSUME NEW a \in Adds(r, n), i = l + a, j \in Adds(q, n) PROVE FALSE
    BY <1>2, <1>7, <2>4
  <2>5. QED BY <1>1, <2>1, <2>2, <2>3, <2>4
<1>8. ASSUME NEW x \in At(L, n), NEW j \in Adds(t, n) PROVE \E k \in Drops(t, n) : k < j
  <2>1. CASE j \in Adds(q, n) BY <1>1, <2>1 DEF Ordered
  <2>2. ASSUME NEW b \in Adds(r, n), j = l + b PROVE \E k \in Drops(t, n) : k < j
    <3>1. ASSUME NEW k \in Drops(q, n) PROVE \E m \in Drops(t, n) : m < j
      <4>1. k < j BY <1>2, <2>2
      <4>2. QED BY <1>1, <4>1
    <3>2. ASSUME \E p \in d : Same(p, L[x]) PROVE \E m \in Drops(t, n) : m < j
      <4>1. n \in Names(d) BY <1>4, <1>6, <3>2
      <4>2. PICK k \in Drops(r, n) : k < b BY <4>1
      <4>3. l + k < j BY <1>2, <2>2, <4>2
      <4>4. QED BY <1>1, <4>3
    <3>3. QED BY <3>1, <3>2 DEF Ordered
  <2>3. QED BY <1>1, <2>1, <2>2
<1>9. ASSUME NEW i \in Adds(t, n)
      PROVE  (\E k \in Drops(t, n) : i < k) \/ \E p \in e : Same(p, t[i].proxy)
  <2>1. CASE i \in Adds(q, n)
    <3>1. t[i] = q[i] /\ q[i].proxy.name = n BY <1>1, <1>3, <2>1
    <3>2. CASE \E k \in Drops(q, n) : i < k BY <1>1, <3>2
    <3>3. CASE (\E p \in d : Same(p, q[i].proxy)) /\ Drops(r, n) = {}
      BY <1>5, <3>1, <3>3
    <3>4. ASSUME NEW k \in Drops(r, n) PROVE \E m \in Drops(t, n) : i < m
      <4>1. i < l + k BY <1>2, <2>1
      <4>2. QED BY <1>1, <4>1
    <3>5. QED BY <2>1, <3>2, <3>3, <3>4 DEF Ordered
  <2>2. ASSUME NEW b \in Adds(r, n), i = l + b PROVE \E p \in e : Same(p, t[i].proxy)
    BY <1>1, <2>2, SameIsEquivalence
  <2>3. QED BY <1>1, <2>1, <2>2
<1>10. ASSUME NEW x \in At(L, n)
       PROVE  Drops(t, n) # {} \/ \E p \in e : Same(p, L[x])
  <2>1. CASE Drops(q, n) # {} \/ Drops(r, n) # {} BY <1>1, <2>1
  <2>2. CASE (\E p \in d : Same(p, L[x])) /\ Drops(r, n) = {} BY <1>4, <1>5, <2>2
  <2>3. QED BY <2>1, <2>2 DEF Ordered
<1>11. \A x, y \in At(L, n) : x = y BY DEF Ordered
<1>12. Ordered(t, L, e, n) BY <1>7, <1>8, <1>9, <1>10, <1>11 DEF Ordered
<1>13. QED BY <1>12 DEF t

-----------------------------------------------------------------------------
(* What a queue promises, before and after.                                  *)

\* A promise stays when the head of the queue is handled: unless it is the
\* removal of p, and if it registers p, then p is handled now.
LEMMA PromiseTail ==
  ASSUME NEW q \in Seq(Messages), q # <<>>, NEW p, NEW g \in BOOLEAN, NEW h \in BOOLEAN,
         Promised(q, p, g),
         1 \in Adds(q, p.name) /\ Same(q[1].proxy, p) => h,
         1 \notin Drops(q, p.name) /\ g => h
  PROVE  Promised(Tail(q), p, h)
<1> DEFINE r == Tail(q)
           n == p.name
<1>1. /\ \A i \in Nat : /\ i \in Adds(r, n) <=> i # 0 /\ i + 1 \in Adds(q, n)
                        /\ i \in Drops(r, n) <=> i # 0 /\ i + 1 \in Drops(q, n)
      /\ \A i \in Adds(q, n) : i = 1 \/ (i - 1 \in Adds(r, n) /\ r[i - 1] = q[i])
      /\ r \in Seq(Messages)
  BY TailPlaces
<1>2. /\ Adds(q, n) \subseteq Nat /\ Drops(q, n) \subseteq Nat /\ Drops(r, n) \subseteq Nat
      /\ \A i \in Drops(r, n) : i >= 1
  BY <1>1, Places
<1> HIDE DEF r, n
<1>3. CASE g /\ Drops(q, n) = {}
  <2>1. Drops(r, n) = {} BY <1>1, <1>2, <1>3
  <2>2. h BY <1>3 DEF n
  <2>3. QED BY <2>1, <2>2 DEF Promised, r, n
<1>4. ASSUME NEW i \in Adds(q, n), Same(q[i].proxy, p), \A k \in Drops(q, n) : k < i
      PROVE  Promised(r, p, h)
  <2>1. CASE i = 1
    <3>1. ASSUME NEW k \in Drops(r, n) PROVE FALSE
      <4>1. k + 1 \in Drops(q, n) BY <1>1, <1>2
      <4>2. QED BY <1>2, <1>4, <2>1, <4>1
    <3>2. Drops(r, n) = {} BY <3>1
    <3>3. h BY <1>4, <2>1 DEF n
    <3>4. QED BY <3>2, <3>3 DEF Promised, n
  <2>2. CASE i # 1
    <3>1. i - 1 \in Adds(r, n) /\ r[i - 1] = q[i] BY <1>1, <2>2
    <3>2. ASSUME NEW k \in Drops(r, n) PROVE k < i - 1
      <4>1. k + 1 \in Drops(q, n) BY <1>1, <1>2
      <4>2. k + 1 < i BY <1>4, <4>1
      <4>3. QED BY <1>2, <4>2
    <3>3. Coming(r, p) BY <1>4, <3>1, <3>2 DEF Coming, n
    <3>4. QED BY <3>3 DEF Promised
  <2>3. QED BY <2>1, <2>2
<1>5. CASE Coming(q, p)
  <2>1. PICK i \in Adds(q, n) : Same(q[i].proxy, p) /\ \A k \in Drops(q, n) : k < i
    BY <1>5 DEF Coming, n
  <2>2. QED BY <1>4, <2>1 DEF r
<1>6. QED BY <1>3, <1>5 DEF Promised, n

\* A queue joins that keeps, or registers, the proxies of a new directory.
LEMMA PromiseJoin ==
  ASSUME NEW q \in Seq(Messages), NEW r \in Seq(Messages), NEW p,
         NEW g \in BOOLEAN, NEW o, NEW h \in BOOLEAN,
         \/ \E i \in Adds(r, p.name) : /\ Same(r[i].proxy, p)
                                       /\ \A k \in Drops(r, p.name) : k < i
         \/ Drops(r, p.name) = {} /\ Same(o, p) /\ Promised(q, o, g) /\ (g => h)
  PROVE  Promised(q \o r, p, h)
<1> DEFINE t == q \o r
           l == Len(q)
           n == p.name
<1>1. /\ t \in Seq(Messages)
      /\ \A i \in Adds(q, n) : i \in Adds(t, n) /\ t[i] = q[i]
      /\ \A i \in Drops(q, n) : i \in Drops(t, n)
      /\ \A i \in Adds(r, n) : l + i \in Adds(t, n) /\ t[l + i] = r[i]
      /\ \A i \in Drops(r, n) : l + i \in Drops(t, n)
      /\ \A i \in Adds(t, n) : i \in Adds(q, n) \/ \E j \in Adds(r, n) : i = l + j
      /\ \A i \in Drops(t, n) : i \in Drops(q, n) \/ \E j \in Drops(r, n) : i = l + j
  BY JoinPlaces
<1>2. /\ Adds(q, n) \subseteq Nat /\ Drops(q, n) \subseteq Nat /\ l \in Nat
      /\ Adds(r, n) \subseteq Nat /\ Drops(r, n) \subseteq Nat
      /\ \A i \in Adds(q, n) \union Drops(q, n) : i <= l
      /\ \A i \in Adds(r, n) \union Drops(r, n) : i >= 1
  BY Places
<1> HIDE DEF t, l, n
<1>3. CASE \E i \in Adds(r, n) : Same(r[i].proxy, p) /\ \A k \in Drops(r, n) : k < i
  <2>1. PICK i \in Adds(r, n) : Same(r[i].proxy, p) /\ \A k \in Drops(r, n) : k < i
    BY <1>3
  <2>2. l + i \in Adds(t, n) /\ Same(t[l + i].proxy, p) BY <1>1, <2>1
  <2>3. ASSUME NEW k \in Drops(t, n) PROVE k < l + i
    <3>1. CASE k \in Drops(q, n) BY <1>2, <3>1
    <3>2. ASSUME NEW j \in Drops(r, n), k = l + j PROVE k < l + i BY <1>2, <2>1, <3>2
    <3>3. QED BY <1>1, <3>1, <3>2
  <2>4. Coming(t, p) BY <2>2, <2>3 DEF Coming, n
  <2>5. QED BY <2>4 DEF Promised, t
<1>4. CASE Drops(r, n) = {} /\ Same(o, p) /\ Promised(q, o, g) /\ (g => h)
  <2>1. o.name = n BY <1>4, SameIsEquivalence DEF n
  <2>2. \A k \in Drops(t, n) : k \in Drops(q, n) BY <1>1, <1>4
  <2>3. CASE g /\ Drops(q, n) = {} BY <1>4, <2>2, <2>3 DEF Promised, t, n
  <2>4. CASE Coming(q, o)
    <3>1. PICK i \in Adds(q, n) : Same(q[i].proxy, o) /\ \A k \in Drops(q, n) : k < i
      BY <2>1, <2>4 DEF Coming
    <3>2. i \in Adds(t, n) /\ Same(t[i].proxy, p) BY <1>1, <1>4, <3>1, SameIsEquivalence
    <3>3. Coming(t, p) BY <2>2, <3>1, <3>2 DEF Coming, n
    <3>4. QED BY <3>3 DEF Promised, t
  <2>5. QED BY <1>4, <2>1, <2>3, <2>4 DEF Promised
<1>5. QED BY <1>3, <1>4 DEF n

\* The messages and listeners of a client stay its own.
LEMMA KnownTail ==
  ASSUME NEW c, NEW q \in Seq(Messages), q # <<>>, NEW L, NEW M, Known(c, q, L),
         \A x \in 1..Len(M) : \/ \E y \in 1..Len(L) : M[x] = L[y]
                              \/ /\ q[1].type = "register" /\ M[x] = q[1].proxy
                                 /\ M[x].type # "http"
  PROVE  Known(c, Tail(q), M)
<1> DEFINE r == Tail(q)
<1>1. /\ Len(q) \in Nat /\ Len(q) >= 1 /\ Len(r) = Len(q) - 1
      /\ \A i \in 1..Len(r) : r[i] = q[i + 1]
  OBVIOUS
<1>2. 1 \in 1..Len(q) /\ \A i \in 1..Len(r) : i + 1 \in 1..Len(q) BY <1>1
<1> HIDE DEF r
<1>3. ASSUME NEW i \in 1..Len(r)
      PROVE  \/ r[i].type = "login"
             \/ r[i].type = "register" /\ r[i].proxy \in Range(Static[c]) \union ConfFiles[c]
             \/ r[i].type = "unregister" /\ r[i].proxy.name \in Names(ConfFiles[c])
  BY <1>1, <1>2 DEF Known
<1>4. ASSUME NEW x \in 1..Len(M)
      PROVE  M[x] \in Range(Static[c]) \union ConfFiles[c] /\ M[x].type # "http"
  <2>1. CASE \E y \in 1..Len(L) : M[x] = L[y] BY <2>1 DEF Known
  <2>2. CASE q[1].type = "register" /\ M[x] = q[1].proxy /\ M[x].type # "http"
    BY <1>2, <2>2 DEF Known
  <2>3. QED BY <2>1, <2>2
<1>5. QED BY <1>3, <1>4 DEF Known, r

\* What is known of two queues is known of one after the other.
LEMMA KnownJoin ==
  ASSUME NEW c, NEW q \in Seq(Messages), NEW r \in Seq(Messages), NEW L,
         Known(c, q, L), Known(c, r, <<>>)
  PROVE  Known(c, q \o r, L)
<1> DEFINE t == q \o r
<1>1. /\ Len(q) \in Nat /\ Len(r) \in Nat /\ Len(t) = Len(q) + Len(r)
      /\ \A i \in 1..Len(q) : t[i] = q[i]
      /\ \A i \in 1..Len(r) : t[Len(q) + i] = r[i]
  OBVIOUS
<1> HIDE DEF t
<1>2. ASSUME NEW i \in 1..Len(t)
      PROVE  \/ t[i].type = "login"
             \/ t[i].type = "register" /\ t[i].proxy \in Range(Static[c]) \union ConfFiles[c]
             \/ t[i].type = "unregister" /\ t[i].proxy.name \in Names(ConfFiles[c])
  <2>1. CASE i \in 1..Len(q)
    <3>1. t[i] = q[i] BY <1>1, <2>1
    <3>2. QED BY <2>1, <3>1 DEF Known
  <2>2. CASE i \notin 1..Len(q)
    <3> DEFINE j == i - Len(q)
    <3>1. j \in 1..Len(r) /\ i = Len(q) + j BY <1>1, <2>2
    <3> HIDE DEF j
    <3>2. t[i] = r[j] BY <1>1, <3>1
    <3>3. QED BY <3>1, <3>2 DEF Known
  <2>3. QED BY <2>1, <2>2
<1>3. QED BY <1>2 DEF Known, t

\* A registration that was pending still is, or its proxy is handled.
LEMMA RegisteredTail ==
  ASSUME NEW q \in Seq(Messages), q # <<>>, NEW p, NEW g \in BOOLEAN, NEW h \in BOOLEAN,
         g \/ \E i \in Adds(q, p.name) : Same(q[i].proxy, p),
         1 \in Adds(q, p.name) /\ Same(q[1].proxy, p) => h,
         g => h
  PROVE  h \/ \E i \in Adds(Tail(q), p.name) : Same(Tail(q)[i].proxy, p)
<1>1. \A i \in Adds(q, p.name) :
        i = 1 \/ (i - 1 \in Adds(Tail(q), p.name) /\ Tail(q)[i - 1] = q[i])
  BY TailPlaces
<1>2. QED BY <1>1

-----------------------------------------------------------------------------
(* A listener joins, or leaves.                                              *)

\* A listener joins at the end; it is the only one of its name if there was none.
LEMMA ListenerJoins ==
  ASSUME NEW L \in Seq(Proxies), NEW p \in Proxies
  PROVE  LET M == Append(L, p)
         IN  /\ \A x \in 1..Len(M) : (\E y \in 1..Len(L) : M[x] = L[y]) \/ M[x] = p
             /\ \A y \in 1..Len(L) : \E x \in 1..Len(M) : M[x] = L[y]
             /\ \E x \in 1..Len(M) : M[x] = p
             /\ \A n : n # p.name => At(M, n) = At(L, n) /\ \A x \in At(M, n) : M[x] = L[x]
             /\ At(L, p.name) = {} => /\ \A x \in At(M, p.name) : M[x] = p
                                      /\ \A x, y \in At(M, p.name) : x = y
<1> DEFINE M == Append(L, p)
<1>1. /\ Len(L) \in Nat /\ Len(M) = Len(L) + 1 /\ M[Len(L) + 1] = p
      /\ \A x \in 1..Len(L) : x \in 1..Len(M) /\ M[x] = L[x]
      /\ Len(L) + 1 \in 1..Len(M)
      /\ \A x \in 1..Len(M) : x \in 1..Len(L) \/ x = Len(L) + 1
  OBVIOUS
<1> HIDE DEF M
<1>2. \A x \in 1..Len(M) : (\E y \in 1..Len(L) : M[x] = L[y]) \/ M[x] = p BY <1>1
<1>3. \A y \in 1..Len(L) : \E x \in 1..Len(M) : M[x] = L[y] BY <1>1
<1>4. \E x \in 1..Len(M) : M[x] = p BY <1>1
<1>5. ASSUME NEW n, n # p.name PROVE At(M, n) = At(L, n) /\ \A x \in At(M, n) : M[x] = L[x]
  <2>1. \A x : x \in At(M, n) <=> x \in At(L, n) BY <1>1, <1>5 DEF At
  <2>2. \A x \in At(L, n) : M[x] = L[x] BY <1>1 DEF At
  <2>3. QED BY <2>1, <2>2
<1>6. ASSUME At(L, p.name) = {}, NEW x \in At(M, p.name) PROVE x = Len(L) + 1 /\ M[x] = p
  <2>1. x \in 1..Len(M) /\ M[x].name = p.name BY DEF At
  <2>2. x \notin 1..Len(L) BY <1>1, <1>6, <2>1 DEF At
  <2>3. QED BY <1>1, <2>1, <2>2
<1>7. At(L, p.name) = {} => /\ \A x \in At(M, p.name) : M[x] = p
                            /\ \A x, y \in At(M, p.name) : x = y
  BY <1>6
<1>8. QED BY <1>2, <1>3, <1>4, <1>5, <1>7 DEF M

\* A sequence without its k-th element has the elements before and after it.
LEMMA WithoutPlaces ==
  ASSUME NEW Q, NEW L \in Seq(Q), NEW k \in 1..Len(L)
  PROVE  LET M == RemoveAt(L, k)
         IN  /\ Len(M) = Len(L) - 1
             /\ \A x \in 1..Len(M) : M[x] = IF x < k THEN L[x] ELSE L[x + 1]
<1> DEFINE a == SubSeq(L, 1, k - 1)
           b == SubSeq(L, k + 1, Len(L))
           M == RemoveAt(L, k)
<1>1. Len(L) \in Nat /\ k \in Nat /\ k >= 1 /\ k <= Len(L) OBVIOUS
<1>2. /\ a \in Seq(Q) /\ Len(a) = k - 1 /\ \A x \in 1..(k - 1) : a[x] = L[x]
  BY <1>1
<1>3. /\ b \in Seq(Q) /\ Len(b) = Len(L) - k
      /\ \A x \in 1..(Len(L) - k) : b[x] = L[k + x]
  BY <1>1
<1>4. M = a \o b BY DEF RemoveAt
<1> HIDE DEF a, b, M
<1>5. Len(M) = Len(L) - 1 BY <1>1, <1>2, <1>3, <1>4
<1>6. ASSUME NEW x \in 1..Len(M) PROVE M[x] = IF x < k THEN L[x] ELSE L[x + 1]
  <2>1. CASE x < k BY <1>1, <1>2, <1>3, <1>4, <1>5, <2>1
  <2>2. CASE ~(x < k)
    <3> DEFINE y == x - (k - 1)
    <3>1. y \in 1..(Len(L) - k) /\ k + y = x + 1 /\ x = Len(a) + y /\ y \in 1..Len(b)
      BY <1>1, <1>2, <1>3, <1>5, <2>2
    <3> HIDE DEF y
    <3>2. M[x] = b[y] BY <1>2, <1>3, <1>4, <3>1
    <3>3. b[y] = L[x + 1] BY <1>3, <3>1
    <3>4. QED BY <2>2, <3>2, <3>3
  <2>3. QED BY <2>1, <2>2
<1>7. QED BY <1>5, <1>6 DEF M

\* UnregisterProxy takes at most one listener, of that name; it takes the one
\* there is if no other has the name.
LEMMA ListenerLeaves ==
  ASSUME NEW s \in Sessions, NEW n, proxies[s] \in Seq(Proxies)
  PROVE  LET L == proxies[s]
             M == Unregistered(s, n)
         IN  /\ \A x \in 1..Len(M) : \E y \in 1..Len(L) : M[x] = L[y]
             /\ \A y \in 1..Len(L) : L[y].name # n => \E x \in 1..Len(M) : M[x] = L[y]
             /\ \A m : (\A x, y \in At(L, m) : x = y) => /\ \A x, y \in At(M, m) : x = y
                                                         /\ \A x \in At(M, m) :
                                                              \E y \in At(L, m) : M[x] = L[y]
             /\ (\A x \in 1..Len(L) : L[x].type # "http") /\ (\A x, y \in At(L, n) : x = y) =>
                  At(M, n) = {}
<1> DEFINE L == proxies[s]
           M == Unregistered(s, n)
           at(type) == {i \in 1..Len(L) : L[i].name = n /\ L[i].type = type}
           found == IF at("tcp") # {} THEN at("tcp") ELSE at("udp")
           k == CHOOSE i \in found : \A j \in found : i <= j
<1>1. M = IF found = {} THEN L ELSE RemoveAt(L, k) BY DEF Unregistered
<1>2. found \subseteq 1..Len(L) /\ (\A i \in found : L[i].name = n)
      /\ (found = {} => \A x \in At(L, n) : L[x].type # "tcp" /\ L[x].type # "udp")
  BY DEF At
<1>3. L \in Seq(Proxies) /\ Len(L) \in Nat /\ \A x \in 1..Len(L) : L[x] \in Proxies OBVIOUS
<1>4. \A p \in Proxies : p.type \in {"tcp", "udp", "http"} BY ProxiesTyped DEF AnyProxy
<1> HIDE DEF L, M, found, at
<1>5. CASE found = {}
  <2>1. M = L BY <1>1, <1>5
  <2>2. ASSUME \A x \in 1..Len(L) : L[x].type # "http" PROVE At(L, n) = {}
    BY <1>2, <1>3, <1>4, <1>5, <2>2 DEF At
  <2>3. QED BY <2>1, <2>2 DEF L, M
<1>6. CASE found # {}
  <2>1. found \subseteq Nat BY <1>2, <1>3
  <2>2. \E i \in found : \A j \in found : i <= j BY <1>6, <2>1, LeastNatural
  <2>3. k \in found BY <2>2
  <2> HIDE DEF k
  <2>4. k \in 1..Len(L) /\ L[k].name = n BY <1>2, <2>3
  <2>5. /\ Len(M) = Len(L) - 1
        /\ \A x \in 1..Len(M) : M[x] = IF x < k THEN L[x] ELSE L[x + 1]
    BY <1>1, <1>3, <1>6, <2>4, WithoutPlaces
  <2> DEFINE old(x) == IF x < k THEN x ELSE x + 1
  <2>6. ASSUME NEW x \in 1..Len(M)
        PROVE  old(x) \in 1..Len(L) /\ old(x) # k /\ M[x] = L[old(x)]
    BY <1>3, <2>4, <2>5
  <2>7. ASSUME NEW x \in 1..Len(M), NEW y \in 1..Len(M), old(x) = old(y) PROVE x = y
    <3>1. x \in Nat /\ y \in Nat /\ k \in Nat BY <1>3, <2>4, <2>5
    <3>2. CASE x < k /\ y < k BY <2>7, <3>2
    <3>3. CASE x < k /\ ~(y < k)
      <4>1. x = y + 1 BY <2>7, <3>3
      <4>2. QED BY <3>1, <3>3, <4>1
    <3>4. CASE ~(x < k) /\ y < k
      <4>1. x + 1 = y BY <2>7, <3>4
      <4>2. QED BY <3>1, <3>4, <4>1
    <3>5. CASE ~(x < k) /\ ~(y < k)
      <4>1. x + 1 = y + 1 BY <2>7, <3>5
      <4>2. QED BY <3>1, <4>1
    <3>6. QED BY <3>2, <3>3, <3>4, <3>5
  <2>8. ASSUME NEW y \in 1..Len(L), y # k PROVE \E x \in 1..Len(M) : M[x] = L[y]
    <3>1. CASE y < k
      <4>1. y \in 1..Len(M) BY <1>3, <2>4, <2>5, <3>1
      <4>2. QED BY <2>5, <3>1, <4>1
    <3>2. CASE ~(y < k)
      <4>1. y - 1 \in 1..Len(M) /\ ~(y - 1 < k) /\ (y - 1) + 1 = y
        BY <1>3, <2>4, <2>5, <2>8, <3>2
      <4>2. M[y - 1] = L[y] BY <2>5, <4>1
      <4>3. QED BY <4>1, <4>2
    <3>3. QED BY <3>1, <3>2
  <2> HIDE DEF old
  <2>9. \A x \in 1..Len(M) : \E y \in 1..Len(L) : M[x] = L[y] BY <2>6
  <2>10. \A y \in 1..Len(L) : L[y].name # n => \E x \in 1..Len(M) : M[x] = L[y]
    BY <2>4, <2>8
  <2>11. ASSUME NEW m, NEW x \in At(M, m) PROVE x \in 1..Len(M) /\ old(x) \in At(L, m)
    BY <2>6 DEF At
  <2>12. ASSUME NEW m, \A x, y \in At(L, m) : x = y
         PROVE  /\ \A x, y \in At(M, m) : x = y
                /\ \A x \in At(M, m) : \E y \in At(L, m) : M[x] = L[y]
    <3>1. \A x, y \in At(M, m) : x = y BY <2>7, <2>11, <2>12
    <3>2. \A x \in At(M, m) : \E y \in At(L, m) : M[x] = L[y] BY <2>6, <2>11
    <3>3. QED BY <3>1, <3>2
  <2>13. ASSUME \A x, y \in At(L, n) : x = y, NEW x \in At(M, n) PROVE FALSE
    <3>1. old(x) \in At(L, n) /\ old(x) # k BY <2>6, <2>11
    <3>2. k \in At(L, n) BY <2>4 DEF At
    <3>3. QED BY <2>13, <3>1, <3>2
  <2>14. QED BY <2>9, <2>10, <2>12, <2>13 DEF L, M
<1>7. QED BY <1>5, <1>6

-----------------------------------------------------------------------------
(* What a session has still to handle.                                       *)

\* Sequences are joined in any order.
LEMMA JoinsAssociate ==
  ASSUME NEW Q, NEW a \in Seq(Q), NEW b \in Seq(Q), NEW c \in Seq(Q)
  PROVE  a \o (b \o c) = (a \o b) \o c
<1> DEFINE x == a \o (b \o c)
           y == (a \o b) \o c
           u == a \o b
           v == b \o c
<1>1. /\ Len(a) \in Nat /\ Len(b) \in Nat /\ Len(c) \in Nat
      /\ u \in Seq(Q) /\ Len(u) = Len(a) + Len(b)
      /\ \A i \in 1..Len(a) : u[i] = a[i]
      /\ \A i \in 1..Len(b) : u[Len(a) + i] = b[i]
  OBVIOUS
<1>2. /\ v \in Seq(Q) /\ Len(v) = Len(b) + Len(c)
      /\ \A i \in 1..Len(b) : v[i] = b[i]
      /\ \A i \in 1..Len(c) : v[Len(b) + i] = c[i]
  OBVIOUS
<1>3. x = a \o v /\ y = u \o c OBVIOUS
<1> HIDE DEF u, v, x, y
<1>4. /\ x \in Seq(Q) /\ Len(x) = Len(a) + Len(v)
      /\ \A i \in 1..Len(a) : x[i] = a[i]
      /\ \A i \in 1..Len(v) : x[Len(a) + i] = v[i]
  <2>1. v \in Seq(Q) BY <1>2
  <2>2. QED BY <2>1, <1>3
<1>5. /\ y \in Seq(Q) /\ Len(y) = Len(u) + Len(c)
      /\ \A i \in 1..Len(u) : y[i] = u[i]
      /\ \A i \in 1..Len(c) : y[Len(u) + i] = c[i]
  <2>1. u \in Seq(Q) BY <1>1
  <2>2. QED BY <2>1, <1>3
<1>6. Len(x) = Len(y) /\ Len(x) = Len(a) + Len(b) + Len(c) BY <1>1, <1>2, <1>4, <1>5
<1>7. ASSUME NEW i \in 1..Len(x) PROVE x[i] = y[i]
  <2>1. CASE i \in 1..Len(a)
    <3>1. i \in 1..Len(u) BY <1>1, <2>1
    <3>2. QED BY <1>1, <1>4, <1>5, <2>1, <3>1
  <2>2. CASE i - Len(a) \in 1..Len(b)
    <3> DEFINE j == i - Len(a)
    <3>1. j \in 1..Len(b) /\ i = Len(a) + j /\ j \in 1..Len(v) /\ i \in 1..Len(u)
      BY <1>1, <1>2, <1>6, <2>2
    <3> HIDE DEF j
    <3>2. x[i] = v[j] /\ v[j] = b[j] BY <1>2, <1>4, <3>1
    <3>3. y[i] = u[i] /\ u[i] = b[j] BY <1>1, <1>5, <3>1
    <3>4. QED BY <3>2, <3>3
  <2>3. CASE i \notin 1..Len(a) /\ i - Len(a) \notin 1..Len(b)
    <3> DEFINE j == i - (Len(a) + Len(b))
    <3>1. /\ j \in 1..Len(c) /\ i = Len(a) + (Len(b) + j) /\ i = Len(u) + j
          /\ Len(b) + j \in 1..Len(v)
      BY <1>1, <1>2, <1>6, <2>3
    <3> HIDE DEF j
    <3>2. x[i] = v[Len(b) + j] BY <1>4, <3>1
    <3>3. v[Len(b) + j] = c[j] BY <1>2, <3>1
    <3>4. y[i] = c[j] BY <1>5, <3>1
    <3>5. QED BY <3>2, <3>3, <3>4
  <2>4. QED BY <2>1, <2>2, <2>3
<1>8. x = y BY <1>4, <1>5, <1>6, <1>7
<1>9. QED BY <1>8 DEF x, y

\* It is a queue of messages, and what joins the wire joins it.
LEMMA PendingTyped ==
  ASSUME NEW r \in Seq(Handlers), NEW w \in Seq(Messages)
  PROVE  /\ PendingOf(r, w) \in Seq(Messages)
         /\ \A m \in Seq(Messages) : PendingOf(r, w \o m) = PendingOf(r, w) \o m
<1>1. CASE Held(r) = {} BY <1>1 DEF PendingOf
<1>2. CASE Held(r) # {}
  <2> DEFINE k == CHOOSE i \in Held(r) : TRUE
             x == <<r[k].msg>>
  <2>1. k \in Held(r) BY <1>2
  <2> HIDE DEF k
  <2>2. k \in 1..Len(r) /\ r[k].run = "message" BY <2>1 DEF Held
  <2>3. r[k] \in Handlers BY <2>2
  <2>4. x \in Seq(Messages) BY <2>2, <2>3, HandlerKinds
  <2>5. \A v : PendingOf(r, v) = x \o v BY <1>2 DEF PendingOf, k
  <2> HIDE DEF x
  <2>6. \A m \in Seq(Messages) : x \o (w \o m) = (x \o w) \o m
    BY <2>4, JoinsAssociate
  <2>7. x \o w \in Seq(Messages) BY <2>4
  <2>8. QED BY <2>5, <2>6, <2>7
<1>3. QED BY <1>1, <1>2

\* A Stop is posted.
LEMMA PendingPosted ==
  ASSUME NEW r \in Seq(Handlers), NEW w
  PROVE  /\ Held(Append(r, stop_posted)) = Held(r)
         /\ PendingOf(Append(r, stop_posted), w) = PendingOf(r, w)
<1> DEFINE t == Append(r, stop_posted)
<1>1. /\ Len(r) \in Nat /\ Len(t) = Len(r) + 1 /\ t[Len(r) + 1] = stop_posted
      /\ \A i \in 1..Len(r) : i \in 1..Len(t) /\ t[i] = r[i]
      /\ \A i \in 1..Len(t) : i \in 1..Len(r) \/ i = Len(r) + 1
  <2>1. stop_posted \in Handlers BY HandlerKinds
  <2>2. QED BY <2>1
<1>2. stop_posted.run = "stop" BY DEF stop_posted, Handler
<1> HIDE DEF t
<1>3. \A i : i \in Held(t) <=> i \in Held(r) BY <1>1, <1>2 DEF Held
<1>4. Held(t) = Held(r) BY <1>3
<1>5. CASE Held(r) = {} BY <1>4, <1>5 DEF PendingOf, t
<1>6. CASE Held(r) # {}
  <2> DEFINE k == CHOOSE i \in Held(r) : TRUE
  <2>1. k \in Held(r) BY <1>6
  <2>2. k = CHOOSE i \in Held(t) : TRUE BY <1>4
  <2> HIDE DEF k
  <2>3. t[k] = r[k] BY <1>1, <2>1 DEF Held
  <2>4. PendingOf(t, w) = <<t[k].msg>> \o w BY <1>4, <1>6, <2>2 DEF PendingOf
  <2>5. PendingOf(r, w) = <<r[k].msg>> \o w BY <1>6 DEF PendingOf, k
  <2>6. QED BY <1>4, <2>3, <2>4, <2>5 DEF t
<1>7. QED BY <1>5, <1>6

\* A message is read, and none was held.
LEMMA PendingRead ==
  ASSUME NEW r \in Seq(Handlers), NEW w \in Seq(Messages), w # <<>>, Held(r) = {}
  PROVE  LET t == Append(r, Handler("message", Head(w)))
         IN  /\ \A i, j \in Held(t) : i = j
             /\ PendingOf(t, Tail(w)) = PendingOf(r, w)
<1> DEFINE h == Handler("message", Head(w))
           t == Append(r, h)
           l == Len(r) + 1
<1>1. Head(w) \in Messages /\ h.run = "message" /\ h.msg = Head(w) BY DEF Handler
<1>2. h \in Handlers BY <1>1, HandlerKinds
<1> HIDE DEF h
<1>3. /\ Len(r) \in Nat /\ Len(t) = Len(r) + 1 /\ t[l] = h /\ l \in 1..Len(t)
      /\ \A i \in 1..Len(r) : i \in 1..Len(t) /\ t[i] = r[i]
      /\ \A i \in 1..Len(t) : i \in 1..Len(r) \/ i = l
  BY <1>2
<1> HIDE DEF t, l
<1>4. \A i : i \in Held(t) <=> i = l BY <1>1, <1>3 DEF Held
<1>5. Held(t) = {l} BY <1>4
<1>6. (CHOOSE i \in Held(t) : TRUE) = l BY <1>5
<1>7. PendingOf(t, Tail(w)) = <<t[CHOOSE i \in Held(t) : TRUE].msg>> \o Tail(w)
  BY <1>5 DEF PendingOf
<1>8. PendingOf(t, Tail(w)) = <<Head(w)>> \o Tail(w) BY <1>1, <1>3, <1>6, <1>7
<1>9. <<Head(w)>> \o Tail(w) = w OBVIOUS
<1>10. PendingOf(r, w) = w BY DEF PendingOf
<1>11. QED BY <1>5, <1>8, <1>9, <1>10 DEF t, h

\* A handler is taken: a message is the head of what was pending.
LEMMA PendingTaken ==
  ASSUME NEW r \in Seq(Handlers), r # <<>>, NEW w \in Seq(Messages),
         \A i, j \in Held(r) : i = j
  PROVE  /\ \A i, j \in Held(Tail(r)) : i = j
         /\ Held(r) = {} => Held(Tail(r)) = {}
         /\ Head(r).run = "message" =>
              /\ Held(r) # {} /\ Held(Tail(r)) = {}
              /\ PendingOf(r, w) # <<>> /\ PendingOf(r, w)[1] = Head(r).msg
              /\ PendingOf(Tail(r), w) = Tail(PendingOf(r, w))
<1> DEFINE t == Tail(r)
<1>1. /\ Len(r) \in Nat /\ Len(r) >= 1 /\ Len(t) = Len(r) - 1 /\ Head(r) = r[1]
      /\ \A i \in 1..Len(t) : t[i] = r[i + 1]
      /\ r[1] \in Handlers
  OBVIOUS
<1> HIDE DEF t
<1>2. \A i \in Held(t) : i \in 1..Len(t) /\ i + 1 \in Held(r) BY <1>1 DEF Held
<1>3. \A i, j \in Held(t) : i = j
  <2>1. ASSUME NEW i \in Held(t), NEW j \in Held(t) PROVE i = j
    <3>1. i + 1 = j + 1 BY <1>2
    <3>2. QED BY <1>1, <1>2, <3>1
  <2>2. QED BY <2>1
<1>4. Held(r) = {} => Held(t) = {} BY <1>2
<1>5. ASSUME Head(r).run = "message"
      PROVE  /\ Held(r) # {} /\ Held(t) = {}
             /\ PendingOf(r, w) # <<>> /\ PendingOf(r, w)[1] = Head(r).msg
             /\ PendingOf(t, w) = Tail(PendingOf(r, w))
  <2>1. 1 \in Held(r) BY <1>1, <1>5 DEF Held
  <2>2. Held(t) = {}
    <3>1. ASSUME NEW i \in Held(t) PROVE FALSE
      <4>1. i + 1 = 1 BY <1>2, <2>1
      <4>2. QED BY <1>1, <1>2, <4>1
    <3>2. QED BY <3>1
  <2>3. (CHOOSE i \in Held(r) : TRUE) = 1 BY <2>1
  <2>4. PendingOf(r, w) = <<r[CHOOSE i \in Held(r) : TRUE].msg>> \o w BY <2>1 DEF PendingOf
  <2>5. PendingOf(r, w) = <<Head(r).msg>> \o w BY <1>1, <2>3, <2>4
  <2>6. Head(r).msg \in Messages BY <1>1, <1>5, HandlerKinds
  <2>7. \A m \in Messages : LET q == <<m>> \o w IN q # <<>> /\ q[1] = m /\ Tail(q) = w
    <3>1. ASSUME NEW m \in Messages
          PROVE  <<m>> \o w # <<>> /\ (<<m>> \o w)[1] = m /\ Tail(<<m>> \o w) = w
      <4> DEFINE q == <<m>> \o w
      <4>1. q \in Seq(Messages) /\ Len(q) = Len(w) + 1 /\ Len(w) \in Nat
            /\ q[1] = m /\ \A i \in 1..Len(w) : q[i + 1] = w[i]
        OBVIOUS
      <4> HIDE DEF q
      <4>2. q # <<>> BY <4>1
      <4>3. Tail(q) = w BY <4>1, <4>2
      <4>4. QED BY <4>1, <4>2, <4>3 DEF q
    <3>2. QED BY <3>1
  <2>8. PendingOf(t, w) = w BY <2>2 DEF PendingOf
  <2>9. QED BY <2>1, <2>2, <2>5, <2>6, <2>7, <2>8
<1>6. QED BY <1>3, <1>4, <1>5 DEF t

-----------------------------------------------------------------------------
(* What a step leaves as it was.                                             *)

\* Session t is as it was.
Kept(t) ==
  /\ strand'[t] = strand[t] /\ wire'[t] = wire[t] /\ proxies'[t] = proxies[t]
  /\ registered_domains'[t] = registered_domains[t] /\ failed'[t] = failed[t]
  /\ reading'[t] = reading[t] /\ stopping'[t] = stopping[t] /\ transport'[t] = transport[t]

\* A step of one session leaves the others and the clients as they were.
LEMMA OthersKept ==
  ASSUME IInv, PastTyped, NEW s \in Sessions, Strand(s) \/ Network(s)
  PROVE  /\ UNCHANGED <<control_stream, dynamic_proxies, answered, held>>
         /\ failed' \in [Sessions -> SUBSET Proxies]
         /\ \A t \in Sessions : t # s => Kept(t)
<1> DEFINE Others == /\ UNCHANGED <<control_stream, dynamic_proxies, answered, held>>
                     /\ \A t \in Sessions : t # s => Kept(t)
<1>1. /\ reading \in [Sessions -> BOOLEAN]
      /\ transport \in [Sessions -> {"none", "handshaking", "up", "lost"}]
      /\ stopping \in [Sessions -> {"no", "yes", "reads"}]
      /\ strand \in [Sessions -> Seq(Handlers)]
      /\ wire \in [Sessions -> Seq(Messages)]
      /\ failed \in [Sessions -> SUBSET Proxies]
      /\ proxies \in [Sessions -> Seq(Proxies)]
      /\ registered_domains \in [Sessions -> SUBSET Domains]
  BY Typed DEF IInv, Types, TypeOK, PastTyped
<1>2. CASE stop(s)
  <2>1. Others BY <1>1, <1>2 DEF stop, Stop, Ends, fields, client, Kept
  <2>2. QED BY <1>1, <1>2, <2>1 DEF stop
<1>3. CASE turn_away(s)
  <2>1. Others BY <1>1, <1>3 DEF turn_away, Stop, Ends, fields, client, Kept
  <2>2. QED BY <1>1, <1>3, <2>1 DEF turn_away
<1>4. CASE stop_proxies(s)
  <2>1. Others BY <1>1, <1>4 DEF stop_proxies, client, Kept
  <2>2. QED BY <1>1, <1>4, <2>1 DEF stop_proxies
<1>5. CASE HandleLogin(s)
  <2>1. Others BY <1>1, <1>5 DEF HandleLogin, Ends, client, past, Kept
  <2>2. QED BY <1>1, <1>5, <2>1 DEF HandleLogin, past
<1>6. CASE register(s)
  <2> DEFINE p == Head(strand[s]).msg.proxy
  <2>1. \/ UNCHANGED <<proxies, failed>>
           /\ registered_domains' = [registered_domains EXCEPT ![s] = @ \union {p.at}]
        \/ UNCHANGED <<registered_domains, failed>>
           /\ proxies' = [proxies EXCEPT ![s] = Append(@, p)]
        \/ UNCHANGED <<registered_domains, proxies>>
           /\ failed' = [failed EXCEPT ![s] = @ \union {p}]
    BY <1>6 DEF register
  <2>2. /\ strand' = [strand EXCEPT ![s] = Tail(@)]
        /\ reading' = [reading EXCEPT ![s] = TRUE]
        /\ UNCHANGED <<stopping, transport, wire, control_stream, dynamic_proxies, answered, held>>
    BY <1>6 DEF register, Ends, links, client
  <2>3. p \in Proxies
    <3>1. strand[s] # <<>> /\ Head(strand[s]).run = "message"
          /\ Head(strand[s]).msg.type = "register"
      BY <1>6 DEF register, Handles, Starts
    <3>2. Head(strand[s]) \in Handlers BY <1>1, <3>1
    <3>3. QED BY <3>1, <3>2, HandlerKinds, MessageKinds
  <2> HIDE DEF p
  <2>4. \A t \in Sessions : t # s =>
          proxies'[t] = proxies[t] /\ failed'[t] = failed[t]
          /\ registered_domains'[t] = registered_domains[t]
    BY <1>1, <2>1
  <2>5. failed' \in [Sessions -> SUBSET Proxies] BY <1>1, <2>1, <2>3
  <2>6. QED BY <1>1, <2>2, <2>4, <2>5 DEF Kept
<1>7. CASE unregister(s)
  <2>1. Others BY <1>1, <1>7 DEF unregister, Ends, links, client, past, Kept
  <2>2. QED BY <1>1, <1>7, <2>1 DEF unregister, past
<1>8. CASE handshake_ends(s) \/ transport_lost(s)
  <2>1. Others
    BY <1>1, <1>8 DEF handshake_ends, transport_lost, fields, pending, client, past, Kept
  <2>2. QED BY <1>1, <1>8, <2>1 DEF handshake_ends, transport_lost, past
<1>9. CASE message_read(s)
  <2>1. Others BY <1>1, <1>9 DEF message_read, Post, fields, client, past, Kept
  <2>2. QED BY <1>1, <1>9, <2>1 DEF message_read, past
<1>10. CASE read_fails(s) \/ write_fails(s)
  <2>1. Others
    BY <1>1, <1>10 DEF read_fails, write_fails, Post, fields, links, client, past, Kept
  <2>2. QED BY <1>1, <1>10, <2>1 DEF read_fails, write_fails, past
<1>11. CASE auth_timer_fires(s)
  <2>1. Others BY <1>1, <1>11 DEF auth_timer_fires, Post, fields, links, client, past, Kept
  <2>2. QED BY <1>1, <1>11, <2>1 DEF auth_timer_fires, past
<1>12. QED
  BY <1>2, <1>3, <1>4, <1>5, <1>6, <1>7, <1>8, <1>9, <1>10, <1>11 DEF Strand, Network

\* Client and server agree as they did when nothing they agree on changes.
LEMMA AgreeStays ==
  ASSUME NEW c \in Clients, NEW t \in Sessions, Agree(c, t),
         Pending(t)' = Pending(t), proxies'[t] = proxies[t], failed'[t] = failed[t],
         registered_domains'[t] = registered_domains[t],
         dynamic_proxies'[c] = dynamic_proxies[c],
         answered'[c] = answered[c], held'[c] = held[c]
  PROVE  Agree(c, t)'
<1>1. \A p : Handled(t, p)' <=> Handled(t, p) BY DEF Handled
<1>2. Known(c, Pending(t), proxies[t])' BY DEF Agree
<1>3. \A n \in Names(ConfFiles[c]) :
        Ordered(Pending(t)', proxies'[t], dynamic_proxies'[c], n)
  BY DEF Agree
<1>4. ASSUME NEW p \in dynamic_proxies'[c] \ held'[c]
      PROVE  Promised(Pending(t)', p, Handled(t, p)')
  <2>1. Promised(Pending(t), p, Handled(t, p)) BY <1>4 DEF Agree
  <2>2. QED BY <1>1, <2>1 DEF Promised
<1>5. ASSUME answered'[c], NEW p \in Range(Static[c])
      PROVE  \/ Handled(t, p)'
             \/ \E i \in Adds(Pending(t)', p.name) : Same(Pending(t)'[i].proxy, p)
  BY <1>1, <1>5 DEF Agree
<1>6. QED BY <1>2, <1>3, <1>4, <1>5 DEF Agree

\* The sessions that are kept, and the clients that keep their connection.
LEMMA KeptAgree ==
  ASSUME AgreeInv, NEW c \in Clients, NEW t \in Sessions, Kept(t),
         control_stream'[c] = control_stream[c],
         dynamic_proxies'[c] = dynamic_proxies[c],
         answered'[c] = answered[c], held'[c] = held[c], Linked(c, t)'
  PROVE  Agree(c, t)'
<1>1. Linked(c, t) BY DEF Linked, Kept
<1>2. Pending(t)' = Pending(t) BY DEF Pending, Kept
<1>3. QED BY <1>1, <1>2, AgreeStays DEF AgreeInv, Kept

-----------------------------------------------------------------------------
(* A session reads a message when it has handled the one before.             *)

\* A handler that is at the head is taken.
LEMMA TurnTaken ==
  ASSUME IInv, ReadInv, NEW s \in Sessions, strand[s] # <<>>
  PROVE  /\ strand[s] \in Seq(Handlers) /\ Head(strand[s]) \in Handlers
         /\ \A i, j \in Held(Tail(strand[s])) : i = j
         /\ Held(strand[s]) = {} => Held(Tail(strand[s])) = {}
         /\ Head(strand[s]).run = "message" =>
              /\ Held(strand[s]) # {} /\ Held(Tail(strand[s])) = {} /\ ~reading[s]
              /\ Head(strand[s]).msg \in Messages
              /\ Pending(s) # <<>> /\ Pending(s)[1] = Head(strand[s]).msg
              /\ PendingOf(Tail(strand[s]), wire[s]) = Tail(Pending(s))
         /\ transport[s] \notin {"none", "handshaking"}
<1>1. strand[s] \in Seq(Handlers) /\ wire[s] \in Seq(Messages) BY Typed DEF IInv
<1>2. InTurn(strand[s], reading[s], stopping[s]) BY DEF ReadInv
<1>3. Head(strand[s]) \in Handlers BY <1>1
<1>4. transport[s] \notin {"none", "handshaking"} BY DEF IInv, FreshInv
<1>5. \A i, j \in Held(strand[s]) : i = j BY <1>2 DEF InTurn
<1> DEFINE r == strand[s]
<1>6. /\ \A i, j \in Held(Tail(r)) : i = j
      /\ Held(r) = {} => Held(Tail(r)) = {}
      /\ Head(r).run = "message" =>
           /\ Held(r) # {} /\ Held(Tail(r)) = {}
           /\ PendingOf(r, wire[s]) # <<>> /\ PendingOf(r, wire[s])[1] = Head(r).msg
           /\ PendingOf(Tail(r), wire[s]) = Tail(PendingOf(r, wire[s]))
  BY <1>1, <1>5, PendingTaken
<1>7. Head(r).run = "message" => ~reading[s] /\ Head(r).msg \in Messages
  BY <1>2, <1>3, <1>6, HandlerKinds DEF InTurn
<1>8. QED BY <1>1, <1>3, <1>4, <1>6, <1>7 DEF Pending

\* A step of a session.
LEMMA SessionReads ==
  ASSUME IInv, PastTyped, ReadInv, NEW s \in Sessions, Strand(s) \/ Network(s)
  PROVE  ReadInv'
<1> DEFINE Turn == /\ InTurn(strand'[s], reading'[s], stopping'[s])
                   /\ transport'[s] \in {"none", "handshaking"} => proxies'[s] = <<>>
<1>1. /\ reading \in [Sessions -> BOOLEAN]
      /\ transport \in [Sessions -> {"none", "handshaking", "up", "lost"}]
      /\ stopping \in [Sessions -> {"no", "yes", "reads"}]
      /\ strand \in [Sessions -> Seq(Handlers)]
      /\ proxies \in [Sessions -> Seq(Proxies)]
  BY Typed DEF IInv, Types, TypeOK
<1>2. /\ InTurn(strand[s], reading[s], stopping[s])
      /\ transport[s] \in {"none", "handshaking"} => proxies[s] = <<>>
  BY DEF ReadInv
<1>3. ASSUME stop(s) PROVE Turn
  <2>1. /\ strand[s] # <<>> /\ strand'[s] = Tail(strand[s]) /\ reading'[s] = reading[s]
        /\ stopping'[s] = "yes" /\ transport'[s] = "lost"
    BY <1>1, <1>3 DEF stop, Stop, Starts, Ends
  <2>2. QED BY <1>2, <2>1, TurnTaken DEF InTurn
<1>4. ASSUME turn_away(s) PROVE Turn
  <2>1. /\ strand[s] # <<>> /\ Head(strand[s]).run = "message"
        /\ strand'[s] = Tail(strand[s]) /\ reading'[s] = reading[s]
        /\ stopping'[s] = "reads" /\ transport'[s] = "lost"
    BY <1>1, <1>4 DEF turn_away, Stop, Handles, Starts, Ends
  <2>2. QED BY <1>2, <2>1, TurnTaken DEF InTurn
<1>5. ASSUME stop_proxies(s) PROVE Turn
  <2>1. /\ strand'[s] = strand[s] /\ proxies'[s] = <<>> /\ stopping'[s] = "no"
        /\ reading'[s] = (reading[s] \/ stopping[s] = "reads")
    BY <1>1, <1>5 DEF stop_proxies
  <2>2. QED BY <1>2, <2>1 DEF InTurn
<1>6. ASSUME HandleLogin(s) \/ register(s) \/ unregister(s) PROVE Turn
  <2>1. /\ strand[s] # <<>> /\ Head(strand[s]).run = "message" /\ stopping[s] = "no"
        /\ strand' = [strand EXCEPT ![s] = Tail(@)]
        /\ UNCHANGED <<stopping, transport>>
    BY <1>6 DEF HandleLogin, register, unregister, Handles, Starts, Ends, links
  <2>2. strand'[s] = Tail(strand[s]) /\ stopping'[s] = "no" /\ transport'[s] = transport[s]
    BY <1>1, <2>1
  <2>3. QED BY <2>1, <2>2, TurnTaken DEF InTurn
<1>7. ASSUME handshake_ends(s) \/ transport_lost(s) PROVE Turn
  <2>1. strand' = strand /\ reading' = reading /\ stopping' = stopping
        /\ transport' = [transport EXCEPT ![s] = "lost"]
    BY <1>7 DEF handshake_ends, transport_lost, pending
  <2>2. QED BY <1>1, <1>2, <2>1
<1>8. ASSUME message_read(s) PROVE Turn
  <2> DEFINE h == Handler("message", Head(wire[s]))
  <2>1. /\ reading[s] /\ wire[s] # <<>>
        /\ strand' = [strand EXCEPT ![s] = Append(@, h)]
        /\ reading' = [reading EXCEPT ![s] = FALSE]
        /\ UNCHANGED <<stopping, transport, proxies>>
    BY <1>8 DEF message_read, Post, fields
  <2>2. strand'[s] = Append(strand[s], h) /\ ~reading'[s] /\ stopping'[s] = stopping[s]
    BY <1>1, <2>1
  <2>3. wire[s] \in Seq(Messages) /\ strand[s] \in Seq(Handlers) BY Typed DEF IInv
  <2>4. Held(strand[s]) = {} /\ stopping[s] # "reads" BY <1>2, <2>1 DEF InTurn
  <2>5. \A i, j \in Held(Append(strand[s], h)) : i = j BY <2>1, <2>3, <2>4, PendingRead
  <2>6. QED BY <1>2, <2>1, <2>2, <2>4, <2>5 DEF InTurn
<1>9. ASSUME read_fails(s) \/ write_fails(s) \/ auth_timer_fires(s) PROVE Turn
  <2>1. /\ strand' = [strand EXCEPT ![s] = Append(@, stop_posted)] \/ strand' = strand
        /\ reading' = [reading EXCEPT ![s] = FALSE] \/ reading' = reading
        /\ UNCHANGED <<stopping, transport, proxies>>
    BY <1>9 DEF read_fails, write_fails, auth_timer_fires, Post, fields, links
  <2>2. /\ strand'[s] = Append(strand[s], stop_posted) \/ strand'[s] = strand[s]
        /\ ~reading'[s] \/ reading'[s] = reading[s]
    BY <1>1, <2>1
  <2>3. strand[s] \in Seq(Handlers) BY <1>1
  <2>4. Held(strand'[s]) = Held(strand[s]) BY <2>2, <2>3, PendingPosted
  <2>5. QED BY <1>2, <2>1, <2>2, <2>4 DEF InTurn
<1>10. Turn
  BY <1>3, <1>4, <1>5, <1>6, <1>7, <1>8, <1>9 DEF Strand, Network
<1>11. \A t \in Sessions : t # s => Kept(t) BY OthersKept
<1>12. QED BY <1>10, <1>11 DEF ReadInv, Kept

\* A step of a client, or a connection that is accepted.
LEMMA ClientReads ==
  ASSUME IInv, ReadInv, accept \/ \E c \in Clients : Client(c)
  PROVE  ReadInv'
<1>1. /\ reading \in [Sessions -> BOOLEAN]
      /\ transport \in [Sessions -> {"none", "handshaking", "up", "lost"}]
      /\ \A t \in Sessions : strand[t] \in Seq(Handlers)
  BY Typed DEF IInv
<1>2. CASE accept
  <2>1. /\ UNCHANGED <<strand, reading, stopping, proxies>>
        /\ transport' = [transport EXCEPT ![made + 1] = "handshaking"]
    BY <1>2 DEF accept, pending, fields
  <2>2. transport[made + 1] = "none" \/ made + 1 \notin Sessions
    <3>1. made + 1 > made BY Typed DEF IInv
    <3>2. QED BY <3>1 DEF IInv, FreshInv
  <2>3. \A t \in Sessions : transport'[t] \in {"none", "handshaking"} =>
                              transport[t] \in {"none", "handshaking"}
    BY <1>1, <2>1, <2>2
  <2>4. QED BY <2>1, <2>3 DEF ReadInv
<1>3. ASSUME NEW c \in Clients, NEW s \in Sessions, start_control(c, s) PROVE ReadInv'
  <2>1. /\ transport[s] = "handshaking"
        /\ transport' = [transport EXCEPT ![s] = "up"]
        /\ reading' = [reading EXCEPT ![s] = TRUE]
        /\ UNCHANGED <<strand, stopping, proxies>>
    BY <1>3 DEF start_control, fields
  <2>2. strand[s] = <<>> /\ stopping[s] = "no"
    <3>1. stopping[s] \in {"no", "yes", "reads"} BY Typed DEF IInv
    <3>2. QED BY <2>1, <3>1 DEF IInv, FreshInv, StopInv
  <2>3. Held(strand[s]) = {} BY <2>2 DEF Held
  <2>4. /\ transport'[s] = "up" /\ reading'[s]
        /\ \A t \in Sessions : t # s => transport'[t] = transport[t] /\ reading'[t] = reading[t]
    BY <1>1, <2>1
  <2>5. QED BY <2>1, <2>2, <2>3, <2>4 DEF ReadInv, InTurn
<1>4. ASSUME NEW c \in Clients,
             DoLogin(c) \/ handle_login_resp(c) \/ PollConfDirectory(c) \/ disconnected(c)
      PROVE  ReadInv'
  <2>1. UNCHANGED <<strand, reading, stopping, proxies, transport>>
    BY <1>4 DEF DoLogin, handle_login_resp, PollConfDirectory, disconnected, pending, fields
  <2>2. QED BY <2>1 DEF ReadInv
<1>5. QED BY <1>2, <1>3, <1>4 DEF Client

-----------------------------------------------------------------------------
(* Client and server agree: the steps of a session.                          *)

\* A step that handles no message.
LEMMA NothingHandled ==
  ASSUME IInv, AgreeInv, NEW s \in Sessions,
         stop(s) \/ turn_away(s) \/ stop_proxies(s) \/ Network(s),
         NEW c \in Clients, Linked(c, s)'
  PROVE  Agree(c, s)'
<1>1. /\ reading \in [Sessions -> BOOLEAN]
      /\ transport \in [Sessions -> {"none", "handshaking", "up", "lost"}]
      /\ stopping \in [Sessions -> {"no", "yes", "reads"}]
      /\ strand \in [Sessions -> Seq(Handlers)]
      /\ wire \in [Sessions -> Seq(Messages)]
  BY Typed DEF IInv
<1>2. transport'[s] = "up" BY DEF Linked
<1>3. CASE stop(s) \/ turn_away(s) \/ handshake_ends(s) \/ transport_lost(s)
  <2>1. transport'[s] = "lost"
    BY <1>1, <1>3 DEF stop, turn_away, Stop, handshake_ends, transport_lost
  <2>2. QED BY <1>2, <2>1
<1>4. CASE stop_proxies(s)
  <2>1. stopping[s] # "no" /\ transport' = transport BY <1>4 DEF stop_proxies
  <2>2. QED BY <1>2, <2>1 DEF IInv, StopInv
<1>5. CASE message_read(s) \/ read_fails(s) \/ write_fails(s) \/ auth_timer_fires(s)
  <2>1. UNCHANGED <<transport, proxies, registered_domains, failed, control_stream,
                    dynamic_proxies, answered, held>>
    BY <1>5 DEF message_read, read_fails, write_fails, auth_timer_fires, fields, links,
                client, past
  <2>2. Agree(c, s) BY <2>1 DEF Linked, AgreeInv
  <2>3. Pending(s)' = Pending(s)
    <3>1. CASE message_read(s)
      <4> DEFINE h == Handler("message", Head(wire[s]))
      <4>1. /\ reading[s] /\ wire[s] # <<>>
            /\ strand' = [strand EXCEPT ![s] = Append(@, h)]
            /\ wire' = [wire EXCEPT ![s] = Tail(@)]
        BY <3>1 DEF message_read, Post
      <4>2. strand'[s] = Append(strand[s], h) /\ wire'[s] = Tail(wire[s]) BY <1>1, <4>1
      <4>3. Held(strand[s]) = {} BY <4>1 DEF AgreeInv, ReadInv, InTurn
      <4>4. strand[s] \in Seq(Handlers) /\ wire[s] \in Seq(Messages) BY <1>1
      <4>5. PendingOf(Append(strand[s], h), Tail(wire[s])) = PendingOf(strand[s], wire[s])
        BY <4>1, <4>3, <4>4, PendingRead
      <4>6. QED BY <4>2, <4>5 DEF Pending
    <3>2. CASE read_fails(s) \/ write_fails(s) \/ auth_timer_fires(s)
      <4>1. /\ strand' = [strand EXCEPT ![s] = Append(@, stop_posted)] \/ strand' = strand
            /\ wire' = wire
        BY <3>2 DEF read_fails, write_fails, auth_timer_fires, Post, links
      <4>2. strand'[s] = Append(strand[s], stop_posted) \/ strand'[s] = strand[s]
        BY <1>1, <4>1
      <4>3. strand[s] \in Seq(Handlers) BY <1>1
      <4>4. PendingOf(strand'[s], wire[s]) = PendingOf(strand[s], wire[s])
        BY <4>2, <4>3, PendingPosted
      <4>5. QED BY <4>1, <4>4 DEF Pending
    <3>3. QED BY <1>5, <3>1, <3>2
  <2>4. QED BY <2>1, <2>2, <2>3, AgreeStays
<1>6. QED BY <1>3, <1>4, <1>5 DEF Network

\* A message is handled: it was the head of what was pending.
LEMMA HeadHandled ==
  ASSUME IInv, ReadInv, NEW s \in Sessions, NEW type, Handles(s, type), Ends(s), wire' = wire
  PROVE  LET q == Pending(s)
             m == Head(strand[s]).msg
         IN  /\ q \in Seq(Messages) /\ q # <<>> /\ q[1] = m
             /\ m \in Messages /\ m.type = type
             /\ Pending(s)' = Tail(q)
             /\ \A n : 1 \in Adds(q, n) <=> type = "register" /\ m.proxy.name = n
             /\ \A n : 1 \in Drops(q, n) <=> type = "unregister" /\ m.proxy.name = n
<1> DEFINE q == Pending(s)
           m == Head(strand[s]).msg
<1>1. /\ strand[s] # <<>> /\ Head(strand[s]).run = "message" /\ m.type = type
      /\ strand' = [strand EXCEPT ![s] = Tail(@)]
  BY DEF Handles, Starts, Ends
<1>2. strand \in [Sessions -> Seq(Handlers)] /\ wire[s] \in Seq(Messages)
  BY Typed DEF IInv
<1>3. strand'[s] = Tail(strand[s]) BY <1>1, <1>2
<1>4. /\ m \in Messages /\ q # <<>> /\ q[1] = m
      /\ PendingOf(Tail(strand[s]), wire[s]) = Tail(q)
  BY <1>1, TurnTaken
<1>5. q \in Seq(Messages) BY <1>2, PendingTyped DEF Pending
<1>6. Pending(s)' = Tail(q) BY <1>3, <1>4 DEF Pending
<1> HIDE DEF q, m
<1>7. 1 \in 1..Len(q) BY <1>4, <1>5
<1>8. \A n : 1 \in Adds(q, n) <=> type = "register" /\ m.proxy.name = n
  BY <1>1, <1>4, <1>7 DEF Adds
<1>9. \A n : 1 \in Drops(q, n) <=> type = "unregister" /\ m.proxy.name = n
  BY <1>1, <1>4, <1>7 DEF Drops
<1>10. QED BY <1>1, <1>4, <1>5, <1>6, <1>8, <1>9 DEF q, m

\* What was pending loses its head, and the agreement stays.
LEMMA TailAgrees ==
  ASSUME NEW c \in Clients, NEW s \in Sessions, NamesApart(c), Agree(c, s),
         Pending(s) \in Seq(Messages), Pending(s) # <<>>, Pending(s)' = Tail(Pending(s)),
         dynamic_proxies'[c] = dynamic_proxies[c],
         answered'[c] = answered[c], held'[c] = held[c],
         Known(c, Tail(Pending(s)), proxies'[s]),
         \A n \in Names(ConfFiles[c]) :
           Ordered(Tail(Pending(s)), proxies'[s], dynamic_proxies[c], n),
         \A p : 1 \in Adds(Pending(s), p.name) /\ Same(Pending(s)[1].proxy, p) => Handled(s, p)',
         \A p : 1 \notin Drops(Pending(s), p.name) /\ Handled(s, p) => Handled(s, p)'
  PROVE  Agree(c, s)'
<1> DEFINE q == Pending(s)
<1>1. \A p : Handled(s, p) \in BOOLEAN /\ Handled(s, p)' \in BOOLEAN BY DEF Handled
<1>2. ASSUME NEW p \in dynamic_proxies'[c] \ held'[c]
      PROVE  Promised(Tail(q), p, Handled(s, p)')
  <2>1. Promised(q, p, Handled(s, p)) BY <1>2 DEF Agree
  <2>2. QED BY <1>1, <2>1, PromiseTail
<1>3. ASSUME NEW p \in Range(Static[c]) PROVE 1 \notin Drops(q, p.name)
  <2>1. SUFFICES ASSUME 1 \in Drops(q, p.name) PROVE FALSE OBVIOUS
  <2>2. 1 \in 1..Len(q) /\ q[1].type = "unregister" /\ q[1].proxy.name = p.name
    BY <2>1 DEF Drops
  <2>3. p.name \in Names(ConfFiles[c]) BY <2>2 DEF Agree, Known
  <2>4. QED BY <2>3 DEF NamesApart, Names
<1>4. ASSUME answered'[c], NEW p \in Range(Static[c])
      PROVE  Handled(s, p)' \/ \E i \in Adds(Tail(q), p.name) : Same(Tail(q)[i].proxy, p)
  <2>1. Handled(s, p) \/ \E i \in Adds(q, p.name) : Same(q[i].proxy, p)
    BY <1>4 DEF Agree
  <2>2. Handled(s, p) => Handled(s, p)' BY <1>3
  <2>3. QED BY <1>1, <2>1, <2>2, RegisteredTail
<1> HIDE DEF q
<1>5. QED BY <1>2, <1>4 DEF Agree, q

\* A login is handled.
LEMMA LoginAgrees ==
  ASSUME IInv, AgreeInv, NEW s \in Sessions, HandleLogin(s), NEW c \in Clients, Linked(c, s)'
  PROVE  Agree(c, s)'
<1> DEFINE q == Pending(s)
<1>1. /\ Handles(s, "login") /\ Ends(s) /\ wire' = wire
      /\ UNCHANGED <<transport, proxies, registered_domains, failed, control_stream,
                     dynamic_proxies, answered, held>>
  BY DEF HandleLogin, client, past
<1>2. Linked(c, s) /\ Agree(c, s) /\ NamesApart(c) BY <1>1 DEF Linked, AgreeInv
<1>3. /\ q \in Seq(Messages) /\ q # <<>> /\ Pending(s)' = Tail(q)
      /\ \A n : 1 \notin Adds(q, n) /\ 1 \notin Drops(q, n)
  BY <1>1, HeadHandled DEF AgreeInv
<1>4. Known(c, q, proxies[s])
      /\ \A n \in Names(ConfFiles[c]) : Ordered(q, proxies[s], dynamic_proxies[c], n)
  BY <1>2 DEF Agree
<1> HIDE DEF q
<1>5. Known(c, Tail(q), proxies[s]) BY <1>3, <1>4, KnownTail
<1>6. \A n \in Names(ConfFiles[c]) : Ordered(Tail(q), proxies[s], dynamic_proxies[c], n)
  BY <1>3, <1>4, OrderedSkip
<1>7. \A p : Handled(s, p) => Handled(s, p)' BY <1>1 DEF Handled
<1>8. QED BY <1>1, <1>2, <1>3, <1>5, <1>6, <1>7, TailAgrees DEF q

\* A proxy is registered: its route is there, its listener, or its refusal.
LEMMA RegisterAgrees ==
  ASSUME IInv, AgreeInv, NEW s \in Sessions, register(s), NEW c \in Clients, Linked(c, s)'
  PROVE  Agree(c, s)'
<1> DEFINE q == Pending(s)
           L == proxies[s]
           M == proxies'[s]
           m == Head(strand[s]).msg.proxy
           d == dynamic_proxies[c]
<1>1. /\ Handles(s, "register") /\ Ends(s) /\ wire' = wire
      /\ UNCHANGED <<transport, control_stream, dynamic_proxies, answered, held>>
  BY DEF register, links, client
<1>2. /\ proxies \in [Sessions -> Seq(Proxies)]
      /\ registered_domains \in [Sessions -> SUBSET Domains]
      /\ failed \in [Sessions -> SUBSET Proxies]
  BY DEF AgreeInv, PastTyped, IInv, Types, TypeOK
<1>3. Linked(c, s) /\ Agree(c, s) /\ NamesApart(c) BY <1>1 DEF Linked, AgreeInv
<1>4. /\ q \in Seq(Messages) /\ q # <<>> /\ Pending(s)' = Tail(q)
      /\ q[1].proxy = m /\ q[1].type = "register" /\ m \in Proxies
      /\ \A n : 1 \in Adds(q, n) <=> m.name = n
      /\ \A n : 1 \notin Drops(q, n)
  BY <1>1, HeadHandled, MessageKinds DEF AgreeInv
<1>5. Known(c, q, L) /\ \A n \in Names(ConfFiles[c]) : Ordered(q, L, d, n)
  BY <1>3 DEF Agree
<1>6. \/ /\ m.type = "http" /\ m.at \in registered_domains'[s]
         /\ registered_domains[s] \subseteq registered_domains'[s]
         /\ M = L /\ failed'[s] = failed[s]
      \/ /\ m.type # "http" /\ M = Append(L, m)
         /\ failed'[s] = failed[s] /\ registered_domains'[s] = registered_domains[s]
      \/ /\ m.type # "http" /\ M = L /\ m \in failed'[s] /\ failed[s] \subseteq failed'[s]
         /\ registered_domains'[s] = registered_domains[s]
  BY <1>2 DEF register
<1>7. L \in Seq(Proxies) BY <1>2
<1> HIDE DEF q, L, M, m, d
<1>8. /\ \A x \in 1..Len(M) : (\E y \in 1..Len(L) : M[x] = L[y]) \/ (M[x] = m /\ m.type # "http")
      /\ \A y \in 1..Len(L) : \E x \in 1..Len(M) : M[x] = L[y]
      /\ \A n : n # m.name => At(M, n) = At(L, n) /\ \A x \in At(M, n) : M[x] = L[x]
      /\ At(L, m.name) = {} => /\ \A x \in At(M, m.name) : M[x] = m
                               /\ \A x, y \in At(M, m.name) : x = y
  <2>1. CASE M = L BY <2>1
  <2>2. CASE M = Append(L, m) /\ m.type # "http"
    <3> DEFINE N == Append(L, m)
    <3>0. m \in Proxies BY <1>4
    <3>1. /\ \A x \in 1..Len(N) : (\E y \in 1..Len(L) : N[x] = L[y]) \/ N[x] = m
          /\ \A y \in 1..Len(L) : \E x \in 1..Len(N) : N[x] = L[y]
          /\ \A n : n # m.name => At(N, n) = At(L, n) /\ \A x \in At(N, n) : N[x] = L[x]
          /\ At(L, m.name) = {} => /\ \A x \in At(N, m.name) : N[x] = m
                                   /\ \A x, y \in At(N, m.name) : x = y
      BY <1>7, <3>0, ListenerJoins
    <3>2. M = N BY <2>2
    <3> HIDE DEF N
    <3>3. QED BY <2>2, <3>1, <3>2
  <2>3. QED BY <1>6, <2>1, <2>2
<1>9. Known(c, Tail(q), M) BY <1>4, <1>5, <1>8, KnownTail
<1>10. ASSUME NEW n \in Names(ConfFiles[c]) PROVE Ordered(Tail(q), M, d, n)
  <2>1. CASE n = m.name
    <3>1. 1 \in Adds(q, n) /\ Ordered(q, L, d, n) BY <1>4, <1>5, <2>1
    <3>2. At(L, n) = {} BY <1>4, <3>1, OrderedAdd
    <3>3. \A x \in At(M, n) : M[x] = q[1].proxy BY <1>4, <1>8, <2>1, <3>2
    <3>4. \A x, y \in At(M, n) : x = y BY <1>8, <2>1, <3>2
    <3>5. QED BY <1>4, <3>1, <3>3, <3>4, OrderedAdd
  <2>2. CASE n # m.name
    <3>1. Ordered(Tail(q), L, d, n) BY <1>4, <1>5, <2>2, OrderedSkip
    <3>2. At(M, n) = At(L, n) /\ \A x \in At(M, n) : M[x] = L[x] BY <1>8, <2>2
    <3>3. \A x, y \in At(M, n) : x = y BY <3>1, <3>2 DEF Ordered
    <3>4. \A x \in At(M, n) : \E y \in At(L, n) : M[x] = L[y] BY <3>2
    <3>5. QED BY <3>1, <3>3, <3>4, OrderedLess
  <2>3. QED BY <2>1, <2>2
<1>11. ASSUME NEW p, Handled(s, p) PROVE Handled(s, p)'
  <2>1. \/ \E r \in failed[s] : Same(r, p)
        \/ p.type = "http" /\ p.at \in registered_domains[s]
        \/ p.type # "http" /\ \E y \in 1..Len(L) : Same(L[y], p)
    BY <1>11 DEF Handled, L
  <2>2. \/ \E r \in failed'[s] : Same(r, p)
        \/ p.type = "http" /\ p.at \in registered_domains'[s]
        \/ p.type # "http" /\ \E x \in 1..Len(M) : Same(M[x], p)
    <3>1. failed[s] \subseteq failed'[s] /\ registered_domains[s] \subseteq registered_domains'[s]
      BY <1>6
    <3>2. QED BY <1>8, <2>1, <3>1
  <2>3. QED BY <2>2 DEF Handled, M
<1>12. ASSUME NEW p, Same(m, p) PROVE Handled(s, p)'
  <2>1. m.type = p.type /\ m.at = p.at BY <1>12 DEF Same
  <2>2. \/ \E r \in failed'[s] : Same(r, p)
        \/ p.type = "http" /\ p.at \in registered_domains'[s]
        \/ p.type # "http" /\ \E x \in 1..Len(M) : Same(M[x], p)
    <3>1. CASE m.type # "http" /\ M = Append(L, m)
      <4>1. \E x \in 1..Len(M) : M[x] = m BY <1>4, <1>7, <3>1, ListenerJoins
      <4>2. QED BY <1>12, <2>1, <3>1, <4>1
    <3>2. QED BY <1>6, <1>12, <2>1, <3>1
  <2>3. QED BY <2>2 DEF Handled, M
<1>13. QED
  BY <1>1, <1>3, <1>4, <1>9, <1>10, <1>11, <1>12, TailAgrees DEF q, M, d

\* A proxy is removed: no other one loses its listener.
LEMMA UnregisterAgrees ==
  ASSUME IInv, AgreeInv, NEW s \in Sessions, unregister(s), NEW c \in Clients, Linked(c, s)'
  PROVE  Agree(c, s)'
<1> DEFINE q == Pending(s)
           L == proxies[s]
           M == proxies'[s]
           g == Head(strand[s]).msg.proxy.name
           d == dynamic_proxies[c]
<1>1. /\ Handles(s, "unregister") /\ Ends(s) /\ wire' = wire
      /\ proxies' = [proxies EXCEPT ![s] = Unregistered(s, g)]
      /\ UNCHANGED <<transport, control_stream, dynamic_proxies, answered, held, failed,
                     registered_domains>>
  BY DEF unregister, links, client, past
<1>2. proxies \in [Sessions -> Seq(Proxies)] BY DEF IInv, Types, TypeOK
<1>3. Linked(c, s) /\ Agree(c, s) /\ NamesApart(c) BY <1>1 DEF Linked, AgreeInv
<1>4. /\ q \in Seq(Messages) /\ q # <<>> /\ Pending(s)' = Tail(q)
      /\ \A n : 1 \notin Adds(q, n)
      /\ \A n : 1 \in Drops(q, n) <=> g = n
  BY <1>1, HeadHandled DEF AgreeInv
<1>5. Known(c, q, L) /\ \A n \in Names(ConfFiles[c]) : Ordered(q, L, d, n)
  BY <1>3 DEF Agree
<1>6. g \in Names(ConfFiles[c])
  <2>1. 1 \in Drops(q, g) BY <1>4
  <2>2. 1 \in 1..Len(q) /\ q[1].type = "unregister" /\ q[1].proxy.name = g
    BY <2>1 DEF Drops
  <2>3. QED BY <1>5, <2>2 DEF Known
<1>7. L \in Seq(Proxies) /\ M = Unregistered(s, g) BY <1>1, <1>2
<1>8. /\ \A x \in 1..Len(M) : \E y \in 1..Len(L) : M[x] = L[y]
      /\ \A y \in 1..Len(L) : L[y].name # g => \E x \in 1..Len(M) : M[x] = L[y]
      /\ \A n : (\A x, y \in At(L, n) : x = y) => /\ \A x, y \in At(M, n) : x = y
                                                  /\ \A x \in At(M, n) :
                                                       \E y \in At(L, n) : M[x] = L[y]
      /\ (\A x \in 1..Len(L) : L[x].type # "http") /\ (\A x, y \in At(L, g) : x = y) =>
           At(M, g) = {}
  BY <1>7, ListenerLeaves
<1> HIDE DEF q, L, M, g, d
<1>9. Known(c, Tail(q), M) BY <1>4, <1>5, <1>8, KnownTail
<1>10. ASSUME NEW n \in Names(ConfFiles[c]) PROVE Ordered(Tail(q), M, d, n)
  <2>1. Ordered(q, L, d, n) /\ \A x, y \in At(L, n) : x = y BY <1>5 DEF Ordered
  <2>2. CASE n = g
    <3>1. \A x \in 1..Len(L) : L[x].type # "http" BY <1>5 DEF Known
    <3>2. At(M, n) = {} BY <1>8, <2>1, <2>2, <3>1
    <3>3. QED BY <1>4, <2>1, <3>2, OrderedDrop
  <2>3. CASE n # g
    <3>1. Ordered(Tail(q), L, d, n) BY <1>4, <2>1, <2>3, OrderedSkip
    <3>2. QED BY <1>8, <2>1, <3>1, OrderedLess
  <2>4. QED BY <2>2, <2>3
<1>11. ASSUME NEW p, 1 \notin Drops(q, p.name), Handled(s, p) PROVE Handled(s, p)'
  <2>1. \/ \E r \in failed[s] : Same(r, p)
        \/ p.type = "http" /\ p.at \in registered_domains[s]
        \/ p.type # "http" /\ \E y \in 1..Len(L) : Same(L[y], p)
    BY <1>11 DEF Handled, L
  <2>2. p.name # g BY <1>4, <1>11
  <2>3. ASSUME NEW y \in 1..Len(L), Same(L[y], p) PROVE \E x \in 1..Len(M) : Same(M[x], p)
    <3>1. L[y].name # g BY <2>2, <2>3 DEF Same
    <3>2. QED BY <1>8, <2>3, <3>1
  <2>4. \/ \E r \in failed'[s] : Same(r, p)
        \/ p.type = "http" /\ p.at \in registered_domains'[s]
        \/ p.type # "http" /\ \E x \in 1..Len(M) : Same(M[x], p)
    BY <1>1, <2>1, <2>3
  <2>5. QED BY <2>4 DEF Handled, M
<1>12. QED BY <1>1, <1>3, <1>4, <1>9, <1>10, <1>11, TailAgrees DEF q, M, d

-----------------------------------------------------------------------------
(* Client and server agree: the steps of a client.                           *)

\* What a client sends to the session it is connected to joins what is pending
\* there, and nothing else changes.
LEMMA SentJoins ==
  ASSUME IInv, NEW c \in Clients, NEW messages \in Seq(Messages), SendMessages(c, messages),
         strand' = strand
  PROVE  /\ \A s \in Sessions : Pending(s) \in Seq(Messages)
         /\ \A s \in Sessions : control_stream[c] = s /\ transport[s] = "up" =>
              Pending(s)' = Pending(s) \o messages
         /\ \A s \in Sessions : control_stream[c] # s => Pending(s)' = Pending(s)
<1>1. /\ strand \in [Sessions -> Seq(Handlers)] /\ wire \in [Sessions -> Seq(Messages)]
      /\ control_stream[c] \in Sessions \union {0} /\ \A s \in Sessions : s # 0
  BY Typed DEF IInv
<1>2. ASSUME NEW s \in Sessions
      PROVE  /\ PendingOf(strand[s], wire[s]) \in Seq(Messages)
             /\ PendingOf(strand[s], wire[s] \o messages) =
                  PendingOf(strand[s], wire[s]) \o messages
  <2>1. strand[s] \in Seq(Handlers) /\ wire[s] \in Seq(Messages) BY <1>1
  <2>2. QED BY <2>1, PendingTyped
<1>3. ASSUME NEW s \in Sessions, control_stream[c] = s, transport[s] = "up"
      PROVE  Pending(s)' = Pending(s) \o messages
  <2>1. wire' = [wire EXCEPT ![s] = @ \o messages] BY <1>1, <1>3 DEF SendMessages
  <2>2. wire'[s] = wire[s] \o messages BY <1>1, <2>1
  <2>3. QED BY <1>2, <2>2 DEF Pending
<1>4. ASSUME NEW s \in Sessions, control_stream[c] # s PROVE Pending(s)' = Pending(s)
  <2>1. wire'[s] = wire[s] BY <1>1, <1>4, SentEffect DEF IInv
  <2>2. QED BY <2>1 DEF Pending
<1>5. QED BY <1>2, <1>3, <1>4 DEF Pending

\* What joins says nothing of the names in the directory.
LEMMA ApartJoins ==
  ASSUME NEW c, NEW q \in Seq(Messages), NEW r \in Seq(Messages), NEW L, NEW d,
         Known(c, q, L), \A n \in Names(ConfFiles[c]) : Ordered(q, L, d, n),
         Known(c, r, <<>>),
         \A n \in Names(ConfFiles[c]) : Adds(r, n) = {} /\ Drops(r, n) = {}
  PROVE  /\ Known(c, q \o r, L)
         /\ \A n \in Names(ConfFiles[c]) : Ordered(q \o r, L, d, n)
<1>1. Known(c, q \o r, L) BY KnownJoin
<1>2. ASSUME NEW n \in Names(ConfFiles[c]) PROVE Ordered(q \o r, L, d, n)
  <2>1. Ordered(q, L, d, n) /\ Adds(r, n) = {} /\ Drops(r, n) = {} OBVIOUS
  <2>2. \A p \in d : \E f \in d : Same(f, p) BY SameIsEquivalence
  <2>3. QED BY <2>1, <2>2, OrderedJoin
<1>3. QED BY <1>1, <1>2

\* The difference joins, and reports the new directory.
LEMMA DiffJoins ==
  ASSUME NEW c \in Clients, NEW files \in Directories(c), dynamic_proxies[c] \in Directories(c),
         NEW q \in Seq(Messages), NEW L, Known(c, q, L),
         \A n \in Names(ConfFiles[c]) : Ordered(q, L, dynamic_proxies[c], n)
  PROVE  /\ Known(c, q \o Diff(c, files), L)
         /\ \A n \in Names(ConfFiles[c]) : Ordered(q \o Diff(c, files), L, files, n)
<1> DEFINE r == Diff(c, files)
           old == dynamic_proxies[c]
<1>1. /\ r \in Seq(PlainMessages)
      /\ \A j \in 1..Len(r) :
           \/ r[j].type = "register" /\ r[j].proxy \in files
           \/ r[j].type = "unregister" /\ r[j].proxy.name \in Names(old)
      /\ \A n : \A i, j \in Adds(r, n) : i = j
      /\ \A n : \A j \in Adds(r, n) : n \in Names(old) => \E k \in Drops(r, n) : k < j
      /\ \A p \in old : Drops(r, p.name) # {} \/ \E f \in files : Same(f, p)
  BY DiffOrder
<1>2. files \subseteq ConfFiles[c] /\ old \subseteq ConfFiles[c] BY ProxiesTyped
<1> HIDE DEF r, old
<1>3. r \in Seq(Messages) BY <1>1, PlainQueue
<1>4. Known(c, r, <<>>)
  <2>1. Names(old) \subseteq Names(ConfFiles[c]) BY <1>2 DEF Names
  <2>2. QED BY <1>1, <1>2, <2>1 DEF Known
<1>5. Known(c, q \o r, L) BY <1>3, <1>4, KnownJoin
<1>6. ASSUME NEW n \in Names(ConfFiles[c]) PROVE Ordered(q \o r, L, files, n)
  <2>1. Ordered(q, L, old, n) BY DEF old
  <2>2. \A j \in Adds(r, n) : r[j].proxy \in files
    <3>1. ASSUME NEW j \in Adds(r, n) PROVE r[j].proxy \in files
      <4>1. j \in 1..Len(r) /\ r[j].type = "register" BY DEF Adds
      <4>2. QED BY <1>1, <4>1
    <3>2. QED BY <3>1
  <2>3. \A p \in old : p.name = n => Drops(r, n) # {} \/ \E f \in files : Same(f, p)
    BY <1>1
  <2>4. \A i, j \in Adds(r, n) : i = j BY <1>1
  <2>5. \A j \in Adds(r, n) : n \in Names(old) => \E k \in Drops(r, n) : k < j BY <1>1
  <2>6. QED BY <1>3, <2>1, <2>2, <2>3, <2>4, <2>5, OrderedJoin
<1>7. QED BY <1>5, <1>6 DEF r

\* The registrations of a list.
LEMMA RegistersPlaces ==
  ASSUME NEW list \in Seq(Proxies)
  PROVE  /\ Registers(list) \in Seq(Messages)
         /\ \A j \in 1..Len(Registers(list)) :
              /\ Registers(list)[j].type = "register"
              /\ Registers(list)[j].proxy \in Range(list)
         /\ \A p \in Range(list) : \E i \in Adds(Registers(list), p.name) :
              Registers(list)[i].proxy = p
<1> DEFINE r == Registers(list)
<1>1. r \in Seq(Messages) BY RegistersPlain, PlainQueue
<1>2. /\ Len(r) = Len(list)
      /\ \A j \in 1..Len(r) : r[j] = AddOf(list[j])
  BY DEF Registers, AddOf
<1> HIDE DEF r
<1>3. \A j \in 1..Len(r) : r[j].type = "register" /\ r[j].proxy = list[j]
  BY <1>2, AddAndDrop
<1>4. \A p \in Range(list) : \E j \in 1..Len(list) : list[j] = p BY DEF Range
<1>5. \A j \in 1..Len(list) : list[j] \in Range(list) BY DEF Range
<1>6. \A p \in Range(list) : \E i \in Adds(r, p.name) : r[i].proxy = p
  BY <1>2, <1>3, <1>4 DEF Adds
<1>7. QED BY <1>1, <1>2, <1>3, <1>5, <1>6 DEF r

\* A proxy is handled if another one is that is the same.
LEMMA HandledSame ==
  ASSUME NEW s, NEW p, NEW o, Same(o, p), Handled(s, o)
  PROVE  Handled(s, p)
BY DEF Handled, Same

\* A registration that is pending stays so when another queue joins.
LEMMA RegisteredJoin ==
  ASSUME NEW q \in Seq(Messages), NEW r \in Seq(Messages), NEW p, NEW i \in Adds(q, p.name),
         Same(q[i].proxy, p)
  PROVE  \E j \in Adds(q \o r, p.name) : Same((q \o r)[j].proxy, p)
<1> DEFINE t == q \o r
<1>1. i \in 1..Len(q) /\ q[i].type = "register" /\ q[i].proxy.name = p.name BY DEF Adds
<1>2. i \in 1..Len(t) /\ t[i] = q[i] BY <1>1
<1> HIDE DEF t
<1>3. i \in Adds(t, p.name) BY <1>1, <1>2 DEF Adds
<1>4. QED BY <1>2, <1>3 DEF t

\* Nothing but what client c sends, and its own state, changes.
ClientSends(c, messages) ==
  /\ SendMessages(c, messages)
  /\ UNCHANGED <<strand, transport, control_stream, proxies, registered_domains, failed>>
  /\ \A d \in Clients : d # c => dynamic_proxies'[d] = dynamic_proxies[d]
                                 /\ answered'[d] = answered[d] /\ held'[d] = held[d]

\* The other clients have other sessions.
LEMMA OtherClientAgrees ==
  ASSUME IInv, AgreeInv, NEW c \in Clients, NEW messages \in Seq(Messages),
         ClientSends(c, messages), NEW d \in Clients, d # c, NEW t \in Sessions, Linked(d, t)'
  PROVE  Agree(d, t)'
<1>1. Linked(d, t) /\ Agree(d, t) BY DEF ClientSends, Linked, AgreeInv
<1>2. control_stream[c] # t
  <2>1. t # 0 /\ control_stream[d] = t BY <1>1, Typed DEF IInv, Linked
  <2>2. QED BY <2>1 DEF IInv, LinkInv
<1>3. Pending(t)' = Pending(t) BY <1>2, SentJoins DEF ClientSends
<1>4. QED BY <1>1, <1>3, AgreeStays DEF ClientSends

\* The session of the client: what it promised is still promised or handled.
LEMMA ClientAgrees ==
  ASSUME IInv, AgreeInv, NEW c \in Clients, NEW messages \in Seq(Messages),
         ClientSends(c, messages), NEW s \in Sessions, Linked(c, s)'
  PROVE  /\ Linked(c, s) /\ Agree(c, s) /\ NamesApart(c)
         /\ Pending(s) \in Seq(Messages) /\ Pending(s)' = Pending(s) \o messages
         /\ \A p : /\ Handled(s, p) \in BOOLEAN /\ Handled(s, p)' \in BOOLEAN
                   /\ Handled(s, p)' <=> Handled(s, p)
         /\ proxies'[s] = proxies[s]
<1>1. Linked(c, s) /\ Agree(c, s) BY DEF ClientSends, Linked, AgreeInv
<1>2. Pending(s) \in Seq(Messages) /\ Pending(s)' = Pending(s) \o messages
  BY <1>1, SentJoins DEF ClientSends, Linked
<1>3. \A p : /\ Handled(s, p) \in BOOLEAN /\ Handled(s, p)' \in BOOLEAN
             /\ Handled(s, p)' <=> Handled(s, p)
  BY DEF Handled, ClientSends
<1>4. QED BY <1>1, <1>2, <1>3 DEF ClientSends, Linked

\* The login is sent.
LEMMA LoginSentAgrees ==
  ASSUME IInv, AgreeInv, NEW c \in Clients, DoLogin(c), NEW d \in Clients,
         NEW s \in Sessions, Linked(d, s)'
  PROVE  Agree(d, s)'
<1> DEFINE m == Message("login", name[c], NoProxy)
           r == <<m>>
           q == Pending(s)
<1>1. m \in Messages /\ m.type = "login"
  <2>1. name[c] \in ClientNames BY DEF IInv, Types
  <2>2. QED BY <2>1, MessageKinds DEF Messages, Message
<1>2. r \in Seq(Messages) /\ Len(r) = 1 /\ r[1] = m BY <1>1
<1>3. UNCHANGED <<strand, transport, control_stream, proxies, registered_domains, failed,
                  dynamic_proxies, answered, held>>
  BY DEF DoLogin, fields, pending, past
<1>4. ClientSends(c, r) BY <1>3 DEF DoLogin, ClientSends
<1> HIDE DEF m, r
<1>5. CASE d # c BY <1>2, <1>4, <1>5, OtherClientAgrees
<1>6. CASE d = c
  <2>1. /\ Agree(c, s) /\ q \in Seq(Messages) /\ Pending(s)' = q \o r
        /\ \A p : /\ Handled(s, p) \in BOOLEAN /\ Handled(s, p)' \in BOOLEAN
                  /\ Handled(s, p)' <=> Handled(s, p)
        /\ proxies'[s] = proxies[s]
    BY <1>2, <1>4, <1>6, ClientAgrees
  <2>2. \A n : Adds(r, n) = {} /\ Drops(r, n) = {} BY <1>1, <1>2 DEF Adds, Drops
  <2>3. Known(c, r, <<>>) BY <1>1, <1>2 DEF Known
  <2>4. Known(c, q, proxies[s])
        /\ \A n \in Names(ConfFiles[c]) : Ordered(q, proxies[s], dynamic_proxies[c], n)
    BY <2>1 DEF Agree
  <2> HIDE DEF q
  <2>5. Known(c, q \o r, proxies[s])
        /\ \A n \in Names(ConfFiles[c]) : Ordered(q \o r, proxies[s], dynamic_proxies[c], n)
    BY <1>2, <2>1, <2>2, <2>3, <2>4, ApartJoins
  <2>6. ASSUME NEW p \in dynamic_proxies[c] \ held[c]
        PROVE  Promised(q \o r, p, Handled(s, p)')
    <3>1. Promised(q, p, Handled(s, p)) BY <2>1, <2>6 DEF Agree, q
    <3>2. Drops(r, p.name) = {} /\ Same(p, p) BY <2>2, SameIsEquivalence
    <3>3. QED BY <1>2, <2>1, <3>1, <3>2, PromiseJoin
  <2>7. ASSUME answered[c], NEW p \in Range(Static[c])
        PROVE  Handled(s, p)' \/ \E i \in Adds(q \o r, p.name) : Same((q \o r)[i].proxy, p)
    <3>1. Handled(s, p) \/ \E i \in Adds(q, p.name) : Same(q[i].proxy, p)
      BY <2>1, <2>7 DEF Agree, q
    <3>2. q \in Seq(Messages) /\ (Handled(s, p) => Handled(s, p)') BY <2>1
    <3>3. QED BY <1>2, <3>1, <3>2, RegisteredJoin
  <2>8. Agree(c, s)' BY <1>3, <2>1, <2>5, <2>6, <2>7 DEF Agree
  <2>9. QED BY <1>6, <2>8
<1>7. QED BY <1>5, <1>6

\* The directory is polled.
LEMMA PollAgrees ==
  ASSUME IInv, AgreeInv, NEW c \in Clients, PollConfDirectory(c), NEW d \in Clients,
         NEW s \in Sessions, Linked(d, s)'
  PROVE  Agree(d, s)'
<1> DEFINE q == Pending(s)
           old == dynamic_proxies[c]
<1>1. PICK found \in Directories(c) : Found(c, found) /\ SendMessages(c, Diff(c, found))
  BY DEF PollConfDirectory
<1> DEFINE r == Diff(c, found)
<1>2. /\ Types /\ old \in Directories(c) /\ dynamic_proxies \in [Clients -> SUBSET Proxies]
      /\ held \in [Clients -> SUBSET Proxies]
  BY Typed DEF IInv, Types, AgreeInv, PastTyped
<1>3. r \in Seq(Messages) BY <1>1, <1>2, FoundEffect, PlainQueue
<1>4. UNCHANGED <<strand, transport, control_stream, proxies, registered_domains, failed, answered>>
  BY DEF PollConfDirectory, fields, pending
<1>5. /\ dynamic_proxies'[c] = found
      /\ held'[c] = {f \in found : \E p \in held[c] : Same(p, f)}
      /\ \A e \in Clients : e # c => /\ dynamic_proxies'[e] = dynamic_proxies[e]
                                      /\ held'[e] = held[e]
  BY <1>1, <1>2 DEF Found
<1>6. ClientSends(c, r) BY <1>1, <1>4, <1>5 DEF ClientSends
<1> HIDE DEF r
<1>7. CASE d # c BY <1>3, <1>6, <1>7, OtherClientAgrees
<1>8. CASE d = c
  <2>1. /\ Agree(c, s) /\ q \in Seq(Messages) /\ Pending(s)' = q \o r
        /\ \A p : /\ Handled(s, p) \in BOOLEAN /\ Handled(s, p)' \in BOOLEAN
                  /\ Handled(s, p)' <=> Handled(s, p)
        /\ proxies'[s] = proxies[s]
    BY <1>3, <1>6, <1>8, ClientAgrees
  <2>2. Known(c, q, proxies[s])
        /\ \A n \in Names(ConfFiles[c]) : Ordered(q, proxies[s], old, n)
    BY <2>1 DEF Agree
  <2>3. Known(c, q \o r, proxies[s])
        /\ \A n \in Names(ConfFiles[c]) : Ordered(q \o r, proxies[s], found, n)
    <3> HIDE DEF q
    <3>1. QED BY <1>2, <2>1, <2>2, DiffJoins DEF r
  <2>4. \A p \in found :
          \/ \E i \in Adds(r, p.name) : /\ r[i].proxy = p
                                        /\ \A k \in Drops(r, p.name) : k < i
          \/ Drops(r, p.name) = {} /\ \E o \in old : Same(o, p)
    BY <1>2, DiffOrder DEF r
  <2> HIDE DEF q, old
  <2>5. ASSUME NEW p \in found \ held'[c]
        PROVE  Promised(q \o r, p, Handled(s, p)')
    <3>1. CASE \E i \in Adds(r, p.name) : /\ r[i].proxy = p
                                          /\ \A k \in Drops(r, p.name) : k < i
      <4>1. \E i \in Adds(r, p.name) : /\ Same(r[i].proxy, p)
                                       /\ \A k \in Drops(r, p.name) : k < i
        BY <3>1, SameIsEquivalence
      <4>2. QED BY <1>3, <2>1, <4>1, PromiseJoin
    <3>2. ASSUME Drops(r, p.name) = {}, NEW o \in old, Same(o, p)
          PROVE  Promised(q \o r, p, Handled(s, p)')
      <4>0. o \notin held[c] BY <1>5, <2>5, <3>2
      <4>1. Promised(q, o, Handled(s, o)) BY <2>1, <3>2, <4>0 DEF Agree, q, old
      <4>2. Handled(s, o) => Handled(s, p)' BY <2>1, <3>2, HandledSame
      <4>3. QED BY <1>3, <2>1, <3>2, <4>1, <4>2, PromiseJoin
    <3>3. QED BY <2>4, <3>1, <3>2
  <2>6. ASSUME answered[c], NEW p \in Range(Static[c])
        PROVE  Handled(s, p)' \/ \E i \in Adds(q \o r, p.name) : Same((q \o r)[i].proxy, p)
    <3>1. Handled(s, p) \/ \E i \in Adds(q, p.name) : Same(q[i].proxy, p)
      BY <2>1, <2>6 DEF Agree, q
    <3>2. q \in Seq(Messages) /\ (Handled(s, p) => Handled(s, p)') BY <2>1
    <3>3. QED BY <1>3, <3>1, <3>2, RegisteredJoin
  <2>7. Agree(c, s)' BY <1>4, <1>5, <2>1, <2>3, <2>5, <2>6 DEF Agree
  <2>8. QED BY <1>8, <2>7
<1>9. QED BY <1>7, <1>8

\* The answer to the login: the proxies of the configuration are registered, and
\* what the poll finds changed in the directory.
LEMMA AnswerAgrees ==
  ASSUME IInv, AgreeInv, NEW c \in Clients, handle_login_resp(c), NEW d \in Clients,
         NEW s \in Sessions, Linked(d, s)'
  PROVE  Agree(d, s)'
<1> DEFINE q == Pending(s)
           old == dynamic_proxies[c]
           a == Registers(Static[c])
<1>1. PICK found \in Directories(c) : Found(c, found) /\ SendMessages(c, a \o Diff(c, found))
  BY DEF handle_login_resp
<1> DEFINE b == Diff(c, found)
<1>2. /\ Types /\ old \in Directories(c) /\ dynamic_proxies \in [Clients -> SUBSET Proxies]
      /\ held \in [Clients -> SUBSET Proxies] /\ answered \in [Clients -> BOOLEAN]
      /\ Static[c] \in Seq(Proxies)
  BY Typed, ProxiesTyped DEF IInv, Types, AgreeInv, PastTyped
<1>3. /\ a \in Seq(Messages)
      /\ \A j \in 1..Len(a) : a[j].type = "register" /\ a[j].proxy \in Range(Static[c])
      /\ \A p \in Range(Static[c]) : \E i \in Adds(a, p.name) : a[i].proxy = p
  BY <1>2, RegistersPlaces
<1>4. b \in Seq(Messages) BY <1>1, <1>2, FoundEffect, PlainQueue
<1>5. UNCHANGED <<strand, transport, control_stream, proxies, registered_domains, failed>>
  BY DEF handle_login_resp, fields, pending, past
<1>6. /\ dynamic_proxies'[c] = found
      /\ held'[c] = {f \in found : \E p \in held[c] : Same(p, f)}
      /\ \A e \in Clients : e # c => /\ dynamic_proxies'[e] = dynamic_proxies[e]
                                      /\ held'[e] = held[e]
  BY <1>1, <1>2 DEF Found
<1>7. \A e \in Clients : e # c => answered'[e] = answered[e]
  <2>1. answered' = [answered EXCEPT ![c] = TRUE] BY DEF handle_login_resp
  <2>2. QED BY <1>2, <2>1
<1>8. ClientSends(c, a \o b) BY <1>1, <1>5, <1>6, <1>7 DEF ClientSends
<1> HIDE DEF a, b
<1>9. a \o b \in Seq(Messages) BY <1>3, <1>4
<1>10. CASE d # c BY <1>8, <1>9, <1>10, OtherClientAgrees
<1>11. CASE d = c
  <2>1. /\ Agree(c, s) /\ NamesApart(c) /\ q \in Seq(Messages)
        /\ Pending(s)' = q \o (a \o b)
        /\ \A p : /\ Handled(s, p) \in BOOLEAN /\ Handled(s, p)' \in BOOLEAN
                  /\ Handled(s, p)' <=> Handled(s, p)
        /\ proxies'[s] = proxies[s]
    BY <1>8, <1>9, <1>11, ClientAgrees
  <2>2. Known(c, q, proxies[s])
        /\ \A n \in Names(ConfFiles[c]) : Ordered(q, proxies[s], old, n)
    BY <2>1 DEF Agree
  <2>3. Known(c, a, <<>>) BY <1>3 DEF Known
  <2>4. ASSUME NEW n \in Names(ConfFiles[c]) PROVE Adds(a, n) = {} /\ Drops(a, n) = {}
    <3>1. \A p \in Range(Static[c]) : p.name # n BY <2>1 DEF NamesApart, Names
    <3>2. \A j \in 1..Len(a) : a[j].type # "unregister" /\ a[j].proxy.name # n
      BY <1>3, <3>1
    <3>3. QED BY <3>2 DEF Adds, Drops
  <2> DEFINE u == q \o a
             v == u \o b
  <2>5. u \in Seq(Messages) BY <1>3, <2>1
  <2>6. Pending(s)' = v
    <3>1. q \in Seq(Messages) BY <2>1
    <3> HIDE DEF q
    <3>2. QED BY <1>3, <1>4, <2>1, <3>1, JoinsAssociate
  <2>7. Known(c, u, proxies[s])
        /\ \A n \in Names(ConfFiles[c]) : Ordered(u, proxies[s], old, n)
    <3> HIDE DEF q, old
    <3>1. q \in Seq(Messages) BY <2>1
    <3>2. QED BY <1>3, <2>2, <2>3, <2>4, <3>1, ApartJoins
  <2> HIDE DEF u, q
  <2>8. Known(c, v, proxies[s])
        /\ \A n \in Names(ConfFiles[c]) : Ordered(v, proxies[s], found, n)
    BY <1>2, <2>5, <2>7, DiffJoins DEF b
  <2>9. \A p \in found :
          \/ \E i \in Adds(b, p.name) : /\ b[i].proxy = p
                                        /\ \A k \in Drops(b, p.name) : k < i
          \/ Drops(b, p.name) = {} /\ \E o \in old : Same(o, p)
    BY <1>2, DiffOrder DEF b
  <2>10. ASSUME NEW p \in found \ held'[c] PROVE Promised(v, p, Handled(s, p)')
    <3>1. Handled(s, p)' \in BOOLEAN BY <2>1
    <3>2. CASE \E i \in Adds(b, p.name) : /\ b[i].proxy = p
                                          /\ \A k \in Drops(b, p.name) : k < i
      <4>1. \E i \in Adds(b, p.name) : Same(b[i].proxy, p) /\ \A k \in Drops(b, p.name) : k < i
        BY <3>2, SameIsEquivalence
      <4>2. QED BY <1>4, <2>5, <3>1, <4>1, PromiseJoin
    <3>3. ASSUME Drops(b, p.name) = {}, NEW o \in old, Same(o, p)
          PROVE  Promised(v, p, Handled(s, p)')
      <4>1. o \notin held[c] BY <1>6, <2>10, <3>3
      <4>2. Promised(q, o, Handled(s, o)) BY <2>1, <3>3, <4>1 DEF Agree, q, old
      <4>3. Drops(a, p.name) = {} BY <1>3 DEF Drops
      <4>4. Promised(u, p, Handled(s, p)') 
        <5>1. q \in Seq(Messages) /\ (Handled(s, o) => Handled(s, p)')
          BY <2>1, <3>3, HandledSame
        <5>2. QED BY <1>3, <2>1, <3>1, <3>3, <4>2, <4>3, <5>1, PromiseJoin DEF u
      <4>5. QED BY <1>4, <2>5, <3>1, <3>3, <4>4, PromiseJoin, SameIsEquivalence
    <3>4. QED BY <2>9, <3>2, <3>3
  <2>11. ASSUME NEW p \in Range(Static[c])
         PROVE  \E i \in Adds(v, p.name) : Same(v[i].proxy, p)
    <3>1. PICK i \in Adds(a, p.name) : a[i].proxy = p BY <1>3
    <3>2. Len(q) + i \in Adds(u, p.name) /\ u[Len(q) + i] = a[i]
      <4>1. q \in Seq(Messages) BY <2>1
      <4>2. i \in 1..Len(a) /\ a[i].type = "register" /\ a[i].proxy.name = p.name
        BY DEF Adds
      <4>3. Len(q) + i \in 1..Len(u) /\ u[Len(q) + i] = a[i]
        BY <1>3, <4>1, <4>2 DEF u
      <4>4. QED BY <4>2, <4>3 DEF Adds
    <3>3. Same(u[Len(q) + i].proxy, p) BY <3>1, <3>2, SameIsEquivalence
    <3>4. QED BY <1>4, <2>5, <3>2, <3>3, RegisteredJoin
  <2> HIDE DEF v
  <2>12. Agree(c, s)' BY <1>6, <2>1, <2>6, <2>8, <2>10, <2>11 DEF Agree
  <2>13. QED BY <1>11, <2>12
<1>12. QED BY <1>10, <1>11

\* A session begins: nothing is pending, and there is no listener.
LEMMA StartAgrees ==
  ASSUME IInv, AgreeInv, NEW c \in Clients, NEW s \in Sessions, start_control(c, s),
         NEW d \in Clients, NEW t \in Sessions, Linked(d, t)'
  PROVE  Agree(d, t)'
<1>1. /\ transport[s] = "handshaking" /\ control_stream[c] = 0
      /\ transport' = [transport EXCEPT ![s] = "up"]
      /\ control_stream' = [control_stream EXCEPT ![c] = s]
      /\ answered' = [answered EXCEPT ![c] = FALSE]
      /\ held' = [held EXCEPT ![c] = dynamic_proxies[c]]
      /\ UNCHANGED <<strand, wire, proxies, registered_domains, failed, dynamic_proxies>>
  BY DEF start_control, fields, past
<1>2. /\ transport \in [Sessions -> {"none", "handshaking", "up", "lost"}]
      /\ control_stream \in [Clients -> Sessions \union {0}]
      /\ answered \in [Clients -> BOOLEAN] /\ held \in [Clients -> SUBSET Proxies]
  BY Typed DEF IInv, AgreeInv, PastTyped
<1>3. /\ control_stream'[d] = IF d = c THEN s ELSE control_stream[d]
      /\ transport'[t] = IF t = s THEN "up" ELSE transport[t]
      /\ answered'[d] = IF d = c THEN FALSE ELSE answered[d]
      /\ held'[d] = IF d = c THEN dynamic_proxies[c] ELSE held[d]
  BY <1>1, <1>2
<1>4. control_stream'[d] = t BY DEF Linked
<1>5. CASE d = c
  <2>1. t = s /\ ~answered'[c] /\ dynamic_proxies'[c] \ held'[c] = {}
    BY <1>1, <1>3, <1>4, <1>5
  <2>2. strand[s] = <<>> /\ wire[s] = <<>> /\ proxies[s] = <<>>
    BY <1>1 DEF IInv, FreshInv, AgreeInv, ReadInv
  <2>3. Pending(s)' = <<>> /\ proxies'[s] = <<>>
    <3>1. Held(<<>>) = {} BY DEF Held
    <3>2. QED BY <1>1, <2>2, <3>1 DEF Pending, PendingOf
  <2>4. Known(c, <<>>, <<>>) BY DEF Known
  <2>5. \A n : Ordered(<<>>, <<>>, dynamic_proxies[c], n) BY DEF Ordered, Adds, At
  <2>6. QED BY <1>1, <1>5, <2>1, <2>3, <2>4, <2>5 DEF Agree
<1>6. CASE d # c
  <2>1. control_stream[d] = t /\ t # s BY <1>1, <1>3, <1>4, <1>6 DEF IInv, FreshInv
  <2>2. Linked(d, t) BY <1>3, <2>1 DEF Linked
  <2>3. Pending(t)' = Pending(t) BY <1>1 DEF Pending
  <2>4. QED BY <1>1, <1>3, <1>6, <2>2, <2>3, AgreeStays DEF AgreeInv
<1>7. QED BY <1>5, <1>6

\* A connection is accepted, or is gone for its client.
LEMMA ConnectionAgrees ==
  ASSUME IInv, AgreeInv, accept \/ \E c \in Clients : disconnected(c),
         NEW d \in Clients, NEW t \in Sessions, Linked(d, t)'
  PROVE  Agree(d, t)'
<1>1. /\ transport \in [Sessions -> {"none", "handshaking", "up", "lost"}]
      /\ control_stream \in [Clients -> Sessions \union {0}]
      /\ answered \in [Clients -> BOOLEAN] /\ held \in [Clients -> SUBSET Proxies]
      /\ t # 0
  BY Typed DEF IInv, AgreeInv, PastTyped
<1>2. control_stream'[d] = t /\ transport'[t] = "up" BY DEF Linked
<1>3. /\ \/ /\ transport' = [transport EXCEPT ![made + 1] = "handshaking"]
            /\ UNCHANGED <<control_stream, answered, held>>
         \/ /\ UNCHANGED transport
            /\ \E c \in Clients : /\ control_stream' = [control_stream EXCEPT ![c] = 0]
                                  /\ answered' = [answered EXCEPT ![c] = FALSE]
                                  /\ held' = [held EXCEPT ![c] = {}]
      /\ UNCHANGED <<strand, wire, proxies, registered_domains, failed, dynamic_proxies>>
  BY DEF accept, disconnected, fields, pending, client, past
<1>4. /\ control_stream[d] = t /\ transport[t] = "up"
      /\ answered'[d] = answered[d] /\ held'[d] = held[d]
  BY <1>1, <1>2, <1>3
<1>5. Linked(d, t) BY <1>4 DEF Linked
<1>6. Pending(t)' = Pending(t) BY <1>3 DEF Pending
<1>7. QED BY <1>3, <1>4, <1>5, <1>6, AgreeStays DEF AgreeInv

-----------------------------------------------------------------------------
(* Client and server agree: the theorems.                                    *)

\* In the beginning nobody is connected.
LEMMA NobodyLinked ==
  ASSUME Init
  PROVE  AgreeInv
<1>1. \A s \in Sessions : s # 0 BY RegistryAssumption DEF Sessions
<1>2. PastTyped BY DEF Init, PastTyped
<1>3. ReadInv
  <2>1. Held(<<>>) = {} BY DEF Held
  <2>2. QED BY <2>1 DEF Init, ReadInv, InTurn
<1>4. \A c \in Clients, s \in Sessions : ~Linked(c, s) BY <1>1 DEF Init, Linked
<1>5. QED BY <1>2, <1>3, <1>4 DEF AgreeInv

\* A step of a session keeps the agreement.
LEMMA SessionAgrees ==
  ASSUME IInv, AgreeInv, NEW s \in Sessions, Strand(s) \/ Network(s)
  PROVE  AgreeInv'
<1>1. PastTyped /\ ReadInv BY DEF AgreeInv
<1>2. /\ UNCHANGED <<control_stream, dynamic_proxies, answered, held>>
      /\ failed' \in [Sessions -> SUBSET Proxies]
      /\ \A t \in Sessions : t # s => Kept(t)
  BY <1>1, OthersKept
<1>3. PastTyped' /\ ReadInv' BY <1>1, <1>2, SessionReads DEF PastTyped
<1>4. ASSUME NEW c \in Clients, NEW t \in Sessions, Linked(c, t)' PROVE Agree(c, t)'
  <2>1. CASE t # s BY <1>2, <1>4, <2>1, KeptAgree
  <2>2. CASE t = s
    BY <1>4, <2>2, NothingHandled, LoginAgrees, RegisterAgrees, UnregisterAgrees
    DEF Strand, Network
  <2>3. QED BY <2>1, <2>2
<1>5. QED BY <1>3, <1>4 DEF AgreeInv

\* A step of a client keeps it, and a connection that is accepted.
LEMMA ClientKeepsAgreement ==
  ASSUME IInv, AgreeInv, accept \/ \E c \in Clients : Client(c)
  PROVE  AgreeInv'
<1>1. PastTyped /\ ReadInv BY DEF AgreeInv
<1>2. ReadInv' BY <1>1, ClientReads
<1>3. PastTyped'
  <2>1. CASE accept BY <1>1, <2>1 DEF accept, client, PastTyped
  <2>2. ASSUME NEW c \in Clients, Client(c) PROVE PastTyped'
    <3>1. failed' = failed
      BY <2>2 DEF Client, start_control, DoLogin, handle_login_resp, PollConfDirectory,
                  disconnected, past
    <3>2. \/ answered' = answered
          \/ \E b \in BOOLEAN : answered' = [answered EXCEPT ![c] = b]
      BY <2>2 DEF Client, start_control, DoLogin, handle_login_resp, PollConfDirectory,
                  disconnected
    <3>3. answered' \in [Clients -> BOOLEAN] BY <1>1, <3>2 DEF PastTyped
    <3>4. dynamic_proxies[c] \subseteq Proxies
      <4>1. dynamic_proxies[c] \in Directories(c) BY Typed DEF IInv
      <4>2. QED BY <4>1, ProxiesTyped
    <3>5. \A found \in Directories(c) : found \subseteq Proxies BY ProxiesTyped
    <3>6. held' = held \/ \E f \in SUBSET Proxies : held' = [held EXCEPT ![c] = f]
      <4>1. CASE DoLogin(c) BY <4>1 DEF DoLogin
      <4>2. CASE \E s \in Sessions : start_control(c, s) BY <3>4, <4>2 DEF start_control
      <4>3. CASE handle_login_resp(c) \/ PollConfDirectory(c)
        <5>1. PICK found \in Directories(c) : Found(c, found)
          BY <4>3 DEF handle_login_resp, PollConfDirectory
        <5>2. QED BY <3>5, <5>1 DEF Found
      <4>4. CASE disconnected(c) BY <4>4 DEF disconnected
      <4>5. QED BY <2>2, <4>1, <4>2, <4>3, <4>4 DEF Client
    <3>7. held' \in [Clients -> SUBSET Proxies] BY <1>1, <3>6 DEF PastTyped
    <3>8. QED BY <1>1, <3>1, <3>3, <3>7 DEF PastTyped
  <2>3. QED BY <2>1, <2>2
<1>4. ASSUME NEW d \in Clients, NEW t \in Sessions, Linked(d, t)' PROVE Agree(d, t)'
  <2>1. CASE accept \/ \E c \in Clients : disconnected(c) BY <1>4, <2>1, ConnectionAgrees
  <2>2. ASSUME NEW c \in Clients, Client(c), ~disconnected(c) PROVE Agree(d, t)'
    BY <1>4, <2>2, StartAgrees, LoginSentAgrees, PollAgrees, AnswerAgrees DEF Client
  <2>3. QED BY <2>1, <2>2
<1>5. QED BY <1>2, <1>3, <1>4 DEF AgreeInv

\* What a session has still to handle, messages that are read or on the wire,
\* leads from the proxies the server has to those the client has reported.
THEOREM Agreement == Spec => []AgreeInv
<1>1. Init => AgreeInv BY NobodyLinked
<1>2. IInv /\ AgreeInv /\ [Next]_vars => AgreeInv'
  <2> SUFFICES ASSUME IInv, AgreeInv, [Next]_vars PROVE AgreeInv'
    OBVIOUS
  <2>1. CASE accept BY <2>1, ClientKeepsAgreement
  <2>2. ASSUME NEW s \in Sessions, Strand(s) \/ Network(s) PROVE AgreeInv'
    BY <2>2, SessionAgrees
  <2>3. ASSUME NEW c \in Clients, Client(c) PROVE AgreeInv'
    BY <2>3, ClientKeepsAgreement
  <2>4. CASE UNCHANGED vars
    <3>1. UNCHANGED <<strand, wire, reading, stopping, transport, proxies, registered_domains,
                      failed, control_stream, dynamic_proxies, answered, held>>
      BY <2>4 DEF vars, fields, pending, links, client, past
    <3>2. PastTyped' /\ ReadInv' BY <3>1 DEF AgreeInv, PastTyped, ReadInv
    <3>3. ASSUME NEW c \in Clients, NEW s \in Sessions, Linked(c, s)' PROVE Agree(c, s)'
      <4>1. Kept(s) BY <3>1 DEF Kept
      <4>2. QED BY <3>1, <3>3, <4>1, KeptAgree
    <3>4. QED BY <3>2, <3>3 DEF AgreeInv
  <2>5. QED BY <2>1, <2>2, <2>3, <2>4 DEF Next
<1>3. QED BY <1>1, <1>2, Invariance, PTL DEF Spec

\* When nothing is on its way, the session a client is connected to, whichever
\* it is, has a listener, or the domain, for each proxy of the configuration
\* and each file of the directory that came or changed since the client
\* connected, unless it refused it, and no listener of anything else: whatever
\* PollConfDirectory found, and when.  (Names are apart; what was kept over the
\* reconnect is in held.)
THEOREM ConfIsApplied == Spec => []ConfApplied
<1>1. IInv /\ AgreeInv => ConfApplied
  <2> SUFFICES ASSUME IInv, AgreeInv, NEW c \in Clients, NEW s \in Sessions,
                      Settled(c, s), NamesApart(c)
               PROVE  /\ \A p \in Wanted(c) \ held[c] : Handled(s, p)
                      /\ \A i \in 1..Len(proxies[s]) :
                           \E p \in Wanted(c) : Same(proxies[s][i], p)
    BY DEF ConfApplied
  <2> DEFINE L == proxies[s]
             d == dynamic_proxies[c]
  <2>1. Linked(c, s) /\ answered[c] /\ strand[s] = <<>> /\ wire[s] = <<>>
    BY DEF Settled, Linked
  <2>2. Pending(s) = <<>>
    <3>1. Held(<<>>) = {} BY DEF Held
    <3>2. QED BY <2>1, <3>1 DEF Pending, PendingOf
  <2>3. \A n : Adds(<<>>, n) = {} /\ Drops(<<>>, n) = {} BY DEF Adds, Drops
  <2>4. /\ Known(c, <<>>, L)
        /\ \A n \in Names(ConfFiles[c]) : Ordered(<<>>, L, d, n)
        /\ \A p \in d \ held[c] : Promised(<<>>, p, Handled(s, p))
        /\ \A p \in Range(Static[c]) :
             Handled(s, p) \/ \E i \in Adds(<<>>, p.name) : Same(<<>>[i].proxy, p)
    BY <2>1, <2>2 DEF AgreeInv, Agree
  <2>5. \A p \in d \ held[c] : Handled(s, p) BY <2>3, <2>4 DEF Promised, Coming
  <2>6. \A p \in Range(Static[c]) : Handled(s, p) BY <2>3, <2>4
  <2>7. ASSUME NEW i \in 1..Len(L) PROVE \E p \in Wanted(c) : Same(L[i], p)
    <3>1. L[i] \in Range(Static[c]) \union ConfFiles[c] BY <2>4 DEF Known
    <3>2. CASE L[i] \in Range(Static[c]) BY <3>2, SameIsEquivalence DEF Wanted
    <3>3. CASE L[i] \in ConfFiles[c]
      <4>1. L[i].name \in Names(ConfFiles[c]) BY <3>3 DEF Names
      <4>2. i \in At(L, L[i].name) BY DEF At
      <4>3. \E p \in d : Same(p, L[i]) BY <2>3, <2>4, <4>1, <4>2 DEF Ordered
      <4>4. QED BY <4>3, SameIsEquivalence DEF Wanted
    <3>4. QED BY <3>1, <3>2, <3>3
  <2>8. QED BY <2>5, <2>6, <2>7 DEF Wanted
<1>2. QED BY <1>1, Invariance, Agreement, PTL

=============================================================================
