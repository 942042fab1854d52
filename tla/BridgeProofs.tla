---------------------------- MODULE BridgeProofs ----------------------------
(***************************************************************************)
(* Proofs about Bridge, for any number of bridges, any sizes and limits:    *)
(* a bridge ends whole and counts its visitor off once, the buffers of the  *)
(* pool are all accounted for, and the limiter never lets more go than the  *)
(* limit and always has a timer running for those that wait.                *)
(***************************************************************************)
EXTENDS Bridge, FiniteSetTheorems, WellFoundedInduction, TLAPS

-----------------------------------------------------------------------------
(* The pool.                                                                 *)

Kinds3 == {"none", "pool", "temp"}

\* 1 for a buffer of the pool.
Weight(k) == IF k = "pool" THEN 1 ELSE 0

\* The places that hold a buffer of the pool.
Holding(f) == {l \in Loops : f[l] = "pool"}

\* The bucket p is right when c of its buffers are in use.
Right(p, c) ==
    /\ p \in Buckets
    /\ c \in Nat
    /\ p.free + c = p.allocated
    /\ p.allocated <= MaxCount

\* Get hands out a buffer and counts it.
LEMMA GetIsRight ==
    ASSUME NEW p, NEW c, Right(p, c)
    PROVE  /\ Got(p) \in {"pool", "temp"}
           /\ Right(Get(p), c + Weight(Got(p)))
<1>1. /\ p \in [free : Nat, allocated : Nat] /\ c \in Nat
      /\ p.free + c = p.allocated /\ p.allocated <= MaxCount
    BY DEF Right, Buckets
<1>2. MaxCount \in Nat BY PoolAssumption
<1>3. CASE p.free > 0
    BY <1>1, <1>2, <1>3 DEF Got, Get, Weight, Right, Buckets
<1>4. CASE ~(p.free > 0) /\ p.allocated < MaxCount
    BY <1>1, <1>2, <1>4 DEF Got, Get, Weight, Right, Buckets
<1>5. CASE ~(p.free > 0) /\ ~(p.allocated < MaxCount)
    BY <1>1, <1>2, <1>5 DEF Got, Get, Weight, Right, Buckets
<1>6. QED BY <1>3, <1>4, <1>5

\* Return takes back a buffer that is in use; its fallback is never taken.
LEMMA ReturnIsRight ==
    ASSUME NEW p, NEW c, NEW k \in Kinds3, Right(p, c), Weight(k) <= c
    PROVE  Right(Return(p, k), c - Weight(k))
<1>1. /\ p \in [free : Nat, allocated : Nat] /\ c \in Nat
      /\ p.free + c = p.allocated /\ p.allocated <= MaxCount
    BY DEF Right, Buckets
<1>2. MaxCount \in Nat BY PoolAssumption
<1>3. CASE k # "pool"
    BY <1>1, <1>2, <1>3 DEF Return, Weight, Right, Buckets
<1>4. CASE k = "pool"
    <2>1. c >= 1 BY <1>1, <1>4 DEF Weight
    <2>2. p.free < MaxCount BY <1>1, <1>2, <2>1
    <2>3. QED BY <1>1, <1>2, <1>4, <2>1, <2>2 DEF Return, Weight, Right, Buckets
<1>5. QED BY <1>3, <1>4

\* There are finitely many loops.
LEMMA LoopsFinite == IsFiniteSet(Loops)
<1>1. IsFiniteSet({1, 2})
    <2>1. IsFiniteSet({1}) BY FS_Singleton
    <2>2. IsFiniteSet({1} \cup {2}) BY <2>1, FS_AddElement
    <2>3. {1} \cup {2} = {1, 2} OBVIOUS
    <2>4. QED BY <2>2, <2>3
<1>2. IsFiniteSet(Bridges) BY BridgeAssumption
<1>3. IsFiniteSet(Bridges \X {1, 2}) BY <1>1, <1>2, FS_Product
<1>4. QED BY <1>3 DEF Loops

\* Holding is finite, and counts every buffer of the pool.
LEMMA HoldingFinite ==
    ASSUME NEW f \in [Loops -> Kinds3]
    PROVE  /\ IsFiniteSet(Holding(f))
           /\ Cardinality(Holding(f)) \in Nat
           /\ \A l \in Loops : Weight(f[l]) <= Cardinality(Holding(f))
<1>1. Holding(f) \in SUBSET Loops BY DEF Holding
<1>2. IsFiniteSet(Holding(f)) BY <1>1, LoopsFinite, FS_Subset
<1>3. Cardinality(Holding(f)) \in Nat BY <1>2, FS_CardinalityType
<1>4. ASSUME NEW l \in Loops PROVE Weight(f[l]) <= Cardinality(Holding(f))
    <2>1. CASE f[l] = "pool"
        <3>1. Holding(f) # {} BY <2>1 DEF Holding
        <3>2. Cardinality(Holding(f)) # 0 BY <3>1, <1>2, FS_EmptySet
        <3>3. QED BY <3>2, <1>3, <2>1 DEF Weight
    <2>2. CASE f[l] # "pool" BY <2>2, <1>3 DEF Weight
    <2>3. QED BY <2>1, <2>2
<1>5. QED BY <1>2, <1>3, <1>4

\* What a place gives back and takes is what the count changes by.
LEMMA HoldingUpdate ==
    ASSUME NEW f \in [Loops -> Kinds3], NEW g \in [Loops -> Kinds3], NEW l \in Loops,
           \A m \in Loops : m # l => g[m] = f[m]
    PROVE  Cardinality(Holding(g)) = Cardinality(Holding(f)) - Weight(f[l]) + Weight(g[l])
<1> DEFINE H == Holding(f)
           k == g[l]
<1>1. IsFiniteSet(H) /\ Cardinality(H) \in Nat BY HoldingFinite
<1> DEFINE Claim == Cardinality(Holding(g)) = Cardinality(H) - Weight(f[l]) + Weight(k)
<1>3. ASSUME k = "pool", f[l] = "pool" PROVE Claim
    <2>1. Holding(g) = H BY <1>3 DEF Holding
    <2> HIDE DEF H, k
    <2>2. QED BY <1>1, <1>3, <2>1 DEF Weight
<1>4. ASSUME k = "pool", f[l] # "pool" PROVE Claim
    <2>1. Holding(g) = H \cup {l} /\ l \notin H BY <1>4 DEF Holding
    <2> HIDE DEF H, k
    <2>2. Cardinality(H \cup {l}) = Cardinality(H) + 1 BY <1>1, <2>1, FS_AddElement
    <2>3. QED BY <1>1, <1>4, <2>1, <2>2 DEF Weight
<1>5. ASSUME k # "pool", f[l] = "pool" PROVE Claim
    <2>1. Holding(g) = H \ {l} /\ l \in H BY <1>5 DEF Holding
    <2> HIDE DEF H, k
    <2>2. Cardinality(H \ {l}) = Cardinality(H) - 1 BY <1>1, <2>1, FS_RemoveElement
    <2>3. QED BY <1>1, <1>5, <2>1, <2>2 DEF Weight
<1>6. ASSUME k # "pool", f[l] # "pool" PROVE Claim
    <2>1. Holding(g) = H BY <1>6 DEF Holding
    <2> HIDE DEF H, k
    <2>2. QED BY <1>1, <1>6, <2>1 DEF Weight
<1>7. QED BY <1>3, <1>4, <1>5, <1>6

-----------------------------------------------------------------------------
(* The inductive invariant.                                                  *)

Places == {"read", "head", "body", "wait", "posted", "write", "fail", "ended"}

Types ==
    /\ kind \in [Bridges -> {"none", "plain", "framed", "udp_server", "udp_client"}]
    /\ closed \in [Bridges -> BOOLEAN]
    /\ onStop \in [Bridges -> Nat]
    /\ pc \in [Loops -> Places]
    /\ buf \in [Loops -> Kinds3]
    /\ data \in [Loops -> Kinds3]

\* A free place has no loop under way and holds nothing.
FreeInv ==
    \A b \in Bridges : kind[b] = "none" =>
        /\ ~closed[b] /\ onStop[b] = 0
        /\ \A l \in Loops : l[1] = b => pc[l] = "ended" /\ data[l] = "none"

\* on_stop_ is called together with the closing of the streams.
StopInv ==
    \A b \in Bridges : Streamed(b) => onStop[b] = (IF closed[b] THEN 1 ELSE 0)

\* A loop holds no buffer when it ended or begins a read, but for the receive
\* buffer of the client's UdpBridge.
BufferInv ==
    \A l \in Loops :
        (pc[l] \in {"ended", "head"} \/ (pc[l] = "read" /\ ~FromLocal(l))) => buf[l] = "none"

\* The second loop of the server's UdpBridge never runs.
OneWayInv == \A l \in Loops : First(kind[l[1]], l[2]) = "ended" => pc[l] = "ended"

\* The buffers of the pool in use.
Held == Cardinality(Holding(buf)) + Cardinality(Holding(data))

PoolRight == Right(pool, Held)

IInv ==
    /\ Types /\ FreeInv /\ StopInv /\ NoHalfBridge /\ BufferInv /\ OneWayInv
    /\ PoolRight

\* A loop is one of a bridge's two.
LEMMA LoopParts ==
    ASSUME NEW l \in Loops
    PROVE  l[1] \in Bridges /\ l[2] \in {1, 2} /\ l = <<l[1], l[2]>>
BY DEF Loops

\* What is in a loop's hands is among what is in use.
LEMMA HeldType ==
    ASSUME Types
    PROVE  /\ Held \in Nat
           /\ \A l \in Loops : Weight(buf[l]) \in Nat /\ Weight(buf[l]) <= Held
<1>1. /\ Cardinality(Holding(buf)) \in Nat
      /\ \A l \in Loops : Weight(buf[l]) <= Cardinality(Holding(buf))
    BY HoldingFinite DEF Types
<1>2. Cardinality(Holding(data)) \in Nat BY HoldingFinite DEF Types
<1>3. \A l \in Loops : Weight(buf[l]) \in Nat BY DEF Weight
<1>4. QED BY <1>1, <1>2, <1>3 DEF Held

\* The pool after a loop's buffer is given back.
LEMMA GiveBack ==
    ASSUME IInv, NEW l \in Loops
    PROVE  Right(Return(pool, buf[l]), Held - Weight(buf[l]))
<1>1. Types /\ Right(pool, Held) /\ buf[l] \in Kinds3 BY DEF IInv, PoolRight, Types
<1>2. QED BY <1>1, HeldType, ReturnIsRight

\* The pool after a loop takes one buffer and gives its last one back.
LEMMA Exchange ==
    ASSUME IInv, NEW l \in Loops
    PROVE  /\ Got(pool) \in Kinds3
           /\ Right(Return(Get(pool), buf[l]), Held - Weight(buf[l]) + Weight(Got(pool)))
<1>1. Types /\ Right(pool, Held) /\ buf[l] \in Kinds3 BY DEF IInv, PoolRight, Types
<1>2. /\ Got(pool) \in {"pool", "temp"}
      /\ Right(Get(pool), Held + Weight(Got(pool)))
    BY <1>1, GetIsRight
<1>3. Held \in Nat /\ Weight(buf[l]) \in Nat /\ Weight(buf[l]) <= Held BY <1>1, HeldType
<1>4. Weight(Got(pool)) \in Nat BY DEF Weight
<1>5. Weight(buf[l]) <= Held + Weight(Got(pool)) BY <1>3, <1>4
<1>6. Right(Return(Get(pool), buf[l]), (Held + Weight(Got(pool))) - Weight(buf[l]))
    BY <1>1, <1>2, <1>5, ReturnIsRight
<1>7. (Held + Weight(Got(pool))) - Weight(buf[l]) = Held - Weight(buf[l]) + Weight(Got(pool))
    BY <1>3, <1>4
<1>8. QED BY <1>2, <1>6, <1>7 DEF Kinds3

\* HandleStop or the closing of a UdpBridge's stream.
LEMMA StopsEffect ==
    ASSUME IInv, NEW b \in Bridges, kind[b] # "none", Stops(b)
    PROVE  /\ closed' \in [Bridges -> BOOLEAN]
           /\ onStop' \in [Bridges -> Nat]
           /\ closed'[b]
           /\ Streamed(b) => onStop'[b] = 1
           /\ \A c \in Bridges \ {b} : closed'[c] = closed[c] /\ onStop'[c] = onStop[c]
<1>1. /\ closed \in [Bridges -> BOOLEAN] /\ onStop \in [Bridges -> Nat]
      /\ Streamed(b) => onStop[b] = (IF closed[b] THEN 1 ELSE 0)
    BY DEF IInv, Types, StopInv
<1>2. CASE Streamed(b) /\ closed[b]
    <2>1. closed' = closed /\ onStop' = onStop BY <1>2 DEF Stops, HandleStop
    <2>2. QED BY <1>1, <1>2, <2>1
<1>3. CASE Streamed(b) /\ ~closed[b]
    <2>1. /\ closed' = [closed EXCEPT ![b] = TRUE]
          /\ onStop' = [onStop EXCEPT ![b] = @ + 1]
        BY <1>3 DEF Stops, HandleStop
    <2>2. onStop[b] = 0 BY <1>1, <1>3
    <2>3. onStop'[b] = 1 BY <1>1, <2>1, <2>2
    <2>4. QED BY <1>1, <2>1, <2>3
<1>4. CASE ~Streamed(b)
    <2>1. closed' = [closed EXCEPT ![b] = TRUE] /\ onStop' = onStop
        BY <1>4 DEF Stops, CloseStream
    <2>2. QED BY <1>1, <1>4, <2>1
<1>5. QED BY <1>2, <1>3, <1>4

\* A step of one loop: it goes on to x with a buffer of kind k, the pool pays for
\* the change, and it ends only with its bridge.
LEMMA LoopStep ==
    ASSUME IInv, NEW l \in Loops, pc[l] # "ended",
           NEW x \in Places, NEW k \in Kinds3,
           pc' = [pc EXCEPT ![l] = x],
           buf' = [buf EXCEPT ![l] = k],
           kind' = kind, data' = data,
           Right(pool', Held - Weight(buf[l]) + Weight(k)),
           (x \in {"ended", "head"} \/ (x = "read" /\ ~FromLocal(l))) => k = "none",
           (closed' = closed /\ onStop' = onStop) \/ Stops(l[1]),
           x = "ended" => (Stops(l[1]) \/ (kind[l[1]] = "udp_client" /\ l[2] = 1))
    PROVE  IInv'
<1> DEFINE b == l[1]
<1>1. Types /\ FreeInv /\ StopInv /\ NoHalfBridge /\ BufferInv BY DEF IInv
<1>2. b \in Bridges BY LoopParts
<1>3. kind[b] # "none" BY <1>1, <1>2 DEF FreeInv
<1>4. /\ closed' \in [Bridges -> BOOLEAN] /\ onStop' \in [Bridges -> Nat]
      /\ closed[b] => closed'[b]
      /\ Stops(b) => closed'[b]
      /\ Streamed(b) => onStop'[b] = (IF closed'[b] THEN 1 ELSE 0)
      /\ \A c \in Bridges \ {b} : closed'[c] = closed[c] /\ onStop'[c] = onStop[c]
    <2>1. CASE Stops(b) BY <2>1, <1>2, <1>3, StopsEffect
    <2>2. CASE ~Stops(b)
        <3>1. closed' = closed /\ onStop' = onStop BY <2>2
        <3>2. QED BY <3>1, <2>2, <1>1, <1>2 DEF Types, StopInv
    <2>3. QED BY <2>1, <2>2
<1>5. \A m \in Loops : m # l => pc'[m] = pc[m] /\ buf'[m] = buf[m]
    BY <1>1 DEF Types
<1>6. pc'[l] = x /\ buf'[l] = k BY <1>1 DEF Types
<1>7. Types' BY <1>1, <1>4 DEF Types
<1>8. FreeInv'
    <2>1. ASSUME NEW c \in Bridges, kind[c] = "none"
          PROVE  /\ ~closed'[c] /\ onStop'[c] = 0
                 /\ \A m \in Loops : m[1] = c => pc'[m] = "ended" /\ data'[m] = "none"
        <3>1. c # b BY <2>1, <1>3
        <3>2. ~closed[c] /\ onStop[c] = 0 BY <1>1, <2>1 DEF FreeInv
        <3>3. \A m \in Loops : m[1] = c => pc[m] = "ended" /\ data[m] = "none"
            BY <1>1, <2>1 DEF FreeInv
        <3>4. \A m \in Loops : m[1] = c => m # l BY <3>1
        <3>5. ~closed'[c] /\ onStop'[c] = 0 BY <3>1, <3>2, <1>4
        <3>6. QED BY <3>3, <3>4, <3>5, <1>5
    <2>2. QED BY <2>1 DEF FreeInv
<1>9. StopInv'
    <2>1. ASSUME NEW c \in Bridges, Streamed(c)
          PROVE  onStop'[c] = (IF closed'[c] THEN 1 ELSE 0)
        BY <2>1, <1>1, <1>4 DEF StopInv
    <2>2. QED BY <2>1 DEF StopInv, Streamed
<1>10. NoHalfBridge'
    <2>1. ASSUME NEW m \in Loops, kind[m[1]] # "none", pc'[m] = "ended",
                 First(kind[m[1]], m[2]) # "ended",
                 ~(kind[m[1]] = "udp_client" /\ m[2] = 1)
          PROVE  closed'[m[1]]
        <3>1. m[1] \in Bridges BY LoopParts
        <3>2. CASE m = l BY <3>2, <2>1, <1>4, <1>6
        <3>3. CASE m # l
            <4>1. closed[m[1]] BY <3>3, <2>1, <1>1, <1>5 DEF NoHalfBridge
            <4>2. QED BY <4>1, <3>1, <1>4
        <3>4. QED BY <3>2, <3>3
    <2>2. QED BY <2>1 DEF NoHalfBridge
<1>11. BufferInv'
    <2>1. ASSUME NEW m \in Loops,
                 pc'[m] \in {"ended", "head"} \/ (pc'[m] = "read" /\ ~FromLocal(m))
          PROVE  buf'[m] = "none"
        <3>1. CASE m = l BY <3>1, <2>1, <1>6
        <3>2. CASE m # l BY <3>2, <2>1, <1>1, <1>5 DEF BufferInv
        <3>3. QED BY <3>1, <3>2
    <2>2. QED BY <2>1 DEF BufferInv, FromLocal
<1>12. PoolRight'
    <2>1. buf \in [Loops -> Kinds3] /\ data \in [Loops -> Kinds3] BY <1>1 DEF Types
    <2>2. Cardinality(Holding(buf')) = Cardinality(Holding(buf)) - Weight(buf[l]) + Weight(k)
        BY <2>1, <1>5, <1>6, <1>7, HoldingUpdate DEF Types
    <2>3. Cardinality(Holding(buf)) \in Nat /\ Cardinality(Holding(data)) \in Nat
        BY <2>1, HoldingFinite
    <2>4. Weight(buf[l]) \in Nat /\ Weight(k) \in Nat BY DEF Weight
    <2>5. Cardinality(Holding(buf')) + Cardinality(Holding(data'))
            = Held - Weight(buf[l]) + Weight(k)
        BY <2>2, <2>3, <2>4 DEF Held
    <2>6. Right(pool', Cardinality(Holding(buf')) + Cardinality(Holding(data'))) BY <2>5
    <2>7. QED BY <2>6 DEF PoolRight, Held, Right, Holding
<1>13. OneWayInv'
    <2>1. OneWayInv BY DEF IInv
    <2>2. \A m \in Loops : First(kind[m[1]], m[2]) = "ended" => pc'[m] = "ended"
        BY <2>1, <1>5 DEF OneWayInv
    <2>3. QED BY <2>2 DEF OneWayInv
<1>14. QED BY <1>7, <1>8, <1>9, <1>10, <1>11, <1>12, <1>13 DEF IInv

\* The clock and the limiter leave the bridges alone.
LEMMA Framed ==
    ASSUME IInv, UNCHANGED <<pool, kind, closed, onStop, data, pc, buf>>
    PROVE  IInv'
<1>1. Types' /\ FreeInv' BY DEF IInv, Types, FreeInv
<1>2. StopInv' BY DEF IInv, StopInv, Streamed
<1>3. NoHalfBridge' BY DEF IInv, NoHalfBridge
<1>4. BufferInv' BY DEF IInv, BufferInv, FromLocal
<1>5. PoolRight' BY DEF IInv, PoolRight, Right, Held, Holding
<1>6. OneWayInv' BY DEF IInv, OneWayInv
<1>7. QED BY <1>1, <1>2, <1>3, <1>4, <1>5, <1>6 DEF IInv

\* A loop ends with its bridge.
LEMMA EndsKeeps ==
    ASSUME IInv, NEW l \in Loops, pc[l] # "ended", Ends(l), kind' = kind, data' = data,
           \/ Stops(l[1])
           \/ kind[l[1]] = "udp_client" /\ l[2] = 1 /\ closed' = closed /\ onStop' = onStop
    PROVE  IInv'
<1>1. /\ pc' = [pc EXCEPT ![l] = "ended"]
      /\ buf' = [buf EXCEPT ![l] = "none"]
      /\ pool' = Return(pool, buf[l])
    BY DEF Ends
<1>2. Held - Weight(buf[l]) + Weight("none") = Held - Weight(buf[l])
    BY HeldType DEF IInv, Weight
<1>3. Right(pool', Held - Weight(buf[l]) + Weight("none")) BY <1>1, <1>2, GiveBack
<1>4. "ended" \in Places /\ "none" \in Kinds3 BY DEF Places, Kinds3
<1>5. QED BY <1>1, <1>3, <1>4, LoopStep

\* A loop goes on to its write, at once or through the limiter.
LEMMA ForwardKeeps ==
    ASSUME IInv, NEW l \in Loops, pc[l] # "ended", NEW n, NEW k \in Kinds3, NEW p,
           Forward(l, n, k, p), Right(p, Held - Weight(buf[l]) + Weight(k))
    PROVE  IInv'
<1>1. /\ buf' = [buf EXCEPT ![l] = k] /\ pool' = p
      /\ kind' = kind /\ data' = data /\ closed' = closed /\ onStop' = onStop
    BY DEF Forward
<1>2. \E x \in {"write", "fail", "posted", "wait"} : pc' = [pc EXCEPT ![l] = x]
    BY DEF Forward, Write, Begun
<1>3. PICK x \in {"write", "fail", "posted", "wait"} : pc' = [pc EXCEPT ![l] = x] BY <1>2
<1>4. x \in Places /\ x \notin {"ended", "head", "read"} BY DEF Places
<1>5. Right(pool', Held - Weight(buf[l]) + Weight(k)) BY <1>1
<1>6. QED BY <1>1, <1>3, <1>4, <1>5, LoopStep

\* The data a loop has read goes on to the write.
LEMMA ReadSomeKeeps ==
    ASSUME IInv, NEW l \in Loops, NEW n, ReadSome(l, n)
    PROVE  IInv'
<1>1. pc[l] = "read" BY DEF ReadSome
<1>2. CASE kind[l[1]] = "plain"
    <2>1. Forward(l, n, "none", pool) BY <1>2 DEF ReadSome
    <2>2. buf[l] = "none" BY <1>1, <1>2 DEF IInv, BufferInv, FromLocal
    <2>3. Held - Weight(buf[l]) + Weight("none") = Held
        BY <2>2, HeldType DEF IInv, Weight
    <2>4. Right(pool, Held - Weight(buf[l]) + Weight("none")) BY <2>3 DEF IInv, PoolRight
    <2>5. "none" \in Kinds3 BY DEF Kinds3
    <2>6. QED BY <1>1, <2>1, <2>4, <2>5, ForwardKeeps
<1>3. CASE kind[l[1]] # "plain"
    <2>1. Forward(l, n, Got(pool), Return(Get(pool), buf[l])) BY <1>3 DEF ReadSome
    <2>2. QED BY <1>1, <2>1, Exchange, ForwardKeeps
<1>4. QED BY <1>2, <1>3

\* So does the body of a frame.
LEMMA ReadBodyKeeps ==
    ASSUME IInv, NEW l \in Loops, NEW n, NEW compressed, ReadBody(l, n, compressed)
    PROVE  IInv'
<1>1. pc[l] = "body" BY DEF ReadBody
<1>2. CASE Streamed(l[1]) /\ ~compressed
    <2>1. Forward(l, n, buf[l], pool) BY <1>2 DEF ReadBody
    <2>2. Held - Weight(buf[l]) + Weight(buf[l]) = Held BY HeldType DEF IInv
    <2>3. Right(pool, Held - Weight(buf[l]) + Weight(buf[l])) BY <2>2 DEF IInv, PoolRight
    <2>4. buf[l] \in Kinds3 BY DEF IInv, Types
    <2>5. QED BY <1>1, <2>1, <2>3, <2>4, ForwardKeeps
<1>3. CASE ~(Streamed(l[1]) /\ ~compressed)
    <2>1. Forward(l, n, Got(pool), Return(Get(pool), buf[l])) BY <1>3 DEF ReadBody
    <2>2. QED BY <1>1, <2>1, Exchange, ForwardKeeps
<1>4. QED BY <1>2, <1>3

\* A Bridge takes the buffer for the body, a UdpBridge has its own.
LEMMA ReadHeaderKeeps ==
    ASSUME IInv, NEW l \in Loops, ReadHeader(l)
    PROVE  IInv'
<1>1. /\ pc[l] = "head" /\ pc' = [pc EXCEPT ![l] = Begun(l, "body")]
      /\ kind' = kind /\ data' = data /\ closed' = closed /\ onStop' = onStop
    BY DEF ReadHeader
<1>2. Begun(l, "body") \in Places /\ Begun(l, "body") \notin {"ended", "head", "read"}
    BY DEF Begun, Places
<1>3. buf[l] = "none" /\ buf \in [Loops -> Kinds3] BY <1>1 DEF IInv, BufferInv, Types
<1>4. Held \in Nat /\ Right(pool, Held) BY HeldType DEF IInv, PoolRight
<1>5. CASE Streamed(l[1])
    <2>1. buf' = [buf EXCEPT ![l] = Got(pool)] /\ pool' = Get(pool)
        BY <1>5 DEF ReadHeader
    <2>2. Got(pool) \in Kinds3 /\ Right(Get(pool), Held + Weight(Got(pool)))
        BY <1>4, GetIsRight DEF Kinds3
    <2>3. Held - Weight(buf[l]) + Weight(Got(pool)) = Held + Weight(Got(pool))
        BY <1>3, <1>4 DEF Weight
    <2>4. Right(pool', Held - Weight(buf[l]) + Weight(Got(pool))) BY <2>1, <2>2, <2>3
    <2>5. QED BY <1>1, <1>2, <2>1, <2>2, <2>4, LoopStep
<1>6. CASE ~Streamed(l[1])
    <2>1. buf' = buf /\ pool' = pool BY <1>6 DEF ReadHeader
    <2>2. buf' = [buf EXCEPT ![l] = "none"] BY <2>1, <1>3
    <2>3. Held - Weight(buf[l]) + Weight("none") = Held BY <1>3, <1>4 DEF Weight
    <2>4. Right(pool', Held - Weight(buf[l]) + Weight("none")) BY <2>1, <2>3, <1>4
    <2>5. "none" \in Kinds3 BY DEF Kinds3
    <2>6. QED BY <1>1, <1>2, <2>2, <2>4, <2>5, LoopStep
<1>7. QED BY <1>5, <1>6

\* The limiter lets a loop go; its buffer stays with it.
LEMMA RunPostedKeeps ==
    ASSUME IInv, NEW l \in Loops, RunPosted(l)
    PROVE  IInv'
<1>1. /\ pc[l] # "ended"
      /\ kind' = kind /\ data' = data /\ closed' = closed /\ onStop' = onStop
      /\ buf' = buf /\ pool' = pool
    BY DEF RunPosted
<1>2. \E x \in {"write", "fail"} : pc' = [pc EXCEPT ![l] = x]
    BY DEF RunPosted, Write, Begun
<1>3. PICK x \in {"write", "fail"} : pc' = [pc EXCEPT ![l] = x] BY <1>2
<1>4. x \in Places /\ x \notin {"ended", "head", "read"} BY DEF Places
<1>5. buf[l] \in Kinds3 /\ buf' = [buf EXCEPT ![l] = buf[l]] BY <1>1 DEF IInv, Types
<1>6. Held - Weight(buf[l]) + Weight(buf[l]) = Held BY HeldType DEF IInv
<1>7. Right(pool', Held - Weight(buf[l]) + Weight(buf[l])) BY <1>1, <1>6 DEF IInv, PoolRight
<1>8. QED BY <1>1, <1>3, <1>4, <1>5, <1>7, LoopStep

\* A loop that has written gives its buffer back and reads again.
LEMMA WriteDoneKeeps ==
    ASSUME IInv, NEW l \in Loops, WriteDone(l)
    PROVE  IInv'
<1> DEFINE p == Return(pool, buf[l])
           c == Held - Weight(buf[l])
<1>1. /\ pc[l] = "write" /\ ReadsAgain(l, p)
      /\ kind' = kind /\ data' = data /\ closed' = closed /\ onStop' = onStop
    BY DEF WriteDone
<1>2. Right(p, c) BY GiveBack
<1>3. c \in Int BY HeldType DEF IInv
<1> HIDE DEF p, c
<1>4. CASE FromLocal(l)
    <2>1. pc' = [pc EXCEPT ![l] = "read"] /\ buf' = [buf EXCEPT ![l] = Got(p)] /\ pool' = Get(p)
        BY <1>1, <1>4 DEF ReadsAgain
    <2>2. Got(p) \in Kinds3 /\ Right(Get(p), c + Weight(Got(p)))
        BY <1>2, GetIsRight DEF Kinds3
    <2>3. Right(pool', Held - Weight(buf[l]) + Weight(Got(p))) BY <2>1, <2>2 DEF c
    <2>4. "read" \in Places BY DEF Places
    <2>5. QED BY <1>1, <1>4, <2>1, <2>2, <2>3, <2>4, LoopStep
<1>5. CASE ~FromLocal(l)
    <2> DEFINE x == Begun(l, First(kind[l[1]], l[2]))
    <2>1. pc' = [pc EXCEPT ![l] = x] /\ buf' = [buf EXCEPT ![l] = "none"] /\ pool' = p
        BY <1>1, <1>5 DEF ReadsAgain
    <2>2. x \in {"fail", "head", "read", "ended"} BY DEF Begun, First
    <2>3. c + Weight("none") = c BY <1>3 DEF Weight
    <2>4. Right(pool', Held - Weight(buf[l]) + Weight("none")) BY <2>1, <2>3, <1>2 DEF c
    <2>5. x # "ended" BY <1>1 DEF IInv, OneWayInv, Begun
    <2>6. QED BY <1>1, <2>1, <2>2, <2>4, <2>5, LoopStep DEF Places, Kinds3
<1>6. QED BY <1>4, <1>5

\* A new bridge takes its data buffers, or its receive buffer, from the pool.
LEMMA StartKeeps ==
    ASSUME IInv, NEW b \in Bridges, NEW k \in KindsOf[b], NEW rl, Start(b, k, rl)
    PROVE  IInv'
<1> DEFINE l1 == <<b, 1>>
           l2 == <<b, 2>>
           two == k \in {"plain", "framed"}
           p1 == Get(pool)
<1>1. k \in {"plain", "framed", "udp_server", "udp_client"} BY BridgeAssumption
<1>2. Types /\ FreeInv /\ StopInv /\ NoHalfBridge /\ BufferInv /\ OneWayInv /\ Right(pool, Held)
    BY DEF IInv, PoolRight
<1>3. /\ kind[b] = "none" /\ kind' = [kind EXCEPT ![b] = k]
      /\ pc' = [pc EXCEPT ![l1] = First(k, 1), ![l2] = First(k, 2)]
      /\ closed' = closed /\ onStop' = onStop
      /\ data' = IF two THEN [data EXCEPT ![l1] = Got(pool), ![l2] = Got(p1)] ELSE data
      /\ buf' = [buf EXCEPT ![l2] = IF k = "udp_client" THEN Got(pool) ELSE @]
      /\ pool' = CASE two -> Get(p1) [] k = "udp_client" -> p1 [] OTHER -> pool
    BY DEF Start
<1>4. /\ l1 \in Loops /\ l2 \in Loops /\ l1 # l2
      /\ \A m \in Loops : m[1] = b => m = l1 \/ m = l2
      /\ \A m \in Loops : m[1] # b => m # l1 /\ m # l2
      /\ \A m \in Loops : m[1] \in Bridges
      /\ l1[1] = b /\ l1[2] = 1 /\ l2[1] = b /\ l2[2] = 2
    BY DEF Loops
<1>5. /\ ~closed[b] /\ onStop[b] = 0
      /\ pc[l1] = "ended" /\ pc[l2] = "ended"
      /\ data[l1] = "none" /\ data[l2] = "none"
    BY <1>2, <1>3, <1>4 DEF FreeInv
<1>6. buf[l1] = "none" /\ buf[l2] = "none" BY <1>2, <1>4, <1>5 DEF BufferInv
<1>7. /\ Got(pool) \in {"pool", "temp"} /\ Right(p1, Held + Weight(Got(pool)))
      /\ Got(p1) \in {"pool", "temp"} /\ Right(Get(p1), Held + Weight(Got(pool)) + Weight(Got(p1)))
    BY <1>2, GetIsRight
<1> HIDE DEF l1, l2, p1
<1>8. /\ First(k, 1) \in Places /\ First(k, 2) \in Places
      /\ First(k, 1) # "ended"
      /\ First(k, 2) = "ended" <=> k = "udp_server"
    BY <1>1 DEF First, Places
<1>9. /\ pc' \in [Loops -> Places] /\ pc'[l1] = First(k, 1) /\ pc'[l2] = First(k, 2)
      /\ \A m \in Loops : m[1] # b => pc'[m] = pc[m]
    BY <1>2, <1>3, <1>4, <1>8 DEF Types
<1>10. /\ kind' \in [Bridges -> {"none", "plain", "framed", "udp_server", "udp_client"}]
       /\ kind'[b] = k /\ \A c \in Bridges : c # b => kind'[c] = kind[c]
    BY <1>1, <1>2, <1>3 DEF Types
<1>11. /\ buf' \in [Loops -> Kinds3] /\ \A m \in Loops : m # l2 => buf'[m] = buf[m]
       /\ buf'[l2] = (IF k = "udp_client" THEN Got(pool) ELSE "none")
    BY <1>2, <1>3, <1>4, <1>6, <1>7 DEF Types, Kinds3
<1>12. /\ data' \in [Loops -> Kinds3] /\ \A m \in Loops : m[1] # b => data'[m] = data[m]
    BY <1>2, <1>3, <1>4, <1>7 DEF Types, Kinds3
<1>13. Types' BY <1>2, <1>3, <1>9, <1>10, <1>11, <1>12 DEF Types
<1>14. FreeInv'
    <2>1. ASSUME NEW c \in Bridges, kind'[c] = "none"
          PROVE  /\ ~closed'[c] /\ onStop'[c] = 0
                 /\ \A m \in Loops : m[1] = c => pc'[m] = "ended" /\ data'[m] = "none"
        <3>1. c # b /\ kind[c] = "none" BY <2>1, <1>1, <1>10
        <3>2. QED BY <3>1, <1>2, <1>3, <1>9, <1>12 DEF FreeInv
    <2>2. QED BY <2>1 DEF FreeInv
<1>15. StopInv'
    <2>1. ASSUME NEW c \in Bridges, kind'[c] \in {"plain", "framed"}
          PROVE  onStop[c] = (IF closed[c] THEN 1 ELSE 0)
        <3>1. CASE c = b BY <3>1, <1>5
        <3>2. CASE c # b BY <3>2, <2>1, <1>2, <1>10 DEF StopInv, Streamed
        <3>3. QED BY <3>1, <3>2
    <2>2. QED BY <2>1, <1>3 DEF StopInv, Streamed
<1>16. NoHalfBridge'
    <2>1. ASSUME NEW m \in Loops, kind'[m[1]] # "none", pc'[m] = "ended",
                 First(kind'[m[1]], m[2]) # "ended",
                 ~(kind'[m[1]] = "udp_client" /\ m[2] = 1)
          PROVE  closed[m[1]]
        <3>1. m[1] # b BY <2>1, <1>4, <1>9, <1>10
        <3>2. QED BY <3>1, <2>1, <1>2, <1>4, <1>9, <1>10 DEF NoHalfBridge
    <2>2. QED BY <2>1, <1>3 DEF NoHalfBridge
<1>17. BufferInv'
    <2>1. ASSUME NEW m \in Loops,
                 \/ pc'[m] \in {"ended", "head"}
                 \/ pc'[m] = "read" /\ ~(kind'[m[1]] = "udp_client" /\ m[2] = 2)
          PROVE  buf'[m] = "none"
        <3>1. CASE m = l1 BY <3>1, <1>4, <1>6, <1>11
        <3>2. CASE m = l2
            <4>1. k # "udp_client" BY <3>2, <2>1, <1>4, <1>9, <1>10 DEF First
            <4>2. QED BY <4>1, <3>2, <1>11
        <3>3. CASE m[1] # b
            <4>1. buf'[m] = buf[m] /\ pc'[m] = pc[m] /\ kind'[m[1]] = kind[m[1]]
                BY <3>3, <1>4, <1>9, <1>10, <1>11
            <4>2. QED BY <4>1, <2>1, <1>2 DEF BufferInv, FromLocal
        <3>4. QED BY <3>1, <3>2, <3>3, <1>4
    <2>2. QED BY <2>1 DEF BufferInv, FromLocal
<1>18. OneWayInv'
    <2>1. ASSUME NEW m \in Loops, First(kind'[m[1]], m[2]) = "ended" PROVE pc'[m] = "ended"
        <3>1. CASE m = l1 \/ m = l2 BY <3>1, <2>1, <1>4, <1>8, <1>9, <1>10
        <3>2. CASE m[1] # b BY <3>2, <2>1, <1>2, <1>4, <1>9, <1>10 DEF OneWayInv
        <3>3. QED BY <3>1, <3>2, <1>4
    <2>2. QED BY <2>1 DEF OneWayInv
<1>19. PoolRight'
    <2> DEFINE B(f) == Cardinality(Holding(f))
    <2>1. B(buf) \in Nat /\ B(data) \in Nat BY <1>2, HoldingFinite DEF Types
    <2>2. B(buf') = B(buf) - Weight(buf[l2]) + Weight(buf'[l2])
        BY <1>2, <1>4, <1>11, HoldingUpdate DEF Types
    <2>3. CASE two
        <3> DEFINE d == [data EXCEPT ![l1] = Got(pool)]
        <3>1. d \in [Loops -> Kinds3] /\ d[l1] = Got(pool) /\ d[l2] = "none"
              /\ \A m \in Loops : m # l1 => d[m] = data[m]
            BY <1>2, <1>4, <1>5, <1>7 DEF Types, Kinds3
        <3>2. data'[l2] = Got(p1) /\ \A m \in Loops : m # l2 => data'[m] = d[m]
            BY <2>3, <1>2, <1>3, <1>4 DEF Types
        <3> HIDE DEF d
        <3>3. B(d) = B(data) - Weight(data[l1]) + Weight(d[l1])
            BY <3>1, <1>2, <1>4, HoldingUpdate DEF Types
        <3>4. B(data') = B(d) - Weight(d[l2]) + Weight(data'[l2])
            BY <3>1, <3>2, <1>4, <1>12, HoldingUpdate
        <3>5. buf'[l2] = "none" BY <2>3, <1>11
        <3>6. Weight(Got(pool)) \in Nat /\ Weight(Got(p1)) \in Nat BY DEF Weight
        <3>7. Weight("none") = 0 BY DEF Weight
        <3> HIDE DEF B
        <3>8. B(buf') + B(data') = B(buf) + B(data) + Weight(Got(pool)) + Weight(Got(p1))
            BY <2>1, <2>2, <3>1, <3>2, <3>3, <3>4, <3>5, <3>6, <3>7, <1>5, <1>6
        <3>9. B(buf') + B(data') = Held + Weight(Got(pool)) + Weight(Got(p1)) BY <3>8 DEF Held, B
        <3>10. pool' = Get(p1) BY <2>3, <1>3
        <3>11. Right(pool', B(buf') + B(data')) BY <3>9, <3>10, <1>7
        <3>12. QED BY <3>11 DEF PoolRight, Held, Right, Holding, B
    <2>4. CASE ~two
        <3>1. data' = data BY <2>4, <1>3
        <3>2. CASE k = "udp_client"
            <4>1. pool' = p1 /\ buf'[l2] = Got(pool) BY <2>4, <3>2, <1>3, <1>11
            <4>2. Weight(Got(pool)) \in Nat /\ Weight("none") = 0 BY DEF Weight
            <4>3. B(buf') + B(data) = Held + Weight(Got(pool))
                BY <2>1, <2>2, <4>1, <4>2, <1>6 DEF Held
            <4>4. Right(pool', B(buf') + B(data')) BY <4>1, <4>3, <3>1, <1>7
            <4>5. QED BY <4>4 DEF PoolRight, Held, Right, Holding
        <3>3. CASE k # "udp_client"
            <4>1. pool' = pool /\ buf'[l2] = "none" BY <2>4, <3>3, <1>3, <1>11
            <4>2. Weight("none") = 0 BY DEF Weight
            <4>3. B(buf') + B(data) = Held BY <2>1, <2>2, <4>1, <4>2, <1>6 DEF Held
            <4>4. Right(pool', B(buf') + B(data')) BY <4>1, <4>3, <3>1, <1>2
            <4>5. QED BY <4>4 DEF PoolRight, Held, Right, Holding
        <3>4. QED BY <3>2, <3>3
    <2>5. QED BY <2>3, <2>4
<1>20. QED BY <1>13, <1>14, <1>15, <1>16, <1>17, <1>18, <1>19 DEF IInv

\* A bridge that is destroyed gives its data buffers back.
LEMMA DestroyKeeps ==
    ASSUME IInv, NEW b \in Bridges, Destroy(b)
    PROVE  IInv'
<1> DEFINE l1 == <<b, 1>>
           l2 == <<b, 2>>
<1>1. Types /\ FreeInv /\ StopInv /\ NoHalfBridge /\ BufferInv /\ OneWayInv /\ Right(pool, Held)
    BY DEF IInv, PoolRight
<1>2. /\ pc[l1] = "ended" /\ pc[l2] = "ended"
      /\ kind' = [kind EXCEPT ![b] = "none"]
      /\ pool' = Return(Return(pool, data[l1]), data[l2])
      /\ data' = [data EXCEPT ![l1] = "none", ![l2] = "none"]
      /\ closed' = [closed EXCEPT ![b] = FALSE]
      /\ onStop' = [onStop EXCEPT ![b] = 0]
      /\ pc' = pc /\ buf' = buf
    BY DEF Destroy
<1>3. /\ l1 \in Loops /\ l2 \in Loops /\ l1 # l2
      /\ \A m \in Loops : m[1] = b => m = l1 \/ m = l2
      /\ \A m \in Loops : m[1] # b => m # l1 /\ m # l2
      /\ \A m \in Loops : m[1] \in Bridges
    BY DEF Loops
<1> HIDE DEF l1, l2
<1>4. /\ kind' \in [Bridges -> {"none", "plain", "framed", "udp_server", "udp_client"}]
      /\ closed' \in [Bridges -> BOOLEAN] /\ onStop' \in [Bridges -> Nat]
      /\ kind'[b] = "none" /\ ~closed'[b] /\ onStop'[b] = 0
      /\ \A c \in Bridges : c # b =>
            kind'[c] = kind[c] /\ closed'[c] = closed[c] /\ onStop'[c] = onStop[c]
    BY <1>1, <1>2 DEF Types
<1>5. /\ data' \in [Loops -> Kinds3] /\ data'[l1] = "none" /\ data'[l2] = "none"
      /\ \A m \in Loops : m # l1 /\ m # l2 => data'[m] = data[m]
    BY <1>1, <1>2, <1>3 DEF Types, Kinds3
<1>6. Types' BY <1>1, <1>2, <1>4, <1>5 DEF Types
<1>7. FreeInv'
    <2>1. ASSUME NEW c \in Bridges, kind'[c] = "none"
          PROVE  /\ ~closed'[c] /\ onStop'[c] = 0
                 /\ \A m \in Loops : m[1] = c => pc'[m] = "ended" /\ data'[m] = "none"
        <3>1. CASE c = b
            <4>1. ASSUME NEW m \in Loops, m[1] = c PROVE pc'[m] = "ended" /\ data'[m] = "none"
                BY <3>1, <4>1, <1>2, <1>3, <1>5
            <4>2. QED BY <3>1, <4>1, <1>4
        <3>2. CASE c # b
            BY <3>2, <2>1, <1>1, <1>2, <1>3, <1>4, <1>5 DEF FreeInv
        <3>3. QED BY <3>1, <3>2
    <2>2. QED BY <2>1 DEF FreeInv
<1>8. StopInv'
    <2>1. ASSUME NEW c \in Bridges, kind'[c] \in {"plain", "framed"}
          PROVE  onStop'[c] = (IF closed'[c] THEN 1 ELSE 0)
        BY <2>1, <1>1, <1>4 DEF StopInv, Streamed
    <2>2. QED BY <2>1 DEF StopInv, Streamed
<1>9. NoHalfBridge'
    <2>1. ASSUME NEW m \in Loops, kind'[m[1]] # "none", pc[m] = "ended",
                 First(kind'[m[1]], m[2]) # "ended",
                 ~(kind'[m[1]] = "udp_client" /\ m[2] = 1)
          PROVE  closed'[m[1]]
        BY <2>1, <1>1, <1>3, <1>4 DEF NoHalfBridge
    <2>2. QED BY <2>1, <1>2 DEF NoHalfBridge
<1>10. BufferInv'
    <2>1. ASSUME NEW m \in Loops,
                 \/ pc[m] \in {"ended", "head"}
                 \/ pc[m] = "read" /\ ~(kind'[m[1]] = "udp_client" /\ m[2] = 2)
          PROVE  buf[m] = "none"
        BY <2>1, <1>1, <1>2, <1>3, <1>4 DEF BufferInv, FromLocal
    <2>2. QED BY <2>1, <1>2 DEF BufferInv, FromLocal
<1>11. OneWayInv'
    <2>1. ASSUME NEW m \in Loops, First(kind'[m[1]], m[2]) = "ended" PROVE pc[m] = "ended"
        BY <2>1, <1>1, <1>2, <1>3, <1>4 DEF OneWayInv
    <2>2. QED BY <2>1, <1>2 DEF OneWayInv
<1>12. PoolRight'
    <2> DEFINE B(f) == Cardinality(Holding(f))
               d == [data EXCEPT ![l1] = "none"]
    <2>1. data \in [Loops -> Kinds3] /\ buf \in [Loops -> Kinds3] BY <1>1 DEF Types
    <2>2. /\ d \in [Loops -> Kinds3] /\ d[l1] = "none" /\ d[l2] = data[l2]
          /\ \A m \in Loops : m # l1 => d[m] = data[m]
        BY <2>1, <1>3 DEF Kinds3
    <2>3. \A m \in Loops : m # l2 => data'[m] = d[m] BY <2>1, <1>2, <1>3
    <2> HIDE DEF d
    <2>4. B(d) = B(data) - Weight(data[l1]) + Weight(d[l1])
        BY <2>1, <2>2, <1>3, HoldingUpdate
    <2>5. B(data') = B(d) - Weight(d[l2]) + Weight(data'[l2])
        BY <2>2, <2>3, <1>3, <1>5, HoldingUpdate
    <2>6. B(buf) \in Nat /\ B(data) \in Nat /\ B(d) \in Nat
        BY <2>1, <2>2, HoldingFinite
    <2>7. Weight(data[l1]) <= B(data) /\ Weight(d[l2]) <= B(d)
        BY <2>1, <2>2, <1>3, HoldingFinite
    <2>8. Weight("none") = 0 /\ Weight(data[l1]) \in Nat /\ Weight(data[l2]) \in Nat
        BY DEF Weight
    <2>9. Held = B(buf) + B(data) BY DEF Held
    <2> HIDE DEF B
    <2>10. Right(Return(pool, data[l1]), Held - Weight(data[l1]))
        BY <1>1, <1>3, <2>1, <2>6, <2>7, <2>8, <2>9, ReturnIsRight
    <2>11. Held - Weight(data[l1]) = B(buf) + B(d)
        BY <2>2, <2>4, <2>6, <2>8, <2>9
    <2>12. Right(pool', (B(buf) + B(d)) - Weight(data[l2]))
        <3>1. Weight(data[l2]) <= B(buf) + B(d) BY <2>2, <2>6, <2>7, <2>8
        <3>2. Right(Return(pool, data[l1]), B(buf) + B(d)) BY <2>10, <2>11
        <3>3. data[l2] \in Kinds3 BY <2>1, <1>3
        <3>4. QED BY <3>1, <3>2, <3>3, <1>2, ReturnIsRight
    <2>13. (B(buf) + B(d)) - Weight(data[l2]) = B(buf) + B(data')
        BY <2>2, <2>5, <2>6, <2>8, <1>5
    <2>14. Right(pool', B(buf') + B(data')) BY <2>12, <2>13, <1>2
    <2>15. QED BY <2>14 DEF PoolRight, Held, Right, Holding, B
<1>13. QED BY <1>6, <1>7, <1>8, <1>9, <1>10, <1>11, <1>12 DEF IInv

\* No bridge and the initial buffers, all free.
LEMMA InitIInv ==
    ASSUME Init
    PROVE  IInv
<1>1. /\ pool = [free |-> InitialCount, allocated |-> InitialCount]
      /\ kind = [b \in Bridges |-> "none"] /\ closed = [b \in Bridges |-> FALSE]
      /\ onStop = [b \in Bridges |-> 0]
      /\ data = [l \in Loops |-> "none"] /\ pc = [l \in Loops |-> "ended"]
      /\ buf = [l \in Loops |-> "none"]
    BY DEF Init, PoolInit
<1>2. \A l \in Loops : l[1] \in Bridges BY DEF Loops
<1>3. Types BY <1>1 DEF Types, Places, Kinds3
<1>4. FreeInv /\ StopInv /\ NoHalfBridge /\ BufferInv /\ OneWayInv
    BY <1>1, <1>2 DEF FreeInv, StopInv, Streamed, NoHalfBridge, BufferInv, OneWayInv
<1>5. Holding(buf) = {} /\ Holding(data) = {} BY <1>1 DEF Holding
<1>6. Held = 0
    <2>1. Cardinality({}) = 0 BY FS_EmptySet
    <2>2. QED BY <1>5, <2>1 DEF Held
<1>7. PoolRight BY <1>1, <1>6, PoolAssumption DEF PoolRight, Right, Buckets
<1>8. QED BY <1>3, <1>4, <1>7 DEF IInv

\* Every step keeps the invariant.
LEMMA StepIInv ==
    ASSUME IInv, [Next]_vars
    PROVE  IInv'
<1>1. CASE Limiter BY <1>1, Framed DEF Limiter, bridgeVars
<1>2. ASSUME NEW b \in Bridges, NEW k \in KindsOf[b], NEW rl \in BOOLEAN, Start(b, k, rl)
      PROVE  IInv'
    BY <1>2, StartKeeps
<1>3. ASSUME NEW b \in Bridges, Destroy(b) PROVE IInv'
    BY <1>3, DestroyKeeps
<1>4. ASSUME NEW l \in Loops, NEW n \in Sizes, ReadSome(l, n) PROVE IInv'
    BY <1>4, ReadSomeKeeps
<1>5. ASSUME NEW l \in Loops, ReadHeader(l) PROVE IInv'
    BY <1>5, ReadHeaderKeeps
<1>6. ASSUME NEW l \in Loops, NEW n \in Sizes, NEW compressed \in BOOLEAN,
             ReadBody(l, n, compressed)
      PROVE  IInv'
    BY <1>6, ReadBodyKeeps
<1>7. ASSUME NEW l \in Loops, BadFrame(l) \/ ReadFails(l) \/ FailsClosed(l) PROVE IInv'
    <2>1. pc[l] # "ended" /\ Ends(l) /\ Stops(l[1]) /\ kind' = kind /\ data' = data
        BY <1>7 DEF BadFrame, ReadFails, FailsClosed
    <2>2. QED BY <2>1, EndsKeeps
<1>8. ASSUME NEW l \in Loops, RunPosted(l) PROVE IInv'
    BY <1>8, RunPostedKeeps
<1>9. ASSUME NEW l \in Loops, WriteDone(l) PROVE IInv'
    BY <1>9, WriteDoneKeeps
<1>10. ASSUME NEW l \in Loops, WriteFails(l) PROVE IInv'
    <2>1. /\ pc[l] # "ended" /\ Ends(l) /\ kind' = kind /\ data' = data
          /\ \/ Stops(l[1])
             \/ kind[l[1]] = "udp_client" /\ l[2] = 1 /\ closed' = closed /\ onStop' = onStop
        BY <1>10 DEF WriteFails
    <2>2. QED BY <2>1, EndsKeeps
<1>11. CASE UNCHANGED vars BY <1>11, Framed DEF vars, bridgeVars
<1>12. QED
    BY <1>1, <1>2, <1>3, <1>4, <1>5, <1>6, <1>7, <1>8, <1>9, <1>10, <1>11 DEF Next

-----------------------------------------------------------------------------
(* Theorems.                                                                 *)

\* The invariant of the bridges and their pool (async_bridge.cpp, buffer_pool.h).
THEOREM Invariance == Spec => []IInv
<1>1. IInv /\ [Next]_vars => IInv' BY StepIInv
<1>2. QED BY InitIInv, <1>1, PTL DEF Spec

\* HandleStop calls on_stop_ once, in whatever order the loops fail.
THEOREM StopIsCalledOnce == Spec => []OnStopOnce
<1>1. ASSUME IInv PROVE OnStopOnce
    <2>1. ASSUME NEW b \in Bridges, Streamed(b)
          PROVE  /\ onStop[b] <= 1
                 /\ (pc[<<b, 1>>] = "ended" /\ pc[<<b, 2>>] = "ended") => onStop[b] = 1
        <3>1. onStop[b] = (IF closed[b] THEN 1 ELSE 0) BY <1>1, <2>1 DEF IInv, StopInv
        <3>2. ASSUME pc[<<b, 1>>] = "ended" PROVE closed[b]
            <4> DEFINE l == <<b, 1>>
            <4>1. l \in Loops /\ l[1] = b /\ l[2] = 1 BY DEF Loops
            <4>2. kind[b] # "none" /\ kind[b] # "udp_client" BY <2>1 DEF Streamed
            <4>3. First(kind[b], 1) # "ended" BY <2>1 DEF Streamed, First
            <4> HIDE DEF l
            <4>4. pc[l] = "ended" BY <3>2 DEF l
            <4>5. QED BY <1>1, <4>1, <4>2, <4>3, <4>4 DEF IInv, NoHalfBridge
        <3>3. QED BY <3>1, <3>2
    <2>2. QED BY <2>1 DEF OnStopOnce
<1>2. QED BY Invariance, <1>1, PTL

\* A loop that ends takes its bridge with it, but for the client's datagram.
THEOREM NoBridgeIsHalf == Spec => []NoHalfBridge
<1>1. IInv => NoHalfBridge BY DEF IInv
<1>2. QED BY Invariance, <1>1, PTL

\* Get and Return: every buffer of the pool is free or held by one place.
THEOREM PoolIsConserved == Spec => []PoolConserved
<1>1. ASSUME IInv PROVE PoolConserved
    <2>1. Types /\ Right(pool, Held) BY <1>1 DEF IInv, PoolRight
    <2>2. Cardinality(Holding(buf)) \in Nat /\ Cardinality(Holding(data)) \in Nat
        BY <2>1, HoldingFinite DEF Types
    <2>3. pool.free + (Cardinality(Holding(buf)) + Cardinality(Holding(data))) = pool.allocated
          /\ pool.allocated <= MaxCount /\ pool.free \in Nat
        BY <2>1 DEF Right, Held, Buckets
    <2>4. pool.free + Cardinality(Holding(buf)) + Cardinality(Holding(data)) = pool.allocated
        BY <2>2, <2>3
    <2>5. QED BY <2>3, <2>4 DEF PoolConserved, Holding
<1>2. QED BY Invariance, <1>1, PTL

-----------------------------------------------------------------------------
(* The limiter.                                                              *)

Requests == [user : Users, bytes : Nat]

\* A nonempty set of natural numbers has a least element.
LEMMA LeastNatural ==
    ASSUME NEW T, T \subseteq Nat, T # {}
    PROVE  \E m \in T : \A j \in T : m <= j
<1>1. PICK m \in T : \A j \in T : <<j, m>> \notin OpToRel(<, Nat)
    BY NatLessThanWellFounded, WFMin
<1>2. ASSUME NEW j \in T, j < m PROVE FALSE
    <2>1. <<j, m>> \in OpToRel(<, Nat) BY <1>2 DEF OpToRel
    <2>2. QED BY <2>1, <1>1
<1>3. \A j \in T : m <= j BY <1>2
<1>4. QED BY <1>3

\* f holds the sums of the bytes of q's first requests, up to the n-th.
SumsUpTo(f, q, n) ==
    /\ f \in [0..n -> Nat]
    /\ f[0] = 0
    /\ \A k \in 1..n : f[k] = f[k - 1] + q[k].bytes

\* The sums exist: the first number up to which they would not has sums up to
\* the number before it.
LEMMA SumsExist ==
    ASSUME NEW q \in Seq(Requests), NEW n \in 0..Len(q)
    PROVE  \E f : SumsUpTo(f, q, n)
<1> DEFINE T == {j \in 0..Len(q) : ~ \E f : SumsUpTo(f, q, j)}
<1>1. SUFFICES ASSUME T # {} PROVE FALSE OBVIOUS
<1>2. T \subseteq Nat OBVIOUS
<1>3. PICK m \in T : \A j \in T : m <= j BY <1>1, <1>2, LeastNatural
<1>4. m \in 0..Len(q) /\ Len(q) \in Nat OBVIOUS
<1>5. CASE m = 0
    <2>1. SumsUpTo([k \in 0..m |-> 0], q, m) BY <1>5 DEF SumsUpTo
    <2>2. QED BY <2>1
<1>6. CASE m # 0
    <2>1. m - 1 \in 0..Len(q) /\ m - 1 \notin T BY <1>3, <1>4, <1>6
    <2>2. PICK f : SumsUpTo(f, q, m - 1) BY <2>1
    <2> DEFINE g == [k \in 0..m |-> IF k = m THEN f[m - 1] + q[m].bytes ELSE f[k]]
    <2>3. q[m] \in Requests BY <1>4, <1>6
    <2>4. q[m].bytes \in Nat BY <2>3 DEF Requests
    <2>5. /\ f \in [0..(m - 1) -> Nat] /\ f[0] = 0
          /\ \A k \in 1..(m - 1) : f[k] = f[k - 1] + q[k].bytes
        BY <2>2 DEF SumsUpTo
    <2>6. g \in [0..m -> Nat]
        <3>1. ASSUME NEW k \in 0..m, k # m PROVE f[k] \in Nat BY <2>5, <3>1, <1>4
        <3>2. f[m - 1] + q[m].bytes \in Nat BY <2>4, <2>5, <1>4, <1>6
        <3>3. QED BY <3>1, <3>2
    <2>7. g[0] = 0 BY <2>5, <1>4, <1>6
    <2>8. ASSUME NEW k \in 1..m PROVE g[k] = g[k - 1] + q[k].bytes
        <3>1. k \in 0..m /\ k - 1 \in 0..m /\ k - 1 # m BY <1>4
        <3>2. g[k - 1] = f[k - 1] BY <3>1
        <3>3. CASE k = m BY <3>1, <3>2, <3>3
        <3>4. CASE k # m
            <4>1. k \in 1..(m - 1) BY <1>4, <3>4
            <4>2. QED BY <3>1, <3>2, <3>4, <4>1, <2>5
        <3>5. QED BY <3>3, <3>4
    <2> HIDE DEF g
    <2>9. SumsUpTo(g, q, m) BY <2>6, <2>7, <2>8 DEF SumsUpTo
    <2>10. QED BY <2>9
<1>7. QED BY <1>5, <1>6

\* Asked adds up.
LEMMA AskedAddsUp ==
    ASSUME NEW q \in Seq(Requests)
    PROVE  /\ Asked(q, 0) = 0
           /\ \A k \in 0..Len(q) : Asked(q, k) \in Nat
           /\ \A k \in 1..Len(q) : Asked(q, k) = Asked(q, k - 1) + q[k].bytes
<1> DEFINE Eq(f) == f = [i \in 0..Len(q) |-> IF i = 0 THEN 0 ELSE f[i - 1] + q[i].bytes]
<1> DEFINE sum == CHOOSE f : Eq(f)
<1>1. Len(q) \in Nat OBVIOUS
<1>2. PICK f : SumsUpTo(f, q, Len(q)) BY <1>1, SumsExist
<1>3. Eq(f)
    <2>1. ASSUME NEW i \in 0..Len(q)
          PROVE  f[i] = IF i = 0 THEN 0 ELSE f[i - 1] + q[i].bytes
        BY <1>1, <1>2 DEF SumsUpTo
    <2>2. f \in [0..Len(q) -> Nat] BY <1>2 DEF SumsUpTo
    <2>3. QED BY <2>1, <2>2
<1>4. Eq(sum)
    <2> HIDE DEF Eq
    <2>1. QED BY <1>3
<1>5. \A k : Asked(q, k) = sum[k] BY DEF Asked
<1> HIDE DEF sum
<1>6. \A i \in 0..Len(q) : sum[i] = IF i = 0 THEN 0 ELSE sum[i - 1] + q[i].bytes
    BY <1>4
<1>7. sum[0] = 0 BY <1>1, <1>6
<1>8. \A k \in 1..Len(q) : sum[k] = sum[k - 1] + q[k].bytes BY <1>1, <1>6
<1>9. \A k \in 0..Len(q) : sum[k] \in Nat
    <2> DEFINE T == {k \in 0..Len(q) : sum[k] \notin Nat}
    <2>1. SUFFICES ASSUME T # {} PROVE FALSE OBVIOUS
    <2>2. T \subseteq Nat BY <1>1
    <2>3. PICK m \in T : \A j \in T : m <= j BY <2>1, <2>2, LeastNatural
    <2>4. m \in 0..Len(q) /\ m # 0 BY <1>7
    <2>5. m - 1 \in 0..Len(q) /\ m - 1 \notin T BY <1>1, <2>3, <2>4
    <2>6. sum[m - 1] \in Nat BY <2>5
    <2>7. q[m] \in Requests BY <1>1, <2>4
    <2>8. q[m].bytes \in Nat BY <2>7 DEF Requests
    <2>9. sum[m] = sum[m - 1] + q[m].bytes BY <1>1, <1>8, <2>4
    <2>10. QED BY <2>6, <2>8, <2>9
<1>10. QED BY <1>5, <1>7, <1>8, <1>9

\* The handlers schedule_timer serves are paid for, and the next one is not.
LEMMA ServedIsPaid ==
    ASSUME NEW q \in Seq(Requests), NEW t \in Nat
    PROVE  /\ Served(q, t) \in 0..Len(q)
           /\ Asked(q, Served(q, t)) \in 0..t
           /\ Served(q, t) # Len(q) =>
                /\ q[Served(q, t) + 1].bytes \in Nat
                /\ Asked(q, Served(q, t)) + q[Served(q, t) + 1].bytes > t
<1> DEFINE T == {j \in 1..Len(q) : Asked(q, j) > t}
           Ok(k) == Asked(q, k) <= t /\ (k = Len(q) \/ Asked(q, k + 1) > t)
<1>1. Len(q) \in Nat OBVIOUS
<1>2. \A k \in 0..Len(q) : Asked(q, k) \in Nat BY AskedAddsUp
<1>3. \E k \in 0..Len(q) : Ok(k)
    <2>1. CASE T = {}
        <3>1. Asked(q, Len(q)) <= t
            <4>1. CASE Len(q) = 0
                <5>1. Asked(q, 0) = 0 BY AskedAddsUp
                <5>2. Asked(q, Len(q)) = 0 BY <4>1, <5>1
                <5>3. QED BY <5>2
            <4>2. CASE Len(q) # 0
                <5>1. Len(q) \in 1..Len(q) BY <1>1, <4>2
                <5>2. ~(Asked(q, Len(q)) > t) BY <2>1, <5>1
                <5>3. Asked(q, Len(q)) \in Nat BY <1>1, <1>2
                <5>4. QED BY <5>2, <5>3
            <4>3. QED BY <4>1, <4>2
        <3>2. QED BY <1>1, <3>1
    <2>2. CASE T # {}
        <3>1. T \subseteq Nat BY <1>1
        <3>2. PICK m \in T : \A j \in T : m <= j BY <2>2, <3>1, LeastNatural
        <3>3. m \in 1..Len(q) /\ Asked(q, m) > t OBVIOUS
        <3>4. m - 1 \in 0..Len(q) /\ m - 1 \notin T /\ (m - 1) + 1 = m
            BY <1>1, <3>2, <3>3
        <3>5. Asked(q, m - 1) <= t
            <4>1. CASE m = 1 BY <4>1, AskedAddsUp
            <4>2. CASE m # 1
                <5>1. m - 1 \in 1..Len(q) BY <1>1, <3>3, <4>2
                <5>2. ~(Asked(q, m - 1) > t) BY <3>4, <5>1
                <5>3. Asked(q, m - 1) \in Nat BY <1>2, <3>4
                <5>4. QED BY <5>2, <5>3
            <4>3. QED BY <4>1, <4>2
        <3>6. Ok(m - 1) BY <3>3, <3>4, <3>5
        <3>7. QED BY <3>4, <3>6
    <2>3. QED BY <2>1, <2>2
<1> DEFINE s == Served(q, t)
<1>4. s \in 0..Len(q) /\ Ok(s) BY <1>3 DEF Served
<1> HIDE DEF s
<1>5. Asked(q, s) \in 0..t BY <1>2, <1>4
<1>6. ASSUME s # Len(q)
      PROVE  q[s + 1].bytes \in Nat /\ Asked(q, s) + q[s + 1].bytes > t
    <2>1. s + 1 \in 1..Len(q) /\ (s + 1) - 1 = s BY <1>1, <1>4, <1>6
    <2>2. q[s + 1] \in Requests BY <2>1
    <2>3. Asked(q, s + 1) = Asked(q, s) + q[s + 1].bytes
        <3> DEFINE u == s + 1
        <3>1. u \in 1..Len(q) /\ u - 1 = s BY <2>1
        <3> HIDE DEF u
        <3>2. Asked(q, u) = Asked(q, u - 1) + q[u].bytes BY <3>1, AskedAddsUp
        <3>3. QED BY <3>1, <3>2 DEF u
    <2>4. QED BY <1>4, <1>6, <2>2, <2>3 DEF Requests
<1>7. QED BY <1>4, <1>5, <1>6 DEF s

\* What the limit allows in a tick.
PerTick == TopRate \div TicksPerSecond

\* What the limiter could let go at once, if it were set to the largest limit.
Credit == Lesser(TopRate, tokens + elapsed * PerTick)

\* The invariant of the limiter. The last conjunct makes NeverFaster inductive:
\* what was let go beyond the limit is missing from the bucket.
LimiterInv ==
    /\ LimiterTypeOK
    /\ TimerCoversQueue
    /\ excess + Credit <= TopRate

\* The largest limit is one.
LEMMA TopRateIsLargest ==
    /\ TopRate \in Rates
    /\ \A s \in Rates : s <= TopRate
BY RateAssumption DEF TopRate

\* A larger limit allows no less per tick.
LEMMA PerTickGrows ==
    ASSUME NEW r \in Rates
    PROVE  /\ r \in Nat \ {0} /\ TopRate \in Nat \ {0} /\ r <= TopRate
           /\ r \div TicksPerSecond \in Nat
           /\ PerTick \in Nat
           /\ r \div TicksPerSecond <= PerTick
<1>1. r \in Nat \ {0} /\ TopRate \in Nat \ {0} /\ r <= TopRate
    BY TopRateIsLargest, RateAssumption
<1>2. TicksPerSecond \in Nat \ {0} BY RateAssumption
<1>3. ASSUME NEW a \in Nat, NEW n \in Nat \ {0} PROVE a \div n \in Nat
    OBVIOUS
<1>4. ASSUME NEW a \in Nat, NEW b \in Nat, a <= b, NEW n \in Nat \ {0}
      PROVE  a \div n <= b \div n
    <2> DEFINE x == a \div n
               y == b \div n
    <2>1. x \in Nat /\ y \in Nat /\ n * x <= a /\ b < n * y + n BY <1>3, <1>4
    <2> HIDE DEF x, y
    <2>2. ASSUME x > y PROVE FALSE
        <3> DEFINE d == x - y - 1
        <3>1. d \in Nat /\ x = y + 1 + d BY <2>1, <2>2
        <3> HIDE DEF d
        <3>2. n * d \in Nat BY <3>1
        <3>3. n * x = n * y + n + n * d BY <2>1, <3>1
        <3>4. n * x \in Nat /\ n * y \in Nat BY <2>1
        <3>5. QED BY <1>4, <2>1, <3>2, <3>3, <3>4
    <2>3. QED BY <2>1, <2>2 DEF x, y
<1>5. QED BY <1>1, <1>2, <1>3, <1>4 DEF PerTick

\* update_tokens: the bucket holds no more than the limit and the Credit.
LEMMA TokensWithinCredit ==
    ASSUME LimiterTypeOK
    PROVE  /\ update_tokens \in 0..rate
           /\ update_tokens <= Credit
           /\ Credit \in Nat
           /\ tokens <= update_tokens
<1> DEFINE g == rate \div TicksPerSecond
<1>1. /\ rate \in Nat \ {0} /\ TopRate \in Nat \ {0} /\ rate <= TopRate
      /\ g \in Nat /\ PerTick \in Nat /\ g <= PerTick
    BY PerTickGrows DEF LimiterTypeOK
<1>2. tokens \in 0..rate /\ elapsed \in Nat BY RateAssumption DEF LimiterTypeOK
<1>3. ASSUME NEW e \in Nat, NEW x \in Nat, NEW y \in Nat, x <= y
      PROVE  e * x \in Nat /\ e * y \in Nat /\ e * x <= e * y
    <2> DEFINE d == y - x
    <2>1. d \in Nat /\ y = x + d BY <1>3
    <2> HIDE DEF d
    <2>2. e * x \in Nat /\ e * y \in Nat /\ e * d \in Nat BY <2>1
    <2>3. e * y = e * x + e * d BY <2>1
    <2>4. QED BY <2>2, <2>3
<1> HIDE DEF g
<1>4. elapsed * g \in Nat /\ elapsed * PerTick \in Nat /\ elapsed * g <= elapsed * PerTick
    BY <1>1, <1>2, <1>3
<1>5. update_tokens = Lesser(rate, tokens + elapsed * g) BY DEF update_tokens, g
<1> DEFINE x == elapsed * g
           y == elapsed * PerTick
<1>6. x \in Nat /\ y \in Nat /\ x <= y BY <1>4
<1>7. update_tokens = Lesser(rate, tokens + x) /\ Credit = Lesser(TopRate, tokens + y)
    BY <1>5 DEF Credit
<1> HIDE DEF x, y
<1>8. QED BY <1>1, <1>2, <1>6, <1>7 DEF Lesser

\* Once the limiter has settled its clock and let b bytes go, NeverFaster's
\* invariant holds again.
LEMMA LetGo ==
    ASSUME LimiterInv, NEW b \in 0..update_tokens,
           tokens' = update_tokens - b, elapsed' = 0, excess' = excess + b, rate' = rate
    PROVE  /\ rate' \in Rates
           /\ tokens' \in 0..rate'
           /\ elapsed' \in 0..TicksPerSecond
           /\ excess' \in Nat
           /\ excess' + Credit' <= TopRate
<1>1. LimiterTypeOK /\ excess + Credit <= TopRate BY DEF LimiterInv
<1>2. /\ update_tokens \in 0..rate /\ update_tokens <= Credit /\ Credit \in Nat
      /\ tokens <= update_tokens
    BY <1>1, TokensWithinCredit
<1>3. rate \in Rates /\ excess \in Nat BY <1>1 DEF LimiterTypeOK
<1>4. rate \in Nat \ {0} /\ TopRate \in Nat \ {0} /\ rate <= TopRate /\ PerTick \in Nat
    BY <1>3, PerTickGrows
<1>5. Credit' = Lesser(TopRate, tokens' + elapsed' * PerTick) BY DEF Credit, PerTick, TopRate
<1>6. tokens' \in 0..rate BY <1>2, <1>4
<1>7. Credit' <= tokens' /\ Credit' \in Nat BY <1>4, <1>5, <1>6 DEF Lesser
<1>8. TicksPerSecond \in Nat BY RateAssumption
<1>9. excess' + Credit' <= TopRate
    <2> DEFINE c == Credit
               d == Credit'
               u == update_tokens
    <2>1. /\ c \in Nat /\ d \in Nat /\ u \in Nat /\ b \in Nat /\ b <= u
          /\ excess + c <= TopRate /\ u <= c /\ d <= u - b /\ excess' = excess + b
        BY <1>1, <1>2, <1>4, <1>7
    <2> HIDE DEF c, d, u
    <2>2. excess' + d <= TopRate BY <1>3, <1>4, <2>1
    <2>3. QED BY <2>2 DEF d
<1>10. QED BY <1>2, <1>3, <1>6, <1>8, <1>9

\* schedule_timer for a queue that is not empty.
LEMMA ScheduleKeeps ==
    ASSUME LimiterInv, NEW q \in Seq(Requests), schedule_timer(q)
    PROVE  LimiterInv'
<1> DEFINE t == update_tokens
           k == Served(q, t)
           b == Asked(q, k)
<1>1. LimiterTypeOK BY DEF LimiterInv
<1>2. t \in 0..rate /\ rate \in Nat \ {0}
    BY <1>1, TokensWithinCredit, PerTickGrows DEF LimiterTypeOK
<1>3. t \in Nat BY <1>2
<1>4. /\ k \in 0..Len(q) /\ b \in 0..t
      /\ k # Len(q) => q[k + 1].bytes \in Nat /\ b + q[k + 1].bytes > t
    BY <1>3, ServedIsPaid
<1>5. /\ tokens' = t - b /\ elapsed' = 0 /\ excess' = excess + b /\ rate' = rate
      /\ waiting' = SubSeq(q, k + 1, Len(q))
      /\ timer' = IF k = Len(q) THEN Off
                  ELSE ((q[k + 1].bytes - (t - b)) * TicksPerSecond) \div rate
    BY DEF schedule_timer
<1> HIDE DEF k, b
<1>6. /\ rate' \in Rates /\ tokens' \in 0..rate' /\ elapsed' \in 0..TicksPerSecond
      /\ excess' \in Nat /\ excess' + Credit' <= TopRate
    BY <1>4, <1>5, LetGo
<1> HIDE DEF t
<1>7. waiting' \in Seq(Requests) /\ (waiting' = <<>> <=> k = Len(q))
    <2>1. /\ k + 1 \in 1..(Len(q) + 1) /\ Len(q) \in Nat
          /\ \A i \in (k + 1)..Len(q) : i \in 1..Len(q)
        BY <1>4
    <2>2. waiting' = [i \in 1..(Len(q) - k) |-> q[i + k]] BY <1>4, <1>5, <2>1
    <2>3. \A i \in 1..(Len(q) - k) : q[i + k] \in Requests BY <1>4, <2>1
    <2>4. Len(q) - k \in Nat BY <1>4
    <2>5. waiting' \in Seq(Requests) /\ Len(waiting') = Len(q) - k
        BY <2>2, <2>3, <2>4
    <2>6. QED BY <1>4, <2>4, <2>5
<1>8. /\ timer' \in Nat \cup {Off}
      /\ timer' # Off <=> k # Len(q)
    <2>1. CASE k = Len(q) BY <1>5, <2>1 DEF Off
    <2>2. CASE k # Len(q)
        <3> DEFINE m == q[k + 1].bytes - (t - b)
        <3>1. m \in Nat BY <1>3, <1>4, <2>2
        <3>2. timer' = (m * TicksPerSecond) \div rate BY <1>5, <2>2
        <3> HIDE DEF m
        <3>3. TicksPerSecond \in Nat BY RateAssumption
        <3>4. m * TicksPerSecond \in Nat BY <3>1, <3>3
        <3>5. ASSUME NEW a \in Nat, NEW n \in Nat \ {0} PROVE a \div n \in Nat
            OBVIOUS
        <3>6. timer' \in Nat BY <1>2, <3>2, <3>4, <3>5
        <3>7. QED BY <2>2, <3>6 DEF Off
    <2>3. QED BY <2>1, <2>2
<1>9. LimiterTypeOK' BY <1>6, <1>7, <1>8 DEF LimiterTypeOK, Requests, Off
<1>10. TimerCoversQueue' BY <1>7, <1>8 DEF TimerCoversQueue, Off
<1>11. QED BY <1>6, <1>9, <1>10 DEF LimiterInv, TopRate

\* async_wait, whether the handler is posted or queued.
LEMMA AsyncWaitKeeps ==
    ASSUME LimiterInv, NEW u \in Users, NEW n \in Nat,
           async_wait_passes(n) \/ async_wait_queues(u, n)
    PROVE  LimiterInv'
<1>1. LimiterTypeOK /\ TimerCoversQueue BY DEF LimiterInv
<1>2. waiting \in Seq(Requests) /\ update_tokens \in Nat
    <2>1. update_tokens \in 0..rate /\ rate \in Nat
        BY <1>1, TokensWithinCredit, PerTickGrows DEF LimiterTypeOK
    <2>2. QED BY <1>1, <2>1 DEF LimiterTypeOK, Requests
<1>3. CASE async_wait_passes(n)
    <2>1. /\ n \in 0..update_tokens /\ tokens' = update_tokens - n /\ elapsed' = 0
          /\ excess' = excess + n /\ rate' = rate /\ timer' = timer /\ waiting' = waiting
        BY <1>2, <1>3 DEF async_wait_passes
    <2>2. /\ rate' \in Rates /\ tokens' \in 0..rate' /\ elapsed' \in 0..TicksPerSecond
          /\ excess' \in Nat /\ excess' + Credit' <= TopRate
        BY <2>1, LetGo
    <2>3. QED BY <1>1, <2>1, <2>2 DEF LimiterInv, LimiterTypeOK, TimerCoversQueue, Off, TopRate
<1>4. CASE async_wait_queues(u, n)
    <2> DEFINE w == [user |-> u, bytes |-> n]
               q == Append(waiting, w)
    <2>1. w \in Requests BY DEF Requests
    <2> HIDE DEF w
    <2>2. q \in Seq(Requests) /\ q # <<>> /\ Len(q) = Len(waiting) + 1 BY <1>2, <2>1
    <2>3. CASE Len(q) = 1
        <3>1. schedule_timer(q) BY <1>4, <2>3 DEF async_wait_queues, w
        <3> HIDE DEF q
        <3>2. QED BY <2>2, <3>1, ScheduleKeeps
    <2>4. CASE Len(q) # 1
        <3>1. /\ waiting' = q /\ tokens' = update_tokens - 0 /\ elapsed' = 0
              /\ excess' = excess + 0 /\ rate' = rate /\ timer' = timer
            BY <1>1, <1>2, <1>4, <2>4 DEF async_wait_queues, w, LimiterTypeOK
        <3>2. /\ rate' \in Rates /\ tokens' \in 0..rate' /\ elapsed' \in 0..TicksPerSecond
              /\ excess' \in Nat /\ excess' + Credit' <= TopRate
            BY <1>2, <3>1, LetGo
        <3>3. waiting # <<>> BY <1>2, <2>2, <2>4
        <3> HIDE DEF q
        <3>4. QED BY <1>1, <2>2, <3>1, <3>2, <3>3
                  DEF LimiterInv, LimiterTypeOK, TimerCoversQueue, Requests, Off, TopRate
    <2>5. QED BY <2>3, <2>4
<1>5. QED BY <1>3, <1>4

\* A change of the limit only ever takes tokens away.
LEMMA SetRateKeeps ==
    ASSUME LimiterInv, NEW r \in Rates, set_rate(r)
    PROVE  LimiterInv'
<1>1. LimiterTypeOK /\ TimerCoversQueue /\ excess + Credit <= TopRate BY DEF LimiterInv
<1>2. /\ rate' = r /\ tokens' = Lesser(tokens, r) /\ elapsed' = elapsed /\ timer' = timer
      /\ waiting' = waiting /\ excess' = excess
    BY DEF set_rate
<1>3. tokens \in Nat /\ elapsed \in Nat /\ excess \in Nat /\ rate \in Rates
    BY <1>1, RateAssumption DEF LimiterTypeOK
<1>4. r \in Nat \ {0} /\ TopRate \in Nat \ {0} /\ PerTick \in Nat BY PerTickGrows
<1>5. tokens' \in 0..r /\ tokens' <= tokens BY <1>2, <1>3, <1>4 DEF Lesser
<1> DEFINE y == elapsed * PerTick
<1>6. y \in Nat BY <1>3, <1>4
<1>7. Credit = Lesser(TopRate, tokens + y) /\ Credit' = Lesser(TopRate, tokens' + y)
    BY <1>2 DEF Credit, PerTick, TopRate
<1> HIDE DEF y
<1>8. ASSUME NEW a \in Nat, NEW b \in Nat, NEW m \in Nat, a <= b
      PROVE  Lesser(m, a) \in Nat /\ Lesser(m, b) \in Nat /\ Lesser(m, a) <= Lesser(m, b)
    BY <1>8 DEF Lesser
<1>9. excess' + Credit' <= TopRate
    <2> DEFINE c == Credit
               d == Credit'
    <2>1. c = Lesser(TopRate, tokens + y) /\ d = Lesser(TopRate, tokens' + y)
          /\ excess + c <= TopRate
        BY <1>1, <1>7
    <2> HIDE DEF c, d
    <2>2. /\ tokens + y \in Nat /\ tokens' + y \in Nat /\ tokens' + y <= tokens + y
        <3> DEFINE v == tokens'
        <3>1. v \in 0..r /\ v <= tokens BY <1>5
        <3> HIDE DEF v
        <3>2. v \in Nat BY <1>4, <3>1
        <3>3. v + y \in Nat /\ v + y <= tokens + y /\ tokens + y \in Nat
            BY <1>3, <1>6, <3>1, <3>2
        <3>4. QED BY <3>3 DEF v
    <2>3. c \in Nat /\ d \in Nat /\ d <= c BY <1>4, <1>8, <2>1, <2>2
    <2>4. excess + d <= TopRate BY <1>3, <1>4, <2>1, <2>3
    <2>5. QED BY <1>2, <2>4 DEF d
<1>10. LimiterTypeOK' BY <1>1, <1>2, <1>5 DEF LimiterTypeOK
<1>11. QED BY <1>1, <1>2, <1>9, <1>10 DEF LimiterInv, TimerCoversQueue, TopRate, Off

\* In a tick the credit grows by no more than the allowance does.
LEMMA TickKeeps ==
    ASSUME LimiterInv, Tick
    PROVE  LimiterInv'
<1>1. LimiterTypeOK /\ TimerCoversQueue /\ excess + Credit <= TopRate BY DEF LimiterInv
<1>2. /\ elapsed' = Lesser(elapsed + 1, TicksPerSecond)
      /\ timer' = IF timer > 0 THEN timer - 1 ELSE timer
      /\ excess' = Greater(0, excess - PerTick)
      /\ rate' = rate /\ tokens' = tokens /\ waiting' = waiting
    BY DEF Tick, PerTick
<1>3. /\ tokens \in Nat /\ elapsed \in 0..TicksPerSecond /\ excess \in Nat /\ rate \in Rates
      /\ TicksPerSecond \in Nat \ {0}
    BY <1>1, RateAssumption, PerTickGrows DEF LimiterTypeOK
<1>4. TopRate \in Nat \ {0} /\ PerTick \in Nat BY <1>3, PerTickGrows
<1>5. elapsed' \in 0..TicksPerSecond /\ excess' \in Nat
      /\ (elapsed' = elapsed + 1 \/ elapsed' = elapsed)
    BY <1>2, <1>3, <1>4 DEF Lesser, Greater
<1> DEFINE y == elapsed * PerTick
           z == elapsed' * PerTick
<1>6. y \in Nat /\ z \in Nat /\ z <= y + PerTick
    <2>1. y \in Nat BY <1>3, <1>4
    <2>2. (elapsed + 1) * PerTick = y + PerTick BY <1>3, <1>4
    <2>3. z = y \/ z = y + PerTick BY <1>5, <2>2
    <2> HIDE DEF y, z
    <2>4. QED BY <1>4, <2>1, <2>3
<1>7. Credit = Lesser(TopRate, tokens + y) /\ Credit' = Lesser(TopRate, tokens + z)
    BY <1>2 DEF Credit, PerTick, TopRate
<1> HIDE DEF y, z
<1>8. excess' + Credit' <= TopRate
    <2> DEFINE c == Credit
               d == Credit'
    <2>1. c = Lesser(TopRate, tokens + y) /\ d = Lesser(TopRate, tokens + z)
          /\ excess + c <= TopRate
        BY <1>1, <1>7
    <2> HIDE DEF c, d
    <2>2. excess' + d <= TopRate
        BY <1>2, <1>3, <1>4, <1>6, <2>1 DEF Lesser, Greater
    <2>3. QED BY <2>2 DEF d
<1>9. timer' \in Nat \cup {Off} /\ (timer' # Off <=> timer # Off)
    BY <1>1, <1>2 DEF LimiterTypeOK, Off
<1>10. LimiterTypeOK' BY <1>1, <1>2, <1>5, <1>9 DEF LimiterTypeOK, Off
<1>11. QED BY <1>1, <1>2, <1>8, <1>9, <1>10 DEF LimiterInv, TimerCoversQueue, TopRate, Off

\* A step that leaves the limiter alone.
LEMMA LimiterFramed ==
    ASSUME LimiterInv, UNCHANGED limiterVars
    PROVE  LimiterInv'
BY DEF LimiterInv, limiterVars, LimiterTypeOK, TimerCoversQueue, Credit, PerTick, TopRate, Off

\* Every step of the bridges and of the limiter keeps LimiterInv.
LEMMA StepLimiterInv ==
    ASSUME LimiterInv, [Next]_vars
    PROVE  LimiterInv'
<1>1. CASE Limiter
    <2>1. CASE TimerFires
        <3>1. waiting \in Seq(Requests) BY DEF LimiterInv, LimiterTypeOK, Requests
        <3>2. QED BY <2>1, <3>1, ScheduleKeeps DEF TimerFires
    <2>2. QED BY <1>1, <2>1, TickKeeps, SetRateKeeps DEF Limiter
<1>2. ASSUME NEW l \in Loops, NEW n \in Sizes, NEW k, NEW p, Forward(l, n, k, p)
      PROVE  LimiterInv'
    <2>1. l \in Users /\ n \in Nat BY BridgeAssumption DEF Loops
    <2>2. QED BY <1>2, <2>1, AsyncWaitKeeps, LimiterFramed DEF Forward
<1>3. ASSUME NEW l \in Loops, NEW n \in Sizes, ReadSome(l, n) PROVE LimiterInv'
    BY <1>2, <1>3 DEF ReadSome
<1>4. ASSUME NEW l \in Loops, NEW n \in Sizes, NEW c \in BOOLEAN, ReadBody(l, n, c)
      PROVE  LimiterInv'
    BY <1>2, <1>4 DEF ReadBody
<1>5. ASSUME NEW b \in Bridges, NEW k, NEW rl, Start(b, k, rl) \/ Destroy(b)
      PROVE  UNCHANGED limiterVars
    BY <1>5 DEF Start, Destroy
<1>6. ASSUME NEW l \in Loops,
             \/ ReadHeader(l) \/ BadFrame(l) \/ ReadFails(l) \/ FailsClosed(l)
             \/ RunPosted(l) \/ WriteDone(l) \/ WriteFails(l)
      PROVE  UNCHANGED limiterVars
    BY <1>6 DEF ReadHeader, BadFrame, ReadFails, FailsClosed, RunPosted, WriteDone, WriteFails
<1>7. CASE UNCHANGED vars BY <1>7, LimiterFramed DEF vars
<1>8. QED BY <1>1, <1>3, <1>4, <1>5, <1>6, <1>7, LimiterFramed DEF Next

\* A limiter starts with a full bucket and nothing let go.
LEMMA InitLimiterInv ==
    ASSUME LimiterInit
    PROVE  LimiterInv
<1>1. rate \in Rates /\ tokens = rate /\ elapsed = 0 /\ timer = Off /\ waiting = <<>> /\ excess = 0
    BY DEF LimiterInit
<1>2. rate \in Nat /\ TopRate \in Nat /\ PerTick \in Nat /\ TicksPerSecond \in Nat
    BY <1>1, PerTickGrows, RateAssumption
<1>3. Credit <= TopRate /\ Credit \in Nat BY <1>1, <1>2 DEF Credit, Lesser
<1>4. waiting \in Seq([user : Users, bytes : Nat]) BY <1>1
<1>5. QED BY <1>1, <1>2, <1>3, <1>4 DEF LimiterInv, LimiterTypeOK, TimerCoversQueue, Off

\* The invariant of the limiter (rate_limiter.h).
THEOREM LimiterInvariance == Spec => []LimiterInv
<1>1. Init => LimiterInv BY InitLimiterInv DEF Init
<1>2. LimiterInv /\ [Next]_vars => LimiterInv' BY StepLimiterInv
<1>3. QED BY <1>1, <1>2, PTL DEF Spec

\* async_wait, schedule_timer and set_rate: over no window of time do the bridges
\* of a proxy get more than the largest limit allows and one second's worth more.
THEOREM LimitIsKept == Spec => []NeverFaster
<1>1. ASSUME LimiterInv PROVE NeverFaster
    <2> DEFINE c == Credit
    <2>1. excess + c <= TopRate /\ c \in Nat /\ excess \in Nat
        BY <1>1, TokensWithinCredit DEF LimiterInv, LimiterTypeOK
    <2>2. TopRate \in Nat BY <1>1, PerTickGrows DEF LimiterInv, LimiterTypeOK
    <2> HIDE DEF c
    <2>3. QED BY <2>1, <2>2 DEF NeverFaster
<1>2. QED BY LimiterInvariance, <1>1, PTL

\* schedule_timer: the timer runs exactly while a handler is queued.
THEOREM TimerIsRunning == Spec => []TimerCoversQueue
<1>1. LimiterInv => TimerCoversQueue BY DEF LimiterInv
<1>2. QED BY LimiterInvariance, <1>1, PTL

\* The types of the bridges, of their buffers and of the limiter.
THEOREM TypeCorrect == Spec => []TypeOK
<1> DEFINE Flags == limited \in [Bridges -> BOOLEAN]
<1>1. Init => Flags BY DEF Init
<1>2. ASSUME Flags, [Next]_vars PROVE Flags'
    <2>1. ASSUME NEW b \in Bridges, NEW k, NEW rl \in BOOLEAN, Start(b, k, rl) PROVE Flags'
        BY <1>2, <2>1 DEF Start
    <2>2. ASSUME NEW b \in Bridges, Destroy(b) PROVE Flags' BY <1>2, <2>2 DEF Destroy
    <2>3. CASE Limiter BY <1>2, <2>3 DEF Limiter, bridgeVars
    <2>4. ASSUME NEW l \in Loops,
                 \/ \E n \in Sizes : ReadSome(l, n)
                 \/ ReadHeader(l)
                 \/ \E n \in Sizes, c \in BOOLEAN : ReadBody(l, n, c)
                 \/ BadFrame(l) \/ ReadFails(l) \/ FailsClosed(l)
                 \/ RunPosted(l) \/ WriteDone(l) \/ WriteFails(l)
          PROVE  limited' = limited
        BY <2>4 DEF ReadSome, ReadBody, Forward, ReadHeader, BadFrame, ReadFails,
                    FailsClosed, RunPosted, WriteDone, WriteFails
    <2>5. CASE UNCHANGED vars BY <1>2, <2>5 DEF vars, bridgeVars
    <2>6. QED BY <1>2, <2>1, <2>2, <2>3, <2>4, <2>5 DEF Next
<1>3. IInv /\ LimiterInv /\ Flags => TypeOK
    BY DEF IInv, Types, PoolRight, Right, LimiterInv, TypeOK, Places, Kinds3
<1>4. QED BY Invariance, LimiterInvariance, <1>1, <1>2, <1>3, PTL DEF Spec
=============================================================================
