---------------------------- MODULE BufferPool ----------------------------
(***************************************************************************)
(* One bucket of src/common/buffer_pool.h.  Buckets share nothing, so one   *)
(* stands for all.  Get and Return hold the bucket's mutex while they       *)
(* change it.  A buffer is "pool" when its deleter calls Return and "temp"  *)
(* when it is freed outright.  `new` is taken to succeed.                   *)
(***************************************************************************)
EXTENDS Integers

CONSTANTS
    InitialCount,   \* config.initial_count
    MaxCount        \* config.max_count

ASSUME PoolAssumption ==
    /\ InitialCount \in Nat
    /\ MaxCount \in Nat
    /\ InitialCount <= MaxCount

VARIABLE pool   \* buffers.size() as free, allocated_count as allocated

Buckets == [free : Nat, allocated : Nat]

PoolInit == pool = [free |-> InitialCount, allocated |-> InitialCount]

\* Get: the kind of buffer it returns and the bucket it leaves.
Got(p) ==
    IF p.free > 0 THEN "pool"
    ELSE IF p.allocated < MaxCount THEN "pool" ELSE "temp"

\* Mutated form: a buffer made beyond the initial ones is not counted.
Get_Uncounted(p) == IF p.free > 0 THEN [p EXCEPT !.free = @ - 1] ELSE p

Get(p) ==
    IF p.free > 0 THEN [p EXCEPT !.free = @ - 1]
    ELSE IF p.allocated < MaxCount THEN [p EXCEPT !.allocated = @ + 1] ELSE p

\* The deleter of a buffer of kind k: Return for one of the pool's.
Return(p, k) ==
    IF k # "pool" THEN p
    ELSE IF p.free < MaxCount THEN [p EXCEPT !.free = @ + 1]
    ELSE [p EXCEPT !.allocated = @ - 1]
=============================================================================
