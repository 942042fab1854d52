---------------------------- MODULE MCMuxStream ----------------------------
(***************************************************************************)
(* Instances of MuxStream for TLC.  As in the code, the update threshold   *)
(* is below the window: two and four units, so that a reader can hold back *)
(* one consumed unit (the reads the code is safe for are then of at most   *)
(* three units), or one and two, where a write of three is split.          *)
(***************************************************************************)
EXTENDS MuxStream

PerEnd(o, a) == [e \in Ends |-> IF e = "opener" THEN o ELSE a]

\* Both directions, a write that is split, and a transport that may fail.
DuplexWriteSizes == PerEnd({3}, {1})
DuplexReadSizes  == PerEnd({1}, {2})
DuplexWrites     == PerEnd(1, 1)
DuplexReads      == PerEnd(1, 2)

\* Writes that need several frames or none, and reads of any safe size.
SplitWriteSizes  == PerEnd({0, 6}, {})
SplitWrites      == PerEnd(2, 0)
SplitReads       == PerEnd(0, 3)
SplitReadSizes   == PerEnd({}, {1, 3})

\* A reader that asks for a message larger than the window but not larger
\* than the message limit.
LargeReadSizes   == PerEnd({}, {5})
============================================================================
