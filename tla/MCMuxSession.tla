---------------------------- MODULE MCMuxSession ----------------------------
(* Bounds of the TLC runs of MuxSession. *)
EXTENDS MuxSession

EachOpensOne   == [s \in Ends |-> 1]
None           == [s \in Ends |-> 0]
ClientSendsOne == [s \in Ends |-> IF s = "client" THEN 1 ELSE 0]

SilentOrBroken == {"silent", "broken"}
NoFault        == {}
GoAway         == {"goaway"}
=============================================================================
