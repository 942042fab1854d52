------------------------- MODULE MCControlRegistry --------------------------
(* Bounds of the TLC runs of ControlRegistry. *)
EXTENDS ControlRegistry

ssh  == [name |-> "ssh", type |-> "tcp", at |-> 1, limit |-> TRUE]
ssh2 == [name |-> "ssh", type |-> "udp", at |-> 2, limit |-> FALSE]
web  == [name |-> "web", type |-> "http", at |-> 1, limit |-> FALSE]

\* A client that is turned away, and one without a name in its configuration.
NoneAndB  == {<<>>, <<"b">>}
Unnamed   == {<<>>, <<"client">>}
StaticWeb == [c \in Clients |-> <<web>>]
ConfSsh   == [c \in Clients |-> {ssh, ssh2}]
=============================================================================
