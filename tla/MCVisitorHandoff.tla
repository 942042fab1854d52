-------------------------- MODULE MCVisitorHandoff --------------------------
(* Bounds of the TLC runs of VisitorHandoff. *)
EXTENDS VisitorHandoff

\* No two visitors, or any two, read the clock in the same tick.
Ordered == [v \in Visitors |-> IF v = "alice" THEN 1 ELSE 2]
Same    == [v \in Visitors |-> 1]

TcpAndUdp  == [p \in Proxies |-> IF p = "dns" THEN "udp" ELSE "tcp"]
TcpAndHttp == [p \in Proxies |-> IF p = "web" THEN "http" ELSE "tcp"]
=============================================================================
