----------------------------- MODULE MCBridge -----------------------------
EXTENDS Bridge, TLC

CONSTANTS b1, b2

TwoLoops == Bridges \X {1, 2}

Kinds == (b1 :> {"plain", "framed", "udp_client"}) @@ (b2 :> {"udp_server"})
=============================================================================
