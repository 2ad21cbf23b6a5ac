-------------------------------- MODULE MCWire --------------------------------
EXTENDS Wire
CONSTANTS a
MCMaxSends == [c \in Conns |-> 4]
MCOps == {"sync", "frame", "create", "destroy", "ask", "ignored", "bad", "missing"}
MCUninit == {OK, 1, DISPATCH_PROTO_ERR, DISPATCH_FATAL_ERR, DISPATCH_CLIENT_ERR}
=============================================================================
