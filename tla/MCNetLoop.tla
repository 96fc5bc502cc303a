----------------------------- MODULE MCNetLoop ------------------------------
(* TLC instances of NetLoop.  The server is beyond the gateway, the ping   *)
(* host is on our subnet.                                                  *)
EXTENDS NetLoop

MCOnePort == {2001}
MCPorts == {2001, 2002}
MCThreePorts == 2001 .. 2003
MCLocal == {"host", "gateway"}
MCPingHosts == {"host"}
=============================================================================
