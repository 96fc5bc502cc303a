--------------------------- MODULE MCTftpTransfer ---------------------------
(* TLC instances of TftpTransfer.  Two server ports let the RRQ and its    *)
(* retransmission open two sessions.                                       *)
EXTENDS TftpTransfer

MCPorts == {2001, 2002}
MCOnePort == {2001}
MCOurPorts == {1024}
=============================================================================
