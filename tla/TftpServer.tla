----------------------------- MODULE TftpServer -----------------------------
(***************************************************************************)
(* The other end of a transfer, which is not part of the repository: an    *)
(* RFC 1350/2347 server that serves one file of FileSize units.  Every RRQ *)
(* may open a session on a port of its own; a session sends one packet,    *)
(* waits for its acknowledgement, and ignores any other.  The packet a     *)
(* session has outstanding is a function of its state, so that a           *)
(* retransmission sends SessionPkt again.                                  *)
(***************************************************************************)
EXTENDS Integers

CONSTANTS
    FileSize,             \* units in the file
    Ports,                \* ports the server opens sessions on
    OackSizes,            \* block sizes an OACK may settle; {}: no options
    ErrorCodes,           \* codes of the ERROR packets a session may send
    SeqSize,              \* the modulus of block numbers
    PlainSize             \* the block size of a session without options

ASSUME ServerConstants ==
    /\ FileSize \in Nat /\ Ports \subseteq Nat
    /\ SeqSize \in Nat /\ SeqSize > 1
    /\ PlainSize \in Nat /\ PlainSize > 0
    /\ OackSizes \subseteq Nat \ {0}
    /\ ErrorCodes \subseteq Nat

VARIABLE srv              \* the sessions, by port

Session == [st : {"free", "oack", "data", "done"},
            size : Nat \ {0}, blk : Nat, peer : Nat]

FreeSession == [st |-> "free", size |-> PlainSize, blk |-> 0, peer |-> 0]

(* Block b of a session with the given block size starts at this unit and  *)
(* carries this many units; the last block is the first short one.         *)
BlockFirst(size, b) == (b - 1) * size

BlockLen(size, b) ==
    IF FileSize - BlockFirst(size, b) < size
    THEN FileSize - BlockFirst(size, b) ELSE size

(* The packet session s on port p is waiting to have acknowledged.         *)
SessionPkt(p, s) ==
    IF s.st = "oack"
    THEN [op |-> "OACK", src |-> p, dst |-> s.peer, blksize |-> s.size]
    ELSE [op |-> "DATA", src |-> p, dst |-> s.peer,
          block |-> s.blk % SeqSize,
          first |-> BlockFirst(s.size, s.blk), len |-> BlockLen(s.size, s.blk)]

ErrorPkt(p, peer, code) ==
    [op |-> "ERROR", src |-> p, dst |-> peer, code |-> code]

ServerInit == srv = [p \in Ports |-> FreeSession]

(* Ports are handed out in order.                                          *)
NextPort(p) ==
    /\ srv[p].st = "free"
    /\ \A q \in Ports : q < p => srv[q].st # "free"

(* An RRQ is answered by an OACK, or by the first block.                   *)
ServerOpen(p, m) ==
    /\ NextPort(p)
    /\ \/ \E size \in OackSizes :
            srv' = [srv EXCEPT ![p] = [st |-> "oack", size |-> size,
                                       blk |-> 0, peer |-> m.src]]
       \/ srv' = [srv EXCEPT ![p] = [st |-> "data", size |-> PlainSize,
                                     blk |-> 1, peer |-> m.src]]

(* Or it is refused by an ERROR packet.                                    *)
ServerRefuse(p, m) ==
    /\ NextPort(p)
    /\ srv' = [srv EXCEPT ![p].st = "done", ![p].peer = m.src]

(* Does m acknowledge the packet that session p has outstanding?           *)
ServerExpects(p, m) ==
    /\ m.dst = p /\ m.src = srv[p].peer
    /\ \/ srv[p].st = "oack" /\ m.block = 0
       \/ srv[p].st = "data" /\ m.block = srv[p].blk % SeqSize

IsLastBlock(s) == s.st = "data" /\ BlockLen(s.size, s.blk) < s.size

(* The expected acknowledgement: send the next block, or finish.           *)
ServerNextBlock(p, m) ==
    /\ ServerExpects(p, m) /\ ~IsLastBlock(srv[p])
    /\ srv' = [srv EXCEPT ![p].st = "data", ![p].blk = @ + 1]

ServerFinish(p, m) ==
    /\ ServerExpects(p, m) /\ IsLastBlock(srv[p])
    /\ srv' = [srv EXCEPT ![p].st = "done"]

(* A session may give up at any time, with an ERROR packet.                *)
ServerFail(p) ==
    /\ srv[p].st \in {"oack", "data"}
    /\ srv' = [srv EXCEPT ![p].st = "done"]
=============================================================================
