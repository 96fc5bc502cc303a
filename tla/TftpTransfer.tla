---------------------------- MODULE TftpTransfer ----------------------------
(***************************************************************************)
(* One TFTP transfer: the client of Tftp, the server of TftpServer and the *)
(* network between them, from TftpStart() until NetLoop() returns.         *)
(*                                                                         *)
(* The network is the set of packets that can still be delivered.  A       *)
(* packet stays deliverable after it was delivered, which covers           *)
(* duplication and the server's retransmissions; a packet that is never    *)
(* delivered is lost.  With InOrder, a delivery makes every older packet   *)
(* of the same session undeliverable: the network then loses and           *)
(* duplicates packets but does not reorder them.                           *)
(***************************************************************************)
EXTENDS TftpFile

CONSTANTS
    InOrder,              \* packets of a session arrive in the order sent
    OurPorts              \* UDP ports the client may have drawn

ASSUME TransferConstants ==
    /\ InOrder \in BOOLEAN
    /\ SeqSize = TFTP_SEQUENCE_SIZE
    /\ PlainSize = TFTP_BLOCK_SIZE
    /\ OurPorts \subseteq Nat /\ Ports \subseteq Nat
    /\ WELL_KNOWN_PORT \in Nat \ Ports

VARIABLES
    msgs,                 \* packets that can be delivered
    running,              \* NetLoop() has not returned
    ret                   \* what NetLoop() returned

vars == <<loopVars, tftpVars, fileVars, srv, msgs, running, ret>>

(* The state TftpStart() leaves.  It does not clear what an earlier        *)
(* transfer left in TftpLastBlock and TftpBlockWrapOffset.                 *)
Init ==
    /\ net_state = "CONTINUE" /\ timeHandler = "TftpTimeout"
    /\ timeDue = FALSE
    /\ TftpState = "SEND_RRQ" /\ TftpRemotePort = WELL_KNOWN_PORT
    /\ TftpOurPort \in OurPorts
    /\ TftpTimeoutCount = 0 /\ TftpBlock = 0
    /\ TftpLastBlock \in 0 .. (TFTP_SEQUENCE_SIZE - 1)
    /\ TftpBlockWrapOffset \in {0, TFTP_BLOCK_SIZE * TFTP_SEQUENCE_SIZE}
    /\ TftpBlkSize = TFTP_BLOCK_SIZE
    /\ NetBootFileXferSize = 0 /\ mem = EmptyMem
    /\ ServerInit
    /\ msgs = {TftpSend}
    /\ running = TRUE /\ ret = -1

(* Packets of m's session that the server sent before it sent m.           *)
Older(m) ==
    {x \in msgs : /\ x.op \in {"OACK", "DATA"} /\ x.src = m.src
                  /\ m.op = "DATA"
                  /\ x.op = "OACK" \/ x.first < m.first}

AfterDelivery(m) == IF InOrder THEN msgs \ Older(m) ELSE msgs

-----------------------------------------------------------------------------
(* The client: an iteration of NetLoop() receives packets, runs the timer  *)
(* handler if it has expired, and looks at net_state.                      *)

ClientReceiveSends(m) ==
    /\ running
    /\ TftpHandlerSends(m)
    /\ msgs' = AfterDelivery(m) \cup {TftpSend'}
    /\ UNCHANGED <<srv, running, ret>>

ClientReceiveSilent(m) ==
    /\ running
    /\ TftpHandlerSilent(m)
    /\ msgs' = AfterDelivery(m)
    /\ UNCHANGED <<srv, running, ret>>

(* The medium and the server may be slow: the time may pass at any point.  *)
TimerExpires ==
    /\ running /\ timeHandler # "none" /\ ~timeDue
    /\ timeDue' = TRUE
    /\ UNCHANGED <<net_state, timeHandler, tftpVars, fileVars, srv, msgs,
                   running, ret>>

ClientTimeoutRetry ==
    /\ running
    /\ TftpTimeoutRetry
    /\ msgs' = msgs \cup {TftpSend'}
    /\ UNCHANGED <<srv, running, ret>>

ClientTimeoutGiveUp ==
    /\ running
    /\ TftpTimeoutGiveUp
    /\ UNCHANGED <<srv, msgs, running, ret>>

(* The switch on net_state: net_cleanup_loop(), then return.               *)
LoopReturn ==
    /\ running /\ net_state \in {"SUCCESS", "FAIL"}
    /\ running' = FALSE
    /\ ret' = IF net_state = "SUCCESS" THEN NetBootFileXferSize ELSE -1
    /\ NetSetTimeout("none")
    /\ UNCHANGED <<net_state, tftpVars, fileVars, srv, msgs>>

-----------------------------------------------------------------------------
(* The server.                                                             *)

ReceiveRRQ(p, m) ==
    /\ m.op = "RRQ"
    /\ \/ /\ ServerOpen(p, m)
          /\ msgs' = msgs \cup {SessionPkt(p, srv'[p])}
       \/ /\ ServerRefuse(p, m)
          /\ \E code \in ErrorCodes :
               msgs' = msgs \cup {ErrorPkt(p, m.src, code)}
    /\ UNCHANGED <<loopVars, tftpVars, fileVars, running, ret>>

(* Every acknowledgement on its way to p was sent before the next block.   *)
AfterAck(p) ==
    IF InOrder THEN msgs \ {x \in msgs : x.op = "ACK" /\ x.dst = p} ELSE msgs

ReceiveAck(p, m) ==
    /\ m.op = "ACK"
    /\ \/ /\ ServerNextBlock(p, m)
          /\ msgs' = AfterAck(p) \cup {SessionPkt(p, srv'[p])}
       \/ /\ ServerFinish(p, m)
          /\ msgs' = AfterAck(p)
    /\ UNCHANGED <<loopVars, tftpVars, fileVars, running, ret>>

ServerAbort(p) ==
    /\ ServerFail(p)
    /\ \E code \in ErrorCodes :
         msgs' = msgs \cup {ErrorPkt(p, srv[p].peer, code)}
    /\ UNCHANGED <<loopVars, tftpVars, fileVars, running, ret>>

-----------------------------------------------------------------------------
Next ==
    \/ \E m \in msgs : ClientReceiveSends(m) \/ ClientReceiveSilent(m)
    \/ TimerExpires \/ ClientTimeoutRetry \/ ClientTimeoutGiveUp
    \/ LoopReturn
    \/ \E p \in Ports, m \in msgs : ReceiveRRQ(p, m) \/ ReceiveAck(p, m)
    \/ \E p \in Ports : ServerAbort(p)

Spec == Init /\ [][Next]_vars

-----------------------------------------------------------------------------
(* Properties.                                                             *)

Message ==
    [op : {"RRQ"}, src : Nat, dst : Nat]
    \cup [op : {"ACK"}, src : Nat, dst : Nat, block : Nat]
    \cup [op : {"OACK"}, src : Nat, dst : Nat, blksize : Nat \ {0}]
    \cup [op : {"DATA"}, src : Nat, dst : Nat, block : Nat, first : Nat,
          len : Nat]
    \cup [op : {"ERROR"}, src : Nat, dst : Nat, code : Nat]

(* Types of the client's globals, the sessions and the packets.            *)
TypeOK ==
    /\ net_state \in {"CONTINUE", "SUCCESS", "FAIL"}
    /\ timeHandler \in {"none", "TftpTimeout"} /\ timeDue \in BOOLEAN
    /\ TftpState \in {"SEND_RRQ", "OACK", "DATA"}
    /\ TftpRemotePort \in Nat /\ TftpOurPort \in Nat
    /\ TftpTimeoutCount \in 0 .. (TIMEOUT_COUNT + 1)
    /\ TftpBlock \in Nat /\ TftpLastBlock \in Nat
    /\ TftpBlockWrapOffset \in Nat
    /\ TftpBlkSize \in Nat \ {0}
    /\ NetBootFileXferSize \in Nat
    /\ mem = [u \in DOMAIN mem |-> mem[u]] /\ DOMAIN mem \subseteq Nat
    /\ srv \in [Ports -> Session]
    /\ msgs \subseteq Message
    /\ running \in BOOLEAN
    /\ ret \in Nat \cup {-1}

(* An acknowledgement of block n of a session is on the network only when  *)
(* the client has stored that block: the server will not send it again.    *)
AcknowledgedIsStored ==
    \A m \in msgs : \A p \in Ports :
        (m.op = "ACK" /\ m.dst = p /\ m.block > 0)
            => BlockStored(srv[p].size, m.block)

(* When tftp_complete() sets NETLOOP_SUCCESS, "the TFTP get is complete":  *)
(* the whole file is in memory, and its size is what NetLoop() returns.    *)
SuccessIsWholeFile ==
    /\ net_state = "SUCCESS" => WholeFile
    /\ ret >= 0 => ret = FileSize /\ WholeFile

(* Once an answer was taken, the transfer stays with the session that sent *)
(* it: neither its remote port nor its block size changes any more.        *)
OneSession ==
    [][TftpState # "SEND_RRQ" => /\ TftpRemotePort' = TftpRemotePort
                                 /\ TftpBlkSize' = TftpBlkSize]_vars

-----------------------------------------------------------------------------
(* The inductive invariant, for NoWrap: SessionInv and StorageInv of       *)
(* TftpFile, and what follows.                                             *)

(* A packet of the server is one its session has sent.                     *)
PacketInv ==
    \A m \in msgs :
        /\ m.op \in {"OACK", "DATA"} =>
             m.src \in Ports /\ srv[m.src].st # "free"
        /\ m.op = "OACK" => m.blksize = srv[m.src].size
        /\ m.op = "DATA" =>
             /\ m.block \in 1 .. srv[m.src].blk
             /\ m.first = BlockFirst(srv[m.src].size, m.block)
             /\ m.len = BlockLen(srv[m.src].size, m.block)

(* Acknowledgements go to one session only, so that the others are still   *)
(* at their first packet.  A session with a block out has the block size   *)
(* that the client will take it with.                                      *)
LockInv ==
    /\ \A m \in msgs : m.op = "ACK" =>
         TftpState # "SEND_RRQ" /\ m.dst = TftpRemotePort
    /\ TftpState # "SEND_RRQ" =>
         /\ TftpRemotePort \in Ports
         /\ srv[TftpRemotePort].st # "free"
         /\ TftpBlkSize = srv[TftpRemotePort].size
    /\ TftpState = "SEND_RRQ" =>
         /\ TftpBlkSize = PlainSize
         /\ \A p \in Ports : srv[p].blk >= 1 => srv[p].size = PlainSize
    /\ TftpState = "DATA" => TftpBlockWrapOffset = 0

(* Everything before the block a session has out is stored, and so is      *)
(* every block that was acknowledged or will be when the timer expires.    *)
(* A session that has got to block 2 is the client's; in STATE_DATA no     *)
(* OACK of it can arrive any more.                                         *)
ProgressInv ==
    /\ \A p \in Ports : srv[p].blk >= 1 =>
         \A u \in 0 .. (BlockFirst(srv[p].size, srv[p].blk) - 1) :
             u \in DOMAIN mem
    /\ \A p \in Ports : srv[p].blk >= 2 =>
         TftpState = "DATA" /\ TftpRemotePort = p
    /\ \A m \in msgs : (m.op = "ACK" /\ m.block >= 1) =>
         TftpState = "DATA" /\ BlockStored(srv[m.dst].size, m.block)
    /\ TftpState = "DATA" =>
         /\ TftpBlock >= 1 /\ TftpLastBlock = TftpBlock
         /\ BlockStored(srv[TftpRemotePort].size, TftpBlock)
         /\ srv[TftpRemotePort].blk >= 1
         /\ \A m \in msgs : m.op = "OACK" => m.src # TftpRemotePort
    /\ TftpState # "DATA" => TftpBlock = 0
    /\ OackSizes = {} =>
         /\ \A m \in msgs : m.op # "OACK"
         /\ \A p \in Ports : srv[p].st # "oack"

(* Without late OACKs, the whole of it is inductive.                       *)
TransferInv ==
    /\ TypeOK /\ SessionInv /\ PacketInv /\ LockInv /\ StorageInv
    /\ ProgressInv /\ SuccessIsWholeFile
=============================================================================
