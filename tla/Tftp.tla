-------------------------------- MODULE Tftp --------------------------------
(***************************************************************************)
(* The TFTP client of net/tftp.c as the default build compiles it: GET     *)
(* only (CONFIG_CMD_TFTPPUT, CONFIG_CMD_TFTPSRV and CONFIG_TFTP_TSIZE are   *)
(* not defined), so the states RECV_WRQ, SEND_WRQ, TOO_LARGE and BAD_MAGIC *)
(* are never entered and are left out.                                     *)
(*                                                                         *)
(* The module has the client's globals and one action per outcome of a     *)
(* handler.  It does not say where packets come from or go to: a composing *)
(* module passes an incoming packet to TftpHandler and, for the actions    *)
(* named in TftpHandlerSends and for TftpTimeoutRetry and TftpStart, puts  *)
(* TftpSend' (the packet built from the new state) on its network.         *)
(*                                                                         *)
(* Memory at load_addr is measured in units: the unit at offset u of the   *)
(* file on the server is represented by the number u.                      *)
(***************************************************************************)
EXTENDS Integers

CONSTANTS
    TIMEOUT_COUNT,        \* retries before the client gives up; 10 in the code
    TFTP_SEQUENCE_SIZE,   \* block numbers are modulo this; 65536 in the code
    TFTP_BLOCK_SIZE,      \* default block size; 512 bytes in the code
    WELL_KNOWN_PORT       \* the server's RRQ port; 69 in the code

ASSUME TftpConstants ==
    /\ TIMEOUT_COUNT \in Nat
    /\ TFTP_SEQUENCE_SIZE \in Nat /\ TFTP_SEQUENCE_SIZE > 1
    /\ TFTP_BLOCK_SIZE \in Nat /\ TFTP_BLOCK_SIZE > 0

VARIABLES
    net_state,            \* net_core.c: what NetLoop will do next
    timeHandler,          \* net_core.c: the handler the loop timer will call
    timeDue,              \* net_core.c: timeDelta has passed since timeStart
    TftpState,
    TftpRemotePort,
    TftpOurPort,
    TftpTimeoutCount,
    TftpBlock,            \* number in the last DATA packet taken, 0 before one
    TftpLastBlock,        \* number of the last block that was stored
    TftpBlockWrapOffset,  \* memory offset due to wrapping
    TftpBlkSize,
    NetBootFileXferSize,
    mem                   \* what this transfer has written at load_addr

tftpVars == <<TftpState, TftpRemotePort, TftpOurPort, TftpTimeoutCount,
              TftpBlock, TftpLastBlock, TftpBlockWrapOffset, TftpBlkSize>>
fileVars == <<NetBootFileXferSize, mem>>
timerVars == <<timeHandler, timeDue>>
loopVars == <<net_state, timerVars>>

EmptyMem == [u \in {} |-> 0]

(* Operators named Mutant... are wrong on purpose: each is a plausible     *)
(* slip in the code, and TLC must find a property violated when it takes   *)
(* the place of the definition that follows it.                            *)

(* TftpSend(): the packet for the current state.                           *)
TftpSend ==
    IF TftpState = "SEND_RRQ"
    THEN [op |-> "RRQ", src |-> TftpOurPort, dst |-> TftpRemotePort]
    ELSE [op |-> "ACK", src |-> TftpOurPort, dst |-> TftpRemotePort,
          block |-> TftpBlock]

MutantAcceptAnyPort(m) == m.dst = TftpOurPort

(* The early returns of TftpHandler(): not our port, or a transfer is      *)
(* under way with another port.                                            *)
TftpAccepts(m) ==
    /\ m.dst = TftpOurPort
    /\ TftpState = "SEND_RRQ" \/ m.src = TftpRemotePort

(* NetSetTimeout(): installs or, with "none", cancels the handler, and     *)
(* starts the time again.  Durations are abstracted.                       *)
NetSetTimeout(handler) == timeHandler' = handler /\ timeDue' = FALSE

(* NetLoop() calls the handler when the time has passed.                   *)
TimerFires(handler) == timeHandler = handler /\ timeDue

(* update_block_number(): sequence number 0 is taken for a wrap around.    *)
WrapOffsetAfter(n) ==
    IF n = 0 THEN TftpBlockWrapOffset + TftpBlkSize * TFTP_SEQUENCE_SIZE
             ELSE TftpBlockWrapOffset

update_block_number(n) ==
    /\ TftpBlock' = n
    /\ TftpTimeoutCount' = IF n = 0 THEN 0 ELSE TftpTimeoutCount

(* memcpy(): memory after units first, first+1, ... were copied to offset. *)
CopyIn(offset, first, len) ==
    LET written == offset .. (offset + len - 1)
    IN  [u \in (DOMAIN mem) \cup written |->
            IF u \in written THEN first + (u - offset) ELSE mem[u]]

MutantStoreAtNumber(block, first, len) ==
    LET offset == (block + 1) * TftpBlkSize + TftpBlockWrapOffset'
    IN  /\ mem' = CopyIn(offset, first, len)
        /\ NetBootFileXferSize' = offset + len

MutantCountUnits(block, first, len) ==
    LET offset == block * TftpBlkSize + TftpBlockWrapOffset'
    IN  /\ mem' = CopyIn(offset, first, len)
        /\ NetBootFileXferSize' = NetBootFileXferSize + len

(* store_block(): copies the payload to its place and extends the size.    *)
(* TftpBlockWrapOffset' is the offset in force when it is called.          *)
store_block(block, first, len) ==
    LET offset == block * TftpBlkSize + TftpBlockWrapOffset'
    IN  /\ mem' = CopyIn(offset, first, len)
        /\ NetBootFileXferSize' =
             IF NetBootFileXferSize < offset + len THEN offset + len
                                                   ELSE NetBootFileXferSize

MutantOackNotAwaiting == TftpState = "SEND_RRQ"

(* The DATA case tests for these states before it takes a first block.     *)
AwaitsFirstBlock == TftpState \in {"SEND_RRQ", "OACK"}

MutantKeepWrapOffset(n) == WrapOffsetAfter(n)

(* new_transfer(), called for a first block, clears the offset that        *)
(* update_block_number() has just changed.                                 *)
WrapOffsetTaken(n) == IF AwaitsFirstBlock THEN 0 ELSE WrapOffsetAfter(n)

(* A short block is the last one.                                          *)
IsFinalBlock(len) == len < TftpBlkSize

TftpOack(m) ==
    /\ TftpState' = "OACK"
    /\ TftpRemotePort' = m.src
    /\ TftpBlkSize' = m.blksize
    /\ UNCHANGED <<TftpOurPort, TftpTimeoutCount, TftpBlock, TftpLastBlock,
                   TftpBlockWrapOffset, fileVars, loopVars>>

(* A first block that is not block 1: a message is printed, nothing is     *)
(* stored and nothing is sent, but the client is now in STATE_DATA.        *)
TftpDataNotFirst(m) ==
    /\ AwaitsFirstBlock /\ m.block # 1
    /\ update_block_number(m.block)
    /\ TftpState' = "DATA"
    /\ TftpRemotePort' = m.src
    /\ TftpLastBlock' = 0
    /\ TftpBlockWrapOffset' = WrapOffsetTaken(m.block)
    /\ UNCHANGED <<TftpOurPort, TftpBlkSize, fileVars, loopVars>>

(* The block stored last, again: ignored, but update_block_number ran.     *)
TftpDataSame(m) ==
    /\ ~AwaitsFirstBlock /\ m.block = TftpLastBlock
    /\ update_block_number(m.block)
    /\ TftpBlockWrapOffset' = WrapOffsetAfter(m.block)
    /\ UNCHANGED <<TftpState, TftpRemotePort, TftpOurPort, TftpLastBlock,
                   TftpBlkSize, fileVars, loopVars>>

(* Any other block is stored and acknowledged; a short one ends the file.  *)
TftpDataStore(m) ==
    /\ IF AwaitsFirstBlock THEN m.block = 1 ELSE m.block # TftpLastBlock
    /\ update_block_number(m.block)
    /\ TftpState' = "DATA"
    /\ TftpRemotePort' = IF AwaitsFirstBlock THEN m.src ELSE TftpRemotePort
    /\ TftpBlockWrapOffset' = WrapOffsetTaken(m.block)
    /\ TftpLastBlock' = m.block
    /\ NetSetTimeout("TftpTimeout")
    /\ store_block(m.block - 1, m.first, m.len)
    /\ net_state' = IF IsFinalBlock(m.len) THEN "SUCCESS" ELSE net_state
    /\ UNCHANGED <<TftpOurPort, TftpBlkSize>>

(* TFTP_ERR_FILE_NOT_FOUND (1) and TFTP_ERR_ACCESS_DENIED (2) end the      *)
(* loop; for every other code the handler only prints "Starting again".    *)
TftpError(m) ==
    /\ net_state' = IF m.code \in {1, 2} THEN "FAIL" ELSE net_state
    /\ UNCHANGED <<timerVars, tftpVars, fileVars>>

(* TftpHandler(), by the packet's opcode; the first group ends in          *)
(* TftpSend(), the second sends nothing.                                   *)
TftpHandlerSends(m) ==
    /\ TftpAccepts(m)
    /\ \/ m.op = "OACK" /\ TftpOack(m)
       \/ m.op = "DATA" /\ TftpDataStore(m)

TftpHandlerSilent(m) ==
    /\ TftpAccepts(m)
    /\ \/ m.op = "DATA" /\ (TftpDataNotFirst(m) \/ TftpDataSame(m))
       \/ m.op = "ERROR" /\ TftpError(m)

MutantRetryForEver ==
    /\ TimerFires("TftpTimeout")
    /\ TftpTimeoutCount' = TftpTimeoutCount + 1
    /\ NetSetTimeout("TftpTimeout")
    /\ UNCHANGED <<TftpState, TftpRemotePort, TftpOurPort, TftpBlock,
                   TftpLastBlock, TftpBlockWrapOffset, TftpBlkSize, fileVars,
                   net_state>>

(* TftpTimeout(); NetLoop() has cleared timeHandler when it calls it.      *)
TftpTimeoutRetry ==
    /\ TimerFires("TftpTimeout")
    /\ TftpTimeoutCount + 1 <= TIMEOUT_COUNT
    /\ TftpTimeoutCount' = TftpTimeoutCount + 1
    /\ NetSetTimeout("TftpTimeout")
    /\ UNCHANGED <<TftpState, TftpRemotePort, TftpOurPort, TftpBlock,
                   TftpLastBlock, TftpBlockWrapOffset, TftpBlkSize, fileVars,
                   net_state>>

(* restart("Retry count exceeded") prints and returns: the timer stays off *)
(* until a block is stored.  The count is only ever compared with the      *)
(* limit, so it is kept at TIMEOUT_COUNT + 1 once it is beyond it.         *)
TftpTimeoutGiveUp ==
    /\ TimerFires("TftpTimeout")
    /\ TftpTimeoutCount + 1 > TIMEOUT_COUNT
    /\ TftpTimeoutCount' = TIMEOUT_COUNT + 1
    /\ NetSetTimeout("none")
    /\ UNCHANGED <<TftpState, TftpRemotePort, TftpOurPort, TftpBlock,
                   TftpLastBlock, TftpBlockWrapOffset, TftpBlkSize, fileVars,
                   net_state>>

(* TftpStart(TFTPGET): everything but TftpLastBlock and the wrap offset,   *)
(* which only new_transfer() clears.  NetLoop zeroed the size before it.   *)
TftpStart(port) ==
    /\ TftpState' = "SEND_RRQ"
    /\ NetSetTimeout("TftpTimeout")
    /\ TftpRemotePort' = WELL_KNOWN_PORT
    /\ TftpTimeoutCount' = 0
    /\ TftpOurPort' = port
    /\ TftpBlock' = 0
    /\ TftpBlkSize' = TFTP_BLOCK_SIZE
    /\ mem' = EmptyMem
    /\ UNCHANGED <<TftpLastBlock, TftpBlockWrapOffset>>
=============================================================================
