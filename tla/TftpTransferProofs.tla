------------------------- MODULE TftpTransferProofs -------------------------
(***************************************************************************)
(* Proofs about TftpTransfer, for any file size, block sizes, retry limit, *)
(* ports and number of sequence numbers.                                   *)
(***************************************************************************)
EXTENDS TftpTransfer, TftpLemmas, TLAPS

(* What the modules assume of their constants, in one place.               *)
LEMMA Constants ==
    /\ TIMEOUT_COUNT \in Nat /\ FileSize \in Nat
    /\ SeqSize \in Nat /\ SeqSize > 1 /\ SeqSize = TFTP_SEQUENCE_SIZE
    /\ PlainSize \in Nat \ {0} /\ PlainSize = TFTP_BLOCK_SIZE
    /\ OackSizes \cup {PlainSize} \subseteq Nat \ {0}
    /\ ErrorCodes \subseteq Nat /\ Ports \subseteq Nat /\ OurPorts \subseteq Nat
    /\ WELL_KNOWN_PORT \in Nat \ Ports
  BY TftpConstants, ServerConstants, TransferConstants
  DEF TftpConstants, ServerConstants, TransferConstants

-----------------------------------------------------------------------------
(* Packets.                                                                *)

LEMMA MessageFields ==
    \A m \in Message :
        /\ m.src \in Nat /\ m.dst \in Nat
        /\ m.op = "ACK" => m.block \in Nat
        /\ m.op = "OACK" => m.blksize \in Nat \ {0}
        /\ m.op = "DATA" => m.block \in Nat /\ m.first \in Nat /\ m.len \in Nat
  BY DEF Message

(* The packet a session has outstanding, by its fields.                    *)
LEMMA SessionPktFields ==
    ASSUME NEW p \in Ports, NEW s \in Session, s.st \in {"oack", "data"},
           s.st = "data" =>
               s.blk >= 1 /\ BlockFirst(s.size, s.blk) <= FileSize
    PROVE  /\ SessionPkt(p, s) \in Message
           /\ SessionPkt(p, s).src = p
           /\ s.st = "oack" => /\ SessionPkt(p, s).op = "OACK"
                               /\ SessionPkt(p, s).blksize = s.size
           /\ s.st = "data" =>
                /\ SessionPkt(p, s).op = "DATA"
                /\ SessionPkt(p, s).block = s.blk % SeqSize
                /\ SessionPkt(p, s).first = BlockFirst(s.size, s.blk)
                /\ SessionPkt(p, s).len = BlockLen(s.size, s.blk)
<1>1. p \in Nat /\ s.peer \in Nat /\ s.size \in Nat \ {0} /\ s.blk \in Nat
  BY Constants DEF Session
<1>2. CASE s.st = "oack"
  BY <1>1, <1>2 DEF SessionPkt, Message
<1>3. CASE s.st = "data"
  <2>1. BlockFirst(s.size, s.blk) \in Nat /\ BlockLen(s.size, s.blk) \in Nat
    <3>1. s.blk \in Nat \ {0}
      BY <1>1, <1>3
    <3> QED BY <1>1, <1>3, <3>1, BlockStep, BlockLenBounds
  <2>2. s.blk % SeqSize \in Nat
    BY <1>1, Constants
  <2> QED BY <1>1, <1>3, <2>1, <2>2 DEF SessionPkt, Message
<1> QED BY <1>2, <1>3

LEMMA ErrorPktFields ==
    ASSUME NEW p \in Ports, NEW peer \in Nat, NEW code \in ErrorCodes
    PROVE  ErrorPkt(p, peer, code) \in Message /\ ErrorPkt(p, peer, code).op = "ERROR"
  BY Constants DEF ErrorPkt, Message

(* The packet the client sends, by its state.                              *)
LEMMA TftpSendFields ==
    ASSUME TftpOurPort \in Nat, TftpRemotePort \in Nat, TftpBlock \in Nat
    PROVE  /\ TftpSend \in Message
           /\ TftpState = "SEND_RRQ" => TftpSend.op = "RRQ"
           /\ TftpState # "SEND_RRQ" =>
                /\ TftpSend.op = "ACK" /\ TftpSend.dst = TftpRemotePort
                /\ TftpSend.block = TftpBlock
  BY DEF TftpSend, Message

-----------------------------------------------------------------------------
(* Type correctness.  SessionInv is needed for the fields of DATA packets. *)

(* The client's part of the type invariant.                                *)
ClientType ==
    /\ net_state \in {"CONTINUE", "SUCCESS", "FAIL"}
    /\ timeHandler \in {"none", "TftpTimeout"} /\ timeDue \in BOOLEAN
    /\ TftpState \in {"SEND_RRQ", "OACK", "DATA"}
    /\ TftpRemotePort \in Nat /\ TftpOurPort \in Nat
    /\ TftpTimeoutCount \in 0 .. (TIMEOUT_COUNT + 1)
    /\ TftpBlock \in Nat /\ TftpLastBlock \in Nat
    /\ TftpBlockWrapOffset \in Nat
    /\ TftpBlkSize \in Nat \ {0}
    /\ NetBootFileXferSize \in Nat
    /\ mem = [u \in DOMAIN mem |-> mem[u]] /\ DOMAIN mem \subseteq Nat

LEMMA TypeParts ==
    TypeOK <=> /\ ClientType
               /\ srv \in [Ports -> Session] /\ msgs \subseteq Message
               /\ running \in BOOLEAN /\ ret \in Nat \cup {-1}
  BY DEF TypeOK, ClientType

LEMMA InitType == Init => TypeOK /\ SessionInv
<1> SUFFICES ASSUME Init PROVE TypeOK /\ SessionInv
  OBVIOUS
<1> USE DEF Init
<1>1. TFTP_BLOCK_SIZE * TFTP_SEQUENCE_SIZE \in Nat
  BY Constants, MulNat
<1>2. ClientType
  <2>1. mem = [u \in DOMAIN mem |-> mem[u]] /\ DOMAIN mem \subseteq Nat
    BY DEF EmptyMem
  <2>2. TftpBlockWrapOffset \in Nat
    BY <1>1
  <2>3. TftpLastBlock \in Nat /\ TftpTimeoutCount \in 0 .. (TIMEOUT_COUNT + 1)
    BY Constants
  <2>4. TftpOurPort \in Nat /\ TftpRemotePort \in Nat /\ TftpBlkSize \in Nat \ {0}
    BY Constants
  <2> QED BY <2>1, <2>2, <2>3, <2>4 DEF ClientType
<1>3. srv \in [Ports -> Session] /\ SessionInv
  BY Constants DEF ServerInit, FreeSession, Session, SessionInv
<1>4. msgs \subseteq Message
  BY <1>2, TftpSendFields DEF ClientType
<1> QED BY <1>2, <1>3, <1>4, TypeParts

(* store_block() writes at offsets that are not negative, also for block 0,*)
(* whose wrap around was counted just before.                              *)
LEMMA StoreType ==
    ASSUME ClientType, NEW m \in Message, m.op = "DATA", TftpDataStore(m)
    PROVE  ClientType'
<1> DEFINE offset == (m.block - 1) * TftpBlkSize + TftpBlockWrapOffset'
<1>1. m.block \in Nat /\ m.first \in Nat /\ m.len \in Nat /\ m.src \in Nat
  BY MessageFields
<1>2. TftpBlkSize * TFTP_SEQUENCE_SIZE \in Nat
      /\ TftpBlkSize <= TftpBlkSize * TFTP_SEQUENCE_SIZE
  <2>1. TftpBlkSize \in Nat /\ TFTP_SEQUENCE_SIZE \in Nat /\ 1 <= TFTP_SEQUENCE_SIZE
    BY Constants DEF ClientType
  <2>2. 1 * TftpBlkSize <= TFTP_SEQUENCE_SIZE * TftpBlkSize
    BY <2>1, MulMono
  <2> QED BY <2>1, <2>2, MulNat
<1>3. TftpBlockWrapOffset' \in Nat /\ offset \in Nat
  <2>1. CASE m.block = 0
    <3>1. TftpBlockWrapOffset' =
            TftpBlockWrapOffset + TftpBlkSize * TFTP_SEQUENCE_SIZE
      BY <2>1 DEF TftpDataStore, WrapOffsetTaken, WrapOffsetAfter, AwaitsFirstBlock
    <3>2. (m.block - 1) * TftpBlkSize = 0 - TftpBlkSize
      BY <2>1 DEF ClientType
    <3> QED BY <1>2, <3>1, <3>2 DEF ClientType
  <2>2. CASE m.block # 0
    <3>1. TftpBlockWrapOffset' \in Nat
      BY <2>2 DEF TftpDataStore, WrapOffsetTaken, WrapOffsetAfter,
          AwaitsFirstBlock, ClientType
    <3>2. m.block - 1 \in Nat
      BY <1>1, <2>2
    <3>3. (m.block - 1) * TftpBlkSize \in Nat
      BY <3>2, MulNat DEF ClientType
    <3> QED BY <3>1, <3>3
  <2> QED BY <2>1, <2>2
<1>4. /\ mem' = [u \in DOMAIN mem' |-> mem'[u]] /\ DOMAIN mem' \subseteq Nat
      /\ NetBootFileXferSize' \in Nat
  <2>0. store_block(m.block - 1, m.first, m.len)
    BY DEF TftpDataStore
  <2>1. mem' = CopyIn(offset, m.first, m.len)
    BY <2>0 DEF store_block
  <2>2. NetBootFileXferSize' \in Nat
    BY <1>1, <1>3, <2>0 DEF store_block, ClientType
  <2>3. DOMAIN mem \subseteq Nat
    BY DEF ClientType
  <2> HIDE DEF offset
  <2>4. PICK o \in Nat, f \in Nat, l \in Nat : mem' = CopyIn(o, f, l)
    BY <1>1, <1>3, <2>1
  <2>5. PICK after : after = CopyIn(o, f, l) /\ mem' = after
    BY <2>4
  <2>6. after = [u \in DOMAIN after |-> after[u]] /\ DOMAIN after \subseteq Nat
    BY <2>3, <2>5 DEF CopyIn
  <2> QED BY <2>2, <2>5, <2>6
<1>5. TftpTimeoutCount' \in 0 .. (TIMEOUT_COUNT + 1) /\ TftpBlock' \in Nat
  BY <1>1, Constants DEF TftpDataStore, update_block_number, ClientType
<1>6. net_state' \in {"CONTINUE", "SUCCESS", "FAIL"}
      /\ timeHandler' \in {"none", "TftpTimeout"} /\ timeDue' \in BOOLEAN
      /\ TftpState' \in {"SEND_RRQ", "OACK", "DATA"}
      /\ TftpRemotePort' \in Nat /\ TftpOurPort' \in Nat
      /\ TftpLastBlock' \in Nat /\ TftpBlkSize' \in Nat \ {0}
  BY <1>1 DEF TftpDataStore, NetSetTimeout, ClientType
<1> QED BY <1>3, <1>4, <1>5, <1>6 DEF ClientType

(* Every other outcome of a handler, and the loop's own steps.             *)
LEMMA HandlerType ==
    ASSUME ClientType, NEW m \in Message,
           TftpHandlerSends(m) \/ TftpHandlerSilent(m)
    PROVE  ClientType'
<1>1. m.src \in Nat /\ (m.op = "OACK" => m.blksize \in Nat \ {0})
      /\ (m.op = "DATA" => m.block \in Nat)
  BY MessageFields
<1>2. CASE m.op = "DATA" /\ TftpDataStore(m)
  BY <1>2, StoreType
<1>3. CASE m.op = "OACK" /\ TftpOack(m)
  BY <1>1, <1>3 DEF TftpOack, ClientType, loopVars, timerVars, fileVars
<1>4. CASE m.op = "DATA" /\ TftpDataNotFirst(m)
  BY <1>1, <1>4, Constants
  DEF TftpDataNotFirst, update_block_number, WrapOffsetTaken, ClientType,
      loopVars, timerVars, fileVars
<1>5. CASE m.op = "DATA" /\ TftpDataSame(m)
  <2>1. TftpBlkSize * TFTP_SEQUENCE_SIZE \in Nat
    BY Constants, MulNat DEF ClientType
  <2> QED BY <1>1, <1>5, <2>1, Constants
      DEF TftpDataSame, update_block_number, WrapOffsetAfter, ClientType,
          loopVars, timerVars, fileVars
<1>6. CASE m.op = "ERROR" /\ TftpError(m)
  BY <1>6 DEF TftpError, ClientType, timerVars, tftpVars, fileVars
<1> QED BY <1>2, <1>3, <1>4, <1>5, <1>6
    DEF TftpHandlerSends, TftpHandlerSilent

LEMMA ClientStepType ==
    ASSUME ClientType, TimerExpires \/ ClientTimeoutRetry
                       \/ ClientTimeoutGiveUp \/ LoopReturn
    PROVE  ClientType'
<1>1. CASE TimerExpires
  BY <1>1 DEF TimerExpires, ClientType, tftpVars, fileVars
<1>2. CASE ClientTimeoutRetry
  <2>1. TftpTimeoutCount' \in 0 .. (TIMEOUT_COUNT + 1)
    BY <1>2, Constants DEF ClientTimeoutRetry, TftpTimeoutRetry, ClientType
  <2> QED BY <1>2, <2>1
      DEF ClientTimeoutRetry, TftpTimeoutRetry, NetSetTimeout, ClientType,
          fileVars
<1>3. CASE ClientTimeoutGiveUp
  <2>1. TftpTimeoutCount' \in 0 .. (TIMEOUT_COUNT + 1)
    BY <1>3, Constants DEF ClientTimeoutGiveUp, TftpTimeoutGiveUp
  <2> QED BY <1>3, <2>1
      DEF ClientTimeoutGiveUp, TftpTimeoutGiveUp, NetSetTimeout, ClientType,
          fileVars
<1>4. CASE LoopReturn
  BY <1>4 DEF LoopReturn, NetSetTimeout, ClientType, tftpVars, fileVars
<1> QED BY <1>1, <1>2, <1>3, <1>4

(* What the server sends when it receives a packet.                        *)
LEMMA ServerSends ==
    ASSUME srv \in [Ports -> Session], msgs \subseteq Message,
           NEW p \in Ports, NEW m \in msgs,
           ReceiveRRQ(p, m) \/ ReceiveAck(p, m),
           srv' \in [Ports -> Session], SessionInv'
    PROVE  msgs' \subseteq Message
<1>1. m.src \in Nat
  BY MessageFields
<1>2. CASE \E code \in ErrorCodes : msgs' = msgs \cup {ErrorPkt(p, m.src, code)}
  BY <1>1, <1>2, ErrorPktFields
<1>3. CASE /\ msgs' \subseteq msgs \cup {SessionPkt(p, srv'[p])}
           /\ srv'[p].st \in {"oack", "data"}
  <2>1. PICK s \in Session : s = srv'[p]
    OBVIOUS
  <2>2. s.st = "data" => s.blk >= 1 /\ BlockFirst(s.size, s.blk) <= FileSize
    BY <2>1 DEF SessionInv
  <2>3. SessionPkt(p, s) \in Message
    BY <1>3, <2>1, <2>2, SessionPktFields
  <2> QED BY <1>3, <2>1, <2>3
<1>4. CASE msgs' \subseteq msgs
  BY <1>4
<1>5. CASE ReceiveRRQ(p, m) /\ ServerOpen(p, m)
           /\ msgs' = msgs \cup {SessionPkt(p, srv'[p])}
  BY <1>3, <1>5 DEF ServerOpen
<1>6. CASE ServerNextBlock(p, m) /\ msgs' = AfterAck(p) \cup {SessionPkt(p, srv'[p])}
  <2>1. srv'[p].st = "data"
    BY <1>6 DEF ServerNextBlock, Session
  <2>2. AfterAck(p) \subseteq msgs
    BY DEF AfterAck
  <2> QED BY <1>3, <1>6, <2>1, <2>2
<1>7. CASE msgs' = AfterAck(p)
  BY <1>4, <1>7 DEF AfterAck
<1> QED BY <1>2, <1>5, <1>6, <1>7 DEF ReceiveRRQ, ReceiveAck

LEMMA StepType == TypeOK /\ SessionInv /\ [Next]_vars => (TypeOK /\ SessionInv)'
<1> SUFFICES ASSUME TypeOK, SessionInv, [Next]_vars
             PROVE  (TypeOK /\ SessionInv)'
  OBVIOUS
<1>0. /\ ClientType /\ srv \in [Ports -> Session] /\ msgs \subseteq Message
      /\ running \in BOOLEAN /\ ret \in Nat \cup {-1}
  BY TypeParts
<1>1. ASSUME NEW m \in msgs, ClientReceiveSends(m) \/ ClientReceiveSilent(m)
      PROVE  (TypeOK /\ SessionInv)'
  <2>1. ClientType'
    BY <1>0, <1>1, HandlerType DEF ClientReceiveSends, ClientReceiveSilent
  <2>2. TftpSend' \in Message
    BY <2>1, TftpSendFields DEF ClientType, TftpSend, Message
  <2>3. msgs' \subseteq Message
    BY <1>0, <1>1, <2>2
    DEF ClientReceiveSends, ClientReceiveSilent, AfterDelivery
  <2> QED BY <1>0, <1>1, <2>1, <2>3, TypeParts
      DEF ClientReceiveSends, ClientReceiveSilent, TypeOK, ClientType,
          SessionInv
<1>2. CASE TimerExpires \/ ClientTimeoutRetry \/ ClientTimeoutGiveUp
           \/ LoopReturn
  <2>1. ClientType'
    BY <1>0, <1>2, ClientStepType
  <2>2. TftpSend' \in Message
    BY <2>1, TftpSendFields DEF ClientType, TftpSend, Message
  <2>3. msgs' \subseteq Message /\ srv' = srv
        /\ running' \in BOOLEAN /\ ret' \in Nat \cup {-1}
    BY <1>0, <1>2, <2>2
    DEF TimerExpires, ClientTimeoutRetry, ClientTimeoutGiveUp, LoopReturn,
        ClientType
  <2> QED BY <1>0, <2>1, <2>3 DEF TypeOK, ClientType, SessionInv
<1>3. ASSUME NEW p \in Ports, NEW m \in msgs,
             ReceiveRRQ(p, m) \/ ReceiveAck(p, m)
      PROVE  (TypeOK /\ SessionInv)'
  <2>1. srv' \in [Ports -> Session] /\ SessionInv'
    <3>1. m.src \in Nat
      BY <1>0, MessageFields
    <3> QED BY <1>0, <1>3, <3>1, ServerStep DEF ReceiveRRQ, ReceiveAck
  <2>2. msgs' \subseteq Message
    BY <1>0, <1>3, <2>1, ServerSends
  <2> QED BY <1>0, <1>3, <2>1, <2>2
      DEF ReceiveRRQ, ReceiveAck, TypeOK, ClientType, tftpVars, fileVars,
          loopVars, timerVars
<1>4. ASSUME NEW p \in Ports, ServerAbort(p)
      PROVE  (TypeOK /\ SessionInv)'
  <2>1. srv' \in [Ports -> Session] /\ SessionInv'
    BY <1>0, <1>4, ServerFailStep DEF ServerAbort
  <2>2. msgs' \subseteq Message
    BY <1>0, <1>4, ErrorPktFields DEF ServerAbort, Session
  <2> QED BY <1>0, <1>4, <2>1, <2>2
      DEF ServerAbort, TypeOK, ClientType, tftpVars, fileVars, loopVars,
          timerVars
<1>5. CASE UNCHANGED vars
  BY <1>0, <1>5 DEF vars, TypeOK, ClientType, SessionInv, tftpVars, fileVars,
      loopVars, timerVars
<1> QED BY <1>1, <1>2, <1>3, <1>4, <1>5 DEF Next

(* Type correctness, for every number of blocks, wrap around included: in  *)
(* particular store_block() never writes below load_addr.                  *)
THEOREM TypeCorrect == Spec => []TypeOK
<1>1. Init => TypeOK /\ SessionInv
  BY InitType
<1>2. TypeOK /\ SessionInv /\ [Next]_vars => (TypeOK /\ SessionInv)'
  BY StepType
<1> QED BY <1>1, <1>2, PTL DEF Spec

-----------------------------------------------------------------------------
(* What is stored is the file, on a network that loses, duplicates and     *)
(* reorders packets.                                                       *)

StoreInv == TypeOK /\ SessionInv /\ PacketInv /\ LockInv /\ StorageInv

(* Where the packet that a handler stores belongs.                         *)
LEMMA StoredBlock ==
    ASSUME StoreInv, NEW m \in msgs, m.op = "DATA", TftpAccepts(m)
    PROVE  /\ m.src \in Ports /\ m.block \in Nat \ {0}
           /\ m.block \in 1 .. srv[m.src].blk
           /\ TftpBlkSize = srv[m.src].size
           /\ m.first = BlockFirst(TftpBlkSize, m.block)
           /\ m.len = BlockLen(TftpBlkSize, m.block)
           /\ m.first \in Nat /\ m.len \in Nat
           /\ m.first + m.len <= FileSize
           /\ m.len < TftpBlkSize => m.first + m.len = FileSize
           /\ m.first <= BlockFirst(TftpBlkSize, srv[m.src].blk)
<1>1. srv \in [Ports -> Session] /\ SessionInv
  BY DEF StoreInv, TypeOK
<1>2. /\ m.src \in Ports /\ m.block \in 1 .. srv[m.src].blk
      /\ m.first = BlockFirst(srv[m.src].size, m.block)
      /\ m.len = BlockLen(srv[m.src].size, m.block)
  BY DEF StoreInv, PacketInv
<1>3. srv[m.src].blk >= 1
  BY <1>1, <1>2 DEF Session
<1>4. TftpBlkSize = srv[m.src].size
  BY <1>2, <1>3 DEF StoreInv, LockInv, TftpAccepts
<1> QED BY <1>1, <1>2, <1>4, BlockPlace

(* store_block() puts it there.                                            *)
LEMMA StoreStep ==
    ASSUME StoreInv, NEW m \in msgs, m.op = "DATA", TftpAccepts(m),
           TftpDataStore(m)
    PROVE  /\ StorageInv' /\ DOMAIN mem' \subseteq Nat
           /\ TftpBlockWrapOffset' = 0
           /\ \A u \in Nat : u \in DOMAIN mem' <=>
                  u \in DOMAIN mem \/ (m.first <= u /\ u < m.first + m.len)
           /\ NetBootFileXferSize' =
                IF NetBootFileXferSize < m.first + m.len THEN m.first + m.len
                                                         ELSE NetBootFileXferSize
<1>1. /\ m.block \in Nat \ {0} /\ m.first \in Nat /\ m.len \in Nat
      /\ m.first = BlockFirst(TftpBlkSize, m.block)
      /\ m.first + m.len <= FileSize
  BY StoredBlock
<1>2. /\ TftpBlkSize \in Nat \ {0} /\ DOMAIN mem \subseteq Nat /\ StorageInv
      /\ AwaitsFirstBlock \/ TftpBlockWrapOffset = 0
  BY DEF AwaitsFirstBlock, StoreInv, LockInv, TypeOK
<1> QED BY <1>1, <1>2, StoreAt

LEMMA InitStore == Init => StoreInv
<1> SUFFICES ASSUME Init PROVE StoreInv
  OBVIOUS
<1>1. TypeOK /\ SessionInv
  BY InitType
<1>2. msgs = {TftpSend} /\ TftpSend.op = "RRQ"
  BY <1>1, TftpSendFields DEF Init, TypeOK
<1>3. PacketInv
  BY <1>2 DEF PacketInv
<1>4. \A p \in Ports : srv[p].blk = 0
  BY DEF Init, ServerInit, FreeSession
<1>5. LockInv
  BY <1>2, <1>4, Constants DEF Init, LockInv
<1>6. StorageInv
  BY Constants DEF Init, EmptyMem, StorageInv, StoredIsFile
<1> QED BY <1>1, <1>3, <1>5, <1>6 DEF StoreInv

(* The packet is one of the session's, and the transfer stays with it.     *)
LEMMA ReceiveStore ==
    ASSUME StoreInv, NEW m \in msgs,
           ClientReceiveSends(m) \/ ClientReceiveSilent(m), TypeOK', SessionInv'
    PROVE  StoreInv'
<1>1. srv' = srv /\ TftpAccepts(m)
      /\ TftpOurPort' \in Nat /\ TftpRemotePort' \in Nat /\ TftpBlock' \in Nat
  BY DEF ClientReceiveSends, ClientReceiveSilent, TftpHandlerSends,
      TftpHandlerSilent, TypeOK
<1>2. m.op \in {"OACK", "DATA"} =>
        /\ m.src \in Ports /\ srv[m.src].st # "free"
        /\ m.op = "OACK" => m.blksize = srv[m.src].size
        /\ TftpState # "SEND_RRQ" => m.src = TftpRemotePort
  BY <1>1 DEF StoreInv, PacketInv, TftpAccepts
<1>3. m.op = "DATA" => TftpBlkSize = srv[m.src].size /\ m.block # 0
  BY <1>1, StoredBlock
<1>4. \/ /\ TftpState' # "SEND_RRQ" /\ m.op \in {"OACK", "DATA"}
         /\ TftpRemotePort' = m.src /\ TftpBlkSize' = srv[m.src].size
      \/ UNCHANGED <<TftpState, TftpRemotePort, TftpBlkSize>>
  <2>1. CASE m.op = "OACK" /\ TftpOack(m)
    BY <1>2, <2>1 DEF TftpOack
  <2>2. CASE m.op = "DATA" /\ TftpDataStore(m)
    BY <1>2, <1>3, <2>2 DEF TftpDataStore, AwaitsFirstBlock
  <2>3. CASE m.op = "DATA" /\ TftpDataNotFirst(m)
    BY <1>3, <2>3 DEF TftpDataNotFirst
  <2>4. CASE m.op = "DATA" /\ TftpDataSame(m)
    BY <2>4 DEF TftpDataSame
  <2>5. CASE m.op = "ERROR" /\ TftpError(m)
    BY <2>5 DEF TftpError, tftpVars
  <2> QED BY <2>1, <2>2, <2>3, <2>4, <2>5
      DEF ClientReceiveSends, ClientReceiveSilent, TftpHandlerSends,
          TftpHandlerSilent
<1>5. StorageInv' /\ (TftpState' = "DATA" => TftpBlockWrapOffset' = 0)
  <2>1. CASE m.op = "OACK" /\ TftpOack(m)
    BY <2>1 DEF TftpOack, fileVars, StoreInv, StorageInv, StoredIsFile
  <2>2. CASE m.op = "DATA" /\ TftpDataStore(m)
    BY <1>1, <2>2, StoreStep
  <2>3. CASE m.op = "DATA" /\ TftpDataNotFirst(m)
    BY <2>3 DEF TftpDataNotFirst, WrapOffsetTaken, fileVars, StoreInv,
        StorageInv, StoredIsFile
  <2>4. CASE m.op = "DATA" /\ TftpDataSame(m)
    BY <1>3, <2>4
    DEF TftpDataSame, WrapOffsetAfter, fileVars, StoreInv, StorageInv,
        StoredIsFile, LockInv
  <2>5. CASE m.op = "ERROR" /\ TftpError(m)
    BY <2>5 DEF TftpError, tftpVars, fileVars, StoreInv, StorageInv,
        StoredIsFile, LockInv
  <2> QED BY <2>1, <2>2, <2>3, <2>4, <2>5
      DEF ClientReceiveSends, ClientReceiveSilent, TftpHandlerSends,
          TftpHandlerSilent
<1>6. \A x \in msgs' : x \in msgs \/ (x.op = "ACK" /\ x.dst = TftpRemotePort'
                                      /\ TftpState' # "SEND_RRQ")
  <2>1. CASE ClientReceiveSends(m)
    <3>1. TftpState' # "SEND_RRQ"
      BY <2>1 DEF ClientReceiveSends, TftpHandlerSends, TftpOack, TftpDataStore
    <3>2. TftpSend'.op = "ACK" /\ TftpSend'.dst = TftpRemotePort'
      BY <3>1 DEF TftpSend
    <3> QED BY <2>1, <3>1, <3>2 DEF ClientReceiveSends, AfterDelivery
  <2>2. CASE ClientReceiveSilent(m)
    BY <2>2 DEF ClientReceiveSilent, AfterDelivery
  <2> QED BY <2>1, <2>2
<1>7. PacketInv'
  BY <1>1, <1>6 DEF StoreInv, PacketInv
<1>8. LockInv'
  <2>1. TftpState # "SEND_RRQ" => /\ TftpRemotePort' = TftpRemotePort
                                  /\ TftpState' # "SEND_RRQ"
    BY <1>2, <1>4
  <2>2. \A x \in msgs' : x.op = "ACK" =>
          TftpState' # "SEND_RRQ" /\ x.dst = TftpRemotePort'
    BY <1>6, <2>1 DEF StoreInv, LockInv
  <2>3. TftpState' # "SEND_RRQ" =>
          /\ TftpRemotePort' \in Ports
          /\ srv'[TftpRemotePort'].st # "free"
          /\ TftpBlkSize' = srv'[TftpRemotePort'].size
    BY <1>1, <1>2, <1>4 DEF StoreInv, LockInv
  <2>4. TftpState' = "SEND_RRQ" =>
          /\ TftpBlkSize' = PlainSize
          /\ \A p \in Ports : srv'[p].blk >= 1 => srv'[p].size = PlainSize
    BY <1>1, <1>4 DEF StoreInv, LockInv
  <2> QED BY <1>5, <2>2, <2>3, <2>4 DEF LockInv
<1> QED BY <1>5, <1>7, <1>8 DEF StoreInv

(* The timer's and the loop's own steps only send what was sent before.    *)
LEMMA ClientStepStore ==
    ASSUME StoreInv, TypeOK', SessionInv',
           TimerExpires \/ ClientTimeoutRetry \/ ClientTimeoutGiveUp
           \/ LoopReturn
    PROVE  StoreInv'
<1>1. /\ UNCHANGED <<srv, mem, NetBootFileXferSize, TftpState, TftpRemotePort,
                     TftpBlkSize, TftpBlockWrapOffset>>
      /\ msgs' = msgs \/ msgs' = msgs \cup {TftpSend'}
  BY DEF TimerExpires, ClientTimeoutRetry, ClientTimeoutGiveUp, LoopReturn,
      TftpTimeoutRetry, TftpTimeoutGiveUp, tftpVars, fileVars
<1>2. \/ TftpSend'.op = "RRQ"
      \/ /\ TftpSend'.op = "ACK" /\ TftpSend'.dst = TftpRemotePort'
         /\ TftpState' # "SEND_RRQ"
  BY DEF TftpSend
<1>3. PacketInv'
  BY <1>1, <1>2 DEF StoreInv, PacketInv
<1>4. LockInv'
  BY <1>1, <1>2 DEF StoreInv, LockInv
<1>5. StorageInv'
  BY <1>1 DEF StoreInv, StorageInv, StoredIsFile
<1> QED BY <1>3, <1>4, <1>5 DEF StoreInv

(* The server's steps keep the sessions that packets and client refer to.  *)
LEMMA ServerStepStore ==
    ASSUME NoWrap, StoreInv, TypeOK', SessionInv', NEW p \in Ports,
           \/ \E m \in msgs : ReceiveRRQ(p, m) \/ ReceiveAck(p, m)
           \/ ServerAbort(p)
    PROVE  StoreInv'
<1>1. /\ \A q \in Ports : q # p => srv'[q] = srv[q]
      /\ srv'[p].st # "free"
      /\ srv[p].st # "free" => srv'[p].size = srv[p].size
      /\ srv'[p].blk >= srv[p].blk
  BY ServerFrame DEF StoreInv, TypeOK, ReceiveRRQ, ReceiveAck, ServerAbort
<1>2. UNCHANGED <<TftpState, TftpRemotePort, TftpBlkSize, TftpBlockWrapOffset,
                  mem, NetBootFileXferSize>>
  BY DEF ReceiveRRQ, ReceiveAck, ServerAbort, tftpVars, fileVars
<1>3. srv \in [Ports -> Session] /\ srv' \in [Ports -> Session]
  BY DEF StoreInv, TypeOK
<1>4. \A x \in msgs' :
        \/ x \in msgs
        \/ x.op = "ERROR"
        \/ srv'[p].st \in {"oack", "data"} /\ x = SessionPkt(p, srv'[p])
  <2>1. ASSUME NEW m \in msgs, ReceiveRRQ(p, m)
        PROVE  <1>4!:
    BY <1>3, <2>1 DEF ReceiveRRQ, ServerOpen, ErrorPkt
  <2>2. ASSUME NEW m \in msgs, ReceiveAck(p, m)
        PROVE  <1>4!:
    <3>1. AfterAck(p) \subseteq msgs
      BY DEF AfterAck
    <3>2. ServerNextBlock(p, m) => srv'[p].st = "data"
      BY <1>3 DEF ServerNextBlock, Session
    <3> QED BY <2>2, <3>1, <3>2 DEF ReceiveAck
  <2>3. CASE ServerAbort(p)
    BY <2>3 DEF ServerAbort, ErrorPkt
  <2> QED BY <2>1, <2>2, <2>3
<1>5. ASSUME srv'[p].st \in {"oack", "data"}
      PROVE  LET x == SessionPkt(p, srv'[p])
             IN  /\ x.src = p
                 /\ \/ x.op = "OACK" /\ x.blksize = srv'[p].size
                    \/ /\ x.op = "DATA"
                       /\ x.block \in 1 .. srv'[p].blk
                       /\ x.first = BlockFirst(srv'[p].size, x.block)
                       /\ x.len = BlockLen(srv'[p].size, x.block)
  <2>1. PICK s \in Session : s = srv'[p]
    BY <1>3
  <2>2. /\ s.size \in OackSizes \cup {PlainSize}
        /\ s.st = "data" => s.blk >= 1 /\ BlockFirst(s.size, s.blk) <= FileSize
    BY <2>1 DEF SessionInv
  <2> QED BY <1>5, <2>1, <2>2, SessionPktPlace
<1>6. PacketInv'
  <2> SUFFICES ASSUME NEW x \in msgs'
               PROVE  /\ x.op \in {"OACK", "DATA"} =>
                           x.src \in Ports /\ srv'[x.src].st # "free"
                      /\ x.op = "OACK" => x.blksize = srv'[x.src].size
                      /\ x.op = "DATA" =>
                           /\ x.block \in 1 .. srv'[x.src].blk
                           /\ x.first = BlockFirst(srv'[x.src].size, x.block)
                           /\ x.len = BlockLen(srv'[x.src].size, x.block)
    BY DEF PacketInv
  <2>1. CASE x \in msgs
    <3>1. x.op \in {"OACK", "DATA"} =>
            /\ x.src \in Ports /\ srv[x.src].st # "free"
            /\ x.op = "OACK" => x.blksize = srv[x.src].size
            /\ x.op = "DATA" =>
                 /\ x.block \in 1 .. srv[x.src].blk
                 /\ x.first = BlockFirst(srv[x.src].size, x.block)
                 /\ x.len = BlockLen(srv[x.src].size, x.block)
      BY <2>1 DEF StoreInv, PacketInv
    <3>2. x.op \in {"OACK", "DATA"} =>
            /\ srv'[x.src].st # "free" /\ srv'[x.src].size = srv[x.src].size
            /\ srv[x.src].blk \in Nat /\ srv'[x.src].blk \in Nat
            /\ srv'[x.src].blk >= srv[x.src].blk
      BY <1>1, <1>3, <3>1 DEF Session
    <3> QED BY <3>1, <3>2
  <2>2. CASE x.op = "ERROR"
    BY <2>2
  <2>3. CASE srv'[p].st \in {"oack", "data"} /\ x = SessionPkt(p, srv'[p])
    BY <1>1, <1>5, <2>3
  <2> QED BY <1>4, <2>1, <2>2, <2>3
<1>7. LockInv'
  <2>1. \A x \in msgs' : x.op = "ACK" => x \in msgs
    BY <1>4, <1>5
  <2>2. TftpState = "SEND_RRQ" =>
          \A q \in Ports : srv'[q].blk >= 1 => srv'[q].size = PlainSize
    <3>1. SUFFICES ASSUME TftpState = "SEND_RRQ", srv'[p].blk >= 1
                   PROVE  srv'[p].size = PlainSize
      BY <1>1 DEF StoreInv, LockInv
    <3>2. \A m \in msgs : m.op # "ACK"
      BY <3>1 DEF StoreInv, LockInv
    <3>3. ServerAbort(p) \/ \E m \in msgs : ReceiveRRQ(p, m)
      BY <3>2 DEF ReceiveAck
    <3>4. CASE ServerAbort(p)
      BY <1>3, <3>1, <3>4 DEF ServerAbort, ServerFail, Session, StoreInv, LockInv
    <3>5. CASE \E m \in msgs : ReceiveRRQ(p, m)
      <4>1. PICK m \in msgs : ReceiveRRQ(p, m)
        BY <3>5
      <4>2. srv[p].st = "free" /\ srv[p].blk = 0
        BY <4>1 DEF ReceiveRRQ, ServerOpen, ServerRefuse, NextPort, StoreInv,
            SessionInv
      <4>3. CASE ServerOpen(p, m)
        BY <1>3, <3>1, <4>3 DEF ServerOpen
      <4>4. CASE ServerRefuse(p, m)
        BY <1>3, <3>1, <4>2, <4>4 DEF ServerRefuse, Session
      <4> QED BY <4>1, <4>3, <4>4 DEF ReceiveRRQ
    <3> QED BY <3>3, <3>4, <3>5
  <2>3. TftpState # "SEND_RRQ" =>
          /\ TftpRemotePort \in Ports
          /\ srv'[TftpRemotePort].st # "free"
          /\ TftpBlkSize = srv'[TftpRemotePort].size
    BY <1>1 DEF StoreInv, LockInv
  <2> QED BY <1>2, <2>1, <2>2, <2>3 DEF StoreInv, LockInv
<1>8. StorageInv'
  BY <1>2 DEF StoreInv, StorageInv, StoredIsFile
<1> QED BY <1>6, <1>7, <1>8 DEF StoreInv

LEMMA StepStore == NoWrap /\ StoreInv /\ [Next]_vars => StoreInv'
<1> SUFFICES ASSUME NoWrap, StoreInv, [Next]_vars PROVE StoreInv'
  OBVIOUS
<1>1. TypeOK' /\ SessionInv'
  BY StepType DEF StoreInv
<1>2. CASE UNCHANGED vars
  BY <1>1, <1>2 DEF StoreInv, PacketInv, LockInv, StorageInv, StoredIsFile,
      vars, tftpVars, fileVars
<1> QED BY <1>1, <1>2, ReceiveStore, ClientStepStore, ServerStepStore DEF Next

(* Whatever packets are lost, duplicated and reordered, and whatever       *)
(* options and errors the server answers with: what store_block() has      *)
(* written is the file, each unit at its own offset, if no block number    *)
(* comes twice.  (With a wrap around it is not; see the run tftp_wrap.)    *)
THEOREM StorageCorrect ==
    ASSUME NoWrap
    PROVE  Spec => []StoredIsFile
<1>1. Init => StoreInv
  BY InitStore
<1>2. StoreInv /\ [Next]_vars => StoreInv'
  BY StepStore
<1>3. StoreInv => StoredIsFile
  BY DEF StoreInv, StorageInv
<1> QED BY <1>1, <1>2, <1>3, PTL DEF Spec

LEMMA StaysWithSession ==
    ASSUME StoreInv, [Next]_vars, TftpState # "SEND_RRQ"
    PROVE  TftpRemotePort' = TftpRemotePort /\ TftpBlkSize' = TftpBlkSize
<1>1. ASSUME NEW m \in msgs, ClientReceiveSends(m) \/ ClientReceiveSilent(m)
      PROVE  TftpRemotePort' = TftpRemotePort /\ TftpBlkSize' = TftpBlkSize
  <2>1. TftpAccepts(m) /\ m.src = TftpRemotePort
    BY <1>1 DEF ClientReceiveSends, ClientReceiveSilent, TftpHandlerSends,
        TftpHandlerSilent, TftpAccepts
  <2>2. m.op = "OACK" => m.blksize = TftpBlkSize
    BY <2>1 DEF StoreInv, PacketInv, LockInv
  <2> QED BY <1>1, <2>1, <2>2
      DEF ClientReceiveSends, ClientReceiveSilent, TftpHandlerSends,
          TftpHandlerSilent, TftpOack, TftpDataStore, TftpDataNotFirst,
          TftpDataSame, TftpError, tftpVars
<1>2. CASE TimerExpires \/ ClientTimeoutRetry \/ ClientTimeoutGiveUp
           \/ LoopReturn
  BY <1>2 DEF TimerExpires, ClientTimeoutRetry, ClientTimeoutGiveUp,
      LoopReturn, TftpTimeoutRetry, TftpTimeoutGiveUp, tftpVars
<1>3. ASSUME NEW p \in Ports,
             \/ \E m \in msgs : ReceiveRRQ(p, m) \/ ReceiveAck(p, m)
             \/ ServerAbort(p)
      PROVE  TftpRemotePort' = TftpRemotePort /\ TftpBlkSize' = TftpBlkSize
  BY <1>3 DEF ReceiveRRQ, ReceiveAck, ServerAbort, tftpVars
<1>4. CASE UNCHANGED vars
  BY <1>4 DEF vars, tftpVars
<1> QED BY <1>1, <1>2, <1>3, <1>4 DEF Next

(* A transfer stays with the session that answered first: the answers to a *)
(* retransmitted RRQ, which come from other ports, change neither the port *)
(* the client acknowledges to nor the block size it stores with.           *)
THEOREM SessionLocked ==
    ASSUME NoWrap
    PROVE  Spec => OneSession
<1>1. Init => StoreInv
  BY InitStore
<1>2. StoreInv /\ [Next]_vars => StoreInv'
  BY StepStore
<1>3. StoreInv /\ [Next]_vars =>
        [TftpState # "SEND_RRQ" => /\ TftpRemotePort' = TftpRemotePort
                                   /\ TftpBlkSize' = TftpBlkSize]_vars
  BY StaysWithSession
<1> QED BY <1>1, <1>2, <1>3, PTL DEF Spec, OneSession

-----------------------------------------------------------------------------
(* A transfer that reports success has stored the whole file, for the      *)
(* networks and servers it holds for: packets of a session stay in order,  *)
(* or the server answers without options.                                  *)

(* No OACK can arrive after a DATA packet of its session.                  *)
NoLateOack == InOrder \/ OackSizes = {}

LEMMA TransferIsStore == TransferInv => StoreInv
  BY DEF TransferInv, StoreInv

LEMMA InitTransfer == Init => TransferInv
<1> SUFFICES ASSUME Init PROVE TransferInv
  OBVIOUS
<1>1. StoreInv
  BY InitStore
<1>2. msgs = {TftpSend} /\ TftpSend.op = "RRQ"
  BY <1>1, TftpSendFields DEF Init, StoreInv, TypeOK
<1>3. \A p \in Ports : srv[p].blk = 0 /\ srv[p].st = "free"
  BY DEF Init, ServerInit, FreeSession
<1>4. ProgressInv
  BY <1>2, <1>3 DEF Init, ProgressInv
<1>5. SuccessIsWholeFile
  BY DEF Init, SuccessIsWholeFile
<1> QED BY <1>1, <1>4, <1>5 DEF StoreInv, TransferInv

(* TftpHandler(): OACKs come before the first block, and in STATE_DATA the *)
(* block that TftpTimeout() would acknowledge again is stored.             *)
LEMMA ReceiveTransfer ==
    ASSUME NoLateOack, TransferInv, NEW m \in msgs,
           ClientReceiveSends(m) \/ ClientReceiveSilent(m), StoreInv'
    PROVE  TransferInv'
<1>1. /\ srv' = srv /\ TftpAccepts(m) /\ ret' = ret
      /\ \/ m.op = "DATA" /\ TftpDataStore(m)
         \/ m.op = "DATA" /\ TftpDataSame(m)
         \/ m.op = "DATA" /\ TftpDataNotFirst(m)
         \/ m.op = "OACK" /\ TftpOack(m)
         \/ m.op = "ERROR" /\ TftpError(m)
  BY DEF ClientReceiveSends, ClientReceiveSilent, TftpHandlerSends,
      TftpHandlerSilent
<1>2. m.op = "DATA" => /\ m.src \in Ports /\ m.block \in Nat \ {0}
                       /\ m.block <= srv[m.src].blk /\ srv[m.src].blk \in Nat
                       /\ TftpBlkSize = srv[m.src].size
                       /\ m.first = BlockFirst(TftpBlkSize, m.block)
                       /\ m.len = BlockLen(TftpBlkSize, m.block)
                       /\ m.first \in Nat /\ m.len \in Nat
  BY <1>1, StoredBlock, TransferIsStore DEF TransferInv, TypeOK, Session
<1>3. TftpState # "SEND_RRQ" => m.src = TftpRemotePort
  BY <1>1 DEF TftpAccepts
<1>4. m.op = "DATA" => ~TftpDataNotFirst(m)
  <2> SUFFICES ASSUME m.op = "DATA", TftpDataNotFirst(m) PROVE FALSE
    OBVIOUS
  <2>1. m.block >= 2 /\ srv[m.src].blk >= 2
    BY <1>2 DEF TftpDataNotFirst
  <2> QED BY <1>2, <2>1 DEF TransferInv, ProgressInv, TftpDataNotFirst,
          AwaitsFirstBlock
<1>5. m.op = "OACK" => TftpState # "DATA"
  BY <1>3 DEF TransferInv, ProgressInv
<1>6. CASE m.op = "DATA" /\ TftpDataStore(m)
  <2>1. /\ DOMAIN mem \subseteq DOMAIN mem'
        /\ \A u \in 0 .. (m.first + m.len - 1) : u \in DOMAIN mem'
        /\ WholeFile => WholeFile'
        /\ m.len < TftpBlkSize => WholeFile'
    <3>1. /\ StorageInv' /\ DOMAIN mem' \subseteq Nat
          /\ \A u \in Nat : u \in DOMAIN mem' <=>
                 u \in DOMAIN mem \/ (m.first <= u /\ u < m.first + m.len)
          /\ NetBootFileXferSize' =
               IF NetBootFileXferSize < m.first + m.len THEN m.first + m.len
                                                        ELSE NetBootFileXferSize
      BY <1>1, <1>6, StoreStep, TransferIsStore
    <3>2. /\ m.first \in Nat /\ m.len \in Nat /\ m.first + m.len <= FileSize
          /\ m.len < TftpBlkSize => m.first + m.len = FileSize
          /\ m.first <= BlockFirst(TftpBlkSize, srv[m.src].blk)
      BY <1>1, <1>6, StoredBlock, TransferIsStore
    <3>3. /\ DOMAIN mem \subseteq Nat /\ NetBootFileXferSize \in Nat
          /\ TftpBlkSize \in Nat \ {0}
      BY DEF TransferInv, TypeOK
    <3>4. srv[m.src].blk \in Nat \ {0}
      BY <1>2, <1>6
    <3>5. \A u \in 0 .. (m.first - 1) : u \in DOMAIN mem
      <4>1. \A u \in 0 .. (BlockFirst(TftpBlkSize, srv[m.src].blk) - 1) :
              u \in DOMAIN mem
        BY <1>2, <1>6, <3>4 DEF TransferInv, ProgressInv
      <4>2. BlockFirst(TftpBlkSize, srv[m.src].blk) \in Nat
        BY <3>3, <3>4, BlockStep
      <4> QED BY <3>2, <4>1, <4>2
    <3> QED BY <3>1, <3>2, <3>3, <3>5, StoreProgress
  <2>2. /\ TftpState' = "DATA" /\ TftpRemotePort' = m.src
        /\ TftpBlock' = m.block /\ TftpLastBlock' = m.block
        /\ net_state' = IF m.len < TftpBlkSize THEN "SUCCESS" ELSE net_state
    BY <1>3, <1>6 DEF TftpDataStore, update_block_number, IsFinalBlock,
        AwaitsFirstBlock
  <2>3. BlockStored(srv[m.src].size, m.block)'
    BY <1>1, <1>2, <1>6, <2>1 DEF BlockStored
  <2>4. TftpSend'.op = "ACK" /\ TftpSend'.dst = m.src /\ TftpSend'.block = m.block
    BY <2>2 DEF TftpSend
  <2>5. \A x \in msgs' : x \in AfterDelivery(m) \/ x = TftpSend'
    BY <1>6 DEF ClientReceiveSends, ClientReceiveSilent, TftpHandlerSilent,
        TftpDataSame, TftpDataNotFirst, TftpDataStore
  <2>6. \A x \in AfterDelivery(m) : x \in msgs /\ (x.op = "OACK" => x.src # m.src)
    <3>1. CASE InOrder
      BY <1>6, <3>1 DEF AfterDelivery, Older
    <3>2. CASE OackSizes = {}
      BY <3>2 DEF AfterDelivery, TransferInv, ProgressInv
    <3> QED BY <3>1, <3>2 DEF NoLateOack
  <2>7. ProgressInv'
    <3>1. \A p \in Ports : srv'[p].blk >= 1 =>
            \A u \in 0 .. (BlockFirst(srv'[p].size, srv'[p].blk) - 1) :
                u \in DOMAIN mem'
      BY <1>1, <2>1 DEF TransferInv, ProgressInv
    <3>2. \A p \in Ports : srv'[p].blk >= 2 =>
            TftpState' = "DATA" /\ TftpRemotePort' = p
      BY <1>1, <1>3, <2>2 DEF TransferInv, ProgressInv
    <3>3. \A x \in msgs' : (x.op = "ACK" /\ x.block >= 1) =>
            TftpState' = "DATA" /\ BlockStored(srv[x.dst].size, x.block)'
      <4> SUFFICES ASSUME NEW x \in msgs', x.op = "ACK", x.block >= 1
                   PROVE  BlockStored(srv[x.dst].size, x.block)'
        BY <2>2
      <4>1. CASE x = TftpSend'
        BY <2>3, <2>4, <4>1
      <4>2. CASE x \in msgs
        BY <1>1, <2>1, <4>2 DEF TransferInv, ProgressInv, BlockStored
      <4> QED BY <2>5, <2>6, <4>1, <4>2
    <3>4. /\ TftpBlock' >= 1 /\ TftpLastBlock' = TftpBlock'
          /\ BlockStored(srv[TftpRemotePort].size, TftpBlock)'
          /\ srv'[TftpRemotePort'].blk >= 1
      BY <1>1, <1>2, <1>6, <2>2, <2>3
    <3>5. \A x \in msgs' : x.op = "OACK" => x.src # TftpRemotePort'
      BY <2>2, <2>4, <2>5, <2>6
    <3>6. OackSizes = {} => /\ \A x \in msgs' : x.op # "OACK"
                            /\ \A p \in Ports : srv'[p].st # "oack"
      BY <1>1, <2>4, <2>5, <2>6 DEF TransferInv, ProgressInv
    <3> QED BY <2>2, <3>1, <3>2, <3>3, <3>4, <3>5, <3>6 DEF ProgressInv
  <2>8. SuccessIsWholeFile'
    BY <1>1, <2>1, <2>2 DEF TransferInv, SuccessIsWholeFile
  <2> QED BY <2>7, <2>8 DEF StoreInv, TransferInv
<1>7. CASE ~(m.op = "DATA" /\ TftpDataStore(m))
  <2>1. mem' = mem /\ NetBootFileXferSize' = NetBootFileXferSize
        /\ net_state' \in {net_state, "FAIL"}
    BY <1>1, <1>7 DEF TftpDataSame, TftpDataNotFirst, TftpOack, TftpError,
        fileVars, loopVars
  <2>2. SuccessIsWholeFile'
    BY <1>1, <2>1 DEF TransferInv, SuccessIsWholeFile, WholeFile
  <2>3. /\ TftpState' \in {TftpState, "OACK"} /\ TftpBlock' = TftpBlock
        /\ TftpLastBlock' = TftpLastBlock
        /\ TftpState = "DATA" => /\ TftpState' = "DATA"
                                 /\ TftpRemotePort' = TftpRemotePort
        /\ TftpState' = "DATA" => TftpState = "DATA"
    <3>1. CASE m.op = "OACK" /\ TftpOack(m)
      BY <1>5, <3>1 DEF TftpOack
    <3>2. CASE m.op = "DATA" /\ TftpDataSame(m)
      BY <3>2 DEF TftpDataSame, update_block_number, AwaitsFirstBlock,
          TransferInv, TypeOK, ProgressInv
    <3>3. CASE m.op = "ERROR" /\ TftpError(m)
      BY <3>3 DEF TftpError, tftpVars
    <3> QED BY <1>1, <1>4, <1>7, <3>1, <3>2, <3>3
  <2>4. \A x \in msgs' : x \in msgs \/ (x.op = "ACK" /\ x.block = 0)
    <3>1. CASE m.op = "OACK" /\ ClientReceiveSends(m)
      <4>1. TftpBlock' = 0 /\ TftpState' = "OACK"
        BY <1>1, <1>5, <2>3, <3>1 DEF TransferInv, ProgressInv, TftpOack
      <4>2. TftpSend'.op = "ACK" /\ TftpSend'.block = 0
        BY <4>1 DEF TftpSend
      <4> QED BY <3>1, <4>2 DEF ClientReceiveSends, AfterDelivery
    <3>2. CASE ClientReceiveSilent(m)
      BY <3>2 DEF ClientReceiveSilent, AfterDelivery
    <3> QED BY <1>1, <1>7, <3>1, <3>2
        DEF ClientReceiveSends, TftpHandlerSends
  <2>5. ProgressInv'
    <3>1. \A p \in Ports : srv'[p].blk >= 1 =>
            \A u \in 0 .. (BlockFirst(srv'[p].size, srv'[p].blk) - 1) :
                u \in DOMAIN mem'
      BY <1>1, <2>1 DEF TransferInv, ProgressInv
    <3>2. \A p \in Ports : srv'[p].blk >= 2 =>
            TftpState' = "DATA" /\ TftpRemotePort' = p
      BY <1>1, <2>3 DEF TransferInv, ProgressInv
    <3>3. \A x \in msgs' : (x.op = "ACK" /\ x.block >= 1) =>
            TftpState' = "DATA" /\ BlockStored(srv[x.dst].size, x.block)'
      BY <1>1, <2>1, <2>3, <2>4 DEF TransferInv, ProgressInv, BlockStored
    <3>4. TftpState' = "DATA" =>
            /\ TftpBlock' >= 1 /\ TftpLastBlock' = TftpBlock'
            /\ BlockStored(srv[TftpRemotePort].size, TftpBlock)'
            /\ srv'[TftpRemotePort'].blk >= 1
            /\ \A x \in msgs' : x.op = "OACK" => x.src # TftpRemotePort'
      BY <1>1, <2>1, <2>3, <2>4 DEF TransferInv, ProgressInv, BlockStored
    <3>5. TftpState' # "DATA" => TftpBlock' = 0
      BY <2>3 DEF TransferInv, ProgressInv
    <3>6. OackSizes = {} => /\ \A x \in msgs' : x.op # "OACK"
                            /\ \A p \in Ports : srv'[p].st # "oack"
      BY <1>1, <2>4 DEF TransferInv, ProgressInv
    <3> QED BY <3>1, <3>2, <3>3, <3>4, <3>5, <3>6 DEF ProgressInv
  <2> QED BY <2>2, <2>5 DEF StoreInv, TransferInv
<1> QED BY <1>6, <1>7

(* TftpTimeout() acknowledges again what is stored, and NetLoop() returns  *)
(* the size of a whole file.                                               *)
LEMMA ClientStepTransfer ==
    ASSUME TransferInv, StoreInv',
           TimerExpires \/ ClientTimeoutRetry \/ ClientTimeoutGiveUp
           \/ LoopReturn
    PROVE  TransferInv'
<1>1. /\ UNCHANGED <<srv, mem, NetBootFileXferSize, net_state, TftpState,
                     TftpRemotePort, TftpBlock, TftpLastBlock>>
      /\ msgs' = msgs \/ msgs' = msgs \cup {TftpSend'}
      /\ \/ ret' = ret
         \/ ret' = -1
         \/ net_state = "SUCCESS" /\ ret' = NetBootFileXferSize
  <2>1. CASE TimerExpires
    BY <2>1 DEF TimerExpires, tftpVars, fileVars
  <2>2. CASE ClientTimeoutRetry
    BY <2>2 DEF ClientTimeoutRetry, TftpTimeoutRetry, fileVars
  <2>3. CASE ClientTimeoutGiveUp
    BY <2>3 DEF ClientTimeoutGiveUp, TftpTimeoutGiveUp, fileVars
  <2>4. CASE LoopReturn
    BY <2>4 DEF LoopReturn, tftpVars, fileVars
  <2> QED BY <2>1, <2>2, <2>3, <2>4
<1>2. SuccessIsWholeFile'
  BY <1>1 DEF TransferInv, SuccessIsWholeFile, WholeFile
<1>3. \/ TftpSend'.op = "RRQ"
      \/ /\ TftpSend'.op = "ACK" /\ TftpSend'.dst = TftpRemotePort
         /\ TftpSend'.block = TftpBlock
  BY <1>1 DEF TftpSend
<1>4. \A x \in msgs' : (x.op = "ACK" /\ x.block >= 1) =>
        TftpState = "DATA" /\ BlockStored(srv[x.dst].size, x.block)
  <2> SUFFICES ASSUME NEW x \in msgs', x.op = "ACK", x.block >= 1
               PROVE  TftpState = "DATA" /\ BlockStored(srv[x.dst].size, x.block)
    OBVIOUS
  <2>1. CASE x \in msgs
    BY <2>1 DEF TransferInv, ProgressInv
  <2>2. CASE x = TftpSend'
    BY <1>3, <2>2 DEF TransferInv, ProgressInv
  <2> QED BY <1>1, <2>1, <2>2
<1>5. \A x \in msgs' : x.op = "OACK" => x \in msgs
  BY <1>1, <1>3
<1>6. ProgressInv'
  BY <1>1, <1>4, <1>5 DEF TransferInv, ProgressInv, BlockStored
<1> QED BY <1>2, <1>6 DEF StoreInv, TransferInv

(* The server goes on to the next block when the one before is stored.     *)
LEMMA ServerStepTransfer ==
    ASSUME NoWrap, TransferInv, StoreInv', NEW p \in Ports,
           \/ \E m \in msgs : ReceiveRRQ(p, m) \/ ReceiveAck(p, m)
           \/ ServerAbort(p)
    PROVE  TransferInv'
<1>1. /\ \A q \in Ports : q # p => srv'[q] = srv[q]
      /\ srv[p].st # "free" => srv'[p].size = srv[p].size
  BY ServerFrame DEF TransferInv, TypeOK, ReceiveRRQ, ReceiveAck, ServerAbort
<1>2. UNCHANGED <<net_state, TftpState, TftpRemotePort, TftpBlock,
                  TftpLastBlock, mem, NetBootFileXferSize, ret>>
  BY DEF ReceiveRRQ, ReceiveAck, ServerAbort, tftpVars, fileVars, loopVars
<1>3. srv \in [Ports -> Session] /\ srv' \in [Ports -> Session]
  BY DEF TransferInv, StoreInv, TypeOK
<1>4. \A x \in msgs' : /\ x.op = "ACK" => x \in msgs
                       /\ x.op = "OACK" => x \in msgs \/ (x.src = p /\ srv[p].st = "free"
                                                           /\ OackSizes # {})
  <2>1. ASSUME NEW m \in msgs, ReceiveRRQ(p, m), ServerOpen(p, m),
               msgs' = msgs \cup {SessionPkt(p, srv'[p])}
        PROVE  <1>4!:
    <3>1. SessionPkt(p, srv'[p]).op # "ACK" /\ SessionPkt(p, srv'[p]).src = p
          /\ srv[p].st = "free"
      BY <2>1 DEF SessionPkt, ServerOpen, NextPort
    <3>2. SessionPkt(p, srv'[p]).op = "OACK" => OackSizes # {}
      BY <1>3, <2>1 DEF SessionPkt, ServerOpen
    <3> QED BY <2>1, <3>1, <3>2
  <2>2. CASE \E q, code : msgs' = msgs \cup {ErrorPkt(p, q, code)}
    BY <2>2 DEF ErrorPkt
  <2>3. ASSUME NEW m \in msgs, ReceiveAck(p, m)
        PROVE  <1>4!:
    <3>1. AfterAck(p) \subseteq msgs
      BY DEF AfterAck
    <3>2. ServerNextBlock(p, m) => SessionPkt(p, srv'[p]).op = "DATA"
      BY <1>3 DEF ServerNextBlock, Session, SessionPkt
    <3> QED BY <2>3, <3>1, <3>2 DEF ReceiveAck
  <2> QED BY <2>1, <2>2, <2>3 DEF ReceiveRRQ, ServerAbort
<1>5. \/ srv'[p].blk = srv[p].blk
      \/ srv[p].st = "free" /\ srv'[p].blk = 1
      \/ \E m \in msgs : m.op = "ACK" /\ ServerNextBlock(p, m)
  <2>1. srv[p].st = "free" => srv[p].blk = 0
    BY DEF TransferInv, SessionInv
  <2>2. ASSUME NEW m \in msgs, ServerOpen(p, m)
        PROVE  srv'[p].blk = srv[p].blk \/ (srv[p].st = "free" /\ srv'[p].blk = 1)
    BY <1>3, <2>1, <2>2 DEF ServerOpen, NextPort
  <2>3. ASSUME NEW m, ServerRefuse(p, m) \/ ServerFinish(p, m)
        PROVE  srv'[p].blk = srv[p].blk
    BY <1>3, <2>3 DEF ServerRefuse, ServerFinish, Session
  <2>4. CASE ServerFail(p)
    BY <1>3, <2>4 DEF ServerFail, Session
  <2> QED BY <2>2, <2>3, <2>4 DEF ReceiveRRQ, ReceiveAck, ServerAbort
<1>6. SuccessIsWholeFile'
  BY <1>2 DEF TransferInv, SuccessIsWholeFile, WholeFile
<1>7. \A u : u \in DOMAIN mem' <=> u \in DOMAIN mem
  BY <1>2
<1>8. ASSUME NEW m \in msgs, m.op = "ACK", ServerNextBlock(p, m)
      PROVE  /\ \A u \in 0 .. (BlockFirst(srv'[p].size, srv'[p].blk) - 1) :
                    u \in DOMAIN mem
             /\ srv'[p].blk >= 2 => TftpState = "DATA" /\ TftpRemotePort = p
  <2>1. /\ srv[p].blk \in Nat /\ srv[p].size \in Nat \ {0}
        /\ srv'[p].blk = srv[p].blk + 1 /\ srv'[p].size = srv[p].size
        /\ srv[p].size \in OackSizes \cup {PlainSize}
        /\ m.dst = p
    BY <1>3, <1>8 DEF ServerNextBlock, ServerExpects, Session, TransferInv,
        SessionInv
  <2>2. srv[p].st = "data" =>
          /\ TftpState = "DATA" /\ TftpRemotePort = p
          /\ \A u \in 0 .. (BlockFirst(srv[p].size, srv[p].blk) - 1) : u \in DOMAIN mem
          /\ BlockStored(srv[p].size, srv[p].blk)
    <3> SUFFICES ASSUME srv[p].st = "data"
                 PROVE  /\ TftpState = "DATA" /\ TftpRemotePort = p
                        /\ \A u \in 0 .. (BlockFirst(srv[p].size, srv[p].blk) - 1) :
                               u \in DOMAIN mem
                        /\ BlockStored(srv[p].size, srv[p].blk)
      OBVIOUS
    <3>1. srv[p].blk \in Nat \ {0} /\ BlockFirst(srv[p].size, srv[p].blk) <= FileSize
      BY <2>1 DEF TransferInv, SessionInv
    <3>2. m.block = srv[p].blk
      <4>1. srv[p].blk % SeqSize = srv[p].blk
        BY <2>1, <3>1, BlockNumber
      <4> QED BY <1>8, <4>1 DEF ServerNextBlock, ServerExpects
    <3> QED BY <1>8, <2>1, <3>1, <3>2 DEF TransferInv, ProgressInv, LockInv
  <2>3. srv'[p].blk >= 2 => srv[p].st = "data"
    <3>1. srv[p].st = "oack" => srv[p].blk = 0
      BY DEF TransferInv, SessionInv
    <3> QED BY <1>8, <2>1, <3>1 DEF ServerNextBlock, ServerExpects
  <2> QED BY <1>3, <1>8, <2>2, <2>3, NextStored DEF TransferInv
<1>9. ProgressInv'
  <2>1. ASSUME NEW q \in Ports, srv'[q].blk >= 1
        PROVE  /\ \A u \in 0 .. (BlockFirst(srv'[q].size, srv'[q].blk) - 1) :
                      u \in DOMAIN mem
               /\ srv'[q].blk >= 2 => TftpState = "DATA" /\ TftpRemotePort = q
    <3>1. CASE q # p
      BY <1>1, <2>1, <3>1 DEF TransferInv, ProgressInv
    <3>2. CASE q = p /\ srv'[p].blk = srv[p].blk
      <4>1. srv[p].st # "free"
        BY <2>1, <3>2 DEF TransferInv, SessionInv
      <4> QED BY <1>1, <2>1, <3>2, <4>1 DEF TransferInv, ProgressInv
    <3>3. CASE q = p /\ srv'[p].blk = 1
      <4>1. BlockFirst(srv'[p].size, 1) = 0
        BY <1>3, BlockStep DEF Session
      <4> QED BY <3>3, <4>1
    <3> QED BY <1>5, <1>8, <3>1, <3>2, <3>3
  <2>2. \A x \in msgs' : (x.op = "ACK" /\ x.block >= 1) =>
          TftpState = "DATA" /\ BlockStored(srv[x.dst].size, x.block)'
    <3> SUFFICES ASSUME NEW x \in msgs', x.op = "ACK", x.block >= 1
                 PROVE  TftpState = "DATA" /\ BlockStored(srv[x.dst].size, x.block)'
      OBVIOUS
    <3>1. /\ x \in msgs /\ x.dst = TftpRemotePort /\ TftpState = "DATA"
          /\ BlockStored(srv[x.dst].size, x.block)
      BY <1>4 DEF TransferInv, ProgressInv, LockInv
    <3>2. srv'[x.dst].size = srv[x.dst].size
      BY <1>1, <3>1 DEF TransferInv, LockInv
    <3> QED BY <1>2, <3>1, <3>2 DEF BlockStored
  <2>3. ASSUME TftpState = "DATA"
        PROVE  /\ BlockStored(srv[TftpRemotePort].size, TftpBlock)'
               /\ srv'[TftpRemotePort].blk >= 1
               /\ \A x \in msgs' : x.op = "OACK" => x.src # TftpRemotePort
    <3>1. TftpRemotePort \in Ports /\ srv[TftpRemotePort].st # "free"
      BY <2>3 DEF TransferInv, LockInv
    <3>2. srv'[TftpRemotePort].size = srv[TftpRemotePort].size
      BY <1>1, <3>1
    <3>3. srv'[TftpRemotePort].blk >= srv[TftpRemotePort].blk
          /\ srv[TftpRemotePort].blk \in Nat /\ srv'[TftpRemotePort].blk \in Nat
      BY <1>1, <1>3, <3>1, ServerFrame
      DEF TransferInv, TypeOK, ReceiveRRQ, ReceiveAck, ServerAbort, Session
    <3>4. /\ BlockStored(srv[TftpRemotePort].size, TftpBlock)
          /\ srv[TftpRemotePort].blk >= 1
          /\ \A x \in msgs : x.op = "OACK" => x.src # TftpRemotePort
      BY <2>3 DEF TransferInv, ProgressInv
    <3> QED BY <1>2, <1>4, <3>1, <3>2, <3>3, <3>4 DEF BlockStored
  <2>4. ASSUME OackSizes = {}
        PROVE  /\ \A x \in msgs' : x.op # "OACK"
               /\ \A q \in Ports : srv'[q].st # "oack"
    <3>1. /\ \A x \in msgs : x.op # "OACK"
          /\ \A q \in Ports : srv[q].st # "oack"
      BY <2>4 DEF TransferInv, ProgressInv
    <3>2. srv'[p].st # "oack"
      BY <1>3, <2>4, <3>1
      DEF ReceiveRRQ, ReceiveAck, ServerAbort, ServerOpen, ServerRefuse,
          ServerNextBlock, ServerFinish, ServerFail, Session
    <3> QED BY <1>1, <1>4, <2>4, <3>1, <3>2
  <2>5. \A q \in Ports : srv'[q].blk >= 1 =>
          \A u \in 0 .. (BlockFirst(srv'[q].size, srv'[q].blk) - 1) :
              u \in DOMAIN mem'
    BY <1>2, <2>1
  <2>6. \A q \in Ports : srv'[q].blk >= 2 =>
          TftpState' = "DATA" /\ TftpRemotePort' = q
    BY <1>2, <1>3, <2>1 DEF Session
  <2>7. \A x \in msgs' : (x.op = "ACK" /\ x.block >= 1) =>
          TftpState' = "DATA" /\ BlockStored(srv[x.dst].size, x.block)'
    BY <1>2, <2>2
  <2>8. TftpState' = "DATA" =>
          /\ TftpBlock' >= 1 /\ TftpLastBlock' = TftpBlock'
          /\ BlockStored(srv[TftpRemotePort].size, TftpBlock)'
          /\ srv'[TftpRemotePort'].blk >= 1
          /\ \A x \in msgs' : x.op = "OACK" => x.src # TftpRemotePort'
    BY <1>2, <2>3 DEF TransferInv, ProgressInv
  <2>9. TftpState' # "DATA" => TftpBlock' = 0
    BY <1>2 DEF TransferInv, ProgressInv
  <2> QED BY <2>4, <2>5, <2>6, <2>7, <2>8, <2>9 DEF ProgressInv
<1> QED BY <1>6, <1>9 DEF StoreInv, TransferInv

LEMMA StepTransfer ==
    NoWrap /\ NoLateOack /\ TransferInv /\ [Next]_vars => TransferInv'
<1> SUFFICES ASSUME NoWrap, NoLateOack, TransferInv, [Next]_vars
             PROVE  TransferInv'
  OBVIOUS
<1>1. StoreInv'
  BY StepStore, TransferIsStore
<1>2. CASE UNCHANGED vars
  BY <1>1, <1>2 DEF StoreInv, TransferInv, ProgressInv, BlockStored,
      SuccessIsWholeFile, WholeFile, vars, tftpVars, fileVars, loopVars
<1> QED BY <1>1, <1>2, ReceiveTransfer, ClientStepTransfer, ServerStepTransfer
    DEF Next

(* The invariant of a transfer: where every packet, session and stored     *)
(* block is, up to the return of NetLoop().                                *)
THEOREM TransferCorrect ==
    ASSUME NoWrap, NoLateOack
    PROVE  Spec => []TransferInv
<1>1. Init => TransferInv
  BY InitTransfer
<1>2. TransferInv /\ [Next]_vars => TransferInv'
  BY StepTransfer
<1> QED BY <1>1, <1>2, PTL DEF Spec

(* When tftp_complete() sets NETLOOP_SUCCESS, and when NetLoop() returns a *)
(* size, the whole file is in memory and the size is the file's.           *)
THEOREM CompleteIsWholeFile ==
    ASSUME NoWrap, NoLateOack
    PROVE  Spec => []SuccessIsWholeFile
<1>1. TransferInv => SuccessIsWholeFile
  BY DEF TransferInv
<1> QED BY <1>1, TransferCorrect, PTL

(* Every block the client has acknowledged, also by a retransmission of    *)
(* TftpTimeout(), is stored: the server will not send it again.            *)
THEOREM AcknowledgedStored ==
    ASSUME NoWrap, NoLateOack
    PROVE  Spec => []AcknowledgedIsStored
<1>1. TransferInv => AcknowledgedIsStored
  <2> SUFFICES ASSUME TransferInv, NEW m \in msgs, NEW p \in Ports,
                      m.op = "ACK", m.dst = p, m.block > 0
               PROVE  BlockStored(srv[p].size, m.block)
    BY DEF AcknowledgedIsStored
  <2>1. m \in Message
    BY DEF TransferInv, TypeOK
  <2>2. m.block >= 1
    BY <2>1, MessageFields
  <2> QED BY <2>2 DEF TransferInv, ProgressInv
<1> QED BY <1>1, TransferCorrect, PTL
=============================================================================
