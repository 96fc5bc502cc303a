----------------------------- MODULE TftpLemmas -----------------------------
(***************************************************************************)
(* Facts about blocks, memory and the sessions of the server that hold for *)
(* any file size, block sizes, ports and number of sequence numbers, and   *)
(* on which the proofs of TftpTransfer and of NetLoop rest.                *)
(***************************************************************************)
EXTENDS TftpFile, TLAPS

(* What the modules assume of their constants, in one place.               *)
LEMMA FileConstants ==
    /\ FileSize \in Nat /\ SeqSize \in Nat /\ SeqSize > 1
    /\ PlainSize \in Nat \ {0} /\ OackSizes \cup {PlainSize} \subseteq Nat \ {0}
    /\ Ports \subseteq Nat
  BY ServerConstants DEF ServerConstants

-----------------------------------------------------------------------------
(* Arithmetic of blocks.                                                   *)

(* Products of naturals, which the provers do not find by themselves.      *)
LEMMA MulNat == \A a, b \in Nat : a * b \in Nat
  BY SMT

LEMMA MulMono == \A a, b, c \in Nat : a <= b => a * c <= b * c
<1> SUFFICES ASSUME NEW a \in Nat, NEW b \in Nat, NEW c \in Nat, a <= b
             PROVE  a * c <= b * c
  OBVIOUS
<1>1. PICK d \in Nat : b = a + d
  <2>1. b - a \in Nat /\ b = a + (b - a)
    OBVIOUS
  <2> QED BY <2>1
<1>2. b * c = a * c + d * c
  BY <1>1
<1>3. d * c \in Nat /\ a * c \in Nat
  BY MulNat
<1> QED BY <1>2, <1>3

(* The first block starts at 0 and each block one block size further on.   *)
LEMMA BlockStep ==
    \A size \in Nat \ {0}, b \in Nat \ {0} :
        /\ BlockFirst(size, b) \in Nat
        /\ BlockFirst(size, 1) = 0
        /\ BlockFirst(size, b + 1) = BlockFirst(size, b) + size
<1> SUFFICES ASSUME NEW size \in Nat \ {0}, NEW b \in Nat \ {0}
             PROVE  /\ BlockFirst(size, b) \in Nat
                    /\ BlockFirst(size, 1) = 0
                    /\ BlockFirst(size, b + 1) = BlockFirst(size, b) + size
  OBVIOUS
<1>1. b - 1 \in Nat
  OBVIOUS
<1>2. (b - 1) * size \in Nat
  BY <1>1, MulNat
<1>3. (b + 1 - 1) * size = (b - 1) * size + size
  BY <1>1
<1> QED BY <1>2, <1>3 DEF BlockFirst

(* Later blocks start later.                                               *)
LEMMA BlockMono ==
    \A size \in Nat \ {0}, a, b \in Nat \ {0} :
        a <= b => BlockFirst(size, a) <= BlockFirst(size, b)
<1> SUFFICES ASSUME NEW size \in Nat \ {0}, NEW a \in Nat \ {0},
                    NEW b \in Nat \ {0}, a <= b
             PROVE  BlockFirst(size, a) <= BlockFirst(size, b)
  OBVIOUS
<1>1. a - 1 \in Nat /\ b - 1 \in Nat /\ a - 1 <= b - 1
  OBVIOUS
<1> QED BY <1>1, MulMono DEF BlockFirst

(* A block that starts within the file ends within it.                     *)
LEMMA BlockLenBounds ==
    \A size \in Nat \ {0}, b \in Nat \ {0} :
        BlockFirst(size, b) <= FileSize =>
            /\ BlockLen(size, b) \in Nat /\ BlockLen(size, b) <= size
            /\ BlockFirst(size, b) + BlockLen(size, b) <= FileSize
            /\ BlockLen(size, b) < size =>
                 BlockFirst(size, b) + BlockLen(size, b) = FileSize
<1> SUFFICES ASSUME NEW size \in Nat \ {0}, NEW b \in Nat \ {0},
                    BlockFirst(size, b) <= FileSize
             PROVE  /\ BlockLen(size, b) \in Nat /\ BlockLen(size, b) <= size
                    /\ BlockFirst(size, b) + BlockLen(size, b) <= FileSize
                    /\ BlockLen(size, b) < size =>
                         BlockFirst(size, b) + BlockLen(size, b) = FileSize
  OBVIOUS
<1>1. BlockFirst(size, b) \in Nat /\ FileSize \in Nat
  BY BlockStep, FileConstants
<1> QED BY <1>1 DEF BlockLen

(* Without wrap around a block number is the number of its block.          *)
LEMMA BlockNumber ==
    ASSUME NoWrap
    PROVE  \A size \in OackSizes \cup {PlainSize}, b \in Nat \ {0} :
               BlockFirst(size, b) <= FileSize => b % SeqSize = b
<1> SUFFICES ASSUME NEW size \in OackSizes \cup {PlainSize},
                    NEW b \in Nat \ {0}, BlockFirst(size, b) <= FileSize
             PROVE  b < SeqSize
  BY FileConstants
<1>1. size \in Nat \ {0}
  BY FileConstants
<1>2. SUFFICES ASSUME b >= SeqSize
               PROVE  FALSE
  BY FileConstants
<1>3. SeqSize - 1 \in Nat /\ b - 1 \in Nat /\ SeqSize - 1 <= b - 1
  BY <1>2, FileConstants
<1>4. (SeqSize - 1) * size <= (b - 1) * size
  BY <1>1, <1>3, MulMono
<1>5. FileSize < (SeqSize - 1) * size
  BY DEF NoWrap
<1>6. (SeqSize - 1) * size \in Nat /\ (b - 1) * size \in Nat
  BY <1>1, <1>3, MulNat
<1> QED BY <1>4, <1>5, <1>6, FileConstants DEF BlockFirst

-----------------------------------------------------------------------------
(* Memory.                                                                 *)

(* What a copy to memory leaves there.                                     *)
LEMMA CopyInFacts ==
    ASSUME NEW offset \in Nat, NEW first \in Nat, NEW len \in Nat,
           DOMAIN mem \subseteq Nat, NEW after, after = CopyIn(offset, first, len)
    PROVE  /\ after = [u \in DOMAIN after |-> after[u]]
           /\ DOMAIN after \subseteq Nat
           /\ \A u \in Nat : u \in DOMAIN after <=>
                  u \in DOMAIN mem \/ (offset <= u /\ u < offset + len)
           /\ \A u \in DOMAIN after :
                  after[u] = IF offset <= u /\ u < offset + len
                             THEN first + (u - offset) ELSE mem[u]
  BY DEF CopyIn

-----------------------------------------------------------------------------
(* Sessions.                                                               *)

(* What a step of the server does to the sessions.                         *)
LEMMA ServerFrame ==
    ASSUME srv \in [Ports -> Session], SessionInv, NEW p \in Ports, NEW m,
           \/ ServerOpen(p, m) \/ ServerRefuse(p, m) \/ ServerFail(p)
           \/ ServerNextBlock(p, m) \/ ServerFinish(p, m)
    PROVE  /\ \A q \in Ports : q # p => srv'[q] = srv[q]
           /\ srv'[p].st # "free"
           /\ srv[p].st # "free" => /\ srv'[p].size = srv[p].size
                                    /\ srv'[p].peer = srv[p].peer
           /\ srv'[p].blk >= srv[p].blk
<1>1. srv[p].blk \in Nat /\ (srv[p].st = "free" => srv[p].blk = 0)
  BY DEF Session, SessionInv
<1>2. CASE ServerOpen(p, m)
  BY <1>1, <1>2 DEF ServerOpen, NextPort
<1>3. CASE ServerRefuse(p, m)
  BY <1>1, <1>3 DEF ServerRefuse, NextPort, Session
<1>4. CASE ServerFail(p)
  BY <1>1, <1>4 DEF ServerFail, Session
<1>5. CASE ServerNextBlock(p, m)
  BY <1>1, <1>5 DEF ServerNextBlock, Session
<1>6. CASE ServerFinish(p, m)
  BY <1>1, <1>6 DEF ServerFinish, Session
<1> QED BY <1>2, <1>3, <1>4, <1>5, <1>6

(* A session goes on to a block that starts within the file.               *)
LEMMA ServerStep ==
    ASSUME srv \in [Ports -> Session], SessionInv, NEW p \in Ports,
           NEW m, m.src \in Nat,
           \/ ServerOpen(p, m) \/ ServerRefuse(p, m)
           \/ ServerNextBlock(p, m) \/ ServerFinish(p, m)
    PROVE  srv' \in [Ports -> Session] /\ SessionInv'
<1>1. CASE ServerOpen(p, m)
  <2>1. BlockFirst(PlainSize, 1) = 0 /\ 0 <= FileSize
    BY FileConstants, BlockStep
  <2>2. \A size \in OackSizes \cup {PlainSize} :
          /\ [st |-> "oack", size |-> size, blk |-> 0, peer |-> m.src] \in Session
          /\ [st |-> "data", size |-> size, blk |-> 1, peer |-> m.src] \in Session
    BY FileConstants DEF Session
  <2>3. CASE \E size \in OackSizes :
               srv' = [srv EXCEPT ![p] = [st |-> "oack", size |-> size,
                                          blk |-> 0, peer |-> m.src]]
    <3>1. PICK size \in OackSizes :
            srv' = [srv EXCEPT ![p] = [st |-> "oack", size |-> size,
                                       blk |-> 0, peer |-> m.src]]
      BY <2>3
    <3>2. srv' \in [Ports -> Session]
      BY <2>2, <3>1
    <3>3. /\ srv'[p].st = "oack" /\ srv'[p].size = size /\ srv'[p].blk = 0
          /\ \A q \in Ports \ {p} : srv'[q] = srv[q]
      BY <3>1
    <3> QED BY <3>2, <3>3 DEF SessionInv
  <2>4. CASE srv' = [srv EXCEPT ![p] = [st |-> "data", size |-> PlainSize,
                                        blk |-> 1, peer |-> m.src]]
    <3>1. srv' \in [Ports -> Session]
      BY <2>2, <2>4
    <3>2. /\ srv'[p].st = "data" /\ srv'[p].size = PlainSize /\ srv'[p].blk = 1
          /\ \A q \in Ports \ {p} : srv'[q] = srv[q]
      BY <2>4
    <3> QED BY <2>1, <3>1, <3>2 DEF SessionInv
  <2> QED BY <1>1, <2>3, <2>4 DEF ServerOpen
<1>2. CASE ServerRefuse(p, m)
  BY <1>2 DEF ServerRefuse, NextPort, Session, SessionInv
<1>3. CASE ServerFinish(p, m)
  BY <1>3 DEF ServerFinish, Session, SessionInv
<1>4. CASE ServerNextBlock(p, m)
  <2>1. srv[p].size \in Nat \ {0} /\ srv[p].blk \in Nat
    BY DEF Session
  <2>2. BlockFirst(srv[p].size, srv[p].blk + 1) <= FileSize
    <3>1. CASE srv[p].st = "oack"
      <4>1. srv[p].blk + 1 = 1
        BY <3>1 DEF SessionInv
      <4>2. BlockFirst(srv[p].size, 1) = 0
        BY <2>1, BlockStep
      <4> QED BY <4>1, <4>2, FileConstants
    <3>2. CASE srv[p].st = "data"
      <4>1. srv[p].blk \in Nat \ {0}
        BY <2>1, <3>2 DEF SessionInv
      <4>2. ~(BlockLen(srv[p].size, srv[p].blk) < srv[p].size)
        BY <1>4, <3>2 DEF ServerNextBlock, IsLastBlock
      <4>3. BlockFirst(srv[p].size, srv[p].blk) \in Nat
        BY <2>1, <4>1, BlockStep
      <4>4. FileSize - BlockFirst(srv[p].size, srv[p].blk) >= srv[p].size
        BY <2>1, <4>2, <4>3, FileConstants DEF BlockLen
      <4>5. BlockFirst(srv[p].size, srv[p].blk + 1)
              = BlockFirst(srv[p].size, srv[p].blk) + srv[p].size
        BY <2>1, <4>1, BlockStep
      <4> QED BY <2>1, <4>3, <4>4, <4>5, FileConstants
    <3> QED BY <1>4, <3>1, <3>2 DEF ServerNextBlock, ServerExpects
  <2>3. srv' = [srv EXCEPT ![p].st = "data", ![p].blk = @ + 1]
    BY <1>4 DEF ServerNextBlock
  <2> QED BY <2>1, <2>2, <2>3 DEF Session, SessionInv
<1> QED BY <1>1, <1>2, <1>3, <1>4

LEMMA ServerFailStep ==
    ASSUME srv \in [Ports -> Session], SessionInv, NEW p \in Ports,
           ServerFail(p)
    PROVE  srv' \in [Ports -> Session] /\ SessionInv'
  BY DEF ServerFail, Session, SessionInv

(* A block that the session has reached is in the file.                    *)
LEMMA BlockPlace ==
    ASSUME srv \in [Ports -> Session], SessionInv, NEW p \in Ports,
           NEW b \in 1 .. srv[p].blk, NEW size, size = srv[p].size
    PROVE  /\ b \in Nat \ {0} /\ b <= srv[p].blk /\ srv[p].blk \in Nat \ {0}
           /\ size \in OackSizes \cup {PlainSize} /\ size \in Nat \ {0}
           /\ BlockFirst(size, b) \in Nat /\ BlockLen(size, b) \in Nat
           /\ BlockFirst(size, b) <= BlockFirst(size, srv[p].blk)
           /\ BlockFirst(size, b) + BlockLen(size, b) <= FileSize
           /\ BlockLen(size, b) < size =>
                BlockFirst(size, b) + BlockLen(size, b) = FileSize
<1>1. b \in Nat \ {0} /\ srv[p].blk \in Nat \ {0} /\ b <= srv[p].blk
  BY DEF Session
<1>2. size \in OackSizes \cup {PlainSize} /\ size \in Nat \ {0}
  BY FileConstants DEF SessionInv
<1>3. BlockFirst(size, srv[p].blk) <= FileSize
  BY <1>1 DEF SessionInv
<1>4. BlockFirst(size, b) <= BlockFirst(size, srv[p].blk)
  BY <1>1, <1>2, BlockMono
<1>5. BlockFirst(size, b) \in Nat /\ BlockFirst(size, srv[p].blk) \in Nat
  BY <1>1, <1>2, BlockStep
<1>6. BlockFirst(size, b) <= FileSize
  BY <1>3, <1>4, <1>5, FileConstants
<1> QED BY <1>1, <1>2, <1>4, <1>5, <1>6, BlockLenBounds

(* The packet a session has outstanding carries its block.                 *)
LEMMA SessionPktPlace ==
    ASSUME NoWrap, NEW p, NEW s \in Session, s.st \in {"oack", "data"},
           s.size \in OackSizes \cup {PlainSize},
           s.st = "data" => s.blk >= 1 /\ BlockFirst(s.size, s.blk) <= FileSize
    PROVE  /\ SessionPkt(p, s).src = p /\ SessionPkt(p, s).dst = s.peer
           /\ \/ /\ SessionPkt(p, s).op = "OACK" /\ s.st = "oack"
                 /\ SessionPkt(p, s).blksize = s.size
              \/ /\ SessionPkt(p, s).op = "DATA" /\ s.st = "data"
                 /\ SessionPkt(p, s).block \in 1 .. s.blk
                 /\ SessionPkt(p, s).first = BlockFirst(s.size, SessionPkt(p, s).block)
                 /\ SessionPkt(p, s).len = BlockLen(s.size, SessionPkt(p, s).block)
<1>1. CASE s.st = "oack"
  BY <1>1 DEF SessionPkt
<1>2. CASE s.st = "data"
  <2>1. s.blk \in Nat \ {0} /\ BlockFirst(s.size, s.blk) <= FileSize
    BY <1>2 DEF Session
  <2>2. s.blk % SeqSize = s.blk
    BY <2>1, BlockNumber
  <2> QED BY <1>2, <2>1, <2>2 DEF SessionPkt
<1> QED BY <1>1, <1>2

(* The expected acknowledgement: when the block it is for and all before   *)
(* it are stored, all before the next one are.                             *)
LEMMA NextStored ==
    ASSUME srv \in [Ports -> Session], SessionInv, NEW p \in Ports, NEW m,
           ServerNextBlock(p, m),
           srv[p].st = "data" =>
             /\ \A u \in 0 .. (BlockFirst(srv[p].size, srv[p].blk) - 1) :
                    u \in DOMAIN mem
             /\ BlockStored(srv[p].size, srv[p].blk)
    PROVE  \A u \in 0 .. (BlockFirst(srv'[p].size, srv'[p].blk) - 1) :
               u \in DOMAIN mem
<1>1. /\ srv[p].blk \in Nat /\ srv[p].size \in Nat \ {0}
      /\ srv'[p].blk = srv[p].blk + 1 /\ srv'[p].size = srv[p].size
      /\ srv[p].size \in OackSizes \cup {PlainSize}
  BY DEF ServerNextBlock, Session, SessionInv
<1>2. CASE srv[p].st = "oack"
  <2>1. srv'[p].blk = 1
    BY <1>1, <1>2 DEF SessionInv
  <2>2. BlockFirst(srv'[p].size, 1) = 0
    BY <1>1, BlockStep
  <2> QED BY <2>1, <2>2
<1>3. CASE srv[p].st = "data"
  <2>1. srv[p].blk \in Nat \ {0} /\ BlockFirst(srv[p].size, srv[p].blk) <= FileSize
    BY <1>1, <1>3 DEF SessionInv
  <2>2. /\ BlockFirst(srv[p].size, srv[p].blk) \in Nat
        /\ BlockFirst(srv[p].size, srv[p].blk + 1)
             = BlockFirst(srv[p].size, srv[p].blk) + srv[p].size
    BY <1>1, <2>1, BlockStep
  <2>3. BlockLen(srv[p].size, srv[p].blk) = srv[p].size
    <3>1. ~(BlockLen(srv[p].size, srv[p].blk) < srv[p].size)
      BY <1>3 DEF ServerNextBlock, IsLastBlock
    <3>2. /\ BlockLen(srv[p].size, srv[p].blk) \in Nat
          /\ BlockLen(srv[p].size, srv[p].blk) <= srv[p].size
      BY <1>1, <2>1, BlockLenBounds
    <3> QED BY <1>1, <3>1, <3>2
  <2>4. \A u \in BlockFirst(srv[p].size, srv[p].blk) ..
                   (BlockFirst(srv[p].size, srv[p].blk) + srv[p].size - 1) :
          u \in DOMAIN mem
    BY <1>3, <2>3 DEF BlockStored
  <2>5. \A u \in 0 .. (BlockFirst(srv[p].size, srv[p].blk + 1) - 1) : u \in DOMAIN mem
    BY <1>1, <1>3, <2>2, <2>4
  <2> QED BY <1>1, <2>5
<1> QED BY <1>2, <1>3 DEF ServerNextBlock, ServerExpects

-----------------------------------------------------------------------------
(* store_block().                                                          *)

(* It puts the block of a DATA packet in its place in the file.            *)
LEMMA StoreAt ==
    ASSUME NEW m, m.block \in Nat \ {0}, m.first \in Nat, m.len \in Nat,
           TftpBlkSize \in Nat \ {0}, m.first = BlockFirst(TftpBlkSize, m.block),
           m.first + m.len <= FileSize,
           AwaitsFirstBlock \/ TftpBlockWrapOffset = 0,
           DOMAIN mem \subseteq Nat, StorageInv, TftpDataStore(m)
    PROVE  /\ StorageInv' /\ DOMAIN mem' \subseteq Nat
           /\ TftpBlockWrapOffset' = 0
           /\ \A u \in Nat : u \in DOMAIN mem' <=>
                  u \in DOMAIN mem \/ (m.first <= u /\ u < m.first + m.len)
           /\ NetBootFileXferSize' =
                IF NetBootFileXferSize < m.first + m.len THEN m.first + m.len
                                                         ELSE NetBootFileXferSize
<1>1. TftpBlockWrapOffset' = 0
  BY DEF TftpDataStore, WrapOffsetTaken, WrapOffsetAfter
<1>2. store_block(m.block - 1, m.first, m.len)
  BY DEF TftpDataStore
<1>3. (m.block - 1) * TftpBlkSize + TftpBlockWrapOffset' = m.first
  <2>1. (m.block - 1) * TftpBlkSize = m.first
    BY DEF BlockFirst
  <2> QED BY <1>1, <2>1
<1>4. /\ mem' = CopyIn(m.first, m.first, m.len)
      /\ NetBootFileXferSize' =
           IF NetBootFileXferSize < m.first + m.len THEN m.first + m.len
                                                    ELSE NetBootFileXferSize
  BY <1>2, <1>3 DEF store_block
<1>5. PICK after : after = CopyIn(m.first, m.first, m.len) /\ mem' = after
  BY <1>4
<1>6. /\ DOMAIN after \subseteq Nat
      /\ \A u \in Nat : u \in DOMAIN after <=>
             u \in DOMAIN mem \/ (m.first <= u /\ u < m.first + m.len)
      /\ \A u \in DOMAIN after :
             after[u] = IF m.first <= u /\ u < m.first + m.len
                        THEN m.first + (u - m.first) ELSE mem[u]
  BY <1>5, CopyInFacts, SMTT(20)
<1>7. \A u \in DOMAIN after : u < FileSize /\ after[u] = u
  BY <1>6, FileConstants DEF StorageInv, StoredIsFile
<1>8. StoredIsFile'
  BY <1>5, <1>7 DEF StoredIsFile
<1>9. NetBootFileXferSize' <= FileSize
  BY <1>4 DEF StorageInv
<1> QED BY <1>1, <1>4, <1>5, <1>6, <1>8, <1>9 DEF StorageInv

(* When all before the block are stored, the block and all before it are   *)
(* stored afterwards, and a short block leaves the whole file.             *)
LEMMA StoreProgress ==
    ASSUME NEW m, m.first \in Nat, m.len \in Nat,
           m.first + m.len <= FileSize,
           m.len < TftpBlkSize => m.first + m.len = FileSize,
           \A u \in 0 .. (m.first - 1) : u \in DOMAIN mem,
           DOMAIN mem \subseteq Nat, DOMAIN mem' \subseteq Nat, StorageInv',
           NetBootFileXferSize \in Nat,
           \A u \in Nat : u \in DOMAIN mem' <=>
               u \in DOMAIN mem \/ (m.first <= u /\ u < m.first + m.len),
           NetBootFileXferSize' =
             IF NetBootFileXferSize < m.first + m.len THEN m.first + m.len
                                                      ELSE NetBootFileXferSize
    PROVE  /\ DOMAIN mem \subseteq DOMAIN mem'
           /\ \A u \in 0 .. (m.first + m.len - 1) : u \in DOMAIN mem'
           /\ WholeFile => WholeFile'
           /\ m.len < TftpBlkSize => WholeFile'
<1>1. DOMAIN mem \subseteq DOMAIN mem'
  <2>1. \A u \in DOMAIN mem : u \in Nat
    OBVIOUS
  <2> QED BY <2>1
<1>2. \A u \in 0 .. (m.first + m.len - 1) : u \in DOMAIN mem'
  <2> SUFFICES ASSUME NEW u \in 0 .. (m.first + m.len - 1) PROVE u \in DOMAIN mem'
    OBVIOUS
  <2>1. CASE u < m.first
    BY <1>1, <2>1
  <2>2. CASE ~(u < m.first)
    BY <2>2
  <2> QED BY <2>1, <2>2
<1>3. DOMAIN mem' \subseteq 0 .. (FileSize - 1) /\ NetBootFileXferSize' <= FileSize
      /\ NetBootFileXferSize' \in Nat
  BY FileConstants DEF StorageInv, StoredIsFile
<1>4. WholeFile => WholeFile'
  <2> SUFFICES ASSUME WholeFile PROVE WholeFile'
    OBVIOUS
  <2>1. 0 .. (FileSize - 1) \subseteq DOMAIN mem'
    BY <1>1 DEF WholeFile
  <2>2. NetBootFileXferSize' = FileSize
    BY <1>3, FileConstants DEF WholeFile
  <2> QED BY <1>3, <2>1, <2>2 DEF WholeFile
<1>5. m.len < TftpBlkSize => WholeFile'
  <2> SUFFICES ASSUME m.first + m.len = FileSize PROVE WholeFile'
    OBVIOUS
  <2>1. 0 .. (FileSize - 1) \subseteq DOMAIN mem'
    BY <1>2
  <2>2. NetBootFileXferSize' = FileSize
    BY <1>3, FileConstants
  <2> QED BY <1>3, <2>1, <2>2 DEF WholeFile
<1> QED BY <1>1, <1>2, <1>4, <1>5
=============================================================================
