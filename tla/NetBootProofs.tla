---------------------------- MODULE NetBootProofs ----------------------------
(***************************************************************************)
(* That tftpboot enters the kernel with the whole file in memory, and that *)
(* it implements module Boot: through the whole stack, from the command to *)
(* the jump, with any number of commands one after the other, aborted or   *)
(* failed, late packets of earlier transfers, any hosts, and a network     *)
(* that loses frames.                                                      *)
(*                                                                         *)
(* The argument is that of TftpTransferProofs, for the sessions that the   *)
(* running transfer has opened, with two differences: the packets in       *)
(* flight are those of the two queues, and a queue keeps their order.      *)
(***************************************************************************)
EXTENDS NetLoopProofs, TftpLemmas

(* While tftpboot is in the loop.                                          *)
Loading == InLoop /\ proto = "TFTPGET"

(* The packets on their way to us, and our acknowledgements on theirs.     *)
Packets(q) == {f.pkt : f \in {g \in Frames(q) : g.type = "UDP"}}

Acks(q) == {f.pkt : f \in {g \in Frames(q) : g.type = "IP" /\ g.pkt.op = "ACK"}}

(* Sessions with the running transfer.  Those of earlier ones, which were  *)
(* aborted or failed, have another port for their peer.                    *)
Mine(p) == srv[p].st # "free" /\ srv[p].peer = TftpOurPort

(* Nothing of ping is on its way.                                          *)
NoPing ==
    /\ proto # "PING"
    /\ \A f \in Frames(inq) : f.type # "ECHO_REPLY"
    /\ \A f \in Frames(outq) : f.type = "IP" => f.pkt.op # "ECHO_REQUEST"

(* A packet of the server is one its session has sent.                     *)
PacketInv ==
    \A m \in Packets(inq) :
        /\ m.op \in {"OACK", "DATA"} =>
             /\ m.src \in Ports /\ srv[m.src].st # "free"
             /\ m.dst = srv[m.src].peer
        /\ m.op = "OACK" => m.blksize = srv[m.src].size
        /\ m.op = "DATA" =>
             /\ m.block \in 1 .. srv[m.src].blk
             /\ m.first = BlockFirst(srv[m.src].size, m.block)
             /\ m.len = BlockLen(srv[m.src].size, m.block)

(* The medium keeps the order of frames: no OACK comes after a DATA packet *)
(* of its session.                                                         *)
Ordered(q) ==
    \A i, j \in 1 .. Len(q) :
        (/\ i < j /\ q[i].type = "UDP" /\ q[j].type = "UDP"
         /\ q[i].pkt.op = "DATA" /\ q[j].pkt.op = "OACK")
            => q[i].pkt.src # q[j].pkt.src

(* Acknowledgements of the running transfer go to one session only, so     *)
(* that its others are still at their first packet.                        *)
LockInv ==
    /\ TftpState \in {"SEND_RRQ", "OACK", "DATA"}
    /\ \A m \in Acks(outq) : m.src = TftpOurPort =>
         TftpState # "SEND_RRQ" /\ m.dst = TftpRemotePort
    /\ TftpState # "SEND_RRQ" =>
         /\ TftpRemotePort \in Ports /\ Mine(TftpRemotePort)
         /\ TftpBlkSize = srv[TftpRemotePort].size
    /\ TftpState = "SEND_RRQ" =>
         /\ TftpBlkSize = PlainSize
         /\ \A p \in Ports : Mine(p) /\ srv[p].blk >= 1 => srv[p].size = PlainSize
    /\ TftpState = "DATA" => TftpBlockWrapOffset = 0

(* Everything before the block a session has out is stored, and so is      *)
(* every block that was acknowledged or will be when the timer expires.    *)
ProgressInv ==
    /\ \A p \in Ports : Mine(p) /\ srv[p].blk >= 1 =>
         \A u \in 0 .. (BlockFirst(srv[p].size, srv[p].blk) - 1) :
             u \in DOMAIN mem
    /\ \A p \in Ports : Mine(p) /\ srv[p].blk >= 2 =>
         TftpState = "DATA" /\ TftpRemotePort = p
    /\ \A m \in Acks(outq) : (m.src = TftpOurPort /\ m.block # 0) =>
         TftpState = "DATA" /\ BlockStored(srv[m.dst].size, m.block)
    /\ TftpState = "DATA" =>
         /\ TftpBlock \in Nat \ {0} /\ TftpLastBlock = TftpBlock
         /\ BlockStored(srv[TftpRemotePort].size, TftpBlock)
         /\ srv[TftpRemotePort].blk >= 1
         /\ \A m \in Packets(inq) : m.op = "OACK" => m.src # TftpRemotePort
    /\ TftpState # "DATA" => TftpBlock = 0

(* What was stored since the command was given.                            *)
MemoryInv ==
    /\ DOMAIN mem \subseteq Nat /\ StorageInv
    /\ net_state = "SUCCESS" => WholeFile

(* What do_tftpboot() jumps to.                                            *)
KernelInv == pc = "kernel" => StoredIsFile /\ WholeFile /\ result = FileSize

(* The inductive invariant.                                                *)
BootInv ==
    /\ LoopInv /\ NoPing /\ SessionInv /\ PacketInv /\ Ordered(inq)
    /\ Loading => LockInv /\ ProgressInv /\ MemoryInv
    /\ KernelInv

-----------------------------------------------------------------------------
(* Packets in queues.                                                      *)

LEMMA InPackets ==
    ASSUME NEW q, NEW f \in Frames(q)
    PROVE  /\ f.type = "UDP" => f.pkt \in Packets(q)
           /\ (f.type = "IP" /\ f.pkt.op = "ACK") => f.pkt \in Acks(q)
  BY DEF Packets, Acks

(* The packets when at most one frame has been added.                      *)
LEMMA PacketsAdded ==
    ASSUME NEW a, NEW b, NEW f, Frames(b) \subseteq Frames(a) \cup {f}
    PROVE  /\ \A m \in Packets(b) : m \in Packets(a) \/ (f.type = "UDP" /\ m = f.pkt)
           /\ \A m \in Acks(b) :
                \/ m \in Acks(a)
                \/ f.type = "IP" /\ m = f.pkt /\ m.op = "ACK"
  BY DEF Packets, Acks

LEMMA PacketsKept ==
    ASSUME NEW a, NEW b, Frames(b) \subseteq Frames(a)
    PROVE  Packets(b) \subseteq Packets(a) /\ Acks(b) \subseteq Acks(a)
  BY DEF Packets, Acks

LEMMA SentFrames ==
    ASSUME LoopInv, NEW f, NetSendPacket(f)
    PROVE  Frames(outq') \subseteq Frames(outq) \cup {f}
  BY Appended DEF NetSendPacket, LoopInv, NetworkInv, OutQueue

(* A frame that is delivered leaves the queue ordered unless it is an OACK *)
(* behind a DATA packet of its session.                                    *)
LEMMA DeliveredFrames ==
    ASSUME LoopInv, NEW f, Deliver(f)
    PROVE  /\ Frames(inq') \subseteq Frames(inq) \cup {f}
           /\ (/\ Ordered(inq)
               /\ (f.type = "UDP" /\ f.pkt.op = "OACK") =>
                    \A m \in Packets(inq) : m.op = "DATA" => m.src # f.pkt.src)
              => Ordered(inq')
<1>1. inq \in Seq(Frames(inq))
  BY DEF LoopInv, NetworkInv, InQueue
<1>2. CASE inq' = inq
  BY <1>2
<1>3. CASE inq' = Append(inq, f)
  <2>1. /\ Len(inq') = Len(inq) + 1 /\ Len(inq) \in Nat
        /\ Frames(inq') = Frames(inq) \cup {f}
        /\ inq'[Len(inq) + 1] = f
        /\ \A i \in 1 .. Len(inq) : inq'[i] = inq[i]
    BY <1>1, <1>3, Appended
  <2>2. ASSUME Ordered(inq),
               (f.type = "UDP" /\ f.pkt.op = "OACK") =>
                 \A m \in Packets(inq) : m.op = "DATA" => m.src # f.pkt.src
        PROVE  Ordered(inq')
    <3> SUFFICES ASSUME NEW i \in 1 .. Len(inq'), NEW j \in 1 .. Len(inq'), i < j,
                        inq'[i].type = "UDP", inq'[j].type = "UDP",
                        inq'[i].pkt.op = "DATA", inq'[j].pkt.op = "OACK"
                 PROVE  inq'[i].pkt.src # inq'[j].pkt.src
      BY DEF Ordered
    <3>1. i \in 1 .. Len(inq) /\ inq'[i] = inq[i]
      BY <2>1
    <3>2. CASE j \in 1 .. Len(inq)
      <4>1. inq'[j] = inq[j]
        BY <2>1, <3>2
      <4> QED BY <2>2, <3>1, <3>2, <4>1 DEF Ordered
    <3>3. CASE j = Len(inq) + 1
      <4>1. inq'[j] = f
        BY <2>1, <3>3
      <4>2. inq[i] \in Frames(inq)
        BY <1>1, <3>1 DEF Frames
      <4>3. inq[i].pkt \in Packets(inq)
        BY <3>1, <4>2, InPackets
      <4> QED BY <2>2, <3>1, <4>1, <4>3
    <3> QED BY <2>1, <3>2, <3>3
  <2> QED BY <2>1, <2>2
<1> QED BY <1>2, <1>3 DEF Deliver

(* The first frame of the queue is taken: no OACK of its session is behind *)
(* a DATA packet.                                                          *)
LEMMA TakenFrames ==
    ASSUME LoopInv, inq # <<>>, inq' = Tail(inq), Ordered(inq)
    PROVE  /\ Frames(inq') \subseteq Frames(inq) /\ Head(inq) \in Frames(inq)
           /\ Ordered(inq')
           /\ (Head(inq).type = "UDP" /\ Head(inq).pkt.op = "DATA") =>
                \A m \in Packets(inq') : m.op = "OACK" => m.src # Head(inq).pkt.src
<1>1. /\ inq' \in Seq(Frames(inq'))
      /\ Len(inq') = Len(inq) - 1 /\ Len(inq) \in Nat \ {0}
      /\ Frames(inq') \subseteq Frames(inq) /\ Head(inq) \in Frames(inq)
      /\ \A i \in 1 .. (Len(inq) - 1) : inq'[i] = inq[i + 1]
      /\ Head(inq) = inq[1]
  BY Taken DEF LoopInv, NetworkInv, InQueue
<1>2. Ordered(inq')
  <2> SUFFICES ASSUME NEW i \in 1 .. Len(inq'), NEW j \in 1 .. Len(inq'), i < j,
                      inq'[i].type = "UDP", inq'[j].type = "UDP",
                      inq'[i].pkt.op = "DATA", inq'[j].pkt.op = "OACK"
               PROVE  inq'[i].pkt.src # inq'[j].pkt.src
    BY DEF Ordered
  <2>1. /\ i + 1 \in 1 .. Len(inq) /\ j + 1 \in 1 .. Len(inq) /\ i + 1 < j + 1
        /\ inq'[i] = inq[i + 1] /\ inq'[j] = inq[j + 1]
    BY <1>1
  <2> QED BY <2>1 DEF Ordered
<1>3. ASSUME Head(inq).type = "UDP", Head(inq).pkt.op = "DATA",
             NEW m \in Packets(inq'), m.op = "OACK"
      PROVE  m.src # Head(inq).pkt.src
  <2>1. PICK g \in Frames(inq') : g.type = "UDP" /\ m = g.pkt
    BY DEF Packets
  <2>2. PICK i \in DOMAIN inq' : g = inq'[i]
    BY DEF Frames
  <2>3. DOMAIN inq' = 1 .. Len(inq')
    BY <1>1
  <2>4. /\ i + 1 \in 1 .. Len(inq) /\ 1 \in 1 .. Len(inq) /\ 1 < i + 1
        /\ g = inq[i + 1]
    BY <1>1, <2>2, <2>3
  <2> QED BY <1>1, <1>3, <2>1, <2>4 DEF Ordered
<1> QED BY <1>1, <1>2, <1>3

-----------------------------------------------------------------------------
(* The initial state and the commands.                                     *)

LEMMA InitBoot == Init => BootInv
<1> SUFFICES ASSUME Init PROVE BootInv
  OBVIOUS
<1>1. LoopInv
  BY InitLoop
<1>2. pc = "shell" /\ proto = "none" /\ inq = <<>> /\ outq = <<>>
  BY DEF Init, ArpInit
<1>3. NoPing
  BY <1>2, EmptyQueue DEF NoPing
<1>4. SessionInv
  BY DEF Init, ServerInit, FreeSession, SessionInv
<1>5. PacketInv /\ Ordered(inq)
  BY <1>2, EmptyQueue DEF PacketInv, Packets, Ordered
<1>6. ~Loading /\ KernelInv
  BY <1>2 DEF Loading, InLoop, KernelInv
<1> QED BY <1>1, <1>3, <1>4, <1>5, <1>6 DEF BootInv

(* The port of a command is new: no session and no acknowledgement on its  *)
(* way is the new transfer's.                                              *)
LEMMA BootTftpboot ==
    ASSUME BootInv, LoopInv', do_tftpboot
    PROVE  BootInv'
<1>1. /\ pc' = "rx" /\ commands \in Nat /\ net_state' = "CONTINUE"
      /\ proto' = "TFTPGET" /\ NetBootFileXferSize' = 0 /\ mem' = EmptyMem
      /\ TftpState' = "SEND_RRQ" /\ TftpOurPort' = 1024 + commands
      /\ TftpBlock' = 0 /\ TftpBlkSize' = TFTP_BLOCK_SIZE
      /\ inq' = inq /\ srv' = srv
  BY DEF do_tftpboot, GiveCommand, TftpStart, NetSetTimeout, hostVars, BootInv,
      LoopInv, ControlInv
<1>2. NetSendPacket([type |-> "ARPREQ", ip |-> NextHop(ServerIP)])
  BY DEF do_tftpboot, NetSendUDPPacket, ArpRequest
<1>3. Frames(outq') \subseteq Frames(outq) \cup {[type |-> "ARPREQ", ip |-> NextHop(ServerIP)]}
  BY <1>2, SentFrames DEF BootInv
<1>4. \A f \in Frames(outq') : f \in Frames(outq) \/ f.type # "IP"
  BY <1>3
<1>5. NoPing'
  BY <1>1, <1>4 DEF BootInv, NoPing
<1>6. SessionInv' /\ PacketInv' /\ Ordered(inq')
  BY <1>1 DEF BootInv, SessionInv, PacketInv
<1>7. KnownPorts \subseteq 0 .. (1023 + commands)
  BY DEF KnownPorts
<1>8. \A p \in Ports : ~Mine(p)'
  BY <1>1, <1>7 DEF Mine, BootInv, LoopInv, NetworkInv, Sessions
<1>9. \A m \in Acks(outq') : m.src # TftpOurPort'
  <2> SUFFICES ASSUME NEW m \in Acks(outq') PROVE m.src # TftpOurPort'
    OBVIOUS
  <2>1. PICK f \in Frames(outq) : f.type = "IP" /\ f.pkt.op = "ACK" /\ m = f.pkt
    BY <1>4 DEF Acks
  <2>2. m.src \in KnownPorts
    BY <2>1 DEF BootInv, LoopInv, NetworkInv, OutQueue, GoodOut
  <2> QED BY <1>1, <1>7, <2>2
<1>10. LockInv'
  BY <1>1, <1>8, <1>9, LoopConstants DEF LockInv, LoopConstants
<1>11. ProgressInv'
  BY <1>1, <1>8, <1>9 DEF ProgressInv
<1>12. MemoryInv'
  BY <1>1, FileConstants DEF MemoryInv, EmptyMem, StorageInv, StoredIsFile
<1>13. KernelInv'
  BY <1>1 DEF KernelInv
<1> QED BY <1>5, <1>6, <1>10, <1>11, <1>12, <1>13 DEF BootInv

-----------------------------------------------------------------------------
(* Steps of the loop that neither store nor acknowledge anything new.      *)

LEMMA BootStays ==
    ASSUME BootInv, LoopInv',
           UNCHANGED <<srv, TftpState, TftpRemotePort, TftpOurPort, TftpBlock,
                       TftpLastBlock, TftpBlockWrapOffset, TftpBlkSize>>,
           UNCHANGED <<mem, NetBootFileXferSize, proto>>,
           net_state' = "SUCCESS" => net_state = "SUCCESS",
           Frames(inq') \subseteq Frames(inq), Ordered(inq'),
           NEW g, Frames(outq') \subseteq Frames(outq) \cup {g},
           g.type = "IP" => g.pkt = TftpSend \/ g.pkt.op = "RRQ",
           Loading' => Loading, KernelInv'
    PROVE  BootInv'
<1>1. Packets(inq') \subseteq Packets(inq)
  BY PacketsKept
<1>2. NoPing'
  <2>1. TftpSend.op # "ECHO_REQUEST"
    BY DEF TftpSend
  <2> QED BY <2>1 DEF BootInv, NoPing
<1>3. PacketInv' /\ SessionInv'
  BY <1>1 DEF BootInv, PacketInv, SessionInv
<1>4. \A m \in Acks(outq') : m \in Acks(outq) \/ (m = TftpSend /\ m.op = "ACK")
  BY PacketsAdded
<1>5. \A m : (m = TftpSend /\ m.op = "ACK") =>
        /\ m.dst = TftpRemotePort /\ m.src = TftpOurPort
        /\ m.block = TftpBlock /\ TftpState # "SEND_RRQ"
  BY DEF TftpSend
<1>6. \A p \in Ports : Mine(p)' <=> Mine(p)
  BY DEF Mine
<1>7. ASSUME Loading
      PROVE  LockInv' /\ ProgressInv' /\ MemoryInv'
  <2>1. LockInv /\ ProgressInv /\ MemoryInv
    BY <1>7 DEF BootInv
  <2>2. LockInv'
    BY <1>4, <1>5, <1>6, <2>1 DEF LockInv
  <2>3. \A m \in Acks(outq') : (m.src = TftpOurPort /\ m.block # 0) =>
          TftpState = "DATA" /\ BlockStored(srv[m.dst].size, m.block)
    BY <1>4, <1>5, <2>1 DEF ProgressInv
  <2>4. ProgressInv'
    BY <1>1, <1>6, <2>1, <2>3 DEF ProgressInv, BlockStored
  <2>5. MemoryInv'
    BY <2>1 DEF MemoryInv, StorageInv, StoredIsFile, WholeFile
  <2> QED BY <2>2, <2>4, <2>5
<1> QED BY <1>2, <1>3, <1>7 DEF BootInv

LEMMA OnlyTftpboot ==
    ASSUME BootInv, InLoop
    PROVE  proto = "TFTPGET" /\ Loading
  BY DEF BootInv, NoPing, LoopInv, ControlInv, Loading

(* Frames that are no packet for the transfer.                             *)
LEMMA BootRx ==
    ASSUME BootInv, LoopInv', NEW f,
           RxArp(f) \/ RxEchoReply(f) \/ RxEchoRequest(f) \/ RxUdpDropped(f)
    PROVE  BootInv'
<1>1. /\ Received(f) /\ pc = "rx" /\ pc' = pc /\ inq # <<>> /\ inq' = Tail(inq)
      /\ f = Head(inq)
  BY DEF RxArp, RxEchoReply, RxEchoRequest, RxUdpDropped, Received
<1>2. /\ Frames(inq') \subseteq Frames(inq) /\ Ordered(inq') /\ f \in Frames(inq)
  BY <1>1, TakenFrames DEF BootInv
<1>3. ~RxEchoReply(f)
  BY <1>2 DEF RxEchoReply, BootInv, NoPing
<1>4. /\ UNCHANGED <<srv, TftpState, TftpRemotePort, TftpOurPort, TftpBlock,
                     TftpLastBlock, TftpBlockWrapOffset, TftpBlkSize>>
      /\ UNCHANGED <<mem, NetBootFileXferSize, proto>>
      /\ net_state' = net_state
  BY <1>3 DEF RxArp, RxEchoRequest, RxUdpDropped, loopVars, tftpVars, fileVars,
      cmdVars, hostVars
<1>5. InLoop /\ Loading
  BY <1>1, OnlyTftpboot DEF InLoop
<1>6. KernelInv'
  BY <1>1 DEF KernelInv
<1>7. PICK g : /\ Frames(outq') \subseteq Frames(outq) \cup {g}
               /\ g.type = "IP" => g.pkt = TftpSend \/ g.pkt.op = "RRQ"
  <2>1. CASE \E ip : NetSendPacket([type |-> "ARPREP", ip |-> ip])
                     \/ NetSendPacket([type |-> "ECHO_REPLY", ip |-> ip])
    <3>1. PICK g : g.type # "IP" /\ NetSendPacket(g)
      BY <2>1
    <3> QED BY <3>1, SentFrames DEF BootInv
  <2>2. CASE outq' = outq
    <3> DEFINE g == [type |-> "ARPREP"]
    <3>1. g.type # "IP" /\ Frames(outq') \subseteq Frames(outq) \cup {g}
      BY <2>2
    <3> QED BY <3>1
  <2>3. CASE RxArp(f) /\ ArpReceiveReply(f)
    <3>1. TftpWaits
      BY <1>5, <2>3 DEF ArpReceiveReply, ArpAwaits, BootInv, LoopInv, ArpInv,
          Asking, Loading
    <3>2. NetTxPacket'.pkt = NetTxPacket.pkt
      <4>1. NetTxPacket' = [NetTxPacket EXCEPT !.dst = f.sha]
        BY <2>3 DEF ArpReceiveReply
      <4>2. NetTxPacket = [dst |-> NetTxPacket.dst, ip |-> NetTxPacket.ip,
                           pkt |-> NetTxPacket.pkt]
        BY DEF BootInv, LoopInv, ArpInv
      <4> QED BY <4>1, <4>2
    <3>3. PICK g : g = PacketFrame(NetTxPacket', NetArpWaitTxPacketSize)
      OBVIOUS
    <3>4. g.pkt.op = "RRQ"
      BY <3>1, <3>2, <3>3 DEF PacketFrame, TftpWaits, Waits
    <3>5. Frames(outq') \subseteq Frames(outq) \cup {g}
      BY <2>3, <3>3, SentFrames DEF ArpReceiveReply, BootInv
    <3> QED BY <3>4, <3>5
  <2> QED BY <1>3, <2>1, <2>2, <2>3
      DEF RxArp, ArpReceiveRequest, ArpIgnoreReply, RxEchoRequest, RxUdpDropped
<1> QED BY <1>2, <1>4, <1>5, <1>6, <1>7, BootStays

(* The phases of an iteration, and time that passes.                       *)
LEMMA BootPhase ==
    ASSUME BootInv, LoopInv',
           \/ RxDone \/ KbdNothing \/ ArpNotExpired \/ TimerNotExpired
           \/ SwitchContinue \/ TimerTftpGiveUp \/ TimerPing
           \/ TimerExpires \/ ArpTimerExpires
    PROVE  BootInv'
<1> DEFINE g == [type |-> "none"]
<1>1. InLoop /\ pc' \in {pc, "kbd", "arp", "timer", "switch", "rx"}
  BY DEF RxDone, KbdNothing, ArpNotExpired, TimerNotExpired, SwitchContinue,
      TimerTftpGiveUp, TimerPing, TimerExpires, ArpTimerExpires, InLoop
<1>2. /\ UNCHANGED <<srv, TftpState, TftpRemotePort, TftpOurPort, TftpBlock,
                     TftpLastBlock, TftpBlockWrapOffset, TftpBlkSize>>
      /\ UNCHANGED <<mem, NetBootFileXferSize, proto>>
      /\ net_state' \in {net_state, "FAIL"}
      /\ UNCHANGED <<inq, outq>>
  BY DEF RxDone, KbdNothing, ArpNotExpired, TimerNotExpired, SwitchContinue,
      TimerTftpGiveUp, TftpTimeoutGiveUp, TimerPing, TimerExpires,
      ArpTimerExpires, loopVars, tftpVars, fileVars, cmdVars, hostVars
<1>3. Loading /\ KernelInv' /\ Ordered(inq')
  BY <1>1, <1>2, OnlyTftpboot DEF KernelInv, InLoop, BootInv
<1>4. g.type # "IP" /\ Frames(outq') \subseteq Frames(outq) \cup {g}
  BY <1>2
<1> HIDE DEF g
<1> QED BY <1>2, <1>3, <1>4, BootStays

(* ArpTimeoutCheck() asks again.                                           *)
LEMMA BootArpExpired ==
    ASSUME BootInv, LoopInv', ArpExpired
    PROVE  BootInv'
<1>1. /\ InLoop /\ pc' = "timer"
      /\ UNCHANGED <<srv, TftpState, TftpRemotePort, TftpOurPort, TftpBlock,
                     TftpLastBlock, TftpBlockWrapOffset, TftpBlkSize>>
      /\ UNCHANGED <<mem, NetBootFileXferSize, proto, net_state, inq>>
  BY DEF ArpExpired, InLoop, loopVars, tftpVars, fileVars, cmdVars, hostVars
<1>2. Loading /\ KernelInv' /\ Ordered(inq')
  BY <1>1, OnlyTftpboot DEF KernelInv, BootInv
<1>3. PICK g : g.type # "IP" /\ Frames(outq') \subseteq Frames(outq) \cup {g}
  <2>1. PICK g : g.type = "ARPREQ" /\ (NetSendPacket(g) \/ outq' = outq)
    BY DEF ArpExpired, ArpTimeoutAsk, ArpTimeoutLimit, ArpRequest
  <2> QED BY <2>1, SentFrames DEF BootInv
<1> QED BY <1>1, <1>2, <1>3, BootStays

(* TftpTimeout() sends again what was sent last.                           *)
LEMMA BootRetry ==
    ASSUME BootInv, LoopInv', TimerTftpRetry
    PROVE  BootInv'
<1>1. /\ InLoop /\ pc' = "switch"
      /\ UNCHANGED <<srv, TftpState, TftpRemotePort, TftpOurPort, TftpBlock,
                     TftpLastBlock, TftpBlockWrapOffset, TftpBlkSize>>
      /\ UNCHANGED <<mem, NetBootFileXferSize, proto, net_state, inq>>
  BY DEF TimerTftpRetry, TftpTimeoutRetry, InLoop, fileVars, cmdVars, hostVars
<1>2. Loading /\ KernelInv' /\ Ordered(inq')
  BY <1>1, OnlyTftpboot DEF KernelInv, BootInv
<1>3. TftpSend' = TftpSend
  BY <1>1 DEF TftpSend
<1>4. PICK g : /\ Frames(outq') \subseteq Frames(outq) \cup {g}
               /\ g.type = "IP" => g.pkt = TftpSend
  <2>1. PICK g : NetSendPacket(g) /\ (g.type = "IP" => g.pkt = TftpSend)
    <3>1. NetSendUDPPacket(NetServerEther, ServerIP, TftpSend')
      BY DEF TimerTftpRetry
    <3>2. CASE NetServerEther = "0"
      BY <3>1, <3>2 DEF NetSendUDPPacket, ArpRequest
    <3>3. CASE NetServerEther # "0"
      <4>1. NetSendPacket(PacketFrame(NetTxPacket', TftpSend'.op))
            /\ NetTxPacket'.pkt = TftpSend'
        BY <3>1, <3>3 DEF NetSendUDPPacket
      <4>2. PacketFrame(NetTxPacket', TftpSend'.op).pkt = TftpSend
        BY <1>3, <4>1 DEF PacketFrame
      <4> QED BY <4>1, <4>2
    <3> QED BY <3>2, <3>3
  <2> QED BY <2>1, SentFrames DEF BootInv
<1> QED BY <1>1, <1>2, <1>4, BootStays

(* NetLoop() returns: a size only when the transfer has succeeded.         *)
LEMMA BootReturn ==
    ASSUME BootInv, LoopInv', KbdAbort \/ SwitchReturn
    PROVE  BootInv'
<1> DEFINE g == [type |-> "none"]
<1>1. /\ InLoop /\ pc' \in {"shell", "kernel"}
      /\ UNCHANGED <<srv, TftpState, TftpRemotePort, TftpOurPort, TftpBlock,
                     TftpLastBlock, TftpBlockWrapOffset, TftpBlkSize>>
      /\ UNCHANGED <<mem, NetBootFileXferSize, proto, net_state>>
      /\ UNCHANGED <<inq, outq>>
  BY DEF KbdAbort, SwitchReturn, Return, InLoop, tftpVars, fileVars, hostVars
<1>2. Loading
  BY <1>1, OnlyTftpboot
<1>3. Ordered(inq') /\ ~Loading'
  BY <1>1 DEF BootInv, Loading, InLoop
<1>4. KernelInv'
  <2> SUFFICES ASSUME pc' = "kernel" PROVE (StoredIsFile /\ WholeFile /\ result = FileSize)'
    BY DEF KernelInv
  <2>1. net_state = "SUCCESS" /\ result' = NetBootFileXferSize
    BY DEF KbdAbort, SwitchReturn, Return
  <2>2. StoredIsFile /\ WholeFile
    BY <1>2, <2>1 DEF BootInv, MemoryInv, StorageInv
  <2> QED BY <1>1, <2>1, <2>2 DEF StoredIsFile, WholeFile
<1>5. g.type # "IP" /\ Frames(outq') \subseteq Frames(outq) \cup {g}
  BY <1>1
<1> HIDE DEF g
<1> QED BY <1>1, <1>3, <1>4, <1>5, BootStays

-----------------------------------------------------------------------------
(* TftpHandler().                                                          *)

(* What the running transfer takes comes from a session of its own: the    *)
(* one it has acknowledged, or one that is still at its first packet.      *)
LEMMA LoadedPacket ==
    ASSUME BootInv, Loading, NEW m \in Packets(inq), TftpAccepts(m),
           m.op \in {"OACK", "DATA"}
    PROVE  /\ m.src \in Ports /\ Mine(m.src)
           /\ TftpState # "SEND_RRQ" => m.src = TftpRemotePort
           /\ m.op = "OACK" => TftpState # "DATA" /\ m.blksize = srv[m.src].size
           /\ m.op = "DATA" =>
                /\ m.block \in 1 .. srv[m.src].blk
                /\ TftpBlkSize = srv[m.src].size
                /\ m.first = BlockFirst(TftpBlkSize, m.block)
                /\ m.len = BlockLen(TftpBlkSize, m.block)
                /\ AwaitsFirstBlock => m.block = 1
<1>1. /\ m.src \in Ports /\ Mine(m.src)
      /\ TftpState # "SEND_RRQ" => m.src = TftpRemotePort
  BY DEF BootInv, PacketInv, TftpAccepts, Mine
<1>2. m.op = "OACK" => TftpState # "DATA" /\ m.blksize = srv[m.src].size
  BY <1>1 DEF BootInv, PacketInv, ProgressInv
<1>3. ASSUME m.op = "DATA"
      PROVE  /\ m.block \in 1 .. srv[m.src].blk
             /\ TftpBlkSize = srv[m.src].size
             /\ m.first = BlockFirst(TftpBlkSize, m.block)
             /\ m.len = BlockLen(TftpBlkSize, m.block)
             /\ AwaitsFirstBlock => m.block = 1
  <2>1. /\ m.block \in 1 .. srv[m.src].blk
        /\ m.first = BlockFirst(srv[m.src].size, m.block)
        /\ m.len = BlockLen(srv[m.src].size, m.block)
    BY <1>3 DEF BootInv, PacketInv
  <2>2. srv[m.src].blk \in Nat
    BY <1>1 DEF BootInv, LoopInv, NetworkInv, Sessions, Session
  <2>3. TftpBlkSize = srv[m.src].size
    BY <1>1, <2>1, <2>2 DEF BootInv, LockInv
  <2>4. AwaitsFirstBlock => m.block = 1
    BY <1>1, <2>1, <2>2 DEF BootInv, ProgressInv, AwaitsFirstBlock
  <2> QED BY <2>1, <2>3, <2>4
<1> QED BY <1>1, <1>2, <1>3

(* A step of the handler that stays with the session it has acknowledged,  *)
(* acknowledges only what is stored, and takes a first block only when no  *)
(* OACK of that session is on its way.                                     *)
LEMMA BootTakes ==
    ASSUME BootInv, LoopInv', Loading, UNCHANGED <<pc, proto, srv, TftpOurPort>>,
           Frames(inq') \subseteq Frames(inq), Ordered(inq'),
           NEW g, Frames(outq') \subseteq Frames(outq) \cup {g},
           g.type = "IP" => g.pkt = TftpSend',
           DOMAIN mem \subseteq DOMAIN mem', MemoryInv',
           TftpState' \in {"SEND_RRQ", "OACK", "DATA"},
           TftpState # "SEND_RRQ" =>
             TftpState' # "SEND_RRQ" /\ TftpRemotePort' = TftpRemotePort,
           TftpState' # "SEND_RRQ" =>
             /\ TftpRemotePort' \in Ports /\ Mine(TftpRemotePort')
             /\ TftpBlkSize' = srv[TftpRemotePort'].size,
           TftpState' = "SEND_RRQ" => TftpBlkSize' = TftpBlkSize,
           TftpState = "DATA" => TftpState' = "DATA",
           TftpState' = "DATA" =>
             /\ TftpBlockWrapOffset' = 0
             /\ TftpBlock' \in Nat \ {0} /\ TftpLastBlock' = TftpBlock'
             /\ BlockStored(srv[TftpRemotePort].size, TftpBlock)'
             /\ srv[TftpRemotePort'].blk >= 1
             /\ \A x \in Packets(inq') : x.op = "OACK" => x.src # TftpRemotePort',
           TftpState' # "DATA" => TftpBlock' = 0
    PROVE  BootInv'
<1>1. LockInv /\ ProgressInv
  BY DEF BootInv
<1>2. Packets(inq') \subseteq Packets(inq)
  BY PacketsKept
<1>3. \A x \in Acks(outq') : x \in Acks(outq) \/ (x = TftpSend' /\ x.op = "ACK")
  BY PacketsAdded
<1>4. TftpSend'.op # "ECHO_REQUEST"
      /\ (TftpSend'.op = "ACK" =>
            /\ TftpState' # "SEND_RRQ"
            /\ TftpSend'.dst = TftpRemotePort' /\ TftpSend'.block = TftpBlock')
  BY DEF TftpSend
<1>5. NoPing'
  BY <1>4 DEF BootInv, NoPing
<1>6. PacketInv' /\ SessionInv'
  BY <1>2 DEF BootInv, PacketInv, SessionInv
<1>7. \A p \in Ports : Mine(p)' <=> Mine(p)
  BY DEF Mine
<1>8. LockInv'
  <2>1. \A x \in Acks(outq') : x.src = TftpOurPort' =>
          TftpState' # "SEND_RRQ" /\ x.dst = TftpRemotePort'
    BY <1>1, <1>3, <1>4 DEF LockInv
  <2>2. TftpState' # "SEND_RRQ" =>
          /\ TftpRemotePort' \in Ports
          /\ srv'[TftpRemotePort'].st # "free"
          /\ srv'[TftpRemotePort'].peer = TftpOurPort'
          /\ TftpBlkSize' = srv'[TftpRemotePort'].size
    BY DEF Mine
  <2>3. TftpState' = "SEND_RRQ" =>
          /\ TftpBlkSize' = PlainSize
          /\ \A p \in Ports : Mine(p)' /\ srv'[p].blk >= 1 => srv'[p].size = PlainSize
    BY <1>1, <1>7 DEF LockInv
  <2> QED BY <2>1, <2>2, <2>3 DEF LockInv, Mine
<1>9. ProgressInv'
  <2>1. \A p \in Ports : Mine(p)' /\ srv'[p].blk >= 1 =>
          \A u \in 0 .. (BlockFirst(srv'[p].size, srv'[p].blk) - 1) :
              u \in DOMAIN mem'
    BY <1>1, <1>7 DEF ProgressInv
  <2>2. \A p \in Ports : Mine(p)' /\ srv'[p].blk >= 2 =>
          TftpState' = "DATA" /\ TftpRemotePort' = p
    BY <1>1, <1>7 DEF ProgressInv
  <2>3. \A x \in Acks(outq') : (x.src = TftpOurPort' /\ x.block # 0) =>
          TftpState' = "DATA" /\ BlockStored(srv[x.dst].size, x.block)'
    <3> SUFFICES ASSUME NEW x \in Acks(outq'), x.src = TftpOurPort', x.block # 0
                 PROVE  TftpState' = "DATA" /\ BlockStored(srv[x.dst].size, x.block)'
      OBVIOUS
    <3>1. CASE x \in Acks(outq)
      BY <1>1, <3>1 DEF ProgressInv, BlockStored
    <3>2. CASE x = TftpSend' /\ x.op = "ACK"
      BY <1>4, <3>2
    <3> QED BY <1>3, <3>1, <3>2
  <2> QED BY <2>1, <2>2, <2>3 DEF ProgressInv
<1>10. KernelInv'
  BY DEF KernelInv, Loading, InLoop
<1> QED BY <1>5, <1>6, <1>8, <1>9, <1>10 DEF BootInv

(* A DATA packet is stored where it belongs in the file.                   *)
LEMMA StoredHere ==
    ASSUME BootInv, Loading, NEW m \in Packets(inq), TftpAccepts(m),
           m.op = "DATA", TftpDataStore(m), srv' = srv
    PROVE  /\ DOMAIN mem \subseteq DOMAIN mem'
           /\ MemoryInv'
           /\ TftpBlockWrapOffset' = 0
           /\ m.block \in Nat \ {0}
           /\ BlockStored(srv[m.src].size, m.block)'
           /\ srv[m.src].blk >= 1
<1>1. /\ m.src \in Ports /\ Mine(m.src)
      /\ m.block \in 1 .. srv[m.src].blk
      /\ TftpBlkSize = srv[m.src].size
      /\ m.first = BlockFirst(TftpBlkSize, m.block)
      /\ m.len = BlockLen(TftpBlkSize, m.block)
  BY LoadedPacket
<1>2. srv \in [Ports -> Session] /\ SessionInv
  BY DEF BootInv, LoopInv, NetworkInv, Sessions
<1>3. /\ m.block \in Nat \ {0} /\ srv[m.src].blk \in Nat \ {0}
      /\ TftpBlkSize \in Nat \ {0}
      /\ m.first \in Nat /\ m.len \in Nat /\ m.first + m.len <= FileSize
      /\ m.first <= BlockFirst(TftpBlkSize, srv[m.src].blk)
      /\ m.len < TftpBlkSize => m.first + m.len = FileSize
  BY <1>1, <1>2, BlockPlace
<1>4. /\ DOMAIN mem \subseteq Nat /\ StorageInv /\ NetBootFileXferSize \in Nat
      /\ AwaitsFirstBlock \/ TftpBlockWrapOffset = 0
  BY DEF BootInv, MemoryInv, LockInv, AwaitsFirstBlock, LoopInv, TransferTypes
<1>5. /\ StorageInv' /\ DOMAIN mem' \subseteq Nat
      /\ TftpBlockWrapOffset' = 0
      /\ \A u \in Nat : u \in DOMAIN mem' <=>
             u \in DOMAIN mem \/ (m.first <= u /\ u < m.first + m.len)
      /\ NetBootFileXferSize' =
           IF NetBootFileXferSize < m.first + m.len THEN m.first + m.len
                                                    ELSE NetBootFileXferSize
  BY <1>1, <1>3, <1>4, StoreAt
<1>6. \A u \in 0 .. (m.first - 1) : u \in DOMAIN mem
  <2>1. \A u \in 0 .. (BlockFirst(TftpBlkSize, srv[m.src].blk) - 1) : u \in DOMAIN mem
    BY <1>1, <1>3 DEF BootInv, ProgressInv
  <2>2. BlockFirst(TftpBlkSize, srv[m.src].blk) \in Nat
    BY <1>3, BlockStep
  <2> QED BY <1>3, <2>1, <2>2
<1>7. /\ DOMAIN mem \subseteq DOMAIN mem'
      /\ \A u \in 0 .. (m.first + m.len - 1) : u \in DOMAIN mem'
      /\ WholeFile => WholeFile'
      /\ m.len < TftpBlkSize => WholeFile'
  BY <1>3, <1>4, <1>5, <1>6, StoreProgress
<1>8. net_state' = IF m.len < TftpBlkSize THEN "SUCCESS" ELSE net_state
  BY DEF TftpDataStore, IsFinalBlock
<1>9. MemoryInv'
  BY <1>5, <1>7, <1>8 DEF BootInv, MemoryInv
<1>10. BlockStored(srv[m.src].size, m.block)'
  <2>1. \A u \in m.first .. (m.first + m.len - 1) : u \in DOMAIN mem'
    BY <1>3, <1>7
  <2> QED BY <1>1, <2>1 DEF BlockStored
<1> QED BY <1>3, <1>5, <1>7, <1>9, <1>10

LEMMA BootHandler ==
    ASSUME BootInv, LoopInv', NEW f, RxUdpSends(f) \/ RxUdpSilent(f)
    PROVE  BootInv'
<1> DEFINE m == f.pkt
<1>1. /\ Received(f) /\ f.type = "UDP" /\ pc = "rx" /\ inq # <<>> /\ inq' = Tail(inq)
      /\ f = Head(inq) /\ udp_packet_handler = "TftpHandler"
      /\ UNCHANGED <<pc, proto, srv>>
  BY DEF RxUdpSends, RxUdpSilent, Received, cmdVars, TftpHandlerSends, hostVars
<1>2. /\ TftpAccepts(m) /\ m.dst = TftpOurPort
      /\ \/ RxUdpSends(f) /\ m.op = "OACK" /\ TftpOack(m)
         \/ RxUdpSends(f) /\ m.op = "DATA" /\ TftpDataStore(m)
         \/ RxUdpSilent(f) /\ m.op = "DATA" /\ (TftpDataNotFirst(m) \/ TftpDataSame(m))
         \/ RxUdpSilent(f) /\ m.op = "ERROR" /\ TftpError(m)
  BY DEF RxUdpSends, RxUdpSilent, TftpHandlerSends, TftpHandlerSilent, TftpAccepts
<1>3. /\ Frames(inq') \subseteq Frames(inq) /\ f \in Frames(inq) /\ Ordered(inq')
      /\ m.op = "DATA" => \A x \in Packets(inq') : x.op = "OACK" => x.src # m.src
  BY <1>1, TakenFrames DEF BootInv
<1>4. m \in Packets(inq)
  BY <1>1, <1>3, InPackets
<1>5. Loading /\ ~Asking /\ NetServerEther # "0"
  <2>1. InLoop /\ proto = "TFTPGET" /\ ~Asking
    BY <1>1, <1>2, NotAsking DEF BootInv
  <2> QED BY <2>1 DEF Loading, Asking
<1> HIDE DEF m
<1>6. PICK g : /\ Frames(outq') \subseteq Frames(outq) \cup {g}
               /\ g.type = "IP" => g.pkt = TftpSend'
  <2>1. CASE RxUdpSends(f)
    <3>1. NetSendPacket(PacketFrame(NetTxPacket', TftpSend'.op))
          /\ NetTxPacket'.pkt = TftpSend'
      BY <1>5, <2>1 DEF RxUdpSends, NetSendUDPPacket
    <3>2. PacketFrame(NetTxPacket', TftpSend'.op).pkt = TftpSend'
      BY <3>1 DEF PacketFrame
    <3>3. PICK g : g.pkt = TftpSend' /\ NetSendPacket(g)
      BY <3>1, <3>2
    <3> QED BY <3>3, SentFrames DEF BootInv
  <2>2. CASE RxUdpSilent(f)
    <3> DEFINE g == [type |-> "none"]
    <3>1. g.type # "IP" /\ Frames(outq') \subseteq Frames(outq) \cup {g}
      BY <2>2 DEF RxUdpSilent
    <3> QED BY <3>1
  <2> QED BY <1>2, <2>1, <2>2
<1>7. LockInv /\ ProgressInv /\ MemoryInv
  BY <1>5 DEF BootInv
<1>8. m.op \in {"OACK", "DATA"} =>
        /\ m.src \in Ports /\ Mine(m.src)
        /\ TftpState # "SEND_RRQ" => m.src = TftpRemotePort
        /\ m.op = "OACK" => TftpState # "DATA" /\ m.blksize = srv[m.src].size
        /\ m.op = "DATA" => /\ m.block \in 1 .. srv[m.src].blk
                            /\ TftpBlkSize = srv[m.src].size
                            /\ AwaitsFirstBlock => m.block = 1
  BY <1>2, <1>4, <1>5, LoadedPacket
<1>9. CASE m.op = "DATA" /\ TftpDataStore(m)
  <2>1. /\ DOMAIN mem \subseteq DOMAIN mem' /\ MemoryInv'
        /\ TftpBlockWrapOffset' = 0 /\ m.block \in Nat \ {0}
        /\ BlockStored(srv[m.src].size, m.block)'
        /\ srv[m.src].blk >= 1
    BY <1>1, <1>2, <1>4, <1>5, <1>9, StoredHere
  <2>2. /\ TftpState' = "DATA" /\ TftpRemotePort' = m.src
        /\ TftpBlock' = m.block /\ TftpLastBlock' = m.block
        /\ TftpOurPort' = TftpOurPort /\ TftpBlkSize' = TftpBlkSize
    BY <1>7, <1>8, <1>9
    DEF TftpDataStore, update_block_number, AwaitsFirstBlock, LockInv
  <2>3. BlockStored(srv[TftpRemotePort].size, TftpBlock)'
    BY <1>1, <2>1, <2>2 DEF BlockStored
  <2>4. \A x \in Packets(inq') : x.op = "OACK" => x.src # TftpRemotePort'
    BY <1>3, <1>9, <2>2
  <2> QED BY <1>1, <1>3, <1>5, <1>6, <1>8, <1>9, <2>1, <2>2, <2>3, <2>4, BootTakes
<1>10. CASE ~(m.op = "DATA" /\ TftpDataStore(m))
  <2>1. mem' = mem /\ NetBootFileXferSize' = NetBootFileXferSize
        /\ net_state' \in {net_state, "FAIL"} /\ TftpOurPort' = TftpOurPort
    BY <1>2, <1>10 DEF TftpDataSame, TftpDataNotFirst, TftpOack, TftpError,
        fileVars, loopVars, tftpVars
  <2>2. MemoryInv'
    BY <1>7, <2>1 DEF MemoryInv, StorageInv, StoredIsFile, WholeFile
  <2>3. ~(m.op = "DATA" /\ TftpDataNotFirst(m))
    BY <1>8 DEF TftpDataNotFirst
  <2>4. /\ TftpBlock' = TftpBlock /\ TftpLastBlock' = TftpLastBlock
        /\ \/ UNCHANGED <<TftpState, TftpRemotePort, TftpBlkSize, TftpBlockWrapOffset>>
           \/ /\ TftpState' = "OACK" /\ TftpState # "DATA"
              /\ m.src \in Ports /\ Mine(m.src)
              /\ TftpState # "SEND_RRQ" => m.src = TftpRemotePort
              /\ TftpRemotePort' = m.src /\ TftpBlkSize' = srv[m.src].size
    <3>1. CASE m.op = "OACK" /\ TftpOack(m)
      BY <1>8, <3>1 DEF TftpOack
    <3>2. CASE m.op = "DATA" /\ TftpDataSame(m)
      <4>1. TftpState = "DATA" /\ TftpBlock = TftpLastBlock /\ m.block # 0
        BY <1>7, <1>8, <3>2 DEF TftpDataSame, AwaitsFirstBlock, LockInv, ProgressInv
      <4> QED BY <3>2, <4>1 DEF TftpDataSame, update_block_number, WrapOffsetAfter
    <3>3. CASE m.op = "ERROR" /\ TftpError(m)
      BY <3>3 DEF TftpError, tftpVars
    <3> QED BY <1>2, <1>10, <2>3, <3>1, <3>2, <3>3
  <2>5. TftpState' = "DATA" =>
          /\ TftpState = "DATA" /\ TftpRemotePort' = TftpRemotePort
          /\ TftpBlockWrapOffset' = 0
          /\ TftpBlock' \in Nat \ {0} /\ TftpLastBlock' = TftpBlock'
          /\ BlockStored(srv[TftpRemotePort].size, TftpBlock)'
          /\ srv[TftpRemotePort'].blk >= 1
          /\ \A x \in Packets(inq') : x.op = "OACK" => x.src # TftpRemotePort'
    <3> SUFFICES ASSUME TftpState' = "DATA"
                 PROVE  /\ TftpState = "DATA" /\ TftpRemotePort' = TftpRemotePort
                        /\ TftpBlockWrapOffset' = 0
                        /\ TftpBlock' \in Nat \ {0} /\ TftpLastBlock' = TftpBlock'
                        /\ BlockStored(srv[TftpRemotePort].size, TftpBlock)'
                        /\ srv[TftpRemotePort'].blk >= 1
                        /\ \A x \in Packets(inq') : x.op = "OACK" =>
                               x.src # TftpRemotePort'
      OBVIOUS
    <3>1. UNCHANGED <<TftpState, TftpRemotePort, TftpBlockWrapOffset>>
      BY <2>4
    <3>2. Packets(inq') \subseteq Packets(inq)
      BY <1>3, PacketsKept
    <3>3. BlockStored(srv[TftpRemotePort].size, TftpBlock)'
      BY <1>1, <1>7, <2>1, <2>4, <3>1 DEF ProgressInv, BlockStored
    <3> QED BY <1>7, <2>4, <3>1, <3>2, <3>3 DEF LockInv, ProgressInv
  <2>6. /\ TftpState' \in {"SEND_RRQ", "OACK", "DATA"}
        /\ TftpState # "SEND_RRQ" =>
             TftpState' # "SEND_RRQ" /\ TftpRemotePort' = TftpRemotePort
        /\ TftpState' # "SEND_RRQ" =>
             /\ TftpRemotePort' \in Ports /\ Mine(TftpRemotePort')
             /\ TftpBlkSize' = srv[TftpRemotePort'].size
        /\ TftpState' = "SEND_RRQ" => TftpBlkSize' = TftpBlkSize
        /\ TftpState = "DATA" => TftpState' = "DATA"
        /\ TftpState' # "DATA" => TftpBlock' = 0
    BY <1>7, <2>4 DEF LockInv, ProgressInv
  <2> QED BY <1>1, <1>3, <1>5, <1>6, <2>1, <2>2, <2>5, <2>6, BootTakes
<1> QED BY <1>9, <1>10

-----------------------------------------------------------------------------
(* The medium and the hosts.                                               *)

(* They change nothing of the client's.                                    *)
LEMMA ClientSame ==
    ASSUME UNCHANGED clientVars
    PROVE  /\ UNCHANGED <<pc, proto, result, net_state, mem, NetBootFileXferSize>>
           /\ UNCHANGED <<TftpState, TftpRemotePort, TftpOurPort, TftpBlock>>
           /\ UNCHANGED <<TftpLastBlock, TftpBlockWrapOffset, TftpBlkSize>>
  BY DEF clientVars, loopVars, tftpVars, fileVars, cmdVars

(* What stays of the client's part.                                        *)
LEMMA ClientKeeps ==
    ASSUME UNCHANGED clientVars
    PROVE  /\ KernelInv => KernelInv'
           /\ MemoryInv => MemoryInv'
           /\ Loading' <=> Loading
<1>1. /\ UNCHANGED <<pc, proto, result, net_state, mem, NetBootFileXferSize>>
  BY ClientSame
<1>2. /\ StoredIsFile => StoredIsFile'
      /\ WholeFile => WholeFile'
  BY <1>1 DEF StoredIsFile, WholeFile
<1> QED BY <1>1, <1>2 DEF KernelInv, MemoryInv, StorageInv, Loading, InLoop

(* Session p has a new packet out, or the old one again, or gives up.      *)
LEMMA BootSession ==
    ASSUME NoWrap, BootInv, LoopInv', SessionInv', UNCHANGED clientVars,
           NEW p \in Ports,
           \A q \in Ports : q # p => srv'[q] = srv[q],
           srv'[p].st # "free",
           srv[p].st # "free" =>
             srv'[p].size = srv[p].size /\ srv'[p].peer = srv[p].peer,
           srv'[p].blk >= srv[p].blk,
           (Loading /\ srv'[p].peer = TftpOurPort) =>
             \/ srv[p].st # "free" /\ srv'[p].blk = srv[p].blk
             \/ /\ srv[p].st = "free" /\ srv'[p].blk <= 1
                /\ srv'[p].blk = 1 => srv'[p].size = PlainSize
             \/ /\ srv[p].st # "free" /\ TftpState # "SEND_RRQ"
                /\ \A u \in 0 .. (BlockFirst(srv'[p].size, srv'[p].blk) - 1) :
                       u \in DOMAIN mem
                /\ srv'[p].blk >= 2 => TftpState = "DATA" /\ TftpRemotePort = p,
           Frames(outq') \subseteq Frames(outq),
           NEW f, Deliver(f) \/ inq' = inq, f.type = "UDP",
           \/ f.pkt.op = "ERROR"
           \/ f.pkt = SessionPkt(p, srv'[p]) /\ srv'[p].st \in {"oack", "data"}
    PROVE  BootInv'
<1>1. /\ UNCHANGED <<pc, proto, result, net_state, mem, NetBootFileXferSize>>
      /\ UNCHANGED <<TftpState, TftpRemotePort, TftpOurPort, TftpBlock>>
      /\ UNCHANGED <<TftpLastBlock, TftpBlockWrapOffset, TftpBlkSize>>
  BY ClientSame
<1>2. /\ srv \in [Ports -> Session] /\ srv' \in [Ports -> Session]
      /\ \A q \in Ports : srv[q].blk \in Nat /\ srv'[q].blk \in Nat
      /\ \A q \in Ports : srv'[q].blk >= srv[q].blk
      /\ \A q \in Ports : srv[q].st # "free" =>
           /\ srv'[q].st # "free"
           /\ srv'[q].size = srv[q].size /\ srv'[q].peer = srv[q].peer
  BY DEF BootInv, LoopInv, NetworkInv, Sessions, Session
<1>3. \/ f.pkt.op = "ERROR"
      \/ /\ f.pkt.src = p /\ f.pkt.dst = srv'[p].peer
         /\ \/ /\ f.pkt.op = "OACK" /\ srv'[p].st = "oack"
               /\ f.pkt.blksize = srv'[p].size
            \/ /\ f.pkt.op = "DATA"
               /\ f.pkt.block \in 1 .. srv'[p].blk
               /\ f.pkt.first = BlockFirst(srv'[p].size, f.pkt.block)
               /\ f.pkt.len = BlockLen(srv'[p].size, f.pkt.block)
  <2> SUFFICES ASSUME f.pkt = SessionPkt(p, srv'[p]), srv'[p].st \in {"oack", "data"}
               PROVE  /\ f.pkt.src = p /\ f.pkt.dst = srv'[p].peer
                      /\ \/ /\ f.pkt.op = "OACK" /\ srv'[p].st = "oack"
                            /\ f.pkt.blksize = srv'[p].size
                         \/ /\ f.pkt.op = "DATA"
                            /\ f.pkt.block \in 1 .. srv'[p].blk
                            /\ f.pkt.first = BlockFirst(srv'[p].size, f.pkt.block)
                            /\ f.pkt.len = BlockLen(srv'[p].size, f.pkt.block)
    OBVIOUS
  <2> DEFINE s == srv'[p]
  <2>1. /\ s \in Session /\ s.st \in {"oack", "data"}
        /\ s.size \in OackSizes \cup {PlainSize}
        /\ s.st = "data" => s.blk >= 1 /\ BlockFirst(s.size, s.blk) <= FileSize
    BY <1>2 DEF SessionInv
  <2> HIDE DEF s
  <2>2. /\ SessionPkt(p, s).src = p /\ SessionPkt(p, s).dst = s.peer
        /\ \/ /\ SessionPkt(p, s).op = "OACK" /\ s.st = "oack"
              /\ SessionPkt(p, s).blksize = s.size
           \/ /\ SessionPkt(p, s).op = "DATA" /\ s.st = "data"
              /\ SessionPkt(p, s).block \in 1 .. s.blk
              /\ SessionPkt(p, s).first = BlockFirst(s.size, SessionPkt(p, s).block)
              /\ SessionPkt(p, s).len = BlockLen(s.size, SessionPkt(p, s).block)
    BY <2>1, SessionPktPlace
  <2> QED BY <2>2 DEF s
<1>4. \A m \in Packets(inq) : m.op = "DATA" => m.src \in Ports /\ srv[m.src].blk >= 1
  BY <1>2 DEF BootInv, PacketInv
<1>5. f.pkt.op = "OACK" => srv[p].blk = 0
  BY <1>2, <1>3 DEF SessionInv
<1>6. Frames(inq') \subseteq Frames(inq) \cup {f} /\ Ordered(inq')
  <2>1. f.pkt.op = "OACK" => \A m \in Packets(inq) : m.op = "DATA" => m.src # f.pkt.src
    BY <1>3, <1>4, <1>5
  <2> QED BY <2>1, DeliveredFrames DEF BootInv
<1>7. \A m \in Packets(inq') : m \in Packets(inq) \/ m = f.pkt
  BY <1>6, PacketsAdded
<1>8. Acks(outq') \subseteq Acks(outq)
  BY PacketsKept
<1>9. NoPing'
  BY <1>1, <1>6 DEF BootInv, NoPing
<1>10. PacketInv'
  <2> SUFFICES ASSUME NEW m \in Packets(inq')
               PROVE  /\ m.op \in {"OACK", "DATA"} =>
                           /\ m.src \in Ports /\ srv'[m.src].st # "free"
                           /\ m.dst = srv'[m.src].peer
                      /\ m.op = "OACK" => m.blksize = srv'[m.src].size
                      /\ m.op = "DATA" =>
                           /\ m.block \in 1 .. srv'[m.src].blk
                           /\ m.first = BlockFirst(srv'[m.src].size, m.block)
                           /\ m.len = BlockLen(srv'[m.src].size, m.block)
    BY DEF PacketInv
  <2>1. CASE m \in Packets(inq)
    BY <1>2, <2>1 DEF BootInv, PacketInv
  <2>2. CASE m = f.pkt
    BY <1>3, <2>2
  <2> QED BY <1>7, <2>1, <2>2
<1>11. ASSUME Loading
       PROVE  LockInv' /\ ProgressInv'
  <2>1. LockInv /\ ProgressInv
    BY <1>11 DEF BootInv
  <2>2. TftpState # "SEND_RRQ" =>
          /\ TftpRemotePort \in Ports /\ srv'[TftpRemotePort].st # "free"
          /\ srv'[TftpRemotePort].peer = TftpOurPort
          /\ srv'[TftpRemotePort].size = srv[TftpRemotePort].size
    BY <1>2, <2>1 DEF LockInv, Mine
  <2>3. ASSUME NEW q \in Ports, Mine(q)', srv'[q].blk >= 1
        PROVE  /\ \A u \in 0 .. (BlockFirst(srv'[q].size, srv'[q].blk) - 1) :
                      u \in DOMAIN mem
               /\ srv'[q].blk >= 2 => TftpState = "DATA" /\ TftpRemotePort = q
               /\ TftpState = "SEND_RRQ" => srv'[q].size = PlainSize
    <3>1. CASE srv[q].st # "free" /\ srv'[q].blk = srv[q].blk
      BY <1>1, <1>2, <2>1, <2>3, <3>1 DEF LockInv, ProgressInv, Mine
    <3>2. CASE q = p /\ srv[p].st = "free" /\ srv'[p].blk <= 1
               /\ (srv'[p].blk = 1 => srv'[p].size = PlainSize)
      <4>1. srv'[p].blk = 1 /\ srv'[p].size = PlainSize
        BY <1>2, <2>3, <3>2
      <4>2. BlockFirst(PlainSize, 1) = 0
        BY FileConstants, BlockStep
      <4> QED BY <3>2, <4>1, <4>2
    <3>3. CASE q # p
      <4>1. srv'[q] = srv[q]
        BY <3>3
      <4> QED BY <1>1, <2>1, <2>3, <4>1 DEF LockInv, ProgressInv, Mine
    <3>4. q = p => srv'[p].peer = TftpOurPort
      BY <1>1, <2>3 DEF Mine
    <3> QED BY <1>11, <3>1, <3>2, <3>3, <3>4
  <2>4. LockInv'
    <3>1. TftpState = "SEND_RRQ" =>
            \A q \in Ports : Mine(q)' /\ srv'[q].blk >= 1 => srv'[q].size = PlainSize
      BY <2>3
    <3> QED BY <1>1, <1>8, <2>1, <2>2, <3>1 DEF LockInv, Mine
  <2>5. \A m \in Acks(outq') : (m.src = TftpOurPort /\ m.block # 0) =>
          TftpState = "DATA" /\ BlockStored(srv[m.dst].size, m.block)'
    <3> SUFFICES ASSUME NEW m \in Acks(outq), m.src = TftpOurPort, m.block # 0
                 PROVE  TftpState = "DATA" /\ BlockStored(srv[m.dst].size, m.block)'
      BY <1>8
    <3>1. TftpState = "DATA" /\ m.dst = TftpRemotePort
          /\ BlockStored(srv[m.dst].size, m.block)
      BY <2>1 DEF LockInv, ProgressInv
    <3> QED BY <1>1, <2>2, <3>1 DEF BlockStored
  <2>6. TftpState = "DATA" =>
          /\ TftpBlock \in Nat \ {0} /\ TftpLastBlock = TftpBlock
          /\ BlockStored(srv[TftpRemotePort].size, TftpBlock)'
          /\ srv'[TftpRemotePort].blk >= 1
          /\ \A m \in Packets(inq') : m.op = "OACK" => m.src # TftpRemotePort
    <3> SUFFICES ASSUME TftpState = "DATA"
                 PROVE  /\ BlockStored(srv[TftpRemotePort].size, TftpBlock)'
                        /\ srv'[TftpRemotePort].blk >= 1
                        /\ \A m \in Packets(inq') : m.op = "OACK" =>
                               m.src # TftpRemotePort
      BY <2>1 DEF ProgressInv
    <3>1. BlockStored(srv[TftpRemotePort].size, TftpBlock)'
      BY <1>1, <2>1, <2>2 DEF ProgressInv, BlockStored
    <3>2. srv[TftpRemotePort].blk >= 1 /\ srv'[TftpRemotePort].blk >= 1
      BY <1>2, <2>1, <2>2 DEF ProgressInv
    <3>3. \A m \in Packets(inq') : m.op = "OACK" => m.src # TftpRemotePort
      BY <1>3, <1>5, <1>7, <2>1, <3>2 DEF ProgressInv
    <3> QED BY <3>1, <3>2, <3>3
  <2>7. ProgressInv'
    <3>1. \A q \in Ports : Mine(q)' /\ srv'[q].blk >= 1 =>
            \A u \in 0 .. (BlockFirst(srv'[q].size, srv'[q].blk) - 1) :
                u \in DOMAIN mem'
      BY <1>1, <2>3
    <3>2. \A q \in Ports : Mine(q)' /\ srv'[q].blk >= 2 =>
            TftpState' = "DATA" /\ TftpRemotePort' = q
      BY <1>1, <1>2, <2>3
    <3> QED BY <1>1, <2>1, <2>5, <2>6, <3>1, <3>2 DEF ProgressInv
  <2> QED BY <2>4, <2>7
<1> QED BY <1>6, <1>9, <1>10, <1>11, ClientKeeps DEF BootInv

(* Steps of the medium and the hosts that leave the sessions alone.        *)
LEMMA BootHost ==
    ASSUME BootInv, LoopInv', UNCHANGED <<clientVars, srv>>,
           Frames(outq') \subseteq Frames(outq),
           \/ Frames(inq') \subseteq Frames(inq) /\ Ordered(inq')
           \/ \E f : Deliver(f) /\ f.type \notin {"UDP", "ECHO_REPLY"}
    PROVE  BootInv'
<1>1. UNCHANGED clientVars
  OBVIOUS
<1>2. PICK f : /\ f.type \notin {"UDP", "ECHO_REPLY"}
               /\ Frames(inq') \subseteq Frames(inq) \cup {f}
               /\ Ordered(inq')
  <2>1. CASE Frames(inq') \subseteq Frames(inq) /\ Ordered(inq')
    <3> DEFINE f == [type |-> "none"]
    <3>1. f.type \notin {"UDP", "ECHO_REPLY"}
      OBVIOUS
    <3> QED BY <2>1, <3>1
  <2>2. CASE \E f : Deliver(f) /\ f.type \notin {"UDP", "ECHO_REPLY"}
    BY <2>2, DeliveredFrames DEF BootInv
  <2> QED BY <2>1, <2>2
<1>3. Packets(inq') \subseteq Packets(inq) /\ Acks(outq') \subseteq Acks(outq)
  <2>1. \A m \in Packets(inq') : m \in Packets(inq)
    BY <1>2, PacketsAdded
  <2>2. Acks(outq') \subseteq Acks(outq)
    BY PacketsKept
  <2> QED BY <2>1, <2>2
<1>4. /\ UNCHANGED <<pc, proto, result, net_state, mem, NetBootFileXferSize>>
      /\ UNCHANGED <<TftpState, TftpRemotePort, TftpOurPort, TftpBlock>>
      /\ UNCHANGED <<TftpLastBlock, TftpBlockWrapOffset, TftpBlkSize>>
  BY <1>1, ClientSame
<1>5. NoPing'
  BY <1>2, <1>4 DEF BootInv, NoPing
<1>6. SessionInv' /\ PacketInv'
  BY <1>3 DEF BootInv, SessionInv, PacketInv
<1>7. \A p \in Ports : Mine(p)' <=> Mine(p)
  BY <1>4 DEF Mine
<1>8. ASSUME Loading PROVE LockInv' /\ ProgressInv'
  <2>1. LockInv /\ ProgressInv
    BY <1>8 DEF BootInv
  <2>2. LockInv'
    BY <1>3, <1>4, <1>7, <2>1 DEF LockInv
  <2>3. ProgressInv'
    BY <1>3, <1>4, <1>7, <2>1 DEF ProgressInv, BlockStored
  <2> QED BY <2>2, <2>3
<1> QED BY <1>1, <1>2, <1>5, <1>6, <1>8, ClientKeeps DEF BootInv

LEMMA SentBoot ==
    ASSUME BootInv, NEW f, Sent(f)
    PROVE  /\ Frames(outq') \subseteq Frames(outq) /\ f \in Frames(outq)
           /\ f.type = "IP" => f.pkt.op # "ECHO_REQUEST"
<1>1. Frames(outq') \subseteq Frames(outq) /\ f \in Frames(outq)
  BY Taken DEF Sent, BootInv, LoopInv, NetworkInv, OutQueue
<1> QED BY <1>1 DEF BootInv, NoPing

LEMMA BootQuiet ==
    ASSUME BootInv, LoopInv',
           \/ \E f : HostAnswers(f) \/ HostIgnores(f)
           \/ HostRequests \/ LoseFrame
    PROVE  BootInv'
<1>1. UNCHANGED <<clientVars, srv>>
  BY DEF HostAnswers, HostIgnores, HostRequests, LoseFrame, hostVars
<1>2. inq \in Seq(Frames(inq)) /\ outq \in Seq(Frames(outq)) /\ Ordered(inq)
  BY DEF BootInv, LoopInv, NetworkInv, InQueue, OutQueue
<1>3. ASSUME NEW f, HostAnswers(f) PROVE BootInv'
  <2>1. Sent(f)
    BY <1>3 DEF HostAnswers
  <2>2. Frames(outq') \subseteq Frames(outq)
    BY <2>1, SentBoot
  <2>3. Deliver([type |-> "ARPREP", spa |-> f.ip, sha |-> f.ip])
    BY <1>3, <2>1, SentBoot DEF HostAnswers, Reaches
  <2> QED BY <1>1, <2>2, <2>3, BootHost
<1>4. ASSUME NEW f, HostIgnores(f) PROVE BootInv'
  <2>1. Sent(f) /\ inq' = inq
    BY <1>4 DEF HostIgnores
  <2> QED BY <1>1, <1>2, <2>1, SentBoot, BootHost
<1>5. CASE HostRequests
  <2>1. /\ outq' = outq
        /\ \E f : Deliver(f) /\ f.type \notin {"UDP", "ECHO_REPLY"}
    BY <1>5 DEF HostRequests
  <2> QED BY <1>1, <2>1, BootHost
<1>6. CASE LoseFrame
  <2>1. CASE inq # <<>> /\ inq' = Tail(inq) /\ outq' = outq
    <3>1. Frames(inq') \subseteq Frames(inq) /\ Ordered(inq')
      BY <1>2, <2>1, TakenFrames DEF BootInv
    <3> QED BY <1>1, <2>1, <3>1, BootHost
  <2>2. CASE outq # <<>> /\ outq' = Tail(outq) /\ inq' = inq
    <3>1. Frames(outq') \subseteq Frames(outq)
      BY <1>2, <2>2, Taken
    <3> QED BY <1>1, <1>2, <2>2, <3>1, BootHost
  <2> QED BY <1>6, <2>1, <2>2 DEF LoseFrame
<1> QED BY <1>3, <1>4, <1>5, <1>6

(* The expected acknowledgement of a session of the running transfer       *)
(* comes from the only one that was acknowledged, and its block is stored. *)
LEMMA NextPlace ==
    ASSUME NoWrap, BootInv, Loading, NEW p \in Ports, NEW m \in Acks(outq),
           ServerNextBlock(p, m), srv[p].peer = TftpOurPort
    PROVE  /\ srv[p].st # "free" /\ TftpState # "SEND_RRQ"
           /\ \A u \in 0 .. (BlockFirst(srv'[p].size, srv'[p].blk) - 1) :
                  u \in DOMAIN mem
           /\ srv'[p].blk >= 2 => TftpState = "DATA" /\ TftpRemotePort = p
<1>1. /\ m.dst = p /\ m.src = TftpOurPort /\ srv[p].st \in {"oack", "data"}
      /\ srv[p].st = "oack" => m.block = 0
      /\ srv[p].st = "data" => m.block = srv[p].blk % SeqSize
  BY DEF ServerNextBlock, ServerExpects
<1>2. LockInv /\ ProgressInv /\ SessionInv /\ srv \in [Ports -> Session]
  BY DEF BootInv, LoopInv, NetworkInv, Sessions
<1>3. TftpState # "SEND_RRQ" /\ TftpRemotePort = p
  BY <1>1, <1>2 DEF LockInv
<1>4. ASSUME srv[p].st = "data"
      PROVE  /\ m.block = srv[p].blk /\ srv[p].blk >= 1 /\ TftpState = "DATA"
             /\ \A u \in 0 .. (BlockFirst(srv[p].size, srv[p].blk) - 1) :
                    u \in DOMAIN mem
             /\ BlockStored(srv[p].size, srv[p].blk)
  <2>1. /\ srv[p].blk \in Nat \ {0} /\ srv[p].size \in OackSizes \cup {PlainSize}
        /\ BlockFirst(srv[p].size, srv[p].blk) <= FileSize
    BY <1>2, <1>4 DEF SessionInv, Session
  <2>2. m.block = srv[p].blk
    BY <1>1, <1>4, <2>1, BlockNumber
  <2>3. Mine(p)
    BY <1>4 DEF Mine
  <2> QED BY <1>1, <1>2, <2>1, <2>2, <2>3 DEF ProgressInv
<1>5. \A u \in 0 .. (BlockFirst(srv'[p].size, srv'[p].blk) - 1) : u \in DOMAIN mem
  BY <1>2, <1>4, NextStored
<1>6. srv'[p].blk >= 2 => TftpState = "DATA"
  <2>1. srv'[p].blk = srv[p].blk + 1 /\ srv[p].blk \in Nat
    BY <1>2 DEF ServerNextBlock, Session
  <2>2. srv[p].st = "oack" => srv[p].blk = 0
    BY <1>2 DEF SessionInv
  <2> QED BY <1>1, <1>4, <2>1, <2>2
<1> QED BY <1>1, <1>3, <1>5, <1>6

LEMMA BootAnswer ==
    ASSUME NoWrap, BootInv, LoopInv', NEW f, ServerAnswers(f)
    PROVE  BootInv'
<1>1. PICK p \in Ports :
        \/ /\ Reaches(f, "RRQ") /\ ServerOpen(p, f.pkt)
           /\ Deliver(UdpFrame(SessionPkt(p, srv'[p])))
        \/ /\ Reaches(f, "RRQ") /\ ServerRefuse(p, f.pkt)
           /\ \E code \in ErrorCodes :
                Deliver(UdpFrame(ErrorPkt(p, f.pkt.src, code)))
        \/ /\ Reaches(f, "ACK") /\ ServerNextBlock(p, f.pkt)
           /\ Deliver(UdpFrame(SessionPkt(p, srv'[p])))
        \/ /\ Reaches(f, "ACK") /\ ServerFinish(p, f.pkt)
           /\ UNCHANGED inq
  BY DEF ServerAnswers
<1> DEFINE m == f.pkt
<1>2. Sent(f) /\ UNCHANGED clientVars
  BY DEF ServerAnswers
<1>3. Frames(outq') \subseteq Frames(outq) /\ f \in Frames(outq)
  BY <1>2, SentBoot
<1>4. /\ f.type = "IP" /\ m.op \in {"RRQ", "ACK"} /\ m.src \in Nat
      /\ m.op = "ACK" => m \in Acks(outq)
  <2>1. f.type = "IP" /\ m.op \in {"RRQ", "ACK"}
    BY <1>1 DEF Reaches
  <2>2. m.src \in KnownPorts
    BY <1>3, <2>1 DEF BootInv, LoopInv, NetworkInv, OutQueue, GoodOut
  <2>3. m.src \in Nat
    BY <2>2 DEF KnownPorts
  <2> QED BY <1>3, <2>1, <2>3, InPackets
<1>5. srv \in [Ports -> Session] /\ SessionInv
  BY DEF BootInv, LoopInv, NetworkInv, Sessions
<1>6. \/ ServerOpen(p, m)
      \/ ServerRefuse(p, m)
      \/ ServerNextBlock(p, m) /\ m.op = "ACK"
      \/ ServerFinish(p, m)
  BY <1>1 DEF Reaches
<1>7. PICK g : /\ Deliver(g) \/ inq' = inq
               /\ g.type = "UDP"
               /\ \/ g.pkt.op = "ERROR"
                  \/ /\ g.pkt = SessionPkt(p, srv'[p])
                     /\ ServerOpen(p, m) \/ ServerNextBlock(p, m)
  <2>1. CASE /\ Deliver(UdpFrame(SessionPkt(p, srv'[p])))
             /\ ServerOpen(p, m) \/ ServerNextBlock(p, m)
    <3>1. /\ UdpFrame(SessionPkt(p, srv'[p])).type = "UDP"
          /\ UdpFrame(SessionPkt(p, srv'[p])).pkt = SessionPkt(p, srv'[p])
      BY DEF UdpFrame
    <3> QED BY <2>1, <3>1
  <2>2. CASE \E code \in ErrorCodes : Deliver(UdpFrame(ErrorPkt(p, m.src, code)))
    <3>1. PICK code \in ErrorCodes : Deliver(UdpFrame(ErrorPkt(p, m.src, code)))
      BY <2>2
    <3>2. /\ UdpFrame(ErrorPkt(p, m.src, code)).type = "UDP"
          /\ UdpFrame(ErrorPkt(p, m.src, code)).pkt.op = "ERROR"
      BY DEF UdpFrame, ErrorPkt
    <3> QED BY <3>1, <3>2
  <2>3. CASE inq' = inq
    <3> DEFINE g == [type |-> "UDP", pkt |-> [op |-> "ERROR"]]
    <3>1. g.type = "UDP" /\ g.pkt.op = "ERROR"
      OBVIOUS
    <3> QED BY <2>3, <3>1
  <2> QED BY <1>1, <2>1, <2>2, <2>3
<1> HIDE DEF m
<1>8. srv' \in [Ports -> Session] /\ SessionInv'
  BY <1>4, <1>5, <1>6, ServerStep
<1>9. /\ \A q \in Ports : q # p => srv'[q] = srv[q]
      /\ srv'[p].st # "free"
      /\ srv[p].st # "free" => srv'[p].size = srv[p].size /\ srv'[p].peer = srv[p].peer
      /\ srv'[p].blk >= srv[p].blk
  BY <1>5, <1>6, ServerFrame
<1>10. (ServerOpen(p, m) \/ ServerNextBlock(p, m)) => srv'[p].st \in {"oack", "data"}
  BY <1>5 DEF ServerOpen, ServerNextBlock, Session
<1>11. (Loading /\ srv'[p].peer = TftpOurPort) =>
         \/ srv[p].st # "free" /\ srv'[p].blk = srv[p].blk
         \/ /\ srv[p].st = "free" /\ srv'[p].blk <= 1
            /\ srv'[p].blk = 1 => srv'[p].size = PlainSize
         \/ /\ srv[p].st # "free" /\ TftpState # "SEND_RRQ"
            /\ \A u \in 0 .. (BlockFirst(srv'[p].size, srv'[p].blk) - 1) :
                   u \in DOMAIN mem
            /\ srv'[p].blk >= 2 => TftpState = "DATA" /\ TftpRemotePort = p
  <2>1. CASE ServerOpen(p, m)
    BY <1>5, <2>1 DEF ServerOpen, NextPort
  <2>2. CASE ServerRefuse(p, m)
    <3>1. srv[p].st = "free" /\ srv[p].blk = 0 /\ srv'[p].blk = srv[p].blk
      BY <1>5, <2>2 DEF ServerRefuse, NextPort, Session, SessionInv
    <3> QED BY <3>1
  <2>3. CASE ServerNextBlock(p, m) /\ m.op = "ACK"
    <3>1. srv[p].st # "free" /\ m \in Acks(outq)
      BY <1>4, <2>3 DEF ServerNextBlock, ServerExpects
    <3>2. srv'[p].peer = srv[p].peer
      BY <1>9, <3>1
    <3> QED BY <2>3, <3>1, <3>2, NextPlace
  <2>4. CASE ServerFinish(p, m)
    BY <1>5, <2>4 DEF ServerFinish, ServerExpects, Session
  <2> QED BY <1>6, <2>1, <2>2, <2>3, <2>4
<1> QED BY <1>2, <1>3, <1>7, <1>8, <1>9, <1>10, <1>11, BootSession

LEMMA BootRetransmit ==
    ASSUME NoWrap, BootInv, LoopInv', NEW p \in Ports,
           ServerRetransmits(p) \/ ServerAborts(p)
    PROVE  BootInv'
<1>1. /\ UNCHANGED clientVars /\ outq' = outq
      /\ srv[p].st \in {"oack", "data"}
  BY DEF ServerRetransmits, ServerAborts, ServerFail
<1>2. srv \in [Ports -> Session] /\ SessionInv
  BY DEF BootInv, LoopInv, NetworkInv, Sessions
<1>3. /\ \A q \in Ports : q # p => srv'[q] = srv[q]
      /\ srv'[p].st # "free" /\ srv'[p].blk = srv[p].blk
      /\ srv'[p].size = srv[p].size /\ srv'[p].peer = srv[p].peer
      /\ SessionInv' /\ srv[p].blk \in Nat
  <2>1. CASE ServerRetransmits(p)
    <3>1. srv' = srv
      BY <2>1 DEF ServerRetransmits, hostVars
    <3> QED BY <1>1, <1>2, <3>1 DEF Session, SessionInv
  <2>2. CASE ServerAborts(p)
    <3>1. ServerFail(p)
      BY <2>2 DEF ServerAborts
    <3>2. SessionInv'
      BY <1>2, <3>1, ServerFailStep
    <3> QED BY <1>2, <3>1, <3>2 DEF ServerFail, Session
  <2> QED BY <2>1, <2>2
<1>4. PICK g : /\ Deliver(g) /\ g.type = "UDP"
               /\ \/ g.pkt.op = "ERROR"
                  \/ g.pkt = SessionPkt(p, srv'[p]) /\ srv'[p].st \in {"oack", "data"}
  <2>1. CASE ServerRetransmits(p)
    <3>1. /\ srv' = srv /\ Deliver(UdpFrame(SessionPkt(p, srv[p])))
      BY <2>1 DEF ServerRetransmits, hostVars
    <3>2. /\ UdpFrame(SessionPkt(p, srv[p])).type = "UDP"
          /\ UdpFrame(SessionPkt(p, srv[p])).pkt = SessionPkt(p, srv[p])
      BY DEF UdpFrame
    <3> QED BY <1>1, <3>1, <3>2
  <2>2. CASE ServerAborts(p)
    <3>1. PICK code \in ErrorCodes : Deliver(UdpFrame(ErrorPkt(p, srv[p].peer, code)))
      BY <2>2 DEF ServerAborts
    <3>2. /\ UdpFrame(ErrorPkt(p, srv[p].peer, code)).type = "UDP"
          /\ UdpFrame(ErrorPkt(p, srv[p].peer, code)).pkt.op = "ERROR"
      BY DEF UdpFrame, ErrorPkt
    <3> QED BY <3>1, <3>2
  <2> QED BY <2>1, <2>2
<1>5. Frames(outq') \subseteq Frames(outq) /\ srv'[p].blk >= srv[p].blk
  BY <1>1, <1>3
<1> QED BY <1>1, <1>3, <1>4, <1>5, BootSession

-----------------------------------------------------------------------------
(* The theorems.                                                           *)

LEMMA BootStutter ==
    ASSUME BootInv, LoopInv', UNCHANGED vars
    PROVE  BootInv'
<1>1. UNCHANGED <<clientVars, srv>> /\ UNCHANGED <<inq, outq>>
  BY DEF vars, clientVars, hostVars
<1> QED BY <1>1, BootHost DEF BootInv

LEMMA BootInvStep ==
    ASSUME "PING" \notin Commands, NoWrap, BootInv, [Next]_vars
    PROVE  BootInv'
<1>1. LoopInv'
  BY LoopInvStep DEF BootInv
<1>2. CASE Command
  BY <1>1, <1>2, BootTftpboot DEF Command, do_ping, do_ping_invalid, GiveCommand
<1>3. CASE Rx
  BY <1>1, <1>3, BootRx, BootHandler DEF Rx
<1>4. CASE Iteration
  BY <1>1, <1>4, BootPhase, BootReturn, BootArpExpired, BootRetry DEF Iteration
<1>5. CASE Time
  BY <1>1, <1>5, BootPhase DEF Time
<1>6. CASE Hosts
  BY <1>1, <1>6, BootAnswer, BootQuiet, BootRetransmit DEF Hosts, Answer, Retransmit
<1>7. CASE UNCHANGED vars
  BY <1>1, <1>7, BootStutter
<1> QED BY <1>2, <1>3, <1>4, <1>5, <1>6, <1>7 DEF Next

LEMMA BootInvAlways ==
    ASSUME "PING" \notin Commands, NoWrap
    PROVE  Spec => []BootInv
<1>1. BootInv /\ [Next]_vars => BootInv'
  BY BootInvStep
<1> QED BY InitBoot, <1>1, PTL DEF Spec

(* do_tftpboot() jumps to load_addr only with the whole file there, each   *)
(* unit in its place, and with the size NetLoop() returned being the       *)
(* file's: for any file without a wrap around of block numbers, any block  *)
(* sizes the server settles, any number of commands before this one that   *)
(* were aborted or failed, and any loss.  There is no ping, whose late     *)
(* reply would end a later transfer with success (run net_stale_echo).     *)
THEOREM KernelIsWholeFile ==
    ASSUME "PING" \notin Commands, NoWrap
    PROVE  Spec => []BootsWholeFile
<1>1. BootInv => BootsWholeFile
  BY DEF BootInv, KernelInv, StoredIsFile, WholeFile, BootsWholeFile
<1> QED BY <1>1, BootInvAlways, PTL

-----------------------------------------------------------------------------
(* Every step of the loop is one of module Boot, or none.                  *)

(* What Boot sees of a state.                                              *)
BootStatus ==
    CASE pc = "kernel" -> "booted"
      [] InLoop /\ proto = "TFTPGET" -> "busy"
      [] OTHER -> "idle"

StatusSeen ==
    /\ pc = "kernel" => BootStatus = "booted"
    /\ Loading => BootStatus = "busy"
    /\ (pc # "kernel" /\ ~Loading) => BootStatus = "idle"

LEMMA StatusCases == StatusSeen /\ StatusSeen'
<1>1. StatusSeen
  BY DEF StatusSeen, BootStatus, Loading, InLoop
<1> QED BY <1>1, PTL

ImageSeen ==
    /\ BootImage \in {"none", "part", "whole"}
    /\ BootImage = "none" <=> DOMAIN mem = {}
    /\ BootImage = "whole" <=>
         \A u \in 0 .. (FileSize - 1) : u \in DOMAIN mem /\ mem[u] = u

LEMMA ImageNow == FileSize > 0 => ImageSeen
<1> SUFFICES ASSUME FileSize > 0 PROVE ImageSeen
  OBVIOUS
<1> USE DEF ImageSeen
<1>1. 0 \in 0 .. (FileSize - 1)
  BY FileConstants
<1>2. CASE \A u \in 0 .. (FileSize - 1) : u \in DOMAIN mem /\ mem[u] = u
  <2>1. DOMAIN mem # {}
    BY <1>1, <1>2
  <2>2. BootImage = "whole"
    BY <1>2, <2>1 DEF BootImage
  <2> QED BY <1>2, <2>1, <2>2
<1>3. CASE ~(\A u \in 0 .. (FileSize - 1) : u \in DOMAIN mem /\ mem[u] = u)
  <2>1. CASE DOMAIN mem = {}
    <3>1. BootImage = "none"
      BY <1>3, <2>1 DEF BootImage
    <3> QED BY <1>3, <2>1, <3>1
  <2>2. CASE DOMAIN mem # {}
    <3>1. BootImage = "part"
      BY <1>3, <2>2 DEF BootImage
    <3> QED BY <1>3, <2>2, <3>1
  <2> QED BY <2>1, <2>2
<1> QED BY <1>2, <1>3

LEMMA ImageCases == ASSUME FileSize > 0 PROVE ImageSeen /\ ImageSeen'
  BY ImageNow, PTL

(* A step of Boot in terms of what it sees.                                *)
LEMMA BootSteps ==
    ASSUME \/ BootStatus' = BootStatus /\ BootImage' = BootImage
           \/ BootStatus = "idle" /\ BootStatus' = "busy" /\ BootImage' = "none"
           \/ /\ BootStatus = "busy" /\ BootImage # "whole"
              /\ BootImage' \in {"part", "whole"} /\ BootStatus' = BootStatus
           \/ /\ BootStatus = "busy" /\ BootImage = "whole"
              /\ BootStatus' = "booted" /\ BootImage' = BootImage
           \/ /\ BootStatus = "busy" /\ BootStatus' = "idle"
              /\ BootImage' = BootImage
    PROVE  [B!Next]_(B!vars)
  BY DEF BootStatus, B!Next, B!Start, B!Load, B!Enter, B!Fail, B!vars

LEMMA BootUnseen ==
    ASSUME mem' = mem, pc' = "kernel" <=> pc = "kernel", Loading' <=> Loading
    PROVE  [B!Next]_(B!vars)
<1>1. BootImage' = BootImage
  BY DEF BootImage
<1>2. BootStatus' = BootStatus
  BY StatusCases DEF StatusSeen
<1> QED BY <1>1, <1>2, BootSteps

(* do_tftpboot() starts a load.                                            *)
LEMMA SeesStart ==
    ASSUME FileSize > 0, BootInv, do_tftpboot
    PROVE  [B!Next]_(B!vars)
<1>1. /\ pc = "shell" /\ ~Loading /\ Loading' /\ DOMAIN mem' = {}
  BY DEF do_tftpboot, GiveCommand, TftpStart, EmptyMem, Loading, InLoop
<1> QED BY <1>1, StatusCases, ImageCases, BootSteps DEF StatusSeen, ImageSeen

(* store_block() adds to what is there, and never takes away.              *)
LEMMA SeesLoad ==
    ASSUME FileSize > 0, BootInv, BootInv', Loading, Loading',
           DOMAIN mem \subseteq DOMAIN mem'
    PROVE  [B!Next]_(B!vars)
<1>1. \A u \in DOMAIN mem' : mem'[u] = u
  BY DEF BootInv, MemoryInv, StorageInv, StoredIsFile
<1>2. BootStatus = "busy" /\ BootStatus' = "busy"
  BY StatusCases DEF StatusSeen
<1>3. CASE BootImage = "whole"
  <2>1. BootImage' = "whole"
    BY <1>1, <1>3, ImageCases DEF ImageSeen
  <2> QED BY <1>2, <1>3, <2>1, BootSteps
<1>4. CASE BootImage' = "none"
  <2>1. BootImage = "none"
    BY <1>4, ImageCases DEF ImageSeen
  <2> QED BY <1>2, <1>4, <2>1, BootSteps
<1>5. CASE BootImage # "whole" /\ BootImage' # "none"
  <2>1. BootImage' \in {"part", "whole"}
    BY <1>5, ImageCases DEF ImageSeen
  <2> QED BY <1>2, <1>5, <2>1, BootSteps
<1> QED BY <1>3, <1>4, <1>5

LEMMA SeesHandler ==
    ASSUME FileSize > 0, BootInv, BootInv', NEW f, RxUdpSends(f) \/ RxUdpSilent(f)
    PROVE  [B!Next]_(B!vars)
<1> DEFINE m == f.pkt
<1>1. /\ Received(f) /\ f.type = "UDP" /\ udp_packet_handler = "TftpHandler"
      /\ pc = "rx" /\ inq # <<>> /\ f = Head(inq) /\ inq' = Tail(inq)
      /\ UNCHANGED <<pc, proto, srv>> /\ TftpAccepts(m) /\ m.dst = TftpOurPort
  BY DEF RxUdpSends, RxUdpSilent, Received, cmdVars, TftpHandlerSends,
      TftpHandlerSilent, TftpAccepts, hostVars
<1>2. Loading /\ Loading'
  <2>1. InLoop /\ proto = "TFTPGET"
    BY <1>1, NotAsking DEF BootInv
  <2> QED BY <1>1, <2>1 DEF Loading, InLoop
<1>3. m \in Packets(inq)
  <2>1. f \in Frames(inq)
    BY <1>1, TakenFrames DEF BootInv
  <2> QED BY <1>1, <2>1, InPackets
<1> HIDE DEF m
<1>4. CASE m.op = "DATA" /\ TftpDataStore(m)
  BY <1>1, <1>2, <1>3, <1>4, StoredHere, SeesLoad
<1>5. CASE ~(m.op = "DATA" /\ TftpDataStore(m))
  <2>1. mem' = mem
    BY <1>5 DEF m, RxUdpSends, RxUdpSilent, TftpHandlerSends, TftpHandlerSilent,
        TftpDataSame, TftpDataNotFirst, TftpOack, TftpError, fileVars
  <2> QED BY <1>1, <1>2, <2>1, BootUnseen
<1> QED BY <1>4, <1>5

(* The kernel is entered with the whole image, or the command has failed.  *)
LEMMA SeesReturn ==
    ASSUME FileSize > 0, BootInv, BootInv', KbdAbort \/ SwitchReturn
    PROVE  [B!Next]_(B!vars)
<1>1. /\ pc \in {"kbd", "switch"} /\ pc' \in {"shell", "kernel"} /\ mem' = mem
  BY DEF KbdAbort, SwitchReturn, Return, fileVars
<1>2. Loading /\ ~Loading'
  BY <1>1, OnlyTftpboot DEF Loading, InLoop
<1>3. BootStatus = "busy" /\ BootImage' = BootImage
  BY <1>1, <1>2, StatusCases DEF StatusSeen, BootImage
<1>4. CASE pc' = "kernel"
  <2>1. StoredIsFile' /\ WholeFile'
    BY <1>4 DEF BootInv, KernelInv
  <2>2. \A u \in 0 .. (FileSize - 1) : u \in DOMAIN mem /\ mem[u] = u
    BY <1>1, <2>1 DEF StoredIsFile, WholeFile
  <2>3. BootImage = "whole" /\ BootStatus' = "booted"
    BY <1>4, <2>2, StatusCases, ImageCases DEF StatusSeen, ImageSeen
  <2> QED BY <1>3, <2>3, BootSteps
<1>5. CASE pc' = "shell"
  <2>1. BootStatus' = "idle"
    BY <1>2, <1>5, StatusCases DEF StatusSeen
  <2> QED BY <1>3, <2>1, BootSteps
<1> QED BY <1>1, <1>4, <1>5

(* No other step is seen.                                                  *)
LEMMA SeesNothing ==
    ASSUME BootInv,
           \/ \E f : RxArp(f) \/ RxEchoReply(f) \/ RxEchoRequest(f) \/ RxUdpDropped(f)
           \/ RxDone \/ KbdNothing \/ ArpExpired \/ ArpNotExpired
           \/ TimerTftpRetry \/ TimerTftpGiveUp \/ TimerPing \/ TimerNotExpired
           \/ SwitchContinue \/ Time \/ Hosts \/ UNCHANGED vars
    PROVE  [B!Next]_(B!vars)
<1> DEFINE inside == {"rx", "kbd", "arp", "timer", "switch"}
<1>1. CASE \E f : RxArp(f) \/ RxEchoReply(f) \/ RxEchoRequest(f) \/ RxUdpDropped(f)
  <2>1. mem' = mem /\ proto' = proto /\ pc' = pc
    BY <1>1 DEF RxArp, RxEchoReply, RxEchoRequest, RxUdpDropped, fileVars, cmdVars
  <2> QED BY <2>1, BootUnseen DEF Loading, InLoop
<1>2. CASE \/ RxDone \/ KbdNothing \/ ArpExpired \/ ArpNotExpired
           \/ TimerTftpRetry \/ TimerTftpGiveUp \/ TimerPing \/ TimerNotExpired
           \/ SwitchContinue
  <2>1. mem' = mem /\ proto' = proto /\ pc \in inside /\ pc' \in inside
    BY <1>2 DEF RxDone, KbdNothing, ArpExpired, ArpNotExpired, TimerTftpRetry,
        TftpTimeoutRetry, TimerTftpGiveUp, TftpTimeoutGiveUp, TimerPing,
        TimerNotExpired, SwitchContinue, fileVars, cmdVars
  <2> QED BY <2>1, BootUnseen DEF Loading, InLoop
<1>3. CASE Time \/ Hosts
  <2>1. UNCHANGED clientVars \/ Time
    BY <1>3 DEF Hosts, Answer, Retransmit, HostAnswers, ServerAnswers, HostIgnores,
        ServerRetransmits, ServerAborts, HostRequests, LoseFrame
  <2>2. mem' = mem /\ proto' = proto /\ pc' = pc
    BY <2>1, ClientSame DEF Time, TimerExpires, ArpTimerExpires, fileVars, cmdVars
  <2> QED BY <2>2, BootUnseen DEF Loading, InLoop
<1>4. CASE UNCHANGED vars
  <2>1. mem' = mem /\ proto' = proto /\ pc' = pc
    BY <1>4 DEF vars, fileVars, cmdVars
  <2> QED BY <2>1, BootUnseen DEF Loading, InLoop
<1> QED BY <1>1, <1>2, <1>3, <1>4

LEMMA BootMaps ==
    ASSUME FileSize > 0, "PING" \notin Commands, BootInv, BootInv', [Next]_vars
    PROVE  [B!Next]_(B!vars)
<1>1. Command => do_tftpboot
  BY DEF Command, do_ping, do_ping_invalid, GiveCommand
<1>2. CASE do_tftpboot
  BY <1>2, SeesStart
<1>3. ASSUME NEW f, RxUdpSends(f) \/ RxUdpSilent(f) PROVE [B!Next]_(B!vars)
  BY <1>3, SeesHandler
<1>4. CASE KbdAbort \/ SwitchReturn
  BY <1>4, SeesReturn
<1> QED BY <1>1, <1>2, <1>3, <1>4, SeesNothing DEF Next, Rx, Iteration

(* tftpboot keeps the promise of module Boot: a load only ever grows the   *)
(* image, and ends with the kernel entered with the whole of it, or with a *)
(* failure after which the command may be given again.  Of an empty file   *)
(* one cannot say whether nothing or the whole of it is loaded.            *)
THEOREM ImplementsBoot ==
    ASSUME FileSize > 0, "PING" \notin Commands, NoWrap
    PROVE  Spec => RefinesBoot
<1>1. Init => B!Init
  <2> SUFFICES ASSUME Init PROVE B!Init
    OBVIOUS
  <2>1. pc = "shell" /\ ~Loading /\ DOMAIN mem = {}
    BY DEF Init, EmptyMem, Loading, InLoop
  <2>2. BootStatus = "idle" /\ BootImage = "none"
    BY <2>1, StatusCases, ImageCases DEF StatusSeen, ImageSeen
  <2> QED BY <2>2 DEF B!Init, BootStatus
<1>2. BootInv /\ BootInv' /\ [Next]_vars => [B!Next]_(B!vars)
  BY BootMaps
<1>3. Spec => []BootInv
  BY BootInvAlways
<1> QED BY <1>1, <1>2, <1>3, PTL DEF Spec, RefinesBoot, B!Spec
=============================================================================
