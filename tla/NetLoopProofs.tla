---------------------------- MODULE NetLoopProofs ----------------------------
(***************************************************************************)
(* The packet that waits, the frames that are sent and the handlers belong *)
(* to the running command, for any commands in any order, aborted or not,  *)
(* any hosts and addresses, and any network that loses frames.             *)
(***************************************************************************)
EXTENDS NetLoop, SequenceTheorems, TLAPS

(* The frames in a queue.                                                  *)
Frames(q) == {q[i] : i \in DOMAIN q}

(* tftpboot has asked for the server's address, or its gateway's, and has  *)
(* not had it yet.                                                         *)
Asking == InLoop /\ proto = "TFTPGET" /\ NetServerEther = "0"

(* Source ports that anybody on the network can have seen: the port of the *)
(* running transfer only when its RRQ has left.                            *)
KnownPorts ==
    {n \in 0 .. (1023 + commands) : Asking => n # TftpOurPort}

(* A frame on its way to us, and one handed to eth_send().                 *)
GoodIn(f, ports) ==
    /\ f.type = "ARPREP" => f.sha = f.spa
    /\ f.type = "UDP" =>
         /\ f.pkt.dst \in ports
         /\ f.pkt.op = "DATA" => f.pkt.block \in Int /\ f.pkt.len \in Int
         /\ f.pkt.op = "OACK" => f.pkt.blksize \in Int

GoodOut(f, ports) ==
    f.type = "IP" =>
        /\ f.dst = NextHop(f.ip) /\ f.size = f.pkt.op
        /\ f.pkt.op \in {"RRQ", "ACK"} => f.pkt.src \in ports

(* The two queues, of frames for which the source ports seen are known.    *)
InQueue(q, ports) ==
    /\ q \in Seq(Frames(q)) /\ Len(q) <= QueueMax
    /\ \A f \in Frames(q) : GoodIn(f, ports)

OutQueue(q, ports) ==
    /\ q \in Seq(Frames(q)) /\ Len(q) <= QueueMax
    /\ \A f \in Frames(q) : GoodOut(f, ports)

(* The server's sessions, with peers it has heard from.                    *)
Sessions(s, ports) == s \in [Ports -> Session] /\ \A p \in Ports : s[p].peer \in ports

(* The network outside: a packet for a port nobody has seen is nowhere.    *)
NetworkInv ==
    /\ InQueue(inq, KnownPorts) /\ OutQueue(outq, KnownPorts)
    /\ Sessions(srv, KnownPorts)

(* What NetLoop() itself keeps: the running command and its handlers.  The *)
(* timer of a ping is off only when ping_timeout() has just run.           *)
ControlInv ==
    /\ pc \in {"shell", "rx", "kbd", "arp", "timer", "switch", "kernel"}
    /\ proto \in {"none", "TFTPGET", "PING"}
    /\ net_state \in {"CONTINUE", "SUCCESS", "FAIL"}
    /\ timeHandler \in {"none", "TftpTimeout", "ping_timeout"}
    /\ udp_packet_handler \in {"dummy", "TftpHandler"}
    /\ NetPingIP \in PingHosts \cup {"0"}
    /\ commands \in Nat
    /\ InLoop => proto # "none"
    /\ udp_packet_handler = "TftpHandler" => InLoop /\ proto = "TFTPGET"
    /\ (InLoop /\ proto = "PING") =>
          timeHandler = "ping_timeout" \/ (timeHandler = "none" /\ pc = "switch")
    /\ HandlersBelong
    /\ result \in Nat \cup {-1}

(* Of the transfer, only what the size that is returned rests on.          *)
TransferTypes ==
    /\ TftpTimeoutCount \in 0 .. (TIMEOUT_COUNT + 1)
    /\ NetBootFileXferSize \in Nat
    /\ TftpBlkSize \in Int /\ TftpBlockWrapOffset \in Int

(* The packet that waits is the one for op to ip.                          *)
Waits(ip, op) ==
    /\ NetArpWaitPacketIP = ip /\ NetArpWaitReplyIP = NextHop(ip)
    /\ NetTxPacket.ip = ip /\ NetTxPacket.pkt.op = op
    /\ NetArpWaitTxPacketSize = op

(* tftpboot's RRQ waits, and a reply will put the address where the rest   *)
(* of the transfer expects it.                                             *)
TftpWaits ==
    /\ Waits(ServerIP, "RRQ")
    /\ NetArpWaitPacketMAC = "NetServerEther"
    /\ NetTxPacket.pkt.src = TftpOurPort
    /\ TftpState = "SEND_RRQ"

(* arp.c: while tftpboot does not know the server's address its RRQ waits, *)
(* and once it does nothing waits any more.                                *)
ArpInv ==
    /\ NetArpWaitTry \in 0 .. (ARP_TIMEOUT_COUNT - 1)
    /\ NetArpWaitPacketMAC \in {"NULL", "NetServerEther"}
    /\ NetTxPacket = [dst |-> NetTxPacket.dst, ip |-> NetTxPacket.ip,
                      pkt |-> NetTxPacket.pkt]
    /\ (InLoop /\ proto = "PING" /\ NetArpWaitPacketIP # "0") =>
          Waits(NetPingIP, "ECHO_REQUEST")
    /\ (InLoop /\ proto = "TFTPGET") =>
          TftpOurPort \in 0 .. (1023 + commands)
    /\ Asking => TftpWaits
    /\ (InLoop /\ proto = "TFTPGET" /\ NetServerEther # "0") =>
          NetServerEther = NextHop(ServerIP) /\ NetArpWaitPacketIP = "0"

(* The inductive invariant.                                                *)
LoopInv == ControlInv /\ TransferTypes /\ ArpInv /\ NetworkInv

-----------------------------------------------------------------------------
(* Queues.                                                                 *)

LEMMA Appended ==
    ASSUME NEW q, q \in Seq(Frames(q)), NEW f
    PROVE  /\ Append(q, f) \in Seq(Frames(Append(q, f)))
           /\ Len(Append(q, f)) = Len(q) + 1 /\ Len(q) \in Nat
           /\ Frames(Append(q, f)) = Frames(q) \cup {f}
           /\ Append(q, f)[Len(q) + 1] = f
           /\ \A i \in 1 .. Len(q) : Append(q, f)[i] = q[i]
<1> DEFINE S == Frames(q) \cup {f}
           r == Append(q, f)
<1>1. q \in Seq(S) /\ f \in S
  BY SeqMonotonic
<1> HIDE DEF S
<1>2. /\ r \in Seq(S) /\ Len(r) = Len(q) + 1 /\ Len(q) \in Nat
      /\ r[Len(q) + 1] = f /\ \A i \in 1 .. Len(q) : r[i] = q[i]
      /\ DOMAIN r = 1 .. (Len(q) + 1) /\ DOMAIN q = 1 .. Len(q)
  BY <1>1
<1> HIDE DEF r
<1>3. \A i \in 1 .. (Len(q) + 1) : i = Len(q) + 1 \/ i \in 1 .. Len(q)
  BY <1>2
<1>4. Frames(r) \subseteq Frames(q) \cup {f}
  BY <1>2, <1>3 DEF Frames
<1>5. Frames(q) \cup {f} \subseteq Frames(r)
  <2>1. Len(q) + 1 \in 1 .. (Len(q) + 1) /\ 1 .. Len(q) \subseteq 1 .. (Len(q) + 1)
    BY <1>2
  <2> QED BY <1>2, <2>1 DEF Frames
<1>6. Frames(r) = S
  BY <1>4, <1>5 DEF S
<1> QED BY <1>2, <1>4, <1>5, <1>6 DEF r

LEMMA Taken ==
    ASSUME NEW q, q \in Seq(Frames(q)), q # <<>>
    PROVE  /\ Tail(q) \in Seq(Frames(Tail(q)))
           /\ Len(Tail(q)) = Len(q) - 1 /\ Len(q) \in Nat \ {0}
           /\ Frames(Tail(q)) \subseteq Frames(q) /\ Head(q) \in Frames(q)
           /\ \A i \in 1 .. (Len(q) - 1) : Tail(q)[i] = q[i + 1]
           /\ Head(q) = q[1]
<1> DEFINE r == Tail(q)
<1>1. /\ r \in Seq(Frames(q)) /\ Len(r) = Len(q) - 1 /\ Len(q) \in Nat \ {0}
      /\ Head(q) \in Frames(q)
  BY HeadTailProperties, EmptySeq
<1>2. \A i \in 1 .. (Len(q) - 1) : r[i] = q[i + 1]
  BY <1>1, HeadTailProperties
<1>3. Head(q) = q[1]
  OBVIOUS
<1> HIDE DEF r
<1>4. Frames(r) \subseteq Frames(q)
  <2>1. \A i \in DOMAIN r : r[i] \in Frames(q)
    BY <1>1, LenProperties, ElementOfSeq
  <2> QED BY <2>1 DEF Frames
<1>5. r \in Seq(Frames(r))
  <2>1. r \in [1 .. Len(r) -> Frames(q)] /\ Len(r) \in Nat
    BY <1>1
  <2>2. r \in [1 .. Len(r) -> Frames(r)]
    BY <2>1 DEF Frames
  <2> QED BY <2>1, <2>2, SeqDef
<1> QED BY <1>1, <1>2, <1>3, <1>4, <1>5 DEF r

LEMMA EmptyQueue == Frames(<<>>) = {} /\ <<>> \in Seq(Frames(<<>>)) /\ Len(<<>>) = 0
  BY EmptySeq DEF Frames

(* A port that is known stays known, and with it what was good.            *)
LEMMA GoodMono ==
    ASSUME NEW a, NEW b, a \subseteq b, NEW q, NEW s
    PROVE  /\ InQueue(q, a) => InQueue(q, b)
           /\ OutQueue(q, a) => OutQueue(q, b)
           /\ Sessions(s, a) => Sessions(s, b)
<1>1. \A f : GoodIn(f, a) => GoodIn(f, b)
  BY DEF GoodIn
<1>2. \A f : GoodOut(f, a) => GoodOut(f, b)
  BY DEF GoodOut
<1> QED BY <1>1, <1>2 DEF InQueue, OutQueue, Sessions

(* Deliver() and NetSendPacket(), which lose the frame if there is no room. *)
LEMMA Delivered ==
    ASSUME NEW ports, InQueue(inq, ports), NEW f, GoodIn(f, ports), Deliver(f)
    PROVE  InQueue(inq', ports)
<1>1. CASE Len(inq) < QueueMax
  <2>1. inq' = Append(inq, f) /\ Len(inq) + 1 <= QueueMax
    BY <1>1, Appended, ArpConstants DEF Deliver, InQueue, ArpConstants
  <2>2. Frames(inq') = Frames(inq) \cup {f} /\ inq' \in Seq(Frames(inq'))
        /\ Len(inq') <= QueueMax
    BY <2>1, Appended DEF InQueue
  <2> QED BY <2>2 DEF InQueue
<1>2. CASE ~(Len(inq) < QueueMax)
  BY <1>2 DEF Deliver
<1> QED BY <1>1, <1>2

LEMMA SentOut ==
    ASSUME NEW ports, OutQueue(outq, ports), NEW f, GoodOut(f, ports),
           NetSendPacket(f)
    PROVE  OutQueue(outq', ports)
<1>1. CASE Len(outq) < QueueMax
  <2>1. outq' = Append(outq, f) /\ Len(outq) + 1 <= QueueMax
    BY <1>1, Appended, ArpConstants DEF NetSendPacket, OutQueue, ArpConstants
  <2>2. Frames(outq') = Frames(outq) \cup {f} /\ outq' \in Seq(Frames(outq'))
        /\ Len(outq') <= QueueMax
    BY <2>1, Appended DEF OutQueue
  <2> QED BY <2>2 DEF OutQueue
<1>2. CASE ~(Len(outq) < QueueMax)
  BY <1>2 DEF NetSendPacket
<1> QED BY <1>1, <1>2

LEMMA TakenIn ==
    ASSUME NEW ports, InQueue(inq, ports), inq # <<>>, inq' = Tail(inq)
    PROVE  InQueue(inq', ports) /\ GoodIn(Head(inq), ports)
<1>1. /\ Frames(inq') \subseteq Frames(inq) /\ inq' \in Seq(Frames(inq'))
      /\ Len(inq') = Len(inq) - 1 /\ Len(inq) \in Nat /\ Head(inq) \in Frames(inq)
  BY Taken DEF InQueue
<1> QED BY <1>1, ArpConstants DEF InQueue, ArpConstants

LEMMA TakenOut ==
    ASSUME NEW ports, OutQueue(outq, ports), outq # <<>>, outq' = Tail(outq)
    PROVE  OutQueue(outq', ports) /\ GoodOut(Head(outq), ports)
<1>1. /\ Frames(outq') \subseteq Frames(outq) /\ outq' \in Seq(Frames(outq'))
      /\ Len(outq') = Len(outq) - 1 /\ Len(outq) \in Nat /\ Head(outq) \in Frames(outq)
  BY Taken DEF OutQueue
<1> QED BY <1>1, ArpConstants DEF OutQueue, ArpConstants

(* The address of the next hop is "0" only for "0".                        *)
LEMMA HopKnown == \A ip : ip # "0" => NextHop(ip) # "0"
  BY DEF NextHop

-----------------------------------------------------------------------------
(* The initial state.                                                      *)

LEMMA InitLoop == Init => LoopInv
<1> SUFFICES ASSUME Init PROVE LoopInv
  OBVIOUS
<1> USE DEF Init
<1>1. pc = "shell" /\ ~InLoop
  BY DEF InLoop
<1>2. ControlInv
  BY <1>1 DEF ControlInv, HandlersBelong
<1>3. TransferTypes
  BY TftpConstants DEF TransferTypes, TftpConstants
<1>4. ArpInv
  BY <1>1, ArpConstants DEF ArpInv, ArpInit, NoPacket, Asking, ArpConstants
<1>5. 0 \in KnownPorts
  BY <1>1 DEF KnownPorts, Asking
<1>6. InQueue(inq, KnownPorts) /\ OutQueue(outq, KnownPorts)
  BY EmptyQueue, ArpConstants DEF InQueue, OutQueue, ArpInit, ArpConstants
<1>7. Sessions(srv, KnownPorts)
  BY <1>5, ServerConstants
  DEF Sessions, ServerInit, FreeSession, Session, ServerConstants
<1> QED BY <1>2, <1>3, <1>4, <1>6, <1>7 DEF LoopInv, NetworkInv

-----------------------------------------------------------------------------
(* What the steps have in common.                                          *)

LEMMA KnownStay ==
    ASSUME LoopInv, commands' \in {commands, commands + 1},
           Asking' => Asking /\ TftpOurPort' = TftpOurPort
    PROVE  KnownPorts \subseteq KnownPorts'
  BY DEF KnownPorts, LoopInv, ControlInv

(* A step of the client that leaves the network alone.                     *)
LEMMA NetworkStays ==
    ASSUME LoopInv, commands' \in {commands, commands + 1},
           Asking' => Asking /\ TftpOurPort' = TftpOurPort,
           UNCHANGED <<inq, outq, srv>>
    PROVE  NetworkInv'
<1>1. KnownPorts \subseteq KnownPorts'
  BY KnownStay
<1>2. /\ InQueue(inq, KnownPorts') /\ OutQueue(outq, KnownPorts')
      /\ Sessions(srv, KnownPorts')
  BY <1>1, GoodMono DEF LoopInv, NetworkInv
<1> QED BY <1>2 DEF NetworkInv

(* One that also sends an ARP request or a reply to a host's request.      *)
LEMMA NetworkSends ==
    ASSUME LoopInv, commands' \in {commands, commands + 1},
           Asking' => Asking /\ TftpOurPort' = TftpOurPort,
           UNCHANGED srv,
           InQueue(inq', KnownPorts),
           NEW f, GoodOut(f, KnownPorts'), NetSendPacket(f)
    PROVE  NetworkInv'
<1>1. KnownPorts \subseteq KnownPorts'
  BY KnownStay
<1>2. /\ InQueue(inq', KnownPorts') /\ OutQueue(outq, KnownPorts')
      /\ Sessions(srv, KnownPorts')
  BY <1>1, GoodMono DEF LoopInv, NetworkInv
<1>3. OutQueue(outq', KnownPorts')
  BY <1>2, SentOut
<1> QED BY <1>2, <1>3 DEF NetworkInv

LEMMA ArpGoodOut ==
    ASSUME NEW ports, NEW ip
    PROVE  /\ GoodOut([type |-> "ARPREQ", ip |-> ip], ports)
           /\ GoodOut([type |-> "ARPREP", ip |-> ip], ports)
           /\ GoodOut([type |-> "ECHO_REPLY", ip |-> ip], ports)
  BY DEF GoodOut

-----------------------------------------------------------------------------
(* Commands.                                                               *)

LEMMA KeepsTftpboot == LoopInv /\ do_tftpboot => LoopInv'
<1> SUFFICES ASSUME LoopInv, do_tftpboot PROVE LoopInv'
  OBVIOUS
<1>1. /\ pc = "shell" /\ commands' = commands + 1 /\ proto' = "TFTPGET" /\ pc' = "rx"
      /\ net_state' = "CONTINUE" /\ NetBootFileXferSize' = 0
      /\ TftpState' = "SEND_RRQ" /\ timeHandler' = "TftpTimeout"
      /\ TftpTimeoutCount' = 0 /\ TftpOurPort' = 1024 + commands
      /\ TftpBlkSize' = TFTP_BLOCK_SIZE /\ TftpBlockWrapOffset' = TftpBlockWrapOffset
      /\ udp_packet_handler' = "TftpHandler"
      /\ result' = result /\ NetPingIP' = NetPingIP /\ inq' = inq /\ srv' = srv
  BY DEF do_tftpboot, GiveCommand, TftpStart, NetSetTimeout, hostVars
<1>2. /\ TftpSend'.op = "RRQ" /\ TftpSend'.src = 1024 + commands
  BY <1>1 DEF TftpSend
<1>3. /\ NetTxPacket' = [dst |-> "0", ip |-> ServerIP, pkt |-> TftpSend']
      /\ NetServerEther' = "0" /\ NetArpWaitPacketIP' = ServerIP
      /\ NetArpWaitPacketMAC' = "NetServerEther"
      /\ NetArpWaitTxPacketSize' = TftpSend'.op
      /\ NetArpWaitTry' = 1 /\ NetArpWaitReplyIP' = NextHop(ServerIP)
      /\ NetSendPacket([type |-> "ARPREQ", ip |-> NextHop(ServerIP)])
  BY DEF do_tftpboot, NetSendUDPPacket, ArpRequest
<1>4. commands \in Nat /\ InLoop' /\ Asking'
  BY <1>1, <1>3 DEF LoopInv, ControlInv, InLoop, Asking
<1>5. ControlInv'
  BY <1>1, <1>4 DEF LoopInv, ControlInv, HandlersBelong
<1>6. TransferTypes'
  BY <1>1, TftpConstants DEF LoopInv, TransferTypes, TftpConstants
<1>7. ArpInv'
  <2>1. NetArpWaitTry' \in 0 .. (ARP_TIMEOUT_COUNT - 1)
    BY <1>3, ArpConstants DEF ArpConstants
  <2>2. TftpOurPort' \in 0 .. (1023 + commands')
    BY <1>1, <1>4
  <2>3. TftpWaits'
    BY <1>1, <1>2, <1>3 DEF TftpWaits, Waits
  <2> QED BY <1>1, <1>3, <2>1, <2>2, <2>3 DEF ArpInv
<1>8. KnownPorts \subseteq KnownPorts'
  BY <1>1, <1>4 DEF KnownPorts
<1>9. /\ InQueue(inq, KnownPorts') /\ OutQueue(outq, KnownPorts')
      /\ Sessions(srv, KnownPorts')
  BY <1>8, GoodMono DEF LoopInv, NetworkInv
<1>10. OutQueue(outq', KnownPorts')
  BY <1>3, <1>9, SentOut, ArpGoodOut
<1> QED BY <1>1, <1>5, <1>6, <1>7, <1>9, <1>10 DEF LoopInv, NetworkInv

LEMMA KeepsPing == LoopInv /\ (do_ping \/ do_ping_invalid) => LoopInv'
<1> SUFFICES ASSUME LoopInv, do_ping \/ do_ping_invalid PROVE LoopInv'
  OBVIOUS
<1>1. CASE do_ping
  <2>1. PICK host \in PingHosts : NetPingIP' = host /\ ping_send(host)
    BY <1>1 DEF do_ping
  <2>2. /\ pc = "shell" /\ commands' = commands + 1 /\ proto' = "PING" /\ pc' = "rx"
        /\ net_state' = "CONTINUE" /\ NetBootFileXferSize' = 0
        /\ timeHandler' = "ping_timeout"
        /\ TftpTimeoutCount' = TftpTimeoutCount /\ TftpBlkSize' = TftpBlkSize
        /\ TftpBlockWrapOffset' = TftpBlockWrapOffset
        /\ udp_packet_handler' = udp_packet_handler
        /\ result' = result /\ inq' = inq /\ srv' = srv
    BY <1>1 DEF do_ping, GiveCommand, NetSetTimeout, hostVars, tftpVars
  <2>3. /\ NetArpWaitPacketIP' = host /\ NetArpWaitReplyIP' = NextHop(host)
        /\ NetTxPacket' = [dst |-> "0", ip |-> host, pkt |-> [op |-> "ECHO_REQUEST"]]
        /\ NetArpWaitTxPacketSize' = "ECHO_REQUEST" /\ NetArpWaitTry' = 1
        /\ NetArpWaitPacketMAC' = NetArpWaitPacketMAC
        /\ NetSendPacket([type |-> "ARPREQ", ip |-> NextHop(host)])
    BY <2>1 DEF ping_send, ArpRequest
  <2>4. commands \in Nat /\ ~InLoop /\ InLoop' /\ ~Asking'
    BY <2>2 DEF LoopInv, ControlInv, InLoop, Asking
  <2>5. ControlInv'
    BY <2>1, <2>2, <2>4 DEF LoopInv, ControlInv, HandlersBelong
  <2>6. TransferTypes'
    BY <2>2 DEF LoopInv, TransferTypes
  <2>7. ArpInv'
    <3>1. NetArpWaitTry' \in 0 .. (ARP_TIMEOUT_COUNT - 1)
      BY <2>3, ArpConstants DEF ArpConstants
    <3>2. Waits(NetPingIP, "ECHO_REQUEST")'
      BY <2>1, <2>3 DEF Waits
    <3> QED BY <2>2, <2>3, <2>4, <3>1, <3>2 DEF LoopInv, ArpInv
  <2>8. NetworkInv'
    BY <2>2, <2>3, <2>4, NetworkSends, ArpGoodOut DEF LoopInv, NetworkInv
  <2> QED BY <2>5, <2>6, <2>7, <2>8 DEF LoopInv
<1>2. CASE do_ping_invalid
  <2>1. /\ pc = "shell" /\ commands' = commands + 1 /\ NetPingIP' = "0" /\ pc' = pc
        /\ UNCHANGED <<loopVars, tftpVars, fileVars, arpVars, outq, inq,
                       udp_packet_handler, proto, result, hostVars>>
    BY <1>2 DEF do_ping_invalid
  <2>2. commands \in Nat /\ ~InLoop /\ ~InLoop' /\ ~Asking' /\ ~Asking
    BY <2>1 DEF LoopInv, ControlInv, InLoop, Asking
  <2>3. ControlInv'
    BY <2>1, <2>2
    DEF LoopInv, ControlInv, HandlersBelong, loopVars, timerVars
  <2>4. TransferTypes'
    BY <2>1 DEF LoopInv, TransferTypes, tftpVars, fileVars
  <2>5. ArpInv'
    BY <2>1, <2>2 DEF LoopInv, ArpInv, arpVars, waitVars
  <2>6. NetworkInv'
    BY <2>1, <2>2, NetworkStays DEF hostVars
  <2> QED BY <2>3, <2>4, <2>5, <2>6 DEF LoopInv
<1> QED BY <1>1, <1>2

-----------------------------------------------------------------------------
(* Frames that come.                                                       *)

LEMMA ReceivedFacts ==
    ASSUME LoopInv, NEW f, Received(f)
    PROVE  /\ pc = "rx" /\ InLoop /\ inq # <<>> /\ f = Head(inq)
           /\ inq' = Tail(inq)
           /\ InQueue(inq', KnownPorts) /\ GoodIn(f, KnownPorts)
           /\ OutQueue(outq, KnownPorts)
  BY TakenIn DEF LoopInv, NetworkInv, Received, InLoop

(* A frame is taken that changes nothing else.                             *)
LEMMA KeepsTaken ==
    ASSUME LoopInv, NEW f, Received(f),
           UNCHANGED <<pc, loopVars, tftpVars, fileVars, arpVars, outq,
                       udp_packet_handler, cmdVars, hostVars>>
    PROVE  LoopInv'
<1> USE DEF loopVars, timerVars, tftpVars, fileVars, arpVars, waitVars, cmdVars, hostVars
<1>1. ControlInv'
  BY DEF LoopInv, ControlInv, HandlersBelong, InLoop
<1>2. TransferTypes' /\ ArpInv'
  BY DEF LoopInv, TransferTypes, ArpInv, TftpWaits, Waits, Asking, InLoop
<1>3. Asking' => Asking
  BY DEF Asking, InLoop
<1>4. KnownPorts' = KnownPorts
  BY DEF KnownPorts, Asking, InLoop
<1>5. NetworkInv'
  BY <1>4, ReceivedFacts DEF LoopInv, NetworkInv
<1> QED BY <1>1, <1>2, <1>5 DEF LoopInv

(* A frame is taken and a request of a host is answered.                   *)
LEMMA KeepsAnswered ==
    ASSUME LoopInv, NEW f, Received(f), NEW g, NetSendPacket(g),
           GoodOut(g, KnownPorts),
           UNCHANGED <<pc, loopVars, tftpVars, fileVars, arpVars,
                       udp_packet_handler, cmdVars, hostVars>>
    PROVE  LoopInv'
<1> USE DEF loopVars, timerVars, tftpVars, fileVars, arpVars, waitVars, cmdVars, hostVars
<1>1. ControlInv'
  BY DEF LoopInv, ControlInv, HandlersBelong, InLoop
<1>2. TransferTypes' /\ ArpInv'
  BY DEF LoopInv, TransferTypes, ArpInv, TftpWaits, Waits, Asking, InLoop
<1>3. KnownPorts' = KnownPorts
  BY DEF KnownPorts, Asking, InLoop
<1>4. OutQueue(outq', KnownPorts)
  BY ReceivedFacts, SentOut
<1>5. NetworkInv'
  BY <1>3, <1>4, ReceivedFacts DEF LoopInv, NetworkInv
<1> QED BY <1>1, <1>2, <1>5 DEF LoopInv

(* The reply that was awaited: the waiting packet leaves with the address  *)
(* and the length that belong to it.                                       *)
LEMMA KeepsReply ==
    ASSUME LoopInv, NEW f, Received(f), ArpReceiveReply(f),
           UNCHANGED <<pc, loopVars, tftpVars, fileVars, udp_packet_handler,
                       cmdVars, hostVars>>
    PROVE  LoopInv'
<1> DEFINE packet == [dst |-> f.sha, ip |-> NetTxPacket.ip, pkt |-> NetTxPacket.pkt]
<1>1. /\ UNCHANGED <<pc, net_state, timeHandler, TftpState, TftpOurPort,
                     TftpTimeoutCount, TftpBlkSize, TftpBlockWrapOffset,
                     NetBootFileXferSize, udp_packet_handler>>
      /\ UNCHANGED <<proto, result, commands, NetPingIP, srv>>
  BY DEF loopVars, timerVars, tftpVars, fileVars, cmdVars, hostVars
<1>2. /\ f.type = "ARPREP" /\ NetArpWaitPacketIP # "0" /\ f.spa = NetArpWaitReplyIP
      /\ NetServerEther' =
           IF NetArpWaitPacketMAC = "NULL" THEN NetServerEther ELSE f.sha
      /\ NetArpWaitPacketIP' = "0" /\ NetArpWaitPacketMAC' = "NULL"
      /\ NetArpWaitTry' = NetArpWaitTry
  BY DEF ArpReceiveReply, ArpAwaits
<1>3. NetTxPacket' = packet
  <2>1. NetTxPacket' = [NetTxPacket EXCEPT !.dst = f.sha]
    BY DEF ArpReceiveReply
  <2>2. NetTxPacket = [dst |-> NetTxPacket.dst, ip |-> NetTxPacket.ip,
                       pkt |-> NetTxPacket.pkt]
    BY DEF LoopInv, ArpInv
  <2> QED BY <2>1, <2>2
<1>4. NetSendPacket(PacketFrame(packet, NetArpWaitTxPacketSize))
  BY <1>3 DEF ArpReceiveReply
<1>5. f.sha = f.spa /\ InLoop /\ pc = "rx" /\ proto \in {"TFTPGET", "PING"} /\ InLoop'
  BY <1>1, <1>2, ReceivedFacts DEF GoodIn, LoopInv, ControlInv, InLoop
<1>6. /\ Asking <=> proto = "TFTPGET"
      /\ Asking => TftpWaits
      /\ proto = "PING" => Waits(NetPingIP, "ECHO_REQUEST")
  BY <1>2, <1>5 DEF LoopInv, ArpInv, Asking
<1>7. /\ f.sha # "0" /\ f.sha = NextHop(NetTxPacket.ip)
      /\ NetArpWaitTxPacketSize = NetTxPacket.pkt.op
  BY <1>2, <1>5, <1>6, HopKnown DEF TftpWaits, Waits
<1>8. ~Asking'
  BY <1>1, <1>2, <1>6, <1>7 DEF Asking, TftpWaits, InLoop
<1>9. ControlInv'
  BY <1>1 DEF LoopInv, ControlInv, HandlersBelong, InLoop
<1>10. TransferTypes'
  BY <1>1 DEF LoopInv, TransferTypes
<1>11. ArpInv'
  <2>1. proto = "TFTPGET" => NetServerEther' = NextHop(ServerIP)
    BY <1>2, <1>5, <1>6 DEF TftpWaits, Waits
  <2>2. (InLoop' /\ proto' = "TFTPGET") => TftpOurPort' \in 0 .. (1023 + commands')
    BY <1>1, <1>5 DEF LoopInv, ArpInv
  <2> QED BY <1>1, <1>2, <1>3, <1>8, <2>1, <2>2 DEF LoopInv, ArpInv
<1>12. KnownPorts \subseteq KnownPorts' /\ (proto = "TFTPGET" => TftpOurPort \in KnownPorts')
  BY <1>1, <1>5, <1>8 DEF KnownPorts, LoopInv, ArpInv
<1>13. GoodOut(PacketFrame(packet, NetArpWaitTxPacketSize), KnownPorts')
  <2>1. NetTxPacket.pkt.op \in {"RRQ", "ACK"} => NetTxPacket.pkt.src \in KnownPorts'
    BY <1>5, <1>6, <1>12 DEF TftpWaits, Waits
  <2> QED BY <1>7, <2>1 DEF GoodOut, PacketFrame
<1>14. NetworkInv'
  <2>1. OutQueue(outq, KnownPorts') /\ InQueue(inq', KnownPorts')
        /\ Sessions(srv, KnownPorts')
    BY <1>12, ReceivedFacts, GoodMono DEF LoopInv, NetworkInv
  <2>2. OutQueue(outq', KnownPorts')
    BY <1>4, <1>13, <2>1, SentOut
  <2> QED BY <1>1, <2>1, <2>2 DEF NetworkInv
<1> QED BY <1>9, <1>10, <1>11, <1>14 DEF LoopInv

LEMMA KeepsRxArp ==
    ASSUME LoopInv, NEW f, RxArp(f)
    PROVE  LoopInv'
<1>1. CASE ArpReceiveRequest(f)
  BY <1>1, KeepsAnswered, ArpGoodOut DEF RxArp, ArpReceiveRequest
<1>2. CASE ArpReceiveReply(f)
  BY <1>2, KeepsReply DEF RxArp
<1>3. CASE ArpIgnoreReply(f)
  BY <1>3, KeepsTaken DEF RxArp, ArpIgnoreReply
<1> QED BY <1>1, <1>2, <1>3 DEF RxArp

LEMMA KeepsRxEcho ==
    ASSUME LoopInv, NEW f, RxEchoReply(f) \/ RxEchoRequest(f)
    PROVE  LoopInv'
<1>1. CASE RxEchoRequest(f)
  BY <1>1, KeepsAnswered, ArpGoodOut DEF RxEchoRequest
<1>2. CASE RxEchoReply(f)
  <2>1. /\ Received(f) /\ net_state' \in {"SUCCESS", net_state}
        /\ UNCHANGED <<pc, timerVars, tftpVars, fileVars, arpVars, outq,
                       udp_packet_handler, cmdVars, hostVars>>
    BY <1>2 DEF RxEchoReply, ping_receive_reply
  <2> USE DEF timerVars, tftpVars, fileVars, arpVars, waitVars, cmdVars, hostVars
  <2>2. ControlInv'
    BY <2>1, ReceivedFacts DEF LoopInv, ControlInv, HandlersBelong, InLoop
  <2>3. TransferTypes' /\ ArpInv'
    BY <2>1 DEF LoopInv, TransferTypes, ArpInv, TftpWaits, Waits, Asking, InLoop
  <2>4. KnownPorts' = KnownPorts
    BY <2>1 DEF KnownPorts, Asking, InLoop
  <2>5. NetworkInv'
    BY <2>1, <2>4, ReceivedFacts DEF LoopInv, NetworkInv
  <2> QED BY <2>2, <2>3, <2>5 DEF LoopInv
<1> QED BY <1>1, <1>2

-----------------------------------------------------------------------------
(* UDP packets and the transfer.                                           *)

LEMMA MulInt == \A a, b \in Int : a * b \in Int
  BY SMT

LEMMA WrapOffsetType ==
    ASSUME TransferTypes, NEW n \in Int
    PROVE  WrapOffsetAfter(n) \in Int /\ WrapOffsetTaken(n) \in Int
<1>1. TftpBlkSize * TFTP_SEQUENCE_SIZE \in Int
  BY TftpConstants, MulInt DEF TransferTypes, TftpConstants
<1> QED BY <1>1 DEF WrapOffsetAfter, WrapOffsetTaken, TransferTypes

(* Whatever comes, the size never shrinks, so that it is not negative.     *)
LEMMA StoreSize ==
    ASSUME TransferTypes, NEW m, m.block \in Int, m.len \in Int, TftpDataStore(m)
    PROVE  NetBootFileXferSize' \in Nat /\ TftpBlockWrapOffset' \in Int
<1> DEFINE offset == (m.block - 1) * TftpBlkSize + TftpBlockWrapOffset'
<1>1. TftpBlockWrapOffset' \in Int
  BY WrapOffsetType DEF TftpDataStore
<1>2. (m.block - 1) * TftpBlkSize \in Int
  BY MulInt DEF TransferTypes
<1>3. offset \in Int
  BY <1>1, <1>2
<1>4. NetBootFileXferSize' =
        IF NetBootFileXferSize < offset + m.len THEN offset + m.len
                                                ELSE NetBootFileXferSize
  BY DEF TftpDataStore, store_block
<1> HIDE DEF offset
<1> QED BY <1>1, <1>3, <1>4 DEF TransferTypes

LEMMA HandlerTypes ==
    ASSUME TransferTypes, NEW m, TftpHandlerSends(m) \/ TftpHandlerSilent(m),
           m.op = "DATA" => m.block \in Int /\ m.len \in Int,
           m.op = "OACK" => m.blksize \in Int
    PROVE  /\ TransferTypes' /\ TftpOurPort' = TftpOurPort
           /\ net_state' \in {net_state, "SUCCESS", "FAIL"}
           /\ timeHandler' \in {timeHandler, "TftpTimeout"}
           /\ m.dst = TftpOurPort
<1> USE DEF loopVars, timerVars, tftpVars, fileVars
<1>0. m.dst = TftpOurPort
  BY DEF TftpHandlerSends, TftpHandlerSilent, TftpAccepts
<1>1. CASE m.op = "OACK" /\ TftpOack(m)
  BY <1>0, <1>1 DEF TftpOack, TransferTypes
<1>2. CASE m.op = "DATA" /\ TftpDataStore(m)
  <2>1. NetBootFileXferSize' \in Nat /\ TftpBlockWrapOffset' \in Int
    BY <1>2, StoreSize
  <2>2. /\ TftpTimeoutCount' \in {0, TftpTimeoutCount} /\ TftpBlkSize' = TftpBlkSize
        /\ TftpOurPort' = TftpOurPort /\ net_state' \in {net_state, "SUCCESS", "FAIL"}
        /\ timeHandler' = "TftpTimeout"
    BY <1>2 DEF TftpDataStore, update_block_number, NetSetTimeout
  <2> QED BY <1>0, <2>1, <2>2, TftpConstants DEF TransferTypes, TftpConstants
<1>3. CASE m.op = "DATA" /\ (TftpDataNotFirst(m) \/ TftpDataSame(m))
  <2>1. TftpBlockWrapOffset' \in Int
    BY <1>3, WrapOffsetType DEF TftpDataNotFirst, TftpDataSame
  <2>2. /\ TftpTimeoutCount' \in {0, TftpTimeoutCount} /\ TftpBlkSize' = TftpBlkSize
        /\ TftpOurPort' = TftpOurPort /\ net_state' = net_state
        /\ timeHandler' = timeHandler /\ NetBootFileXferSize' = NetBootFileXferSize
    BY <1>3 DEF TftpDataNotFirst, TftpDataSame, update_block_number
  <2> QED BY <1>0, <2>1, <2>2, TftpConstants DEF TransferTypes, TftpConstants
<1>4. CASE m.op = "ERROR" /\ TftpError(m)
  BY <1>0, <1>4 DEF TftpError, TransferTypes
<1> QED BY <1>1, <1>2, <1>3, <1>4 DEF TftpHandlerSends, TftpHandlerSilent

(* A packet for the running transfer comes only when its RRQ has left.     *)
LEMMA NotAsking ==
    ASSUME LoopInv, NEW f, Received(f), f.type = "UDP",
           udp_packet_handler = "TftpHandler", f.pkt.dst = TftpOurPort
    PROVE  InLoop /\ proto = "TFTPGET" /\ ~Asking
<1>1. f.pkt.dst \in KnownPorts
  BY ReceivedFacts DEF GoodIn
<1> QED BY <1>1 DEF KnownPorts, LoopInv, ControlInv

(* A packet of a transfer whose server's address is known.                 *)
LEMMA TransferSends ==
    ASSUME LoopInv, InLoop, proto = "TFTPGET", ~Asking,
           NetSendUDPPacket(NetServerEther, ServerIP, TftpSend'),
           TftpOurPort' = TftpOurPort,
           InLoop', UNCHANGED <<proto, commands>>
    PROVE  /\ ArpInv' /\ ~Asking'
           /\ KnownPorts' = KnownPorts
           /\ OutQueue(outq', KnownPorts)
<1>1. /\ NetServerEther # "0" /\ NetServerEther = NextHop(ServerIP)
      /\ NetArpWaitPacketIP = "0"
  BY DEF LoopInv, ArpInv, Asking
<1> DEFINE packet == [dst |-> NetServerEther, ip |-> ServerIP, pkt |-> TftpSend']
<1>2. /\ NetTxPacket' = packet /\ NetServerEther' = NetServerEther
      /\ NetSendPacket(PacketFrame(packet, TftpSend'.op))
      /\ UNCHANGED waitVars
  BY <1>1 DEF NetSendUDPPacket
<1>3. ~Asking' /\ KnownPorts' = KnownPorts
  BY <1>1, <1>2 DEF Asking, KnownPorts
<1>4. ArpInv'
  <2>1. NetTxPacket' = [dst |-> NetTxPacket'.dst, ip |-> NetTxPacket'.ip,
                        pkt |-> NetTxPacket'.pkt]
    BY <1>2
  <2> QED BY <1>1, <1>2, <1>3, <2>1 DEF LoopInv, ArpInv, waitVars
<1>5. TftpSend'.src \in KnownPorts
  <2>1. TftpSend'.src = TftpOurPort
    BY DEF TftpSend
  <2> QED BY <2>1 DEF KnownPorts, LoopInv, ArpInv
<1>6. GoodOut(PacketFrame(packet, TftpSend'.op), KnownPorts)
  BY <1>1, <1>5 DEF GoodOut, PacketFrame
<1>7. OutQueue(outq', KnownPorts)
  BY <1>2, <1>6, SentOut DEF LoopInv, NetworkInv
<1> QED BY <1>3, <1>4, <1>7

LEMMA KeepsRxUdp ==
    ASSUME LoopInv, NEW f, RxUdpSends(f) \/ RxUdpSilent(f) \/ RxUdpDropped(f)
    PROVE  LoopInv'
<1>1. CASE RxUdpDropped(f)
  BY <1>1, KeepsTaken DEF RxUdpDropped
<1>2. CASE RxUdpSends(f) \/ RxUdpSilent(f)
  <2>1. /\ Received(f) /\ f.type = "UDP" /\ udp_packet_handler = "TftpHandler"
        /\ TftpHandlerSends(f.pkt) \/ TftpHandlerSilent(f.pkt)
        /\ pc' = pc /\ udp_packet_handler' = udp_packet_handler
        /\ proto' = proto /\ result' = result /\ commands' = commands
        /\ NetPingIP' = NetPingIP /\ srv' = srv
    BY <1>2 DEF RxUdpSends, RxUdpSilent, cmdVars, hostVars
  <2>2. /\ TransferTypes' /\ TftpOurPort' = TftpOurPort
        /\ net_state' \in {net_state, "SUCCESS", "FAIL"}
        /\ timeHandler' \in {timeHandler, "TftpTimeout"}
        /\ f.pkt.dst = TftpOurPort
    BY <2>1, ReceivedFacts, HandlerTypes DEF GoodIn, LoopInv
  <2>3. InLoop /\ proto = "TFTPGET" /\ ~Asking /\ InLoop' /\ pc = "rx"
    BY <2>1, <2>2, NotAsking, ReceivedFacts DEF InLoop
  <2>4. ControlInv'
    BY <2>1, <2>2, <2>3 DEF LoopInv, ControlInv, HandlersBelong
  <2>5. ArpInv' /\ KnownPorts' = KnownPorts /\ OutQueue(outq', KnownPorts)
    <3>1. CASE RxUdpSends(f)
      BY <2>1, <2>2, <2>3, <3>1, TransferSends DEF RxUdpSends
    <3>2. CASE RxUdpSilent(f)
      <4>1. /\ UNCHANGED <<NetArpWaitPacketIP, NetArpWaitTry, NetArpWaitPacketMAC>>
            /\ UNCHANGED <<NetTxPacket, NetServerEther, outq>>
        BY <3>2 DEF RxUdpSilent, arpVars, waitVars
      <4>2. ~Asking' /\ KnownPorts' = KnownPorts
        BY <2>1, <2>2, <2>3, <4>1 DEF Asking, KnownPorts
      <4>3. ArpInv'
        BY <2>1, <2>2, <2>3, <4>1, <4>2 DEF LoopInv, ArpInv
      <4>4. OutQueue(outq', KnownPorts)
        BY <4>1 DEF LoopInv, NetworkInv
      <4> QED BY <4>2, <4>3, <4>4
    <3> QED BY <1>2, <3>1, <3>2
  <2>6. NetworkInv'
    BY <2>1, <2>5, ReceivedFacts DEF LoopInv, NetworkInv
  <2> QED BY <2>2, <2>4, <2>5, <2>6 DEF LoopInv
<1> QED BY <1>1, <1>2

-----------------------------------------------------------------------------
(* The rest of an iteration.                                               *)

(* Going on to the next phase.                                             *)
LEMMA KeepsPhase ==
    ASSUME LoopInv, RxDone \/ KbdNothing \/ ArpNotExpired \/ TimerNotExpired
                    \/ SwitchContinue
    PROVE  LoopInv'
<1> USE DEF loopVars, timerVars, tftpVars, fileVars, arpVars, waitVars, cmdVars, hostVars
<1>1. /\ InLoop /\ InLoop' /\ pc' \in {"rx", "kbd", "arp", "timer", "switch"}
      /\ pc' = "rx" => pc = "switch" /\ net_state = "CONTINUE"
      /\ pc = "switch" => pc' = "rx"
      /\ UNCHANGED <<net_state, timeHandler, TftpState, TftpOurPort,
                     TftpTimeoutCount, TftpBlkSize, TftpBlockWrapOffset,
                     NetBootFileXferSize, udp_packet_handler>>
      /\ UNCHANGED <<proto, result, commands, NetPingIP, arpVars>>
      /\ UNCHANGED <<inq, outq, srv>>
  BY DEF RxDone, KbdNothing, ArpNotExpired, TimerNotExpired, SwitchContinue, InLoop
<1>2. ControlInv'
  BY <1>1 DEF LoopInv, ControlInv, HandlersBelong
<1>3. TransferTypes' /\ ArpInv'
  BY <1>1 DEF LoopInv, TransferTypes, ArpInv, TftpWaits, Waits, Asking
<1>4. Asking' => Asking
  BY <1>1 DEF Asking
<1>5. NetworkInv'
  BY <1>1, <1>4, NetworkStays
<1> QED BY <1>2, <1>3, <1>5 DEF LoopInv

(* NetLoop() returns: nothing of the command is left installed.            *)
LEMMA KeepsReturn ==
    ASSUME LoopInv, KbdAbort \/ SwitchReturn
    PROVE  LoopInv'
<1> USE DEF tftpVars, fileVars, arpVars, waitVars, hostVars
<1>1. /\ udp_packet_handler' = "dummy" /\ timeHandler' = "none"
      /\ pc' \in {"kernel", "shell"} /\ ~InLoop'
      /\ result' \in {-1, NetBootFileXferSize}
      /\ UNCHANGED <<net_state, TftpTimeoutCount, TftpBlkSize, TftpBlockWrapOffset,
                     NetBootFileXferSize, NetArpWaitTry, NetArpWaitPacketMAC,
                     NetTxPacket, TftpOurPort>>
      /\ UNCHANGED <<proto, commands, NetPingIP>>
      /\ UNCHANGED <<inq, outq, srv>>
  BY DEF KbdAbort, SwitchReturn, Return, NetSetTimeout, InLoop
<1>2. ControlInv'
  BY <1>1 DEF LoopInv, ControlInv, HandlersBelong, TransferTypes
<1>3. ~Asking'
  BY <1>1 DEF Asking
<1>4. TransferTypes' /\ ArpInv'
  BY <1>1, <1>3 DEF LoopInv, TransferTypes, ArpInv
<1>5. NetworkInv'
  BY <1>1, <1>3, NetworkStays
<1> QED BY <1>2, <1>4, <1>5 DEF LoopInv

LEMMA KeepsArpExpired ==
    ASSUME LoopInv, ArpExpired
    PROVE  LoopInv'
<1>1. /\ pc = "arp" /\ pc' = "timer" /\ InLoop /\ InLoop'
      /\ UNCHANGED <<net_state, timeHandler, TftpState, TftpOurPort,
                     TftpTimeoutCount, TftpBlkSize, TftpBlockWrapOffset,
                     NetBootFileXferSize, udp_packet_handler>>
      /\ UNCHANGED <<proto, result, commands, NetPingIP>>
      /\ UNCHANGED <<inq, srv>>
  BY DEF ArpExpired, loopVars, timerVars, tftpVars, fileVars, cmdVars, hostVars, InLoop
<1>2. /\ NetArpWaitPacketIP # "0"
      /\ UNCHANGED <<NetArpWaitPacketIP, NetArpWaitPacketMAC,
                     NetArpWaitTxPacketSize, NetTxPacket, NetServerEther>>
      /\ NetArpWaitTry' \in {0, NetArpWaitTry + 1} /\ NetArpWaitTry' < ARP_TIMEOUT_COUNT
      /\ \/ /\ NetArpWaitReplyIP' = NextHop(NetArpWaitPacketIP)
            /\ NetSendPacket([type |-> "ARPREQ", ip |-> NextHop(NetArpWaitPacketIP)])
         \/ UNCHANGED <<NetArpWaitReplyIP, outq>>
  BY ArpConstants
  DEF ArpExpired, ArpTimeoutAsk, ArpTimeoutLimit, ArpTimerFires, ArpRequest,
      ArpConstants
<1>3. ControlInv'
  BY <1>1 DEF LoopInv, ControlInv, HandlersBelong
<1>4. TransferTypes'
  BY <1>1 DEF LoopInv, TransferTypes
<1>5. NetArpWaitTry' \in 0 .. (ARP_TIMEOUT_COUNT - 1)
  BY <1>2, ArpConstants DEF LoopInv, ArpInv, ArpConstants
<1>6. \A ip, op : Waits(ip, op) => Waits(ip, op)'
  BY <1>2 DEF Waits
<1>7. Asking' <=> Asking
  BY <1>1, <1>2 DEF Asking
<1>8. ArpInv'
  <2>1. (InLoop' /\ proto' = "PING" /\ NetArpWaitPacketIP' # "0") =>
            Waits(NetPingIP, "ECHO_REQUEST")'
    BY <1>1, <1>2 DEF LoopInv, ArpInv, Waits
  <2>2. TftpWaits => TftpWaits'
    BY <1>1, <1>2 DEF TftpWaits, Waits
  <2> QED BY <1>1, <1>2, <1>5, <1>7, <2>1, <2>2 DEF LoopInv, ArpInv
<1>9. NetworkInv'
  <2>1. CASE UNCHANGED outq
    BY <1>1, <1>7, <2>1, NetworkStays
  <2>2. CASE NetSendPacket([type |-> "ARPREQ", ip |-> NextHop(NetArpWaitPacketIP)])
    BY <1>1, <1>7, <2>2, NetworkSends, ArpGoodOut DEF LoopInv, NetworkInv
  <2> QED BY <1>2, <2>1, <2>2
<1> QED BY <1>3, <1>4, <1>8, <1>9 DEF LoopInv

LEMMA KeepsTftpTimeout ==
    ASSUME LoopInv, TimerTftpRetry \/ TimerTftpGiveUp
    PROVE  LoopInv'
<1> USE DEF loopVars, timerVars, tftpVars, fileVars, cmdVars, hostVars
<1>0. TftpTimeoutCount \in 0 .. (TIMEOUT_COUNT + 1) /\ TIMEOUT_COUNT \in Nat
  BY TftpConstants DEF TftpConstants, LoopInv, TransferTypes
<1>1. /\ pc = "timer" /\ pc' = "switch" /\ InLoop /\ InLoop'
      /\ timeHandler = "TftpTimeout" /\ timeHandler' \in {"none", "TftpTimeout"}
      /\ TftpTimeoutCount' \in 0 .. (TIMEOUT_COUNT + 1)
      /\ UNCHANGED <<net_state, TftpState, TftpOurPort, TftpBlkSize,
                     TftpBlockWrapOffset, NetBootFileXferSize, udp_packet_handler>>
      /\ UNCHANGED <<proto, result, commands, NetPingIP>>
      /\ UNCHANGED <<inq, srv>>
  <2>1. CASE TimerTftpRetry
    BY <1>0, <2>1
    DEF TimerTftpRetry, TftpTimeoutRetry, TimerFires, NetSetTimeout, InLoop
  <2>2. CASE TimerTftpGiveUp
    BY <1>0, <2>2
    DEF TimerTftpGiveUp, TftpTimeoutGiveUp, TimerFires, NetSetTimeout, InLoop
  <2> QED BY <2>1, <2>2
<1>2. proto = "TFTPGET"
  BY <1>1 DEF LoopInv, ControlInv
<1>3. ControlInv'
  BY <1>1, <1>2 DEF LoopInv, ControlInv, HandlersBelong
<1>4. TransferTypes'
  BY <1>1 DEF LoopInv, TransferTypes
<1>5. CASE TimerTftpGiveUp
  <2>1. /\ UNCHANGED <<NetArpWaitPacketIP, NetArpWaitTry, NetArpWaitPacketMAC>>
        /\ UNCHANGED <<NetArpWaitReplyIP, NetArpWaitTxPacketSize>>
        /\ UNCHANGED <<NetTxPacket, NetServerEther, outq>>
    BY <1>5 DEF TimerTftpGiveUp, arpVars, waitVars
  <2>2. Asking' <=> Asking
    BY <1>1, <2>1 DEF Asking
  <2>3. ArpInv'
    BY <1>1, <2>1, <2>2 DEF LoopInv, ArpInv, TftpWaits, Waits
  <2>4. NetworkInv'
    BY <1>1, <2>1, <2>2, NetworkStays
  <2> QED BY <1>3, <1>4, <2>3, <2>4 DEF LoopInv
<1>6. CASE TimerTftpRetry /\ ~Asking
  <2>1. ArpInv' /\ KnownPorts' = KnownPorts /\ OutQueue(outq', KnownPorts)
    BY <1>1, <1>2, <1>6, TransferSends DEF TimerTftpRetry
  <2>2. NetworkInv'
    BY <1>1, <2>1 DEF LoopInv, NetworkInv
  <2> QED BY <1>3, <1>4, <2>1, <2>2 DEF LoopInv
<1>7. CASE TimerTftpRetry /\ Asking
  <2>1. TftpWaits /\ NetServerEther = "0" /\ TftpSend'.op = "RRQ"
        /\ TftpSend'.src = TftpOurPort'
    BY <1>1, <1>7 DEF LoopInv, ArpInv, TftpWaits, TftpSend, Asking
  <2>2. /\ NetTxPacket' = [dst |-> "0", ip |-> ServerIP, pkt |-> TftpSend']
        /\ NetServerEther' = "0" /\ NetArpWaitPacketIP' = ServerIP
        /\ NetArpWaitPacketMAC' = "NetServerEther"
        /\ NetArpWaitTxPacketSize' = TftpSend'.op
        /\ NetArpWaitTry' = 1 /\ NetArpWaitReplyIP' = NextHop(ServerIP)
        /\ NetSendPacket([type |-> "ARPREQ", ip |-> NextHop(ServerIP)])
    BY <1>7, <2>1 DEF TimerTftpRetry, NetSendUDPPacket, ArpRequest
  <2>3. ArpInv'
    <3>1. NetArpWaitTry' \in 0 .. (ARP_TIMEOUT_COUNT - 1)
      BY <2>2, ArpConstants DEF ArpConstants
    <3>2. TftpWaits'
      BY <1>1, <2>1, <2>2 DEF TftpWaits, Waits
    <3>3. TftpOurPort' \in 0 .. (1023 + commands')
      BY <1>1, <1>2 DEF LoopInv, ArpInv
    <3> QED BY <1>1, <1>2, <2>2, <3>1, <3>2, <3>3 DEF ArpInv
  <2>4. Asking'
    BY <1>1, <1>2, <2>2 DEF Asking
  <2>5. NetworkInv'
    BY <1>1, <1>7, <2>2, <2>4, NetworkSends, ArpGoodOut DEF LoopInv, NetworkInv
  <2> QED BY <1>3, <1>4, <2>3, <2>5 DEF LoopInv
<1> QED BY <1>5, <1>6, <1>7

(* ping_timeout(), and time that passes.                                   *)
LEMMA KeepsTimer ==
    ASSUME LoopInv, TimerPing \/ TimerExpires \/ ArpTimerExpires
    PROVE  LoopInv'
<1> USE DEF loopVars, timerVars, tftpVars, fileVars, arpVars, waitVars, cmdVars, hostVars
<1>1. /\ InLoop /\ InLoop'
      /\ \/ /\ pc = "timer" /\ pc' = "switch" /\ timeHandler = "ping_timeout"
            /\ timeHandler' = "none" /\ net_state' = "FAIL"
         \/ UNCHANGED <<pc, timeHandler, net_state>>
      /\ UNCHANGED <<TftpState, TftpOurPort, TftpTimeoutCount, TftpBlkSize,
                     TftpBlockWrapOffset, NetBootFileXferSize, udp_packet_handler>>
      /\ UNCHANGED <<proto, result, commands, NetPingIP>>
      /\ UNCHANGED <<NetArpWaitPacketIP, NetArpWaitTry, NetArpWaitPacketMAC>>
      /\ UNCHANGED <<NetArpWaitReplyIP, NetArpWaitTxPacketSize>>
      /\ UNCHANGED <<NetTxPacket, NetServerEther>>
      /\ UNCHANGED <<inq, outq, srv>>
  BY DEF TimerPing, TimerExpires, ArpTimerExpires, TimerFires, NetSetTimeout, InLoop
<1>2. ControlInv'
  BY <1>1 DEF LoopInv, ControlInv, HandlersBelong
<1>3. TransferTypes'
  BY <1>1 DEF LoopInv, TransferTypes
<1>4. Asking' <=> Asking
  BY <1>1 DEF Asking
<1>5. ArpInv'
  BY <1>1, <1>4 DEF LoopInv, ArpInv, TftpWaits, Waits
<1>6. NetworkInv'
  BY <1>1, <1>4, NetworkStays
<1> QED BY <1>2, <1>3, <1>5, <1>6 DEF LoopInv

-----------------------------------------------------------------------------
(* The medium and the hosts.                                               *)

(* They change nothing of the client's.                                    *)
LEMMA ClientStays ==
    ASSUME LoopInv, UNCHANGED clientVars,
           InQueue(inq', KnownPorts), OutQueue(outq', KnownPorts),
           Sessions(srv', KnownPorts)
    PROVE  LoopInv'
<1> USE DEF clientVars, loopVars, timerVars, tftpVars, fileVars, arpVars, waitVars,
        cmdVars
<1>1. ControlInv'
  BY DEF LoopInv, ControlInv, HandlersBelong, InLoop
<1>2. TransferTypes' /\ ArpInv'
  BY DEF LoopInv, TransferTypes, ArpInv, TftpWaits, Waits, Asking, InLoop
<1>3. KnownPorts' = KnownPorts
  BY DEF KnownPorts, Asking, InLoop
<1> QED BY <1>1, <1>2, <1>3 DEF LoopInv, NetworkInv

LEMMA SentFacts ==
    ASSUME LoopInv, NEW f, Sent(f)
    PROVE  /\ OutQueue(outq', KnownPorts) /\ GoodOut(f, KnownPorts)
           /\ InQueue(inq, KnownPorts) /\ Sessions(srv, KnownPorts)
  BY TakenOut DEF LoopInv, NetworkInv, Sent

(* A packet of the server to a port that is known.                         *)
LEMMA SessionGoodIn ==
    ASSUME NEW ports, NEW p, NEW s \in Session, s.peer \in ports
    PROVE  GoodIn(UdpFrame(SessionPkt(p, s)), ports)
<1>1. s.blk \in Nat /\ s.size \in Nat \ {0} /\ FileSize \in Int /\ SeqSize \in Nat
      /\ SeqSize > 1
  BY ServerConstants DEF Session, ServerConstants
<1>2. s.blk % SeqSize \in Int
  BY <1>1
<1>3. BlockLen(s.size, s.blk) \in Int
  <2>1. (s.blk - 1) * s.size \in Int
    BY <1>1, MulInt
  <2> QED BY <1>1, <2>1 DEF BlockLen, BlockFirst
<1> DEFINE m == SessionPkt(p, s)
<1>4. /\ m.dst = s.peer
      /\ m.op = "DATA" => m.block = s.blk % SeqSize /\ m.len = BlockLen(s.size, s.blk)
      /\ m.op = "OACK" => m.blksize = s.size
  BY DEF SessionPkt
<1>5. UdpFrame(m).type = "UDP" /\ UdpFrame(m).pkt = m
  BY DEF UdpFrame
<1> HIDE DEF m
<1>6. GoodIn(UdpFrame(m), ports)
  BY <1>1, <1>2, <1>3, <1>4, <1>5 DEF GoodIn
<1> QED BY <1>6 DEF m

LEMMA ErrorGoodIn ==
    ASSUME NEW ports, NEW p, NEW peer \in ports, NEW code
    PROVE  GoodIn(UdpFrame(ErrorPkt(p, peer, code)), ports)
  BY DEF GoodIn, UdpFrame, ErrorPkt

(* The sessions after what the server does.                                *)
LEMMA OpenSessions ==
    ASSUME NEW ports, Sessions(srv, ports), NEW p \in Ports, NEW m, m.src \in ports,
           ports \subseteq Nat, ServerOpen(p, m) \/ ServerRefuse(p, m)
    PROVE  Sessions(srv', ports)
<1>1. srv \in [Ports -> Session] /\ m.src \in Nat
  BY DEF Sessions
<1>2. PICK s \in Session : s.peer = m.src /\ srv' = [srv EXCEPT ![p] = s]
  <2>1. CASE ServerOpen(p, m)
    <3>1. \A size \in OackSizes \cup {PlainSize} : size \in Nat \ {0}
      BY ServerConstants DEF ServerConstants
    <3> QED BY <1>1, <2>1, <3>1 DEF ServerOpen, Session
  <2>2. CASE ServerRefuse(p, m)
    <3> DEFINE s == [srv[p] EXCEPT !.st = "done", !.peer = m.src]
    <3>1. s \in Session /\ s.peer = m.src
      BY <1>1 DEF Session
    <3>2. srv' = [srv EXCEPT ![p] = s]
      BY <1>1, <2>2 DEF ServerRefuse, Session
    <3> QED BY <3>1, <3>2
  <2> QED BY <2>1, <2>2
<1> QED BY <1>1, <1>2 DEF Sessions

LEMMA ServeSessions ==
    ASSUME NEW ports, Sessions(srv, ports), NEW p \in Ports,
           \/ \E m : ServerNextBlock(p, m) \/ ServerFinish(p, m)
           \/ ServerFail(p)
    PROVE  Sessions(srv', ports)
<1>1. srv \in [Ports -> Session] /\ srv[p] \in Session /\ srv[p].peer \in ports
  BY DEF Sessions
<1>2. CASE \E m : ServerNextBlock(p, m)
  <2>1. srv' = [srv EXCEPT ![p].st = "data", ![p].blk = @ + 1]
    BY <1>2 DEF ServerNextBlock
  <2>2. srv[p].blk + 1 \in Nat
    BY <1>1 DEF Session
  <2>3. srv' \in [Ports -> Session] /\ \A q \in Ports : srv'[q].peer = srv[q].peer
    BY <1>1, <2>1, <2>2 DEF Session
  <2> QED BY <2>3 DEF Sessions
<1>3. CASE (\E m : ServerFinish(p, m)) \/ ServerFail(p)
  <2>1. srv' = [srv EXCEPT ![p].st = "done"]
    BY <1>3 DEF ServerFinish, ServerFail
  <2>2. srv' \in [Ports -> Session] /\ \A q \in Ports : srv'[q].peer = srv[q].peer
    BY <1>1, <2>1 DEF Session
  <2> QED BY <2>2 DEF Sessions
<1> QED BY <1>2, <1>3

LEMMA SessionAt ==
    ASSUME NEW ports, NEW s, Sessions(s, ports), NEW p \in Ports
    PROVE  s[p] \in Session /\ s[p].peer \in ports
  BY DEF Sessions

LEMMA KeepsAnswer ==
    ASSUME LoopInv, NEW f, HostAnswers(f) \/ ServerAnswers(f) \/ HostIgnores(f)
    PROVE  LoopInv'
<1> DEFINE known == KnownPorts
<1>1. Sent(f) /\ UNCHANGED clientVars
  BY DEF HostAnswers, ServerAnswers, HostIgnores
<1>2. /\ OutQueue(outq', known) /\ GoodOut(f, known)
      /\ InQueue(inq, known) /\ Sessions(srv, known)
  BY <1>1, SentFacts
<1>3. known \subseteq Nat
  BY DEF KnownPorts
<1> SUFFICES InQueue(inq', known) /\ Sessions(srv', known)
  BY <1>1, <1>2, ClientStays
<1> HIDE DEF known
<1>4. CASE HostAnswers(f)
  <2>1. \/ Deliver([type |-> "ARPREP", spa |-> f.ip, sha |-> f.ip])
        \/ Deliver([type |-> "ECHO_REPLY", spa |-> f.ip])
    BY <1>4 DEF HostAnswers
  <2>2. GoodIn([type |-> "ARPREP", spa |-> f.ip, sha |-> f.ip], known)
        /\ GoodIn([type |-> "ECHO_REPLY", spa |-> f.ip], known)
    BY DEF GoodIn
  <2>3. srv' = srv
    BY <1>4 DEF HostAnswers, hostVars
  <2> QED BY <1>2, <2>1, <2>2, <2>3, Delivered
<1>5. CASE HostIgnores(f)
  BY <1>2, <1>5 DEF HostIgnores, hostVars
<1>6. CASE ServerAnswers(f)
  <2>1. PICK p \in Ports :
          \/ /\ Reaches(f, "RRQ") /\ ServerOpen(p, f.pkt)
             /\ Deliver(UdpFrame(SessionPkt(p, srv'[p])))
          \/ /\ Reaches(f, "RRQ") /\ ServerRefuse(p, f.pkt)
             /\ \E code \in ErrorCodes :
                  Deliver(UdpFrame(ErrorPkt(p, f.pkt.src, code)))
          \/ /\ Reaches(f, "ACK") /\ ServerNextBlock(p, f.pkt)
             /\ Deliver(UdpFrame(SessionPkt(p, srv'[p])))
          \/ /\ Reaches(f, "ACK") /\ ServerFinish(p, f.pkt)
             /\ UNCHANGED inq
    BY <1>6 DEF ServerAnswers
  <2>2. Reaches(f, "RRQ") => f.pkt.src \in known
    BY <1>2 DEF Reaches, GoodOut
  <2>3. Sessions(srv', known)
    BY <1>2, <1>3, <2>1, <2>2, OpenSessions, ServeSessions
  <2>4. GoodIn(UdpFrame(SessionPkt(p, srv'[p])), known)
    BY <2>3, SessionAt, SessionGoodIn
  <2>5. Reaches(f, "RRQ") =>
          \A code \in ErrorCodes : GoodIn(UdpFrame(ErrorPkt(p, f.pkt.src, code)), known)
    BY <2>2, ErrorGoodIn
  <2>6. InQueue(inq', known)
    BY <1>2, <2>1, <2>4, <2>5, Delivered
  <2> QED BY <2>3, <2>6
<1> QED BY <1>4, <1>5, <1>6

LEMMA KeepsHost ==
    ASSUME LoopInv,
           \/ \E p \in Ports : ServerRetransmits(p) \/ ServerAborts(p)
           \/ HostRequests \/ LoseFrame
    PROVE  LoopInv'
<1> DEFINE known == KnownPorts
<1>1. UNCHANGED clientVars
  BY DEF ServerRetransmits, ServerAborts, HostRequests, LoseFrame
<1>2. OutQueue(outq, known) /\ InQueue(inq, known) /\ Sessions(srv, known)
  BY DEF LoopInv, NetworkInv
<1> SUFFICES OutQueue(outq', known) /\ InQueue(inq', known) /\ Sessions(srv', known)
  BY <1>1, ClientStays
<1> HIDE DEF known
<1>3. ASSUME NEW p \in Ports, ServerRetransmits(p)
      PROVE  OutQueue(outq', known) /\ InQueue(inq', known) /\ Sessions(srv', known)
  <2>1. /\ Deliver(UdpFrame(SessionPkt(p, srv[p])))
        /\ outq' = outq /\ srv' = srv
    BY <1>3 DEF ServerRetransmits, hostVars
  <2>2. GoodIn(UdpFrame(SessionPkt(p, srv[p])), known)
    BY <1>2, SessionAt, SessionGoodIn
  <2> QED BY <1>2, <2>1, <2>2, Delivered
<1>4. ASSUME NEW p \in Ports, ServerAborts(p)
      PROVE  OutQueue(outq', known) /\ InQueue(inq', known) /\ Sessions(srv', known)
  <2>1. PICK code \in ErrorCodes : Deliver(UdpFrame(ErrorPkt(p, srv[p].peer, code)))
    BY <1>4 DEF ServerAborts
  <2>2. GoodIn(UdpFrame(ErrorPkt(p, srv[p].peer, code)), known)
    BY <1>2, SessionAt, ErrorGoodIn
  <2>3. ServerFail(p) /\ outq' = outq
    BY <1>4 DEF ServerAborts
  <2> QED BY <1>2, <2>1, <2>2, <2>3, Delivered, ServeSessions
<1>5. CASE HostRequests
  <2>1. PICK host \in PingHosts, type \in {"ARPREQ", "ECHO_REQUEST"} :
          Deliver([type |-> type, spa |-> host])
    BY <1>5 DEF HostRequests
  <2>2. GoodIn([type |-> type, spa |-> host], known)
    BY DEF GoodIn
  <2>3. outq' = outq /\ srv' = srv
    BY <1>5 DEF HostRequests
  <2> QED BY <1>2, <2>1, <2>2, <2>3, Delivered
<1>6. CASE LoseFrame
  BY <1>2, <1>6, TakenIn, TakenOut DEF LoseFrame
<1> QED BY <1>3, <1>4, <1>5, <1>6

-----------------------------------------------------------------------------
(* The theorems.                                                           *)

LEMMA KeepsStutter ==
    ASSUME LoopInv, UNCHANGED vars
    PROVE  LoopInv'
  BY ClientStays DEF vars, clientVars, hostVars, LoopInv, NetworkInv

LEMMA LoopInvStep == LoopInv /\ [Next]_vars => LoopInv'
<1> SUFFICES ASSUME LoopInv, [Next]_vars PROVE LoopInv'
  OBVIOUS
<1>1. CASE Command
  BY <1>1, KeepsTftpboot, KeepsPing DEF Command
<1>2. CASE Rx
  BY <1>2, KeepsRxArp, KeepsRxEcho, KeepsRxUdp DEF Rx
<1>3. CASE Iteration
  BY <1>3, KeepsPhase, KeepsReturn, KeepsArpExpired, KeepsTftpTimeout, KeepsTimer
  DEF Iteration
<1>4. CASE Time
  BY <1>4, KeepsTimer DEF Time
<1>5. CASE Hosts
  BY <1>5, KeepsAnswer, KeepsHost DEF Hosts, Answer, Retransmit
<1>6. CASE UNCHANGED vars
  BY <1>6, KeepsStutter
<1> QED BY <1>1, <1>2, <1>3, <1>4, <1>5, <1>6 DEF Next

LEMMA LoopInvAlways == Spec => []LoopInv
  BY InitLoop, LoopInvStep, PTL DEF Spec

(* The loop's own variables and the ARP state keep their types: in         *)
(* particular NetArpWaitTry stays below its limit, the queues within their *)
(* bounds, and NetLoop() returns a size or -1 whatever was received.       *)
THEOREM LoopTypeCorrect == Spec => []TypeOK
<1>1. LoopInv => TypeOK
  BY DEF LoopInv, ControlInv, TransferTypes, ArpInv, NetworkInv, InQueue,
      OutQueue, TypeOK
<1> QED BY <1>1, LoopInvAlways, PTL

(* The packet that waits for an ARP reply is the running command's,        *)
(* whatever an earlier command, aborted or failed, left in the globals of  *)
(* arp.c and in NetTxPacket.                                               *)
THEOREM WaitingPacketCurrent == Spec => []WaitingPacketIsCurrent
<1>1. LoopInv => WaitingPacketIsCurrent
  <2> SUFFICES ASSUME LoopInv, InLoop, NetArpWaitPacketIP # "0"
               PROVE  WaitingPacketIsCurrent
    BY DEF WaitingPacketIsCurrent
  <2>1. CASE proto = "TFTPGET"
    <3>1. Asking /\ TftpWaits
      BY <2>1 DEF LoopInv, ArpInv, Asking
    <3> QED BY <2>1, <3>1 DEF TftpWaits, Waits, WaitingPacketIsCurrent
  <2>2. CASE proto = "PING"
    <3>1. Waits(NetPingIP, "ECHO_REQUEST")
      BY <2>2 DEF LoopInv, ArpInv
    <3> QED BY <2>2, <3>1 DEF Waits, WaitingPacketIsCurrent
  <2> QED BY <2>1, <2>2 DEF LoopInv, ControlInv
<1> QED BY <1>1, LoopInvAlways, PTL

(* Every IP packet handed to eth_send() has the Ethernet address of its    *)
(* next hop and its own length.                                            *)
THEOREM FramesAddressed == Spec => []FramesAreAddressed
<1>1. LoopInv => FramesAreAddressed
  BY DEF LoopInv, NetworkInv, OutQueue, Frames, GoodOut, FramesAreAddressed
<1> QED BY <1>1, LoopInvAlways, PTL

(* The timer and the UDP handler belong to the running command, and none   *)
(* is left installed when NetLoop() has returned.                          *)
THEOREM HandlersOfCommand == Spec => []HandlersBelong
<1>1. LoopInv => HandlersBelong
  BY DEF LoopInv, ControlInv
<1> QED BY <1>1, LoopInvAlways, PTL
=============================================================================
