------------------------------- MODULE NetLoop ------------------------------
(***************************************************************************)
(* NetLoop() of net/net_core.c and the commands of lib/cli.c that call it, *)
(* with ARP, TFTP and ping below it and the network and its hosts outside. *)
(*                                                                         *)
(* The shell runs one command after another.  A command is an iteration of *)
(* phases: receive ("rx"), look at the keyboard ("kbd"), the ARP timer     *)
(* ("arp"), the loop timer ("timer"), the switch on net_state ("switch").  *)
(* Globals keep their values from one command to the next, and a frame     *)
(* that is late may arrive in a later command.                             *)
(*                                                                         *)
(* The medium is a queue of frames in each direction, which may lose       *)
(* frames.  Durations are abstracted: a timer that is running may be found *)
(* to have expired at any time or, with PromptHosts, only when no frame is *)
(* on its way.                                                             *)
(***************************************************************************)
EXTENDS Tftp, TftpServer, Arp

CONSTANTS
    Commands,             \* subset of {"TFTPGET", "PING"} the user may give
    MaxCommands,          \* bound on the commands given
    PingHosts,            \* arguments of the ping command
    ServerIP,             \* NetServerIP, set by NetInitLoop()
    MaxLoss,              \* bound on the frames lost
    MaxUnsolicited,       \* bound on ARP and echo requests from other hosts
    UserAborts,           \* may the user press 'q'?
    PromptHosts           \* are timeouts longer than a round trip?

ASSUME LoopConstants ==
    /\ Commands \subseteq {"TFTPGET", "PING"}
    /\ MaxCommands \in Nat /\ MaxLoss \in Nat /\ MaxUnsolicited \in Nat
    /\ UserAborts \in BOOLEAN /\ PromptHosts \in BOOLEAN
    /\ SeqSize = TFTP_SEQUENCE_SIZE /\ PlainSize = TFTP_BLOCK_SIZE

VARIABLES
    pc,                   \* "shell", a phase of NetLoop(), or "kernel"
    proto,                \* the argument of NetLoop()
    result,               \* what the last NetLoop() returned
    udp_packet_handler,
    NetPingIP,
    inq,                  \* frames on their way to us
    commands,             \* number of commands given
    losses,               \* number of frames lost
    unsolicited           \* number of requests from other hosts

hostVars == <<srv, losses, unsolicited>>
cmdVars == <<proto, result, commands, NetPingIP>>
vars == <<loopVars, tftpVars, fileVars, arpVars, outq, inq, pc,
          udp_packet_handler, cmdVars, hostVars>>

Init ==
    /\ net_state = "CONTINUE" /\ timeHandler = "none" /\ timeDue = FALSE
    /\ TftpState = "none" /\ TftpRemotePort = 0 /\ TftpOurPort = 0
    /\ TftpTimeoutCount = 0 /\ TftpBlock = 0 /\ TftpLastBlock = 0
    /\ TftpBlockWrapOffset = 0 /\ TftpBlkSize = TFTP_BLOCK_SIZE
    /\ NetBootFileXferSize = 0 /\ mem = EmptyMem
    /\ ArpInit
    /\ udp_packet_handler = "dummy" /\ NetPingIP = "0"
    /\ pc = "shell" /\ proto = "none" /\ result = -1
    /\ ServerInit
    /\ inq = <<>> /\ commands = 0 /\ losses = 0 /\ unsolicited = 0

-----------------------------------------------------------------------------
(* Commands.                                                               *)

GiveCommand(p) ==
    /\ pc = "shell" /\ p \in Commands /\ commands < MaxCommands
    /\ commands' = commands + 1
    /\ proto' = p
    /\ pc' = "rx"
    /\ net_state' = "CONTINUE"
    /\ NetBootFileXferSize' = 0

(* do_tftpboot(), NetLoop(TFTPGET) up to the receive loop.  TftpStart()    *)
(* draws port 1024 + timer % 3072; the number of commands stands for the   *)
(* timer, so that the ports of different commands differ.                  *)
do_tftpboot ==
    /\ GiveCommand("TFTPGET")
    /\ TftpStart(1024 + commands)
    /\ udp_packet_handler' = "TftpHandler"
    /\ NetSendUDPPacket("0", ServerIP, TftpSend')
    /\ UNCHANGED <<result, NetPingIP, inq, hostVars>>

(* Operators named Mutant... are wrong on purpose; see module Tftp.        *)
MutantPingNoTimer ==
    /\ GiveCommand("PING")
    /\ \E host \in PingHosts : NetPingIP' = host /\ ping_send(host)
    /\ UNCHANGED <<timerVars, result, udp_packet_handler, tftpVars, mem, inq,
                   hostVars>>

(* do_ping(), NetLoop(PING) up to the receive loop.                        *)
do_ping ==
    /\ GiveCommand("PING")
    /\ \E host \in PingHosts : NetPingIP' = host /\ ping_send(host)
    /\ NetSetTimeout("ping_timeout")
    /\ UNCHANGED <<result, udp_packet_handler, tftpVars, mem, inq, hostVars>>

(* do_ping() with an address that string_to_ip() does not take: NetLoop()  *)
(* is not called.                                                          *)
do_ping_invalid ==
    /\ pc = "shell" /\ "PING" \in Commands /\ commands < MaxCommands
    /\ commands' = commands + 1
    /\ NetPingIP' = "0"
    /\ UNCHANGED <<loopVars, tftpVars, fileVars, arpVars, outq, inq, pc,
                   udp_packet_handler, proto, result, hostVars>>

-----------------------------------------------------------------------------
(* eth_rx(): NetReceive() for any number of the frames that have come.     *)
(* A frame that NetReceive() does not pass on (too short, a bad version or *)
(* checksum, a fragment, another host's) is, to the model, a lost frame.   *)

Received(f) == pc = "rx" /\ inq # <<>> /\ f = Head(inq) /\ inq' = Tail(inq)

RxArp(f) ==
    /\ Received(f)
    /\ ArpReceiveRequest(f) \/ ArpReceiveReply(f) \/ ArpIgnoreReply(f)
    /\ UNCHANGED <<pc, loopVars, tftpVars, fileVars, udp_packet_handler,
                   cmdVars, hostVars>>

(* ping_receive(): an echo reply counts if it is from NetPingIP.           *)
ping_receive_reply(f) ==
    net_state' = IF f.spa = NetPingIP THEN "SUCCESS" ELSE net_state

RxEchoReply(f) ==
    /\ Received(f) /\ f.type = "ECHO_REPLY"
    /\ ping_receive_reply(f)
    /\ UNCHANGED <<pc, timerVars, tftpVars, fileVars, arpVars, outq,
                   udp_packet_handler, cmdVars, hostVars>>

RxEchoRequest(f) ==
    /\ Received(f) /\ f.type = "ECHO_REQUEST"
    /\ NetSendPacket([type |-> "ECHO_REPLY", ip |-> f.spa])
    /\ UNCHANGED <<pc, loopVars, tftpVars, fileVars, arpVars,
                   udp_packet_handler, cmdVars, hostVars>>

(* A UDP packet goes to the current handler.                               *)
RxUdpSends(f) ==
    /\ Received(f) /\ f.type = "UDP" /\ udp_packet_handler = "TftpHandler"
    /\ TftpHandlerSends(f.pkt)
    /\ NetSendUDPPacket(NetServerEther, ServerIP, TftpSend')
    /\ UNCHANGED <<pc, udp_packet_handler, cmdVars, hostVars>>

RxUdpSilent(f) ==
    /\ Received(f) /\ f.type = "UDP" /\ udp_packet_handler = "TftpHandler"
    /\ TftpHandlerSilent(f.pkt)
    /\ UNCHANGED <<pc, arpVars, outq, udp_packet_handler, cmdVars, hostVars>>

RxUdpDropped(f) ==
    /\ Received(f) /\ f.type = "UDP"
    /\ udp_packet_handler = "dummy" \/ ~TftpAccepts(f.pkt)
    /\ UNCHANGED <<pc, loopVars, tftpVars, fileVars, arpVars, outq,
                   udp_packet_handler, cmdVars, hostVars>>

RxDone ==
    /\ pc = "rx" /\ pc' = "kbd"
    /\ UNCHANGED <<loopVars, tftpVars, fileVars, arpVars, outq, inq,
                   udp_packet_handler, cmdVars, hostVars>>

-----------------------------------------------------------------------------
(* The rest of an iteration.                                               *)

MutantKeepHandlers(r) ==
    /\ UNCHANGED <<udp_packet_handler, timerVars>>
    /\ result' = r
    /\ pc' = IF proto = "TFTPGET" /\ r >= 0 THEN "kernel" ELSE "shell"

(* net_cleanup_loop(), then the caller: do_tftpboot() jumps to the image   *)
(* unless NetLoop() returned a negative value; do_ping() returns.          *)
Return(r) ==
    /\ udp_packet_handler' = "dummy" /\ NetSetTimeout("none")
    /\ result' = r
    /\ pc' = IF proto = "TFTPGET" /\ r >= 0 THEN "kernel" ELSE "shell"

MutantAbortReturnsZero ==
    /\ pc = "kbd" /\ UserAborts
    /\ NetArpWaitPacketIP' = "0"
    /\ Return(0)
    /\ UNCHANGED <<net_state, tftpVars, fileVars, NetArpWaitReplyIP,
                   NetArpWaitPacketMAC, NetArpWaitTxPacketSize, NetArpWaitTry, arpDue,
                   NetTxPacket, NetServerEther, outq, inq, proto, commands,
                   NetPingIP, hostVars>>

(* 'q' was pressed: any ARP that has not completed is cancelled.           *)
KbdAbort ==
    /\ pc = "kbd" /\ UserAborts
    /\ NetArpWaitPacketIP' = "0"
    /\ Return(-1)
    /\ UNCHANGED <<net_state, tftpVars, fileVars, NetArpWaitReplyIP,
                   NetArpWaitPacketMAC, NetArpWaitTxPacketSize, NetArpWaitTry, arpDue,
                   NetTxPacket, NetServerEther, outq, inq, proto, commands,
                   NetPingIP, hostVars>>

KbdNothing ==
    /\ pc = "kbd" /\ pc' = "arp"
    /\ UNCHANGED <<loopVars, tftpVars, fileVars, arpVars, outq, inq,
                   udp_packet_handler, cmdVars, hostVars>>

ArpExpired ==
    /\ pc = "arp" /\ pc' = "timer"
    /\ ArpTimeoutAsk \/ ArpTimeoutLimit
    /\ UNCHANGED <<loopVars, tftpVars, fileVars, inq, udp_packet_handler,
                   cmdVars, hostVars>>

ArpNotExpired ==
    /\ pc = "arp" /\ pc' = "timer" /\ ~ArpTimerFires
    /\ UNCHANGED <<loopVars, tftpVars, fileVars, arpVars, outq, inq,
                   udp_packet_handler, cmdVars, hostVars>>

MutantRetryWithoutSend ==
    /\ pc = "timer" /\ pc' = "switch"
    /\ TftpTimeoutRetry
    /\ UNCHANGED <<arpVars, outq, inq, udp_packet_handler, cmdVars, hostVars>>

TimerTftpRetry ==
    /\ pc = "timer" /\ pc' = "switch"
    /\ TftpTimeoutRetry
    /\ NetSendUDPPacket(NetServerEther, ServerIP, TftpSend')
    /\ UNCHANGED <<inq, udp_packet_handler, cmdVars, hostVars>>

TimerTftpGiveUp ==
    /\ pc = "timer" /\ pc' = "switch"
    /\ TftpTimeoutGiveUp
    /\ UNCHANGED <<arpVars, outq, inq, udp_packet_handler, cmdVars, hostVars>>

(* ping_timeout(): "we did not get the reply".                             *)
TimerPing ==
    /\ pc = "timer" /\ pc' = "switch"
    /\ TimerFires("ping_timeout") /\ NetSetTimeout("none")
    /\ net_state' = "FAIL"
    /\ UNCHANGED <<tftpVars, fileVars, arpVars, outq, inq,
                   udp_packet_handler, cmdVars, hostVars>>

TimerNotExpired ==
    /\ pc = "timer" /\ pc' = "switch" /\ ~timeDue
    /\ UNCHANGED <<loopVars, tftpVars, fileVars, arpVars, outq, inq,
                   udp_packet_handler, cmdVars, hostVars>>

MutantFailReturnsSize ==
    /\ pc = "switch" /\ net_state \in {"SUCCESS", "FAIL"}
    /\ Return(NetBootFileXferSize)
    /\ UNCHANGED <<net_state, tftpVars, fileVars, arpVars, outq, inq, proto,
                   commands, NetPingIP, hostVars>>

SwitchReturn ==
    /\ pc = "switch" /\ net_state \in {"SUCCESS", "FAIL"}
    /\ Return(IF net_state = "SUCCESS" THEN NetBootFileXferSize ELSE -1)
    /\ UNCHANGED <<net_state, tftpVars, fileVars, arpVars, outq, inq, proto,
                   commands, NetPingIP, hostVars>>

SwitchContinue ==
    /\ pc = "switch" /\ net_state = "CONTINUE" /\ pc' = "rx"
    /\ UNCHANGED <<loopVars, tftpVars, fileVars, arpVars, outq, inq,
                   udp_packet_handler, cmdVars, hostVars>>

-----------------------------------------------------------------------------
(* The medium and the hosts on it.                                         *)

(* Time passes.  With PromptHosts a timer outlasts what is on its way.     *)
MayExpire == PromptHosts => inq = <<>> /\ outq = <<>>

InLoop == pc \notin {"shell", "kernel"}

TimerExpires ==
    /\ InLoop /\ timeHandler # "none" /\ ~timeDue /\ MayExpire
    /\ timeDue' = TRUE
    /\ UNCHANGED <<net_state, timeHandler, tftpVars, fileVars, arpVars, outq,
                   inq, pc, udp_packet_handler, cmdVars, hostVars>>

ArpTimerExpires ==
    /\ InLoop /\ NetArpWaitPacketIP # "0" /\ ~arpDue /\ MayExpire
    /\ arpDue' = TRUE
    /\ UNCHANGED <<loopVars, tftpVars, fileVars, NetArpWaitPacketIP,
                   NetArpWaitReplyIP, NetArpWaitPacketMAC,
                   NetArpWaitTxPacketSize, NetArpWaitTry, NetTxPacket,
                   NetServerEther, outq, inq, pc, udp_packet_handler, cmdVars,
                   hostVars>>

clientVars == <<loopVars, tftpVars, fileVars, arpVars, pc, udp_packet_handler,
                cmdVars>>

Deliver(f) == inq' = IF Len(inq) < QueueMax THEN Append(inq, f) ELSE inq

Sent(f) == outq # <<>> /\ f = Head(outq) /\ outq' = Tail(outq)

UdpFrame(pkt) == [type |-> "UDP", spa |-> ServerIP, pkt |-> pkt]

(* A packet reaches its host in a frame for the next hop with the length   *)
(* of the packet.                                                          *)
Reaches(f, op) ==
    /\ f.type = "IP" /\ f.pkt.op = op
    /\ f.dst = NextHop(f.ip) /\ f.size = op

(* Hosts answer ARP and echo requests.                                     *)
HostAnswers(f) ==
    /\ Sent(f)
    /\ \/ /\ f.type = "ARPREQ"
          /\ Deliver([type |-> "ARPREP", spa |-> f.ip, sha |-> f.ip])
       \/ /\ Reaches(f, "ECHO_REQUEST")
          /\ Deliver([type |-> "ECHO_REPLY", spa |-> f.ip])
    /\ UNCHANGED <<clientVars, hostVars>>

(* The server opens a session for an RRQ, or takes an acknowledgement.     *)
ServerAnswers(f) ==
    /\ Sent(f)
    /\ \E p \in Ports :
         \/ /\ Reaches(f, "RRQ") /\ ServerOpen(p, f.pkt)
            /\ Deliver(UdpFrame(SessionPkt(p, srv'[p])))
         \/ /\ Reaches(f, "RRQ") /\ ServerRefuse(p, f.pkt)
            /\ \E code \in ErrorCodes :
                 Deliver(UdpFrame(ErrorPkt(p, f.pkt.src, code)))
         \/ /\ Reaches(f, "ACK") /\ ServerNextBlock(p, f.pkt)
            /\ Deliver(UdpFrame(SessionPkt(p, srv'[p])))
         \/ /\ Reaches(f, "ACK") /\ ServerFinish(p, f.pkt)
            /\ UNCHANGED inq
    /\ UNCHANGED <<clientVars, losses, unsolicited>>

(* Nobody answers: a reply of ours, an RRQ when every port is taken, an    *)
(* acknowledgement that is not expected, a frame that reaches no host.     *)
Answered(f) ==
    \/ f.type = "ARPREQ" \/ Reaches(f, "ECHO_REQUEST")
    \/ Reaches(f, "RRQ") /\ \E p \in Ports : srv[p].st = "free"
    \/ Reaches(f, "ACK") /\ \E p \in Ports : ServerExpects(p, f.pkt)

HostIgnores(f) ==
    /\ Sent(f) /\ ~Answered(f)
    /\ UNCHANGED <<inq, clientVars, hostVars>>

ServerRetransmits(p) ==
    /\ srv[p].st \in {"oack", "data"} /\ Len(inq) < QueueMax /\ MayExpire
    /\ Deliver(UdpFrame(SessionPkt(p, srv[p])))
    /\ UNCHANGED <<outq, clientVars, hostVars>>

ServerAborts(p) ==
    /\ ServerFail(p) /\ Len(inq) < QueueMax
    /\ \E code \in ErrorCodes : Deliver(UdpFrame(ErrorPkt(p, srv[p].peer, code)))
    /\ UNCHANGED <<outq, clientVars, losses, unsolicited>>

(* Another host asks for our address or pings us.                          *)
HostRequests ==
    /\ unsolicited < MaxUnsolicited /\ Len(inq) < QueueMax
    /\ unsolicited' = unsolicited + 1
    /\ \E host \in PingHosts, type \in {"ARPREQ", "ECHO_REQUEST"} :
         Deliver([type |-> type, spa |-> host])
    /\ UNCHANGED <<outq, clientVars, srv, losses>>

LoseFrame ==
    /\ losses < MaxLoss /\ losses' = losses + 1
    /\ \/ inq # <<>> /\ inq' = Tail(inq) /\ UNCHANGED outq
       \/ outq # <<>> /\ outq' = Tail(outq) /\ UNCHANGED inq
    /\ UNCHANGED <<clientVars, srv, unsolicited>>

-----------------------------------------------------------------------------
Rx == \E f \in {inq[i] : i \in DOMAIN inq} :
          \/ RxArp(f) \/ RxEchoReply(f) \/ RxEchoRequest(f)
          \/ RxUdpSends(f) \/ RxUdpSilent(f) \/ RxUdpDropped(f)

Command == do_tftpboot \/ do_ping \/ do_ping_invalid

Iteration ==
    \/ RxDone \/ KbdAbort \/ KbdNothing
    \/ ArpExpired \/ ArpNotExpired
    \/ TimerTftpRetry \/ TimerTftpGiveUp \/ TimerPing \/ TimerNotExpired
    \/ SwitchReturn \/ SwitchContinue

Answer == \E f \in {outq[i] : i \in DOMAIN outq} :
              HostAnswers(f) \/ ServerAnswers(f) \/ HostIgnores(f)

Retransmit == \E p \in Ports : ServerRetransmits(p)

Hosts ==
    \/ Answer \/ Retransmit
    \/ \E p \in Ports : ServerAborts(p)
    \/ HostRequests \/ LoseFrame

Time == TimerExpires \/ ArpTimerExpires

Next == Command \/ Rx \/ Iteration \/ Time \/ Hosts

Spec == Init /\ [][Next]_vars

(* The loop runs, and frames that have come are eventually received; time  *)
(* passes, so a timer that may expire again and again does; the hosts      *)
(* answer, and a session goes on retransmitting.                           *)
Fairness ==
    /\ WF_vars(Iteration) /\ SF_vars(Rx)
    /\ SF_vars(TimerExpires) /\ SF_vars(ArpTimerExpires)
    /\ WF_vars(Answer)
    /\ \A p \in Ports : SF_vars(ServerRetransmits(p))

FairSpec == Spec /\ Fairness

-----------------------------------------------------------------------------
(* Properties.                                                             *)

(* Types of the loop's own variables and of the ARP state.                 *)
TypeOK ==
    /\ pc \in {"shell", "rx", "kbd", "arp", "timer", "switch", "kernel"}
    /\ proto \in {"none", "TFTPGET", "PING"}
    /\ net_state \in {"CONTINUE", "SUCCESS", "FAIL"}
    /\ timeHandler \in {"none", "TftpTimeout", "ping_timeout"}
    /\ udp_packet_handler \in {"dummy", "TftpHandler"}
    /\ NetPingIP \in PingHosts \cup {"0"}
    /\ NetArpWaitTry \in 0 .. (ARP_TIMEOUT_COUNT - 1)
    /\ NetArpWaitPacketMAC \in {"NULL", "NetServerEther"}
    /\ TftpTimeoutCount \in 0 .. (TIMEOUT_COUNT + 1)
    /\ Len(inq) <= QueueMax /\ Len(outq) <= QueueMax
    /\ result \in Nat \cup {-1}

(* The packet that waits for an ARP reply is the one the running command   *)
(* has to send, the saved length is its length, and the reply awaited is   *)
(* that of its next hop, whatever an earlier command left in the globals   *)
(* when it was aborted or failed.                                          *)
WaitingPacketIsCurrent ==
    (InLoop /\ NetArpWaitPacketIP # "0") =>
        LET ip == IF proto = "TFTPGET" THEN ServerIP ELSE NetPingIP
            op == IF proto = "TFTPGET" THEN "RRQ" ELSE "ECHO_REQUEST"
        IN  /\ NetArpWaitPacketIP = ip /\ NetArpWaitReplyIP = NextHop(ip)
            /\ NetTxPacket.ip = ip /\ NetTxPacket.pkt.op = op
            /\ NetArpWaitTxPacketSize = op

(* Every packet handed to eth_send() has the address of its next hop and   *)
(* its own length: NetServerEther is never used when it holds the address  *)
(* an ARP reply for a ping left there.                                     *)
FramesAreAddressed ==
    \A i \in DOMAIN outq : outq[i].type = "IP" =>
        /\ outq[i].dst = NextHop(outq[i].ip)
        /\ outq[i].size = outq[i].pkt.op

(* The handlers belong to the running command, and none is left installed  *)
(* when NetLoop() has returned.                                            *)
HandlersBelong ==
    /\ ~InLoop => timeHandler = "none" /\ udp_packet_handler = "dummy"
    /\ (InLoop /\ proto = "PING") =>
         /\ udp_packet_handler = "dummy"
         /\ timeHandler = "none" => net_state = "FAIL"
    /\ (InLoop /\ proto = "TFTPGET") => timeHandler # "ping_timeout"

(* do_tftpboot() jumps to load_addr only with the whole file in memory.    *)
BootsWholeFile ==
    pc = "kernel" =>
        /\ DOMAIN mem = 0 .. (FileSize - 1)
        /\ \A u \in DOMAIN mem : mem[u] = u
        /\ result = FileSize

(* The promise of tftpboot (module Boot), with the image judged by what    *)
(* store_block() has written: a started load only ever grows the image,    *)
(* and the kernel is entered with the whole of it, or the load fails.      *)
BootImage ==
    CASE \A u \in 0 .. (FileSize - 1) : u \in DOMAIN mem /\ mem[u] = u -> "whole"
      [] DOMAIN mem = {} -> "none"
      [] OTHER -> "part"

B == INSTANCE Boot WITH
         status <- CASE pc = "kernel" -> "booted"
                     [] InLoop /\ proto = "TFTPGET" -> "busy"
                     [] OTHER -> "idle",
         image <- BootImage

RefinesBoot == B!Spec

(* ping always ends: ping_timeout() is armed before anything else happens  *)
(* and nothing cancels it.                                                 *)
PingReturns == (InLoop /\ proto = "PING") ~> pc = "shell"

(* A transfer from a server that is alive ends.                            *)
TftpReturns == (InLoop /\ proto = "TFTPGET") ~> ~InLoop

(* "Retry count exceeded; starting again": when the retries are used up,   *)
(* the transfer is started again, or it ends.                              *)
StartsAgain ==
    (InLoop /\ proto = "TFTPGET" /\ TftpTimeoutCount > TIMEOUT_COUNT)
        ~> (TftpState = "SEND_RRQ" /\ TftpTimeoutCount = 0) \/ ~InLoop
=============================================================================
