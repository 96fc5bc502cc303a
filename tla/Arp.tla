-------------------------------- MODULE Arp ---------------------------------
(***************************************************************************)
(* net/arp.c, and the transmit path of net/net_core.c and net/ping.c that  *)
(* hands it a packet: at most one packet, in the single buffer             *)
(* NetTxPacket, waits for the address of its next hop.                     *)
(*                                                                         *)
(* A host is named by its IP address, and its Ethernet address by the same *)
(* name.  A packet's length is represented by the packet's opcode: what    *)
(* matters is whether a length was computed for the packet it is used for. *)
(***************************************************************************)
EXTENDS Naturals, Sequences

CONSTANTS
    ARP_TIMEOUT_COUNT,    \* 5 in the code
    LocalIPs,             \* addresses on our subnet
    NetOurGatewayIP,
    QueueMax              \* frames the medium holds in one direction

ASSUME ArpConstants ==
    /\ ARP_TIMEOUT_COUNT \in Nat \ {0, 1}
    /\ QueueMax \in Nat \ {0}

VARIABLES
    NetArpWaitPacketIP,   \* destination of the waiting packet, "0" if none
    NetArpWaitReplyIP,    \* whose ARP reply is awaited
    NetArpWaitPacketMAC,  \* where the reply's address is saved, or "NULL"
    NetArpWaitTxPacketSize,
    NetArpWaitTry,
    arpDue,               \* ARP_TIMEOUT has passed since NetArpWaitTimerStart
    NetTxPacket,          \* THE transmit packet
    NetServerEther,       \* "0" while it is not known
    outq                  \* frames handed to eth_send()

waitVars == <<NetArpWaitPacketIP, NetArpWaitReplyIP, NetArpWaitPacketMAC,
              NetArpWaitTxPacketSize, NetArpWaitTry, arpDue>>
arpVars == <<waitVars, NetTxPacket, NetServerEther>>

(* Operators named Mutant... are wrong on purpose; see module Tftp.        *)

NoPacket == [dst |-> "0", ip |-> "0", pkt |-> [op |-> "none"]]

(* ArpInit(), and the zeroed globals of net_core.c.                        *)
ArpInit ==
    /\ NetArpWaitPacketMAC = "NULL" /\ NetArpWaitPacketIP = "0"
    /\ NetArpWaitReplyIP = "0" /\ NetArpWaitTxPacketSize = "0"
    /\ NetArpWaitTry = 0 /\ arpDue = FALSE
    /\ NetTxPacket = NoPacket /\ NetServerEther = "0"
    /\ outq = <<>>

(* NetSendPacket(): a frame for which the medium has no room is lost.      *)
NetSendPacket(frame) ==
    outq' = IF Len(outq) < QueueMax THEN Append(outq, frame) ELSE outq

PacketFrame(packet, size) ==
    [type |-> "IP", dst |-> packet.dst, ip |-> packet.ip, pkt |-> packet.pkt,
     size |-> size]

(* ArpRequest() for a waiting packet to ip: asks for the gateway when ip   *)
(* is not on our subnet.                                                   *)
NextHop(ip) ==
    IF ip \in LocalIPs \/ NetOurGatewayIP = "0" THEN ip ELSE NetOurGatewayIP

ArpRequest(ip) ==
    /\ NetArpWaitReplyIP' = NextHop(ip)
    /\ NetSendPacket([type |-> "ARPREQ", ip |-> NextHop(ip)])

(* NetSendUDPPacket(): build the packet in NetTxPacket; send it, or let it *)
(* wait for an ARP reply that is to be saved in NetServerEther.            *)
NetSendUDPPacket(ether, ip, pkt) ==
    /\ NetTxPacket' = [dst |-> ether, ip |-> ip, pkt |-> pkt]
    /\ NetServerEther' = ether
    /\ IF ether = "0"
       THEN /\ NetArpWaitPacketIP' = ip
            /\ NetArpWaitPacketMAC' = "NetServerEther"
            /\ NetArpWaitTxPacketSize' = pkt.op
            /\ NetArpWaitTry' = 1 /\ arpDue' = FALSE
            /\ ArpRequest(ip)
       ELSE /\ NetSendPacket(PacketFrame(NetTxPacket', pkt.op))
            /\ UNCHANGED waitVars

MutantPingKeepsSize(ip) ==
    /\ NetArpWaitPacketIP' = ip
    /\ NetTxPacket' = [dst |-> "0", ip |-> ip, pkt |-> [op |-> "ECHO_REQUEST"]]
    /\ NetArpWaitTry' = 1 /\ arpDue' = FALSE
    /\ ArpRequest(ip)
    /\ UNCHANGED <<NetArpWaitTxPacketSize, NetArpWaitPacketMAC, NetServerEther>>

(* ping_send(): always asks for the address, and leaves                    *)
(* NetArpWaitPacketMAC as it finds it.                                     *)
ping_send(ip) ==
    /\ NetArpWaitPacketIP' = ip
    /\ NetTxPacket' = [dst |-> "0", ip |-> ip, pkt |-> [op |-> "ECHO_REQUEST"]]
    /\ NetArpWaitTxPacketSize' = "ECHO_REQUEST"
    /\ NetArpWaitTry' = 1 /\ arpDue' = FALSE
    /\ ArpRequest(ip)
    /\ UNCHANGED <<NetArpWaitPacketMAC, NetServerEther>>

(* ArpTimeoutCheck() when a packet waits and ARP_TIMEOUT has passed.  At   *)
(* the limit the message "starting again" is printed and only the count is *)
(* reset; as the timer is not, the next call asks again.                   *)
ArpTimerFires == NetArpWaitPacketIP # "0" /\ arpDue

MutantAskOnceMore ==
    /\ ArpTimerFires /\ NetArpWaitTry + 1 <= ARP_TIMEOUT_COUNT
    /\ NetArpWaitTry' = NetArpWaitTry + 1 /\ arpDue' = FALSE
    /\ ArpRequest(NetArpWaitPacketIP)
    /\ UNCHANGED <<NetArpWaitPacketIP, NetArpWaitPacketMAC,
                   NetArpWaitTxPacketSize, NetTxPacket, NetServerEther>>

ArpTimeoutAsk ==
    /\ ArpTimerFires /\ NetArpWaitTry + 1 < ARP_TIMEOUT_COUNT
    /\ NetArpWaitTry' = NetArpWaitTry + 1 /\ arpDue' = FALSE
    /\ ArpRequest(NetArpWaitPacketIP)
    /\ UNCHANGED <<NetArpWaitPacketIP, NetArpWaitPacketMAC,
                   NetArpWaitTxPacketSize, NetTxPacket, NetServerEther>>

ArpTimeoutLimit ==
    /\ ArpTimerFires /\ NetArpWaitTry + 1 >= ARP_TIMEOUT_COUNT
    /\ NetArpWaitTry' = 0
    /\ UNCHANGED <<NetArpWaitPacketIP, NetArpWaitReplyIP, NetArpWaitPacketMAC,
                   NetArpWaitTxPacketSize, arpDue, NetTxPacket, NetServerEther,
                   outq>>

(* ArpReceive(), ARPOP_REQUEST: answered from the receive buffer.          *)
ArpReceiveRequest(f) ==
    /\ f.type = "ARPREQ"
    /\ NetSendPacket([type |-> "ARPREP", ip |-> f.spa])
    /\ UNCHANGED arpVars

MutantAnyReply(f) == NetArpWaitPacketIP # "0"

(* ArpReceive(), ARPOP_REPLY: from the host the waiting packet is for.     *)
ArpAwaits(f) == NetArpWaitPacketIP # "0" /\ f.spa = NetArpWaitReplyIP

ArpReceiveReply(f) ==
    /\ f.type = "ARPREP" /\ ArpAwaits(f)
    /\ NetServerEther' =
         IF NetArpWaitPacketMAC = "NULL" THEN NetServerEther ELSE f.sha
    /\ NetTxPacket' = [NetTxPacket EXCEPT !.dst = f.sha]
    /\ NetSendPacket(PacketFrame(NetTxPacket', NetArpWaitTxPacketSize))
    /\ NetArpWaitPacketIP' = "0"
    /\ NetArpWaitTxPacketSize' = "0"
    /\ NetArpWaitPacketMAC' = "NULL"
    /\ UNCHANGED <<NetArpWaitReplyIP, NetArpWaitTry, arpDue>>

(* Any other reply is ignored.                                             *)
ArpIgnoreReply(f) ==
    /\ f.type = "ARPREP" /\ ~ArpAwaits(f)
    /\ UNCHANGED <<arpVars, outq>>
=============================================================================
