------------------------------- MODULE Frames -------------------------------
(***************************************************************************)
(* Frames: the headers that net_core.c, ping.c and arp.c write, and the    *)
(* checks of NetReceive().  One frame crosses the wire in each behaviour,  *)
(* from the program to a host or from a host to the program, which may     *)
(* answer it.  NetOurVLAN is never set: the program has no VLAN.           *)
(*                                                                         *)
(* A 16-bit word of a header has WordBits bits here, and an IP address is  *)
(* one word.  Sizes are counted from the end of the Ethernet header.       *)
(***************************************************************************)
EXTENDS Integers, Sequences
LOCAL INSTANCE SequencesExt
LOCAL INSTANCE FiniteSetsExt

CONSTANTS
    WordBits,          \* 16 in the code
    IPIDs,             \* values of NetIPID
    Lengths,           \* bytes of UDP payload and of ICMP data
    DataWords          \* words of ICMP data

VARIABLES
    said,              \* the frame as its sender meant it
    wire,              \* the frame as it arrives, or NoFrame
    got                \* what the program made of it

frameVars == <<said, wire, got>>

NoFrame == [framing |-> "none"]
Nothing == [kind |-> "nothing"]
Dropped == [kind |-> "dropped"]

IP_HDR_SIZE == 20
IP_UDP_HDR_SIZE == 28
ARP_HDR_SIZE == 28
DFRAG == 64            \* IP_FLAGS_DFRAG, above the other bits of ip_off
Broadcast == 2 ^ WordBits - 1
NetOurIP == 5
HostIP == 9
UDP == 17
ICMP == 1
ICMP_ECHO_REPLY == 0
ICMP_REDIRECT == 5
ICMP_ECHO_REQUEST == 8

-----------------------------------------------------------------------------
(* Checksums.                                                              *)

TotalOf(words) == FoldLeft(LAMBDA a, b : a + b, 0, words)
FoldSum(x) == (x % 2 ^ WordBits) + (x \div 2 ^ WordBits)
Complement(x) == Broadcast - x

MutantFoldOnce(words) == FoldSum(TotalOf(words)) % 2 ^ WordBits

NetCksum(words) == FoldSum(FoldSum(TotalOf(words))) % 2 ^ WordBits

(* 0 and all ones are the two zeros of one's complement.                   *)
NetCksumOk(words) == ((NetCksum(words) + 1) % 2 ^ WordBits) \div 2 = 0

HeaderWords(ip) ==
    <<ip.hl_v, ip.len, ip.id, ip.off, ip.p, ip.sum, ip.src, ip.dst>>

(* The whole words of an ICMP message of len bytes: of an odd one, the     *)
(* last byte is left out.                                                  *)
IcmpWords(icmp, len) ==
    SubSeq(<<icmp.type, icmp.sum>> \o icmp.rest, 1, len \div 2)

-----------------------------------------------------------------------------
(* What the program sends.                                                 *)

NetSetEther(to, prot, size, ip, body) ==
    [framing |-> "ethernet", from |-> "us", to |-> to, prot |-> prot,
     size |-> size, ip |-> ip, body |-> body]

(* NetSendPacket() sends 64 bytes at least, 14 of them Ethernet header.    *)
NetSendPacket(f, len) == [f EXCEPT !.size = Max({len, 50})]

net_set_ip_header(dest, id) ==
    [hl_v |-> 69, len |-> IP_HDR_SIZE, id |-> id, off |-> DFRAG, p |-> 0,
     sum |-> 0, src |-> NetOurIP, dst |-> dest]

WithSum(ip) == [ip EXCEPT !.sum = Complement(NetCksum(HeaderWords([ip EXCEPT !.sum = 0])))]

net_set_udp_header(dest, len, id) ==
    WithSum([net_set_ip_header(dest, id) EXCEPT !.len = IP_UDP_HDR_SIZE + len, !.p = UDP])

(* In an echo request the words after the checksum are its identifier, 0,  *)
(* and its sequence number.                                                *)
set_icmp_header(dest, id, seq) ==
    LET icmp == [type |-> ICMP_ECHO_REQUEST, sum |-> 0, rest |-> <<0, seq>>]
    IN  [ip |-> WithSum([net_set_ip_header(dest, id) EXCEPT !.len = 28, !.p = ICMP]),
         icmp |-> [icmp EXCEPT !.sum = Complement(NetCksum(IcmpWords(icmp, 8)))]]

Send(f) == said' = f /\ wire' = f /\ UNCHANGED got

SendUdp(id, len) ==
    LET ip == net_set_udp_header(HostIP, len, id)
        udp == [sport |-> 1030, dport |-> 69, len |-> 8 + len, data |-> len]
    IN  Send(NetSendPacket(NetSetEther("host", "IP", 0, ip, udp), ip.len))

SendEcho(id, seq) ==
    LET h == set_icmp_header(HostIP, id, seq)
    IN  Send(NetSendPacket(NetSetEther("host", "IP", 0, h.ip, h.icmp), h.ip.len))

SendArp ==
    LET arp == [op |-> "REQUEST", sha |-> "us", spa |-> NetOurIP, tha |-> "null", tpa |-> HostIP]
    IN  Send(NetSendPacket(NetSetEther("all", "ARP", 0, <<>>, arp), ARP_HDR_SIZE))

-----------------------------------------------------------------------------
(* What the program receives.  net_update_ether() keeps the framing of the *)
(* frame it turns round.                                                   *)

net_update_ether(f) == [f EXCEPT !.from = "us", !.to = f.from]

Answer(f, len) == [kind |-> "answered", frame |-> NetSendPacket(f, len)]

(* The reply goes out with the length of the datagram, not of the frame.   *)
ping_receive(f) ==
    LET ip == WithSum([f.ip EXCEPT !.off = 0, !.dst = f.ip.src, !.src = NetOurIP])
        icmp == [f.body EXCEPT !.type = ICMP_ECHO_REPLY, !.sum = 0]
        sum == Complement(NetCksum(IcmpWords(icmp, f.ip.len - IP_HDR_SIZE)))
    IN  CASE f.body.type = ICMP_ECHO_REPLY -> [kind |-> "pinged", by |-> f.ip.src]
          [] f.body.type = ICMP_ECHO_REQUEST ->
                Answer([net_update_ether(f) EXCEPT !.ip = ip, !.body = [icmp EXCEPT !.sum = sum]],
                       f.ip.len)
          [] OTHER -> Dropped

(* A redirect is only printed.                                             *)
receive_icmp(f) == IF f.body.type = ICMP_REDIRECT THEN Dropped ELSE ping_receive(f)

NetDefragment(ip) == ip.off % DFRAG = 0

IpAccepts(f) ==
    /\ f.size >= IP_UDP_HDR_SIZE
    /\ f.size >= f.ip.len
    /\ f.ip.hl_v \div 16 = 4 /\ f.ip.hl_v % 16 <= 5
    /\ NetCksumOk(HeaderWords(f.ip))
    /\ f.ip.dst \in {NetOurIP, Broadcast}
    /\ NetDefragment(f.ip)

ReceiveIp(f) ==
    CASE ~IpAccepts(f) -> Dropped
      [] IpAccepts(f) /\ f.ip.p = ICMP -> receive_icmp(f)
      [] IpAccepts(f) /\ f.ip.p = UDP ->
            [kind |-> "handled", dport |-> f.body.dport, src |-> f.ip.src,
             sport |-> f.body.sport, len |-> f.body.len - 8, data |-> f.body.data]
      [] OTHER -> Dropped

(* A request is answered; what a reply does is in module Arp.              *)
ArpReceive(f) ==
    LET arp == f.body
        reply == [op |-> "REPLY", sha |-> "us", spa |-> NetOurIP, tha |-> arp.sha, tpa |-> arp.spa]
    IN  IF f.size < ARP_HDR_SIZE \/ arp.tpa # NetOurIP THEN Dropped
        ELSE IF arp.op = "REPLY" THEN [kind |-> "resolved", by |-> arp.spa, ether |-> arp.sha]
        ELSE Answer([net_update_ether(f) EXCEPT !.body = reply], ARP_HDR_SIZE)

NetReceive ==
    /\ wire # NoFrame /\ wire.from # "us" /\ got = Nothing
    /\ got' = CASE wire.framing = "vlan" -> Dropped
                [] wire.framing # "vlan" /\ wire.prot = "ARP" -> ArpReceive(wire)
                [] wire.framing # "vlan" /\ wire.prot = "IP" -> ReceiveIp(wire)
                [] OTHER -> Dropped
    /\ UNCHANGED <<said, wire>>

-----------------------------------------------------------------------------
(* External: what hosts send, and what becomes of it on the wire.  A host  *)
(* forms its checksums by the definition.                                  *)

HostSum(words) == (Broadcast - 1) - ((TotalOf(words) - 1) % Broadcast)
HostIp(dst, off, p, len) ==
    LET ip == [hl_v |-> 69, len |-> IP_HDR_SIZE + len, id |-> 3, off |-> off, p |-> p,
               sum |-> 0, src |-> HostIP, dst |-> dst]
    IN  [ip EXCEPT !.sum = HostSum(HeaderWords(ip))]

HostFrame(framing, to, prot, size, ip, body) ==
    LET f == [framing |-> framing, from |-> "host", to |-> to, prot |-> prot,
              size |-> size, ip |-> ip, body |-> body]
    IN  said' = f /\ wire' = f /\ UNCHANGED got

Framings == {"ethernet", "802.2", "vlan"}

HostSends ==
    \E framing \in Framings :
       \/ \E dst \in {NetOurIP, 6, Broadcast}, off \in {0, 1, DFRAG \div 2, DFRAG}, n \in Lengths :
             HostFrame(framing, "us", "IP", IP_UDP_HDR_SIZE + n, HostIp(dst, off, UDP, 8 + n),
                       [sport |-> 69, dport |-> 1030, len |-> 8 + n, data |-> n])
       \/ \E type \in {ICMP_ECHO_REPLY, 3, ICMP_REDIRECT, ICMP_ECHO_REQUEST},
             n \in Lengths, w \in DataWords :
             LET rest == <<1, 2>> \o [i \in 1 .. (n + 1) \div 2 |-> w]
             IN  HostFrame(framing, "us", "IP", IP_UDP_HDR_SIZE + n,
                           HostIp(NetOurIP, 0, ICMP, 8 + n),
                           [type |-> type, sum |-> HostSum(<<type>> \o rest), rest |-> rest])
       \/ \E op \in {"REQUEST", "REPLY"}, tpa \in {NetOurIP, 6} :
             HostFrame(framing, "us", "ARP", ARP_HDR_SIZE, <<>>,
                       [op |-> op, sha |-> "host", spa |-> HostIP, tha |-> "null", tpa |-> tpa])
       \/ HostFrame(framing, "us", "RARP", ARP_HDR_SIZE, <<>>, <<>>)

(* Ethernet pads short frames; a frame may be cut short, or one word of    *)
(* its IP header come as another.                                          *)
OnTheWay ==
    /\ wire # NoFrame /\ wire.from # "us" /\ wire = said /\ got = Nothing
    /\ \/ wire' = [wire EXCEPT !.size = Max({@, 46})]
       \/ wire' = [wire EXCEPT !.size = @ - 1]
       \/ wire.prot = "IP" /\ \E word \in DOMAIN wire.ip, v \in {0, 1, 5, Broadcast} :
             wire' = [wire EXCEPT !.ip[word] = v]
    /\ UNCHANGED <<said, got>>

FramesInit == said = NoFrame /\ wire = NoFrame /\ got = Nothing

FramesSends ==
    /\ wire = NoFrame
    /\ \/ \E id \in IPIDs, n \in Lengths : SendUdp(id, n)
       \/ \E id \in IPIDs, seq \in DataWords : SendEcho(id, seq)
       \/ SendArp
       \/ HostSends

FramesNext == FramesSends \/ OnTheWay \/ NetReceive

FramesSpec == FramesInit /\ [][FramesNext]_frameVars

-----------------------------------------------------------------------------
(* Properties.                                                             *)

WellSummed(words) == TotalOf(words) % Broadcast = 0

(* Hosts accept what the program sends: whatever NetIPID is, the header    *)
(* checksum is right, the lengths agree and fit, and so does the checksum  *)
(* of an ICMP message, unless its length is odd (net_core.c, ping.c).      *)
SentRight(f) ==
    f.prot = "IP" =>
       /\ WellSummed(HeaderWords(f.ip))
       /\ f.size >= f.ip.len
       /\ f.ip.p = UDP => f.body.len = f.ip.len - IP_HDR_SIZE
       /\ f.ip.p = ICMP =>
             \/ f.ip.len % 2 = 1
             \/ WellSummed(<<f.body.type, f.body.sum>> \o f.body.rest)

(* Of a datagram the UDP handler sees what its sender put in, and not the  *)
(* padding of the frame; one that is for somebody else, a fragment, or has *)
(* a word changed in its header never gets there.                          *)
HandledRight ==
    got.kind = "handled" =>
       /\ <<got.sport, got.dport, got.len, got.data>>
             = <<said.body.sport, said.body.dport, said.body.len - 8, said.body.data>>
       /\ got.src = said.ip.src
       /\ said.ip.dst \in {NetOurIP, Broadcast}
       /\ said.ip.off \in {0, DFRAG}

(* An answer goes to the host that asked, framed as the question was, with *)
(* all that was to be echoed and nothing of the padding.                   *)
AnswerRight ==
    got.kind = "answered" =>
       /\ got.frame.to = said.from /\ got.frame.framing = said.framing
       /\ IF said.prot = "ARP" THEN got.frame.body.tpa = said.body.spa
          ELSE /\ got.frame.ip.dst = said.ip.src /\ got.frame.ip.len = said.ip.len
               /\ got.frame.body.rest = said.body.rest

(* What is meant for the program, and came as it was sent, is not dropped. *)
NoneDropped ==
    (got = Dropped /\ said.framing # "vlan" /\ wire \in {said, [said EXCEPT !.size = 46]}) =>
       \/ said.prot = "RARP"
       \/ said.prot = "ARP" /\ said.body.tpa # NetOurIP
       \/ said.prot = "IP" /\ (said.ip.dst = 6 \/ said.ip.off \notin {0, DFRAG})
       \/ said.prot = "IP" /\ said.ip.p = ICMP /\ said.body.type \in {3, ICMP_REDIRECT}

(* The headers agree with those of hosts in both directions.               *)
FramesRight ==
    /\ wire # NoFrame /\ wire.from = "us" => SentRight(wire)
    /\ got.kind = "answered" => SentRight(got.frame)
    /\ HandledRight /\ AnswerRight /\ NoneDropped
=============================================================================
