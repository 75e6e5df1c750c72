---------------------------- MODULE FrameTransfer ---------------------------
(***************************************************************************)
(* One frame or datagram from the program that composes it to the program  *)
(* that takes it apart: TCP segments in IPv4 over a TUN device or in       *)
(* Ethernet frames, and ARP messages.  On the way one byte may change, or  *)
(* the end be cut off.  The receiver reads into strings of fixed sizes and *)
(* parses what they hold.                                                  *)
(***************************************************************************)
EXTENDS WireFormats
LOCAL INSTANCE SequencesExt

CONSTANTS
    Packets,        \* what may be sent: [link, frame, header, body]
    Deltas,         \* what a change may add to a byte, modulo 256
    ReadBufferSize  \* kReadBufferSize

ASSUME TransferAssumption ==
    /\ \A packet \in Packets : packet.link \in {"ethernet", "tun"}
    /\ Deltas \subseteq 1 .. 255
    /\ ReadBufferSize \in Nat

VARIABLES
    packet,         \* what is sent
    wire,           \* its bytes, once sent
    damaged,        \* something has happened to them
    got             \* what the receiver makes of it

vars == <<packet, wire, damaged, got>>

Unsent  == [what |-> "unsent"]
Pending == [what |-> "pending"]

-----------------------------------------------------------------------------
(***************************************************************************)
(* wrap_tcp_in_ip, make_frame.                                             *)
(***************************************************************************)
Datagram(pkt) ==
    LET len    == 4 * pkt.header.hlen + 20 + Len(pkt.body.message.payload)
        header == [pkt.header EXCEPT !.len = len]
        seg    == ComputeTCPChecksum(pkt.body, PseudoChecksum(header))
    IN  [header |-> ComputeChecksum(header), payload |-> TCPSerialize(seg)]

IsARP(pkt) == "opcode" \in DOMAIN pkt.body

Composed(pkt) ==
    LET payload == IF IsARP(pkt) THEN ARPSerialize(pkt.body) ELSE IPv4Serialize(Datagram(pkt))
    IN  IF pkt.link = "tun" THEN payload
        ELSE EthernetSerialize([header |-> pkt.frame, payload |-> payload])

(***************************************************************************)
(* FileDescriptor::read into strings: the last has room for all the rest,  *)
(* those that nothing was read into are empty.                             *)
(***************************************************************************)
ReadInto(sizes, bytes) ==
    LET start(k) == IF k = 1 THEN 0 ELSE IF k = 2 THEN sizes[1] ELSE sizes[1] + sizes[2]
    IN  [k \in DOMAIN sizes |-> SubSeq(bytes, start(k) + 1, Smaller(start(k) + sizes[k], Len(bytes)))]

\* maybe_receive_frame, and the TUN adapter's read
Sizes(link) == IF link = "ethernet" THEN << 14, 20, ReadBufferSize >> ELSE << 20, ReadBufferSize >>

(***************************************************************************)
(* unwrap_tcp_in_ip and recv_frame, up to what the parsers accept.         *)
(***************************************************************************)
Refusing(p) == [what |-> "refused", astray |-> p.astray]

\* what was made of the payload, by a parser of its own
Inside(p, inner) == [inner EXCEPT !.astray = @ \/ p.astray]

TakeSegment(header, tcp) ==
    IF tcp.p.error THEN Refusing(tcp.p)
    ELSE [what |-> "segment", astray |-> tcp.p.astray, header |-> header, segment |-> tcp.segment]

UnwrapTCP(dgram) ==
    IF dgram.p.error \/ dgram.header.proto # TCPProtocol THEN Refusing(dgram.p)
    ELSE Inside(dgram.p, TakeSegment(dgram.header,
                                     TCPParse(NewParser(dgram.payload), PseudoChecksum(dgram.header))))

TakeARP(arp) ==
    IF arp.p.error THEN Refusing(arp.p)
    ELSE [what |-> "arp", astray |-> arp.p.astray, message |-> arp.message]

TakeFrame(frame) ==
    CASE ~frame.p.error /\ frame.header.type = TypeIPv4 ->
            Inside(frame.p, UnwrapTCP(IPv4Parse(NewParser(frame.payload))))
      [] ~frame.p.error /\ frame.header.type = TypeARP  ->
            Inside(frame.p, TakeARP(ARPParse(NewParser(frame.payload))))
      [] OTHER -> Refusing(frame.p)

-----------------------------------------------------------------------------
Init == packet \in Packets /\ wire = << >> /\ damaged = FALSE /\ got = Unsent

Send ==
    /\ got = Unsent /\ got' = Pending
    /\ wire' = FoldLeft(LAMBDA all, string : all \o string, << >>, Composed(packet))
    /\ UNCHANGED <<packet, damaged>>

Change ==
    /\ got = Pending /\ ~damaged /\ damaged' = TRUE
    /\ \E k \in DOMAIN wire, delta \in Deltas : wire' = [wire EXCEPT ![k] = (@ + delta) % 256]
    /\ UNCHANGED <<packet, got>>

CutOff ==
    /\ got = Pending /\ ~damaged /\ damaged' = TRUE
    /\ \E n \in 0 .. Len(wire) - 1 : wire' = SubSeq(wire, 1, n)
    /\ UNCHANGED <<packet, got>>

Receive ==
    /\ got = Pending
    /\ LET parser == NewParser(ReadInto(Sizes(packet.link), wire))
       IN  got' = IF packet.link = "ethernet" THEN TakeFrame(EthernetParse(parser))
                  ELSE UnwrapTCP(IPv4Parse(parser))
    /\ UNCHANGED <<packet, wire, damaged>>

Over == got \notin {Unsent, Pending} /\ UNCHANGED vars

Next == Send \/ Change \/ CutOff \/ Receive \/ Over

Spec == Init /\ [][Next]_vars
-----------------------------------------------------------------------------
Taken == got \notin {Unsent, Pending}

\* the message, the ports and the IPv4 header are those that were sent
SameSegment ==
    /\ got.what = "segment"
    /\ got.segment.message = packet.body.message
    /\ got.segment.src_port = packet.body.src_port /\ got.segment.dst_port = packet.body.dst_port
    /\ got.header = Datagram(packet).header

(***************************************************************************)
(* What nothing has happened to arrives: every field of every format       *)
(* survives serialize, read and parse, however the strings divide it.      *)
(***************************************************************************)
RoundTrip ==
    Taken /\ ~damaged => IF IsARP(packet) THEN got.what = "arp" /\ got.message = packet.body ELSE SameSegment

(***************************************************************************)
(* A datagram that was damaged is refused, or the damage was outside of    *)
(* it, in the Ethernet header: between them, the two checksums miss no     *)
(* changed byte and no missing end of which not all is zero.               *)
(***************************************************************************)
DamageNeverAccepted == Taken /\ ~IsARP(packet) => got.what = "refused" \/ SameSegment

(***************************************************************************)
(* Wherever the input is cut off and whichever byte of it is wrong, a      *)
(* parser looks only at bytes that were read.                              *)
(***************************************************************************)
NeverAstray == Taken => ~got.astray
=============================================================================
