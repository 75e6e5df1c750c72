--------------------------- MODULE MCFrameTransfer --------------------------
(***************************************************************************)
(* FrameTransfer with four segments, each over both links, and both ARP    *)
(* messages.  They have every flag both ways, empty, odd and even          *)
(* payloads, an ackno of zero, numbers of four bytes, and payloads without *)
(* zero bytes.                                                             *)
(***************************************************************************)
EXTENDS FrameTransfer

AddressA == << 2, 0, 255, 7, 16, 129 >>
AddressB == << 6, 11, 0, 0, 1, 2 >>
Broadcast == << 255, 255, 255, 255, 255, 255 >>

Header ==
    [ver |-> 4, hlen |-> 5, tos |-> 0, len |-> 0, id |-> 0, df |-> TRUE, mf |-> FALSE, offset |-> 0,
     ttl |-> 128, proto |-> 6, cksum |-> 0, src |-> << 2560, 257 >>, dst |-> << 25700, 25855 >>]

Segment(seqno, ackno, flags, window, payload) ==
    [src_port |-> 33000, dst_port |-> 80, cksum |-> 0,
     message |-> [seqno |-> seqno, ackno |-> ackno, RST |-> "RST" \in flags, SYN |-> "SYN" \in flags,
                  FIN |-> "FIN" \in flags, window_size |-> window, payload |-> payload]]

MCSegments ==
    {Segment(<< 65535, 65535 >>, NoAckno, {"SYN"}, 64000, << >>),
     Segment(<< 0, 256 >>, << 0, 0 >>, {"RST"}, 0, << >>),
     Segment(<< 258, 772 >>, << 4660, 65535 >>, {"FIN"}, 65535, << 200 >>),
     Segment(<< 32768, 0 >>, << 0, 1 >>, {}, 1, << 1, 255 >>)}

ARP(opcode, target) ==
    [hardware_type |-> 1, protocol_type |-> TypeIPv4, hardware_address_size |-> 6,
     protocol_address_size |-> 4, opcode |-> opcode,
     sender_ethernet_address |-> AddressA, sender_ip_address |-> << 2560, 257 >>,
     target_ethernet_address |-> target, target_ip_address |-> << 25700, 25855 >>]

Frame(dst, type) == [dst |-> dst, src |-> AddressA, type |-> type]

\* every change of a byte
MCDeltas == 1 .. 255

MCPackets ==
    {[link |-> link, frame |-> Frame(AddressB, TypeIPv4), header |-> Header, body |-> seg]
        : link \in {"ethernet", "tun"}, seg \in MCSegments}
    \cup
    {[link |-> "ethernet", frame |-> Frame(Broadcast, TypeARP), header |-> Header,
      body |-> ARP(1, << 0, 0, 0, 0, 0, 0 >>)],
     [link |-> "ethernet", frame |-> Frame(AddressB, TypeARP), header |-> Header, body |-> ARP(2, AddressB)]}
=============================================================================
