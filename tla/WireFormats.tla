----------------------------- MODULE WireFormats ----------------------------
(***************************************************************************)
(* What EthernetFrame, ARPMessage, IPv4Datagram and TCPSegment look like   *)
(* on the wire: parse and serialize of each, and the two checksums.  A     *)
(* header is a record; its layout lists the fields in the order of the     *)
(* wire with their bytes.  Six bytes are an Ethernet address, an array;    *)
(* a number of four bytes is the pair of its halves.                       *)
(***************************************************************************)
EXTENDS Parser
LOCAL INSTANCE SequencesExt
LOCAL INSTANCE TLC

WithNext(values, got) == [p |-> got.p, value |-> Append(values, got.value)]

ReadAddress(p) ==
    FoldLeft(LAMBDA r, k : WithNext(r.value, ReadInteger(r.p, 1)),
             [p |-> p, value |-> << >>], << 1, 2, 3, 4, 5, 6 >>)

ReadLong(p) ==
    IF p.error \/ p.size < 4 THEN [p |-> SetErrorIf(p, TRUE), value |-> << 0, 0 >>]
    ELSE FoldLeft(LAMBDA r, k : WithNext(r.value, ReadInteger(r.p, 2)),
                  [p |-> p, value |-> << >>], << 1, 2 >>)

ReadField(p, bytes) ==
    CASE bytes = 6 -> ReadAddress(p) [] bytes = 4 -> ReadLong(p) [] OTHER -> ReadInteger(p, bytes)

WithField(fields, name, got) == [p |-> got.p, fields |-> fields @@ (name :> got.value)]

ReadFields(p, layout) ==
    FoldLeft(LAMBDA r, field : WithField(r.fields, field[1], ReadField(r.p, field[2])),
             [p |-> p, fields |-> << >>], layout)

WriteField(s, bytes, value) ==
    CASE bytes = 6 -> FoldLeft(LAMBDA t, b : WriteInteger(t, 1, b), s, value)
      [] bytes = 4 -> FoldLeft(LAMBDA t, half : WriteInteger(t, 2, half), s, value)
      [] OTHER     -> WriteInteger(s, bytes, value)

WriteFields(s, layout, fields) ==
    FoldLeft(LAMBDA t, field : WriteField(t, field[2], fields[field[1]]), s, layout)

Bit(number, weight) == (number \div weight) % 2 = 1
Weighing(condition, weight) == IF condition THEN weight ELSE 0

-----------------------------------------------------------------------------
(***************************************************************************)
(* Ethernet: the header, and whatever follows.                             *)
(***************************************************************************)
EthernetLayout == << <<"dst", 6>>, <<"src", 6>>, <<"type", 2>> >>

TypeIPv4 == 2048
TypeARP  == 2054

WithPayload(p, header) == [p |-> p, header |-> header, payload |-> Remaining(p)]

EthernetFrame(read) == WithPayload(read.p, read.fields)

EthernetParse(p) == EthernetFrame(ReadFields(p, EthernetLayout))

EthernetSerialize(frame) ==
    Output(WriteBuffers(WriteFields(NewSerializer, EthernetLayout, frame.header), frame.payload))

-----------------------------------------------------------------------------
(***************************************************************************)
(* ARP, for Ethernet and IPv4 only.                                        *)
(***************************************************************************)
ARPKindLayout ==
    << <<"hardware_type", 2>>, <<"protocol_type", 2>>, <<"hardware_address_size", 1>>,
       <<"protocol_address_size", 1>>, <<"opcode", 2>> >>

ARPAddressLayout ==
    << <<"sender_ethernet_address", 6>>, <<"sender_ip_address", 4>>,
       <<"target_ethernet_address", 6>>, <<"target_ip_address", 4>> >>

Supported(m) ==
    /\ m.hardware_type = 1 /\ m.protocol_type = TypeIPv4
    /\ m.hardware_address_size = 6 /\ m.protocol_address_size = 4
    /\ m.opcode \in {1, 2}

ARPParse(p) ==
    LET kind      == ReadFields(p, ARPKindLayout)
        addresses == ReadFields(kind.p, ARPAddressLayout)
    IN  IF ~Supported(kind.fields) THEN [p |-> SetErrorIf(kind.p, TRUE), message |-> kind.fields]
        ELSE [p |-> addresses.p, message |-> kind.fields @@ addresses.fields]

ARPSerialize(m) == Output(WriteFields(NewSerializer, ARPKindLayout \o ARPAddressLayout, m))

-----------------------------------------------------------------------------
(***************************************************************************)
(* IPv4.  Version and length share the first byte, flags and offset two.   *)
(***************************************************************************)
IPv4Layout ==
    << <<"first", 1>>, <<"tos", 1>>, <<"len", 2>>, <<"id", 2>>, <<"fo", 2>>, <<"ttl", 1>>,
       <<"proto", 1>>, <<"cksum", 2>>, <<"src", 4>>, <<"dst", 4>> >>

IPv4HeaderLength == 20
TCPProtocol == 6

Packed(h) ==
    h @@ [first |-> 16 * h.ver + (h.hlen % 16),
          fo |-> Weighing(h.df, 16384) + Weighing(h.mf, 8192) + (h.offset % 8192)]

Unpacked(f) ==
    [field \in DOMAIN f \ {"first", "fo"} |-> f[field]]
        @@ [ver |-> f.first \div 16, hlen |-> f.first % 16,
            df |-> Bit(f.fo, 16384), mf |-> Bit(f.fo, 8192), offset |-> f.fo % 8192]

IPv4HeaderSerialize(h) == WriteFields(NewSerializer, IPv4Layout, Packed(h))

PayloadLength(h) == (h.len - 4 * h.hlen) % 65536

PseudoChecksum(h) ==
    h.src[1] + h.src[2] + h.dst[1] + h.dst[2] + h.proto + PayloadLength(h)

ComputeChecksum(h) ==
    [h EXCEPT !.cksum = Checksum(0, Output(IPv4HeaderSerialize([h EXCEPT !.cksum = 0])))]

\* mistake: compare the computed checksum with itself
BugIPv4Checked(p, h) ==
    IF p.error THEN [p |-> p, header |-> h]
    ELSE [p |-> RemovePrefix(p, 4 * h.hlen - IPv4HeaderLength), header |-> ComputeChecksum(h)]

IPv4Checked(p, h) ==
    IF p.error THEN [p |-> p, header |-> h]
    ELSE [p |-> SetErrorIf(RemovePrefix(p, 4 * h.hlen - IPv4HeaderLength), ComputeChecksum(h).cksum # h.cksum),
          header |-> ComputeChecksum(h)]

IPv4Valid(p, h) == IPv4Checked(SetErrorIf(p, h.ver # 4 \/ h.hlen < 5), h)

IPv4Header(read) == IPv4Valid(read.p, Unpacked(read.fields))

IPv4HeaderParse(p) == IPv4Header(ReadFields(p, IPv4Layout))

IPv4Datagram(header) == WithPayload(header.p, header.header)

IPv4Parse(p) == IPv4Datagram(IPv4HeaderParse(p))

IPv4Serialize(d) == Output(WriteBuffers(IPv4HeaderSerialize(d.header), d.payload))

-----------------------------------------------------------------------------
(***************************************************************************)
(* TCP.  A segment is [src_port, dst_port, cksum, message]; the message    *)
(* has one reset flag for its two parts, and ackno is NoAckno or a number. *)
(***************************************************************************)
TCPLayout ==
    << <<"src_port", 2>>, <<"dst_port", 2>>, <<"seqno", 4>>, <<"ackno", 4>>, <<"offset", 1>>,
       <<"flags", 1>>, <<"window_size", 2>>, <<"cksum", 2>>, <<"urgent", 2>> >>

TCPHeaderMinLen == 5

NoAckno == << >>

Message(f, payload) ==
    [seqno |-> f.seqno, ackno |-> IF Bit(f.flags, 16) THEN f.ackno ELSE NoAckno,
     RST |-> Bit(f.flags, 4), SYN |-> Bit(f.flags, 2), FIN |-> Bit(f.flags, 1),
     window_size |-> f.window_size, payload |-> payload]

TCPHeader(f) == [src_port |-> f.src_port, dst_port |-> f.dst_port, cksum |-> f.cksum]

WithMessage(f, rest) ==
    [p |-> rest, segment |-> [message |-> Message(f, FlattenSeq(Remaining(rest)))] @@ TCPHeader(f)]

\* a header shorter than the least takes all that is left along
SkipOptions(p, words) ==
    RemovePrefix(SetErrorIf(p, words < TCPHeaderMinLen),
                 IF words < TCPHeaderMinLen THEN p.size ELSE 4 * (words - TCPHeaderMinLen))

TCPSegment(read) == WithMessage(read.fields, SkipOptions(read.p, read.fields.offset \div 16))

TCPParse(p, pseudo) ==
    IF Checksum(pseudo, Remaining(p)) # 0 THEN [p |-> SetErrorIf(p, TRUE)]
    ELSE TCPSegment(ReadFields(p, TCPLayout))

TCPFields(seg) ==
    LET m == seg.message
    IN  [m EXCEPT !.ackno = IF @ = NoAckno THEN << 0, 0 >> ELSE @] @@ seg
            @@ [offset |-> 16 * TCPHeaderMinLen, urgent |-> 0,
                flags |-> Weighing(m.ackno # NoAckno, 16) + Weighing(m.RST, 4)
                        + Weighing(m.SYN, 2) + Weighing(m.FIN, 1)]

TCPSerialize(seg) ==
    Output(WriteBuffer(WriteFields(NewSerializer, TCPLayout, TCPFields(seg)), seg.message.payload))

ComputeTCPChecksum(seg, pseudo) ==
    [seg EXCEPT !.cksum = Checksum(pseudo, TCPSerialize([seg EXCEPT !.cksum = 0]))]
=============================================================================
