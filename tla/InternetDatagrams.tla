------------------------- MODULE InternetDatagrams --------------------------
(***************************************************************************)
(* IPv4 datagrams: the header fields that differ between two datagrams of  *)
(* this stack or change on their way, and the header checksum over them.   *)
(* The other fields are the same constants in every header it builds.      *)
(*                                                                         *)
(* The payload is the TCP segment's header as the adapters look at it.     *)
(***************************************************************************)
EXTENDS MachineIntegers, SequencesExt

CONSTANTS
    Mod8, Mod16,    \* the values of a uint8_t, a uint16_t
    DEFAULT_TTL

PROTO_TCP == 1      \* IPv4Header::PROTO_TCP, 6

ASSUME DatagramAssumption ==
    /\ Mod8 \in Nat /\ Mod8 > 1
    /\ Mod16 = Mod8 * Mod8
    /\ DEFAULT_TTL \in 1 .. Mod8 - 1

Address == 0 .. Mod32 - 1

TCPSegmentHeader == [src_port : Nat, dst_port : Nat, SYN : BOOLEAN, RST : BOOLEAN]

Datagram ==
    [ttl : 0 .. Mod8 - 1, proto : {PROTO_TCP}, cksum : 0 .. Mod16 - 1,
     src : Address, dst : Address, payload : TCPSegmentHeader]

(***************************************************************************)
(* InternetChecksum::value: fold the carries in, complement.               *)
(***************************************************************************)
Value(sum) ==
    LET fold[n \in Nat] ==
            IF n < Mod16 THEN n ELSE fold[(n \div Mod16) + (n % Mod16)]
    IN  Mod16 - 1 - fold[sum]

(***************************************************************************)
(* The 16-bit words of the serialized header, with cksum 0.                *)
(***************************************************************************)
HeaderSum(d) ==
    d.ttl * Mod8 + d.proto
        + (d.src \div Mod16) + (d.src % Mod16)
        + (d.dst \div Mod16) + (d.dst % Mod16)

ComputeChecksum(d) == [d EXCEPT !.cksum = Value(HeaderSum(d))]

(***************************************************************************)
(* IPv4Header::parse accepts the header.                                   *)
(***************************************************************************)
HeaderParses(d) == d = ComputeChecksum(d)
=============================================================================
