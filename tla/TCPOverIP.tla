------------------------------ MODULE TCPOverIP -----------------------------
(***************************************************************************)
(* TCPOverIPv4Adapter (src/util/tcp_over_ip) as operators on its state:    *)
(* the listening flag and the configured endpoints [ip, port].             *)
(***************************************************************************)
EXTENDS InternetDatagrams

ListeningAdapter(source) ==
    [listening |-> TRUE, source |-> source, destination |-> [ip |-> 0, port |-> 0]]

(***************************************************************************)
(* Whether unwrap_tcp_in_ip hands the datagram's segment to TCP.           *)
(***************************************************************************)
\* mistake: once connected, the sender's port is not looked at
BugAcceptsAnyPort(a, dgram) ==
    LET seg == dgram.payload
    IN  /\ ~a.listening => dgram.dst = a.source.ip /\ dgram.src = a.destination.ip
        /\ dgram.proto = PROTO_TCP
        /\ seg.dst_port = a.source.port
        /\ a.listening => seg.SYN /\ ~seg.RST

Accepts(a, dgram) ==
    LET seg == dgram.payload
    IN  /\ ~a.listening => dgram.dst = a.source.ip /\ dgram.src = a.destination.ip
        /\ dgram.proto = PROTO_TCP
        /\ seg.dst_port = a.source.port
        /\ a.listening => seg.SYN /\ ~seg.RST
        /\ ~a.listening => seg.src_port = a.destination.port

(***************************************************************************)
(* The adapter after it has accepted a segment: a listening one is now     *)
(* bound to both ends of it.                                               *)
(***************************************************************************)
Bound(a, dgram) ==
    IF ~a.listening THEN a
    ELSE [listening |-> FALSE,
          source |-> [a.source EXCEPT !.ip = dgram.dst],
          destination |-> [ip |-> dgram.src, port |-> dgram.payload.src_port]]

(***************************************************************************)
(* wrap_tcp_in_ip                                                          *)
(***************************************************************************)
Wrapped(a, syn, rst) ==
    ComputeChecksum(
        [ttl |-> DEFAULT_TTL, proto |-> PROTO_TCP, cksum |-> 0,
         src |-> a.source.ip, dst |-> a.destination.ip,
         payload |-> [src_port |-> a.source.port, dst_port |-> a.destination.port,
                      SYN |-> syn, RST |-> rst]])
=============================================================================
