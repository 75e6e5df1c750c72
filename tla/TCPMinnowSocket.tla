--------------------------- MODULE TCPMinnowSocket --------------------------
(***************************************************************************)
(* TCPMinnowSocket (src/util/tcp_minnow_socket): its TCPPeer and its three *)
(* rules, as operators on the state s of the thread that runs _tcp_loop,   *)
(*   peer                 the TCPPeer                                      *)
(*   thread_data          the FileDescriptor of its end of the pipe        *)
(*   inbound_shutdown, outbound_shutdown                                   *)
(*   pair                 the pipe between owner and TCP thread            *)
(*   net                  the segment at the datagram adapter, or NoSegment*)
(*   killed               a SIGPIPE has ended the process                  *)
(*                                                                         *)
(* Of the peer, only what its users see: segments that are lost, repeated  *)
(* or late, and their sequence numbers, are the matter of TCPConnection.   *)
(* Here `flight` is what the other side has not acknowledged, and          *)
(* segments arrive in order.                                               *)
(***************************************************************************)
EXTENDS Descriptors

CONSTANTS
    SendCapacity, RecvCapacity,
    Window                      \* the other side's window

ASSUME SocketAssumption == {SendCapacity, RecvCapacity, Window} \subseteq Nat \ {0}

(***************************************************************************)
(* A peer that is about to connect, its SYN on the way, or one that        *)
(* listens, its SYN unsent.                                                *)
(***************************************************************************)
NewPeer(syn) ==
    [out |-> NewStream(SendCapacity), in |-> NewStream(RecvCapacity),
     syn |-> syn, flight |-> << >>, fin |-> "unsent", linger |-> TRUE, idle |-> FALSE]

InFlight(p) ==
    Len(p.flight) + (IF p.syn = "sent" THEN 1 ELSE 0) + (IF p.fin = "sent" THEN 1 ELSE 0)

Active(p) ==
    /\ ~p.out.error /\ ~p.in.error
    /\ \/ InFlight(p) > 0 \/ ~IsFinished(p.out)
       \/ ~p.in.closed
       \/ p.linger /\ ~p.idle

PeerPush(p) ==
    IF p.syn # "acked" THEN p
    ELSE LET n    == Lesser(Window - Len(p.flight), Len(p.out.buf))
             ends == p.fin = "unsent" /\ p.out.closed /\ n = Len(p.out.buf) /\ Len(p.flight) + n < Window
         IN  [p EXCEPT !.flight = @ \o SubSeq(p.out.buf, 1, n), !.out = PopBytes(@, n),
                       !.fin = IF ends THEN "sent" ELSE @]

(***************************************************************************)
(* receive: a segment [syn, data, fin, acks, rst] that acknowledges `acks` *)
(* sequence numbers from the front of what was in flight.                  *)
(***************************************************************************)
Acknowledged(p, acks) ==
    LET syns  == IF p.syn = "sent" /\ acks > 0 THEN 1 ELSE 0
        bytes == Lesser(acks - syns, Len(p.flight))
    IN  [p EXCEPT !.syn = IF syns = 1 THEN "acked" ELSE @,
                  !.flight = SubSeq(@, bytes + 1, Len(@)),
                  !.fin = IF @ = "sent" /\ acks > syns + bytes THEN "acked" ELSE @]

PeerReceive(p, seg) ==
    LET heard == [p EXCEPT !.idle = FALSE, !.linger = @ /\ ~(p.in.closed /\ ~IsFinished(p.out)),
                           !.in.buf = @ \o seg.data, !.in.pushed = @ + Len(seg.data),
                           !.in.closed = @ \/ seg.fin,
                           !.syn = IF seg.syn /\ @ = "unsent" THEN "sent" ELSE @]
    IN  IF ~Active(p) THEN p
        ELSE IF seg.rst THEN [heard EXCEPT !.in.error = TRUE, !.out.error = TRUE]
        ELSE PeerPush(Acknowledged(heard, seg.acks))

-----------------------------------------------------------------------------
(***************************************************************************)
(* The rules, in the order they are added.                                 *)
(***************************************************************************)
ReceiveRule == [name |-> "receive TCP segment from the network", direction |-> "In"]
PushRule    == [name |-> "push bytes to TCPPeer", direction |-> "In"]
InboundRule == [name |-> "read bytes from inbound stream", direction |-> "Out"]

TCPRules == << ReceiveRule, PushRule, InboundRule >>

NoSegment == [syn |-> FALSE, data |-> << >>, fin |-> FALSE, acks |-> 0, rst |-> FALSE]

\* mistake: forget that the end of the inbound stream has been passed on
BugTCPInterest(rule, s) ==
    CASE rule = ReceiveRule -> Active(s.peer)
      [] rule = PushRule    -> /\ Active(s.peer) /\ ~s.outbound_shutdown
                               /\ AvailableCapacity(s.peer.out) > 0
      [] rule = InboundRule -> s.peer.in.buf # << >> \/ IsFinished(s.peer.in) \/ s.peer.in.error

TCPInterest(rule, s) ==
    CASE rule = ReceiveRule -> Active(s.peer)
      [] rule = PushRule    -> /\ Active(s.peer) /\ ~s.outbound_shutdown
                               /\ AvailableCapacity(s.peer.out) > 0
      [] rule = InboundRule -> \/ s.peer.in.buf # << >>
                               \/ (IsFinished(s.peer.in) \/ s.peer.in.error) /\ ~s.inbound_shutdown

Received(s) == [s EXCEPT !.peer = PeerReceive(@, s.net), !.net = NoSegment]

\* mistake: push what was read, but not the end of it
BugPushed(s) ==
    LET data == ReadBytes(s.pair.to["tcp"], AvailableCapacity(s.peer.out))
        fd   == AfterRead(s.thread_data, data)
        out  == PushBytes(s.peer.out, data)
    IN  [s EXCEPT !.pair = TakePair(@, "tcp", Len(data)), !.thread_data = fd,
                  !.outbound_shutdown = @ \/ fd.eof,
                  !.peer = IF fd.eof THEN [@ EXCEPT !.out = CloseStream(out)]
                           ELSE PeerPush([@ EXCEPT !.out = out])]

Pushed(s) ==
    LET data == ReadBytes(s.pair.to["tcp"], AvailableCapacity(s.peer.out))
        fd   == AfterRead(s.thread_data, data)
        out  == PushBytes(s.peer.out, data)
    IN  [s EXCEPT !.pair = TakePair(@, "tcp", Len(data)), !.thread_data = fd,
                  !.outbound_shutdown = @ \/ fd.eof,
                  !.peer = PeerPush([@ EXCEPT !.out = IF fd.eof THEN CloseStream(out) ELSE out])]

\* mistake: shut down both directions once the inbound stream has ended
BugDelivered(s) ==
    LET data  == SubSeq(s.peer.in.buf, 1, Lesser(Room(s.pair, "tcp"), Len(s.peer.in.buf)))
        wrote == [s EXCEPT !.pair = WritePair(@, "tcp", data), !.peer.in = PopBytes(@, Len(data))]
    IN  IF data # << >> /\ ~MayWrite(s.pair, "tcp") THEN [s EXCEPT !.killed = TRUE]
        ELSE IF IsFinished(wrote.peer.in) \/ wrote.peer.in.error
        THEN [wrote EXCEPT !.pair = ShutBoth(@), !.inbound_shutdown = TRUE]
        ELSE wrote

Delivered(s) ==
    LET data  == SubSeq(s.peer.in.buf, 1, Lesser(Room(s.pair, "tcp"), Len(s.peer.in.buf)))
        wrote == [s EXCEPT !.pair = WritePair(@, "tcp", data), !.peer.in = PopBytes(@, Len(data))]
    IN  IF data # << >> /\ ~MayWrite(s.pair, "tcp") THEN [s EXCEPT !.killed = TRUE]
        ELSE IF IsFinished(wrote.peer.in) \/ wrote.peer.in.error
        THEN [wrote EXCEPT !.pair = ShutWrite(@, "tcp"), !.inbound_shutdown = TRUE]
        ELSE wrote

\* to shut down counts as writing
TCPCallback(rule, s) ==
    CASE rule = ReceiveRule -> {[s |-> Received(s), served |-> TRUE]}
      [] rule = PushRule    -> {[s |-> Pushed(s), served |-> TRUE]}
      [] rule = InboundRule -> {[s |-> Delivered(s),
                                 served |-> s.peer.in.buf # << >> \/ IsFinished(s.peer.in) \/ s.peer.in.error]}

TCPCancel(rule, s) ==
    IF rule = PushRule
    THEN [s EXCEPT !.peer.out = CloseStream(@), !.outbound_shutdown = TRUE]
    ELSE s

TCPError(rule, s) ==
    CASE rule = ReceiveRule -> s
      [] rule = PushRule    -> [s EXCEPT !.peer.out = SetError(@)]
      [] rule = InboundRule -> [s EXCEPT !.peer.in = SetError(@)]

TCPAtEof(rule, s)  == rule # ReceiveRule /\ s.thread_data.eof
TCPClosed(rule, s) == rule # ReceiveRule /\ s.thread_data.closed

TCPRevents(rule, s) ==
    IF rule = ReceiveRule THEN [ready |-> s.net # NoSegment, hup |-> FALSE, err |-> FALSE]
    ELSE PairRevents(s.pair, "tcp", rule.direction)

TCPLoop == INSTANCE EventLoop WITH
    Interest <- TCPInterest, Callback <- TCPCallback, Cancel <- TCPCancel, Error <- TCPError,
    AtEof <- TCPAtEof, Closed <- TCPClosed, Revents <- TCPRevents
=============================================================================
