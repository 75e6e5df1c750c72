--------------------------- MODULE TCPReceiverSpec --------------------------
(***************************************************************************)
(* A TCPReceiver facing the segments one peer cuts its stream into: lost,  *)
(* repeated, reordered, overlapping, with the sequence numbers wrapping    *)
(* around while the stream is received.                                    *)
(***************************************************************************)
EXTENDS TCPReceiver

CONSTANTS
    StreamLen,      \* bound: bytes in the peer's stream
    Capacity,       \* recv_capacity
    PeerISN         \* the peer's initial sequence number

ASSUME PeerAssumption ==
    /\ StreamLen \in Nat /\ StreamLen + 2 < Mod64 \div 2
    /\ Capacity \in Nat \ {0}
    /\ PeerISN \in Wrap32

VARIABLES
    receiver,
    arrived         \* the absolute sequence numbers that have arrived since the SYN

vars == << receiver, arrived >>

Init ==
    /\ receiver = NewReceiver(Capacity)
    /\ arrived = {}

(***************************************************************************)
(* The segment that starts at absolute number first and carries n bytes;   *)
(* a SYN segment starts at 0.                                              *)
(***************************************************************************)
PeerSegment(first, n, fin) ==
    [seqno |-> Wrap(first, PeerISN), SYN |-> first = 0, FIN |-> fin, RST |-> FALSE,
     payload |-> BytesFrom(IF first = 0 THEN 0 ELSE first - 1, n)]

(***************************************************************************)
(* A segment of the peer's stream arrives.  One that is more than half the *)
(* 32-bit space old has left the network; a SYN carries its own meaning    *)
(* and may be any age.                                                     *)
(***************************************************************************)
SegmentArrives(first, n, fin) ==
    LET msg  == PeerSegment(first, n, fin)
        last == first + SeqLength(msg) - 1
    IN  /\ first + One(first = 0) + n <= StreamLen + 1
        /\ fin => first + One(first = 0) + n = StreamLen + 1
        /\ first = 0 \/ AckAbsseq(receiver) - first < Mod32 \div 2
        /\ first - AckAbsseq(receiver) < Mod32 \div 2
        /\ receiver' = ReceiveSegment(receiver, msg)
        /\ arrived' = IF receiver'.isn = None THEN arrived ELSE arrived \cup (first .. last)

(***************************************************************************)
(* An empty segment with the number of the SYN but not the flag, such as a *)
(* keep-alive right after the handshake (TCPPeer answers those).           *)
(***************************************************************************)
KeepAliveArrives ==
    /\ AckAbsseq(receiver) < Mod32 \div 2
    /\ receiver' = ReceiveSegment(receiver, [PeerSegment(0, 0, FALSE) EXCEPT !.SYN = FALSE])
    /\ UNCHANGED arrived

ResetArrives ==
    /\ receiver' = ReceiveSegment(receiver, [PeerSegment(1, 0, FALSE) EXCEPT !.RST = TRUE])
    /\ UNCHANGED arrived

Take(n) ==
    /\ n <= Len(Inbound(receiver).buf)
    /\ receiver' = [receiver EXCEPT !.reassembler.output = PopBytes(@, n)]
    /\ UNCHANGED arrived

Next ==
    \/ \E first \in 0 .. StreamLen + 1, n \in 0 .. StreamLen, fin \in BOOLEAN :
           SegmentArrives(first, n, fin)
    \/ KeepAliveArrives
    \/ ResetArrives
    \/ \E n \in 1 .. Capacity : Take(n)

Spec == Init /\ [][Next]_vars

-----------------------------------------------------------------------------
TypeOK ==
    /\ receiver.isn \in {None, PeerISN}
    /\ Inbound(receiver) \in Stream
    /\ receiver.reassembler.first_unassembled \in 0 .. StreamLen
    /\ arrived \subseteq 0 .. StreamLen + 1

(***************************************************************************)
(* An acknowledgment is a promise: every sequence number below the ackno   *)
(* (SYN, bytes and FIN) has arrived, and the bytes given to the reader are *)
(* the peer's, in order, although the 32-bit numbers wrap around.          *)
(***************************************************************************)
AckedHasArrived ==
    receiver.isn # None =>
        /\ 0 .. AckAbsseq(receiver) - 1 \subseteq arrived
        /\ Inbound(receiver).buf =
               BytesFrom(BytesPopped(Inbound(receiver)), Len(Inbound(receiver).buf))

(***************************************************************************)
(* What the peer has been promised is never taken back: the ackno does not *)
(* decrease, and neither does the right edge of the window (ackno + window *)
(* size), whatever mix of inserts and reads happens.                       *)
(***************************************************************************)
RightEdge(r) == AckAbsseq(r) + ReceiverReply(r).window_size

PromisesKept ==
    [][receiver.isn # None =>
          /\ receiver'.isn = receiver.isn
          /\ AckAbsseq(receiver) <= AckAbsseq(receiver')
          /\ RightEdge(receiver) <= RightEdge(receiver')]_vars

(***************************************************************************)
(* What was advertised can be kept: a segment that starts at the ackno and *)
(* fits the advertised window is taken in full, whatever is stored beyond. *)
(***************************************************************************)
WindowIsHonest ==
    LET reply == ReceiverReply(receiver)
        ack   == AckAbsseq(receiver)
        n     == Lesser(reply.window_size, StreamLen + 1 - ack)
    IN  (reply.ackno # None /\ ~reply.RST /\ n > 0) =>
            AckAbsseq(ReceiveSegment(receiver, PeerSegment(ack, n, FALSE))) >= ack + n
=============================================================================
