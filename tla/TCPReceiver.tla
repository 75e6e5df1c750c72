----------------------------- MODULE TCPReceiver ----------------------------
(***************************************************************************)
(* TCPReceiver (src/src/tcp_receiver) as operators on its state: the       *)
(* reassembler and the peer's ISN, None until a SYN arrives.               *)
(***************************************************************************)
EXTENDS Reassembler, TCPMessages

CONSTANT UINT16_MAX         \* the largest window a segment can carry

ASSUME WindowAssumption == UINT16_MAX \in Nat \ {0}

NewReceiver(capacity) == [reassembler |-> NewReassembler(capacity), isn |-> None]

Inbound(r) == r.reassembler.output

SetInboundError(r) == [r EXCEPT !.reassembler.output = SetError(@)]

(***************************************************************************)
(* The stream index of a segment's payload.  A segment numbered like the   *)
(* SYN but without the flag gets index -1 as a uint64_t, beyond any eof.   *)
(***************************************************************************)
\* mistake: give the SYN and the first byte the same index
BugStreamIndexNoSyn(r, msg) ==
    Unwrap(msg.seqno, r.isn, Inbound(r).pushed + 1)

StreamIndex(r, msg) ==
    LET ckpt   == Inbound(r).pushed + 1
        absseq == Unwrap(msg.seqno, r.isn, ckpt)
    IN  IF msg.SYN THEN 0 ELSE (absseq - 1) % Mod64

(***************************************************************************)
(* TCPReceiver::receive                                                    *)
(***************************************************************************)
ReceiveSegment(r, msg) ==
    LET synced == [r EXCEPT !.isn = IF @ = None THEN msg.seqno ELSE @]
    IN  IF Inbound(r).error THEN r
        ELSE IF msg.RST THEN SetInboundError(r)
        ELSE IF r.isn = None /\ ~msg.SYN THEN r
        ELSE [synced EXCEPT !.reassembler =
                Insert(@, StreamIndex(synced, msg), msg.payload, msg.FIN)]

(***************************************************************************)
(* The next absolute sequence number the receiver needs: after the SYN,    *)
(* the bytes pushed and, once the stream is closed, the FIN.               *)
(***************************************************************************)
\* mistake: acknowledge the FIN as soon as it is known, not when reached
BugAckAbsseqFinKnown(r) ==
    Inbound(r).pushed + 1 + One(r.reassembler.eof_index # UINT64_MAX)

AckAbsseq(r) == Inbound(r).pushed + 1 + One(Inbound(r).closed)

\* mistake: count the stored out-of-order bytes as used space
BugAdvertiseLessPending(r) ==
    [ackno       |-> IF r.isn = None THEN None ELSE Wrap(AckAbsseq(r), r.isn),
     window_size |-> Lesser(AvailableCapacity(Inbound(r)) - BytesPending(r.reassembler),
                            UINT16_MAX),
     RST         |-> Inbound(r).error]

\* mistake: advertise the capacity, whatever is waiting to be read
BugAdvertiseCapacity(r) ==
    [ackno       |-> IF r.isn = None THEN None ELSE Wrap(AckAbsseq(r), r.isn),
     window_size |-> Lesser(Inbound(r).capacity, UINT16_MAX),
     RST         |-> Inbound(r).error]

(***************************************************************************)
(* TCPReceiver::send                                                       *)
(***************************************************************************)
ReceiverReply(r) ==
    [ackno       |-> IF r.isn = None THEN None ELSE Wrap(AckAbsseq(r), r.isn),
     window_size |-> Lesser(AvailableCapacity(Inbound(r)), UINT16_MAX),
     RST         |-> Inbound(r).error]
=============================================================================
