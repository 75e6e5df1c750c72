------------------------------- MODULE TCPPeer ------------------------------
(***************************************************************************)
(* TCPPeer (src/util/tools/tcp_peer.h) as operators on its state:          *)
(*   sender, receiver   the two halves                                     *)
(*   linger             linger_after_streams_finish_                       *)
(*   idle               cumulative_time_ - time_of_last_receipt_, counted  *)
(*                      only as far as the linger time it is compared with *)
(* need_send_ is set and used inside receive and false between calls, so   *)
(* it is a local definition there.                                         *)
(***************************************************************************)
EXTENDS TCPSender, TCPReceiver

CONSTANTS
    SendCapacity, RecvCapacity,     \* TCPConfig::send_capacity, recv_capacity
    LingerFactor                    \* the 10UL of TCPPeer::active

ASSUME PeerConfigAssumption ==
    /\ SendCapacity \in Nat \ {0}
    /\ RecvCapacity \in Nat \ {0}
    /\ LingerFactor \in Nat \ {0}

LingerTime == LingerFactor * InitialRTO

NewPeer(isn) ==
    [sender |-> NewSender(SendCapacity, isn), receiver |-> NewReceiver(RecvCapacity),
     linger |-> TRUE, idle |-> 0]

(***************************************************************************)
(* A segment as the other side parses it: the one RST flag on the wire is  *)
(* set if either half has it, and is read back into both.                  *)
(***************************************************************************)
Segment(msg, reply) ==
    LET reset == msg.RST \/ reply.RST
    IN  [sender |-> [msg EXCEPT !.RST = reset], receiver |-> [reply EXCEPT !.RST = reset]]

(***************************************************************************)
(* make_send: every message of the sender leaves with the receiver's reply *)
(* of that moment.                                                         *)
(***************************************************************************)
WithReply(p, msgs) == [i \in DOMAIN msgs |-> Segment(msgs[i], ReceiverReply(p.receiver))]

HasError(p) == p.sender.input.error \/ Inbound(p.receiver).error

(***************************************************************************)
(* TCPPeer::active                                                         *)
(***************************************************************************)
\* mistake: a sender is done when its stream is, whatever is still in flight
BugActiveIgnoresInFlight(p) ==
    /\ ~HasError(p)
    /\ \/ ~IsFinished(p.sender.input)
       \/ ~Inbound(p.receiver).closed
       \/ p.linger /\ p.idle < LingerTime

Active(p) ==
    /\ ~HasError(p)
    /\ \/ p.sender.total_outstandings > 0 \/ ~IsFinished(p.sender.input)
       \/ ~Inbound(p.receiver).closed
       \/ p.linger /\ p.idle < LingerTime

-----------------------------------------------------------------------------
(***************************************************************************)
(* TCPPeer::push                                                           *)
(***************************************************************************)
PeerPush(p) ==
    LET c == Push(p.sender)
    IN  [peer |-> [p EXCEPT !.sender = c.sender], sent |-> WithReply(p, c.sent)]

(***************************************************************************)
(* TCPPeer::tick                                                           *)
(***************************************************************************)
PeerTick(p, ms) ==
    LET c == Tick(p.sender, ms)
    IN  [peer |-> [p EXCEPT !.sender = c.sender, !.idle = Lesser(@ + ms, LingerTime)],
         sent |-> WithReply(p, c.sent)]

(***************************************************************************)
(* Whether a segment must be answered even if there is nothing to send: it *)
(* occupies sequence numbers, or is a keep-alive, one below our ackno.     *)
(***************************************************************************)
\* mistake: answer a segment only if it brings something new
BugMustAnswerOnlyNew(p, seg) ==
    /\ SeqLength(seg.sender) > 0
    /\ \/ ReceiverReply(p.receiver).ackno = None
       \/ Unwrap(seg.sender.seqno, p.receiver.isn, AckAbsseq(p.receiver)) >= AckAbsseq(p.receiver)

MustAnswer(p, seg) ==
    LET our_ackno == ReceiverReply(p.receiver).ackno
    IN  \/ SeqLength(seg.sender) > 0
        \/ our_ackno # None /\ (seg.sender.seqno + 1) % Mod32 = our_ackno

(***************************************************************************)
(* linger_after_streams_finish_ after a segment, judged before it is       *)
(* processed: the side whose peer finishes first need not linger.          *)
(***************************************************************************)
\* mistake: forget that our own stream must still be open
BugLingersAfterOnlyInbound(p) == p.linger /\ ~Inbound(p.receiver).closed

LingersAfter(p) ==
    p.linger /\ ~(Inbound(p.receiver).closed /\ ~IsFinished(p.sender.input))

(***************************************************************************)
(* TCPPeer::receive                                                        *)
(***************************************************************************)
\* mistake: process the acknowledgment and window but do not push
BugReceiveWithoutPush(p, seg) ==
    LET got == [p EXCEPT !.idle = 0,
                         !.linger = LingersAfter(p),
                         !.receiver = ReceiveSegment(@, seg.sender),
                         !.sender = ReceiveReply(@, seg.receiver)]
        empty == WithReply(got, << MakeEmptyMessage(got.sender) >>)
    IN  IF ~Active(p) THEN [peer |-> p, sent |-> << >>]
        ELSE [peer |-> got, sent |-> IF MustAnswer(p, seg) THEN empty ELSE << >>]

PeerReceive(p, seg) ==
    LET got    == [p EXCEPT !.idle = 0,
                            !.linger = LingersAfter(p),
                            !.receiver = ReceiveSegment(@, seg.sender),
                            !.sender = ReceiveReply(@, seg.receiver)]
        pushed == PeerPush(got)
        empty  == WithReply(pushed.peer, << MakeEmptyMessage(pushed.peer.sender) >>)
    IN  IF ~Active(p) THEN [peer |-> p, sent |-> << >>]
        ELSE IF MustAnswer(p, seg) /\ pushed.sent = << >>
        THEN [peer |-> pushed.peer, sent |-> empty]
        ELSE pushed
=============================================================================
