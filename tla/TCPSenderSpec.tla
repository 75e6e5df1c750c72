---------------------------- MODULE TCPSenderSpec ---------------------------
(***************************************************************************)
(* A TCPSender between an application that writes one stream and a peer    *)
(* whose replies may be late, repeated, reordered, contradictory or wrong. *)
(* Each method of the class is one action.                                 *)
(***************************************************************************)
EXTENDS TCPSender

CONSTANTS
    ISN,            \* the initial sequence number
    Capacity,       \* send_capacity
    StreamLen,      \* bound: bytes the application writes
    WindowSizes,    \* bound: the window sizes the peer advertises
    TickSizes       \* bound: the lengths of a tick, in ms

ASSUME EnvironmentAssumption ==
    /\ ISN \in Wrap32
    /\ Capacity \in Nat
    /\ StreamLen \in Nat
    /\ WindowSizes \subseteq Nat
    /\ TickSizes \subseteq Nat

VARIABLES
    sender,
    sent            \* the messages the last call transmitted

vars == << sender, sent >>

Init ==
    /\ sender = NewSender(Capacity, ISN)
    /\ sent = << >>

(***************************************************************************)
(* The application writes the next n bytes of its stream (what does not    *)
(* fit is written again later), closes it, or the stream gets an error.    *)
(***************************************************************************)
Write(n) ==
    /\ sender.input.pushed + n <= StreamLen
    /\ sender' = [sender EXCEPT !.input = PushBytes(@, BytesFrom(@.pushed, n))]
    /\ sent' = << >>

CloseWriter ==
    /\ sender' = [sender EXCEPT !.input = CloseStream(@)]
    /\ sent' = << >>

WriterFails ==
    /\ sender' = [sender EXCEPT !.input = SetError(@)]
    /\ sent' = << >>

Outcome(c) == sender' = c.sender /\ sent' = c.sent

CallPush == Outcome(Push(sender))

CallReceive(msg) == Outcome(Quiet(ReceiveReply(sender, msg)))

CallTick(ms) == Outcome(Tick(sender, ms))

Next ==
    \/ \E n \in 1 .. StreamLen : Write(n)
    \/ CloseWriter
    \/ WriterFails
    \/ CallPush
    \/ \E msg \in [ackno : Wrap32 \cup {None}, window_size : WindowSizes, RST : BOOLEAN] :
           CallReceive(msg)
    \/ \E ms \in TickSizes : CallTick(ms)

Spec == Init /\ [][Next]_vars

-----------------------------------------------------------------------------
TypeOK ==
    /\ sender \in Sender
    /\ sent \in Seq(SenderMessage)

(***************************************************************************)
(* The queue, the three counters and the timer describe the same thing,    *)
(* although push, receive and tick update them one by one: the messages    *)
(* kept for retransmission are consecutive, none is empty, together they   *)
(* are exactly the numbers from ack_absseq to next_absseq, their count is  *)
(* total_outstandings, and the timer runs if and only if there are any.    *)
(***************************************************************************)
QueueCoversInFlight == QueueCovers(sender)

(***************************************************************************)
(* What would be retransmitted is the stream: every queued message carries *)
(* the sequence number and the bytes of its place in the sequence space,   *)
(* the SYN only at its very beginning, the FIN only in the last message    *)
(* and only when the application has closed the stream and every byte of   *)
(* it has been sent.                                                       *)
(***************************************************************************)
QueueIsStream == \A i \in 1 .. Len(sender.qmesg) : CarriesItsPlace(sender, i)

(***************************************************************************)
(* The RTO is the initial one doubled once for every consecutive           *)
(* retransmission, through any mix of ticks, late acks and closed windows; *)
(* with nothing in flight both are back to their initial values.           *)
(***************************************************************************)
BackoffMatchesRetransmissions ==
    /\ sender.total_retransmissions < RetxCap =>
           sender.timer.rto_ms = Doubled[sender.total_retransmissions]
    /\ sender.qmesg = << >> => sender.total_retransmissions = 0

(***************************************************************************)
(* No step sends a new number beyond the window the peer last advertised,  *)
(* except one number to probe a closed window, and acknowledged numbers    *)
(* stay acknowledged.                                                      *)
(***************************************************************************)
WindowRespected ==
    [][/\ sender'.next_absseq > sender.next_absseq =>
              sender'.next_absseq <= sender'.ack_absseq + Greater(sender.wdsize, 1)
       /\ sender.next_absseq <= sender'.next_absseq
       /\ sender.ack_absseq <= sender'.ack_absseq]_vars

(***************************************************************************)
(* A push sends all it may: afterwards the window is full, or the FIN is   *)
(* out, or the application has nothing more to send yet.  A closed window  *)
(* counts as one number, so something is always in flight that will find   *)
(* out when it opens.                                                      *)
(***************************************************************************)
PushLeavesNothing ==
    [][CallPush =>
          \/ sender'.total_outstandings >= Greater(sender'.wdsize, 1)
          \/ sender'.FIN_flag
          \/ sender'.input.buf = << >> /\ ~sender'.input.closed /\ sender'.next_absseq > 0]_vars
=============================================================================
