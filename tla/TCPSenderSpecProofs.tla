----------------------- MODULE TCPSenderSpecProofs -------------------------
(***************************************************************************)
(* The sender's bookkeeping is right for every window, payload limit,      *)
(* capacity, timeout and modulus, and for any replies whatever.            *)
(***************************************************************************)
EXTENDS TCPSenderSpec, TCPPeerProofs

-----------------------------------------------------------------------------
(***************************************************************************)
(* The inductive invariant of the specification.                           *)
(***************************************************************************)
IInv ==
    /\ SoundSender(sender)
    /\ SendsStream(sender)
    /\ BackoffMatches(sender)
    /\ sent \in Seq(SenderMessage)

(***************************************************************************)
(* What every step does to the sender.                                     *)
(***************************************************************************)
LEMMA StepKeepsBooks ==
    ASSUME IInv, [Next]_vars
    PROVE  /\ IInv'
           /\ sender'.next_absseq > sender.next_absseq =>
                  sender'.next_absseq <= sender'.ack_absseq + Greater(sender.wdsize, 1)
           /\ sender.next_absseq <= sender'.next_absseq
           /\ sender.ack_absseq <= sender'.ack_absseq
<1> DEFINE Kept == /\ SoundSender(sender') /\ sent' \in Seq(SenderMessage)
                   /\ SendsStream(sender') /\ BackoffMatches(sender')
                   /\ sender'.next_absseq = sender.next_absseq
                   /\ sender'.ack_absseq >= sender.ack_absseq
<1>1. /\ SoundSender(sender) /\ SendsStream(sender) /\ BackoffMatches(sender)
      /\ sender \in Sender /\ SoundStream(sender.input) /\ sender.input \in Stream
      /\ OrderlyBuffer(sender.input)
      /\ sender.next_absseq \in Nat /\ sender.ack_absseq \in Nat /\ sender.wdsize \in Nat
      /\ sender.input.pushed \in Nat
  BY DEF IInv, SoundSender, Sender, Stream, SendsStream
<1>2. << >> \in Seq(SenderMessage)
  OBVIOUS
<1> DEFINE Goal == /\ IInv'
                   /\ sender'.next_absseq > sender.next_absseq =>
                          sender'.next_absseq <= sender'.ack_absseq + Greater(sender.wdsize, 1)
                   /\ sender.next_absseq <= sender'.next_absseq
                   /\ sender.ack_absseq <= sender'.ack_absseq
<1>3. ASSUME Kept PROVE Goal
  <2>1. sender'.ack_absseq \in Nat
    BY <1>3 DEF SoundSender, Sender
  <2> QED
    BY <1>1, <1>3, <2>1 DEF IInv
<1> DEFINE MayBecome(input) ==
              /\ SoundStream(input) /\ input \in Stream /\ OrderlyBuffer(input)
              /\ BytesPopped(input) = BytesPopped(sender.input)
              /\ IsFinished(sender.input) => IsFinished(input)
<1>3a. ASSUME NEW input, MayBecome(input),
              sender' = [sender EXCEPT !.input = input], sent' = << >>
       PROVE  Kept
  <2> DEFINE t == [sender EXCEPT !.input = input]
  <2>1. /\ SoundSender(t) /\ t.next_absseq = sender.next_absseq
        /\ t.ack_absseq = sender.ack_absseq
    BY <1>1, <1>3a, InputChangedSound
  <2>2. SendsStream(t) /\ BackoffMatches(t)
    BY <1>1, <1>3a, InputChangedSendsStream, InputChangedBackoff
  <2> HIDE DEF t
  <2>3. sender' = t
    BY <1>3a DEF t
  <2> QED
    BY <1>1, <1>2, <1>3a, <2>1, <2>2, <2>3
<1>4. ASSUME NEW n \in 1 .. StreamLen, Write(n) PROVE Kept
  <2> DEFINE input == PushBytes(sender.input, BytesFrom(sender.input.pushed, n))
  <2>1. n \in Nat
    BY EnvironmentAssumption
  <2>2. BytesFrom(sender.input.pushed, n) \in Seq(Byte)
    BY <1>1, <2>1, BytesFromType
  <2>3. SoundStream(input) /\ input \in Stream
    BY <1>1, <2>2, PushBytesSound DEF SoundStream
  <2>4. MayBecome(input)
    BY <1>1, <2>1, <2>3, PushKeepsOrder DEF IsFinished
  <2>5. sender' = [sender EXCEPT !.input = input] /\ sent' = << >>
    BY <1>4 DEF Write
  <2> HIDE DEF input, MayBecome
  <2> QED
    BY <1>3a, <2>4, <2>5
<1>5. CASE CloseWriter
  <2> DEFINE input == CloseStream(sender.input)
  <2>1. MayBecome(input)
    BY <1>1, FlagsSound, FlagsKeepOrder
  <2>2. sender' = [sender EXCEPT !.input = input] /\ sent' = << >>
    BY <1>5 DEF CloseWriter
  <2> HIDE DEF input, MayBecome
  <2> QED
    BY <1>3, <1>3a, <2>1, <2>2
<1>6. CASE WriterFails
  <2> DEFINE input == SetError(sender.input)
  <2>1. MayBecome(input)
    BY <1>1, FlagsSound, FlagsKeepOrder
  <2>2. sender' = [sender EXCEPT !.input = input] /\ sent' = << >>
    BY <1>6 DEF WriterFails
  <2> HIDE DEF input, MayBecome
  <2> QED
    BY <1>3, <1>3a, <2>1, <2>2
<1>7. CASE CallPush
  <2> DEFINE c == Push(sender)
  <2>1. /\ c \in Pushing(sender) /\ sender' = c.sender /\ sent' = c.sent
        /\ SendsStream(c.sender) /\ BackoffMatches(c.sender)
    BY <1>1, <1>7, PushSound, PushSendsStream, PushBackoff DEF CallPush, Outcome
  <2> HIDE DEF c
  <2>2. /\ SoundSender(sender') /\ sent' \in Seq(SenderMessage)
        /\ sender'.ack_absseq = sender.ack_absseq
        /\ sender'.next_absseq >= sender.next_absseq
        /\ sender'.next_absseq > sender.next_absseq =>
               sender'.total_outstandings <= Window(sender)
    BY <2>1 DEF Pushing
  <2>3. /\ sender'.next_absseq \in Nat /\ sender'.total_outstandings \in Nat
        /\ sender'.next_absseq = sender'.ack_absseq + sender'.total_outstandings
    BY <2>2 DEF SoundSender, Sender, QueueCovers
  <2>4. Window(sender) \in Nat /\ Window(sender) = Greater(sender.wdsize, 1)
    BY <1>1, WindowType
  <2> QED
    BY <1>1, <2>1, <2>2, <2>3, <2>4 DEF IInv
<1>8. ASSUME NEW msg \in [ackno : Wrap32 \cup {None}, window_size : WindowSizes, RST : BOOLEAN],
             CallReceive(msg)
      PROVE  Kept
  <2>1. msg \in ReceiverMessage
    BY EnvironmentAssumption DEF ReceiverMessage
  <2>2. sender' = ReceiveReply(sender, msg) /\ sent' = << >>
    BY <1>8 DEF CallReceive, Outcome, Quiet
  <2> QED
    BY <1>1, <1>2, <2>1, <2>2, ReceiveReplySound, ReceiveReplySendsStream,
       ReceiveReplyBackoff
<1>9. ASSUME NEW ms \in TickSizes, CallTick(ms) PROVE Kept
  <2>1. ms \in Nat
    BY EnvironmentAssumption
  <2> DEFINE c == Tick(sender, ms)
  <2>2. sender' = c.sender /\ sent' = c.sent
    BY <1>9 DEF CallTick, Outcome
  <2>3. /\ SoundSender(c.sender) /\ c.sent \in Seq(SenderMessage)
        /\ c.sender.next_absseq = sender.next_absseq
        /\ c.sender.ack_absseq = sender.ack_absseq
        /\ SendsStream(c.sender) /\ BackoffMatches(c.sender)
    BY <1>1, <2>1, TickSound, TickSendsStream, TickBackoff
  <2> HIDE DEF c
  <2> QED
    BY <1>1, <2>2, <2>3
<1>10. CASE UNCHANGED vars
  <2>1. Kept
    BY <1>1, <1>10 DEF vars, IInv
  <2> QED
    BY <1>3, <2>1
<1> HIDE DEF Kept
<1>11. CASE Next
  <2>1. CASE \E n \in 1 .. StreamLen : Write(n)
    BY <1>3, <1>4, <2>1
  <2>2. CASE \E msg \in [ackno : Wrap32 \cup {None}, window_size : WindowSizes,
                         RST : BOOLEAN] : CallReceive(msg)
    BY <1>3, <1>8, <2>2
  <2>3. CASE \E ms \in TickSizes : CallTick(ms)
    BY <1>3, <1>9, <2>3
  <2> QED
    BY <1>5, <1>6, <1>7, <1>11, <2>1, <2>2, <2>3 DEF Next
<1>12. Goal
  BY <1>10, <1>11
<1> QED
  BY <1>12 DEF Goal

(***************************************************************************)
(* The books are right in every reachable state.                           *)
(***************************************************************************)
THEOREM Invariance == Spec => []IInv
<1>1. Init => IInv
  BY EnvironmentAssumption, NewSenderSound, NewSenderSendsStream, NewSenderBackoff DEF Init, IInv
<1>2. IInv /\ [Next]_vars => IInv'
  BY StepKeepsBooks
<1> QED
  BY <1>1, <1>2, PTL DEF Spec

(***************************************************************************)
(* No call ever leaves the types: no count goes below zero, whatever the   *)
(* peer acknowledges and advertises.                                       *)
(***************************************************************************)
THEOREM TypeCorrect == Spec => []TypeOK
<1>1. IInv => TypeOK
  BY DEF IInv, SoundSender, TypeOK
<1> QED
  BY <1>1, Invariance, PTL

(***************************************************************************)
(* The retransmission queue, the counters and the timer agree in every     *)
(* reachable state (TCPSender::push, receive and tick).                    *)
(***************************************************************************)
THEOREM QueueAlwaysCovers == Spec => []QueueCoversInFlight
<1>1. IInv => QueueCoversInFlight
  BY DEF IInv, SoundSender, QueueCoversInFlight
<1> QED
  BY <1>1, Invariance, PTL

(***************************************************************************)
(* No step of the sender sends beyond the window it was last given, but    *)
(* for the probe, and none takes back a number or an acknowledgment.       *)
(***************************************************************************)
THEOREM WindowAlwaysRespected == Spec => WindowRespected
<1>1. IInv /\ [Next]_vars =>
          [/\ sender'.next_absseq > sender.next_absseq =>
                  sender'.next_absseq <= sender'.ack_absseq + Greater(sender.wdsize, 1)
           /\ sender.next_absseq <= sender'.next_absseq
           /\ sender.ack_absseq <= sender'.ack_absseq]_vars
  BY StepKeepsBooks
<1> QED
  BY <1>1, Invariance, PTL DEF Spec, WindowRespected

(***************************************************************************)
(* Whatever would be retransmitted is the stream at its place: the right   *)
(* sequence number and bytes, the SYN only at the very beginning and the   *)
(* FIN only at the very end (TCPSender::push, receive and tick).           *)
(***************************************************************************)
THEOREM QueueIsAlwaysStream == Spec => []QueueIsStream
<1>1. IInv => QueueIsStream
  BY DEF IInv, SendsStream, QueueCarries, QueueIsStream
<1> QED
  BY <1>1, Invariance, PTL

(***************************************************************************)
(* In every reachable state the RTO is the initial one doubled as often as *)
(* the retransmission count says, and with nothing in flight both are back *)
(* where they began (RetransmissionTimer and its use in receive and tick). *)
(***************************************************************************)
THEOREM BackoffAlwaysMatches == Spec => []BackoffMatchesRetransmissions
<1>1. IInv => BackoffMatchesRetransmissions
  BY DEF IInv, BackoffMatches, BackoffMatchesRetransmissions
<1> QED
  BY <1>1, Invariance, PTL

(***************************************************************************)
(* TCPSender::push never stops early: it leaves a full window, a sent FIN, *)
(* or nothing to send.                                                     *)
(***************************************************************************)
THEOREM PushAlwaysFinishes == Spec => PushLeavesNothing
<1>1. ASSUME IInv, CallPush
      PROVE  \/ sender'.total_outstandings >= Greater(sender'.wdsize, 1)
             \/ sender'.FIN_flag
             \/ sender'.input.buf = << >> /\ ~sender'.input.closed /\ sender'.next_absseq > 0
  BY <1>1, PushFinishes DEF IInv, CallPush, Outcome
<1>2. IInv =>
          [CallPush =>
              \/ sender'.total_outstandings >= Greater(sender'.wdsize, 1)
              \/ sender'.FIN_flag
              \/ sender'.input.buf = << >> /\ ~sender'.input.closed /\ sender'.next_absseq > 0]_vars
  BY <1>1
<1> QED
  BY <1>2, Invariance, PTL DEF Spec, PushLeavesNothing
=============================================================================
