------------------------------ MODULE TCPSender -----------------------------
(***************************************************************************)
(* TCPSender (src/src/tcp_sender) as operators on its state, a record with *)
(* the fields of the class:                                                *)
(*   input                  the outbound ByteStream                        *)
(*   isn                    the initial sequence number                    *)
(*   timer                  the RetransmissionTimer                        *)
(*   SYN_flag, FIN_flag     whether the SYN, the FIN has been sent         *)
(*   total_outstandings     sequence numbers sent and not acknowledged     *)
(*   total_retransmissions  consecutive retransmissions                    *)
(*   wdsize                 the peer's last window size                    *)
(*   next_absseq            the next sequence number to send               *)
(*   ack_absseq             the first one not acknowledged                 *)
(*   qmesg                  the messages in between, oldest first          *)
(***************************************************************************)
EXTENDS TCPMessages

CONSTANTS
    MaxPayload,     \* TCPConfig::MAX_PAYLOAD_SIZE
    InitialRTO,     \* initial_RTO_ms_
    RTOCap,         \* bound: the RTO stops doubling here (the code never stops)
    RetxCap         \* bound: the retransmission count stops here

ASSUME SenderAssumption ==
    /\ MaxPayload \in Nat \ {0}
    /\ InitialRTO \in Nat \ {0}
    /\ RTOCap \in Nat /\ RTOCap >= InitialRTO
    /\ RetxCap \in Nat \ {0}

-----------------------------------------------------------------------------
(***************************************************************************)
(* RetransmissionTimer                                                     *)
(***************************************************************************)
Timer == [is_active : BOOLEAN, rto_ms : Nat, time_ms : Nat]

NewTimer == [is_active |-> FALSE, rto_ms |-> InitialRTO, time_ms |-> 0]

Start(timer)     == [timer EXCEPT !.is_active = TRUE, !.time_ms = 0]
Stop(timer)      == [timer EXCEPT !.is_active = FALSE, !.time_ms = 0]
Reload(timer)    == [timer EXCEPT !.rto_ms = InitialRTO, !.time_ms = 0]
Reset(timer)     == [timer EXCEPT !.time_ms = 0]
Backoff(timer)   == [timer EXCEPT !.rto_ms = Lesser(2 * @, RTOCap)]
IsExpired(timer) == timer.is_active /\ timer.time_ms >= timer.rto_ms

(***************************************************************************)
(* What push and receive do with the timer.                                *)
(***************************************************************************)
\* mistake: forget that the timer may have stopped
BugTimerAfterSendUntouched(timer) == timer

TimerAfterSend(timer) == IF timer.is_active THEN timer ELSE Start(timer)

\* mistake: keep the backed-off RTO when new data is acknowledged
BugTimerAfterAckKeepsRTO(timer, left) ==
    IF left = << >> THEN Stop(timer) ELSE Start(timer)

TimerAfterAck(timer, left) ==
    IF left = << >> THEN Stop(Reload(timer)) ELSE Start(Reload(timer))

Advance(timer, ms) ==
    [timer EXCEPT !.time_ms = IF timer.is_active THEN @ + ms ELSE @]

-----------------------------------------------------------------------------
Sender ==
    [input : Stream, isn : Wrap32, timer : Timer,
     SYN_flag : BOOLEAN, FIN_flag : BOOLEAN,
     total_outstandings : Nat, total_retransmissions : Nat,
     wdsize : Nat, next_absseq : Nat, ack_absseq : Nat,
     qmesg : Seq(SenderMessage)]

NewSender(capacity, isn) ==
    [input |-> NewStream(capacity), isn |-> isn, timer |-> NewTimer,
     SYN_flag |-> FALSE, FIN_flag |-> FALSE,
     total_outstandings |-> 0, total_retransmissions |-> 0,
     wdsize |-> 1, next_absseq |-> 0, ack_absseq |-> 0,
     qmesg |-> << >>]

(***************************************************************************)
(* TCPSender::make_empty_message                                           *)
(***************************************************************************)
MakeEmptyMessage(s) ==
    [seqno |-> Wrap(s.next_absseq, s.isn), SYN |-> FALSE, payload |-> << >>,
     FIN |-> FALSE, RST |-> s.input.error]

(***************************************************************************)
(* The window push works with: a closed one is probed with one number.     *)
(***************************************************************************)
\* mistake: no probe of a closed window
BugWindowUnprobed(s) == s.wdsize

Window(s) == IF s.wdsize > 0 THEN s.wdsize ELSE 1

(***************************************************************************)
(* Whether the FIN goes along when n bytes are read and the window leaves  *)
(* room for so many more numbers.                                          *)
(***************************************************************************)
\* mistake: no regard for the room left
BugTakesFinWithoutRoom(s, n, room) == IsFinished(PopBytes(s.input, n))

\* mistake: the FIN goes out with the last segment the window allows
BugTakesFinEarly(s, n, room) == room > 0 /\ s.input.closed

TakesFin(s, n, room) == room > 0 /\ IsFinished(PopBytes(s.input, n))

(***************************************************************************)
(* The message one turn of push's loop makes: the SYN if it has not been   *)
(* sent, as many bytes as the window and the payload limit leave room for, *)
(* and the FIN if the stream ends here and there is room for it too.       *)
(***************************************************************************)
NextMessage(s) ==
    LET syn  == ~s.SYN_flag
        room == Window(s) - s.total_outstandings - One(syn)
        n    == Lesser(Lesser(MaxPayload, room), Len(s.input.buf))
    IN  [MakeEmptyMessage(s) EXCEPT
            !.SYN = syn,
            !.payload = SubSeq(s.input.buf, 1, n),
            !.FIN = TakesFin(s, n, room - n)]

(***************************************************************************)
(* The sender after it has sent msg for the first time.                    *)
(***************************************************************************)
Sent(s, msg) ==
    [s EXCEPT
        !.input = PopBytes(@, Len(msg.payload)),
        !.SYN_flag = TRUE,
        !.FIN_flag = msg.FIN,
        !.timer = TimerAfterSend(@),
        !.next_absseq = @ + SeqLength(msg),
        !.total_outstandings = @ + SeqLength(msg),
        !.qmesg = Append(@, msg)]

(***************************************************************************)
(* A call's progress: the sender and the messages it has transmitted.      *)
(***************************************************************************)
Quiet(s) == [sender |-> s, sent |-> << >>]

PushOnce(c) ==
    LET s   == c.sender
        msg == NextMessage(s)
    IN  IF Window(s) <= s.total_outstandings \/ s.FIN_flag \/ SeqLength(msg) = 0
        THEN c
        ELSE [sender |-> Sent(s, msg), sent |-> Append(c.sent, msg)]

(***************************************************************************)
(* TCPSender::push.  Every turn of the loop but the last sends at least    *)
(* one number and the window does not change, so Window(s) turns are       *)
(* enough; a turn after the last changes nothing.                          *)
(***************************************************************************)
\* mistake: one message for each call
BugPushSendsOne(s) == PushOnce(Quiet(s))

PushTurns(s) ==
    LET turn[i \in 0 .. Window(s)] ==
            IF i = 0 THEN Quiet(s) ELSE PushOnce(turn[i - 1])
    IN  turn

Push(s) == PushTurns(s)[Window(s)]

-----------------------------------------------------------------------------
(***************************************************************************)
(* The loop of TCPSender::receive: how many messages at the front of the   *)
(* queue end at or before the acknowledged number.                         *)
(***************************************************************************)
\* mistake: take the ackno for the last number received, not the next one needed
BugFullyAckedInclusive(s, absseq) ==
    CHOOSE n \in 0 .. Len(s.qmesg) :
        /\ \A i \in 1 .. n : Ends(s.qmesg, s.ack_absseq)[i] <= absseq + 1
        /\ n < Len(s.qmesg) => Ends(s.qmesg, s.ack_absseq)[n + 1] > absseq + 1

FullyAcked(s, absseq) ==
    CHOOSE n \in 0 .. Len(s.qmesg) :
        /\ \A i \in 1 .. n : Ends(s.qmesg, s.ack_absseq)[i] <= absseq
        /\ n < Len(s.qmesg) => Ends(s.qmesg, s.ack_absseq)[n + 1] > absseq

\* mistake: count down by the acknowledged number, which may be inside a message
BugAckedNumbersPartly(s, absseq) == absseq - s.ack_absseq

AckedNumbers(s, absseq) ==
    Ends(s.qmesg, s.ack_absseq)[FullyAcked(s, absseq)] - s.ack_absseq

Acked(s, absseq) ==
    LET n    == FullyAcked(s, absseq)
        left == SubSeq(s.qmesg, n + 1, Len(s.qmesg))
    IN  IF absseq > s.next_absseq \/ n = 0 THEN s
        ELSE [s EXCEPT
                !.ack_absseq = Ends(s.qmesg, @)[n],
                !.total_outstandings = @ - AckedNumbers(s, absseq),
                !.qmesg = left,
                !.total_retransmissions = 0,
                !.timer = TimerAfterAck(@, left)]

(***************************************************************************)
(* TCPSender::receive                                                      *)
(***************************************************************************)
ReceiveReply(s, msg) ==
    LET t == [s EXCEPT !.wdsize = msg.window_size]
    IN  IF s.input.error THEN s
        ELSE IF msg.RST THEN [s EXCEPT !.input = SetError(@)]
        ELSE IF msg.ackno = None THEN t
        ELSE Acked(t, Unwrap(msg.ackno, s.isn, s.next_absseq))

(***************************************************************************)
(* What tick does after it has retransmitted: a closed window is not taken *)
(* for congestion.                                                         *)
(***************************************************************************)
\* mistake: back off although the peer's window is closed
BugBackedOffAlways(s) ==
    [s EXCEPT !.timer = Reset(Backoff(@)),
              !.total_retransmissions = IF s.wdsize = 0 THEN @ ELSE Lesser(@ + 1, RetxCap)]

BackedOff(s) ==
    IF s.wdsize = 0 THEN [s EXCEPT !.timer = Reset(@)]
    ELSE [s EXCEPT !.timer = Reset(Backoff(@)),
                   !.total_retransmissions = Lesser(@ + 1, RetxCap)]

(***************************************************************************)
(* TCPSender::tick                                                         *)
(***************************************************************************)
Tick(s, ms) ==
    LET t == [s EXCEPT !.timer = Advance(@, ms)]
    IN  IF IsExpired(t.timer) /\ t.qmesg # << >>
        THEN [sender |-> BackedOff(t), sent |-> << Head(t.qmesg) >>]
        ELSE Quiet(t)

-----------------------------------------------------------------------------
(***************************************************************************)
(* What the fields of a sender say about each other.  The messages in the  *)
(* queue are consecutive and none is empty, together they are exactly the  *)
(* numbers from ack_absseq to next_absseq, their count is                  *)
(* total_outstandings, and the timer runs if and only if there are any.    *)
(***************************************************************************)
QueueEnds(s) == Ends(s.qmesg, s.ack_absseq)

QueueCovers(s) ==
    /\ QueueEnds(s)[Len(s.qmesg)] = s.next_absseq
    /\ \A i \in 1 .. Len(s.qmesg) : SeqLength(s.qmesg[i]) > 0
    /\ s.ack_absseq + s.total_outstandings = s.next_absseq
    /\ s.timer.is_active <=> s.qmesg # << >>

(***************************************************************************)
(* A message in the queue carries the sequence number and the bytes of its *)
(* place in the sequence space, the SYN only at its very beginning, the    *)
(* FIN only at the end of the queue and of the stream.                     *)
(***************************************************************************)
CarriesItsPlace(s, i) ==
    LET msg   == s.qmesg[i]
        start == QueueEnds(s)[i - 1]
    IN  /\ msg.seqno = Wrap(start, s.isn)
        /\ msg.SYN <=> start = 0
        /\ msg.payload = BytesFrom(start + One(msg.SYN) - 1, Len(msg.payload))
        /\ msg.FIN => i = Len(s.qmesg) /\ IsFinished(s.input)

(***************************************************************************)
(* The initial RTO, doubled k times.                                       *)
(***************************************************************************)
Doubled[k \in Nat] ==
    IF k = 0 THEN InitialRTO ELSE Lesser(2 * Doubled[k - 1], RTOCap)
=============================================================================
