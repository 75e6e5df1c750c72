-------------------------- MODULE TCPConnectionProofs -----------------------
(***************************************************************************)
(* Two TCPPeers over a network that loses, repeats, delays and reorders:   *)
(* the safety properties of TCPConnection, for streams of any length short *)
(* of half the sequence space, any capacities, windows and initial         *)
(* sequence numbers.                                                       *)
(*                                                                         *)
(* The invariant is stated once for each direction, from one side's sender *)
(* to the other side's receiver.  Transmits and Sendable say what a sender *)
(* may put on the wire, Flows what the sender and the receiver know of     *)
(* each other, Valid what a segment on its way carries.  What has been     *)
(* sent and received only grows (Onward, GotOn), and a segment stays valid *)
(* while it does: this is why late, repeated and reordered segments do no  *)
(* harm.                                                                   *)
(***************************************************************************)
EXTENDS TCPConnection, TCPPeerProofs

-----------------------------------------------------------------------------
(***************************************************************************)
(* How a sender s may become t: what it has sent stays sent, and after its *)
(* FIN its stream does not grow.                                           *)
(***************************************************************************)
Onward(t, s) ==
    /\ t.isn = s.isn
    /\ s.SYN_flag => t.SYN_flag
    /\ s.FIN_flag => t.FIN_flag /\ t.input.pushed = s.input.pushed
    /\ s.next_absseq <= t.next_absseq
    /\ BytesPopped(s.input) <= BytesPopped(t.input)

(***************************************************************************)
(* A sender whose stream has not been written to or closed, only read.     *)
(***************************************************************************)
SameInput(t, s) ==
    /\ t.input.pushed = s.input.pushed /\ t.input.closed = s.input.closed
    /\ t.input.error = s.input.error

(***************************************************************************)
(* A message that carries a part of the stream s has already sent.         *)
(***************************************************************************)
Sendable(s, msg) ==
    \E first \in Nat, n \in Nat, fin \in BOOLEAN :
        /\ msg = StreamSegment(s.isn, first, n, fin)
        /\ first < s.next_absseq /\ Index(first) + n <= BytesPopped(s.input)
        /\ fin => s.FIN_flag /\ Index(first) + n = s.input.pushed

(***************************************************************************)
(* A sound sender that has had no error and whose queue holds parts of its *)
(* stream.                                                                 *)
(***************************************************************************)
Transmits(s) ==
    /\ SoundSender(s) /\ SendsStream(s) /\ ~s.input.error
    /\ \A i \in 1 .. Len(s.qmesg) : Sendable(s, s.qmesg[i])

(***************************************************************************)
(* What a sender's numbers say of each other.                              *)
(***************************************************************************)
LEMMA SenderNumbers ==
    ASSUME NEW s, Transmits(s)
    PROVE  /\ s \in Sender /\ s.isn \in Wrap32 /\ s.input \in Stream /\ SoundStream(s.input)
           /\ s.qmesg \in Seq(SenderMessage) /\ Len(s.qmesg) \in Nat
           /\ s.next_absseq \in Nat /\ s.ack_absseq \in Nat /\ s.total_outstandings \in Nat
           /\ s.SYN_flag \in BOOLEAN /\ s.FIN_flag \in BOOLEAN
           /\ s.input.pushed \in Nat /\ BytesPopped(s.input) \in Nat
           /\ BytesPopped(s.input) <= s.input.pushed
           /\ s.ack_absseq + s.total_outstandings = s.next_absseq
           /\ s.next_absseq = One(s.SYN_flag) + BytesPopped(s.input) + One(s.FIN_flag)
           /\ s.next_absseq <= s.input.pushed + 2
           /\ s.SYN_flag <=> s.next_absseq > 0
           /\ s.FIN_flag => /\ s.SYN_flag /\ s.input.closed /\ s.input.buf = << >>
                            /\ BytesPopped(s.input) = s.input.pushed
                            /\ s.next_absseq = s.input.pushed + 2
<1>1. /\ s \in Sender /\ s.isn \in Wrap32 /\ s.input \in Stream /\ SoundStream(s.input)
      /\ s.qmesg \in Seq(SenderMessage)
      /\ s.next_absseq \in Nat /\ s.ack_absseq \in Nat /\ s.total_outstandings \in Nat
      /\ s.SYN_flag \in BOOLEAN /\ s.FIN_flag \in BOOLEAN
      /\ s.ack_absseq + s.total_outstandings = s.next_absseq
  BY DEF Transmits, SoundSender, Sender, QueueCovers
<1>2. s.input.pushed \in Nat /\ Len(s.input.buf) \in Nat /\ Len(s.qmesg) \in Nat
  BY <1>1, LenIsNat DEF Stream
<1>3. Len(s.input.buf) <= s.input.pushed
  BY DEF Transmits, SendsStream, OrderlyBuffer
<1>4. /\ BytesPopped(s.input) \in Nat /\ BytesPopped(s.input) <= s.input.pushed
      /\ s.input.buf = << >> => BytesPopped(s.input) = s.input.pushed
  BY <1>2, <1>3 DEF BytesPopped
<1>5. /\ s.next_absseq = One(s.SYN_flag) + BytesPopped(s.input) + One(s.FIN_flag)
      /\ s.SYN_flag <=> s.next_absseq > 0
      /\ s.FIN_flag => s.SYN_flag /\ s.input.closed /\ s.input.buf = << >>
  BY DEF Transmits, SendsStream, SentSoFar, IsFinished
<1>6. /\ s.next_absseq <= s.input.pushed + 2
      /\ s.FIN_flag => s.next_absseq = s.input.pushed + 2
  BY <1>1, <1>2, <1>4, <1>5 DEF One
<1> QED
  BY <1>1, <1>2, <1>4, <1>5, <1>6

(***************************************************************************)
(* A sender that does nothing goes on as it was.                           *)
(***************************************************************************)
LEMMA OnwardItself ==
    ASSUME NEW s, Transmits(s)
    PROVE  Onward(s, s)
BY SenderNumbers DEF Onward

(***************************************************************************)
(* Two steps onward are one.                                               *)
(***************************************************************************)
LEMMA OnwardTransitive ==
    ASSUME NEW s, Transmits(s), NEW t, Transmits(t), NEW u, Transmits(u),
           Onward(t, s), Onward(u, t)
    PROVE  Onward(u, s)
<1>1. /\ s.next_absseq <= u.next_absseq
      /\ BytesPopped(s.input) <= BytesPopped(u.input)
  BY SenderNumbers DEF Onward
<1> QED
  BY <1>1 DEF Onward

(***************************************************************************)
(* What a sender could send before, it can send again.                     *)
(***************************************************************************)
LEMMA SendableOnward ==
    ASSUME NEW s, NEW t,
           s.next_absseq \in Nat, t.next_absseq \in Nat,
           BytesPopped(s.input) \in Nat, BytesPopped(t.input) \in Nat,
           Onward(t, s), NEW msg, Sendable(s, msg)
    PROVE  Sendable(t, msg)
<1>1. PICK first \in Nat, n \in Nat, fin \in BOOLEAN :
        /\ msg = StreamSegment(s.isn, first, n, fin)
        /\ first < s.next_absseq /\ Index(first) + n <= BytesPopped(s.input)
        /\ fin => s.FIN_flag /\ Index(first) + n = s.input.pushed
  BY DEF Sendable
<1>2. Index(first) \in Nat
  BY DEF Index
<1>3. first < t.next_absseq /\ Index(first) + n <= BytesPopped(t.input)
  BY <1>1, <1>2 DEF Onward
<1>4. t.isn = s.isn /\ (fin => t.FIN_flag /\ Index(first) + n = t.input.pushed)
  BY <1>1 DEF Onward
<1> QED
  BY <1>1, <1>3, <1>4 DEF Sendable

(***************************************************************************)
(* A message that carries a part of the stream is a message without RST,   *)
(* and one with a FIN was sent by a sender that has sent its FIN.          *)
(***************************************************************************)
LEMMA SendableBasics ==
    ASSUME NEW s, NEW msg, Sendable(s, msg), s.isn \in Wrap32
    PROVE  /\ msg \in SenderMessage /\ ~msg.RST
           /\ msg.FIN => s.FIN_flag
<1>1. PICK first \in Nat, n \in Nat, fin \in BOOLEAN :
        /\ msg = StreamSegment(s.isn, first, n, fin)
        /\ first < s.next_absseq /\ Index(first) + n <= BytesPopped(s.input)
        /\ fin => s.FIN_flag /\ Index(first) + n = s.input.pushed
  BY DEF Sendable
<1>2. Index(first) \in Nat /\ Wrap(first, s.isn) \in Wrap32
  BY WrapType DEF Index
<1>3. BytesFrom(Index(first), n) \in Seq(Byte)
  BY <1>2, BytesFromType
<1> QED
  BY <1>1, <1>2, <1>3 DEF StreamSegment, SenderMessage

(***************************************************************************)
(* The message a turn of push sends.                                       *)
(***************************************************************************)
LEMMA SentTransmits ==
    ASSUME NEW s, Transmits(s), ~s.FIN_flag,
           Window(s) > s.total_outstandings, SeqLength(NextMessage(s)) # 0
    PROVE  LET t == Sent(s, NextMessage(s))
           IN  /\ Transmits(t) /\ Onward(t, s) /\ SameInput(t, s)
               /\ Sendable(t, NextMessage(s))
<1> DEFINE msg   == NextMessage(s)
           n     == Len(msg.payload)
           t     == Sent(s, msg)
           input == PopBytes(s.input, n)
           popped == BytesPopped(s.input)
<1>1. /\ SoundSender(s) /\ SendsStream(s) /\ s \in Sender /\ s.isn \in Wrap32
      /\ s.input \in Stream /\ SoundStream(s.input) /\ OrderlyBuffer(s.input)
      /\ s.qmesg \in Seq(SenderMessage) /\ Len(s.qmesg) \in Nat
      /\ s.next_absseq \in Nat /\ s.SYN_flag \in BOOLEAN
      /\ s.input.pushed \in Nat /\ popped \in Nat
      /\ s.next_absseq = One(s.SYN_flag) + popped
      /\ s.SYN_flag <=> s.next_absseq > 0
      /\ ~s.input.error
  <2>1. s.next_absseq = One(s.SYN_flag) + popped + One(s.FIN_flag) /\ popped \in Nat
    BY SenderNumbers
  <2>2. One(s.FIN_flag) = 0 /\ One(s.SYN_flag) \in Nat
    BY DEF One
  <2>3. s.next_absseq = One(s.SYN_flag) + popped
    BY <2>1, <2>2
  <2> QED
    BY <2>1, <2>3, SenderNumbers DEF Transmits, SendsStream
<1>2. /\ msg \in SenderMessage /\ n \in 0 .. Len(s.input.buf)
      /\ msg.seqno = Wrap(s.next_absseq, s.isn)
      /\ msg.SYN = ~s.SYN_flag
      /\ msg.payload = SubSeq(s.input.buf, 1, n)
      /\ msg.FIN => IsFinished(input)
  BY <1>1, NextMessageFits DEF TakesFin
<1>3. msg.RST = FALSE
  <2> DEFINE e == MakeEmptyMessage(s)
  <2>1. e.RST = FALSE
    BY <1>1 DEF MakeEmptyMessage
  <2>2. "RST" \in DOMAIN e
    BY DEF MakeEmptyMessage
  <2> HIDE DEF e
  <2> QED
    BY <2>1, <2>2 DEF NextMessage, e
<1>3a. n = Len(msg.payload)
  OBVIOUS
<1> HIDE DEF msg, n
<1>4. SeqLength(msg) = One(msg.SYN) + n + One(msg.FIN) /\ SeqLength(msg) \in Nat
      /\ SeqLength(msg) > 0 /\ n \in Nat /\ SeqLength(msg) # 0
  <2>1. SeqLength(msg) # 0
    BY DEF msg
  <2>2. SeqLength(msg) \in Nat
    BY <1>2, SeqLengthType
  <2>3. n \in Nat
    BY <1>1, <1>2, LenIsNat DEF Stream
  <2>4. SeqLength(msg) = One(msg.SYN) + n + One(msg.FIN)
    BY <1>3a DEF SeqLength
  <2> QED
    BY <2>1, <2>2, <2>3, <2>4
<1>5. /\ BytesPopped(input) = popped + n /\ input.closed = s.input.closed
      /\ msg.payload = BytesFrom(popped, n)
  BY <1>1, <1>2, PopKeepsOrder
<1>6. input.pushed = s.input.pushed /\ input.error = s.input.error
  BY <1>1 DEF PopBytes, Stream
<1>7. Len(s.input.buf) \in Nat /\ s.input.buf \in Seq(Byte)
  BY <1>1, LenIsNat DEF Stream
<1>8. input.buf = SubSeq(s.input.buf, n + 1, Len(s.input.buf))
      /\ Len(input.buf) = Len(s.input.buf) - n
  BY <1>1, <1>2, <1>7, SuffixProperties DEF PopBytes, Stream
<1> HIDE DEF input
<1>9. /\ t.input = input /\ t.SYN_flag = TRUE /\ t.FIN_flag = msg.FIN /\ t.isn = s.isn
      /\ t.next_absseq = s.next_absseq + SeqLength(msg)
      /\ t.qmesg = Append(s.qmesg, msg)
  BY <1>1, <1>3a DEF Sent, Sender, input
<1>10. SoundSender(t)
  BY <1>1, <1>2, <1>3a, <1>4, SentSound
<1>11. SendsStream(t)
  BY <1>1, <1>4, SentSendsStream DEF msg
<1> HIDE DEF t
<1>12. Onward(t, s) /\ SameInput(t, s)
  <2>1. s.next_absseq <= t.next_absseq /\ popped <= popped + n
    BY <1>1, <1>4, <1>9
  <2> QED
    BY <1>5, <1>6, <1>9, <2>1 DEF Onward, SameInput
<1>13. Sendable(t, msg)
  <2> DEFINE first == s.next_absseq
             fin   == msg.FIN
  <2>1. (first = 0) = msg.SYN /\ msg.SYN \in BOOLEAN /\ fin \in BOOLEAN /\ first \in Nat
    BY <1>1, <1>2 DEF SenderMessage
  <2>2. Index(first) = popped
    <3>1. first = 0 => popped = 0
      BY <1>1 DEF One
    <3>2. first # 0 => first = 1 + popped
      BY <1>1 DEF One
    <3> QED
      BY <1>1, <2>1, <3>1, <3>2 DEF Index
  <2>3. msg = StreamSegment(s.isn, first, n, fin)
    <3> DEFINE seqno == Wrap(first, s.isn)
               syn   == first = 0
               data  == BytesFrom(popped, n)
    <3>1. msg.seqno = seqno /\ msg.SYN = syn /\ msg.payload = data /\ msg.FIN = fin
      BY <1>2, <1>5, <2>1
    <3>2. StreamSegment(s.isn, first, n, fin)
              = [seqno |-> seqno, SYN |-> syn, FIN |-> fin, RST |-> FALSE, payload |-> data]
      BY <2>2 DEF StreamSegment
    <3> HIDE DEF seqno, syn, data, fin
    <3> QED
      BY <1>2, <1>3, <3>1, <3>2 DEF SenderMessage
  <2>4. first < t.next_absseq
    BY <1>1, <1>4, <1>9
  <2>5. fin => Index(first) + n = t.input.pushed
    <3> SUFFICES ASSUME fin PROVE popped + n = input.pushed
      BY <1>9, <2>2
    <3>1. input.buf = << >> /\ Len(<< >>) = 0
      BY <1>2 DEF IsFinished
    <3>2. BytesPopped(input) = input.pushed
      BY <1>1, <1>6, <3>1 DEF BytesPopped
    <3> QED
      BY <1>5, <3>2
  <2>6. Index(first) + n <= BytesPopped(t.input)
    BY <1>1, <1>4, <1>5, <1>9, <2>2
  <2> HIDE DEF first, fin
  <2> QED
    BY <1>4, <1>9, <2>1, <2>3, <2>4, <2>5, <2>6 DEF Sendable, fin
<1>14. ASSUME NEW i \in 1 .. Len(t.qmesg) PROVE Sendable(t, t.qmesg[i])
  <2>1. CASE i = Len(s.qmesg) + 1
    BY <1>1, <1>2, <1>9, <1>13, <2>1
  <2>2. CASE i # Len(s.qmesg) + 1
    <3>1. i \in 1 .. Len(s.qmesg) /\ t.qmesg[i] = s.qmesg[i]
      BY <1>1, <1>2, <1>9, <2>2
    <3>2. t.next_absseq \in Nat /\ BytesPopped(t.input) \in Nat
      BY <1>1, <1>4, <1>5, <1>9
    <3>3. Sendable(s, s.qmesg[i])
      BY <3>1 DEF Transmits
    <3> QED
      BY <1>1, <1>12, <3>1, <3>2, <3>3, SendableOnward
  <2> QED
    BY <2>1, <2>2
<1>15. Transmits(t)
  BY <1>1, <1>6, <1>9, <1>10, <1>11, <1>14 DEF Transmits
<1> QED
  BY <1>12, <1>13, <1>15 DEF t, msg

(***************************************************************************)
(* push in progress: what it has sent so far is in the stream, and a       *)
(* sender that has sent its FIN sends nothing.                             *)
(***************************************************************************)
PushingOn(s) ==
    {c \in Pushing(s) :
        /\ Transmits(c.sender) /\ Onward(c.sender, s) /\ SameInput(c.sender, s)
        /\ \A i \in DOMAIN c.sent : Sendable(c.sender, c.sent[i])
        /\ s.FIN_flag => c = Quiet(s)}

(***************************************************************************)
(* One turn of push's loop sends a part of the stream.                     *)
(***************************************************************************)
LEMMA PushOnceTransmits ==
    ASSUME NEW s, Transmits(s), NEW c \in PushingOn(s)
    PROVE  PushOnce(c) \in PushingOn(s)
<1> DEFINE t   == c.sender
           msg == NextMessage(t)
           d   == PushOnce(c)
           stop == Window(t) <= t.total_outstandings \/ t.FIN_flag \/ SeqLength(msg) = 0
<1>1. /\ s \in Sender /\ c \in Pushing(s) /\ Transmits(t) /\ t \in Sender /\ SoundSender(t)
      /\ Onward(t, s) /\ SameInput(t, s)
      /\ \A i \in DOMAIN c.sent : Sendable(t, c.sent[i])
      /\ c.sent \in Seq(SenderMessage)
      /\ s.FIN_flag => c = Quiet(s)
  BY SenderNumbers DEF PushingOn, Pushing, Transmits
<1>2. CASE stop
  BY <1>2 DEF PushOnce
<1>3. CASE ~stop
  <2>1. Window(t) > t.total_outstandings /\ ~t.FIN_flag /\ SeqLength(msg) # 0
    BY <1>1, <1>3, WindowType DEF Sender
  <2>2. d = [sender |-> Sent(t, msg), sent |-> Append(c.sent, msg)]
    BY <1>3 DEF PushOnce
  <2> DEFINE u == Sent(t, msg)
  <2>3. Transmits(u) /\ Onward(u, t) /\ SameInput(u, t) /\ Sendable(u, msg)
    BY <1>1, <2>1, SentTransmits
  <2>4. d \in Pushing(s)
    BY <1>1, PushOnceSound
  <2>5. msg \in SenderMessage
    BY <1>1, <2>1, NextMessageFits
  <2>6. ~s.FIN_flag
    BY <1>1, <2>1 DEF Onward
  <2>9. d.sender = u /\ d.sent = Append(c.sent, msg)
    BY <2>2
  <2> HIDE DEF u, msg, d, t
  <2>7. Onward(u, s) /\ SameInput(u, s)
    BY <1>1, <2>3, OnwardTransitive DEF SameInput
  <2>8. ASSUME NEW i \in DOMAIN Append(c.sent, msg)
        PROVE  Sendable(u, Append(c.sent, msg)[i])
    <3>1. Len(c.sent) \in Nat
      BY <1>1, LenIsNat
    <3>2. CASE i = Len(c.sent) + 1
      BY <1>1, <2>3, <2>5, <3>2
    <3>3. CASE i # Len(c.sent) + 1
      <4>1. i \in DOMAIN c.sent /\ Append(c.sent, msg)[i] = c.sent[i]
        BY <1>1, <2>5, <3>1, <3>3
      <4>2. Sendable(t, c.sent[i])
        BY <1>1, <4>1
      <4>3. /\ t.next_absseq \in Nat /\ BytesPopped(t.input) \in Nat
            /\ u.next_absseq \in Nat /\ BytesPopped(u.input) \in Nat
        BY <1>1, <2>3, SenderNumbers
      <4> QED
        BY <2>3, <4>1, <4>2, <4>3, SendableOnward
    <3> QED
      BY <3>2, <3>3
  <2> QED
    BY <2>3, <2>4, <2>6, <2>7, <2>8, <2>9 DEF PushingOn, d
<1> QED
  BY <1>2, <1>3

(***************************************************************************)
(* push, after all its turns, has sent parts of the stream and nothing     *)
(* else.                                                                   *)
(***************************************************************************)
LEMMA PushTransmits ==
    ASSUME NEW s, Transmits(s)
    PROVE  Push(s) \in PushingOn(s)
<1> DEFINE w == Window(s)
           T == PushTurns(s)
           S == {i \in 0 .. w : T[i] \in PushingOn(s)}
<1>1. s \in Sender /\ w \in Nat /\ SoundSender(s)
  BY SenderNumbers, WindowType DEF Transmits
<1>2. /\ T[0] = Quiet(s)
      /\ \A i \in 1 .. w : T[i] = PushOnce(T[i - 1])
      /\ \A i \in 0 .. w : T[i] \in Pushing(s)
  BY <1>1, PushTurnsUnfold
<1>3. Quiet(s) \in PushingOn(s)
  <2>1. Quiet(s) \in Pushing(s)
    BY <1>1, <1>2
  <2>2. Quiet(s).sender = s /\ Quiet(s).sent = << >> /\ DOMAIN << >> = {}
    BY DEF Quiet
  <2>3. Onward(s, s) /\ SameInput(s, s)
    BY OnwardItself DEF SameInput
  <2> QED
    BY <2>1, <2>2, <2>3 DEF PushingOn
<1> HIDE DEF T, w
<1>4. 0 \in S
  BY <1>1, <1>2, <1>3
<1>5. ASSUME NEW i \in S, i < w PROVE i + 1 \in S
  <2>1. i + 1 \in 1 .. w /\ (i + 1) - 1 = i /\ i \in 0 .. w
    BY <1>1, <1>5
  <2>2. T[i + 1] = PushOnce(T[i]) /\ T[i] \in PushingOn(s)
    BY <1>2, <2>1
  <2>3. PushOnce(T[i]) \in PushingOn(s)
    BY <2>2, PushOnceTransmits
  <2> QED
    BY <2>1, <2>2, <2>3
<1>6. S = 0 .. w
  <2>1. S \in SUBSET (0 .. w)
    OBVIOUS
  <2> HIDE DEF S
  <2> QED
    BY <1>1, <1>4, <1>5, <2>1, BoundedInduction
<1> QED
  BY <1>1, <1>6 DEF Push, T, w

(***************************************************************************)
(* A sender that has something to send has something in flight.            *)
(***************************************************************************)
Busy(s) == HasMoreToSend(s) => s.total_outstandings > 0

(***************************************************************************)
(* push does not stop before something is in flight if there is anything   *)
(* to send, a closed window notwithstanding.                               *)
(***************************************************************************)
LEMMA PushBusy ==
    ASSUME NEW s, Transmits(s)
    PROVE  Busy(Push(s).sender)
<1> DEFINE t == Push(s).sender
<1>1. Transmits(t)
  BY PushTransmits DEF PushingOn
<1>2. t.total_outstandings \in Nat /\ t.wdsize \in Nat
  BY <1>1, SenderNumbers DEF Sender
<1>3. \/ t.total_outstandings >= Greater(t.wdsize, 1)
      \/ t.FIN_flag
      \/ t.input.buf = << >> /\ ~t.input.closed /\ t.next_absseq > 0
  BY PushFinishes DEF Transmits
<1> HIDE DEF t
<1>4. Greater(t.wdsize, 1) > 0 /\ Greater(t.wdsize, 1) \in Nat
  BY <1>2 DEF Greater
<1>5. t.total_outstandings >= Greater(t.wdsize, 1) => t.total_outstandings > 0
  BY <1>2, <1>4
<1>6. Busy(t)
  BY <1>3, <1>5 DEF Busy, HasMoreToSend
<1> QED
  BY <1>6 DEF t

(***************************************************************************)
(* What receive and tick leave alone.                                      *)
(***************************************************************************)
SameStream(t, s) ==
    /\ t.isn = s.isn /\ t.input = s.input /\ t.next_absseq = s.next_absseq
    /\ t.SYN_flag = s.SYN_flag /\ t.FIN_flag = s.FIN_flag

(***************************************************************************)
(* A sender that only forgets messages or changes its timer still has      *)
(* parts of the stream in its queue.                                       *)
(***************************************************************************)
LEMMA SameStreamTransmits ==
    ASSUME NEW s, Transmits(s), NEW t, SoundSender(t), SendsStream(t), SameStream(t, s),
           \A i \in 1 .. Len(t.qmesg) : \E j \in 1 .. Len(s.qmesg) : t.qmesg[i] = s.qmesg[j]
    PROVE  Transmits(t) /\ Onward(t, s)
<1>1. Onward(t, s)
  BY SenderNumbers DEF SameStream, Onward
<1>2. ASSUME NEW i \in 1 .. Len(t.qmesg) PROVE Sendable(t, t.qmesg[i])
  <2>1. PICK j \in 1 .. Len(s.qmesg) : t.qmesg[i] = s.qmesg[j]
    OBVIOUS
  <2>2. Sendable(s, s.qmesg[j])
    BY DEF Transmits
  <2>3. /\ s.next_absseq \in Nat /\ BytesPopped(s.input) \in Nat
        /\ t.next_absseq \in Nat /\ BytesPopped(t.input) \in Nat
    BY SenderNumbers DEF SameStream
  <2> QED
    BY <1>1, <2>1, <2>2, <2>3, SendableOnward
<1> QED
  BY <1>1, <1>2 DEF Transmits, SameStream

(***************************************************************************)
(* An acknowledgment moves ack_absseq no further than it says, and one of  *)
(* everything leaves nothing outstanding.                                  *)
(***************************************************************************)
LEMMA AckedTransmits ==
    ASSUME NEW s, Transmits(s), NEW absseq \in Int
    PROVE  LET t == Acked(s, absseq)
           IN  /\ Transmits(t) /\ Onward(t, s) /\ SameStream(t, s)
               /\ t.ack_absseq \in Nat /\ s.ack_absseq <= t.ack_absseq
               /\ t.ack_absseq = s.ack_absseq \/ t.ack_absseq <= absseq
               /\ absseq = s.next_absseq => t.total_outstandings = 0
<1> DEFINE n    == FullyAcked(s, absseq)
           m    == Len(s.qmesg)
           E    == QueueEnds(s)
           left == SubSeq(s.qmesg, n + 1, m)
           t    == Acked(s, absseq)
<1>1. /\ SoundSender(s) /\ SendsStream(s) /\ s \in Sender /\ s.qmesg \in Seq(SenderMessage)
      /\ m \in Nat /\ s.next_absseq \in Nat /\ s.ack_absseq \in Nat
      /\ s.total_outstandings \in Nat
      /\ s.ack_absseq + s.total_outstandings = s.next_absseq
  BY SenderNumbers DEF Transmits
<1>2. /\ n \in 0 .. m
      /\ \A i \in 1 .. n : E[i] <= absseq
      /\ n < m => E[n + 1] > absseq
  BY <1>1, FullyAckedStops
<1>3. /\ E \in [0 .. m -> Nat] /\ E[0] = s.ack_absseq /\ E[m] = s.next_absseq
      /\ \A i \in 0 .. m : E[i] <= E[m]
  BY <1>1, EndsUnfold, EndsBounded DEF QueueEnds, SoundSender, QueueCovers
<1>4. SoundSender(t) /\ SendsStream(t) /\ s.ack_absseq <= t.ack_absseq /\ t.ack_absseq \in Nat
      /\ t.next_absseq = s.next_absseq
  <2>1. SoundSender(t) /\ SendsStream(t) /\ t.ack_absseq >= s.ack_absseq
        /\ t.next_absseq = s.next_absseq
    BY <1>1, AckedSound, AckedSendsStream
  <2> HIDE DEF t
  <2>2. t.ack_absseq \in Nat
    BY <2>1 DEF SoundSender, Sender
  <2> QED
    BY <1>1, <2>1, <2>2
<1>5. CASE absseq > s.next_absseq \/ n = 0
  <2>1. t = s
    BY <1>5 DEF Acked
  <2>2. absseq = s.next_absseq => s.total_outstandings = 0
    <3> SUFFICES ASSUME absseq = s.next_absseq PROVE s.total_outstandings = 0
      OBVIOUS
    <3>1. n = 0
      BY <1>1, <1>5
    <3> HIDE DEF n, m, E
    <3>2. m = 0
      <4> SUFFICES ASSUME m # 0 PROVE FALSE
        OBVIOUS
      <4>1. 1 \in 0 .. m /\ n + 1 = 1 /\ n < m
        BY <1>1, <3>1
      <4>2. E[1] \in Nat /\ E[1] <= s.next_absseq /\ E[1] > absseq
        BY <1>2, <1>3, <4>1
      <4> QED
        BY <1>1, <4>2
    <3> QED
      BY <1>1, <1>3, <3>2
  <2>3. Onward(s, s) /\ SameStream(s, s)
    BY OnwardItself DEF SameStream
  <2> HIDE DEF t
  <2> QED
    BY <1>1, <2>1, <2>2, <2>3 DEF t
<1>6. CASE ~(absseq > s.next_absseq \/ n = 0)
  <2>1. /\ SameStream(t, s) /\ t.qmesg = left /\ t.ack_absseq = E[n]
    BY <1>1, <1>6 DEF Acked, Sender, QueueEnds, SameStream
  <2>2. Len(left) = m - n /\ \A i \in 1 .. m - n : left[i] = s.qmesg[n + i]
    BY <1>1, <1>2, SuffixProperties
  <2>3. t.total_outstandings \in Nat /\ t.ack_absseq + t.total_outstandings = t.next_absseq
    BY <1>4 DEF SoundSender, Sender, QueueCovers
  <2> HIDE DEF t, left, n, m, E
  <2>4. \A i \in 1 .. Len(t.qmesg) : \E j \in 1 .. Len(s.qmesg) : t.qmesg[i] = s.qmesg[j]
    <3> TAKE i \in 1 .. Len(t.qmesg)
    <3>1. i \in 1 .. m - n /\ n + i \in 1 .. m
      BY <1>1, <1>2, <2>1, <2>2
    <3> QED
      BY <2>1, <2>2, <3>1 DEF m
  <2>5. Transmits(t) /\ Onward(t, s)
    BY <1>4, <2>1, <2>4, SameStreamTransmits
  <2>6. n \in 1 .. n /\ E[n] <= absseq
    BY <1>1, <1>2, <1>6
  <2>7. absseq = s.next_absseq => t.total_outstandings = 0
    <3> SUFFICES ASSUME absseq = s.next_absseq PROVE t.total_outstandings = 0
      OBVIOUS
    <3>1. n = m
      <4> SUFFICES ASSUME n # m PROVE FALSE
        OBVIOUS
      <4>1. n < m /\ n + 1 \in 0 .. m
        BY <1>1, <1>2
      <4>2. E[n + 1] \in Nat /\ E[n + 1] <= s.next_absseq /\ E[n + 1] > absseq
        BY <1>2, <1>3, <4>1
      <4> QED
        BY <1>1, <4>2
    <3> QED
      BY <1>1, <1>3, <1>4, <2>1, <2>3, <3>1
  <2> QED
    BY <1>4, <2>1, <2>5, <2>6, <2>7 DEF t
<1> QED
  BY <1>5, <1>6

(***************************************************************************)
(* A reply to a sender whose stream is short against the sequence space:   *)
(* its wrapped ackno is taken for the number it stands for.                *)
(***************************************************************************)
LEMMA ReplyTransmits ==
    ASSUME NEW s, Transmits(s), s.input.pushed + 2 < Mod32 \div 2,
           NEW msg \in ReceiverMessage, ~msg.RST, NEW a,
           msg.ackno # None => a \in 1 .. s.next_absseq /\ msg.ackno = Wrap(a, s.isn)
    PROVE  LET t == ReceiveReply(s, msg)
           IN  /\ Transmits(t) /\ Onward(t, s) /\ SameStream(t, s)
               /\ t.ack_absseq \in Nat /\ s.ack_absseq <= t.ack_absseq
               /\ t.ack_absseq = s.ack_absseq \/ (msg.ackno # None /\ t.ack_absseq <= a)
               /\ msg.ackno # None /\ a = s.next_absseq => t.total_outstandings = 0
<1> DEFINE t == [s EXCEPT !.wdsize = msg.window_size]
           u == Unwrap(msg.ackno, s.isn, s.next_absseq)
<1>1. /\ SoundSender(s) /\ SendsStream(s) /\ s \in Sender /\ s.isn \in Wrap32
      /\ s.next_absseq \in Nat /\ s.ack_absseq \in Nat /\ s.input.pushed \in Nat
      /\ s.next_absseq <= s.input.pushed + 2 /\ SoundStream(s.input) /\ OrderlyBuffer(s.input)
      /\ ~s.input.error
  BY SenderNumbers DEF Transmits, SendsStream
<1>2. msg.window_size \in Nat /\ msg.ackno \in Wrap32 \cup {None}
  BY DEF ReceiverMessage
<1>3. /\ t \in Sender /\ SameStream(t, s) /\ t.qmesg = s.qmesg
      /\ t.ack_absseq = s.ack_absseq
      /\ t.total_outstandings = s.total_outstandings /\ t.timer = s.timer
  BY <1>1, <1>2 DEF Sender, SameStream
<1>4. ReceiveReply(s, msg) = IF msg.ackno = None THEN t ELSE Acked(t, u)
  BY <1>1, <1>3 DEF ReceiveReply, SameStream
<1> HIDE DEF t
<1>5. SoundSender(t) /\ SendsStream(t)
  BY <1>1, <1>3, RestChangedSound, RestChangedSendsStream DEF SameStream
<1>6. Transmits(t) /\ Onward(t, s)
  BY <1>3, <1>5, SameStreamTransmits
<1>7. CASE msg.ackno = None
  BY <1>1, <1>3, <1>4, <1>6, <1>7
<1>8. CASE msg.ackno # None
  <2>1. a \in Nat /\ a >= 1 /\ a <= s.next_absseq
    BY <1>1, <1>8
  <2>2. u = a
    <3>1. s.next_absseq < Mod32 \div 2 /\ Mod32 \div 2 \in Nat
          /\ Mod32 \div 2 <= Mod64 \div 2 /\ Mod64 \div 2 \in Nat
      BY <1>1, Widths
    <3> DEFINE half == Mod32 \div 2
               big  == Mod64 \div 2
    <3> HIDE DEF half, big
    <3>2. a < big /\ a - s.next_absseq < half /\ s.next_absseq - a <= half
      BY <1>1, <2>1, <3>1 DEF half, big
    <3> QED
      BY <1>1, <1>8, <2>1, <3>2, UnwrapInvertsWrap DEF half, big
  <2>3. a \in Int
    BY <2>1
  <2> DEFINE v == Acked(t, a)
  <2>4. /\ Transmits(v) /\ Onward(v, t) /\ SameStream(v, t)
        /\ v.ack_absseq \in Nat /\ t.ack_absseq <= v.ack_absseq
        /\ v.ack_absseq = t.ack_absseq \/ v.ack_absseq <= a
        /\ a = t.next_absseq => v.total_outstandings = 0
    BY <1>6, <2>3, AckedTransmits
  <2>5. ReceiveReply(s, msg) = v
    BY <1>4, <1>8, <2>2
  <2> HIDE DEF v
  <2>6. Onward(v, s) /\ SameStream(v, s)
    BY <1>3, <1>6, <2>4, OnwardTransitive DEF SameStream
  <2> QED
    BY <1>3, <1>8, <2>4, <2>5, <2>6 DEF SameStream
<1> QED
  BY <1>7, <1>8

(***************************************************************************)
(* tick sends nothing but a message of the queue.                          *)
(***************************************************************************)
LEMMA TickTransmits ==
    ASSUME NEW s, Transmits(s), NEW ms \in Nat
    PROVE  LET c == Tick(s, ms)
           IN  /\ Transmits(c.sender) /\ Onward(c.sender, s) /\ SameStream(c.sender, s)
               /\ c.sender.ack_absseq = s.ack_absseq
               /\ c.sender.total_outstandings = s.total_outstandings
               /\ \A i \in DOMAIN c.sent : Sendable(c.sender, c.sent[i])
<1> DEFINE t == [s EXCEPT !.timer = Advance(@, ms)]
           c == Tick(s, ms)
           v == c.sender
           Same(u) == /\ SameStream(u, s) /\ u.qmesg = s.qmesg
                      /\ u.ack_absseq = s.ack_absseq
                      /\ u.total_outstandings = s.total_outstandings
<1>1. /\ SoundSender(s) /\ SendsStream(s) /\ s \in Sender /\ s.qmesg \in Seq(SenderMessage)
  BY SenderNumbers DEF Transmits
<1>2. Same(t) /\ "timer" \in DOMAIN t /\ "total_retransmissions" \in DOMAIN t /\ DOMAIN t = DOMAIN s
  BY <1>1 DEF Sender, SameStream
<1>3. Same(BackedOff(t))
  BY <1>1 DEF BackedOff, Sender, SameStream
<1>4. c = IF IsExpired(t.timer) /\ t.qmesg # << >>
          THEN [sender |-> BackedOff(t), sent |-> << Head(t.qmesg) >>]
          ELSE [sender |-> t, sent |-> << >>]
  BY DEF Tick, Quiet
<1>5. SoundSender(v) /\ SendsStream(v)
  BY <1>1, TickSound, TickSendsStream
<1> HIDE DEF t
<1>6. /\ Same(v)
      /\ c.sent = << >> \/ (c.sent = << Head(s.qmesg) >> /\ s.qmesg # << >>)
  BY <1>2, <1>3, <1>4
<1> HIDE DEF c, v
<1>7. \A i \in 1 .. Len(v.qmesg) : \E j \in 1 .. Len(s.qmesg) : v.qmesg[i] = s.qmesg[j]
  BY <1>6
<1>8. Transmits(v) /\ Onward(v, s)
  BY <1>5, <1>6, <1>7, SameStreamTransmits
<1>9. ASSUME NEW i \in DOMAIN c.sent PROVE Sendable(v, c.sent[i])
  <2>1. c.sent = << Head(s.qmesg) >> /\ s.qmesg # << >>
    <3>1. c.sent # << >>
      BY <1>9
    <3> QED
      BY <1>6, <3>1
  <2>2. c.sent[i] = s.qmesg[1] /\ 1 \in 1 .. Len(s.qmesg)
    BY <1>1, <1>9, <2>1
  <2>3. Sendable(s, s.qmesg[1])
    BY <2>2 DEF Transmits
  <2>4. /\ s.next_absseq \in Nat /\ BytesPopped(s.input) \in Nat
        /\ v.next_absseq \in Nat /\ BytesPopped(v.input) \in Nat
    BY <1>6, SenderNumbers DEF SameStream
  <2> QED
    BY <1>8, <2>2, <2>3, <2>4, SendableOnward
<1> QED
  BY <1>6, <1>8, <1>9 DEF c, v

(***************************************************************************)
(* The application writes to its stream, or closes it.                     *)
(***************************************************************************)
WithInput(s, input) == [s EXCEPT !.input = input]

(***************************************************************************)
(* What has been sent stays as it is when bytes are added to the stream or *)
(* it is closed.                                                           *)
(***************************************************************************)
LEMMA InputTransmits ==
    ASSUME NEW s, Transmits(s), ~s.input.closed,
           NEW input, SoundStream(input), OrderlyBuffer(input), ~input.error,
           BytesPopped(input) = BytesPopped(s.input)
    PROVE  LET t == WithInput(s, input)
           IN  /\ Transmits(t) /\ Onward(t, s) /\ t.input = input
               /\ t.ack_absseq = s.ack_absseq /\ ~t.FIN_flag
               /\ t.SYN_flag = s.SYN_flag /\ t.isn = s.isn
<1> DEFINE t == WithInput(s, input)
<1>1. /\ SoundSender(s) /\ SendsStream(s) /\ s \in Sender /\ ~s.FIN_flag
      /\ s.next_absseq \in Nat /\ BytesPopped(s.input) \in Nat /\ input \in Stream
  BY SenderNumbers DEF Transmits, SoundStream
<1>2. SoundSender(t)
  BY <1>1, InputChangedSound DEF WithInput
<1>3. SendsStream(t)
  <2>1. IsFinished(s.input) => IsFinished(input)
    BY DEF IsFinished
  <2> QED
    BY <1>1, <2>1, InputChangedSendsStream DEF WithInput
<1>4. /\ t.input = input /\ t.ack_absseq = s.ack_absseq /\ t.FIN_flag = s.FIN_flag
      /\ t.SYN_flag = s.SYN_flag /\ t.isn = s.isn /\ t.qmesg = s.qmesg
      /\ t.next_absseq = s.next_absseq
  BY <1>1 DEF WithInput, Sender
<1> HIDE DEF t
<1>5. Onward(t, s)
  BY <1>1, <1>4 DEF Onward
<1>6. ASSUME NEW i \in 1 .. Len(t.qmesg) PROVE Sendable(t, t.qmesg[i])
  <2>1. Sendable(s, s.qmesg[i])
    BY <1>4 DEF Transmits
  <2> QED
    BY <1>1, <1>4, <1>5, <2>1, SendableOnward
<1>7. Transmits(t)
  BY <1>2, <1>3, <1>4, <1>6 DEF Transmits
<1> QED
  BY <1>1, <1>4, <1>5, <1>7 DEF t

-----------------------------------------------------------------------------
(***************************************************************************)
(* The numbers a receiver has acknowledged, and one direction of a         *)
(* connection: the receiver holds a part of what the sender has sent, and  *)
(* what the sender takes for acknowledged has been received.               *)
(***************************************************************************)
Received(r) == IF r.isn = None THEN 0 ELSE AckAbsseq(r)

(***************************************************************************)
(* The stream is short of half the 32-bit sequence space.                  *)
(***************************************************************************)
Short(s) == s.input.pushed + 2 < Mod32 \div 2

Flows(s, r) ==
    /\ Transmits(s) /\ Short(s)
    /\ SoundReceiver(r, s.input.pushed, s.isn, RecvCapacity) /\ ~Inbound(r).error
    /\ r.isn # None => s.SYN_flag
    /\ \A x \in Held(r.reassembler) : x < BytesPopped(s.input)
    /\ r.reassembler.eof_index # UINT64_MAX => s.FIN_flag
    /\ s.ack_absseq <= Received(r)

(***************************************************************************)
(* A stream short of half the 32-bit sequence space is within the bounds   *)
(* the receiver's lemmas are stated for.                                   *)
(***************************************************************************)
LEMMA ShortBounds ==
    ASSUME NEW s, Transmits(s), Short(s)
    PROVE  Bounds(s.input.pushed, s.isn, RecvCapacity)
<1>1. Mod32 \div 2 <= Mod64 \div 2 /\ Mod64 \div 2 \in Nat /\ Mod32 \div 2 \in Nat
  BY Widths
<1>2. s.input.pushed \in Nat /\ s.isn \in Wrap32
  BY SenderNumbers
<1> QED
  BY <1>1, <1>2, PeerConfigAssumption DEF Short, Bounds

(***************************************************************************)
(* No receiver acknowledges a number that has not been sent, and one whose *)
(* stream has ended acknowledges them all.                                 *)
(***************************************************************************)
LEMMA FlowNumbers ==
    ASSUME NEW s, NEW r, Flows(s, r)
    PROVE  /\ Received(r) \in Nat /\ Received(r) <= s.next_absseq
           /\ Inbound(r).pushed \in Nat /\ Inbound(r).pushed <= BytesPopped(s.input)
           /\ r.isn # None => AckAbsseq(r) = Received(r) /\ Received(r) >= 1
           /\ r.isn # None => r.isn = s.isn
           /\ Inbound(r).closed => /\ s.FIN_flag /\ Received(r) = s.next_absseq
                                   /\ r.isn # None
                                   /\ r.reassembler.eof_index # UINT64_MAX
                                   /\ Inbound(r).pushed = s.input.pushed
           /\ Received(r) = s.next_absseq /\ s.FIN_flag => Inbound(r).closed
<1> DEFINE N == s.input.pushed
           popped == BytesPopped(s.input)
           pushed == Inbound(r).pushed
           closed == Inbound(r).closed
           ack == AckAbsseq(r)
<1>1. /\ N \in Nat /\ popped \in Nat /\ popped <= N /\ s.next_absseq \in Nat
      /\ s.next_absseq = One(s.SYN_flag) + popped + One(s.FIN_flag)
      /\ s.FIN_flag => s.SYN_flag /\ popped = N /\ s.next_absseq = N + 2
      /\ SoundReceiver(r, N, s.isn, RecvCapacity) /\ Bounds(N, s.isn, RecvCapacity)
  BY SenderNumbers, ShortBounds DEF Flows
<1>2. /\ pushed \in 0 .. N /\ closed \in BOOLEAN
      /\ closed => pushed = N /\ r.reassembler.eof_index = N
      /\ ack = pushed + 1 + One(closed) /\ ack \in 1 .. N + 2
      /\ N < UINT64_MAX /\ UINT64_MAX \in Nat
      /\ Inbound(r) = r.reassembler.output
  BY <1>1, SoundParts, StreamBounds
<1>3. SoundReassembler(r.reassembler, N) /\ r.isn \in {None, s.isn}
  BY <1>1 DEF SoundReceiver
<1>3a. r.isn = None => r.reassembler.eof_index = UINT64_MAX
  BY <1>1 DEF SoundReceiver
<1>3b. r.reassembler.eof_index # UINT64_MAX => s.FIN_flag
  BY DEF Flows
<1>3c. pushed = r.reassembler.output.pushed
  BY <1>2
<1>3d. \A x \in Held(r.reassembler) : x < popped
  BY DEF Flows
<1> HIDE DEF N, popped, pushed, closed, ack
<1>4. \A x \in Nat : x < pushed => x \in Held(r.reassembler)
  <2> DEFINE old == r.reassembler
  <2>1. pushed = old.output.pushed /\ N \in Nat /\ SoundReassembler(old, N)
    BY <1>1, <1>3, <1>3c
  <2> HIDE DEF old
  <2>2. \A x \in Nat : x < old.output.pushed => x \in Held(old)
    BY <2>1, HeldPrefix
  <2> QED
    BY <2>1, <2>2 DEF old
<1>5. pushed <= popped
  <2> SUFFICES ASSUME pushed > popped PROVE FALSE
    BY <1>1, <1>2
  <2>1. popped \in Held(r.reassembler)
    BY <1>1, <1>4
  <2> QED
    BY <1>1, <1>3d, <2>1
<1>6. closed => /\ s.FIN_flag /\ r.isn # None
                /\ r.reassembler.eof_index # UINT64_MAX
  <2>1. closed => r.reassembler.eof_index # UINT64_MAX
    BY <1>1, <1>2
  <2> QED
    BY <1>3a, <1>3b, <2>1, Zenon
<1>7. r.isn # None => s.SYN_flag
  BY DEF Flows
<1>8. r.isn # None => ack <= s.next_absseq
  <2> SUFFICES ASSUME r.isn # None PROVE ack <= s.next_absseq
    OBVIOUS
  <2>1. One(s.SYN_flag) = 1
    BY <1>7 DEF One
  <2>2. One(closed) <= One(s.FIN_flag) /\ One(closed) \in Nat /\ One(s.FIN_flag) \in Nat
    BY <1>6 DEF One
  <2> QED
    BY <1>1, <1>2, <1>5, <2>1, <2>2
<1>9. closed => ack = s.next_absseq
  BY <1>1, <1>2, <1>6 DEF One
<1>10. Received(r) = IF r.isn = None THEN 0 ELSE ack
  BY DEF Received, ack
<1>11. Received(r) = s.next_absseq /\ s.FIN_flag => closed
  <2> SUFFICES ASSUME Received(r) = s.next_absseq, s.FIN_flag, ~closed PROVE FALSE
    OBVIOUS
  <2>1. s.next_absseq = N + 2
    BY <1>1
  <2>2. One(closed) = 0
    BY DEF One
  <2>3. ack = pushed + 1 /\ pushed <= N
    BY <1>2, <2>2
  <2>4. ack < N + 2 /\ 0 < N + 2
    BY <1>1, <1>2, <2>3
  <2>5. Received(r) < N + 2 /\ N + 2 \in Nat
    BY <1>1, <1>10, <2>4
  <2> QED
    BY <2>1, <2>5
<1>12. /\ Received(r) \in Nat /\ Received(r) <= s.next_absseq
       /\ r.isn # None => ack = Received(r) /\ Received(r) >= 1
       /\ closed => Received(r) = s.next_absseq /\ pushed = N
  <2>1. ack \in Nat /\ ack >= 1
    BY <1>1, <1>2
  <2>2. closed => Received(r) = s.next_absseq /\ pushed = N
    BY <1>2, <1>6, <1>9, <1>10
  <2> QED
    BY <1>1, <1>8, <1>10, <2>1, <2>2
<1>13. r.isn # None => r.isn = s.isn
  BY <1>3
<1>14. pushed \in Nat /\ pushed <= popped
  BY <1>1, <1>2, <1>5
<1> QED
  BY <1>6, <1>11, <1>12, <1>13, <1>14 DEF ack, closed, pushed, popped, N

(***************************************************************************)
(* The sender goes on.                                                     *)
(***************************************************************************)
LEMMA SenderGoesOn ==
    ASSUME NEW s, NEW r, Flows(s, r), NEW t, Transmits(t), Short(t), Onward(t, s),
           s.input.pushed <= t.input.pushed, t.ack_absseq <= Received(r)
    PROVE  Flows(t, r)
<1>1. SoundReceiver(r, t.input.pushed, t.isn, RecvCapacity)
  <2>1. /\ Bounds(s.input.pushed, s.isn, RecvCapacity)
        /\ Bounds(t.input.pushed, t.isn, RecvCapacity) /\ t.isn = s.isn
    BY ShortBounds DEF Flows, Onward
  <2>2. s.input.pushed = t.input.pushed \/ r.reassembler.eof_index = UINT64_MAX
    BY DEF Flows, Onward
  <2>3. SoundReceiver(r, s.input.pushed, s.isn, RecvCapacity)
    BY DEF Flows
  <2> DEFINE N == s.input.pushed
             M == t.input.pushed
             isn == s.isn
  <2>4. /\ Bounds(N, isn, RecvCapacity) /\ Bounds(M, isn, RecvCapacity) /\ N <= M
        /\ SoundReceiver(r, N, isn, RecvCapacity)
        /\ N = M \/ r.reassembler.eof_index = UINT64_MAX
    BY <2>1, <2>2, <2>3
  <2> HIDE DEF N, M, isn
  <2>5. SoundReceiver(r, M, isn, RecvCapacity)
    BY <2>4, StreamGrows
  <2> QED
    BY <2>1, <2>5 DEF M, isn
<1>2. ASSUME NEW x \in Held(r.reassembler) PROVE x < BytesPopped(t.input)
  <2>1. x < BytesPopped(s.input) /\ BytesPopped(s.input) <= BytesPopped(t.input)
    BY DEF Flows, Onward
  <2>2. x \in Nat
    BY DEF Held, Covered
  <2>3. BytesPopped(s.input) \in Nat /\ BytesPopped(t.input) \in Nat
    BY SenderNumbers DEF Flows
  <2> QED
    BY <2>1, <2>2, <2>3
<1> QED
  BY <1>1, <1>2 DEF Flows, Onward

(***************************************************************************)
(* The sender half of a segment on its way: without numbers of its own, or *)
(* with a part of the stream.                                              *)
(***************************************************************************)
Empty(msg) ==
    /\ msg \in SenderMessage
    /\ ~msg.SYN /\ ~msg.FIN /\ ~msg.RST /\ msg.payload = << >>

Carried(s, msg) == Empty(msg) \/ Sendable(s, msg)

(***************************************************************************)
(* A receiver that has got on, as far as the other side can tell.          *)
(***************************************************************************)
GotOn(u, r) ==
    /\ Received(r) <= Received(u)
    /\ r.isn # None => u.isn # None
    /\ Inbound(r).closed => Inbound(u).closed

(***************************************************************************)
(* The receiver goes on.                                                   *)
(***************************************************************************)
LEMMA ReceiverGoesOn ==
    ASSUME NEW s, NEW r, Flows(s, r), NEW u,
           SoundReceiver(u, s.input.pushed, s.isn, RecvCapacity), Later(u, r),
           ~Inbound(u).error, u.isn # None => s.SYN_flag,
           \A x \in Held(u.reassembler) : x < BytesPopped(s.input),
           u.reassembler.eof_index # UINT64_MAX => s.FIN_flag
    PROVE  Flows(s, u) /\ GotOn(u, r)
<1> DEFINE N == s.input.pushed
           isn == s.isn
<1>1. /\ Bounds(N, isn, RecvCapacity) /\ SoundReceiver(r, N, isn, RecvCapacity)
      /\ SoundReceiver(u, N, isn, RecvCapacity)
  BY ShortBounds DEF Flows
<1> HIDE DEF N, isn
<1>2. AckAbsseq(r) <= AckAbsseq(u)
  BY <1>1, AckAdvances
<1>3. AckAbsseq(r) \in Nat /\ AckAbsseq(u) \in Nat
  <2>1. AckAbsseq(r) \in 1 .. N + 2 /\ AckAbsseq(u) \in 1 .. N + 2
    BY <1>1, SoundParts
  <2> QED
    BY <2>1
<1>4. r.isn # None => u.isn # None
  BY DEF Later
<1>5. Received(r) <= Received(u) /\ Received(r) \in Nat /\ Received(u) \in Nat
  BY <1>2, <1>3, <1>4 DEF Received
<1>6. GotOn(u, r)
  BY <1>4, <1>5 DEF GotOn, Later
<1>7. s.ack_absseq <= Received(r) /\ s.ack_absseq \in Nat
  BY SenderNumbers DEF Flows
<1>8. s.ack_absseq <= Received(u)
  BY <1>5, <1>7
<1> QED
  BY <1>6, <1>8 DEF Flows

(***************************************************************************)
(* A segment arrives.                                                      *)
(***************************************************************************)
LEMMA SegmentArrives ==
    ASSUME NEW s, NEW r, Flows(s, r), NEW msg, Carried(s, msg)
    PROVE  LET u == ReceiveSegment(r, msg)
           IN  /\ Flows(s, u) /\ GotOn(u, r)
               /\ u.reassembler.eof_index # r.reassembler.eof_index => msg.FIN
               /\ BytesPopped(Inbound(u)) = BytesPopped(Inbound(r))
<1> DEFINE N == s.input.pushed
           isn == s.isn
           u == ReceiveSegment(r, msg)
<1>1. /\ Bounds(N, isn, RecvCapacity) /\ SoundReceiver(r, N, isn, RecvCapacity)
      /\ N \in Nat /\ BytesPopped(s.input) \in Nat /\ BytesPopped(s.input) <= N
      /\ s.next_absseq \in Nat /\ s.next_absseq <= N + 2
      /\ s.SYN_flag <=> s.next_absseq > 0
      /\ N + 2 < Mod32 \div 2
  BY SenderNumbers, ShortBounds DEF Flows, Short
<1>2. /\ r.isn # None => s.SYN_flag
      /\ \A x \in Held(r.reassembler) : x < BytesPopped(s.input)
      /\ r.reassembler.eof_index # UINT64_MAX => s.FIN_flag
      /\ ~Inbound(r).error
  BY DEF Flows
<1>3. CASE Empty(msg)
  <2>1. u = r
    <3> HIDE DEF N, isn
    <3> QED
      BY <1>1, <1>3, EmptyIgnored DEF Empty
  <2>2. Later(r, r)
    <3> HIDE DEF N, isn, u
    <3> QED
      BY <1>1, LaterItself
  <2>3. Flows(s, r) /\ GotOn(r, r)
    BY <1>1, <1>2, <2>2, ReceiverGoesOn
  <2> HIDE DEF u
  <2> QED
    BY <2>1, <2>3 DEF u
<1>4. CASE Sendable(s, msg)
  <2>1. PICK first \in Nat, n \in Nat, fin \in BOOLEAN :
          /\ msg = StreamSegment(isn, first, n, fin)
          /\ first < s.next_absseq /\ Index(first) + n <= BytesPopped(s.input)
          /\ fin => s.FIN_flag /\ Index(first) + n = N
    BY <1>4 DEF Sendable
  <2>2. AckAbsseq(r) \in 1 .. N + 2 /\ Mod32 \div 2 \in Nat
    <3> HIDE DEF N, isn
    <3> QED
      BY <1>1, SoundParts, Widths
  <2>3. Index(first) \in Nat
    BY DEF Index
  <2>4. /\ first \in 0 .. N + 1 /\ Index(first) + n <= N
        /\ AckAbsseq(r) - first < Mod32 \div 2
        /\ first - AckAbsseq(r) < Mod32 \div 2
    BY <1>1, <2>1, <2>2, <2>3
  <2>5. u = ReceiveSegment(r, StreamSegment(isn, first, n, fin))
    BY <2>1
  <2>6. msg.FIN = fin
    BY <2>1 DEF StreamSegment
  <2>7. /\ SoundReceiver(u, N, isn, RecvCapacity) /\ Later(u, r)
        /\ Held(u.reassembler) \subseteq
               Held(r.reassembler) \cup {x \in Nat : Index(first) <= x /\ x < Index(first) + n}
        /\ u.reassembler.eof_index # r.reassembler.eof_index => fin
        /\ u.isn # r.isn => first = 0
        /\ Inbound(u).error = Inbound(r).error
        /\ BytesPopped(Inbound(u)) = BytesPopped(Inbound(r))
    <3> HIDE DEF N, isn, u
    <3> DEFINE v == ReceiveSegment(r, StreamSegment(isn, first, n, fin))
    <3>1. /\ SoundReceiver(v, N, isn, RecvCapacity) /\ Later(v, r)
          /\ Held(v.reassembler) \subseteq
                 Held(r.reassembler) \cup {x \in Nat : Index(first) <= x /\ x < Index(first) + n}
          /\ v.reassembler.eof_index # r.reassembler.eof_index => fin
          /\ v.isn # r.isn => first = 0
          /\ Inbound(v).error = Inbound(r).error
          /\ BytesPopped(Inbound(v)) = BytesPopped(Inbound(r))
      BY <1>1, <2>1, <2>4, SegmentTaken
    <3> HIDE DEF v
    <3>2. u = v
      BY <2>5 DEF v
    <3> QED
      BY <3>1, <3>2
  <2> HIDE DEF u
  <2>8. \A x \in Held(u.reassembler) : x < BytesPopped(s.input)
    BY <1>1, <1>2, <2>1, <2>3, <2>7
  <2>9. u.isn # None => s.SYN_flag
    <3>1. first = 0 => s.SYN_flag
      BY <1>1, <2>1
    <3> QED
      BY <1>2, <2>7, <3>1
  <2>10. u.reassembler.eof_index # UINT64_MAX => s.FIN_flag
    BY <1>2, <2>1, <2>7
  <2>11. Flows(s, u) /\ GotOn(u, r)
    BY <1>2, <2>7, <2>8, <2>9, <2>10, ReceiverGoesOn
  <2> QED
    BY <2>6, <2>7, <2>11 DEF u
<1> QED
  BY <1>3, <1>4 DEF Carried

(***************************************************************************)
(* The types of the two ends of a direction.                               *)
(***************************************************************************)
LEMMA FlowTypes ==
    ASSUME NEW s, NEW r, Flows(s, r)
    PROVE  /\ s \in Sender /\ s.isn \in Wrap32
           /\ r \in [reassembler : ReassemblerState, isn : {None} \cup Wrap32]
           /\ SoundStream(Inbound(r)) /\ OrderlyBuffer(Inbound(r))
           /\ Inbound(r) \in Stream /\ Len(Inbound(r).buf) \in Nat
<1>1. s \in Sender /\ s.isn \in Wrap32
  BY SenderNumbers DEF Flows
<1>2. /\ r \in [reassembler : ReassemblerState, isn : {None, s.isn}]
      /\ SoundReassembler(r.reassembler, s.input.pushed)
  BY DEF Flows, SoundReceiver
<1>3. /\ SoundStream(Inbound(r)) /\ OrderlyBuffer(Inbound(r)) /\ Inbound(r) \in Stream
  BY <1>2 DEF SoundReassembler, Fits, SoundStream, Inbound
<1>4. Len(Inbound(r).buf) \in Nat
  BY <1>3, LenIsNat DEF Stream
<1>5. r \in [reassembler : ReassemblerState, isn : {None} \cup Wrap32]
  BY <1>1, <1>2
<1> QED
  BY <1>1, <1>3, <1>4, <1>5

(***************************************************************************)
(* The application reads.                                                  *)
(***************************************************************************)
LEMMA BytesRead ==
    ASSUME NEW s, NEW r, Flows(s, r), NEW n \in 0 .. Len(Inbound(r).buf)
    PROVE  LET u == AfterRead(r, n)
           IN  /\ Flows(s, u) /\ GotOn(u, r)
               /\ u.reassembler.eof_index = r.reassembler.eof_index
               /\ BytesPopped(Inbound(u)) = BytesPopped(Inbound(r)) + n
<1> DEFINE N == s.input.pushed
           isn == s.isn
           u == AfterRead(r, n)
<1>1. /\ Bounds(N, isn, RecvCapacity) /\ SoundReceiver(r, N, isn, RecvCapacity)
      /\ r.isn # None => s.SYN_flag
      /\ \A x \in Held(r.reassembler) : x < BytesPopped(s.input)
      /\ r.reassembler.eof_index # UINT64_MAX => s.FIN_flag
      /\ ~Inbound(r).error
  BY ShortBounds DEF Flows
<1>2. /\ SoundReceiver(u, N, isn, RecvCapacity) /\ Later(u, r)
      /\ Held(u.reassembler) = Held(r.reassembler)
      /\ u.reassembler.eof_index = r.reassembler.eof_index /\ u.isn = r.isn
      /\ Inbound(u).error = Inbound(r).error
  <2> HIDE DEF N, isn
  <2> QED
    BY <1>1, ReadTaken
<1> HIDE DEF u
<1>3. Flows(s, u) /\ GotOn(u, r)
  BY <1>1, <1>2, ReceiverGoesOn
<1>4. BytesPopped(Inbound(u)) = BytesPopped(Inbound(r)) + n
  <2>1. Inbound(u) = PopBytes(Inbound(r), n)
    BY FlowTypes DEF AfterRead, Inbound, ReassemblerState, u
  <2> QED
    BY <2>1, FlowTypes, PopKeepsOrder
<1> QED
  BY <1>2, <1>3, <1>4 DEF u

-----------------------------------------------------------------------------
(***************************************************************************)
(* Segments on their way.  The receiver half acknowledges a number that    *)
(* has been received.                                                      *)
(***************************************************************************)
Acknowledges(r, reply, isn) ==
    /\ reply \in ReceiverMessage /\ ~reply.RST
    /\ reply.ackno # None => \E a \in 1 .. Received(r) : reply.ackno = Wrap(a, isn)

(***************************************************************************)
(* The acknowledgment of all that will ever be received.                   *)
(***************************************************************************)
Final(r, reply, isn) == reply.ackno = Wrap(AckAbsseq(r), isn)

Valid(x, seg, isn) ==
    /\ Carried(x.sender, seg.sender)
    /\ Acknowledges(x.receiver, seg.receiver, isn)

(***************************************************************************)
(* The states of a peer.                                                   *)
(***************************************************************************)
PeerState ==
    [sender : Sender,
     receiver : [reassembler : ReassemblerState, isn : {None} \cup Wrap32],
     linger : BOOLEAN, idle : Nat]

(***************************************************************************)
(* A receiver's reply acknowledges what it has received, and all of the    *)
(* stream when that has ended.                                             *)
(***************************************************************************)
LEMMA ReplyAcknowledges ==
    ASSUME NEW s, NEW r, Flows(s, r)
    PROVE  /\ Acknowledges(r, ReceiverReply(r), s.isn)
           /\ Inbound(r).closed => Final(r, ReceiverReply(r), s.isn)
<1> DEFINE reply == ReceiverReply(r)
           ackno == IF r.isn = None THEN None ELSE Wrap(AckAbsseq(r), r.isn)
           window == Lesser(AvailableCapacity(Inbound(r)), UINT16_MAX)
<1>1. /\ Inbound(r) \in Stream /\ SoundStream(Inbound(r)) /\ Len(Inbound(r).buf) \in Nat
      /\ s.isn \in Wrap32
  BY FlowTypes
<1>2. ~Inbound(r).error /\ Inbound(r).error \in BOOLEAN
  BY <1>1 DEF Flows, Stream
<1>3. /\ Received(r) \in Nat
      /\ r.isn # None => AckAbsseq(r) = Received(r) /\ Received(r) >= 1 /\ r.isn = s.isn
      /\ Inbound(r).closed => r.isn # None
  BY FlowNumbers
<1>4. window \in Nat
  BY <1>1, WindowAssumption DEF SoundStream, Stream, AvailableCapacity, Lesser
<1>5. r.isn # None => Wrap(AckAbsseq(r), r.isn) \in Wrap32
  BY <1>1, <1>3, WrapType
<1>6. ackno \in Wrap32 \cup {None}
  BY <1>5
<1>7. reply = [ackno |-> ackno, window_size |-> window, RST |-> Inbound(r).error]
  BY DEF ReceiverReply
<1> HIDE DEF window, ackno
<1>8. reply \in ReceiverMessage /\ ~reply.RST /\ reply.ackno = ackno
  BY <1>2, <1>4, <1>6, <1>7 DEF ReceiverMessage
<1> HIDE DEF reply
<1>9. ackno # None => r.isn # None /\ ackno = Wrap(Received(r), s.isn)
  BY <1>3 DEF ackno
<1>10. ackno # None => Received(r) \in 1 .. Received(r)
  BY <1>3, <1>9
<1>11. Acknowledges(r, reply, s.isn)
  BY <1>8, <1>9, <1>10 DEF Acknowledges
<1>12. Inbound(r).closed => Final(r, reply, s.isn)
  BY <1>3, <1>8 DEF Final, ackno
<1> QED
  BY <1>11, <1>12 DEF reply

(***************************************************************************)
(* An acknowledgment that was true when it was sent remains true.          *)
(***************************************************************************)
LEMMA AcknowledgesLater ==
    ASSUME NEW r, NEW u, GotOn(u, r), Received(r) \in Nat, Received(u) \in Nat,
           NEW reply, NEW isn, Acknowledges(r, reply, isn)
    PROVE  Acknowledges(u, reply, isn)
<1>1. Received(r) <= Received(u)
  BY DEF GotOn
<1>2. \A a \in 1 .. Received(r) : a \in 1 .. Received(u)
  BY <1>1
<1> QED
  BY <1>2 DEF Acknowledges

(***************************************************************************)
(* make_send: the two halves of a segment are what the sender and the      *)
(* receiver say.                                                           *)
(***************************************************************************)
LEMMA SegmentHalves ==
    ASSUME NEW msg \in SenderMessage, ~msg.RST, NEW reply \in ReceiverMessage, ~reply.RST
    PROVE  Segment(msg, reply) = [sender |-> msg, receiver |-> reply]
<1>1. [msg EXCEPT !.RST = FALSE] = msg
  BY DEF SenderMessage
<1>2. [reply EXCEPT !.RST = FALSE] = reply
  BY DEF ReceiverMessage
<1> QED
  BY <1>1, <1>2 DEF Segment

(***************************************************************************)
(* The sender half of a segment on its way is a message without RST, and   *)
(* one with a FIN comes from a sender that has sent its FIN.               *)
(***************************************************************************)
LEMMA CarriedBasics ==
    ASSUME NEW s, s.isn \in Wrap32, NEW msg, Carried(s, msg)
    PROVE  msg \in SenderMessage /\ ~msg.RST /\ (msg.FIN => s.FIN_flag)
BY SendableBasics DEF Carried, Empty

(***************************************************************************)
(* make_send: segments made of a sender's messages and the receiver's      *)
(* reply of that moment are valid, and final if the inbound stream has     *)
(* ended.                                                                  *)
(***************************************************************************)
LEMMA WithReplyValid ==
    ASSUME NEW w, NEW s, Flows(s, w.receiver), w.sender.isn \in Wrap32,
           NEW msgs, \A i \in DOMAIN msgs : Carried(w.sender, msgs[i])
    PROVE  LET sent == WithReply(w, msgs)
           IN  \A i \in DOMAIN sent :
                   /\ Valid(w, sent[i], s.isn)
                   /\ Inbound(w.receiver).closed => Final(w.receiver, sent[i].receiver, s.isn)
<1> DEFINE sent == WithReply(w, msgs)
           reply == ReceiverReply(w.receiver)
<1>1. /\ Acknowledges(w.receiver, reply, s.isn)
      /\ Inbound(w.receiver).closed => Final(w.receiver, reply, s.isn)
  BY ReplyAcknowledges
<1>2. DOMAIN sent = DOMAIN msgs
  BY DEF WithReply
<1>3. ASSUME NEW i \in DOMAIN msgs PROVE sent[i] = Segment(msgs[i], reply)
  BY DEF WithReply
<1> HIDE DEF sent, reply
<1>4. ASSUME NEW i \in DOMAIN sent
      PROVE  /\ Valid(w, sent[i], s.isn)
             /\ Inbound(w.receiver).closed => Final(w.receiver, sent[i].receiver, s.isn)
  <2>1. Carried(w.sender, msgs[i]) /\ i \in DOMAIN msgs
    BY <1>2
  <2>2. msgs[i] \in SenderMessage /\ ~msgs[i].RST
    BY <2>1, CarriedBasics
  <2>3. reply \in ReceiverMessage /\ ~reply.RST
    BY <1>1 DEF Acknowledges
  <2>4. sent[i] = [sender |-> msgs[i], receiver |-> reply]
    BY <1>3, <2>1, <2>2, <2>3, SegmentHalves
  <2>5. sent[i].sender = msgs[i] /\ sent[i].receiver = reply
    BY <2>4
  <2> QED
    BY <1>1, <2>1, <2>5 DEF Valid
<1> QED
  BY <1>4 DEF sent

-----------------------------------------------------------------------------
(***************************************************************************)
(* The invariant, for each direction: from x, the peer of side p, to y,    *)
(* with the segments n on their way.                                       *)
(***************************************************************************)
Leaves(x, y) ==
    /\ Inbound(x.receiver).closed
    /\ y.receiver.reassembler.eof_index # UINT64_MAX => y.sender.total_outstandings = 0

Good(p, x, y, n) ==
    /\ Flows(x.sender, y.receiver) /\ x.sender.isn = ISNs[p]
    /\ x.sender.input.pushed <= StreamLens[p]
    /\ Busy(x.sender) /\ (x.sender.input.closed => x.sender.SYN_flag)
    /\ \A m \in n :
           m.to = Other(p) =>
               /\ Valid(x, m.seg, ISNs[Other(p)])
               /\ ~x.linger /\ m.seg.sender.FIN =>
                      Final(x.receiver, m.seg.receiver, ISNs[Other(p)])
    /\ ~x.linger => Leaves(x, y)

IInv ==
    /\ peer \in [Sides -> PeerState]
    /\ \A p \in Sides : Good(p, peer[p], peer[Other(p)], net)

(***************************************************************************)
(* The two sides are each other's other side.                              *)
(***************************************************************************)
LEMMA SidesPaired ==
    ASSUME NEW p \in Sides
    PROVE  /\ Other(p) \in Sides /\ Other(p) # p /\ Other(Other(p)) = p
           /\ Sides = {p, Other(p)}
BY ConnectionAssumption DEF Sides, Other

(***************************************************************************)
(* What a call on one peer has to keep: p's peer x becomes z and sends.    *)
(***************************************************************************)
Keeps(p, x, y, z, sent) ==
    /\ z \in PeerState
    /\ Flows(z.sender, y.receiver) /\ Onward(z.sender, x.sender)
    /\ z.sender.input.pushed <= StreamLens[p]
    /\ Busy(z.sender) /\ (z.sender.input.closed => z.sender.SYN_flag)
    /\ Flows(y.sender, z.receiver) /\ GotOn(z.receiver, x.receiver)
    /\ \A i \in DOMAIN sent :
           /\ Valid(z, sent[i], ISNs[Other(p)])
           /\ Inbound(z.receiver).closed => Final(z.receiver, sent[i].receiver, ISNs[Other(p)])
    /\ ~z.linger => Inbound(x.receiver).closed /\ (~x.linger \/ ~x.sender.FIN_flag)
    /\ ~y.linger /\ z.receiver.reassembler.eof_index # UINT64_MAX =>
           z.sender.total_outstandings = 0

(***************************************************************************)
(* A segment that was valid when it was sent remains valid, however late   *)
(* it arrives.                                                             *)
(***************************************************************************)
LEMMA ValidLater ==
    ASSUME NEW p, NEW x, NEW y, NEW z, NEW sent, Keeps(p, x, y, z, sent),
           Flows(x.sender, y.receiver), Flows(y.sender, x.receiver),
           NEW seg, NEW isn, Valid(x, seg, isn)
    PROVE  Valid(z, seg, isn)
<1>1. /\ Onward(z.sender, x.sender) /\ GotOn(z.receiver, x.receiver)
      /\ Flows(z.sender, y.receiver) /\ Flows(y.sender, z.receiver)
  BY DEF Keeps
<1>2. /\ x.sender.next_absseq \in Nat /\ BytesPopped(x.sender.input) \in Nat
      /\ z.sender.next_absseq \in Nat /\ BytesPopped(z.sender.input) \in Nat
  BY <1>1, SenderNumbers DEF Flows
<1>3. Received(x.receiver) \in Nat /\ Received(z.receiver) \in Nat
  BY <1>1, FlowNumbers
<1>4. Carried(z.sender, seg.sender)
  BY <1>1, <1>2, SendableOnward DEF Valid, Carried
<1>5. Acknowledges(z.receiver, seg.receiver, isn)
  BY <1>1, <1>3, AcknowledgesLater DEF Valid
<1> QED
  BY <1>4, <1>5 DEF Valid

(***************************************************************************)
(* A call on one peer that keeps what Keeps demands keeps the invariant,   *)
(* both for the numbers it sends and for those it receives.                *)
(***************************************************************************)
LEMMA CallKeeps ==
    ASSUME IInv, NEW p \in Sides, NEW z, NEW sent,
           Keeps(p, peer[p], peer[Other(p)], z, sent),
           peer' = [peer EXCEPT ![p] = z],
           net' \subseteq net \cup {[to |-> Other(p), seg |-> sent[i]] : i \in DOMAIN sent}
    PROVE  IInv'
<1> DEFINE q == Other(p)
           x == peer[p]
           y == peer[q]
<1>1. /\ q \in Sides /\ q # p /\ Other(q) = p /\ Sides = {p, q}
      /\ peer \in [Sides -> PeerState]
      /\ Good(p, x, y, net) /\ Good(q, y, x, net)
  BY SidesPaired DEF IInv
<1>2. peer'[p] = z /\ peer'[q] = y
  BY <1>1
<1>3. Keeps(p, x, y, z, sent)
  OBVIOUS
<1>4. /\ z \in PeerState
      /\ Flows(z.sender, y.receiver) /\ Flows(y.sender, z.receiver)
      /\ GotOn(z.receiver, x.receiver) /\ Onward(z.sender, x.sender)
  BY <1>3 DEF Keeps
<1>5. /\ Flows(x.sender, y.receiver) /\ Flows(y.sender, x.receiver)
      /\ x.sender.isn = ISNs[p] /\ y.sender.isn = ISNs[q]
  BY <1>1 DEF Good
<1>6. peer' \in [Sides -> PeerState]
  BY <1>1, <1>4
<1>7. Other(p) = q
  OBVIOUS
<1>8. net' \subseteq net \cup {[to |-> q, seg |-> sent[i]] : i \in DOMAIN sent}
  OBVIOUS
<1>9. ASSUME NEW m \in net' PROVE m \in net \/ (m.to = q /\ \E i \in DOMAIN sent : m.seg = sent[i])
  BY <1>8
<1> HIDE DEF q, x, y
<1>10. Good(q, y, z, net')
  <2>1. ASSUME NEW m \in net', m.to = p
        PROVE  /\ Valid(y, m.seg, ISNs[p])
               /\ ~y.linger /\ m.seg.sender.FIN => Final(y.receiver, m.seg.receiver, ISNs[p])
    <3>1. m \in net
      BY <1>1, <1>9, <2>1
    <3> QED
      BY <1>1, <2>1, <3>1 DEF Good
  <2>2. ASSUME ~y.linger PROVE Leaves(y, z)
    <3>1. Inbound(y.receiver).closed
      BY <1>1, <2>2 DEF Good, Leaves
    <3>2. z.receiver.reassembler.eof_index # UINT64_MAX => z.sender.total_outstandings = 0
      BY <1>3, <2>2 DEF Keeps
    <3> QED
      BY <3>1, <3>2 DEF Leaves
  <2>3. /\ y.sender.input.pushed <= StreamLens[q]
        /\ Busy(y.sender) /\ (y.sender.input.closed => y.sender.SYN_flag)
    BY <1>1 DEF Good
  <2> QED
    BY <1>1, <1>4, <1>5, <2>1, <2>2, <2>3 DEF Good
<1>11. Good(p, z, y, net')
  <2>1. ASSUME NEW m \in net', m.to = q
        PROVE  /\ Valid(z, m.seg, ISNs[q])
               /\ ~z.linger /\ m.seg.sender.FIN => Final(z.receiver, m.seg.receiver, ISNs[q])
    <3>1. CASE m \in net
      <4>1. /\ Valid(x, m.seg, ISNs[q])
            /\ ~x.linger /\ m.seg.sender.FIN => Final(x.receiver, m.seg.receiver, ISNs[q])
        BY <1>1, <1>7, <2>1, <3>1 DEF Good
      <4>2. Valid(z, m.seg, ISNs[q])
        BY <1>3, <1>5, <4>1, ValidLater
      <4>3. ASSUME ~z.linger, m.seg.sender.FIN PROVE Final(z.receiver, m.seg.receiver, ISNs[q])
        <5>1. Inbound(x.receiver).closed /\ (~x.linger \/ ~x.sender.FIN_flag)
          BY <1>3, <4>3 DEF Keeps
        <5>2. m.seg.sender.FIN => x.sender.FIN_flag
          <6>1. x.sender.isn \in Wrap32
            BY <1>5, FlowTypes
          <6> QED
            BY <4>1, <6>1, CarriedBasics DEF Valid
        <5>3. Final(x.receiver, m.seg.receiver, ISNs[q])
          BY <4>1, <4>3, <5>1, <5>2
        <5>4. AckAbsseq(z.receiver) = AckAbsseq(x.receiver)
          <6>1. Inbound(z.receiver).closed
            BY <1>4, <5>1 DEF GotOn
          <6>2. /\ Received(x.receiver) = y.sender.next_absseq /\ x.receiver.isn # None
                /\ AckAbsseq(x.receiver) = Received(x.receiver)
            BY <1>5, <5>1, FlowNumbers
          <6>3. /\ Received(z.receiver) = y.sender.next_absseq /\ z.receiver.isn # None
                /\ AckAbsseq(z.receiver) = Received(z.receiver)
            BY <1>4, <6>1, FlowNumbers
          <6> QED
            BY <6>2, <6>3
        <5> QED
          BY <5>3, <5>4 DEF Final
      <4> QED
        BY <4>2, <4>3
    <3>2. CASE m \notin net
      <4>1. PICK i \in DOMAIN sent : m.seg = sent[i]
        BY <1>9, <3>2
      <4>2. /\ Valid(z, sent[i], ISNs[q])
            /\ Inbound(z.receiver).closed => Final(z.receiver, sent[i].receiver, ISNs[q])
        BY <1>3, <1>7 DEF Keeps
      <4>3. ~z.linger => Inbound(z.receiver).closed
        BY <1>3 DEF Keeps, GotOn
      <4> QED
        BY <4>1, <4>2, <4>3
    <3> QED
      BY <3>1, <3>2
  <2>2. ASSUME ~z.linger PROVE Leaves(z, y)
    <3>1. Inbound(x.receiver).closed /\ (~x.linger \/ ~x.sender.FIN_flag)
      BY <1>3, <2>2 DEF Keeps
    <3>2. Inbound(z.receiver).closed
      BY <1>4, <3>1 DEF GotOn
    <3>3. y.receiver.reassembler.eof_index # UINT64_MAX => x.sender.FIN_flag
      BY <1>5 DEF Flows
    <3>4. ~x.linger =>
             (y.receiver.reassembler.eof_index # UINT64_MAX => y.sender.total_outstandings = 0)
      BY <1>1 DEF Good, Leaves
    <3> QED
      BY <3>1, <3>2, <3>3, <3>4 DEF Leaves
  <2>3. /\ z.sender.input.pushed <= StreamLens[p]
        /\ Busy(z.sender) /\ (z.sender.input.closed => z.sender.SYN_flag)
    BY <1>3 DEF Keeps
  <2>4. z.sender.isn = ISNs[p]
    BY <1>4, <1>5 DEF Onward
  <2> QED
    BY <1>4, <1>7, <2>1, <2>2, <2>3, <2>4 DEF Good
<1>12. ASSUME NEW o \in Sides PROVE Good(o, peer'[o], peer'[Other(o)], net')
  <2>1. CASE o = p
    BY <1>2, <1>7, <1>11, <2>1
  <2>2. CASE o = q
    BY <1>1, <1>2, <1>10, <2>2
  <2> QED
    BY <1>1, <2>1, <2>2
<1> QED
  BY <1>6, <1>12 DEF IInv

-----------------------------------------------------------------------------
(***************************************************************************)
(* A peer with another sender, of the same connection.                     *)
(***************************************************************************)
WithSender(w, t) == [w EXCEPT !.sender = t]

(***************************************************************************)
(* The fields of a peer whose sender has changed.                          *)
(***************************************************************************)
LEMMA WithSenderParts ==
    ASSUME NEW w \in PeerState, NEW t \in Sender
    PROVE  LET z == WithSender(w, t)
           IN  /\ z \in PeerState /\ z.sender = t /\ z.receiver = w.receiver
               /\ z.linger = w.linger
BY DEF WithSender, PeerState

(***************************************************************************)
(* TCPPeer::push: what it sends is valid, and it leaves no sender that     *)
(* could send and has nothing in flight.                                   *)
(***************************************************************************)
LEMMA PeerPushes ==
    ASSUME NEW w \in PeerState, NEW y, Flows(w.sender, y.receiver), Flows(y.sender, w.receiver)
    PROVE  LET c == PeerPush(w)
               z == c.peer
           IN  /\ z = WithSender(w, z.sender) /\ z.sender \in Sender
               /\ Flows(z.sender, y.receiver) /\ Onward(z.sender, w.sender)
               /\ SameInput(z.sender, w.sender) /\ Busy(z.sender)
               /\ w.sender.FIN_flag => z.sender = w.sender
               /\ \A i \in DOMAIN c.sent :
                      /\ Valid(z, c.sent[i], y.sender.isn)
                      /\ Inbound(z.receiver).closed =>
                             Final(z.receiver, c.sent[i].receiver, y.sender.isn)
<1> DEFINE s == w.sender
           d == Push(s)
           t == d.sender
           c == PeerPush(w)
           z == WithSender(w, t)
<1>1. /\ Transmits(s) /\ s \in Sender /\ Short(s) /\ s.ack_absseq <= Received(y.receiver)
  BY SenderNumbers DEF Flows
<1>2. d \in PushingOn(s) /\ Busy(t)
  BY <1>1, PushTransmits, PushBusy
<1>3. c = [peer |-> z, sent |-> WithReply(w, d.sent)]
  BY DEF PeerPush, WithSender
<1> HIDE DEF d, c
<1>4. /\ Transmits(t) /\ Onward(t, s) /\ SameInput(t, s) /\ t.ack_absseq = s.ack_absseq
      /\ \A i \in DOMAIN d.sent : Sendable(t, d.sent[i])
      /\ s.FIN_flag => d = Quiet(s)
      /\ t \in Sender
  <2>1. t \in Sender
    BY <1>2 DEF PushingOn, Pushing
  <2> QED
    BY <1>2, <2>1 DEF PushingOn, Pushing
<1>5. s.FIN_flag => t = s
  BY <1>4 DEF Quiet
<1>6. /\ z \in PeerState /\ z.sender = t /\ z.receiver = w.receiver
  BY <1>4, WithSenderParts
<1>7. s.input.pushed \in Nat /\ t.input.pushed = s.input.pushed
  BY <1>1, <1>4, SenderNumbers DEF SameInput
<1> HIDE DEF s, t, z
<1>8. Flows(t, y.receiver)
  <2>1. Short(t) /\ s.input.pushed <= t.input.pushed /\ t.ack_absseq <= Received(y.receiver)
    BY <1>1, <1>4, <1>7 DEF Short
  <2> QED
    BY <1>4, <2>1, SenderGoesOn DEF s
<1>9. WithReply(w, d.sent) = WithReply(z, d.sent)
  BY <1>6 DEF WithReply
<1> DEFINE sent == WithReply(z, d.sent)
<1>10. \A i \in DOMAIN sent :
          /\ Valid(z, sent[i], y.sender.isn)
          /\ Inbound(z.receiver).closed => Final(z.receiver, sent[i].receiver, y.sender.isn)
  <2>1. Flows(y.sender, z.receiver) /\ z.sender.isn \in Wrap32
    BY <1>4, <1>6, SenderNumbers
  <2>2. \A i \in DOMAIN d.sent : Carried(z.sender, d.sent[i])
    BY <1>4, <1>6 DEF Carried
  <2> QED
    BY <2>1, <2>2, WithReplyValid
<1> HIDE DEF sent
<1>11. c.peer = z /\ c.sent = sent
  BY <1>3, <1>9 DEF sent
<1>12. z = WithSender(w, z.sender)
  BY <1>6 DEF z
<1>13. /\ z = WithSender(w, z.sender) /\ z.sender \in Sender
       /\ Flows(z.sender, y.receiver) /\ Onward(z.sender, w.sender)
       /\ SameInput(z.sender, w.sender) /\ Busy(z.sender)
       /\ w.sender.FIN_flag => z.sender = w.sender
  BY <1>2, <1>4, <1>5, <1>6, <1>8, <1>12 DEF s
<1> QED
  BY <1>10, <1>11, <1>13 DEF c

(***************************************************************************)
(* The parts of IInv for the peer p and the other one.                     *)
(***************************************************************************)
LEMMA BothGood ==
    ASSUME IInv, NEW p \in Sides
    PROVE  /\ Other(p) \in Sides /\ Other(p) # p /\ Other(Other(p)) = p
           /\ peer[p] \in PeerState /\ peer[Other(p)] \in PeerState
           /\ Good(p, peer[p], peer[Other(p)], net)
           /\ Good(Other(p), peer[Other(p)], peer[p], net)
BY SidesPaired DEF IInv

(***************************************************************************)
(* A call that changes what x's sender has to send, leaving what has been  *)
(* sent, and then pushes.                                                  *)
(***************************************************************************)
LEMMA PushKeeps ==
    ASSUME NEW p, NEW x \in PeerState, NEW y, NEW n,
           Good(p, x, y, n), Good(Other(p), y, x, n), NEW t,
           Transmits(t), Onward(t, x.sender), t.ack_absseq = x.sender.ack_absseq,
           x.sender.input.pushed <= t.input.pushed,
           t.input.pushed <= StreamLens[p], Short(t),
           t.input.closed => t.SYN_flag,
           x.sender.FIN_flag => t = x.sender
    PROVE  LET c == PeerPush(WithSender(x, t))
           IN  /\ Keeps(p, x, y, c.peer, c.sent)
               /\ SameInput(c.peer.sender, t) /\ c.peer.receiver = x.receiver
<1> DEFINE w == WithSender(x, t)
           c == PeerPush(w)
           z == c.peer
<1>1. /\ Flows(x.sender, y.receiver) /\ Flows(y.sender, x.receiver)
      /\ y.sender.isn = ISNs[Other(p)]
      /\ ~x.linger => Leaves(x, y)
      /\ ~y.linger => Leaves(y, x)
  BY DEF Good
<1>2. t \in Sender
  BY SenderNumbers
<1>3. w \in PeerState /\ w.sender = t /\ w.receiver = x.receiver /\ w.linger = x.linger
  BY <1>2, WithSenderParts
<1>4. Flows(t, y.receiver)
  <2>1. t.ack_absseq <= Received(y.receiver)
    BY <1>1 DEF Flows
  <2> QED
    BY <1>1, <2>1, SenderGoesOn
<1> HIDE DEF w, c
<1>6. /\ z = WithSender(w, z.sender) /\ z.sender \in Sender
      /\ Flows(z.sender, y.receiver) /\ Onward(z.sender, t)
      /\ SameInput(z.sender, t) /\ Busy(z.sender)
      /\ t.FIN_flag => z.sender = t
      /\ \A i \in DOMAIN c.sent :
             /\ Valid(z, c.sent[i], y.sender.isn)
             /\ Inbound(z.receiver).closed =>
                    Final(z.receiver, c.sent[i].receiver, y.sender.isn)
  BY <1>1, <1>3, <1>4, PeerPushes DEF c
<1>7. z \in PeerState /\ z.receiver = x.receiver /\ z.linger = x.linger
  BY <1>3, <1>6, WithSenderParts
<1> HIDE DEF z
<1>8. Onward(z.sender, x.sender)
  BY <1>1, <1>6, OnwardTransitive DEF Flows
<1>9. GotOn(z.receiver, x.receiver)
  <2>1. Received(x.receiver) \in Nat
    BY <1>1, FlowNumbers
  <2> QED
    BY <1>7, <2>1 DEF GotOn
<1>10. z.sender.input.pushed <= StreamLens[p] /\ (z.sender.input.closed => z.sender.SYN_flag)
  BY <1>6 DEF SameInput, Onward
<1>11. ~z.linger => Inbound(x.receiver).closed /\ (~x.linger \/ ~x.sender.FIN_flag)
  BY <1>1, <1>7 DEF Leaves
<1>12. ~y.linger /\ z.receiver.reassembler.eof_index # UINT64_MAX =>
          z.sender.total_outstandings = 0
  <2> SUFFICES ASSUME ~y.linger, x.receiver.reassembler.eof_index # UINT64_MAX
               PROVE  z.sender.total_outstandings = 0
    BY <1>7
  <2>1. x.sender.total_outstandings = 0 /\ Inbound(y.receiver).closed
    BY <1>1 DEF Leaves
  <2>2. x.sender.FIN_flag
    BY <1>1, <2>1, FlowNumbers
  <2>3. z.sender = x.sender
    BY <1>6, <2>2
  <2> QED
    BY <2>1, <2>3
<1>13. Keeps(p, x, y, z, c.sent)
  BY <1>1, <1>6, <1>7, <1>8, <1>9, <1>10, <1>11, <1>12 DEF Keeps
<1> QED
  BY <1>6, <1>7, <1>13 DEF c, z, w

(***************************************************************************)
(* The acknowledgment in a segment names a number that has been received;  *)
(* a final one names them all.                                             *)
(***************************************************************************)
LEMMA AckTaken ==
    ASSUME NEW s, NEW r, Flows(s, r), NEW reply, Acknowledges(r, reply, s.isn),
           NEW final \in BOOLEAN,
           final => Inbound(r).closed /\ Final(r, reply, s.isn)
    PROVE  LET t == ReceiveReply(s, reply)
           IN  /\ Flows(t, r) /\ Onward(t, s) /\ SameStream(t, s) /\ t \in Sender
               /\ s.total_outstandings = 0 \/ final => t.total_outstandings = 0
<1> DEFINE got == Received(r)
           a == IF final THEN got ELSE CHOOSE b \in 1 .. got : reply.ackno = Wrap(b, s.isn)
           t == ReceiveReply(s, reply)
<1>1. /\ Transmits(s) /\ Short(s) /\ s.ack_absseq <= got
      /\ s.isn \in Wrap32 /\ s.isn # None
      /\ s.next_absseq \in Nat /\ s.ack_absseq \in Nat /\ s.total_outstandings \in Nat
      /\ s.ack_absseq + s.total_outstandings = s.next_absseq
  <2>1. Transmits(s) /\ Short(s) /\ s.ack_absseq <= got
    BY DEF Flows
  <2>2. s.isn # None
    BY <2>1, ShortBounds, StreamBounds
  <2> QED
    BY <2>1, <2>2, SenderNumbers
<1>2. /\ got \in Nat /\ got <= s.next_absseq
      /\ final => AckAbsseq(r) = got /\ got = s.next_absseq /\ got >= 1
  BY FlowNumbers
<1> HIDE DEF got
<1>3. /\ reply \in ReceiverMessage /\ ~reply.RST
      /\ reply.ackno # None => \E b \in 1 .. got : reply.ackno = Wrap(b, s.isn)
  BY DEF Acknowledges, got
<1>4. reply.ackno # None => a \in 1 .. got /\ reply.ackno = Wrap(a, s.isn)
  <2>1. CASE final
    <3>1. a = got /\ got \in 1 .. got
      BY <1>2, <2>1
    <3>2. reply.ackno = Wrap(got, s.isn)
      BY <1>2, <2>1 DEF Final
    <3> QED
      BY <3>1, <3>2
  <2>2. CASE ~final
    BY <1>3, <2>2
  <2> QED
    BY <2>1, <2>2
<1>5. final => reply.ackno # None /\ a = s.next_absseq
  <2> SUFFICES ASSUME final PROVE reply.ackno # None /\ a = s.next_absseq
    OBVIOUS
  <2>1. reply.ackno = Wrap(got, s.isn)
    BY <1>2 DEF Final
  <2>2. Wrap(got, s.isn) \in Wrap32
    BY <1>1, <1>2, WrapType
  <2>3. None \notin Wrap32
    BY Widths DEF None, Wrap32
  <2> QED
    BY <1>2, <2>1, <2>2, <2>3
<1>6. reply.ackno # None => a \in Nat /\ a <= got /\ a \in 1 .. s.next_absseq
  BY <1>1, <1>2, <1>4
<1> HIDE DEF a, t
<1>7. /\ Transmits(t) /\ Onward(t, s) /\ SameStream(t, s)
      /\ t.ack_absseq \in Nat /\ s.ack_absseq <= t.ack_absseq
      /\ t.ack_absseq = s.ack_absseq \/ (reply.ackno # None /\ t.ack_absseq <= a)
      /\ reply.ackno # None /\ a = s.next_absseq => t.total_outstandings = 0
  <2>1. /\ s.input.pushed + 2 < Mod32 \div 2
        /\ reply.ackno # None => a \in 1 .. s.next_absseq /\ reply.ackno = Wrap(a, s.isn)
    BY <1>1, <1>4, <1>6 DEF Short
  <2> QED
    BY <1>1, <1>3, <2>1, ReplyTransmits DEF t
<1>8. t.ack_absseq <= got
  BY <1>1, <1>2, <1>6, <1>7
<1>9. s.total_outstandings = 0 => t.total_outstandings = 0
  <2> SUFFICES ASSUME s.total_outstandings = 0 PROVE t.total_outstandings = 0
    OBVIOUS
  <2>1. t.ack_absseq + t.total_outstandings = s.next_absseq /\ t.total_outstandings \in Nat
    BY <1>7, SenderNumbers DEF SameStream
  <2> QED
    BY <1>1, <1>7, <2>1
<1>10. Flows(t, r)
  <2>1. Short(t) /\ s.input.pushed <= t.input.pushed
    BY <1>1, <1>7, SenderNumbers DEF SameStream, Short
  <2> QED
    BY <1>7, <1>8, <2>1, SenderGoesOn DEF got
<1>11. t \in Sender
  BY <1>7, SenderNumbers
<1> QED
  BY <1>5, <1>7, <1>9, <1>10, <1>11 DEF t

(***************************************************************************)
(* A peer that has processed both halves of a segment.                     *)
(***************************************************************************)
GotSegment(w, u, t) ==
    [w EXCEPT !.idle = 0, !.linger = LingersAfter(w), !.receiver = u, !.sender = t]

(***************************************************************************)
(* The fields of a peer that has processed a segment.                      *)
(***************************************************************************)
LEMMA GotSegmentParts ==
    ASSUME NEW w \in PeerState, NEW t \in Sender,
           NEW u \in [reassembler : ReassemblerState, isn : {None} \cup Wrap32]
    PROVE  LET z == GotSegment(w, u, t)
           IN  /\ z \in PeerState /\ z.sender = t /\ z.receiver = u
               /\ z.linger <=> LingersAfter(w)
<1>1. LingersAfter(w) \in BOOLEAN
  BY DEF LingersAfter
<1> QED
  BY <1>1 DEF GotSegment, PeerState

(***************************************************************************)
(* A peer z like x at its application's ends: nothing has been written,    *)
(* closed or read.                                                         *)
(***************************************************************************)
SameEnds(z, x) ==
    /\ SameInput(z.sender, x.sender)
    /\ BytesPopped(Inbound(z.receiver)) = BytesPopped(Inbound(x.receiver))

(***************************************************************************)
(* TCPPeer::receive.                                                       *)
(***************************************************************************)
LEMMA ReceiveKeeps ==
    ASSUME NEW p, NEW x \in PeerState, NEW y, NEW n,
           Good(p, x, y, n), Good(Other(p), y, x, n), Active(x),
           NEW seg, Valid(y, seg, ISNs[p]),
           ~y.linger /\ seg.sender.FIN => Final(y.receiver, seg.receiver, ISNs[p])
    PROVE  LET c == PeerReceive(x, seg)
           IN  Keeps(p, x, y, c.peer, c.sent) /\ SameEnds(c.peer, x)
<1> DEFINE s == x.sender
           r == x.receiver
           t == ReceiveReply(s, seg.receiver)
           u == ReceiveSegment(r, seg.sender)
           w == GotSegment(x, u, t)
           b == PeerPush(w)
           z == b.peer
           empty == WithReply(z, << MakeEmptyMessage(z.sender) >>)
           c == PeerReceive(x, seg)
           final == ~y.linger /\ seg.sender.FIN
<1>1. /\ Flows(s, y.receiver) /\ Flows(y.sender, r)
      /\ s.isn = ISNs[p] /\ y.sender.isn = ISNs[Other(p)]
      /\ ~x.linger => Leaves(x, y)
      /\ ~y.linger => Leaves(y, x)
      /\ s.input.pushed <= StreamLens[p]
      /\ s.input.closed => s.SYN_flag
  BY DEF Good
<1>3. c.peer = z /\ (c.sent = b.sent \/ c.sent = empty)
  BY DEF PeerReceive, GotSegment
<1> HIDE DEF s, r, t, u, w, b, z, empty, c
<1>4. /\ Flows(t, y.receiver) /\ Onward(t, s) /\ SameStream(t, s) /\ t \in Sender
      /\ s.total_outstandings = 0 \/ final => t.total_outstandings = 0
  <2> DEFINE f == IF final THEN TRUE ELSE FALSE
  <2>1. f \in BOOLEAN /\ (f <=> final)
    OBVIOUS
  <2>2. Acknowledges(y.receiver, seg.receiver, s.isn)
    BY <1>1 DEF Valid
  <2>3. f => Inbound(y.receiver).closed /\ Final(y.receiver, seg.receiver, s.isn)
    BY <1>1 DEF Leaves
  <2> HIDE DEF f, final
  <2>4. /\ Flows(t, y.receiver) /\ Onward(t, s) /\ SameStream(t, s) /\ t \in Sender
        /\ s.total_outstandings = 0 \/ f => t.total_outstandings = 0
    BY <1>1, <2>1, <2>2, <2>3, AckTaken DEF t
  <2> QED
    BY <2>1, <2>4
<1>5. /\ Flows(y.sender, u) /\ GotOn(u, r)
      /\ u.reassembler.eof_index # r.reassembler.eof_index => seg.sender.FIN
      /\ BytesPopped(Inbound(u)) = BytesPopped(Inbound(r))
  BY <1>1, SegmentArrives DEF u, Valid
<1>6. /\ w \in PeerState /\ w.sender = t /\ w.receiver = u
      /\ w.linger <=> LingersAfter(x)
  <2>1. u \in [reassembler : ReassemblerState, isn : {None} \cup Wrap32]
    BY <1>5, FlowTypes
  <2> QED
    BY <1>4, <2>1, GotSegmentParts DEF w
<1>7. /\ z = WithSender(w, z.sender) /\ z.sender \in Sender
      /\ Flows(z.sender, y.receiver) /\ Onward(z.sender, t)
      /\ SameInput(z.sender, t) /\ Busy(z.sender)
      /\ t.FIN_flag => z.sender = t
      /\ \A i \in DOMAIN b.sent :
             /\ Valid(z, b.sent[i], y.sender.isn)
             /\ Inbound(z.receiver).closed =>
                    Final(z.receiver, b.sent[i].receiver, y.sender.isn)
  BY <1>4, <1>5, <1>6, PeerPushes DEF b, z
<1>8. z \in PeerState /\ z.receiver = u /\ z.linger = w.linger
  BY <1>6, <1>7, WithSenderParts
<1>9. \A i \in DOMAIN empty :
          /\ Valid(z, empty[i], y.sender.isn)
          /\ Inbound(z.receiver).closed => Final(z.receiver, empty[i].receiver, y.sender.isn)
  <2> DEFINE msg == MakeEmptyMessage(z.sender)
             msgs == << msg >>
  <2>1. Transmits(z.sender) /\ z.sender.isn \in Wrap32 /\ z.sender.next_absseq \in Nat
        /\ ~z.sender.input.error /\ z.sender.input.error \in BOOLEAN
    <3>1. Transmits(z.sender)
      BY <1>7 DEF Flows
    <3>2. ~z.sender.input.error
      BY <3>1 DEF Transmits
    <3>3. z.sender.input \in Stream /\ z.sender.isn \in Wrap32 /\ z.sender.next_absseq \in Nat
      BY <3>1, SenderNumbers
    <3>4. z.sender.input.error \in BOOLEAN
      BY <3>3 DEF Stream
    <3> QED
      BY <3>1, <3>2, <3>3, <3>4
  <2>2. Empty(msg)
    <3>1. Wrap(z.sender.next_absseq, z.sender.isn) \in Wrap32
      BY <2>1, WrapType
    <3> QED
      BY <2>1, <3>1 DEF Empty, MakeEmptyMessage, SenderMessage
  <2> HIDE DEF msg
  <2>3. \A i \in DOMAIN msgs : Carried(z.sender, msgs[i])
    BY <2>2 DEF Carried
  <2>4. Flows(y.sender, z.receiver) /\ z.sender.isn \in Wrap32
    BY <1>5, <1>8, <2>1
  <2>5. empty = WithReply(z, msgs)
    BY DEF empty, msg
  <2> HIDE DEF msgs
  <2> QED
    BY <2>3, <2>4, <2>5, WithReplyValid
<1>10. \A i \in DOMAIN c.sent :
          /\ Valid(z, c.sent[i], y.sender.isn)
          /\ Inbound(z.receiver).closed => Final(z.receiver, c.sent[i].receiver, y.sender.isn)
  BY <1>3, <1>7, <1>9
<1>11. Onward(z.sender, s)
  BY <1>1, <1>4, <1>7, OnwardTransitive DEF Flows
<1>12. z.sender.input.pushed <= StreamLens[p] /\ (z.sender.input.closed => z.sender.SYN_flag)
  BY <1>1, <1>4, <1>7 DEF SameInput, SameStream, Onward
<1>13. ~z.linger => Inbound(r).closed /\ (~x.linger \/ ~s.FIN_flag)
  <2> SUFFICES ASSUME ~z.linger PROVE Inbound(r).closed /\ (~x.linger \/ ~s.FIN_flag)
    OBVIOUS
  <2>1. ~x.linger \/ (Inbound(r).closed /\ ~IsFinished(s.input))
    BY <1>6, <1>8 DEF LingersAfter, s, r
  <2>2. s.FIN_flag => IsFinished(s.input)
    BY <1>1, SenderNumbers DEF Flows, IsFinished
  <2>3. ~x.linger => Inbound(r).closed
    BY <1>1 DEF Leaves, r
  <2> QED
    BY <2>1, <2>2, <2>3
<1>14. ~y.linger /\ z.receiver.reassembler.eof_index # UINT64_MAX =>
          z.sender.total_outstandings = 0
  <2> SUFFICES ASSUME ~y.linger, u.reassembler.eof_index # UINT64_MAX
               PROVE  z.sender.total_outstandings = 0
    BY <1>8
  <2>1. /\ Inbound(y.receiver).closed
        /\ r.reassembler.eof_index # UINT64_MAX => s.total_outstandings = 0
    BY <1>1 DEF Leaves, s, r
  <2>2. s.FIN_flag
    BY <1>1, <2>1, FlowNumbers
  <2>3. z.sender = t
    BY <1>4, <1>7, <2>2 DEF Onward
  <2>4. CASE r.reassembler.eof_index = UINT64_MAX
    BY <1>4, <1>5, <2>3, <2>4
  <2>5. CASE r.reassembler.eof_index # UINT64_MAX
    BY <1>4, <2>1, <2>3, <2>5
  <2> QED
    BY <2>4, <2>5
<1>15. Keeps(p, x, y, z, c.sent)
  BY <1>1, <1>5, <1>7, <1>8, <1>10, <1>11, <1>12, <1>13, <1>14 DEF Keeps, s, r
<1>16. SameEnds(z, x)
  BY <1>4, <1>5, <1>7, <1>8 DEF SameEnds, SameInput, SameStream, s, r
<1> QED
  BY <1>3, <1>15, <1>16 DEF c

(***************************************************************************)
(* A stream no longer than its application's is short enough.              *)
(***************************************************************************)
LEMMA WithinLen ==
    ASSUME NEW p \in Sides, NEW s, Transmits(s), s.input.pushed <= StreamLens[p]
    PROVE  Short(s)
<1> DEFINE half == Mod32 \div 2
           len  == StreamLens[p]
<1>1. s.input.pushed \in Nat /\ len \in Nat /\ half \in Nat /\ len + 2 < half
  BY SenderNumbers, Widths, ConnectionAssumption, SequenceSpaceAssumption
<1> HIDE DEF half, len
<1>2. s.input.pushed + 2 < half
  BY <1>1 DEF len
<1> QED
  BY <1>2 DEF Short, half

(***************************************************************************)
(* What a step does at the ends: the application of p writes k bytes, or   *)
(* the end of its stream, or reads n bytes, and the other one does nothing.*)
(***************************************************************************)
AppsMove(p, k, end, n) ==
    LET in  == peer[p].sender.input
        out == Inbound(peer[p].receiver)
    IN  /\ peer'[p].sender.input.pushed = in.pushed + k
        /\ peer'[p].sender.input.closed <=> in.closed \/ end
        /\ BytesPopped(Inbound(peer'[p].receiver)) = BytesPopped(out) + n
        /\ peer'[Other(p)] = peer[Other(p)]

(***************************************************************************)
(* A natural number of bytes has been read.                                *)
(***************************************************************************)
LEMMA PoppedNat ==
    ASSUME IInv, NEW p \in Sides
    PROVE  BytesPopped(Inbound(peer[p].receiver)) \in Nat
<1> DEFINE r == peer[p].receiver
<1>1. Flows(peer[Other(p)].sender, r)
  BY BothGood DEF Good
<1> HIDE DEF r
<1>2. /\ Inbound(r).pushed \in Nat /\ Len(Inbound(r).buf) \in Nat
      /\ OrderlyBuffer(Inbound(r))
  BY <1>1, FlowNumbers, FlowTypes
<1> QED
  BY <1>2 DEF OrderlyBuffer, BytesPopped, r

(***************************************************************************)
(* A call that no application takes part in.                               *)
(***************************************************************************)
LEMMA NoAppMoves ==
    ASSUME IInv, NEW p \in Sides, NEW z, peer' = [peer EXCEPT ![p] = z],
           SameEnds(z, peer[p])
    PROVE  AppsMove(p, 0, FALSE, 0)
<1> DEFINE q == Other(p)
           x == peer[p]
<1>1. q \in Sides /\ q # p /\ peer \in [Sides -> PeerState]
  BY BothGood DEF IInv
<1>2. peer'[p] = z /\ peer'[q] = peer[q]
  BY <1>1
<1>3. x.sender.input.pushed \in Nat
  BY BothGood, SenderNumbers DEF Good, Flows
<1>4. BytesPopped(Inbound(x.receiver)) \in Nat
  BY PoppedNat
<1> HIDE DEF q, x
<1> QED
  BY <1>2, <1>3, <1>4 DEF AppsMove, SameEnds, SameInput, q, x

(***************************************************************************)
(* The actions.                                                            *)
(***************************************************************************)
LEMMA ConnectKeeps ==
    ASSUME IInv, Connect
    PROVE  IInv' /\ AppsMove(Opener, 0, FALSE, 0)
<1> DEFINE p == Opener
           x == peer[p]
           y == peer[Other(p)]
           c == PeerPush(x)
<1>1. p \in Sides
  BY DEF Sides
<1>2. x \in PeerState /\ Good(p, x, y, net) /\ Good(Other(p), y, x, net)
  BY <1>1, BothGood
<1>3. peer' = [peer EXCEPT ![p] = c.peer]
      /\ net' = net \cup {[to |-> Other(p), seg |-> c.sent[i]] : i \in DOMAIN c.sent}
  BY DEF Connect, Outcome
<1>4. WithSender(x, x.sender) = x
  BY <1>2 DEF WithSender, PeerState
<1>5. /\ Transmits(x.sender) /\ Short(x.sender) /\ x.sender.input.pushed <= StreamLens[p]
      /\ x.sender.input.pushed \in Nat
      /\ x.sender.input.closed => x.sender.SYN_flag
      /\ Onward(x.sender, x.sender)
  BY <1>2, OnwardItself, SenderNumbers DEF Good, Flows
<1> HIDE DEF x, y
<1>6. /\ Keeps(p, x, y, c.peer, c.sent)
      /\ SameInput(c.peer.sender, x.sender) /\ c.peer.receiver = x.receiver
  <2>1. x.sender.input.pushed <= x.sender.input.pushed
    BY <1>5
  <2> QED
    BY <1>2, <1>4, <1>5, <2>1, PushKeeps
<1> HIDE DEF c, p
<1>7. IInv'
  BY <1>1, <1>3, <1>6, CallKeeps DEF x, y
<1>8. AppsMove(p, 0, FALSE, 0)
  BY <1>1, <1>3, <1>6, NoAppMoves DEF SameEnds, x
<1> QED
  BY <1>7, <1>8 DEF p

(***************************************************************************)
(* A write or close and the push that follows it.                          *)
(***************************************************************************)
LEMMA InputKeeps ==
    ASSUME IInv, NEW p \in Sides, NEW input,
           ~Sender_(p).input.closed, Established(p),
           SoundStream(input), OrderlyBuffer(input), ~input.error,
           BytesPopped(input) = BytesPopped(Sender_(p).input),
           Sender_(p).input.pushed <= input.pushed, input.pushed <= StreamLens[p],
           LET c == PeerPush(WithSender(peer[p], WithInput(Sender_(p), input)))
           IN  Outcome(p, c, net)
    PROVE  /\ IInv'
           /\ peer'[p].sender.input.pushed = input.pushed
           /\ peer'[p].sender.input.closed = input.closed
           /\ peer'[p].receiver = peer[p].receiver
           /\ peer'[Other(p)] = peer[Other(p)]
<1> DEFINE x == peer[p]
           s == x.sender
           y == peer[Other(p)]
           t == WithInput(s, input)
           c == PeerPush(WithSender(x, t))
<1>1. x \in PeerState /\ Good(p, x, y, net) /\ Good(Other(p), y, x, net)
  BY BothGood
<1>2. peer' = [peer EXCEPT ![p] = c.peer]
      /\ net' = net \cup {[to |-> Other(p), seg |-> c.sent[i]] : i \in DOMAIN c.sent}
  BY DEF Outcome, Sender_
<1>3. /\ Transmits(s) /\ ~s.input.closed /\ s.ack_absseq > 0
      /\ BytesPopped(input) = BytesPopped(s.input) /\ s.input.pushed <= input.pushed
  BY <1>1 DEF Good, Flows, Sender_, Established
<1> HIDE DEF x, y, s
<1>4. /\ Transmits(t) /\ Onward(t, s) /\ t.input = input
      /\ t.ack_absseq = s.ack_absseq /\ t.SYN_flag = s.SYN_flag
  BY <1>3, InputTransmits
<1>5. s.SYN_flag /\ ~s.FIN_flag
  BY <1>3, SenderNumbers
<1> HIDE DEF t
<1>6. Short(t)
  BY <1>4, WithinLen
<1>7. /\ Keeps(p, x, y, c.peer, c.sent)
      /\ SameInput(c.peer.sender, t) /\ c.peer.receiver = x.receiver
  BY <1>1, <1>3, <1>4, <1>5, <1>6, PushKeeps DEF s
<1> HIDE DEF c
<1>8. IInv'
  BY <1>2, <1>7, CallKeeps DEF x, y
<1>9. peer'[p] = c.peer /\ peer'[Other(p)] = peer[Other(p)]
  BY <1>2, BothGood DEF IInv
<1> QED
  BY <1>4, <1>7, <1>8, <1>9 DEF SameInput, x

(***************************************************************************)
(* The application writes: its bytes are the next ones of the stream.      *)
(***************************************************************************)
LEMMA AppWriteKeeps ==
    ASSUME IInv, NEW p \in Sides, NEW n \in 1 .. SendCapacity, AppWrite(p, n)
    PROVE  IInv' /\ AppsMove(p, n, FALSE, 0)
<1> DEFINE x == peer[p]
           s == x.sender
           data == BytesFrom(s.input.pushed, n)
           input == PushBytes(s.input, data)
           q == [x EXCEPT !.sender.input = PushBytes(@, BytesFrom(@.pushed, n))]
<1>1. x \in PeerState /\ Good(p, x, peer[Other(p)], net)
  BY BothGood
<1>2. /\ Transmits(s) /\ s \in Sender /\ s.input.pushed \in Nat
      /\ SoundStream(s.input) /\ OrderlyBuffer(s.input) /\ ~s.input.error
  BY <1>1, SenderNumbers DEF Good, Flows, Transmits, SendsStream
<1>3. q = WithSender(x, WithInput(s, input))
  BY <1>1, <1>2 DEF WithSender, WithInput, PeerState, Sender
<1>4. /\ Established(p) /\ ~s.input.closed /\ n <= AvailableCapacity(s.input)
      /\ s.input.pushed + n <= StreamLens[p]
      /\ Outcome(p, PeerPush(q), net)
  BY DEF AppWrite, Sender_
<1>5. n \in Nat /\ data \in Seq(Byte) /\ Len(data) = n
  <2>1. n \in Nat
    BY PeerConfigAssumption
  <2> DEFINE first == s.input.pushed
  <2>2. first \in Nat
    BY <1>2
  <2> HIDE DEF first
  <2>3. BytesFrom(first, n) \in Seq(Byte) /\ Len(BytesFrom(first, n)) = n
    BY <2>1, <2>2, BytesFromType
  <2> QED
    BY <2>1, <2>3 DEF first
<1>6. SoundStream(input)
  BY <1>2, <1>5, PushBytesSound
<1>7. OrderlyBuffer(input) /\ BytesPopped(input) = BytesPopped(s.input)
  BY <1>2, <1>5, PushKeepsOrder
<1>8. /\ input.pushed = s.input.pushed + n /\ input.error = s.input.error
      /\ input.closed = s.input.closed
  BY <1>2, <1>4, <1>5, PushFits
<1> HIDE DEF input, q
<1>9. s.input.pushed <= input.pushed /\ input.pushed <= StreamLens[p] /\ ~input.error
  BY <1>2, <1>4, <1>5, <1>8
<1>10. /\ IInv'
       /\ peer'[p].sender.input.pushed = input.pushed
       /\ peer'[p].sender.input.closed = input.closed
       /\ peer'[p].receiver = peer[p].receiver
       /\ peer'[Other(p)] = peer[Other(p)]
  BY <1>3, <1>4, <1>6, <1>7, <1>9, InputKeeps DEF Sender_
<1>11. BytesPopped(Inbound(peer[p].receiver)) \in Nat
  BY PoppedNat
<1> QED
  BY <1>8, <1>10, <1>11 DEF AppsMove

(***************************************************************************)
(* The application closes its stream.                                      *)
(***************************************************************************)
LEMMA AppCloseKeeps ==
    ASSUME IInv, NEW p \in Sides, AppClose(p)
    PROVE  IInv' /\ AppsMove(p, 0, TRUE, 0)
<1> DEFINE x == peer[p]
           s == x.sender
           input == CloseStream(s.input)
           q == [x EXCEPT !.sender.input = CloseStream(@)]
<1>1. x \in PeerState /\ Good(p, x, peer[Other(p)], net)
  BY BothGood
<1>2. /\ Transmits(s) /\ s \in Sender /\ s.input \in Stream /\ s.input.pushed \in Nat
      /\ SoundStream(s.input) /\ OrderlyBuffer(s.input) /\ ~s.input.error
      /\ s.input.pushed <= StreamLens[p]
  BY <1>1, SenderNumbers DEF Good, Flows, Transmits, SendsStream
<1>3. q = WithSender(x, WithInput(s, input))
  BY <1>1, <1>2 DEF WithSender, WithInput, PeerState, Sender
<1>4. Established(p) /\ ~s.input.closed /\ Outcome(p, PeerPush(q), net)
  BY DEF AppClose, Sender_
<1>5. SoundStream(input)
  BY <1>2, FlagsSound
<1>6. OrderlyBuffer(input) /\ BytesPopped(input) = BytesPopped(s.input)
  BY <1>2, FlagsKeepOrder
<1>7. input.pushed = s.input.pushed /\ input.error = s.input.error /\ input.closed
  BY <1>2 DEF CloseStream, Stream
<1> HIDE DEF input, q
<1>8. s.input.pushed <= input.pushed /\ input.pushed <= StreamLens[p] /\ ~input.error
  BY <1>2, <1>7
<1>9. /\ IInv'
      /\ peer'[p].sender.input.pushed = input.pushed
      /\ peer'[p].sender.input.closed = input.closed
      /\ peer'[p].receiver = peer[p].receiver
      /\ peer'[Other(p)] = peer[Other(p)]
  BY <1>3, <1>4, <1>5, <1>6, <1>8, InputKeeps DEF Sender_
<1>10. BytesPopped(Inbound(peer[p].receiver)) \in Nat
  BY PoppedNat
<1> QED
  BY <1>2, <1>7, <1>9, <1>10 DEF AppsMove

(***************************************************************************)
(* The application reads; nothing that the other side relies on changes.   *)
(***************************************************************************)
LEMMA AppReadKeeps ==
    ASSUME IInv, NEW p \in Sides, NEW n \in 1 .. RecvCapacity, AppRead(p, n)
    PROVE  IInv' /\ AppsMove(p, 0, FALSE, n)
<1> DEFINE x == peer[p]
           y == peer[Other(p)]
           r == x.receiver
           u == AfterRead(r, n)
           z == [x EXCEPT !.receiver = u]
           none == << >>
<1>1. x \in PeerState /\ Good(p, x, y, net) /\ Good(Other(p), y, x, net)
  BY BothGood
<1>2. /\ Flows(x.sender, y.receiver) /\ Flows(y.sender, r)
      /\ ~x.linger => Leaves(x, y)
      /\ ~y.linger => Leaves(y, x)
      /\ x.sender.input.pushed <= StreamLens[p]
      /\ Busy(x.sender) /\ (x.sender.input.closed => x.sender.SYN_flag)
  BY <1>1 DEF Good
<1>3. n \in 0 .. Len(Inbound(r).buf)
  <2>1. Len(Inbound(r).buf) \in Nat /\ n \in Nat /\ n <= Len(Inbound(r).buf)
    BY <1>2, FlowTypes, PeerConfigAssumption DEF AppRead, Receiver_
  <2> QED
    BY <2>1
<1>4. /\ Flows(y.sender, u) /\ GotOn(u, r)
      /\ u.reassembler.eof_index = r.reassembler.eof_index
      /\ BytesPopped(Inbound(u)) = BytesPopped(Inbound(r)) + n
  BY <1>2, <1>3, BytesRead
<1>5. peer' = [peer EXCEPT ![p] = z] /\ net' = net
  BY <1>1 DEF AppRead, AfterRead, PeerState
<1> HIDE DEF u
<1>6. /\ z \in PeerState /\ z.receiver = u /\ z.sender = x.sender /\ z.linger = x.linger
  <2>1. u \in [reassembler : ReassemblerState, isn : {None} \cup Wrap32]
    BY <1>4, FlowTypes
  <2> QED
    BY <1>1, <2>1 DEF PeerState
<1>7. Onward(x.sender, x.sender)
  BY <1>2, OnwardItself DEF Flows
<1>8. DOMAIN none = {}
  OBVIOUS
<1> HIDE DEF z, x, y, none
<1>9. Keeps(p, x, y, z, none)
  <2>1. ~z.linger => Inbound(x.receiver).closed /\ (~x.linger \/ ~x.sender.FIN_flag)
    BY <1>2, <1>6 DEF Leaves
  <2>2. ~y.linger /\ z.receiver.reassembler.eof_index # UINT64_MAX =>
           z.sender.total_outstandings = 0
    BY <1>2, <1>4, <1>6 DEF Leaves
  <2> QED
    BY <1>2, <1>4, <1>6, <1>7, <1>8, <2>1, <2>2 DEF Keeps
<1>10. net' \subseteq net \cup {[to |-> Other(p), seg |-> none[i]] : i \in DOMAIN none}
  BY <1>5
<1>11. IInv'
  BY <1>5, <1>9, <1>10, CallKeeps DEF x, y
<1>12. peer'[p] = z /\ peer'[Other(p)] = peer[Other(p)]
  BY <1>5, BothGood DEF IInv
<1>13. x.sender.input.pushed \in Nat
  BY <1>2, SenderNumbers DEF Flows
<1> QED
  BY <1>4, <1>6, <1>11, <1>12, <1>13 DEF AppsMove, x, r

(***************************************************************************)
(* A segment on its way is delivered, for the first time or again.         *)
(***************************************************************************)
LEMMA DeliverKeeps ==
    ASSUME IInv, NEW p \in Sides, NEW m \in net,
           Deliver(p, m) \/ DeliverAndRepeat(p, m)
    PROVE  IInv' /\ AppsMove(p, 0, FALSE, 0)
<1> DEFINE x == peer[p]
           y == peer[Other(p)]
           c == PeerReceive(x, m.seg)
<1>1. /\ x \in PeerState /\ Good(p, x, y, net) /\ Good(Other(p), y, x, net)
      /\ Other(Other(p)) = p
  BY BothGood
<1>2. /\ m.to = p /\ Active(x)
      /\ peer' = [peer EXCEPT ![p] = c.peer]
      /\ net' \subseteq net \cup {[to |-> Other(p), seg |-> c.sent[i]] : i \in DOMAIN c.sent}
  BY DEF Deliver, DeliverAndRepeat, Outcome
<1> HIDE DEF x, y
<1>3. /\ Valid(y, m.seg, ISNs[p])
      /\ ~y.linger /\ m.seg.sender.FIN => Final(y.receiver, m.seg.receiver, ISNs[p])
  BY <1>1, <1>2 DEF Good
<1>4. Keeps(p, x, y, c.peer, c.sent) /\ SameEnds(c.peer, x)
  BY <1>1, <1>2, <1>3, ReceiveKeeps
<1> HIDE DEF c
<1>5. IInv'
  BY <1>2, <1>4, CallKeeps DEF x, y
<1>6. AppsMove(p, 0, FALSE, 0)
  BY <1>2, <1>4, NoAppMoves DEF x
<1> QED
  BY <1>5, <1>6

(***************************************************************************)
(* Time passes; at most a message of the queue is sent again.              *)
(***************************************************************************)
LEMMA PassTimeKeeps ==
    ASSUME IInv, NEW p \in Sides, PassTime(p)
    PROVE  IInv' /\ AppsMove(p, 0, FALSE, 0)
<1> DEFINE x == peer[p]
           y == peer[Other(p)]
           d == Tick(x.sender, TickMs)
           t == d.sender
           idle == Lesser(x.idle + TickMs, LingerTime)
           z == [x EXCEPT !.sender = t, !.idle = idle]
           c == PeerTick(x, TickMs)
           sent == WithReply(z, d.sent)
<1>1. /\ x \in PeerState /\ Good(p, x, y, net) /\ Good(Other(p), y, x, net)
      /\ Flows(x.sender, y.receiver) /\ Flows(y.sender, x.receiver)
      /\ ~x.linger => Leaves(x, y)
      /\ ~y.linger => Leaves(y, x)
      /\ x.sender.input.pushed <= StreamLens[p]
      /\ Busy(x.sender) /\ (x.sender.input.closed => x.sender.SYN_flag)
      /\ y.sender.isn = ISNs[Other(p)]
  BY BothGood DEF Good
<1>2. /\ peer' = [peer EXCEPT ![p] = c.peer]
      /\ net' = net \cup {[to |-> Other(p), seg |-> c.sent[i]] : i \in DOMAIN c.sent}
  BY DEF PassTime, Outcome
<1>3. Transmits(x.sender) /\ Short(x.sender) /\ x.sender.ack_absseq <= Received(y.receiver)
      /\ x.sender.input.pushed \in Nat
  BY <1>1, SenderNumbers DEF Flows
<1>4. /\ Transmits(t) /\ Onward(t, x.sender) /\ SameStream(t, x.sender)
      /\ t.ack_absseq = x.sender.ack_absseq
      /\ t.total_outstandings = x.sender.total_outstandings
      /\ \A i \in DOMAIN d.sent : Sendable(t, d.sent[i])
  BY <1>3, TickTransmits, ConnectionAssumption
<1>5. c = [peer |-> z, sent |-> WithReply(x, d.sent)]
  BY <1>1 DEF PeerTick, PeerState
<1>6. idle \in Nat
  BY <1>1, ConnectionAssumption, PeerConfigAssumption, SenderAssumption
  DEF PeerState, Lesser, LingerTime
<1> HIDE DEF d, idle, c
<1>7. t \in Sender
  BY <1>4, SenderNumbers
<1> HIDE DEF t
<1>8. /\ z \in PeerState /\ z.sender = t /\ z.receiver = x.receiver /\ z.linger = x.linger
  BY <1>1, <1>6, <1>7 DEF PeerState
<1> HIDE DEF z, x, y
<1>9. c.peer = z /\ c.sent = sent
  BY <1>5, <1>8 DEF WithReply
<1>10. Flows(t, y.receiver)
  <2>1. Short(t) /\ x.sender.input.pushed <= t.input.pushed /\ t.ack_absseq <= Received(y.receiver)
    BY <1>3, <1>4 DEF SameStream, Short
  <2> QED
    BY <1>1, <1>4, <2>1, SenderGoesOn
<1>11. Flows(y.sender, z.receiver) /\ GotOn(z.receiver, x.receiver)
  <2>1. Received(x.receiver) \in Nat
    BY <1>1, FlowNumbers
  <2> QED
    BY <1>1, <1>8, <2>1 DEF GotOn
<1>12. Busy(t) /\ (t.input.closed => t.SYN_flag) /\ t.input.pushed <= StreamLens[p]
  BY <1>1, <1>4 DEF Busy, HasMoreToSend, SameStream
<1>13. \A i \in DOMAIN sent :
          /\ Valid(z, sent[i], y.sender.isn)
          /\ Inbound(z.receiver).closed => Final(z.receiver, sent[i].receiver, y.sender.isn)
  <2>1. z.sender.isn \in Wrap32
    BY <1>4, <1>8, SenderNumbers
  <2>2. \A i \in DOMAIN d.sent : Carried(z.sender, d.sent[i])
    BY <1>4, <1>8 DEF Carried
  <2> QED
    BY <1>11, <2>1, <2>2, WithReplyValid
<1> HIDE DEF sent
<1>14. Keeps(p, x, y, z, sent)
  <2>1. ~z.linger => Inbound(x.receiver).closed /\ (~x.linger \/ ~x.sender.FIN_flag)
    BY <1>1, <1>8 DEF Leaves
  <2>2. ~y.linger /\ z.receiver.reassembler.eof_index # UINT64_MAX =>
           z.sender.total_outstandings = 0
    BY <1>1, <1>4, <1>8 DEF Leaves
  <2> QED
    BY <1>1, <1>4, <1>8, <1>10, <1>11, <1>12, <1>13, <2>1, <2>2 DEF Keeps
<1>15. IInv'
  BY <1>2, <1>9, <1>14, CallKeeps DEF x, y
<1>16. SameEnds(z, x)
  BY <1>4, <1>8 DEF SameEnds, SameInput, SameStream
<1>17. AppsMove(p, 0, FALSE, 0)
  BY <1>2, <1>9, <1>16, NoAppMoves DEF x
<1> QED
  BY <1>15, <1>17

(***************************************************************************)
(* Segments may disappear.                                                 *)
(***************************************************************************)
LEMMA LossKeeps ==
    ASSUME IInv, peer' = peer, net' \subseteq net
    PROVE  IInv'
<1>1. ASSUME NEW p \in Sides PROVE Good(p, peer[p], peer[Other(p)], net')
  <2>1. Good(p, peer[p], peer[Other(p)], net)
    BY DEF IInv
  <2> QED
    BY <2>1 DEF Good
<1> QED
  BY <1>1 DEF IInv

(***************************************************************************)
(* Two new peers have sent and received nothing.                           *)
(***************************************************************************)
LEMMA NewPeersFlow ==
    ASSUME NEW p \in Sides
    PROVE  LET s == NewSender(SendCapacity, ISNs[p])
               r == NewReceiver(RecvCapacity)
           IN  /\ Flows(s, r) /\ s.isn = ISNs[p] /\ s.input.pushed <= StreamLens[p]
               /\ Busy(s) /\ ~s.input.closed
<1> DEFINE isn == ISNs[p]
           s == NewSender(SendCapacity, isn)
           r == NewReceiver(RecvCapacity)
<1>1. isn \in Wrap32 /\ SendCapacity \in Nat /\ StreamLens[p] \in Nat
  BY ConnectionAssumption, PeerConfigAssumption
<1> HIDE DEF isn
<1>2. SoundSender(s) /\ SendsStream(s)
  BY <1>1, NewSenderSound, NewSenderSendsStream
<1>3. /\ s.input.pushed = 0 /\ ~s.input.error /\ ~s.input.closed /\ s.isn = isn
      /\ s.ack_absseq = 0 /\ s.qmesg = << >> /\ ~s.SYN_flag
  BY DEF NewSender, NewStream
<1> HIDE DEF s
<1>4. Transmits(s)
  BY <1>2, <1>3 DEF Transmits
<1>5. s.input.pushed <= StreamLens[p]
  BY <1>1, <1>3
<1>6. Short(s)
  BY <1>4, <1>5, WithinLen
<1>7. Bounds(0, isn, RecvCapacity)
  BY <1>3, <1>4, <1>6, ShortBounds
<1>8. /\ SoundReceiver(r, 0, isn, RecvCapacity)
      /\ r.isn = None /\ Held(r.reassembler) = {}
      /\ r.reassembler.eof_index = UINT64_MAX /\ ~Inbound(r).error
  BY <1>7, NewReceiverSound
<1> HIDE DEF r
<1>9. Flows(s, r)
  BY <1>3, <1>4, <1>6, <1>8 DEF Flows, Received
<1>10. Busy(s)
  BY <1>3 DEF Busy, HasMoreToSend
<1> QED
  BY <1>3, <1>5, <1>9, <1>10 DEF s, r, isn

(***************************************************************************)
(* The invariant holds at the start.                                       *)
(***************************************************************************)
LEMMA InitGood == Init => IInv
<1> SUFFICES ASSUME Init PROVE IInv
  OBVIOUS
<1> DEFINE new(p) == NewPeer(ISNs[p])
<1>1. /\ peer = [p \in Sides |-> new(p)] /\ net = {}
  BY DEF Init
<1>2. ASSUME NEW p \in Sides
      PROVE  /\ new(p).sender = NewSender(SendCapacity, ISNs[p])
             /\ new(p).receiver = NewReceiver(RecvCapacity) /\ new(p).linger = TRUE
             /\ new(p) = [sender |-> new(p).sender, receiver |-> new(p).receiver,
                          linger |-> TRUE, idle |-> 0]
  BY DEF NewPeer
<1> HIDE DEF new
<1>3. ASSUME NEW p \in Sides, NEW q \in Sides
      PROVE  /\ Flows(new(p).sender, new(q).receiver) /\ new(p).sender.isn = ISNs[p]
             /\ new(p).sender.input.pushed <= StreamLens[p]
             /\ Busy(new(p).sender) /\ ~new(p).sender.input.closed
  BY <1>2, NewPeersFlow
<1>4. ASSUME NEW p \in Sides PROVE new(p) \in PeerState
  <2>1. /\ new(p).sender \in Sender
        /\ new(p).receiver \in [reassembler : ReassemblerState, isn : {None} \cup Wrap32]
    <3>1. Flows(new(p).sender, new(p).receiver)
      BY <1>3
    <3> QED
      BY <3>1, FlowTypes
  <2> DEFINE s == new(p).sender
             r == new(p).receiver
  <2>2. new(p) = [sender |-> s, receiver |-> r, linger |-> TRUE, idle |-> 0]
    BY <1>2
  <2> HIDE DEF s, r
  <2>3. [sender |-> s, receiver |-> r, linger |-> TRUE, idle |-> 0] \in PeerState
    BY <2>1 DEF PeerState, s, r
  <2> QED
    BY <2>2, <2>3
<1>5. ASSUME NEW p \in Sides PROVE Good(p, peer[p], peer[Other(p)], net)
  <2>1. Other(p) \in Sides /\ peer[p] = new(p) /\ peer[Other(p)] = new(Other(p))
    BY <1>1, SidesPaired
  <2> QED
    BY <1>1, <1>2, <1>3, <2>1 DEF Good
<1> QED
  BY <1>1, <1>4, <1>5 DEF IInv

(***************************************************************************)
(* The invariant holds in every state of a connection: in both directions  *)
(* the receiver holds only what the sender sent, the sender takes only     *)
(* received numbers for acknowledged, and every segment on its way, late   *)
(* and repeated ones included, carries a piece of the stream and an        *)
(* acknowledgment that was true when it was sent.                          *)
(***************************************************************************)
THEOREM Invariance == Spec => []IInv
<1>1. Init => IInv
  BY InitGood
<1>2. IInv /\ [Next]_vars => IInv'
  <2> SUFFICES ASSUME IInv, [Next]_vars PROVE IInv'
    OBVIOUS
  <2>1. CASE Connect
    BY <2>1, ConnectKeeps
  <2>2. CASE \E p \in Sides, n \in 1 .. SendCapacity : AppWrite(p, n)
    BY <2>2, AppWriteKeeps
  <2>3. CASE \E p \in Sides : AppClose(p)
    BY <2>3, AppCloseKeeps
  <2>4. CASE \E p \in Sides, n \in 1 .. RecvCapacity : AppRead(p, n)
    BY <2>4, AppReadKeeps
  <2>5. CASE \E p \in Sides, m \in net : Deliver(p, m)
    BY <2>5, DeliverKeeps
  <2>6. CASE \E p \in Sides, m \in net : DeliverAndRepeat(p, m)
    BY <2>6, DeliverKeeps
  <2>7. CASE \E m \in net : Lose(m)
    <3>1. peer' = peer /\ net' \subseteq net
      BY <2>7 DEF Lose
    <3> QED
      BY <3>1, LossKeeps
  <2>8. CASE \E p \in Sides : PassTime(p)
    BY <2>8, PassTimeKeeps
  <2>9. CASE UNCHANGED vars
    <3>1. peer' = peer /\ net' \subseteq net
      BY <2>9 DEF vars
    <3> QED
      BY <3>1, LossKeeps
  <2> QED
    BY <2>1, <2>2, <2>3, <2>4, <2>5, <2>6, <2>7, <2>8, <2>9 DEF Next
<1> QED
  BY <1>1, <1>2, PTL DEF Spec

(***************************************************************************)
(* What each side receives is a prefix of what the other side wrote, and   *)
(* its end comes only after all of it.                                     *)
(***************************************************************************)
THEOREM StreamsAlwaysIntact == Spec => []StreamsIntact
<1>1. IInv => StreamsIntact
  <2> SUFFICES ASSUME IInv, NEW p \in Sides
               PROVE  LET from == Sender_(Other(p)).input
                          to   == Inbound(Receiver_(p))
                      IN  /\ to.pushed <= from.pushed
                          /\ to.buf = BytesFrom(BytesPopped(to), Len(to.buf))
                          /\ to.closed => from.closed /\ to.pushed = from.pushed
    BY DEF StreamsIntact
  <2> DEFINE s == peer[Other(p)].sender
             r == peer[p].receiver
             N == s.input.pushed
             isn == s.isn
  <2>1. Flows(s, r)
    BY BothGood DEF Good
  <2> HIDE DEF s, r
  <2>2. /\ Bounds(N, isn, RecvCapacity) /\ SoundReceiver(r, N, isn, RecvCapacity)
        /\ s.FIN_flag => s.input.closed
    BY <2>1, ShortBounds, SenderNumbers DEF Flows
  <2>3. Inbound(r).closed => s.FIN_flag /\ Inbound(r).pushed = N
    BY <2>1, FlowNumbers
  <2>4. N \in Nat /\ Inbound(r).buf = BytesFrom(BytesPopped(Inbound(r)), Len(Inbound(r).buf))
    BY <2>1, <2>2, FlowTypes DEF OrderlyBuffer, Bounds
  <2> HIDE DEF N, isn
  <2>5. Inbound(r).pushed \in 0 .. N
    BY <2>2, SoundParts
  <2>6. Inbound(r).pushed <= N
    BY <2>4, <2>5
  <2> QED
    BY <2>2, <2>3, <2>4, <2>6 DEF N, s, r, Sender_, Receiver_
<1> QED
  BY <1>1, Invariance, PTL

(***************************************************************************)
(* A sender never forgets what the other side does not have.               *)
(***************************************************************************)
THEOREM AckedIsAlwaysReceived == Spec => []AckedIsReceived
<1>1. IInv => AckedIsReceived
  <2> SUFFICES ASSUME IInv, NEW p \in Sides
               PROVE  Sender_(p).ack_absseq <= Received(Receiver_(Other(p)))
    BY DEF AckedIsReceived, Received
  <2> QED
    BY BothGood DEF Good, Flows, Sender_, Receiver_
<1> QED
  BY <1>1, Invariance, PTL

(***************************************************************************)
(* A sender that has something to send or in flight has something in       *)
(* flight, and its timer runs: neither side waits for the other.           *)
(***************************************************************************)
THEOREM NeverGetsStuck == Spec => []NeverStuck
<1>1. IInv => NeverStuck
  <2> SUFFICES ASSUME IInv, NEW p \in Sides
               PROVE  HasMoreToSend(Sender_(p)) \/ Sender_(p).total_outstandings > 0 =>
                          Sender_(p).total_outstandings > 0 /\ Sender_(p).timer.is_active
    BY DEF NeverStuck
  <2> DEFINE s == Sender_(p)
  <2>1. Transmits(s) /\ Busy(s)
    BY BothGood DEF Good, Flows, Sender_
  <2> HIDE DEF s
  <2>2. s.total_outstandings > 0 => s.timer.is_active
    <3> SUFFICES ASSUME s.total_outstandings > 0 PROVE s.timer.is_active
      OBVIOUS
    <3>1. QueueCovers(s) /\ s \in Sender /\ s.qmesg \in Seq(SenderMessage) /\ s.ack_absseq \in Nat
      BY <2>1, SenderNumbers DEF Transmits, SoundSender
    <3>2. QueueEnds(s)[0] = s.ack_absseq
      BY <3>1, EndsUnfold DEF QueueEnds
    <3>3. QueueEnds(s)[Len(s.qmesg)] = s.next_absseq /\ s.ack_absseq + s.total_outstandings = s.next_absseq
      BY <3>1 DEF QueueCovers
    <3>4. s.next_absseq # s.ack_absseq
      BY <2>1, <3>3, SenderNumbers
    <3>5. s.qmesg # << >>
      <4> SUFFICES ASSUME s.qmesg = << >> PROVE FALSE
        OBVIOUS
      <4>1. Len(s.qmesg) = 0
        OBVIOUS
      <4> QED
        BY <3>2, <3>3, <3>4, <4>1
    <3> QED
      BY <3>1, <3>5 DEF QueueCovers
  <2> QED
    BY <2>1, <2>2 DEF Busy, s
<1> QED
  BY <1>1, Invariance, PTL

(***************************************************************************)
(* Where a side that is no longer active has brought the connection: all   *)
(* its numbers are acknowledged, so all of them, the FIN included, have    *)
(* been received.                                                          *)
(***************************************************************************)
LEMMA InactiveMeansDone ==
    ASSUME IInv, NEW p \in Sides, ~Active(peer[p])
    PROVE  /\ ~HasError(peer[p]) /\ ~HasError(peer[Other(p)])
           /\ Inbound(Receiver_(p)).closed
           /\ Inbound(Receiver_(Other(p))).closed
<1> DEFINE x == peer[p]
           y == peer[Other(p)]
           s == x.sender
<1>1. /\ Flows(s, y.receiver) /\ Flows(y.sender, x.receiver)
      /\ Busy(s) /\ (s.input.closed => s.SYN_flag)
  BY BothGood DEF Good
<1>2. ~HasError(x) /\ ~HasError(y)
  BY <1>1 DEF HasError, Flows, Transmits
<1>3. ~(s.total_outstandings > 0) /\ IsFinished(s.input) /\ Inbound(x.receiver).closed
  BY <1>2 DEF Active
<1> HIDE DEF s, x, y
<1>4. s.FIN_flag
  BY <1>1, <1>3 DEF Busy, HasMoreToSend, IsFinished
<1>5. s.ack_absseq = s.next_absseq /\ s.next_absseq \in Nat
  BY <1>1, <1>3, SenderNumbers DEF Flows
<1>6. s.ack_absseq <= Received(y.receiver)
  BY <1>1 DEF Flows
<1>7. Received(y.receiver) = s.next_absseq
  BY <1>1, <1>5, <1>6, FlowNumbers
<1>8. Inbound(y.receiver).closed
  BY <1>1, <1>4, <1>7, FlowNumbers
<1> QED
  BY <1>2, <1>3, <1>8 DEF x, y, Receiver_

(***************************************************************************)
(* A side goes inactive only after both streams have been received to      *)
(* their ends, and never because of an error.                              *)
(***************************************************************************)
THEOREM AlwaysCleanFinish == Spec => []CleanFinish
<1>1. IInv => CleanFinish
  BY InactiveMeansDone DEF CleanFinish
<1> QED
  BY <1>1, Invariance, PTL

(***************************************************************************)
(* A side that leaves without lingering leaves nobody behind that still    *)
(* has something to retransmit.                                            *)
(***************************************************************************)
THEOREM NeverAnOrphan == Spec => []NoOrphan
<1>1. IInv => NoOrphan
  <2> SUFFICES ASSUME IInv, NEW p \in Sides, ~Active(peer[p]), ~peer[p].linger
               PROVE  Sender_(Other(p)).FIN_flag /\ Sender_(Other(p)).total_outstandings = 0
    BY DEF NoOrphan
  <2> DEFINE x == peer[p]
             y == peer[Other(p)]
  <2>1. Inbound(x.receiver).closed /\ Inbound(y.receiver).closed
    BY InactiveMeansDone DEF Receiver_
  <2>2. Flows(x.sender, y.receiver) /\ Flows(y.sender, x.receiver) /\ Leaves(x, y)
    BY BothGood DEF Good
  <2> HIDE DEF x, y
  <2>3. y.receiver.reassembler.eof_index # UINT64_MAX
    BY <2>1, <2>2, FlowNumbers
  <2>4. y.sender.FIN_flag
    BY <2>1, <2>2, FlowNumbers
  <2> QED
    BY <2>2, <2>3, <2>4 DEF Leaves, y, Sender_
<1> QED
  BY <1>1, Invariance, PTL
-----------------------------------------------------------------------------
(***************************************************************************)
(* The connection implements a first-in first-out queue in each direction. *)
(* In a direction with the sender s and the receiver r, the bytes that     *)
(* wait to be read are those at r, those between the two and those at s;   *)
(* the three runs join, so that a queue is known by what the writer has    *)
(* written (n bytes, and perhaps the end) and by what the reader has read. *)
(***************************************************************************)
UnreadOf(len, s, r) ==
    LET from    == s.input
        to      == Inbound(r)
        between == BytesFrom(to.pushed, BytesPopped(from) - to.pushed)
    IN  [capacity |-> len, error |-> from.error \/ to.error,
         closed |-> from.closed, pushed |-> from.pushed,
         buf |-> (to.buf \o between) \o from.buf]

Queued(len, closed, n, read) ==
    [capacity |-> len, error |-> FALSE, closed |-> closed, pushed |-> n,
     buf |-> BytesFrom(read, n - read)]

QueuedOf(len, s, r) ==
    Queued(len, s.input.closed, s.input.pushed, BytesPopped(Inbound(r)))

(***************************************************************************)
(* The three runs of bytes that wait to be read join.                      *)
(***************************************************************************)
LEMMA RunsJoin ==
    ASSUME NEW s, NEW r, Flows(s, r), NEW len
    PROVE  /\ UnreadOf(len, s, r) = QueuedOf(len, s, r)
           /\ s.input.closed \in BOOLEAN /\ s.input.pushed \in Nat
           /\ BytesPopped(Inbound(r)) \in Nat
           /\ BytesPopped(Inbound(r)) + Len(Inbound(r).buf) <= s.input.pushed
           /\ Len(Inbound(r).buf) \in Nat
<1> DEFINE n == s.input.pushed
           sent == BytesPopped(s.input)
           waiting == Len(s.input.buf)
           got == Inbound(r).pushed
           read == BytesPopped(Inbound(r))
           unread == Len(Inbound(r).buf)
<1>1. /\ Transmits(s) /\ ~Inbound(r).error
      /\ n \in Nat /\ sent \in Nat /\ sent <= n /\ s.input \in Stream
  BY SenderNumbers DEF Flows
<1>2. /\ s.input.closed \in BOOLEAN /\ ~s.input.error
      /\ OrderlyBuffer(s.input) /\ waiting \in Nat
  BY <1>1, LenIsNat DEF Transmits, SendsStream, Stream
<1>3. /\ got \in Nat /\ got <= sent
  BY FlowNumbers
<1>4. unread \in Nat /\ OrderlyBuffer(Inbound(r))
  BY FlowTypes
<1>5. sent + waiting = n /\ s.input.buf = BytesFrom(sent, waiting)
  BY <1>1, <1>2 DEF OrderlyBuffer, BytesPopped
<1>6. read \in Nat /\ read + unread = got /\ Inbound(r).buf = BytesFrom(read, unread)
  BY <1>3, <1>4 DEF OrderlyBuffer, BytesPopped
<1> HIDE DEF n, sent, waiting, got, read, unread
<1> DEFINE between == BytesFrom(got, sent - got)
           buf == (Inbound(r).buf \o between) \o s.input.buf
<1>7. Inbound(r).buf \o between = BytesFrom(read, sent - read)
  <2> DEFINE gap == sent - got
  <2>1. gap \in Nat /\ unread + gap = sent - read
    BY <1>1, <1>3, <1>4, <1>6
  <2> HIDE DEF gap
  <2>2. BytesFrom(read, unread) \o BytesFrom(read + unread, gap) = BytesFrom(read, unread + gap)
    BY <1>4, <1>6, <2>1, BytesFromJoined
  <2>3. between = BytesFrom(got, gap)
    BY DEF gap
  <2> QED
    BY <1>6, <2>1, <2>2, <2>3
<1>8. buf = BytesFrom(read, n - read)
  <2> DEFINE front == sent - read
  <2>1. front \in Nat /\ read + front = sent /\ front + waiting = n - read
    BY <1>1, <1>2, <1>3, <1>4, <1>5, <1>6
  <2> HIDE DEF front
  <2>2. BytesFrom(read, front) \o BytesFrom(read + front, waiting)
            = BytesFrom(read, front + waiting)
    BY <1>2, <1>6, <2>1, BytesFromJoined
  <2>3. buf = BytesFrom(read, front) \o BytesFrom(sent, waiting)
    BY <1>5, <1>7 DEF front
  <2> QED
    BY <2>1, <2>2, <2>3
<1>9. UnreadOf(len, s, r) = QueuedOf(len, s, r)
  <2>1. UnreadOf(len, s, r) =
          [capacity |-> len, error |-> FALSE, closed |-> s.input.closed, pushed |-> n,
           buf |-> buf]
    BY <1>1, <1>2 DEF UnreadOf, n, sent, got
  <2> HIDE DEF buf
  <2> QED
    BY <1>8, <2>1 DEF QueuedOf, Queued, n, read
<1>10. read + unread <= n
  BY <1>1, <1>3, <1>6
<1> QED
  BY <1>1, <1>2, <1>4, <1>6, <1>9, <1>10 DEF n, read, unread

(***************************************************************************)
(* A stream with its buffer and its count set.                             *)
(***************************************************************************)
LEMMA TwoFieldsSet ==
    ASSUME NEW len \in Nat, NEW error \in BOOLEAN, NEW closed \in BOOLEAN, NEW n \in Nat,
           NEW buf \in Seq(Byte), NEW q,
           q = [capacity |-> len, error |-> error, closed |-> closed, pushed |-> n,
                buf |-> buf],
           NEW p \in Nat, NEW b \in Seq(Byte), NEW t,
           t = [q EXCEPT !.buf = b, !.pushed = p]
    PROVE  t = [capacity |-> len, error |-> error, closed |-> closed, pushed |-> p, buf |-> b]
OBVIOUS

(***************************************************************************)
(* The calls on a queue of consecutive bytes.                              *)
(***************************************************************************)
LEMMA QueuedCalls ==
    ASSUME NEW len \in Nat, NEW closed \in BOOLEAN, NEW n \in Nat, NEW read \in 0 .. n,
           n <= len
    PROVE  LET q == Queued(len, closed, n, read)
           IN  /\ q.pushed = n /\ Len(q.buf) = n - read
               /\ CloseStream(q) = Queued(len, TRUE, n, read)
               /\ \A k \in 0 .. n - read : PopBytes(q, k) = Queued(len, closed, n, read + k)
               /\ \A k \in Nat : n + k <= len /\ ~closed =>
                      PushBytes(q, BytesFrom(n, k)) = Queued(len, closed, n + k, read)
<1> DEFINE q == Queued(len, closed, n, read)
           m == n - read
<1>1. m \in Nat /\ read + m = n /\ read \in Nat
  OBVIOUS
<1>2. /\ q.capacity = len /\ q.error = FALSE /\ q.closed = closed /\ q.pushed = n
      /\ q.buf = BytesFrom(read, m)
      /\ q = [capacity |-> len, error |-> FALSE, closed |-> closed, pushed |-> n,
              buf |-> BytesFrom(read, m)]
  BY DEF Queued
<1> HIDE DEF q
<1>3. Len(q.buf) = m /\ q.buf \in Seq(Byte)
  <2> HIDE DEF m
  <2> QED
    BY <1>1, <1>2, BytesFromType
<1> DEFINE Rec(c, p, b) ==
           [capacity |-> len, error |-> FALSE, closed |-> c, pushed |-> p, buf |-> b]
<1>3a. /\ [q EXCEPT !.closed = TRUE] = Rec(TRUE, n, q.buf)
       /\ \A b : [q EXCEPT !.buf = b] = Rec(closed, n, b)
       /\ \A b \in Seq(Byte), p \in Nat : [q EXCEPT !.buf = b, !.pushed = p] = Rec(closed, p, b)
  <2> DEFINE no  == FALSE
             yes == TRUE
             Made(c, p, b) ==
                 [capacity |-> len, error |-> no, closed |-> c, pushed |-> p, buf |-> b]
  <2>1. q = Made(closed, n, q.buf) /\ no \in BOOLEAN
    BY <1>2
  <2> HIDE DEF no, yes
  <2>2. [q EXCEPT !.closed = yes] = Made(yes, n, q.buf)
    BY <2>1
  <2>3. ASSUME NEW b PROVE [q EXCEPT !.buf = b] = Made(closed, n, b)
    BY <2>1
  <2>4. ASSUME NEW b \in Seq(Byte), NEW p \in Nat
        PROVE  [q EXCEPT !.buf = b, !.pushed = p] = Made(closed, p, b)
    <3> DEFINE b0 == q.buf
               t  == [q EXCEPT !.buf = b, !.pushed = p]
    <3>1. q = Made(closed, n, b0) /\ b0 \in Seq(Byte)
      BY <1>3, <2>1
    <3>2. t = [q EXCEPT !.buf = b, !.pushed = p]
      OBVIOUS
    <3> HIDE DEF b0, t
    <3>3. t = Made(closed, p, b)
      BY <2>1, <3>1, <3>2, TwoFieldsSet
    <3> QED
      BY <3>2, <3>3
  <2>5. ASSUME NEW c, NEW p, NEW b PROVE Made(c, p, b) = Rec(c, p, b)
    BY DEF no
  <2> HIDE DEF Made, Rec
  <2> QED
    BY <2>2, <2>3, <2>4, <2>5, Zenon DEF yes
<1>4. CloseStream(q) = Queued(len, TRUE, n, read)
  BY <1>2, <1>3a DEF CloseStream, Queued
<1>5. ASSUME NEW k \in 0 .. n - read
      PROVE  PopBytes(q, k) = Queued(len, closed, n, read + k)
  <2>1. SubSeq(q.buf, k + 1, Len(q.buf)) = BytesFrom(read + k, m - k)
    <3>1. k \in 0 .. m
      BY <1>1
    <3> HIDE DEF m
    <3>2. SubSeq(BytesFrom(read, m), k + 1, m) = BytesFrom(read + k, m - k)
      BY <1>1, <3>1, BytesFromParts
    <3> QED
      BY <1>2, <1>3, <3>2
  <2>2. m - k = n - (read + k)
    BY <1>1
  <2> DEFINE rest == SubSeq(q.buf, k + 1, Len(q.buf))
  <2>3. PopBytes(q, k) = [q EXCEPT !.buf = rest]
    BY DEF PopBytes
  <2>4. rest = BytesFrom(read + k, n - (read + k))
    BY <2>1, <2>2
  <2> HIDE DEF rest
  <2>5. [q EXCEPT !.buf = rest] = Rec(closed, n, rest)
    BY <1>3a
  <2> QED
    BY <2>3, <2>4, <2>5 DEF Queued
<1>6. ASSUME NEW k \in Nat, n + k <= len, ~closed
      PROVE  PushBytes(q, BytesFrom(n, k)) = Queued(len, closed, n + k, read)
  <2> DEFINE data == BytesFrom(n, k)
             room == AvailableCapacity(q)
             total == m + k
             all == q.buf \o data
  <2>1. data \in Seq(Byte) /\ Len(data) = k
    BY BytesFromType
  <2>2. k <= room /\ room \in Nat
    BY <1>1, <1>2, <1>3, <1>6 DEF AvailableCapacity
  <2> HIDE DEF room
  <2>3. Lesser(Len(data), room) = k
    BY <2>1, <2>2 DEF Lesser
  <2>4. SubSeq(data, 1, k) = data
    <3> HIDE DEF data
    <3>1. k \in 0 .. k
      OBVIOUS
    <3>2. SubSeq(BytesFrom(n, k), 1, k) = BytesFrom(n, k)
      BY <3>1, BytesFromParts
    <3> QED
      BY <3>2 DEF data
  <2>5. all = BytesFrom(read, total)
    <3>1. BytesFrom(read, m) \o BytesFrom(read + m, k) = BytesFrom(read, total)
      <4> HIDE DEF m
      <4> QED
        BY <1>1, BytesFromJoined
    <3> HIDE DEF m
    <3> QED
      BY <1>1, <1>2, <3>1
  <2>6. total = (n + k) - read
    BY <1>1
  <2> HIDE DEF data, total
  <2>7. PushBytes(q, data) = [q EXCEPT !.buf = @ \o SubSeq(data, 1, k), !.pushed = @ + k]
    BY <1>2, <1>6, <2>3 DEF PushBytes, room
  <2>8. [q EXCEPT !.buf = @ \o SubSeq(data, 1, k), !.pushed = @ + k] =
          [q EXCEPT !.buf = all, !.pushed = n + k]
    BY <1>2, <2>4
  <2> HIDE DEF all
  <2>9. [q EXCEPT !.buf = all, !.pushed = n + k] = Rec(closed, n + k, all)
    <3>1. all \in Seq(Byte) /\ n + k \in Nat
      BY <1>3, <2>1 DEF all
    <3> HIDE DEF Rec
    <3> QED
      BY <1>3a, <3>1
  <2>10. all = BytesFrom(read, (n + k) - read)
    BY <2>5, <2>6
  <2>11. PushBytes(q, data) = Rec(closed, n + k, all)
    BY <2>7, <2>8, <2>9, Zenon
  <2> QED
    BY <2>10, <2>11 DEF Queued, data
<1> QED
  BY <1>2, <1>3, <1>4, <1>5, <1>6 DEF q, m

(***************************************************************************)
(* Every step is a move of one application, or of none.                    *)
(***************************************************************************)
LEMMA EveryMove ==
    ASSUME IInv, [Next]_vars
    PROVE  \E p \in Sides :
               \/ \E k \in Nat : /\ AppsMove(p, k, FALSE, 0) /\ ~peer[p].sender.input.closed
                                 /\ peer[p].sender.input.pushed + k <= StreamLens[p]
               \/ AppsMove(p, 0, TRUE, 0)
               \/ \E n \in Nat : /\ AppsMove(p, 0, FALSE, n)
                                 /\ n <= Len(Inbound(peer[p].receiver).buf)
<1> DEFINE Quiet_(p) == AppsMove(p, 0, FALSE, 0)
           Wrote(p) == \E k \in Nat :
                           /\ AppsMove(p, k, FALSE, 0) /\ ~peer[p].sender.input.closed
                           /\ peer[p].sender.input.pushed + k <= StreamLens[p]
           Read(p) == \E n \in Nat : AppsMove(p, 0, FALSE, n) /\ n <= Len(Inbound(peer[p].receiver).buf)
<1>1. Opener \in Sides
  BY DEF Sides
<1>2. ASSUME NEW p \in Sides, Quiet_(p) PROVE Read(p)
  <2>1. Flows(peer[Other(p)].sender, peer[p].receiver)
    BY BothGood DEF Good
  <2>2. 0 <= Len(Inbound(peer[p].receiver).buf)
    BY <2>1, FlowTypes
  <2> QED
    BY <1>2, <2>2
<1>3. CASE Connect
  BY <1>1, <1>2, <1>3, ConnectKeeps
<1>4. CASE \E p \in Sides, n \in 1 .. SendCapacity : AppWrite(p, n)
  <2>1. PICK p \in Sides, n \in 1 .. SendCapacity : AppWrite(p, n)
    BY <1>4
  <2>2. AppsMove(p, n, FALSE, 0)
    BY <2>1, AppWriteKeeps
  <2>3. ~peer[p].sender.input.closed /\ peer[p].sender.input.pushed + n <= StreamLens[p]
    BY <2>1 DEF AppWrite, Sender_
  <2>4. n \in Nat
    BY PeerConfigAssumption
  <2> QED
    BY <2>2, <2>3, <2>4
<1>5. CASE \E p \in Sides : AppClose(p)
  BY <1>5, AppCloseKeeps
<1>6. CASE \E p \in Sides, n \in 1 .. RecvCapacity : AppRead(p, n)
  <2>1. PICK p \in Sides, n \in 1 .. RecvCapacity : AppRead(p, n)
    BY <1>6
  <2>2. AppsMove(p, 0, FALSE, n)
    BY <2>1, AppReadKeeps
  <2>3. n \in Nat /\ n <= Len(Inbound(peer[p].receiver).buf)
    BY <2>1, PeerConfigAssumption DEF AppRead, Receiver_
  <2> QED
    BY <2>2, <2>3
<1>7. CASE \E p \in Sides, m \in net : Deliver(p, m) \/ DeliverAndRepeat(p, m)
  BY <1>2, <1>7, DeliverKeeps
<1>8. CASE peer' = peer
  <2>1. peer' = [peer EXCEPT ![Opener] = peer[Opener]]
    BY <1>1, <1>8 DEF IInv
  <2>2. SameEnds(peer[Opener], peer[Opener])
    BY DEF SameEnds, SameInput
  <2> QED
    BY <1>1, <1>2, <2>1, <2>2, NoAppMoves
<1>9. CASE \E p \in Sides : PassTime(p)
  BY <1>2, <1>9, PassTimeKeeps
<1> QED
  <2>1. (\E m \in net : Lose(m)) \/ UNCHANGED vars => peer' = peer
    BY DEF Lose, vars
  <2> QED
    BY <1>3, <1>4, <1>5, <1>6, <1>7, <1>8, <1>9, <2>1 DEF Next

(***************************************************************************)
(* A step is a step of the queue in each direction, or leaves it alone.    *)
(***************************************************************************)
LEMMA QueueMoves ==
    ASSUME IInv, IInv', [Next]_vars, NEW d \in Sides
    PROVE  LET q == Unread(d)
           IN  \/ \E k \in 0 .. StreamLens[d] :
                      /\ q.pushed + k <= StreamLens[d]
                      /\ Unread(d)' = PushBytes(q, BytesFrom(q.pushed, k))
               \/ Unread(d)' = CloseStream(q)
               \/ \E n \in 0 .. StreamLens[d] :
                      n <= Len(q.buf) /\ Unread(d)' = PopBytes(q, n)
               \/ Unread(d)' = q
<1> DEFINE len    == StreamLens[d]
           s      == peer[d].sender
           r      == peer[Other(d)].receiver
           t      == peer'[d].sender
           u      == peer'[Other(d)].receiver
           pushed == s.input.pushed
           closed == s.input.closed
           read   == BytesPopped(Inbound(r))
           q      == Queued(len, closed, pushed, read)
           z      == Queued(len, t.input.closed, t.input.pushed, BytesPopped(Inbound(u)))
<1>1. /\ Other(d) \in Sides /\ Other(d) # d /\ Sides = {d, Other(d)} /\ len \in Nat
      /\ Other(Other(d)) = d
  BY SidesPaired, ConnectionAssumption
<1>2. Flows(s, r) /\ pushed <= len
  BY BothGood DEF Good
<1>3. Flows(t, u) /\ t.input.pushed <= len
  <2>1. Good(d, peer'[d], peer'[Other(d)], net')
    BY DEF IInv
  <2> QED
    BY <2>1 DEF Good
<1>4. Unread(d) = UnreadOf(len, s, r) /\ Unread(d)' = UnreadOf(len, t, u)
  BY DEF Unread, UnreadOf, Sender_, Receiver_
<1> HIDE DEF s, r, t, u
<1>5. /\ UnreadOf(len, s, r) = q
      /\ closed \in BOOLEAN /\ pushed \in Nat /\ read \in Nat
      /\ read + Len(Inbound(r).buf) <= pushed /\ Len(Inbound(r).buf) \in Nat
  BY <1>2, RunsJoin DEF QueuedOf
<1>6. /\ UnreadOf(len, t, u) = z /\ t.input.closed \in BOOLEAN
  BY <1>3, RunsJoin DEF QueuedOf
<1>7. Unread(d) = q /\ Unread(d)' = z
  BY <1>4, <1>5, <1>6
<1> DEFINE unread == Len(Inbound(r).buf)
<1>8. read \in 0 .. pushed /\ pushed <= len
  BY <1>2, <1>5 DEF len
<1> HIDE DEF pushed, closed, read, q, z, unread, len
<1>9. /\ q.pushed = pushed /\ Len(q.buf) = pushed - read
      /\ CloseStream(q) = Queued(len, TRUE, pushed, read)
      /\ \A k \in 0 .. pushed - read : PopBytes(q, k) = Queued(len, closed, pushed, read + k)
      /\ \A k \in Nat : pushed + k <= len /\ ~closed =>
             PushBytes(q, BytesFrom(pushed, k)) = Queued(len, closed, pushed + k, read)
  <2>1. pushed \in Nat /\ closed \in BOOLEAN
    BY <1>5 DEF pushed, closed
  <2> QED
    BY <1>1, <1>8, <2>1, QueuedCalls DEF q
<1> DEFINE Goal ==
       \/ \E k \in 0 .. len : q.pushed + k <= len /\ z = PushBytes(q, BytesFrom(q.pushed, k))
       \/ z = CloseStream(q)
       \/ \E n \in 0 .. len : n <= Len(q.buf) /\ z = PopBytes(q, n)
       \/ z = q
<1> SUFFICES Goal
  BY <1>7 DEF len
<1>10. ASSUME NEW k \in Nat, pushed + k <= len, ~closed, ~t.input.closed,
              t.input.pushed = pushed + k, BytesPopped(Inbound(u)) = read
       PROVE  Goal
  <2>1. k \in 0 .. len
    BY <1>1, <1>5, <1>10 DEF pushed
  <2>2. z = Queued(len, closed, pushed + k, read)
    BY <1>5, <1>6, <1>10 DEF z, closed
  <2>3. z = PushBytes(q, BytesFrom(pushed, k))
    BY <1>9, <1>10, <2>2
  <2> QED
    BY <1>9, <1>10, <2>1, <2>3
<1>11. ASSUME t.input.closed, t.input.pushed = pushed, BytesPopped(Inbound(u)) = read
       PROVE  Goal
  BY <1>6, <1>9, <1>11 DEF z
<1>12. ASSUME NEW n \in Nat, n <= unread, t.input.closed <=> closed,
              t.input.pushed = pushed, BytesPopped(Inbound(u)) = read + n
       PROVE  Goal
  <2>1. n \in 0 .. pushed - read
    BY <1>5, <1>12 DEF unread, read, pushed
  <2>2. n \in 0 .. len /\ n <= Len(q.buf)
    BY <1>1, <1>2, <1>5, <1>9, <2>1 DEF pushed, read
  <2>3. t.input.closed = closed
    BY <1>5, <1>6, <1>12 DEF closed
  <2>4. z = PopBytes(q, n)
    BY <1>9, <1>12, <2>1, <2>3 DEF z
  <2> QED
    BY <2>2, <2>4
<1> HIDE DEF Goal
<1>13. ASSUME NEW p \in Sides, NEW k \in Nat, AppsMove(p, k, FALSE, 0),
              ~peer[p].sender.input.closed, peer[p].sender.input.pushed + k <= StreamLens[p]
       PROVE  Goal
  <2>1. CASE p = d
    <3>1. /\ t.input.pushed = pushed + k /\ ~closed /\ ~t.input.closed /\ pushed + k <= len
          /\ u = r
      BY <1>13, <2>1 DEF AppsMove, s, t, r, u, pushed, closed, len
    <3>2. BytesPopped(Inbound(u)) = read
      BY <3>1 DEF read
    <3> QED
      BY <1>10, <3>1, <3>2
  <2>2. CASE p = Other(d)
    <3>1. t = s /\ BytesPopped(Inbound(u)) = read + 0
      BY <1>1, <1>13, <2>2 DEF AppsMove, s, t, r, u, read
    <3> QED
      BY <1>12, <1>5, <3>1 DEF unread, pushed, closed
  <2> QED
    BY <1>1, <2>1, <2>2
<1>14. ASSUME NEW p \in Sides, AppsMove(p, 0, TRUE, 0)
       PROVE  Goal
  <2>1. CASE p = d
    <3>1. t.input.pushed = pushed + 0 /\ t.input.closed /\ u = r
      BY <1>14, <2>1 DEF AppsMove, s, t, r, u, pushed
    <3>2. BytesPopped(Inbound(u)) = read /\ t.input.pushed = pushed
      BY <1>5, <3>1 DEF read, pushed
    <3> QED
      BY <1>11, <3>1, <3>2
  <2>2. CASE p = Other(d)
    <3>1. t = s /\ BytesPopped(Inbound(u)) = read + 0
      BY <1>1, <1>14, <2>2 DEF AppsMove, s, t, r, u, read
    <3> QED
      BY <1>12, <1>5, <3>1 DEF unread, pushed, closed
  <2> QED
    BY <1>1, <2>1, <2>2
<1>15. ASSUME NEW p \in Sides, NEW n \in Nat, AppsMove(p, 0, FALSE, n),
              n <= Len(Inbound(peer[p].receiver).buf)
       PROVE  Goal
  <2>1. CASE p = d
    <3>1. t.input.pushed = pushed + 0 /\ (t.input.closed <=> closed) /\ u = r
      BY <1>15, <2>1 DEF AppsMove, s, t, r, u, pushed, closed
    <3>2. BytesPopped(Inbound(u)) = read + 0 /\ t.input.pushed = pushed /\ 0 <= unread
      BY <1>5, <3>1 DEF read, pushed, unread
    <3> QED
      BY <1>12, <3>1, <3>2
  <2>2. CASE p = Other(d)
    <3>1. t = s /\ BytesPopped(Inbound(u)) = read + n /\ n <= unread
      BY <1>1, <1>15, <2>2 DEF AppsMove, s, t, r, u, read, unread
    <3> QED
      BY <1>12, <3>1 DEF pushed, closed
  <2> QED
    BY <1>1, <2>1, <2>2
<1> QED
  BY <1>13, <1>14, <1>15, EveryMove

(***************************************************************************)
(* At first nothing waits to be read.                                      *)
(***************************************************************************)
LEMMA NothingUnread ==
    ASSUME Init, NEW d \in Sides
    PROVE  Unread(d) = NewStream(StreamLens[d])
<1> DEFINE s == peer[d].sender
           r == peer[Other(d)].receiver
           len == StreamLens[d]
<1>1. Flows(s, r)
  BY InitGood, BothGood DEF Good
<1>2. s.input.closed = FALSE /\ s.input.pushed = 0 /\ BytesPopped(Inbound(r)) = 0
  <2>1. /\ peer[d] = NewPeer(ISNs[d]) /\ peer[Other(d)] = NewPeer(ISNs[Other(d)])
    BY SidesPaired DEF Init
  <2> QED
    BY <2>1, NewStreamOrderly, PeerConfigAssumption
    DEF NewPeer, NewSender, NewReceiver, NewReassembler, NewStream, Inbound, BytesPopped
<1>3. Unread(d) = UnreadOf(len, s, r)
  BY DEF Unread, UnreadOf, Sender_, Receiver_
<1> HIDE DEF s, r
<1>4. UnreadOf(len, s, r) = Queued(len, FALSE, 0, 0)
  BY <1>1, <1>2, RunsJoin DEF QueuedOf
<1>5. BytesFrom(0, 0 - 0) = << >>
  BY BytesFromNone
<1> HIDE DEF len
<1>6. Queued(len, FALSE, 0, 0) = NewStream(len)
  BY <1>5 DEF Queued, NewStream
<1> QED
  BY <1>3, <1>4, <1>6 DEF len

(***************************************************************************)
(* Both directions of a connection are first-in first-out queues: whatever *)
(* the network loses, repeats, delays or reorders, what the applications   *)
(* write, close and read are steps that two local pipes could have made.   *)
(* The room in between is bounded only by the length of the stream; that   *)
(* what is written arrives at all is not said here, and that the end comes *)
(* after all of it is said by StreamsAlwaysIntact.                         *)
(***************************************************************************)
THEOREM StreamsImplementQueues == Spec => StreamsAreQueues
<1>1. Opener \in Sides /\ Listener \in Sides
  BY DEF Sides
<1>2. \A c : Forth!NewStream(c) = NewStream(c) /\ Back!NewStream(c) = NewStream(c)
  BY DEF Forth!NewStream, Back!NewStream, NewStream
<1>3. \A q, n : /\ Forth!BytesFrom(q, n) = BytesFrom(q, n) /\ Back!BytesFrom(q, n) = BytesFrom(q, n)
                /\ Forth!PushBytes(q, n) = PushBytes(q, n) /\ Back!PushBytes(q, n) = PushBytes(q, n)
                /\ Forth!PopBytes(q, n) = PopBytes(q, n) /\ Back!PopBytes(q, n) = PopBytes(q, n)
                /\ Forth!CloseStream(q) = CloseStream(q) /\ Back!CloseStream(q) = CloseStream(q)
  BY DEF Forth!BytesFrom, Forth!PushBytes, Forth!PopBytes, Forth!CloseStream,
         Forth!Lesser, Forth!AvailableCapacity,
         Back!BytesFrom, Back!PushBytes, Back!PopBytes, Back!CloseStream,
         Back!Lesser, Back!AvailableCapacity,
         BytesFrom, PushBytes, PopBytes, CloseStream, Lesser, AvailableCapacity
<1>4. Init => Forth!Init /\ Back!Init
  <2> SUFFICES ASSUME Init PROVE Forth!Init /\ Back!Init
    OBVIOUS
  <2>1. /\ Unread(Opener) = NewStream(StreamLens[Opener])
        /\ Unread(Listener) = NewStream(StreamLens[Listener])
    BY <1>1, NothingUnread
  <2> QED
    BY <1>2, <2>1 DEF Forth!Init, Back!Init
<1>5. ASSUME IInv, IInv', [Next]_vars
      PROVE  [Forth!Next]_Forth!vars
  <2> DEFINE q == Unread(Opener)
             len == StreamLens[Opener]
  <2>1. \/ \E k \in 0 .. len :
               q.pushed + k <= len /\ q' = PushBytes(q, BytesFrom(q.pushed, k))
        \/ q' = CloseStream(q)
        \/ \E n \in 0 .. len : n <= Len(q.buf) /\ q' = PopBytes(q, n)
        \/ q' = q
    BY <1>1, <1>5, QueueMoves
  <2> HIDE DEF q, len
  <2> QED
    BY <1>3, <2>1 DEF Forth!Next, Forth!Push, Forth!Close, Forth!Discard, Forth!vars, q, len
<1>6. ASSUME IInv, IInv', [Next]_vars
      PROVE  [Back!Next]_Back!vars
  <2> DEFINE q == Unread(Listener)
             len == StreamLens[Listener]
  <2>1. \/ \E k \in 0 .. len :
               q.pushed + k <= len /\ q' = PushBytes(q, BytesFrom(q.pushed, k))
        \/ q' = CloseStream(q)
        \/ \E n \in 0 .. len : n <= Len(q.buf) /\ q' = PopBytes(q, n)
        \/ q' = q
    BY <1>1, <1>6, QueueMoves
  <2> HIDE DEF q, len
  <2> QED
    BY <1>3, <2>1 DEF Back!Next, Back!Push, Back!Close, Back!Discard, Back!vars, q, len
<1> QED
  BY <1>4, <1>5, <1>6, Invariance, PTL DEF Spec, StreamsAreQueues, Forth!Spec, Back!Spec
=============================================================================
