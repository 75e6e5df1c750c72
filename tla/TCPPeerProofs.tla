---------------------------- MODULE TCPPeerProofs ---------------------------
(***************************************************************************)
(* What the methods of the two halves of a TCPPeer do, whatever has been   *)
(* sent or received before: push, receive and tick of the TCPSender;       *)
(* Reassembler::insert with its list of intervals and its output, and      *)
(* TCPReceiver::receive.  The proofs about those who call them rest on     *)
(* these lemmas.                                                           *)
(***************************************************************************)
EXTENDS TCPSender, TCPReceiver, TCPMessagesProofs

-----------------------------------------------------------------------------
(***************************************************************************)
(* The sender                                                              *)
(***************************************************************************)
(***************************************************************************)
(* The invariant of the calls: the types, a stream within its capacity     *)
(* (without which no call could say how much it reads), and the queue.     *)
(***************************************************************************)
SoundSender(s) == s \in Sender /\ SoundStream(s.input) /\ QueueCovers(s)

(***************************************************************************)
(* A new sender is sound.                                                  *)
(***************************************************************************)
LEMMA NewSenderSound ==
    ASSUME NEW capacity \in Nat, NEW isn \in Wrap32
    PROVE  SoundSender(NewSender(capacity, isn))
<1> DEFINE s == NewSender(capacity, isn)
<1>1. SoundStream(NewStream(capacity)) /\ NewStream(capacity) \in Stream
  BY NewStreamSound DEF SoundStream
<1>2. s \in Sender
  BY <1>1, SenderAssumption DEF NewSender, Sender, Timer, NewTimer
<1>3. QueueCovers(s)
  <2>1. << >> \in Seq(SenderMessage) /\ Len(<< >>) = 0
    OBVIOUS
  <2>2. Ends(<< >>, 0)[0] = 0
    BY <2>1, EndsUnfold
  <2> QED
    BY <2>1, <2>2 DEF QueueCovers, QueueEnds, NewSender, NewTimer
<1> QED
  BY <1>1, <1>2, <1>3 DEF SoundSender, NewSender

(***************************************************************************)
(* What push works with: a window that is open, and, if it is not full, a  *)
(* message that fits into what is left of it.                              *)
(***************************************************************************)
LEMMA WindowType ==
    ASSUME NEW s \in Sender
    PROVE  Window(s) \in Nat /\ Window(s) = Greater(s.wdsize, 1)
BY DEF Window, Sender, Greater

(***************************************************************************)
(* The next message of push takes no more sequence numbers than the window *)
(* has left, and its bytes are the front of the input.                     *)
(***************************************************************************)
LEMMA NextMessageFits ==
    ASSUME NEW s, SoundSender(s), Window(s) > s.total_outstandings
    PROVE  LET msg  == NextMessage(s)
               n    == Len(msg.payload)
               room == Window(s) - s.total_outstandings - One(msg.SYN)
           IN  /\ msg \in SenderMessage
               /\ n \in 0 .. Len(s.input.buf)
               /\ SeqLength(msg) <= Window(s) - s.total_outstandings
               /\ msg.seqno = Wrap(s.next_absseq, s.isn)
               /\ msg.SYN = ~s.SYN_flag
               /\ room \in Nat
               /\ n = Lesser(Lesser(MaxPayload, room), Len(s.input.buf))
               /\ msg.payload = SubSeq(s.input.buf, 1, n)
               /\ msg.FIN = TakesFin(s, n, room - n)
<1> DEFINE syn  == ~s.SYN_flag
           room == Window(s) - s.total_outstandings - One(syn)
           n    == Lesser(Lesser(MaxPayload, room), Len(s.input.buf))
           data == SubSeq(s.input.buf, 1, n)
           fin  == TakesFin(s, n, room - n)
           msg  == [MakeEmptyMessage(s) EXCEPT !.SYN = syn, !.payload = data, !.FIN = fin]
<1>1. /\ s \in Sender /\ s.input.buf \in Seq(Byte) /\ s.total_outstandings \in Nat
      /\ s.next_absseq \in Nat /\ s.isn \in Wrap32 /\ s.input.error \in BOOLEAN
      /\ s.SYN_flag \in BOOLEAN
  BY DEF SoundSender, Sender, Stream
<1>2. Window(s) \in Nat /\ Len(s.input.buf) \in Nat
  BY <1>1, WindowType, LenIsNat
<1>3. room \in Nat /\ One(syn) + room = Window(s) - s.total_outstandings
  BY <1>1, <1>2 DEF One
<1> HIDE DEF room
<1>4. n \in Nat /\ n <= room /\ n <= Len(s.input.buf)
  BY <1>2, <1>3, SenderAssumption DEF Lesser
<1> HIDE DEF n
<1>5. data \in Seq(Byte) /\ Len(data) = n
  BY <1>1, <1>2, <1>4, PrefixProperties
<1> HIDE DEF data
<1>6. fin \in BOOLEAN /\ (fin => room - n > 0)
  BY DEF TakesFin
<1> HIDE DEF fin
<1>7. /\ MakeEmptyMessage(s) \in SenderMessage
      /\ MakeEmptyMessage(s).seqno = Wrap(s.next_absseq, s.isn)
  BY <1>1, WrapType DEF MakeEmptyMessage, SenderMessage
<1>8. /\ msg \in SenderMessage /\ msg.SYN = syn /\ msg.payload = data /\ msg.FIN = fin
      /\ msg.seqno = Wrap(s.next_absseq, s.isn)
  BY <1>1, <1>5, <1>6, <1>7 DEF SenderMessage
<1>9. NextMessage(s) = msg
  BY DEF NextMessage, fin, data, n, room
<1> HIDE DEF msg
<1>10. SeqLength(msg) = One(syn) + n + One(fin)
  BY <1>5, <1>8 DEF SeqLength
<1>11. n + One(fin) <= room
  BY <1>3, <1>4, <1>6 DEF One
<1>12. One(syn) \in Nat /\ One(fin) \in Nat
  BY DEF One
<1>13. SeqLength(msg) <= Window(s) - s.total_outstandings
  BY <1>3, <1>4, <1>10, <1>11, <1>12
<1>14. n \in 0 .. Len(s.input.buf)
  BY <1>2, <1>4
<1> QED
  BY <1>3, <1>5, <1>8, <1>9, <1>13, <1>14 DEF room, n, data, fin

(***************************************************************************)
(* Transmitting a message enters it in the books: queue, total and         *)
(* next_absseq grow by what it occupies.                                   *)
(***************************************************************************)
LEMMA SentSound ==
    ASSUME NEW s, SoundSender(s), NEW msg \in SenderMessage,
           Len(msg.payload) \in 0 .. Len(s.input.buf), SeqLength(msg) # 0
    PROVE  LET t == Sent(s, msg)
           IN  /\ SoundSender(t)
               /\ t.total_outstandings = s.total_outstandings + SeqLength(msg)
               /\ t.next_absseq = s.next_absseq + SeqLength(msg)
               /\ t.ack_absseq = s.ack_absseq
               /\ t.wdsize = s.wdsize
<1> DEFINE input == PopBytes(s.input, Len(msg.payload))
           timer == TimerAfterSend(s.timer)
           next  == s.next_absseq + SeqLength(msg)
           total == s.total_outstandings + SeqLength(msg)
           queue == Append(s.qmesg, msg)
           t == [s EXCEPT !.input = input, !.SYN_flag = TRUE, !.FIN_flag = msg.FIN,
                          !.timer = timer, !.next_absseq = next,
                          !.total_outstandings = total, !.qmesg = queue]
<1>1. /\ s \in Sender /\ s.qmesg \in Seq(SenderMessage) /\ s.timer \in Timer
      /\ s.next_absseq \in Nat /\ s.total_outstandings \in Nat /\ s.ack_absseq \in Nat
  BY DEF SoundSender, Sender
<1>2. SeqLength(msg) \in Nat /\ SeqLength(msg) > 0
  BY SeqLengthType
<1>3. msg.FIN \in BOOLEAN
  BY DEF SenderMessage
<1>4. SoundStream(input) /\ input \in Stream
  BY PopBytesSound DEF SoundSender, SoundStream
<1>5. timer \in Timer /\ timer.is_active
  BY <1>1 DEF TimerAfterSend, Start, Timer
<1>6. next \in Nat /\ total \in Nat /\ s.ack_absseq + total = next
  BY <1>1, <1>2 DEF SoundSender, QueueCovers
<1>7. /\ queue \in Seq(SenderMessage) /\ queue # << >>
      /\ Len(queue) = Len(s.qmesg) + 1 /\ queue[Len(queue)] = msg
      /\ \A i \in 1 .. Len(s.qmesg) : queue[i] = s.qmesg[i]
  BY <1>1
<1>8. Ends(queue, s.ack_absseq)[Len(queue)] = next
  <2>1. Ends(queue, s.ack_absseq)[Len(s.qmesg) + 1] =
            Ends(s.qmesg, s.ack_absseq)[Len(s.qmesg)] + SeqLength(msg)
    BY <1>1, EndsAppend
  <2> QED
    BY <1>7, <2>1 DEF SoundSender, QueueCovers, QueueEnds
<1> HIDE DEF input, timer, next, total, queue
<1>9. /\ t \in Sender /\ t.input = input /\ t.timer = timer /\ t.next_absseq = next
      /\ t.total_outstandings = total /\ t.qmesg = queue
      /\ t.ack_absseq = s.ack_absseq /\ t.wdsize = s.wdsize
  BY <1>1, <1>3, <1>4, <1>5, <1>6, <1>7 DEF Sender
<1>10. \A i \in 1 .. Len(queue) : SeqLength(queue[i]) > 0
  <2> TAKE i \in 1 .. Len(queue)
  <2>1. Len(s.qmesg) \in Nat
    BY <1>1, LenIsNat
  <2>2. CASE i = Len(queue)
    BY <1>2, <1>7, <2>2
  <2>3. CASE i # Len(queue)
    <3>1. i \in 1 .. Len(s.qmesg)
      BY <1>7, <2>1, <2>3
    <3> QED
      BY <1>7, <3>1 DEF SoundSender, QueueCovers
  <2> QED
    BY <2>2, <2>3
<1>11. t = Sent(s, msg)
  BY DEF Sent, input, timer, next, total, queue
<1> HIDE DEF t
<1>12. SoundSender(t)
  BY <1>4, <1>5, <1>6, <1>7, <1>8, <1>9, <1>10 DEF SoundSender, QueueCovers, QueueEnds
<1> QED
  BY <1>9, <1>11, <1>12 DEF next, total

(***************************************************************************)
(* A call of push in progress: what it may have changed of s so far.       *)
(***************************************************************************)
Pushing(s) ==
    {c \in [sender : Sender, sent : Seq(SenderMessage)] :
        /\ SoundSender(c.sender)
        /\ c.sender.wdsize = s.wdsize
        /\ c.sender.ack_absseq = s.ack_absseq
        /\ c.sender.next_absseq >= s.next_absseq
        /\ c.sender.next_absseq > s.next_absseq => c.sender.total_outstandings <= Window(s)}

(***************************************************************************)
(* One turn of the loop of push.                                           *)
(***************************************************************************)
LEMMA PushOnceSound ==
    ASSUME NEW s \in Sender, NEW c \in Pushing(s)
    PROVE  PushOnce(c) \in Pushing(s)
<1> DEFINE t   == c.sender
           msg == NextMessage(t)
<1>1. /\ SoundSender(t) /\ t \in Sender /\ c.sent \in Seq(SenderMessage)
      /\ t.wdsize = s.wdsize /\ t.ack_absseq = s.ack_absseq
      /\ t.next_absseq >= s.next_absseq
  BY DEF Pushing
<1>2. Window(t) = Window(s) /\ Window(s) \in Nat
  BY <1>1, WindowType DEF Window
<1>3. /\ s.next_absseq \in Nat /\ t.next_absseq \in Nat /\ t.total_outstandings \in Nat
  BY <1>1 DEF Sender
<1>4. CASE Window(t) <= t.total_outstandings \/ t.FIN_flag \/ SeqLength(msg) = 0
  BY <1>4 DEF PushOnce
<1>5. CASE ~(Window(t) <= t.total_outstandings \/ t.FIN_flag \/ SeqLength(msg) = 0)
  <2> DEFINE u == Sent(t, msg)
             d == [sender |-> u, sent |-> Append(c.sent, msg)]
  <2>1. Window(t) > t.total_outstandings
    BY <1>2, <1>3, <1>5
  <2>2. /\ msg \in SenderMessage /\ Len(msg.payload) \in 0 .. Len(t.input.buf)
        /\ SeqLength(msg) <= Window(t) - t.total_outstandings
    BY <1>1, <2>1, NextMessageFits
  <2>3. SeqLength(msg) \in Nat /\ SeqLength(msg) # 0
    BY <1>5, <2>2, SeqLengthType
  <2> HIDE DEF msg
  <2>4. /\ SoundSender(u)
        /\ u.total_outstandings = t.total_outstandings + SeqLength(msg)
        /\ u.next_absseq = t.next_absseq + SeqLength(msg)
        /\ u.ack_absseq = t.ack_absseq
        /\ u.wdsize = t.wdsize
    BY <1>1, <2>2, <2>3, SentSound
  <2> HIDE DEF u
  <2>5. u \in Sender /\ Append(c.sent, msg) \in Seq(SenderMessage)
    BY <1>1, <2>2, <2>4 DEF SoundSender
  <2>6. u.total_outstandings <= Window(s) /\ u.next_absseq >= s.next_absseq
    BY <1>1, <1>2, <1>3, <2>2, <2>3, <2>4
  <2>7. d \in Pushing(s)
    BY <1>1, <2>4, <2>5, <2>6 DEF Pushing
  <2>8. PushOnce(c) = d
    BY <1>5 DEF PushOnce, u, msg
  <2> QED
    BY <2>7, <2>8
<1> QED
  BY <1>4, <1>5

(***************************************************************************)
(* The turns of the loop define a function, and stay within Pushing(s).    *)
(***************************************************************************)
LEMMA PushTurnsUnfold ==
    ASSUME NEW s, SoundSender(s)
    PROVE  /\ PushTurns(s)[0] = Quiet(s)
           /\ \A i \in 1 .. Window(s) : PushTurns(s)[i] = PushOnce(PushTurns(s)[i - 1])
           /\ \A i \in 0 .. Window(s) : PushTurns(s)[i] \in Pushing(s)
<1> DEFINE w == Window(s)
           f == [i \in 1 .. w |-> [c \in Pushing(s) |-> PushOnce(c)]]
           T == PushTurns(s)
<1>1. s \in Sender /\ w \in Nat /\ s.next_absseq \in Nat
  BY WindowType DEF SoundSender, Sender
<1>2. Quiet(s) \in Pushing(s)
  <2>1. << >> \in Seq(SenderMessage)
    OBVIOUS
  <2> QED
    BY <1>1, <2>1 DEF Pushing, Quiet
<1>3. f \in [1 .. w -> [Pushing(s) -> Pushing(s)]]
  BY <1>1, PushOnceSound
<1> HIDE DEF w
<1>4. PICK g \in [0 .. w -> Pushing(s)] : IsIteration(g, w, f, Quiet(s))
  <2> HIDE DEF f
  <2> QED
    BY <1>1, <1>2, <1>3, Iterates, Zenon
<1>5. g[0] = Quiet(s) /\ \A i \in 1 .. w : g[i] = f[i][g[i - 1]]
  BY <1>4 DEF IsIteration
<1>6. ASSUME NEW i \in 1 .. w PROVE g[i] = PushOnce(g[i - 1])
  <2>1. g[i - 1] \in Pushing(s)
    BY <1>1
  <2> QED
    BY <1>5, <2>1
<1>7. g = [i \in 0 .. w |-> IF i = 0 THEN Quiet(s) ELSE PushOnce(g[i - 1])]
  <2>1. \A i \in 0 .. w : g[i] = IF i = 0 THEN Quiet(s) ELSE PushOnce(g[i - 1])
    BY <1>1, <1>5, <1>6
  <2> QED
    BY <2>1
<1>8. T = [i \in 0 .. w |-> IF i = 0 THEN Quiet(s) ELSE PushOnce(T[i - 1])]
  BY <1>7 DEF PushTurns, w
<1> HIDE DEF T
<1>9. \A i \in 0 .. w : T[i] \in Pushing(s)
  <2> DEFINE S == {i \in 0 .. w : T[i] \in Pushing(s)}
  <2>1. 0 \in S
    BY <1>1, <1>2, <1>8
  <2>2. ASSUME NEW i \in S, i < w PROVE i + 1 \in S
    <3>1. i + 1 \in 1 .. w /\ (i + 1) - 1 = i
      BY <1>1, <2>2
    <3>2. T[i + 1] = PushOnce(T[i])
      BY <1>1, <1>8, <3>1
    <3> QED
      BY <1>1, <3>1, <3>2, PushOnceSound
  <2>3. S \in SUBSET (0 .. w)
    OBVIOUS
  <2>4. S = 0 .. w
    <3> HIDE DEF S
    <3> QED
      BY <1>1, <2>1, <2>2, <2>3, BoundedInduction
  <2> QED
    BY <2>4
<1> QED
  BY <1>1, <1>8, <1>9 DEF T, w

(***************************************************************************)
(* The whole loop of push: the sender is sound and its books are right     *)
(* after the last turn, and no turn went beyond the window.                *)
(***************************************************************************)
LEMMA PushSound ==
    ASSUME NEW s, SoundSender(s)
    PROVE  Push(s) \in Pushing(s)
<1>1. Window(s) \in 0 .. Window(s)
  BY WindowType DEF SoundSender
<1> QED
  BY <1>1, PushTurnsUnfold DEF Push

-----------------------------------------------------------------------------
(***************************************************************************)
(* The loop of receive stops somewhere: at the first message that ends     *)
(* beyond the acknowledged number, or after the last one.                  *)
(***************************************************************************)
LEMMA FullyAckedStops ==
    ASSUME NEW s, SoundSender(s), NEW absseq \in Int
    PROVE  LET n == FullyAcked(s, absseq)
           IN  /\ n \in 0 .. Len(s.qmesg)
               /\ \A i \in 1 .. n : QueueEnds(s)[i] <= absseq
               /\ n < Len(s.qmesg) => QueueEnds(s)[n + 1] > absseq
<1> DEFINE E == QueueEnds(s)
           m == Len(s.qmesg)
           Beyond == {j \in 1 .. m + 1 : j <= m => E[j] > absseq}
<1>1. s.qmesg \in Seq(SenderMessage) /\ s.ack_absseq \in Nat
  BY DEF SoundSender, Sender
<1>2. m \in Nat /\ E \in [0 .. m -> Nat]
  BY <1>1, LenIsNat, EndsUnfold DEF QueueEnds
<1> HIDE DEF E, m
<1>3. m + 1 \in Beyond
  BY <1>2
<1>4. PICK j \in Beyond : \A k \in Beyond : j <= k
  <2>1. Beyond \in SUBSET Nat
    BY <1>2
  <2> HIDE DEF Beyond
  <2>2. Beyond # {}
    BY <1>3
  <2> QED
    BY <2>1, <2>2, LeastNumber
<1> DEFINE Stops(n) ==
        /\ \A i \in 1 .. n : E[i] <= absseq
        /\ n < m => E[n + 1] > absseq
<1>5. j - 1 \in 0 .. m /\ Stops(j - 1)
  <2>1. j \in 1 .. m + 1 /\ (j - 1) + 1 = j /\ (j <= m => E[j] > absseq)
    BY <1>2
  <2>2. ASSUME NEW i \in 1 .. j - 1 PROVE E[i] <= absseq
    <3>1. i \in 1 .. m + 1 /\ i <= m /\ ~(j <= i) /\ E[i] \in Nat
      BY <1>2, <2>1
    <3>2. i \notin Beyond
      <4> HIDE DEF Beyond
      <4> QED
        BY <1>4, <3>1
    <3> QED
      BY <3>1, <3>2
  <2> QED
    BY <1>2, <2>1, <2>2
<1> HIDE DEF Stops
<1>6. Stops(CHOOSE n \in 0 .. m : Stops(n)) /\ (CHOOSE n \in 0 .. m : Stops(n)) \in 0 .. m
  BY <1>5
<1>7. FullyAcked(s, absseq) = CHOOSE n \in 0 .. m : Stops(n)
  BY DEF FullyAcked, Stops, E, m, QueueEnds
<1> QED
  BY <1>6, <1>7 DEF Stops, E, m

(***************************************************************************)
(* Taking the acknowledged messages off the queue keeps the books right    *)
(* and never takes back an acknowledgment.                                 *)
(***************************************************************************)
LEMMA AckedSound ==
    ASSUME NEW s, SoundSender(s), NEW absseq \in Int
    PROVE  /\ SoundSender(Acked(s, absseq))
           /\ Acked(s, absseq).next_absseq = s.next_absseq
           /\ Acked(s, absseq).ack_absseq >= s.ack_absseq
<1> DEFINE n     == FullyAcked(s, absseq)
           m     == Len(s.qmesg)
           E     == QueueEnds(s)
           left  == SubSeq(s.qmesg, n + 1, m)
           total == s.total_outstandings - (E[n] - s.ack_absseq)
           timer == TimerAfterAck(s.timer, left)
           t == [s EXCEPT !.ack_absseq = E[n], !.total_outstandings = total,
                          !.qmesg = left, !.total_retransmissions = 0, !.timer = timer]
<1>1. /\ s \in Sender /\ s.qmesg \in Seq(SenderMessage) /\ s.timer \in Timer
      /\ s.next_absseq \in Nat /\ s.total_outstandings \in Nat /\ s.ack_absseq \in Nat
      /\ s.input \in Stream /\ SoundStream(s.input)
  BY DEF SoundSender, Sender
<1>2. /\ E[m] = s.next_absseq /\ s.ack_absseq + s.total_outstandings = s.next_absseq
      /\ \A i \in 1 .. m : SeqLength(s.qmesg[i]) > 0
  BY DEF SoundSender, QueueCovers
<1>3. n \in 0 .. m /\ m \in Nat
  BY <1>1, FullyAckedStops, LenIsNat
<1>4. CASE absseq > s.next_absseq \/ n = 0
  <2>1. Acked(s, absseq) = s
    BY <1>4 DEF Acked
  <2> QED
    BY <1>1, <2>1
<1>5. CASE ~(absseq > s.next_absseq \/ n = 0)
  <2>1. E[n] \in Nat /\ s.ack_absseq <= E[n] /\ E[n] <= E[m]
    BY <1>1, <1>3, EndsUnfold, EndsBounded DEF QueueEnds
  <2>2. total \in Nat /\ E[n] + total = s.next_absseq
    BY <1>1, <1>2, <2>1
  <2>3. /\ left \in Seq(SenderMessage) /\ Len(left) = m - n
        /\ \A i \in 1 .. m - n : left[i] = s.qmesg[n + i]
    BY <1>1, <1>3, SuffixProperties
  <2>4. Ends(left, E[n])[m - n] = E[m]
    <3>1. m - n \in 0 .. m - n /\ n + (m - n) = m
      BY <1>3
    <3> QED
      BY <1>1, <1>3, <3>1, EndsSuffix DEF QueueEnds
  <2>5. timer \in Timer /\ (timer.is_active <=> left # << >>)
    BY <1>1, SenderAssumption DEF TimerAfterAck, Start, Stop, Reload, Timer
  <2>6. Acked(s, absseq) = t
    BY <1>5 DEF Acked, AckedNumbers, QueueEnds
  <2> DEFINE ack == E[n]
  <2>7. ack \in Nat /\ ack >= s.ack_absseq /\ ack + total = s.next_absseq
        /\ Ends(left, ack)[m - n] = s.next_absseq
    BY <1>1, <1>2, <2>1, <2>2, <2>4
  <2> HIDE DEF ack, E, total, left, timer, n, m
  <2>8. /\ t \in Sender /\ t.ack_absseq = ack /\ t.total_outstandings = total
        /\ t.qmesg = left /\ t.timer = timer /\ t.next_absseq = s.next_absseq
        /\ t.input = s.input
    BY <1>1, <2>2, <2>3, <2>5, <2>7 DEF Sender, ack
  <2>9. \A i \in 1 .. Len(left) : SeqLength(left[i]) > 0
    <3> TAKE i \in 1 .. Len(left)
    <3>1. i \in 1 .. m - n /\ n + i \in 1 .. m
      BY <1>3, <2>3
    <3> QED
      BY <1>2, <2>3, <3>1
  <2> HIDE DEF t
  <2>10. SoundSender(t)
    BY <1>1, <2>3, <2>5, <2>7, <2>8, <2>9 DEF SoundSender, QueueCovers, QueueEnds
  <2> QED
    BY <2>6, <2>7, <2>8, <2>10
<1> QED
  BY <1>4, <1>5

(***************************************************************************)
(* What a call may replace without touching the books: the stream, the     *)
(* window, the retransmission count, and the timer's times.                *)
(***************************************************************************)
LEMMA RestChangedSound ==
    ASSUME NEW s, SoundSender(s), NEW t \in Sender, SoundStream(t.input),
           t.qmesg = s.qmesg, t.ack_absseq = s.ack_absseq, t.next_absseq = s.next_absseq,
           t.total_outstandings = s.total_outstandings,
           t.timer.is_active = s.timer.is_active
    PROVE  SoundSender(t)
BY DEF SoundSender, QueueCovers, QueueEnds

(***************************************************************************)
(* What the application does to the input stream leaves the books of the   *)
(* sender alone.                                                           *)
(***************************************************************************)
LEMMA InputChangedSound ==
    ASSUME NEW s, SoundSender(s), NEW input, SoundStream(input)
    PROVE  LET t == [s EXCEPT !.input = input]
           IN  /\ SoundSender(t)
               /\ t.next_absseq = s.next_absseq /\ t.ack_absseq = s.ack_absseq
<1> DEFINE t == [s EXCEPT !.input = input]
<1>1. s \in Sender /\ input \in Stream
  BY DEF SoundSender, SoundStream
<1>2. /\ t \in Sender /\ t.input = input /\ t.qmesg = s.qmesg
      /\ t.ack_absseq = s.ack_absseq /\ t.next_absseq = s.next_absseq
      /\ t.total_outstandings = s.total_outstandings /\ t.timer = s.timer
  BY <1>1 DEF Sender
<1> HIDE DEF t
<1>3. SoundSender(t)
  BY <1>2, RestChangedSound
<1> QED
  BY <1>2, <1>3 DEF t

(***************************************************************************)
(* receive, with any ackno, window and RST: the sender stays sound and its *)
(* books right.                                                            *)
(***************************************************************************)
LEMMA ReceiveReplySound ==
    ASSUME NEW s, SoundSender(s), NEW msg \in ReceiverMessage
    PROVE  /\ SoundSender(ReceiveReply(s, msg))
           /\ ReceiveReply(s, msg).next_absseq = s.next_absseq
           /\ ReceiveReply(s, msg).ack_absseq >= s.ack_absseq
<1> DEFINE t == [s EXCEPT !.wdsize = msg.window_size]
           e == [s EXCEPT !.input = SetError(s.input)]
           a == Unwrap(msg.ackno, s.isn, s.next_absseq)
<1>1. s \in Sender /\ s.ack_absseq \in Nat /\ s.next_absseq \in Nat /\ s.isn \in Wrap32
  BY DEF SoundSender, Sender
<1>2. msg.window_size \in Nat /\ msg.ackno \in Wrap32 \cup {None}
  BY DEF ReceiverMessage
<1>3. /\ t \in Sender /\ t.input = s.input /\ t.qmesg = s.qmesg
      /\ t.ack_absseq = s.ack_absseq /\ t.next_absseq = s.next_absseq
      /\ t.total_outstandings = s.total_outstandings /\ t.timer = s.timer
      /\ t.isn = s.isn
  BY <1>1, <1>2 DEF Sender
<1>4. SoundStream(s.input) /\ SoundStream(SetError(s.input))
  BY FlagsSound DEF SoundSender
<1> HIDE DEF t
<1>5. SoundSender(t)
  BY <1>3, <1>4, RestChangedSound
<1>6. SoundSender(e) /\ e.next_absseq = s.next_absseq /\ e.ack_absseq = s.ack_absseq
  BY <1>4, InputChangedSound
<1> HIDE DEF e
<1>7. CASE s.input.error
  BY <1>1, <1>7 DEF ReceiveReply
<1>8. CASE ~s.input.error /\ msg.RST
  BY <1>1, <1>6, <1>8 DEF ReceiveReply, e
<1>9. CASE ~s.input.error /\ ~msg.RST /\ msg.ackno = None
  BY <1>1, <1>3, <1>5, <1>9 DEF ReceiveReply, t
<1>10. CASE ~s.input.error /\ ~msg.RST /\ msg.ackno # None
  <2>1. a \in Int
    BY <1>1, <1>2, <1>10, UnwrapType
  <2>2. ReceiveReply(s, msg) = Acked(t, a)
    BY <1>3, <1>10 DEF ReceiveReply, t
  <2> HIDE DEF a
  <2> QED
    BY <1>3, <1>5, <2>1, <2>2, AckedSound
<1> QED
  BY <1>7, <1>8, <1>9, <1>10

(***************************************************************************)
(* tick, for any time passed.                                              *)
(***************************************************************************)
LEMMA TickSound ==
    ASSUME NEW s, SoundSender(s), NEW ms \in Nat
    PROVE  LET c == Tick(s, ms)
           IN  /\ SoundSender(c.sender) /\ c.sent \in Seq(SenderMessage)
               /\ c.sender.next_absseq = s.next_absseq
               /\ c.sender.ack_absseq = s.ack_absseq
<1> DEFINE advanced == Advance(s.timer, ms)
           t == [s EXCEPT !.timer = advanced]
           Same(u) == /\ u.input = s.input /\ u.qmesg = s.qmesg
                      /\ u.ack_absseq = s.ack_absseq /\ u.next_absseq = s.next_absseq
                      /\ u.total_outstandings = s.total_outstandings
                      /\ u.timer.is_active = s.timer.is_active
<1>1. /\ s \in Sender /\ s.timer \in Timer /\ s.qmesg \in Seq(SenderMessage)
      /\ s.total_retransmissions \in Nat /\ s.wdsize \in Nat /\ SoundStream(s.input)
  BY DEF SoundSender, Sender
<1>2. advanced \in Timer /\ advanced.is_active = s.timer.is_active
  BY <1>1 DEF Advance, Timer
<1> HIDE DEF advanced
<1>3. /\ t \in Sender /\ Same(t) /\ t.timer = advanced /\ t.wdsize = s.wdsize
      /\ t.total_retransmissions = s.total_retransmissions
  BY <1>1, <1>2 DEF Sender
<1> HIDE DEF t
<1>4. BackedOff(t) \in Sender /\ Same(BackedOff(t))
  <2> DEFINE r == Reset(t.timer)
             b == Reset(Backoff(t.timer))
             k == Lesser(t.total_retransmissions + 1, RetxCap)
  <2>1. r \in Timer /\ r.is_active = s.timer.is_active
    BY <1>2, <1>3 DEF Reset, Timer
  <2>2. b \in Timer /\ b.is_active = s.timer.is_active
    <3>1. t.timer.rto_ms \in Nat /\ Lesser(2 * t.timer.rto_ms, RTOCap) \in Nat
      BY <1>2, <1>3, SenderAssumption DEF Timer, Lesser
    <3> QED
      BY <1>2, <1>3, <3>1 DEF Reset, Backoff, Timer
  <2>3. k \in Nat
    BY <1>1, <1>3, SenderAssumption DEF Lesser
  <2> HIDE DEF r, b, k
  <2>4. CASE t.wdsize = 0
    <3> DEFINE u == [t EXCEPT !.timer = r]
    <3>1. u \in Sender /\ Same(u)
      BY <1>3, <2>1 DEF Sender
    <3> QED
      BY <2>4, <3>1 DEF BackedOff, r
  <2>5. CASE t.wdsize # 0
    <3> DEFINE u == [t EXCEPT !.timer = b, !.total_retransmissions = k]
    <3>1. u \in Sender /\ Same(u)
      BY <1>3, <2>2, <2>3 DEF Sender
    <3> QED
      BY <2>5, <3>1 DEF BackedOff, b, k
  <2> QED
    BY <2>4, <2>5
<1>5. SoundSender(t) /\ SoundSender(BackedOff(t))
  BY <1>1, <1>3, <1>4, RestChangedSound
<1>6. CASE IsExpired(t.timer) /\ t.qmesg # << >>
  <2>1. << Head(t.qmesg) >> \in Seq(SenderMessage)
    BY <1>1, <1>3, <1>6
  <2>2. Tick(s, ms) = [sender |-> BackedOff(t), sent |-> << Head(t.qmesg) >>]
    BY <1>6 DEF Tick, t, advanced
  <2> QED
    BY <1>4, <1>5, <2>1, <2>2
<1>7. CASE ~(IsExpired(t.timer) /\ t.qmesg # << >>)
  <2>1. Tick(s, ms) = [sender |-> t, sent |-> << >>]
    BY <1>7 DEF Tick, Quiet, t, advanced
  <2> QED
    BY <1>3, <1>5, <2>1
<1> QED
  BY <1>6, <1>7

-----------------------------------------------------------------------------
(***************************************************************************)
(* What has been sent is the stream from its beginning: the flags and the  *)
(* next number say how far it has come, the bytes that follow are in the   *)
(* buffer, and every message in the queue carries what belongs at its      *)
(* place.                                                                  *)
(***************************************************************************)
SentSoFar(s) ==
    /\ s.SYN_flag <=> s.next_absseq > 0
    /\ s.next_absseq = One(s.SYN_flag) + BytesPopped(s.input) + One(s.FIN_flag)
    /\ s.FIN_flag => s.SYN_flag /\ IsFinished(s.input)

QueueCarries(s) ==
    \A i \in 1 .. Len(s.qmesg) :
        /\ CarriesItsPlace(s, i)
        /\ s.qmesg[i].FIN => s.FIN_flag

SendsStream(s) == OrderlyBuffer(s.input) /\ SentSoFar(s) /\ QueueCarries(s)

(***************************************************************************)
(* A new sender has sent nothing of the stream.                            *)
(***************************************************************************)
LEMMA NewSenderSendsStream ==
    ASSUME NEW capacity \in Nat, NEW isn \in Wrap32
    PROVE  SendsStream(NewSender(capacity, isn))
<1> DEFINE s == NewSender(capacity, isn)
<1>1. /\ s.input = NewStream(capacity) /\ ~s.SYN_flag /\ ~s.FIN_flag /\ s.next_absseq = 0
      /\ s.qmesg = << >>
  BY DEF NewSender
<1>2. OrderlyBuffer(s.input) /\ BytesPopped(s.input) = 0
  BY <1>1, NewStreamOrderly
<1> HIDE DEF s
<1>3. SentSoFar(s)
  BY <1>1, <1>2 DEF SentSoFar, One
<1>4. QueueCarries(s)
  BY <1>1 DEF QueueCarries
<1> QED
  BY <1>2, <1>3, <1>4 DEF SendsStream, s

(***************************************************************************)
(* A call that leaves the queue and its numbers alone may write to the     *)
(* stream or close it, but not reopen it.                                  *)
(***************************************************************************)
LEMMA RestChangedSendsStream ==
    ASSUME NEW s, SendsStream(s), NEW t,
           t.isn = s.isn, t.qmesg = s.qmesg, t.ack_absseq = s.ack_absseq,
           t.SYN_flag = s.SYN_flag, t.FIN_flag = s.FIN_flag, t.next_absseq = s.next_absseq,
           OrderlyBuffer(t.input), BytesPopped(t.input) = BytesPopped(s.input),
           IsFinished(s.input) => IsFinished(t.input)
    PROVE  SendsStream(t)
<1>1. SentSoFar(t)
  BY DEF SendsStream, SentSoFar
<1>2. QueueCarries(t)
  BY DEF SendsStream, QueueCarries, CarriesItsPlace, QueueEnds
<1> QED
  BY <1>1, <1>2 DEF SendsStream

(***************************************************************************)
(* Writing to, closing or failing the input stream takes back nothing that *)
(* was sent.                                                               *)
(***************************************************************************)
LEMMA InputChangedSendsStream ==
    ASSUME NEW s \in Sender, SendsStream(s), NEW input \in Stream, OrderlyBuffer(input),
           BytesPopped(input) = BytesPopped(s.input),
           IsFinished(s.input) => IsFinished(input)
    PROVE  SendsStream([s EXCEPT !.input = input])
<1> DEFINE t == [s EXCEPT !.input = input]
<1>1. /\ t.isn = s.isn /\ t.qmesg = s.qmesg /\ t.ack_absseq = s.ack_absseq
      /\ t.SYN_flag = s.SYN_flag /\ t.FIN_flag = s.FIN_flag
      /\ t.next_absseq = s.next_absseq /\ t.input = input
  BY DEF Sender
<1> HIDE DEF t
<1>2. SendsStream(t)
  BY <1>1, RestChangedSendsStream
<1> QED
  BY <1>2 DEF t

(***************************************************************************)
(* A message sent for the first time takes the next place.                 *)
(***************************************************************************)
LEMMA SentSendsStream ==
    ASSUME NEW s, SoundSender(s), SendsStream(s), ~s.FIN_flag,
           Window(s) > s.total_outstandings, SeqLength(NextMessage(s)) # 0
    PROVE  SendsStream(Sent(s, NextMessage(s)))
<1> DEFINE msg   == NextMessage(s)
           n     == Len(msg.payload)
           t     == Sent(s, msg)
           input == PopBytes(s.input, n)
           next  == s.next_absseq + SeqLength(msg)
           queue == Append(s.qmesg, msg)
           m     == Len(s.qmesg)
           popped == BytesPopped(s.input)
<1>1. /\ s \in Sender /\ s.qmesg \in Seq(SenderMessage) /\ s.timer \in Timer
      /\ s.next_absseq \in Nat /\ s.ack_absseq \in Nat /\ s.SYN_flag \in BOOLEAN
      /\ SoundStream(s.input) /\ OrderlyBuffer(s.input) /\ m \in Nat
  BY LenIsNat DEF SoundSender, Sender, SendsStream
<1>2. /\ msg \in SenderMessage /\ n \in 0 .. Len(s.input.buf)
      /\ msg.seqno = Wrap(s.next_absseq, s.isn)
      /\ msg.SYN = ~s.SYN_flag
      /\ msg.payload = SubSeq(s.input.buf, 1, n)
      /\ msg.FIN => IsFinished(input)
  BY NextMessageFits DEF TakesFin
<1> HIDE DEF msg, n
<1>3. SeqLength(msg) = One(msg.SYN) + n + One(msg.FIN) /\ SeqLength(msg) \in Nat
      /\ SeqLength(msg) > 0 /\ n \in Nat
  BY <1>2, SeqLengthType, LenIsNat DEF SeqLength, n, msg
<1>4. /\ OrderlyBuffer(input) /\ BytesPopped(input) = popped + n
      /\ msg.payload = BytesFrom(popped, n)
  BY <1>1, <1>2, PopKeepsOrder
<1>5. /\ s.SYN_flag <=> s.next_absseq > 0
      /\ s.next_absseq = One(s.SYN_flag) + popped
  <2>1. popped \in Nat
    BY <1>1, LenIsNat DEF SoundStream, Stream, OrderlyBuffer, BytesPopped
  <2> QED
    BY <1>1, <2>1 DEF SendsStream, SentSoFar, One
<1> HIDE DEF input, next, queue, m, popped
<1>5a. msg.SYN \in BOOLEAN /\ msg.FIN \in BOOLEAN /\ popped \in Nat
  BY <1>1, <1>2, LenIsNat
  DEF SenderMessage, SoundStream, Stream, OrderlyBuffer, BytesPopped, popped
<1>5b. /\ One(msg.SYN) = 1 - One(s.SYN_flag)
       /\ One(s.SYN_flag) \in 0 .. 1 /\ One(msg.FIN) \in 0 .. 1
       /\ msg.SYN <=> s.next_absseq = 0
  <2>1. msg.SYN <=> ~s.SYN_flag
    BY <1>2
  <2>2. (s.SYN_flag <=> s.next_absseq > 0) /\ s.next_absseq \in Nat
    BY <1>1, <1>5
  <2>3. One(s.SYN_flag) \in 0 .. 1 /\ One(msg.FIN) \in 0 .. 1
    BY DEF One
  <2>4. One(msg.SYN) = 1 - One(s.SYN_flag)
    BY <2>1 DEF One
  <2>5. s.next_absseq > 0 <=> s.next_absseq # 0
    BY <2>2
  <2> QED
    BY <2>1, <2>2, <2>3, <2>4, <2>5
<1>6. /\ t.input = input /\ t.SYN_flag = TRUE /\ t.FIN_flag = msg.FIN /\ t.isn = s.isn
      /\ t.next_absseq = next /\ t.qmesg = queue /\ t.ack_absseq = s.ack_absseq
  BY <1>1 DEF Sent, Sender, input, next, queue, n
<1> HIDE DEF t
<1>7. SentSoFar(t)
  <2>1. next > 0 /\ next = 1 + (popped + n) + One(msg.FIN)
    BY <1>1, <1>3, <1>5, <1>5a, <1>5b DEF next
  <2>2. One(TRUE) = 1
    BY DEF One
  <2> QED
    BY <1>2, <1>4, <1>6, <2>1, <2>2 DEF SentSoFar
<1>8. /\ Len(queue) = m + 1 /\ queue[m + 1] = msg
      /\ \A i \in 1 .. m : queue[i] = s.qmesg[i]
      /\ \A i \in 0 .. m : QueueEnds(t)[i] = QueueEnds(s)[i]
  BY <1>1, <1>2, <1>6, EndsAppend DEF QueueEnds, queue, m
<1>9. ASSUME NEW i \in 1 .. Len(queue)
      PROVE  CarriesItsPlace(t, i) /\ (t.qmesg[i].FIN => t.FIN_flag)
  <2>1. CASE i = m + 1
    <3>1. t.qmesg[i] = msg /\ QueueEnds(t)[i - 1] = s.next_absseq
      <4>1. QueueEnds(s)[m] = s.next_absseq
        BY DEF SoundSender, QueueCovers, m
      <4> QED
        BY <1>1, <1>6, <1>8, <2>1, <4>1
    <3>3. s.next_absseq + One(msg.SYN) - 1 = popped
      BY <1>1, <1>5, <1>5a, <1>5b
    <3>4. Len(msg.payload) = n
      BY DEF n
    <3> QED
      BY <1>2, <1>4, <1>6, <1>8, <1>5b, <2>1, <3>1, <3>3, <3>4 DEF CarriesItsPlace
  <2>2. CASE i # m + 1
    <3>1. i \in 1 .. m /\ i - 1 \in 0 .. m
      BY <1>1, <1>8, <2>2
    <3>2. t.qmesg[i] = s.qmesg[i] /\ QueueEnds(t)[i - 1] = QueueEnds(s)[i - 1]
      BY <1>6, <1>8, <3>1
    <3>3. CarriesItsPlace(s, i) /\ ~s.qmesg[i].FIN
      BY <3>1 DEF SendsStream, QueueCarries, m
    <3> QED
      BY <1>6, <3>2, <3>3 DEF CarriesItsPlace
  <2> QED
    BY <2>1, <2>2
<1>10. QueueCarries(t)
  BY <1>6, <1>9 DEF QueueCarries
<1> QED
  BY <1>4, <1>6, <1>7, <1>10 DEF SendsStream, t, msg

(***************************************************************************)
(* A turn of push, and so a call of it, sends the stream on.               *)
(***************************************************************************)
LEMMA PushOnceSendsStream ==
    ASSUME NEW s \in Sender, NEW c \in Pushing(s), SendsStream(c.sender)
    PROVE  SendsStream(PushOnce(c).sender)
<1> DEFINE t   == c.sender
           msg == NextMessage(t)
           stop == Window(t) <= t.total_outstandings \/ t.FIN_flag \/ SeqLength(msg) = 0
<1>1. SoundSender(t) /\ t \in Sender
  BY DEF Pushing
<1>2. CASE stop
  BY <1>2 DEF PushOnce
<1>3. CASE ~stop
  <2>1. Window(t) > t.total_outstandings /\ ~t.FIN_flag /\ SeqLength(msg) # 0
    BY <1>1, <1>3, WindowType DEF Sender
  <2>2. SendsStream(Sent(t, msg))
    BY <1>1, <2>1, SentSendsStream
  <2>3. PushOnce(c).sender = Sent(t, msg)
    BY <1>3 DEF PushOnce
  <2> QED
    BY <2>2, <2>3
<1> QED
  BY <1>2, <1>3

(***************************************************************************)
(* push sends the stream in order: after it the queue holds the            *)
(* consecutive messages up to next_absseq.                                 *)
(***************************************************************************)
LEMMA PushSendsStream ==
    ASSUME NEW s, SoundSender(s), SendsStream(s)
    PROVE  SendsStream(Push(s).sender)
<1> DEFINE w == Window(s)
           T == PushTurns(s)
           S == {i \in 0 .. w : SendsStream(T[i].sender)}
<1>1. s \in Sender /\ w \in Nat
  BY WindowType DEF SoundSender
<1>2. /\ T[0] = Quiet(s)
      /\ \A i \in 1 .. w : T[i] = PushOnce(T[i - 1])
      /\ \A i \in 0 .. w : T[i] \in Pushing(s)
  BY PushTurnsUnfold
<1> HIDE DEF T, w
<1>3. 0 \in S
  BY <1>1, <1>2 DEF Quiet
<1>4. ASSUME NEW i \in S, i < w PROVE i + 1 \in S
  <2>1. i + 1 \in 1 .. w /\ (i + 1) - 1 = i /\ i \in 0 .. w
    BY <1>1, <1>4
  <2>2. T[i + 1] = PushOnce(T[i]) /\ T[i] \in Pushing(s) /\ SendsStream(T[i].sender)
    BY <1>2, <2>1
  <2>3. SendsStream(PushOnce(T[i]).sender)
    BY <1>1, <2>2, PushOnceSendsStream
  <2> QED
    BY <2>1, <2>2, <2>3
<1>5. S = 0 .. w
  <2>1. S \in SUBSET (0 .. w)
    OBVIOUS
  <2> HIDE DEF S
  <2> QED
    BY <1>1, <1>3, <1>4, <2>1, BoundedInduction
<1> QED
  BY <1>1, <1>5 DEF Push, T, w

(***************************************************************************)
(* What an acknowledgment leaves in the queue is still in its place.       *)
(***************************************************************************)
LEMMA AckedSendsStream ==
    ASSUME NEW s, SoundSender(s), SendsStream(s), NEW absseq \in Int
    PROVE  SendsStream(Acked(s, absseq))
<1> DEFINE n    == FullyAcked(s, absseq)
           m    == Len(s.qmesg)
           left == SubSeq(s.qmesg, n + 1, m)
           t    == Acked(s, absseq)
           ack  == QueueEnds(s)[n]
<1>1. /\ s \in Sender /\ s.qmesg \in Seq(SenderMessage) /\ s.ack_absseq \in Nat
      /\ m \in Nat /\ n \in 0 .. m
  BY FullyAckedStops, LenIsNat DEF SoundSender, Sender
<1>2. CASE absseq > s.next_absseq \/ n = 0
  BY <1>2 DEF Acked
<1>3. CASE ~(absseq > s.next_absseq \/ n = 0)
  <2>1. /\ t.input = s.input /\ t.SYN_flag = s.SYN_flag /\ t.FIN_flag = s.FIN_flag
        /\ t.next_absseq = s.next_absseq /\ t.isn = s.isn
        /\ t.qmesg = left /\ t.ack_absseq = ack
    BY <1>1, <1>3 DEF Acked, Sender, QueueEnds
  <2>2. Len(left) = m - n /\ \A i \in 1 .. m - n : left[i] = s.qmesg[n + i]
    BY <1>1, SuffixProperties
  <2>3. \A i \in 0 .. m - n : QueueEnds(t)[i] = QueueEnds(s)[n + i]
    BY <1>1, <2>1, EndsSuffix DEF QueueEnds
  <2> HIDE DEF n, m, left, t, ack
  <2>4. ASSUME NEW i \in 1 .. Len(left)
        PROVE  CarriesItsPlace(t, i) /\ (t.qmesg[i].FIN => t.FIN_flag)
    <3>1. /\ i \in 1 .. m - n /\ i - 1 \in 0 .. m - n /\ n + i \in 1 .. m
          /\ n + (i - 1) = (n + i) - 1 /\ (n + i = m <=> i = m - n)
      <4>1. i \in 1 .. m - n
        BY <2>2
      <4>2. m \in Nat /\ n \in Int /\ i \in Int /\ 0 <= n /\ n <= m /\ 1 <= i /\ i <= m - n
        BY <1>1, <4>1
      <4> QED
        BY <4>1, <4>2
    <3>2. t.qmesg[i] = s.qmesg[n + i] /\ QueueEnds(t)[i - 1] = QueueEnds(s)[(n + i) - 1]
      BY <2>1, <2>2, <2>3, <3>1
    <3>3. CarriesItsPlace(s, n + i) /\ (s.qmesg[n + i].FIN => s.FIN_flag)
      BY <3>1 DEF SendsStream, QueueCarries, m
    <3>4. s.qmesg[n + i].FIN => n + i = m
      BY <3>3 DEF CarriesItsPlace, m
    <3> QED
      BY <2>1, <2>2, <3>1, <3>2, <3>3, <3>4 DEF CarriesItsPlace
  <2>5. QueueCarries(t)
    BY <2>1, <2>4 DEF QueueCarries
  <2>6. SentSoFar(t)
    BY <2>1 DEF SendsStream, SentSoFar
  <2> QED
    BY <2>1, <2>5, <2>6 DEF SendsStream, t
<1> QED
  BY <1>2, <1>3

(***************************************************************************)
(* receive removes messages from the front of the queue only.              *)
(***************************************************************************)
LEMMA ReceiveReplySendsStream ==
    ASSUME NEW s, SoundSender(s), SendsStream(s), NEW msg \in ReceiverMessage
    PROVE  SendsStream(ReceiveReply(s, msg))
<1> DEFINE t == [s EXCEPT !.wdsize = msg.window_size]
           e == [s EXCEPT !.input = SetError(s.input)]
           a == Unwrap(msg.ackno, s.isn, s.next_absseq)
<1>1. /\ s \in Sender /\ s.isn \in Wrap32 /\ s.next_absseq \in Nat
      /\ SoundStream(s.input) /\ s.input \in Stream /\ OrderlyBuffer(s.input)
  BY DEF SoundSender, Sender, SendsStream
<1>2. msg.window_size \in Nat /\ msg.ackno \in Wrap32 \cup {None}
  BY DEF ReceiverMessage
<1>3. /\ t \in Sender /\ t.input = s.input /\ t.qmesg = s.qmesg /\ t.isn = s.isn
      /\ t.ack_absseq = s.ack_absseq /\ t.next_absseq = s.next_absseq
      /\ t.total_outstandings = s.total_outstandings /\ t.timer = s.timer
      /\ t.SYN_flag = s.SYN_flag /\ t.FIN_flag = s.FIN_flag
  BY <1>1, <1>2 DEF Sender
<1> HIDE DEF t
<1>4. SoundSender(t)
  BY <1>1, <1>3, RestChangedSound
<1>5. SendsStream(t)
  BY <1>1, <1>3, RestChangedSendsStream
<1>6. SendsStream(e)
  BY <1>1, FlagsKeepOrder, InputChangedSendsStream
<1> HIDE DEF e
<1>7. CASE s.input.error
  BY <1>7 DEF ReceiveReply
<1>8. CASE ~s.input.error /\ msg.RST
  BY <1>6, <1>8 DEF ReceiveReply, e
<1>9. CASE ~s.input.error /\ ~msg.RST /\ msg.ackno = None
  BY <1>5, <1>9 DEF ReceiveReply, t
<1>10. CASE ~s.input.error /\ ~msg.RST /\ msg.ackno # None
  <2>1. a \in Int
    BY <1>1, <1>2, <1>10, UnwrapType
  <2>2. ReceiveReply(s, msg) = Acked(t, a)
    BY <1>3, <1>10 DEF ReceiveReply, t
  <2> HIDE DEF a
  <2> QED
    BY <1>4, <1>5, <2>1, <2>2, AckedSendsStream
<1> QED
  BY <1>7, <1>8, <1>9, <1>10

(***************************************************************************)
(* tick retransmits and keeps the queue.                                   *)
(***************************************************************************)
LEMMA TickSendsStream ==
    ASSUME NEW s, SoundSender(s), SendsStream(s), NEW ms \in Nat
    PROVE  SendsStream(Tick(s, ms).sender)
<1> DEFINE t == Tick(s, ms).sender
<1>1. s \in Sender /\ OrderlyBuffer(s.input)
  BY DEF SoundSender, SendsStream
<1>2. /\ t.isn = s.isn /\ t.qmesg = s.qmesg /\ t.ack_absseq = s.ack_absseq
      /\ t.SYN_flag = s.SYN_flag /\ t.FIN_flag = s.FIN_flag
      /\ t.next_absseq = s.next_absseq /\ t.input = s.input
  BY <1>1 DEF Tick, Quiet, BackedOff, Sender
<1> HIDE DEF t
<1>3. SendsStream(t)
  BY <1>1, <1>2, RestChangedSendsStream
<1> QED
  BY <1>3 DEF t

-----------------------------------------------------------------------------
(***************************************************************************)
(* Doubled is what its definition says.                                    *)
(***************************************************************************)
LEMMA DoubledUnfold ==
    /\ Doubled \in [Nat -> Nat]
    /\ Doubled[0] = InitialRTO
    /\ \A k \in Nat : Doubled[k + 1] = Lesser(2 * Doubled[k], RTOCap)
<1> DEFINE f == [k \in Nat |-> [x \in Nat |-> Lesser(2 * x, RTOCap)]]
           D == Doubled
<1>1. InitialRTO \in Nat /\ RTOCap \in Nat
  BY SenderAssumption
<1>2. \A x \in Nat : Lesser(2 * x, RTOCap) \in Nat
  BY <1>1 DEF Lesser
<1>3. f \in [Nat -> [Nat -> Nat]]
  BY <1>2
<1>4. PICK g \in [Nat -> Nat] : IsEndlessIteration(g, f, InitialRTO)
  <2> HIDE DEF f
  <2> QED
    BY <1>1, <1>3, IteratesForever, Zenon
<1>5. ASSUME NEW k \in Nat \ {0} PROVE g[k] = Lesser(2 * g[k - 1], RTOCap)
  <2>1. g[k - 1] \in Nat
    OBVIOUS
  <2> QED
    BY <1>4, <2>1 DEF IsEndlessIteration
<1>6. g = [k \in Nat |-> IF k = 0 THEN InitialRTO ELSE Lesser(2 * g[k - 1], RTOCap)]
  <2>1. \A k \in Nat : g[k] = IF k = 0 THEN InitialRTO ELSE Lesser(2 * g[k - 1], RTOCap)
    BY <1>4, <1>5 DEF IsEndlessIteration
  <2> QED
    BY <2>1
<1>7. D = [k \in Nat |-> IF k = 0 THEN InitialRTO ELSE Lesser(2 * D[k - 1], RTOCap)]
  BY <1>6 DEF Doubled
<1> HIDE DEF D
<1>8. D[0] = InitialRTO
  BY <1>7
<1>9. \A k \in Nat : D[k + 1] = Lesser(2 * D[k], RTOCap)
  <2> TAKE k \in Nat
  <2>1. k + 1 \in Nat /\ k + 1 # 0 /\ (k + 1) - 1 = k
    OBVIOUS
  <2> QED
    BY <1>7, <2>1
<1>10. \A k \in Nat : D[k] \in Nat
  <2> DEFINE S == {k \in Nat : D[k] \in Nat}
  <2>1. 0 \in S
    BY <1>1, <1>8
  <2>2. ASSUME NEW k \in S PROVE k + 1 \in S
    BY <1>2, <1>9
  <2>3. S = Nat
    <3>1. S \in SUBSET Nat
      OBVIOUS
    <3> HIDE DEF S
    <3> QED
      BY <2>1, <2>2, <3>1, SetInduction
  <2> QED
    BY <2>3
<1> QED
  BY <1>7, <1>8, <1>9, <1>10 DEF D

(***************************************************************************)
(* The RTO and the retransmission count agree.                             *)
(***************************************************************************)
BackoffMatches(s) ==
    /\ s.total_retransmissions < RetxCap =>
           s.timer.rto_ms = Doubled[s.total_retransmissions]
    /\ s.qmesg = << >> => s.total_retransmissions = 0

(***************************************************************************)
(* A new sender has not backed off.                                        *)
(***************************************************************************)
LEMMA NewSenderBackoff ==
    ASSUME NEW capacity, NEW isn
    PROVE  BackoffMatches(NewSender(capacity, isn))
BY DoubledUnfold DEF BackoffMatches, NewSender, NewTimer

(***************************************************************************)
(* One turn of push may start the timer; it leaves the RTO and the         *)
(* retransmission count as they are.                                       *)
(***************************************************************************)
LEMMA PushOnceBackoff ==
    ASSUME NEW s \in Sender, NEW c \in Pushing(s), BackoffMatches(c.sender)
    PROVE  BackoffMatches(PushOnce(c).sender)
<1> DEFINE t   == c.sender
           msg == NextMessage(t)
           u   == Sent(t, msg)
           stop == Window(t) <= t.total_outstandings \/ t.FIN_flag \/ SeqLength(msg) = 0
<1>1. t \in Sender /\ t.timer \in Timer /\ t.qmesg \in Seq(SenderMessage)
  BY DEF Pushing, Sender
<1>2. CASE stop
  BY <1>2 DEF PushOnce
<1>3. CASE ~stop
  <2>1. /\ u.total_retransmissions = t.total_retransmissions
        /\ u.timer = TimerAfterSend(t.timer) /\ u.qmesg = Append(t.qmesg, msg)
    BY <1>1 DEF Sent, Sender
  <2>2. u.timer.rto_ms = t.timer.rto_ms
    BY <1>1, <2>1 DEF TimerAfterSend, Start, Timer
  <2>3. u.qmesg # << >>
    BY <1>1, <2>1
  <2> HIDE DEF u
  <2>4. BackoffMatches(u)
    BY <2>1, <2>2, <2>3 DEF BackoffMatches
  <2> QED
    BY <1>3, <2>4 DEF PushOnce, u
<1> QED
  BY <1>2, <1>3

(***************************************************************************)
(* push keeps RTO and retransmission count together.                       *)
(***************************************************************************)
LEMMA PushBackoff ==
    ASSUME NEW s, SoundSender(s), BackoffMatches(s)
    PROVE  BackoffMatches(Push(s).sender)
<1> DEFINE w == Window(s)
           T == PushTurns(s)
           S == {i \in 0 .. w : BackoffMatches(T[i].sender)}
<1>1. s \in Sender /\ w \in Nat
  BY WindowType DEF SoundSender
<1>2. /\ T[0] = Quiet(s)
      /\ \A i \in 1 .. w : T[i] = PushOnce(T[i - 1])
      /\ \A i \in 0 .. w : T[i] \in Pushing(s)
  BY PushTurnsUnfold
<1> HIDE DEF T, w
<1>3. 0 \in S
  BY <1>1, <1>2 DEF Quiet
<1>4. ASSUME NEW i \in S, i < w PROVE i + 1 \in S
  <2>1. i + 1 \in 1 .. w /\ (i + 1) - 1 = i /\ i \in 0 .. w
    BY <1>1, <1>4
  <2>2. T[i + 1] = PushOnce(T[i]) /\ T[i] \in Pushing(s) /\ BackoffMatches(T[i].sender)
    BY <1>2, <2>1
  <2>3. BackoffMatches(PushOnce(T[i]).sender)
    BY <1>1, <2>2, PushOnceBackoff
  <2> QED
    BY <2>1, <2>2, <2>3
<1>5. S = 0 .. w
  <2>1. S \in SUBSET (0 .. w)
    OBVIOUS
  <2> HIDE DEF S
  <2> QED
    BY <1>1, <1>3, <1>4, <2>1, BoundedInduction
<1> QED
  BY <1>1, <1>5 DEF Push, T, w

(***************************************************************************)
(* The application does not touch the timer.                               *)
(***************************************************************************)
LEMMA InputChangedBackoff ==
    ASSUME NEW s \in Sender, BackoffMatches(s), NEW input
    PROVE  BackoffMatches([s EXCEPT !.input = input])
BY DEF BackoffMatches, Sender

(***************************************************************************)
(* An acknowledgment of whole messages resets RTO and retransmission count *)
(* together; another one leaves both.                                      *)
(***************************************************************************)
LEMMA AckedBackoff ==
    ASSUME NEW s \in Sender, BackoffMatches(s), NEW absseq \in Int
    PROVE  BackoffMatches(Acked(s, absseq))
<1> DEFINE n == FullyAcked(s, absseq)
           left == SubSeq(s.qmesg, n + 1, Len(s.qmesg))
           t == Acked(s, absseq)
<1>1. CASE absseq > s.next_absseq \/ n = 0
  BY <1>1 DEF Acked
<1>2. CASE ~(absseq > s.next_absseq \/ n = 0)
  <2>1. s.timer \in Timer
    BY DEF Sender
  <2>2. t.total_retransmissions = 0 /\ t.timer = TimerAfterAck(s.timer, left)
    BY <1>2 DEF Acked, Sender
  <2> HIDE DEF t, left
  <2>3. t.timer.rto_ms = InitialRTO
    BY <2>1, <2>2 DEF TimerAfterAck, Start, Stop, Reload, Timer
  <2>4. BackoffMatches(t)
    BY <2>2, <2>3, DoubledUnfold DEF BackoffMatches
  <2> QED
    BY <2>4 DEF t
<1> QED
  BY <1>1, <1>2

(***************************************************************************)
(* receive keeps RTO and retransmission count together.                    *)
(***************************************************************************)
LEMMA ReceiveReplyBackoff ==
    ASSUME NEW s \in Sender, BackoffMatches(s), NEW msg \in ReceiverMessage
    PROVE  BackoffMatches(ReceiveReply(s, msg))
<1> DEFINE t == [s EXCEPT !.wdsize = msg.window_size]
           e == [s EXCEPT !.input = SetError(s.input)]
           a == Unwrap(msg.ackno, s.isn, s.next_absseq)
<1>1. msg.window_size \in Nat /\ msg.ackno \in Wrap32 \cup {None}
  BY DEF ReceiverMessage
<1>2. /\ t \in Sender /\ t.total_retransmissions = s.total_retransmissions
      /\ t.timer = s.timer /\ t.qmesg = s.qmesg /\ t.input = s.input
      /\ t.isn = s.isn /\ t.next_absseq = s.next_absseq
  BY <1>1 DEF Sender
<1>3. e.total_retransmissions = s.total_retransmissions /\ e.timer = s.timer /\ e.qmesg = s.qmesg
  BY DEF Sender
<1> HIDE DEF t, e
<1>4. BackoffMatches(t) /\ BackoffMatches(e)
  BY <1>2, <1>3 DEF BackoffMatches
<1>5. CASE s.input.error
  BY <1>5 DEF ReceiveReply
<1>6. CASE ~s.input.error /\ msg.RST
  BY <1>4, <1>6 DEF ReceiveReply, e
<1>7. CASE ~s.input.error /\ ~msg.RST /\ msg.ackno = None
  BY <1>4, <1>7 DEF ReceiveReply, t
<1>8. CASE ~s.input.error /\ ~msg.RST /\ msg.ackno # None
  <2>1. a \in Int
    <3>1. s.isn \in Wrap32 /\ s.next_absseq \in Nat
      BY DEF Sender
    <3> QED
      BY <1>1, <1>8, <3>1, UnwrapType
  <2>2. ReceiveReply(s, msg) = Acked(t, a)
    BY <1>2, <1>8 DEF ReceiveReply, t
  <2> HIDE DEF a
  <2> QED
    BY <1>2, <1>4, <2>1, <2>2, AckedBackoff
<1> QED
  BY <1>5, <1>6, <1>7, <1>8

(***************************************************************************)
(* A retransmission doubles the one and counts up the other, or, when the  *)
(* peer's window is closed, touches neither.                               *)
(***************************************************************************)
LEMMA TickBackoff ==
    ASSUME NEW s \in Sender, BackoffMatches(s), NEW ms \in Nat
    PROVE  BackoffMatches(Tick(s, ms).sender)
<1> DEFINE t == [s EXCEPT !.timer = Advance(s.timer, ms)]
           b == BackedOff(t)
           k == s.total_retransmissions
<1>1. s.timer \in Timer /\ s.timer.rto_ms \in Nat /\ k \in Nat
  BY DEF Sender, Timer
<1>2. /\ t.timer = Advance(s.timer, ms) /\ t.total_retransmissions = k
      /\ t.qmesg = s.qmesg /\ t.wdsize = s.wdsize
  BY DEF Sender
<1>3. Advance(s.timer, ms) \in Timer /\ Advance(s.timer, ms).rto_ms = s.timer.rto_ms
  BY <1>1 DEF Advance, Timer
<1>4. t \in Sender
  BY <1>3 DEF Sender
<1> HIDE DEF t, k
<1>5. BackoffMatches(t)
  BY <1>2, <1>3 DEF BackoffMatches, k
<1>6. ASSUME t.qmesg # << >> PROVE BackoffMatches(b)
  <2>1. CASE t.wdsize = 0
    <3>1. b.timer = Reset(t.timer) /\ b.total_retransmissions = k /\ b.qmesg = t.qmesg
      BY <1>2, <1>4, <2>1 DEF BackedOff, Sender
    <3>2. b.timer.rto_ms = t.timer.rto_ms
      BY <1>2, <1>3, <3>1 DEF Reset, Timer
    <3> QED
      BY <1>2, <1>5, <3>1, <3>2 DEF BackoffMatches
  <2>2. CASE t.wdsize # 0
    <3>1. /\ b.timer = Reset(Backoff(t.timer)) /\ b.qmesg = t.qmesg
          /\ b.total_retransmissions = Lesser(k + 1, RetxCap)
      BY <1>2, <1>4, <2>2 DEF BackedOff, Sender
    <3>2. b.timer.rto_ms = Lesser(2 * s.timer.rto_ms, RTOCap)
      BY <1>2, <1>3, <3>1 DEF Reset, Backoff, Timer
    <3> HIDE DEF b
    <3>3. ASSUME b.total_retransmissions < RetxCap
          PROVE  b.timer.rto_ms = Doubled[b.total_retransmissions]
      <4>1. RetxCap \in Nat /\ k + 1 \in Nat /\ k \in Nat
        BY <1>1, SenderAssumption DEF k
      <4>2. b.total_retransmissions = k + 1 /\ k < RetxCap
        <5>1. ~(RetxCap < RetxCap)
          BY <4>1
        <5>2. k + 1 <= RetxCap
          BY <3>1, <3>3, <5>1 DEF Lesser
        <5> QED
          BY <3>1, <4>1, <5>2 DEF Lesser
      <4>3. s.timer.rto_ms = Doubled[k]
        BY <4>2 DEF BackoffMatches, k
      <4>4. Doubled[k + 1] = Lesser(2 * Doubled[k], RTOCap)
        BY <1>1, DoubledUnfold
      <4> QED
        BY <3>2, <4>2, <4>3, <4>4
    <3> QED
      BY <1>6, <3>1, <3>3 DEF BackoffMatches
  <2> QED
    BY <2>1, <2>2
<1>7. Tick(s, ms).sender \in {t, b} /\ (t.qmesg = << >> => Tick(s, ms).sender = t)
  BY DEF Tick, Quiet, t
<1> QED
  BY <1>5, <1>6, <1>7

-----------------------------------------------------------------------------
(***************************************************************************)
(* A turn of push that sends nothing stops the loop.  Every other turn     *)
(* sends at least one number, so by the last one the window is full or the *)
(* loop has stopped.                                                       *)
(***************************************************************************)
Stopped(s) ==
    Window(s) <= s.total_outstandings \/ s.FIN_flag \/ SeqLength(NextMessage(s)) = 0

(***************************************************************************)
(* The loop of push ends because a turn would send nothing: it is not cut  *)
(* short by the number of its turns.                                       *)
(***************************************************************************)
LEMMA PushStops ==
    ASSUME NEW s, SoundSender(s)
    PROVE  Stopped(Push(s).sender)
<1> DEFINE w == Window(s)
           T == PushTurns(s)
           S == {i \in 0 .. w : Stopped(T[i].sender) \/ T[i].sender.total_outstandings >= i}
<1>1. w \in Nat /\ Quiet(s).sender.total_outstandings \in Nat
  BY WindowType DEF SoundSender, Sender, Quiet
<1>2. /\ T[0] = Quiet(s)
      /\ \A i \in 1 .. w : T[i] = PushOnce(T[i - 1])
      /\ \A i \in 0 .. w : T[i] \in Pushing(s)
  BY PushTurnsUnfold
<1> HIDE DEF T, w
<1>3. 0 \in S
  BY <1>1, <1>2
<1>4. ASSUME NEW i \in S, i < w PROVE i + 1 \in S
  <2> DEFINE t == T[i].sender
             msg == NextMessage(t)
  <2>1. i + 1 \in 1 .. w /\ i + 1 \in 0 .. w /\ (i + 1) - 1 = i /\ i \in 0 .. w
    BY <1>1, <1>4
  <2>2. T[i + 1] = PushOnce(T[i]) /\ T[i] \in Pushing(s)
    BY <1>2, <2>1
  <2>3. SoundSender(t) /\ t.total_outstandings \in Nat /\ Window(t) \in Nat
    BY <2>2, WindowType DEF Pushing, Sender
  <2> HIDE DEF S
  <2>4. CASE Stopped(t)
    <3>1. T[i + 1] = T[i]
      BY <2>2, <2>4 DEF PushOnce, Stopped
    <3> QED
      BY <2>1, <2>4, <3>1 DEF S
  <2>5. CASE ~Stopped(t)
    <3>1. Window(t) > t.total_outstandings /\ SeqLength(msg) # 0
      BY <2>3, <2>5 DEF Stopped
    <3>2. msg \in SenderMessage /\ Len(msg.payload) \in 0 .. Len(t.input.buf)
      BY <2>3, <3>1, NextMessageFits
    <3> HIDE DEF msg
    <3>3. SeqLength(msg) \in Nat
      BY <3>2, SeqLengthType
    <3>4. Sent(t, msg).total_outstandings = t.total_outstandings + SeqLength(msg)
      BY <2>3, <3>1, <3>2, SentSound
    <3>5. T[i + 1].sender = Sent(t, msg)
      BY <2>2, <2>5 DEF PushOnce, Stopped, msg
    <3>6. t.total_outstandings >= i
      BY <2>5 DEF S
    <3>7. T[i + 1].sender.total_outstandings >= i + 1
      BY <2>1, <2>3, <3>1, <3>3, <3>4, <3>5, <3>6
    <3> QED
      BY <2>1, <3>7 DEF S
  <2> QED
    BY <2>4, <2>5
<1>5. S = 0 .. w
  <2>1. S \in SUBSET (0 .. w)
    OBVIOUS
  <2> HIDE DEF S
  <2> QED
    BY <1>1, <1>3, <1>4, <2>1, BoundedInduction
<1>6. Stopped(T[w].sender) \/ T[w].sender.total_outstandings >= w
  <2>1. w \in S
    <3> HIDE DEF S
    <3> QED
      BY <1>1, <1>5
  <2> QED
    BY <2>1
<1>7. Window(T[w].sender) = w /\ T[w].sender.total_outstandings \in Nat
  BY <1>1, <1>2 DEF Pushing, Window, Sender, w
<1> QED
  BY <1>1, <1>6, <1>7 DEF Push, Stopped, T, w

(***************************************************************************)
(* A loop that has stopped short of a full window and of the FIN has       *)
(* nothing to send.                                                        *)
(***************************************************************************)
LEMMA PushLeavesNothingToSend ==
    ASSUME NEW s, SoundSender(s), SendsStream(s), Stopped(s),
           Window(s) > s.total_outstandings, ~s.FIN_flag
    PROVE  s.input.buf = << >> /\ ~s.input.closed /\ s.next_absseq > 0
<1> DEFINE msg  == NextMessage(s)
           n    == Len(msg.payload)
           room == Window(s) - s.total_outstandings - One(msg.SYN)
<1>1. /\ s.total_outstandings \in Nat /\ s.next_absseq \in Nat /\ Window(s) \in Nat
      /\ s.input \in Stream /\ s.input.buf \in Seq(Byte)
  BY WindowType DEF SoundSender, Sender, Stream
<1>2. SeqLength(msg) = 0
  BY <1>1 DEF Stopped
<1>3. /\ msg \in SenderMessage
      /\ msg.SYN = ~s.SYN_flag
      /\ n = Lesser(Lesser(MaxPayload, room), Len(s.input.buf))
      /\ msg.FIN = TakesFin(s, n, room - n)
  BY NextMessageFits
<1> HIDE DEF msg
<1>4. One(msg.SYN) = 0 /\ n = 0 /\ One(msg.FIN) = 0
  <2>1. n \in Nat /\ One(msg.SYN) \in Nat /\ One(msg.FIN) \in Nat
    BY <1>3, LenIsNat DEF SenderMessage, One
  <2> QED
    BY <1>2, <2>1 DEF SeqLength
<1>5. ~msg.SYN /\ ~msg.FIN
  BY <1>4 DEF One
<1>6. s.next_absseq > 0
  BY <1>3, <1>5 DEF SendsStream, SentSoFar
<1>7. room \in Nat /\ room > 0
  BY <1>1, <1>4
<1> HIDE DEF room
<1>8. Len(s.input.buf) = 0
  <2>1. MaxPayload \in Nat /\ MaxPayload > 0 /\ Len(s.input.buf) \in Nat
    BY <1>1, LenIsNat, SenderAssumption
  <2> QED
    BY <1>3, <1>4, <1>7, <2>1 DEF Lesser
<1>9. s.input.buf = << >>
  BY <1>1, <1>8
<1>10. ~IsFinished(PopBytes(s.input, 0))
  <2>1. ~TakesFin(s, n, room - n)
    BY <1>3, <1>5
  <2>2. room - n > 0
    BY <1>4, <1>7
  <2> QED
    BY <1>4, <2>1, <2>2 DEF TakesFin
<1>11. PopBytes(s.input, 0).buf = << >> /\ PopBytes(s.input, 0).closed = s.input.closed
  BY <1>1, <1>9 DEF PopBytes, Stream
<1> QED
  BY <1>6, <1>9, <1>10, <1>11 DEF IsFinished

(***************************************************************************)
(* When push is done nothing it could send is left: no bytes and no FIN    *)
(* while the window has room.                                              *)
(***************************************************************************)
LEMMA PushFinishes ==
    ASSUME NEW s, SoundSender(s), SendsStream(s)
    PROVE  LET t == Push(s).sender
           IN  \/ t.total_outstandings >= Greater(t.wdsize, 1)
               \/ t.FIN_flag
               \/ t.input.buf = << >> /\ ~t.input.closed /\ t.next_absseq > 0
<1> DEFINE t == Push(s).sender
<1>1. SoundSender(t) /\ SendsStream(t) /\ Stopped(t)
  BY PushSound, PushSendsStream, PushStops DEF Pushing
<1>2. Window(t) \in Nat /\ Window(t) = Greater(t.wdsize, 1) /\ t.total_outstandings \in Nat
  BY <1>1, WindowType DEF SoundSender, Sender
<1> HIDE DEF t
<1>3. CASE t.total_outstandings >= Greater(t.wdsize, 1) \/ t.FIN_flag
  BY <1>3 DEF t
<1>4. CASE ~(t.total_outstandings >= Greater(t.wdsize, 1) \/ t.FIN_flag)
  <2>1. Window(t) > t.total_outstandings
    BY <1>2, <1>4
  <2>2. t.input.buf = << >> /\ ~t.input.closed /\ t.next_absseq > 0
    BY <1>1, <1>4, <2>1, PushLeavesNothingToSend
  <2> QED
    BY <2>2 DEF t
<1> QED
  BY <1>3, <1>4

-----------------------------------------------------------------------------
(***************************************************************************)
(* The reassembler and the receiver                                        *)
(***************************************************************************)
(***************************************************************************)
(* An interval that holds the stream's bytes of its range.                 *)
(***************************************************************************)
Chunk ==
    {itv \in [beg_idx : Nat, end_idx : Nat, str : Seq(Byte)] :
        /\ itv.beg_idx < itv.end_idx
        /\ itv.str = BytesFrom(itv.beg_idx, itv.end_idx - itv.beg_idx)}

Within(x, itv) == itv.beg_idx <= x /\ x < itv.end_idx

(***************************************************************************)
(* A list in normal form: in order, with a gap between any two intervals;  *)
(* and the stream indices it holds.                                        *)
(***************************************************************************)
Normal(list) ==
    /\ list \in Seq(Chunk)
    /\ \A i, j \in 1 .. Len(list) : i < j => list[i].end_idx < list[j].beg_idx

Covered(list) == {x \in Nat : \E i \in 1 .. Len(list) : Within(x, list[i])}

(***************************************************************************)
(* What an interval consists of: two indices in order and exactly the      *)
(* bytes between them.                                                     *)
(***************************************************************************)
LEMMA ChunkParts ==
    ASSUME NEW itv \in Chunk
    PROVE  /\ itv.beg_idx \in Nat /\ itv.end_idx \in Nat
           /\ itv.beg_idx < itv.end_idx
           /\ itv.str = BytesFrom(itv.beg_idx, itv.end_idx - itv.beg_idx)
           /\ itv.str \in Seq(Byte)
BY DEF Chunk

(***************************************************************************)
(* The bytes first .. first + n - 1 of the stream make an interval, and so *)
(* do two intervals that touch when the first is cut where the second one  *)
(* starts.                                                                 *)
(***************************************************************************)
LEMMA ChunkFromBytes ==
    ASSUME NEW beg \in Nat, NEW end \in Nat, beg < end
    PROVE  LET itv == Interval(beg, end, BytesFrom(beg, end - beg))
           IN  itv \in Chunk /\ itv.beg_idx = beg /\ itv.end_idx = end
<1>1. end - beg \in Nat
  OBVIOUS
<1>2. BytesFrom(beg, end - beg) \in Seq(Byte)
  BY <1>1, BytesFromType
<1> DEFINE str == BytesFrom(beg, end - beg)
<1> HIDE DEF str
<1>3. Interval(beg, end, str) \in [beg_idx : Nat, end_idx : Nat, str : Seq(Byte)]
  BY <1>2 DEF Interval, str
<1> QED
  BY <1>3 DEF Chunk, Interval, str

(***************************************************************************)
(* Two intervals that overlap or touch make one when the first is cut      *)
(* where the second starts (the string append of the merge).               *)
(***************************************************************************)
LEMMA ChunksJoined ==
    ASSUME NEW a \in Chunk, NEW b \in Chunk,
           a.beg_idx <= b.beg_idx, b.beg_idx <= a.end_idx
    PROVE  LET itv == Interval(a.beg_idx, b.end_idx,
                               SubSeq(a.str, 1, b.beg_idx - a.beg_idx) \o b.str)
           IN  itv \in Chunk /\ itv.beg_idx = a.beg_idx /\ itv.end_idx = b.end_idx
<1> DEFINE p == a.beg_idx
           q == b.beg_idx
           k == q - p
           n == a.end_idx - p
           m == b.end_idx - q
           total == b.end_idx - p
<1>1. /\ p \in Nat /\ q \in Nat /\ b.end_idx \in Nat /\ p < b.end_idx
      /\ n \in Nat /\ m \in Nat /\ k \in Nat /\ k \in 0 .. n /\ q = p + k /\ total = k + m
  BY ChunkParts
<1>2. a.str = BytesFrom(p, n) /\ b.str = BytesFrom(q, m)
  BY ChunkParts
<1> HIDE DEF p, q, k, n, m
<1>3. SubSeq(a.str, 1, k) = BytesFrom(p, k)
  <2>1. SubSeq(BytesFrom(p, n), 1, k) = BytesFrom(p, k)
    BY <1>1, BytesFromParts
  <2> QED
    BY <1>2, <2>1
<1>4. b.str = BytesFrom(p + k, m)
  BY <1>1, <1>2
<1>5. SubSeq(a.str, 1, k) \o b.str = BytesFrom(p, k + m)
  <2>1. BytesFrom(p, k) \o BytesFrom(p + k, m) = BytesFrom(p, k + m)
    BY <1>1, BytesFromJoined
  <2> QED
    BY <1>3, <1>4, <2>1
<1>6. SubSeq(a.str, 1, k) \o b.str = BytesFrom(p, total)
  BY <1>1, <1>5
<1> HIDE DEF total
<1> DEFINE e == b.end_idx
<1>7. e \in Nat /\ p < e /\ total = e - p
  BY <1>1 DEF total
<1> HIDE DEF e
<1>8. /\ Interval(p, e, BytesFrom(p, e - p)) \in Chunk
      /\ Interval(p, e, BytesFrom(p, e - p)).beg_idx = p
      /\ Interval(p, e, BytesFrom(p, e - p)).end_idx = e
  BY <1>1, <1>7, ChunkFromBytes
<1> QED
  BY <1>6, <1>7, <1>8 DEF p, q, k, e

(***************************************************************************)
(* Lengthening the interval before the new one, and absorbing the one      *)
(* after it: the result starts where the first does and ends where the     *)
(* longer one does.                                                        *)
(***************************************************************************)
LEMMA ExtendChunk ==
    ASSUME NEW a \in Chunk, NEW b \in Chunk, a.beg_idx <= b.beg_idx, Touches(a, b)
    PROVE  LET itv == Extend(a, b)
           IN  /\ itv \in Chunk
               /\ itv.beg_idx = a.beg_idx
               /\ itv.end_idx = Greater(a.end_idx, b.end_idx)
<1>1. a.end_idx \in Nat /\ b.end_idx \in Nat /\ b.beg_idx \in Nat /\ b.beg_idx <= a.end_idx
  BY DEF Chunk, Touches
<1>2. CASE a.end_idx <= b.end_idx
  <2> DEFINE itv == Interval(a.beg_idx, b.end_idx,
                             SubSeq(a.str, 1, b.beg_idx - a.beg_idx) \o b.str)
  <2>1. itv \in Chunk /\ itv.beg_idx = a.beg_idx /\ itv.end_idx = b.end_idx
    BY <1>1, ChunksJoined
  <2>2. Extend(a, b) = itv
    BY <1>2 DEF Extend
  <2> HIDE DEF itv
  <2> QED
    BY <1>1, <1>2, <2>1, <2>2 DEF Greater
<1>3. CASE ~(a.end_idx <= b.end_idx)
  BY <1>1, <1>3 DEF Extend, Greater
<1> QED
  BY <1>2, <1>3

(***************************************************************************)
(* Absorbing an interval that touches gives an interval again, which holds *)
(* what the two held.                                                      *)
(***************************************************************************)
LEMMA AbsorbChunk ==
    ASSUME NEW a \in Chunk, NEW b \in Chunk, a.beg_idx <= b.beg_idx, Touches(a, b)
    PROVE  LET itv == Absorb(a, b)
           IN  /\ itv \in Chunk
               /\ itv.beg_idx = a.beg_idx
               /\ itv.end_idx = Greater(a.end_idx, b.end_idx)
<1>1. a.end_idx \in Nat /\ b.end_idx \in Nat /\ b.beg_idx \in Nat /\ b.beg_idx <= a.end_idx
  BY DEF Chunk, Touches
<1>2. CASE b.end_idx > a.end_idx
  <2> DEFINE itv == Interval(a.beg_idx, b.end_idx,
                             SubSeq(a.str, 1, b.beg_idx - a.beg_idx) \o b.str)
  <2>1. itv \in Chunk /\ itv.beg_idx = a.beg_idx /\ itv.end_idx = b.end_idx
    BY <1>1, ChunksJoined
  <2>2. Absorb(a, b) = itv
    BY <1>2 DEF Absorb
  <2> HIDE DEF itv
  <2> QED
    BY <1>1, <1>2, <2>1, <2>2 DEF Greater
<1>3. CASE ~(b.end_idx > a.end_idx)
  BY <1>1, <1>3 DEF Absorb, Greater
<1> QED
  BY <1>2, <1>3

(***************************************************************************)
(* Normal lists: their front and their back are normal, and so is one put  *)
(* behind another with a gap between them.                                 *)
(***************************************************************************)
LEMMA NormalFront ==
    ASSUME NEW list, Normal(list), NEW n \in 0 .. Len(list)
    PROVE  LET front == SubSeq(list, 1, n)
           IN  Normal(front) /\ Len(front) = n /\ \A i \in 1 .. n : front[i] = list[i]
<1> DEFINE front == SubSeq(list, 1, n)
<1>1. list \in Seq(Chunk) /\ Len(list) \in Nat
  BY DEF Normal
<1>2. front \in Seq(Chunk) /\ Len(front) = n /\ \A i \in 1 .. n : front[i] = list[i]
  BY <1>1, PrefixProperties
<1> HIDE DEF front
<1>3. \A i, j \in 1 .. n : i < j => front[i].end_idx < front[j].beg_idx
  BY <1>1, <1>2 DEF Normal
<1> QED
  BY <1>2, <1>3 DEF Normal, front

(***************************************************************************)
(* The back of a normal list is normal.                                    *)
(***************************************************************************)
LEMMA NormalBack ==
    ASSUME NEW list, Normal(list), NEW n \in 0 .. Len(list)
    PROVE  LET back == SubSeq(list, n + 1, Len(list))
           IN  /\ Normal(back) /\ Len(back) = Len(list) - n
               /\ \A i \in 1 .. Len(list) - n : back[i] = list[n + i]
<1> DEFINE back == SubSeq(list, n + 1, Len(list))
           m == Len(list) - n
<1>1. list \in Seq(Chunk) /\ Len(list) \in Nat
  BY DEF Normal
<1>2. back \in Seq(Chunk) /\ Len(back) = m /\ \A i \in 1 .. m : back[i] = list[n + i]
  BY <1>1, SuffixProperties
<1> HIDE DEF back
<1>3. ASSUME NEW i \in 1 .. m, NEW j \in 1 .. m, i < j
      PROVE  back[i].end_idx < back[j].beg_idx
  <2>1. n + i \in 1 .. Len(list) /\ n + j \in 1 .. Len(list) /\ n + i < n + j
    BY <1>1, <1>3
  <2>2. list[n + i].end_idx < list[n + j].beg_idx
    BY <2>1 DEF Normal
  <2> QED
    BY <1>2, <2>2
<1> QED
  BY <1>2, <1>3 DEF Normal, back

(***************************************************************************)
(* Two normal lists with a gap between them make a normal list, which      *)
(* holds what the two hold.                                                *)
(***************************************************************************)
LEMMA NormalJoined ==
    ASSUME NEW a, Normal(a), NEW b, Normal(b),
           \A i \in 1 .. Len(a), j \in 1 .. Len(b) : a[i].end_idx < b[j].beg_idx
    PROVE  /\ Normal(a \o b)
           /\ Covered(a \o b) = Covered(a) \cup Covered(b)
<1> DEFINE n == Len(a)
           m == Len(b)
           list == a \o b
<1>1. a \in Seq(Chunk) /\ b \in Seq(Chunk) /\ n \in Nat /\ m \in Nat
  BY DEF Normal
<1>2. /\ list \in Seq(Chunk) /\ Len(list) = n + m
      /\ \A i \in 1 .. n : list[i] = a[i]
      /\ \A i \in 1 .. m : list[n + i] = b[i]
  BY <1>1
<1> HIDE DEF list, n, m
<1>5. ASSUME NEW i \in 1 .. Len(list), NEW j \in 1 .. Len(list), i < j
      PROVE  list[i].end_idx < list[j].beg_idx
  <2>1. CASE j <= n
    <3>1. i \in 1 .. n /\ j \in 1 .. n
      BY <1>1, <1>5, <2>1
    <3> QED
      BY <1>2, <1>5, <3>1 DEF Normal, n
  <2>2. CASE i <= n /\ j > n
    <3> DEFINE k == j - n
    <3>1. i \in 1 .. n /\ k \in 1 .. m /\ j = n + k
      BY <1>1, <1>2, <2>2
    <3> HIDE DEF k
    <3>2. list[i] = a[i] /\ list[j] = b[k]
      BY <1>2, <3>1
    <3> QED
      BY <3>1, <3>2 DEF n, m
  <2>3. CASE i > n
    <3> DEFINE k == i - n
               l == j - n
    <3>1. k \in 1 .. m /\ l \in 1 .. m /\ i = n + k /\ j = n + l /\ k < l
      BY <1>1, <1>2, <1>5, <2>3
    <3> HIDE DEF k, l
    <3>2. list[i] = b[k] /\ list[j] = b[l]
      BY <1>2, <3>1
    <3> QED
      BY <3>1, <3>2 DEF Normal, m
  <2> QED
    BY <1>1, <1>2, <2>1, <2>2, <2>3
<1>6. ASSUME NEW x \in Nat
      PROVE  x \in Covered(list) <=> x \in Covered(a) \/ x \in Covered(b)
  <2>1. ASSUME NEW i \in 1 .. Len(list), Within(x, list[i])
        PROVE  x \in Covered(a) \/ x \in Covered(b)
    <3>1. CASE i <= n
      <4>1. i \in 1 .. n /\ Within(x, a[i])
        BY <1>1, <1>2, <2>1, <3>1
      <4> QED
        BY <4>1 DEF Covered, n
    <3>2. CASE i > n
      <4>1. i - n \in 1 .. m /\ i = n + (i - n)
        BY <1>1, <1>2, <3>2
      <4>2. Within(x, b[i - n])
        BY <1>2, <2>1, <4>1
      <4> QED
        BY <4>1, <4>2 DEF Covered, m
    <3> QED
      BY <1>1, <1>2, <3>1, <3>2
  <2>2. ASSUME NEW i \in 1 .. n, Within(x, a[i]) PROVE x \in Covered(list)
    <3>1. i \in 1 .. Len(list) /\ Within(x, list[i])
      BY <1>1, <1>2, <2>2
    <3> QED
      BY <3>1 DEF Covered
  <2>3. ASSUME NEW i \in 1 .. m, Within(x, b[i]) PROVE x \in Covered(list)
    <3>1. n + i \in 1 .. Len(list) /\ Within(x, list[n + i])
      BY <1>1, <1>2, <2>3
    <3> QED
      BY <3>1 DEF Covered
  <2> QED
    BY <2>1, <2>2, <2>3 DEF Covered, n, m
<1>7. Covered(list) = Covered(a) \cup Covered(b)
  BY <1>6 DEF Covered
<1> QED
  BY <1>2, <1>5, <1>7 DEF Normal, list

-----------------------------------------------------------------------------
(***************************************************************************)
(* The merge loop.  Grown is what its recursive definition says, and stays *)
(* an interval of the stream that starts where the new one does.           *)
(***************************************************************************)
Mergeable(itv, after) ==
    /\ itv \in Chunk /\ Normal(after)
    /\ \A k \in 1 .. Len(after) : itv.beg_idx <= after[k].beg_idx

(***************************************************************************)
(* One turn of the merge loop: an interval grows by the next one of the    *)
(* list.                                                                   *)
(***************************************************************************)
LEMMA GrownUnfold ==
    ASSUME NEW itv, NEW after, Mergeable(itv, after)
    PROVE  LET grown == Grown(itv, after)
               n     == Len(after)
           IN  /\ grown[0] = itv
               /\ \A k \in 0 .. n : grown[k] \in Chunk /\ grown[k].beg_idx = itv.beg_idx
               /\ \A k \in 1 .. n :
                      grown[k] = IF Touches(grown[k - 1], after[k])
                                 THEN Absorb(grown[k - 1], after[k]) ELSE grown[k - 1]
<1> DEFINE n == Len(after)
           G == {g \in Chunk : g.beg_idx = itv.beg_idx}
           f == [k \in 1 .. n |->
                   [g \in G |-> IF Touches(g, after[k]) THEN Absorb(g, after[k]) ELSE g]]
           grown == Grown(itv, after)
<1>1. n \in Nat /\ itv \in G /\ \A k \in 1 .. n : after[k] \in Chunk
  BY DEF Mergeable, Normal
<1>2. ASSUME NEW k \in 1 .. n, NEW g \in G, Touches(g, after[k])
      PROVE  Absorb(g, after[k]) \in G
  <2>1. g.beg_idx <= after[k].beg_idx /\ after[k] \in Chunk
    BY <1>1 DEF Mergeable
  <2> QED
    BY <1>2, <2>1, AbsorbChunk
<1>3. f \in [1 .. n -> [G -> G]]
  BY <1>2
<1> HIDE DEF n
<1>4. PICK h \in [0 .. n -> G] : IsIteration(h, n, f, itv)
  <2> HIDE DEF f, G
  <2> QED
    BY <1>1, <1>3, Iterates, Zenon
<1>5. ASSUME NEW k \in 1 .. n
      PROVE  h[k] = IF Touches(h[k - 1], after[k])
                    THEN Absorb(h[k - 1], after[k]) ELSE h[k - 1]
  <2>1. h[k - 1] \in G
    BY <1>1, <1>4
  <2>2. h[k] = f[k][h[k - 1]]
    BY <1>4 DEF IsIteration
  <2> HIDE DEF G
  <2> QED
    BY <2>1, <2>2
<1>6. h = [k \in 0 .. n |->
             IF k = 0 THEN itv
             ELSE IF Touches(h[k - 1], after[k]) THEN Absorb(h[k - 1], after[k])
             ELSE h[k - 1]]
  <2> HIDE DEF f, G
  <2>1. h = [k \in 0 .. n |-> h[k]]
    BY <1>4
  <2>2. h[0] = itv
    BY <1>4 DEF IsIteration
  <2> QED
    BY <1>1, <1>5, <2>1, <2>2
<1>7. grown = [k \in 0 .. n |->
             IF k = 0 THEN itv
             ELSE IF Touches(grown[k - 1], after[k]) THEN Absorb(grown[k - 1], after[k])
             ELSE grown[k - 1]]
  BY <1>6 DEF Grown, n
<1> HIDE DEF grown
<1>8. grown[0] = itv
  BY <1>1, <1>7
<1>9. ASSUME NEW k \in 1 .. n
      PROVE  grown[k] = IF Touches(grown[k - 1], after[k])
                        THEN Absorb(grown[k - 1], after[k]) ELSE grown[k - 1]
  BY <1>1, <1>7
<1>10. \A k \in 0 .. n : grown[k] \in G
  <2> DEFINE S == {k \in 0 .. n : grown[k] \in G}
  <2>1. 0 \in S
    BY <1>1, <1>8
  <2>2. ASSUME NEW k \in S, k < n PROVE k + 1 \in S
    <3>1. k + 1 \in 1 .. n /\ (k + 1) - 1 = k /\ k + 1 \in 0 .. n /\ grown[k] \in G
      BY <1>1, <2>2
    <3>2. grown[k + 1] = IF Touches(grown[k], after[k + 1])
                         THEN Absorb(grown[k], after[k + 1]) ELSE grown[k]
      BY <1>9, <3>1
    <3>3. grown[k + 1] \in G
      <4> HIDE DEF G
      <4> QED
        BY <1>2, <3>1, <3>2
    <3> QED
      BY <3>1, <3>3
  <2>3. S \in SUBSET (0 .. n)
    OBVIOUS
  <2>4. S = 0 .. n
    <3> HIDE DEF S
    <3> QED
      BY <1>1, <2>1, <2>2, <2>3, BoundedInduction
  <2> QED
    BY <2>4
<1> QED
  BY <1>8, <1>9, <1>10 DEF n, grown

(***************************************************************************)
(* The loop ends, after a number of turns before each of which the next    *)
(* interval touched, and the one after the last does not.                  *)
(***************************************************************************)
LEMMA MergeStops ==
    ASSUME NEW itv, NEW after, Mergeable(itv, after)
    PROVE  \E t \in 0 .. Len(after) :
               /\ Merge(itv, after)
                      = << Grown(itv, after)[t] >> \o SubSeq(after, t + 1, Len(after))
               /\ \A i \in 1 .. t : Touches(Grown(itv, after)[i - 1], after[i])
               /\ t < Len(after) => ~Touches(Grown(itv, after)[t], after[t + 1])
<1> DEFINE n == Len(after)
           grown == Grown(itv, after)
           Stops(k) == /\ \A i \in 1 .. k : Touches(grown[i - 1], after[i])
                       /\ k < n => ~Touches(grown[k], after[k + 1])
           T == {k \in 0 .. n : k < n => ~Touches(grown[k], after[k + 1])}
<1>1. n \in Nat
  BY DEF Mergeable, Normal
<1> HIDE DEF n, grown
<1>2. n \in T /\ T \in SUBSET Nat
  BY <1>1
<1>3. PICK x \in T : \A y \in T : x <= y
  <2> HIDE DEF T
  <2> QED
    BY <1>2, LeastNumber
<1>4. ASSUME NEW i \in 1 .. x PROVE Touches(grown[i - 1], after[i])
  <2>1. i - 1 \in 0 .. n /\ i - 1 < n /\ i - 1 < x /\ (i - 1) + 1 = i
    BY <1>1, <1>3
  <2>2. i - 1 \notin T
    <3> HIDE DEF T
    <3>1. x \in Nat
      BY <1>2, <1>3
    <3> QED
      BY <1>3, <2>1, <3>1
  <2> QED
    BY <2>1, <2>2
<1>5. x \in 0 .. n /\ Stops(x)
  BY <1>3, <1>4
<1> DEFINE t == CHOOSE k \in 0 .. n : Stops(k)
<1>6. t \in 0 .. n /\ Stops(t)
  <2> HIDE DEF Stops
  <2> QED
    BY <1>5
<1>7. Merge(itv, after) = << grown[t] >> \o SubSeq(after, t + 1, n)
  BY DEF Merge, n, grown
<1> HIDE DEF t
<1> QED
  BY <1>6, <1>7 DEF n, grown

(***************************************************************************)
(* What the loop leaves is in normal form again and holds what was in the  *)
(* new interval and in the list, no more and no less.                      *)
(***************************************************************************)
LEMMA MergeNormal ==
    ASSUME NEW itv, NEW after, Mergeable(itv, after)
    PROVE  LET m == Merge(itv, after)
           IN  /\ Normal(m)
               /\ Covered(m) = Covered(after) \cup {x \in Nat : Within(x, itv)}
               /\ \A j \in 1 .. Len(m) : itv.beg_idx <= m[j].beg_idx
<1> DEFINE n == Len(after)
           grown == Grown(itv, after)
<1>1. PICK t \in 0 .. n :
          /\ Merge(itv, after) = << grown[t] >> \o SubSeq(after, t + 1, n)
          /\ \A i \in 1 .. t : Touches(grown[i - 1], after[i])
          /\ t < n => ~Touches(grown[t], after[t + 1])
  BY MergeStops
<1>2. /\ grown[0] = itv
      /\ \A k \in 0 .. n : grown[k] \in Chunk /\ grown[k].beg_idx = itv.beg_idx
      /\ \A k \in 1 .. n :
             grown[k] = IF Touches(grown[k - 1], after[k])
                        THEN Absorb(grown[k - 1], after[k]) ELSE grown[k - 1]
  BY GrownUnfold
<1>3. /\ n \in Nat /\ t \in Nat /\ t <= n /\ itv \in Chunk /\ Normal(after)
      /\ \A k \in 1 .. n : after[k] \in Chunk /\ itv.beg_idx <= after[k].beg_idx
  BY DEF Mergeable, Normal
<1> HIDE DEF grown
<1> DEFINE Holds(k) == \A x \in Nat : Within(x, grown[k]) <=>
                           Within(x, itv) \/ \E i \in 1 .. k : Within(x, after[i])
           S == {k \in 0 .. t : Holds(k)}
<1>4. 0 \in S
  BY <1>2, <1>3
<1>5. ASSUME NEW k \in S, k < t PROVE k + 1 \in S
  <2> DEFINE a == grown[k]
             b == after[k + 1]
             c == grown[k + 1]
  <2>1. /\ k \in 0 .. n /\ k + 1 \in 1 .. n /\ k + 1 \in 1 .. t /\ k + 1 \in 0 .. n
        /\ (k + 1) - 1 = k /\ k + 1 \in 0 .. t
    BY <1>3, <1>5
  <2>2. a \in Chunk /\ b \in Chunk /\ a.beg_idx <= b.beg_idx /\ Touches(a, b)
    BY <1>1, <1>2, <1>3, <2>1
  <2>3. c = Absorb(a, b)
    BY <1>2, <2>1, <2>2
  <2> HIDE DEF a, b, c
  <2>4. c \in Chunk /\ c.beg_idx = a.beg_idx /\ c.end_idx = Greater(a.end_idx, b.end_idx)
    BY <2>2, <2>3, AbsorbChunk
  <2>5. ASSUME NEW x \in Nat PROVE Within(x, c) <=> Within(x, a) \/ Within(x, b)
    <3>1. /\ a.beg_idx \in Nat /\ a.end_idx \in Nat /\ a.beg_idx < a.end_idx
          /\ b.beg_idx \in Nat /\ b.end_idx \in Nat /\ b.beg_idx < b.end_idx
      BY <2>2, ChunkParts
    <3> QED
      BY <2>2, <2>4, <3>1 DEF Within, Greater, Touches
  <2>6. ASSUME NEW x \in Nat
        PROVE  (\E i \in 1 .. k + 1 : Within(x, after[i]))
                   <=> Within(x, b) \/ \E i \in 1 .. k : Within(x, after[i])
    <3>1. 1 .. k + 1 = (1 .. k) \cup {k + 1}
      BY <2>1
    <3> QED
      BY <3>1 DEF b
  <2>7. Holds(k)
    BY <1>5
  <2>8. Holds(k + 1)
    BY <2>5, <2>6, <2>7 DEF a, c
  <2> HIDE DEF Holds
  <2> QED
    BY <2>1, <2>8
<1>6. S \in SUBSET (0 .. t)
  OBVIOUS
<1>7. t \in S
  <2> HIDE DEF S
  <2> QED
    BY <1>3, <1>4, <1>5, <1>6, BoundedInduction
<1>8. Holds(t)
  BY <1>7
<1> DEFINE g == grown[t]
           head == << g >>
           back == SubSeq(after, t + 1, n)
<1>9. g \in Chunk /\ g.beg_idx = itv.beg_idx
  BY <1>2
<1>10. /\ Normal(back) /\ Len(back) = n - t
       /\ \A i \in 1 .. n - t : back[i] = after[t + i]
  BY <1>3, NormalBack
<1>11. ASSUME NEW j \in 1 .. n - t
       PROVE  g.end_idx < back[j].beg_idx /\ itv.beg_idx <= back[j].beg_idx
  <2>1. t + j \in 1 .. n /\ t + 1 \in 1 .. n /\ t < n /\ (j = 1 \/ t + 1 < t + j)
    BY <1>3
  <2>2. back[j] = after[t + j]
    BY <1>10
  <2> HIDE DEF g, back
  <2>3. after[t + 1] \in Chunk /\ after[t + j] \in Chunk
    BY <1>3, <2>1
  <2>4. g.end_idx < after[t + 1].beg_idx
    <3>1. ~Touches(g, after[t + 1])
      BY <1>1, <2>1 DEF g
    <3>2. g.end_idx \in Nat /\ after[t + 1].beg_idx \in Nat
      BY <1>9, <2>3, ChunkParts
    <3> QED
      BY <3>1, <3>2 DEF Touches
  <2>5. j = 1 \/ after[t + 1].end_idx < after[t + j].beg_idx
    BY <1>3, <2>1 DEF Normal
  <2>6. /\ after[t + 1].beg_idx \in Nat /\ after[t + j].beg_idx \in Nat
        /\ after[t + 1].end_idx \in Nat /\ g.end_idx \in Nat
        /\ after[t + 1].beg_idx < after[t + 1].end_idx
    BY <1>9, <2>3, ChunkParts
  <2>7. g.end_idx < after[t + j].beg_idx
    BY <2>4, <2>5, <2>6
  <2> QED
    BY <1>3, <2>1, <2>2, <2>7
<1> HIDE DEF g, back, Holds, S
<1>12. Normal(head) /\ Len(head) = 1 /\ head[1] = g
  BY <1>9 DEF Normal
<1>13. \A x \in Nat : x \in Covered(head) <=> Within(x, g)
  BY <1>12 DEF Covered
<1> HIDE DEF head
<1> DEFINE m == head \o back
<1>14. Merge(itv, after) = m
  BY <1>1 DEF head, g, back
<1>15. Normal(m) /\ Covered(m) = Covered(head) \cup Covered(back)
  BY <1>10, <1>11, <1>12, NormalJoined
<1>16. ASSUME NEW x \in Nat
       PROVE  x \in Covered(after) <=>
                  (\E i \in 1 .. t : Within(x, after[i])) \/ x \in Covered(back)
  <2>1. ASSUME NEW i \in 1 .. n, Within(x, after[i]), i > t PROVE x \in Covered(back)
    <3>1. i - t \in 1 .. n - t /\ t + (i - t) = i
      BY <1>3, <2>1
    <3>2. Within(x, back[i - t])
      BY <1>10, <2>1, <3>1
    <3> QED
      BY <1>10, <3>1, <3>2 DEF Covered
  <2>2. ASSUME NEW i \in 1 .. n - t, Within(x, back[i]) PROVE x \in Covered(after)
    <3>1. t + i \in 1 .. n /\ Within(x, after[t + i])
      BY <1>3, <1>10, <2>2
    <3> QED
      BY <3>1 DEF Covered
  <2>3. \A i \in 1 .. t : i \in 1 .. n
    BY <1>3
  <2>4. \A i \in 1 .. n : i > t \/ i \in 1 .. t
    BY <1>3
  <2> QED
    BY <1>10, <2>1, <2>2, <2>3, <2>4 DEF Covered
<1>17. Covered(m) = Covered(after) \cup {x \in Nat : Within(x, itv)}
  <2>1. ASSUME NEW x \in Nat
        PROVE  x \in Covered(m) <=> x \in Covered(after) \/ Within(x, itv)
    BY <1>8, <1>13, <1>15, <1>16 DEF Holds, g
  <2> HIDE DEF m
  <2> QED
    BY <2>1 DEF Covered
<1>18. \A j \in 1 .. Len(m) : itv.beg_idx <= m[j].beg_idx
  <2>1. head \in Seq(Chunk) /\ back \in Seq(Chunk)
    BY <1>10, <1>12 DEF Normal
  <2> DEFINE k == n - t
  <2>2. k \in Nat /\ Len(back) = k /\ \A j \in 1 .. k : g.end_idx < back[j].beg_idx
            /\ itv.beg_idx <= back[j].beg_idx
    BY <1>3, <1>10, <1>11
  <2> HIDE DEF k
  <2>3. Len(m) = Len(head) + Len(back)
    BY <2>1
  <2>4. \A j \in 1 .. Len(m) :
            m[j] = IF j <= Len(head) THEN head[j] ELSE back[j - Len(head)]
    BY <2>1
  <2> HIDE DEF m
  <2>5. \A j \in 1 .. Len(m) : j = 1 \/ (j - 1 \in 1 .. k /\ m[j] = back[j - 1])
    BY <1>12, <2>2, <2>3, <2>4
  <2>6. m[1] = g
    BY <1>12, <2>2, <2>3, <2>4
  <2>7. itv.beg_idx <= g.beg_idx
    BY <1>3, <1>9, ChunkParts
  <2> QED
    BY <2>5, <2>6, <2>7, <2>2
<1> HIDE DEF m
<1> QED
  BY <1>14, <1>15, <1>17, <1>18

-----------------------------------------------------------------------------
(***************************************************************************)
(* Where the new interval goes: behind the intervals that come before it.  *)
(***************************************************************************)
LEMMA LowerBoundSplits ==
    ASSUME NEW list, Normal(list), NEW itv \in Chunk
    PROVE  LET n == LowerBound(list, itv)
           IN  /\ n \in 0 .. Len(list)
               /\ \A i \in 1 .. Len(list) : i <= n <=> Before(list[i], itv)
<1> DEFINE N == Len(list)
           Splits(k) == \A i \in DOMAIN list : i <= k <=> Before(list[i], itv)
           T == {k \in 0 .. N : \A i \in k + 1 .. N : ~Before(list[i], itv)}
<1>1. /\ list \in Seq(Chunk) /\ N \in Nat /\ DOMAIN list = 1 .. N
      /\ \A i \in 1 .. N : list[i] \in Chunk
      /\ \A i, j \in 1 .. N : i < j => list[i].end_idx < list[j].beg_idx
  BY DEF Normal
<1> HIDE DEF N
<1>2. N \in T /\ T \in SUBSET Nat
  BY <1>1
<1>3. PICK x \in T : \A y \in T : x <= y
  <2> HIDE DEF T
  <2> QED
    BY <1>2, LeastNumber
<1>4. x \in 0 .. N
  BY <1>3
<1>5. ASSUME x = 0 PROVE Splits(x)
  <2>1. \A i \in 1 .. N : ~Before(list[i], itv)
    BY <1>3, <1>5
  <2>2. Splits(0)
    BY <1>1, <2>1
  <2> QED
    BY <1>4, <1>5, <2>2
<1>6. ASSUME x # 0 PROVE Splits(x)
  <2>1. x \in 1 .. N /\ x - 1 \in 0 .. N /\ ~(x <= x - 1)
    BY <1>1, <1>4, <1>6
  <2>2. x - 1 \notin T
    <3> HIDE DEF T
    <3> QED
      BY <1>3, <2>1
  <2>3. PICK i \in x .. N : Before(list[i], itv)
    BY <2>1, <2>2
  <2>4. Before(list[x], itv)
    <3>1. i = x \/ i \in x + 1 .. N
      BY <2>1
    <3> QED
      BY <1>3, <2>3, <3>1
  <2>5. ASSUME NEW k \in 1 .. N, k < x PROVE Before(list[k], itv)
    <3>1. list[k].end_idx < list[x].beg_idx
      BY <1>1, <2>1, <2>5
    <3>2. /\ list[k].beg_idx \in Nat /\ list[k].end_idx \in Nat /\ list[x].beg_idx \in Nat
          /\ list[k].beg_idx < list[k].end_idx /\ itv.beg_idx \in Nat
      BY <1>1, <2>1, ChunkParts
    <3>3. list[x].beg_idx <= itv.beg_idx
      BY <2>4, <3>2 DEF Before
    <3> QED
      BY <3>1, <3>2, <3>3 DEF Before
  <2>6. ASSUME NEW k \in 1 .. N PROVE k <= x <=> Before(list[k], itv)
    <3>1. k < x \/ k = x \/ k \in x + 1 .. N
      BY <1>1, <1>4
    <3>2. k \in x + 1 .. N => ~Before(list[k], itv) /\ ~(k <= x)
      BY <1>1, <1>3, <1>4
    <3>3. k < x \/ k = x => k <= x /\ Before(list[k], itv)
      BY <1>4, <2>4, <2>5
    <3> QED
      BY <3>1, <3>2, <3>3
  <2> QED
    BY <1>1, <2>6
<1>7. LowerBound(list, itv) = CHOOSE k \in 0 .. N : Splits(k)
  BY DEF LowerBound, N
<1> DEFINE n == CHOOSE k \in 0 .. N : Splits(k)
<1>8. n \in 0 .. N /\ Splits(n)
  <2>1. \E k \in 0 .. N : Splits(k)
    BY <1>4, <1>5, <1>6
  <2> HIDE DEF Splits
  <2> QED
    BY <2>1
<1> HIDE DEF n
<1> QED
  BY <1>1, <1>7, <1>8 DEF n, N

(***************************************************************************)
(* Storing an interval keeps the list in normal form, and the list then    *)
(* holds what it held and what is in the interval.                         *)
(***************************************************************************)
LEMMA StoreNormal ==
    ASSUME NEW list, Normal(list), NEW itv \in Chunk
    PROVE  /\ Normal(Store(list, itv))
           /\ Covered(Store(list, itv)) = Covered(list) \cup {x \in Nat : Within(x, itv)}
<1> DEFINE n == LowerBound(list, itv)
           N == Len(list)
           after == SubSeq(list, n + 1, N)
<1>1. n \in 0 .. N /\ \A i \in 1 .. N : i <= n <=> Before(list[i], itv)
  BY LowerBoundSplits
<1>2. /\ list \in Seq(Chunk) /\ N \in Nat
      /\ \A i \in 1 .. N : list[i] \in Chunk
      /\ \A i, j \in 1 .. N : i < j => list[i].end_idx < list[j].beg_idx
  BY DEF Normal
<1> HIDE DEF n
<1>3. /\ Normal(after) /\ Len(after) = N - n
      /\ \A i \in 1 .. N - n : after[i] = list[n + i]
  BY <1>1, NormalBack
<1>4. ASSUME NEW k \in 1 .. N, k > n
      PROVE  \E i \in 1 .. Len(after) : after[i] = list[k]
  <2>1. k - n \in 1 .. N - n /\ n + (k - n) = k
    BY <1>1, <1>2, <1>4
  <2> QED
    BY <1>3, <2>1
<1>5. ASSUME NEW i \in 1 .. Len(after)
      PROVE  n + i \in 1 .. N /\ n + i > n /\ after[i] = list[n + i]
  BY <1>1, <1>2, <1>3
<1>6. itv.beg_idx \in Nat /\ itv.end_idx \in Nat /\ itv.beg_idx < itv.end_idx
  BY ChunkParts
<1>7. Store(list, itv) = IF n > 0 /\ Touches(list[n], itv)
                         THEN SubSeq(list, 1, n - 1) \o Merge(Extend(list[n], itv), after)
                         ELSE SubSeq(list, 1, n) \o Merge(itv, after)
  BY DEF Store, n, N
<1> HIDE DEF after, N
<1>8. CASE n > 0 /\ Touches(list[n], itv)
  <2> DEFINE p == list[n]
             e == Extend(p, itv)
             m == Merge(e, after)
             front == SubSeq(list, 1, n - 1)
  <2>1. n \in 1 .. N /\ n - 1 \in 0 .. N /\ p \in Chunk /\ Before(p, itv)
    BY <1>1, <1>2, <1>8
  <2>2. /\ p.beg_idx \in Nat /\ p.end_idx \in Nat /\ p.beg_idx < p.end_idx
        /\ p.beg_idx <= itv.beg_idx /\ itv.beg_idx <= p.end_idx
    <3>1. p.beg_idx \in Nat /\ p.end_idx \in Nat /\ p.beg_idx < p.end_idx
      BY <2>1, ChunkParts
    <3> QED
      BY <1>6, <1>8, <2>1, <3>1 DEF Before, Touches
  <2>3. e \in Chunk /\ e.beg_idx = p.beg_idx /\ e.end_idx = Greater(p.end_idx, itv.end_idx)
    BY <1>8, <2>1, <2>2, ExtendChunk
  <2>4. Mergeable(e, after)
    <3>1. ASSUME NEW k \in 1 .. Len(after) PROVE e.beg_idx <= after[k].beg_idx
      <4>1. p.end_idx < list[n + k].beg_idx /\ list[n + k] \in Chunk
        BY <1>2, <1>5, <2>1
      <4>2. list[n + k].beg_idx \in Nat
        BY <4>1, ChunkParts
      <4> QED
        BY <1>5, <2>2, <2>3, <4>1, <4>2
    <3> QED
      BY <1>3, <2>3, <3>1 DEF Mergeable
  <2> HIDE DEF e
  <2>5. /\ Normal(m)
        /\ Covered(m) = Covered(after) \cup {x \in Nat : Within(x, e)}
        /\ \A j \in 1 .. Len(m) : e.beg_idx <= m[j].beg_idx
    BY <2>4, MergeNormal
  <2>6. Normal(front) /\ Len(front) = n - 1 /\ \A i \in 1 .. n - 1 : front[i] = list[i]
    BY <2>1, NormalFront DEF N
  <2> HIDE DEF m, front
  <2>7. ASSUME NEW i \in 1 .. Len(front), NEW j \in 1 .. Len(m)
        PROVE  front[i].end_idx < m[j].beg_idx
    <3>1. i \in 1 .. N /\ i < n /\ front[i] = list[i]
      BY <1>2, <2>1, <2>6
    <3>2. list[i].end_idx < p.beg_idx /\ p.beg_idx <= m[j].beg_idx
      BY <1>2, <2>1, <2>3, <2>5, <3>1
    <3>3. list[i].end_idx \in Nat /\ m[j].beg_idx \in Nat
      BY <1>2, <2>5, <3>1, ChunkParts DEF Normal
    <3> QED
      BY <2>2, <3>1, <3>2, <3>3
  <2>8. Normal(front \o m) /\ Covered(front \o m) = Covered(front) \cup Covered(m)
    BY <2>5, <2>6, <2>7, NormalJoined
  <2>9. ASSUME NEW x \in Nat
        PROVE  x \in Covered(front) \/ x \in Covered(after) \/ Within(x, e)
                   <=> x \in Covered(list) \/ Within(x, itv)
    <3>1. Within(x, e) <=> Within(x, p) \/ Within(x, itv)
      BY <1>6, <2>2, <2>3 DEF Within, Greater
    <3>2. ASSUME NEW i \in 1 .. N
          PROVE  i = n \/ (i \in 1 .. Len(front) /\ front[i] = list[i]) \/ i > n
      BY <1>2, <2>1, <2>6
    <3>3. ASSUME x \in Covered(list) PROVE x \in Covered(front) \/ x \in Covered(after) \/ Within(x, p)
      <4>1. PICK i \in 1 .. N : Within(x, list[i])
        BY <3>3 DEF Covered, N
      <4> QED
        BY <1>4, <3>2, <4>1 DEF Covered, p
    <3>4. ASSUME x \in Covered(front) \/ x \in Covered(after) \/ Within(x, p) PROVE x \in Covered(list)
      <4>1. \A i \in 1 .. Len(front) : i \in 1 .. N /\ front[i] = list[i]
        BY <1>2, <2>1, <2>6
      <4> QED
        BY <1>5, <2>1, <3>4, <4>1 DEF Covered, p, N
    <3> QED
      BY <3>1, <3>3, <3>4
  <2>10. Store(list, itv) = front \o m
    BY <1>7, <1>8 DEF front, m, e
  <2>11. Covered(front \o m) = Covered(list) \cup {x \in Nat : Within(x, itv)}
    <3>1. \A x \in Nat : x \in Covered(m) <=> x \in Covered(after) \/ Within(x, e)
      BY <2>5
    <3>2. \A x \in Nat : x \in Covered(front \o m) <=> x \in Covered(list) \/ Within(x, itv)
      BY <2>8, <2>9, <3>1
    <3> QED
      BY <3>2 DEF Covered
  <2> QED
    BY <2>8, <2>10, <2>11
<1>9. CASE ~(n > 0 /\ Touches(list[n], itv))
  <2> DEFINE m == Merge(itv, after)
             front == SubSeq(list, 1, n)
  <2>1. Mergeable(itv, after)
    <3>1. ASSUME NEW k \in 1 .. Len(after) PROVE itv.beg_idx <= after[k].beg_idx
      <4>1. ~Before(list[n + k], itv) /\ list[n + k] \in Chunk
        BY <1>1, <1>2, <1>5
      <4>2. list[n + k].beg_idx \in Nat
        BY <4>1, ChunkParts
      <4> QED
        BY <1>5, <1>6, <4>1, <4>2 DEF Before
    <3> QED
      BY <1>3, <3>1 DEF Mergeable
  <2>2. /\ Normal(m)
        /\ Covered(m) = Covered(after) \cup {x \in Nat : Within(x, itv)}
        /\ \A j \in 1 .. Len(m) : itv.beg_idx <= m[j].beg_idx
    BY <2>1, MergeNormal
  <2>3. Normal(front) /\ Len(front) = n /\ \A i \in 1 .. n : front[i] = list[i]
    BY <1>1, NormalFront DEF N
  <2> HIDE DEF m, front
  <2>4. ASSUME NEW i \in 1 .. Len(front), NEW j \in 1 .. Len(m)
        PROVE  front[i].end_idx < m[j].beg_idx
    <3>1. i \in 1 .. N /\ n \in 1 .. N /\ i <= n /\ front[i] = list[i]
      BY <1>1, <1>2, <2>3
    <3>2. /\ list[i].end_idx \in Nat /\ list[n].end_idx \in Nat /\ list[n].beg_idx \in Nat
          /\ m[j].beg_idx \in Nat /\ list[n].beg_idx < list[n].end_idx
      BY <1>2, <2>2, <3>1, ChunkParts DEF Normal
    <3>3. list[n].end_idx < itv.beg_idx
      BY <1>6, <1>9, <3>1, <3>2 DEF Touches
    <3>4. i = n \/ list[i].end_idx < list[n].beg_idx
      BY <1>2, <3>1
    <3>5. itv.beg_idx <= m[j].beg_idx
      BY <2>2
    <3> QED
      BY <1>6, <3>1, <3>2, <3>3, <3>4, <3>5
  <2>5. Normal(front \o m) /\ Covered(front \o m) = Covered(front) \cup Covered(m)
    BY <2>2, <2>3, <2>4, NormalJoined
  <2>6. ASSUME NEW x \in Nat
        PROVE  x \in Covered(front) \/ x \in Covered(after) <=> x \in Covered(list)
    <3>1. ASSUME NEW i \in 1 .. N
          PROVE  (i \in 1 .. Len(front) /\ front[i] = list[i]) \/ i > n
      BY <1>1, <1>2, <2>3
    <3>2. \A i \in 1 .. Len(front) : i \in 1 .. N /\ front[i] = list[i]
      BY <1>1, <1>2, <2>3
    <3>3. ASSUME x \in Covered(list) PROVE x \in Covered(front) \/ x \in Covered(after)
      <4>1. PICK i \in 1 .. N : Within(x, list[i])
        BY <3>3 DEF Covered, N
      <4> QED
        BY <1>4, <3>1, <4>1 DEF Covered
    <3>4. ASSUME x \in Covered(front) \/ x \in Covered(after) PROVE x \in Covered(list)
      BY <1>5, <3>2, <3>4 DEF Covered, N
    <3> QED
      BY <3>3, <3>4
  <2>7. Store(list, itv) = front \o m
    BY <1>7, <1>9 DEF front, m
  <2>8. Covered(front \o m) = Covered(list) \cup {x \in Nat : Within(x, itv)}
    <3>1. \A x \in Nat : x \in Covered(m) <=> x \in Covered(after) \/ Within(x, itv)
      BY <2>2
    <3>2. \A x \in Nat : x \in Covered(front \o m) <=> x \in Covered(list) \/ Within(x, itv)
      BY <2>5, <2>6, <3>1
    <3> QED
      BY <3>2 DEF Covered
  <2> QED
    BY <2>5, <2>7, <2>8
<1> QED
  BY <1>8, <1>9

-----------------------------------------------------------------------------
(***************************************************************************)
(* Writing out.  Written is what its recursive definition says.            *)
(***************************************************************************)
ReassemblerState ==
    [output : Stream, buffers : Seq(Chunk), first_unassembled : Nat, eof_index : Nat]

(***************************************************************************)
(* The writing loop unfolds: nothing written at first, then one interval   *)
(* after another offered to the output.                                    *)
(***************************************************************************)
LEMMA WrittenUnfold ==
    ASSUME NEW r \in ReassemblerState, SoundStream(r.output)
    PROVE  LET W == Written(r)
               n == Len(r.buffers)
           IN  /\ W[0] = [r EXCEPT !.buffers = << >>]
               /\ \A k \in 1 .. n : W[k] = WriteOrKeep(W[k - 1], r.buffers[k])
<1> DEFINE n == Len(r.buffers)
           G == {s \in ReassemblerState : SoundStream(s.output)}
           f == [k \in 1 .. n |-> [s \in G |-> WriteOrKeep(s, r.buffers[k])]]
           start == [r EXCEPT !.buffers = << >>]
           W == Written(r)
<1>1. n \in Nat /\ \A k \in 1 .. n : r.buffers[k] \in Chunk
  BY DEF ReassemblerState
<1>2. start \in G
  <2>1. << >> \in Seq(Chunk)
    OBVIOUS
  <2>2. start \in ReassemblerState /\ start.output = r.output
    BY <2>1 DEF ReassemblerState
  <2> HIDE DEF start
  <2> QED
    BY <2>2
<1>3. ASSUME NEW itv \in Chunk, NEW s \in G PROVE WriteOrKeep(s, itv) \in G
  <2>1. itv.str \in Seq(Byte) /\ itv.end_idx \in Nat
    BY <1>3, ChunkParts
  <2>2. s \in ReassemblerState /\ SoundStream(s.output)
    BY <1>3
  <2> DEFINE q == PushBytes(s.output, itv.str)
  <2>3. q \in Stream /\ SoundStream(q)
    BY <2>1, <2>2, PushBytesSound DEF SoundStream
  <2> HIDE DEF q
  <2>4. [s EXCEPT !.output = q, !.first_unassembled = itv.end_idx] \in G
    BY <2>1, <2>2, <2>3 DEF ReassemblerState
  <2>5. Append(s.buffers, itv) \in Seq(Chunk)
    BY <1>3, <2>2 DEF ReassemblerState
  <2>6. [s EXCEPT !.buffers = Append(s.buffers, itv)] \in G
    BY <2>2, <2>5 DEF ReassemblerState
  <2> HIDE DEF G
  <2> QED
    BY <2>4, <2>6 DEF WriteOrKeep, q
<1> HIDE DEF G, start
<1>4. f \in [1 .. n -> [G -> G]]
  BY <1>1, <1>3
<1> HIDE DEF n
<1>5. PICK h \in [0 .. n -> G] : IsIteration(h, n, f, start)
  <2> HIDE DEF f
  <2> QED
    BY <1>1, <1>2, <1>4, Iterates, Zenon
<1>6. ASSUME NEW k \in 1 .. n PROVE h[k] = WriteOrKeep(h[k - 1], r.buffers[k])
  <2>1. h[k - 1] \in G
    BY <1>1, <1>5
  <2>2. h[k] = f[k][h[k - 1]]
    BY <1>5 DEF IsIteration
  <2> QED
    BY <2>1, <2>2
<1>7. h = [k \in 0 .. n |-> IF k = 0 THEN start ELSE WriteOrKeep(h[k - 1], r.buffers[k])]
  <2> HIDE DEF f
  <2>1. h = [k \in 0 .. n |-> h[k]]
    BY <1>5
  <2>2. h[0] = start
    BY <1>5 DEF IsIteration
  <2> QED
    BY <1>1, <1>6, <2>1, <2>2
<1>8. W = [k \in 0 .. n |-> IF k = 0 THEN start ELSE WriteOrKeep(W[k - 1], r.buffers[k])]
  BY <1>7 DEF Written, n, start
<1> HIDE DEF W
<1>9. W[0] = start /\ \A k \in 1 .. n : W[k] = WriteOrKeep(W[k - 1], r.buffers[k])
  BY <1>1, <1>8
<1> QED
  BY <1>9 DEF W, n, start

(***************************************************************************)
(* From the first interval on that does not start where the output ends,   *)
(* all are kept.                                                           *)
(***************************************************************************)
LEMMA SubSeqGrows ==
    ASSUME NEW S, NEW list \in Seq(S), NEW a \in Nat, NEW k \in Nat, a + k < Len(list)
    PROVE  Append(SubSeq(list, a + 1, a + k), list[a + k + 1]) = SubSeq(list, a + 1, a + k + 1)
<1> DEFINE x == SubSeq(list, a + 1, a + k)
           y == SubSeq(list, a + 1, a + k + 1)
           l == k + 1
           z == Append(x, list[a + k + 1])
<1>1. x \in Seq(S) /\ Len(x) = k /\ \A i \in 1 .. k : x[i] = list[a + i]
  OBVIOUS
<1>2. y \in Seq(S) /\ Len(y) = l /\ \A i \in 1 .. l : y[i] = list[a + i]
  OBVIOUS
<1>3. z \in Seq(S) /\ Len(z) = l /\ \A i \in 1 .. l : z[i] = list[a + i]
  <2>1. list[a + k + 1] \in S /\ a + (k + 1) = a + k + 1
    OBVIOUS
  <2> HIDE DEF x
  <2> QED
    BY <1>1, <2>1
<1> HIDE DEF x, y, z, l
<1>4. y = z
  BY <1>2, <1>3
<1> QED
  BY <1>4 DEF x, y, z

(***************************************************************************)
(* When no interval behind the first a starts at the first unassembled     *)
(* byte, the writing loop stops there and keeps them all.                  *)
(***************************************************************************)
LEMMA RestIsKept ==
    ASSUME NEW r \in ReassemblerState, SoundStream(r.output),
           NEW a \in 0 .. Len(r.buffers), NEW s \in ReassemblerState,
           Written(r)[a] = [s EXCEPT !.buffers = << >>],
           \A k \in a + 1 .. Len(r.buffers) : r.buffers[k].beg_idx # s.first_unassembled
    PROVE  WriteOut(r) = [s EXCEPT !.buffers = SubSeq(r.buffers, a + 1, Len(r.buffers))]
<1> DEFINE list == r.buffers
           n == Len(list)
           m == n - a
           W == Written(r)
           Kept(k) == [s EXCEPT !.buffers = SubSeq(list, a + 1, a + k)]
           S == {k \in 0 .. m : W[a + k] = Kept(k)}
<1>1. /\ list \in Seq(Chunk) /\ Len(list) = n
      /\ n \in Nat /\ m \in Nat /\ a \in Nat /\ a + m = n
  BY DEF ReassemblerState
<1>2. \A k \in 1 .. n : W[k] = WriteOrKeep(W[k - 1], list[k])
  BY WrittenUnfold
<1>3. W[a] = [s EXCEPT !.buffers = << >>]
  OBVIOUS
<1>4. \A k \in a + 1 .. n : list[k].beg_idx # s.first_unassembled
  OBVIOUS
<1> HIDE DEF W, list, n, m
<1>5. 0 \in S
  <2>1. SubSeq(list, a + 1, a) = << >>
    BY <1>1
  <2>2. a + 0 = a /\ 0 \in 0 .. m
    BY <1>1
  <2>3. W[a + 0] = Kept(0)
    BY <1>3, <2>1, <2>2
  <2> QED
    BY <2>2, <2>3
<1>6. ASSUME NEW k \in S, k < m PROVE k + 1 \in S
  <2> DEFINE old == SubSeq(list, a + 1, a + k)
             itv == list[a + k + 1]
  <2>1. k \in 0 .. m /\ W[a + k] = Kept(k)
    BY <1>6
  <2> HIDE DEF S, Kept
  <2>2. /\ k \in Nat /\ a + k < n /\ a + k + 1 \in 1 .. n /\ a + k + 1 \in a + 1 .. n
        /\ (a + k + 1) - 1 = a + k /\ a + (k + 1) = a + k + 1 /\ k + 1 \in 0 .. m
    BY <1>1, <1>6, <2>1
  <2>3. itv.beg_idx # s.first_unassembled
    BY <1>4, <2>2
  <2>4. W[a + k + 1] = WriteOrKeep(W[a + k], itv)
    BY <1>2, <2>2
  <2>5. Append(old, itv) = SubSeq(list, a + 1, a + k + 1)
    <3>1. /\ list \in Seq(Chunk) /\ a \in Nat /\ k \in Nat /\ a + k < Len(list)
      BY <1>1, <2>2
    <3> QED
      BY <3>1, SubSeqGrows
  <2>6. W[a + k] = [s EXCEPT !.buffers = old]
    BY <2>1 DEF Kept
  <2> HIDE DEF old, itv
  <2>7. W[a + k + 1] = [s EXCEPT !.buffers = Append(old, itv)]
    BY <2>3, <2>4, <2>6 DEF WriteOrKeep, ReassemblerState
  <2>8. W[a + (k + 1)] = Kept(k + 1)
    BY <2>2, <2>5, <2>7 DEF Kept
  <2> QED
    BY <2>2, <2>8 DEF S
<1>7. S \in SUBSET (0 .. m)
  OBVIOUS
<1>8. m \in S
  <2> HIDE DEF S, Kept
  <2> QED
    BY <1>1, <1>5, <1>6, <1>7, BoundedInduction
<1>9. W[n] = Kept(m) /\ Kept(m) = [s EXCEPT !.buffers = SubSeq(list, a + 1, n)]
  BY <1>1, <1>8
<1> QED
  BY <1>9 DEF WriteOut, W, list, n

(***************************************************************************)
(* A list in normal form that lies where the output has room: at most its  *)
(* first interval is written, and it fits.                                 *)
(***************************************************************************)
LEMMA WriteOutWrites ==
    ASSUME NEW r \in ReassemblerState, SoundStream(r.output), Normal(r.buffers),
           \A i \in 1 .. Len(r.buffers) : r.first_unassembled <= r.buffers[i].beg_idx
    PROVE  LET list == r.buffers
               itv  == list[1]
           IN  WriteOut(r) =
                   IF Len(list) > 0 /\ itv.beg_idx = r.first_unassembled
                   THEN [r EXCEPT !.output = PushBytes(@, itv.str),
                                  !.first_unassembled = itv.end_idx,
                                  !.buffers = SubSeq(@, 2, Len(@))]
                   ELSE r
<1> DEFINE list == r.buffers
           itv  == list[1]
           n == Len(list)
           q == PushBytes(r.output, itv.str)
           s == [r EXCEPT !.output = q, !.first_unassembled = itv.end_idx]
<1>1. n \in Nat /\ list \in Seq(Chunk)
  BY DEF Normal
<1>2. Written(r)[0] = [r EXCEPT !.buffers = << >>]
  BY WrittenUnfold
<1>3. CASE n > 0 /\ itv.beg_idx = r.first_unassembled
  <2>1. /\ 1 \in 1 .. n /\ itv \in Chunk /\ itv.str \in Seq(Byte) /\ itv.end_idx \in Nat
        /\ itv.beg_idx \in Nat /\ itv.beg_idx < itv.end_idx
    BY <1>1, <1>3, ChunkParts
  <2>2. Written(r)[1] = WriteOrKeep(Written(r)[0], itv)
    <3>1. Written(r)[1] = WriteOrKeep(Written(r)[1 - 1], r.buffers[1])
      BY <2>1, WrittenUnfold
    <3> QED
      BY <3>1
  <2>3. q \in Stream
    BY <2>1, PushBytesSound DEF SoundStream
  <2>4. WriteOrKeep([r EXCEPT !.buffers = << >>], itv) =
            [r EXCEPT !.buffers = << >>, !.output = q, !.first_unassembled = itv.end_idx]
    BY <1>3 DEF WriteOrKeep, ReassemblerState
  <2>5. \A k \in 2 .. n : list[k].beg_idx # itv.end_idx
    <3> SUFFICES ASSUME NEW k \in 2 .. n PROVE list[k].beg_idx # itv.end_idx
      OBVIOUS
    <3>1. itv.end_idx < list[k].beg_idx /\ list[k] \in Chunk
      BY <1>1, <2>1 DEF Normal
    <3>2. list[k].beg_idx \in Nat
      BY <3>1, ChunkParts
    <3> QED
      BY <2>1, <3>1, <3>2
  <2> HIDE DEF q, itv
  <2>6. s \in ReassemblerState /\ s.first_unassembled = itv.end_idx
    BY <2>1, <2>3 DEF ReassemblerState
  <2>7. Written(r)[1] = [s EXCEPT !.buffers = << >>]
    BY <1>2, <2>2, <2>4 DEF ReassemblerState
  <2>8. [s EXCEPT !.buffers = SubSeq(list, 2, n)] =
            [r EXCEPT !.output = q, !.first_unassembled = itv.end_idx,
                      !.buffers = SubSeq(list, 2, n)]
    BY DEF ReassemblerState
  <2> DEFINE a == 1
  <2>9. /\ a \in 0 .. Len(r.buffers) /\ Written(r)[a] = [s EXCEPT !.buffers = << >>]
        /\ \A k \in a + 1 .. Len(r.buffers) : r.buffers[k].beg_idx # s.first_unassembled
    BY <1>1, <2>1, <2>5, <2>6, <2>7
  <2>10. a + 1 = 2
    OBVIOUS
  <2> HIDE DEF s, a
  <2>11. WriteOut(r) = [s EXCEPT !.buffers = SubSeq(r.buffers, a + 1, Len(r.buffers))]
    BY <2>6, <2>9, RestIsKept
  <2> QED
    BY <1>3, <2>8, <2>10, <2>11 DEF q, itv
<1>4. CASE ~(n > 0 /\ itv.beg_idx = r.first_unassembled)
  <2>1. ASSUME NEW i \in 1 .. n PROVE list[i].beg_idx # r.first_unassembled
    <3>1. n > 0 /\ 1 \in 1 .. n /\ itv \in Chunk /\ list[i] \in Chunk
      BY <1>1
    <3>2. /\ itv.beg_idx \in Nat /\ itv.end_idx \in Nat /\ itv.beg_idx < itv.end_idx
          /\ list[i].beg_idx \in Nat /\ r.first_unassembled \in Nat
      BY <3>1, ChunkParts DEF ReassemblerState
    <3>3. i = 1 \/ itv.end_idx < list[i].beg_idx
      BY <1>1, <3>1 DEF Normal
    <3>4. r.first_unassembled <= itv.beg_idx
      BY <3>1
    <3> QED
      BY <1>4, <3>1, <3>2, <3>3, <3>4
  <2> DEFINE a == 0
  <2>2. /\ a \in 0 .. Len(r.buffers) /\ Written(r)[a] = [r EXCEPT !.buffers = << >>]
        /\ \A k \in a + 1 .. Len(r.buffers) : r.buffers[k].beg_idx # r.first_unassembled
    BY <1>1, <1>2, <2>1
  <2>3. SubSeq(list, a + 1, n) = list
    BY <1>1
  <2> HIDE DEF a
  <2>4. WriteOut(r) = [r EXCEPT !.buffers = SubSeq(r.buffers, a + 1, Len(r.buffers))]
    BY <2>2, RestIsKept
  <2>5. WriteOut(r) = r
    BY <2>3, <2>4 DEF ReassemblerState
  <2> QED
    BY <1>4, <2>5
<1> QED
  BY <1>3, <1>4

-----------------------------------------------------------------------------
(***************************************************************************)
(* A reassembler of a stream of N bytes, between two operations.  Fits is  *)
(* also true in the middle of an insert, before writing out.               *)
(***************************************************************************)
Fits(r, N) ==
    /\ r \in ReassemblerState
    /\ SoundStream(r.output) /\ OrderlyBuffer(r.output)
    /\ Normal(r.buffers)
    /\ r.first_unassembled = r.output.pushed
    /\ r.output.pushed <= N
    /\ r.eof_index \in {N, UINT64_MAX}
    /\ \A i \in 1 .. Len(r.buffers) :
           /\ r.output.pushed <= r.buffers[i].beg_idx
           /\ r.buffers[i].end_idx <= N
           /\ r.buffers[i].end_idx <= Limit(r)

SoundReassembler(r, N) ==
    /\ Fits(r, N)
    /\ \A i \in 1 .. Len(r.buffers) : r.buffers[i].beg_idx # r.output.pushed
    /\ r.output.closed <=> (r.eof_index = N /\ r.output.pushed = N)

(***************************************************************************)
(* The stream indices it holds, written or stored.                         *)
(***************************************************************************)
Held(r) == {x \in Nat : x < r.output.pushed} \cup Covered(r.buffers)

(***************************************************************************)
(* What no insert changes: the capacity, the error flag and what has been  *)
(* read, and with them the first index there is no room for.               *)
(***************************************************************************)
SameReader(s, r) ==
    /\ s.output.capacity = r.output.capacity
    /\ s.output.error = r.output.error
    /\ BytesPopped(s.output) = BytesPopped(r.output)

(***************************************************************************)
(* The first index that is refused: as far as the output could be filled,  *)
(* counted from what was popped or from what was pushed.                   *)
(***************************************************************************)
LEMMA LimitFixed ==
    ASSUME NEW N \in Nat, NEW r, Fits(r, N)
    PROVE  /\ r.output.pushed \in Nat /\ r.output.capacity \in Nat
           /\ BytesPopped(r.output) \in Nat
           /\ Limit(r) = BytesPopped(r.output) + r.output.capacity
           /\ Limit(r) = r.output.pushed + AvailableCapacity(r.output)
           /\ AvailableCapacity(r.output) \in Nat /\ r.output.pushed <= Limit(r)
<1>1. /\ r.output.pushed \in Nat /\ r.output.capacity \in Nat
      /\ r.output.buf \in Seq(Byte) /\ Len(r.output.buf) <= r.output.capacity
      /\ Len(r.output.buf) <= r.output.pushed /\ r.first_unassembled = r.output.pushed
  BY DEF Fits, ReassemblerState, SoundStream, Stream, OrderlyBuffer
<1>2. Len(r.output.buf) \in Nat
  BY <1>1, LenIsNat
<1> DEFINE p == r.output.pushed
           c == r.output.capacity
           b == Len(r.output.buf)
<1>3. /\ Limit(r) = p + (c - b) /\ AvailableCapacity(r.output) = c - b
      /\ BytesPopped(r.output) = p - b
  BY <1>1 DEF Limit, BytesPopped, AvailableCapacity
<1>4. p \in Nat /\ c \in Nat /\ b \in Nat /\ b <= c /\ b <= p
  BY <1>1, <1>2
<1> HIDE DEF p, c, b
<1>5. /\ c - b \in Nat /\ p - b \in Nat
      /\ p + (c - b) = (p - b) + c /\ p <= p + (c - b)
  BY <1>4
<1> QED
  BY <1>3, <1>4, <1>5 DEF p, c

(***************************************************************************)
(* Closing when the end is reached makes the reassembler sound.            *)
(***************************************************************************)
LEMMA CloseIfDoneSound ==
    ASSUME NEW N \in Nat, N < UINT64_MAX, NEW r, Fits(r, N), ~r.output.closed,
           \A i \in 1 .. Len(r.buffers) : r.buffers[i].beg_idx # r.output.pushed
    PROVE  LET s == CloseIfDone(r)
           IN  /\ SoundReassembler(s, N) /\ SameReader(s, r)
               /\ s.eof_index = r.eof_index /\ Held(s) = Held(r)
<1>1. /\ r \in ReassemblerState /\ r.output \in Stream /\ r.output.pushed \in Nat
      /\ r.output.pushed <= N /\ r.eof_index \in {N, UINT64_MAX}
      /\ r.first_unassembled = r.output.pushed
  BY DEF Fits, SoundStream, Stream
<1>2. UINT64_MAX \in Nat
  BY Widths DEF UINT64_MAX
<1>3. CASE r.first_unassembled >= r.eof_index
  <2> DEFINE q == CloseStream(r.output)
             s == [r EXCEPT !.output = q]
  <2>1. r.eof_index = N /\ r.output.pushed = N
    BY <1>1, <1>2, <1>3
  <2>2. /\ q \in Stream /\ q.pushed = r.output.pushed /\ q.capacity = r.output.capacity
        /\ q.buf = r.output.buf /\ q.error = r.output.error /\ q.closed = TRUE
    BY <1>1 DEF CloseStream, Stream
  <2>3. SoundStream(q) /\ OrderlyBuffer(q) /\ BytesPopped(q) = BytesPopped(r.output)
    BY <2>2 DEF Fits, SoundStream, OrderlyBuffer, BytesPopped
  <2>4. CloseIfDone(r) = s
    BY <1>3 DEF CloseIfDone
  <2> HIDE DEF q
  <2>5. /\ s \in ReassemblerState /\ s.output = q /\ s.buffers = r.buffers
        /\ s.first_unassembled = r.first_unassembled /\ s.eof_index = r.eof_index
    BY <1>1, <2>2 DEF ReassemblerState
  <2> HIDE DEF s
  <2>6. Limit(s) = Limit(r)
    BY <2>2, <2>5 DEF Limit, AvailableCapacity
  <2>7. Fits(s, N)
    BY <2>2, <2>3, <2>5, <2>6 DEF Fits
  <2>8. SoundReassembler(s, N)
    BY <2>1, <2>2, <2>5, <2>7 DEF SoundReassembler
  <2>9. SameReader(s, r) /\ Held(s) = Held(r)
    BY <2>2, <2>3, <2>5 DEF SameReader, Held
  <2> QED
    BY <2>4, <2>5, <2>8, <2>9
<1>4. CASE ~(r.first_unassembled >= r.eof_index)
  <2>1. CloseIfDone(r) = r
    BY <1>4 DEF CloseIfDone
  <2>2. ~(r.eof_index = N /\ r.output.pushed = N)
    BY <1>1, <1>4
  <2>3. SoundReassembler(r, N)
    BY <2>2 DEF SoundReassembler
  <2> QED
    BY <2>1, <2>3 DEF SameReader
<1> QED
  BY <1>3, <1>4

(***************************************************************************)
(* Writing out loses nothing: what leaves the list is in the output, and   *)
(* the output had room for it.                                             *)
(***************************************************************************)
LEMMA WriteOutSound ==
    ASSUME NEW N \in Nat, NEW r, Fits(r, N), ~r.output.closed
    PROVE  LET s == WriteOut(r)
           IN  /\ Fits(s, N) /\ ~s.output.closed
               /\ \A i \in 1 .. Len(s.buffers) : s.buffers[i].beg_idx # s.output.pushed
               /\ SameReader(s, r)
               /\ s.eof_index = r.eof_index /\ Held(s) = Held(r)
<1> DEFINE list == r.buffers
           itv  == list[1]
           n    == Len(list)
           data == itv.str
           q    == PushBytes(r.output, data)
           rest == SubSeq(list, 2, n)
           s    == [r EXCEPT !.output = q, !.first_unassembled = itv.end_idx,
                             !.buffers = rest]
<1>1. /\ r \in ReassemblerState /\ SoundStream(r.output) /\ OrderlyBuffer(r.output)
      /\ Normal(list) /\ list \in Seq(Chunk) /\ n \in Nat
      /\ r.first_unassembled = r.output.pushed /\ r.output.pushed <= N
      /\ r.eof_index \in {N, UINT64_MAX}
  BY DEF Fits, Normal
<1>2. \A i \in 1 .. n : /\ r.output.pushed <= list[i].beg_idx
                        /\ list[i].end_idx <= N /\ list[i].end_idx <= Limit(r)
                        /\ list[i] \in Chunk
  BY <1>1 DEF Fits
<1>3. WriteOut(r) = IF n > 0 /\ itv.beg_idx = r.first_unassembled THEN s ELSE r
  BY <1>1, <1>2, WriteOutWrites
<1>4. ASSUME NEW i \in 1 .. n, i # 1
      PROVE  itv.beg_idx < itv.end_idx /\ itv.end_idx < list[i].beg_idx
             /\ itv.end_idx \in Nat /\ itv.beg_idx \in Nat /\ list[i].beg_idx \in Nat
  <2>1. 1 \in 1 .. n /\ 1 < i
    BY <1>1, <1>4
  <2> QED
    BY <1>1, <1>2, <2>1, ChunkParts DEF Normal
<1> HIDE DEF list
<1>5. CASE n > 0 /\ itv.beg_idx = r.first_unassembled
  <2>1. /\ 1 \in 1 .. n /\ itv \in Chunk /\ data \in Seq(Byte) /\ itv.end_idx \in Nat
        /\ itv.beg_idx \in Nat /\ itv.beg_idx < itv.end_idx
        /\ data = BytesFrom(itv.beg_idx, itv.end_idx - itv.beg_idx)
        /\ itv.end_idx <= N /\ itv.end_idx <= Limit(r)
    BY <1>1, <1>2, <1>5, ChunkParts
  <2> DEFINE k == itv.end_idx - itv.beg_idx
  <2>2. k \in Nat /\ k <= AvailableCapacity(r.output) /\ itv.end_idx = r.output.pushed + k
        /\ itv.beg_idx = r.output.pushed
    BY <1>1, <1>5, <2>1, LimitFixed
  <2>3. data = BytesFrom(r.output.pushed, k) /\ Len(data) = k
    BY <2>1, <2>2, BytesFromType
  <2> HIDE DEF k, data
  <2>4. /\ q.pushed = r.output.pushed + k /\ q.capacity = r.output.capacity
        /\ q.error = r.output.error /\ q.closed = r.output.closed
    BY <1>1, <2>1, <2>2, <2>3, PushFits
  <2>5. q \in Stream /\ SoundStream(q)
    BY <1>1, <2>1, PushBytesSound DEF SoundStream
  <2>6. OrderlyBuffer(q) /\ BytesPopped(q) = BytesPopped(r.output)
    <3>1. /\ OrderlyBuffer(PushBytes(r.output, BytesFrom(r.output.pushed, k)))
          /\ BytesPopped(PushBytes(r.output, BytesFrom(r.output.pushed, k))) = BytesPopped(r.output)
      BY <1>1, <2>2, PushKeepsOrder
    <3> QED
      BY <2>3, <3>1
  <2>7. /\ Normal(rest) /\ Len(rest) = n - 1
        /\ \A i \in 1 .. n - 1 : rest[i] = list[1 + i]
    <3> DEFINE one == 1
    <3>1. one \in 0 .. Len(list) /\ one + 1 = 2
      BY <1>1, <2>1
    <3>2. Normal(list)
      BY <1>1
    <3> HIDE DEF one
    <3>3. /\ Normal(SubSeq(list, one + 1, Len(list)))
          /\ Len(SubSeq(list, one + 1, Len(list))) = Len(list) - one
          /\ \A i \in 1 .. Len(list) - one : SubSeq(list, one + 1, Len(list))[i] = list[one + i]
      BY <3>1, <3>2, NormalBack
    <3> QED
      BY <3>1, <3>3 DEF one
  <2>8. \A i \in 1 .. n - 1 : 1 + i \in 1 .. n /\ 1 + i # 1
    BY <1>1
  <2> HIDE DEF q, rest, itv
  <2>9. /\ s \in ReassemblerState /\ s.output = q /\ s.buffers = rest
        /\ s.first_unassembled = itv.end_idx /\ s.eof_index = r.eof_index
    BY <1>1, <2>1, <2>5, <2>7 DEF ReassemblerState, Normal
  <2> HIDE DEF s
  <2>10. Limit(s) = Limit(r)
    <3>1. /\ BytesPopped(q) = q.pushed - Len(q.buf) /\ q.pushed \in Nat /\ q.capacity \in Nat
          /\ Len(q.buf) \in Nat
      BY <2>5, LenIsNat DEF BytesPopped, Stream
    <3>2. Limit(s) = q.pushed + (q.capacity - Len(q.buf))
      BY <2>2, <2>4, <2>9 DEF Limit, AvailableCapacity
    <3>3. Limit(s) = BytesPopped(q) + q.capacity
      BY <3>1, <3>2
    <3> QED
      BY <2>4, <2>6, <3>3, LimitFixed
  <2>11. \A i \in 1 .. Len(s.buffers) :
             /\ s.output.pushed < s.buffers[i].beg_idx
             /\ s.buffers[i].end_idx <= N /\ s.buffers[i].end_idx <= Limit(s)
             /\ s.buffers[i].beg_idx \in Nat
    <3> SUFFICES ASSUME NEW i \in 1 .. n - 1
                 PROVE  /\ q.pushed < rest[i].beg_idx
                        /\ rest[i].end_idx <= N /\ rest[i].end_idx <= Limit(r)
                        /\ rest[i].beg_idx \in Nat
      BY <2>7, <2>9, <2>10
    <3>1. 1 + i \in 1 .. n /\ 1 + i # 1 /\ rest[i] = list[1 + i]
      BY <2>7, <2>8
    <3>2. itv.end_idx < list[1 + i].beg_idx /\ list[1 + i].beg_idx \in Nat
      BY <1>4, <3>1
    <3> QED
      BY <1>2, <2>2, <2>4, <3>1, <3>2
  <2>12. s.output.pushed \in Nat /\ s.output.pushed = itv.end_idx
    BY <2>2, <2>4, <2>9, <2>1
  <2>13. Fits(s, N) /\ ~s.output.closed
    <3>1. \A i \in 1 .. Len(s.buffers) : s.output.pushed <= s.buffers[i].beg_idx
      BY <2>11, <2>12
    <3> QED
      BY <1>1, <2>1, <2>4, <2>5, <2>6, <2>7, <2>9, <2>11, <2>12, <3>1 DEF Fits
  <2>14. \A i \in 1 .. Len(s.buffers) : s.buffers[i].beg_idx # s.output.pushed
    BY <2>11, <2>12
  <2>15. SameReader(s, r)
    BY <2>4, <2>6, <2>9 DEF SameReader
  <2>16. Held(s) = Held(r)
    <3>1. ASSUME NEW x \in Nat PROVE x \in Covered(list) <=> Within(x, itv) \/ x \in Covered(rest)
      <4>1. ASSUME NEW i \in 1 .. n, Within(x, list[i]), i # 1 PROVE x \in Covered(rest)
        <5>1. i - 1 \in 1 .. n - 1 /\ 1 + (i - 1) = i
          BY <1>1, <4>1
        <5>2. Within(x, rest[i - 1]) /\ i - 1 \in 1 .. Len(rest)
          BY <2>7, <4>1, <5>1
        <5> QED
          BY <5>2 DEF Covered
      <4>2. ASSUME NEW i \in 1 .. n - 1, Within(x, rest[i]) PROVE x \in Covered(list)
        <5>1. 1 + i \in 1 .. n /\ Within(x, list[1 + i])
          BY <2>7, <2>8, <4>2
        <5> QED
          BY <5>1 DEF Covered
      <4> QED
        BY <2>1, <2>7, <4>1, <4>2 DEF Covered, itv
    <3>2. ASSUME NEW x \in Nat
          PROVE  x < itv.end_idx \/ x \in Covered(rest)
                     <=> x < r.output.pushed \/ x \in Covered(list)
      BY <2>1, <2>2, <3>1 DEF Within
    <3>3. \A x \in Nat : x \in Held(s) <=> x \in Held(r)
      BY <2>9, <2>12, <3>2 DEF Held, list
    <3> QED
      BY <3>3 DEF Held, Covered
  <2>17. WriteOut(r) = s
    BY <1>3, <1>5
  <2> QED
    BY <2>9, <2>13, <2>14, <2>15, <2>16, <2>17
<1>6. CASE ~(n > 0 /\ itv.beg_idx = r.first_unassembled)
  <2>1. WriteOut(r) = r
    BY <1>3, <1>6
  <2>2. ASSUME NEW i \in 1 .. n PROVE list[i].beg_idx # r.output.pushed
    <3>1. n > 0 /\ r.output.pushed \in Nat /\ 1 \in 1 .. n
      BY <1>1, LimitFixed
    <3>2. i = 1 \/ itv.beg_idx < list[i].beg_idx
      BY <1>4
    <3>3. itv.beg_idx \in Nat /\ list[i].beg_idx \in Nat
      BY <1>2, <3>1, ChunkParts
    <3> QED
      BY <1>1, <1>2, <1>6, <3>1, <3>2, <3>3
  <2> QED
    BY <2>1, <2>2 DEF SameReader, list
<1> QED
  BY <1>5, <1>6

(***************************************************************************)
(* Reassembler::insert, for any piece of the stream: nothing happens, or   *)
(* the reassembler also holds the bytes of the piece that there is room    *)
(* for, and those only.                                                    *)
(***************************************************************************)
LEMMA InsertDelivers ==
    ASSUME NEW N \in Nat, N < UINT64_MAX, NEW r, SoundReassembler(r, N),
           NEW first \in Nat, NEW n \in Nat, first + n <= N,
           NEW last \in BOOLEAN, last => first + n = N
    PROVE  LET s == Insert(r, first, BytesFrom(first, n), last)
           IN  /\ SoundReassembler(s, N) /\ SameReader(s, r)
               /\ IF r.output.closed \/ first >= r.eof_index \/ first >= Limit(r)
                  THEN s = r
                  ELSE /\ s.eof_index = IF last THEN N ELSE r.eof_index
                       /\ Held(s) = Held(r) \cup
                              {x \in Nat : first <= x /\ x < first + n /\ x < Limit(r)}
<1> DEFINE data  == BytesFrom(first, n)
           past  == first + n
           limit == Limit(r)
           low   == r.output.pushed
           known == LearnEof(r, first, data, last)
           beg   == Greater(first, r.first_unassembled)
           end   == Lesser(past, limit)
           itv   == Interval(beg, end, SubSeq(data, beg - first + 1, end - first))
           s     == Insert(r, first, data, last)
           New(x) == first <= x /\ x < past /\ x < limit
           Skipped == r.output.closed \/ first >= r.eof_index \/ first >= limit
<1>1. /\ Fits(r, N) /\ r \in ReassemblerState /\ Normal(r.buffers)
      /\ r.first_unassembled = low /\ low <= N /\ r.eof_index \in {N, UINT64_MAX}
      /\ \A i \in 1 .. Len(r.buffers) : r.buffers[i].beg_idx # low
  BY DEF SoundReassembler, Fits
<1>2. low \in Nat /\ limit \in Nat /\ low <= limit
  BY <1>1, LimitFixed
<1>3. Len(data) = n /\ past \in Nat /\ past <= N
  BY BytesFromType
<1>4. UINT64_MAX \in Nat
  BY Widths DEF UINT64_MAX
<1>5. beg \in Nat /\ end \in Nat /\ beg = Greater(first, low) /\ first <= beg /\ low <= beg
      /\ end <= past /\ end <= limit
  BY <1>1, <1>2, <1>3 DEF Greater, Lesser
<1>6. /\ known \in ReassemblerState
      /\ known.output = r.output /\ known.buffers = r.buffers
      /\ known.first_unassembled = r.first_unassembled
      /\ known.eof_index = IF last THEN N ELSE r.eof_index
  <2>1. CASE last
    <3>1. known = [r EXCEPT !.eof_index = past] /\ past = N
      BY <1>3, <2>1 DEF LearnEof
    <3> HIDE DEF known, past
    <3> QED
      BY <1>1, <2>1, <3>1 DEF ReassemblerState
  <2>2. CASE ~last
    <3>1. known = r
      BY <2>2 DEF LearnEof
    <3> HIDE DEF known
    <3> QED
      BY <1>1, <2>2, <3>1
  <2> QED
    BY <2>1, <2>2
<1>7. s = IF Skipped THEN r
          ELSE IF end <= beg THEN CloseIfDone(known)
          ELSE CloseIfDone(WriteOut([known EXCEPT !.buffers = Store(@, itv)]))
  BY <1>3 DEF Insert
<1> HIDE DEF data, past, limit, low, known, s
<1>8. CASE Skipped
  BY <1>7, <1>8 DEF SameReader, s, data, limit
<1>9. Fits(known, N) /\ Limit(known) = limit
  <2>1. Limit(known) = limit
    BY <1>6 DEF Limit, limit
  <2> QED
    BY <1>1, <1>6, <2>1 DEF Fits, limit
<1>10. CASE ~Skipped /\ end <= beg
  <2>1. s = CloseIfDone(known)
    BY <1>7, <1>10
  <2>2. /\ SoundReassembler(s, N) /\ SameReader(s, known)
        /\ s.eof_index = known.eof_index /\ Held(s) = Held(known)
    BY <1>1, <1>6, <1>9, <1>10, <2>1, CloseIfDoneSound DEF low
  <2>3. SameReader(s, r) /\ Held(known) = Held(r)
    BY <1>6, <2>2 DEF SameReader, Held
  <2>4. ASSUME NEW x \in Nat, New(x) PROVE x \in Held(r)
    <3>1. x < low
      BY <1>2, <1>3, <1>5, <1>10, <2>4 DEF Greater, Lesser
    <3> QED
      BY <3>1 DEF Held, low
  <2>5. Held(s) = Held(r) \cup {x \in Nat : New(x)}
    BY <2>2, <2>3, <2>4
  <2> QED
    BY <1>6, <1>10, <2>2, <2>3, <2>5 DEF s, data, past, limit
<1>11. CASE ~Skipped /\ ~(end <= beg)
  <2> DEFINE list == Store(r.buffers, itv)
             t == [known EXCEPT !.buffers = list]
             w == WriteOut(t)
  <2>1. beg < end /\ end <= N
    BY <1>3, <1>5, <1>11
  <2>2. itv \in Chunk /\ itv.beg_idx = beg /\ itv.end_idx = end
    <3> DEFINE a == beg - first
               b == end - first
    <3>1. /\ a \in Nat /\ b \in 0 .. n /\ a \in 0 .. b
          /\ first + a = beg /\ b - a = end - beg
      BY <1>3, <1>5, <2>1 DEF past
    <3> HIDE DEF a, b
    <3>2. SubSeq(data, a + 1, b) = BytesFrom(first + a, b - a)
      BY <3>1, BytesFromMiddle DEF data
    <3>3. SubSeq(data, beg - first + 1, end - first) = BytesFrom(beg, end - beg)
      BY <3>1, <3>2 DEF a, b
    <3> HIDE DEF beg, end
    <3>4. /\ Interval(beg, end, BytesFrom(beg, end - beg)) \in Chunk
          /\ Interval(beg, end, BytesFrom(beg, end - beg)).beg_idx = beg
          /\ Interval(beg, end, BytesFrom(beg, end - beg)).end_idx = end
      BY <1>5, <2>1, ChunkFromBytes
    <3> QED
      BY <3>3, <3>4
  <2> HIDE DEF itv
  <2>3. /\ Normal(list)
        /\ Covered(list) = Covered(r.buffers) \cup {x \in Nat : Within(x, itv)}
    BY <1>1, <2>2, StoreNormal
  <2>4. \A x \in Nat : x \in Covered(r.buffers) => low <= x /\ x < N /\ x < limit
    <3> SUFFICES ASSUME NEW x \in Nat, NEW i \in 1 .. Len(r.buffers), Within(x, r.buffers[i])
                 PROVE  low <= x /\ x < N /\ x < limit
      BY DEF Covered
    <3>1. /\ low <= r.buffers[i].beg_idx
          /\ r.buffers[i].end_idx <= N /\ r.buffers[i].end_idx <= limit
          /\ r.buffers[i] \in Chunk
      BY <1>1 DEF Fits, Normal, low, limit
    <3>2. r.buffers[i].beg_idx \in Nat /\ r.buffers[i].end_idx \in Nat
      BY <3>1, ChunkParts
    <3> QED
      BY <1>2, <3>1, <3>2 DEF Within
  <2>5. \A x \in Nat : x \in Covered(list) => low <= x /\ x < N /\ x < limit
    <3> SUFFICES ASSUME NEW x \in Nat, Within(x, itv) PROVE low <= x /\ x < N /\ x < limit
      BY <2>3, <2>4
    <3> HIDE DEF beg, end
    <3> QED
      BY <1>2, <1>5, <2>1, <2>2 DEF Within
  <2> HIDE DEF list
  <2>6. \A i \in 1 .. Len(list) :
            low <= list[i].beg_idx /\ list[i].end_idx <= N /\ list[i].end_idx <= limit
    <3> SUFFICES ASSUME NEW i \in 1 .. Len(list)
                 PROVE  low <= list[i].beg_idx /\ list[i].end_idx <= N /\ list[i].end_idx <= limit
      OBVIOUS
    <3> DEFINE b == list[i].beg_idx
               e == list[i].end_idx
    <3>1. list[i] \in Chunk
      BY <2>3 DEF Normal
    <3>2. b \in Nat /\ e \in Nat /\ b < e
      BY <3>1, ChunkParts
    <3>3. e - 1 \in Nat /\ Within(b, list[i]) /\ Within(e - 1, list[i])
      BY <3>2 DEF Within
    <3>4. b \in Covered(list) /\ e - 1 \in Covered(list)
      BY <3>2, <3>3 DEF Covered
    <3> HIDE DEF b, e
    <3>5. low <= b /\ e - 1 < N /\ e - 1 < limit
      BY <2>5, <3>2, <3>3, <3>4
    <3>6. low <= b /\ e <= N /\ e <= limit
      BY <1>2, <3>2, <3>5
    <3> QED
      BY <3>6 DEF b, e
  <2>7. /\ t \in ReassemblerState /\ t.output = r.output /\ t.buffers = list
        /\ t.first_unassembled = r.first_unassembled /\ t.eof_index = known.eof_index
    BY <1>6, <2>3 DEF ReassemblerState, Normal
  <2> HIDE DEF t, w
  <2>8. Limit(t) = limit
    BY <2>7 DEF Limit, limit
  <2>9. Fits(t, N) /\ ~t.output.closed
    BY <1>1, <1>6, <1>11, <2>3, <2>6, <2>7, <2>8 DEF Fits, low
  <2>10. /\ Fits(w, N) /\ ~w.output.closed
         /\ \A i \in 1 .. Len(w.buffers) : w.buffers[i].beg_idx # w.output.pushed
         /\ SameReader(w, t) /\ w.eof_index = t.eof_index /\ Held(w) = Held(t)
    BY <2>9, WriteOutSound DEF w
  <2>11. s = CloseIfDone(w)
    BY <1>6, <1>7, <1>11 DEF w, t, list
  <2>12. /\ SoundReassembler(s, N) /\ SameReader(s, w)
         /\ s.eof_index = w.eof_index /\ Held(s) = Held(w)
    BY <2>10, <2>11, CloseIfDoneSound
  <2>13. SameReader(s, r)
    BY <2>7, <2>10, <2>12 DEF SameReader
  <2>14. Held(s) = Held(r) \cup {x \in Nat : New(x)}
    <3>1. ASSUME NEW x \in Nat
          PROVE  x < low \/ Within(x, itv) <=> x < low \/ New(x)
      BY <1>2, <1>3, <1>5, <2>1, <2>2 DEF Within, Greater, Lesser
    <3>2. \A x \in Nat : x \in Held(s) <=> x \in Held(r) \/ New(x)
      BY <2>3, <2>7, <2>10, <2>12, <3>1 DEF Held, low
    <3>3. \A x \in Held(s) : x \in Nat
      BY DEF Held, Covered
    <3>4. \A x \in Held(r) : x \in Nat
      BY DEF Held, Covered
    <3> HIDE DEF New
    <3> QED
      BY <3>2, <3>3, <3>4
  <2> QED
    BY <1>6, <1>11, <2>7, <2>10, <2>12, <2>13, <2>14 DEF s, data, past, limit
<1> QED
  BY <1>8, <1>10, <1>11

(***************************************************************************)
(* A new reassembler is sound, and reading from its output keeps it so.    *)
(***************************************************************************)
LEMMA NewReassemblerSound ==
    ASSUME NEW N \in Nat, N < UINT64_MAX, NEW capacity \in Nat
    PROVE  LET r == NewReassembler(capacity)
           IN  /\ SoundReassembler(r, N) /\ Held(r) = {}
               /\ r.output.capacity = capacity /\ r.output.pushed = 0
               /\ BytesPopped(r.output) = 0
               /\ r.eof_index = UINT64_MAX /\ ~r.output.closed /\ ~r.output.error
<1> DEFINE q == NewStream(capacity)
           r == NewReassembler(capacity)
<1>1. /\ SoundStream(q) /\ OrderlyBuffer(q) /\ BytesPopped(q) = 0
      /\ q.pushed = 0 /\ q.capacity = capacity /\ q.closed = FALSE /\ q.error = FALSE
  BY NewStreamSound, NewStreamOrderly DEF NewStream
<1> HIDE DEF q
<1>2. UINT64_MAX \in Nat
  BY Widths DEF UINT64_MAX
<1>3. /\ r.output = q /\ r.buffers = << >> /\ r.first_unassembled = 0
      /\ r.eof_index = UINT64_MAX /\ r \in ReassemblerState
  BY <1>1, <1>2 DEF NewReassembler, ReassemblerState, SoundStream, q
<1> HIDE DEF r
<1>4. Normal(r.buffers) /\ Len(r.buffers) = 0
  BY <1>3 DEF Normal
<1>5. Fits(r, N)
  BY <1>1, <1>3, <1>4 DEF Fits
<1>6. SoundReassembler(r, N)
  BY <1>1, <1>3, <1>4, <1>5 DEF SoundReassembler
<1>7. Held(r) = {}
  BY <1>1, <1>3, <1>4 DEF Held, Covered
<1> QED
  BY <1>1, <1>3, <1>6, <1>7 DEF r

(***************************************************************************)
(* A pop by the reader leaves the intervals and what is held as they are,  *)
(* and makes room.                                                         *)
(***************************************************************************)
LEMMA PopSound ==
    ASSUME NEW N \in Nat, NEW r, SoundReassembler(r, N), NEW k \in 0 .. Len(r.output.buf)
    PROVE  LET s == [r EXCEPT !.output = PopBytes(@, k)]
           IN  /\ SoundReassembler(s, N)
               /\ s.output = PopBytes(r.output, k)
               /\ s.output.pushed = r.output.pushed
               /\ s.output.capacity = r.output.capacity
               /\ s.output.closed = r.output.closed
               /\ s.output.error = r.output.error
               /\ s.eof_index = r.eof_index /\ s.buffers = r.buffers
               /\ BytesPopped(s.output) = BytesPopped(r.output) + k
<1> DEFINE q == PopBytes(r.output, k)
           s == [r EXCEPT !.output = q]
<1>1. /\ Fits(r, N) /\ r \in ReassemblerState /\ SoundStream(r.output)
      /\ OrderlyBuffer(r.output) /\ r.output \in Stream
  BY DEF SoundReassembler, Fits, SoundStream
<1>2. /\ SoundStream(q) /\ OrderlyBuffer(q) /\ q \in Stream
      /\ BytesPopped(q) = BytesPopped(r.output) + k
  BY <1>1, PopBytesSound, PopKeepsOrder DEF SoundStream
<1>3. /\ q.pushed = r.output.pushed /\ q.capacity = r.output.capacity
      /\ q.closed = r.output.closed /\ q.error = r.output.error
  BY <1>1 DEF PopBytes, Stream
<1> HIDE DEF q
<1>4. /\ s.output = q /\ s.buffers = r.buffers /\ s \in ReassemblerState
      /\ s.first_unassembled = r.first_unassembled /\ s.eof_index = r.eof_index
  BY <1>1, <1>2 DEF ReassemblerState
<1> HIDE DEF s
<1>5. Limit(r) <= Limit(s) /\ Limit(r) \in Nat /\ Limit(s) \in Nat
  <2>1. /\ BytesPopped(r.output) \in Nat /\ r.output.capacity \in Nat /\ k \in Nat
        /\ Limit(r) = BytesPopped(r.output) + r.output.capacity
    BY <1>1, LimitFixed, LenIsNat DEF Stream
  <2>2. q.pushed \in Nat /\ Len(q.buf) \in Nat /\ q.capacity \in Nat
    BY <1>2, LenIsNat DEF Stream
  <2>3. Limit(s) = q.pushed + (q.capacity - Len(q.buf))
    BY <1>1, <1>3, <1>4 DEF Limit, AvailableCapacity, Fits
  <2>4. Limit(s) = BytesPopped(q) + q.capacity
    BY <2>2, <2>3 DEF BytesPopped
  <2> QED
    BY <1>2, <1>3, <2>1, <2>4
<1>6. Fits(s, N)
  <2>1. ASSUME NEW i \in 1 .. Len(s.buffers)
        PROVE  s.buffers[i].end_idx <= Limit(s)
    <3>1. s.buffers[i] \in Chunk /\ s.buffers[i].end_idx <= Limit(r)
      BY <1>1, <1>4 DEF Fits, Normal
    <3>2. s.buffers[i].end_idx \in Nat
      BY <3>1, ChunkParts
    <3> QED
      BY <1>5, <3>1, <3>2
  <2> QED
    BY <1>1, <1>2, <1>3, <1>4, <2>1 DEF Fits
<1>7. SoundReassembler(s, N)
  BY <1>3, <1>4, <1>6 DEF SoundReassembler
<1> QED
  BY <1>2, <1>3, <1>4, <1>7 DEF s, q

(***************************************************************************)
(* What is written is the longest prefix of what is held.                  *)
(***************************************************************************)
LEMMA HeldPrefix ==
    ASSUME NEW N \in Nat, NEW r, SoundReassembler(r, N)
    PROVE  /\ r.output.pushed \in 0 .. N /\ r.output.pushed \notin Held(r)
           /\ \A x \in Nat : x < r.output.pushed => x \in Held(r)
           /\ Held(r) \subseteq {x \in Nat : x < N /\ x < Limit(r)}
<1> DEFINE low == r.output.pushed
<1>1. /\ low \in Nat /\ low <= Limit(r) /\ low <= N /\ Limit(r) \in Nat
  BY LimitFixed DEF SoundReassembler, Fits
<1>2. ASSUME NEW i \in 1 .. Len(r.buffers)
      PROVE  /\ r.buffers[i].beg_idx \in Nat /\ r.buffers[i].end_idx \in Nat
             /\ low < r.buffers[i].beg_idx
             /\ r.buffers[i].end_idx <= N /\ r.buffers[i].end_idx <= Limit(r)
  <2>1. /\ r.buffers[i] \in Chunk /\ low # r.buffers[i].beg_idx /\ low <= r.buffers[i].beg_idx
        /\ r.buffers[i].end_idx <= N /\ r.buffers[i].end_idx <= Limit(r)
    BY DEF SoundReassembler, Fits, Normal
  <2> QED
    BY <1>1, <2>1, ChunkParts
<1>3. ASSUME NEW x \in Covered(r.buffers) PROVE low < x /\ x < N /\ x < Limit(r)
  <2>1. PICK i \in 1 .. Len(r.buffers) : Within(x, r.buffers[i])
    BY DEF Covered
  <2>2. x \in Nat
    BY DEF Covered
  <2> HIDE DEF low
  <2> QED
    BY <1>1, <1>2, <2>1, <2>2 DEF Within
<1>4. low \notin Covered(r.buffers)
  BY <1>1, <1>3
<1>5. ASSUME NEW x \in Held(r) PROVE x \in Nat /\ x < N /\ x < Limit(r)
  <2>1. x \in Nat
    BY DEF Held, Covered
  <2>2. x < low \/ x \in Covered(r.buffers)
    BY DEF Held
  <2> HIDE DEF low
  <2> QED
    BY <1>1, <1>3, <2>1, <2>2
<1>6. low \notin Held(r)
  <2> DEFINE less == {x \in Nat : x < low}
  <2>1. low \notin less
    BY <1>1
  <2> QED
    BY <1>4, <2>1 DEF Held
<1>7. low \in 0 .. N /\ \A x \in Nat : x < low => x \in Held(r)
  BY <1>1 DEF Held
<1> QED
  BY <1>5, <1>6, <1>7

(***************************************************************************)
(* Who holds more has also pushed at least as much: the output ends at the *)
(* first index that is not held.                                           *)
(***************************************************************************)
LEMMA HeldGrows ==
    ASSUME NEW N \in Nat, NEW r, SoundReassembler(r, N), NEW s, SoundReassembler(s, N),
           Held(r) \subseteq Held(s)
    PROVE  r.output.pushed <= s.output.pushed
<1> DEFINE a == r.output.pushed
           b == s.output.pushed
<1>1. a \in Nat /\ b \in Nat /\ b \notin Held(s) /\ \A x \in Nat : x < a => x \in Held(r)
  BY HeldPrefix
<1> HIDE DEF a, b
<1>2. ~(b < a)
  BY <1>1
<1> QED
  BY <1>1, <1>2 DEF a, b

-----------------------------------------------------------------------------
(***************************************************************************)
(* bytes_pending.  Intervals with gaps between them, all in one range,     *)
(* hold no more bytes than the range has.                                  *)
(***************************************************************************)
LEMMA SumsUnfold ==
    ASSUME NEW list, Normal(list)
    PROVE  LET sum == Sums(list)
           IN  /\ sum \in [0 .. Len(list) -> Nat] /\ sum[0] = 0
               /\ \A k \in 1 .. Len(list) :
                      sum[k] = sum[k - 1] + (list[k].end_idx - list[k].beg_idx)
<1> DEFINE n == Len(list)
           Size(k) == list[k].end_idx - list[k].beg_idx
           f == [k \in 1 .. n |-> [x \in Nat |-> x + Size(k)]]
           sum == Sums(list)
<1>1. n \in Nat
  BY DEF Normal
<1>2. \A k \in 1 .. n : Size(k) \in Nat
  <2> SUFFICES ASSUME NEW k \in 1 .. n PROVE Size(k) \in Nat
    OBVIOUS
  <2>1. list[k] \in Chunk
    BY DEF Normal
  <2> QED
    BY <2>1, ChunkParts
<1>3. f \in [1 .. n -> [Nat -> Nat]]
  <2> HIDE DEF Size
  <2> QED
    BY <1>2
<1> HIDE DEF n
<1>4. PICK h \in [0 .. n -> Nat] : IsIteration(h, n, f, 0)
  <2> DEFINE zero == 0
  <2>1. zero \in Nat
    OBVIOUS
  <2> HIDE DEF f, zero
  <2>2. \E h \in [0 .. n -> Nat] : IsIteration(h, n, f, zero)
    BY <1>1, <1>3, <2>1, Iterates, Zenon
  <2> QED
    BY <2>2 DEF zero
<1>5. ASSUME NEW k \in 1 .. n PROVE h[k] = h[k - 1] + Size(k)
  <2>1. h[k - 1] \in Nat
    BY <1>1, <1>4
  <2>2. h[k] = f[k][h[k - 1]]
    BY <1>4 DEF IsIteration
  <2> HIDE DEF Size
  <2> QED
    BY <2>1, <2>2
<1>6. h = [k \in 0 .. n |-> IF k = 0 THEN 0 ELSE h[k - 1] + Size(k)]
  <2> HIDE DEF f, Size
  <2>1. h = [k \in 0 .. n |-> h[k]]
    BY <1>4
  <2>2. h[0] = 0
    BY <1>4 DEF IsIteration
  <2>3. \A k \in 0 .. n : h[k] = IF k = 0 THEN 0 ELSE h[k - 1] + Size(k)
    BY <1>1, <1>5, <2>2
  <2> QED
    BY <2>1, <2>3
<1>7. sum = [k \in 0 .. n |-> IF k = 0 THEN 0 ELSE sum[k - 1] + Size(k)]
  BY <1>6 DEF Sums, n
<1> HIDE DEF sum, Size
<1>8. sum[0] = 0 /\ \A k \in 1 .. n : sum[k] = sum[k - 1] + Size(k)
  BY <1>1, <1>7
<1>9. \A k \in 0 .. n : sum[k] \in Nat
  <2> DEFINE S == {k \in 0 .. n : sum[k] \in Nat}
  <2>1. 0 \in S
    BY <1>1, <1>8
  <2>2. ASSUME NEW k \in S, k < n PROVE k + 1 \in S
    <3>1. k + 1 \in 1 .. n /\ (k + 1) - 1 = k
      BY <1>1, <2>2
    <3> QED
      BY <1>1, <1>2, <1>8, <3>1
  <2>3. S \in SUBSET (0 .. n)
    OBVIOUS
  <2>4. S = 0 .. n
    <3> HIDE DEF S
    <3> QED
      BY <1>1, <2>1, <2>2, <2>3, BoundedInduction
  <2> QED
    BY <2>4
<1>10. sum \in [0 .. n -> Nat]
  BY <1>7, <1>9
<1> QED
  BY <1>8, <1>10 DEF n, sum, Size

(***************************************************************************)
(* The intervals of a normal list between two indices hold at most as many *)
(* bytes as lie between them.                                              *)
(***************************************************************************)
LEMMA PendingBounded ==
    ASSUME NEW r, Normal(r.buffers), NEW low \in Nat, NEW high \in Nat, low <= high,
           \A i \in 1 .. Len(r.buffers) :
               low <= r.buffers[i].beg_idx /\ r.buffers[i].end_idx <= high
    PROVE  BytesPending(r) \in Nat /\ BytesPending(r) <= high - low
<1> DEFINE list == r.buffers
           n == Len(list)
           sum == Sums(list)
           Reach(k) == IF k = 0 THEN low ELSE list[k].end_idx
           S == {k \in 0 .. n : low + sum[k] <= Reach(k)}
<1>1. n \in Nat /\ Normal(list)
  BY DEF Normal
<1>2. /\ sum \in [0 .. n -> Nat] /\ sum[0] = 0
      /\ \A k \in 1 .. n : sum[k] = sum[k - 1] + (list[k].end_idx - list[k].beg_idx)
  BY <1>1, SumsUnfold
<1>3. \A k \in 1 .. n : /\ list[k].beg_idx \in Nat /\ list[k].end_idx \in Nat
                        /\ list[k].beg_idx < list[k].end_idx
                        /\ low <= list[k].beg_idx /\ list[k].end_idx <= high
  <2> SUFFICES ASSUME NEW k \in 1 .. n
               PROVE  /\ list[k].beg_idx \in Nat /\ list[k].end_idx \in Nat
                      /\ list[k].beg_idx < list[k].end_idx
                      /\ low <= list[k].beg_idx /\ list[k].end_idx <= high
    OBVIOUS
  <2>1. list[k] \in Chunk
    BY DEF Normal
  <2> QED
    BY <2>1, ChunkParts
<1>4. ASSUME NEW k \in 1 .. n, k > 1 PROVE list[k - 1].end_idx < list[k].beg_idx
  <2>1. k - 1 \in 1 .. n /\ k - 1 < k
    BY <1>1, <1>4
  <2> QED
    BY <1>1, <2>1 DEF Normal
<1> HIDE DEF list, n, sum
<1>5. 0 \in S
  BY <1>1, <1>2
<1>6. ASSUME NEW k \in S, k < n PROVE k + 1 \in S
  <2> DEFINE l == k + 1
  <2>1. l \in 1 .. n /\ l - 1 = k /\ k \in 0 .. n /\ low + sum[k] <= Reach(k) /\ l # 0
    BY <1>1, <1>6
  <2>2. Reach(k) <= list[l].beg_idx /\ Reach(k) \in Nat
    <3>1. CASE k = 0
      BY <1>3, <2>1, <3>1
    <3>2. CASE k # 0
      <4>1. l > 1 /\ k \in 1 .. n
        BY <1>1, <2>1, <3>2
      <4>2. list[k].end_idx < list[l].beg_idx
        BY <1>4, <2>1, <4>1
      <4> QED
        BY <1>3, <2>1, <3>2, <4>1, <4>2
    <3> QED
      BY <3>1, <3>2
  <2>3. Reach(l) = list[l].end_idx
    BY <2>1
  <2> HIDE DEF Reach, l, S
  <2>4. sum[l] = sum[k] + (list[l].end_idx - list[l].beg_idx) /\ sum[k] \in Nat
    BY <1>2, <2>1
  <2>5. low + sum[l] <= Reach(l)
    BY <1>3, <2>1, <2>2, <2>3, <2>4
  <2> QED
    BY <1>1, <2>1, <2>5 DEF l, S
<1>7. n \in S
  <2>1. S \in SUBSET (0 .. n)
    OBVIOUS
  <2>2. S = 0 .. n
    <3> HIDE DEF S
    <3> QED
      BY <1>1, <1>5, <1>6, <2>1, BoundedInduction
  <2> HIDE DEF S
  <2> QED
    BY <1>1, <2>2
<1>8. sum[n] \in Nat /\ low + sum[n] <= high
  <2>1. CASE n = 0
    BY <1>2, <2>1
  <2>2. CASE n # 0
    <3>1. n \in 1 .. n /\ Reach(n) = list[n].end_idx
      BY <1>1, <2>2
    <3>2. low + sum[n] <= Reach(n)
      BY <1>7
    <3> HIDE DEF Reach
    <3> QED
      BY <1>1, <1>2, <1>3, <3>1, <3>2
  <2> QED
    BY <2>1, <2>2
<1>9. BytesPending(r) = sum[n]
  BY DEF BytesPending, sum, n, list
<1> QED
  BY <1>8, <1>9

-----------------------------------------------------------------------------
(***************************************************************************)
(* A sound receiver: its reassembler is, and the stream has begun only     *)
(* when the ISN is known.                                                  *)
(***************************************************************************)
SoundReceiver(r, N, zero_point, capacity) ==
    /\ r \in [reassembler : ReassemblerState, isn : {None, zero_point}]
    /\ SoundReassembler(r.reassembler, N)
    /\ r.reassembler.output.capacity = capacity
    /\ r.isn = None => Held(r.reassembler) = {} /\ r.reassembler.eof_index = UINT64_MAX

(***************************************************************************)
(* A stream of N bytes numbered from zero_point for a receiver of that     *)
(* capacity: the absolute numbers stay below half the 64-bit range.        *)
(***************************************************************************)
Bounds(N, zero_point, capacity) ==
    /\ N \in Nat /\ N + 2 < Mod64 \div 2
    /\ zero_point \in Wrap32
    /\ capacity \in Nat \ {0}

(***************************************************************************)
(* What the bounds say of the numbers that occur.                          *)
(***************************************************************************)
LEMMA StreamBounds ==
    ASSUME NEW N, NEW zero_point, NEW capacity, Bounds(N, zero_point, capacity)
    PROVE  /\ N \in Nat /\ N + 2 < Mod64 \div 2 /\ N + 2 < Mod64
           /\ N < UINT64_MAX /\ UINT64_MAX \in Nat
           /\ capacity \in Nat \ {0}
           /\ zero_point \in Wrap32 /\ zero_point \in Nat /\ zero_point # None
BY Widths DEF Bounds, UINT64_MAX, Wrap32, None

(***************************************************************************)
(* What a sound receiver consists of, field by field.                      *)
(***************************************************************************)
LEMMA SoundParts ==
    ASSUME NEW N, NEW zero_point, NEW capacity, Bounds(N, zero_point, capacity),
           NEW r, SoundReceiver(r, N, zero_point, capacity)
    PROVE  /\ Inbound(r) = r.reassembler.output /\ Inbound(r) \in Stream
           /\ Inbound(r).pushed \in 0 .. N
           /\ Inbound(r).closed \in BOOLEAN
           /\ Inbound(r).closed => /\ Inbound(r).pushed = N
                                   /\ r.reassembler.eof_index = N
           /\ AckAbsseq(r) = Inbound(r).pushed + 1 + One(Inbound(r).closed)
           /\ AckAbsseq(r) \in 1 .. N + 2
<1>1. /\ Fits(r.reassembler, N) /\ Inbound(r) = r.reassembler.output
      /\ Inbound(r) \in Stream
  BY DEF SoundReceiver, SoundReassembler, Fits, SoundStream, Inbound
<1>2. Inbound(r).pushed \in 0 .. N /\ Inbound(r).closed \in BOOLEAN
  BY <1>1, StreamBounds DEF Fits, Stream
<1>3. Inbound(r).closed => /\ Inbound(r).pushed = N
                           /\ r.reassembler.eof_index = N
  BY <1>1 DEF SoundReceiver, SoundReassembler
<1>4. AckAbsseq(r) = Inbound(r).pushed + 1 + One(Inbound(r).closed)
  BY DEF AckAbsseq
<1>5. AckAbsseq(r) \in 1 .. N + 2
  BY <1>2, <1>4, StreamBounds DEF One
<1> QED
  BY <1>1, <1>2, <1>3, <1>4, <1>5

(***************************************************************************)
(* Where a segment of the peer's stream goes: unwrap finds its absolute    *)
(* number, and insert gets its bytes at their index.                       *)
(***************************************************************************)
Index(first) == IF first = 0 THEN 0 ELSE first - 1

(***************************************************************************)
(* The segment that starts at absolute number first and carries n bytes of *)
(* the stream; a SYN segment starts at 0.                                  *)
(***************************************************************************)
StreamSegment(zero_point, first, n, fin) ==
    [seqno |-> Wrap(first, zero_point), SYN |-> first = 0, FIN |-> fin, RST |-> FALSE,
     payload |-> BytesFrom(Index(first), n)]

(***************************************************************************)
(* receive hands a segment of the stream to the reassembler at the index   *)
(* of its first byte, through the wrapped number and unwrap: the receiver  *)
(* ends as if the absolute number had been on the wire.                    *)
(***************************************************************************)
LEMMA SegmentPlaced ==
    ASSUME NEW N, NEW zero_point, NEW capacity, Bounds(N, zero_point, capacity),
           NEW r, SoundReceiver(r, N, zero_point, capacity), ~Inbound(r).error,
           NEW first \in 0 .. N + 1, NEW n \in Nat, NEW fin \in BOOLEAN,
           Index(first) + n <= N,
           first = 0 \/ (r.isn # None /\ AckAbsseq(r) - first < Mod32 \div 2),
           first - AckAbsseq(r) < Mod32 \div 2
    PROVE  ReceiveSegment(r, StreamSegment(zero_point, first, n, fin)) =
               [reassembler |-> Insert(r.reassembler, Index(first),
                                       BytesFrom(Index(first), n), fin),
                isn |-> zero_point]
<1> DEFINE msg == StreamSegment(zero_point, first, n, fin)
           synced == [r EXCEPT !.isn = IF @ = None THEN msg.seqno ELSE @]
           ckpt == Inbound(r).pushed + 1
<1>1. /\ msg.seqno = Wrap(first, zero_point) /\ msg.SYN = (first = 0) /\ msg.FIN = fin
      /\ msg.RST = FALSE /\ msg.payload = BytesFrom(Index(first), n)
  BY DEF StreamSegment, Index
<1>2. r \in [reassembler : ReassemblerState, isn : {None, zero_point}]
  BY DEF SoundReceiver
<1> HIDE DEF msg
<1>3. synced = [reassembler |-> r.reassembler, isn |-> zero_point]
  <2>1. CASE first = 0
    <3>1. Wrap(first, zero_point) = zero_point
      <4>1. Wrap(0, zero_point) = zero_point % Mod32
        BY StreamBounds DEF Wrap
      <4> QED
        BY <2>1, <4>1, SmallRemainder, Widths, StreamBounds DEF Wrap32
    <3> QED
      BY <1>1, <1>2, <3>1
  <2>2. CASE r.isn # None
    BY <1>2, <2>2
  <2> QED
    BY <2>1, <2>2
<1> HIDE DEF synced
<1>4. Inbound(synced) = Inbound(r) /\ synced.isn = zero_point /\ synced.reassembler = r.reassembler
  BY <1>3 DEF Inbound
<1>5. StreamIndex(synced, msg) = Index(first)
  <2>1. CASE first = 0
    BY <1>1, <2>1 DEF StreamIndex, Index
  <2>2. CASE first # 0
    <3>1. /\ ckpt \in Nat /\ first \in Nat /\ first < Mod64 \div 2
          /\ first - ckpt < Mod32 \div 2 /\ ckpt - first <= Mod32 \div 2
      BY <2>2, SoundParts, StreamBounds, Widths DEF One
    <3> HIDE DEF ckpt
    <3>2. Unwrap(Wrap(first, zero_point), zero_point, ckpt) = first
      BY <3>1, StreamBounds, UnwrapInvertsWrap
    <3>3. first - 1 \in 0 .. Mod64 - 1
      <4>1. first \in Int /\ 1 <= first /\ first <= N + 1
        BY <2>2, StreamBounds
      <4> QED
        BY <4>1, StreamBounds, Widths
    <3> DEFINE before == first - 1
    <3>4. before % Mod64 = before
      <4> HIDE DEF before
      <4>1. before \in 0 .. Mod64 - 1
        BY <3>3 DEF before
      <4> QED
        BY <4>1, SmallRemainder, Widths
    <3>5. ~msg.SYN
      BY <1>1, <2>2
    <3>6. StreamIndex(synced, msg) = (Unwrap(Wrap(first, zero_point), zero_point, ckpt) - 1) % Mod64
      BY <1>1, <1>4, <3>5 DEF StreamIndex, ckpt
    <3> QED
      BY <2>2, <3>2, <3>4, <3>6 DEF Index
  <2> QED
    BY <2>1, <2>2
<1>6. ReceiveSegment(r, msg) =
          [synced EXCEPT !.reassembler = Insert(@, StreamIndex(synced, msg), msg.payload, msg.FIN)]
  <2>1. ~(r.isn = None /\ ~msg.SYN) /\ ~msg.RST
    BY <1>1
  <2> QED
    BY <2>1 DEF ReceiveSegment, synced
<1> QED
  BY <1>1, <1>3, <1>5, <1>6 DEF msg

-----------------------------------------------------------------------------
(***************************************************************************)
(* How a receiver r may become s: the ISN is kept once known, nothing held *)
(* is given up, a closed stream stays closed, nothing read comes back.     *)
(***************************************************************************)
Later(s, r) ==
    /\ r.isn # None => s.isn = r.isn
    /\ Held(r.reassembler) \subseteq Held(s.reassembler)
    /\ Inbound(r).closed => Inbound(s).closed
    /\ BytesPopped(Inbound(r)) <= BytesPopped(Inbound(s))

(***************************************************************************)
(* Every receiver is as late as itself.                                    *)
(***************************************************************************)
LEMMA LaterItself ==
    ASSUME NEW N, NEW zero_point, NEW capacity, Bounds(N, zero_point, capacity),
           NEW r, SoundReceiver(r, N, zero_point, capacity)
    PROVE  Later(r, r)
<1>1. BytesPopped(Inbound(r)) \in Nat
  BY StreamBounds, LimitFixed DEF SoundReceiver, SoundReassembler, Inbound
<1> QED
  BY <1>1 DEF Later

(***************************************************************************)
(* A segment of the peer's stream keeps the receiver sound, and what it    *)
(* holds afterwards it held before or came with the segment.               *)
(***************************************************************************)
LEMMA SegmentTaken ==
    ASSUME NEW N, NEW zero_point, NEW capacity, Bounds(N, zero_point, capacity),
           NEW r, SoundReceiver(r, N, zero_point, capacity),
           NEW first \in 0 .. N + 1, NEW n \in Nat, NEW fin \in BOOLEAN,
           Index(first) + n <= N,
           fin => Index(first) + n = N,
           first = 0 \/ AckAbsseq(r) - first < Mod32 \div 2,
           first - AckAbsseq(r) < Mod32 \div 2
    PROVE  LET s == ReceiveSegment(r, StreamSegment(zero_point, first, n, fin))
               old == r.reassembler
               new == s.reassembler
           IN  /\ SoundReceiver(s, N, zero_point, capacity) /\ Later(s, r)
               /\ Held(new) \subseteq
                      Held(old) \cup {x \in Nat : Index(first) <= x /\ x < Index(first) + n}
               /\ new.eof_index # old.eof_index => fin
               /\ s.isn # r.isn => first = 0
               /\ Inbound(s).error = Inbound(r).error
               /\ BytesPopped(Inbound(s)) = BytesPopped(Inbound(r))
<1> DEFINE s == ReceiveSegment(r, StreamSegment(zero_point, first, n, fin))
           old == r.reassembler
           new == Insert(old, Index(first), BytesFrom(Index(first), n), fin)
           piece == {x \in Nat : Index(first) <= x /\ x < Index(first) + n}
<1>1. CASE Inbound(r).error \/ (r.isn = None /\ first # 0)
  <2>1. s = r
    BY <1>1 DEF ReceiveSegment, StreamSegment
  <2> HIDE DEF s
  <2> QED
    BY <2>1, LaterItself DEF s
<1>2. CASE ~Inbound(r).error /\ (r.isn # None \/ first = 0)
  <2>1. s = [reassembler |-> new, isn |-> zero_point]
    BY <1>2, SegmentPlaced
  <2>2. /\ SoundReassembler(old, N) /\ old.output.capacity = capacity
        /\ Index(first) \in Nat /\ N \in Nat /\ N < UINT64_MAX
    BY StreamBounds DEF SoundReceiver, Index
  <2> DEFINE idx == Index(first)
  <2>3. idx \in Nat
    BY <2>2
  <2>4. /\ SoundReassembler(new, N) /\ SameReader(new, old)
        /\ IF old.output.closed \/ idx >= old.eof_index \/ idx >= Limit(old)
           THEN new = old
           ELSE /\ new.eof_index = IF fin THEN N ELSE old.eof_index
                /\ Held(new) = Held(old) \cup
                       {x \in Nat : idx <= x /\ x < idx + n /\ x < Limit(old)}
    <3> HIDE DEF idx
    <3> DEFINE t == Insert(old, idx, BytesFrom(idx, n), fin)
    <3>1. idx + n <= N /\ (fin => idx + n = N)
      BY DEF idx
    <3>2. /\ SoundReassembler(t, N) /\ SameReader(t, old)
          /\ IF old.output.closed \/ idx >= old.eof_index \/ idx >= Limit(old)
             THEN t = old
             ELSE /\ t.eof_index = IF fin THEN N ELSE old.eof_index
                  /\ Held(t) = Held(old) \cup
                         {x \in Nat : idx <= x /\ x < idx + n /\ x < Limit(old)}
      <4>1. N \in Nat /\ N < UINT64_MAX /\ SoundReassembler(old, N)
        BY <2>2
      <4> HIDE DEF old
      <4> QED
        BY <2>3, <3>1, <4>1, InsertDelivers
    <3> QED
      BY <3>2 DEF idx
  <2> HIDE DEF new, s, idx
  <2>5. /\ Held(old) \subseteq Held(new) /\ (new.eof_index # old.eof_index => fin)
        /\ (old.output.closed => new.output.closed)
        /\ Held(new) \subseteq Held(old) \cup {x \in Nat : idx <= x /\ x < idx + n}
    BY <2>4
  <2>6. SoundReceiver(s, N, zero_point, capacity)
    <3>1. new \in ReassemblerState /\ new.output.capacity = capacity
      BY <2>2, <2>4 DEF SoundReassembler, Fits, SameReader
    <3> QED
      BY <2>1, <2>4, <3>1, StreamBounds DEF SoundReceiver
  <2>7. Later(s, r)
    <3>1. r.isn # None => s.isn = r.isn
      BY <2>1 DEF SoundReceiver
    <3>2. BytesPopped(new.output) = BytesPopped(old.output) /\ BytesPopped(old.output) \in Nat
      BY <2>2, <2>4, LimitFixed DEF SameReader, SoundReassembler
    <3> QED
      BY <2>1, <2>5, <3>1, <3>2 DEF Later, Inbound
  <2>8. s.isn # r.isn => first = 0
    BY <1>2, <2>1 DEF SoundReceiver
  <2>9. /\ Inbound(s).error = Inbound(r).error
        /\ BytesPopped(Inbound(s)) = BytesPopped(Inbound(r))
    BY <2>1, <2>4 DEF Inbound, SameReader
  <2> QED
    BY <2>1, <2>5, <2>6, <2>7, <2>8, <2>9 DEF idx, s
<1> QED
  BY <1>1, <1>2

(***************************************************************************)
(* An empty segment (no SYN, no bytes, no FIN: an acknowledgment or a      *)
(* keep-alive) changes nothing, whatever number it carries.                *)
(***************************************************************************)
LEMMA EmptyIgnored ==
    ASSUME NEW N, NEW zero_point, NEW capacity, Bounds(N, zero_point, capacity),
           NEW r, SoundReceiver(r, N, zero_point, capacity), NEW msg \in SenderMessage,
           ~msg.SYN, ~msg.FIN, ~msg.RST, msg.payload = << >>
    PROVE  ReceiveSegment(r, msg) = r
<1> DEFINE synced == [r EXCEPT !.isn = IF @ = None THEN msg.seqno ELSE @]
           old == r.reassembler
           k == StreamIndex(r, msg)
<1>1. r \in [reassembler : ReassemblerState, isn : {None, zero_point}]
  BY DEF SoundReceiver
<1>2. CASE Inbound(r).error \/ r.isn = None
  BY <1>2 DEF ReceiveSegment
<1>3. CASE ~Inbound(r).error /\ r.isn # None
  <2>1. synced = r /\ r.isn = zero_point
    BY <1>1, <1>3
  <2> HIDE DEF synced
  <2>2. k \in Nat
    <3> DEFINE ckpt == Inbound(r).pushed + 1
               absseq == Unwrap(msg.seqno, r.isn, ckpt)
               before == absseq - 1
    <3>1. msg.seqno \in Wrap32 /\ ckpt \in Nat /\ r.isn \in Wrap32
      BY <2>1, SoundParts, StreamBounds DEF SenderMessage
    <3>2. absseq \in Int
      <4> HIDE DEF ckpt
      <4> QED
        BY <3>1, UnwrapType
    <3>3. k = before % Mod64
      BY DEF StreamIndex
    <3>4. before \in Int
      <4> HIDE DEF absseq
      <4> QED
        BY <3>2
    <3> HIDE DEF before, k
    <3>5. before % Mod64 \in 0 .. Mod64 - 1
      BY <3>4, Widths, Remainder
    <3> QED
      BY <3>3, <3>5, Widths
  <2> HIDE DEF k
  <2>3. Insert(old, k, << >>, FALSE) = old
    <3>1. /\ SoundReassembler(old, N) /\ Fits(old, N) /\ old \in ReassemblerState
          /\ old.first_unassembled = old.output.pushed
          /\ old.output.pushed \in Nat /\ old.output.pushed <= N
          /\ old.eof_index \in {N, UINT64_MAX} /\ Limit(old) \in Nat
          /\ N \in Nat /\ UINT64_MAX \in Nat /\ N < UINT64_MAX
      <4>1. N \in Nat /\ SoundReassembler(old, N) /\ Fits(old, N)
        BY StreamBounds DEF SoundReceiver, SoundReassembler
      <4>2. old.output.pushed \in Nat /\ AvailableCapacity(old.output) \in Nat
            /\ Limit(old) = old.output.pushed + AvailableCapacity(old.output)
        BY <4>1, LimitFixed
      <4> QED
        BY <4>1, <4>2, StreamBounds DEF Fits
    <3>2. ~old.output.closed => CloseIfDone(old) = old
      BY <3>1 DEF CloseIfDone, SoundReassembler
    <3>3. Lesser(k + 0, Limit(old)) <= Greater(k, old.first_unassembled)
      BY <2>2, <3>1 DEF Lesser, Greater
    <3>4. LearnEof(old, k, << >>, FALSE) = old
      BY DEF LearnEof
    <3>5. Len(<< >>) = 0
      OBVIOUS
    <3> HIDE DEF old
    <3> QED
      BY <3>2, <3>3, <3>4, <3>5 DEF Insert
  <2>4. ReceiveSegment(r, msg) =
            [synced EXCEPT !.reassembler = Insert(@, StreamIndex(synced, msg), msg.payload, msg.FIN)]
    BY <1>3 DEF ReceiveSegment, synced
  <2>5. Insert(old, StreamIndex(r, msg), msg.payload, msg.FIN) = old
    <3>1. msg.FIN = FALSE
      BY DEF SenderMessage
    <3> QED
      BY <2>3, <3>1 DEF k
  <2> QED
    BY <1>1, <2>1, <2>4, <2>5
<1> QED
  BY <1>2, <1>3

(***************************************************************************)
(* A segment that resets the connection, and the receiver after n bytes    *)
(* have been read from its stream.                                         *)
(***************************************************************************)
ResetSegment(zero_point) == [StreamSegment(zero_point, 1, 0, FALSE) EXCEPT !.RST = TRUE]

AfterRead(r, n) == [r EXCEPT !.reassembler.output = PopBytes(@, n)]

(***************************************************************************)
(* A reset sets the error flag and nothing else, and a read takes bytes    *)
(* that have been written.                                                 *)
(***************************************************************************)
LEMMA ResetTaken ==
    ASSUME NEW N, NEW zero_point, NEW capacity, Bounds(N, zero_point, capacity),
           NEW r, SoundReceiver(r, N, zero_point, capacity)
    PROVE  LET s == ReceiveSegment(r, ResetSegment(zero_point))
           IN  /\ SoundReceiver(s, N, zero_point, capacity) /\ Later(s, r)
               /\ Held(s.reassembler) = Held(r.reassembler)
               /\ s.reassembler.eof_index = r.reassembler.eof_index /\ s.isn = r.isn
<1> DEFINE msg == ResetSegment(zero_point)
           old == r.reassembler
           out == SetError(old.output)
           new == [old EXCEPT !.output = out]
           s == [reassembler |-> new, isn |-> r.isn]
<1>1. msg.RST = TRUE
  BY DEF StreamSegment, ResetSegment
<1> HIDE DEF msg
<1>2. ReceiveSegment(r, msg) = IF Inbound(r).error THEN r ELSE SetInboundError(r)
  BY <1>1 DEF ReceiveSegment
<1>3. /\ r \in [reassembler : ReassemblerState, isn : {None, zero_point}]
      /\ SoundReassembler(old, N) /\ old \in ReassemblerState
      /\ Fits(old, N) /\ SoundStream(old.output) /\ OrderlyBuffer(old.output)
      /\ old.output \in Stream
  BY DEF SoundReceiver, SoundReassembler, Fits, SoundStream
<1>4. SetInboundError(r) = s
  BY <1>3 DEF SetInboundError, ReassemblerState
<1>5. /\ SoundStream(out) /\ out \in Stream /\ OrderlyBuffer(out)
      /\ BytesPopped(out) = BytesPopped(old.output)
  BY <1>3, FlagsSound, FlagsKeepOrder
<1>6. /\ out.capacity = old.output.capacity /\ out.pushed = old.output.pushed
      /\ out.closed = old.output.closed /\ out.buf = old.output.buf
  BY <1>3 DEF SetError, Stream
<1> HIDE DEF out
<1>7. /\ new \in ReassemblerState /\ new.output = out /\ new.buffers = old.buffers
      /\ new.first_unassembled = old.first_unassembled /\ new.eof_index = old.eof_index
  BY <1>3, <1>5 DEF ReassemblerState
<1> HIDE DEF new
<1>8. Limit(new) = Limit(old) /\ Held(new) = Held(old)
  BY <1>6, <1>7 DEF Limit, AvailableCapacity, Held
<1>9. SoundReassembler(new, N)
  <2> HIDE DEF old
  <2>1. Fits(new, N)
    BY <1>3, <1>5, <1>6, <1>7, <1>8 DEF Fits
  <2> QED
    BY <1>3, <1>6, <1>7, <2>1 DEF SoundReassembler
<1>10. SoundReceiver(s, N, zero_point, capacity)
  <2>1. /\ s \in [reassembler : ReassemblerState, isn : {None, zero_point}]
        /\ s.reassembler = new /\ s.isn = r.isn
    BY <1>3, <1>7
  <2> HIDE DEF s
  <2> QED
    BY <1>6, <1>7, <1>8, <1>9, <2>1 DEF SoundReceiver
<1>11. Later(s, r)
  <2>1. BytesPopped(old.output) \in Nat
    BY <1>3, StreamBounds, LimitFixed
  <2> QED
    BY <1>5, <1>6, <1>7, <1>8, <2>1 DEF Later, Inbound
<1>12. s.reassembler = new /\ s.isn = r.isn
  OBVIOUS
<1> HIDE DEF s
<1> QED
  BY <1>2, <1>4, <1>7, <1>8, <1>10, <1>11, <1>12, LaterItself DEF msg

(***************************************************************************)
(* A read by the application leaves a sound receiver that holds the same   *)
(* bytes and makes no promise smaller.                                     *)
(***************************************************************************)
LEMMA ReadTaken ==
    ASSUME NEW N, NEW zero_point, NEW capacity, Bounds(N, zero_point, capacity),
           NEW r, SoundReceiver(r, N, zero_point, capacity), NEW n \in 0 .. Len(Inbound(r).buf)
    PROVE  LET s == AfterRead(r, n)
           IN  /\ SoundReceiver(s, N, zero_point, capacity) /\ Later(s, r)
               /\ Held(s.reassembler) = Held(r.reassembler)
               /\ s.reassembler.eof_index = r.reassembler.eof_index /\ s.isn = r.isn
               /\ Inbound(s).error = Inbound(r).error /\ Inbound(s).closed = Inbound(r).closed
               /\ Inbound(s).pushed = Inbound(r).pushed /\ AckAbsseq(s) = AckAbsseq(r)
<1> DEFINE old == r.reassembler
           new == [old EXCEPT !.output = PopBytes(@, n)]
           s == [reassembler |-> new, isn |-> r.isn]
<1>1. /\ r \in [reassembler : ReassemblerState, isn : {None, zero_point}]
      /\ SoundReassembler(old, N) /\ old \in ReassemblerState
      /\ n \in 0 .. Len(old.output.buf)
  BY DEF SoundReceiver, Inbound
<1>2. AfterRead(r, n) = s
  BY <1>1 DEF AfterRead
<1>3. /\ SoundReassembler(new, N)
      /\ new.output.pushed = old.output.pushed /\ new.output.capacity = old.output.capacity
      /\ new.output.closed = old.output.closed /\ new.output.error = old.output.error
      /\ new.eof_index = old.eof_index /\ new.buffers = old.buffers
      /\ BytesPopped(new.output) = BytesPopped(old.output) + n
  BY <1>1, StreamBounds, PopSound
<1> HIDE DEF new
<1>4. Held(new) = Held(old)
  BY <1>3 DEF Held
<1>5. SoundReceiver(s, N, zero_point, capacity)
  <2>1. new \in ReassemblerState
    BY <1>3 DEF SoundReassembler, Fits
  <2>2. /\ s \in [reassembler : ReassemblerState, isn : {None, zero_point}]
        /\ s.reassembler = new /\ s.isn = r.isn
    BY <1>1, <2>1
  <2> HIDE DEF s
  <2> QED
    BY <1>3, <1>4, <2>2 DEF SoundReceiver
<1>6. Later(s, r)
  <2>1. BytesPopped(old.output) \in Nat
    BY <1>1, StreamBounds, LimitFixed DEF SoundReassembler
  <2> QED
    BY <1>1, <1>3, <1>4, <2>1 DEF Later, Inbound
<1>7. s.reassembler = new /\ s.isn = r.isn
  OBVIOUS
<1>8. /\ Inbound(s).error = Inbound(r).error /\ Inbound(s).closed = Inbound(r).closed
      /\ Inbound(s).pushed = Inbound(r).pushed /\ AckAbsseq(s) = AckAbsseq(r)
  BY <1>3, <1>7 DEF Inbound, AckAbsseq
<1> HIDE DEF s
<1> QED
  BY <1>2, <1>3, <1>4, <1>5, <1>6, <1>7, <1>8

(***************************************************************************)
(* A receiver that does not know the end of the stream yet is as sound for *)
(* a longer one: the sender's application may go on writing.               *)
(***************************************************************************)
LEMMA StreamGrows ==
    ASSUME NEW N, NEW zero_point, NEW capacity, Bounds(N, zero_point, capacity),
           NEW M, Bounds(M, zero_point, capacity), N <= M,
           NEW r, SoundReceiver(r, N, zero_point, capacity),
           N = M \/ r.reassembler.eof_index = UINT64_MAX
    PROVE  SoundReceiver(r, M, zero_point, capacity)
<1> DEFINE old == r.reassembler
<1>1. CASE N = M
  BY <1>1
<1>2. CASE N # M
  <2>1. /\ SoundReassembler(old, N) /\ old.eof_index = UINT64_MAX
        /\ N \in Nat /\ M \in Nat /\ N < UINT64_MAX /\ M < UINT64_MAX /\ UINT64_MAX \in Nat
    BY <1>2, StreamBounds DEF SoundReceiver
  <2> HIDE DEF old
  <2>2. Fits(old, M)
    <3>1. ASSUME NEW i \in 1 .. Len(old.buffers) PROVE old.buffers[i].end_idx <= M
      <4>1. old.buffers[i] \in Chunk /\ old.buffers[i].end_idx <= N
        BY <2>1 DEF SoundReassembler, Fits, Normal
      <4>2. old.buffers[i].end_idx \in Nat
        BY <4>1, ChunkParts
      <4> QED
        BY <2>1, <4>1, <4>2
    <3>2. old.output.pushed <= M
      BY <2>1, LimitFixed DEF SoundReassembler, Fits
    <3> QED
      BY <2>1, <3>1, <3>2 DEF SoundReassembler, Fits
  <2>3. SoundReassembler(old, M)
    BY <2>1, <2>2 DEF SoundReassembler
  <2> QED
    BY <2>3 DEF SoundReceiver, old
<1> QED
  BY <1>1, <1>2

(***************************************************************************)
(* The ackno does not move back when a receiver moves on.                  *)
(***************************************************************************)
LEMMA AckAdvances ==
    ASSUME NEW N, NEW zero_point, NEW capacity, Bounds(N, zero_point, capacity),
           NEW r, SoundReceiver(r, N, zero_point, capacity),
           NEW s, SoundReceiver(s, N, zero_point, capacity), Later(s, r)
    PROVE  /\ Inbound(r).pushed <= Inbound(s).pushed
           /\ AckAbsseq(r) <= AckAbsseq(s)
<1>1. Inbound(r).pushed <= Inbound(s).pushed
  BY StreamBounds, HeldGrows DEF SoundReceiver, Later, Inbound
<1>2. Inbound(r).closed => Inbound(s).closed
  BY DEF Later
<1>3. Inbound(r).pushed \in Nat /\ Inbound(s).pushed \in Nat
  BY SoundParts, StreamBounds
<1>4. /\ AckAbsseq(r) = Inbound(r).pushed + 1 + One(Inbound(r).closed)
      /\ AckAbsseq(s) = Inbound(s).pushed + 1 + One(Inbound(s).closed)
  BY DEF AckAbsseq
<1> QED
  BY <1>1, <1>2, <1>3, <1>4 DEF One

(***************************************************************************)
(* A new receiver is sound, for any stream.                                *)
(***************************************************************************)
LEMMA NewReceiverSound ==
    ASSUME NEW N, NEW zero_point, NEW capacity, Bounds(N, zero_point, capacity)
    PROVE  LET r == NewReceiver(capacity)
           IN  /\ SoundReceiver(r, N, zero_point, capacity)
               /\ r.isn = None /\ Held(r.reassembler) = {}
               /\ r.reassembler.eof_index = UINT64_MAX
               /\ ~Inbound(r).error /\ ~Inbound(r).closed /\ Inbound(r).pushed = 0
<1> DEFINE old == NewReassembler(capacity)
           r == NewReceiver(capacity)
<1>1. r = [reassembler |-> old, isn |-> None]
  BY DEF NewReceiver
<1>2. /\ SoundReassembler(old, N) /\ Held(old) = {}
      /\ old.output.capacity = capacity /\ old.eof_index = UINT64_MAX
      /\ old.output.pushed = 0 /\ ~old.output.closed /\ ~old.output.error
  BY StreamBounds, NewReassemblerSound
<1> HIDE DEF old
<1>3. old \in ReassemblerState
  BY <1>2 DEF SoundReassembler, Fits
<1>4. r \in [reassembler : ReassemblerState, isn : {None, zero_point}]
      /\ r.reassembler = old /\ r.isn = None
  BY <1>1, <1>3
<1> HIDE DEF r
<1> QED
  BY <1>2, <1>4 DEF SoundReceiver, Inbound, r
=============================================================================
